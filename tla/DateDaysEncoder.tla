---------------------------- MODULE DateDaysEncoder ----------------------------
(***************************************************************************)
(* The chunk statistics of DateDaysEncoder<T, V>                           *)
(* (src/DataMgr/DateDaysEncoder.h).  The encoder stores a DATE column as   *)
(* days in V, takes epoch seconds in T, and keeps dataMin / dataMax (in    *)
(* seconds, of the decoded day) and has_nulls over the chunk's elements.   *)
(* The chunk is modelled as the buffer's elements (encoded days or the     *)
(* null sentinel) and num_elems_, the number of them that belong to it.   *)
(***************************************************************************)
EXTENDS Integers, Sequences, SequencesExt

CONSTANTS
  SecondsPerDay,  \* the day length used by DateConverters
  VMin, VMax,     \* numeric_limits<V>::min() (the null sentinel) and max()
  TLowest, TMax,  \* numeric_limits<T>::lowest() and max()
  Inputs,         \* epoch-second values a caller passes to appendData
  Encoded,        \* encoded day values a caller passes to appendEncodedData
  MaxBatch,       \* bound on num_elems_to_append
  MaxElems        \* bound on the buffer length

VARIABLES
  buffer,         \* the encoded elements written to buffer_
  numElems,       \* num_elems_
  dataMin, dataMax, has_nulls,
  exact           \* history: the stats are exactly those of the chunk

vars == <<buffer, numElems, dataMin, dataMax, has_nulls, exact>>

\* DateConverters::get_epoch_days_from_seconds (floor division)
EpochDays(s) == s \div SecondsPerDay

\* DateConverters::get_epoch_seconds_from_days
EpochSeconds(d) == d * SecondsPerDay

\* date_days_overflow_validator_.validate throws for days outside V
Overflows(s) == EpochDays(s) <= VMin \/ EpochDays(s) > VMax

Stats == [min : Int, max : Int, nulls : BOOLEAN]

\* resetChunkStats
ResetStats == [min |-> TMax, max |-> TLowest, nulls |-> FALSE]

\* fold one decoded seconds value into the stats
Widen(st, t) == [st EXCEPT !.min = IF t < @ THEN t ELSE @,
                           !.max = IF t > @ THEN t ELSE @]

\* encodeDataAndUpdateStats, stats part
EncodeStats(st, s) ==
  IF s = VMin THEN [st EXCEPT !.nulls = TRUE]
  ELSE Widen(st, EpochSeconds(EpochDays(s)))

\* encodeDataAndUpdateStats, value part
Encode(s) == IF s = VMin THEN VMin ELSE EpochDays(s)

\* updateStatsWithAlreadyEncoded
EncodedStats(st, e) ==
  IF e = VMin THEN [st EXCEPT !.nulls = TRUE] ELSE Widen(st, EpochSeconds(e))

\* the index of the first value the validator rejects, 0 if none
FirstOverflow(vals) ==
  LET bad == {i \in 1..Len(vals) : vals[i] # VMin /\ Overflows(vals[i])}
  IN  IF bad = {} THEN 0 ELSE Min(bad)

CurStats == [min |-> dataMin, max |-> dataMax, nulls |-> has_nulls]

SetStats(st) ==
  /\ dataMin' = st.min /\ dataMax' = st.max /\ has_nulls' = st.nulls

Chunk == SubSeq(buffer, 1, numElems)

\* the stats recomputed from the chunk's elements
ChunkStats == FoldLeft(EncodedStats, ResetStats, Chunk)

Batches == UNION {[1..n -> Inputs] : n \in 1..MaxBatch}

-----------------------------------------------------------------------------

\* the constructor calls resetChunkStats on an empty buffer
Init ==
  /\ buffer = <<>> /\ numElems = 0
  /\ dataMin = TMax /\ dataMax = TLowest /\ has_nulls = FALSE
  /\ exact = TRUE

\* mutant: stats reset on every covering append, whatever the offset
ResetsStats_anyOffset(n, offset) == n >= numElems

\* mutant: reset only when the rewrite is longer than the chunk
ResetsStats_strict(n, offset) == offset = 0 /\ n > numElems

\* the condition under which appendEncodedOrUnencodedData resets the stats
ResetsStats(n, offset) == offset = 0 /\ n >= numElems

\* appendEncodedOrUnencodedData(src, n, ti, replicating, offset, false),
\* reached through appendData.  offset is -1 (append at the end) or 0
\* (rewrite from the start).  Stats are reset first when the rewrite covers
\* every element, then widened value by value while encoding; a value the
\* validator rejects throws out of the loop, before anything is written.
AppendData(vals, replicating, offset) ==
  LET n     == Len(vals)
      src   == IF replicating THEN [i \in 1..n |-> vals[1]] ELSE vals
      reset == ResetsStats(n, offset)
      start == IF reset THEN ResetStats ELSE CurStats
      k     == FirstOverflow(src)
  IN  /\ replicating => offset = -1
      /\ IF k # 0
         THEN /\ SetStats(FoldLeft(EncodeStats, start, SubSeq(src, 1, k - 1)))
              /\ exact' = FALSE
              /\ UNCHANGED <<buffer, numElems>>
         ELSE LET enc == [i \in 1..n |-> Encode(src[i])] IN
              /\ SetStats(FoldLeft(EncodeStats, start, src))
              /\ IF offset = -1
                 THEN /\ numElems + n <= MaxElems
                      /\ buffer' = buffer \o enc
                      /\ numElems' = numElems + n
                      /\ exact' = exact
                 ELSE /\ buffer' = enc
                      /\ numElems' = n
                      /\ exact' = (n >= numElems)

\* mutant: the encoded append does not count the new elements
AppendEncodedData_noCount(data) ==
  /\ numElems + Len(data) <= MaxElems
  /\ SetStats(FoldLeft(EncodedStats, CurStats, data))
  /\ buffer' = buffer \o data
  /\ UNCHANGED <<numElems, exact>>

\* appendEncodedData / appendEncodedDataAtIndices: already encoded days are
\* appended (offset -1) in runs of contiguous selected indices; each run
\* widens the stats with updateStatsWithAlreadyEncoded.
AppendEncodedData(data) ==
  /\ numElems + Len(data) <= MaxElems
  /\ SetStats(FoldLeft(EncodedStats, CurStats, data))
  /\ buffer' = buffer \o data
  /\ numElems' = numElems + Len(data)
  /\ UNCHANGED exact

\* updateStats(const int8_t* src, n): encodeDataAndUpdateStats on each value
\* without storing it; the validator may throw part way.
UpdateStatsFromBuffer(vals) ==
  LET k == FirstOverflow(vals)
      done == IF k = 0 THEN vals ELSE SubSeq(vals, 1, k - 1)
  IN  /\ SetStats(FoldLeft(EncodeStats, CurStats, done))
      /\ exact' = FALSE
      /\ UNCHANGED <<buffer, numElems>>

\* updateStats(int64_t val, is_null), for synthesized metadata
UpdateStats(val, is_null) ==
  /\ SetStats(IF is_null THEN [CurStats EXCEPT !.nulls = TRUE]
              ELSE Widen(CurStats, val))
  /\ exact' = FALSE
  /\ UNCHANGED <<buffer, numElems>>

\* reduceStats(that): merge another encoder's stats
ReduceStats(that) ==
  /\ SetStats([min |-> IF that.min < dataMin THEN that.min ELSE dataMin,
               max |-> IF that.max > dataMax THEN that.max ELSE dataMax,
               nulls |-> has_nulls \/ that.nulls])
  /\ exact' = FALSE
  /\ UNCHANGED <<buffer, numElems>>

EncodedBatches == UNION {[1..n -> Encoded] : n \in 1..MaxBatch}

OtherStats ==
  {[min |-> EpochSeconds(e), max |-> EpochSeconds(e), nulls |-> b] :
     e \in Encoded \ {VMin}, b \in BOOLEAN}

Next ==
  \/ \E vals \in Batches, rep \in BOOLEAN, off \in {-1, 0} : AppendData(vals, rep, off)
  \/ \E data \in EncodedBatches : AppendEncodedData(data)
  \/ \E vals \in Batches : UpdateStatsFromBuffer(vals)
  \/ \E v \in Inputs \ {VMin}, nul \in BOOLEAN : UpdateStats(v, nul)
  \/ \E that \in OtherStats : ReduceStats(that)

Spec == Init /\ [][Next]_vars

-----------------------------------------------------------------------------

TypeOK ==
  /\ buffer \in Seq(Int) /\ numElems = Len(buffer) /\ numElems <= MaxElems
  /\ dataMin \in Int /\ dataMax \in Int /\ has_nulls \in BOOLEAN
  /\ exact \in BOOLEAN

\* ChunkStats soundness, which fragment skipping relies on: every element
\* of the chunk lies within [dataMin, dataMax] after decoding, and
\* has_nulls is set if a null sentinel is stored, across appends, full and
\* partial rewrites from offset 0, and validator failures part way.
StatsCoverChunk ==
  \A i \in 1..numElems :
     IF buffer[i] = VMin THEN has_nulls
     ELSE dataMin <= EpochSeconds(buffer[i]) /\ EpochSeconds(buffer[i]) <= dataMax

\* The reset in appendEncodedOrUnencodedData keeps the stats tight: after a
\* rewrite of the whole chunk, and appends since, they are exactly the
\* stats of the chunk's elements.
StatsExactAfterRewrite == exact => CurStats = ChunkStats

====
