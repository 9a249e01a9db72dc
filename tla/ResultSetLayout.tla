--------------------------- MODULE ResultSetLayout ---------------------------
(***************************************************************************)
(* Buffer geometry of a ResultSet's storages and the readers that locate a *)
(* value in it (src/QueryEngine/ResultSetIteration.cpp): getRowAt through  *)
(* getTargetValueFromBufferRowwise / Colwise, the RowWise and ColumnWise   *)
(* target accessors, and isEmptyEntry / isEmptyEntryColumnar.              *)
(* A pointer is a byte offset from the start of the storage's buffer; a    *)
(* read is the record [at, width].  Values and types are abstracted to a  *)
(* target's kind: one slot, or two (AVG sum and count, string pointer and  *)
(* length), or a copy of a group-by key read from the key region.  The    *)
(* layout is chosen in Init and does not change; the invariants compare   *)
(* every reader with where the producer writes (spec.md 4.1).             *)
(***************************************************************************)
EXTENDS Integers, Sequences, SequencesExt

CONSTANTS
  QueryTypes,     \* QueryDescriptionType values considered
  Kinds,          \* target kinds considered: "plain", "avg", "varlen"
  KeyWidths,      \* effective key widths (group_col_compact_width_ or 8)
  SlotWidths,     \* padded widths of a value slot
  EntryCounts,    \* entry counts a storage may have
  MaxTargets,     \* bound on targets_.size()
  MaxKeys,        \* bound on the group-by columns
  MaxStorages     \* bound on storage_ plus appended_storage_

VARIABLES
  layout,         \* the ResultSet's query_mem_desc_ and targets_
  counts          \* entry count of storage_ then of each appended storage

vars == <<layout, counts>>

Null == -1      \* nullptr, and a target_groupby_index that is negative

align_to_int64(n) == ((n + 7) \div 8) * 8

\* advance_slot, with separate_varlen_storage_valid_ false
TwoSlots(t) == t.kind \in {"avg", "varlen"}
advance_slot(slot, t) == IF TwoSlots(t) THEN slot + 2 ELSE slot + 1

\* the first slot of each target
SlotOf(L, ti) == FoldLeft(LAMBDA s, t : advance_slot(s, t), 0, SubSeq(L.targets, 1, ti - 1))

Width(L, slot) == L.slots[slot + 1]

getKeyCount(L) == IF L.keyless THEN 0 ELSE L.keyCount

\* get_key_bytes_rowwise and the padded key region of a row
KeyBytesPadded(L) == align_to_int64(getKeyCount(L) * L.keyWidth)

\* get_row_bytes
RowBytes(L) == align_to_int64(KeyBytesPadded(L) + FoldLeft(+, 0, L.slots))

\* QueryMemoryDescriptor::getPaddedColWidthForRange(offset, range)
getPaddedColWidthForRange(L, offset, range) ==
  FoldLeft(+, 0, [i \in 1..range |-> Width(L, offset + i - 1)])

\* row_ptr_rowwise
row_ptr_rowwise(L, e) == e * RowBytes(L)

\* get_cols_ptr: the value columns follow the key columns
get_cols_ptr(L, n) == align_to_int64(getKeyCount(L) * L.keyWidth * n)

\* advance_to_next_columnar_target_buff
advance_to_next_columnar_target_buff(L, n, ptr, slot) ==
  ptr + align_to_int64(Width(L, slot) * n)

\* advance_target_ptr_row_wise and advance_target_ptr_col_wise
advance_target_ptr_row_wise(L, ptr, t, slot) ==
  ptr + Width(L, slot) + (IF TwoSlots(t) THEN Width(L, slot + 1) ELSE 0)

advance_target_ptr_col_wise(L, n, ptr, t, slot) ==
  LET p == advance_to_next_columnar_target_buff(L, n, ptr, slot)
  IN  IF TwoSlots(t) THEN advance_to_next_columnar_target_buff(L, n, p, slot + 1) ELSE p

columnar_elem_ptr(e, col, sz) == col + sz * e

\* QueryMemoryDescriptor::getColOffInBytes
getColOffInBytes(L, n, slot) ==
  IF L.columnar
  THEN get_cols_ptr(L, n) + FoldLeft(+, 0, [i \in 1..slot |-> align_to_int64(Width(L, i - 1) * n)])
  ELSE KeyBytesPadded(L) + getPaddedColWidthForRange(L, 0, slot)

isSingleColumnGroupByWithPerfectHash(L) ==
  L.qtype = "GroupByPerfectHash" /\ L.keyCount = 1

Read(at, w) == [at |-> at, width |-> w]
NoRead == Read(Null, 0)

\* mutant: idx_target_as_key_ holding the target's index, not its slot
getTargetIdxForKey_target(L) == L.keyTarget - 1

\* the slot that doubles as the empty marker of a keyless layout
\* (idx_target_as_key_, set by the producer to the designated target's slot)
getTargetIdxForKey(L) == SlotOf(L, L.keyTarget)

-----------------------------------------------------------------------------
(* Readers                                                                  *)

\* getTargetValueFromBufferRowwise: the reads of one target, from the
\* target pointer of its row and the row's key pointer
getTargetValueFromBufferRowwise(L, tptr, kptr, t, slot) ==
  LET sz1 == IF isSingleColumnGroupByWithPerfectHash(L) /\ ~L.keyless /\ ~t.agg
             THEN L.logical[slot + 1] ELSE Width(L, slot)
  IN  IF TwoSlots(t)
      THEN <<Read(tptr, sz1), Read(tptr + Width(L, slot), Width(L, slot + 1))>>
      ELSE IF t.gb = Null THEN <<Read(tptr, sz1), NoRead>>
      ELSE <<Read(kptr + t.gb * L.keyWidth, L.keyWidth), NoRead>>

\* getTargetValueFromBufferColwise: n is the storage's entry count, rsN
\* the ResultSet's (query_mem_desc_.getEntryCount(), used for the keys)
getTargetValueFromBufferColwise(L, n, rsN, col, kptr, e, t, slot) ==
  LET sz1  == Width(L, slot)
      next == advance_to_next_columnar_target_buff(L, n, col, slot)
  IN  IF TwoSlots(t)
      THEN <<Read(columnar_elem_ptr(e, col, sz1), sz1),
             Read(columnar_elem_ptr(e, next, Width(L, slot + 1)), Width(L, slot + 1))>>
      ELSE IF t.gb = Null THEN <<Read(columnar_elem_ptr(e, col, sz1), sz1), NoRead>>
      ELSE <<Read(columnar_elem_ptr(e, kptr + t.gb * rsN * L.keyWidth, L.keyWidth),
                  L.keyWidth), NoRead>>

\* mutant: agg_col_idx advanced by one per target, like target_idx
getRowAt_slotPerTarget(L, n, rsN, e) ==
  LET step(acc, t) ==
        [ptr  |-> IF L.columnar
                  THEN advance_target_ptr_col_wise(L, n, acc.ptr, t, acc.slot)
                  ELSE advance_target_ptr_row_wise(L, acc.ptr, t, acc.slot),
         slot |-> acc.slot + 1,
         row  |-> Append(acc.row,
                    IF L.columnar
                    THEN getTargetValueFromBufferColwise(L, n, rsN, acc.ptr, 0, e, t, acc.slot)
                    ELSE getTargetValueFromBufferRowwise(L, acc.ptr, row_ptr_rowwise(L, e), t, acc.slot))]
      start == [ptr  |-> IF L.columnar THEN get_cols_ptr(L, n)
                         ELSE row_ptr_rowwise(L, e) + KeyBytesPadded(L),
                slot |-> 0, row |-> <<>>]
  IN  FoldLeft(step, start, L.targets).row

\* getOneColRow(global_entry_idx) for a non-empty entry e of a row-wise
\* layout (it CHECKs the layout is not columnar): the first target, read
\* from slot 0 behind the padded keys
getOneColRow(L, e) ==
  getTargetValueFromBufferRowwise(L, row_ptr_rowwise(L, e) + KeyBytesPadded(L),
                                  row_ptr_rowwise(L, e), L.targets[1], 0)

\* getRowAt(global_entry_idx, ...) for a non-empty entry e of a storage with
\* n entries: the reads of every target, in order
getRowAt(L, n, rsN, e) ==
  LET step(acc, t) ==
        [ptr  |-> IF L.columnar
                  THEN advance_target_ptr_col_wise(L, n, acc.ptr, t, acc.slot)
                  ELSE advance_target_ptr_row_wise(L, acc.ptr, t, acc.slot),
         slot |-> advance_slot(acc.slot, t),
         row  |-> Append(acc.row,
                    IF L.columnar
                    THEN getTargetValueFromBufferColwise(L, n, rsN, acc.ptr, 0, e, t, acc.slot)
                    ELSE getTargetValueFromBufferRowwise(L, acc.ptr, row_ptr_rowwise(L, e), t, acc.slot))]
      start == [ptr  |-> IF L.columnar THEN get_cols_ptr(L, n)
                         ELSE row_ptr_rowwise(L, e) + KeyBytesPadded(L),
                slot |-> 0, row |-> <<>>]
  IN  FoldLeft(step, start, L.targets).row

\* mutant: no key_width_ fallback for a slot of width 0
RowWiseOffsets_noKeyWidth(L) ==
  LET step(acc, t) ==
        [ptr  |-> advance_target_ptr_row_wise(L, acc.ptr, t, acc.slot),
         slot |-> advance_slot(acc.slot, t),
         offs |-> Append(acc.offs,
                    [ptr1 |-> acc.ptr, compact_sz1 |-> Width(L, acc.slot),
                     ptr2 |-> IF TwoSlots(t) THEN acc.ptr + Width(L, acc.slot) ELSE Null,
                     compact_sz2 |-> IF TwoSlots(t) THEN Width(L, acc.slot + 1) ELSE 0])]
  IN  FoldLeft(step, [ptr |-> 0, slot |-> 0, offs |-> <<>>], L.targets).offs

\* RowWiseTargetAccessor::initializeOffsetsForStorage: offsets relative to
\* the row's target pointer, the same for every storage
RowWiseOffsets(L) ==
  LET step(acc, t) ==
        LET sz1 == IF Width(L, acc.slot) # 0 THEN Width(L, acc.slot) ELSE L.keyWidth
        IN  [ptr  |-> advance_target_ptr_row_wise(L, acc.ptr, t, acc.slot),
             slot |-> advance_slot(acc.slot, t),
             offs |-> Append(acc.offs,
                        [ptr1 |-> acc.ptr, compact_sz1 |-> sz1,
                         ptr2 |-> IF TwoSlots(t) THEN acc.ptr + sz1 ELSE Null,
                         compact_sz2 |-> IF TwoSlots(t) THEN Width(L, acc.slot + 1) ELSE 0])]
  IN  FoldLeft(step, [ptr |-> 0, slot |-> 0, offs |-> <<>>], L.targets).offs

\* RowWiseTargetAccessor::getColumnInternal
RowWiseGetColumn(L, e, ti) ==
  LET o    == RowWiseOffsets(L)[ti]
      t    == L.targets[ti]
      keys == e * RowBytes(L)
      tptr == keys + KeyBytesPadded(L)
      ptr1 == IF t.gb # Null THEN keys + t.gb * L.keyWidth ELSE tptr + o.ptr1
  IN  <<Read(ptr1, o.compact_sz1),
        IF TwoSlots(t) THEN Read(tptr + o.ptr2, o.compact_sz2) ELSE NoRead>>

\* mutant: the second column taken right after the first slot's element,
\* as in the row-wise accessor
ColumnWiseOffsets_rowwiseSecond(L, n) ==
  LET step(acc, t) ==
        LET sz1  == IF Width(L, acc.slot) # 0 THEN Width(L, acc.slot) ELSE L.keyWidth
            next == advance_to_next_columnar_target_buff(L, n, acc.ptr, acc.slot)
        IN  [ptr  |-> IF TwoSlots(t)
                      THEN advance_to_next_columnar_target_buff(L, n, next, acc.slot + 1)
                      ELSE next,
             slot |-> advance_slot(acc.slot, t),
             offs |-> Append(acc.offs,
                        [ptr1 |-> acc.ptr, compact_sz1 |-> sz1,
                         ptr2 |-> IF TwoSlots(t) THEN acc.ptr + sz1 ELSE Null,
                         compact_sz2 |-> IF TwoSlots(t) THEN Width(L, acc.slot + 1) ELSE 0])]
  IN  FoldLeft(step, [ptr |-> get_cols_ptr(L, n), slot |-> 0, offs |-> <<>>], L.targets).offs

\* ColumnWiseTargetAccessor::initializeOffsetsForStorage for a storage of
\* n entries: absolute column pointers
ColumnWiseOffsets(L, n) ==
  LET step(acc, t) ==
        LET sz1  == IF Width(L, acc.slot) # 0 THEN Width(L, acc.slot) ELSE L.keyWidth
            next == advance_to_next_columnar_target_buff(L, n, acc.ptr, acc.slot)
        IN  [ptr  |-> IF TwoSlots(t)
                      THEN advance_to_next_columnar_target_buff(L, n, next, acc.slot + 1)
                      ELSE next,
             slot |-> advance_slot(acc.slot, t),
             offs |-> Append(acc.offs,
                        [ptr1 |-> acc.ptr, compact_sz1 |-> sz1,
                         ptr2 |-> IF TwoSlots(t) THEN next ELSE Null,
                         compact_sz2 |-> IF TwoSlots(t) THEN Width(L, acc.slot + 1) ELSE 0])]
  IN  FoldLeft(step, [ptr |-> get_cols_ptr(L, n), slot |-> 0, offs |-> <<>>], L.targets).offs

\* ColumnWiseTargetAccessor::getColumnInternal; rsN is
\* result_set_->query_mem_desc_.entry_count_
ColumnWiseGetColumn(L, n, rsN, e, ti) ==
  LET o    == ColumnWiseOffsets(L, n)[ti]
      t    == L.targets[ti]
      ptr1 == IF t.gb # Null THEN 0 + t.gb * L.keyWidth * rsN ELSE o.ptr1
  IN  <<Read(columnar_elem_ptr(e, ptr1, o.compact_sz1), o.compact_sz1),
        IF TwoSlots(t) THEN Read(columnar_elem_ptr(e, o.ptr2, o.compact_sz2), o.compact_sz2)
        ELSE NoRead>>

\* advance_col_buff_to_slot: the column of slot_idx, walking the targets
advance_col_buff_to_slot(L, n, slot_idx) ==
  LET step(acc, t) ==
        IF acc.found # Null THEN acc
        ELSE IF acc.slot = slot_idx THEN [acc EXCEPT !.found = acc.ptr]
        ELSE LET p == advance_to_next_columnar_target_buff(L, n, acc.ptr, acc.slot)
             IN  IF t.kind = "avg" /\ acc.slot + 1 = slot_idx
                 THEN [acc EXCEPT !.found = p]
                 ELSE [ptr   |-> IF t.kind = "avg"
                                 THEN advance_to_next_columnar_target_buff(L, n, p, acc.slot + 1)
                                 ELSE p,
                       slot  |-> advance_slot(acc.slot, t),
                       found |-> Null]
  IN  FoldLeft(step, [ptr |-> get_cols_ptr(L, n), slot |-> 0, found |-> Null],
               L.targets).found

\* result_set::get_byteoff_of_slot
get_byteoff_of_slot(L, slot) == getPaddedColWidthForRange(L, 0, slot)

\* isEmptyEntryColumnar: the read that decides emptiness, NoRead when the
\* entry is non-empty by construction
isEmptyEntryColumnar(L, n, e) ==
  CASE L.qtype = "NonGroupedAggregate" -> NoRead
    [] L.qtype = "TableFunction"       -> NoRead
    [] L.keyless ->
         LET k == getTargetIdxForKey(L) IN
         Read(advance_col_buff_to_slot(L, n, k) + e * Width(L, k), Width(L, k))
    [] L.qtype = "Projection" -> Read(8 * e, 8)
    [] OTHER -> Read(0 + e * L.keyWidth, L.keyWidth)

\* ResultSetStorage::isEmptyEntry(entry_idx, buff)
isEmptyEntry(L, n, e) ==
  CASE L.qtype = "NonGroupedAggregate" -> NoRead
    [] L.columnar -> isEmptyEntryColumnar(L, n, e)
    [] L.keyless ->
         LET k == getTargetIdxForKey(L) IN
         Read(row_ptr_rowwise(L, e) + get_byteoff_of_slot(L, k), Width(L, k))
    [] OTHER -> Read(row_ptr_rowwise(L, e), L.keyWidth)

\* the memcpy chunks of a column copy, in output order: [storage, from,
\* bytes], the source offset taken with each storage's own entry count
\* (offs[s] is the column's offset in storage s)
CopyChunks(cs, w, offs) ==
  FoldLeft(LAMBDA acc, s :
             IF s > 1 /\ cs[s] = 0 THEN acc
             ELSE Append(acc, [storage |-> s, from |-> offs[s], bytes |-> cs[s] * w]),
           <<>>, [i \in DOMAIN cs |-> i])

\* mutant: every storage's column taken at the offset it has in storage_
copyColumnIntoBuffer_mainOffset(L, cs, slot, size) ==
  LET w      == Width(L, slot)
      chunks == CopyChunks(cs, w, [s \in DOMAIN cs |-> getColOffInBytes(L, cs[1], slot)])
      outOff == [k \in DOMAIN chunks |-> FoldLeft(+, 0, [i \in 1..(k - 1) |-> chunks[i].bytes])]
  IN
  IF slot < Len(L.slots) /\ size > 0 /\ chunks[1].bytes <= size /\
          \A k \in 2..Len(chunks) : outOff[k] < size /\ outOff[k] + chunks[k].bytes <= size
  THEN [ok |-> TRUE, chunks |-> [k \in DOMAIN chunks |-> chunks[k] @@ [to |-> outOff[k]]]]
  ELSE [ok |-> FALSE]

\* copyColumnIntoBuffer(column_idx, output_buffer, output_buffer_size):
\* storage_'s column, then each non-empty appended storage's, copied back
\* to back; the CHECKs on the slot and on the output size fail as Abort
copyColumnIntoBuffer(L, cs, slot, size) ==
  LET w      == Width(L, slot)
      chunks == CopyChunks(cs, w, [s \in DOMAIN cs |-> getColOffInBytes(L, cs[s], slot)])
      outOff == [k \in DOMAIN chunks |-> FoldLeft(+, 0, [i \in 1..(k - 1) |-> chunks[i].bytes])]
  IN
  IF slot < Len(L.slots) /\ size > 0 /\ chunks[1].bytes <= size /\
          \A k \in 2..Len(chunks) : outOff[k] < size /\ outOff[k] + chunks[k].bytes <= size
  THEN [ok |-> TRUE, chunks |-> [k \in DOMAIN chunks |-> chunks[k] @@ [to |-> outOff[k]]]]
  ELSE [ok |-> FALSE]

-----------------------------------------------------------------------------
(* The layouts QueryMemoryDescriptor produces (spec.md 3 and 4.1)           *)

GroupBy == {"GroupByPerfectHash", "GroupByBaselineHash"}

\* targets a query type has: a GROUP BY projects only its keys besides
\* aggregates (a varlen aggregate is SAMPLE of a string or array), and a
\* target that repeats group-by key k (target_groupby_indices_) exists only
\* in baseline-hash layouts
TargetChoices(q, kc) ==
  LET proj  == [kind : {"plain", "varlen"} \cap Kinds, agg : {FALSE}, gb : {Null}]
      aggs  == [kind : Kinds, agg : {TRUE}, gb : {Null}]
      plain == [kind : {"plain"}, agg : {FALSE}, gb : {Null}]
      keys  == [kind : {"plain"}, agg : {FALSE}, gb : 0..(kc - 1)]
  IN  CASE q \in {"Projection", "TableFunction"} -> proj
        [] q = "NonGroupedAggregate"            -> aggs
        [] q = "GroupByPerfectHash"             -> aggs \cup plain
        [] OTHER                                -> aggs \cup plain \cup keys

KeyCounts(q) ==
  CASE q \in {"NonGroupedAggregate", "TableFunction"} -> {0}
    [] q = "Projection" -> {1}
    [] OTHER -> 1..MaxKeys

\* the padded widths: a key target has no slot of its own (width 0)
SlotChoices(ts) ==
  LET ns     == FoldLeft(LAMBDA s, t : advance_slot(s, t), 0, ts)
      keySlot == {FoldLeft(LAMBDA s, t : advance_slot(s, t), 0, SubSeq(ts, 1, i - 1)) + 1 :
                    i \in {i \in DOMAIN ts : ts[i].gb # Null}}
  IN  {w \in [1..ns -> SlotWidths \cup {0}] : \A i \in 1..ns : (w[i] = 0) = (i \in keySlot)}

LayoutsFor(q, kc) ==
  LET ks == IF q = "GroupByPerfectHash" /\ kc = 1 THEN BOOLEAN ELSE {FALSE}
      Ts == UNION {[1..m -> TargetChoices(q, kc)] : m \in 1..MaxTargets}
  IN  UNION {UNION {
        {[qtype |-> q, columnar |-> col, keyless |-> kl, keyCount |-> kc,
          keyWidth |-> kw, targets |-> ts, slots |-> w, logical |-> lg,
          keyTarget |-> kt] :
           col \in (IF q = "TableFunction" THEN {TRUE} ELSE BOOLEAN),
           kw \in (IF q = "GroupByBaselineHash" THEN KeyWidths ELSE {8}),
           lg \in (IF q = "GroupByPerfectHash" /\ kc = 1 /\ ~kl
                   THEN {g \in [DOMAIN w -> SlotWidths] : \A i \in DOMAIN w : g[i] <= w[i]}
                   ELSE {w}),
           kt \in (IF kl THEN {i \in DOMAIN ts : ts[i].kind = "plain" /\ ts[i].agg}
                   ELSE {0})}
        : w \in SlotChoices(ts)} : ts \in Ts, kl \in ks}

Layouts == UNION {UNION {LayoutsFor(q, kc) : kc \in KeyCounts(q)} : q \in QueryTypes}

\* entry counts of storage_ and the appended storages: only a projection
\* or table function result may append storages of another entry count
CountChoices(q) ==
  IF q \in {"Projection", "TableFunction"}
  THEN UNION {[1..m -> EntryCounts] : m \in 1..MaxStorages}
  ELSE UNION {{[i \in 1..m |-> c] : c \in EntryCounts} : m \in 1..MaxStorages}

Init ==
  /\ layout \in Layouts
  /\ counts \in CountChoices(layout.qtype)

Next == UNCHANGED vars

Spec == Init /\ [][Next]_vars

-----------------------------------------------------------------------------
(* Where the producer writes (spec.md 4.1, 6): key k and value slot j of   *)
(* entry e of a storage with n entries                                      *)

KeyCell(L, n, e, k) ==
  IF L.columnar THEN Read(k * L.keyWidth * n + e * L.keyWidth, L.keyWidth)
  ELSE Read(row_ptr_rowwise(L, e) + k * L.keyWidth, L.keyWidth)

SlotCell(L, n, e, j) ==
  IF L.columnar THEN Read(getColOffInBytes(L, n, j) + e * Width(L, j), Width(L, j))
  ELSE Read(row_ptr_rowwise(L, e) + getColOffInBytes(L, n, j), Width(L, j))

\* the cells holding target ti: its key, or its one or two slots
TargetCells(L, n, e, ti) ==
  LET t == L.targets[ti]
      j == SlotOf(L, ti)
  IN  IF t.gb # Null THEN <<KeyCell(L, n, e, t.gb), NoRead>>
      ELSE <<SlotCell(L, n, e, j), IF TwoSlots(t) THEN SlotCell(L, n, e, j + 1) ELSE NoRead>>

\* a read of the cell's first bytes (a logical width may be narrower)
Covers(r, c) == r.at = c.at /\ 0 < r.width /\ r.width <= c.width

CoversAll(rs, cs) ==
  /\ Covers(rs[1], cs[1])
  /\ IF cs[2] = NoRead THEN rs[2] = NoRead ELSE Covers(rs[2], cs[2])

Entries(s) == 0..(counts[s] - 1)

\* ResultSet::entryCount() without a permutation: query_mem_desc_'s entry
\* count, which ResultSet::append sets to the storages' counts summed
\* (spec.md 8)
entryCount == FoldLeft(+, 0, counts)

-----------------------------------------------------------------------------

TypeOK ==
  /\ layout \in Layouts
  /\ counts \in Seq(EntryCounts) /\ 1 <= Len(counts) /\ Len(counts) <= MaxStorages

\* getRowAt(global_entry_idx) of entries of storage s reads target ti where
\* the producer wrote it, and so does getOneColRow for the first target of a
\* row-wise layout
RowAtReadsTargetsIn(s, ti) ==
  \A e \in Entries(s) :
    /\ CoversAll(getRowAt(layout, counts[s], entryCount, e)[ti],
                 TargetCells(layout, counts[s], e, ti))
    /\ ~layout.columnar =>
         CoversAll(getOneColRow(layout, e), TargetCells(layout, counts[s], e, 1))

\* A columnar read of group-by key k >= 1 steps k columns of the ResultSet's
\* entryCount() (getTargetValueFromBufferColwise, ColumnWiseTargetAccessor's
\* offsets); the storage's producer laid its key columns out with its own
\* entry count.  The two differ in a storage of a result with appended
\* storages.
AppendedKeyColumn(s, ti) ==
  /\ layout.columnar
  /\ layout.targets[ti].gb \notin {Null, 0}
  /\ counts[s] # entryCount

\* getRowAt(global_entry_idx) on any storage, row-wise or columnar, reads
\* every target (AVG and string targets both slots, key targets the key
\* region) exactly where the storage's producer wrote it: the walk of
\* agg_col_idx with advance_slot and advance_target_ptr_* keeps the pointer
\* on the target's slot, and the key pointer of each layout is the entry's
\* key.  Key columns >= 1 of an appended columnar result are excluded: there
\* getTargetValueFromBufferColwise misreads (two storages of one entry: key
\* 1 read at byte 2 * key width, written at 1 * key width).
RowAtReadsTargetsOutsideAppendedKeys ==
  \A s \in DOMAIN counts, ti \in DOMAIN layout.targets :
    ~AppendedKeyColumn(s, ti) => RowAtReadsTargetsIn(s, ti)

\* The target accessor of the layout (RowWiseTargetAccessor or
\* ColumnWiseTargetAccessor, offsets precomputed once per storage) reads
\* what the producer wrote for every storage, entry and target, outside a
\* key column >= 1 of an appended columnar result (AppendedKeyColumn, where
\* the ColumnWise offsets take the same summed count as getRowAt); spec.md
\* 4.3 requires both strategies to yield the same values as the layout.
AccessorReadsTargetsOutsideAppendedKeys ==
  \A s \in DOMAIN counts, ti \in DOMAIN layout.targets :
    ~AppendedKeyColumn(s, ti) => \A e \in Entries(s) :
      CoversAll(IF layout.columnar
                THEN ColumnWiseGetColumn(layout, counts[s], entryCount, e, ti)
                ELSE RowWiseGetColumn(layout, e, ti),
                TargetCells(layout, counts[s], e, ti))

\* isEmptyEntry, row-wise and columnar, tests the entry's own marker: the
\* first key of a keyed GROUP BY or projection, the designated target's
\* slot of a keyless layout, and nothing where entries are never empty.
EmptinessReadsMarker ==
  \A s \in DOMAIN counts : \A e \in Entries(s) :
    isEmptyEntry(layout, counts[s], e) =
      CASE layout.qtype \in {"NonGroupedAggregate", "TableFunction"} -> NoRead
        [] layout.keyless -> SlotCell(layout, counts[s], e, SlotOf(layout, layout.keyTarget))
        [] OTHER -> KeyCell(layout, counts[s], e, 0)

\* isEmptyEntry tests the entry's own marker in every layout but the one
\* where advance_col_buff_to_slot walks the columns: a keyless columnar
\* layout whose marker target follows a string or array target (two slots
\* that the walk counts as one).  The run layout_keyless_varlen shows that
\* layout reading the wrong column.
EmptinessReadsMarkerOutsideVarlenWalk ==
  ~(layout.keyless /\ layout.columnar /\
    \E i \in 1..(layout.keyTarget - 1) : layout.targets[i].kind = "varlen")
    => EmptinessReadsMarker

\* copyColumnIntoBuffer of any value slot of a columnar layout, into a
\* buffer of one element per entry of every storage, succeeds whenever there
\* is an entry (empty appended storages are skipped, not checked against the
\* end of the buffer) and puts the element of global entry g (storages
\* concatenated in order) exactly where the producer wrote that entry's slot
\* in its own storage.
ColumnCopyMatchesCells ==
  layout.columnar /\ FoldLeft(+, 0, counts) > 0 =>
    \A j \in {j \in DOMAIN layout.slots : layout.slots[j] > 0} :
      LET slot == j - 1
          w    == Width(layout, slot)
          r    == copyColumnIntoBuffer(layout, counts, slot, FoldLeft(+, 0, counts) * w)
      IN  /\ r.ok
          /\ \A s \in DOMAIN counts : \A e \in Entries(s) :
               LET g == FoldLeft(+, 0, SubSeq(counts, 1, s - 1)) + e
                   k == CHOOSE k \in DOMAIN r.chunks : r.chunks[k].storage = s
               IN  r.chunks[k].from + (g * w - r.chunks[k].to) = SlotCell(layout, counts[s], e, slot).at

====
