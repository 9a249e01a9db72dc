-------------------------- MODULE RangeJoinHashTable --------------------------
(***************************************************************************)
(* Building the hash table of a range join                                 *)
(* (src/QueryEngine/JoinHashTable/RangeJoinHashTable.cpp) and the          *)
(* per-device table map of its base class HashJoin                         *)
(* (src/QueryEngine/JoinHashTable/HashJoin.h).                             *)
(*                                                                         *)
(* Several RangeJoinHashTable instances (one per query) are built over the *)
(* same inner table and share the CPU hash-table cache under one key.      *)
(* Each runs getInstance / reifyWithLayout in its caller's thread: a cache *)
(* lookup under cpu_hash_table_buff_mutex_ when the table is built on the  *)
(* CPU, else the key counts and one std::async reifyForDevice thread per   *)
(* device, which builds the table (putting a CPU build into the cache) and *)
(* then emplaces it into hash_tables_for_device_ under hash_tables_mutex_. *)
(* The caller waits for every thread.  A row of the inner column is        *)
(* abstracted to the set of bucket keys its point emits; a table to the    *)
(* entry count and the payload capacity (emitted_keys_count) it was built  *)
(* with.  Sharding is not modelled: a range join builds over a geometry    *)
(* column, which is never a shard key, so every device gets every fragment.*)
(***************************************************************************)
EXTENDS Integers, Sequences, SequencesExt, FiniteSets, Bitwise

CONSTANTS
  Queries,          \* RangeJoinHashTable instances over the inner table
  GpuDevices,       \* device_ids_ when the query runs on GPUs
  Buckets,          \* bucket keys a point of the inner column may emit
  MaxRows,          \* bound on the rows of the inner table
  MaxHashEntries,   \* HashJoin::MAX_NUM_HASH_ENTRIES
  MaxBucketKey,     \* bound on |bucket key| of an outer point, per dimension
  HalfBits          \* width of one packed offset (32 in the code; TLC's
                    \* integers are 32-bit, so the cfg scales the words down)

None == [entries |-> -1, capacity |-> -1]

VARIABLES
  rows,             \* the inner column: bucket keys emitted by each row
  noFragments,      \* query_info.fragments.empty()
  memoryLevel,      \* q -> memory_level_
  effectiveLevel,   \* q -> effective_memory_level_ (where the build runs)
  phase,            \* q -> how far getInstance / reifyWithLayout has got
  counts,           \* q -> [entries, emitted] from computeRangeHashTableCounts
  threads,          \* q -> device -> state of its reifyForDevice thread
  hashTables,       \* q -> device -> table (hash_tables_for_device_)
  cache             \* the cached CPU table under hashtable_cache_key_

vars == <<rows, noFragments, memoryLevel, effectiveLevel, phase, counts,
          threads, hashTables, cache>>

\* the devices the instance builds for: the CPU is device 0
DevicesOf(q) == IF memoryLevel[q] = "CPU" THEN {0} ELSE GpuDevices

Devices == {0} \cup GpuDevices

NoTables == [d \in Devices |-> None]

NoThreads == [d \in Devices |-> "none"]

Table(c) == [entries |-> c.entries, capacity |-> c.emitted]

\* approximate_distinct_tuples_range: per row, the keys emitted by the rows
\* up to it (an inclusive prefix sum, num_keys_for_row)
NumKeysForRow(r) ==
  [i \in 1..Len(r) |-> FoldLeft(LAMBDA acc, s : acc + Cardinality(s), 0, SubSeq(r, 1, i))]

\* the distinct bucket keys of the inner column (the HyperLogLog estimate
\* is taken as exact)
DistinctKeys(r) == Cardinality(UNION Range(r))

\* mutant: the emitted key count read one row early
approximateTupleCount_beforeLast(q) ==
  LET n == Len(rows) IN
  IF n = 0 THEN [tuples |-> 0, emitted |-> 0]
  ELSE LET perDevice == IF n > 1 THEN NumKeysForRow(rows)[n - 1] ELSE 0
       IN  [tuples |-> DistinctKeys(rows),
            emitted |-> IF effectiveLevel[q] = "CPU" THEN perDevice
                        ELSE Cardinality(DevicesOf(q)) * perDevice]

\* approximateTupleCount: (0, 0) when the first device has no rows; on the
\* CPU the last entry of num_keys_for_row; on GPUs each device thread reads
\* the last entry of its own row-count buffer and the counts are summed
approximateTupleCount(q) ==
  LET n == Len(rows) IN
  IF n = 0 THEN [tuples |-> 0, emitted |-> 0]
  ELSE LET perDevice == NumKeysForRow(rows)[n]
       IN  [tuples |-> DistinctKeys(rows),
            emitted |-> IF effectiveLevel[q] = "CPU" THEN perDevice
                        ELSE Cardinality(DevicesOf(q)) * perDevice]

\* mutant: the entry count without its floor of one tuple
computeRangeHashTableCounts_noFloor(q) ==
  LET a == approximateTupleCount(q)
  IN  [entries |-> 2 * a.tuples, emitted |-> a.emitted]

\* computeRangeHashTableCounts: twice the distinct keys, at least 2 entries
\* (get_entries_per_device leaves them alone without shards)
computeRangeHashTableCounts(q) ==
  LET a == approximateTupleCount(q)
  IN  [entries |-> 2 * (IF a.tuples > 1 THEN a.tuples ELSE 1), emitted |-> a.emitted]

-----------------------------------------------------------------------------

Init ==
  /\ rows \in UNION {[1..n -> SUBSET Buckets] : n \in 0..MaxRows}
  /\ noFragments \in BOOLEAN
  /\ noFragments => rows = <<>>
  /\ memoryLevel \in [Queries -> {"CPU", "GPU"}]
  /\ effectiveLevel \in [Queries -> {"CPU", "GPU"}]
  /\ \A q \in Queries : memoryLevel[q] = "CPU" => effectiveLevel[q] = "CPU"
  /\ phase = [q \in Queries |-> "idle"]
  /\ counts = [q \in Queries |-> [entries |-> 0, emitted |-> 0]]
  /\ threads = [q \in Queries |-> NoThreads]
  /\ hashTables = [q \in Queries |-> NoTables]
  /\ cache = None

\* getInstance up to the cache lookup: TooManyHashEntries when twice the
\* row count exceeds the limit, reifyWithLayout's early return without
\* fragments, and, for a GPU build, the counts and the device threads.
\* The column fetch per device, the bucket sizes and the cache key that
\* reifyWithLayout computes before the lookup are the fixed rows and the one
\* cache key of the model (every device gets every fragment: a range join's
\* inner geometry column is never a shard key)
getInstance(q) ==
  /\ phase[q] = "idle"
  /\ IF 2 * Len(rows) > MaxHashEntries
     THEN /\ phase' = [phase EXCEPT ![q] = "rejected"]
          /\ UNCHANGED <<counts, threads>>
     ELSE IF noFragments
     THEN /\ phase' = [phase EXCEPT ![q] = "done"]
          /\ UNCHANGED <<counts, threads>>
     ELSE IF effectiveLevel[q] = "CPU"
     THEN /\ phase' = [phase EXCEPT ![q] = "lookup"]
          /\ UNCHANGED <<counts, threads>>
     ELSE /\ phase' = [phase EXCEPT ![q] = "building"]
          /\ counts' = [counts EXCEPT ![q] = computeRangeHashTableCounts(q)]
          /\ threads' = [threads EXCEPT ![q] =
                           [d \in Devices |-> IF d \in DevicesOf(q) THEN "started" ELSE "none"]]
  /\ UNCHANGED <<rows, noFragments, memoryLevel, effectiveLevel, hashTables, cache>>

\* reifyWithLayout, CPU build: under cpu_hash_table_buff_mutex_ look the
\* key up in the cache; a hit is copied to every GPU (copyCpuHashTableToGpu)
\* or put for CPU device 0 and ends the build; a miss computes the counts
\* and starts one reifyForDevice thread per device
LookupCache(q) ==
  /\ phase[q] = "lookup"
  /\ IF cache # None
     THEN /\ hashTables' = [hashTables EXCEPT ![q] =
                              [d \in Devices |-> IF d \in DevicesOf(q) THEN cache ELSE None]]
          /\ phase' = [phase EXCEPT ![q] = "done"]
          /\ UNCHANGED <<counts, threads>>
     ELSE /\ phase' = [phase EXCEPT ![q] = "building"]
          /\ counts' = [counts EXCEPT ![q] = computeRangeHashTableCounts(q)]
          /\ threads' = [threads EXCEPT ![q] =
                           [d \in Devices |-> IF d \in DevicesOf(q) THEN "started" ELSE "none"]]
          /\ UNCHANGED hashTables
  /\ UNCHANGED <<rows, noFragments, memoryLevel, effectiveLevel, cache>>

\* initHashTableOnCpu: the built table is put into the cache under the
\* first device's key (the recycler keeps an entry already there)
initHashTableOnCpu(q) == IF cache = None THEN Table(counts[q]) ELSE cache

\* initHashTableOnGpu, and the builder call of initHashTableOnCpu: the join
\* column and bucket sizes go to the device and BaselineJoinHashTableBuilder
\* builds from the entry info of the counts; a nonzero err (a kernel error)
\* throws HashJoinFail, as does a failed device allocation
HashJoinFail == [entries |-> 0, capacity |-> -1]   \* the thrown HashJoinFail, no table

BuildOutcomes(q) == {Table(counts[q]), HashJoinFail}

\* reifyForDevice, first half: the table built by initHashTableOnCpu, or by
\* initHashTableOnGpu on the device; a throw comes before
\* initHashTableOnCpu puts anything into the cache and ends the thread with
\* the exception stored in its future
reifyForDevice_build(q, d) ==
  /\ threads[q][d] = "started"
  /\ \E t \in BuildOutcomes(q) :
       IF t = HashJoinFail
       THEN /\ threads' = [threads EXCEPT ![q][d] = "threw"]
            /\ UNCHANGED cache
       ELSE /\ threads' = [threads EXCEPT ![q][d] = "built"]
            /\ cache' = IF effectiveLevel[q] = "CPU" THEN initHashTableOnCpu(q) ELSE cache
  /\ UNCHANGED <<rows, noFragments, memoryLevel, effectiveLevel, phase, counts, hashTables>>

\* reifyForDevice, second half: moveHashTableForDevice (or the copy to the
\* GPU) emplaces the table under hash_tables_mutex_; CHECK(success) aborts
\* when the device already has one
reifyForDevice_move(q, d) ==
  /\ threads[q][d] = "built"
  /\ threads' = [threads EXCEPT ![q][d] = "moved"]
  /\ IF hashTables[q][d] = None
     THEN /\ hashTables' = [hashTables EXCEPT ![q][d] = Table(counts[q])]
          /\ UNCHANGED phase
     ELSE /\ phase' = [phase EXCEPT ![q] = "failed"]
          /\ UNCHANGED hashTables
  /\ UNCHANGED <<rows, noFragments, memoryLevel, effectiveLevel, counts, cache>>

\* a device thread has finished, normally or with an exception
Finished == {"moved", "threw"}

\* mutant: wait() on every thread but no get(), so an exception is lost
JoinThreads_noGet(q) ==
  /\ phase[q] = "building"
  /\ \A d \in DevicesOf(q) : threads[q][d] \in Finished
  /\ phase' = [phase EXCEPT ![q] = "done"]
  /\ UNCHANGED <<rows, noFragments, memoryLevel, effectiveLevel, counts, threads, hashTables, cache>>

\* reifyWithLayout: wait() on every init thread, then get() on each, which
\* rethrows the first stored exception out of getInstance, leaving the
\* tables the other threads emplaced in hash_tables_for_device_
JoinThreads(q) ==
  /\ phase[q] = "building"
  /\ \A d \in DevicesOf(q) : threads[q][d] \in Finished
  /\ phase' = [phase EXCEPT ![q] =
                  IF \E d \in DevicesOf(q) : threads[q][d] = "threw" THEN "thrown" ELSE "done"]
  /\ UNCHANGED <<rows, noFragments, memoryLevel, effectiveLevel, counts, threads, hashTables, cache>>

\* HashJoin::freeHashBufferMemory: swap the map with an empty one
freeHashBufferMemory(q) ==
  /\ phase[q] = "done"
  /\ hashTables' = [hashTables EXCEPT ![q] = NoTables]
  /\ phase' = [phase EXCEPT ![q] = "freed"]
  /\ UNCHANGED <<rows, noFragments, memoryLevel, effectiveLevel, counts, threads, cache>>

\* the recycler drops the cached table (memory pressure, table change)
EvictCache ==
  /\ cache # None
  /\ cache' = None
  /\ UNCHANGED <<rows, noFragments, memoryLevel, effectiveLevel, phase, counts, threads, hashTables>>

Next ==
  \/ \E q \in Queries :
       \/ getInstance(q)
       \/ LookupCache(q)
       \/ \E d \in Devices : reifyForDevice_build(q, d) \/ reifyForDevice_move(q, d)
       \/ JoinThreads(q)
       \/ freeHashBufferMemory(q)
  \/ EvictCache

Spec == Init /\ [][Next]_vars

-----------------------------------------------------------------------------
(* The probe side: codegenKey builds the key of an outer point for one of  *)
(* the neighbouring buckets the probe loop visits.  The loop hands it the  *)
(* two bucket offsets packed into one int64.  A word here has 2 * HalfBits *)
(* bits, an offset HalfBits: the code's i64 and i32 scaled down.          *)

Half == 2^HalfBits
Word == Half * Half
Bits64(v) == v % Word                              \* an int64 as its bit pattern
ToInt64(u) == IF u >= Word \div 2 THEN u - Word ELSE u   \* a bit pattern read as int64
SExt32(u) == IF u >= Half \div 2 THEN u - Half ELSE u  \* CreateSExt of an i32 to i64

\* the probe loop's packing (not in this repository): x offset in the low
\* 32 bits, y offset in the high 32 bits, each in two's complement
PackBucketOffsets(dx, dy) == ToInt64((dy % Half) * Half + (dx % Half))

\* mutant: the unpacked offsets zero-extended (CreateZExt) to i64
codegenKey_zext(offset, bucketKey) ==
  LET x == Bits64(offset) % Half
      y == shiftR(Bits64(offset), HalfBits) % Half
  IN  <<ToInt64(Bits64(x + bucketKey[1])), ToInt64(Bits64(y + bucketKey[2]))>>

\* codegenKey for a point column with 8-byte key components (reifyForDevice
\* CHECKs the width): load the packed offset, CreateTrunc to i32 for x,
\* CreateLShr by 32 (HalfBits) then CreateTrunc for y, CreateSExt both to i64, and
\* store, per dimension i, the i64 CreateAdd of the offset and the point's
\* bucket key from get_bucket_key_for_range_*
codegenKey(offset, bucketKey) ==
  LET x == SExt32(Bits64(offset) % Half)
      y == SExt32(shiftR(Bits64(offset), HalfBits) % Half)
  IN  <<ToInt64(Bits64(x + bucketKey[1])), ToInt64(Bits64(y + bucketKey[2]))>>

-----------------------------------------------------------------------------

\* a table has at least two entries (BaselineHashTableEntryInfo's hash
\* entry count from 2 * max(tuple_count, 1))
Tables == {None} \cup [entries : {n \in Nat : n >= 2}, capacity : Nat]

TypeOK ==
  /\ phase \in [Queries -> {"idle", "rejected", "lookup", "building", "done", "thrown", "failed", "freed"}]
  /\ threads \in [Queries -> [Devices -> {"none", "started", "built", "moved", "threw"}]]
  /\ hashTables \in [Queries -> [Devices -> Tables]]
  /\ cache \in Tables

\* Every table a device holds, or the cache hands out, was built with a
\* payload for at least the keys the inner column emits and an entry count
\* for at least its distinct keys: on the CPU from the last entry of
\* num_keys_for_row, on GPUs from the per-device counts summed, and when
\* reused from the cache by an instance of another memory level.
PayloadCoversEmittedKeys ==
  LET ok(t) == t # None =>
                 /\ t.capacity >= FoldLeft(LAMBDA acc, s : acc + Cardinality(s), 0, rows)
                 /\ t.entries >= DistinctKeys(rows)
  IN  /\ ok(cache)
      /\ \A q \in Queries, d \in Devices : ok(hashTables[q][d])

\* When reifyWithLayout has returned normally, getHashTableForDevice finds a
\* table for every device the instance runs on, whether built by its threads
\* or taken from the cache, and none for another device; with no fragments
\* it finds none at all.  A device thread that threw never lets the
\* instance reach this point with its device missing: get() rethrows.
ReifiedTablesCoverDevices ==
  \A q \in Queries : phase[q] = "done" =>
     \A d \in Devices :
        (hashTables[q][d] # None) <=> (~noFragments /\ d \in DevicesOf(q))

\* Every table a device holds is probed (codegenMatchingSetWithOffset, one
\* call per neighbouring bucket, offsets -1, 0 and 1 in each dimension)
\* under the outer point's bucket key moved by exactly those offsets: the
\* negative offsets survive the packing into one int64, the truncation of
\* each half to i32 and the widening back to i64.
ProbeKeyUnpacksOffsets ==
  \A q \in Queries, d \in Devices : hashTables[q][d] # None =>
     \A dx, dy \in -1..1, bx, by \in -MaxBucketKey..MaxBucketKey :
        codegenKey(PackBucketOffsets(dx, dy), <<bx, by>>) = <<bx + dx, by + dy>>

==============================================================================
