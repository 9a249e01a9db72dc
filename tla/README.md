# TLA+ models of the result-buffer subsystem

These modules model the code under `src/` next to the description in
`spec.md`. The main subject is the `ResultSet`
(`src/QueryEngine/ResultSet.h`, `src/QueryEngine/ResultSetIteration.cpp`).
A `ResultSet` owns one primary storage and any number of appended storages,
logically concatenated. On top of them it keeps an optional permutation (the
sort order), OFFSET/LIMIT counters, a shared cursor, and a memoised row
count. Readers consume it in three ways:

* sequentially, through `getNextRow()`;
* by random access, through `getRowAt(...)`;
* through independent `ResultSetRowIterator` objects.

## Inventory

| Part | State | Operations | Interacts with |
|---|---|---|---|
| ResultSet layout | `storage_`, `appended_storage_`, `query_mem_desc_.entry_count_`, `permutation_`, `drop_first_`, `keep_first_` | `append`, `updateStorageEntryCount`, `sort`, `keepFirstN`, `dropFirstN`, `clearPermutation`, `initStatus` | storages, sort engine, data recycler |
| Shared cursor | `crt_row_buff_idx_`, `fetched_so_far_`, `row_iteration_mutex_` | `getNextRow`, `moveToBegin`, `getRowAt(row, col)` | every sequential caller |
| Row iterators | one `(crt_row_buff_idx_, fetched_so_far_, global_entry_idx_, valid)` per iterator | `rowIterator(from)`, `operator++`, `operator*` | layout |
| Row count | `cached_row_count_` | `rowCount`, `invalidateCachedRowCount`, `binSearchRowCount` | layout |
| Storage | the entry buffer; an entry is empty iff its key is `EMPTY_KEY` | `isEmptyEntry`, `isEmptyEntryColumnar`, `binSearchRowCount` | accessors |
| Target accessors / materialisation | per-storage offset tables | `getColumnInternal`, `makeTargetValue`, lazy fetch | value decoding only |
| DateDaysEncoder | chunk stats `dataMin`, `dataMax`, `has_nulls` | `appendEncodedOrUnencodedData`, `updateStats`, `reduceStats`, `resetChunkStats` | chunk metadata |
| CpuBufferMgr | `slabs_`, `slab_segments_` | `addSlab`, `freeAllMem`, `initializeMem` | allocator |
| JoinFilterPushDown | none (pure) | `find_push_down_filters` | planner |
| RangeJoinHashTable / HashJoin | `hash_tables_for_device_`, `effective_memory_level_`, the CPU hash-table cache | `getInstance`, `reifyWithLayout`, `reifyForDevice`, `approximateTupleCount`, `freeHashBufferMemory` | executor, hash-table recycler, builder |

Several behaviours are hard to test:

* The shared cursor is reached both by `getNextRow` and by
  `getRowAt(row, col)`, which rewinds it.
* The row-count cache is invalidated only explicitly.
* A sort with `top_n` or `updateStorageEntryCount` can shrink the entries
  under a cursor.
* The OFFSET and LIMIT arithmetic interleaves with empty entries.
* The binary-search row count depends on projection output being packed.

`PROJECT.json` lists every part, with its status and the hazards found at
the lines where they occur.

## Modules

### `ResultSet.tla`

Each storage is abstracted to the sequence of its entries. An entry is
`EMPTY` or holds a sort key from `SortKeys`. A row is identified by its
global entry index, which is what `getRowAt(global_entry_idx)` materialises.
Column values, string dictionaries and byte layouts are abstracted away,
because no property here tells them apart.

The variables correspond to the code as follows:

* `storages`: `storage_` followed by `appended_storage_`.
* `rsEntryCount`: `query_mem_desc_.getEntryCount()`.
* `permutation`: `permutation_`.
* `dropFirst` and `keepFirst`: `drop_first_` and `keep_first_`.
* `crt` and `fetched`: the shared cursor.
* `cachedRowCount`: `cached_row_count_`.
* `iters`: one `ResultSetRowIterator` per reader.

Two variables are history only:

* `consumed` holds the rows the shared cursor produced since the last rewind.
* `exhausted` records whether the last `getNextRow()` returned `{}`.

`stage` encodes the caller discipline that the header and `spec.md` §5
impose: build, then merge, then finalize (sort and limits), then read.
`rowCount()` is called only after finalization. A result set is reused only
through `initStatus()`.

There is one action per operation. Each action models the whole method:

* `GetNextRow` is `getNextRow` → `getNextRowUnlocked` → `getNextRowImpl`,
  including its do/while over `advanceCursorToNextEntry()`.
* `GetRowAtRowCol` is the locked `moveToBegin()` followed by `row_idx + 1`
  calls to `getNextRowUnlocked`. The `CHECK`s become the guard: a caller only
  asks for rows that exist.
* `RowIterator` constructs an iterator and applies `++` `from + 1` times.
* `IteratorNext` is `operator++`, that is
  `advanceCursorToNextEntry(ResultSetRowIterator&)`.
* `IterDeref` is `operator*`. It yields an empty row once the iterator is
  invalid, and the entry at `global_entry_idx_` otherwise. When the
  iterator runs off a top-n permutation, `global_entry_idx_` is set to
  `permutation_.size()`. That is the index of some entry of the buffer, which
  may be empty or one the top-n cut off. Only the validity check keeps it
  out.
* `RowCount` memoises `rowCountImpl`. The row count is computed from the
  permutation size, else by `binSearchRowCount` per storage for a projection,
  else by a scan; OFFSET and LIMIT are applied after.
* `InitStatus` resets the cursor, the permutation, the cache and the limits.

Some actions are modelled from `spec.md`, because `ResultSet.cpp` is not
under `src/`. They are marked `spec_modelled` in the map:

* `findStorage`;
* `append`;
* `sort`, as a stable order by key with ties broken by entry index, cut to
  `top_n`;
* `keepFirstN`, `dropFirstN` and `moveToBegin`;
* `rowCount` and `rowCountImpl`.

`getRowAtLogical` is random access by logical index, resolved through the
permutation. It is an operator, not an action, because it changes no state.

The reference against which the properties compare the code is `Window`:
the valid entries in permutation order, with `dropFirst` of them skipped and
at most `keepFirst` kept.

### `ResultSetCallers.tla`

This module extends `ResultSet` with two callers in the read phase:

* a sequential reader, which rewinds and then calls `getNextRow()`;
* a random-access caller, which calls `getRowAt(row, col)`.

Both calls take `row_iteration_mutex_`, so each call is one atomic step.
`nextRows` is what the sequential reader has received since its own rewind.

### `RowStream.tla` and the refinement

`RowStream` is the abstract promise of the sequential row API (spec §4):

* a sequence of rows is handed out one at a time;
* a rewind goes back to the first row;
* a seek is a rewind followed by several deliveries in one step;
* the rows themselves change only before anything was read, or on reuse.

`ResultSet` instantiates it with a refinement mapping:

* `rows` is `Window`;
* `pos` is the count of rows fetched past the OFFSET;
* `delivered` is `consumed`.

The run `iteration` checks `RefinesRowStream`, the abstract specification
as a `PROPERTY`, next to its invariants. So every step of the detailed model is a step of the
stream or a stutter. `getRowAt(row, col)` maps to `Seek`.

### `DateDaysEncoder.tla`

The chunk statistics of `DateDaysEncoder<T, V>` (`src/DataMgr/DateDaysEncoder.h`):

* `buffer` holds the encoded days, with `VMin` as the null sentinel;
* `numElems` is `num_elems_`;
* `dataMin`, `dataMax` and `has_nulls` are the stats.

There is one action per entry point:

* `AppendData` is `appendData` through `appendEncodedOrUnencodedData`, with
  offset -1 (append) or 0 (rewrite from the start). It includes the reset
  when the rewrite covers the chunk, and the validator throwing part way.
* `AppendEncodedData` covers `appendEncodedData` and
  `appendEncodedDataAtIndices`.
* `UpdateStatsFromBuffer` is `updateStats(src, n)`.
* `UpdateStats` is `updateStats(val, is_null)`.
* `ReduceStats` is `reduceStats`.

`exact` is a history variable: the stats were last rebuilt by a full
rewrite, and only appends followed.

### `JoinFilterPushDown.tla`

`find_push_down_filters` is a pure algorithm. A qualifier is abstracted to
the set of range-table indices that `AllRangeTableIndexVisitor` finds in it.
`Init` chooses the input permutation, input sizes and qualifiers; `Next`
stutters. The invariant compares the result with a reference definition:

* the qualifiers that touch exactly one non-outer input;
* grouped by that input's level before reordering;
* with column ranges computed from the input sizes.

### `ResultSetLayout.tla`

This module models the buffer geometry and the code that locates a value in
a buffer. A pointer is a byte offset into a storage's buffer, and a read is
a pair `[at, width]`. A target is abstracted to its kind:

* one slot;
* two slots, for an AVG (sum and count) or a string or array (pointer and
  length);
* a copy of a group-by key, read from the key region
  (`target_groupby_indices_`).

`Init` picks a layout: query type, row-wise or columnar, keyed or keyless,
key width, targets, padded and logical slot widths, and the entry count of
each storage. The geometry helpers that live outside `src/` are
`spec_modelled` (`get_cols_ptr`, `advance_to_next_columnar_target_buff`,
`advance_slot`, `getColOffInBytes` and others). The readers are translated
from `ResultSetIteration.cpp`:

* `getRowAt(global_entry_idx)` with `getTargetValueFromBufferRowwise` and
  `getTargetValueFromBufferColwise`;
* `getOneColRow`, which reads the first target of a row-wise entry;
* both target accessors' `initializeOffsetsForStorage` and
  `getColumnInternal`;
* `copyColumnIntoBuffer`, whose result is the list of `memcpy` chunks;
* `isEmptyEntry`, `isEmptyEntryColumnar` and `advance_col_buff_to_slot`.

The reference is where the producer writes: key `k` and slot `j` of entry
`e`, from the descriptor's offsets (spec §4.1).

`entryCount` is `ResultSet::entryCount()`: `query_mem_desc_`'s entry count,
which `append` makes the storages' counts summed (spec §8). A columnar read
of key column k >= 1 steps k columns of that count, in
`getTargetValueFromBufferColwise` (line 2339) and in the ColumnWise
accessor (lines 571-577). A storage's producer laid its key columns out
with its own count. So in a columnar GROUP BY result with appended storages,
every storage reads key columns >= 1 from the wrong address. With
`AppendedKeyColumn` not excluded, TLC finds this in the first state it
checks: two storages of one entry each, with key 1 read at byte 2 * key
width but written at 1 * key width. Key-copy targets exist only in
baseline-hash GROUP BY results. The executor reduces those rather than
appending them, and no caller under `src/` appends one. So the `layout` run
checks the reads outside that case (`...OutsideAppendedKeys`) rather than
adding a violation run for it. The hazards at lines 2339 and 568 record it.

### `LazyFetch.tla`

This module models lazy fetch. For a lazily fetched target, the buffer holds
the row's global index into the source column, not the value. The executor
supplies three things for each storage:

* the fragment buffers, `col_buffers_`;
* the start row of each fragment, `frag_offsets_`;
* the common fragment size, `consistent_frag_sizes_`, or -1.

The state is the row count of each fragment of each storage, so the model
keeps `sizes` and derives the offsets and the common size from it. These are
`FragOffsets` and `ConsistentFragSize`. Both are computed by executor code
outside `src/`, so they are modelled from the spec.

`getColumnFrag` and `get_frag_id_and_local_idx` are translated with their
CHECKs: a failed CHECK is `Abort`. Each reader is an operator:

* `lazyReadInt`;
* the lazy branch of `makeTargetValue`;
* the lazy branch of `makeVarlenTargetValue`;
* `fetchLazyColumnValue`.

Each reader decodes the address that `getColumnFrag` gives. The decoders
differ in bound checks:

* the string decode checks `is_end` (`ReadChecked`);
* `lazy_decode` does not check;
* the array decode ignores `is_end` (`ReadUnchecked`).

The reference, `SourceCell`, gives the fragment and row of each global index.

### `RangeJoinHashTable.tla`

This module models how a range join builds its hash table
(`RangeJoinHashTable.cpp`) and the per-device table map of `HashJoin.h`.
Two instances (`Queries`) are built over the same inner table. They share
the CPU hash-table cache under one key, which the recycler may evict at
any time (`EvictCache`).

* `rows` is the inner column. A row is the set of bucket keys its point
  emits. `Init` fixes it, with `noFragments` for a table without fragments.
* Each instance has a memory level and an effective memory level. A GPU
  build needs GPU memory level. Device 0 is the CPU; `GpuDevices` are the GPUs.
* `phase[q]` follows `getInstance` and `reifyWithLayout`. It goes `idle`, then
  `rejected` (TooManyHashEntries), `lookup` (a CPU build), `building` or
  `done` or `thrown`, and later `freed`. `failed` is a failed
  `CHECK(success)` on emplace.
* `LookupCache` is the part of `reifyWithLayout` under
  `cpu_hash_table_buff_mutex_`. A hit installs the cached table for every
  device and returns. A miss computes the counts and starts the threads.
* `reifyForDevice` is split in two. `reifyForDevice_build` builds the table
  (`initHashTableOnCpu` also puts it into the cache). `reifyForDevice_move`
  emplaces it under `hash_tables_mutex_`. Threads of both instances
  interleave between the two halves.
* The build may throw at any device (a kernel error reported as
  `HashJoinFail`, an allocation failure). The thread then ends `threw`,
  with nothing put into the cache or emplaced.
* `JoinThreads` is the `wait()` on every init thread, then `get()` on each.
  If any thread threw, the instance ends `thrown`: `getInstance` rethrows,
  and the tables of the other devices stay in `hash_tables_for_device_`.
  The mutant `JoinThreads_noGet` drops the `get()` calls, and
  `ReifiedTablesCoverDevices` catches it.
* A table is its entry count and its payload capacity (`emitted_keys_count`).
  `approximateTupleCount` takes the last prefix sum on the CPU, or the sum
  of the per-GPU counts. The HyperLogLog estimate is taken as exact, which is
  why `NumKeysForRow`, `DistinctKeys` and `DevicesOf` are marked spec_modelled.

Sharding is left out. A range join is built over a geometry column, which
is never a shard key, so every device gets every fragment.

The probe side is `codegenKey`, an operator. The probe loop, which is not
in this repository, packs the x and y bucket offsets into one `int64`
(`PackBucketOffsets`, marked spec_modelled). `codegenKey` then:

* truncates the low half to `i32` for x;
* shifts right by 32 and truncates for y;
* sign-extends both halves;
* adds each to the point's bucket key in `i64`.

TLC's integers are 32-bit, so a word has `2 * HalfBits` bits instead of 64.
The wrap-around of every step is kept at that width.
`ProbeKeyUnpacksOffsets` checks every table a device holds, under all nine
neighbour offsets. The mutant `codegenKey_zext` zero-extends the halves, and
the property catches it.

### `CpuBufferMgr.tla`

This module models slab allocation in `CpuBufferMgr.cpp`. Its state is:

* `slabs`, the `slabs_` vector. A slab is its size and the arena it was
  taken from.
* `slabSegments`, the `slab_segments_` vector. A segment is its first
  page and its page count.
* `arena`, which counts the `DramArena` objects `initializeMem` has created.
  No property reads it. A slab records its arena so that a model of the
  caller could state that no slab of a released arena is used (the hazard
  at line 41).

`addSlab(size)` has two disjuncts, because the allocator may throw
`bad_alloc` on any call:

* On success, `slabs_` and `slab_segments_` each grow by one entry.
* On failure, `slabs_` is resized back and nothing else changes.

`freeAllMem` replaces the arena and leaves both vectors alone. The callers
in `BufferMgr` are not in this repository, so the model allows any
sequence of calls.

## Runs

| Run | Config | Expect | Checks |
|---|---|---|---|
| iteration | `MC_ResultSet.cfg` | pass | `TypeOK`, `CursorYieldsWindow`, `CursorWithinEntries`, `IteratorsYieldWindow` (each iterator stands on the window's rows in order, and `operator*` yields the row it stands on, then an empty row), `RowCountMatchesIteration` over sparse GROUP BY buffers and packed projection buffers (with `updateStorageEntryCount` and the binary-search count), and `RefinesRowStream`: the shared cursor implements `RowStream` |
| random_access | `MC_ResultSet_randomaccess.cfg` | violation | `RandomAccessMatchesCursor`, the claim of spec §8 |
| shared_cursor | `MC_ResultSetCallers.cfg` | violation | `NextRowsFollowWindow`, the claim of spec §5 |
| date_stats | `MC_DateDaysEncoder.cfg` | pass | `TypeOK`, `StatsCoverChunk`, `StatsExactAfterRewrite` with in-range inputs |
| date_stats_overflow | `MC_DateDaysEncoder_overflow.cfg` | violation | `StatsCoverChunk` when an input overflows V |
| layout | `MC_ResultSetLayout.cfg` | pass | `RowAtReadsTargetsOutsideAppendedKeys`, `AccessorReadsTargetsOutsideAppendedKeys` (all reads but key columns >= 1 of an appended columnar result), `ColumnCopyMatchesCells`, and `EmptinessReadsMarkerOutsideVarlenWalk` (the emptiness test everywhere but the layout of `layout_keyless_varlen`) over 21,912 layouts |
| layout_keyless_varlen | `MC_ResultSetLayout_varlen.cfg` | violation | `EmptinessReadsMarker` with a SAMPLE of a string before the marker target |
| push_down | `MC_JoinFilterPushDown.cfg` | pass | `PushDownMatchesReference` over 3 inputs, all permutations |
| lazy_fetch | `MC_LazyFetch.cfg` | pass | `ReadersReturnSourceCell` over the fragment layouts the fragmenter produces, two storages |
| lazy_fetch_offsets | `MC_LazyFetch_offsets.cfg` | violation | `NoSilentMisread` with fragments of differing sizes |
| slabs | `MC_CpuBufferMgr.cfg` | pass | `TypeOK` (no nullptr in `slabs_`) and `SlabsAndSegmentsInStep` through failing and succeeding `addSlab` calls and `freeAllMem` |
| range_join_build | `MC_RangeJoinHashTable.cfg` | pass | `TypeOK`, `PayloadCoversEmittedKeys`, `ReifiedTablesCoverDevices`, and `ProbeKeyUnpacksOffsets`, for two instances sharing the cache, with any device build able to throw |

The `iteration` run shows the following:

* The shared cursor produces exactly the window. This holds for all
  interleavings of the finalize operations, the rewinds, `getRowAt(row, col)`
  and recycling.
* Every iterator stands on the window's rows, in order.
* The cursor never passes `entryCount()`, so the `CHECK_EQ` and `CHECK_LE` in
  `advanceCursorToNextEntry` and `getNextRowImpl` cannot fire.
* The memoised row count equals the length of the window.

Each of these properties has a mutant in `PROJECT.json`. The mutant is a
plausible bug, and TLC finds the property violated under it:

* an OFFSET loop that stops one row early;
* an iterator that skips one row too many;
* `++` without the LIMIT check;
* a permutation that is ignored;
* a missing shortcut in the binary search;
* a count that is not clamped at zero;
* `initStatus` not invalidating the cached row count;
* `initStatus` not resetting the cursor.

The two violation runs are the findings:

1. **Random access rewinds the shared cursor.** `getRowAt(row, col)` rewinds
   and advances the cursor that a concurrent `getNextRow()` reader uses
   (`ResultSetIteration.cpp:226`). That reader then misses or repeats rows.
   Spec §5 calls random access safe for concurrent readers.
2. **`getRowAt(i)` is not the `getNextRow()` sequence.** `getRowAt(i)` returns
   `{}` for empty entries and ignores OFFSET (`ResultSetIteration.cpp:133`,
   `:266`). So on a sparse GROUP BY result it is not the `getNextRow()`
   sequence that spec §8 promises.

3. **A failed rewrite loses `has_nulls`.** When `appendData` rewrites the
   whole chunk from offset 0, `appendEncodedOrUnencodedData` resets the stats
   first (`DateDaysEncoder.h:205`). If the validator then throws on an
   overflowing value, nothing is written, but the old chunk keeps its null
   sentinel and the stats no longer say `has_nulls`. The same happens to
   `dataMin` and `dataMax`. Fragment skipping may then skip a fragment that
   has matching rows.

4. **Columnar keyless emptiness reads the wrong column after a string
   target.** `advance_col_buff_to_slot` (`ResultSetIteration.cpp:99`) skips
   a second column only for AVG. `advance_slot` counts two slots for a
   string or array target such as SAMPLE. When such a target precedes the
   keyless marker slot, `isEmptyEntryColumnar` compares the previous column
   with the marker's init value. The row-wise `isEmptyEntry` reads the right
   slot, so the two disagree, which spec §7 rules out.

5. **Lazy fetch misplaces a fragment's first row when fragment sizes
   differ.** When the fragments do not share one size, `getColumnFrag`
   searches the offsets with `get_frag_id_and_local_idx`
   (`ResultSetIteration.cpp:1072`). That search takes the highest fragment
   whose start is strictly below the index, and it stops at fragment 1.
   * Every row of fragment 0, and the first row of fragment 1, gets
     `{-1, -1}`, and `CHECK_GE(frag_id, 0)` fails.
   * The first row of fragment k ≥ 2 is placed at row `size(k-1)` of
     fragment k-1, one past that fragment's end. `lazy_decode` and the array
     decode read that address silently. TLC's example has fragment sizes
     `<<1, 2, 1>>` and global row 3.

   The divide-by-size branch of the same function places every row
   correctly.

The other passing runs show the following:

* `date_stats`: with inputs that never overflow, the stats always cover the
  chunk, and after a full rewrite they are exactly the chunk's stats. The
  mutants reset the stats for any offset, or only for a strictly longer
  rewrite, or forget to count appended elements.
* `push_down`: `find_push_down_filters` matches its reference for every input
  permutation of 3 inputs, sizes 1 or 2, and up to 2 levels of 2 qualifiers.
  The mutant uses the permutation instead of its inverse.
* `layout`: every reader finds every target where it was written. This
  covers five query types, both layouts, key widths 4 and 8, entry counts 0,
  1 and 3 (so columnar padding to 8 bytes occurs, and a projection may
  append an empty storage), and appended storages of another entry count
  for projections. A column copy concatenates every storage's column in
  order and skips the empty ones. The mutants are a walk that advances
  one slot per target, a row-wise second pointer used for columnar, a
  missing key-width fallback, and a column copy that uses the column offset of `storage_` for
  every storage.
* `iteration`, `RefinesRowStream`: the mutant `moveToBegin` that does not reset
  `fetched_so_far_` breaks the refinement.
* `lazy_fetch`: with fragments of one size (the last no larger), every
  lazy reader maps every stored row index to its source cell. The mutant
  `getColumnFrag` that leaves the global index in place breaks it.

## Bounds

The `ResultSet` runs share these bounds:

* at most 2 storages;
* buffers of length up to 3;
* sort keys {1, 2};
* OFFSET, LIMIT, `top_n` and `row_idx` in 0..2;
* `from` in 0..1;
* two readers in the `iteration` run and one elsewhere.

The hash buffers place empty entries at the start, in the middle and at the
end, and one buffer is full. The projection buffers include a full buffer,
which needs the binary-search shortcut, and a buffer with one valid row.

These bounds reach the following cases:

* an OFFSET larger than the row count;
* a LIMIT that cuts inside an appended storage;
* a `top_n` permutation shorter than the entries;
* equal sort keys, where the tie-break matters.

The `iteration` run finishes in about 35 seconds with 240,924 distinct
states. The query type is the variable `queryType`. `Init` picks it, no
action changes it, and it selects the buffers that `Init` and `append` may
use.

`DateDaysEncoder` runs use a 2-second day, V in -2..2 (so -2 is the
sentinel), batches of up to 2 values and a buffer of up to 3. The inputs
include a negative value (floor division), a null, and, in the overflow
run, a value that overflows. `JoinFilterPushDown` uses 3 inputs, so every
non-trivial permutation and the outer input 0 occur.

`LazyFetch` uses two storages with up to 3 fragments of 1 to 3 rows each,
as the fragmenter fills them, giving 225 layouts. So it covers:

* a single fragment;
* several equal fragments;
* a short last fragment.

The offsets run uses one storage and fragments of 1 or 2 rows. Three
fragments are the fewest that produce the silent misread.

`RangeJoinHashTable` uses two instances and two GPUs. The inner table has
up to 3 rows over 2 bucket keys, and `MAX_NUM_HASH_ENTRIES` is 4, so a
3-row table is rejected. These bounds cover:

* an empty but fragmented table;
* a row that emits no key;
* both instances missing the cache and both putting a table;
* a hit on a table cached at the other memory level.

For the probe key, `HalfBits` is 8 (16-bit words) and the outer bucket
keys range over -1..1. That is enough for every offset sign to meet every
key sign, including a sum that crosses zero.

The run reaches 107,301 distinct states in about 30 seconds. It does not
check for deadlock: once every instance is rejected or freed, nothing is
left to do.

`CpuBufferMgr` uses slab sizes 4 and 6 with 4-byte pages, so a slab
that is not a whole number of pages occurs. It allows up to 3 successful
slabs and 3 arenas. A failing `addSlab` stays possible after the last
success, so the run also checks for deadlock (175 distinct states).

## Fairness

The `ResultSet` models state no liveness property. They have no scheduler:
every call is made by a client, and nothing in the code obliges a client to
keep calling.

`RangeJoinHashTable` states no liveness property either. Its device threads
are `std::async(std::launch::async, ...)` and `reifyWithLayout` waits on
all of them. The phases form an acyclic chain, so a termination property
would hold by the shape of the model. The model has no fairness condition.

## Not modelled

The following are not modelled:

* the per-SQL-type conversion in `makeTargetValue` and its siblings (floats,
  decimals, dictionary strings, quantiles, mode, geometry, GPU copies);
* serialization;
* the geo return type;
* `just_explain_` results;
* the components listed as `not_modelled` in `PROJECT.json`.

The model drops a reader's iterator at `initStatus`; iterators that outlive
recycling are not examined yet.

`AccessPrivileges` in `DBObject.h` is left out. Its inline `add`,
`remove`, `reset` and `hasPermission` are single bitwise assignments on an
`int64_t` mask. The `int32_t` `ALL = -1` sign-extends to every bit, so
`hasPermission(ALL)` holds only for a full mask. `grantPrivileges`,
`revokePrivileges` and `copyPrivileges` are defined in `DBObject.cpp`,
which is not in this repository. What remains has no interleaving and no
sequence of calls that a model could explore beyond what a unit test of
each operation shows.

A liveness property for the sequential scan is not stated. Such a
property would say that a consumer that keeps calling `getNextRow()`
reaches the end. In `ResultSet.tla`, `getNextRowImpl` is recursion over a
bounded index, and `consumed` records every row handed out. So a scan
that never ended would have to grow `consumed` without bound. Termination
therefore follows from `CursorYieldsWindow` and the finite state space. A
temporal property would add nothing that a bug in the cursor code could
break while keeping the model finite.

`selectFiltersToBePushedDown` and its helpers are left out:
`to_gather_info_for_filter_selectivity`,
`will_require_intermetidate_non_point_geo_projection` and the arithmetic of
`getFilterSelectivity`. Each candidate's outcome comes from a preflight
COUNT query that the executor runs. `isFilterSelectiveEnough` is not in this
repository. `getFilterSelectivity` has a `CHECK` that all filters of a
candidate read a single input. That `CHECK` already follows from
`PushDownMatchesReference`, because every filter it accepts names exactly
one range-table index. Every new input domain would multiply the 201,096
initial states of that run.

`codegenMatchingSetWithOffset` in `RangeJoinHashTable.cpp` is left out. It
emits calls to `get_composite_key_index_*` and to
`HashJoin::codegenMatchingSet`, and neither is in this repository.

Three hazards in `PROJECT.json` have no property. Each would be shown by a
run that finds a violation, and the project already uses its twelve runs on
other findings:

* the stale `ResultSetRowIterator` across `initStatus`;
* `getKeyInfo` reading the slot of target index `col_idx`;
* `updateStorageEntryCount` on a columnar buffer.

Whether a caller reaches any of them is decided in code outside this
repository.

## Plan

Done so far: the `ResultSet` layout, cursor, iterators and row count; the
refinement of the row stream; `DateDaysEncoder` stats;
`find_push_down_filters`; the buffer layout readers; lazy fetch; the
range-join hash-table build, including a device build that throws, and
its probe key;
`CpuBufferMgr` slab allocation; `operator*` of the row iterator.

Left, in the order intended:

1. Iterators kept across `initStatus`. Today the model drops them there.
   A stale iterator followed by `sort` with a smaller `top_n` would reach
   `CHECK_LE(crt_row_buff_idx_, permutation_.size())`. Whether any caller
   keeps one is decided outside this repository.
2. A run of its own for the key-column misread of appended columnar
   results (`AppendedKeyColumn`, lines 2339 and 571-577). Today it is
   described under `ResultSetLayout.tla` and excluded from the `layout`
   properties. Caller code that appends a baseline-hash GROUP BY result
   would make it reachable.

Item 2 of the earlier plan (`AccessPrivileges`) and item 3 (liveness of
the scan) were examined and dropped; see "Not modelled" for why.
