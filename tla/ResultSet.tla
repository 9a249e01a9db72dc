------------------------------ MODULE ResultSet ------------------------------
(***************************************************************************)
(* The row-iteration core of ResultSet (src/QueryEngine/ResultSet.h and    *)
(* src/QueryEngine/ResultSetIteration.cpp).                                 *)
(*                                                                         *)
(* A result set owns a primary storage and appended storages, logically    *)
(* concatenated.  Each storage is abstracted to the sequence of its        *)
(* entries: an entry is EMPTY (its key is the EMPTY_KEY sentinel) or       *)
(* holds the sort key of a valid row.  A row is identified by its global   *)
(* entry index, which is what getRowAt() materialises.  On top of the      *)
(* storages sit an optional permutation (sort order), OFFSET/LIMIT         *)
(* (drop_first_/keep_first_), one shared cursor used by getNextRow() and   *)
(* getRowAt(row, col), independent ResultSetRowIterator objects, and the   *)
(* memoised row count.                                                     *)
(***************************************************************************)
EXTENDS Integers, Sequences, SequencesExt, FiniteSets

CONSTANTS
  SortKeys,       \* values of the ORDER BY key a valid entry can hold
  EMPTY,          \* model value: an entry whose key is EMPTY_KEY_64
  QueryTypes,     \* QueryDescriptionType values considered
  Buffers,        \* query type -> storages an execution unit may produce
  Readers,        \* callers holding their own ResultSetRowIterator
  MaxStorages,    \* bound on primary + appended storages
  MaxLimit,       \* bound on the LIMIT / OFFSET values and on top_n
  MaxFrom         \* bound on rowIterator(from_logical_index, ...)

NoRow   == -1     \* an empty std::vector<TargetValue>
NoCount == -1     \* cached_row_count_ when uninitialised

VARIABLES
  queryType,      \* query_mem_desc_.getQueryDescriptionType(), fixed
  storages,       \* <<storage_, appended_storage_[0], ...>>
  rsEntryCount,   \* query_mem_desc_.getEntryCount() of the result set
  permutation,    \* permutation_ (global entry indices), <<>> = identity
  dropFirst,      \* drop_first_  (OFFSET)
  keepFirst,      \* keep_first_  (LIMIT, 0 = none)
  crt,            \* crt_row_buff_idx_ of the shared cursor
  fetched,        \* fetched_so_far_ of the shared cursor
  cachedRowCount, \* cached_row_count_
  iters,          \* ResultSetRowIterator of each reader
  stage,          \* build -> merge -> finalize -> read (caller discipline)
  consumed,       \* history: rows the shared cursor produced since moveToBegin
  exhausted       \* history: getNextRow() has returned an empty row

vars == <<queryType, storages, rsEntryCount, permutation, dropFirst, keepFirst,
          crt, fetched, cachedRowCount, iters, stage, consumed, exhausted>>

NoIter == [crt |-> 0, fetched |-> 0, valid |-> FALSE, idx |-> 0,
           live |-> FALSE, from |-> 0, seen |-> <<>>]

(* Storage lookup and emptiness                                            *)

\* ResultSet::findStorage / getStorageIndex: global entry index ->
\* <<storage ordinal (1 = storage_), local entry index>>.
RECURSIVE FindStorageFrom(_, _)
FindStorageFrom(s, idx) ==
  IF idx < Len(storages[s]) \/ s = Len(storages) THEN <<s, idx>>
  ELSE FindStorageFrom(s + 1, idx - Len(storages[s]))

findStorage(g) == FindStorageFrom(1, g)

\* ResultSetStorage::isEmptyEntry on the storage that findStorage selects.
isEmptyEntry(g) ==
  LET loc == findStorage(g) IN storages[loc[1]][loc[2] + 1] = EMPTY

\* ResultSet::entryCount
entryCount == IF permutation = <<>> THEN rsEntryCount ELSE Len(permutation)

\* permutation_.empty() ? i : permutation_[i]
PermAt(i) == IF permutation = <<>> THEN i ELSE permutation[i + 1]

\* mutant: the index ignores the permutation
EntryBuffIdx_noPerm(c) == c

\* the index advanceCursorToNextEntry returns once the scan stops at c
EntryBuffIdx(c) ==
  IF permutation = <<>> \/ c = Len(permutation) THEN c ELSE permutation[c + 1]

(* The reference: rows in logical order, then OFFSET and LIMIT             *)

LogicalRows ==
  SelectSeq([i \in 1..entryCount |-> PermAt(i - 1)], LAMBDA g : ~isEmptyEntry(g))

Window ==
  LET L == LogicalRows
  IN  IF keepFirst = 0 THEN SubSeq(L, dropFirst + 1, Len(L))
      ELSE SubSeq(L, dropFirst + 1, Min({dropFirst + keepFirst, Len(L)}))

(* The shared cursor: getNextRow()                                         *)

\* ResultSet::advanceCursorToNextEntry(): skip empty entries from c on.
RECURSIVE advanceCursorToNextEntry(_)
advanceCursorToNextEntry(c) ==
  IF c < entryCount /\ isEmptyEntry(PermAt(c))
  THEN advanceCursorToNextEntry(c + 1) ELSE c

\* mutant: the OFFSET loop stops one row early
RECURSIVE getNextRowImpl_dropOff(_, _)
getNextRowImpl_dropOff(c, f) ==
  IF keepFirst # 0 /\ f >= dropFirst + keepFirst
  THEN [crt |-> c, fetched |-> f, row |-> NoRow]
  ELSE LET e == advanceCursorToNextEntry(c) IN
       IF e >= entryCount THEN [crt |-> e, fetched |-> f, row |-> NoRow]
       ELSE IF dropFirst # 0 /\ f + 1 < dropFirst
            THEN getNextRowImpl_dropOff(e + 1, f + 1)
            ELSE [crt |-> e + 1, fetched |-> f + 1, row |-> EntryBuffIdx(e)]

\* ResultSet::getNextRowImpl: the do/while that consumes drop_first_ valid
\* rows, stops at keep_first_, and returns the row's entry index.
RECURSIVE getNextRowImpl(_, _)
getNextRowImpl(c, f) ==
  IF keepFirst # 0 /\ f >= dropFirst + keepFirst
  THEN [crt |-> c, fetched |-> f, row |-> NoRow]
  ELSE LET e == advanceCursorToNextEntry(c) IN
       IF e >= entryCount THEN [crt |-> e, fetched |-> f, row |-> NoRow]
       ELSE IF dropFirst # 0 /\ f + 1 <= dropFirst
            THEN getNextRowImpl(e + 1, f + 1)
            ELSE [crt |-> e + 1, fetched |-> f + 1, row |-> EntryBuffIdx(e)]

\* getRowAt(row_idx, col_idx): moveToBegin, then row_idx + 1 calls of
\* getNextRowUnlocked; the rows it passes over, in order.
RECURSIVE RowsFromBegin(_, _, _)
RowsFromBegin(n, c, f) ==
  IF n = 0 THEN [crt |-> c, fetched |-> f, rows |-> <<>>]
  ELSE LET r == getNextRowImpl(c, f)
           rest == RowsFromBegin(n - 1, r.crt, r.fetched)
       IN  [rest EXCEPT !.rows = <<r.row>> \o @]

\* ResultSet::getRowAt(logical_index), and getRowAtNoTranslations, which
\* differs only in not translating strings: random access through the
\* permutation; an index past entryCount() or an empty entry yields {}.
getRowAtLogical(i) ==
  IF i >= entryCount \/ isEmptyEntry(PermAt(i)) THEN NoRow ELSE PermAt(i)

(* ResultSetRowIterator                                                    *)

\* the while loop of advanceCursorToNextEntry(ResultSetRowIterator&)
RECURSIVE IterScan(_, _)
IterScan(c, f) ==
  IF c >= entryCount THEN <<c, f>>
  ELSE IF isEmptyEntry(PermAt(c)) THEN IterScan(c + 1, f)
  ELSE IF f < dropFirst THEN IterScan(c + 1, f + 1)
  ELSE <<c, f>>

\* mutant: ++it without the keep_first_ check
IterAdvance_noLimit(it) ==
  LET p     == IterScan(it.crt, it.fetched)
      valid == p[1] < entryCount
  IN  [it EXCEPT !.crt     = IF valid THEN p[1] + 1 ELSE p[1],
                 !.fetched = IF valid THEN p[2] + 1 ELSE p[2],
                 !.valid   = valid,
                 !.idx     = EntryBuffIdx(p[1]),
                 !.seen    = IF valid THEN Append(@, EntryBuffIdx(p[1])) ELSE @]

\* ResultSet::advanceCursorToNextEntry(ResultSetRowIterator&), i.e. ++it
IterAdvance(it) ==
  IF keepFirst # 0 /\ it.fetched >= dropFirst + keepFirst
  THEN [it EXCEPT !.valid = FALSE]
  ELSE LET p     == IterScan(it.crt, it.fetched)
           valid == p[1] < entryCount
       IN  [it EXCEPT !.crt     = IF valid THEN p[1] + 1 ELSE p[1],
                      !.fetched = IF valid THEN p[2] + 1 ELSE p[2],
                      !.valid   = valid,
                      !.idx     = EntryBuffIdx(p[1]),
                      !.seen    = IF valid THEN Append(@, EntryBuffIdx(p[1]))
                                  ELSE @]

\* mutant: operator* reads global_entry_idx_ without checking it is valid
IterDeref_noValid(it) == it.idx

\* ResultSetRowIterator::operator*: an empty row once the iterator is
\* invalid, else the row at global_entry_idx_ (just_explain_ aside)
IterDeref(it) == IF ~it.valid THEN NoRow ELSE it.idx

RECURSIVE IterAdvanceN(_, _)
IterAdvanceN(it, n) == IF n = 0 THEN it ELSE IterAdvanceN(IterAdvance(it), n - 1)

(* Row count                                                               *)

\* make_bin_search(l, r, is_empty_fn) over one packed storage b.
RECURSIVE BinSearchLoop(_, _, _)
BinSearchLoop(b, l, r) ==
  IF l = r THEN r
  ELSE LET c == (l + r) \div 2
       IN  IF b[c + 1] = EMPTY THEN BinSearchLoop(b, l, c)
           ELSE BinSearchLoop(b, c + 1, r)

\* mutant: no shortcut for a storage without an empty tail
make_bin_search_noFull(b) == BinSearchLoop(b, 0, Len(b) - 1)

make_bin_search(b) ==
  IF b[Len(b)] # EMPTY THEN Len(b) ELSE BinSearchLoop(b, 0, Len(b) - 1)

\* ResultSetStorage::binSearchRowCount
binSearchRowCount(b) == IF Len(b) = 0 THEN 0 ELSE make_bin_search(b)

\* mutant: LIMIT taken as the count even when fewer rows remain
LimitedCount_noMin(n) ==
  LET afterDrop == IF n > dropFirst THEN n - dropFirst ELSE 0
  IN  IF keepFirst = 0 THEN afterDrop ELSE keepFirst

\* mutant: OFFSET subtracted without clamping at zero
LimitedCount_noClamp(n) ==
  IF keepFirst = 0 THEN n - dropFirst ELSE Min({n - dropFirst, keepFirst})

\* OFFSET and LIMIT applied to n valid rows
LimitedCount(n) ==
  LET afterDrop == IF n > dropFirst THEN n - dropFirst ELSE 0
  IN  IF keepFirst = 0 THEN afterDrop ELSE Min({afterDrop, keepFirst})

\* ResultSet::rowCountImpl: closed form over a permutation, binary search
\* per storage for a projection, otherwise a scan of entryCount() entries.
rowCountImpl ==
  LET scanned == Cardinality({i \in 0..(entryCount - 1) : ~isEmptyEntry(PermAt(i))})
      searched == FoldLeft(LAMBDA acc, b : acc + binSearchRowCount(b), 0, storages)
  IN  LimitedCount(IF permutation # <<>> THEN Len(permutation)
                   ELSE IF queryType = "Projection" THEN searched
                   ELSE scanned)

(* Sort engine (ResultSet::sort; the comparator code is not in src/)       *)

KeyOf(g) == LET loc == findStorage(g) IN storages[loc[1]][loc[2] + 1]

\* permutation of the valid entries ordered by their key, ties broken by
\* entry index, cut to the first top_n when top_n > 0
SortedPermutation(asc, topN) ==
  LET valid  == {g \in 0..(rsEntryCount - 1) : ~isEmptyEntry(g)}
      Before(a, b) == IF KeyOf(a) = KeyOf(b) THEN a < b
                      ELSE IF asc THEN KeyOf(a) < KeyOf(b) ELSE KeyOf(b) < KeyOf(a)
      sorted == SetToSortSeq(valid, Before)
  IN  IF topN = 0 THEN sorted ELSE SubSeq(sorted, 1, Min({topN, Len(sorted)}))

(* Actions                                                                 *)

Init ==
  /\ queryType \in QueryTypes
  /\ \E b \in Buffers[queryType] : storages = <<b>> /\ rsEntryCount = Len(b)
  /\ permutation = <<>>
  /\ dropFirst = 0 /\ keepFirst = 0
  /\ crt = 0 /\ fetched = 0
  /\ cachedRowCount = NoCount
  /\ iters = [rd \in Readers |-> NoIter]
  /\ stage = "build"
  /\ consumed = <<>> /\ exhausted = FALSE

Untouched == UNCHANGED <<crt, fetched, cachedRowCount, iters, consumed, exhausted>>

\* ResultSet::updateStorageEntryCount: a projection learns its true row
\* count; the entries past it drop out of the storage.
UpdateStorageEntryCount(n) ==
  /\ stage = "build"
  /\ queryType = "Projection"
  /\ n < Len(storages[1])
  /\ storages' = <<SubSeq(storages[1], 1, n)>>
  /\ rsEntryCount' = n
  /\ UNCHANGED <<permutation, dropFirst, keepFirst, stage>>
  /\ Untouched

\* ResultSet::append: the other result set's storage becomes the next
\* appended storage and the entry count grows by its entry count.
AppendStorage(b) ==
  /\ stage \in {"build", "merge"}
  /\ Len(storages) < MaxStorages
  /\ storages' = Append(storages, b)
  /\ rsEntryCount' = rsEntryCount + Len(b)
  /\ stage' = "merge"
  /\ UNCHANGED <<permutation, dropFirst, keepFirst>>
  /\ Untouched

\* ResultSet::sort(order_entries, top_n, ...)
Sort(asc, topN) ==
  /\ stage \in {"build", "merge", "finalize"}
  /\ permutation' = SortedPermutation(asc, topN)
  /\ stage' = "finalize"
  /\ UNCHANGED <<storages, rsEntryCount, dropFirst, keepFirst>>
  /\ Untouched

\* ResultSet::keepFirstN (LIMIT n)
KeepFirstN(n) ==
  /\ stage \in {"build", "merge", "finalize"}
  /\ keepFirst' = n
  /\ stage' = "finalize"
  /\ UNCHANGED <<storages, rsEntryCount, permutation, dropFirst>>
  /\ Untouched

\* ResultSet::dropFirstN (OFFSET n)
DropFirstN(n) ==
  /\ stage \in {"build", "merge", "finalize"}
  /\ dropFirst' = n
  /\ stage' = "finalize"
  /\ UNCHANGED <<storages, rsEntryCount, permutation, keepFirst>>
  /\ Untouched

\* ResultSet::clearPermutation
ClearPermutation ==
  /\ stage \in {"build", "merge", "finalize"}
  /\ permutation # <<>>
  /\ permutation' = <<>>
  /\ stage' = "finalize"
  /\ UNCHANGED <<storages, rsEntryCount, dropFirst, keepFirst>>
  /\ Untouched

Layout == <<storages, rsEntryCount, permutation, dropFirst, keepFirst>>

\* ResultSet::getNextRow: under row_iteration_mutex_, getNextRowImpl.
GetNextRow ==
  LET r == getNextRowImpl(crt, fetched) IN
  /\ stage' = "read"
  /\ crt' = r.crt /\ fetched' = r.fetched
  /\ consumed' = IF r.row = NoRow THEN consumed ELSE Append(consumed, r.row)
  /\ exhausted' = (r.row = NoRow)
  /\ UNCHANGED <<cachedRowCount, iters>>
  /\ UNCHANGED Layout

\* mutant: moveToBegin resets the buffer index but not fetched_so_far_
MoveToBegin_keepFetched ==
  /\ stage = "read"
  /\ crt' = 0
  /\ consumed' = <<>> /\ exhausted' = FALSE
  /\ UNCHANGED <<fetched, cachedRowCount, iters, stage>>
  /\ UNCHANGED Layout

\* ResultSet::moveToBegin: rewind the shared cursor.
MoveToBegin ==
  /\ stage = "read"
  /\ crt' = 0 /\ fetched' = 0
  /\ consumed' = <<>> /\ exhausted' = FALSE
  /\ UNCHANGED <<cachedRowCount, iters, stage>>
  /\ UNCHANGED Layout

\* ResultSet::getRowAt(row_idx, col_idx): under the mutex, moveToBegin and
\* row_idx + 1 calls of getNextRowUnlocked; CHECK(!crt_row.empty()) on
\* each, so a caller only asks for a row that exists.
GetRowAtRowCol(rowIdx) ==
  LET r == RowsFromBegin(rowIdx + 1, 0, 0) IN
  /\ \A i \in 1..Len(r.rows) : r.rows[i] # NoRow
  /\ stage' = "read"
  /\ crt' = r.crt /\ fetched' = r.fetched
  /\ consumed' = r.rows
  /\ exhausted' = FALSE
  /\ UNCHANGED <<cachedRowCount, iters>>
  /\ UNCHANGED Layout

\* ResultSet::rowIterator(from_logical_index, ...): a fresh iterator
\* advanced from_logical_index + 1 times.
RowIterator(rd, from) ==
  /\ stage' = "read"
  /\ iters' = [iters EXCEPT ![rd] =
                 IterAdvanceN([NoIter EXCEPT !.live = TRUE, !.from = from], from + 1)]
  /\ UNCHANGED <<crt, fetched, cachedRowCount, consumed, exhausted>>
  /\ UNCHANGED Layout

\* ResultSetRowIterator::operator++
IteratorNext(rd) ==
  /\ iters[rd].live
  /\ iters' = [iters EXCEPT ![rd] = IterAdvance(@)]
  /\ UNCHANGED <<crt, fetched, cachedRowCount, consumed, exhausted, stage>>
  /\ UNCHANGED Layout

\* ResultSet::rowCount: compute once and memoise in cached_row_count_.
RowCount ==
  /\ cachedRowCount = NoCount
  /\ stage' = "read"
  /\ cachedRowCount' = rowCountImpl
  /\ UNCHANGED <<crt, fetched, iters, consumed, exhausted>>
  /\ UNCHANGED Layout

\* mutant: initStatus leaves the shared cursor where it was
InitStatus_keepCursor ==
  /\ stage = "read"
  /\ permutation' = <<>>
  /\ cachedRowCount' = NoCount
  /\ dropFirst' = 0 /\ keepFirst' = 0
  /\ stage' = "finalize"
  /\ iters' = [rd \in Readers |-> NoIter]
  /\ consumed' = <<>> /\ exhausted' = FALSE
  /\ UNCHANGED <<storages, rsEntryCount, crt, fetched>>

\* mutant: initStatus without invalidateCachedRowCount()
InitStatus_keepCache ==
  /\ stage = "read"
  /\ crt' = 0 /\ fetched' = 0
  /\ permutation' = <<>>
  /\ dropFirst' = 0 /\ keepFirst' = 0
  /\ stage' = "finalize"
  /\ iters' = [rd \in Readers |-> NoIter]
  /\ consumed' = <<>> /\ exhausted' = FALSE
  /\ UNCHANGED <<storages, rsEntryCount, cachedRowCount>>

\* ResultSet::initStatus: reset the result set for reuse by the recycler.
InitStatus ==
  /\ stage = "read"
  /\ crt' = 0 /\ fetched' = 0
  /\ permutation' = <<>>
  /\ cachedRowCount' = NoCount
  /\ dropFirst' = 0 /\ keepFirst' = 0
  /\ stage' = "finalize"
  /\ iters' = [rd \in Readers |-> NoIter]
  /\ consumed' = <<>> /\ exhausted' = FALSE
  /\ UNCHANGED <<storages, rsEntryCount>>

\* every operation keeps the query description type of the result set
Next ==
  /\ \/ \E n \in 0..MaxLimit : UpdateStorageEntryCount(n)
     \/ \E b \in Buffers[queryType] : AppendStorage(b)
     \/ \E asc \in BOOLEAN, topN \in 0..MaxLimit : Sort(asc, topN)
     \/ \E n \in 0..MaxLimit : KeepFirstN(n)
     \/ \E n \in 0..MaxLimit : DropFirstN(n)
     \/ ClearPermutation
     \/ GetNextRow
     \/ MoveToBegin
     \/ \E r \in 0..MaxLimit : GetRowAtRowCol(r)
     \/ \E rd \in Readers, from \in 0..MaxFrom : RowIterator(rd, from)
     \/ \E rd \in Readers : IteratorNext(rd)
     \/ RowCount
     \/ InitStatus
  /\ UNCHANGED queryType

Spec == Init /\ [][Next]_vars

(* Properties                                                              *)

TypeOK ==
  /\ storages \in Seq(Seq(SortKeys \cup {EMPTY}))
  /\ Len(storages) \in 1..MaxStorages
  /\ rsEntryCount \in Nat
  /\ permutation \in Seq(Nat)
  /\ dropFirst \in 0..MaxLimit /\ keepFirst \in 0..MaxLimit
  /\ crt \in Nat /\ fetched \in Nat
  /\ cachedRowCount \in {NoCount} \cup Nat
  /\ stage \in {"build", "merge", "finalize", "read"}
  /\ exhausted \in BOOLEAN

\* The shared cursor (getNextRowImpl, and getRowAt(row, col) which drives
\* it) produces exactly the valid rows in permutation order after skipping
\* drop_first_ of them and stopping after keep_first_: what it produced
\* since the last rewind is a prefix of that window, and all of it once
\* getNextRow() has returned an empty row.
CursorYieldsWindow ==
  /\ IsPrefix(consumed, Window)
  /\ exhausted => consumed = Window

\* The shared cursor never stands past the end of the entries in use:
\* advanceCursorToNextEntry's CHECK_LE(crt_row_buff_idx_, permutation_.size())
\* and getNextRowImpl's CHECK_EQ(entryCount(), crt_row_buff_idx_) hold
\* across updateStorageEntryCount, sort with top_n, clearPermutation and
\* recycling with initStatus.
CursorWithinEntries == crt <= entryCount

\* Every ResultSetRowIterator, created by rowIterator(from, ...) and then
\* advanced with ++, has stood on the window's rows in order, the first
\* from + 1 of them consumed by rowIterator; dereferencing it with
\* operator* yields the row it stands on, and once it turns invalid it has
\* stood on all of them and yields an empty row, also where its
\* global_entry_idx_ (permutation_.size() at the end) is not a sorted row.
IteratorsYieldWindow ==
  \A rd \in Readers : iters[rd].live =>
    LET it == iters[rd] IN
    /\ IsPrefix(it.seen, Window)
    /\ ~it.valid => it.seen = Window /\ IterDeref(it) = NoRow
    /\ it.valid => Len(it.seen) >= it.from + 1 /\ IterDeref(it) = Last(it.seen)

\* rowCount() (binary search per storage for a projection, a scan or the
\* permutation size otherwise, then OFFSET/LIMIT) caches the number of rows
\* that iteration yields.
RowCountMatchesIteration ==
  cachedRowCount # NoCount => cachedRowCount = Len(Window)

\* The shared cursor implements the row stream of spec section 4: with the
\* stream's rows the window, its position the rows fetched past the OFFSET,
\* every getNextRow() hands out the next row or nothing at the end,
\* moveToBegin and getRowAt(row, col) rewind or seek, and the rows change
\* only before reading starts or together with the reset of initStatus.
Stream == INSTANCE RowStream WITH
            rows <- Window,
            pos <- IF fetched > dropFirst THEN fetched - dropFirst ELSE 0,
            delivered <- consumed

RefinesRowStream == Stream!StreamSpec

\* Spec section 8: getRowAt(i) for i = 0..rowCount()-1 over an unsorted
\* result set yields the same rows, in the same order, as getNextRow()
\* from a fresh cursor.
RandomAccessMatchesCursor ==
  (cachedRowCount # NoCount /\ permutation = <<>>) =>
    [i \in 1..cachedRowCount |-> getRowAtLogical(i - 1)] = Window

=============================================================================
