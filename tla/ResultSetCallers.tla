--------------------------- MODULE ResultSetCallers ---------------------------
(***************************************************************************)
(* Two callers of one ResultSet in the read phase: a sequential reader     *)
(* that rewinds with moveToBegin() and then calls getNextRow(), and a      *)
(* random-access reader that calls getRowAt(row_idx, col_idx).  Both take  *)
(* row_iteration_mutex_, so each call is one atomic step, but both drive   *)
(* the same crt_row_buff_idx_ / fetched_so_far_.  nextRows is what the     *)
(* sequential reader has received since its own moveToBegin().            *)
(***************************************************************************)
EXTENDS ResultSet

VARIABLE nextRows

callerVars == <<vars, nextRows>>

CallersInit == Init /\ nextRows = <<>>

\* the sequential reader's getNextRow() call
ReaderGetNextRow ==
  LET r == getNextRowImpl(crt, fetched) IN
  /\ GetNextRow
  /\ nextRows' = IF r.row = NoRow THEN nextRows ELSE Append(nextRows, r.row)

\* the sequential reader's moveToBegin(), or the recycler's initStatus()
ReaderRewind ==
  /\ MoveToBegin \/ InitStatus
  /\ nextRows' = <<>>

\* every other step of the result set, the random-access reader's
\* getRowAt(row_idx, col_idx) included, leaves the reader's history alone
OtherStep ==
  /\ \/ \E n \in 0..MaxLimit : UpdateStorageEntryCount(n)
     \/ \E b \in Buffers[queryType] : AppendStorage(b)
     \/ \E asc \in BOOLEAN, topN \in 0..MaxLimit : Sort(asc, topN)
     \/ \E n \in 0..MaxLimit : KeepFirstN(n)
     \/ \E n \in 0..MaxLimit : DropFirstN(n)
     \/ ClearPermutation
     \/ \E r \in 0..MaxLimit : GetRowAtRowCol(r)
     \/ \E rd \in Readers, from \in 0..MaxFrom : RowIterator(rd, from)
     \/ \E rd \in Readers : IteratorNext(rd)
     \/ RowCount
  /\ UNCHANGED nextRows

CallersNext ==
  /\ ReaderGetNextRow \/ ReaderRewind \/ OtherStep
  /\ UNCHANGED queryType

CallersSpec == CallersInit /\ [][CallersNext]_callerVars

\* Spec section 5: random access (getRowAt) is safe for concurrent readers
\* and getNextRow() serialises on its lock, so a reader that rewound and
\* then iterates with getNextRow() receives the window's rows in order,
\* whatever getRowAt(row_idx, col_idx) calls another caller makes.
NextRowsFollowWindow == IsPrefix(nextRows, Window)

===============================================================================
