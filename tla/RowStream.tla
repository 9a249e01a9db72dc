------------------------------ MODULE RowStream ------------------------------
(***************************************************************************)
(* What the sequential row API of a result set promises (spec.md section  *)
(* 4, "State machine for sequential iteration"): a fixed sequence of rows  *)
(* is handed out one at a time from a position that only a rewind, a      *)
(* random access through the same cursor, or a reuse of the result set    *)
(* moves other than forward.  The sequence may change only while nothing  *)
(* has been read or when the result set is reset for reuse.                *)
(***************************************************************************)
EXTENDS Integers, Sequences

VARIABLES
  rows,        \* the rows the result set stands for, in order
  pos,         \* how many of them the cursor has handed out
  delivered    \* what it handed out since the last rewind

streamVars == <<rows, pos, delivered>>

StreamInit ==
  /\ rows \in Seq(Int)
  /\ pos = 0
  /\ delivered = <<>>

\* before any row is read, sort, OFFSET/LIMIT and appends change the rows
Reshape ==
  /\ pos = 0 /\ delivered = <<>>
  /\ rows' \in Seq(Int)
  /\ UNCHANGED <<pos, delivered>>

\* the next row is handed out
Deliver ==
  /\ pos < Len(rows)
  /\ pos' = pos + 1
  /\ delivered' = Append(delivered, rows[pos + 1])
  /\ UNCHANGED rows

\* back to the first row
Rewind ==
  /\ pos' = 0 /\ delivered' = <<>>
  /\ UNCHANGED rows

\* a rewind followed by n + 1 deliveries in one step
Seek(n) ==
  /\ n < Len(rows)
  /\ pos' = n + 1
  /\ delivered' = SubSeq(rows, 1, n + 1)
  /\ UNCHANGED rows

\* reuse of the result set: rewound, and its rows redefined
Reset ==
  /\ pos' = 0 /\ delivered' = <<>>
  /\ rows' \in Seq(Int)

StreamNext ==
  \/ Reshape
  \/ Deliver
  \/ Rewind
  \/ \E n \in 0..Len(rows) : Seek(n)
  \/ Reset

StreamSpec == StreamInit /\ [][StreamNext]_streamVars

==============================================================================
