------------------------------ MODULE LazyFetch ------------------------------
(***************************************************************************)
(* Lazy fetch of projected columns (src/QueryEngine/ResultSetIteration.cpp).*)
(* For a lazily fetched target the buffer does not hold the value but the  *)
(* row's global index into the source column, which the executor hands to  *)
(* the result set as per-storage fragment buffers (col_buffers_), the      *)
(* start row of every fragment (frag_offsets_) and, when the fragments     *)
(* have one common size, that size (consistent_frag_sizes_).  Every reader *)
(* turns the global index into a fragment and a row within it with         *)
(* getColumnFrag and decodes that row of the fragment.                     *)
(*                                                                         *)
(* A source cell is <<fragment, row>>; what a reader reads is the address  *)
(* it decodes, which is a cell when the row lies inside the fragment and   *)
(* memory past the fragment's end otherwise.  The fragment layouts are     *)
(* chosen in Init and never change.                                        *)
(***************************************************************************)
EXTENDS Integers, Sequences, SequencesExt, FiniteSets

CONSTANTS
  Storages,           \* the result set's storages (index into col_buffers_)
  FragSizes,          \* row counts a source fragment may have (> 0)
  MaxFrags,           \* bound on the fragments of one storage's column
  FullFragmentsOnly   \* every fragment but the last has one common size

VARIABLES
  sizes               \* storage -> row count of each of its fragments

vars == <<sizes>>

\* the start row of every fragment, from 0 (frag_offsets_, built by the
\* executor from the fragments' row counts)
FragOffsets(s) == [f \in 0..(Len(s) - 1) |-> FoldLeft(+, 0, SubSeq(s, 1, f))]

\* consistent_frag_sizes_: the size of the fragments before the last when
\* they all have it, -1 otherwise
ConsistentFragSize(s) ==
  IF Len(s) > 1 /\ \A f \in 1..(Len(s) - 1) : s[f] = s[1] THEN s[1] ELSE -1

Abort == [ok |-> FALSE]

\* a decode of row i of fragment f
At(f, i) == [ok |-> TRUE, at |-> <<f, i>>]

\* get_frag_id_and_local_idx: from the last fragment down to fragment 1,
\* the first whose start is below the global index; {-1, -1} if none
get_frag_id_and_local_idx(offs, n, g) ==
  LET hits == {f \in 1..(n - 1) : offs[f] < g}
  IN  IF hits = {} THEN <<-1, -1>>
      ELSE <<Max(hits), g - offs[Max(hits)]>>

\* mutant: the global index is not replaced by the local one
getColumnFrag_keepGlobal(s, g) ==
  IF Len(s) > 1
  THEN LET cs == ConsistentFragSize(s)
           r  == IF cs # -1 THEN <<g \div cs, g % cs>>
                 ELSE get_frag_id_and_local_idx(FragOffsets(s), Len(s), g)
       IN  IF r[1] >= 0 /\ r[1] < Len(s) /\ (cs = -1 => r[2] <= g)
           THEN At(r[1], g) ELSE Abort
  ELSE At(0, g)

\* getColumnFrag: with several fragments, divide by the common size when
\* there is one, else search the offsets; CHECKs that the fragment exists
\* (and, on the search, that the local index is not above the global one);
\* a single fragment is read at the global index
getColumnFrag(s, g) ==
  IF Len(s) > 1
  THEN LET cs == ConsistentFragSize(s)
           r  == IF cs # -1 THEN <<g \div cs, g % cs>>
                 ELSE get_frag_id_and_local_idx(FragOffsets(s), Len(s), g)
       IN  IF r[1] >= 0 /\ r[1] < Len(s) /\ (cs = -1 => r[2] <= g)
           THEN At(r[1], r[2]) ELSE Abort
  ELSE At(0, g)

\* ChunkIter_get_nth on a none-encoded string: CHECK(!is_end) aborts on a
\* row past the fragment's end
ReadChecked(s, g) ==
  LET r == getColumnFrag(s, g)
  IN  IF r.ok /\ r.at[2] >= s[r.at[1] + 1] THEN Abort ELSE r

\* result_set::lazy_decode, and the array decode whose is_end is ignored:
\* no bound check, the address is read whatever it is
ReadUnchecked(s, g) == getColumnFrag(s, g)

\* lazyReadInt: strings through the chunk iterator, the rest lazy_decode
lazyReadInt(kind, s, g) ==
  IF kind = "string" THEN ReadChecked(s, g) ELSE ReadUnchecked(s, g)

\* makeTargetValue, lazy branch: CHECK_GE(ival, 0), then lazy_decode
makeTargetValue(s, g) == IF g >= 0 THEN ReadUnchecked(s, g) ELSE Abort

\* makeVarlenTargetValue, lazy branch: strings checked, arrays not
makeVarlenTargetValue(kind, s, g) ==
  IF kind = "string" THEN ReadChecked(s, g) ELSE ReadUnchecked(s, g)

\* fetchLazyColumnValue: the index read through getKeyInfo, CHECK_GE(ival,
\* 0), getColumnFrag on the storage of the entry, then lazy_decode
fetchLazyColumnValue(s, g) == IF g >= 0 THEN ReadUnchecked(s, g) ELSE Abort

\* what each reader returns for the stored index g
Reads(s, g) ==
  {lazyReadInt("fixed", s, g), lazyReadInt("string", s, g),
   makeTargetValue(s, g),
   makeVarlenTargetValue("string", s, g), makeVarlenTargetValue("array", s, g),
   fetchLazyColumnValue(s, g)}

-----------------------------------------------------------------------------

\* fragment layouts: with FullFragmentsOnly, as the fragmenter fills them
\* (all but the last full, the last no larger)
Layouts ==
  {s \in UNION {[1..n -> FragSizes] : n \in 1..MaxFrags} :
     FullFragmentsOnly =>
       \A f \in 1..Len(s) : s[f] = s[1] \/ (f = Len(s) /\ s[f] <= s[1])}

Init == sizes \in [Storages -> Layouts]

Next == UNCHANGED vars

Spec == Init /\ [][Next]_vars

-----------------------------------------------------------------------------

TypeOK == sizes \in [Storages -> Seq(FragSizes)]

\* the global rows of a storage's column and the cell each one is
Rows(s) == 0..(FoldLeft(+, 0, s) - 1)

SourceCell(s, g) ==
  LET offs == FragOffsets(s)
      f    == CHOOSE f \in DOMAIN offs : offs[f] <= g /\ g < offs[f] + s[f + 1]
  IN  <<f, g - offs[f]>>

\* Every lazy reader (lazyReadInt, makeTargetValue, makeVarlenTargetValue,
\* fetchLazyColumnValue) turns the stored global index of every row of
\* every storage into exactly the source cell of that row, through either
\* branch of getColumnFrag, without failing a CHECK.
ReadersReturnSourceCell ==
  \A st \in Storages : \A g \in Rows(sizes[st]) :
     \A r \in Reads(sizes[st], g) : r.ok /\ r.at = SourceCell(sizes[st], g)

\* No lazy reader returns anything but the row's source cell without
\* failing a CHECK: a global index getColumnFrag cannot place is either
\* refused or read correctly, never decoded from the wrong place.
NoSilentMisread ==
  \A st \in Storages : \A g \in Rows(sizes[st]) :
     \A r \in Reads(sizes[st], g) : r.ok => r.at = SourceCell(sizes[st], g)

==============================================================================
