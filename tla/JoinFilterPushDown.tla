--------------------------- MODULE JoinFilterPushDown ---------------------------
(***************************************************************************)
(* find_push_down_filters (src/QueryEngine/JoinFilterPushDown.cpp): from  *)
(* the join qualifiers of a left-deep join, pick the ones that reference  *)
(* exactly one non-outer input, group them by the input's nesting level   *)
(* before the join was reordered, and attach the range of that input's    *)
(* columns (and the previous input's start) in the concatenated column    *)
(* list.  A qualifier is abstracted to the set of range-table indices     *)
(* AllRangeTableIndexVisitor finds in it; its identity is its position.   *)
(* The input is chosen in Init and never changes; the invariants compare  *)
(* the result with a definition of what the filters and ranges mean.      *)
(***************************************************************************)
EXTENDS Integers, Sequences, SequencesExt, FiniteSets

CONSTANTS
  NumInputs,      \* ra_exe_unit.input_descs.size()
  InputSizes,     \* column counts an input may have
  MaxQuals        \* bound on the qualifiers of one join level

VARIABLES
  permutation,    \* input_permutation (<<>> = not reordered)
  inputSizes,     \* left_deep_join_input_sizes
  joinQuals       \* join_quals: per level, the rte index sets of its quals

vars == <<permutation, inputSizes, joinQuals>>

Inputs == 0..(NumInputs - 1)

\* std::partial_sum over left_deep_join_input_sizes
RECURSIVE PrefixSums(_)
PrefixSums(s) ==
  IF s = <<>> THEN <<>>
  ELSE LET p == PrefixSums(SubSeq(s, 1, Len(s) - 1))
       IN  Append(p, IF p = <<>> THEN s[Len(s)] ELSE p[Len(p)] + s[Len(s)])

\* mutant: input_permutation used as if it were its own inverse
ToOriginalRteIdx_noInverse(perm) ==
  IF perm = <<>> THEN [r \in Inputs |-> r] ELSE [r \in Inputs |-> perm[r + 1]]

\* to_original_rte_idx: the inverse of input_permutation, or the identity
ToOriginalRteIdx(perm) ==
  IF perm = <<>> THEN [r \in Inputs |-> r]
  ELSE [r \in Inputs |-> CHOOSE i \in Inputs : perm[i + 1] = r]

\* the qualifiers of all levels in order, each tagged with its position
Flat(jq) ==
  LET f == FlattenSeq(jq) IN [k \in 1..Len(f) |-> [id |-> k, rtes |-> f[k]]]

\* the rte index a qualifier is pushed down to, or 0 when it is skipped:
\* more than one index, or none (index 0), or the outer input itself
QualRteIdx(q) ==
  IF Cardinality(q.rtes) > 1 THEN 0
  ELSE IF q.rtes = {} THEN 0 ELSE CHOOSE r \in q.rtes : TRUE

\* filters_per_nesting_level
FiltersPerNestingLevel(perm, jq) ==
  LET toOrig == ToOriginalRteIdx(perm)
      kept   == SelectSeq(Flat(jq), LAMBDA q : QualRteIdx(q) # 0)
      levels == {toOrig[QualRteIdx(kept[k])] : k \in 1..Len(kept)}
  IN  [l \in levels |->
         [k \in 1..Len(SelectSeq(kept, LAMBDA q : toOrig[QualRteIdx(q)] = l)) |->
            SelectSeq(kept, LAMBDA q : toOrig[QualRteIdx(q)] = l)[k].id]]

\* the PushedDownFilterInfo built for one nesting level
InfoAt(prefix, level, filters) ==
  [filters |-> filters,
   input_prev  |-> IF level > 1 THEN prefix[level - 1] ELSE 0,
   input_start |-> IF level > 0 THEN prefix[level] ELSE 0,
   input_next  |-> prefix[level + 1]]

\* find_push_down_filters
find_push_down_filters(perm, sizes, jq) ==
  IF sizes = <<>> THEN {}
  ELSE LET prefix == PrefixSums(sizes)
           fpl    == FiltersPerNestingLevel(perm, jq)
       IN  {InfoAt(prefix, l, fpl[l]) : l \in DOMAIN fpl}

-----------------------------------------------------------------------------

InputPermutations ==
  {<<>>} \cup {p \in [1..NumInputs -> Inputs] : Range(p) = Inputs}

QualSets == {s \in SUBSET Inputs : Cardinality(s) <= 2}

Levels == UNION {[1..n -> QualSets] : n \in 1..MaxQuals}

Init ==
  /\ permutation \in InputPermutations
  /\ inputSizes \in {<<>>} \cup [1..NumInputs -> InputSizes]
  /\ joinQuals \in UNION {[1..n -> Levels] : n \in 1..2}

Next == UNCHANGED vars

Spec == Init /\ [][Next]_vars

-----------------------------------------------------------------------------

\* the first column of the input at nesting level l in the concatenated
\* column list: the columns of the inputs before it
ColumnStart(l) == FoldLeft(+, 0, SubSeq(inputSizes, 1, l))

\* the nesting level of range-table index r before reordering
OriginalLevel(r) ==
  IF permutation = <<>> THEN r ELSE CHOOSE i \in Inputs : permutation[i + 1] = r

\* find_push_down_filters returns, for every nesting level that some
\* single-input, non-outer qualifier maps to (through the inverse of
\* input_permutation), one filter holding exactly those qualifiers in
\* join order, with input_start/input_next the column range of that input
\* and input_prev the start of the input before it.
PushDownMatchesReference ==
  LET quals  == Flat(joinQuals)
      single == {k \in 1..Len(quals) :
                   Cardinality(quals[k].rtes) = 1 /\ quals[k].rtes # {0}}
      rteOf(k) == CHOOSE r \in quals[k].rtes : TRUE
      lvls   == {OriginalLevel(rteOf(k)) : k \in single}
      ref    == {[filters |-> SetToSortSeq({k \in single : OriginalLevel(rteOf(k)) = l}, <),
                  input_prev  |-> ColumnStart(IF l > 0 THEN l - 1 ELSE 0),
                  input_start |-> ColumnStart(l),
                  input_next  |-> ColumnStart(l + 1)] : l \in lvls}
  IN  inputSizes # <<>> =>
        find_push_down_filters(permutation, inputSizes, joinQuals) = ref

====
