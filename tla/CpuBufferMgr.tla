---------------------------- MODULE CpuBufferMgr ----------------------------
(***************************************************************************)
(* Slab allocation of the CPU buffer manager                               *)
(* (src/DataMgr/BufferMgr/CpuBufferMgr/CpuBufferMgr.cpp).                  *)
(*                                                                         *)
(* The manager keeps slabs_, one pointer per slab, and slab_segments_, one *)
(* list of segments per slab, index for index.  addSlab grows slabs_       *)
(* before asking the arena allocator for the memory and shrinks it again   *)
(* when the allocator throws std::bad_alloc; only on success does it add   *)
(* the slab's one free segment of slab_size / page_size pages.             *)
(* freeAllMem replaces the arena (initializeMem).  The callers (BufferMgr) *)
(* are not in this repository: any sequence of these calls is allowed.    *)
(* A slab pointer is the slab's size and the arena it was carved from; a  *)
(* segment is its first page and its page count.                          *)
(***************************************************************************)
EXTENDS Integers, Sequences, SequencesExt

CONSTANTS
  SlabSizes,      \* slab_size values a caller may ask for
  PageSize,       \* page_size_
  MaxSlabs,       \* bound on the slabs added
  MaxArenas       \* bound on the arenas created (freeAllMem calls + 1)

Null == [size |-> 0, arena |-> 0]   \* a slot of slabs_ holding nullptr

VARIABLES
  slabs,          \* slabs_
  slabSegments,   \* slab_segments_
  arena           \* the generation of allocator_ (a new DramArena each time)

vars == <<slabs, slabSegments, arena>>

Init ==
  /\ slabs = <<>>
  /\ slabSegments = <<>>
  /\ arena = 1

\* mutant: the segment rounds the slab up to whole pages
SlabSegment_roundUp(size) == <<[start |-> 0, pages |-> (size + PageSize - 1) \div PageSize]>>

\* emplace_back(0, slab_size / page_size_): one free segment over the slab
SlabSegment(size) == <<[start |-> 0, pages |-> size \div PageSize]>>

\* mutant: slabs_ is not shrunk back when the allocation throws
addSlab_noRollback(size) ==
  /\ \/ /\ Len(slabs) < MaxSlabs
        /\ slabs' = Append(slabs, [size |-> size, arena |-> arena])
        /\ slabSegments' = Append(slabSegments, SlabSegment(size))
     \/ /\ slabs' = Append(slabs, Null)
        /\ UNCHANGED slabSegments
  /\ UNCHANGED arena

\* addSlab(slab_size): slabs_.resize(+1); the allocator either returns the
\* slab, and its segment list is added, or throws bad_alloc, and slabs_ is
\* resized back before FailedToCreateSlab is thrown (MaxSlabs bounds the
\* successes; an allocation may always fail)
addSlab(size) ==
  /\ \/ /\ Len(slabs) < MaxSlabs
        /\ slabs' = Append(slabs, [size |-> size, arena |-> arena])
        /\ slabSegments' = Append(slabSegments, SlabSegment(size))
     \/ /\ slabs' = SubSeq(Append(slabs, Null), 1, Len(slabs))
        /\ UNCHANGED slabSegments
  /\ UNCHANGED arena

\* initializeMem: a new DramArena in allocator_, releasing the old one
initializeMem == arena' = arena + 1

\* freeAllMem: CHECK(allocator_), then initializeMem; slabs_ and
\* slab_segments_ are left as they are
freeAllMem ==
  /\ arena < MaxArenas
  /\ initializeMem
  /\ UNCHANGED <<slabs, slabSegments>>

Next ==
  \/ \E size \in SlabSizes : addSlab(size)
  \/ freeAllMem

Spec == Init /\ [][Next]_vars

-----------------------------------------------------------------------------

\* slabs_ holds only slabs the allocator returned (no nullptr)
TypeOK ==
  /\ slabs \in Seq([size : SlabSizes, arena : 1..MaxArenas])
  /\ slabSegments \in Seq(Seq([start : Nat, pages : Nat]))
  /\ arena \in 1..MaxArenas

\* Whatever calls of addSlab fail, slab_segments_[i] still describes
\* slabs_[i]: the two lists have one entry per slab and the segments of a
\* slab cover whole pages inside it, from its start.
SlabsAndSegmentsInStep ==
  /\ Len(slabs) = Len(slabSegments)
  /\ \A i \in DOMAIN slabs :
       /\ FoldLeft(LAMBDA n, sg : n + sg.pages, 0, slabSegments[i]) * PageSize <= slabs[i].size
       /\ slabSegments[i][1].start = 0

==============================================================================
