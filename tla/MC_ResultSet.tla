---------------------------- MODULE MC_ResultSet ----------------------------
(* Instances of ResultSet for TLC.  Entries hold sort key 1 or 2 or the    *)
(* EMPTY sentinel.                                                         *)
EXTENDS ResultSet

\* GROUP BY buffers (perfect or baseline hash): empty entries anywhere.
HashBuffers == {<<1, EMPTY, 2>>, <<EMPTY, 1>>, <<2, 2>>}

\* Projection buffers: valid entries packed before an empty tail.
ProjectionBuffers == {<<2, 1, EMPTY>>, <<1, EMPTY, EMPTY>>, <<2>>}

\* the storages a result set of each query type may be built from
BuffersByType ==
  [q \in QueryTypes |-> IF q = "Projection" THEN ProjectionBuffers ELSE HashBuffers]

=============================================================================
