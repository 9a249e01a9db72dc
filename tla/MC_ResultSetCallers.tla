------------------------- MODULE MC_ResultSetCallers -------------------------
(* ResultSetCallers over the projection buffers of MC_ResultSet.           *)
EXTENDS ResultSetCallers

ProjectionBuffers == {<<2, 1, EMPTY>>, <<1, EMPTY, EMPTY>>, <<2>>}

BuffersByType == [q \in QueryTypes |-> ProjectionBuffers]

===============================================================================
