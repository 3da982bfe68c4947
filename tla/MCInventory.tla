---------------------------- MODULE MCInventory ----------------------------
(* Values of Inventory's constants that a configuration cannot write. *)
EXTENDS Inventory

\* Unknown, zero, and a real capacity.
MCCapacity == {NoCapacity, 0, 2}

\* An SDP has two members and so many more contents than the other objects; named
\* objects differ from STPs only in which source names a row.  The lists may still
\* change between two requests without bound.
MCMaxSubs == [k \in Kind |-> 2]
MCMaxDocs == [k \in Kind |-> IF k = "sdp" THEN 1 ELSE 2]
MCMaxEdits == [k \in Kind |-> CASE k = "stp" -> 2 [] k = "named" -> 1 [] k = "sdp" -> 0]
=============================================================================
