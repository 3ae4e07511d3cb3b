--------------------------- MODULE MCGroupSharing ---------------------------
(***************************************************************************)
(* Instances of GroupSharing: two groups, so that a user can be in one, in *)
(* the other or in both, and their changes can be reconciled together.     *)
(***************************************************************************)
EXTENDS GroupSharing

CONSTANTS u1, g1, g2

MCUsers  == {u1}
MCGroups == {g1, g2}

\* One of the groups may be granted both accesses; the groups are otherwise
\* alike, so that the other one may stay with reading.
MCGrants == {<<g1, "READ">>, <<g1, "WRITE">>, <<g2, "READ">>}
=============================================================================
