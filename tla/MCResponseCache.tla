-------------------------- MODULE MCResponseCache --------------------------
(***************************************************************************)
(* One user reads two homes; the collection of the first home is shared    *)
(* with the second.                                                        *)
(***************************************************************************)
EXTENDS ResponseCache

MCUsers == {"user"}
MCHomes == {"owner", "sharee"}
MCChildren == {"calendar"}
MCOwnerHome == [c \in MCChildren |-> "owner"]
MCBoundIn == [c \in MCChildren |-> MCHomes]
MCRequests == [user : MCUsers, home : MCHomes, depth : {0, 1}]

=============================================================================
