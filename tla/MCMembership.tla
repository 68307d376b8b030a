---------------------------- MODULE MCMembership ----------------------------
(***************************************************************************)
(* An instance of Membership: the node's own host and another one, each of *)
(* which may be added any number of times.                                 *)
(***************************************************************************)
EXTENDS Membership

\* 192.168.2.16 is 16 * 256 + 2 once inet_aton's bytes have been shifted.
MCIdOf == [h \in Host |-> IF h = "other" THEN 15 * 256 + 2 ELSE 16 * 256 + 2]

\* What is announced: no value, which zeroed members take for their ID, or the
\* node's own ID, which every member of its host has.  Nobody announces the other.
MCValue == {0, MCIdOf[LocalHost]}

\* Zeroed memory, or a count that makes two members look like one.
MCWildCount == {0, -1}
=============================================================================
