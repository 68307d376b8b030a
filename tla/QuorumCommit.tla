---------------------------- MODULE QuorumCommit ----------------------------
(***************************************************************************)
(* What the leader election promises, without messages, timers or nodes'   *)
(* states: acceptors pledge themselves to numbers, accept only numbers     *)
(* they have pledged themselves to, and a proposer announces a result once *)
(* and only for a number that a majority has accepted, itself counted in.  *)
(* It does not promise that two proposers announce the same leader.        *)
(***************************************************************************)
EXTENDS Naturals, FiniteSets

CONSTANTS Node, Number, Value

VARIABLES pledges, votes, commits

Init == pledges = {} /\ votes = {} /\ commits = {}

Pledge(a, num) ==
    /\ pledges' = pledges \union {<<a, num>>}
    /\ UNCHANGED <<votes, commits>>

Vote(a, num) ==
    /\ <<a, num>> \in pledges
    /\ votes' = votes \union {<<a, num>>}
    /\ UNCHANGED <<pledges, commits>>

\* The proposer takes its own vote for granted.
Chosen(n, num) ==
    2 * Cardinality({a \in Node : <<a, num>> \in votes \/ a = n}) > Cardinality(Node)

Commit(n, num, val) ==
    /\ <<n, num>> \in pledges
    /\ Chosen(n, num)
    /\ \A c \in commits : c.by # n /\ c.num # num
    /\ commits' = commits \union {[by |-> n, num |-> num, val |-> val]}
    /\ UNCHANGED <<pledges, votes>>

Next ==
    \E n \in Node, num \in Number :
        \/ Pledge(n, num)
        \/ Vote(n, num)
        \/ \E val \in Value : Commit(n, num, val)

Spec == Init /\ [][Next]_<<pledges, votes, commits>>
=============================================================================
