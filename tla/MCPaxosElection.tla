-------------------------- MODULE MCPaxosElection --------------------------
(***************************************************************************)
(* Small instances of PaxosElection.  Every node adds the other members in *)
(* ascending order, as the test program does with its address list.        *)
(***************************************************************************)
EXTENDS PaxosElection, SequencesExt

MCMemberList ==
    [n \in Node |-> <<n>> \o SetToSortSeq(Node \ {n}, LAMBDA a, b : a < b)]

-----------------------------------------------------------------------------
(***************************************************************************)
(* A schedule of five nodes, three of them candidates: every behaviour of  *)
(* ScheduledSpec is one of Spec.  Nodes 1 and 5 time out once; the members *)
(* they then ask overlap in 1 and 3 only.  Node 4 asks 2 and 5, which      *)
(* answer late, and itself answers node 1's first attempt late.            *)
(***************************************************************************)
Participants(n, attempt) ==
    CASE n = 1 -> IF attempt = 1 THEN {1, 3, 4} ELSE {1, 2, 3}
      [] n = 4 -> {2, 4, 5}
      [] n = 5 -> {1, 3, 5}

Attempt(n) == paxosProposalNumber[n] - 88

\* Node n waits for cond before it reads from m.
Waits(n, m, cond) == Len(chan'[m][n]) < Len(chan[m][n]) => cond

Asleep(n) == pc[n] \in {"waitPromise", "acceptSelf", "waitAccept", "elected"} /\ (n = 4 \/ Attempt(n) = 2)

Schedule ==
    /\ \A n \in Candidate :
          /\ participatingMembers'[n] \in {{}, Participants(n, Attempt(n)')}
          /\ pc'[n] = "failed" => n # 4 /\ Attempt(n) = 1
    /\ \A n, m \in Node : Waits(n, m, \A c \in Candidate : Asleep(c))
    /\ Waits(1, 5, pc[1] # "waitPromise" \/ promisesRecieved[1] = 3)
    /\ Waits(2, 4, lastAcceptedProposalNumber[2] # 0)
    /\ Waits(5, 4, pc[5] = "waitAccept")
    /\ Waits(4, 1, lastAcceptedProposalNumber[4] = internalProposalNumber[1])

ScheduledSpec == Init /\ [][Next /\ Schedule]_vars

=============================================================================
