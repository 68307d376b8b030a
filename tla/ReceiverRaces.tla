---------------------------- MODULE ReceiverRaces ----------------------------
(***************************************************************************)
(* PaxosElection with processMessage taken apart.  Each remote member has  *)
(* a receiver thread, and all of them run processMessage on the one        *)
(* ddfsClusterPaxosInstance without a lock.  Here a receiver of a node in  *)
(* Racing makes a step for every access to a shared field: the check of    *)
(* lastPromised and its assignment, the two halves of an increment, the    *)
(* two halves of a vote, and the second reading of what an answer carries. *)
(* The other nodes, and all main threads, step as in PaxosElection.        *)
(***************************************************************************)
EXTENDS PaxosElection

CONSTANT Racing     \* the nodes whose receiver threads overlap

ASSUME RacingAssumption == Racing \subseteq Node

VARIABLES
    at,         \* at[n][m]: where n's receiver thread for m is in processMessage
    hand,       \* hand[n][m]: the message it works on
    seen        \* seen[n][m]: what it has read from the instance

raceVars == <<at, hand, seen>>
allVars  == <<vars, raceVars>>

NoMessage == [type |-> "NONE", num |-> 0, accNum |-> 0, accVal |-> 0]
Nothing   == [num |-> 0, val |-> 0]

Step == {"idle", "raise", "readVote", "promise", "readPromises", "countPromise", "vote",
         "adoptNumber", "adoptValue", "acceptNumber", "acceptValue", "accepted",
         "readAccepted", "countAccepted", "complete"} \union MessageType

RaceInit ==
    /\ Init
    /\ at = [n \in Node |-> [m \in Node |-> "idle"]]
    /\ hand = [n \in Node |-> [m \in Node |-> NoMessage]]
    /\ seen = [n \in Node |-> [m \in Node |-> Nothing]]

-----------------------------------------------------------------------------
\* Reader m of node n is at step s and goes on to t, or returns from processMessage.
At(n, m, s) == pc[n] # "crashed" /\ at[n][m] = s

Go(n, m, t) ==
    /\ at' = [at EXCEPT ![n][m] = t]
    /\ UNCHANGED hand

Done(n, m) ==
    /\ at' = [at EXCEPT ![n][m] = "idle"]
    /\ hand' = [hand EXCEPT ![n][m] = NoMessage]
    /\ seen' = [seen EXCEPT ![n][m] = Nothing]

GoOrDone(n, m, yes, t) ==
    IF yes THEN Go(n, m, t) /\ UNCHANGED seen ELSE Done(n, m)

\* What no step of processMessage touches.
Untouched == <<mainVars, paxosProposalNumber, memoryVars, internalProposalNumber,
               participatingMembers, commits>>

\* The fields of the instance that the receivers share with each other.
shared == <<acceptorVars, promisesRecieved, acceptedRecieved>>

Send(n, m, msg) == \E conn \in Connected({m}) : SendTo(n, conn, msg)

Take(n, m) ==
    /\ At(n, m, "idle")
    /\ chan[m][n] # <<>>
    /\ at' = [at EXCEPT ![n][m] = Head(chan[m][n]).type]
    /\ hand' = [hand EXCEPT ![n][m] = Head(chan[m][n])]
    /\ Consume(n, m)
    /\ UNCHANGED <<Untouched, shared, pc, state, leaderClusterMember, knownOnline, pledges,
                   votes, seen>>

-----------------------------------------------------------------------------
(* PREPARE: compare lastPromised, raise it, read the vote, answer *)

CheckPrepare(n, m) ==
    /\ At(n, m, "PREPARE")
    /\ GoOrDone(n, m, internalRoundNumber[n] <= MessageRound,
                IF lastPromised[n] < hand[n][m].num THEN "raise" ELSE "readVote")
    /\ UNCHANGED <<Untouched, shared, pc, state, leaderClusterMember, knownOnline, pledges,
                   votes, chan>>

Raise(n, m) ==
    /\ At(n, m, "raise")
    /\ lastPromised' = [lastPromised EXCEPT ![n] = hand[n][m].num]
    /\ pledges' = pledges \union {<<n, hand[n][m].num>>}
    /\ Go(n, m, "readVote")
    /\ UNCHANGED <<Untouched, pc, state, leaderClusterMember, knownOnline, votes, chan, seen,
                   lastAcceptedProposalNumber, lastAcceptedValue, promisesRecieved,
                   acceptedRecieved>>

ReadVote(n, m) ==
    /\ At(n, m, "readVote")
    /\ seen' = [seen EXCEPT ![n][m] = [num |-> lastAcceptedProposalNumber[n],
                                       val |-> lastAcceptedValue[n]]]
    /\ Go(n, m, "promise")
    /\ UNCHANGED <<Untouched, shared, pc, state, leaderClusterMember, knownOnline, pledges,
                   votes, chan>>

SendPromise(n, m) ==
    /\ At(n, m, "promise")
    /\ Send(n, m, PromiseMessage(lastPromised[n], seen[n][m].num, seen[n][m].val))
    /\ Done(n, m)
    /\ UNCHANGED <<Untouched, shared, pc, state, leaderClusterMember, knownOnline, pledges, votes>>

-----------------------------------------------------------------------------
(* PROMISE: compare, increment the count, adopt the vote *)

CheckPromise(n, m) ==
    LET counted == state[n] = "PREPARE" /\ lastPromised[n] = hand[n][m].num
    IN  /\ At(n, m, "PROMISE")
        /\ Go(n, m, IF counted THEN "readPromises" ELSE "vote")
        /\ UNCHANGED <<Untouched, shared, pc, state, leaderClusterMember, knownOnline, pledges,
                       votes, chan, seen>>

ReadPromises(n, m) ==
    /\ At(n, m, "readPromises")
    /\ seen' = [seen EXCEPT ![n][m].num = promisesRecieved[n]]
    /\ Go(n, m, "countPromise")
    /\ UNCHANGED <<Untouched, shared, pc, state, leaderClusterMember, knownOnline, pledges,
                   votes, chan>>

CountPromise(n, m) ==
    /\ At(n, m, "countPromise")
    /\ promisesRecieved' = [promisesRecieved EXCEPT ![n] = seen[n][m].num + 1]
    /\ seen' = [seen EXCEPT ![n][m] = Nothing]
    /\ Go(n, m, "vote")
    /\ UNCHANGED <<Untouched, pc, state, leaderClusterMember, knownOnline, pledges, votes, chan,
                   acceptorVars, acceptedRecieved>>

CheckVote(n, m) ==
    LET msg == hand[n][m]
    IN  /\ At(n, m, "vote")
        /\ GoOrDone(n, m, msg.accNum # 0 /\ msg.accVal # lastAcceptedValue[n], "adoptNumber")
        /\ UNCHANGED <<Untouched, shared, pc, state, leaderClusterMember, knownOnline, pledges,
                       votes, chan>>

AdoptNumber(n, m) ==
    /\ At(n, m, "adoptNumber")
    /\ lastAcceptedProposalNumber' =
          [lastAcceptedProposalNumber EXCEPT ![n] = hand[n][m].accNum]
    /\ Go(n, m, "adoptValue")
    /\ UNCHANGED <<Untouched, pc, state, leaderClusterMember, knownOnline, pledges, votes, chan,
                   seen, lastPromised, lastAcceptedValue, promisesRecieved, acceptedRecieved>>

AdoptValue(n, m) ==
    /\ At(n, m, "adoptValue")
    /\ lastAcceptedValue' = [lastAcceptedValue EXCEPT ![n] = hand[n][m].accVal]
    /\ Done(n, m)
    /\ UNCHANGED <<Untouched, pc, state, leaderClusterMember, knownOnline, pledges, votes, chan,
                   lastPromised, lastAcceptedProposalNumber, promisesRecieved, acceptedRecieved>>

-----------------------------------------------------------------------------
(* ACCEPT_REQUESTED: compare, store the number, store the value, answer *)

CheckAccept(n, m) ==
    /\ At(n, m, "ACCEPT_REQUESTED")
    /\ GoOrDone(n, m, Acceptable(n, hand[n][m]), "acceptNumber")
    /\ UNCHANGED <<Untouched, shared, pc, state, leaderClusterMember, knownOnline, pledges,
                   votes, chan>>

AcceptNumber(n, m) ==
    /\ At(n, m, "acceptNumber")
    /\ lastAcceptedProposalNumber' = [lastAcceptedProposalNumber EXCEPT ![n] = hand[n][m].num]
    /\ votes' = votes \union {<<n, hand[n][m].num>>}
    /\ Go(n, m, "acceptValue")
    /\ UNCHANGED <<Untouched, pc, state, leaderClusterMember, knownOnline, pledges, chan, seen,
                   lastPromised, lastAcceptedValue, promisesRecieved, acceptedRecieved>>

AcceptValue(n, m) ==
    /\ At(n, m, "acceptValue")
    /\ lastAcceptedValue' = [lastAcceptedValue EXCEPT ![n] = hand[n][m].accVal]
    /\ Go(n, m, "accepted")
    /\ UNCHANGED <<Untouched, pc, state, leaderClusterMember, knownOnline, pledges, votes, chan,
                   seen, lastPromised, lastAcceptedProposalNumber, promisesRecieved,
                   acceptedRecieved>>

\* The answer carries what the fields hold now, which another thread may have stored.
SendAccepted(n, m) ==
    LET num == lastAcceptedProposalNumber[n]
    IN  /\ At(n, m, "accepted")
        /\ Send(n, m, addMessage("ACCEPTED", num, num, lastAcceptedValue[n]))
        /\ Done(n, m)
        /\ UNCHANGED <<Untouched, shared, pc, state, leaderClusterMember, knownOnline, pledges,
                       votes>>

-----------------------------------------------------------------------------
(* ACCEPTED: compare, increment the count.  LEADER_ELECTED: install, complete. *)

CheckAccepted(n, m) ==
    /\ At(n, m, "ACCEPTED")
    /\ GoOrDone(n, m, lastAcceptedProposalNumber[n] = hand[n][m].accNum, "readAccepted")
    /\ UNCHANGED <<Untouched, shared, pc, state, leaderClusterMember, knownOnline, pledges,
                   votes, chan>>

ReadAccepted(n, m) ==
    /\ At(n, m, "readAccepted")
    /\ seen' = [seen EXCEPT ![n][m].num = acceptedRecieved[n]]
    /\ Go(n, m, "countAccepted")
    /\ UNCHANGED <<Untouched, shared, pc, state, leaderClusterMember, knownOnline, pledges,
                   votes, chan>>

CountAccepted(n, m) ==
    /\ At(n, m, "countAccepted")
    /\ acceptedRecieved' = [acceptedRecieved EXCEPT ![n] = seen[n][m].num + 1]
    /\ Done(n, m)
    /\ UNCHANGED <<Untouched, pc, state, leaderClusterMember, knownOnline, pledges, votes, chan,
                   acceptorVars, promisesRecieved>>

InstallLeader(n, m) ==
    /\ At(n, m, "LEADER_ELECTED")
    /\ setLeader(n, hand[n][m].accVal)
    /\ \/ /\ TRUE \in Survives(leaderClusterMember'[n])
          /\ Go(n, m, "complete")
          /\ UNCHANGED <<pc, seen>>
       \/ /\ FALSE \in Survives(leaderClusterMember'[n])
          /\ pc' = [pc EXCEPT ![n] = "crashed"]
          /\ Done(n, m)
    /\ UNCHANGED <<Untouched, shared, state, pledges, votes, chan>>

Complete(n, m) ==
    /\ At(n, m, "complete")
    /\ state' = [state EXCEPT ![n] = "COMPLETED"]
    /\ Done(n, m)
    /\ UNCHANGED <<Untouched, shared, pc, leaderClusterMember, knownOnline, pledges, votes, chan>>

-----------------------------------------------------------------------------
Handle(n, m) ==
    \/ Take(n, m)
    \/ CheckPrepare(n, m) \/ Raise(n, m) \/ ReadVote(n, m) \/ SendPromise(n, m)
    \/ CheckPromise(n, m) \/ ReadPromises(n, m) \/ CountPromise(n, m)
    \/ CheckVote(n, m) \/ AdoptNumber(n, m) \/ AdoptValue(n, m)
    \/ CheckAccept(n, m) \/ AcceptNumber(n, m) \/ AcceptValue(n, m) \/ SendAccepted(n, m)
    \/ CheckAccepted(n, m) \/ ReadAccepted(n, m) \/ CountAccepted(n, m)
    \/ InstallLeader(n, m) \/ Complete(n, m)

MainThread(n) == (LeaderElection(n) \/ Proceed(n) \/ Crash(n)) /\ UNCHANGED raceVars

ReceiverThread(n, m) ==
    \/ n \in Racing /\ Handle(n, m)
    \/ n \notin Racing /\ Receive(n, m) /\ UNCHANGED raceVars

RaceNext ==
    \/ \E n \in Node : MainThread(n)
    \/ \E n, m \in Node : ReceiverThread(n, m)

RaceSpec == RaceInit /\ [][RaceNext]_allVars

\* Less than what PaxosElection assumes: as long as some thread can go on, one does.
RaceFairness ==
    WF_allVars(\/ \E n \in Node : Proceed(n) /\ UNCHANGED raceVars
               \/ \E n, m \in Node : ReceiverThread(n, m))

RaceFairSpec == RaceSpec /\ RaceFairness

-----------------------------------------------------------------------------
(* Properties: those of PaxosElection, and the type invariant *)

\* Every field and every message keeps its type.  Answers carry fields that are
\* read again after they were stored, and still never the number 0.  A receiver
\* has a message in hand exactly while it is in processMessage.
RaceTypeOK ==
    /\ TypeOK
    /\ at \in [Node -> [Node -> Step]]
    /\ seen \in [Node -> [Node -> [num : Nat, val : Node \union {0}]]]
    /\ \A n, m \in Node :
          hand[n][m] \in IF at[n][m] = "idle" THEN {NoMessage} ELSE Message
=============================================================================
