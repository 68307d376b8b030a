--------------------------- MODULE PaxosElection ---------------------------
(***************************************************************************)
(* Leader election of ddfs: every node runs ddfsClusterPaxos::             *)
(* leaderElection and ddfsClusterPaxosInstance::execute on its main thread *)
(* while one receiver thread per remote member calls                       *)
(* ddfsClusterPaxos::processMessage.  Both work on the same, unlocked,     *)
(* ddfsClusterPaxosInstance object, so here they interleave freely.        *)
(*                                                                         *)
(* A step of the main thread is the code between two points where messages *)
(* can come in: up to a sleep, or up to the end of a loop of sends, where  *)
(* the process may die in the middle of the loop.  A step of a receiver    *)
(* thread is one processMessage call; nothing in the code makes it one,    *)
(* and ReceiverRaces has it access by access.  The members of the cluster  *)
(* are fixed: every addMember call was made before.                        *)
(***************************************************************************)
EXTENDS Naturals, Sequences, FiniteSets

CONSTANTS
    Node,           \* the memberIDs of the cluster's nodes
    MemberList,     \* MemberList[n]: the order of clusterMembers at node n
    Candidate,      \* the nodes whose application calls leaderElection
    RetryCountLE,   \* s_retryCountLE
    MaxElections,   \* bound: leaderElection calls per node
    Lossy,          \* may a send fail, or a member be found unconnected?
    Mortal,         \* the nodes whose process may die at any moment
    Recycled        \* the nodes whose objects were built in recycled memory

(***************************************************************************)
(* A node's memberID is the last two octets of its address, a non-zero 16  *)
(* bit number.  clusterMembers starts with the local member, followed by   *)
(* the others in the order of the addMember calls.                         *)
(***************************************************************************)
UidSpan == 65536

ASSUME NodeAssumption == IsFiniteSet(Node) /\ Node # {} /\ Node \subseteq 1..(UidSpan - 1)

ASSUME BoundsAssumption ==
    /\ Candidate \subseteq Node
    /\ Mortal \subseteq Node
    /\ Recycled \subseteq Node
    /\ RetryCountLE \in Nat \ {0}
    /\ MaxElections \in Nat
    /\ Lossy \in BOOLEAN

ASSUME MemberListAssumption ==
    \A n \in Node :
        /\ MemberList[n] \in [1..Cardinality(Node) -> Node]
        /\ \A m \in Node : \E i \in 1..Cardinality(Node) : MemberList[n][i] = m
        /\ MemberList[n][1] = n

VARIABLES
    \* the main thread of each node: where it is, and leaderElection's locals
    pc, retryCount, elections, status,
    \* ddfsClusterPaxos and its members
    paxosProposalNumber, leaderClusterMember, clusterMemberCount,
    internalRoundNumber, knownOnline,
    isLocalNode,    \* the members whose object says that it is the local node
    \* ddfsClusterPaxosInstance: the acceptor's part
    lastPromised, lastAcceptedProposalNumber, lastAcceptedValue,
    \* ddfsClusterPaxosInstance: the proposer's part
    state, promisesRecieved, acceptedRecieved, internalProposalNumber,
    participatingMembers,
    \* the TCP stream from n to m
    chan,
    \* history: who promised what, who accepted what, who announced what
    pledges, votes, commits

mainVars     == <<retryCount, elections, status>>
clusterVars  == <<paxosProposalNumber, leaderClusterMember, knownOnline>>
memoryVars   == <<clusterMemberCount, internalRoundNumber, isLocalNode>>
acceptorVars == <<lastPromised, lastAcceptedProposalNumber, lastAcceptedValue>>
proposerVars == <<state, promisesRecieved, acceptedRecieved, internalProposalNumber,
                  participatingMembers>>
historyVars  == <<pledges, votes, commits>>
vars == <<pc, mainVars, clusterVars, memoryVars, acceptorVars, proposerVars, chan, historyVars>>

-----------------------------------------------------------------------------
(* Values *)

NoLeader   == 0          \* leaderClusterMember is NULL
WildLeader == UidSpan    \* leaderClusterMember was never initialised and is not NULL

MessageType == {"PREPARE", "PROMISE", "ACCEPT_REQUESTED", "ACCEPTED", "LEADER_ELECTED"}

Message == [type : MessageType, num : Nat \ {0}, accNum : Nat, accVal : Node \union {0}]

\* ddfsClusterMessagePaxos::addMessage; the round number is 0 in every message.
addMessage(type, num, accNum, accVal) ==
    [type |-> type, num |-> num, accNum |-> accNum, accVal |-> accVal]

MessageRound == 0

MainState == {"idle", "loop", "prepare", "promiseSelf", "waitPromise", "acceptSelf",
              "waitAccept", "elected", "failed", "crashed"}

PaxosState == {"NONE", "PREPARE", "PROMISE_RECV", "ACCEPT_REQUESTED", "COMPLETED"}

\* The number getProposalNumber makes of the counter and the node's identification.
ProposalNumber(n, counter) == counter * UidSpan + n

\* All the numbers that the bound on elections lets the nodes make.
Number == {ProposalNumber(n, c) : n \in Node, c \in 89..(88 + RetryCountLE * MaxElections)}

QuorumMutant == Cardinality(Node) \div 2
Quorum == (Cardinality(Node) \div 2) + 1

-----------------------------------------------------------------------------
(***************************************************************************)
(* Initial states.  The constructors leave leaderClusterMember,            *)
(* clusterMemberCount, internalRoundNumber and the remote members'         *)
(* memberState and _isLocalNode unset.  In fresh, zeroed memory these are  *)
(* NULL, the true count, 0, s_clusterMemberOnline and false; in recycled   *)
(* memory they are anything.  Only execute reads _isLocalNode.             *)
(***************************************************************************)
Leftover ==
    [leader : {NoLeader, WildLeader},
     count  : {1, Cardinality(Node), Cardinality(Node) + 1},
     round  : {0, 1},
     online : SUBSET Node,
     local  : SUBSET Node]

Init ==
    /\ pc = [n \in Node |-> "idle"]
    /\ retryCount = [n \in Node |-> 0]
    /\ elections = [n \in Node |-> 0]
    /\ status = [n \in Node |-> "none"]
    /\ paxosProposalNumber = [n \in Node |-> 88]
    /\ \E memory \in [Recycled -> Leftover] :
          /\ leaderClusterMember =
                [n \in Node |-> IF n \in Recycled THEN memory[n].leader ELSE NoLeader]
          /\ clusterMemberCount =
                [n \in Node |-> IF n \in Recycled THEN memory[n].count ELSE Cardinality(Node)]
          /\ internalRoundNumber =
                [n \in Node |-> IF n \in Recycled THEN memory[n].round ELSE 0]
          /\ knownOnline =
                [n \in Node |-> (IF n \in Recycled THEN memory[n].online ELSE Node) \ {n}]
          /\ isLocalNode =
                [n \in Node |-> {n} \union
                    IF n \in Recycled \intersect Candidate THEN memory[n].local ELSE {}]
    /\ lastPromised = [n \in Node |-> 0]
    /\ lastAcceptedProposalNumber = [n \in Node |-> 0]
    /\ lastAcceptedValue = [n \in Node |-> 0]
    /\ state = [n \in Node |-> "NONE"]
    /\ promisesRecieved = [n \in Node |-> 0]
    /\ acceptedRecieved = [n \in Node |-> 0]
    /\ internalProposalNumber = [n \in Node |-> 0]
    /\ participatingMembers = [n \in Node |-> {}]
    /\ chan = [n \in Node |-> [m \in Node |-> <<>>]]
    /\ pledges = {}
    /\ votes = {}
    /\ commits = {}

-----------------------------------------------------------------------------
(***************************************************************************)
(* The network.  Connected(S) are the possible subsets of S that a node    *)
(* finds connected, or reaches with a send: all the living ones unless     *)
(* Lossy.  sendClusterMetaData ignores the result of a send, so a failed   *)
(* one is a lost message.  What is sent arrives once and in order.         *)
(***************************************************************************)
Connected(S) == {T \in SUBSET S : \A m \in S \ T : Lossy \/ pc[m] = "crashed"}

SendTo(n, T, msg) ==
    chan' = [chan EXCEPT ![n] = [m \in Node |-> IF m \in T THEN Append(@[m], msg) ELSE @[m]]]

(***************************************************************************)
(* How a loop of sends of n to the members of S ends: with those reached   *)
(* that it finds connected, and n at next; or cut short, n dying at a send *)
(* or between two, with only some first members of its list reached.       *)
(***************************************************************************)
FirstMembers(n, k) == {MemberList[n][i] : i \in 1..k}

LoopEnds(n, S, next) ==
    [reached : Connected(S), pc : {next}]
    \union {[reached |-> T \intersect FirstMembers(n, k), pc |-> "crashed"] :
                T \in Connected(S), k \in IF n \in Mortal THEN 1..Cardinality(Node) ELSE {}}

\* setLeader moves the leader pointer only if some member has the given ID ...
LeaderAfter(n, v) == IF v \in Node THEN v ELSE leaderClusterMember[n]

\* ... and makes each member's memberState LEADER or SLAVE, so none is Online.
setLeader(n, v) ==
    /\ leaderClusterMember' = [leaderClusterMember EXCEPT ![n] = LeaderAfter(n, v)]
    /\ knownOnline' = [knownOnline EXCEPT ![n] = {}]

\* getHostName() on the leader: a NULL pointer kills the process, a wild one may.
SurvivesMutant(leader) == {TRUE}
Survives(leader) == IF leader = WildLeader THEN BOOLEAN ELSE {leader # NoLeader}

\* return from leaderElection
Return(n, st) ==
    /\ pc' = [pc EXCEPT ![n] = "idle"]
    /\ status' = [status EXCEPT ![n] = st]
    /\ retryCount' = [retryCount EXCEPT ![n] = 0]
    /\ UNCHANGED elections

-----------------------------------------------------------------------------
(* Main thread: leaderElection and execute *)

LeaderElection(n) ==
    /\ n \in Candidate
    /\ pc[n] = "idle"
    /\ elections[n] < MaxElections
    /\ pc' = [pc EXCEPT ![n] = "loop"]
    /\ retryCount' = [retryCount EXCEPT ![n] = RetryCountLE]
    /\ elections' = [elections EXCEPT ![n] = @ + 1]
    /\ UNCHANGED <<status, clusterVars, memoryVars, acceptorVars, proposerVars, chan, historyVars>>

\* A single member makes itself leader, without an election.
SoloLeader(n) ==
    /\ pc[n] = "loop"
    /\ clusterMemberCount[n] = 1
    /\ setLeader(n, n)
    /\ Return(n, "insufficient")
    /\ UNCHANGED <<paxosProposalNumber, memoryVars, acceptorVars, proposerVars, chan, historyVars>>

NextNumber(n) == ProposalNumber(n, paxosProposalNumber[n] + 1)

\* The two checks at the head of execute.
MayProposeMutant(n) == lastPromised[n] <= NextNumber(n)
MayPropose(n) == lastPromised[n] <= NextNumber(n) /\ lastAcceptedProposalNumber[n] = 0

TakeNumber(n) ==
    /\ pc[n] = "loop"
    /\ clusterMemberCount[n] # 1
    /\ paxosProposalNumber' = [paxosProposalNumber EXCEPT ![n] = @ + 1]

Refuse(n) ==
    /\ TakeNumber(n)
    /\ ~MayPropose(n)
    /\ pc' = [pc EXCEPT ![n] = "failed"]
    /\ status' = [status EXCEPT ![n] = "failure"]
    /\ UNCHANGED <<retryCount, elections, leaderClusterMember, knownOnline, memoryVars,
                   acceptorVars, proposerVars, chan, historyVars>>

(***************************************************************************)
(* The choice of participants: every member that says it is the local      *)
(* node, and of the online members, in the order of clusterMembers and     *)
(* until there is a quorum, those that win a coin toss.  A member is taken *)
(* without a toss once the list has only as many left as the quorum lacks; *)
(* the members that are left are counted whether they are online or not.   *)
(***************************************************************************)
ChosenBefore(n, P, i) == Cardinality({j \in 1..(i-1) : MemberList[n][j] \in P})

Forced(n, P, i) == (Cardinality(Node) - (i - 1)) + ChosenBefore(n, P, i) = Quorum

Breaks(n, P, online, i) ==
    MemberList[n][i] \in online \ isLocalNode[n] /\ ChosenBefore(n, P, i) = Quorum

\* The members that the loop gets to, and asks isOnline(), up to its break.
Visited(n, P, online) ==
    {MemberList[n][i] : i \in {i \in 1..Cardinality(Node) :
        \A j \in 1..(i-1) : ~Breaks(n, P, online, j)}}

Selections(n, online) ==
    {P \in SUBSET (online \union isLocalNode[n]) :
        /\ P \subseteq Visited(n, P, online)
        /\ isLocalNode[n] \intersect Visited(n, P, online) \subseteq P
        /\ \A i \in 1..Cardinality(Node) :
              LET m == MemberList[n][i]
              IN  m \in (online \ isLocalNode[n]) \intersect Visited(n, P, online) =>
                    /\ Forced(n, P, i) => m \in P
                    /\ Breaks(n, P, online, i) => m \notin P}

SelectQuorum(n) ==
    /\ TakeNumber(n)
    /\ MayPropose(n)
    /\ internalProposalNumber' = [internalProposalNumber EXCEPT ![n] = NextNumber(n)]
    /\ \E conn \in Connected(Node \ {n}) :
         LET online == conn \union knownOnline[n]
         IN  \E P \in Selections(n, online) :
               /\ knownOnline' = [knownOnline EXCEPT ![n] =
                                    @ \union (conn \intersect Visited(n, P, online))]
               /\ IF Cardinality(P) < Quorum
                  THEN /\ pc' = [pc EXCEPT ![n] = "failed"]
                       /\ status' = [status EXCEPT ![n] = "insufficient"]
                       /\ UNCHANGED participatingMembers
                  ELSE /\ pc' = [pc EXCEPT ![n] = "prepare"]
                       /\ participatingMembers' = [participatingMembers EXCEPT ![n] = P]
                       /\ UNCHANGED status
    /\ UNCHANGED <<retryCount, elections, leaderClusterMember, memoryVars, acceptorVars,
                   state, promisesRecieved, acceptedRecieved, chan, historyVars>>

\* execute returns without a consensus; its participatingMembers go with it.
Fail(n) ==
    /\ pc' = [pc EXCEPT ![n] = "failed"]
    /\ status' = [status EXCEPT ![n] = "failure"]
    /\ participatingMembers' = [participatingMembers EXCEPT ![n] = {}]

AlreadyCompleted(n) ==
    /\ pc[n] = "prepare"
    /\ state[n] = "COMPLETED"
    /\ Fail(n)
    /\ UNCHANGED <<retryCount, elections, clusterVars, memoryVars, acceptorVars, state,
                   promisesRecieved, acceptedRecieved, internalProposalNumber, chan, historyVars>>

SendPrepare(n) ==
    /\ pc[n] = "prepare"
    /\ state[n] # "COMPLETED"
    /\ \E loop \in LoopEnds(n, participatingMembers[n] \ isLocalNode[n], "promiseSelf") :
         /\ knownOnline' = [knownOnline EXCEPT ![n] = @ \union loop.reached]
         /\ SendTo(n, loop.reached, addMessage("PREPARE", internalProposalNumber[n], 0, 0))
         /\ pc' = [pc EXCEPT ![n] = loop.pc]
    /\ UNCHANGED <<mainVars, paxosProposalNumber, leaderClusterMember, memoryVars,
                   acceptorVars, proposerVars, historyVars>>

\* The node promises itself its own number, whatever it promised meanwhile.
PromiseSelf(n) ==
    /\ pc[n] = "promiseSelf"
    /\ pc' = [pc EXCEPT ![n] = "waitPromise"]
    /\ state' = [state EXCEPT ![n] = "PREPARE"]
    /\ promisesRecieved' = [promisesRecieved EXCEPT ![n] = @ + 1]
    /\ lastPromised' = [lastPromised EXCEPT ![n] = internalProposalNumber[n]]
    /\ pledges' = pledges \union {<<n, internalProposalNumber[n]>>}
    /\ UNCHANGED <<mainVars, clusterVars, memoryVars, lastAcceptedProposalNumber,
                   lastAcceptedValue, acceptedRecieved, internalProposalNumber,
                   participatingMembers, chan, votes, commits>>

\* sleep(s_timeout) may end at any moment, whatever came in.
SleepOverMutant(n) == promisesRecieved[n] >= Cardinality(participatingMembers[n])
SleepOver(n) == TRUE

PrepareTimeout(n) ==
    /\ pc[n] = "waitPromise"
    /\ SleepOver(n)
    /\ promisesRecieved[n] < Cardinality(participatingMembers[n])
    /\ promisesRecieved' = [promisesRecieved EXCEPT ![n] = 0]
    /\ Fail(n)
    /\ UNCHANGED <<retryCount, elections, clusterVars, memoryVars, acceptorVars, state,
                   acceptedRecieved, internalProposalNumber, chan, historyVars>>

\* The value that goes out is the accepted one, 0 if there is none.
RequestAccept(n) ==
    /\ pc[n] = "waitPromise"
    /\ SleepOver(n)
    /\ promisesRecieved[n] >= Cardinality(participatingMembers[n])
    /\ promisesRecieved' = [promisesRecieved EXCEPT ![n] = 0]
    /\ acceptedRecieved' = [acceptedRecieved EXCEPT ![n] = 0]
    /\ state' = [state EXCEPT ![n] = "PROMISE_RECV"]
    /\ \E loop \in LoopEnds(n, participatingMembers[n] \ isLocalNode[n], "acceptSelf") :
         /\ SendTo(n, loop.reached,
                   addMessage("ACCEPT_REQUESTED", internalProposalNumber[n],
                              lastAcceptedProposalNumber[n], lastAcceptedValue[n]))
         /\ pc' = [pc EXCEPT ![n] = loop.pc]
    /\ UNCHANGED <<mainVars, clusterVars, memoryVars, acceptorVars, internalProposalNumber,
                   participatingMembers, historyVars>>

\* The value the node falls back on: its own memberID.
OwnValueMutant(n) == MemberList[n][Cardinality(Node)]
OwnValue(n) == n

\* The node accepts its own proposal, whatever it promised or accepted meanwhile.
AcceptSelf(n) ==
    LET p == internalProposalNumber[n]
    IN  /\ pc[n] = "acceptSelf"
        /\ pc' = [pc EXCEPT ![n] = "waitAccept"]
        /\ state' = [state EXCEPT ![n] = "ACCEPT_REQUESTED"]
        /\ acceptedRecieved' = [acceptedRecieved EXCEPT ![n] = @ + 1]
        /\ IF lastAcceptedProposalNumber[n] < p
           THEN /\ lastAcceptedProposalNumber' = [lastAcceptedProposalNumber EXCEPT ![n] = p]
                /\ votes' = votes \union {<<n, p>>}
           ELSE UNCHANGED <<lastAcceptedProposalNumber, votes>>
        /\ lastAcceptedValue' = [lastAcceptedValue EXCEPT ![n] = IF @ = 0 THEN OwnValue(n) ELSE @]
        /\ UNCHANGED <<mainVars, clusterVars, memoryVars, lastPromised, promisesRecieved,
                       internalProposalNumber, participatingMembers, chan, pledges, commits>>

AcceptTimeout(n) ==
    /\ pc[n] = "waitAccept"
    /\ acceptedRecieved[n] < Cardinality(participatingMembers[n])
    /\ acceptedRecieved' = [acceptedRecieved EXCEPT ![n] = 0]
    /\ Fail(n)
    /\ UNCHANGED <<retryCount, elections, clusterVars, memoryVars, acceptorVars, state,
                   promisesRecieved, internalProposalNumber, chan, historyVars>>

\* The result goes to every remote member, not to the participants only.
CommitTargetsMutant(n) == participatingMembers[n] \ isLocalNode[n]
CommitTargets(n) == Node \ isLocalNode[n]

Commit(n) ==
    /\ pc[n] = "waitAccept"
    /\ acceptedRecieved[n] >= Cardinality(participatingMembers[n])
    /\ acceptedRecieved' = [acceptedRecieved EXCEPT ![n] = 0]
    /\ state' = [state EXCEPT ![n] = "COMPLETED"]
    /\ \E loop \in LoopEnds(n, CommitTargets(n), "elected") :
         /\ SendTo(n, loop.reached,
                   addMessage("LEADER_ELECTED", internalProposalNumber[n],
                              lastAcceptedProposalNumber[n], lastAcceptedValue[n]))
         /\ pc' = [pc EXCEPT ![n] = loop.pc]
    /\ commits' = commits \union {[by |-> n, num |-> internalProposalNumber[n],
                                   val |-> lastAcceptedValue[n]]}
    /\ participatingMembers' = [participatingMembers EXCEPT ![n] = {}]
    /\ UNCHANGED <<mainVars, clusterVars, memoryVars, acceptorVars, promisesRecieved,
                   internalProposalNumber, pledges, votes>>

\* execute reads the accepted value again, and leaderElection installs that one.
Elected(n) ==
    /\ pc[n] = "elected"
    /\ setLeader(n, lastAcceptedValue[n])
    /\ \/ /\ TRUE \in Survives(leaderClusterMember'[n])
          /\ Return(n, "ok")
       \/ /\ FALSE \in Survives(leaderClusterMember'[n])
          /\ pc' = [pc EXCEPT ![n] = "crashed"]
          /\ UNCHANGED mainVars
    /\ UNCHANGED <<paxosProposalNumber, memoryVars, acceptorVars, proposerVars, chan, historyVars>>

\* After a failed execute: success all the same if some leader is known ...
LeaderKnown(n) == leaderClusterMember[n] # NoLeader

FoundLeader(n) ==
    /\ pc[n] = "failed"
    /\ LeaderKnown(n)
    /\ \/ /\ TRUE \in Survives(leaderClusterMember[n])
          /\ Return(n, "ok")
       \/ /\ leaderClusterMember[n] = WildLeader
          /\ pc' = [pc EXCEPT ![n] = "crashed"]
          /\ UNCHANGED mainVars
    /\ UNCHANGED <<clusterVars, memoryVars, acceptorVars, proposerVars, chan, historyVars>>

\* ... or one retry less, and the status of the last execute when none is left.
RetriesAfterMutant(n) == retryCount[n]
RetriesAfter(n) == retryCount[n] - 1

Retry(n) ==
    /\ pc[n] = "failed"
    /\ ~LeaderKnown(n)
    /\ retryCount' = [retryCount EXCEPT ![n] = RetriesAfter(n)]
    /\ pc' = [pc EXCEPT ![n] = IF RetriesAfter(n) = 0 THEN "idle" ELSE "loop"]
    /\ UNCHANGED <<elections, status, clusterVars, memoryVars, acceptorVars, proposerVars,
                   chan, historyVars>>

-----------------------------------------------------------------------------
(* Receiver threads: processMessage at n of the next message from m *)

Arrived(n, m, type) ==
    /\ pc[n] # "crashed"
    /\ chan[m][n] # <<>>
    /\ Head(chan[m][n]).type = type

Consume(n, m) == chan' = [chan EXCEPT ![m][n] = Tail(@)]

Reply(n, m, msg) ==
    LET rest == [chan EXCEPT ![m][n] = Tail(@)]
    IN  \E conn \in Connected({m}) :
            chan' = IF m \in conn THEN [rest EXCEPT ![n][m] = Append(@, msg)] ELSE rest

\* A PREPARE of an older round is dropped without an answer.
DropPrepare(n, m) ==
    /\ Arrived(n, m, "PREPARE")
    /\ internalRoundNumber[n] > MessageRound
    /\ Consume(n, m)
    /\ UNCHANGED <<pc, mainVars, clusterVars, memoryVars, acceptorVars, proposerVars, historyVars>>

\* PROMISE carries the receiver's own lastPromised and its vote.
PromiseMessageMutant(promised, accNum, accVal) == addMessage("PROMISE", accNum, promised, accVal)
PromiseMessage(promised, accNum, accVal) == addMessage("PROMISE", promised, accNum, accVal)

\* Any other PREPARE is answered, also one whose number is too low to be promised.
\* lastPromised is compared and then assigned, without a lock: one step here, two
\* (CheckPrepare and Raise) in ReceiverRaces, where AcceptorKeepsPromise is checked.
ReceivePrepare(n, m) ==
    LET msg      == Head(chan[m][n])
        raised   == lastPromised[n] < msg.num
        promised == IF raised THEN msg.num ELSE lastPromised[n]
    IN  /\ Arrived(n, m, "PREPARE")
        /\ internalRoundNumber[n] <= MessageRound
        /\ lastPromised' = [lastPromised EXCEPT ![n] = promised]
        /\ pledges' = IF raised THEN pledges \union {<<n, msg.num>>} ELSE pledges
        /\ Reply(n, m, PromiseMessage(promised, lastAcceptedProposalNumber[n], lastAcceptedValue[n]))
        /\ UNCHANGED <<pc, mainVars, clusterVars, memoryVars, lastAcceptedProposalNumber,
                       lastAcceptedValue, proposerVars, votes, commits>>

\* The promise counts if it carries the number this node has promised last.
ReceivePromise(n, m) ==
    LET msg     == Head(chan[m][n])
        counted == state[n] = "PREPARE" /\ lastPromised[n] = msg.num
        adopted == msg.accNum # 0 /\ msg.accVal # lastAcceptedValue[n]
    IN  /\ Arrived(n, m, "PROMISE")
        /\ promisesRecieved' = [promisesRecieved EXCEPT ![n] = IF counted THEN @ + 1 ELSE @]
        /\ lastAcceptedProposalNumber' =
              [lastAcceptedProposalNumber EXCEPT ![n] = IF adopted THEN msg.accNum ELSE @]
        /\ lastAcceptedValue' = [lastAcceptedValue EXCEPT ![n] = IF adopted THEN msg.accVal ELSE @]
        /\ Consume(n, m)
        /\ UNCHANGED <<pc, mainVars, clusterVars, memoryVars, lastPromised, state,
                       acceptedRecieved, internalProposalNumber, participatingMembers, historyVars>>

\* The only number an acceptor accepts is the one it promised last.
AcceptableMutant(n, msg) == TRUE
Acceptable(n, msg) == lastPromised[n] = msg.num

ReceiveAcceptRequested(n, m) ==
    LET msg == Head(chan[m][n])
    IN  /\ Arrived(n, m, "ACCEPT_REQUESTED")
        /\ Acceptable(n, msg)
        /\ lastAcceptedProposalNumber' = [lastAcceptedProposalNumber EXCEPT ![n] = msg.num]
        /\ lastAcceptedValue' = [lastAcceptedValue EXCEPT ![n] = msg.accVal]
        /\ votes' = votes \union {<<n, msg.num>>}
        /\ Reply(n, m, addMessage("ACCEPTED", msg.num, msg.num, msg.accVal))
        /\ UNCHANGED <<pc, mainVars, clusterVars, memoryVars, lastPromised, proposerVars,
                       pledges, commits>>

DropAcceptRequested(n, m) ==
    /\ Arrived(n, m, "ACCEPT_REQUESTED")
    /\ ~Acceptable(n, Head(chan[m][n]))
    /\ Consume(n, m)
    /\ UNCHANGED <<pc, mainVars, clusterVars, memoryVars, acceptorVars, proposerVars, historyVars>>

ReceiveAccepted(n, m) ==
    LET counted == lastAcceptedProposalNumber[n] = Head(chan[m][n]).accNum
    IN  /\ Arrived(n, m, "ACCEPTED")
        /\ acceptedRecieved' = [acceptedRecieved EXCEPT ![n] = IF counted THEN @ + 1 ELSE @]
        /\ Consume(n, m)
        /\ UNCHANGED <<pc, mainVars, clusterVars, memoryVars, acceptorVars, state,
                       promisesRecieved, internalProposalNumber, participatingMembers, historyVars>>

\* The announced leader is installed; the log line after it needs one.
ReceiveLeaderElected(n, m) ==
    /\ Arrived(n, m, "LEADER_ELECTED")
    /\ setLeader(n, Head(chan[m][n]).accVal)
    /\ \/ /\ TRUE \in Survives(leaderClusterMember'[n])
          /\ state' = [state EXCEPT ![n] = "COMPLETED"]
          /\ UNCHANGED pc
       \/ /\ FALSE \in Survives(leaderClusterMember'[n])
          /\ pc' = [pc EXCEPT ![n] = "crashed"]
          /\ UNCHANGED state
    /\ Consume(n, m)
    /\ UNCHANGED <<mainVars, paxosProposalNumber, memoryVars, acceptorVars, promisesRecieved,
                   acceptedRecieved, internalProposalNumber, participatingMembers, historyVars>>

-----------------------------------------------------------------------------
\* The process dies: killed, or by SIGPIPE on a send to a peer that went away.
Crash(n) ==
    /\ n \in Mortal
    /\ pc[n] # "crashed"
    /\ pc' = [pc EXCEPT ![n] = "crashed"]
    /\ UNCHANGED <<mainVars, clusterVars, memoryVars, acceptorVars, proposerVars, chan, historyVars>>

\* What the main thread does once the application has called leaderElection.
Proceed(n) ==
    \/ SoloLeader(n) \/ Refuse(n) \/ SelectQuorum(n)
    \/ AlreadyCompleted(n) \/ SendPrepare(n) \/ PromiseSelf(n)
    \/ PrepareTimeout(n) \/ RequestAccept(n) \/ AcceptSelf(n)
    \/ AcceptTimeout(n) \/ Commit(n)
    \/ Elected(n) \/ FoundLeader(n) \/ Retry(n)

Receive(n, m) ==
    \/ DropPrepare(n, m) \/ ReceivePrepare(n, m)
    \/ ReceivePromise(n, m)
    \/ ReceiveAcceptRequested(n, m) \/ DropAcceptRequested(n, m)
    \/ ReceiveAccepted(n, m)
    \/ ReceiveLeaderElected(n, m)

Next ==
    \/ \E n \in Node : LeaderElection(n) \/ Proceed(n) \/ Crash(n)
    \/ \E n, m \in Node : Receive(n, m)

Spec == Init /\ [][Next]_vars

\* Main threads are scheduled and sleeps end; calling leaderElection is up to the
\* application, and receivers may be as slow as they like.
Fairness == \A n \in Node : WF_vars(Proceed(n))

FairSpec == Spec /\ Fairness

-----------------------------------------------------------------------------
(* Properties *)

\* Every variable has the type of its C++ counterpart, and every message in a
\* stream is well formed: its number is one some node has made, never 0.
TypeOK ==
    /\ pc \in [Node -> MainState]
    /\ retryCount \in [Node -> Nat]
    /\ elections \in [Node -> Nat]
    /\ status \in [Node -> {"none", "ok", "insufficient", "failure"}]
    /\ paxosProposalNumber \in [Node -> Nat]
    /\ leaderClusterMember \in [Node -> Node \union {NoLeader, WildLeader}]
    /\ clusterMemberCount \in [Node -> Nat]
    /\ internalRoundNumber \in [Node -> Nat]
    /\ knownOnline \in [Node -> SUBSET Node]
    /\ isLocalNode \in [Node -> SUBSET Node] /\ \A n \in Node : n \in isLocalNode[n]
    /\ lastPromised \in [Node -> Nat]
    /\ lastAcceptedProposalNumber \in [Node -> Nat]
    /\ lastAcceptedValue \in [Node -> Node \union {0}]
    /\ state \in [Node -> PaxosState]
    /\ promisesRecieved \in [Node -> Nat]
    /\ acceptedRecieved \in [Node -> Nat]
    /\ internalProposalNumber \in [Node -> Nat]
    /\ participatingMembers \in [Node -> SUBSET Node]
    /\ chan \in [Node -> [Node -> Seq(Message)]]
    /\ pledges \subseteq Node \X Nat
    /\ votes \subseteq Node \X Nat
    /\ commits \subseteq [by : Node, num : Nat, val : Node \union {0}]

\* Of all the numbers a node makes, the acceptors of the whole cluster accept at
\* most one: once it has sent accept requests for a number, execute refuses to
\* propose another, in every retry and every later election.
OneNumberPerProposer ==
    \A v, w \in votes : v[2] % UidSpan = w[2] % UidSpan => v[2] = w[2]

IsMajority(S) == 2 * Cardinality(S) > Cardinality(Node)

\* A leader is announced only for a number that a majority of all the members
\* promised and accepted, the announcer counted in: it takes its own acceptance
\* for granted.  Promises and accepts that came late, were counted under another
\* number or were lost never make up a quorum.
CommitBackedByMajority ==
    \A c \in commits :
        IsMajority({a \in Node : /\ <<a, c.num>> \in pledges
                                 /\ <<a, c.num>> \in votes \/ a = c.by})

\* What execute waits for before it announces a number, the accept responses of a
\* quorum: a majority of the members, whoever they are, accepted that number.
CommitAcceptedByMajority ==
    \A c \in commits : IsMajority({a \in Node : <<a, c.num>> \in votes})

\* The promise of a Paxos acceptor: a member that only accepts never accepts a
\* number below one that it has promised.  (A candidate may, as it promises itself
\* its own number whatever it promised before.)  processMessage compares and
\* assigns without a lock, so it is for ReceiverRaces to check.
AcceptorKeepsPromise ==
    [][\A v \in votes' \ votes : v[1] \notin Candidate =>
          \A p \in pledges : p[1] = v[1] => p[2] <= v[2]]_vars

\* The election implements QuorumCommit: nobody accepts what it has not promised,
\* nobody announces twice, and what is announced was accepted by a majority, the
\* announcer counted in.
QC == INSTANCE QuorumCommit WITH Value <- Node \union {0}
ImplementsQuorumCommit == QC!Spec

\* Whoever a node takes for the leader has stood for election: the value that
\* reaches setLeader was proposed by that very member, or moved nothing.
LeaderStoodForElection ==
    \A n \in Node : leaderClusterMember[n] \in Node => elections[leaderClusterMember[n]] > 0

\* leaderElection reports success only at a node that knows a leader, unless its
\* leader pointer was never initialised.
OkMeansLeaderKnown ==
    \A n \in Node \ Recycled :
        status[n] = "ok" /\ pc[n] = "idle" => leaderClusterMember[n] \in Node

\* leaderElection returns (or the process dies in it): no sequence of timeouts,
\* refusals and late answers keeps it in its loop.  Calls are bounded, so every
\* one has returned when again and again no node is in one.
ElectionReturns == []<>(\A n \in Node : pc[n] \in {"idle", "crashed"})

\* However often execute fails and whatever comes in meanwhile, a call of
\* leaderElection takes at most s_retryCountLE numbers.
AttemptsBounded ==
    \A n \in Node : paxosProposalNumber[n] <= 88 + RetryCountLE * elections[n]

\* With no message lost, an announcer that lives to the end of its loop of sends
\* tells every member: each gets to know a leader, or dies.
CommitLearned ==
    (\E n \in Node : pc[n] = "elected") ~>
        \A m \in Node : leaderClusterMember[m] \in Node \/ pc[m] = "crashed"

\* What execute is there for: no two nodes announce different leaders.
Agreement == \A c, d \in commits : c.val = d.val

\* Accept requests go out only once a majority promised the number they carry.
AcceptAfterMajorityPromise ==
    \A n \in Node : pc[n] \in {"acceptSelf", "waitAccept"} =>
        IsMajority({a \in Node : <<a, internalProposalNumber[n]>> \in pledges})

=============================================================================
