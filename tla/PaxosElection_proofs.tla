------------------------ MODULE PaxosElection_proofs ------------------------
(***************************************************************************)
(* Proofs about PaxosElection for every cluster, every number of retries   *)
(* and elections, with or without losses, crashes and recycled memory.     *)
(***************************************************************************)
EXTENDS PaxosElection, FiniteSetTheorems, TLAPS

Streams == [Node -> [Node -> Seq(Message)]]

-----------------------------------------------------------------------------
(* What the network operators do to a stream *)

\* A sequence over a set is one over any larger set.
LEMMA SeqMonotone ==
    ASSUME NEW A, NEW B, A \subseteq B, NEW s \in Seq(A)
    PROVE  s \in Seq(B)
  OBVIOUS

\* Sending a good message leaves every stream with good messages only.
LEMMA SendKeeps ==
    ASSUME NEW G \in [Node -> SUBSET Message], chan \in Streams,
           \A a, b \in Node : chan[a][b] \in Seq(G[a]),
           NEW n \in Node, NEW T, NEW msg \in G[n], SendTo(n, T, msg)
    PROVE  chan' \in Streams /\ \A a, b \in Node : chan'[a][b] \in Seq(G[a])
  <1>1. \A b \in Node : Append(chan[n][b], msg) \in Seq(G[n])
    OBVIOUS
  <1>2. \A a, b \in Node : chan'[a][b] =
            IF a = n /\ b \in T THEN Append(chan[a][b], msg) ELSE chan[a][b]
    BY DEF SendTo, Streams
  <1>3. ASSUME NEW a \in Node, NEW b \in Node
        PROVE  chan'[a][b] \in Seq(G[a])
    <2>1. CASE a = n /\ b \in T
      BY <1>1, <1>2, <2>1
    <2>2. CASE ~(a = n /\ b \in T)
      BY <1>2, <2>2
    <2> QED
      BY <2>1, <2>2
  <1>4. \A a, b \in Node : chan'[a][b] \in Seq(Message)
    BY <1>3, SeqMonotone
  <1>5. chan' = [a \in Node |-> IF a = n
                                THEN [b \in Node |-> chan'[n][b]] ELSE chan[a]]
    BY <1>2 DEF SendTo, Streams
  <1>6. chan' \in Streams
    BY <1>4, <1>5 DEF Streams
  <1> QED
    BY <1>3, <1>6

\* The next message of a stream is a good one.
LEMMA HeadIsGood ==
    ASSUME NEW G, NEW s \in Seq(G), s # <<>>
    PROVE  Head(s) \in G /\ Tail(s) \in Seq(G)
  OBVIOUS

\* So does taking a message off a stream ...
LEMMA ConsumeKeeps ==
    ASSUME NEW G \in [Node -> SUBSET Message], chan \in Streams,
           \A a, b \in Node : chan[a][b] \in Seq(G[a]),
           NEW n \in Node, NEW m \in Node, chan[m][n] # <<>>, Consume(n, m)
    PROVE  chan' \in Streams /\ \A a, b \in Node : chan'[a][b] \in Seq(G[a])
  <1>1. Tail(chan[m][n]) \in Seq(G[m])
    BY HeadIsGood
  <1>2. \A a, b \in Node : chan'[a][b] =
            IF a = m /\ b = n THEN Tail(chan[a][b]) ELSE chan[a][b]
    BY DEF Consume, Streams
  <1>3. \A a, b \in Node : chan'[a][b] \in Seq(G[a])
    BY <1>1, <1>2
  <1>4. Tail(chan[m][n]) \in Seq(Message)
    BY <1>1, SeqMonotone
  <1>5. chan' \in Streams
    BY <1>4 DEF Consume, Streams
  <1> QED
    BY <1>3, <1>5

\* ... and answering it with a good message.
LEMMA ReplyKeeps ==
    ASSUME NEW G \in [Node -> SUBSET Message], chan \in Streams,
           \A a, b \in Node : chan[a][b] \in Seq(G[a]),
           NEW n \in Node, NEW m \in Node, chan[m][n] # <<>>,
           NEW msg \in G[n], Reply(n, m, msg)
    PROVE  chan' \in Streams /\ \A a, b \in Node : chan'[a][b] \in Seq(G[a])
  <1> DEFINE popped == [chan EXCEPT ![m][n] = Tail(@)]
  <1>1. Tail(chan[m][n]) \in Seq(G[m])
    BY HeadIsGood
  <1>2. \A a, b \in Node : popped[a][b] =
            IF a = m /\ b = n THEN Tail(chan[a][b]) ELSE chan[a][b]
    BY DEF Streams
  <1>3. \A a, b \in Node : popped[a][b] \in Seq(G[a])
    BY <1>1, <1>2
  <1>4. popped \in Streams
    <2>1. Tail(chan[m][n]) \in Seq(Message)
      BY <1>1, SeqMonotone
    <2> QED
      BY <2>1 DEF Streams
  <1>5. chan' = popped \/ chan' = [popped EXCEPT ![n][m] = Append(@, msg)]
    BY DEF Reply
  <1> HIDE DEF popped
  <1>6. Append(popped[n][m], msg) \in Seq(G[n])
    BY <1>3
  <1>7. CASE chan' = popped
    BY <1>3, <1>4, <1>7
  <1>8. CASE chan' = [popped EXCEPT ![n][m] = Append(@, msg)]
    <2>1. \A a, b \in Node : chan'[a][b] =
              IF a = n /\ b = m THEN Append(popped[a][b], msg) ELSE popped[a][b]
      BY <1>4, <1>8 DEF Streams
    <2>2. ASSUME NEW a \in Node, NEW b \in Node
          PROVE  chan'[a][b] \in Seq(G[a])
      <3>1. CASE a = n /\ b = m
        BY <1>6, <2>1, <3>1
      <3>2. CASE ~(a = n /\ b = m)
        BY <1>3, <2>1, <3>2
      <3> QED
        BY <3>1, <3>2
    <2>3. Append(popped[n][m], msg) \in Seq(Message)
      BY <1>6, SeqMonotone
    <2>4. chan' \in Streams
      BY <1>4, <1>8, <2>3 DEF Streams
    <2> QED
      BY <2>2, <2>4
  <1> QED
    BY <1>5, <1>7, <1>8

-----------------------------------------------------------------------------
(* The inductive invariant *)

\* The variables other than the streams have their types.
VarTypes ==
    /\ pc \in [Node -> MainState]
    /\ retryCount \in [Node -> Nat]
    /\ elections \in [Node -> Nat]
    /\ status \in [Node -> {"none", "ok", "insufficient", "failure"}]
    /\ paxosProposalNumber \in [Node -> Nat]
    /\ leaderClusterMember \in [Node -> Node \union {NoLeader, WildLeader}]
    /\ clusterMemberCount \in [Node -> Nat]
    /\ internalRoundNumber \in [Node -> Nat]
    /\ knownOnline \in [Node -> SUBSET Node]
    /\ isLocalNode \in [Node -> SUBSET Node] /\ (\A n \in Node : n \in isLocalNode[n])
    /\ lastPromised \in [Node -> Nat]
    /\ lastAcceptedProposalNumber \in [Node -> Nat]
    /\ lastAcceptedValue \in [Node -> Node \union {0}]
    /\ state \in [Node -> PaxosState]
    /\ promisesRecieved \in [Node -> Nat]
    /\ acceptedRecieved \in [Node -> Nat]
    /\ internalProposalNumber \in [Node -> Nat]
    /\ participatingMembers \in [Node -> SUBSET Node]
    /\ pledges \subseteq Node \X Nat
    /\ votes \subseteq Node \X Nat
    /\ commits \subseteq [by : Node, num : Nat, val : Node \union {0}]

\* Between the choice of the participants and the end of execute.
Executing == {"prepare", "promiseSelf", "waitPromise", "acceptSelf", "waitAccept", "elected"}

\* In execute the proposal's number is one of the node's own, hence not 0.
OwnNumbers == \A n \in Node : pc[n] \in Executing => internalProposalNumber[n] % UidSpan = n

\* The node has sent accept requests; it will not take another number.
AcceptPhaseBegun(n) == lastAcceptedProposalNumber[n] # 0 \/ pc[n] \in {"acceptSelf", "crashed"}

\* If v is a member, it has stood for election.
Stood(v) == v \in Node => elections[v] > 0

\* A node that is in leaderElection stands for election; values and leaders did.
ValuesOK ==
    \A n \in Node :
        /\ pc[n] \notin {"idle", "crashed"} => elections[n] > 0
        /\ Stood(lastAcceptedValue[n])
        /\ Stood(leaderClusterMember[n])

\* The messages n may have sent: an accept request carries its one number.
OkMessage(n) ==
    {msg \in Message :
        /\ Stood(msg.accVal)
        /\ msg.type = "ACCEPT_REQUESTED" =>
              /\ msg.num = internalProposalNumber[n]
              /\ msg.num % UidSpan = n
              /\ AcceptPhaseBegun(n)}

StreamsOK == \A n, m \in Node : chan[n][m] \in Seq(OkMessage(n))

\* What was accepted is the one number its maker sent accept requests for.
VotesOK ==
    \A v \in votes :
        /\ v[2] % UidSpan \in Node
        /\ v[2] = internalProposalNumber[v[2] % UidSpan]
        /\ AcceptPhaseBegun(v[2] % UidSpan)

\* In its loop leaderElection has a retry left.
RetriesLeft == \A n \in Node : pc[n] \notin {"idle", "crashed"} => retryCount[n] > 0

LocalInv == VarTypes /\ OwnNumbers /\ ValuesOK /\ RetriesLeft

Inv == LocalInv /\ chan \in Streams /\ StreamsOK /\ VotesOK

\* What no step takes back: having stood, and having begun the accept phase.
Grows ==
    /\ \A v \in Node : elections[v] > 0 => elections'[v] > 0
    /\ \A n \in Node : AcceptPhaseBegun(n) =>
          AcceptPhaseBegun(n)' /\ internalProposalNumber'[n] = internalProposalNumber[n]

-----------------------------------------------------------------------------
(* Steps and the parts of the invariant *)

LEMMA UidRange ==
    ASSUME NEW n \in 1..(UidSpan - 1)
    PROVE  n \in Nat /\ n > 0 /\ n < UidSpan
  BY DEF UidSpan

LEMMA NodeFacts ==
    /\ \A n \in Node : n \in Nat /\ n > 0 /\ n < UidSpan
    /\ NoLeader \notin Node /\ WildLeader \notin Node
  <1>1. \A n \in Node : n \in 1..(UidSpan - 1)
    BY NodeAssumption
  <1>2. \A n \in Node : n \in Nat /\ n > 0 /\ n < UidSpan
    BY <1>1, UidRange
  <1> QED
    BY <1>2 DEF UidSpan, NoLeader, WildLeader

\* The number that comes next is a positive one of the node's own.
LEMMA NextNumberOwned ==
    ASSUME NEW n \in Node, paxosProposalNumber[n] \in Nat
    PROVE  NextNumber(n) \in Nat /\ NextNumber(n) % UidSpan = n
  BY NodeFacts DEF NextNumber, ProposalNumber, UidSpan

\* A message that was fine to send stays so.
LEMMA OkMessageGrows ==
    ASSUME Grows, NEW n \in Node
    PROVE  OkMessage(n) \subseteq OkMessage(n)'
  BY DEF Grows, OkMessage, Stood

\* A step that sends nothing but good messages keeps the streams good.
LEMMA StreamsStep ==
    ASSUME chan \in Streams, StreamsOK, Grows,
           \/ UNCHANGED chan
           \/ \E n \in Node : \E T, msg : msg \in OkMessage(n)' /\ SendTo(n, T, msg)
           \/ \E n, m \in Node : chan[m][n] # <<>> /\ Consume(n, m)
           \/ \E n, m \in Node : \E msg :
                 chan[m][n] # <<>> /\ msg \in OkMessage(n)' /\ Reply(n, m, msg)
    PROVE  chan' \in Streams /\ StreamsOK'
  <1> DEFINE G == [n \in Node |-> OkMessage(n)']
  <1>1. G \in [Node -> SUBSET Message]
    BY DEF OkMessage
  <1>2. \A a, b \in Node : chan[a][b] \in Seq(G[a])
    BY OkMessageGrows, SeqMonotone DEF StreamsOK
  <1>3. SUFFICES chan' \in Streams /\ \A a, b \in Node : chan'[a][b] \in Seq(G[a])
    BY DEF StreamsOK
  <1>4. \A n \in Node : OkMessage(n)' = G[n]
    OBVIOUS
  <1> HIDE DEF G
  <1>5. CASE UNCHANGED chan
    BY <1>2, <1>5
  <1>6. ASSUME NEW n \in Node, NEW T, NEW msg, msg \in OkMessage(n)', SendTo(n, T, msg)
        PROVE  chan' \in Streams /\ \A a, b \in Node : chan'[a][b] \in Seq(G[a])
    BY <1>1, <1>2, <1>4, <1>6, SendKeeps
  <1>7. ASSUME NEW n \in Node, NEW m \in Node, chan[m][n] # <<>>, Consume(n, m)
        PROVE  chan' \in Streams /\ \A a, b \in Node : chan'[a][b] \in Seq(G[a])
    BY <1>1, <1>2, <1>7, ConsumeKeeps
  <1>8. ASSUME NEW n \in Node, NEW m \in Node, NEW msg, chan[m][n] # <<>>,
               msg \in OkMessage(n)', Reply(n, m, msg)
        PROVE  chan' \in Streams /\ \A a, b \in Node : chan'[a][b] \in Seq(G[a])
    BY <1>1, <1>2, <1>4, <1>8, ReplyKeeps
  <1> QED
    BY <1>5, <1>6, <1>7, <1>8

\* Votes are kept by every step that adds no vote but good ones.
LEMMA VotesStep ==
    ASSUME VotesOK, Grows,
           \A v \in votes' \ votes :
               /\ v[2] % UidSpan \in Node
               /\ v[2] = internalProposalNumber'[v[2] % UidSpan]
               /\ AcceptPhaseBegun(v[2] % UidSpan)'
    PROVE  VotesOK'
  <1> SUFFICES ASSUME NEW v \in votes'
               PROVE  /\ v[2] % UidSpan \in Node
                      /\ v[2] = internalProposalNumber'[v[2] % UidSpan]
                      /\ AcceptPhaseBegun(v[2] % UidSpan)'
    BY DEF VotesOK
  <1>1. CASE v \in votes
    BY <1>1 DEF VotesOK, Grows
  <1>2. CASE v \notin votes
    BY <1>2
  <1> QED
    BY <1>1, <1>2

\* A number that names a node is not 0.
LEMMA OwnedIsPositive ==
    ASSUME NEW n \in Node, NEW p \in Nat, p % UidSpan = n
    PROVE  p > 0
  BY NodeFacts DEF UidSpan

\* What a message carries.
LEMMA MessageFields ==
    ASSUME NEW m \in Node, NEW msg \in OkMessage(m)
    PROVE  /\ msg.num \in Nat /\ msg.num > 0
           /\ msg.accNum \in Nat
           /\ msg.accVal \in Node \union {0}
           /\ Stood(msg.accVal)
  BY DEF OkMessage, Message

\* A message with such fields may be sent, unless it is an accept request.
LEMMA MayBeSent ==
    ASSUME NEW n \in Node, NEW type \in MessageType \ {"ACCEPT_REQUESTED"},
           NEW num \in Nat, num > 0, NEW accNum \in Nat, NEW accVal \in Node \union {0},
           accVal \in Node => elections'[accVal] > 0
    PROVE  addMessage(type, num, accNum, accVal) \in OkMessage(n)'
  BY DEF OkMessage, Message, addMessage, Stood

\* Whichever way a loop of sends ends, it reached members it was for only, and the
\* node is at the statement after it or dead.
LEMMA LoopEndsIn ==
    ASSUME NEW n, NEW S, NEW next, NEW loop \in LoopEnds(n, S, next)
    PROVE  loop.reached \subseteq S /\ loop.pc \in {next, "crashed"}
  <1>1. CASE loop \in [reached : Connected(S), pc : {next}]
    BY <1>1 DEF Connected
  <1>2. CASE loop \notin [reached : Connected(S), pc : {next}]
    <2>1. PICK T \in Connected(S), k \in 1..Cardinality(Node) :
            loop = [reached |-> T \intersect FirstMembers(n, k), pc |-> "crashed"]
      BY <1>2 DEF LoopEnds
    <2> QED
      BY <2>1 DEF Connected
  <1> QED
    BY <1>1, <1>2

\* So the three steps that send leave the node at the statement after the loop, or dead.
LEMMA SendersGoOn ==
    ASSUME NEW n
    PROVE  /\ SendPrepare(n) =>
                /\ pc[n] = "prepare"
                /\ pc' \in {[pc EXCEPT ![n] = "promiseSelf"], [pc EXCEPT ![n] = "crashed"]}
           /\ RequestAccept(n) =>
                /\ pc[n] = "waitPromise"
                /\ pc' \in {[pc EXCEPT ![n] = "acceptSelf"], [pc EXCEPT ![n] = "crashed"]}
           /\ Commit(n) =>
                /\ pc[n] = "waitAccept"
                /\ pc' \in {[pc EXCEPT ![n] = "elected"], [pc EXCEPT ![n] = "crashed"]}
  <1>1. ASSUME SendPrepare(n)
        PROVE  /\ pc[n] = "prepare"
               /\ pc' \in {[pc EXCEPT ![n] = "promiseSelf"], [pc EXCEPT ![n] = "crashed"]}
    <2>1. PICK loop \in LoopEnds(n, participatingMembers[n] \ isLocalNode[n], "promiseSelf") : pc' = [pc EXCEPT ![n] = loop.pc]
      BY <1>1 DEF SendPrepare
    <2>2. loop.pc \in {"promiseSelf", "crashed"}
      BY LoopEndsIn
    <2>3. pc[n] = "prepare"
      BY <1>1 DEF SendPrepare
    <2> QED
      BY <2>1, <2>2, <2>3
  <1>2. ASSUME RequestAccept(n)
        PROVE  /\ pc[n] = "waitPromise"
               /\ pc' \in {[pc EXCEPT ![n] = "acceptSelf"], [pc EXCEPT ![n] = "crashed"]}
    <2>1. PICK loop \in LoopEnds(n, participatingMembers[n] \ isLocalNode[n], "acceptSelf") : pc' = [pc EXCEPT ![n] = loop.pc]
      BY <1>2 DEF RequestAccept
    <2>2. loop.pc \in {"acceptSelf", "crashed"}
      BY LoopEndsIn
    <2>3. pc[n] = "waitPromise"
      BY <1>2 DEF RequestAccept
    <2> QED
      BY <2>1, <2>2, <2>3
  <1>3. ASSUME Commit(n)
        PROVE  /\ pc[n] = "waitAccept"
               /\ pc' \in {[pc EXCEPT ![n] = "elected"], [pc EXCEPT ![n] = "crashed"]}
    <2>1. PICK loop \in LoopEnds(n, CommitTargets(n), "elected") : pc' = [pc EXCEPT ![n] = loop.pc]
      BY <1>3 DEF Commit
    <2>2. loop.pc \in {"elected", "crashed"}
      BY LoopEndsIn
    <2>3. pc[n] = "waitAccept"
      BY <1>3 DEF Commit
    <2> QED
      BY <2>1, <2>2, <2>3
  <1> QED
    BY <1>1, <1>2, <1>3

-----------------------------------------------------------------------------
(* Every action preserves the invariant *)

USE DEF mainVars, clusterVars, memoryVars, acceptorVars, proposerVars, historyVars

LEMMA LeaderElectionInv ==
    ASSUME Inv, NEW n \in Node, LeaderElection(n)
    PROVE  Inv'
  <1>1. LocalInv' /\ Grows
    <2>1. VarTypes'
      BY BoundsAssumption DEF Inv, LocalInv, VarTypes, MainState, LeaderElection
    <2>2. OwnNumbers' /\ RetriesLeft'
      BY BoundsAssumption DEF Inv, LocalInv, VarTypes, LeaderElection, OwnNumbers,
        RetriesLeft, Executing
    <2>3. ValuesOK'
      BY DEF Inv, LocalInv, VarTypes, LeaderElection, ValuesOK, Stood
    <2>4. Grows
      BY DEF Inv, LocalInv, VarTypes, LeaderElection, Grows, AcceptPhaseBegun
    <2> QED
      BY <2>1, <2>2, <2>3, <2>4 DEF LocalInv
  <1>2. UNCHANGED chan
    BY DEF LeaderElection
  <1>3. chan' \in Streams /\ StreamsOK'
    BY <1>1, <1>2, StreamsStep DEF Inv
  <1>4. VotesOK'
    BY <1>1, VotesStep DEF Inv, LeaderElection
  <1> QED
    BY <1>1, <1>3, <1>4 DEF Inv

LEMMA SoloLeaderInv ==
    ASSUME Inv, NEW n \in Node, SoloLeader(n)
    PROVE  Inv'
  <1>1. LocalInv' /\ Grows
    <2>1. VarTypes'
      BY DEF Inv, LocalInv, VarTypes, MainState, SoloLeader, Return, setLeader, LeaderAfter
    <2>2. OwnNumbers' /\ RetriesLeft'
      BY DEF Inv, LocalInv, VarTypes, SoloLeader, Return, OwnNumbers, RetriesLeft, Executing
    <2>3. ValuesOK'
      BY DEF Inv, LocalInv, SoloLeader, Return, setLeader, LeaderAfter, ValuesOK, Stood
    <2>4. Grows
      BY DEF Inv, LocalInv, SoloLeader, Return, Grows, AcceptPhaseBegun
    <2> QED
      BY <2>1, <2>2, <2>3, <2>4 DEF LocalInv
  <1>2. UNCHANGED chan
    BY DEF SoloLeader
  <1>3. chan' \in Streams /\ StreamsOK'
    BY <1>1, <1>2, StreamsStep DEF Inv
  <1>4. VotesOK'
    BY <1>1, VotesStep DEF Inv, SoloLeader
  <1> QED
    BY <1>1, <1>3, <1>4 DEF Inv

LEMMA RefuseInv ==
    ASSUME Inv, NEW n \in Node, Refuse(n)
    PROVE  Inv'
  <1>1. LocalInv' /\ Grows
    <2>1. VarTypes'
      BY DEF Inv, LocalInv, VarTypes, MainState, Refuse, TakeNumber
    <2>2. OwnNumbers' /\ RetriesLeft'
      BY DEF Inv, LocalInv, Refuse, TakeNumber, OwnNumbers, RetriesLeft, Executing
    <2>3. ValuesOK'
      BY DEF Inv, LocalInv, Refuse, TakeNumber, ValuesOK, Stood
    <2>4. Grows
      BY DEF Inv, LocalInv, Refuse, TakeNumber, Grows, AcceptPhaseBegun
    <2> QED
      BY <2>1, <2>2, <2>3, <2>4 DEF LocalInv
  <1>2. UNCHANGED chan
    BY DEF Refuse
  <1>3. chan' \in Streams /\ StreamsOK'
    BY <1>1, <1>2, StreamsStep DEF Inv
  <1>4. VotesOK'
    BY <1>1, VotesStep DEF Inv, Refuse
  <1> QED
    BY <1>1, <1>3, <1>4 DEF Inv

LEMMA SelectQuorumInv ==
    ASSUME Inv, NEW n \in Node, SelectQuorum(n)
    PROVE  Inv'
  <1>1. LocalInv' /\ Grows
    <2>1. VarTypes'
      <3>1. PICK conn \in Connected(Node \ {n}) :
               \E P \in Selections(n, conn \union knownOnline[n]) :
                   /\ knownOnline' = [knownOnline EXCEPT ![n] =
                        @ \union (conn \intersect Visited(n, P, conn \union knownOnline[n]))]
                   /\ participatingMembers' \in
                        {participatingMembers, [participatingMembers EXCEPT ![n] = P]}
                   /\ pc' \in {[pc EXCEPT ![n] = "failed"], [pc EXCEPT ![n] = "prepare"]}
                   /\ status' \in {status, [status EXCEPT ![n] = "insufficient"]}
        BY DEF SelectQuorum
      <3>2. conn \subseteq Node
        BY DEF Connected
      <3>3. /\ knownOnline' \in [Node -> SUBSET Node]
            /\ participatingMembers' \in [Node -> SUBSET Node]
        <4>1. \A P \in Selections(n, conn \union knownOnline[n]) : P \subseteq Node
          BY <3>2 DEF Inv, LocalInv, VarTypes, Selections
        <4>2. PICK P \in Selections(n, conn \union knownOnline[n]) :
                 /\ knownOnline' = [knownOnline EXCEPT ![n] =
                      @ \union (conn \intersect Visited(n, P, conn \union knownOnline[n]))]
                 /\ participatingMembers' \in
                      {participatingMembers, [participatingMembers EXCEPT ![n] = P]}
          BY <3>1
        <4>3. conn \intersect Visited(n, P, conn \union knownOnline[n]) \subseteq Node
          BY <3>2
        <4> HIDE DEF Visited
        <4> QED
          BY <4>1, <4>2, <4>3 DEF Inv, LocalInv, VarTypes
      <3>4. internalProposalNumber' \in [Node -> Nat]
        BY NextNumberOwned DEF SelectQuorum, Inv, LocalInv, VarTypes
      <3>5. pc' \in [Node -> MainState]
            /\ status' \in [Node -> {"none", "ok", "insufficient", "failure"}]
        BY <3>1 DEF Inv, LocalInv, VarTypes, MainState
      <3>6. paxosProposalNumber' \in [Node -> Nat]
        BY DEF Inv, LocalInv, VarTypes, SelectQuorum, TakeNumber
      <3>7. UNCHANGED <<retryCount, elections, leaderClusterMember, memoryVars, acceptorVars,
                        state, promisesRecieved, acceptedRecieved, historyVars>>
        BY DEF SelectQuorum
      <3> QED
        BY <3>3, <3>4, <3>5, <3>6, <3>7 DEF Inv, LocalInv, VarTypes
    <2>2. OwnNumbers' /\ RetriesLeft'
      <3>1. NextNumber(n) % UidSpan = n
        BY NextNumberOwned DEF Inv, LocalInv, VarTypes
      <3>2. pc[n] = "loop" /\ pc' \in {[pc EXCEPT ![n] = "failed"], [pc EXCEPT ![n] = "prepare"]}
        BY DEF SelectQuorum, TakeNumber
      <3> QED
        BY <3>1, <3>2 DEF Inv, LocalInv, VarTypes, SelectQuorum, OwnNumbers, RetriesLeft
    <2>3. ValuesOK'
      BY DEF Inv, LocalInv, VarTypes, SelectQuorum, TakeNumber, ValuesOK, Stood
    <2>4. Grows
      <3>1. pc[n] = "loop" /\ pc' \in {[pc EXCEPT ![n] = "failed"], [pc EXCEPT ![n] = "prepare"]}
        BY DEF SelectQuorum, TakeNumber
      <3>2. ~AcceptPhaseBegun(n)
        BY <3>1 DEF SelectQuorum, MayPropose, AcceptPhaseBegun
      <3>3. \A a \in Node : a # n =>
              /\ pc'[a] = pc[a]
              /\ internalProposalNumber'[a] = internalProposalNumber[a]
        BY <3>1 DEF SelectQuorum, Inv, LocalInv, VarTypes
      <3> QED
        BY <3>2, <3>3 DEF SelectQuorum, Grows, AcceptPhaseBegun
    <2> QED
      BY <2>1, <2>2, <2>3, <2>4 DEF LocalInv
  <1>2. UNCHANGED chan
    BY DEF SelectQuorum
  <1>3. chan' \in Streams /\ StreamsOK'
    BY <1>1, <1>2, StreamsStep DEF Inv
  <1>4. VotesOK'
    BY <1>1, VotesStep DEF Inv, SelectQuorum
  <1> QED
    BY <1>1, <1>3, <1>4 DEF Inv

LEMMA AlreadyCompletedInv ==
    ASSUME Inv, NEW n \in Node, AlreadyCompleted(n)
    PROVE  Inv'
  <1>1. LocalInv' /\ Grows
    <2>1. VarTypes'
      BY DEF Inv, LocalInv, VarTypes, MainState, AlreadyCompleted, Fail
    <2>2. OwnNumbers' /\ RetriesLeft'
      BY DEF Inv, LocalInv, AlreadyCompleted, Fail, OwnNumbers, RetriesLeft, Executing
    <2>3. ValuesOK'
      BY DEF Inv, LocalInv, AlreadyCompleted, Fail, ValuesOK, Stood
    <2>4. Grows
      BY DEF Inv, LocalInv, AlreadyCompleted, Fail, Grows, AcceptPhaseBegun
    <2> QED
      BY <2>1, <2>2, <2>3, <2>4 DEF LocalInv
  <1>2. UNCHANGED chan
    BY DEF AlreadyCompleted
  <1>3. chan' \in Streams /\ StreamsOK'
    BY <1>1, <1>2, StreamsStep DEF Inv
  <1>4. VotesOK'
    BY <1>1, VotesStep DEF Inv, AlreadyCompleted
  <1> QED
    BY <1>1, <1>3, <1>4 DEF Inv

LEMMA SendPrepareInv ==
    ASSUME Inv, NEW n \in Node, SendPrepare(n)
    PROVE  Inv'
  <1>0. pc[n] = "prepare" /\ pc' \in {[pc EXCEPT ![n] = "promiseSelf"], [pc EXCEPT ![n] = "crashed"]}
    BY SendersGoOn
  <1>1. LocalInv' /\ Grows
    <2>1. VarTypes'
      <3>1. PICK loop \in LoopEnds(n, participatingMembers[n] \ isLocalNode[n], "promiseSelf") :
               /\ knownOnline' = [knownOnline EXCEPT ![n] = @ \union loop.reached]
               /\ pc' = [pc EXCEPT ![n] = loop.pc]
        BY DEF SendPrepare
      <3>2. loop.reached \subseteq Node /\ loop.pc \in {"promiseSelf", "crashed"}
        BY LoopEndsIn DEF Inv, LocalInv, VarTypes
      <3> QED
        BY <3>1, <3>2 DEF Inv, LocalInv, VarTypes, MainState, SendPrepare
    <2>2. OwnNumbers' /\ RetriesLeft'
      BY <1>0 DEF Inv, LocalInv, SendPrepare, OwnNumbers, RetriesLeft, Executing
    <2>3. ValuesOK'
      BY <1>0 DEF Inv, LocalInv, SendPrepare, ValuesOK, Stood
    <2>4. Grows
      BY <1>0 DEF Inv, LocalInv, SendPrepare, Grows, AcceptPhaseBegun
    <2> QED
      BY <2>1, <2>2, <2>3, <2>4 DEF LocalInv
  <1>2. \E T, msg : msg \in OkMessage(n)' /\ SendTo(n, T, msg)
    <2>1. PICK loop \in LoopEnds(n, participatingMembers[n] \ isLocalNode[n], "promiseSelf") :
            SendTo(n, loop.reached, addMessage("PREPARE", internalProposalNumber[n], 0, 0))
      BY DEF SendPrepare
    <2>2. addMessage("PREPARE", internalProposalNumber[n], 0, 0) \in OkMessage(n)'
      <3>1. internalProposalNumber[n] \in Nat /\ internalProposalNumber[n] > 0
        BY OwnedIsPositive DEF Inv, LocalInv, VarTypes, OwnNumbers, Executing, SendPrepare
      <3>2. (\A v : Stood(v) => Stood(v)') /\ Stood(lastAcceptedValue[n]) /\ Stood(0)
        BY <1>1, NodeFacts DEF Inv, LocalInv, ValuesOK, Grows, Stood, NoLeader
      <3> QED
        BY <3>1, <3>2, MayBeSent DEF Inv, LocalInv, MessageType, Stood
    <2> QED
      BY <2>1, <2>2
  <1>3. chan' \in Streams /\ StreamsOK'
    BY <1>1, <1>2, StreamsStep DEF Inv
  <1>4. VotesOK'
    BY <1>1, VotesStep DEF Inv, SendPrepare
  <1> QED
    BY <1>1, <1>3, <1>4 DEF Inv

LEMMA PromiseSelfInv ==
    ASSUME Inv, NEW n \in Node, PromiseSelf(n)
    PROVE  Inv'
  <1>1. LocalInv' /\ Grows
    <2>1. VarTypes'
      BY DEF Inv, LocalInv, VarTypes, MainState, PaxosState, PromiseSelf
    <2>2. OwnNumbers' /\ RetriesLeft'
      BY DEF Inv, LocalInv, PromiseSelf, OwnNumbers, RetriesLeft, Executing
    <2>3. ValuesOK'
      BY DEF Inv, LocalInv, PromiseSelf, ValuesOK, Stood
    <2>4. Grows
      BY DEF Inv, LocalInv, PromiseSelf, Grows, AcceptPhaseBegun
    <2> QED
      BY <2>1, <2>2, <2>3, <2>4 DEF LocalInv
  <1>2. UNCHANGED chan
    BY DEF PromiseSelf
  <1>3. chan' \in Streams /\ StreamsOK'
    BY <1>1, <1>2, StreamsStep DEF Inv
  <1>4. VotesOK'
    BY <1>1, VotesStep DEF Inv, PromiseSelf
  <1> QED
    BY <1>1, <1>3, <1>4 DEF Inv

LEMMA PrepareTimeoutInv ==
    ASSUME Inv, NEW n \in Node, PrepareTimeout(n)
    PROVE  Inv'
  <1>1. LocalInv' /\ Grows
    <2>1. VarTypes'
      BY DEF Inv, LocalInv, VarTypes, MainState, PrepareTimeout, Fail
    <2>2. OwnNumbers' /\ RetriesLeft'
      BY DEF Inv, LocalInv, PrepareTimeout, Fail, OwnNumbers, RetriesLeft, Executing
    <2>3. ValuesOK'
      BY DEF Inv, LocalInv, PrepareTimeout, Fail, ValuesOK, Stood
    <2>4. Grows
      BY DEF Inv, LocalInv, PrepareTimeout, Fail, Grows, AcceptPhaseBegun
    <2> QED
      BY <2>1, <2>2, <2>3, <2>4 DEF LocalInv
  <1>2. UNCHANGED chan
    BY DEF PrepareTimeout
  <1>3. chan' \in Streams /\ StreamsOK'
    BY <1>1, <1>2, StreamsStep DEF Inv
  <1>4. VotesOK'
    BY <1>1, VotesStep DEF Inv, PrepareTimeout
  <1> QED
    BY <1>1, <1>3, <1>4 DEF Inv

LEMMA RequestAcceptInv ==
    ASSUME Inv, NEW n \in Node, RequestAccept(n)
    PROVE  Inv'
  <1>0. pc[n] = "waitPromise" /\ pc' \in {[pc EXCEPT ![n] = "acceptSelf"], [pc EXCEPT ![n] = "crashed"]}
    BY SendersGoOn
  <1>1. LocalInv' /\ Grows
    <2>1. VarTypes'
      BY <1>0 DEF Inv, LocalInv, VarTypes, MainState, PaxosState, RequestAccept
    <2>2. OwnNumbers' /\ RetriesLeft'
      BY <1>0 DEF Inv, LocalInv, RequestAccept, OwnNumbers, RetriesLeft, Executing
    <2>3. ValuesOK'
      BY <1>0 DEF Inv, LocalInv, RequestAccept, ValuesOK, Stood
    <2>4. Grows
      BY <1>0 DEF Inv, LocalInv, RequestAccept, Grows, AcceptPhaseBegun
    <2> QED
      BY <2>1, <2>2, <2>3, <2>4 DEF LocalInv
  <1>2. \E T, msg : msg \in OkMessage(n)' /\ SendTo(n, T, msg)
    <2>1. PICK loop \in LoopEnds(n, participatingMembers[n] \ isLocalNode[n], "acceptSelf") :
            SendTo(n, loop.reached,
                   addMessage("ACCEPT_REQUESTED", internalProposalNumber[n],
                              lastAcceptedProposalNumber[n], lastAcceptedValue[n]))
      BY DEF RequestAccept
    <2>2. addMessage("ACCEPT_REQUESTED",
                 internalProposalNumber[n], lastAcceptedProposalNumber[n], lastAcceptedValue[n]) \in OkMessage(n)'
      <3>1. /\ internalProposalNumber[n] \in Nat /\ internalProposalNumber[n] > 0
            /\ internalProposalNumber[n] % UidSpan = n
        BY OwnedIsPositive DEF Inv, LocalInv, VarTypes, OwnNumbers, Executing, RequestAccept
      <3>2. Stood(lastAcceptedValue[n])'
        BY <1>1 DEF LocalInv, ValuesOK, RequestAccept
      <3>3. AcceptPhaseBegun(n)' /\ internalProposalNumber'[n] = internalProposalNumber[n]
        BY <1>0 DEF Inv, LocalInv, VarTypes, RequestAccept, AcceptPhaseBegun
      <3> QED
        BY <3>1, <3>2, <3>3 DEF Inv, LocalInv, VarTypes, RequestAccept, OkMessage, Message,
          MessageType, addMessage
    <2> QED
      BY <2>1, <2>2
  <1>3. chan' \in Streams /\ StreamsOK'
    BY <1>1, <1>2, StreamsStep DEF Inv
  <1>4. VotesOK'
    BY <1>1, VotesStep DEF Inv, RequestAccept
  <1> QED
    BY <1>1, <1>3, <1>4 DEF Inv

LEMMA AcceptSelfInv ==
    ASSUME Inv, NEW n \in Node, AcceptSelf(n)
    PROVE  Inv'
  <1>1. LocalInv' /\ Grows
    <2>1. VarTypes'
      BY DEF Inv, LocalInv, VarTypes, MainState, PaxosState, AcceptSelf, OwnValue
    <2>2. OwnNumbers' /\ RetriesLeft'
      BY DEF Inv, LocalInv, AcceptSelf, OwnNumbers, RetriesLeft, Executing
    <2>3. ValuesOK'
      BY DEF Inv, LocalInv, AcceptSelf, OwnValue, ValuesOK, Stood
    <2>4. Grows
      <3>1. internalProposalNumber[n] > 0
        BY OwnedIsPositive DEF Inv, LocalInv, VarTypes, OwnNumbers, Executing, AcceptSelf
      <3> QED
        BY <3>1 DEF Inv, LocalInv, VarTypes, AcceptSelf, Grows, AcceptPhaseBegun
    <2> QED
      BY <2>1, <2>2, <2>3, <2>4 DEF LocalInv
  <1>2. UNCHANGED chan
    BY DEF AcceptSelf
  <1>3. chan' \in Streams /\ StreamsOK'
    BY <1>1, <1>2, StreamsStep DEF Inv
  <1>4. VotesOK'
    BY <1>1, VotesStep DEF Inv, LocalInv, VarTypes, AcceptSelf, OwnNumbers, Executing,
      AcceptPhaseBegun
  <1> QED
    BY <1>1, <1>3, <1>4 DEF Inv

LEMMA AcceptTimeoutInv ==
    ASSUME Inv, NEW n \in Node, AcceptTimeout(n)
    PROVE  Inv'
  <1>1. LocalInv' /\ Grows
    <2>1. VarTypes'
      BY DEF Inv, LocalInv, VarTypes, MainState, AcceptTimeout, Fail
    <2>2. OwnNumbers' /\ RetriesLeft'
      BY DEF Inv, LocalInv, AcceptTimeout, Fail, OwnNumbers, RetriesLeft, Executing
    <2>3. ValuesOK'
      BY DEF Inv, LocalInv, AcceptTimeout, Fail, ValuesOK, Stood
    <2>4. Grows
      BY DEF Inv, LocalInv, AcceptTimeout, Fail, Grows, AcceptPhaseBegun
    <2> QED
      BY <2>1, <2>2, <2>3, <2>4 DEF LocalInv
  <1>2. UNCHANGED chan
    BY DEF AcceptTimeout
  <1>3. chan' \in Streams /\ StreamsOK'
    BY <1>1, <1>2, StreamsStep DEF Inv
  <1>4. VotesOK'
    BY <1>1, VotesStep DEF Inv, AcceptTimeout
  <1> QED
    BY <1>1, <1>3, <1>4 DEF Inv

LEMMA CommitInv ==
    ASSUME Inv, NEW n \in Node, Commit(n)
    PROVE  Inv'
  <1>0. pc[n] = "waitAccept" /\ pc' \in {[pc EXCEPT ![n] = "elected"], [pc EXCEPT ![n] = "crashed"]}
    BY SendersGoOn
  <1>1. LocalInv' /\ Grows
    <2>1. VarTypes'
      BY <1>0 DEF Inv, LocalInv, VarTypes, MainState, PaxosState, Commit
    <2>2. OwnNumbers' /\ RetriesLeft'
      BY <1>0 DEF Inv, LocalInv, Commit, OwnNumbers, RetriesLeft, Executing
    <2>3. ValuesOK'
      BY <1>0 DEF Inv, LocalInv, Commit, ValuesOK, Stood
    <2>4. Grows
      BY <1>0 DEF Inv, LocalInv, Commit, Grows, AcceptPhaseBegun
    <2> QED
      BY <2>1, <2>2, <2>3, <2>4 DEF LocalInv
  <1>2. \E T, msg : msg \in OkMessage(n)' /\ SendTo(n, T, msg)
    <2>1. PICK loop \in LoopEnds(n, CommitTargets(n), "elected") :
            SendTo(n, loop.reached,
                   addMessage("LEADER_ELECTED", internalProposalNumber[n],
                              lastAcceptedProposalNumber[n], lastAcceptedValue[n]))
      BY DEF Commit
    <2>2. addMessage("LEADER_ELECTED",
                 internalProposalNumber[n], lastAcceptedProposalNumber[n], lastAcceptedValue[n]) \in OkMessage(n)'
      <3>1. internalProposalNumber[n] \in Nat /\ internalProposalNumber[n] > 0
        BY OwnedIsPositive DEF Inv, LocalInv, VarTypes, OwnNumbers, Executing, Commit
      <3>2. (\A v : Stood(v) => Stood(v)') /\ Stood(lastAcceptedValue[n]) /\ Stood(0)
        BY <1>1, NodeFacts DEF Inv, LocalInv, ValuesOK, Grows, Stood, NoLeader
      <3> QED
        BY <3>1, <3>2, MayBeSent DEF Inv, LocalInv, VarTypes, MessageType, Stood
    <2> QED
      BY <2>1, <2>2
  <1>3. chan' \in Streams /\ StreamsOK'
    BY <1>1, <1>2, StreamsStep DEF Inv
  <1>4. VotesOK'
    BY <1>1, VotesStep DEF Inv, Commit
  <1> QED
    BY <1>1, <1>3, <1>4 DEF Inv

LEMMA ElectedInv ==
    ASSUME Inv, NEW n \in Node, Elected(n)
    PROVE  Inv'
  <1>1. LocalInv' /\ Grows
    <2>1. VarTypes'
      <3>1. leaderClusterMember' \in [Node -> Node \union {NoLeader, WildLeader}]
            /\ knownOnline' \in [Node -> SUBSET Node]
        BY DEF Inv, LocalInv, VarTypes, Elected, setLeader, LeaderAfter
      <3>2. CASE Return(n, "ok")
        BY <3>1, <3>2 DEF Inv, LocalInv, VarTypes, MainState, Elected, Return
      <3>3. CASE pc' = [pc EXCEPT ![n] = "crashed"] /\ UNCHANGED mainVars
        BY <3>1, <3>3 DEF Inv, LocalInv, VarTypes, MainState, Elected
      <3> QED
        BY <3>2, <3>3 DEF Elected
    <2>2. OwnNumbers' /\ RetriesLeft'
      <3>1. CASE Return(n, "ok")
        BY <3>1 DEF Inv, LocalInv, VarTypes, OwnNumbers, RetriesLeft, Executing, Elected,
          Return
      <3>2. CASE pc' = [pc EXCEPT ![n] = "crashed"] /\ UNCHANGED mainVars
        BY <3>2 DEF Inv, LocalInv, OwnNumbers, RetriesLeft, Executing, Elected
      <3> QED
        BY <3>1, <3>2 DEF Elected
    <2>3. ValuesOK'
      BY DEF Inv, LocalInv, VarTypes, Elected, Return, setLeader, LeaderAfter, ValuesOK, Stood
    <2>4. Grows
      BY DEF Inv, LocalInv, VarTypes, Elected, Return, Grows, AcceptPhaseBegun
    <2> QED
      BY <2>1, <2>2, <2>3, <2>4 DEF LocalInv
  <1>2. UNCHANGED chan
    BY DEF Elected
  <1>3. chan' \in Streams /\ StreamsOK'
    BY <1>1, <1>2, StreamsStep DEF Inv
  <1>4. VotesOK'
    BY <1>1, VotesStep DEF Inv, Elected
  <1> QED
    BY <1>1, <1>3, <1>4 DEF Inv

LEMMA FoundLeaderInv ==
    ASSUME Inv, NEW n \in Node, FoundLeader(n)
    PROVE  Inv'
  <1>1. LocalInv' /\ Grows
    <2>1. VarTypes'
      <3>1. CASE Return(n, "ok")
        BY <3>1 DEF Inv, LocalInv, VarTypes, MainState, FoundLeader, Return
      <3>2. CASE pc' = [pc EXCEPT ![n] = "crashed"] /\ UNCHANGED mainVars
        BY <3>2 DEF Inv, LocalInv, VarTypes, MainState, FoundLeader
      <3> QED
        BY <3>1, <3>2 DEF FoundLeader
    <2>2. OwnNumbers' /\ RetriesLeft'
      <3>1. CASE Return(n, "ok")
        BY <3>1 DEF Inv, LocalInv, VarTypes, FoundLeader, Return, OwnNumbers, RetriesLeft,
          Executing
      <3>2. CASE pc' = [pc EXCEPT ![n] = "crashed"] /\ UNCHANGED mainVars
        BY <3>2 DEF Inv, LocalInv, FoundLeader, OwnNumbers, RetriesLeft, Executing
      <3> QED
        BY <3>1, <3>2 DEF FoundLeader
    <2>3. ValuesOK'
      BY DEF Inv, LocalInv, VarTypes, FoundLeader, Return, ValuesOK, Stood
    <2>4. Grows
      BY DEF Inv, LocalInv, VarTypes, FoundLeader, Return, Grows, AcceptPhaseBegun
    <2> QED
      BY <2>1, <2>2, <2>3, <2>4 DEF LocalInv
  <1>2. UNCHANGED chan
    BY DEF FoundLeader
  <1>3. chan' \in Streams /\ StreamsOK'
    BY <1>1, <1>2, StreamsStep DEF Inv
  <1>4. VotesOK'
    BY <1>1, VotesStep DEF Inv, FoundLeader
  <1> QED
    BY <1>1, <1>3, <1>4 DEF Inv

LEMMA RetryInv ==
    ASSUME Inv, NEW n \in Node, Retry(n)
    PROVE  Inv'
  <1>1. LocalInv' /\ Grows
    <2>1. VarTypes'
      BY DEF Inv, LocalInv, VarTypes, RetriesLeft, MainState, Retry, RetriesAfter
    <2>2. OwnNumbers' /\ RetriesLeft'
      BY DEF Inv, LocalInv, VarTypes, Retry, RetriesAfter, OwnNumbers, RetriesLeft, Executing
    <2>3. ValuesOK'
      BY DEF Inv, LocalInv, Retry, RetriesAfter, ValuesOK, Stood
    <2>4. Grows
      BY DEF Inv, LocalInv, Retry, RetriesAfter, Grows, AcceptPhaseBegun
    <2> QED
      BY <2>1, <2>2, <2>3, <2>4 DEF LocalInv
  <1>2. UNCHANGED chan
    BY DEF Retry
  <1>3. chan' \in Streams /\ StreamsOK'
    BY <1>1, <1>2, StreamsStep DEF Inv
  <1>4. VotesOK'
    BY <1>1, VotesStep DEF Inv, Retry
  <1> QED
    BY <1>1, <1>3, <1>4 DEF Inv

LEMMA CrashInv ==
    ASSUME Inv, NEW n \in Node, Crash(n)
    PROVE  Inv'
  <1>1. LocalInv' /\ Grows
    <2>1. VarTypes'
      BY DEF Inv, LocalInv, VarTypes, MainState, Crash
    <2>2. OwnNumbers' /\ RetriesLeft'
      BY DEF Inv, LocalInv, Crash, OwnNumbers, RetriesLeft, Executing
    <2>3. ValuesOK'
      BY DEF Inv, LocalInv, Crash, ValuesOK, Stood
    <2>4. Grows
      BY DEF Inv, LocalInv, Crash, Grows, AcceptPhaseBegun
    <2> QED
      BY <2>1, <2>2, <2>3, <2>4 DEF LocalInv
  <1>2. UNCHANGED chan
    BY DEF Crash
  <1>3. chan' \in Streams /\ StreamsOK'
    BY <1>1, <1>2, StreamsStep DEF Inv
  <1>4. VotesOK'
    BY <1>1, VotesStep DEF Inv, Crash
  <1> QED
    BY <1>1, <1>3, <1>4 DEF Inv

LEMMA DropPrepareInv ==
    ASSUME Inv, NEW n \in Node, NEW m \in Node, DropPrepare(n, m)
    PROVE  Inv'
  <1>1. chan[m][n] # <<>> /\ Head(chan[m][n]) \in OkMessage(m)
    BY HeadIsGood DEF Inv, StreamsOK, DropPrepare, Arrived
  <1>2. LocalInv' /\ Grows
    <2>1. VarTypes'
      BY <1>1 DEF Inv, LocalInv, VarTypes, DropPrepare
    <2>2. OwnNumbers' /\ RetriesLeft'
      BY <1>1 DEF Inv, LocalInv, DropPrepare, OwnNumbers, RetriesLeft
    <2>3. ValuesOK'
      BY <1>1 DEF Inv, LocalInv, DropPrepare, ValuesOK, Stood
    <2>4. Grows
      BY <1>1 DEF Inv, LocalInv, DropPrepare, Grows, AcceptPhaseBegun
    <2> QED
      BY <2>1, <2>2, <2>3, <2>4 DEF LocalInv
  <1>3. Consume(n, m)
    BY DEF DropPrepare
  <1>4. chan' \in Streams /\ StreamsOK'
    BY <1>1, <1>2, <1>3, StreamsStep DEF Inv
  <1>5. VotesOK'
    BY <1>2, VotesStep DEF Inv, DropPrepare
  <1> QED
    BY <1>2, <1>4, <1>5 DEF Inv

LEMMA ReceivePrepareInv ==
    ASSUME Inv, NEW n \in Node, NEW m \in Node, ReceivePrepare(n, m)
    PROVE  Inv'
  <1>1. chan[m][n] # <<>> /\ Head(chan[m][n]) \in OkMessage(m)
    BY HeadIsGood DEF Inv, StreamsOK, ReceivePrepare, Arrived
  <1>2. LocalInv' /\ Grows
    <2>1. VarTypes'
      <3>1. /\ Head(chan[m][n]).num \in Nat
            /\ Head(chan[m][n]).accNum \in Nat
            /\ Head(chan[m][n]).accVal \in Node \union {0}
        BY <1>1, MessageFields
      <3>2. lastPromised' \in [Node -> Nat]
        BY <3>1 DEF Inv, LocalInv, VarTypes, ReceivePrepare
      <3>3. /\ lastAcceptedProposalNumber' \in [Node -> Nat]
            /\ lastAcceptedValue' \in [Node -> Node \union {0}]
        BY <3>1 DEF Inv, LocalInv, VarTypes, ReceivePrepare
      <3>4. pledges' \subseteq Node \X Nat /\ votes' \subseteq Node \X Nat
        BY <3>1 DEF Inv, LocalInv, VarTypes, ReceivePrepare
      <3>5. promisesRecieved' \in [Node -> Nat]
        BY DEF Inv, LocalInv, VarTypes, ReceivePrepare
      <3> QED
        BY <3>2, <3>3, <3>4, <3>5 DEF Inv, LocalInv, VarTypes, ReceivePrepare
    <2>2. OwnNumbers' /\ RetriesLeft'
      BY <1>1 DEF Inv, LocalInv, ReceivePrepare, OwnNumbers, RetriesLeft
    <2>3. ValuesOK'
      BY <1>1 DEF Inv, LocalInv, ReceivePrepare, ValuesOK, Stood
    <2>4. Grows
      BY <1>1 DEF Inv, LocalInv, ReceivePrepare, Grows, AcceptPhaseBegun
    <2> QED
      BY <2>1, <2>2, <2>3, <2>4 DEF LocalInv
  <1>3. \E msg : msg \in OkMessage(n)' /\ Reply(n, m, msg)
    <2> DEFINE msg == Head(chan[m][n])
               promised == IF lastPromised[n] < msg.num THEN msg.num ELSE lastPromised[n]
               answer == PromiseMessage(promised, lastAcceptedProposalNumber[n],
                                        lastAcceptedValue[n])
    <2>1. promised \in Nat /\ promised > 0
      <3>1. msg.num \in Nat /\ msg.num > 0
        BY <1>1, MessageFields
      <3> QED
        BY <3>1 DEF Inv, LocalInv, VarTypes
    <2>2. Stood(lastAcceptedValue[n])'
      BY <1>2 DEF LocalInv, ValuesOK, ReceivePrepare
    <2>3. answer \in OkMessage(n)'
      BY <2>1, <2>2, MayBeSent DEF Inv, LocalInv, VarTypes, ReceivePrepare, MessageType,
        PromiseMessage, Stood
    <2>4. Reply(n, m, answer)
      BY DEF ReceivePrepare
    <2> QED
      BY <2>3, <2>4
  <1>4. chan' \in Streams /\ StreamsOK'
    BY <1>1, <1>2, <1>3, StreamsStep DEF Inv
  <1>5. VotesOK'
    BY <1>2, VotesStep DEF Inv, ReceivePrepare
  <1> QED
    BY <1>2, <1>4, <1>5 DEF Inv

LEMMA ReceivePromiseInv ==
    ASSUME Inv, NEW n \in Node, NEW m \in Node, ReceivePromise(n, m)
    PROVE  Inv'
  <1>1. chan[m][n] # <<>> /\ Head(chan[m][n]) \in OkMessage(m)
    BY HeadIsGood DEF Inv, StreamsOK, ReceivePromise, Arrived
  <1>2. LocalInv' /\ Grows
    <2>1. VarTypes'
      <3>1. /\ Head(chan[m][n]).num \in Nat
            /\ Head(chan[m][n]).accNum \in Nat
            /\ Head(chan[m][n]).accVal \in Node \union {0}
        BY <1>1, MessageFields
      <3>2. lastPromised' \in [Node -> Nat]
        BY <3>1 DEF Inv, LocalInv, VarTypes, ReceivePromise
      <3>3. /\ lastAcceptedProposalNumber' \in [Node -> Nat]
            /\ lastAcceptedValue' \in [Node -> Node \union {0}]
        BY <3>1 DEF Inv, LocalInv, VarTypes, ReceivePromise
      <3>4. pledges' \subseteq Node \X Nat /\ votes' \subseteq Node \X Nat
        BY <3>1 DEF Inv, LocalInv, VarTypes, ReceivePromise
      <3>5. promisesRecieved' \in [Node -> Nat]
        BY DEF Inv, LocalInv, VarTypes, ReceivePromise
      <3> QED
        BY <3>2, <3>3, <3>4, <3>5 DEF Inv, LocalInv, VarTypes, ReceivePromise
    <2>2. OwnNumbers' /\ RetriesLeft'
      BY <1>1 DEF Inv, LocalInv, ReceivePromise, OwnNumbers, RetriesLeft
    <2>3. ValuesOK'
      BY <1>1 DEF Inv, LocalInv, ReceivePromise, ValuesOK, Stood, OkMessage
    <2>4. Grows
      BY <1>1 DEF Inv, LocalInv, ReceivePromise, Grows, AcceptPhaseBegun
    <2> QED
      BY <2>1, <2>2, <2>3, <2>4 DEF LocalInv
  <1>3. Consume(n, m)
    BY DEF ReceivePromise
  <1>4. chan' \in Streams /\ StreamsOK'
    BY <1>1, <1>2, <1>3, StreamsStep DEF Inv
  <1>5. VotesOK'
    BY <1>2, VotesStep DEF Inv, ReceivePromise
  <1> QED
    BY <1>2, <1>4, <1>5 DEF Inv

LEMMA ReceiveAcceptRequestedInv ==
    ASSUME Inv, NEW n \in Node, NEW m \in Node, ReceiveAcceptRequested(n, m)
    PROVE  Inv'
  <1>1. chan[m][n] # <<>> /\ Head(chan[m][n]) \in OkMessage(m)
    BY HeadIsGood DEF Inv, StreamsOK, ReceiveAcceptRequested, Arrived
  <1>2. LocalInv' /\ Grows
    <2>1. VarTypes'
      <3>1. /\ Head(chan[m][n]).num \in Nat
            /\ Head(chan[m][n]).accNum \in Nat
            /\ Head(chan[m][n]).accVal \in Node \union {0}
        BY <1>1, MessageFields
      <3>2. lastPromised' \in [Node -> Nat]
        BY <3>1 DEF Inv, LocalInv, VarTypes, ReceiveAcceptRequested
      <3>3. /\ lastAcceptedProposalNumber' \in [Node -> Nat]
            /\ lastAcceptedValue' \in [Node -> Node \union {0}]
        BY <3>1 DEF Inv, LocalInv, VarTypes, ReceiveAcceptRequested
      <3>4. pledges' \subseteq Node \X Nat /\ votes' \subseteq Node \X Nat
        BY <3>1 DEF Inv, LocalInv, VarTypes, ReceiveAcceptRequested
      <3>5. promisesRecieved' \in [Node -> Nat]
        BY DEF Inv, LocalInv, VarTypes, ReceiveAcceptRequested
      <3> QED
        BY <3>2, <3>3, <3>4, <3>5 DEF Inv, LocalInv, VarTypes, ReceiveAcceptRequested
    <2>2. OwnNumbers' /\ RetriesLeft'
      BY <1>1 DEF Inv, LocalInv, ReceiveAcceptRequested, OwnNumbers, RetriesLeft
    <2>3. ValuesOK'
      BY <1>1 DEF Inv, LocalInv, ReceiveAcceptRequested, ValuesOK, Stood, OkMessage
    <2>4. Grows
      BY <1>1 DEF Inv, LocalInv, ReceiveAcceptRequested, Grows, AcceptPhaseBegun, OkMessage,
        Message
    <2> QED
      BY <2>1, <2>2, <2>3, <2>4 DEF LocalInv
  <1>3. \E msg : msg \in OkMessage(n)' /\ Reply(n, m, msg)
    <2> DEFINE msg == Head(chan[m][n])
    <2>1. addMessage("ACCEPTED", msg.num, msg.num, msg.accVal) \in OkMessage(n)'
      <3>1. msg.num \in Nat /\ msg.num > 0 /\ msg.accVal \in Node \union {0}
        BY <1>1, MessageFields
      <3>2. Stood(msg.accVal)
        BY <1>1, MessageFields
      <3>3. msg.accVal \in Node => elections'[msg.accVal] > 0
        BY <1>2, <3>2 DEF Grows, Stood
      <3> QED
        BY <3>1, <3>3, MayBeSent DEF MessageType
    <2>2. Reply(n, m, addMessage("ACCEPTED", msg.num, msg.num, msg.accVal))
      BY DEF ReceiveAcceptRequested
    <2> QED
      BY <2>1, <2>2
  <1>4. chan' \in Streams /\ StreamsOK'
    BY <1>1, <1>2, <1>3, StreamsStep DEF Inv
  <1>5. VotesOK'
    <2> DEFINE msg == Head(chan[m][n])
    <2>1. msg.num = internalProposalNumber[m] /\ msg.num % UidSpan = m /\ AcceptPhaseBegun(m)
      BY <1>1 DEF OkMessage, ReceiveAcceptRequested, Arrived
    <2>2. internalProposalNumber'[m] = internalProposalNumber[m] /\ AcceptPhaseBegun(m)'
      BY <1>2, <2>1 DEF Grows
    <2>3. votes' \ votes \subseteq {<<n, msg.num>>}
      BY DEF ReceiveAcceptRequested
    <2> QED
      BY <1>2, <2>1, <2>2, <2>3, VotesStep DEF Inv
  <1> QED
    BY <1>2, <1>4, <1>5 DEF Inv

LEMMA DropAcceptRequestedInv ==
    ASSUME Inv, NEW n \in Node, NEW m \in Node, DropAcceptRequested(n, m)
    PROVE  Inv'
  <1>1. chan[m][n] # <<>> /\ Head(chan[m][n]) \in OkMessage(m)
    BY HeadIsGood DEF Inv, StreamsOK, DropAcceptRequested, Arrived
  <1>2. LocalInv' /\ Grows
    <2>1. VarTypes'
      BY <1>1 DEF Inv, LocalInv, VarTypes, DropAcceptRequested
    <2>2. OwnNumbers' /\ RetriesLeft'
      BY <1>1 DEF Inv, LocalInv, DropAcceptRequested, OwnNumbers, RetriesLeft
    <2>3. ValuesOK'
      BY <1>1 DEF Inv, LocalInv, DropAcceptRequested, ValuesOK, Stood
    <2>4. Grows
      BY <1>1 DEF Inv, LocalInv, DropAcceptRequested, Grows, AcceptPhaseBegun
    <2> QED
      BY <2>1, <2>2, <2>3, <2>4 DEF LocalInv
  <1>3. Consume(n, m)
    BY DEF DropAcceptRequested
  <1>4. chan' \in Streams /\ StreamsOK'
    BY <1>1, <1>2, <1>3, StreamsStep DEF Inv
  <1>5. VotesOK'
    BY <1>2, VotesStep DEF Inv, DropAcceptRequested
  <1> QED
    BY <1>2, <1>4, <1>5 DEF Inv

LEMMA ReceiveAcceptedInv ==
    ASSUME Inv, NEW n \in Node, NEW m \in Node, ReceiveAccepted(n, m)
    PROVE  Inv'
  <1>1. chan[m][n] # <<>> /\ Head(chan[m][n]) \in OkMessage(m)
    BY HeadIsGood DEF Inv, StreamsOK, ReceiveAccepted, Arrived
  <1>2. LocalInv' /\ Grows
    <2>1. VarTypes'
      <3>1. acceptedRecieved' \in [Node -> Nat]
        BY DEF Inv, LocalInv, VarTypes, ReceiveAccepted
      <3> QED
        BY <3>1 DEF Inv, LocalInv, VarTypes, ReceiveAccepted
    <2>2. OwnNumbers' /\ RetriesLeft'
      BY <1>1 DEF Inv, LocalInv, ReceiveAccepted, OwnNumbers, RetriesLeft
    <2>3. ValuesOK'
      BY <1>1 DEF Inv, LocalInv, ReceiveAccepted, ValuesOK, Stood
    <2>4. Grows
      BY <1>1 DEF Inv, LocalInv, ReceiveAccepted, Grows, AcceptPhaseBegun
    <2> QED
      BY <2>1, <2>2, <2>3, <2>4 DEF LocalInv
  <1>3. Consume(n, m)
    BY DEF ReceiveAccepted
  <1>4. chan' \in Streams /\ StreamsOK'
    BY <1>1, <1>2, <1>3, StreamsStep DEF Inv
  <1>5. VotesOK'
    BY <1>2, VotesStep DEF Inv, ReceiveAccepted
  <1> QED
    BY <1>2, <1>4, <1>5 DEF Inv

LEMMA ReceiveLeaderElectedInv ==
    ASSUME Inv, NEW n \in Node, NEW m \in Node, ReceiveLeaderElected(n, m)
    PROVE  Inv'
  <1>1. chan[m][n] # <<>> /\ Head(chan[m][n]) \in OkMessage(m)
    BY HeadIsGood DEF Inv, StreamsOK, ReceiveLeaderElected, Arrived
  <1>2. LocalInv' /\ Grows
    <2>1. VarTypes'
      BY <1>1 DEF Inv, LocalInv, VarTypes, MainState, PaxosState, ReceiveLeaderElected,
        setLeader, LeaderAfter
    <2>2. OwnNumbers' /\ RetriesLeft'
      BY <1>1 DEF Inv, LocalInv, VarTypes, ReceiveLeaderElected, OwnNumbers, RetriesLeft,
        Executing
    <2>3. ValuesOK'
      BY <1>1 DEF Inv, LocalInv, VarTypes, ReceiveLeaderElected, setLeader, LeaderAfter,
        ValuesOK, Stood, OkMessage
    <2>4. Grows
      BY <1>1 DEF Inv, LocalInv, VarTypes, ReceiveLeaderElected, Grows, AcceptPhaseBegun
    <2> QED
      BY <2>1, <2>2, <2>3, <2>4 DEF LocalInv
  <1>3. Consume(n, m)
    BY DEF ReceiveLeaderElected
  <1>4. chan' \in Streams /\ StreamsOK'
    BY <1>1, <1>2, <1>3, StreamsStep DEF Inv
  <1>5. VotesOK'
    BY <1>2, VotesStep DEF Inv, ReceiveLeaderElected
  <1> QED
    BY <1>2, <1>4, <1>5 DEF Inv

-----------------------------------------------------------------------------
(* The theorems *)

LEMMA InitInv == Init => Inv
  <1> SUFFICES ASSUME Init PROVE Inv
    OBVIOUS
  <1>1. Cardinality(Node) \in Nat
    BY NodeAssumption, FS_CardinalityType
  <1>2. VarTypes /\ leaderClusterMember \in [Node -> {NoLeader, WildLeader}]
    <2>1. PICK memory \in [Recycled -> Leftover] :
            /\ leaderClusterMember =
                  [n \in Node |-> IF n \in Recycled THEN memory[n].leader ELSE NoLeader]
            /\ clusterMemberCount =
                  [n \in Node |-> IF n \in Recycled THEN memory[n].count ELSE Cardinality(Node)]
            /\ internalRoundNumber =
                  [n \in Node |-> IF n \in Recycled THEN memory[n].round ELSE 0]
            /\ knownOnline =
                  [n \in Node |-> (IF n \in Recycled THEN memory[n].online ELSE Node) \ {n}]
            /\ isLocalNode =
                  [n \in Node |-> {n} \union
                      IF n \in Recycled \intersect Candidate THEN memory[n].local ELSE {}]
      BY DEF Init
    <2>2. \A n \in Recycled :
            /\ memory[n].leader \in {NoLeader, WildLeader}
            /\ memory[n].count \in Nat
            /\ memory[n].round \in Nat
            /\ memory[n].online \subseteq Node
            /\ memory[n].local \subseteq Node
      BY <1>1 DEF Leftover
    <2>3. /\ leaderClusterMember \in [Node -> {NoLeader, WildLeader}]
          /\ clusterMemberCount \in [Node -> Nat]
          /\ internalRoundNumber \in [Node -> Nat]
          /\ knownOnline \in [Node -> SUBSET Node]
      BY <1>1, <2>1, <2>2
    <2>4. isLocalNode \in [Node -> SUBSET Node] /\ (\A n \in Node : n \in isLocalNode[n])
      BY <2>1, <2>2
    <2> QED
      BY <2>3, <2>4 DEF Init, VarTypes, MainState, PaxosState
  <1>3. OwnNumbers /\ RetriesLeft /\ ValuesOK
    BY <1>2, NodeFacts DEF Init, VarTypes, OwnNumbers, RetriesLeft, ValuesOK, Executing, Stood,
      NoLeader
  <1>4. chan \in Streams /\ StreamsOK
    BY DEF Init, Streams, StreamsOK
  <1>5. VotesOK
    BY DEF Init, VotesOK
  <1> QED
    BY <1>2, <1>3, <1>4, <1>5 DEF Inv, LocalInv

\* A step that changes nothing keeps the invariant.
LEMMA StutterInv ==
    ASSUME Inv, UNCHANGED vars
    PROVE  Inv'
  BY DEF vars, Inv, LocalInv, VarTypes, OwnNumbers, RetriesLeft, ValuesOK, Stood, Executing,
    Streams, StreamsOK, OkMessage, VotesOK, AcceptPhaseBegun

LEMMA NextInv == Inv /\ [Next]_vars => Inv'
  <1> SUFFICES ASSUME Inv, [Next]_vars PROVE Inv'
    OBVIOUS
  <1>1. ASSUME NEW n \in Node, LeaderElection(n) \/ Proceed(n) \/ Crash(n)
        PROVE  Inv'
    BY <1>1, LeaderElectionInv, SoloLeaderInv, RefuseInv, SelectQuorumInv,
      AlreadyCompletedInv, SendPrepareInv, PromiseSelfInv, PrepareTimeoutInv,
      RequestAcceptInv, AcceptSelfInv, AcceptTimeoutInv, CommitInv, ElectedInv,
      FoundLeaderInv, RetryInv, CrashInv DEF Proceed
  <1>2. ASSUME NEW n \in Node, NEW m \in Node, Receive(n, m)
        PROVE  Inv'
    BY <1>2, DropPrepareInv, ReceivePrepareInv, ReceivePromiseInv,
      ReceiveAcceptRequestedInv, DropAcceptRequestedInv, ReceiveAcceptedInv,
      ReceiveLeaderElectedInv DEF Receive
  <1> QED
    BY <1>1, <1>2, StutterInv DEF Next

\* The inductive invariant holds in every reachable state of every cluster.
THEOREM Invariance == Spec => []Inv
  BY InitInv, NextInv, PTL DEF Spec

\* Type correctness: every variable and every message in a stream is well formed,
\* so no message ever carries the number 0.
THEOREM TypeCorrect == Spec => []TypeOK
  <1>1. Inv => TypeOK
    BY DEF Inv, LocalInv, VarTypes, Streams, TypeOK
  <1> QED
    BY <1>1, Invariance, PTL

\* In every run, with any losses, crashes and timeouts, the acceptors of the
\* whole cluster accept at most one of the numbers a node makes: execute's check
\* of lastAcceptedProposalNumber closes the accept phase for good.
THEOREM OneNumber == Spec => []OneNumberPerProposer
  <1>1. Inv => OneNumberPerProposer
    BY DEF Inv, VotesOK, OneNumberPerProposer
  <1> QED
    BY <1>1, Invariance, PTL

\* Whoever a node takes for the leader has called leaderElection.
THEOREM LeaderStood == Spec => []LeaderStoodForElection
  <1>1. Inv => LeaderStoodForElection
    BY DEF Inv, LocalInv, ValuesOK, Stood, LeaderStoodForElection
  <1> QED
    BY <1>1, Invariance, PTL

=============================================================================
