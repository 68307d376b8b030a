------------------------ MODULE ReceiverRaces_proofs ------------------------
(***************************************************************************)
(* What survives when receiver threads overlap in processMessage: counts   *)
(* of accept responses are torn and answers carry other numbers than the   *)
(* ones they answer, and still a count never runs ahead of the members     *)
(* that voted, so an announcement has a majority behind it.                *)
(***************************************************************************)
EXTENDS ReceiverRaces, PaxosQuorum_proofs

-----------------------------------------------------------------------------
(* The inductive invariant *)

\* The places in processMessage that a message of a type comes through.
StepsOf(type) ==
    CASE type = "PREPARE"        -> {"PREPARE", "raise", "readVote", "promise"}
      [] type = "PROMISE"        -> {"PROMISE", "readPromises", "countPromise", "vote",
                                     "adoptNumber", "adoptValue"}
      [] type = Request          -> {Request, "acceptNumber", "acceptValue", "accepted"}
      [] type = Answer           -> {Answer, "readAccepted", "countAccepted"}
      [] type = "LEADER_ELECTED" -> {"LEADER_ELECTED", "complete"}

\* A message in hand is as good as it was in the stream from m to n ...
GoodHand(m, n) == OkMessage(m) \intersect OkExchange(m, n)

\* ... and the checks that were made on the way are still worth something.
ChecksHold(n, m) ==
    /\ at[n][m] \in {"readVote", "promise"} => lastPromised[n] # 0
    /\ at[n][m] = "promise" => Stood(seen[n][m].val)
    /\ at[n][m] \in {"adoptNumber", "adoptValue"} => hand[n][m].accNum # 0
    /\ at[n][m] = "acceptNumber" => <<n, hand[n][m].num>> \in pledges
    /\ at[n][m] \in {"acceptValue", "accepted"} =>
          <<n, hand[n][m].num>> \in votes /\ lastAcceptedProposalNumber[n] # 0

HandOK(n, m) ==
    IF at[n][m] = "idle" THEN hand[n][m] = NoMessage
    ELSE /\ n # m
         /\ hand[n][m] \in GoodHand(m, n)
         /\ at[n][m] \in StepsOf(hand[n][m].type)
         /\ ChecksHold(n, m)

RaceTypes ==
    /\ at \in [Node -> [Node -> Step]]
    /\ hand \in [Node -> [Node -> Message \union {NoMessage}]]
    /\ seen \in [Node -> [Node -> [num : Nat, val : Node \union {0}]]]

HandsOK == \A n, m \in Node : HandOK(n, m)

\* A message of the type is on its way from a to b, or being worked on there.
Pending(a, b, type) == Carries(chan[a][b], type) \/ hand[b][a].type = type

\* Of a request to b and the answer to it there is at most one, hands counted in.
PairsOK ==
    \A a, b \in Node :
        /\ \A type \in {Request, Answer} :
              hand[b][a].type = type => ~Carries(chan[a][b], type)
        /\ ~(Pending(a, b, Request) /\ Pending(b, a, Answer))

\* Member m has voted for n's number and has nothing more to say to that.
Settled(n, m) ==
    /\ <<m, internalProposalNumber[n]>> \in votes
    /\ ~Pending(n, m, Request)
    /\ ~Pending(m, n, Answer)

\* Neither the count nor what a thread has read of it runs ahead of S.
CountsUpTo(n, S) ==
    /\ acceptedRecieved[n] <= Cardinality(S) + Self(n)
    /\ \A m \in Node : at[n][m] = "countAccepted" =>
          seen[n][m].num <= Cardinality(S) + Self(n)

CountBacked(n) ==
    \E S \in SUBSET (Node \ {n}) : CountsUpTo(n, S) /\ \A m \in S : Settled(n, m)

RaceCountOK == \A n \in Node : CountBacked(n)

RaceInv == QuorumInv /\ RaceTypes /\ HandsOK /\ PairsOK /\ RaceCountOK

USE DEF mainVars, clusterVars, memoryVars, acceptorVars, proposerVars, historyVars

-----------------------------------------------------------------------------
(* Steps of main threads and of receivers that do not overlap *)

\* What no step takes back.
Lasting ==
    /\ Stable
    /\ pledges \subseteq pledges'
    /\ \A n \in Node :
          /\ elections[n] > 0 => elections'[n] > 0
          /\ lastPromised[n] # 0 => lastPromised'[n] # 0
          /\ lastAcceptedProposalNumber[n] # 0 => lastAcceptedProposalNumber'[n] # 0
          /\ ~Fresh(n) => Self(n) <= Self(n)'

\* A good message in hand stays good ...
LEMMA GoodHandStays ==
    ASSUME Lasting, NEW n \in Node, NEW m \in Node
    PROVE  GoodHand(m, n) \subseteq GoodHand(m, n)'
  BY DEF GoodHand, OkMessage, OkExchange, Stood, Lasting, Stable, Fresh, Request

\* ... and a thread that stays where it is keeps checks that hold.
LEMMA HandStays ==
    ASSUME HandsOK, Lasting, NEW n \in Node, NEW m \in Node,
           at'[n][m] = at[n][m], hand'[n][m] = hand[n][m], seen'[n][m] = seen[n][m]
    PROVE  HandOK(n, m)'
  <1>1. GoodHand(m, n) \subseteq GoodHand(m, n)'
    BY GoodHandStays
  <1>2. HandOK(n, m)
    BY DEF HandsOK
  <1>3. ChecksHold(n, m) => ChecksHold(n, m)'
    BY DEF ChecksHold, Lasting, Stable, Stood
  <1> QED
    BY <1>1, <1>2, <1>3 DEF HandOK

LEMMA MainLasting ==
    ASSUME QuorumInv, NEW n \in Node, LeaderElection(n) \/ Proceed(n) \/ Crash(n)
    PROVE  Lasting /\ \A k \in Node : CountKept(k)
  <1>1. Kept
    BY LeaderElectionKeeps, SoloLeaderKeeps, RefuseKeeps, SelectQuorumKeeps,
      AlreadyCompletedKeeps, SendPrepareKeeps, PromiseSelfKeeps, PrepareTimeoutKeeps,
      RequestAcceptKeeps, AcceptSelfKeeps, AcceptTimeoutKeeps, CommitKeeps, ElectedKeeps,
      FoundLeaderKeeps, RetryKeeps, CrashKeeps DEF Proceed, QuorumInv
  <1>2. pledges \subseteq pledges'
    BY DEF LeaderElection, Proceed, Crash, SoloLeader, Refuse, SelectQuorum,
      AlreadyCompleted, SendPrepare, PromiseSelf, PrepareTimeout, RequestAccept, AcceptSelf,
      AcceptTimeout, Commit, Elected, FoundLeader, Retry
  <1>3. \A k \in Node : elections[k] > 0 => elections'[k] > 0
    <2>1. CASE LeaderElection(n)
      BY <2>1 DEF QuorumInv, Inv, LocalInv, VarTypes, LeaderElection
    <2>2. CASE ~LeaderElection(n)
      BY <2>2 DEF Proceed, Crash, SoloLeader, Refuse, SelectQuorum, AlreadyCompleted,
        SendPrepare, PromiseSelf, PrepareTimeout, RequestAccept, AcceptSelf, AcceptTimeout,
        Commit, Elected, FoundLeader, Retry, Return
    <2> QED
      BY <2>1, <2>2
  <1>4. \A k \in Node : lastPromised[k] # 0 => lastPromised'[k] # 0
    <2>1. CASE PromiseSelf(n)
      BY <2>1, OwnedIsPositive DEF QuorumInv, Inv, LocalInv, VarTypes, OwnNumbers, Executing,
        PromiseSelf
    <2>2. CASE ~PromiseSelf(n)
      BY <2>2 DEF LeaderElection, Proceed, Crash, SoloLeader, Refuse, SelectQuorum,
        AlreadyCompleted, SendPrepare, PrepareTimeout, RequestAccept, AcceptSelf,
        AcceptTimeout, Commit, Elected, FoundLeader, Retry
    <2> QED
      BY <2>1, <2>2
  <1>5. \A k \in Node : lastAcceptedProposalNumber[k] # 0 => lastAcceptedProposalNumber'[k] # 0
    <2>1. CASE AcceptSelf(n)
      BY <2>1, OwnedIsPositive DEF QuorumInv, Inv, LocalInv, VarTypes, OwnNumbers, Executing,
        AcceptSelf
    <2>2. CASE ~AcceptSelf(n)
      BY <2>2 DEF LeaderElection, Proceed, Crash, SoloLeader, Refuse, SelectQuorum,
        AlreadyCompleted, SendPrepare, PromiseSelf, PrepareTimeout, RequestAccept,
        AcceptTimeout, Commit, Elected, FoundLeader, Retry
    <2> QED
      BY <2>1, <2>2
  <1>6. ASSUME NEW k \in Node, ~Fresh(k)
        PROVE  Self(k) <= Self(k)'
    <2>1. pc'[k] = "acceptSelf" => pc[k] \in {"acceptSelf", "waitPromise"}
      <3>1. CASE SelectQuorum(n)
        BY <3>1, SelectQuorumEffect DEF QuorumInv, Inv, LocalInv, VarTypes
      <3>2. CASE SendPrepare(n) \/ RequestAccept(n) \/ Commit(n)
        BY <3>2, SendersGoOn DEF QuorumInv, Inv, LocalInv, VarTypes
      <3>3. CASE ~(SelectQuorum(n) \/ SendPrepare(n) \/ RequestAccept(n) \/ Commit(n))
        BY <3>3 DEF QuorumInv, Inv, LocalInv, VarTypes, LeaderElection, Proceed, Crash,
          SoloLeader, Refuse, AlreadyCompleted, PromiseSelf, PrepareTimeout, AcceptSelf,
          AcceptTimeout, Elected, FoundLeader, Retry, Return, Fail
      <3> QED
        BY <3>1, <3>2, <3>3
    <2> QED
      BY <1>6, <2>1 DEF Fresh, Self
  <1> QED
    BY <1>1, <1>2, <1>3, <1>4, <1>5, <1>6 DEF Lasting, Kept

\* Only its accept phase makes a node send requests, and no main thread answers.
LEMMA MainStreams ==
    ASSUME QuorumInv, NEW n \in Node, LeaderElection(n) \/ Proceed(n) \/ Crash(n),
           NEW a \in Node, NEW b \in Node
    PROVE  /\ Carries(chan'[a][b], Request) => Carries(chan[a][b], Request) \/ Fresh(a)
           /\ Carries(chan'[a][b], Answer) => Carries(chan[a][b], Answer)
  <1>1. chan \in Streams
    BY DEF QuorumInv, Inv
  <1>2. ASSUME NEW T, NEW msg, SendTo(n, T, msg), msg \in Message,
               msg.type = Request => Fresh(n), msg.type # Answer
        PROVE  /\ Carries(chan'[a][b], Request) => Carries(chan[a][b], Request) \/ Fresh(a)
               /\ Carries(chan'[a][b], Answer) => Carries(chan[a][b], Answer)
    <2>1. chan'[a][b] = IF a = n /\ b \in T THEN Append(chan[a][b], msg) ELSE chan[a][b]
      BY <1>1, <1>2 DEF SendTo, Streams
    <2>2. chan[a][b] \in Seq(Message)
      BY <1>1 DEF Streams
    <2> QED
      BY <1>2, <2>1, <2>2, AppendCarries
  <1>3. pc[n] \in Executing => internalProposalNumber[n] \in Nat \ {0}
    BY OwnedIsPositive DEF QuorumInv, Inv, LocalInv, VarTypes, OwnNumbers
  <1>4. /\ lastAcceptedProposalNumber[n] \in Nat /\ lastAcceptedValue[n] \in Node \union {0}
    BY DEF QuorumInv, Inv, LocalInv, VarTypes
  <1>5. CASE SendPrepare(n)
    <2> DEFINE msg == addMessage("PREPARE", internalProposalNumber[n], 0, 0)
    <2>1. PICK loop \in LoopEnds(n, participatingMembers[n] \ isLocalNode[n], "promiseSelf") :
            SendTo(n, loop.reached, msg)
      BY <1>5 DEF SendPrepare
    <2>2. msg \in Message /\ msg.type # Request /\ msg.type # Answer
      BY <1>3, <1>5 DEF SendPrepare, Executing, addMessage, Message, MessageType, Request,
        Answer
    <2> HIDE DEF msg
    <2> QED
      BY <1>2, <2>1, <2>2
  <1>6. CASE RequestAccept(n)
    <2> DEFINE msg == addMessage("ACCEPT_REQUESTED", internalProposalNumber[n],
                                 lastAcceptedProposalNumber[n], lastAcceptedValue[n])
    <2>1. PICK loop \in LoopEnds(n, participatingMembers[n] \ isLocalNode[n], "acceptSelf") :
            SendTo(n, loop.reached, msg)
      BY <1>6 DEF RequestAccept
    <2>2. msg \in Message /\ msg.type # Answer
      BY <1>3, <1>4, <1>6 DEF RequestAccept, Executing, addMessage, Message, MessageType,
        Answer
    <2>3. Fresh(n)
      BY <1>6 DEF RequestAccept, Fresh
    <2> HIDE DEF msg
    <2> QED
      BY <1>2, <2>1, <2>2, <2>3
  <1>7. CASE Commit(n)
    <2> DEFINE msg == addMessage("LEADER_ELECTED", internalProposalNumber[n],
                                 lastAcceptedProposalNumber[n], lastAcceptedValue[n])
    <2>1. PICK loop \in LoopEnds(n, CommitTargets(n), "elected") :
            SendTo(n, loop.reached, msg)
      BY <1>7 DEF Commit
    <2>2. msg \in Message /\ msg.type # Request /\ msg.type # Answer
      BY <1>3, <1>4, <1>7 DEF Commit, Executing, addMessage, Message, MessageType, Request,
        Answer
    <2> HIDE DEF msg
    <2> QED
      BY <1>2, <2>1, <2>2
  <1>8. CASE ~(SendPrepare(n) \/ RequestAccept(n) \/ Commit(n))
    <2>1. UNCHANGED chan
      BY <1>8 DEF LeaderElection, Proceed, Crash, SoloLeader, Refuse, SelectQuorum,
        AlreadyCompleted, PromiseSelf, PrepareTimeout, AcceptSelf, AcceptTimeout, Elected,
        FoundLeader, Retry
    <2> QED
      BY <2>1
  <1> QED
    BY <1>5, <1>6, <1>7, <1>8

-----------------------------------------------------------------------------
(* Requests, answers and counts *)

\* A request from a appears only before a's accept phase, an answer to it only where
\* the request was.
Undisturbed(a, b) ==
    /\ Pending(a, b, Request)' => Pending(a, b, Request) \/ Fresh(a)
    /\ Pending(b, a, Answer)' =>
          \/ Pending(b, a, Answer)
          \/ Pending(a, b, Request) /\ ~Pending(a, b, Request)'

\* Who comes to write a count has read it before this step, or in it.
ReadBefore(n) ==
    \A m \in Node : at'[n][m] = "countAccepted" =>
        \/ at[n][m] = "countAccepted" /\ seen'[n][m] = seen[n][m]
        \/ ~Fresh(n) /\ seen'[n][m].num = acceptedRecieved[n]

\* Nothing is asked or answered before the accept phase.
LEMMA FreshIsQuiet ==
    ASSUME ExchangeOK, HandsOK, NEW a \in Node, NEW b \in Node, Fresh(a)
    PROVE  /\ ~Pending(a, b, Request)
           /\ ~Pending(b, a, Answer)
           /\ at[a][b] # "countAccepted"
  <1>1. /\ \A x \in OkExchange(a, b) : x.type # Request
        /\ \A x \in OkExchange(b, a) : x.type # Answer
    BY DEF OkExchange
  <1>2. ~Carries(chan[a][b], Request) /\ ~Carries(chan[b][a], Answer)
    BY <1>1, CarriedIsThere DEF ExchangeOK
  <1>3. hand[b][a].type # Request
    BY <1>1 DEF HandsOK, HandOK, NoMessage, GoodHand, Request
  <1>4. hand[a][b].type # Answer
    BY <1>1 DEF HandsOK, HandOK, NoMessage, GoodHand, Answer
  <1>5. at[a][b] # "countAccepted"
    <2>1. HandOK(a, b)
      BY DEF HandsOK
    <2>2. CASE at[a][b] = "idle"
      BY <2>2
    <2>3. CASE at[a][b] # "idle"
      <3>1. hand[a][b] \in Message /\ at[a][b] \in StepsOf(hand[a][b].type)
        BY <2>1, <2>3 DEF HandOK, GoodHand, OkMessage
      <3>2. hand[a][b].type \in MessageType \ {Answer}
        BY <1>4, <3>1 DEF Message
      <3> QED
        BY <3>1, <3>2 DEF MessageType, StepsOf, Request, Answer
    <2> QED
      BY <2>2, <2>3
  <1> QED
    BY <1>2, <1>3, <1>4, <1>5 DEF Pending

\* Undisturbed pairs stay so as long as no message is both in hand and in its stream.
LEMMA PairsStep ==
    ASSUME ExchangeOK, HandsOK, PairsOK, \A a, b \in Node : Undisturbed(a, b),
           \A a, b \in Node : \A type \in {Request, Answer} :
               hand'[b][a].type = type => ~Carries(chan'[a][b], type)
    PROVE  PairsOK'
  <1>1. ASSUME NEW a \in Node, NEW b \in Node
        PROVE  ~(Pending(a, b, Request)' /\ Pending(b, a, Answer)')
    BY FreshIsQuiet DEF PairsOK, Undisturbed
  <1> QED
    BY <1>1 DEF PairsOK, Pending

\* A count that is kept stays backed by the members that it was backed by.
LEMMA CountStays ==
    ASSUME QuorumInv, VarTypes', RaceTypes', HandsOK, Lasting, NEW n \in Node,
           CountBacked(n), CountKept(n), ReadBefore(n), \A m \in Node : Undisturbed(n, m)
    PROVE  CountBacked(n)'
  <1>1. acceptedRecieved[n] \in Nat /\ acceptedRecieved'[n] \in Nat
    BY DEF QuorumInv, Inv, LocalInv, VarTypes
  <1>2. CASE Fresh(n)
    <2>1. acceptedRecieved[n] = 0
      BY <1>2 DEF QuorumInv, CountOK
    <2>2. acceptedRecieved'[n] <= 0 + Self(n)'
      BY <1>1, <2>1 DEF CountKept, Self
    <2>3. \A m \in Node : at'[n][m] # "countAccepted"
      BY <1>2, FreshIsQuiet DEF QuorumInv, ReadBefore
    <2>4. CountsUpTo(n, {})'
      BY <2>2, <2>3, FS_EmptySet DEF CountsUpTo
    <2> QED
      BY <2>4 DEF CountBacked
  <1>3. CASE ~Fresh(n)
    <2>1. PICK S \in SUBSET (Node \ {n}) : CountsUpTo(n, S) /\ \A m \in S : Settled(n, m)
      BY DEF CountBacked
    <2>2. Cardinality(S) \in Nat
      BY NodeAssumption, FS_Subset, FS_CardinalityType
    <2>3. Self(n) <= Self(n)' /\ Self(n) \in {0, 1} /\ Self(n)' \in {0, 1}
      BY <1>3 DEF Lasting, Self
    <2>4. acceptedRecieved'[n] <= Cardinality(S) + Self(n)'
      BY <1>1, <2>1, <2>2, <2>3 DEF CountsUpTo, CountKept
    <2>5. ASSUME NEW m \in Node, at'[n][m] = "countAccepted"
          PROVE  seen'[n][m].num <= Cardinality(S) + Self(n)'
      <3>1. seen'[n][m].num <= Cardinality(S) + Self(n)
        BY <2>1, <2>5 DEF CountsUpTo, ReadBefore
      <3>2. seen'[n][m].num \in Nat
        BY DEF RaceTypes
      <3> QED
        BY <2>2, <2>3, <3>1, <3>2
    <2>6. ASSUME NEW m \in S
          PROVE  Settled(n, m)'
      BY <1>3, <2>1 DEF Settled, Undisturbed, Lasting, Stable
    <2> QED
      BY <2>4, <2>5, <2>6 DEF CountBacked, CountsUpTo
  <1> QED
    BY <1>2, <1>3

\* An answer that is counted adds its sender to the members behind the count, also
\* if the thread that counts it takes other threads' increments back.
LEMMA CountGrows ==
    ASSUME QuorumInv, VarTypes', RaceTypes, RaceTypes', HandsOK, PairsOK, Lasting,
           NEW n \in Node, NEW m \in Node, n # m, ~Fresh(n),
           CountBacked(n), ReadBefore(n), \A k \in Node : Undisturbed(n, k),
           Pending(m, n, Answer), ~Pending(m, n, Answer)',
           <<m, internalProposalNumber[n]>> \in votes,
           \/ acceptedRecieved'[n] \in {acceptedRecieved[n], acceptedRecieved[n] + 1}
           \/ at[n][m] = "countAccepted" /\ acceptedRecieved'[n] = seen[n][m].num + 1
    PROVE  CountBacked(n)'
  <1>1. PICK S \in SUBSET (Node \ {n}) : CountsUpTo(n, S) /\ \A k \in S : Settled(n, k)
    BY DEF CountBacked
  <1>2. m \notin S
    BY <1>1 DEF Settled
  <1>3. Cardinality(S \union {m}) = Cardinality(S) + 1 /\ Cardinality(S) \in Nat
    BY <1>2, NodeAssumption, FS_Subset, FS_AddElement, FS_CardinalityType
  <1>4. Self(n) <= Self(n)' /\ Self(n) \in {0, 1} /\ Self(n)' \in {0, 1}
    BY DEF Lasting, Self
  <1>5. acceptedRecieved'[n] <= Cardinality(S \union {m}) + Self(n)'
    <2>1. acceptedRecieved[n] \in Nat /\ seen[n][m].num \in Nat
      BY DEF QuorumInv, Inv, LocalInv, VarTypes, RaceTypes
    <2>2. acceptedRecieved'[n] <= Cardinality(S) + Self(n) + 1
      BY <1>1, <1>3, <1>4, <2>1 DEF CountsUpTo
    <2>3. acceptedRecieved'[n] \in Nat
      BY DEF VarTypes
    <2> QED
      BY <1>3, <1>4, <2>2, <2>3
  <1>6. ASSUME NEW k \in Node, at'[n][k] = "countAccepted"
        PROVE  seen'[n][k].num <= Cardinality(S \union {m}) + Self(n)'
    <2>1. seen'[n][k].num <= Cardinality(S) + Self(n)
      BY <1>1, <1>6 DEF CountsUpTo, ReadBefore
    <2>2. seen'[n][k].num \in Nat
      BY DEF RaceTypes
    <2> QED
      BY <1>3, <1>4, <2>1, <2>2
  <1>7. ASSUME NEW k \in S \union {m}
        PROVE  Settled(n, k)'
    <2>1. CASE k \in S
      BY <1>1, <2>1 DEF Settled, Undisturbed, Lasting, Stable
    <2>2. CASE k = m
      BY <2>2 DEF Settled, Undisturbed, Lasting, Stable, PairsOK
    <2> QED
      BY <2>1, <2>2
  <1> QED
    BY <1>5, <1>6, <1>7 DEF CountBacked, CountsUpTo

\* Main threads keep the invariant ...
LEMMA MainRace ==
    ASSUME RaceInv, NEW n \in Node, LeaderElection(n) \/ Proceed(n) \/ Crash(n),
           UNCHANGED raceVars
    PROVE  RaceInv'
  <1> USE DEF RaceInv
  <1>1. QuorumInv'
    <2>1. Inv'
      BY NextInv DEF QuorumInv, Next
    <2> QED
      BY <2>1, MainQuorum
  <1>2. Lasting /\ \A k \in Node : CountKept(k)
    BY MainLasting
  <1>3. UNCHANGED <<at, hand, seen>>
    BY DEF raceVars
  <1>4. RaceTypes'
    BY <1>3 DEF RaceTypes
  <1>5. HandsOK'
    BY <1>2, <1>3, HandStays DEF HandsOK
  <1>6. ASSUME NEW a \in Node, NEW b \in Node
        PROVE  /\ Undisturbed(a, b) /\ ReadBefore(a)
               /\ \A type \in {Request, Answer} :
                     hand'[b][a].type = type => ~Carries(chan'[a][b], type)
    <2>1. /\ Carries(chan'[a][b], Request) => Carries(chan[a][b], Request) \/ Fresh(a)
          /\ \A c, d \in Node : Carries(chan'[c][d], Answer) => Carries(chan[c][d], Answer)
      BY MainStreams
    <2>2. Fresh(a) => hand[b][a].type # Request
      BY FreshIsQuiet DEF QuorumInv, Pending
    <2> QED
      BY <1>3, <2>1, <2>2 DEF Undisturbed, Pending, ReadBefore, PairsOK
  <1>7. PairsOK'
    BY <1>6, PairsStep DEF QuorumInv
  <1>8. RaceCountOK'
    <2>1. VarTypes'
      BY <1>1 DEF QuorumInv, Inv, LocalInv
    <2> QED
      BY <1>2, <1>4, <1>6, <2>1, CountStays DEF RaceCountOK
  <1> QED
    BY <1>1, <1>4, <1>5, <1>7, <1>8

\* ... and so do receivers that handle a message in one step.
LEMMA ReceiverLasting ==
    ASSUME QuorumInv, NEW n \in Node, NEW m \in Node, Receive(n, m)
    PROVE  Lasting /\ (~ReceiveAccepted(n, m) => \A k \in Node : CountKept(k))
  <1>1. Stable /\ (~ReceiveAccepted(n, m) => \A k \in Node : CountKept(k))
    BY DropPrepareKeeps, ReceivePrepareKeeps, ReceivePromiseKeeps,
      ReceiveAcceptRequestedKeeps, DropAcceptRequestedKeeps, ReceiveAcceptedKeeps,
      ReceiveLeaderElectedKeeps DEF Receive, QuorumInv, Kept
  <1>2. chan[m][n] # <<>> /\ Head(chan[m][n]) \in OkMessage(m)
    BY HeadIsGood DEF QuorumInv, Inv, StreamsOK, Receive, DropPrepare, ReceivePrepare,
      ReceivePromise, ReceiveAcceptRequested, DropAcceptRequested, ReceiveAccepted,
      ReceiveLeaderElected, Arrived
  <1>3. Head(chan[m][n]).num \in Nat /\ Head(chan[m][n]).num > 0
    BY <1>2, MessageFields
  <1>4. pledges \subseteq pledges' /\ UNCHANGED elections
    BY DEF Receive, DropPrepare, ReceivePrepare, ReceivePromise, ReceiveAcceptRequested,
      DropAcceptRequested, ReceiveAccepted, ReceiveLeaderElected
  <1>5. \A k \in Node : lastPromised[k] # 0 => lastPromised'[k] # 0
    <2>1. CASE ReceivePrepare(n, m)
      BY <1>3, <2>1 DEF QuorumInv, Inv, LocalInv, VarTypes, ReceivePrepare
    <2>2. CASE ~ReceivePrepare(n, m)
      BY <2>2 DEF Receive, DropPrepare, ReceivePromise, ReceiveAcceptRequested,
        DropAcceptRequested, ReceiveAccepted, ReceiveLeaderElected
    <2> QED
      BY <2>1, <2>2
  <1>6. \A k \in Node : lastAcceptedProposalNumber[k] # 0 => lastAcceptedProposalNumber'[k] # 0
    <2>1. CASE ReceivePromise(n, m)
      BY <2>1 DEF QuorumInv, Inv, LocalInv, VarTypes, ReceivePromise
    <2>2. CASE ReceiveAcceptRequested(n, m)
      BY <1>3, <2>2 DEF QuorumInv, Inv, LocalInv, VarTypes, ReceiveAcceptRequested
    <2>3. CASE ~ReceivePromise(n, m) /\ ~ReceiveAcceptRequested(n, m)
      BY <2>3 DEF Receive, DropPrepare, ReceivePrepare, DropAcceptRequested, ReceiveAccepted,
        ReceiveLeaderElected
    <2> QED
      BY <2>1, <2>2, <2>3
  <1>7. \A k \in Node : pc'[k] \in {pc[k], "crashed"}
    BY DEF QuorumInv, Inv, LocalInv, VarTypes, Receive, DropPrepare, ReceivePrepare,
      ReceivePromise, ReceiveAcceptRequested, DropAcceptRequested, ReceiveAccepted,
      ReceiveLeaderElected
  <1> QED
    BY <1>1, <1>4, <1>5, <1>6, <1>7 DEF Lasting, Self

LEMMA ReceiverStreams ==
    ASSUME RaceInv, NEW n \in Node, NEW m \in Node, Receive(n, m), UNCHANGED raceVars,
           NEW a \in Node, NEW b \in Node
    PROVE  /\ Undisturbed(a, b) /\ ReadBefore(a)
           /\ \A type \in {Request, Answer} :
                 hand'[b][a].type = type => ~Carries(chan'[a][b], type)
  <1> USE DEF RaceInv
  <1>1. UNCHANGED <<at, hand, seen>>
    BY DEF raceVars
  <1>2. chan \in Streams /\ VarTypes
    BY DEF QuorumInv, Inv, LocalInv
  <1>3. /\ chan[m][n] # <<>> /\ chan[m][n] \in Seq(Message)
        /\ Head(chan[m][n]) \in OkMessage(m)
    BY <1>2, HeadIsGood DEF QuorumInv, Inv, StreamsOK, Receive, DropPrepare,
      ReceivePrepare, ReceivePromise, ReceiveAcceptRequested, DropAcceptRequested,
      ReceiveAccepted, ReceiveLeaderElected, Arrived, Streams
  <1>4. n # m
    BY <1>3 DEF QuorumInv, ExchangeOK
  <1>5. ASSUME \A c, d \in Node : \A type \in {Request, Answer} :
                  Carries(chan'[c][d], type) => Carries(chan[c][d], type)
        PROVE  /\ Undisturbed(a, b) /\ ReadBefore(a)
               /\ \A type \in {Request, Answer} :
                     hand'[b][a].type = type => ~Carries(chan'[a][b], type)
    BY <1>1, <1>5 DEF Undisturbed, Pending, ReadBefore, PairsOK
  <1>6. CASE Consume(n, m)
    <2>1. \A c, d \in Node :
             chan'[c][d] = IF c = m /\ d = n THEN Tail(chan[c][d]) ELSE chan[c][d]
      BY <1>2, <1>6 DEF Consume, Streams
    <2> QED
      BY <1>3, <1>5, <2>1, TailCarries
  <1>7. CASE ReceivePrepare(n, m)
    <2> DEFINE num == Head(chan[m][n]).num
               promised == IF lastPromised[n] < num THEN num ELSE lastPromised[n]
               msg == PromiseMessage(promised, lastAcceptedProposalNumber[n],
                                     lastAcceptedValue[n])
    <2>1. promised \in Nat \ {0}
      <3>1. num \in Nat /\ num > 0
        BY <1>3, MessageFields
      <3> HIDE DEF num
      <3> QED
        BY <1>2, <3>1 DEF VarTypes
    <2>2. Reply(n, m, msg)
      BY <1>7 DEF ReceivePrepare
    <2>3. msg \in Message /\ msg.type # Request /\ msg.type # Answer
      <3> HIDE DEF promised
      <3> QED
        BY <1>2, <2>1 DEF VarTypes, PromiseMessage, addMessage, Message, MessageType, Request,
          Answer
    <2> HIDE DEF msg
    <2>4. \A c, d \in Node : \/ chan'[c][d] = chan[c][d]
                             \/ c = m /\ d = n /\ chan'[c][d] = Tail(chan[c][d])
                             \/ chan'[c][d] = Append(chan[c][d], msg)
      BY <1>2, <1>4, <2>2, ReplyStreams
    <2>5. \A c, d \in Node : chan[c][d] \in Seq(Message)
      BY <1>2 DEF Streams
    <2>6. ASSUME NEW c \in Node, NEW d \in Node, NEW type \in {Request, Answer}
          PROVE  Carries(chan'[c][d], type) => Carries(chan[c][d], type)
      <3>1. CASE chan'[c][d] = chan[c][d]
        BY <3>1
      <3>2. CASE c = m /\ d = n /\ chan'[c][d] = Tail(chan[c][d])
        BY <1>3, <3>2, TailCarries
      <3>3. CASE chan'[c][d] = Append(chan[c][d], msg)
        BY <2>3, <2>5, <3>3, AppendCarries
      <3> QED
        BY <2>4, <3>1, <3>2, <3>3
    <2> QED
      BY <1>5, <2>6
  <1>8. CASE ReceiveAcceptRequested(n, m)
    <2> DEFINE num == Head(chan[m][n]).num
               msg == addMessage(Answer, num, num, Head(chan[m][n]).accVal)
    <2>1. Reply(n, m, msg)
      BY <1>8 DEF ReceiveAcceptRequested, Answer
    <2>2. msg \in Message /\ msg.type = Answer
      BY <1>3, MessageFields DEF addMessage, Message, MessageType, Answer
    <2>3. Head(chan[m][n]).type = Request
      BY <1>8 DEF ReceiveAcceptRequested, Arrived, Request
    <2>4. /\ Carries(chan[m][n], Request) /\ ~Carries(Tail(chan[m][n]), Request)
          /\ Carries(Tail(chan[m][n]), Answer) => Carries(chan[m][n], Answer)
      BY <1>3, <2>3, TailCarries DEF QuorumInv, ExchangeOK
    <2> HIDE DEF msg
    <2>5. /\ chan'[m][n] = Tail(chan[m][n])
          /\ chan'[n][m] \in {chan[n][m], Append(chan[n][m], msg)}
          /\ \A c, d \in Node : ~(c = m /\ d = n) /\ ~(c = n /\ d = m) =>
                 chan'[c][d] = chan[c][d]
      BY <1>2, <1>4, <2>1, ReplyStreams
    <2>6. Carries(chan'[n][m], Request) => Carries(chan[n][m], Request)
      <3>1. chan[n][m] \in Seq(Message) /\ Request # Answer
        BY <1>2 DEF Streams, Request, Answer
      <3>2. Carries(Append(chan[n][m], msg), Request) => Carries(chan[n][m], Request)
        BY <2>2, <3>1, AppendCarries
      <3> QED
        BY <2>5, <3>2
    <2>7. hand[n][m].type # Request /\ hand[m][n].type # Answer
      BY <2>4 DEF PairsOK, Pending
    <2>8. Pending(m, n, Request) /\ ~Pending(m, n, Request)'
      BY <1>1, <2>4, <2>5, <2>7 DEF Pending
    <2>9. CASE a = m /\ b = n
      BY <1>1, <2>4, <2>5, <2>7, <2>8, <2>9 DEF Undisturbed, ReadBefore, PairsOK, Pending
    <2>10. CASE a = n /\ b = m
      BY <1>1, <1>4, <2>4, <2>5, <2>6, <2>7, <2>10 DEF Undisturbed, ReadBefore, PairsOK,
        Pending
    <2>11. CASE ~(a = m /\ b = n) /\ ~(a = n /\ b = m)
      BY <1>1, <2>5, <2>11 DEF Undisturbed, ReadBefore, PairsOK, Pending
    <2> QED
      BY <2>9, <2>10, <2>11
  <1> QED
    BY <1>6, <1>7, <1>8 DEF Receive, DropPrepare, ReceivePromise, DropAcceptRequested,
      ReceiveAccepted, ReceiveLeaderElected

LEMMA ReceiverRace ==
    ASSUME RaceInv, NEW n \in Node, NEW m \in Node, Receive(n, m), UNCHANGED raceVars
    PROVE  RaceInv'
  <1> USE DEF RaceInv
  <1>1. QuorumInv'
    <2>1. Inv'
      BY NextInv DEF QuorumInv, Next
    <2> QED
      BY <2>1, ReceiverQuorum
  <1>2. Lasting /\ (~ReceiveAccepted(n, m) => \A k \in Node : CountKept(k))
    BY ReceiverLasting
  <1>3. UNCHANGED <<at, hand, seen>>
    BY DEF raceVars
  <1>4. RaceTypes'
    BY <1>3 DEF RaceTypes
  <1>5. HandsOK'
    BY <1>2, <1>3, HandStays DEF HandsOK
  <1>6. \A a, b \in Node :
            /\ Undisturbed(a, b) /\ ReadBefore(a)
            /\ \A type \in {Request, Answer} :
                  hand'[b][a].type = type => ~Carries(chan'[a][b], type)
    BY ReceiverStreams
  <1>7. PairsOK'
    BY <1>6, PairsStep DEF QuorumInv
  <1>8. RaceCountOK'
    <2>1. VarTypes'
      BY <1>1 DEF QuorumInv, Inv, LocalInv
    <2>2. CASE ~ReceiveAccepted(n, m)
      BY <1>2, <1>4, <1>6, <2>1, <2>2, CountStays DEF RaceCountOK
    <2>3. CASE ReceiveAccepted(n, m)
      <3>1. /\ chan[m][n] # <<>> /\ Head(chan[m][n]).type = Answer
            /\ chan[m][n] \in Seq(OkExchange(m, n))
            /\ AtMostOne(chan[m][n], Answer)
        BY <2>3 DEF QuorumInv, ExchangeOK, ReceiveAccepted, Arrived, Answer
      <3>2. ~Fresh(n) /\ <<m, internalProposalNumber[n]>> \in votes
        BY <3>1, HeadIsGood DEF OkExchange
      <3>3. n # m
        BY <3>1 DEF QuorumInv, ExchangeOK
      <3>4. Carries(chan[m][n], Answer) /\ ~Carries(Tail(chan[m][n]), Answer)
        BY <3>1, TailCarries
      <3>5. chan'[m][n] = Tail(chan[m][n])
        BY <2>3 DEF ReceiveAccepted, Consume, QuorumInv, Inv, Streams
      <3>6. hand'[n][m].type # Answer
        BY <1>3, <3>4 DEF PairsOK
      <3>7. Pending(m, n, Answer) /\ ~Pending(m, n, Answer)'
        BY <3>4, <3>5, <3>6 DEF Pending
      <3>8. /\ acceptedRecieved'[n] \in {acceptedRecieved[n], acceptedRecieved[n] + 1}
            /\ \A k \in Node \ {n} : acceptedRecieved'[k] = acceptedRecieved[k]
            /\ UNCHANGED pc
        BY <2>3 DEF QuorumInv, Inv, LocalInv, VarTypes, ReceiveAccepted
      <3>9. CountBacked(n)'
        BY <1>2, <1>4, <1>6, <2>1, <3>2, <3>3, <3>7, <3>8, CountGrows DEF RaceCountOK
      <3>10. ASSUME NEW k \in Node, k # n
             PROVE  CountBacked(k)'
        <4>1. CountKept(k)
          BY <3>8, <3>10 DEF CountKept, Self
        <4> QED
          BY <1>2, <1>4, <1>6, <2>1, <4>1, CountStays DEF RaceCountOK
      <3> QED
        BY <3>9, <3>10 DEF RaceCountOK
    <2> QED
      BY <2>2, <2>3
  <1> QED
    BY <1>1, <1>4, <1>5, <1>7, <1>8

-----------------------------------------------------------------------------
(* Steps of receivers that overlap *)

USE DEF Untouched, shared

\* What a step of a receiver of n may do to the fields: promise and vote for the record,
\* adopt values of members that stood, install leaders, or die.
Gentle(n) ==
    /\ UNCHANGED Untouched
    /\ VarTypes'
    /\ pc'[n] \in {pc[n], "crashed"}
    /\ \A k \in Node \ {n} : pc'[k] = pc[k]
    /\ pledges \subseteq pledges' /\ pledges' \subseteq Node \X Number
    /\ votes \subseteq votes' /\ votes' \subseteq pledges'
    /\ \A v \in votes' \ votes : /\ v[2] % UidSpan \in Node
                                 /\ v[2] = internalProposalNumber[v[2] % UidSpan]
                                 /\ AcceptPhaseBegun(v[2] % UidSpan)
    /\ \A k \in Node :
          /\ \/ lastPromised'[k] = lastPromised[k]
             \/ lastPromised'[k] # 0 /\ <<k, lastPromised'[k]>> \in pledges'
          /\ lastAcceptedProposalNumber[k] # 0 => lastAcceptedProposalNumber'[k] # 0
          /\ Stood(lastAcceptedValue'[k])
          /\ Stood(leaderClusterMember'[k])
          /\ leaderClusterMember'[k] \in {leaderClusterMember[k]} \union Node

LEMMA GentleGrows ==
    ASSUME QuorumInv, NEW n \in Node, Gentle(n)
    PROVE  /\ Grows /\ Lasting
           /\ \A k \in Node : Self(k) <= Self(k)'
  <1>1. \A k \in Node : pc'[k] \in {pc[k], "crashed"}
    BY DEF Gentle
  <1>2. \A k \in Node : AcceptPhaseBegun(k) => AcceptPhaseBegun(k)'
    BY <1>1 DEF Gentle, AcceptPhaseBegun
  <1>3. UNCHANGED <<elections, internalProposalNumber>>
    BY DEF Gentle
  <1>4. Stable
    BY <1>1, <1>2, <1>3 DEF Gentle, Stable, Fresh
  <1>5. \A k \in Node : Self(k) <= Self(k)'
    BY <1>1 DEF Self
  <1> QED
    BY <1>2, <1>3, <1>4, <1>5 DEF Grows, Lasting, Gentle

LEMMA GentleFields ==
    ASSUME QuorumInv, NEW n \in Node, Gentle(n)
    PROVE  LocalInv' /\ VotesOK' /\ FieldsOK'
  <1> USE DEF QuorumInv, Inv, FieldsOK
  <1>1. \A k \in Node : pc'[k] \in {pc[k], "crashed"}
    BY DEF Gentle
  <1>2. Grows /\ UNCHANGED <<mainVars, paxosProposalNumber, memoryVars, internalProposalNumber,
                             participatingMembers, commits>>
    BY GentleGrows DEF Gentle
  <1>3. LocalInv'
    <2>1. OwnNumbers' /\ RetriesLeft'
      BY <1>1, <1>2 DEF LocalInv, OwnNumbers, RetriesLeft, Executing
    <2>2. ValuesOK'
      BY <1>1, <1>2 DEF LocalInv, ValuesOK, Gentle, Stood
    <2> QED
      BY <2>1, <2>2 DEF LocalInv, Gentle
  <1>4. VotesOK'
    BY <1>2, VotesStep DEF Gentle, Grows
  <1>5. PledgesOK'
    BY <1>1, <1>2 DEF PledgesOK, Gentle
  <1>6. QuorumOK'
    BY <1>1, <1>2 DEF QuorumOK, Proposing
  <1>7. NumbersOK'
    <2>1. \A k \in Node : CounterOK(k)'
      <3>1. AttemptsLeft(n) \in Nat /\ AttemptsLeft(n)' \in {AttemptsLeft(n), 0}
        BY <1>1, <1>2, AttemptsLeftNat DEF AttemptsLeft, Executing
      <3>2. paxosProposalNumber[n] \in Nat /\ paxosProposalNumber[n] >= 88
        BY DEF LocalInv, VarTypes, NumbersOK, CounterOK
      <3>3. /\ UNCHANGED elections
            /\ \A k \in Node \ {n} : /\ pc'[k] = pc[k] /\ retryCount'[k] = retryCount[k]
                                     /\ paxosProposalNumber'[k] = paxosProposalNumber[k]
            /\ paxosProposalNumber'[n] = paxosProposalNumber[n]
        BY <1>2 DEF Gentle
      <3>4. /\ AttemptsLeft(n)' \in Nat
            /\ paxosProposalNumber'[n] + AttemptsLeft(n)' <= paxosProposalNumber[n] + AttemptsLeft(n)
        BY <3>1, <3>2, <3>3
      <3> QED
        BY <3>2, <3>3, <3>4, CounterStep
    <2> QED
      BY <1>1, <1>2, <2>1 DEF NumbersOK, Executing, Gentle
  <1>8. StatusOK'
    BY <1>2, NodeFacts DEF StatusOK, Gentle
  <1>9. CommitsOK'
    <2>1. ASSUME NEW c \in commits
          PROVE  lastAcceptedProposalNumber'[c.by] # 0 /\ pc'[c.by] \notin Proposing
      <3>1. c.by \in Node
        BY DEF LocalInv, VarTypes
      <3> QED
        BY <1>1, <3>1 DEF CommitsOK, Gentle, Proposing
    <2> QED
      BY <1>2, <2>1, CommitsStep DEF Gentle
  <1> QED
    BY <1>3, <1>4, <1>5, <1>6, <1>7, <1>8, <1>9

\* A step that leaves the fields alone is one of these.
LEMMA QuietIsGentle ==
    ASSUME RaceInv, NEW n \in Node,
           UNCHANGED <<Untouched, shared, pc, leaderClusterMember, knownOnline, pledges, votes>>,
           state' \in [Node -> PaxosState]
    PROVE  Gentle(n)
  BY DEF Gentle, RaceInv, QuorumInv, Inv, LocalInv, VarTypes, ValuesOK, Stood, FieldsOK,
    NumbersOK, PledgesOK

\* The streams after such a step are as good as before.
StreamsGood ==
    /\ chan \in Streams
    /\ StreamsOK
    /\ \A a, b \in Node : /\ chan[a][b] \in Seq(OkExchange(a, b))
                          /\ AtMostOne(chan[a][b], Request) /\ AtMostOne(chan[a][b], Answer)
                          /\ a = b => chan[a][b] = <<>>

LEMMA SameStreams ==
    ASSUME QuorumInv, Grows, Lasting, UNCHANGED chan
    PROVE  StreamsGood'
  <1>1. chan' \in Streams /\ StreamsOK'
    BY StreamsStep DEF QuorumInv, Inv
  <1>2. \A a, b \in Node : chan'[a][b] \in Seq(OkExchange(a, b)')
    BY OkExchangeGrows, SeqMonotone DEF QuorumInv, ExchangeOK, Lasting
  <1> QED
    BY <1>1, <1>2 DEF StreamsGood, QuorumInv, ExchangeOK

LEMMA ShorterStream ==
    ASSUME QuorumInv, Grows, Lasting, NEW n \in Node, NEW m \in Node,
           chan[m][n] # <<>>, Consume(n, m)
    PROVE  StreamsGood'
  <1>1. chan' \in Streams /\ StreamsOK'
    BY StreamsStep DEF QuorumInv, Inv
  <1>2. ASSUME NEW a \in Node, NEW b \in Node
        PROVE  /\ chan'[a][b] \in Seq(OkExchange(a, b)')
               /\ AtMostOne(chan'[a][b], Request) /\ AtMostOne(chan'[a][b], Answer)
               /\ a = b => chan'[a][b] = <<>>
    <2>1. chan[a][b] \in Seq(OkExchange(a, b)')
      BY OkExchangeGrows, SeqMonotone DEF QuorumInv, ExchangeOK, Lasting
    <2>2. chan'[a][b] = IF a = m /\ b = n THEN Tail(chan[a][b]) ELSE chan[a][b]
      BY DEF Consume, QuorumInv, Inv, Streams
    <2>3. CASE a = m /\ b = n
      BY <2>1, <2>2, <2>3, TailCarries DEF QuorumInv, ExchangeOK
    <2>4. CASE ~(a = m /\ b = n)
      BY <2>1, <2>2, <2>4 DEF QuorumInv, ExchangeOK
    <2> QED
      BY <2>3, <2>4
  <1> QED
    BY <1>1, <1>2 DEF StreamsGood

LEMMA LongerStream ==
    ASSUME QuorumInv, Grows, Lasting, NEW n \in Node, NEW m \in Node, n # m,
           NEW T \in SUBSET {m}, NEW msg, msg \in OkMessage(n)', msg \in OkExchange(n, m)',
           msg.type # Request, msg.type = Answer => ~Carries(chan[n][m], Answer),
           SendTo(n, T, msg)
    PROVE  /\ StreamsGood'
           /\ \A a, b \in Node : \A type \in {Request, Answer} :
                  Carries(chan'[a][b], type) =>
                      Carries(chan[a][b], type) \/ (a = n /\ b = m /\ type = msg.type)
  <1>1. chan' \in Streams /\ StreamsOK'
    BY StreamsStep DEF QuorumInv, Inv
  <1>2. ASSUME NEW a \in Node, NEW b \in Node
        PROVE  /\ chan'[a][b] \in Seq(OkExchange(a, b)')
               /\ AtMostOne(chan'[a][b], Request) /\ AtMostOne(chan'[a][b], Answer)
               /\ a = b => chan'[a][b] = <<>>
               /\ \A type \in {Request, Answer} :
                     Carries(chan'[a][b], type) =>
                         Carries(chan[a][b], type) \/ (a = n /\ b = m /\ type = msg.type)
    <2>1. chan[a][b] \in Seq(OkExchange(a, b)')
      BY OkExchangeGrows, SeqMonotone DEF QuorumInv, ExchangeOK, Lasting
    <2>2. chan'[a][b] = IF a = n /\ b \in T THEN Append(chan[a][b], msg) ELSE chan[a][b]
      BY DEF SendTo, QuorumInv, Inv, Streams
    <2>3. AtMostOne(chan[a][b], Request) /\ AtMostOne(chan[a][b], Answer)
          /\ (a = b => chan[a][b] = <<>>)
      BY DEF QuorumInv, ExchangeOK
    <2>4. CASE a = n /\ b \in T
      <3>1. a = n /\ b = m /\ chan'[a][b] = Append(chan[a][b], msg)
        BY <2>2, <2>4
      <3>2. \A type \in {Request, Answer} :
                /\ Carries(Append(chan[a][b], msg), type) =>
                       Carries(chan[a][b], type) \/ msg.type = type
                /\ AtMostOne(chan[a][b], type) /\ (msg.type = type => ~Carries(chan[a][b], type)) =>
                       AtMostOne(Append(chan[a][b], msg), type)
        BY <2>1, <3>1, AppendCarries
      <3>3. Append(chan[a][b], msg) \in Seq(OkExchange(a, b)')
        BY <2>1, <3>1, AppendCarries
      <3> QED
        BY <2>3, <3>1, <3>2, <3>3
    <2>5. CASE ~(a = n /\ b \in T)
      BY <2>1, <2>2, <2>3, <2>5
    <2> QED
      BY <2>4, <2>5
  <1> QED
    BY <1>1, <1>2 DEF StreamsGood

\* Only the thread for m at n moves.
OneMoves(n, m) ==
    /\ RaceTypes'
    /\ \A a, b \in Node : ~(a = n /\ b = m) =>
          /\ at'[a][b] = at[a][b] /\ hand'[a][b] = hand[a][b] /\ seen'[a][b] = seen[a][b]

\* A step of that thread keeps the invariant if it does for its own message and count.
LEMMA ThreadStep ==
    ASSUME RaceInv, NEW n \in Node, NEW m \in Node, Gentle(n), OneMoves(n, m),
           StreamsGood', HandOK(n, m)', ReadBefore(n),
           \A a, b \in Node : Undisturbed(a, b),
           \A a, b \in Node : \A type \in {Request, Answer} :
               hand'[b][a].type = type => ~Carries(chan'[a][b], type),
           \A k \in Node \ {n} : acceptedRecieved'[k] = acceptedRecieved[k],
           \/ acceptedRecieved'[n] = acceptedRecieved[n]
           \/ ~Fresh(n) /\ CountBacked(n)'
    PROVE  RaceInv'
  <1> USE DEF RaceInv
  <1>1. /\ Lasting /\ Stable
        /\ \A k \in Node : Self(k) <= Self(k)'
    BY GentleGrows DEF Lasting
  <1>2. LocalInv' /\ VotesOK' /\ FieldsOK'
    BY GentleFields
  <1>3. Inv'
    BY <1>2 DEF Inv, StreamsGood
  <1>4. RaceTypes' /\ VarTypes'
    BY DEF OneMoves, Gentle
  <1>5. HandsOK'
    BY <1>1, HandStays DEF HandsOK, OneMoves
  <1>6. PairsOK'
    BY PairsStep DEF QuorumInv
  <1>7. ExchangeOK'
    BY <1>6 DEF StreamsGood, ExchangeOK, PairsOK, Pending
  <1>8. \A k \in Node : ReadBefore(k)
    BY DEF ReadBefore, OneMoves
  <1>9. RaceCountOK'
    <2>1. ASSUME NEW k \in Node, acceptedRecieved'[k] = acceptedRecieved[k]
          PROVE  CountBacked(k)'
      <3>1. CountKept(k) /\ CountBacked(k)
        BY <1>1, <2>1 DEF CountKept, RaceCountOK
      <3> QED
        BY <1>1, <1>4, <1>8, <3>1, CountStays
    <2> QED
      BY <2>1 DEF RaceCountOK
  <1>10. CountOK'
    <2>1. ASSUME NEW k \in Node, Fresh(k)'
          PROVE  acceptedRecieved'[k] = 0
      <3>1. Fresh(k)
        BY <1>1, <2>1 DEF Stable
      <3> QED
        BY <3>1 DEF QuorumInv, CountOK
    <2>2. ASSUME NEW k \in Node
          PROVE  \E S \in SUBSET (Node \ {k}) : CountedFrom(k, S)'
      BY <1>9 DEF RaceCountOK, CountBacked, CountsUpTo, Settled, Pending, CountedFrom
    <2> QED
      BY <2>1, <2>2 DEF CountOK
  <1> QED
    BY <1>2, <1>3, <1>4, <1>5, <1>6, <1>7, <1>9, <1>10 DEF QuorumInv

\* A place in the switch tells the type of the message.
LEMMA TypeOfStep ==
    ASSUME RaceInv, NEW n \in Node, NEW m \in Node, at[n][m] # "idle"
    PROVE  /\ hand[n][m] \in Message /\ n # m /\ hand[n][m] \in GoodHand(m, n)
           /\ at[n][m] \in StepsOf(hand[n][m].type)
           /\ \A type \in MessageType : at[n][m] \in StepsOf(type) => hand[n][m].type = type
  <1>1. /\ n # m /\ hand[n][m] \in GoodHand(m, n)
        /\ at[n][m] \in StepsOf(hand[n][m].type)
    BY DEF RaceInv, HandsOK, HandOK
  <1>2. hand[n][m] \in Message /\ hand[n][m].type \in MessageType
    BY <1>1 DEF GoodHand, OkMessage, Message
  <1>3. ASSUME NEW s, NEW t \in MessageType, NEW u \in MessageType,
               s \in StepsOf(t), s \in StepsOf(u)
        PROVE  t = u
    BY <1>3 DEF MessageType, StepsOf, Request, Answer
  <1> QED
    BY <1>1, <1>2, <1>3

\* A thread goes on with its message ...
LEMMA GoStep ==
    ASSUME RaceInv, NEW n \in Node, NEW m \in Node, at[n][m] # "idle", Gentle(n),
           UNCHANGED <<chan, acceptedRecieved>>,
           NEW t \in Step \ {"idle"}, t \in StepsOf(hand[n][m].type), Go(n, m, t),
           seen' \in [Node -> [Node -> [num : Nat, val : Node \union {0}]]],
           \A a, b \in Node : ~(a = n /\ b = m) => seen'[a][b] = seen[a][b],
           ChecksHold(n, m)',
           t = "countAccepted" => ~Fresh(n) /\ seen'[n][m].num = acceptedRecieved[n]
    PROVE  RaceInv'
  <1>1. UNCHANGED hand /\ at' = [at EXCEPT ![n][m] = t]
    BY DEF Go
  <1>2. /\ at' \in [Node -> [Node -> Step]]
        /\ \A a, b \in Node : at'[a][b] = IF a = n /\ b = m THEN t ELSE at[a][b]
    BY <1>1 DEF RaceInv, RaceTypes
  <1>3. OneMoves(n, m)
    BY <1>1, <1>2 DEF OneMoves, RaceInv, RaceTypes
  <1>4. Grows /\ Lasting
    BY GentleGrows DEF RaceInv
  <1>5. StreamsGood'
    BY <1>4, SameStreams DEF RaceInv
  <1>6. HandOK(n, m)'
    <2>1. hand'[n][m] \in GoodHand(m, n)' /\ n # m
      BY <1>1, <1>4, TypeOfStep, GoodHandStays
    <2> QED
      BY <1>1, <1>2, <2>1 DEF HandOK
  <1>7. ReadBefore(n)
    BY <1>2, <1>3 DEF ReadBefore, OneMoves
  <1>8. \A a, b \in Node : Undisturbed(a, b)
    BY <1>1 DEF Undisturbed, Pending
  <1>9. \A a, b \in Node : \A type \in {Request, Answer} :
            hand'[b][a].type = type => ~Carries(chan'[a][b], type)
    BY <1>1 DEF RaceInv, PairsOK
  <1> QED
    BY <1>3, <1>5, <1>6, <1>7, <1>8, <1>9, ThreadStep

\* ... or returns from processMessage.
LEMMA DoneMoves ==
    ASSUME RaceInv, NEW n \in Node, NEW m \in Node, Done(n, m)
    PROVE  /\ OneMoves(n, m) /\ ReadBefore(n)
           /\ at'[n][m] = "idle" /\ hand'[n][m] = NoMessage /\ HandOK(n, m)'
  <1>1. /\ at' \in [Node -> [Node -> Step]]
        /\ \A a, b \in Node : at'[a][b] = IF a = n /\ b = m THEN "idle" ELSE at[a][b]
    BY DEF Done, RaceInv, RaceTypes, Step
  <1>2. /\ hand' \in [Node -> [Node -> Message \union {NoMessage}]]
        /\ \A a, b \in Node : hand'[a][b] = IF a = n /\ b = m THEN NoMessage ELSE hand[a][b]
    BY DEF Done, RaceInv, RaceTypes
  <1>3. /\ seen' \in [Node -> [Node -> [num : Nat, val : Node \union {0}]]]
        /\ \A a, b \in Node : ~(a = n /\ b = m) => seen'[a][b] = seen[a][b]
    BY DEF Done, RaceInv, RaceTypes, Nothing
  <1> QED
    BY <1>1, <1>2, <1>3 DEF OneMoves, RaceTypes, ReadBefore, HandOK

LEMMA DoneStep ==
    ASSUME RaceInv, NEW n \in Node, NEW m \in Node, Gentle(n),
           UNCHANGED <<chan, acceptedRecieved>>, Done(n, m)
    PROVE  RaceInv'
  <1>1. Grows /\ Lasting
    BY GentleGrows DEF RaceInv
  <1>2. StreamsGood'
    BY <1>1, SameStreams DEF RaceInv
  <1>3. OneMoves(n, m) /\ ReadBefore(n) /\ hand'[n][m] = NoMessage /\ HandOK(n, m)'
    BY DoneMoves
  <1>4. \A a, b \in Node : hand'[b][a] = hand[b][a] \/ hand'[b][a] = NoMessage
    BY <1>3 DEF OneMoves
  <1>5. NoMessage.type # Request /\ NoMessage.type # Answer
    BY DEF NoMessage, Request, Answer
  <1>6. \A a, b \in Node : Undisturbed(a, b)
    BY <1>4, <1>5 DEF Undisturbed, Pending
  <1>7. \A a, b \in Node : \A type \in {Request, Answer} :
            hand'[b][a].type = type => ~Carries(chan'[a][b], type)
    BY <1>4, <1>5 DEF RaceInv, PairsOK
  <1> QED
    BY <1>2, <1>3, <1>6, <1>7, ThreadStep

-----------------------------------------------------------------------------
(* Every step of processMessage *)

\* A step that only looks: it changes neither the fields nor the streams.
Looks ==
    UNCHANGED <<Untouched, shared, pc, state, leaderClusterMember, knownOnline, pledges,
                votes, chan>>

LEMMA LooksIsGentle ==
    ASSUME RaceInv, NEW n \in Node, Looks
    PROVE  Gentle(n) /\ UNCHANGED <<chan, acceptedRecieved>>
  BY QuietIsGentle DEF Looks, RaceInv, QuorumInv, Inv, LocalInv, VarTypes

\* The places by type, and that they are all places.
LEMMA StepSets ==
    /\ StepsOf("PREPARE") = {"PREPARE", "raise", "readVote", "promise"}
    /\ StepsOf("PROMISE") = {"PROMISE", "readPromises", "countPromise", "vote",
                             "adoptNumber", "adoptValue"}
    /\ StepsOf("ACCEPT_REQUESTED") = {"ACCEPT_REQUESTED", "acceptNumber", "acceptValue",
                                      "accepted"}
    /\ StepsOf("ACCEPTED") = {"ACCEPTED", "readAccepted", "countAccepted"}
    /\ StepsOf("LEADER_ELECTED") = {"LEADER_ELECTED", "complete"}
    /\ \A type \in MessageType : StepsOf(type) \subseteq Step \ {"idle"}
  BY DEF StepsOf, Request, Answer, MessageType, Step

\* Where a thread goes, and with what.
LEMMA GoesTo ==
    ASSUME RaceInv, NEW n \in Node, NEW m \in Node, NEW t, Go(n, m, t)
    PROVE  at'[n][m] = t /\ hand'[n][m] = hand[n][m]
  BY DEF Go, RaceInv, RaceTypes

\* A thread that has its message checked goes on or returns.
LEMMA CheckStep ==
    ASSUME RaceInv, NEW n \in Node, NEW m \in Node, at[n][m] # "idle", Looks,
           NEW yes \in BOOLEAN, NEW t \in Step \ {"idle", "countAccepted"},
           yes => t \in StepsOf(hand[n][m].type),
           GoOrDone(n, m, yes, t), yes => ChecksHold(n, m)'
    PROVE  RaceInv'
  <1>1. Gentle(n) /\ UNCHANGED <<chan, acceptedRecieved>>
    BY LooksIsGentle
  <1>2. CASE yes
    <2>1. Go(n, m, t) /\ UNCHANGED seen
      BY <1>2 DEF GoOrDone
    <2>2. seen' \in [Node -> [Node -> [num : Nat, val : Node \union {0}]]]
      BY <2>1 DEF RaceInv, RaceTypes
    <2> QED
      BY <1>1, <1>2, <2>1, <2>2, GoStep
  <1>3. CASE ~yes
    BY <1>1, <1>3, DoneStep DEF GoOrDone
  <1> QED
    BY <1>2, <1>3

LEMMA CheckPrepareRace ==
    ASSUME RaceInv, NEW n \in Node, NEW m \in Node, CheckPrepare(n, m)
    PROVE  RaceInv'
  <1> DEFINE yes == internalRoundNumber[n] <= MessageRound
             t == IF lastPromised[n] < hand[n][m].num THEN "raise" ELSE "readVote"
  <1>1. at[n][m] = "PREPARE" /\ GoOrDone(n, m, yes, t) /\ Looks
    BY DEF CheckPrepare, At, Looks
  <1>2. hand[n][m].type = "PREPARE" /\ hand[n][m] \in GoodHand(m, n)
    BY <1>1, TypeOfStep, StepSets DEF MessageType
  <1>3. t \in Step \ {"idle", "countAccepted"} /\ t \in StepsOf(hand[n][m].type)
    BY <1>2, StepSets DEF MessageType
  <1>4. t = "readVote" => lastPromised[n] # 0
    <2>1. hand[n][m].num \in Nat /\ hand[n][m].num > 0
      BY <1>2, MessageFields DEF GoodHand
    <2> QED
      BY <2>1 DEF RaceInv, QuorumInv, Inv, LocalInv, VarTypes
  <1>5. yes => ChecksHold(n, m)'
    <2>1. UNCHANGED lastPromised
      BY <1>1 DEF Looks
    <2>2. yes => at'[n][m] = t
      BY <1>1, GoesTo DEF GoOrDone
    <2> QED
      BY <1>4, <2>1, <2>2 DEF ChecksHold
  <1> HIDE DEF yes, t
  <1>6. yes \in BOOLEAN
    BY DEF yes
  <1> QED
    BY <1>1, <1>3, <1>5, <1>6, CheckStep

LEMMA RaiseRace ==
    ASSUME RaceInv, NEW n \in Node, NEW m \in Node, Raise(n, m)
    PROVE  RaceInv'
  <1> USE DEF RaceInv
  <1> DEFINE num == hand[n][m].num
  <1>1. /\ at[n][m] = "raise" /\ Go(n, m, "readVote")
        /\ lastPromised' = [lastPromised EXCEPT ![n] = num]
        /\ pledges' = pledges \union {<<n, num>>}
        /\ UNCHANGED <<Untouched, pc, state, leaderClusterMember, knownOnline, votes, chan, seen,
                       lastAcceptedProposalNumber, lastAcceptedValue, promisesRecieved,
                       acceptedRecieved>>
    BY DEF Raise, At
  <1>2. hand[n][m].type = "PREPARE" /\ hand[n][m] \in GoodHand(m, n)
    BY <1>1, TypeOfStep, StepSets DEF MessageType
  <1>3. num \in Number /\ num \in Nat /\ num > 0
    BY <1>2, MessageFields DEF GoodHand, OkExchange
  <1> HIDE DEF num
  <1>4. Gentle(n)
    <2>1. VarTypes'
      BY <1>1, <1>3 DEF QuorumInv, Inv, LocalInv, VarTypes
    <2>2. pledges' \subseteq Node \X Number /\ votes' \subseteq pledges'
      BY <1>1, <1>3 DEF QuorumInv, FieldsOK, NumbersOK, PledgesOK
    <2>3. \A k \in Node : \/ lastPromised'[k] = lastPromised[k]
                          \/ lastPromised'[k] # 0 /\ <<k, lastPromised'[k]>> \in pledges'
      BY <1>1, <1>3 DEF QuorumInv, Inv, LocalInv, VarTypes
    <2> QED
      BY <1>1, <2>1, <2>2, <2>3 DEF Gentle, QuorumInv, Inv, LocalInv, ValuesOK, Stood
  <1>5. ChecksHold(n, m)'
    BY <1>1, <1>3, GoesTo DEF ChecksHold, QuorumInv, Inv, LocalInv, VarTypes
  <1>6. "readVote" \in Step \ {"idle"} /\ "readVote" \in StepsOf(hand[n][m].type)
    BY <1>2, StepSets DEF MessageType
  <1> QED
    BY <1>1, <1>4, <1>5, <1>6, GoStep DEF RaceTypes

LEMMA ReadVoteRace ==
    ASSUME RaceInv, NEW n \in Node, NEW m \in Node, ReadVote(n, m)
    PROVE  RaceInv'
  <1>1. at[n][m] = "readVote" /\ Go(n, m, "promise") /\ Looks
    BY DEF ReadVote, At, Looks
  <1>2. "promise" \in Step \ {"idle"} /\ "promise" \in StepsOf(hand[n][m].type)
    BY <1>1, TypeOfStep, StepSets DEF MessageType
  <1>3. lastPromised[n] # 0
    BY <1>1 DEF RaceInv, HandsOK, HandOK, ChecksHold
  <1>4. /\ seen' \in [Node -> [Node -> [num : Nat, val : Node \union {0}]]]
        /\ \A a, b \in Node : ~(a = n /\ b = m) => seen'[a][b] = seen[a][b]
        /\ seen'[n][m].val = lastAcceptedValue[n]
    <2>1. [num |-> lastAcceptedProposalNumber[n], val |-> lastAcceptedValue[n]]
              \in [num : Nat, val : Node \union {0}]
      BY DEF RaceInv, QuorumInv, Inv, LocalInv, VarTypes
    <2> QED
      BY <2>1 DEF ReadVote, RaceInv, RaceTypes
  <1>5. Stood(lastAcceptedValue[n])'
    BY <1>1 DEF Looks, RaceInv, QuorumInv, Inv, LocalInv, ValuesOK, Stood
  <1>6. ChecksHold(n, m)'
    <2>1. UNCHANGED <<lastPromised, lastAcceptedValue>>
      BY <1>1 DEF Looks
    <2>2. at'[n][m] = "promise"
      BY <1>1, GoesTo
    <2>3. Stood(seen[n][m].val)'
      BY <1>4, <1>5, <2>1
    <2> QED
      BY <1>3, <2>1, <2>2, <2>3 DEF ChecksHold
  <1> QED
    BY <1>1, <1>2, <1>4, <1>6, LooksIsGentle, GoStep

LEMMA CheckPromiseRace ==
    ASSUME RaceInv, NEW n \in Node, NEW m \in Node, CheckPromise(n, m)
    PROVE  RaceInv'
  <1> DEFINE counted == state[n] = "PREPARE" /\ lastPromised[n] = hand[n][m].num
             t == IF counted THEN "readPromises" ELSE "vote"
  <1>1. at[n][m] = "PROMISE" /\ Go(n, m, t) /\ Looks /\ UNCHANGED seen
    BY DEF CheckPromise, At, Looks
  <1>2. t \in Step \ {"idle"} /\ t \in StepsOf(hand[n][m].type)
    BY <1>1, TypeOfStep, StepSets DEF MessageType
  <1>3. t \in {"readPromises", "vote"}
    OBVIOUS
  <1> HIDE DEF t
  <1>4. ChecksHold(n, m)'
    BY <1>1, <1>3, GoesTo DEF ChecksHold
  <1> QED
    BY <1>1, <1>2, <1>3, <1>4, LooksIsGentle, GoStep DEF RaceInv, RaceTypes

LEMMA ReadPromisesRace ==
    ASSUME RaceInv, NEW n \in Node, NEW m \in Node, ReadPromises(n, m)
    PROVE  RaceInv'
  <1>1. at[n][m] = "readPromises" /\ Go(n, m, "countPromise") /\ Looks
    BY DEF ReadPromises, At, Looks
  <1>2. "countPromise" \in Step \ {"idle"} /\ "countPromise" \in StepsOf(hand[n][m].type)
    BY <1>1, TypeOfStep, StepSets DEF MessageType
  <1>3. ChecksHold(n, m)'
    BY <1>1, GoesTo DEF ChecksHold
  <1>4. /\ seen' \in [Node -> [Node -> [num : Nat, val : Node \union {0}]]]
        /\ \A a, b \in Node : ~(a = n /\ b = m) => seen'[a][b] = seen[a][b]
    <2>1. promisesRecieved[n] \in Nat
      BY DEF RaceInv, QuorumInv, Inv, LocalInv, VarTypes
    <2>2. /\ seen \in [Node -> [Node -> [num : Nat, val : Node \union {0}]]]
          /\ seen' = [seen EXCEPT ![n][m].num = promisesRecieved[n]]
      BY DEF ReadPromises, RaceInv, RaceTypes
    <2> QED
      BY <2>1, <2>2
  <1> QED
    BY <1>1, <1>2, <1>3, <1>4, LooksIsGentle, GoStep

LEMMA CountPromiseRace ==
    ASSUME RaceInv, NEW n \in Node, NEW m \in Node, CountPromise(n, m)
    PROVE  RaceInv'
  <1>1. /\ at[n][m] = "countPromise" /\ Go(n, m, "vote")
        /\ promisesRecieved' = [promisesRecieved EXCEPT ![n] = seen[n][m].num + 1]
        /\ UNCHANGED <<Untouched, pc, state, leaderClusterMember, knownOnline, pledges, votes,
                       chan, acceptorVars, acceptedRecieved>>
    BY DEF CountPromise, At
  <1>2. "vote" \in Step \ {"idle"} /\ "vote" \in StepsOf(hand[n][m].type)
    BY <1>1, TypeOfStep, StepSets DEF MessageType
  <1>3. ChecksHold(n, m)'
    BY <1>1, GoesTo DEF ChecksHold
  <1>4. /\ seen' \in [Node -> [Node -> [num : Nat, val : Node \union {0}]]]
        /\ \A a, b \in Node : ~(a = n /\ b = m) => seen'[a][b] = seen[a][b]
    BY DEF CountPromise, RaceInv, RaceTypes, Nothing
  <1>5. Gentle(n)
    <2>1. seen[n][m].num \in Nat
      BY DEF RaceInv, RaceTypes
    <2>2. promisesRecieved' \in [Node -> Nat]
      BY <1>1, <2>1 DEF RaceInv, QuorumInv, Inv, LocalInv, VarTypes
    <2>3. VarTypes'
      BY <1>1, <2>2 DEF RaceInv, QuorumInv, Inv, LocalInv, VarTypes
    <2> QED
      BY <1>1, <2>3 DEF Gentle, RaceInv, QuorumInv, Inv, LocalInv, ValuesOK, Stood, FieldsOK,
        NumbersOK, PledgesOK
  <1> QED
    BY <1>1, <1>2, <1>3, <1>4, <1>5, GoStep

LEMMA CheckVoteRace ==
    ASSUME RaceInv, NEW n \in Node, NEW m \in Node, CheckVote(n, m)
    PROVE  RaceInv'
  <1> DEFINE yes == hand[n][m].accNum # 0 /\ hand[n][m].accVal # lastAcceptedValue[n]
  <1>1. at[n][m] = "vote" /\ GoOrDone(n, m, yes, "adoptNumber") /\ Looks
    BY DEF CheckVote, At, Looks
  <1>2. /\ "adoptNumber" \in Step \ {"idle", "countAccepted"}
        /\ "adoptNumber" \in StepsOf(hand[n][m].type)
    BY <1>1, TypeOfStep, StepSets DEF MessageType
  <1>3. yes => ChecksHold(n, m)'
    BY <1>1, GoesTo DEF GoOrDone, ChecksHold
  <1> HIDE DEF yes
  <1>4. yes \in BOOLEAN
    BY DEF yes
  <1> QED
    BY <1>1, <1>2, <1>3, <1>4, CheckStep

LEMMA AdoptNumberRace ==
    ASSUME RaceInv, NEW n \in Node, NEW m \in Node, AdoptNumber(n, m)
    PROVE  RaceInv'
  <1> DEFINE num == hand[n][m].accNum
  <1>1. /\ at[n][m] = "adoptNumber" /\ Go(n, m, "adoptValue")
        /\ lastAcceptedProposalNumber' = [lastAcceptedProposalNumber EXCEPT ![n] = num]
        /\ UNCHANGED <<Untouched, pc, state, leaderClusterMember, knownOnline, pledges, votes,
                       chan, seen, lastPromised, lastAcceptedValue, promisesRecieved,
                       acceptedRecieved>>
    BY DEF AdoptNumber, At
  <1>2. "adoptValue" \in Step \ {"idle"} /\ "adoptValue" \in StepsOf(hand[n][m].type)
    BY <1>1, TypeOfStep, StepSets DEF MessageType
  <1>3. num \in Nat /\ num # 0
    <2>1. hand[n][m] \in Message /\ ChecksHold(n, m)
      BY <1>1, TypeOfStep DEF RaceInv, HandsOK, HandOK
    <2> QED
      BY <1>1, <2>1 DEF ChecksHold, Message
  <1>4. ChecksHold(n, m)'
    BY <1>1, <1>3, GoesTo DEF ChecksHold
  <1> HIDE DEF num
  <1>5. Gentle(n)
    <2>1. VarTypes'
      BY <1>1, <1>3 DEF RaceInv, QuorumInv, Inv, LocalInv, VarTypes
    <2>2. \A k \in Node : lastAcceptedProposalNumber[k] # 0 => lastAcceptedProposalNumber'[k] # 0
      BY <1>1, <1>3 DEF RaceInv, QuorumInv, Inv, LocalInv, VarTypes
    <2> QED
      BY <1>1, <2>1, <2>2 DEF Gentle, RaceInv, QuorumInv, Inv, LocalInv, ValuesOK, Stood,
        FieldsOK, NumbersOK, PledgesOK
  <1> QED
    BY <1>1, <1>2, <1>4, <1>5, GoStep DEF RaceInv, RaceTypes

LEMMA AdoptValueRace ==
    ASSUME RaceInv, NEW n \in Node, NEW m \in Node, AdoptValue(n, m)
    PROVE  RaceInv'
  <1> DEFINE val == hand[n][m].accVal
  <1>1. /\ at[n][m] = "adoptValue" /\ Done(n, m)
        /\ lastAcceptedValue' = [lastAcceptedValue EXCEPT ![n] = val]
        /\ UNCHANGED <<Untouched, pc, state, leaderClusterMember, knownOnline, pledges, votes,
                       chan, lastPromised, lastAcceptedProposalNumber, promisesRecieved,
                       acceptedRecieved>>
    BY DEF AdoptValue, At
  <1>2. val \in Node \union {0} /\ Stood(val)
    BY <1>1, TypeOfStep, MessageFields DEF GoodHand
  <1> HIDE DEF val
  <1>3. Gentle(n)
    <2>1. VarTypes'
      BY <1>1, <1>2 DEF RaceInv, QuorumInv, Inv, LocalInv, VarTypes
    <2>2. \A k \in Node : Stood(lastAcceptedValue'[k])
      BY <1>1, <1>2 DEF RaceInv, QuorumInv, Inv, LocalInv, VarTypes, ValuesOK
    <2> QED
      BY <1>1, <2>1, <2>2 DEF Gentle, RaceInv, QuorumInv, Inv, LocalInv, ValuesOK, Stood,
        FieldsOK, NumbersOK, PledgesOK
  <1> QED
    BY <1>1, <1>3, DoneStep

LEMMA CheckAcceptRace ==
    ASSUME RaceInv, NEW n \in Node, NEW m \in Node, CheckAccept(n, m)
    PROVE  RaceInv'
  <1> DEFINE yes == Acceptable(n, hand[n][m])
  <1>1. at[n][m] = "ACCEPT_REQUESTED" /\ GoOrDone(n, m, yes, "acceptNumber") /\ Looks
    BY DEF CheckAccept, At, Looks
  <1>2. /\ "acceptNumber" \in Step \ {"idle", "countAccepted"}
        /\ "acceptNumber" \in StepsOf(hand[n][m].type)
    BY <1>1, TypeOfStep, StepSets DEF MessageType
  <1>3. yes => <<n, hand[n][m].num>> \in pledges
    <2>1. hand[n][m].num \in Nat /\ hand[n][m].num > 0
      BY <1>1, TypeOfStep, MessageFields DEF GoodHand
    <2>2. lastPromised[n] # 0 => <<n, lastPromised[n]>> \in pledges
      BY DEF RaceInv, QuorumInv, FieldsOK, PledgesOK
    <2>3. yes => lastPromised[n] = hand[n][m].num
      BY DEF Acceptable
    <2> QED
      BY <2>1, <2>2, <2>3
  <1>4. yes => ChecksHold(n, m)'
    BY <1>1, <1>3, GoesTo DEF GoOrDone, ChecksHold, Looks
  <1>5. yes \in BOOLEAN
    BY DEF Acceptable
  <1> HIDE DEF yes
  <1> QED
    BY <1>1, <1>2, <1>4, <1>5, CheckStep

LEMMA AcceptNumberRace ==
    ASSUME RaceInv, NEW n \in Node, NEW m \in Node, AcceptNumber(n, m)
    PROVE  RaceInv'
  <1> DEFINE num == hand[n][m].num
  <1>1. /\ at[n][m] = "acceptNumber" /\ Go(n, m, "acceptValue")
        /\ lastAcceptedProposalNumber' = [lastAcceptedProposalNumber EXCEPT ![n] = num]
        /\ votes' = votes \union {<<n, num>>}
        /\ UNCHANGED <<Untouched, pc, state, leaderClusterMember, knownOnline, pledges, chan,
                       seen, lastPromised, lastAcceptedValue, promisesRecieved,
                       acceptedRecieved>>
    BY DEF AcceptNumber, At
  <1>2. "acceptValue" \in Step \ {"idle"} /\ "acceptValue" \in StepsOf(hand[n][m].type)
    BY <1>1, TypeOfStep, StepSets DEF MessageType
  <1>3. hand[n][m] \in OkMessage(m) /\ hand[n][m].type = "ACCEPT_REQUESTED"
    BY <1>1, TypeOfStep, StepSets DEF MessageType, GoodHand
  <1>4. /\ num \in Nat /\ num > 0
        /\ num = internalProposalNumber[m] /\ num % UidSpan = m /\ AcceptPhaseBegun(m)
    BY <1>3, MessageFields DEF OkMessage
  <1>5. <<n, num>> \in pledges
    BY <1>1 DEF RaceInv, HandsOK, HandOK, ChecksHold
  <1>6. hand'[n][m].num = num /\ at'[n][m] = "acceptValue"
    BY <1>1, GoesTo
  <1> HIDE DEF num
  <1>7. VarTypes'
    BY <1>1, <1>4 DEF RaceInv, QuorumInv, Inv, LocalInv, VarTypes
  <1>8. lastAcceptedProposalNumber'[n] = num
    BY <1>1 DEF RaceInv, QuorumInv, Inv, LocalInv, VarTypes
  <1>9. ChecksHold(n, m)'
    BY <1>1, <1>4, <1>6, <1>8 DEF ChecksHold
  <1>10. Gentle(n)
    <2>1. /\ pledges' \subseteq Node \X Number /\ votes' \subseteq pledges'
          /\ votes \subseteq votes'
      BY <1>1, <1>5 DEF RaceInv, QuorumInv, FieldsOK, NumbersOK, PledgesOK
    <2>2. \A v \in votes' \ votes : /\ v[2] % UidSpan \in Node
                                   /\ v[2] = internalProposalNumber[v[2] % UidSpan]
                                   /\ AcceptPhaseBegun(v[2] % UidSpan)
      BY <1>1, <1>4
    <2>3. \A k \in Node : lastAcceptedProposalNumber[k] # 0 => lastAcceptedProposalNumber'[k] # 0
      BY <1>1, <1>4 DEF RaceInv, QuorumInv, Inv, LocalInv, VarTypes
    <2> QED
      BY <1>1, <1>7, <2>1, <2>2, <2>3 DEF Gentle, RaceInv, QuorumInv, Inv, LocalInv, ValuesOK,
        Stood
  <1> QED
    BY <1>1, <1>2, <1>9, <1>10, GoStep DEF RaceInv, RaceTypes

LEMMA AcceptValueRace ==
    ASSUME RaceInv, NEW n \in Node, NEW m \in Node, AcceptValue(n, m)
    PROVE  RaceInv'
  <1> DEFINE val == hand[n][m].accVal
  <1>1. /\ at[n][m] = "acceptValue" /\ Go(n, m, "accepted")
        /\ lastAcceptedValue' = [lastAcceptedValue EXCEPT ![n] = val]
        /\ UNCHANGED <<Untouched, pc, state, leaderClusterMember, knownOnline, pledges, votes,
                       chan, seen, lastPromised, lastAcceptedProposalNumber, promisesRecieved,
                       acceptedRecieved>>
    BY DEF AcceptValue, At
  <1>2. "accepted" \in Step \ {"idle"} /\ "accepted" \in StepsOf(hand[n][m].type)
    BY <1>1, TypeOfStep, StepSets DEF MessageType
  <1>3. val \in Node \union {0} /\ Stood(val)
    BY <1>1, TypeOfStep, MessageFields DEF GoodHand
  <1>4. ChecksHold(n, m)
    BY <1>1 DEF RaceInv, HandsOK, HandOK
  <1>5. ChecksHold(n, m)'
    BY <1>1, <1>4, GoesTo DEF ChecksHold
  <1> HIDE DEF val
  <1>6. Gentle(n)
    <2>1. VarTypes'
      BY <1>1, <1>3 DEF RaceInv, QuorumInv, Inv, LocalInv, VarTypes
    <2>2. \A k \in Node : Stood(lastAcceptedValue'[k])
      BY <1>1, <1>3 DEF RaceInv, QuorumInv, Inv, LocalInv, VarTypes, ValuesOK
    <2> QED
      BY <1>1, <2>1, <2>2 DEF Gentle, RaceInv, QuorumInv, Inv, LocalInv, ValuesOK, Stood,
        FieldsOK, NumbersOK, PledgesOK
  <1> QED
    BY <1>1, <1>2, <1>5, <1>6, GoStep DEF RaceInv, RaceTypes

LEMMA CheckAcceptedRace ==
    ASSUME RaceInv, NEW n \in Node, NEW m \in Node, CheckAccepted(n, m)
    PROVE  RaceInv'
  <1> DEFINE yes == lastAcceptedProposalNumber[n] = hand[n][m].accNum
  <1>1. at[n][m] = "ACCEPTED" /\ GoOrDone(n, m, yes, "readAccepted") /\ Looks
    BY DEF CheckAccepted, At, Looks
  <1>2. /\ "readAccepted" \in Step \ {"idle", "countAccepted"}
        /\ "readAccepted" \in StepsOf(hand[n][m].type)
    BY <1>1, TypeOfStep, StepSets DEF MessageType
  <1>3. yes => ChecksHold(n, m)'
    BY <1>1, GoesTo DEF GoOrDone, ChecksHold
  <1>4. yes \in BOOLEAN
    OBVIOUS
  <1> HIDE DEF yes
  <1> QED
    BY <1>1, <1>2, <1>3, <1>4, CheckStep

LEMMA ReadAcceptedRace ==
    ASSUME RaceInv, NEW n \in Node, NEW m \in Node, ReadAccepted(n, m)
    PROVE  RaceInv'
  <1>1. at[n][m] = "readAccepted" /\ Go(n, m, "countAccepted") /\ Looks
    BY DEF ReadAccepted, At, Looks
  <1>2. "countAccepted" \in Step \ {"idle"} /\ "countAccepted" \in StepsOf(hand[n][m].type)
    BY <1>1, TypeOfStep, StepSets DEF MessageType
  <1>3. ChecksHold(n, m)'
    BY <1>1, GoesTo DEF ChecksHold
  <1>4. /\ seen' \in [Node -> [Node -> [num : Nat, val : Node \union {0}]]]
        /\ \A a, b \in Node : ~(a = n /\ b = m) => seen'[a][b] = seen[a][b]
        /\ seen'[n][m].num = acceptedRecieved[n]
    <2>1. acceptedRecieved[n] \in Nat
      BY DEF RaceInv, QuorumInv, Inv, LocalInv, VarTypes
    <2>2. /\ seen \in [Node -> [Node -> [num : Nat, val : Node \union {0}]]]
          /\ seen' = [seen EXCEPT ![n][m].num = acceptedRecieved[n]]
      BY DEF ReadAccepted, RaceInv, RaceTypes
    <2> QED
      BY <2>1, <2>2
  <1>5. ~Fresh(n)
    <2>1. hand[n][m] \in OkExchange(m, n) /\ hand[n][m].type = Answer
      BY <1>1, TypeOfStep, StepSets DEF MessageType, GoodHand, Answer
    <2> QED
      BY <2>1 DEF OkExchange
  <1> QED
    BY <1>1, <1>2, <1>3, <1>4, <1>5, LooksIsGentle, GoStep

\* The number that is written is one more than what was read, whatever was counted or
\* taken back in between.
LEMMA CountAcceptedRace ==
    ASSUME RaceInv, NEW n \in Node, NEW m \in Node, CountAccepted(n, m)
    PROVE  RaceInv'
  <1>1. /\ at[n][m] = "countAccepted" /\ Done(n, m)
        /\ acceptedRecieved' = [acceptedRecieved EXCEPT ![n] = seen[n][m].num + 1]
        /\ UNCHANGED <<Untouched, pc, state, leaderClusterMember, knownOnline, pledges, votes,
                       chan, acceptorVars, promisesRecieved>>
    BY DEF CountAccepted, At
  <1>2. /\ hand[n][m] \in OkExchange(m, n) /\ hand[n][m].type = Answer /\ n # m
    BY <1>1, TypeOfStep, StepSets DEF MessageType, GoodHand, Answer
  <1>3. ~Fresh(n) /\ <<m, internalProposalNumber[n]>> \in votes
    BY <1>2 DEF OkExchange
  <1>4. Gentle(n)
    <2>1. seen[n][m].num \in Nat
      BY DEF RaceInv, RaceTypes
    <2>2. acceptedRecieved' \in [Node -> Nat]
      BY <1>1, <2>1 DEF RaceInv, QuorumInv, Inv, LocalInv, VarTypes
    <2>3. VarTypes'
      BY <1>1, <2>2 DEF RaceInv, QuorumInv, Inv, LocalInv, VarTypes
    <2> QED
      BY <1>1, <2>3 DEF Gentle, RaceInv, QuorumInv, Inv, LocalInv, ValuesOK, Stood, FieldsOK,
        NumbersOK, PledgesOK
  <1>5. OneMoves(n, m) /\ ReadBefore(n) /\ hand'[n][m] = NoMessage /\ HandOK(n, m)'
    BY <1>1, DoneMoves
  <1>6. Grows /\ Lasting
    BY <1>4, GentleGrows DEF RaceInv
  <1>7. StreamsGood'
    BY <1>1, <1>6, SameStreams DEF RaceInv
  <1>8. \A a, b \in Node : hand'[b][a] = hand[b][a] \/ hand'[b][a] = NoMessage
    BY <1>5 DEF OneMoves
  <1>9. NoMessage.type # Request /\ NoMessage.type # Answer
    BY DEF NoMessage, Request, Answer
  <1>10. \A a, b \in Node : Undisturbed(a, b)
    BY <1>1, <1>8, <1>9 DEF Undisturbed, Pending
  <1>11. \A a, b \in Node : \A type \in {Request, Answer} :
             hand'[b][a].type = type => ~Carries(chan'[a][b], type)
    BY <1>1, <1>8, <1>9 DEF RaceInv, PairsOK
  <1>12. Pending(m, n, Answer) /\ ~Pending(m, n, Answer)'
    <2>1. ~Carries(chan[m][n], Answer)
      BY <1>2 DEF RaceInv, PairsOK
    <2> QED
      BY <1>1, <1>2, <1>5, <1>9, <2>1 DEF Pending
  <1>13. /\ acceptedRecieved'[n] = seen[n][m].num + 1
         /\ \A k \in Node \ {n} : acceptedRecieved'[k] = acceptedRecieved[k]
    BY <1>1 DEF RaceInv, QuorumInv, Inv, LocalInv, VarTypes
  <1>14. CountBacked(n)'
    <2>1. VarTypes' /\ RaceTypes'
      BY <1>4, <1>5 DEF Gentle, OneMoves
    <2> QED
      BY <1>1, <1>2, <1>3, <1>5, <1>6, <1>10, <1>12, <1>13, <2>1, CountGrows DEF RaceInv,
        RaceCountOK
  <1> QED
    BY <1>3, <1>4, <1>5, <1>7, <1>10, <1>11, <1>13, <1>14, ThreadStep

LEMMA InstallLeaderRace ==
    ASSUME RaceInv, NEW n \in Node, NEW m \in Node, InstallLeader(n, m)
    PROVE  RaceInv'
  <1> DEFINE val == hand[n][m].accVal
  <1>1. /\ at[n][m] = "LEADER_ELECTED" /\ setLeader(n, val)
        /\ \/ Go(n, m, "complete") /\ UNCHANGED <<pc, seen>>
           \/ pc' = [pc EXCEPT ![n] = "crashed"] /\ Done(n, m)
        /\ UNCHANGED <<Untouched, shared, state, pledges, votes, chan>>
    BY DEF InstallLeader, At
  <1>2. "complete" \in Step \ {"idle"} /\ "complete" \in StepsOf(hand[n][m].type)
    BY <1>1, TypeOfStep, StepSets DEF MessageType
  <1>3. val \in Node \union {0} /\ Stood(val)
    BY <1>1, TypeOfStep, MessageFields DEF GoodHand
  <1> HIDE DEF val
  <1>4. Gentle(n)
    <2>1. /\ leaderClusterMember' \in [Node -> Node \union {NoLeader, WildLeader}]
          /\ knownOnline' \in [Node -> SUBSET Node]
          /\ pc' \in [Node -> MainState] /\ pc'[n] \in {pc[n], "crashed"}
          /\ \A k \in Node \ {n} : pc'[k] = pc[k]
      BY <1>1, <1>3 DEF RaceInv, QuorumInv, Inv, LocalInv, VarTypes, setLeader, LeaderAfter,
        MainState
    <2>2. VarTypes'
      BY <1>1, <2>1 DEF RaceInv, QuorumInv, Inv, LocalInv, VarTypes
    <2>3. \A k \in Node : /\ leaderClusterMember'[k] \in {leaderClusterMember[k]} \union Node
                          /\ Stood(leaderClusterMember'[k])
      BY <1>1, <1>3 DEF RaceInv, QuorumInv, Inv, LocalInv, VarTypes, setLeader, LeaderAfter,
        ValuesOK, Stood
    <2> QED
      BY <1>1, <2>1, <2>2, <2>3 DEF Gentle, RaceInv, QuorumInv, Inv, LocalInv, ValuesOK, Stood,
        FieldsOK, NumbersOK, PledgesOK
  <1>5. CASE Go(n, m, "complete") /\ UNCHANGED <<pc, seen>>
    <2>1. ChecksHold(n, m)'
      BY <1>5, GoesTo DEF ChecksHold
    <2> QED
      BY <1>1, <1>2, <1>4, <1>5, <2>1, GoStep DEF RaceInv, RaceTypes
  <1>6. CASE Done(n, m)
    BY <1>1, <1>4, <1>6, DoneStep
  <1> QED
    BY <1>1, <1>5, <1>6

LEMMA CompleteRace ==
    ASSUME RaceInv, NEW n \in Node, NEW m \in Node, Complete(n, m)
    PROVE  RaceInv'
  <1>1. state' \in [Node -> PaxosState]
    BY DEF Complete, PaxosState, RaceInv, QuorumInv, Inv, LocalInv, VarTypes
  <1>2. Gentle(n)
    BY <1>1, QuietIsGentle DEF Complete
  <1> QED
    BY <1>2, DoneStep DEF Complete

\* A message moves from the stream to the hand.
LEMMA TakeRace ==
    ASSUME RaceInv, NEW n \in Node, NEW m \in Node, Take(n, m)
    PROVE  RaceInv'
  <1> DEFINE msg == Head(chan[m][n])
  <1>1. /\ at[n][m] = "idle" /\ chan[m][n] # <<>> /\ Consume(n, m)
        /\ at' = [at EXCEPT ![n][m] = msg.type]
        /\ hand' = [hand EXCEPT ![n][m] = msg]
        /\ UNCHANGED <<Untouched, shared, pc, state, leaderClusterMember, knownOnline, pledges,
                       votes, seen>>
    BY DEF Take, At
  <1>2. msg \in GoodHand(m, n) /\ msg \in Message /\ msg.type \in MessageType
    <2>1. Head(chan[m][n]) \in OkMessage(m) /\ Head(chan[m][n]) \in OkExchange(m, n)
      BY <1>1, HeadIsGood DEF RaceInv, QuorumInv, Inv, StreamsOK, ExchangeOK
    <2> QED
      BY <2>1 DEF GoodHand, OkMessage, Message
  <1>3. n # m
    BY <1>1 DEF RaceInv, QuorumInv, ExchangeOK
  <1>4. \A type : /\ Carries(Tail(chan[m][n]), type) => Carries(chan[m][n], type)
                  /\ msg.type = type => Carries(chan[m][n], type)
                  /\ AtMostOne(chan[m][n], type) /\ msg.type = type =>
                         ~Carries(Tail(chan[m][n]), type)
    <2>1. chan[m][n] \in Seq(OkExchange(m, n))
      BY DEF RaceInv, QuorumInv, ExchangeOK
    <2> QED
      BY <1>1, <2>1, TailCarries
  <1> HIDE DEF msg
  <1>5. \A a, b \in Node : chan'[a][b] = IF a = m /\ b = n THEN Tail(chan[a][b]) ELSE chan[a][b]
    BY <1>1 DEF Consume, RaceInv, QuorumInv, Inv, Streams
  <1>6. Gentle(n) /\ UNCHANGED acceptedRecieved
    BY <1>1, QuietIsGentle DEF RaceInv, QuorumInv, Inv, LocalInv, VarTypes
  <1>7. Grows /\ Lasting
    BY <1>6, GentleGrows DEF RaceInv
  <1>8. StreamsGood'
    BY <1>1, <1>7, ShorterStream DEF RaceInv
  <1>9. /\ at' \in [Node -> [Node -> Step]]
        /\ hand' \in [Node -> [Node -> Message \union {NoMessage}]]
        /\ \A a, b \in Node : /\ at'[a][b] = IF a = n /\ b = m THEN msg.type ELSE at[a][b]
                              /\ hand'[a][b] = IF a = n /\ b = m THEN msg ELSE hand[a][b]
    <2>1. msg.type \in Step
      BY <1>2 DEF Step
    <2>2. at \in [Node -> [Node -> Step]] /\ hand \in [Node -> [Node -> Message \union {NoMessage}]]
      BY DEF RaceInv, RaceTypes
    <2> QED
      BY <1>1, <1>2, <2>1, <2>2
  <1>10. OneMoves(n, m)
    BY <1>1, <1>9 DEF OneMoves, RaceInv, RaceTypes
  <1>11. HandOK(n, m)'
    <2>1. hand'[n][m] = msg /\ at'[n][m] = msg.type /\ msg \in GoodHand(m, n)'
      BY <1>2, <1>7, <1>9, GoodHandStays
    <2>2. msg.type \in StepsOf(msg.type) /\ msg.type # "idle"
      BY <1>2, StepSets DEF MessageType
    <2>3. ChecksHold(n, m)'
      BY <1>2, <2>1 DEF ChecksHold, MessageType
    <2> QED
      BY <1>3, <2>1, <2>2, <2>3 DEF HandOK
  <1>12. ReadBefore(n)
    <2>1. msg.type # "countAccepted"
      BY <1>2 DEF MessageType
    <2> QED
      BY <1>1, <1>9, <2>1 DEF ReadBefore
  <1>13. \A a, b \in Node : \A type : Pending(a, b, type)' => Pending(a, b, type)
    BY <1>4, <1>5, <1>9 DEF Pending
  <1>14. \A a, b \in Node : Undisturbed(a, b)
    BY <1>13 DEF Undisturbed
  <1>15. ASSUME NEW a \in Node, NEW b \in Node, NEW type \in {Request, Answer},
                hand'[b][a].type = type
         PROVE  ~Carries(chan'[a][b], type)
    <2>1. CASE a = m /\ b = n
      <3>1. AtMostOne(chan[m][n], type)
        BY DEF RaceInv, QuorumInv, ExchangeOK
      <3> QED
        BY <1>4, <1>5, <1>9, <1>15, <2>1, <3>1
    <2>2. CASE ~(a = m /\ b = n)
      BY <1>5, <1>9, <1>15, <2>2 DEF RaceInv, PairsOK
    <2> QED
      BY <2>1, <2>2
  <1> QED
    BY <1>6, <1>8, <1>10, <1>11, <1>12, <1>14, <1>15, ThreadStep

\* A receiver answers its member and returns: the answer joins the stream if the member
\* is there.
LEMMA AnswerStep ==
    ASSUME RaceInv, NEW n \in Node, NEW m \in Node, n # m, Gentle(n),
           UNCHANGED acceptedRecieved,
           NEW msg, msg \in OkMessage(n)', msg \in OkExchange(n, m)',
           msg.type # Request,
           msg.type = Answer => hand[n][m].type = Request,
           Send(n, m, msg), Done(n, m)
    PROVE  RaceInv'
  <1> USE DEF RaceInv
  <1>1. Grows /\ Lasting
    BY GentleGrows
  <1>2. PICK T \in SUBSET {m} : SendTo(n, T, msg)
    BY DEF Send, Connected
  <1>3. hand[n][m].type = Request => /\ ~Carries(chan[n][m], Answer)
                                     /\ ~Carries(chan[m][n], Request)
                                     /\ hand[m][n].type # Answer
    BY DEF PairsOK, Pending
  <1>4. /\ StreamsGood'
        /\ \A a, b \in Node : \A type \in {Request, Answer} :
               Carries(chan'[a][b], type) =>
                   Carries(chan[a][b], type) \/ (a = n /\ b = m /\ type = msg.type)
    BY <1>1, <1>2, <1>3, LongerStream
  <1>5. OneMoves(n, m) /\ ReadBefore(n) /\ hand'[n][m] = NoMessage /\ HandOK(n, m)'
    BY DoneMoves
  <1>6. NoMessage.type # Request /\ NoMessage.type # Answer /\ Request # Answer
    BY DEF NoMessage, Request, Answer
  <1>7. \A a, b \in Node : hand'[b][a] = hand[b][a] \/ hand'[b][a] = NoMessage
    BY <1>5 DEF OneMoves
  <1>8. ASSUME NEW a \in Node, NEW b \in Node
        PROVE  Undisturbed(a, b)
    <2>1. Pending(a, b, Request)' => Pending(a, b, Request)
      BY <1>4, <1>6, <1>7 DEF Pending
    <2>2. CASE ~(b = n /\ a = m /\ msg.type = Answer)
      BY <1>4, <1>6, <1>7, <2>1, <2>2 DEF Pending, Undisturbed
    <2>3. CASE b = n /\ a = m /\ msg.type = Answer
      <3>1. Pending(m, n, Request) /\ ~Pending(m, n, Request)'
        BY <1>3, <1>4, <1>5, <1>6, <2>3 DEF Pending
      <3> QED
        BY <2>1, <2>3, <3>1 DEF Undisturbed
    <2> QED
      BY <2>2, <2>3
  <1>9. ASSUME NEW a \in Node, NEW b \in Node, NEW type \in {Request, Answer},
               hand'[b][a].type = type
        PROVE  ~Carries(chan'[a][b], type)
    <2>1. hand[b][a].type = type
      BY <1>6, <1>7, <1>9
    <2>2. ~Carries(chan[a][b], type)
      BY <2>1 DEF PairsOK
    <2>3. ~(a = n /\ b = m /\ type = msg.type)
      BY <1>3, <2>1
    <2> QED
      BY <1>4, <2>2, <2>3
  <1> QED
    BY <1>4, <1>5, <1>8, <1>9, ThreadStep

\* A promise is neither a request nor an answer to one.
LEMMA SendPromiseRace ==
    ASSUME RaceInv, NEW n \in Node, NEW m \in Node, SendPromise(n, m)
    PROVE  RaceInv'
  <1> DEFINE msg == PromiseMessage(lastPromised[n], seen[n][m].num, seen[n][m].val)
  <1>1. /\ at[n][m] = "promise" /\ Send(n, m, msg) /\ Done(n, m)
        /\ UNCHANGED <<Untouched, shared, pc, state, leaderClusterMember, knownOnline, pledges,
                       votes>>
    BY DEF SendPromise, At
  <1>2. Gentle(n) /\ UNCHANGED acceptedRecieved
    BY <1>1, QuietIsGentle DEF RaceInv, QuorumInv, Inv, LocalInv, VarTypes
  <1>3. lastPromised[n] # 0 /\ Stood(seen[n][m].val)
    BY <1>1 DEF RaceInv, HandsOK, HandOK, ChecksHold
  <1>4. /\ lastPromised[n] \in Nat /\ lastPromised[n] > 0
        /\ seen[n][m].num \in Nat /\ seen[n][m].val \in Node \union {0}
    BY <1>3 DEF RaceInv, RaceTypes, QuorumInv, Inv, LocalInv, VarTypes
  <1>5. seen[n][m].val \in Node => elections'[seen[n][m].val] > 0
    BY <1>1, <1>3 DEF Stood
  <1>6. msg \in OkMessage(n)' /\ msg.type = "PROMISE"
    <2>1. "PROMISE" \in MessageType \ {"ACCEPT_REQUESTED"}
      BY DEF MessageType
    <2> QED
      BY <1>4, <1>5, <2>1, MayBeSent DEF PromiseMessage, addMessage
  <1>7. n # m /\ hand[n][m].type = "PREPARE"
    BY <1>1, TypeOfStep, StepSets DEF MessageType
  <1> HIDE DEF msg
  <1>8. msg.type # Request /\ msg.type # Answer /\ msg \in OkExchange(n, m)'
    BY <1>6 DEF Request, Answer, OkExchange, OkMessage
  <1> QED
    BY <1>1, <1>2, <1>6, <1>7, <1>8, AnswerStep

\* Whatever the answer carries, its sender has voted for the number it was asked for.
LEMMA SendAcceptedRace ==
    ASSUME RaceInv, NEW n \in Node, NEW m \in Node, SendAccepted(n, m)
    PROVE  RaceInv'
  <1> DEFINE num == lastAcceptedProposalNumber[n]
             msg == addMessage("ACCEPTED", num, num, lastAcceptedValue[n])
  <1>1. /\ at[n][m] = "accepted" /\ Send(n, m, msg) /\ Done(n, m)
        /\ UNCHANGED <<Untouched, shared, pc, state, leaderClusterMember, knownOnline, pledges,
                       votes>>
    BY DEF SendAccepted, At
  <1>2. Gentle(n) /\ UNCHANGED acceptedRecieved
    BY <1>1, QuietIsGentle DEF RaceInv, QuorumInv, Inv, LocalInv, VarTypes
  <1>3. num # 0 /\ <<n, hand[n][m].num>> \in votes
    BY <1>1 DEF RaceInv, HandsOK, HandOK, ChecksHold
  <1>4. num \in Nat /\ num > 0 /\ lastAcceptedValue[n] \in Node \union {0}
    BY <1>3 DEF RaceInv, QuorumInv, Inv, LocalInv, VarTypes
  <1>5. lastAcceptedValue[n] \in Node => elections'[lastAcceptedValue[n]] > 0
    BY <1>1 DEF RaceInv, QuorumInv, Inv, LocalInv, ValuesOK, Stood
  <1>6. msg \in OkMessage(n)' /\ msg.type = Answer
    <2>1. "ACCEPTED" \in MessageType \ {"ACCEPT_REQUESTED"}
      BY DEF MessageType
    <2> QED
      BY <1>4, <1>5, <2>1, MayBeSent DEF addMessage, Answer
  <1>7. /\ n # m /\ hand[n][m].type = Request
        /\ hand[n][m] \in OkExchange(m, n) /\ hand[n][m] \in OkMessage(m)
    BY <1>1, TypeOfStep, StepSets DEF MessageType, Request, GoodHand
  <1>8. ~Fresh(m) /\ hand[n][m].num = internalProposalNumber[m]
    BY <1>7 DEF OkExchange, OkMessage, Request
  <1>9. ~Fresh(m)' /\ <<n, internalProposalNumber[m]>>' \in votes'
    BY <1>2, <1>3, <1>8, GentleGrows DEF RaceInv, Lasting, Stable
  <1> HIDE DEF msg
  <1>10. msg \in OkExchange(n, m)'
    BY <1>6, <1>9 DEF OkExchange, OkMessage, Request, Answer
  <1>11. msg.type # Request
    BY <1>6 DEF Request, Answer
  <1> QED
    BY <1>1, <1>2, <1>6, <1>7, <1>10, <1>11, AnswerStep

LEMMA HandleRace ==
    ASSUME RaceInv, NEW n \in Node, NEW m \in Node, Handle(n, m)
    PROVE  RaceInv'
  BY TakeRace, CheckPrepareRace, RaiseRace, ReadVoteRace, SendPromiseRace, CheckPromiseRace,
    ReadPromisesRace, CountPromiseRace, CheckVoteRace, AdoptNumberRace, AdoptValueRace,
    CheckAcceptRace, AcceptNumberRace, AcceptValueRace, SendAcceptedRace, CheckAcceptedRace,
    ReadAcceptedRace, CountAcceptedRace, InstallLeaderRace, CompleteRace DEF Handle

-----------------------------------------------------------------------------
(* The theorems *)

LEMMA InitRace == RaceInit => RaceInv
  <1> SUFFICES ASSUME RaceInit PROVE RaceInv
    OBVIOUS
  <1>1. QuorumInv
    BY InitQuorum DEF RaceInit
  <1>2. \A n, m \in Node :
            at[n][m] = "idle" /\ hand[n][m] = NoMessage /\ seen[n][m] = Nothing
    BY DEF RaceInit
  <1>3. RaceTypes
    <2>1. "idle" \in Step /\ Nothing \in [num : Nat, val : Node \union {0}]
      BY DEF Step, Nothing
    <2> QED
      BY <2>1 DEF RaceInit, RaceTypes
  <1>4. HandsOK
    BY <1>2 DEF HandsOK, HandOK
  <1>5. \A a, b \in Node : \A type \in {Request, Answer} : ~Pending(a, b, type)
    <2>1. NoMessage.type # Request /\ NoMessage.type # Answer
      BY DEF NoMessage, Request, Answer
    <2>2. \A a, b \in Node : chan[a][b] = <<>>
      BY DEF RaceInit, Init
    <2> QED
      BY <1>2, <2>1, <2>2 DEF Pending, Carries
  <1>6. PairsOK
    BY <1>5 DEF PairsOK, Pending
  <1>7. ASSUME NEW n \in Node
        PROVE  CountBacked(n)
    <2>1. acceptedRecieved[n] = 0 /\ Self(n) = 1
      BY DEF RaceInit, Init, Self
    <2>2. CountsUpTo(n, {})
      BY <1>2, <2>1, FS_EmptySet DEF CountsUpTo
    <2> QED
      BY <2>2 DEF CountBacked
  <1> QED
    BY <1>1, <1>3, <1>4, <1>6, <1>7 DEF RaceInv, RaceCountOK

LEMMA StutterRace ==
    ASSUME RaceInv, UNCHANGED allVars
    PROVE  RaceInv'
  <1>1. UNCHANGED vars /\ UNCHANGED <<at, hand, seen>>
    BY DEF allVars, raceVars
  <1>2. QuorumInv'
    BY <1>1, StutterQuorum DEF RaceInv
  <1>3. UNCHANGED <<chan, pc, votes, pledges, elections, internalProposalNumber, lastPromised,
                    lastAcceptedProposalNumber, acceptedRecieved>>
    BY <1>1 DEF vars
  <1>4. Lasting
    BY <1>3 DEF Lasting, Stable, Fresh, AcceptPhaseBegun, Self
  <1>5. HandsOK'
    BY <1>1, <1>4, HandStays DEF RaceInv, HandsOK
  <1>6. RaceTypes' /\ PairsOK'
    BY <1>1, <1>3 DEF RaceInv, RaceTypes, PairsOK, Pending
  <1>7. RaceCountOK'
    <2>1. \A a, b \in Node : Undisturbed(a, b) /\ ReadBefore(a)
      BY <1>1, <1>3 DEF Undisturbed, Pending, ReadBefore
    <2>2. \A k \in Node : CountKept(k)
      BY <1>3 DEF CountKept, Self
    <2>3. VarTypes'
      BY <1>2 DEF QuorumInv, Inv, LocalInv
    <2> QED
      BY <1>4, <1>6, <2>1, <2>2, <2>3, CountStays DEF RaceInv, RaceCountOK
  <1> QED
    BY <1>2, <1>5, <1>6, <1>7 DEF RaceInv

LEMMA NextRace == RaceInv /\ [RaceNext]_allVars => RaceInv'
  <1> SUFFICES ASSUME RaceInv, [RaceNext]_allVars PROVE RaceInv'
    OBVIOUS
  <1> QED
    BY MainRace, ReceiverRace, HandleRace, StutterRace DEF RaceNext, MainThread, ReceiverThread

\* The invariant about hands, pairs and counts holds in every reachable state, whatever
\* nodes have receivers that overlap.
THEOREM RaceInvariance == RaceSpec => []RaceInv
  BY InitRace, NextRace, PTL DEF RaceSpec

\* Fields, messages and what receivers hold keep their types: what is read a second time
\* and sent is still never the number 0, and who is in processMessage has a message.
THEOREM RaceTypeCorrect == RaceSpec => []RaceTypeOK
  <1>1. RaceInv => RaceTypeOK
    <2> SUFFICES ASSUME RaceInv PROVE RaceTypeOK
      OBVIOUS
    <2>1. TypeOK
      BY DEF RaceInv, QuorumInv, Inv, LocalInv, VarTypes, Streams, TypeOK
    <2>2. \A n, m \in Node :
              hand[n][m] \in IF at[n][m] = "idle" THEN {NoMessage} ELSE Message
      BY DEF RaceInv, HandsOK, HandOK, GoodHand, OkMessage
    <2> QED
      BY <2>1, <2>2 DEF RaceTypeOK, RaceInv, RaceTypes
  <1> QED
    BY <1>1, RaceInvariance, PTL

\* A majority has accepted what a proposer announces, also where receivers overlap in
\* processMessage: an increment that is taken back makes a count too low, never too high.
THEOREM RaceCommitBacked == RaceSpec => []CommitBackedByMajority
  <1>1. RaceInv => CommitBackedByMajority
    BY DEF RaceInv, QuorumInv, FieldsOK, CommitsOK, Backers, CommitBackedByMajority
  <1> QED
    BY <1>1, RaceInvariance, PTL

\* The acceptors still accept at most one of the numbers a node makes, although the two
\* halves of a vote and the check of the promise before it are steps of their own.
THEOREM RaceOneNumber == RaceSpec => []OneNumberPerProposer
  <1>1. RaceInv => OneNumberPerProposer
    BY DEF RaceInv, QuorumInv, Inv, VotesOK, OneNumberPerProposer
  <1> QED
    BY <1>1, RaceInvariance, PTL

\* And where leaderElection reports OK a leader is known.
THEOREM RaceLeaderIsKnown == RaceSpec => []OkMeansLeaderKnown
  <1>1. RaceInv => OkMeansLeaderKnown
    BY DEF RaceInv, QuorumInv, Inv, LocalInv, VarTypes, FieldsOK, StatusOK, OkMeansLeaderKnown
  <1> QED
    BY <1>1, RaceInvariance, PTL

\* Halves of a vote and of a promise are one step of the abstract specification each:
\* what it sees is when a number is stored.
LEMMA HandleImplements ==
    ASSUME RaceInv, NEW n \in Node, NEW m \in Node, Handle(n, m)
    PROVE  [QC!Next]_historyVars
  <1>1. CASE Raise(n, m)
    <2>1. hand[n][m].num \in Number
      <3>1. at[n][m] = "raise"
        BY <1>1 DEF Raise, At
      <3>2. hand[n][m].type = "PREPARE" /\ hand[n][m] \in OkExchange(m, n)
        BY <3>1, TypeOfStep, StepSets DEF MessageType, GoodHand
      <3> QED
        BY <3>2 DEF OkExchange
    <2>2. QC!Pledge(n, hand[n][m].num)
      BY <1>1 DEF Raise, QC!Pledge
    <2> QED
      BY <2>1, <2>2 DEF QC!Next
  <1>2. CASE AcceptNumber(n, m)
    <2>1. <<n, hand[n][m].num>> \in pledges
      BY <1>2 DEF AcceptNumber, At, RaceInv, HandsOK, HandOK, ChecksHold
    <2>2. hand[n][m].num \in Number
      BY <2>1 DEF RaceInv, QuorumInv, FieldsOK, NumbersOK
    <2>3. QC!Vote(n, hand[n][m].num)
      BY <1>2, <2>1 DEF AcceptNumber, QC!Vote
    <2> QED
      BY <2>2, <2>3 DEF QC!Next
  <1>3. CASE ~Raise(n, m) /\ ~AcceptNumber(n, m)
    <2>1. UNCHANGED historyVars
      BY <1>3 DEF Handle, Take, CheckPrepare, ReadVote, SendPromise, CheckPromise, ReadPromises,
        CountPromise, CheckVote, AdoptNumber, AdoptValue, CheckAccept, AcceptValue,
        SendAccepted, CheckAccepted, ReadAccepted, CountAccepted, InstallLeader, Complete
    <2> QED
      BY <2>1
  <1> QED
    BY <1>1, <1>2, <1>3

LEMMA RaceStepImplements ==
    ASSUME RaceInv, [RaceNext]_allVars
    PROVE  [QC!Next]_historyVars
  <1>1. QuorumInv
    BY DEF RaceInv
  <1>2. ASSUME NEW n \in Node, NEW m \in Node, Handle(n, m)
        PROVE  [QC!Next]_historyVars
    BY <1>2, HandleImplements
  <1>3. CASE [Next]_vars
    BY <1>1, <1>3, NextImplements
  <1> QED
    BY <1>2, <1>3 DEF RaceNext, MainThread, ReceiverThread, Next, allVars

\* The election implements QuorumCommit also with receivers that overlap: a promise
\* that one of them takes back was given all the same, and QuorumCommit, which does not
\* forbid to accept less than one promised, is all that is left of the protocol.
THEOREM RaceImplements == RaceSpec => ImplementsQuorumCommit
  <1>1. RaceInv /\ [RaceNext]_allVars => [QC!Next]_<<pledges, votes, commits>>
    BY RaceStepImplements DEF historyVars
  <1>2. RaceInit => QC!Init
    BY InitImplements DEF RaceInit
  <1> QED
    BY <1>1, <1>2, RaceInvariance, PTL DEF RaceSpec, ImplementsQuorumCommit, QC!Spec

=============================================================================
