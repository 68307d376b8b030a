------------------------- MODULE PaxosQuorum_proofs -------------------------
(***************************************************************************)
(* What stands behind an announcement of PaxosElection: the answers that a *)
(* proposer counts are votes of different members for its one number, so   *)
(* the election implements QuorumCommit, for every cluster.                *)
(***************************************************************************)
EXTENDS PaxosElection_proofs

-----------------------------------------------------------------------------
(* Sequences of messages by type *)

Request == "ACCEPT_REQUESTED"
Answer  == "ACCEPTED"

Carries(s, t) == \E i \in 1..Len(s) : s[i].type = t

AtMostOne(s, t) == \A i, j \in 1..Len(s) : s[i].type = t /\ s[j].type = t => i = j

LEMMA AppendCarries ==
    ASSUME NEW S, NEW s \in Seq(S), NEW msg \in S, NEW t
    PROVE  /\ Append(s, msg) \in Seq(S)
           /\ Carries(Append(s, msg), t) <=> Carries(s, t) \/ msg.type = t
           /\ AtMostOne(s, t) /\ (msg.type = t => ~Carries(s, t)) => AtMostOne(Append(s, msg), t)
  BY DEF Carries, AtMostOne

LEMMA TailCarries ==
    ASSUME NEW S, NEW s \in Seq(S), s # <<>>, NEW t
    PROVE  /\ Tail(s) \in Seq(S)
           /\ Head(s) \in S
           /\ Carries(Tail(s), t) => Carries(s, t)
           /\ Head(s).type = t => Carries(s, t)
           /\ AtMostOne(s, t) => AtMostOne(Tail(s), t)
           /\ AtMostOne(s, t) /\ Head(s).type = t => ~Carries(Tail(s), t)
  BY DEF Carries, AtMostOne

\* An answer changes the two streams between two different members only.
LEMMA ReplyStreams ==
    ASSUME chan \in Streams, NEW n \in Node, NEW m \in Node, n # m,
           NEW msg, Reply(n, m, msg)
    PROVE  /\ chan'[m][n] = Tail(chan[m][n])
           /\ chan'[n][m] \in {chan[n][m], Append(chan[n][m], msg)}
           /\ \A a, b \in Node : ~(a = m /\ b = n) /\ ~(a = n /\ b = m) =>
                  chan'[a][b] = chan[a][b]
  <1> DEFINE popped == [chan EXCEPT ![m][n] = Tail(@)]
  <1>1. \A a \in Node : DOMAIN chan[a] = Node /\ DOMAIN popped[a] = Node
    BY DEF Streams
  <1>2. \A a, b \in Node : popped[a][b] =
            IF a = m /\ b = n THEN Tail(chan[a][b]) ELSE chan[a][b]
    BY DEF Streams
  <1>3. DOMAIN popped = Node
    BY DEF Streams
  <1>4. chan' = popped \/ chan' = [popped EXCEPT ![n][m] = Append(@, msg)]
    BY DEF Reply
  <1> HIDE DEF popped
  <1>5. \A a, b \in Node :
            \/ chan'[a][b] = popped[a][b]
            \/ a = n /\ b = m /\ chan'[a][b] = Append(popped[a][b], msg)
    BY <1>1, <1>3, <1>4
  <1>6. chan'[m][n] = popped[m][n]
    BY <1>5
  <1>7. chan'[n][m] = popped[n][m] \/ chan'[n][m] = Append(popped[n][m], msg)
    BY <1>5
  <1>8. \A a, b \in Node : ~(a = n /\ b = m) => chan'[a][b] = popped[a][b]
    BY <1>5
  <1> QED
    BY <1>2, <1>6, <1>7, <1>8

-----------------------------------------------------------------------------
(* The part of the invariant that is about requests and answers *)

\* The node has not sent accept requests yet.
Fresh(n) == pc[n] \in {"prepare", "promiseSelf", "waitPromise"} \/ ~AcceptPhaseBegun(n)

\* What may be in the stream from a to b: PREPAREs with a number that the bound on
\* elections lets a node make, requests of an a that has got that far, and answers
\* that b asked for, each the vote of a for b's number.
OkExchange(a, b) ==
    {msg \in Message :
        /\ msg.type = "PREPARE" => msg.num \in Number
        /\ msg.type = Request => ~Fresh(a)
        /\ msg.type = Answer =>
              /\ ~Fresh(b)
              /\ <<a, internalProposalNumber[b]>> \in votes}

\* Of a request to b and the answer to it there is at most one in the streams.
ExchangeOK ==
    \A a, b \in Node :
        /\ chan[a][b] \in Seq(OkExchange(a, b))
        /\ AtMostOne(chan[a][b], Request) /\ AtMostOne(chan[a][b], Answer)
        /\ ~(Carries(chan[a][b], Request) /\ Carries(chan[b][a], Answer))
        /\ a = b => chan[a][b] = <<>>

\* The proposer counts itself, from AcceptSelf on ...
Self(n) == IF pc[n] = "acceptSelf" THEN 0 ELSE 1

\* ... and members that voted for its number and have nothing more to say to that.
CountedFrom(n, S) ==
    /\ acceptedRecieved[n] <= Cardinality(S) + Self(n)
    /\ \A m \in S : /\ <<m, internalProposalNumber[n]>> \in votes
                    /\ ~Carries(chan[n][m], Request)
                    /\ ~Carries(chan[m][n], Answer)

CountOK ==
    \A n \in Node :
        /\ Fresh(n) => acceptedRecieved[n] = 0
        /\ \E S \in SUBSET (Node \ {n}) : CountedFrom(n, S)

\* What no step takes back.
Stable ==
    /\ votes \subseteq votes'
    /\ \A n \in Node : ~Fresh(n) => /\ ~Fresh(n)'
                                    /\ internalProposalNumber'[n] = internalProposalNumber[n]

-----------------------------------------------------------------------------
(* Steps that send neither requests nor answers *)

Calm(a, b) ==
    \A t \in {Request, Answer} :
        /\ Carries(chan'[a][b], t) => Carries(chan[a][b], t)
        /\ AtMostOne(chan[a][b], t) => AtMostOne(chan'[a][b], t)

CountKept(n) ==
    \/ acceptedRecieved'[n] = 0
    \/ acceptedRecieved'[n] = acceptedRecieved[n] /\ Self(n) <= Self(n)'
    \/ ~Fresh(n)' /\ acceptedRecieved'[n] + Self(n) <= acceptedRecieved[n] + Self(n)'

LEMMA OkExchangeGrows ==
    ASSUME Stable, NEW a \in Node, NEW b \in Node
    PROVE  OkExchange(a, b) \subseteq OkExchange(a, b)'
  BY DEF Stable, OkExchange

\* A step under which all streams stay calm keeps the invariant.
LEMMA CalmStep ==
    ASSUME VarTypes, VarTypes', ExchangeOK, CountOK, Stable,
           \A a, b \in Node : /\ chan'[a][b] \in Seq(OkExchange(a, b)')
                              /\ Calm(a, b)
                              /\ a = b => chan'[a][b] = <<>>,
           \A n \in Node : CountKept(n)
    PROVE  ExchangeOK' /\ CountOK'
  <1>1. ExchangeOK'
    BY DEF ExchangeOK, Calm
  <1>2. ASSUME NEW n \in Node
        PROVE  /\ Fresh(n)' => acceptedRecieved'[n] = 0
               /\ \E S \in SUBSET (Node \ {n}) : CountedFrom(n, S)'
    <2>0. acceptedRecieved[n] \in Nat /\ acceptedRecieved'[n] \in Nat
      BY DEF VarTypes
    <2>1. Fresh(n)' => acceptedRecieved'[n] = 0
      BY DEF CountKept, CountOK, Stable
    <2>2. CASE acceptedRecieved'[n] = 0
      <3>1. CountedFrom(n, {})'
        BY <2>2, FS_EmptySet DEF CountedFrom, Self
      <3> QED
        BY <2>1, <3>1
    <2>3. CASE ~Fresh(n)' /\ acceptedRecieved'[n] # 0
      <3>1. PICK S \in SUBSET (Node \ {n}) : CountedFrom(n, S)
        BY DEF CountOK
      <3>2. CASE Fresh(n)
        <4>1. acceptedRecieved'[n] <= 1 /\ Self(n)' = 1
          BY <2>0, <2>3, <3>2 DEF CountKept, CountOK, Self
        <4>2. CountedFrom(n, {})'
          BY <4>1, FS_EmptySet DEF CountedFrom
        <4> QED
          BY <2>1, <4>2
      <3>3. CASE ~Fresh(n)
        <4>1. Cardinality(S) \in Nat
          BY NodeAssumption, FS_Subset, FS_CardinalityType
        <4>2. acceptedRecieved'[n] <= Cardinality(S) + Self(n)'
          BY <2>0, <2>3, <3>1, <4>1 DEF CountKept, CountedFrom, Self
        <4>3. CountedFrom(n, S)'
          BY <3>1, <3>3, <4>2 DEF CountedFrom, Calm, Stable
        <4> QED
          BY <2>1, <4>3
      <3> QED
        BY <3>2, <3>3
    <2> QED
      BY <2>1, <2>2, <2>3
  <1> QED
    BY <1>1, <1>2 DEF CountOK

-----------------------------------------------------------------------------
(* The rest of the invariant *)

\* What a node promised or accepted is on record, and nothing is accepted that was
\* not promised.
PledgesOK ==
    /\ \A n \in Node :
          /\ lastPromised[n] # 0 => <<n, lastPromised[n]>> \in pledges
          /\ pc[n] \in {"waitPromise", "acceptSelf", "waitAccept"} =>
                <<n, internalProposalNumber[n]>> \in pledges
    /\ votes \subseteq pledges

Proposing == {"prepare", "promiseSelf", "waitPromise", "acceptSelf", "waitAccept"}

\* A proposer works with a full quorum of participants.
QuorumOK ==
    \A n \in Node : pc[n] \in Proposing => Cardinality(participatingMembers[n]) >= Quorum

\* The attempts that a leaderElection call has not made yet.
AttemptsLeft(n) ==
    IF pc[n] = "loop" THEN retryCount[n]
    ELSE IF pc[n] \in Executing \union {"failed"} THEN retryCount[n] - 1
    ELSE 0

\* The counter runs ahead of neither the attempts nor the calls that were made.
CounterOK(n) ==
    /\ elections[n] <= MaxElections
    /\ paxosProposalNumber[n] >= 88
    /\ paxosProposalNumber[n] + AttemptsLeft(n) <= 88 + RetryCountLE * elections[n]

\* So all numbers are within the bound on elections.
NumbersOK ==
    /\ \A n \in Node : CounterOK(n)
    /\ \A n \in Node : pc[n] \in Executing => internalProposalNumber[n] \in Number
    /\ pledges \subseteq Node \X Number

\* Success is reported by nodes with a leader; only recycled memory has a wild one.
StatusOK ==
    \A n \in Node :
        /\ status[n] = "ok" => leaderClusterMember[n] # NoLeader
        /\ n \notin Recycled => leaderClusterMember[n] # WildLeader

Backers(c) == {a \in Node : /\ <<a, c.num>> \in pledges
                            /\ <<a, c.num>> \in votes \/ a = c.by}

\* Who has announced a result has a quorum behind it and does not propose again.
CommitsOK ==
    \A c \in commits :
        /\ c.num % UidSpan = c.by
        /\ lastAcceptedProposalNumber[c.by] # 0
        /\ pc[c.by] \notin Proposing
        /\ IsMajority(Backers(c))

FieldsOK == PledgesOK /\ QuorumOK /\ NumbersOK /\ StatusOK /\ CommitsOK

QuorumInv == Inv /\ FieldsOK /\ ExchangeOK /\ CountOK

-----------------------------------------------------------------------------
(* Steps and the parts of the invariant *)

\* What a step owes to the streams and the counts.
Kept == Stable /\ \A n \in Node : CountKept(n)

\* A step that leaves the streams alone ...
LEMMA QuietStep ==
    ASSUME VarTypes, VarTypes', ExchangeOK, CountOK, Kept, UNCHANGED chan
    PROVE  ExchangeOK' /\ CountOK'
  <1>1. ASSUME NEW a \in Node, NEW b \in Node
        PROVE  /\ chan'[a][b] \in Seq(OkExchange(a, b)')
               /\ Calm(a, b)
               /\ a = b => chan'[a][b] = <<>>
    <2>1. chan[a][b] \in Seq(OkExchange(a, b)')
      BY OkExchangeGrows, SeqMonotone DEF ExchangeOK, Kept
    <2> QED
      BY <2>1 DEF ExchangeOK, Calm
  <1> QED
    BY <1>1, CalmStep DEF Kept

\* What is neither a request nor an answer and, as a PREPARE, is within the bound.
Harmless(msg) ==
    /\ msg \in Message
    /\ msg.type \notin {Request, Answer}
    /\ msg.type = "PREPARE" => msg.num \in Number

\* ... or sends other members something harmless ...
LEMMA SendStep ==
    ASSUME VarTypes, VarTypes', chan \in Streams, ExchangeOK, CountOK, Kept,
           NEW n \in Node, NEW T, n \notin T,
           NEW msg, Harmless(msg), SendTo(n, T, msg)
    PROVE  ExchangeOK' /\ CountOK'
  <1>1. ASSUME NEW a \in Node, NEW b \in Node
        PROVE  /\ chan'[a][b] \in Seq(OkExchange(a, b)')
               /\ Calm(a, b)
               /\ a = b => chan'[a][b] = <<>>
    <2>1. chan[a][b] \in Seq(OkExchange(a, b)')
      BY OkExchangeGrows, SeqMonotone DEF ExchangeOK, Kept
    <2>2. chan'[a][b] = IF a = n /\ b \in T THEN Append(chan[a][b], msg) ELSE chan[a][b]
      BY DEF SendTo, Streams
    <2>3. CASE a = n /\ b \in T
      <3>1. msg \in OkExchange(a, b)'
        BY DEF Harmless, OkExchange
      <3>2. chan'[a][b] \in Seq(OkExchange(a, b)')
        BY <2>1, <2>2, <2>3, <3>1, AppendCarries
      <3>3. Calm(a, b)
        BY <2>1, <2>2, <2>3, <3>1, AppendCarries DEF Harmless, Calm
      <3> QED
        BY <2>3, <3>2, <3>3
    <2>4. CASE ~(a = n /\ b \in T)
      BY <2>1, <2>2, <2>4 DEF ExchangeOK, Calm
    <2> QED
      BY <2>3, <2>4
  <1> QED
    BY <1>1, CalmStep DEF Kept

\* ... or takes a message off a stream ...
LEMMA ConsumeStep ==
    ASSUME VarTypes, VarTypes', chan \in Streams, ExchangeOK, CountOK, Kept,
           NEW n \in Node, NEW m \in Node, chan[m][n] # <<>>, Consume(n, m)
    PROVE  ExchangeOK' /\ CountOK'
  <1>1. ASSUME NEW a \in Node, NEW b \in Node
        PROVE  /\ chan'[a][b] \in Seq(OkExchange(a, b)')
               /\ Calm(a, b)
               /\ a = b => chan'[a][b] = <<>>
    <2>1. chan[a][b] \in Seq(OkExchange(a, b)')
      BY OkExchangeGrows, SeqMonotone DEF ExchangeOK, Kept
    <2>2. chan'[a][b] = IF a = m /\ b = n THEN Tail(chan[a][b]) ELSE chan[a][b]
      BY DEF Consume, Streams
    <2>3. CASE a = m /\ b = n
      BY <2>1, <2>2, <2>3, TailCarries DEF ExchangeOK, Calm
    <2>4. CASE ~(a = m /\ b = n)
      BY <2>1, <2>2, <2>4 DEF ExchangeOK, Calm
    <2> QED
      BY <2>3, <2>4
  <1> QED
    BY <1>1, CalmStep DEF Kept

\* ... and answers it with something harmless, keeps the invariant.
LEMMA ReplyStep ==
    ASSUME VarTypes, VarTypes', chan \in Streams, ExchangeOK, CountOK, Kept,
           NEW n \in Node, NEW m \in Node, chan[m][n] # <<>>,
           NEW msg, Harmless(msg), Reply(n, m, msg)
    PROVE  ExchangeOK' /\ CountOK'
  <1>1. n # m
    BY DEF ExchangeOK
  <1>2. ASSUME NEW a \in Node, NEW b \in Node
        PROVE  /\ chan'[a][b] \in Seq(OkExchange(a, b)')
               /\ Calm(a, b)
               /\ a = b => chan'[a][b] = <<>>
    <2>1. chan[a][b] \in Seq(OkExchange(a, b)')
      BY OkExchangeGrows, SeqMonotone DEF ExchangeOK, Kept
    <2>2. \/ chan'[a][b] = chan[a][b]
          \/ a = m /\ b = n /\ chan'[a][b] = Tail(chan[a][b])
          \/ a = n /\ b = m /\ chan'[a][b] = Append(chan[a][b], msg)
      BY <1>1, ReplyStreams
    <2>3. CASE chan'[a][b] = chan[a][b]
      BY <2>1, <2>3 DEF ExchangeOK, Calm
    <2>4. CASE a = m /\ b = n /\ chan'[a][b] = Tail(chan[a][b])
      BY <1>1, <2>1, <2>4, TailCarries DEF Calm
    <2>5. CASE a = n /\ b = m /\ chan'[a][b] = Append(chan[a][b], msg)
      <3>1. msg \in OkExchange(a, b)'
        BY DEF Harmless, OkExchange
      <3> QED
        BY <1>1, <2>1, <2>5, <3>1, AppendCarries DEF Harmless, Calm
    <2> QED
      BY <2>2, <2>3, <2>4, <2>5
  <1> QED
    BY <1>2, CalmStep DEF Kept

-----------------------------------------------------------------------------
(* Lemmas about the parts of the invariant *)

\* A quorum is a majority.
LEMMA QuorumIsMajority ==
    ASSUME NEW S \in SUBSET Node, Cardinality(S) >= Quorum
    PROVE  IsMajority(S)
  <1>1. Cardinality(S) \in Nat /\ Cardinality(Node) \in Nat
    BY NodeAssumption, FS_Subset, FS_CardinalityType
  <1> QED
    BY <1>1 DEF Quorum, IsMajority

\* An announcement keeps its backers.
LEMMA BackersStay ==
    ASSUME NEW c, pledges \subseteq pledges', votes \subseteq votes', IsMajority(Backers(c))
    PROVE  IsMajority(Backers(c))'
  <1>1. Backers(c) \subseteq Backers(c)' /\ Backers(c)' \subseteq Node
    BY DEF Backers
  <1>2. IsFiniteSet(Backers(c)')
    BY <1>1, NodeAssumption, FS_Subset
  <1>3. Cardinality(Backers(c)) <= Cardinality(Backers(c)')
    BY <1>1, <1>2, FS_Subset
  <1>4. /\ Cardinality(Backers(c)) \in Nat /\ Cardinality(Backers(c)') \in Nat
        /\ Cardinality(Node) \in Nat
    BY <1>1, <1>2, NodeAssumption, FS_Subset, FS_CardinalityType
  <1> QED
    BY <1>3, <1>4 DEF IsMajority

\* So a step that announces nothing need only leave the announcers done.
LEMMA CommitsStep ==
    ASSUME CommitsOK, UNCHANGED commits, pledges \subseteq pledges', votes \subseteq votes',
           \A c \in commits : lastAcceptedProposalNumber'[c.by] # 0 /\ pc'[c.by] \notin Proposing
    PROVE  CommitsOK'
  BY BackersStay DEF CommitsOK

\* More elections leave room for more numbers.
LEMMA RoomForNumbers ==
    ASSUME NEW e \in Nat
    PROVE  /\ RetryCountLE * e \in Nat
           /\ RetryCountLE * (e + 1) = RetryCountLE * e + RetryCountLE
           /\ e <= MaxElections => RetryCountLE * e <= RetryCountLE * MaxElections
  BY BoundsAssumption

-----------------------------------------------------------------------------
(* Every action keeps the fields, and what it owes to the streams *)

USE DEF mainVars, clusterVars, memoryVars, acceptorVars, proposerVars, historyVars

\* In leaderElection there is an attempt left, or the one that is being made.
LEMMA AttemptsLeftNat ==
    ASSUME Inv, NEW n \in Node
    PROVE  AttemptsLeft(n) \in Nat /\ RetryCountLE * elections[n] \in Nat
  BY BoundsAssumption DEF Inv, LocalInv, VarTypes, RetriesLeft, AttemptsLeft, Executing

\* A step of n that makes no more of its attempts than it uses up keeps the bound.
LEMMA CounterStep ==
    ASSUME Inv, NumbersOK, NEW n \in Node, UNCHANGED elections,
           \A k \in Node \ {n} : /\ pc'[k] = pc[k] /\ retryCount'[k] = retryCount[k]
                                 /\ paxosProposalNumber'[k] = paxosProposalNumber[k],
           paxosProposalNumber'[n] \in Nat, AttemptsLeft(n)' \in Nat,
           paxosProposalNumber'[n] >= 88,
           paxosProposalNumber'[n] + AttemptsLeft(n)' <= paxosProposalNumber[n] + AttemptsLeft(n)
    PROVE  \A k \in Node : CounterOK(k)'
  <1>1. ASSUME NEW k \in Node, k # n
        PROVE  CounterOK(k)'
    BY <1>1 DEF NumbersOK, CounterOK, AttemptsLeft
  <1>2. CounterOK(n)'
    <2> DEFINE room == 88 + RetryCountLE * elections[n]
    <2>1. /\ elections[n] <= MaxElections
          /\ paxosProposalNumber[n] + AttemptsLeft(n) <= room
      BY DEF NumbersOK, CounterOK
    <2>2. paxosProposalNumber[n] \in Nat /\ AttemptsLeft(n) \in Nat /\ room \in Nat
      BY AttemptsLeftNat DEF Inv, LocalInv, VarTypes
    <2>3. CounterOK(n)' <=> /\ elections[n] <= MaxElections
                            /\ paxosProposalNumber'[n] >= 88
                            /\ paxosProposalNumber'[n] + AttemptsLeft(n)' <= room
      BY DEF CounterOK
    <2> HIDE DEF room
    <2> QED
      BY <2>1, <2>2, <2>3
  <1> QED
    BY <1>1, <1>2

\* The number of an attempt is within the bound.
LEMMA ProposalNumberInBound ==
    ASSUME Inv, NumbersOK, NEW n \in Node, pc[n] = "loop"
    PROVE  NextNumber(n) \in Number
  <1> DEFINE c == paxosProposalNumber[n] + 1
             room == RetryCountLE * elections[n]
             all == RetryCountLE * MaxElections
  <1>1. AttemptsLeft(n) \in Nat /\ AttemptsLeft(n) > 0
    BY DEF Inv, LocalInv, VarTypes, RetriesLeft, AttemptsLeft
  <1>2. /\ paxosProposalNumber[n] \in Nat /\ paxosProposalNumber[n] >= 88
        /\ paxosProposalNumber[n] + AttemptsLeft(n) <= 88 + room
        /\ elections[n] \in Nat /\ elections[n] <= MaxElections
    BY DEF Inv, LocalInv, VarTypes, NumbersOK, CounterOK
  <1>3. room \in Nat /\ all \in Nat /\ room <= all
    BY <1>2, RoomForNumbers, BoundsAssumption
  <1>4. c \in 89..(88 + all)
    <2> HIDE DEF room, all
    <2> QED
      BY <1>1, <1>2, <1>3
  <1> QED
    BY <1>4 DEF NextNumber, Number

\* What becomes of the choice of participants: a full quorum, or a failure.
LEMMA SelectQuorumEffect ==
    ASSUME Inv, NEW n \in Node, SelectQuorum(n)
    PROVE  \/ /\ pc' = [pc EXCEPT ![n] = "failed"]
              /\ status' = [status EXCEPT ![n] = "insufficient"]
              /\ UNCHANGED participatingMembers
           \/ /\ pc' = [pc EXCEPT ![n] = "prepare"]
              /\ \E P \in SUBSET Node :
                    /\ Cardinality(P) >= Quorum
                    /\ participatingMembers' = [participatingMembers EXCEPT ![n] = P]
              /\ UNCHANGED status
  <1>1. PICK conn \in Connected(Node \ {n}) :
          \E P \in Selections(n, conn \union knownOnline[n]) :
             IF Cardinality(P) < Quorum
             THEN /\ pc' = [pc EXCEPT ![n] = "failed"]
                  /\ status' = [status EXCEPT ![n] = "insufficient"]
                  /\ UNCHANGED participatingMembers
             ELSE /\ pc' = [pc EXCEPT ![n] = "prepare"]
                  /\ participatingMembers' = [participatingMembers EXCEPT ![n] = P]
                  /\ UNCHANGED status
    BY DEF SelectQuorum
  <1>2. PICK P \in Selections(n, conn \union knownOnline[n]) :
             IF Cardinality(P) < Quorum
             THEN /\ pc' = [pc EXCEPT ![n] = "failed"]
                  /\ status' = [status EXCEPT ![n] = "insufficient"]
                  /\ UNCHANGED participatingMembers
             ELSE /\ pc' = [pc EXCEPT ![n] = "prepare"]
                  /\ participatingMembers' = [participatingMembers EXCEPT ![n] = P]
                  /\ UNCHANGED status
    BY <1>1
  <1>3. P \in SUBSET Node
    BY DEF Selections, Connected, Inv, LocalInv, VarTypes
  <1>4. Cardinality(P) \in Nat /\ Cardinality(Node) \in Nat
    BY <1>3, NodeAssumption, FS_Subset, FS_CardinalityType
  <1>5. Cardinality(P) < Quorum \/ Cardinality(P) >= Quorum
    BY <1>4 DEF Quorum
  <1> QED
    BY <1>2, <1>3, <1>5

\* setLeader never takes a leader away.
LEMMA LeaderStays ==
    ASSUME Inv, StatusOK, NEW n \in Node, NEW v, setLeader(n, v)
    PROVE  \A k \in Node : /\ leaderClusterMember'[k] \in {leaderClusterMember[k]} \union Node
                           /\ k # n => leaderClusterMember'[k] = leaderClusterMember[k]
  BY DEF Inv, LocalInv, VarTypes, setLeader, LeaderAfter

LEMMA LeaderElectionKeeps ==
    ASSUME Inv, FieldsOK, NEW n \in Node, LeaderElection(n)
    PROVE  Kept /\ FieldsOK'
  <1>1. Kept
    BY DEF Inv, LocalInv, VarTypes, LeaderElection, Kept, Stable, CountKept, Fresh,
      AcceptPhaseBegun, Self
  <1>2. PledgesOK' /\ QuorumOK'
    BY DEF Inv, LocalInv, VarTypes, FieldsOK, LeaderElection, PledgesOK, QuorumOK, Proposing
  <1>3. NumbersOK'
    <2>1. ASSUME NEW k \in Node, k # n
          PROVE  CounterOK(k)'
      BY <2>1 DEF Inv, LocalInv, VarTypes, FieldsOK, NumbersOK, CounterOK, LeaderElection,
        AttemptsLeft
    <2>2. CounterOK(n)'
      <3> DEFINE room == RetryCountLE * elections[n]
      <3>1. RetryCountLE * elections'[n] = room + RetryCountLE /\ room \in Nat
        BY RoomForNumbers DEF Inv, LocalInv, VarTypes, LeaderElection
      <3>2. AttemptsLeft(n) = 0 /\ AttemptsLeft(n)' = RetryCountLE
        BY DEF Inv, LocalInv, VarTypes, LeaderElection, AttemptsLeft, Executing
      <3>3. /\ paxosProposalNumber[n] \in Nat /\ paxosProposalNumber[n] >= 88
            /\ paxosProposalNumber[n] + AttemptsLeft(n) <= 88 + room
            /\ paxosProposalNumber'[n] = paxosProposalNumber[n]
        BY DEF Inv, LocalInv, VarTypes, FieldsOK, NumbersOK, CounterOK, LeaderElection
      <3>4. elections'[n] <= MaxElections
        BY BoundsAssumption DEF Inv, LocalInv, VarTypes, LeaderElection
      <3>5. paxosProposalNumber'[n] + AttemptsLeft(n)' <= 88 + RetryCountLE * elections'[n]
        <4> HIDE DEF room
        <4> QED
          BY <3>1, <3>2, <3>3, BoundsAssumption
      <3> QED
        BY <3>3, <3>4, <3>5 DEF CounterOK
    <2> QED
      BY <2>1, <2>2 DEF Inv, LocalInv, VarTypes, FieldsOK, NumbersOK, LeaderElection,
        Executing
  <1>4. StatusOK'
    BY NodeFacts DEF Inv, LocalInv, VarTypes, FieldsOK, LeaderElection, StatusOK
  <1>5. CommitsOK'
    BY CommitsStep DEF Inv, LocalInv, VarTypes, FieldsOK, LeaderElection, CommitsOK,
      Proposing
  <1> QED
    BY <1>1, <1>2, <1>3, <1>4, <1>5 DEF FieldsOK

LEMMA SoloLeaderKeeps ==
    ASSUME Inv, FieldsOK, NEW n \in Node, SoloLeader(n)
    PROVE  Kept /\ FieldsOK'
  <1>1. Kept
    BY DEF Inv, LocalInv, VarTypes, SoloLeader, Return, setLeader, LeaderAfter, Kept,
      Stable, CountKept, Fresh, AcceptPhaseBegun, Self
  <1>2. PledgesOK' /\ QuorumOK'
    BY DEF Inv, LocalInv, VarTypes, FieldsOK, SoloLeader, Return, setLeader, LeaderAfter,
      PledgesOK, QuorumOK, Proposing
  <1>3. NumbersOK'
    <2>1. \A k \in Node : CounterOK(k)'
      BY CounterStep, AttemptsLeftNat DEF Inv, LocalInv, VarTypes, FieldsOK, NumbersOK,
        CounterOK, SoloLeader, Return, setLeader, LeaderAfter, AttemptsLeft, Executing
    <2> QED
      BY <2>1 DEF Inv, LocalInv, VarTypes, FieldsOK, NumbersOK, SoloLeader, Return,
        setLeader, LeaderAfter, Executing
  <1>4. StatusOK'
    BY NodeFacts DEF Inv, LocalInv, VarTypes, FieldsOK, SoloLeader, Return, setLeader,
      LeaderAfter, StatusOK
  <1>5. CommitsOK'
    BY CommitsStep DEF Inv, LocalInv, VarTypes, FieldsOK, SoloLeader, Return, setLeader,
      LeaderAfter, CommitsOK, Proposing
  <1> QED
    BY <1>1, <1>2, <1>3, <1>4, <1>5 DEF FieldsOK

LEMMA RefuseKeeps ==
    ASSUME Inv, FieldsOK, NEW n \in Node, Refuse(n)
    PROVE  Kept /\ FieldsOK'
  <1>1. Kept
    BY DEF Inv, LocalInv, VarTypes, Refuse, TakeNumber, Kept, Stable, CountKept, Fresh,
      AcceptPhaseBegun, Self
  <1>2. PledgesOK' /\ QuorumOK'
    BY DEF Inv, LocalInv, VarTypes, FieldsOK, Refuse, TakeNumber, PledgesOK, QuorumOK,
      Proposing
  <1>3. NumbersOK'
    <2>1. \A k \in Node : CounterOK(k)'
      BY CounterStep, AttemptsLeftNat DEF Inv, LocalInv, VarTypes, FieldsOK, NumbersOK,
        CounterOK, Refuse, TakeNumber, AttemptsLeft, Executing
    <2> QED
      BY <2>1 DEF Inv, LocalInv, VarTypes, FieldsOK, NumbersOK, Refuse, TakeNumber,
        Executing
  <1>4. StatusOK'
    BY NodeFacts DEF Inv, LocalInv, VarTypes, FieldsOK, Refuse, TakeNumber,
      StatusOK
  <1>5. CommitsOK'
    BY CommitsStep DEF Inv, LocalInv, VarTypes, FieldsOK, Refuse, TakeNumber, CommitsOK,
      Proposing
  <1> QED
    BY <1>1, <1>2, <1>3, <1>4, <1>5 DEF FieldsOK

LEMMA SelectQuorumKeeps ==
    ASSUME Inv, FieldsOK, NEW n \in Node, SelectQuorum(n)
    PROVE  Kept /\ FieldsOK'
  <1>0. /\ \A k \in Node \ {n} : /\ pc'[k] = pc[k]
                                /\ participatingMembers'[k] = participatingMembers[k]
        /\ pc[n] = "loop" /\ pc'[n] \in {"failed", "prepare"}
        /\ lastAcceptedProposalNumber[n] = 0
        /\ internalProposalNumber' = [internalProposalNumber EXCEPT ![n] = NextNumber(n)]
        /\ pc'[n] = "prepare" => Cardinality(participatingMembers'[n]) >= Quorum
        /\ status'[n] = "ok" => status[n] = "ok"
        /\ \A k \in Node \ {n} : status'[k] = status[k]
        /\ UNCHANGED <<retryCount, elections, leaderClusterMember, memoryVars, acceptorVars,
                   state, promisesRecieved, acceptedRecieved, chan, historyVars>>
        /\ paxosProposalNumber' = [paxosProposalNumber EXCEPT ![n] = @ + 1]
    <2>1. /\ pc[n] = "loop" /\ lastAcceptedProposalNumber[n] = 0
          /\ internalProposalNumber' = [internalProposalNumber EXCEPT ![n] = NextNumber(n)]
          /\ paxosProposalNumber' = [paxosProposalNumber EXCEPT ![n] = @ + 1]
          /\ UNCHANGED <<retryCount, elections, leaderClusterMember, memoryVars, acceptorVars,
                         state, promisesRecieved, acceptedRecieved, chan, historyVars>>
      BY DEF SelectQuorum, TakeNumber, MayPropose
    <2>2. /\ \A k \in Node \ {n} : /\ pc'[k] = pc[k] /\ status'[k] = status[k]
                                   /\ participatingMembers'[k] = participatingMembers[k]
          /\ pc'[n] \in {"failed", "prepare"}
          /\ pc'[n] = "prepare" => Cardinality(participatingMembers'[n]) >= Quorum
          /\ status'[n] = "ok" => status[n] = "ok"
      BY SelectQuorumEffect DEF Inv, LocalInv, VarTypes
    <2> QED
      BY <2>1, <2>2
  <1>1. Stable
    BY <1>0 DEF Inv, LocalInv, VarTypes, Stable, Fresh, AcceptPhaseBegun
  <1>2. \A k \in Node : CountKept(k)
    BY <1>0 DEF CountKept, Self
  <1>3. PledgesOK'
    BY <1>0 DEF Inv, LocalInv, VarTypes, FieldsOK, PledgesOK
  <1>4. QuorumOK'
    BY <1>0 DEF FieldsOK, QuorumOK, Proposing
  <1>5. NumbersOK'
    <2>1. \A k \in Node : CounterOK(k)'
      BY <1>0, CounterStep, AttemptsLeftNat DEF Inv, LocalInv, VarTypes, FieldsOK,
        NumbersOK, CounterOK, AttemptsLeft, Executing
    <2>2. NextNumber(n) \in Number
      BY <1>0, ProposalNumberInBound DEF FieldsOK
    <2> QED
      BY <1>0, <2>1, <2>2 DEF Inv, LocalInv, VarTypes, FieldsOK, NumbersOK, Executing
  <1>6. StatusOK'
    BY <1>0, NodeFacts DEF FieldsOK, StatusOK
  <1>7. CommitsOK'
    BY <1>0, CommitsStep DEF Inv, LocalInv, VarTypes, FieldsOK, CommitsOK, Proposing
  <1> QED
    BY <1>1, <1>2, <1>3, <1>4, <1>5, <1>6, <1>7 DEF Kept, FieldsOK

LEMMA AlreadyCompletedKeeps ==
    ASSUME Inv, FieldsOK, NEW n \in Node, AlreadyCompleted(n)
    PROVE  Kept /\ FieldsOK'
  <1>1. Kept
    BY DEF Inv, LocalInv, VarTypes, AlreadyCompleted, Fail, Kept, Stable, CountKept, Fresh,
      AcceptPhaseBegun, Self
  <1>2. PledgesOK' /\ QuorumOK'
    BY DEF Inv, LocalInv, VarTypes, FieldsOK, AlreadyCompleted, Fail, PledgesOK, QuorumOK,
      Proposing
  <1>3. NumbersOK'
    BY DEF Inv, LocalInv, VarTypes, FieldsOK, AlreadyCompleted, Fail, NumbersOK, CounterOK,
      AttemptsLeft, Executing
  <1>4. StatusOK'
    BY NodeFacts DEF Inv, LocalInv, VarTypes, FieldsOK, AlreadyCompleted, Fail,
      StatusOK
  <1>5. CommitsOK'
    BY CommitsStep DEF Inv, LocalInv, VarTypes, FieldsOK, AlreadyCompleted, Fail, CommitsOK,
      Proposing
  <1> QED
    BY <1>1, <1>2, <1>3, <1>4, <1>5 DEF FieldsOK

LEMMA SendPrepareKeeps ==
    ASSUME Inv, FieldsOK, NEW n \in Node, SendPrepare(n)
    PROVE  Kept /\ FieldsOK'
  <1>0. pc[n] = "prepare" /\ pc' \in {[pc EXCEPT ![n] = "promiseSelf"], [pc EXCEPT ![n] = "crashed"]}
    BY SendersGoOn
  <1>1. Kept
    BY <1>0 DEF Inv, LocalInv, VarTypes, SendPrepare, Kept, Stable, CountKept, Fresh,
      AcceptPhaseBegun, Self
  <1>2. PledgesOK' /\ QuorumOK'
    BY <1>0 DEF Inv, LocalInv, VarTypes, FieldsOK, SendPrepare, PledgesOK, QuorumOK, Proposing
  <1>3. NumbersOK'
    <2>1. /\ UNCHANGED <<elections, retryCount, paxosProposalNumber, internalProposalNumber, pledges>>
          /\ \A k \in Node \ {n} : pc'[k] = pc[k]
          /\ pc[n] \in Executing /\ pc'[n] \in Executing \union {"crashed"}
      BY <1>0 DEF Inv, LocalInv, VarTypes, Executing, SendPrepare
    <2>2. AttemptsLeft(n)' \in Nat /\ AttemptsLeft(n)' <= AttemptsLeft(n)
      BY <2>1, AttemptsLeftNat DEF Executing, AttemptsLeft
    <2>3. /\ paxosProposalNumber[n] \in Nat /\ AttemptsLeft(n) \in Nat
          /\ paxosProposalNumber[n] >= 88
      BY AttemptsLeftNat DEF Inv, LocalInv, VarTypes, FieldsOK, NumbersOK, CounterOK
    <2>4. paxosProposalNumber'[n] + AttemptsLeft(n)' <= paxosProposalNumber[n] + AttemptsLeft(n)
      BY <2>1, <2>2, <2>3
    <2>5. \A k \in Node : CounterOK(k)'
      BY <2>1, <2>2, <2>3, <2>4, CounterStep DEF FieldsOK
    <2> QED
      BY <2>1, <2>5 DEF FieldsOK, NumbersOK, Executing
  <1>4. StatusOK'
    BY <1>0, NodeFacts DEF Inv, LocalInv, VarTypes, FieldsOK, SendPrepare, StatusOK
  <1>5. CommitsOK'
    BY <1>0, CommitsStep DEF Inv, LocalInv, VarTypes, FieldsOK, SendPrepare, CommitsOK, Proposing
  <1> QED
    BY <1>1, <1>2, <1>3, <1>4, <1>5 DEF FieldsOK

LEMMA PromiseSelfKeeps ==
    ASSUME Inv, FieldsOK, NEW n \in Node, PromiseSelf(n)
    PROVE  Kept /\ FieldsOK'
  <1>1. Kept
    BY DEF Inv, LocalInv, VarTypes, PromiseSelf, Kept, Stable, CountKept, Fresh,
      AcceptPhaseBegun, Self
  <1>2. PledgesOK' /\ QuorumOK'
    BY DEF Inv, LocalInv, VarTypes, FieldsOK, PromiseSelf, PledgesOK, QuorumOK, Proposing
  <1>3. NumbersOK'
    BY DEF Inv, LocalInv, VarTypes, FieldsOK, PromiseSelf, NumbersOK, CounterOK,
      AttemptsLeft, Executing
  <1>4. StatusOK'
    BY NodeFacts DEF Inv, LocalInv, VarTypes, FieldsOK, PromiseSelf, StatusOK
  <1>5. CommitsOK'
    BY CommitsStep DEF Inv, LocalInv, VarTypes, FieldsOK, PromiseSelf, CommitsOK, Proposing
  <1> QED
    BY <1>1, <1>2, <1>3, <1>4, <1>5 DEF FieldsOK

LEMMA PrepareTimeoutKeeps ==
    ASSUME Inv, FieldsOK, NEW n \in Node, PrepareTimeout(n)
    PROVE  Kept /\ FieldsOK'
  <1>1. Kept
    BY DEF Inv, LocalInv, VarTypes, PrepareTimeout, Fail, Kept, Stable, CountKept, Fresh,
      AcceptPhaseBegun, Self
  <1>2. PledgesOK' /\ QuorumOK'
    BY DEF Inv, LocalInv, VarTypes, FieldsOK, PrepareTimeout, Fail, PledgesOK, QuorumOK,
      Proposing
  <1>3. NumbersOK'
    BY DEF Inv, LocalInv, VarTypes, FieldsOK, PrepareTimeout, Fail, NumbersOK, CounterOK,
      AttemptsLeft, Executing
  <1>4. StatusOK'
    BY NodeFacts DEF Inv, LocalInv, VarTypes, FieldsOK, PrepareTimeout, Fail,
      StatusOK
  <1>5. CommitsOK'
    BY CommitsStep DEF Inv, LocalInv, VarTypes, FieldsOK, PrepareTimeout, Fail, CommitsOK,
      Proposing
  <1> QED
    BY <1>1, <1>2, <1>3, <1>4, <1>5 DEF FieldsOK

LEMMA RequestAcceptKeeps ==
    ASSUME Inv, FieldsOK, NEW n \in Node, RequestAccept(n)
    PROVE  Kept /\ FieldsOK'
  <1>0. pc[n] = "waitPromise" /\ pc' \in {[pc EXCEPT ![n] = "acceptSelf"], [pc EXCEPT ![n] = "crashed"]}
    BY SendersGoOn
  <1>1. Kept
    BY <1>0 DEF Inv, LocalInv, VarTypes, RequestAccept, Kept, Stable, CountKept, Fresh,
      AcceptPhaseBegun, Self
  <1>2. PledgesOK' /\ QuorumOK'
    BY <1>0 DEF Inv, LocalInv, VarTypes, FieldsOK, RequestAccept, PledgesOK, QuorumOK, Proposing
  <1>3. NumbersOK'
    <2>1. /\ UNCHANGED <<elections, retryCount, paxosProposalNumber, internalProposalNumber, pledges>>
          /\ \A k \in Node \ {n} : pc'[k] = pc[k]
          /\ pc[n] \in Executing /\ pc'[n] \in Executing \union {"crashed"}
      BY <1>0 DEF Inv, LocalInv, VarTypes, Executing, RequestAccept
    <2>2. AttemptsLeft(n)' \in Nat /\ AttemptsLeft(n)' <= AttemptsLeft(n)
      BY <2>1, AttemptsLeftNat DEF Executing, AttemptsLeft
    <2>3. /\ paxosProposalNumber[n] \in Nat /\ AttemptsLeft(n) \in Nat
          /\ paxosProposalNumber[n] >= 88
      BY AttemptsLeftNat DEF Inv, LocalInv, VarTypes, FieldsOK, NumbersOK, CounterOK
    <2>4. paxosProposalNumber'[n] + AttemptsLeft(n)' <= paxosProposalNumber[n] + AttemptsLeft(n)
      BY <2>1, <2>2, <2>3
    <2>5. \A k \in Node : CounterOK(k)'
      BY <2>1, <2>2, <2>3, <2>4, CounterStep DEF FieldsOK
    <2> QED
      BY <2>1, <2>5 DEF FieldsOK, NumbersOK, Executing
  <1>4. StatusOK'
    BY <1>0, NodeFacts DEF Inv, LocalInv, VarTypes, FieldsOK, RequestAccept, StatusOK
  <1>5. CommitsOK'
    BY <1>0, CommitsStep DEF Inv, LocalInv, VarTypes, FieldsOK, RequestAccept, CommitsOK,
      Proposing
  <1> QED
    BY <1>1, <1>2, <1>3, <1>4, <1>5 DEF FieldsOK

LEMMA AcceptSelfKeeps ==
    ASSUME Inv, FieldsOK, NEW n \in Node, AcceptSelf(n)
    PROVE  Kept /\ FieldsOK'
  <1> DEFINE p == internalProposalNumber[n]
  <1>0. /\ pc[n] = "acceptSelf" /\ pc' = [pc EXCEPT ![n] = "waitAccept"]
        /\ votes \subseteq votes' /\ votes' \subseteq votes \union {<<n, p>>}
        /\ p \in Nat /\ p > 0
        /\ \A k \in Node \ {n} : lastAcceptedProposalNumber'[k] = lastAcceptedProposalNumber[k]
        /\ lastAcceptedProposalNumber'[n] # 0
        /\ acceptedRecieved' = [acceptedRecieved EXCEPT ![n] = @ + 1]
        /\ UNCHANGED <<mainVars, clusterVars, memoryVars, lastPromised, promisesRecieved,
                       internalProposalNumber, participatingMembers, chan, pledges, commits>>
    <2>1. p \in Nat /\ p > 0
      BY OwnedIsPositive DEF Inv, LocalInv, VarTypes, OwnNumbers, Executing, AcceptSelf
    <2>2. CASE lastAcceptedProposalNumber[n] < p
      BY <2>1, <2>2 DEF Inv, LocalInv, VarTypes, AcceptSelf
    <2>3. CASE ~(lastAcceptedProposalNumber[n] < p)
      BY <2>1, <2>3 DEF Inv, LocalInv, VarTypes, AcceptSelf
    <2> QED
      BY <2>2, <2>3
  <1>1. Stable
    BY <1>0 DEF Inv, LocalInv, VarTypes, Stable, Fresh, AcceptPhaseBegun
  <1>2. \A k \in Node : CountKept(k)
    <2>1. ~Fresh(n)' /\ Self(n) = 0 /\ Self(n)' = 1
      BY <1>0 DEF Inv, LocalInv, VarTypes, Self, Fresh, AcceptPhaseBegun
    <2> QED
      BY <1>0, <2>1 DEF Inv, LocalInv, VarTypes, CountKept, Self
  <1>3. PledgesOK'
    BY <1>0 DEF Inv, LocalInv, VarTypes, FieldsOK, PledgesOK
  <1>4. QuorumOK'
    BY <1>0 DEF Inv, LocalInv, VarTypes, FieldsOK, QuorumOK, Proposing
  <1>5. NumbersOK'
    BY <1>0 DEF Inv, LocalInv, VarTypes, FieldsOK, NumbersOK, CounterOK, AttemptsLeft,
      Executing
  <1>6. StatusOK'
    BY <1>0 DEF FieldsOK, StatusOK
  <1>7. CommitsOK'
    BY <1>0, CommitsStep DEF Inv, LocalInv, VarTypes, FieldsOK, CommitsOK, Proposing
  <1> QED
    BY <1>1, <1>2, <1>3, <1>4, <1>5, <1>6, <1>7 DEF Kept, FieldsOK

LEMMA AcceptTimeoutKeeps ==
    ASSUME Inv, FieldsOK, NEW n \in Node, AcceptTimeout(n)
    PROVE  Kept /\ FieldsOK'
  <1>1. Kept
    BY DEF Inv, LocalInv, VarTypes, AcceptTimeout, Fail, Kept, Stable, CountKept, Fresh,
      AcceptPhaseBegun, Self
  <1>2. PledgesOK' /\ QuorumOK'
    BY DEF Inv, LocalInv, VarTypes, FieldsOK, AcceptTimeout, Fail, PledgesOK, QuorumOK,
      Proposing
  <1>3. NumbersOK'
    BY DEF Inv, LocalInv, VarTypes, FieldsOK, AcceptTimeout, Fail, NumbersOK, CounterOK,
      AttemptsLeft, Executing
  <1>4. StatusOK'
    BY NodeFacts DEF Inv, LocalInv, VarTypes, FieldsOK, AcceptTimeout, Fail,
      StatusOK
  <1>5. CommitsOK'
    BY CommitsStep DEF Inv, LocalInv, VarTypes, FieldsOK, AcceptTimeout, Fail, CommitsOK,
      Proposing
  <1> QED
    BY <1>1, <1>2, <1>3, <1>4, <1>5 DEF FieldsOK

\* A proposer that counts a quorum of answers has a majority behind its number.
LEMMA CountedHasBackers ==
    ASSUME Inv, FieldsOK, CountOK, NEW n \in Node, pc[n] = "waitAccept",
           acceptedRecieved[n] >= Cardinality(participatingMembers[n]),
           NEW c, c.by = n, c.num = internalProposalNumber[n]
    PROVE  IsMajority(Backers(c)) /\ lastAcceptedProposalNumber[n] # 0
  <1>1. acceptedRecieved[n] >= Quorum /\ acceptedRecieved[n] \in Nat
    <2>1. Cardinality(participatingMembers[n]) >= Quorum
      BY DEF FieldsOK, QuorumOK, Proposing
    <2>2. participatingMembers[n] \in SUBSET Node /\ acceptedRecieved[n] \in Nat
      BY DEF Inv, LocalInv, VarTypes
    <2>3. Cardinality(participatingMembers[n]) \in Nat /\ Cardinality(Node) \in Nat
      BY <2>2, NodeAssumption, FS_Subset, FS_CardinalityType
    <2> QED
      BY <2>1, <2>2, <2>3 DEF Quorum
  <1>2. PICK S \in SUBSET (Node \ {n}) : CountedFrom(n, S)
    BY DEF CountOK
  <1>3. S \union {n} \subseteq Backers(c)
    BY <1>2 DEF FieldsOK, PledgesOK, CountedFrom, Backers
  <1>4. IsMajority(Backers(c))
    <2>1. Backers(c) \subseteq Node /\ IsFiniteSet(Backers(c)) /\ IsFiniteSet(S)
      BY NodeAssumption, FS_Subset DEF Backers
    <2>2. /\ Cardinality(S \union {n}) = Cardinality(S) + 1
          /\ Cardinality(S \union {n}) <= Cardinality(Backers(c))
      BY <1>2, <1>3, <2>1, FS_AddElement, FS_Subset
    <2>3. /\ Cardinality(S) \in Nat /\ Cardinality(Backers(c)) \in Nat
          /\ Cardinality(Node) \in Nat
      BY <2>1, NodeAssumption, FS_CardinalityType
    <2>4. acceptedRecieved[n] <= Cardinality(S) + 1
      BY <1>2 DEF CountedFrom, Self
    <2>5. Cardinality(Backers(c)) >= Quorum
      BY <1>1, <2>2, <2>3, <2>4 DEF Quorum
    <2> QED
      BY <2>1, <2>5, QuorumIsMajority
  <1>5. ~Fresh(n)
    <2>1. Cardinality(Node) \in Nat
      BY NodeAssumption, FS_CardinalityType
    <2> QED
      BY <1>1, <2>1 DEF CountOK, Quorum
  <1>6. lastAcceptedProposalNumber[n] # 0
    BY <1>5 DEF Fresh, AcceptPhaseBegun
  <1> QED
    BY <1>4, <1>6

LEMMA CommitKeeps ==
    ASSUME Inv, FieldsOK, CountOK, NEW n \in Node, Commit(n)
    PROVE  Kept /\ FieldsOK'
  <1>0. pc[n] = "waitAccept" /\ pc' \in {[pc EXCEPT ![n] = "elected"], [pc EXCEPT ![n] = "crashed"]}
    BY SendersGoOn
  <1>1. Stable
    BY <1>0 DEF Inv, LocalInv, VarTypes, Commit, Stable, Fresh, AcceptPhaseBegun
  <1>2. \A k \in Node : CountKept(k)
    BY <1>0 DEF Inv, LocalInv, VarTypes, Commit, CountKept, Self, Fresh, AcceptPhaseBegun
  <1>3. PledgesOK'
    BY <1>0 DEF Inv, LocalInv, VarTypes, FieldsOK, Commit, PledgesOK
  <1>4. QuorumOK'
    BY <1>0 DEF Inv, LocalInv, VarTypes, FieldsOK, Commit, QuorumOK, Proposing
  <1>5. NumbersOK'
    <2>1. /\ UNCHANGED <<elections, retryCount, paxosProposalNumber, internalProposalNumber, pledges>>
          /\ \A k \in Node \ {n} : pc'[k] = pc[k]
          /\ pc[n] \in Executing /\ pc'[n] \in Executing \union {"crashed"}
      BY <1>0 DEF Inv, LocalInv, VarTypes, Executing, Commit
    <2>2. AttemptsLeft(n)' \in Nat /\ AttemptsLeft(n)' <= AttemptsLeft(n)
      BY <2>1, AttemptsLeftNat DEF Executing, AttemptsLeft
    <2>3. /\ paxosProposalNumber[n] \in Nat /\ AttemptsLeft(n) \in Nat
          /\ paxosProposalNumber[n] >= 88
      BY AttemptsLeftNat DEF Inv, LocalInv, VarTypes, FieldsOK, NumbersOK, CounterOK
    <2>4. paxosProposalNumber'[n] + AttemptsLeft(n)' <= paxosProposalNumber[n] + AttemptsLeft(n)
      BY <2>1, <2>2, <2>3
    <2>5. \A k \in Node : CounterOK(k)'
      BY <2>1, <2>2, <2>3, <2>4, CounterStep DEF FieldsOK
    <2> QED
      BY <2>1, <2>5 DEF FieldsOK, NumbersOK, Executing
  <1>6. StatusOK'
    BY <1>0 DEF Inv, LocalInv, VarTypes, FieldsOK, Commit, StatusOK
  <1>7. CommitsOK'
    <2> DEFINE new == [by |-> n, num |-> internalProposalNumber[n], val |-> lastAcceptedValue[n]]
    <2>1. /\ pc[n] = "waitAccept"
          /\ commits' = commits \union {new}
          /\ UNCHANGED <<lastAcceptedProposalNumber, pledges, votes>>
          /\ acceptedRecieved[n] >= Cardinality(participatingMembers[n])
      BY DEF Commit
    <2>2. IsMajority(Backers(new)) /\ lastAcceptedProposalNumber[n] # 0
      BY <2>1, CountedHasBackers
    <2>3. new.num % UidSpan = new.by
      BY <2>1 DEF Inv, LocalInv, OwnNumbers, Executing
    <2>4. ASSUME NEW c \in commits'
          PROVE  /\ c.num % UidSpan = c.by /\ lastAcceptedProposalNumber[c.by] # 0
                 /\ pc'[c.by] \notin Proposing /\ IsMajority(Backers(c))
      <3>1. CASE c \in commits
        BY <1>0, <2>1, <3>1 DEF Inv, LocalInv, VarTypes, FieldsOK, CommitsOK, Proposing
      <3>2. CASE c = new
        BY <1>0, <2>1, <2>2, <2>3, <3>2 DEF Inv, LocalInv, VarTypes, Proposing
      <3> QED
        BY <2>1, <3>1, <3>2
    <2> QED
      BY <2>1, <2>4, BackersStay DEF CommitsOK
  <1> QED
    BY <1>1, <1>2, <1>3, <1>4, <1>5, <1>6, <1>7 DEF Kept, FieldsOK

LEMMA ElectedKeeps ==
    ASSUME Inv, FieldsOK, NEW n \in Node, Elected(n)
    PROVE  Kept /\ FieldsOK'
  <1>0. /\ pc[n] = "elected" /\ pc'[n] \in {"idle", "crashed"}
        /\ \A k \in Node \ {n} : /\ pc'[k] = pc[k] /\ status'[k] = status[k]
                                /\ retryCount'[k] = retryCount[k]
        /\ status'[n] = "ok" => status[n] = "ok" \/ leaderClusterMember'[n] # NoLeader
        /\ UNCHANGED <<elections, paxosProposalNumber, memoryVars, acceptorVars, proposerVars,
                       chan, historyVars>>
    <2>1. WildLeader # NoLeader
      BY DEF WildLeader, NoLeader, UidSpan
    <2>2. /\ pc[n] = "elected"
          /\ UNCHANGED <<elections, paxosProposalNumber, memoryVars, acceptorVars, proposerVars,
                         chan, historyVars>>
      BY DEF Elected, Return
    <2>3. CASE Return(n, "ok") /\ TRUE \in Survives(leaderClusterMember'[n])
      BY <2>1, <2>2, <2>3 DEF Inv, LocalInv, VarTypes, Return, Survives
    <2>4. CASE pc' = [pc EXCEPT ![n] = "crashed"] /\ UNCHANGED mainVars
      BY <2>2, <2>4 DEF Inv, LocalInv, VarTypes
    <2> QED
      BY <2>3, <2>4 DEF Elected
  <1>1. Stable
    BY <1>0 DEF Inv, LocalInv, VarTypes, Stable, Fresh, AcceptPhaseBegun
  <1>2. \A k \in Node : CountKept(k)
    BY <1>0 DEF CountKept, Self
  <1>3. PledgesOK'
    BY <1>0 DEF FieldsOK, PledgesOK
  <1>4. QuorumOK'
    BY <1>0 DEF FieldsOK, QuorumOK, Proposing
  <1>5. NumbersOK'
    <2>1. \A k \in Node : CounterOK(k)'
      BY <1>0, CounterStep, AttemptsLeftNat DEF Inv, LocalInv, VarTypes, FieldsOK,
        NumbersOK, CounterOK, AttemptsLeft, Executing
    <2> QED
      BY <1>0, <2>1 DEF FieldsOK, NumbersOK, Executing
  <1>6. StatusOK'
    BY <1>0, LeaderStays, NodeFacts DEF FieldsOK, StatusOK, Elected
  <1>7. CommitsOK'
    BY <1>0, CommitsStep DEF Inv, LocalInv, VarTypes, FieldsOK, CommitsOK, Proposing
  <1> QED
    BY <1>1, <1>2, <1>3, <1>4, <1>5, <1>6, <1>7 DEF Kept, FieldsOK

LEMMA FoundLeaderKeeps ==
    ASSUME Inv, FieldsOK, NEW n \in Node, FoundLeader(n)
    PROVE  Kept /\ FieldsOK'
  <1>0. /\ pc[n] = "failed" /\ pc'[n] \in {"idle", "crashed"}
        /\ \A k \in Node \ {n} : /\ pc'[k] = pc[k] /\ status'[k] = status[k]
                                /\ retryCount'[k] = retryCount[k]
        /\ leaderClusterMember[n] # NoLeader
        /\ UNCHANGED <<elections, clusterVars, memoryVars, acceptorVars, proposerVars, chan,
                       historyVars>>
    <2>1. /\ pc[n] = "failed" /\ leaderClusterMember[n] # NoLeader
          /\ UNCHANGED <<elections, clusterVars, memoryVars, acceptorVars, proposerVars, chan,
                         historyVars>>
      BY DEF FoundLeader, LeaderKnown, Return
    <2>2. CASE Return(n, "ok")
      BY <2>1, <2>2 DEF Inv, LocalInv, VarTypes, Return
    <2>3. CASE pc' = [pc EXCEPT ![n] = "crashed"] /\ UNCHANGED mainVars
      BY <2>1, <2>3 DEF Inv, LocalInv, VarTypes
    <2> QED
      BY <2>2, <2>3 DEF FoundLeader
  <1>1. Stable
    BY <1>0 DEF Inv, LocalInv, VarTypes, Stable, Fresh, AcceptPhaseBegun
  <1>2. \A k \in Node : CountKept(k)
    BY <1>0 DEF CountKept, Self
  <1>3. PledgesOK'
    BY <1>0 DEF FieldsOK, PledgesOK
  <1>4. QuorumOK'
    BY <1>0 DEF FieldsOK, QuorumOK, Proposing
  <1>5. NumbersOK'
    <2>1. \A k \in Node : CounterOK(k)'
      BY <1>0, CounterStep, AttemptsLeftNat DEF Inv, LocalInv, VarTypes, FieldsOK,
        NumbersOK, CounterOK, AttemptsLeft, Executing
    <2> QED
      BY <1>0, <2>1 DEF FieldsOK, NumbersOK, Executing
  <1>6. StatusOK'
    BY <1>0 DEF FieldsOK, StatusOK
  <1>7. CommitsOK'
    BY <1>0, CommitsStep DEF Inv, LocalInv, VarTypes, FieldsOK, CommitsOK, Proposing
  <1> QED
    BY <1>1, <1>2, <1>3, <1>4, <1>5, <1>6, <1>7 DEF Kept, FieldsOK

LEMMA RetryKeeps ==
    ASSUME Inv, FieldsOK, NEW n \in Node, Retry(n)
    PROVE  Kept /\ FieldsOK'
  <1>1. Kept
    BY DEF Inv, LocalInv, VarTypes, Retry, RetriesAfter, Kept, Stable, CountKept, Fresh, AcceptPhaseBegun,
      Self
  <1>2. PledgesOK' /\ QuorumOK'
    BY DEF Inv, LocalInv, VarTypes, FieldsOK, Retry, RetriesAfter, PledgesOK, QuorumOK, Proposing
  <1>3. NumbersOK'
    BY DEF Inv, LocalInv, VarTypes, FieldsOK, Retry, RetriesAfter, NumbersOK, CounterOK, AttemptsLeft,
      Executing, RetriesLeft
  <1>4. StatusOK'
    BY NodeFacts DEF Inv, LocalInv, VarTypes, FieldsOK, Retry, RetriesAfter, StatusOK
  <1>5. CommitsOK'
    BY CommitsStep DEF Inv, LocalInv, VarTypes, FieldsOK, Retry, RetriesAfter, CommitsOK, Proposing
  <1> QED
    BY <1>1, <1>2, <1>3, <1>4, <1>5 DEF FieldsOK

LEMMA CrashKeeps ==
    ASSUME Inv, FieldsOK, NEW n \in Node, Crash(n)
    PROVE  Kept /\ FieldsOK'
  <1>1. Kept
    BY DEF Inv, LocalInv, VarTypes, Crash, Kept, Stable, CountKept, Fresh, AcceptPhaseBegun,
      Self
  <1>2. PledgesOK' /\ QuorumOK'
    BY DEF Inv, LocalInv, VarTypes, FieldsOK, Crash, PledgesOK, QuorumOK, Proposing
  <1>3. NumbersOK'
    <2>1. \A k \in Node : CounterOK(k)'
      BY CounterStep, AttemptsLeftNat DEF Inv, LocalInv, VarTypes, FieldsOK, NumbersOK,
        CounterOK, Crash, AttemptsLeft, Executing
    <2> QED
      BY <2>1 DEF Inv, LocalInv, VarTypes, FieldsOK, NumbersOK, Crash, Executing
  <1>4. StatusOK'
    BY NodeFacts DEF Inv, LocalInv, VarTypes, FieldsOK, Crash, StatusOK
  <1>5. CommitsOK'
    BY CommitsStep DEF Inv, LocalInv, VarTypes, FieldsOK, Crash, CommitsOK, Proposing
  <1> QED
    BY <1>1, <1>2, <1>3, <1>4, <1>5 DEF FieldsOK

LEMMA DropPrepareKeeps ==
    ASSUME Inv, FieldsOK, NEW n \in Node, NEW m \in Node, DropPrepare(n, m)
    PROVE  Kept /\ FieldsOK'
  <1>1. Kept
    BY DEF Inv, LocalInv, VarTypes, DropPrepare, Kept, Stable, CountKept, Fresh,
      AcceptPhaseBegun, Self
  <1>2. PledgesOK' /\ QuorumOK'
    BY DEF Inv, LocalInv, VarTypes, FieldsOK, DropPrepare, PledgesOK, QuorumOK, Proposing
  <1>3. NumbersOK'
    BY DEF Inv, LocalInv, VarTypes, FieldsOK, DropPrepare, NumbersOK, CounterOK,
      AttemptsLeft, Executing
  <1>4. StatusOK'
    BY NodeFacts DEF Inv, LocalInv, VarTypes, FieldsOK, DropPrepare, StatusOK
  <1>5. CommitsOK'
    BY CommitsStep DEF Inv, LocalInv, VarTypes, FieldsOK, DropPrepare, CommitsOK, Proposing
  <1> QED
    BY <1>1, <1>2, <1>3, <1>4, <1>5 DEF FieldsOK

LEMMA ReceivePrepareKeeps ==
    ASSUME Inv, FieldsOK, ExchangeOK, NEW n \in Node, NEW m \in Node, ReceivePrepare(n, m)
    PROVE  Kept /\ FieldsOK'
  <1> DEFINE msg == Head(chan[m][n])
             promised == IF lastPromised[n] < msg.num THEN msg.num ELSE lastPromised[n]
  <1>0. /\ msg.num \in Number /\ msg.num \in Nat /\ msg.num > 0
        /\ promised \in Nat /\ promised >= lastPromised[n]
        /\ lastPromised' = [lastPromised EXCEPT ![n] = promised]
        /\ \/ promised = msg.num /\ pledges' = pledges \union {<<n, promised>>}
           \/ promised = lastPromised[n] /\ pledges' = pledges
        /\ UNCHANGED <<pc, mainVars, clusterVars, memoryVars, lastAcceptedProposalNumber,
                       lastAcceptedValue, proposerVars, votes, commits>>
    <2>1. msg \in OkExchange(m, n) /\ msg.type = "PREPARE"
      BY HeadIsGood DEF ExchangeOK, ReceivePrepare, Arrived
    <2>2. msg.num \in Number /\ msg.num \in Nat /\ msg.num > 0
      BY <2>1 DEF OkExchange, Message
    <2>3. lastPromised[n] \in Nat
      BY DEF Inv, LocalInv, VarTypes
    <2> HIDE DEF msg
    <2> QED
      BY <2>2, <2>3 DEF ReceivePrepare, msg
  <1> HIDE DEF promised, msg
  <1>1. Stable
    BY <1>0 DEF Stable, Fresh, AcceptPhaseBegun
  <1>2. \A k \in Node : CountKept(k)
    BY <1>0 DEF CountKept, Self
  <1>3. PledgesOK'
    BY <1>0 DEF Inv, LocalInv, VarTypes, FieldsOK, PledgesOK
  <1>4. QuorumOK'
    BY <1>0 DEF FieldsOK, QuorumOK
  <1>5. NumbersOK'
    BY <1>0 DEF Inv, LocalInv, VarTypes, FieldsOK, NumbersOK, CounterOK, AttemptsLeft
  <1>6. StatusOK'
    BY <1>0 DEF FieldsOK, StatusOK
  <1>7. CommitsOK'
    BY <1>0, CommitsStep DEF FieldsOK, CommitsOK
  <1> QED
    BY <1>1, <1>2, <1>3, <1>4, <1>5, <1>6, <1>7 DEF Kept, FieldsOK

LEMMA ReceivePromiseKeeps ==
    ASSUME Inv, FieldsOK, NEW n \in Node, NEW m \in Node, ReceivePromise(n, m)
    PROVE  Kept /\ FieldsOK'
  <1>1. Kept
    BY DEF Inv, LocalInv, VarTypes, ReceivePromise, Kept, Stable, CountKept, Fresh,
      AcceptPhaseBegun, Self
  <1>2. PledgesOK' /\ QuorumOK'
    BY DEF Inv, LocalInv, VarTypes, FieldsOK, ReceivePromise, PledgesOK, QuorumOK, Proposing
  <1>3. NumbersOK'
    BY DEF Inv, LocalInv, VarTypes, FieldsOK, ReceivePromise, NumbersOK, CounterOK,
      AttemptsLeft, Executing
  <1>4. StatusOK'
    BY NodeFacts DEF Inv, LocalInv, VarTypes, FieldsOK, ReceivePromise, StatusOK
  <1>5. CommitsOK'
    BY CommitsStep DEF Inv, LocalInv, VarTypes, FieldsOK, ReceivePromise, CommitsOK,
      Proposing
  <1> QED
    BY <1>1, <1>2, <1>3, <1>4, <1>5 DEF FieldsOK

LEMMA ReceiveAcceptRequestedKeeps ==
    ASSUME Inv, FieldsOK, NEW n \in Node, NEW m \in Node, ReceiveAcceptRequested(n, m)
    PROVE  Kept /\ FieldsOK'
  <1> DEFINE num == Head(chan[m][n]).num
  <1>0. /\ num = lastPromised[n] /\ num \in Nat /\ num > 0
        /\ lastAcceptedProposalNumber' = [lastAcceptedProposalNumber EXCEPT ![n] = num]
        /\ votes' = votes \union {<<n, num>>}
        /\ UNCHANGED <<pc, mainVars, clusterVars, memoryVars, lastPromised, proposerVars,
                       pledges, commits>>
    <2>1. Head(chan[m][n]) \in OkMessage(m)
      BY HeadIsGood DEF Inv, StreamsOK, ReceiveAcceptRequested, Arrived
    <2> QED
      BY <2>1, MessageFields DEF ReceiveAcceptRequested, Acceptable
  <1> HIDE DEF num
  <1>1. Stable
    BY <1>0 DEF Inv, LocalInv, VarTypes, Stable, Fresh, AcceptPhaseBegun
  <1>2. \A k \in Node : CountKept(k)
    BY <1>0 DEF CountKept, Self
  <1>3. PledgesOK'
    <2>1. num # 0
      BY <1>0
    <2>2. <<n, num>> \in pledges
      BY <1>0, <2>1 DEF FieldsOK, PledgesOK
    <2> QED
      BY <1>0, <2>2 DEF FieldsOK, PledgesOK
  <1>4. QuorumOK'
    BY <1>0 DEF FieldsOK, QuorumOK
  <1>5. NumbersOK'
    BY <1>0 DEF FieldsOK, NumbersOK, CounterOK, AttemptsLeft
  <1>6. StatusOK'
    BY <1>0 DEF FieldsOK, StatusOK
  <1>7. CommitsOK'
    BY <1>0, CommitsStep DEF Inv, LocalInv, VarTypes, FieldsOK, CommitsOK
  <1> QED
    BY <1>1, <1>2, <1>3, <1>4, <1>5, <1>6, <1>7 DEF Kept, FieldsOK

LEMMA DropAcceptRequestedKeeps ==
    ASSUME Inv, FieldsOK, NEW n \in Node, NEW m \in Node, DropAcceptRequested(n, m)
    PROVE  Kept /\ FieldsOK'
  <1>1. Kept
    BY DEF Inv, LocalInv, VarTypes, DropAcceptRequested, Kept, Stable, CountKept, Fresh,
      AcceptPhaseBegun, Self
  <1>2. PledgesOK' /\ QuorumOK'
    BY DEF Inv, LocalInv, VarTypes, FieldsOK, DropAcceptRequested, PledgesOK, QuorumOK,
      Proposing
  <1>3. NumbersOK'
    BY DEF Inv, LocalInv, VarTypes, FieldsOK, DropAcceptRequested, NumbersOK, CounterOK,
      AttemptsLeft, Executing
  <1>4. StatusOK'
    BY NodeFacts DEF Inv, LocalInv, VarTypes, FieldsOK, DropAcceptRequested,
      StatusOK
  <1>5. CommitsOK'
    BY CommitsStep DEF Inv, LocalInv, VarTypes, FieldsOK, DropAcceptRequested, CommitsOK,
      Proposing
  <1> QED
    BY <1>1, <1>2, <1>3, <1>4, <1>5 DEF FieldsOK

LEMMA ReceiveAcceptedKeeps ==
    ASSUME Inv, FieldsOK, NEW n \in Node, NEW m \in Node, ReceiveAccepted(n, m)
    PROVE  Stable /\ FieldsOK'
  <1>0. UNCHANGED <<pc, mainVars, clusterVars, memoryVars, acceptorVars, state,
                    promisesRecieved, internalProposalNumber, participatingMembers, historyVars>>
    BY DEF ReceiveAccepted
  <1>1. Stable
    BY <1>0 DEF Stable, Fresh, AcceptPhaseBegun
  <1>2. PledgesOK' /\ QuorumOK'
    BY <1>0 DEF FieldsOK, PledgesOK, QuorumOK
  <1>3. NumbersOK'
    BY <1>0 DEF FieldsOK, NumbersOK, CounterOK, AttemptsLeft
  <1>4. StatusOK'
    BY <1>0 DEF FieldsOK, StatusOK
  <1>5. CommitsOK'
    BY <1>0, CommitsStep DEF FieldsOK, CommitsOK
  <1> QED
    BY <1>1, <1>2, <1>3, <1>4, <1>5 DEF FieldsOK

LEMMA ReceiveLeaderElectedKeeps ==
    ASSUME Inv, FieldsOK, NEW n \in Node, NEW m \in Node, ReceiveLeaderElected(n, m)
    PROVE  Kept /\ FieldsOK'
  <1>0. /\ pc[n] # "crashed" /\ pc'[n] \in {pc[n], "crashed"}
        /\ \A k \in Node \ {n} : pc'[k] = pc[k]
        /\ setLeader(n, Head(chan[m][n]).accVal)
        /\ UNCHANGED <<mainVars, paxosProposalNumber, memoryVars, acceptorVars,
                       acceptedRecieved, internalProposalNumber, participatingMembers, historyVars>>
    BY DEF Inv, LocalInv, VarTypes, ReceiveLeaderElected, Arrived
  <1>1. Stable
    BY <1>0 DEF Inv, LocalInv, VarTypes, Stable, Fresh, AcceptPhaseBegun
  <1>2. \A k \in Node : CountKept(k)
    BY <1>0 DEF CountKept, Self
  <1>3. PledgesOK'
    BY <1>0 DEF FieldsOK, PledgesOK
  <1>4. QuorumOK'
    BY <1>0 DEF FieldsOK, QuorumOK, Proposing
  <1>5. NumbersOK'
    <2>1. \A k \in Node : CounterOK(k)'
      BY <1>0, CounterStep, AttemptsLeftNat DEF Inv, LocalInv, VarTypes, FieldsOK,
        NumbersOK, CounterOK, AttemptsLeft, Executing
    <2> QED
      BY <1>0, <2>1 DEF FieldsOK, NumbersOK, Executing
  <1>6. StatusOK'
    BY <1>0, LeaderStays, NodeFacts DEF FieldsOK, StatusOK
  <1>7. CommitsOK'
    BY <1>0, CommitsStep DEF Inv, LocalInv, VarTypes, FieldsOK, CommitsOK, Proposing
  <1> QED
    BY <1>1, <1>2, <1>3, <1>4, <1>5, <1>6, <1>7 DEF Kept, FieldsOK

-----------------------------------------------------------------------------
(* The three steps that send, answer and count requests *)

\* What a sequence carries is one of its elements.
LEMMA CarriedIsThere ==
    ASSUME NEW S, NEW s \in Seq(S), NEW t, Carries(s, t)
    PROVE  \E msg \in S : msg.type = t
  BY DEF Carries

\* The first requests of a node go out when nothing was asked or answered yet.
LEMMA RequestAcceptStreams ==
    ASSUME QuorumInv, Inv', NEW n \in Node, RequestAccept(n)
    PROVE  ExchangeOK' /\ CountOK'
  <1> DEFINE msg == addMessage("ACCEPT_REQUESTED", internalProposalNumber[n],
                               lastAcceptedProposalNumber[n], lastAcceptedValue[n])
  <1>1. Kept
    BY RequestAcceptKeeps DEF QuorumInv
  <1>2. PICK loop \in LoopEnds(n, participatingMembers[n] \ isLocalNode[n], "acceptSelf") :
           SendTo(n, loop.reached, msg) /\ pc' = [pc EXCEPT ![n] = loop.pc]
    BY DEF RequestAccept
  <1> DEFINE T == loop.reached
  <1>3. n \notin T /\ loop.pc \in {"acceptSelf", "crashed"}
    BY LoopEndsIn DEF QuorumInv, Inv, LocalInv, VarTypes
  <1>4. msg \in Message /\ msg.type = Request
    BY OwnedIsPositive DEF QuorumInv, Inv, LocalInv, VarTypes, OwnNumbers, Executing,
      RequestAccept, addMessage, Message, MessageType, Request
  <1>5. Fresh(n) /\ ~Fresh(n)' /\ acceptedRecieved' = [acceptedRecieved EXCEPT ![n] = 0]
        /\ \A k \in Node \ {n} : pc'[k] = pc[k] /\ Fresh(k)' = Fresh(k)
        /\ UNCHANGED <<internalProposalNumber, votes>>
    BY <1>2, <1>3 DEF QuorumInv, Inv, LocalInv, VarTypes, RequestAccept, Fresh, AcceptPhaseBegun
  <1>6. \A a, b \in Node :
           chan'[a][b] = IF a = n /\ b \in T THEN Append(chan[a][b], msg) ELSE chan[a][b]
    BY <1>2 DEF SendTo, QuorumInv, Inv, Streams
  <1> HIDE DEF msg, T
  <1>7. \A b \in Node : /\ ~Carries(chan[n][b], Request) /\ ~Carries(chan[b][n], Answer)
    <2>1. \A b \in Node : /\ \A x \in OkExchange(n, b) : x.type # Request
                         /\ \A x \in OkExchange(b, n) : x.type # Answer
      BY <1>5 DEF OkExchange
    <2> QED
      BY <2>1, CarriedIsThere DEF QuorumInv, ExchangeOK
  <1>8. ASSUME NEW a \in Node, NEW b \in Node
        PROVE  /\ chan'[a][b] \in Seq(OkExchange(a, b)')
               /\ Carries(chan'[a][b], Answer) => Carries(chan[a][b], Answer)
               /\ Carries(chan'[a][b], Request) => a = n \/ Carries(chan[a][b], Request)
               /\ AtMostOne(chan'[a][b], Request) /\ AtMostOne(chan'[a][b], Answer)
               /\ a = b => chan'[a][b] = <<>>
    <2>1. chan[a][b] \in Seq(OkExchange(a, b)')
      BY <1>1, OkExchangeGrows, SeqMonotone DEF QuorumInv, ExchangeOK, Kept
    <2>2. AtMostOne(chan[a][b], Request) /\ AtMostOne(chan[a][b], Answer)
          /\ (a = b => chan[a][b] = <<>>)
      BY DEF QuorumInv, ExchangeOK
    <2>3. CASE a = n /\ b \in T
      <3>1. msg \in OkExchange(a, b)'
        BY <1>4, <1>5, <2>3 DEF OkExchange, Request, Answer
      <3>2. chan'[a][b] = Append(chan[a][b], msg) /\ a # b /\ ~Carries(chan[a][b], Request)
        BY <1>3, <1>6, <1>7, <2>3
      <3>3. Request # Answer
        BY DEF Request, Answer
      <3> QED
        BY <1>4, <2>1, <2>2, <2>3, <3>1, <3>2, <3>3, AppendCarries
    <2>4. CASE ~(a = n /\ b \in T)
      BY <1>6, <2>1, <2>2, <2>4
    <2> QED
      BY <2>3, <2>4
  <1>9. ExchangeOK'
    BY <1>7, <1>8 DEF QuorumInv, ExchangeOK
  <1>10. ASSUME NEW k \in Node
         PROVE  /\ Fresh(k)' => acceptedRecieved'[k] = 0
                /\ \E S \in SUBSET (Node \ {k}) : CountedFrom(k, S)'
    <2>1. CASE k = n
      <3>1. acceptedRecieved'[k] = 0
        BY <1>5, <2>1 DEF QuorumInv, Inv, LocalInv, VarTypes
      <3>2. CountedFrom(k, {})'
        BY <3>1, FS_EmptySet DEF CountedFrom, Self
      <3> QED
        BY <3>1, <3>2
    <2>2. CASE k # n
      <3>1. PICK S \in SUBSET (Node \ {k}) : CountedFrom(k, S)
        BY DEF QuorumInv, CountOK
      <3>2. acceptedRecieved'[k] = acceptedRecieved[k] /\ Self(k)' = Self(k)
        BY <1>5, <2>2 DEF QuorumInv, Inv, LocalInv, VarTypes, Self
      <3>3. CountedFrom(k, S)'
        BY <1>5, <1>8, <2>2, <3>1, <3>2 DEF CountedFrom
      <3> QED
        BY <1>5, <2>2, <3>2, <3>3 DEF QuorumInv, CountOK
    <2> QED
      BY <2>1, <2>2
  <1> QED
    BY <1>9, <1>10 DEF CountOK

\* An acceptor's answer takes the place of the request.
LEMMA ReceiveAcceptRequestedStreams ==
    ASSUME QuorumInv, Inv', NEW n \in Node, NEW m \in Node, ReceiveAcceptRequested(n, m)
    PROVE  ExchangeOK' /\ CountOK'
  <1> DEFINE num == Head(chan[m][n]).num
             msg == addMessage("ACCEPTED", num, num, Head(chan[m][n]).accVal)
  <1>1. Kept
    BY ReceiveAcceptRequestedKeeps DEF QuorumInv
  <1>2. /\ chan[m][n] # <<>> /\ Head(chan[m][n]).type = Request
        /\ chan[m][n] \in Seq(OkExchange(m, n))
        /\ Head(chan[m][n]) \in OkMessage(m)
    BY HeadIsGood DEF QuorumInv, Inv, StreamsOK, ExchangeOK, ReceiveAcceptRequested,
      Arrived, Request
  <1>3. n # m
    BY <1>2 DEF QuorumInv, ExchangeOK
  <1>4. /\ ~Fresh(m) /\ num = internalProposalNumber[m]
        /\ Carries(chan[m][n], Request)
        /\ ~Carries(chan[n][m], Answer)
        /\ ~Carries(Tail(chan[m][n]), Request)
    <2>1. Head(chan[m][n]) \in OkExchange(m, n)
      BY <1>2, HeadIsGood
    <2>2. ~Fresh(m) /\ num = internalProposalNumber[m]
      BY <1>2, <2>1 DEF OkExchange, OkMessage, Request
    <2>3. Carries(chan[m][n], Request) /\ ~Carries(Tail(chan[m][n]), Request)
      BY <1>2, TailCarries DEF QuorumInv, ExchangeOK
    <2> QED
      BY <2>2, <2>3 DEF QuorumInv, ExchangeOK
  <1>5. msg \in Message /\ msg.type = Answer /\ msg.num = num /\ msg.accNum = num
    BY <1>2, MessageFields DEF addMessage, Message, MessageType, Answer
  <1>6. /\ UNCHANGED <<pc, internalProposalNumber, acceptedRecieved>>
        /\ votes' = votes \union {<<n, num>>}
        /\ Reply(n, m, msg)
    BY DEF ReceiveAcceptRequested
  <1> HIDE DEF num, msg
  <1>7. \A a, b \in Node :
            \/ chan'[a][b] = chan[a][b] /\ ~(a = m /\ b = n)
            \/ a = m /\ b = n /\ chan'[a][b] = Tail(chan[a][b])
            \/ a = n /\ b = m /\ chan'[a][b] = Append(chan[a][b], msg)
    BY <1>3, <1>6, ReplyStreams DEF QuorumInv, Inv
  <1>8. ASSUME NEW a \in Node, NEW b \in Node
        PROVE  /\ chan'[a][b] \in Seq(OkExchange(a, b)')
               /\ Carries(chan'[a][b], Request) =>
                     Carries(chan[a][b], Request) /\ ~(a = m /\ b = n)
               /\ Carries(chan'[a][b], Answer) =>
                     Carries(chan[a][b], Answer) \/ (a = n /\ b = m)
               /\ AtMostOne(chan'[a][b], Request) /\ AtMostOne(chan'[a][b], Answer)
               /\ a = b => chan'[a][b] = <<>>
    <2>1. chan[a][b] \in Seq(OkExchange(a, b)')
      BY <1>1, OkExchangeGrows, SeqMonotone DEF QuorumInv, ExchangeOK, Kept
    <2>2. AtMostOne(chan[a][b], Request) /\ AtMostOne(chan[a][b], Answer)
          /\ (a = b => chan[a][b] = <<>>)
      BY DEF QuorumInv, ExchangeOK
    <2>3. CASE chan'[a][b] = chan[a][b] /\ ~(a = m /\ b = n)
      BY <2>1, <2>2, <2>3
    <2>4. CASE a = m /\ b = n /\ chan'[a][b] = Tail(chan[a][b])
      BY <1>2, <1>3, <1>4, <2>1, <2>2, <2>4, TailCarries
    <2>5. CASE a = n /\ b = m /\ chan'[a][b] = Append(chan[a][b], msg)
      <3>1. msg \in OkExchange(a, b)'
        BY <1>1, <1>4, <1>5, <1>6, <2>5 DEF OkExchange, Request, Answer, Kept, Stable
      <3> QED
        BY <1>3, <1>4, <1>5, <2>1, <2>2, <2>5, <3>1, AppendCarries DEF Request, Answer
    <2> QED
      BY <1>7, <2>3, <2>4, <2>5
  <1>9. ExchangeOK'
    <2>1. \A a, b \in Node : ~(Carries(chan'[a][b], Request) /\ Carries(chan'[b][a], Answer))
      BY <1>8 DEF QuorumInv, ExchangeOK
    <2> QED
      BY <1>8, <2>1 DEF ExchangeOK
  <1>10. ASSUME NEW k \in Node
         PROVE  /\ Fresh(k)' => acceptedRecieved'[k] = 0
                /\ \E S \in SUBSET (Node \ {k}) : CountedFrom(k, S)'
    <2>1. PICK S \in SUBSET (Node \ {k}) : CountedFrom(k, S)
      BY DEF QuorumInv, CountOK
    <2>2. k = m => n \notin S
      BY <1>4, <2>1 DEF CountedFrom
    <2>3. Self(k)' = Self(k) /\ acceptedRecieved'[k] = acceptedRecieved[k]
      BY <1>6 DEF Self
    <2>4. CountedFrom(k, S)'
      BY <1>6, <1>8, <2>1, <2>2, <2>3 DEF CountedFrom
    <2>5. Fresh(k)' => acceptedRecieved'[k] = 0
      BY <1>1, <2>3 DEF Kept, Stable, QuorumInv, CountOK
    <2> QED
      BY <2>4, <2>5
  <1> QED
    BY <1>9, <1>10 DEF CountOK

\* The answer that is counted is the first from its member, and the only one.
LEMMA ReceiveAcceptedStreams ==
    ASSUME QuorumInv, Inv', NEW n \in Node, NEW m \in Node, ReceiveAccepted(n, m)
    PROVE  ExchangeOK' /\ CountOK'
  <1>1. Stable
    BY ReceiveAcceptedKeeps DEF QuorumInv
  <1>2. /\ chan[m][n] # <<>> /\ Head(chan[m][n]).type = Answer
        /\ chan[m][n] \in Seq(OkExchange(m, n))
    BY DEF QuorumInv, ExchangeOK, ReceiveAccepted, Arrived, Answer
  <1>3. /\ ~Fresh(n)
        /\ <<m, internalProposalNumber[n]>> \in votes
        /\ Carries(chan[m][n], Answer) /\ ~Carries(Tail(chan[m][n]), Answer)
        /\ ~Carries(chan[n][m], Request)
    <2>1. Head(chan[m][n]) \in OkExchange(m, n)
      BY <1>2, HeadIsGood
    <2>2. ~Fresh(n) /\ <<m, internalProposalNumber[n]>> \in votes
      BY <1>2, <2>1 DEF OkExchange
    <2>3. Carries(chan[m][n], Answer) /\ ~Carries(Tail(chan[m][n]), Answer)
      BY <1>2, TailCarries DEF QuorumInv, ExchangeOK
    <2> QED
      BY <2>2, <2>3 DEF QuorumInv, ExchangeOK
  <1>4. m # n
    BY <1>2 DEF QuorumInv, ExchangeOK
  <1>5. /\ UNCHANGED <<pc, internalProposalNumber, votes>>
        /\ acceptedRecieved'[n] \in {acceptedRecieved[n], acceptedRecieved[n] + 1}
        /\ \A k \in Node \ {n} : acceptedRecieved'[k] = acceptedRecieved[k]
        /\ \A a, b \in Node : chan'[a][b] = IF a = m /\ b = n THEN Tail(chan[a][b]) ELSE chan[a][b]
    <2>1. UNCHANGED <<pc, internalProposalNumber, votes>> /\ Consume(n, m)
      BY DEF ReceiveAccepted
    <2>2. /\ acceptedRecieved'[n] \in {acceptedRecieved[n], acceptedRecieved[n] + 1}
          /\ \A k \in Node \ {n} : acceptedRecieved'[k] = acceptedRecieved[k]
      BY DEF QuorumInv, Inv, LocalInv, VarTypes, ReceiveAccepted
    <2>3. \A a, b \in Node :
             chan'[a][b] = IF a = m /\ b = n THEN Tail(chan[a][b]) ELSE chan[a][b]
      BY <2>1 DEF QuorumInv, Inv, Streams, Consume
    <2> QED
      BY <2>1, <2>2, <2>3
  <1>6. ASSUME NEW a \in Node, NEW b \in Node
        PROVE  /\ chan'[a][b] \in Seq(OkExchange(a, b)')
               /\ Calm(a, b)
               /\ a = b => chan'[a][b] = <<>>
    <2>1. chan[a][b] \in Seq(OkExchange(a, b)')
      BY <1>1, OkExchangeGrows, SeqMonotone DEF QuorumInv, ExchangeOK
    <2>2. CASE a = m /\ b = n
      <3>1. chan'[a][b] = Tail(chan[a][b]) /\ chan[a][b] # <<>> /\ a # b
        BY <1>2, <1>4, <1>5, <2>2
      <3> QED
        BY <2>1, <3>1, TailCarries DEF Calm
    <2>3. CASE ~(a = m /\ b = n)
      BY <1>5, <2>1, <2>3 DEF QuorumInv, ExchangeOK, Calm
    <2> QED
      BY <2>2, <2>3
  <1>7. ExchangeOK'
    BY <1>6 DEF QuorumInv, ExchangeOK, Calm
  <1>8. ASSUME NEW k \in Node
        PROVE  /\ Fresh(k)' => acceptedRecieved'[k] = 0
               /\ \E S \in SUBSET (Node \ {k}) : CountedFrom(k, S)'
    <2>1. PICK S \in SUBSET (Node \ {k}) : CountedFrom(k, S)
      BY DEF QuorumInv, CountOK
    <2>2. CASE k # n
      <3>1. CountedFrom(k, S)'
        BY <1>5, <1>6, <2>1, <2>2 DEF CountedFrom, Self, Calm
      <3>2. Fresh(k)' => acceptedRecieved'[k] = 0
        BY <1>1, <1>5, <2>2 DEF Stable, QuorumInv, CountOK
      <3> QED
        BY <3>1, <3>2
    <2>3. CASE k = n
      <3>1. m \notin S
        BY <1>3, <2>1, <2>3 DEF CountedFrom
      <3>2. Cardinality(S \union {m}) = Cardinality(S) + 1 /\ Cardinality(S) \in Nat
        BY <3>1, NodeAssumption, FS_Subset, FS_AddElement, FS_CardinalityType
      <3>3. acceptedRecieved'[n] <= Cardinality(S \union {m}) + Self(n)'
        <4>1. /\ acceptedRecieved[n] <= Cardinality(S) + Self(n)
              /\ Self(n)' = Self(n) /\ Self(n) \in {0, 1}
          BY <1>5, <2>1, <2>3 DEF CountedFrom, Self
        <4>2. acceptedRecieved[n] \in Nat
          BY DEF QuorumInv, Inv, LocalInv, VarTypes
        <4> QED
          BY <1>5, <3>2, <4>1, <4>2
      <3>4. CountedFrom(n, S \union {m})'
        <4>1. ASSUME NEW a \in S \union {m}
              PROVE  /\ <<a, internalProposalNumber'[n]>> \in votes'
                     /\ ~Carries(chan'[n][a], Request) /\ ~Carries(chan'[a][n], Answer)
          <5>1. CASE a \in S
            BY <1>5, <1>6, <2>1, <2>3, <5>1 DEF CountedFrom, Calm
          <5>2. CASE a = m
            BY <1>3, <1>4, <1>5, <5>2
          <5> QED
            BY <5>1, <5>2
        <4> QED
          BY <3>3, <4>1 DEF CountedFrom
      <3>5. ~Fresh(k)'
        BY <1>1, <1>3, <2>3 DEF Stable
      <3> QED
        BY <1>4, <2>3, <3>4, <3>5
    <2> QED
      BY <2>2, <2>3
  <1> QED
    BY <1>7, <1>8 DEF CountOK

-----------------------------------------------------------------------------
(* The invariant *)

LEMMA MainQuorum ==
    ASSUME QuorumInv, Inv', NEW n \in Node, LeaderElection(n) \/ Proceed(n) \/ Crash(n)
    PROVE  QuorumInv'
  <1> USE DEF QuorumInv
  <1>1. VarTypes /\ VarTypes' /\ chan \in Streams
    BY DEF Inv, LocalInv
  <1>2. CASE SendPrepare(n)
    <2>1. Kept /\ FieldsOK'
      BY <1>2, SendPrepareKeeps
    <2> DEFINE msg == addMessage("PREPARE", internalProposalNumber[n], 0, 0)
    <2>2. PICK loop \in LoopEnds(n, participatingMembers[n] \ isLocalNode[n], "promiseSelf") :
            SendTo(n, loop.reached, msg)
      BY <1>2 DEF SendPrepare
    <2>3. internalProposalNumber[n] \in Number /\ internalProposalNumber[n] \in Nat \ {0}
      BY <1>2, OwnedIsPositive DEF Inv, LocalInv, VarTypes, OwnNumbers, FieldsOK, NumbersOK,
        SendPrepare, Executing
    <2>4. Harmless(msg)
      BY <2>3 DEF Harmless, addMessage, Message, MessageType, Request, Answer
    <2>5. n \notin loop.reached
      BY <1>1, LoopEndsIn DEF VarTypes
    <2> HIDE DEF msg
    <2> QED
      BY <1>1, <2>1, <2>2, <2>4, <2>5, SendStep
  <1>3. CASE RequestAccept(n)
    BY <1>3, RequestAcceptKeeps, RequestAcceptStreams
  <1>4. CASE Commit(n)
    <2>1. Kept /\ FieldsOK'
      BY <1>4, CommitKeeps
    <2> DEFINE msg == addMessage("LEADER_ELECTED", internalProposalNumber[n],
                                 lastAcceptedProposalNumber[n], lastAcceptedValue[n])
    <2>2. PICK loop \in LoopEnds(n, CommitTargets(n), "elected") : SendTo(n, loop.reached, msg)
      BY <1>4 DEF Commit
    <2>3. internalProposalNumber[n] \in Nat \ {0}
      BY <1>4, OwnedIsPositive DEF Inv, LocalInv, VarTypes, OwnNumbers, Commit, Executing
    <2>4. Harmless(msg)
      BY <1>1, <2>3 DEF VarTypes, Harmless, addMessage, Message, MessageType, Request, Answer
    <2>5. n \notin loop.reached
      BY <1>1, LoopEndsIn DEF VarTypes, CommitTargets
    <2> HIDE DEF msg
    <2> QED
      BY <1>1, <2>1, <2>2, <2>4, <2>5, SendStep
  <1>5. CASE ~(SendPrepare(n) \/ RequestAccept(n) \/ Commit(n))
    <2>1. Kept /\ FieldsOK'
      BY <1>5, LeaderElectionKeeps, SoloLeaderKeeps, RefuseKeeps, SelectQuorumKeeps,
        AlreadyCompletedKeeps, PromiseSelfKeeps, PrepareTimeoutKeeps, AcceptSelfKeeps,
        AcceptTimeoutKeeps, ElectedKeeps, FoundLeaderKeeps, RetryKeeps, CrashKeeps DEF Proceed
    <2>2. UNCHANGED chan
      BY <1>5 DEF LeaderElection, Proceed, SoloLeader, Refuse, SelectQuorum,
        AlreadyCompleted, PromiseSelf, PrepareTimeout, AcceptSelf, AcceptTimeout, Elected,
        FoundLeader, Retry, Crash
    <2> QED
      BY <1>1, <2>1, <2>2, QuietStep
  <1> QED
    BY <1>2, <1>3, <1>4, <1>5

LEMMA ReceiverQuorum ==
    ASSUME QuorumInv, Inv', NEW n \in Node, NEW m \in Node, Receive(n, m)
    PROVE  QuorumInv'
  <1> USE DEF QuorumInv
  <1>1. VarTypes /\ VarTypes' /\ chan \in Streams
    BY DEF Inv, LocalInv
  <1>2. CASE ReceivePrepare(n, m)
    <2>1. Kept /\ FieldsOK'
      BY <1>2, ReceivePrepareKeeps
    <2> DEFINE msg == Head(chan[m][n])
               promised == IF lastPromised[n] < msg.num THEN msg.num ELSE lastPromised[n]
               answer == PromiseMessage(promised, lastAcceptedProposalNumber[n],
                                        lastAcceptedValue[n])
    <2>2. chan[m][n] # <<>> /\ Reply(n, m, answer)
      BY <1>2 DEF ReceivePrepare, Arrived
    <2>3. promised \in Nat \ {0}
      <3>1. msg.num \in Nat /\ msg.num > 0
        BY <2>2, HeadIsGood, MessageFields DEF Inv, StreamsOK
      <3> HIDE DEF msg
      <3> QED
        BY <1>1, <3>1 DEF VarTypes
    <2>4. Harmless(answer)
      <3> HIDE DEF promised
      <3> QED
        BY <1>1, <2>3 DEF VarTypes, Harmless, PromiseMessage, addMessage, Message,
          MessageType, Request, Answer
    <2> HIDE DEF answer
    <2> QED
      BY <1>1, <2>1, <2>2, <2>4, ReplyStep
  <1>3. CASE ReceiveAcceptRequested(n, m)
    BY <1>3, ReceiveAcceptRequestedKeeps, ReceiveAcceptRequestedStreams
  <1>4. CASE ReceiveAccepted(n, m)
    BY <1>4, ReceiveAcceptedKeeps, ReceiveAcceptedStreams
  <1>5. CASE \/ DropPrepare(n, m) \/ ReceivePromise(n, m)
             \/ DropAcceptRequested(n, m) \/ ReceiveLeaderElected(n, m)
    <2>1. Kept /\ FieldsOK'
      BY <1>5, DropPrepareKeeps, ReceivePromiseKeeps, DropAcceptRequestedKeeps,
        ReceiveLeaderElectedKeeps
    <2>2. chan[m][n] # <<>> /\ Consume(n, m)
      BY <1>5 DEF DropPrepare, ReceivePromise, DropAcceptRequested, ReceiveLeaderElected,
        Arrived
    <2> QED
      BY <1>1, <2>1, <2>2, ConsumeStep
  <1> QED
    BY <1>2, <1>3, <1>4, <1>5 DEF Receive

LEMMA InitQuorum == Init => QuorumInv
  <1> SUFFICES ASSUME Init PROVE QuorumInv
    OBVIOUS
  <1>1. Inv
    BY InitInv
  <1>2. PledgesOK /\ QuorumOK
    BY DEF Init, PledgesOK, QuorumOK, Proposing
  <1>3. NumbersOK
    <2>1. ASSUME NEW n \in Node
          PROVE  CounterOK(n)
      <3>1. RetryCountLE * 0 \in Nat
        BY RoomForNumbers
      <3>2. /\ elections[n] = 0 /\ paxosProposalNumber[n] = 88 /\ AttemptsLeft(n) = 0
        BY DEF Init, AttemptsLeft, Executing
      <3>3. 88 + 0 <= 88 + RetryCountLE * 0
        BY <3>1
      <3> QED
        BY <3>2, <3>3, BoundsAssumption DEF CounterOK
    <2> QED
      BY <2>1 DEF Init, NumbersOK, Executing
  <1>5. StatusOK
    <2>1. \A n \in Node \ Recycled : leaderClusterMember[n] = NoLeader
      BY DEF Init
    <2> QED
      BY <2>1 DEF Init, StatusOK, NoLeader, WildLeader, UidSpan
  <1>6. CommitsOK
    BY DEF Init, CommitsOK
  <1>7. ExchangeOK
    BY DEF Init, ExchangeOK, Carries, AtMostOne
  <1>8. CountOK
    <2>1. ASSUME NEW n \in Node
          PROVE  CountedFrom(n, {})
      BY FS_EmptySet DEF Init, CountedFrom, Self
    <2> QED
      BY <2>1 DEF Init, CountOK
  <1> QED
    BY <1>1, <1>2, <1>3, <1>5, <1>6, <1>7, <1>8 DEF QuorumInv, FieldsOK

LEMMA StutterQuorum ==
    ASSUME QuorumInv, UNCHANGED vars
    PROVE  QuorumInv'
  <1>1. Inv'
    BY StutterInv DEF QuorumInv
  <1>2. FieldsOK'
    BY DEF QuorumInv, vars, FieldsOK, PledgesOK, QuorumOK, Proposing, NumbersOK, CounterOK,
      AttemptsLeft, Executing, StatusOK, CommitsOK, Backers
  <1>3. Kept
    BY DEF vars, Kept, Stable, CountKept, Fresh, AcceptPhaseBegun, Self
  <1> QED
    BY <1>1, <1>2, <1>3, QuietStep DEF vars, QuorumInv, Inv, LocalInv

LEMMA NextQuorum == QuorumInv /\ [Next]_vars => QuorumInv'
  <1> SUFFICES ASSUME QuorumInv, [Next]_vars PROVE QuorumInv'
    OBVIOUS
  <1>1. Inv'
    BY NextInv DEF QuorumInv
  <1> QED
    BY <1>1, MainQuorum, ReceiverQuorum, StutterQuorum DEF Next

-----------------------------------------------------------------------------
(* The theorems *)

\* The invariant about requests, answers and counts holds in every reachable state.
THEOREM QuorumInvariance == Spec => []QuorumInv
  BY InitQuorum, NextQuorum, PTL DEF Spec

\* What is announced has a majority behind it, however late, lost or stale the
\* answers were that the proposer counted.
THEOREM CommitBacked == Spec => []CommitBackedByMajority
  <1>1. QuorumInv => CommitBackedByMajority
    BY DEF QuorumInv, FieldsOK, CommitsOK, Backers, CommitBackedByMajority
  <1> QED
    BY <1>1, QuorumInvariance, PTL

\* Success is reported only where a leader is known.
THEOREM LeaderIsKnown == Spec => []OkMeansLeaderKnown
  <1>1. QuorumInv => OkMeansLeaderKnown
    BY DEF QuorumInv, Inv, LocalInv, VarTypes, FieldsOK, StatusOK, OkMeansLeaderKnown
  <1> QED
    BY <1>1, QuorumInvariance, PTL

\* A call of leaderElection takes no more numbers than it has attempts.
THEOREM AttemptsAreBounded == Spec => []AttemptsBounded
  <1>1. ASSUME QuorumInv, NEW n \in Node
        PROVE  paxosProposalNumber[n] <= 88 + RetryCountLE * elections[n]
    <2>1. /\ AttemptsLeft(n) \in Nat /\ RetryCountLE * elections[n] \in Nat
          /\ paxosProposalNumber[n] \in Nat
      BY <1>1, AttemptsLeftNat DEF QuorumInv, Inv, LocalInv, VarTypes
    <2>2. paxosProposalNumber[n] + AttemptsLeft(n) <= 88 + RetryCountLE * elections[n]
      BY <1>1 DEF QuorumInv, FieldsOK, NumbersOK, CounterOK
    <2> QED
      BY <2>1, <2>2
  <1>2. QuorumInv => AttemptsBounded
    BY <1>1 DEF AttemptsBounded
  <1> QED
    BY <1>2, QuorumInvariance, PTL

-----------------------------------------------------------------------------
(***************************************************************************)
(* The election implements QuorumCommit: every step is a pledge, a vote, a *)
(* commit or a stutter of the abstract specification.                      *)
(***************************************************************************)

LEMMA InitImplements == Init => QC!Init
  BY DEF Init, QC!Init

\* A member promises itself ...
LEMMA PromiseSelfImplements ==
    ASSUME QuorumInv, NEW n \in Node, PromiseSelf(n)
    PROVE  QC!Pledge(n, internalProposalNumber[n]) /\ internalProposalNumber[n] \in Number
  BY DEF QuorumInv, FieldsOK, NumbersOK, Executing, PromiseSelf, QC!Pledge

\* ... or another one that its number is the lowest it will accept.
LEMMA ReceivePrepareImplements ==
    ASSUME QuorumInv, NEW n \in Node, NEW m \in Node, ReceivePrepare(n, m)
    PROVE  \/ UNCHANGED historyVars
           \/ \E num \in Number : QC!Pledge(n, num)
  <1> DEFINE msg == Head(chan[m][n])
  <1>1. msg.num \in Number
    <2>1. msg \in OkExchange(m, n) /\ msg.type = "PREPARE"
      BY HeadIsGood DEF QuorumInv, ExchangeOK, ReceivePrepare, Arrived
    <2> QED
      BY <2>1 DEF OkExchange
  <1> HIDE DEF msg
  <1>2. \/ pledges' = pledges
        \/ pledges' = pledges \union {<<n, msg.num>>}
    BY DEF ReceivePrepare, msg
  <1>3. UNCHANGED <<votes, commits>>
    BY DEF ReceivePrepare
  <1> QED
    BY <1>1, <1>2, <1>3 DEF QC!Pledge

\* It accepts nothing but what it has promised.
LEMMA AcceptSelfImplements ==
    ASSUME QuorumInv, NEW n \in Node, AcceptSelf(n)
    PROVE  \/ UNCHANGED historyVars
           \/ \E num \in Number : QC!Vote(n, num)
  <1>1. /\ <<n, internalProposalNumber[n]>> \in pledges
        /\ internalProposalNumber[n] \in Number
    BY DEF QuorumInv, FieldsOK, PledgesOK, NumbersOK, Executing, AcceptSelf
  <1> QED
    BY <1>1 DEF AcceptSelf, QC!Vote

LEMMA ReceiveAcceptRequestedImplements ==
    ASSUME QuorumInv, NEW n \in Node, NEW m \in Node, ReceiveAcceptRequested(n, m)
    PROVE  \E num \in Number : QC!Vote(n, num)
  <1> DEFINE num == Head(chan[m][n]).num
  <1>1. num = lastPromised[n] /\ num # 0
    <2>1. Head(chan[m][n]) \in OkMessage(m)
      BY HeadIsGood DEF QuorumInv, Inv, StreamsOK, ReceiveAcceptRequested, Arrived
    <2> QED
      BY <2>1, MessageFields DEF ReceiveAcceptRequested, Acceptable
  <1>2. votes' = votes \union {<<n, num>>} /\ UNCHANGED <<pledges, commits>>
    BY DEF ReceiveAcceptRequested
  <1> HIDE DEF num
  <1>3. <<n, num>> \in pledges
    BY <1>1 DEF QuorumInv, FieldsOK, PledgesOK
  <1>4. num \in Number
    BY <1>3 DEF QuorumInv, FieldsOK, NumbersOK
  <1> QED
    BY <1>2, <1>3, <1>4 DEF QC!Vote

\* The instance has its own copy of the library's Cardinality.
LEMMA SameCardinality == \A S : QC!Cardinality(S) = Cardinality(S)
  BY DEF QC!Cardinality, Cardinality

\* It announces once, and only what a majority accepted, itself counted in.
LEMMA CommitImplements ==
    ASSUME QuorumInv, NEW n \in Node, Commit(n)
    PROVE  QC!Commit(n, internalProposalNumber[n], lastAcceptedValue[n])
  <1> DEFINE num == internalProposalNumber[n]
             new == [by |-> n, num |-> num, val |-> lastAcceptedValue[n]]
  <1>1. pc[n] = "waitAccept" /\ acceptedRecieved[n] >= Cardinality(participatingMembers[n])
    BY DEF Commit
  <1>2. <<n, num>> \in pledges
    BY <1>1 DEF QuorumInv, FieldsOK, PledgesOK
  <1>3. QC!Chosen(n, num)
    <2> DEFINE A == {a \in Node : <<a, num>> \in votes \/ a = n}
    <2>1. IsMajority(Backers(new))
      BY <1>1, CountedHasBackers DEF QuorumInv
    <2>2. Backers(new) \subseteq A /\ A \subseteq Node
      BY DEF Backers
    <2>3. IsFiniteSet(A)
      BY <2>2, NodeAssumption, FS_Subset
    <2>4. Cardinality(Backers(new)) <= Cardinality(A)
      BY <2>2, <2>3, FS_Subset
    <2>5. /\ Cardinality(Backers(new)) \in Nat /\ Cardinality(A) \in Nat
          /\ Cardinality(Node) \in Nat
      BY <2>2, <2>3, NodeAssumption, FS_Subset, FS_CardinalityType
    <2>6. 2 * Cardinality(A) > Cardinality(Node)
      <3> HIDE DEF A, new
      <3> QED
        BY <2>1, <2>4, <2>5 DEF IsMajority
    <2> QED
      BY <2>6, SameCardinality DEF QC!Chosen
  <1>4. ASSUME NEW c \in commits
        PROVE  c.by # n /\ c.num # num
    <2>1. c.by # n
      BY <1>1 DEF QuorumInv, FieldsOK, CommitsOK, Proposing
    <2>2. num % UidSpan = n /\ c.num % UidSpan = c.by
      BY <1>1 DEF QuorumInv, Inv, LocalInv, OwnNumbers, Executing, FieldsOK, CommitsOK
    <2> QED
      BY <2>1, <2>2
  <1>5. commits' = commits \union {new} /\ UNCHANGED <<pledges, votes>>
    BY DEF Commit
  <1> QED
    BY <1>2, <1>3, <1>4, <1>5 DEF QC!Commit

\* No other step touches the record.
LEMMA OthersStutter ==
    ASSUME NEW n \in Node, NEW m \in Node,
           LeaderElection(n) \/ Proceed(n) \/ Crash(n) \/ Receive(n, m),
           ~(PromiseSelf(n) \/ AcceptSelf(n) \/ Commit(n)),
           ~(ReceivePrepare(n, m) \/ ReceiveAcceptRequested(n, m))
    PROVE  UNCHANGED historyVars
  BY DEF LeaderElection, Proceed, Crash, SoloLeader, Refuse, SelectQuorum, AlreadyCompleted,
    SendPrepare, PrepareTimeout, RequestAccept, AcceptTimeout, Elected, FoundLeader, Retry,
    Receive, DropPrepare, ReceivePromise, DropAcceptRequested, ReceiveAccepted,
    ReceiveLeaderElected

LEMMA NextImplements ==
    ASSUME QuorumInv, [Next]_vars
    PROVE  [QC!Next]_historyVars
  <1>1. ASSUME NEW n \in Node, NEW m \in Node,
               LeaderElection(n) \/ Proceed(n) \/ Crash(n) \/ Receive(n, m)
        PROVE  [QC!Next]_historyVars
    <2>1. CASE PromiseSelf(n)
      BY <2>1, PromiseSelfImplements DEF QC!Next
    <2>2. CASE ReceivePrepare(n, m)
      BY <2>2, ReceivePrepareImplements DEF QC!Next
    <2>3. CASE AcceptSelf(n)
      BY <2>3, AcceptSelfImplements DEF QC!Next
    <2>4. CASE ReceiveAcceptRequested(n, m)
      BY <2>4, ReceiveAcceptRequestedImplements DEF QC!Next
    <2>5. CASE Commit(n)
      <3>1. internalProposalNumber[n] \in Number /\ lastAcceptedValue[n] \in Node \union {0}
        BY <2>5 DEF QuorumInv, Inv, LocalInv, VarTypes, FieldsOK, NumbersOK, Executing, Commit
      <3> QED
        BY <2>5, <3>1, CommitImplements DEF QC!Next
    <2> QED
      BY <1>1, <2>1, <2>2, <2>3, <2>4, <2>5, OthersStutter
  <1>2. CASE UNCHANGED vars
    BY <1>2 DEF vars
  <1> QED
    BY <1>1, <1>2 DEF Next

\* The election implements the abstract specification, for every cluster, with
\* any losses and crashes.
THEOREM Implements == Spec => ImplementsQuorumCommit
  <1>1. QuorumInv /\ [Next]_vars => [QC!Next]_<<pledges, votes, commits>>
    BY NextImplements DEF historyVars
  <1> QED
    BY <1>1, InitImplements, QuorumInvariance, PTL DEF Spec, ImplementsQuorumCommit, QC!Spec

=============================================================================
