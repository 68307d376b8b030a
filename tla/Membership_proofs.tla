------------------------- MODULE Membership_proofs -------------------------
(***************************************************************************)
(* Proofs about Membership: the vector of members and the threads that go  *)
(* through it, for any heap, any hosts and IDs, and any number of calls.   *)
(***************************************************************************)
EXTENDS Membership, SequenceTheorems, WellFoundedInduction, TLAPS

-----------------------------------------------------------------------------
(* The inductive invariant *)

MemberObject ==
    [use : {"unused", "live", "freed"}, host : Host, memberID : MemberId,
     memberState : MemberState, network : Network, thread : BOOLEAN]

Walk == [on : BOOLEAN, rest : Seq(Heap), lost : BOOLEAN, id : MemberId]

MemberTypes ==
    /\ alive \in BOOLEAN
    /\ mpc \in {"idle", "open", "push", "delete", "elect"}
    /\ target \in Heap
    /\ calls \in 0..MaxCalls
    /\ object \in [Heap -> MemberObject]
    /\ clusterMembers \in Seq(Heap)
    /\ capacity \in Nat \ {0} /\ Len(clusterMembers) <= capacity
    /\ clusterMemberCount \in Int /\ wild \in Int
    /\ leaderClusterMember \in Heap \union {NoLeader}
    /\ walk \in [Thread -> Walk]
    /\ shifted \in BOOLEAN /\ removed \in BOOLEAN

\* A thread that is not in setLeader has nothing left of an earlier call; one that
\* is was started, or is the main thread in leaderElection.
WalksOK ==
    /\ \A t \in Thread : ~walk[t].on => walk[t] = NoWalk
    /\ \A a \in Heap : walk[a].on => object[a].thread
    /\ walk[Main].on => mpc = "elect"

InVector(a) == \E i \in 1..Len(clusterMembers) : clusterMembers[i] = a

\* The members in the vector, the one the main thread works on, and the rest of
\* the heap.
VectorOK ==
    /\ \A i \in 1..Len(clusterMembers) : object[clusterMembers[i]].use = "live"
    /\ \A i, j \in 1..Len(clusterMembers) : i # j => clusterMembers[i] # clusterMembers[j]
    /\ mpc \in {"open", "push", "delete"} => object[target].use = "live" /\ ~InVector(target)
    /\ mpc = "open" => object[target].network = "null"
    /\ \A a \in Heap : /\ object[a].thread => object[a].use = "live"
                       /\ object[a].use = "freed" => object[a].network = "dangling"
    /\ clusterMemberCount - wild = Counted

\* A call of setLeader that lost its place in the vector never returns.
Doomed == \E t \in Thread : walk[t].lost

\* What is left of a call of setLeader is the end of the vector.
Suffix(w) ==
    /\ Len(w.rest) <= Len(clusterMembers)
    /\ \A i \in 1..Len(w.rest) :
          w.rest[i] = clusterMembers[Len(clusterMembers) - Len(w.rest) + i]

\* The i-th member will be visited by a call that is under way.
Ahead(i) == \E t \in Thread : walk[t].on /\ i > Len(clusterMembers) - Len(walk[t].rest)

\* A member in state LEADER was named by one of the recent calls, or will be visited.
Leads(o) == o.memberState = "LEADER" /\ o.network # "dangling"

StatesOK ==
    /\ \A t \in Thread : walk[t].on => Suffix(walk[t]) /\ walk[t].id \in recent
    /\ mpc \in {"open", "push"} => ~Leads(object[target])
    /\ ~shifted =>
         \A i \in 1..Len(clusterMembers) :
            Leads(object[clusterMembers[i]]) =>
                object[clusterMembers[i]].memberID \in recent \/ Ahead(i)

Announced == Value \union {object[Local].memberID}

\* While nobody was removed, whatever setLeader visits is in the vector.
LeaderOK ==
    /\ InVector(Local)
    /\ \A t \in Thread : /\ \A i \in 1..Len(walk[t].rest) : InVector(walk[t].rest[i])
                         /\ walk[t].on => walk[t].id \in Announced
    /\ leaderClusterMember # NoLeader =>
         InVector(leaderClusterMember) /\ object[leaderClusterMember].memberID \in Announced

MemberInv ==
    /\ MemberTypes /\ WalksOK
    /\ alive => VectorOK
    /\ alive /\ ~Doomed => StatesOK
    /\ alive /\ ~removed /\ mpc # "delete" => LeaderOK

USE DEF mainVars, vectorVars, historyVars

-----------------------------------------------------------------------------
(* Sequences, and the values of the variables *)

LEMMA MinIsMember ==
    ASSUME NEW S \in SUBSET Nat, S # {}
    PROVE  Min(S) \in S
  <1> DEFINE R == OpToRel(<, Nat)
  <1>1. \A x, y \in Nat : <<y, x>> \notin R => x =< y
    BY DEF OpToRel
  <1>2. \E x \in S : \A y \in S : <<y, x>> \notin R
    BY NatLessThanWellFounded, WFMin, Zenon
  <1>3. \E x \in S : \A y \in S : x =< y
    BY <1>1, <1>2
  <1> QED
    BY <1>3 DEF Min

\* RemoveAt closes the gap.
LEMMA RemoveIndex ==
    ASSUME NEW S, NEW s \in Seq(S), NEW i \in 1..Len(s)
    PROVE  /\ RemoveAt(s, i) \in Seq(S) /\ Len(RemoveAt(s, i)) = Len(s) - 1 /\ Len(s) \in Nat
           /\ \A j \in 1..(Len(s) - 1) :
                 RemoveAt(s, i)[j] = IF j < i THEN s[j] ELSE s[j + 1]
  <1> DEFINE r == RemoveAt(s, i)
             a == SubSeq(s, 1, i - 1)
             b == SubSeq(s, i + 1, Len(s))
  <1>1. a \in Seq(S) /\ Len(a) = i - 1 /\ \A j \in 1..(i - 1) : a[j] = s[j]
    OBVIOUS
  <1>2. /\ b \in Seq(S) /\ Len(b) = Len(s) - i
        /\ \A j \in 1..(Len(s) - i) : b[j] = s[i + j]
    OBVIOUS
  <1>3. r = a \o b
    BY DEF RemoveAt
  <1> HIDE DEF a, b, r
  <1>4. r \in Seq(S) /\ Len(r) = Len(s) - 1 /\ Len(s) \in Nat
    BY <1>1, <1>2, <1>3
  <1>5. ASSUME NEW j \in 1..(Len(s) - 1)
        PROVE  r[j] = IF j < i THEN s[j] ELSE s[j + 1]
    <2>1. CASE j < i
      BY <1>1, <1>2, <1>3, <1>4, <2>1
    <2>2. CASE ~(j < i)
      <3>1. r[j] = b[j - (i - 1)] /\ j - (i - 1) \in 1..(Len(s) - i)
        BY <1>1, <1>2, <1>3, <1>4, <2>2
      <3> QED
        BY <1>2, <2>2, <3>1
    <2> QED
      BY <2>1, <2>2
  <1> QED
    BY <1>4, <1>5 DEF r

LEMMA HeapFacts ==
    /\ Heap \subseteq Nat \ {0} /\ Local \in Heap /\ NoLeader \notin Heap
    /\ Main \notin Heap /\ Main \in Thread /\ Heap \subseteq Thread
    /\ Value \subseteq MemberId /\ InvalidId \in MemberId /\ 0 \in MemberId
    /\ \A h \in Host : IdOf[h] \in MemberId
    /\ LocalHost \in Host /\ MaxCalls \in Nat
  <1>1. Heap \subseteq Nat \ {0} /\ 1 \in Heap
    <2>1. PICK k : k = Cardinality(Heap)
      OBVIOUS
    <2>2. Heap = 1..k /\ 1 \in Heap
      BY <2>1, MembershipAssumption
    <2>3. \A x \in 1..k : x \in Nat \ {0}
      OBVIOUS
    <2> QED
      BY <2>2, <2>3
  <1>2. MaxId \in Nat
    BY DEF MaxId
  <1>3. 0..MaxId \subseteq MemberId /\ InvalidId \in MemberId /\ 0 \in 0..MaxId
    BY <1>2 DEF MemberId, InvalidId
  <1> QED
    BY <1>1, <1>3, MembershipAssumption DEF Local, NoLeader, Main, Thread

LEMMA NoWalkFacts ==
    /\ NoWalk \in Walk
    /\ NoWalk.on = FALSE /\ NoWalk.lost = FALSE /\ Len(NoWalk.rest) = 0 /\ NoWalk.rest = <<>>
  BY HeapFacts DEF NoWalk, Walk

\* The fields of what is at each address, and of a call of setLeader.
LEMMA FieldFacts ==
    ASSUME MemberTypes
    PROVE  /\ \A a \in Heap : /\ object[a] \in MemberObject
                              /\ object[a].use \in {"unused", "live", "freed"}
                              /\ object[a].host \in Host /\ object[a].memberID \in MemberId
                              /\ object[a].memberState \in MemberState
                              /\ object[a].network \in Network /\ object[a].thread \in BOOLEAN
           /\ \A t \in Thread : /\ walk[t] \in Walk /\ walk[t].rest \in Seq(Heap)
                                /\ walk[t].on \in BOOLEAN /\ walk[t].lost \in BOOLEAN
                                /\ walk[t].id \in MemberId /\ Len(walk[t].rest) \in Nat
                                /\ \A i \in 1..Len(walk[t].rest) : walk[t].rest[i] \in Heap
           /\ clusterMembers \in Seq(Heap) /\ Len(clusterMembers) \in Nat
           /\ \A i \in 1..Len(clusterMembers) : clusterMembers[i] \in Heap
  <1>1. \A a \in Heap : object[a] \in MemberObject
    BY DEF MemberTypes
  <1>2. \A o \in MemberObject :
           /\ o.use \in {"unused", "live", "freed"}
           /\ o.host \in Host /\ o.memberID \in MemberId
           /\ o.memberState \in MemberState
           /\ o.network \in Network /\ o.thread \in BOOLEAN
    BY DEF MemberObject
  <1>3. \A t \in Thread : walk[t] \in Walk
    BY DEF MemberTypes
  <1>4. \A w \in Walk : /\ w.rest \in Seq(Heap) /\ w.on \in BOOLEAN /\ w.lost \in BOOLEAN
                        /\ w.id \in MemberId /\ Len(w.rest) \in Nat
                        /\ \A i \in 1..Len(w.rest) : w.rest[i] \in Heap
    BY DEF Walk
  <1>5. /\ clusterMembers \in Seq(Heap) /\ Len(clusterMembers) \in Nat
        /\ \A i \in 1..Len(clusterMembers) : clusterMembers[i] \in Heap
    BY DEF MemberTypes
  <1> QED
    BY <1>1, <1>2, <1>3, <1>4, <1>5

-----------------------------------------------------------------------------
(* The initial states *)

LEMMA ZerosFacts ==
    Zeros \in MemberObject /\ Zeros.use = "unused" /\ Zeros.thread = FALSE
    /\ Zeros.network = "null" /\ Zeros.memberState = "ONLINE"
  <1>1. 0 \in MemberId /\ LocalHost \in Host
    BY HeapFacts
  <1> QED
    BY <1>1 DEF Zeros, MemberObject, MemberState, Network

LEMMA InitMembers ==
    Init => MemberInv
  <1> SUFFICES ASSUME Init
               PROVE  MemberInv
    OBVIOUS
  <1>1. PICK bound \in BOOLEAN :
           object = [a \in Heap |-> IF a = Local THEN LocalMember(bound) ELSE Zeros]
    BY DEF Init
  <1>2. PICK o : o = LocalMember(bound)
    OBVIOUS
  <1>3. o \in MemberObject /\ o.use = "live"
    <2>1. IdOf[LocalHost] \in MemberId /\ InvalidId \in MemberId /\ LocalHost \in Host
      BY HeapFacts
    <2> QED
      BY <1>2, <2>1 DEF LocalMember, MemberObject, MemberState, Network
  <1>4. \A a \in Heap : object[a] = IF a = Local THEN o ELSE Zeros
    BY <1>1, <1>2
  <1>5. /\ clusterMembers \in Seq(Heap) /\ Len(clusterMembers) = 1 /\ clusterMembers[1] = Local
        /\ capacity = 1 /\ wild \in Int /\ clusterMemberCount = wild + 1
        /\ leaderClusterMember = NoLeader
    BY HeapFacts, MembershipAssumption DEF Init
  <1>6. \A t \in Thread : walk[t] = NoWalk
    BY DEF Init
  <1>7. MemberTypes
    <2>1. object \in [Heap -> MemberObject]
      BY <1>1, <1>2, <1>3, ZerosFacts
    <2>2. walk \in [Thread -> Walk]
      BY NoWalkFacts DEF Init
    <2> QED
      <3>1. alive \in BOOLEAN /\ shifted \in BOOLEAN /\ removed \in BOOLEAN
        BY DEF Init
      <3>2. mpc = "idle" /\ target \in Heap /\ calls \in 0..MaxCalls
        BY HeapFacts DEF Init
      <3> QED
        BY <1>5, <2>1, <2>2, <3>1, <3>2 DEF MemberTypes
  <1>8. WalksOK
    BY <1>6, HeapFacts, NoWalkFacts DEF WalksOK
  <1>9. VectorOK
    BY <1>3, <1>4, <1>5, HeapFacts, ZerosFacts DEF Init, VectorOK, Counted
  <1>10. StatesOK
    <2>1. o.memberState = "UNKNOWN"
      BY <1>2 DEF LocalMember
    <2>2. \A i \in 1..Len(clusterMembers) : ~Leads(object[clusterMembers[i]])
      BY <1>4, <1>5, <2>1, HeapFacts DEF Leads
    <2>3. mpc = "idle" /\ \A t \in Thread : ~walk[t].on
      BY <1>6, NoWalkFacts DEF Init
    <2> QED
      BY <2>2, <2>3 DEF StatesOK
  <1>11. LeaderOK
    BY <1>5, <1>6, NoWalkFacts DEF LeaderOK, InVector
  <1> QED
    BY <1>7, <1>8, <1>9, <1>10, <1>11 DEF MemberInv

-----------------------------------------------------------------------------
(* Steps that change an object outside of the vector *)

\* What such a step may do to the object at a, and to the main thread.
Outside(a, o) ==
    /\ a \in Heap /\ ~InVector(a)
    /\ o \in MemberObject
    /\ object' = [object EXCEPT ![a] = o]
    /\ UNCHANGED <<alive, clusterMembers, capacity, leaderClusterMember, walk, wild, recent,
                   shifted>>
    /\ target' \in Heap /\ calls' \in 0..MaxCalls /\ removed' \in BOOLEAN
    /\ mpc # "elect" /\ mpc' \in {"idle", "open", "push", "delete"}
    /\ clusterMemberCount' \in Int /\ clusterMemberCount' - wild = Counted'
    /\ walk[a].on => o.thread
    /\ o.thread => o.use = "live"
    /\ o.use = "freed" => o.network = "dangling"
    /\ mpc' \in {"open", "push", "delete"} => target' = a /\ o.use = "live"
    /\ mpc' = "open" => o.network = "null"
    /\ ~Doomed /\ mpc' \in {"open", "push"} => ~Leads(o)
    /\ ~removed' /\ mpc' # "delete" => ~removed /\ mpc # "delete"

LEMMA OutsideStep ==
    ASSUME MemberInv, alive, NEW a, NEW o, Outside(a, o)
    PROVE  MemberInv'
  <1>1. \A b \in Heap : object'[b] = IF b = a THEN o ELSE object[b]
    BY DEF MemberInv, MemberTypes, Outside
  <1>2. \A b : InVector(b)' <=> InVector(b)
    BY DEF InVector, Outside
  <1>3. \A i \in 1..Len(clusterMembers) : /\ clusterMembers[i] \in Heap /\ clusterMembers[i] # a
                                          /\ object'[clusterMembers[i]] = object[clusterMembers[i]]
    BY <1>1, FieldFacts DEF InVector, MemberInv, Outside
  <1>4. MemberTypes'
    BY DEF MemberInv, MemberTypes, Outside
  <1>5. WalksOK'
    BY <1>1 DEF MemberInv, WalksOK, Outside
  <1>6. VectorOK'
    <2>1. VectorOK
      BY DEF MemberInv
    <2>2. /\ \A i \in 1..Len(clusterMembers') : object'[clusterMembers'[i]].use = "live"
          /\ \A i, j \in 1..Len(clusterMembers') : i # j => clusterMembers'[i] # clusterMembers'[j]
      BY <1>3, <2>1 DEF VectorOK, Outside
    <2>3. mpc' \in {"open", "push", "delete"} =>
             object'[target'].use = "live" /\ ~InVector(target)'
      BY <1>1 DEF InVector, Outside
    <2>4. mpc' = "open" => object'[target'].network = "null"
      BY <1>1 DEF Outside
    <2>5. \A b \in Heap : /\ object'[b].thread => object'[b].use = "live"
                          /\ object'[b].use = "freed" => object'[b].network = "dangling"
      BY <1>1, <2>1 DEF VectorOK, Outside
    <2>6. clusterMemberCount' - wild' = Counted'
      BY DEF Outside
    <2> QED
      BY <2>2, <2>3, <2>4, <2>5, <2>6 DEF VectorOK
  <1>7. ASSUME ~Doomed'
        PROVE  StatesOK'
    <2>1. StatesOK
      BY <1>7 DEF MemberInv, Doomed, Outside
    <2>2. \A t \in Thread : walk'[t].on => Suffix(walk[t])' /\ walk'[t].id \in recent'
      BY <2>1 DEF StatesOK, Suffix, Outside
    <2>3. mpc' \in {"open", "push"} => ~Leads(object'[target'])
      BY <1>1, <1>7 DEF Outside, Doomed
    <2>4. ~shifted' =>
             \A i \in 1..Len(clusterMembers') :
                Leads(object'[clusterMembers'[i]]) =>
                    object'[clusterMembers'[i]].memberID \in recent' \/ Ahead(i)'
      BY <1>3, <2>1 DEF StatesOK, Ahead, Outside
    <2> QED
      BY <2>2, <2>3, <2>4 DEF StatesOK, Suffix, Leads
  <1>8. ASSUME ~removed', mpc' # "delete"
        PROVE  LeaderOK'
    <2>1. LeaderOK
      BY <1>8 DEF MemberInv, Outside
    <2>2. Announced' = Announced
      <3>1. a # Local /\ Local \in Heap
        BY <2>1, HeapFacts DEF LeaderOK, Outside
      <3> QED
        BY <1>1, <3>1 DEF Announced
    <2>3. leaderClusterMember # NoLeader =>
             object'[leaderClusterMember] = object[leaderClusterMember]
      BY <1>3, <2>1 DEF LeaderOK, InVector
    <2> QED
      BY <1>2, <2>1, <2>2, <2>3 DEF LeaderOK, Outside
  <1> QED
    BY <1>4, <1>5, <1>6, <1>7, <1>8 DEF MemberInv

LEMMA AddMemberKeeps ==
    ASSUME MemberInv, NEW h \in Host, NEW a \in Heap, AddMember(h, a)
    PROVE  MemberInv'
  <1>1. alive /\ mpc = "idle" /\ object[a].use # "live" /\ VectorOK
    BY DEF AddMember, MayCall, MemberInv
  <1>2. PICK m \in Memory(a) :
           /\ object' = [object EXCEPT ![a] = [m EXCEPT !.use = "live", !.host = h]]
           /\ mpc' = IF m.network = "null" THEN "open" ELSE "push"
    BY DEF AddMember
  <1>3. PICK o : o = [m EXCEPT !.use = "live", !.host = h]
    OBVIOUS
  <1>4. m = Zeros \/ (m = object[a] /\ object[a].use = "freed")
    BY <1>1, <1>2, FieldFacts DEF Memory, MemberInv
  <1>5. m \in MemberObject /\ m.thread = FALSE /\ m.network \in {"null", "dangling"}
        /\ (m.network = "null" => m.memberState = "ONLINE")
    <2>1. CASE m = Zeros
      BY <2>1, ZerosFacts
    <2>2. CASE m = object[a] /\ object[a].use = "freed"
      BY <1>1, <2>2, FieldFacts DEF MemberInv, VectorOK
    <2> QED
      BY <1>4, <2>1, <2>2
  <1>6. /\ o \in MemberObject /\ o.use = "live" /\ o.thread = FALSE
        /\ o.network = m.network /\ o.memberState = m.memberState
    BY <1>3, <1>5 DEF MemberObject
  <1>7. ~InVector(a)
    BY <1>1 DEF VectorOK, InVector
  <1>8. ~walk[a].on
    BY <1>1, FieldFacts DEF MemberInv, WalksOK, VectorOK
  <1>9. mpc' = (IF o.network = "null" THEN "open" ELSE "push") /\ ~Leads(o)
    BY <1>2, <1>5, <1>6 DEF Leads
  <1>10. /\ calls' \in 0..MaxCalls /\ target' = a
         /\ clusterMemberCount' = clusterMemberCount /\ clusterMemberCount \in Int
    BY HeapFacts DEF AddMember, MayCall, MemberInv, MemberTypes
  <1>11. clusterMemberCount' - wild = Counted'
    BY <1>1, <1>9, <1>10 DEF VectorOK, Counted, AddMember
  <1>12. object' = [object EXCEPT ![a] = o]
    BY <1>2, <1>3
  <1>13. Outside(a, o)
    <2>1. removed' = removed /\ removed \in BOOLEAN
      BY DEF AddMember, MemberInv, MemberTypes
    <2>2. mpc' \in {"open", "push"} /\ (mpc' = "open" => o.network = "null")
      BY <1>9
    <2>3. ~o.thread /\ o.use # "freed"
      BY <1>6
    <2>4. UNCHANGED <<alive, vectorVars, leaderClusterMember, walk, historyVars>>
      BY DEF AddMember
    <2> QED
      BY <1>1, <1>6, <1>7, <1>8, <1>9, <1>10, <1>11, <1>12, <2>1, <2>2, <2>3, <2>4 DEF Outside
  <1> QED
    BY <1>1, <1>13, OutsideStep

LEMMA OpenKeeps ==
    ASSUME MemberInv, Open \/ OpenFails
    PROVE  MemberInv'
  <1>1. alive /\ mpc = "open" /\ target \in Heap /\ VectorOK
    BY DEF Open, OpenFails, MemberInv, MemberTypes
  <1>2. /\ object[target] \in MemberObject /\ object[target].use = "live"
        /\ object[target].network = "null" /\ ~InVector(target)
    BY <1>1, FieldFacts DEF VectorOK, MemberInv
  <1>3. PICK o : /\ o \in MemberObject /\ o.use = "live" /\ o.network \in {"open", "failed"}
                 /\ o.memberState = object[target].memberState
                 /\ object[target].thread => o.thread
                 /\ object' = [object EXCEPT ![target] = o]
    <2>1. CASE Open
      <3>1. PICK id : id = IdOf[object[target].host]
        OBVIOUS
      <3>2. id \in MemberId
        BY <1>1, <3>1, FieldFacts, HeapFacts DEF MemberInv
      <3>3. PICK o : o = [object[target] EXCEPT !.network = "open", !.thread = TRUE, !.memberID = id]
        OBVIOUS
      <3>4. /\ o \in MemberObject /\ o.use = "live" /\ o.network = "open" /\ o.thread = TRUE
            /\ o.memberState = object[target].memberState
        BY <1>2, <3>2, <3>3 DEF MemberObject, Network
      <3>5. object' = [object EXCEPT ![target] = o]
        BY <2>1, <3>1, <3>3, <1>1 DEF Open, MemberInv, MemberTypes
      <3> QED
        BY <3>4, <3>5
    <2>2. CASE OpenFails
      <3>1. PICK o : o = [object[target] EXCEPT !.network = "failed"]
        OBVIOUS
      <3>2. /\ o \in MemberObject /\ o.use = "live" /\ o.network = "failed"
            /\ o.memberState = object[target].memberState /\ o.thread = object[target].thread
        BY <1>2, <3>1 DEF MemberObject, Network
      <3>3. object' = [object EXCEPT ![target] = o]
        BY <2>2, <3>1 DEF OpenFails
      <3> QED
        BY <3>2, <3>3
    <2> QED
      BY <2>1, <2>2
  <1>4. /\ mpc' = "push" /\ target' = target
        /\ UNCHANGED <<alive, calls, vectorVars, leaderClusterMember, walk, historyVars>>
    BY DEF Open, OpenFails
  <1>5. walk[target].on => object[target].thread
    BY <1>1 DEF MemberInv, WalksOK
  <1>6. clusterMemberCount' - wild = Counted'
    BY <1>1, <1>4 DEF VectorOK, Counted, vectorVars
  <1>7. ~Doomed => ~Leads(o)
    <2>1. ~Doomed => ~Leads(object[target])
      BY <1>1 DEF MemberInv, StatesOK
    <2> QED
      BY <1>2, <1>3, <2>1 DEF Leads
  <1>8. /\ calls \in 0..MaxCalls /\ removed \in BOOLEAN /\ clusterMemberCount \in Int
        /\ target \in Heap
    BY DEF MemberInv, MemberTypes
  <1>9. Outside(target, o)
    BY <1>1, <1>2, <1>3, <1>4, <1>5, <1>6, <1>7, <1>8 DEF Outside
  <1> QED
    BY <1>1, <1>9, OutsideStep

LEMMA DeleteKeeps ==
    ASSUME MemberInv, Delete
    PROVE  MemberInv'
  <1>1. alive /\ mpc = "delete" /\ target \in Heap /\ VectorOK
    BY DEF Delete, MemberInv, MemberTypes
  <1>2. CASE ~object[target].thread /\ mpc' = "idle"
             /\ object' = [object EXCEPT ![target].use = "freed", ![target].network = "dangling"]
             /\ clusterMemberCount' = clusterMemberCount - 1 /\ removed' = TRUE /\ alive' = alive
    <2>1. PICK o : o = [object[target] EXCEPT !.use = "freed", !.network = "dangling"]
      OBVIOUS
    <2>2. /\ o \in MemberObject /\ o.use = "freed" /\ o.network = "dangling"
          /\ ~o.thread
      <3>1. object[target] \in MemberObject
        BY <1>1, FieldFacts DEF MemberInv
      <3>2. o.thread = object[target].thread
        BY <2>1, <3>1 DEF MemberObject
      <3> QED
        BY <1>2, <2>1, <3>1, <3>2 DEF MemberObject, Network
    <2>3. object' = [object EXCEPT ![target] = o]
      BY <1>1, <1>2, <2>1 DEF MemberInv, MemberTypes
    <2>4. ~InVector(target) /\ ~walk[target].on
      BY <1>1, <1>2 DEF VectorOK, MemberInv, WalksOK
    <2>5. /\ calls \in 0..MaxCalls /\ clusterMemberCount \in Int
          /\ wild \in Int /\ Len(clusterMembers) \in Nat
      BY DEF MemberInv, MemberTypes
    <2>6. UNCHANGED <<target, calls, clusterMembers, capacity, leaderClusterMember, walk, wild,
                      recent, shifted>>
      BY DEF Delete
    <2>7. clusterMemberCount' - wild = Counted'
      BY <1>1, <1>2, <2>5, <2>6 DEF VectorOK, Counted
    <2>8. mpc' = "idle" /\ removed' = TRUE /\ alive' = alive /\ clusterMemberCount' \in Int
      BY <1>2, <2>5
    <2>9. Outside(target, o)
      BY <1>1, <2>2, <2>3, <2>4, <2>5, <2>6, <2>7, <2>8 DEF Outside
    <2> QED
      BY <1>1, <2>9, OutsideStep
  <1>3. CASE ~alive' /\ UNCHANGED <<object, clusterMemberCount, removed, mpc>>
    <2>1. MemberTypes' /\ WalksOK'
      BY <1>3 DEF Delete, MemberInv, MemberTypes, WalksOK
    <2> QED
      BY <1>3, <2>1 DEF MemberInv
  <1> QED
    BY <1>2, <1>3 DEF Delete, Terminates

-----------------------------------------------------------------------------
(* Steps that change the vector *)

\* A call of setLeader after a push: it lost its place, or has one more to visit.
LEMMA PushedFacts ==
    ASSUME MemberInv, NEW t \in Thread, NEW a \in Heap
    PROVE  /\ Pushed(walk[t], a) \in Walk
           /\ Pushed(walk[t], a).on = walk[t].on /\ Pushed(walk[t], a).id = walk[t].id
           /\ walk[t].lost => Pushed(walk[t], a).lost
           /\ ~walk[t].on => Pushed(walk[t], a) = walk[t]
           /\ walk[t].on /\ ~walk[t].lost =>
                 \/ Pushed(walk[t], a).lost
                 \/ Pushed(walk[t], a).rest = Append(walk[t].rest, a)
           /\ \/ Pushed(walk[t], a).rest = walk[t].rest
              \/ Pushed(walk[t], a).rest = Append(walk[t].rest, a)
  <1>1. PICK w \in Walk : w = walk[t]
    BY FieldFacts DEF MemberInv
  <1>2. w.rest \in Seq(Heap) /\ Append(w.rest, a) \in Seq(Heap)
    BY <1>1 DEF Walk
  <1>3. PICK v : v = [w EXCEPT !.lost = TRUE]
    OBVIOUS
  <1>4. v \in Walk /\ v.on = w.on /\ v.id = w.id /\ v.lost = TRUE /\ v.rest = w.rest
    BY <1>3 DEF Walk
  <1>5. PICK q : q = Append(w.rest, a)
    OBVIOUS
  <1>6. PICK u : u = [w EXCEPT !.rest = q]
    OBVIOUS
  <1>7. u \in Walk /\ u.on = w.on /\ u.id = w.id /\ u.lost = w.lost /\ u.rest = q
    BY <1>2, <1>5, <1>6 DEF Walk
  <1>8. Pushed(w, a) = IF ~w.on \/ w.lost THEN w ELSE IF Len(clusterMembers) = capacity THEN v ELSE u
    BY <1>3, <1>5, <1>6 DEF Pushed
  <1>9. CASE ~w.on \/ w.lost
    BY <1>1, <1>8, <1>9
  <1>10. CASE w.on /\ ~w.lost /\ Len(clusterMembers) = capacity
    BY <1>1, <1>4, <1>8, <1>10
  <1>11. CASE w.on /\ ~w.lost /\ Len(clusterMembers) # capacity
    BY <1>1, <1>5, <1>7, <1>8, <1>11
  <1> QED
    BY <1>1, <1>9, <1>10, <1>11, FieldFacts DEF MemberInv

LEMMA PushBackKeeps ==
    ASSUME MemberInv, PushBack
    PROVE  MemberInv'
  <1>1. alive /\ mpc = "push" /\ target \in Heap /\ VectorOK /\ object[target].use = "live"
        /\ ~InVector(target)
    BY DEF PushBack, MemberInv, MemberTypes, VectorOK
  <1>2. PICK vec : vec = Append(clusterMembers, target)
    OBVIOUS
  <1>3. PICK n \in Nat : n = Len(clusterMembers)
    BY FieldFacts DEF MemberInv
  <1>4. /\ vec \in Seq(Heap) /\ Len(vec) = n + 1 /\ vec[n + 1] = target
        /\ \A i \in 1..n : vec[i] = clusterMembers[i]
    BY <1>1, <1>2, <1>3, FieldFacts DEF MemberInv
  <1>5. /\ clusterMembers' = vec /\ mpc' = "idle" /\ alive' /\ target' = target
        /\ clusterMemberCount' = clusterMemberCount + 1
        /\ capacity' = IF n = capacity THEN 2 * capacity ELSE capacity
        /\ walk' = [t \in Thread |-> Pushed(walk[t], target)]
        /\ UNCHANGED <<calls, object, leaderClusterMember, historyVars>>
    BY <1>1, <1>2, <1>3 DEF PushBack
  <1>6. MemberTypes'
    <2>1. walk' \in [Thread -> Walk]
      BY <1>1, <1>5, PushedFacts
    <2>2. capacity' \in Nat \ {0} /\ Len(clusterMembers') <= capacity'
      BY <1>3, <1>4, <1>5 DEF MemberInv, MemberTypes
    <2> QED
      BY <1>1, <1>4, <1>5, <2>1, <2>2 DEF MemberInv, MemberTypes
  <1>7. \A t \in Thread :
           /\ walk'[t].on = walk[t].on /\ walk'[t].id = walk[t].id
           /\ walk[t].lost => walk'[t].lost
           /\ ~walk[t].on => walk'[t] = walk[t]
           /\ walk[t].on /\ ~walk[t].lost =>
                 walk'[t].lost \/ walk'[t].rest = Append(walk[t].rest, target)
           /\ walk'[t].rest = walk[t].rest \/ walk'[t].rest = Append(walk[t].rest, target)
    BY <1>1, <1>5, PushedFacts
  <1>8. WalksOK'
    <2>1. WalksOK /\ mpc # "elect"
      BY <1>1 DEF MemberInv
    <2>2. ~walk'[Main].on
      BY <1>7, <2>1, HeapFacts DEF WalksOK
    <2>3. /\ \A t \in Thread : ~walk'[t].on => walk'[t] = NoWalk
          /\ \A a \in Heap : walk'[a].on => object[a].thread
      BY <1>7, <2>1, HeapFacts DEF WalksOK
    <2> QED
      BY <1>5, <2>2, <2>3 DEF WalksOK
  <1>9. VectorOK'
    <2>1. \A i \in 1..Len(clusterMembers') : object'[clusterMembers'[i]].use = "live"
      BY <1>1, <1>3, <1>4, <1>5 DEF VectorOK
    <2>2. ASSUME NEW i \in 1..Len(clusterMembers'), NEW j \in 1..Len(clusterMembers'), i # j
          PROVE  clusterMembers'[i] # clusterMembers'[j]
      <3>1. \A x \in 1..(n + 1) : x = n + 1 \/ x \in 1..n
        BY <1>3
      <3>2. \A x \in 1..n : clusterMembers[x] # target
        BY <1>1, <1>3 DEF InVector
      <3> QED
        BY <1>1, <1>3, <1>4, <1>5, <2>2, <3>1, <3>2 DEF VectorOK
    <2>3. clusterMemberCount' - wild' = Counted'
      <3>1. Counted = n /\ Counted' = n + 1
        BY <1>1, <1>3, <1>4, <1>5 DEF Counted
      <3>2. clusterMemberCount \in Int /\ wild \in Int /\ clusterMemberCount - wild = Counted
        BY <1>1 DEF VectorOK, MemberInv, MemberTypes
      <3> QED
        BY <1>3, <1>5, <3>1, <3>2
    <2> QED
      BY <1>1, <1>5, <2>1, <2>2, <2>3 DEF VectorOK
  <1>10. \A t \in Thread : /\ Append(walk[t].rest, target) \in Seq(Heap)
                           /\ Len(walk[t].rest) \in Nat
                           /\ Len(Append(walk[t].rest, target)) = Len(walk[t].rest) + 1
                           /\ Append(walk[t].rest, target)[Len(walk[t].rest) + 1] = target
                           /\ \A i \in 1..Len(walk[t].rest) :
                                 Append(walk[t].rest, target)[i] = walk[t].rest[i]
    <2>1. \A q \in Seq(Heap) : /\ Append(q, target) \in Seq(Heap)
                               /\ Len(q) \in Nat /\ Len(Append(q, target)) = Len(q) + 1
                               /\ Append(q, target)[Len(q) + 1] = target
                               /\ \A i \in 1..Len(q) : Append(q, target)[i] = q[i]
      BY <1>1
    <2> QED
      BY <2>1, FieldFacts DEF MemberInv
  <1>11. ASSUME ~Doomed'
         PROVE  StatesOK'
    <2>1. ~Doomed /\ StatesOK
      BY <1>1, <1>7, <1>11 DEF MemberInv, Doomed
    <2>2. \A t \in Thread : walk[t].on => walk'[t].rest = Append(walk[t].rest, target)
      BY <1>7, <1>11, <2>1 DEF Doomed
    <2>3. ASSUME NEW t \in Thread, walk'[t].on
          PROVE  Suffix(walk[t])' /\ walk'[t].id \in recent'
      <3>1. Suffix(walk[t]) /\ walk[t].id \in recent /\ walk[t].on
        BY <1>7, <2>1, <2>3 DEF StatesOK
      <3>2. PICK m \in Nat : m = Len(walk[t].rest)
        BY <1>10
      <3>3. PICK q : q = walk'[t].rest
        OBVIOUS
      <3>4. /\ Len(q) = m + 1 /\ q[m + 1] = target
            /\ \A i \in 1..m : q[i] = walk[t].rest[i]
        BY <1>10, <2>2, <3>1, <3>2, <3>3
      <3>5. m <= n /\ \A i \in 1..m : walk[t].rest[i] = clusterMembers[n - m + i]
        BY <1>3, <3>1, <3>2 DEF Suffix
      <3>6. \A i \in 1..(m + 1) : q[i] = vec[(n + 1) - (m + 1) + i]
        <4>1. ASSUME NEW i \in 1..m
              PROVE  q[i] = vec[n - m + i]
          <5>1. n - m + i \in 1..n
            BY <3>5
          <5> QED
            BY <1>4, <3>4, <3>5, <5>1
        <4>2. q[m + 1] = vec[n - m + (m + 1)]
          BY <1>4, <3>4
        <4>3. (n + 1) - (m + 1) = n - m /\ \A i \in 1..(m + 1) : i = m + 1 \/ i \in 1..m
          OBVIOUS
        <4> QED
          BY <4>1, <4>2, <4>3
      <3> QED
        <4>1. Len(q) = m + 1 /\ Len(vec) = n + 1 /\ m + 1 <= n + 1
          BY <1>4, <3>4, <3>5
        <4>2. Len(q) <= Len(vec) /\ \A i \in 1..Len(q) : q[i] = vec[Len(vec) - Len(q) + i]
          BY <3>6, <4>1
        <4>3. Suffix(walk[t])'
          BY <1>5, <3>3, <4>2 DEF Suffix
        <4> QED
          BY <1>5, <1>7, <3>1, <4>3
    <2>4. ASSUME ~shifted', NEW i \in 1..Len(clusterMembers'), Leads(object'[clusterMembers'[i]])
          PROVE  object'[clusterMembers'[i]].memberID \in recent' \/ Ahead(i)'
      <3>1. i # n + 1
        BY <1>1, <1>4, <1>5, <2>1, <2>4 DEF StatesOK
      <3>2. i \in 1..n /\ clusterMembers'[i] = clusterMembers[i]
        BY <1>4, <1>5, <3>1
      <3>3. object[clusterMembers[i]].memberID \in recent \/ Ahead(i)
        BY <1>3, <1>5, <2>1, <2>4, <3>2 DEF StatesOK
      <3>4. ASSUME NEW t \in Thread, walk[t].on, i > n - Len(walk[t].rest)
            PROVE  walk'[t].on /\ i > Len(clusterMembers') - Len(walk'[t].rest)
        <4>1. Len(walk'[t].rest) = Len(walk[t].rest) + 1 /\ Len(walk[t].rest) \in Nat
          BY <1>10, <2>2, <3>4
        <4> QED
          BY <1>4, <1>5, <1>7, <3>2, <3>4, <4>1
      <3> QED
        BY <1>3, <1>5, <3>2, <3>3, <3>4 DEF Ahead
    <2> QED
      BY <1>5, <2>3, <2>4 DEF StatesOK, Leads
  <1>12. ASSUME ~removed'
         PROVE  LeaderOK'
    <2>1. LeaderOK
      BY <1>1, <1>5, <1>12 DEF MemberInv
    <2>2. \A a : InVector(a) => InVector(a)'
      BY <1>3, <1>4, <1>5 DEF InVector
    <2>3. InVector(target)'
      <3>1. n + 1 \in 1..Len(clusterMembers') /\ clusterMembers'[n + 1] = target'
        BY <1>4, <1>5
      <3> QED
        BY <3>1 DEF InVector
    <2>4. Announced' = Announced
      BY <1>5 DEF Announced
    <2>5. \A t \in Thread : \A i \in 1..Len(walk'[t].rest) :
             \/ walk'[t].rest[i] = target
             \/ i \in 1..Len(walk[t].rest) /\ walk'[t].rest[i] = walk[t].rest[i]
      <3> SUFFICES ASSUME NEW t \in Thread, NEW i \in 1..Len(walk'[t].rest)
                   PROVE  \/ walk'[t].rest[i] = target
                          \/ i \in 1..Len(walk[t].rest) /\ walk'[t].rest[i] = walk[t].rest[i]
        OBVIOUS
      <3>1. CASE walk'[t].rest = walk[t].rest
        BY <3>1
      <3>2. CASE walk'[t].rest = Append(walk[t].rest, target)
        <4>1. PICK m \in Nat : m = Len(walk[t].rest)
          BY <1>10
        <4>2. i \in 1..(m + 1)
          BY <1>10, <3>2, <4>1
        <4>3. CASE i = m + 1
          BY <1>10, <3>2, <4>1, <4>3
        <4>4. CASE i \in 1..m
          BY <1>10, <3>2, <4>1, <4>4
        <4> QED
          BY <4>2, <4>3, <4>4
      <3> QED
        BY <1>7, <3>1, <3>2
    <2>6. (\A t \in Thread : \A i \in 1..Len(walk[t].rest) : InVector(walk[t].rest[i]))'
      BY <1>5, <2>1, <2>2, <2>3, <2>5 DEF LeaderOK
    <2> QED
      BY <1>5, <1>7, <2>1, <2>2, <2>4, <2>6 DEF LeaderOK
  <1> QED
    BY <1>6, <1>8, <1>9, <1>11, <1>12 DEF MemberInv

\* A call of setLeader after an erasure: it lost its place, or what is left is one
\* member shorter, the erased one or the one that took the place of a visited one.
LEMMA ErasedFacts ==
    ASSUME MemberInv, NEW t \in Thread, NEW n \in Nat, n = Len(clusterMembers), NEW k \in 1..n
    PROVE  /\ Erased(walk[t], k) \in Walk
           /\ Erased(walk[t], k).on = walk[t].on /\ Erased(walk[t], k).id = walk[t].id
           /\ walk[t].lost => Erased(walk[t], k).lost
           /\ ~walk[t].on => Erased(walk[t], k) = walk[t]
           /\ walk[t].on /\ ~walk[t].lost =>
                 \/ Erased(walk[t], k).lost
                 \/ /\ k > n - Len(walk[t].rest)
                    /\ Erased(walk[t], k).rest = RemoveAt(walk[t].rest, k - (n - Len(walk[t].rest)))
                 \/ /\ k <= n - Len(walk[t].rest) /\ walk[t].rest # <<>>
                    /\ Erased(walk[t], k).rest = Tail(walk[t].rest)
  <1>1. PICK w \in Walk : w = walk[t]
    BY FieldFacts DEF MemberInv
  <1>2. PICK m \in Nat : m = Len(w.rest) /\ w.rest \in Seq(Heap)
    BY <1>1 DEF Walk
  <1>3. w.on \in BOOLEAN /\ w.lost \in BOOLEAN
    BY DEF Walk
  <1>4. CASE ~w.on \/ w.lost
    <2>1. Erased(w, k) = w
      BY <1>4 DEF Erased
    <2> QED
      BY <1>1, <1>4, <2>1
  <1>5. CASE w.on /\ ~w.lost /\ k > n - m
    <2>1. PICK q : q = RemoveAt(w.rest, k - (n - m))
      OBVIOUS
    <2>2. k - (n - m) \in 1..m
      BY <1>5
    <2>3. q \in Seq(Heap)
      BY <1>2, <2>1, <2>2, RemoveIndex
    <2>4. PICK v : v = [w EXCEPT !.rest = q]
      OBVIOUS
    <2>5. v \in Walk /\ v.on = w.on /\ v.id = w.id /\ v.lost = w.lost /\ v.rest = q
      BY <2>3, <2>4 DEF Walk
    <2>6. Erased(w, k) = v
      BY <1>2, <1>5, <2>1, <2>4 DEF Erased
    <2>7. k > n - Len(walk[t].rest) /\ q = RemoveAt(walk[t].rest, k - (n - Len(walk[t].rest)))
      BY <1>1, <1>2, <1>5, <2>1
    <2>8. v.rest = RemoveAt(walk[t].rest, k - (n - Len(walk[t].rest)))
      BY <2>5, <2>7, Zenon
    <2>9. /\ v \in Walk /\ v.on = walk[t].on /\ v.id = walk[t].id
          /\ walk[t].on /\ ~walk[t].lost
          /\ Erased(walk[t], k) = v
      BY <1>1, <1>5, <2>5, <2>6
    <2> QED
      BY <2>7, <2>8, <2>9, Zenon
  <1>6. CASE w.on /\ ~w.lost /\ ~(k > n - m) /\ w.rest = <<>>
    <2>1. PICK v : v = [w EXCEPT !.lost = TRUE]
      OBVIOUS
    <2>2. v \in Walk /\ v.on = w.on /\ v.id = w.id /\ v.lost = TRUE
      BY <2>1 DEF Walk
    <2>3. Erased(w, k) = v
      BY <1>2, <1>6, <2>1 DEF Erased
    <2> QED
      BY <1>1, <1>6, <2>2, <2>3
  <1>7. CASE w.on /\ ~w.lost /\ ~(k > n - m) /\ w.rest # <<>>
    <2>1. PICK q : q = Tail(w.rest)
      OBVIOUS
    <2>2. q \in Seq(Heap)
      BY <1>2, <1>7, <2>1
    <2>3. PICK v : v = [w EXCEPT !.rest = q]
      OBVIOUS
    <2>4. v \in Walk /\ v.on = w.on /\ v.id = w.id /\ v.lost = w.lost /\ v.rest = q
      BY <2>2, <2>3 DEF Walk
    <2>5. Erased(w, k) = v
      BY <1>2, <1>7, <2>1, <2>3 DEF Erased
    <2>6. k <= n - Len(walk[t].rest) /\ walk[t].rest # <<>> /\ v.rest = Tail(walk[t].rest)
      BY <1>1, <1>2, <1>7, <2>1, <2>4
    <2>7. /\ v \in Walk /\ v.on = walk[t].on /\ v.id = walk[t].id
          /\ walk[t].on /\ ~walk[t].lost
          /\ Erased(walk[t], k) = v
      BY <1>1, <1>7, <2>4, <2>5
    <2> QED
      BY <2>6, <2>7, Zenon
  <1> QED
    BY <1>3, <1>4, <1>5, <1>6, <1>7

\* What is left of a call that did not lose its place is still the end of the vector.
LEMMA ErasedSuffix ==
    ASSUME NEW n \in Nat, NEW k \in 1..n, NEW m \in 0..n, NEW vec, NEW new, NEW rest, NEW q,
           \A i \in 1..(n - 1) : new[i] = IF i < k THEN vec[i] ELSE vec[i + 1],
           \A i \in 1..m : rest[i] = vec[n - m + i],
           \/ /\ k > n - m
              /\ \A i \in 1..(m - 1) : q[i] = IF i < k - (n - m) THEN rest[i] ELSE rest[i + 1]
           \/ /\ k <= n - m
              /\ \A i \in 1..(m - 1) : q[i] = rest[i + 1]
    PROVE  \A i \in 1..(m - 1) : q[i] = new[n - m + i]
  <1> SUFFICES ASSUME NEW i \in 1..(m - 1)
               PROVE  q[i] = new[n - m + i]
    OBVIOUS
  <1>1. /\ n - m + i \in 1..(n - 1) /\ i \in 1..m /\ i + 1 \in 1..m
        /\ n - m + (i + 1) = n - m + i + 1
    OBVIOUS
  <1>2. rest[i] = vec[n - m + i] /\ rest[i + 1] = vec[n - m + i + 1]
    BY <1>1
  <1>3. new[n - m + i] = IF n - m + i < k THEN vec[n - m + i] ELSE vec[n - m + i + 1]
    BY <1>1
  <1>4. CASE k > n - m /\ \A j \in 1..(m - 1) : q[j] = IF j < k - (n - m) THEN rest[j] ELSE rest[j + 1]
    <2>1. q[i] = IF i < k - (n - m) THEN rest[i] ELSE rest[i + 1]
      BY <1>4
    <2>2. i < k - (n - m) <=> n - m + i < k
      OBVIOUS
    <2> QED
      BY <1>2, <1>3, <2>1, <2>2
  <1>5. CASE k <= n - m /\ \A j \in 1..(m - 1) : q[j] = rest[j + 1]
    <2>1. q[i] = rest[i + 1] /\ ~(n - m + i < k)
      BY <1>5
    <2> QED
      BY <1>2, <1>3, <2>1
  <1> QED
    BY <1>4, <1>5


LEMMA RemoveMemberKeeps ==
    ASSUME MemberInv, NEW h \in Host, RemoveMember(h)
    PROVE  MemberInv'
  <1>1. alive /\ mpc = "idle" /\ VectorOK
    BY DEF RemoveMember, MayCall, MemberInv
  <1>2. PICK n \in Nat : n = Len(clusterMembers)
    BY FieldFacts DEF MemberInv
  <1>3. PICK k \in 1..n : k = Min(Named(h))
    <2>1. clusterMembers \in Seq(Heap) /\ Named(h) # {}
      BY DEF MemberInv, MemberTypes, RemoveMember
    <2>2. Named(h) \subseteq 1..n
      BY <1>2, <2>1 DEF Named
    <2>3. Named(h) \in SUBSET Nat
      BY <1>2, <2>2
    <2> QED
      BY <2>1, <2>2, <2>3, MinIsMember
  <1>4. PICK vec : vec = RemoveAt(clusterMembers, k)
    OBVIOUS
  <1>5. /\ vec \in Seq(Heap) /\ Len(vec) = n - 1
        /\ \A i \in 1..(n - 1) : vec[i] = IF i < k THEN clusterMembers[i] ELSE clusterMembers[i + 1]
    BY <1>2, <1>4, RemoveIndex, FieldFacts DEF MemberInv
  <1>6. /\ clusterMembers' = vec /\ mpc' = "delete" /\ alive' /\ target' = clusterMembers[k]
        /\ calls' = calls + 1 /\ calls < MaxCalls
        /\ walk' = [t \in Thread |-> Erased(walk[t], k)]
        /\ shifted' = (shifted \/ \E t \in Thread : walk[t].on)
        /\ UNCHANGED <<object, capacity, clusterMemberCount, leaderClusterMember, wild, recent,
                       removed>>
    BY <1>1, <1>3, <1>4 DEF RemoveMember, MayCall, Erase
  <1>7. \A t \in Thread :
           /\ walk'[t] \in Walk
           /\ walk'[t].on = walk[t].on /\ walk'[t].id = walk[t].id
           /\ walk[t].lost => walk'[t].lost
           /\ ~walk[t].on => walk'[t] = walk[t]
           /\ walk[t].on /\ ~walk[t].lost =>
                 \/ walk'[t].lost
                 \/ /\ k > n - Len(walk[t].rest)
                    /\ walk'[t].rest = RemoveAt(walk[t].rest, k - (n - Len(walk[t].rest)))
                 \/ /\ k <= n - Len(walk[t].rest) /\ walk[t].rest # <<>>
                    /\ walk'[t].rest = Tail(walk[t].rest)
    <2> SUFFICES ASSUME NEW t \in Thread
                 PROVE  /\ walk'[t] \in Walk
                        /\ walk'[t].on = walk[t].on /\ walk'[t].id = walk[t].id
                        /\ walk[t].lost => walk'[t].lost
                        /\ ~walk[t].on => walk'[t] = walk[t]
                        /\ walk[t].on /\ ~walk[t].lost =>
                              \/ walk'[t].lost
                              \/ /\ k > n - Len(walk[t].rest)
                                 /\ walk'[t].rest = RemoveAt(walk[t].rest, k - (n - Len(walk[t].rest)))
                              \/ /\ k <= n - Len(walk[t].rest) /\ walk[t].rest # <<>>
                                 /\ walk'[t].rest = Tail(walk[t].rest)
      OBVIOUS
    <2>1. walk'[t] = Erased(walk[t], k)
      BY <1>6
    <2>2. /\ Erased(walk[t], k) \in Walk
          /\ Erased(walk[t], k).on = walk[t].on /\ Erased(walk[t], k).id = walk[t].id
          /\ walk[t].lost => Erased(walk[t], k).lost
          /\ ~walk[t].on => Erased(walk[t], k) = walk[t]
          /\ walk[t].on /\ ~walk[t].lost =>
                \/ Erased(walk[t], k).lost
                \/ /\ k > n - Len(walk[t].rest)
                   /\ Erased(walk[t], k).rest = RemoveAt(walk[t].rest, k - (n - Len(walk[t].rest)))
                \/ /\ k <= n - Len(walk[t].rest) /\ walk[t].rest # <<>>
                   /\ Erased(walk[t], k).rest = Tail(walk[t].rest)
      BY <1>2, ErasedFacts
    <2> QED
      BY <2>1, <2>2, Zenon
  <1>8. \A i \in 1..(n - 1) :
           /\ i \in 1..n /\ i + 1 \in 1..n
           /\ vec[i] \in Heap
           /\ \/ vec[i] = clusterMembers[i] /\ i # k
              \/ vec[i] = clusterMembers[i + 1] /\ i + 1 # k
    <2> SUFFICES ASSUME NEW i \in 1..(n - 1)
                 PROVE  /\ i \in 1..n /\ i + 1 \in 1..n
                        /\ vec[i] \in Heap
                        /\ \/ vec[i] = clusterMembers[i] /\ i # k
                           \/ vec[i] = clusterMembers[i + 1] /\ i + 1 # k
      OBVIOUS
    <2>1. i \in 1..n /\ i + 1 \in 1..n
      OBVIOUS
    <2>2. vec[i] \in Heap
      BY <1>5
    <2>3. CASE i < k
      BY <1>5, <2>1, <2>2, <2>3
    <2>4. CASE ~(i < k)
      BY <1>5, <2>1, <2>2, <2>4
    <2> QED
      BY <2>3, <2>4
  <1>9. target' \in Heap /\ object[target'].use = "live"
    BY <1>1, <1>2, <1>6, FieldFacts DEF VectorOK, MemberInv
  <1>10. MemberTypes'
    <2>1. walk' \in [Thread -> Walk]
      BY <1>6, <1>7
    <2>2. calls' \in 0..MaxCalls
      BY <1>6, HeapFacts DEF MemberInv, MemberTypes
    <2>3. Len(clusterMembers') <= capacity'
      BY <1>2, <1>5, <1>6 DEF MemberInv, MemberTypes
    <2>4. shifted' \in BOOLEAN
      BY <1>6 DEF MemberInv, MemberTypes
    <2> QED
      BY <1>5, <1>6, <1>9, <2>1, <2>2, <2>3, <2>4 DEF MemberInv, MemberTypes
  <1>11. WalksOK'
    <2>1. WalksOK /\ mpc # "elect"
      BY <1>1 DEF MemberInv
    <2>2. ~walk'[Main].on
      BY <1>7, <2>1, HeapFacts DEF WalksOK
    <2>3. /\ \A t \in Thread : ~walk'[t].on => walk'[t] = NoWalk
          /\ \A a \in Heap : walk'[a].on => object[a].thread
      BY <1>7, <2>1, HeapFacts DEF WalksOK
    <2> QED
      BY <1>6, <2>2, <2>3 DEF WalksOK
  <1>12. VectorOK'
    <2>1. \A i \in 1..Len(clusterMembers') : object'[clusterMembers'[i]].use = "live"
      <3>1. \A i \in 1..n : object[clusterMembers[i]].use = "live"
        BY <1>1, <1>2 DEF VectorOK
      <3>2. \A i \in 1..(n - 1) : object[vec[i]].use = "live"
        BY <1>8, <3>1
      <3> QED
        BY <1>5, <1>6, <3>2
    <2>2. ASSUME NEW i \in 1..Len(clusterMembers'), NEW j \in 1..Len(clusterMembers'), i # j
          PROVE  clusterMembers'[i] # clusterMembers'[j]
      <3>1. i \in 1..(n - 1) /\ j \in 1..(n - 1)
        BY <1>5, <1>6
      <3>2. \A x, y \in 1..n : x # y => clusterMembers[x] # clusterMembers[y]
        BY <1>1, <1>2 DEF VectorOK
      <3>3. PICK x \in 1..n : x = IF i < k THEN i ELSE i + 1
        BY <3>1
      <3>4. PICK y \in 1..n : y = IF j < k THEN j ELSE j + 1
        BY <3>1
      <3>5. vec[i] = clusterMembers[x] /\ vec[j] = clusterMembers[y] /\ x # y
        BY <1>5, <2>2, <3>1, <3>3, <3>4
      <3> QED
        BY <1>6, <3>2, <3>5
    <2>3. ~InVector(target)'
      <3>1. \A i \in 1..(n - 1) : vec[i] # clusterMembers[k]
        BY <1>1, <1>2, <1>8 DEF VectorOK
      <3> QED
        BY <1>5, <1>6, <3>1 DEF InVector
    <2>4. clusterMemberCount' - wild' = Counted'
      <3>1. Counted = n /\ Counted' = (n - 1) + 1
        BY <1>1, <1>2, <1>5, <1>6 DEF Counted
      <3>2. clusterMemberCount - wild = Counted
        BY <1>1 DEF VectorOK
      <3> QED
        BY <1>2, <1>6, <3>1, <3>2
    <2>5. \A a \in Heap : /\ object[a].thread => object[a].use = "live"
                          /\ object[a].use = "freed" => object[a].network = "dangling"
      BY <1>1 DEF VectorOK
    <2> QED
      BY <1>6, <1>9, <2>1, <2>2, <2>3, <2>4, <2>5 DEF VectorOK
  <1>13. ASSUME ~Doomed'
         PROVE  StatesOK'
    <2>1. ~Doomed /\ StatesOK
      BY <1>1, <1>7, <1>13 DEF MemberInv, Doomed
    <2>2. ASSUME NEW t \in Thread, walk'[t].on
          PROVE  Suffix(walk[t])' /\ walk'[t].id \in recent'
      <3>1. Suffix(walk[t]) /\ walk[t].id \in recent /\ walk[t].on /\ ~walk[t].lost /\ ~walk'[t].lost
        BY <1>7, <1>13, <2>1, <2>2 DEF StatesOK, Doomed
      <3>2. PICK m \in 0..n : m = Len(walk[t].rest)
        BY <1>2, <3>1, FieldFacts DEF MemberInv, Suffix
      <3>3. walk[t].rest \in Seq(Heap)
        BY FieldFacts DEF MemberInv
      <3>4. PICK q : q = walk'[t].rest
        OBVIOUS
      <3>5. \A i \in 1..m : walk[t].rest[i] = clusterMembers[n - m + i]
        BY <1>2, <3>1, <3>2 DEF Suffix
      <3>6. /\ Len(q) = m - 1 /\ m >= 1
            /\ \/ /\ k > n - m
                  /\ \A i \in 1..(m - 1) :
                        q[i] = IF i < k - (n - m) THEN walk[t].rest[i] ELSE walk[t].rest[i + 1]
               \/ /\ k <= n - m
                  /\ \A i \in 1..(m - 1) : q[i] = walk[t].rest[i + 1]
        <4>1. CASE k > n - m /\ q = RemoveAt(walk[t].rest, k - (n - m))
          <5>1. PICK p \in 1..m : p = k - (n - m)
            BY <4>1
          <5>2. q = RemoveAt(walk[t].rest, p)
            BY <4>1, <5>1
          <5>3. /\ Len(q) = m - 1
                /\ \A i \in 1..(m - 1) : q[i] = IF i < p THEN walk[t].rest[i] ELSE walk[t].rest[i + 1]
            BY <3>2, <3>3, <5>2, RemoveIndex
          <5>4. \A i \in 1..(m - 1) :
                   q[i] = IF i < k - (n - m) THEN walk[t].rest[i] ELSE walk[t].rest[i + 1]
            BY <5>1, <5>3, Zenon
          <5>5. m >= 1
            BY <5>1
          <5> QED
            BY <4>1, <5>3, <5>4, <5>5, Zenon
        <4>2. CASE k <= n - m /\ walk[t].rest # <<>> /\ q = Tail(walk[t].rest)
          BY <3>2, <3>3, <4>2
        <4>3. \/ k > n - m /\ q = RemoveAt(walk[t].rest, k - (n - m))
              \/ k <= n - m /\ walk[t].rest # <<>> /\ q = Tail(walk[t].rest)
          BY <1>7, <3>1, <3>2, <3>4
        <4> QED
          BY <4>1, <4>2, <4>3
      <3>7. \A i \in 1..(m - 1) : q[i] = vec[n - m + i]
        <4>1. PICK c, r : c = clusterMembers /\ r = walk[t].rest
          OBVIOUS
        <4>2. \A i \in 1..(n - 1) : vec[i] = IF i < k THEN c[i] ELSE c[i + 1]
          BY <1>5, <4>1
        <4>3. \A i \in 1..m : r[i] = c[n - m + i]
          BY <3>5, <4>1
        <4>4. \/ /\ k > n - m
                 /\ \A i \in 1..(m - 1) : q[i] = IF i < k - (n - m) THEN r[i] ELSE r[i + 1]
              \/ /\ k <= n - m
                 /\ \A i \in 1..(m - 1) : q[i] = r[i + 1]
          BY <3>6, <4>1
        <4> QED
          BY <4>2, <4>3, <4>4, ErasedSuffix
      <3>8. (n - 1) - (m - 1) = n - m /\ m - 1 <= n - 1
        OBVIOUS
      <3>9. Len(q) <= Len(vec) /\ \A i \in 1..Len(q) : q[i] = vec[Len(vec) - Len(q) + i]
        BY <1>5, <3>6, <3>7, <3>8
      <3>10. Suffix(walk[t])'
        BY <1>6, <3>4, <3>9 DEF Suffix
      <3> QED
        BY <1>6, <1>7, <3>1, <3>10
    <2>3. ASSUME ~shifted', NEW i \in 1..Len(clusterMembers'), Leads(object'[clusterMembers'[i]])
          PROVE  object'[clusterMembers'[i]].memberID \in recent' \/ Ahead(i)'
      <3>1. ~shifted /\ \A t \in Thread : ~walk[t].on
        BY <1>6, <2>3
      <3>2. \A j \in 1..n : Leads(object[clusterMembers[j]]) =>
                               object[clusterMembers[j]].memberID \in recent
        BY <1>2, <2>1, <3>1 DEF StatesOK, Ahead
      <3>3. PICK j \in 1..n : clusterMembers'[i] = clusterMembers[j]
        BY <1>5, <1>6, <1>8
      <3> QED
        BY <1>6, <2>3, <3>2, <3>3
    <2> QED
      BY <1>6, <2>2, <2>3 DEF StatesOK, Leads
  <1> QED
    BY <1>6, <1>10, <1>11, <1>12, <1>13 DEF MemberInv


-----------------------------------------------------------------------------
(* The steps of setLeader, and isOnline *)

LEMMA BeginWalkKeeps ==
    ASSUME MemberInv, NEW t \in Thread, NEW id \in MemberId, BeginWalk(t, id),
           id \in Announced,
           mpc' = mpc \/ (mpc = "idle" /\ mpc' = "elect"),
           t \in Heap => object[t].thread,
           t = Main => mpc' = "elect"
    PROVE  MemberInv'
  <1>1. alive /\ ~walk[t].on /\ VectorOK
    BY DEF BeginWalk, MemberInv
  <1>2. PICK n \in Nat : n = Len(clusterMembers) /\ clusterMembers \in Seq(Heap)
    BY FieldFacts DEF MemberInv
  <1>3. PICK w : w = [on |-> TRUE, rest |-> clusterMembers, lost |-> FALSE, id |-> id]
    OBVIOUS
  <1>4. /\ w \in Walk /\ w.on = TRUE /\ w.lost = FALSE /\ w.id = id
        /\ w.rest = clusterMembers
    BY <1>2, <1>3 DEF Walk
  <1>5. /\ walk' = [walk EXCEPT ![t] = w]
        /\ alive' /\ calls' = calls + 1 /\ calls < MaxCalls
        /\ recent' = IF Busy THEN recent \union {id} ELSE {id}
        /\ shifted' = (Busy /\ shifted)
        /\ UNCHANGED <<target, object, vectorVars, leaderClusterMember, wild, removed>>
    BY <1>1, <1>3 DEF BeginWalk
  <1>6. \A u \in Thread : walk'[u] = IF u = t THEN w ELSE walk[u]
    BY <1>5 DEF MemberInv, MemberTypes
  <1>7. MemberTypes'
    <2>1. walk' \in [Thread -> Walk]
      BY <1>4, <1>5 DEF MemberInv, MemberTypes
    <2>2. calls' \in 0..MaxCalls
      BY <1>5, HeapFacts DEF MemberInv, MemberTypes
    <2>3. shifted' \in BOOLEAN
      BY <1>5 DEF MemberInv, MemberTypes, Busy
    <2> QED
      BY <1>5, <2>1, <2>2, <2>3 DEF MemberInv, MemberTypes
  <1>8. WalksOK'
    BY <1>4, <1>5, <1>6, HeapFacts DEF MemberInv, WalksOK
  <1>9. VectorOK'
    BY <1>1, <1>5 DEF VectorOK, InVector, Counted
  <1>10. ASSUME ~Doomed'
         PROVE  StatesOK'
    <2>1. ~Doomed /\ StatesOK
      <3>1. walk[t] = NoWalk
        BY <1>1 DEF MemberInv, WalksOK
      <3> QED
        BY <1>1, <1>6, <1>10, <3>1, NoWalkFacts DEF MemberInv, Doomed
    <2>2. ASSUME NEW u \in Thread, walk'[u].on
          PROVE  Suffix(walk[u])' /\ walk'[u].id \in recent'
      <3>1. CASE u = t
        <4>1. Suffix(walk[t])'
          <5>1. walk'[t].rest = clusterMembers /\ clusterMembers' = clusterMembers
            BY <1>4, <1>5, <1>6
          <5>2. n <= n /\ \A i \in 1..n : n - n + i = i
            BY <1>2
          <5>3. /\ Len(clusterMembers) <= Len(clusterMembers)
                /\ \A i \in 1..Len(clusterMembers) :
                      clusterMembers[i] = clusterMembers[Len(clusterMembers) - Len(clusterMembers) + i]
            BY <1>2, <5>2
          <5> QED
            BY <5>1, <5>3 DEF Suffix
        <4>2. walk'[t].id \in recent'
          BY <1>4, <1>5, <1>6
        <4> QED
          BY <3>1, <4>1, <4>2
      <3>2. CASE u # t
        <4>1. walk'[u] = walk[u] /\ Suffix(walk[u]) /\ walk[u].id \in recent /\ Busy
          BY <1>6, <2>1, <2>2, <3>2 DEF StatesOK, Busy
        <4>2. Suffix(walk[u])'
          BY <1>5, <4>1 DEF Suffix
        <4> QED
          BY <1>5, <4>1, <4>2
      <3> QED
        BY <3>1, <3>2
    <2>3. \A i \in 1..Len(clusterMembers') : Ahead(i)'
      BY <1>2, <1>4, <1>5, <1>6 DEF Ahead
    <2>4. mpc' \in {"open", "push"} => ~Leads(object'[target'])
      BY <1>5, <2>1 DEF StatesOK
    <2> QED
      BY <2>2, <2>3, <2>4 DEF StatesOK, Leads
  <1>11. ASSUME ~removed', mpc' # "delete"
         PROVE  LeaderOK'
    <2>1. LeaderOK
      BY <1>1, <1>5, <1>11 DEF MemberInv
    <2>2. \A a : InVector(a)' <=> InVector(a)
      BY <1>5 DEF InVector
    <2>3. Announced' = Announced
      BY <1>5 DEF Announced
    <2>4. \A u \in Thread : /\ \A i \in 1..Len(walk'[u].rest) : InVector(walk'[u].rest[i])
                            /\ walk'[u].on => walk'[u].id \in Announced
      <3> SUFFICES ASSUME NEW u \in Thread
                   PROVE  /\ \A i \in 1..Len(walk'[u].rest) : InVector(walk'[u].rest[i])
                          /\ walk'[u].on => walk'[u].id \in Announced
        OBVIOUS
      <3>1. CASE u = t
        BY <1>4, <1>6, <3>1 DEF InVector
      <3>2. CASE u # t
        BY <1>6, <2>1, <3>2 DEF LeaderOK
      <3> QED
        BY <3>1, <3>2
    <2> QED
      BY <1>5, <2>1, <2>2, <2>3, <2>4 DEF LeaderOK
  <1> QED
    BY <1>7, <1>8, <1>9, <1>10, <1>11 DEF MemberInv

LEMMA ElectKeeps ==
    ASSUME MemberInv, Elect
    PROVE  MemberInv'
  <1>1. PICK id \in Announced : BeginWalk(Main, id) /\ mpc = "idle" /\ mpc' = "elect"
    BY DEF Elect, Announced
  <1>2. id \in MemberId
    BY HeapFacts, FieldFacts DEF MemberInv, Announced
  <1> QED
    BY <1>1, <1>2, HeapFacts, BeginWalkKeeps

LEMMA HearKeeps ==
    ASSUME MemberInv, NEW a \in Heap, Hear(a)
    PROVE  MemberInv'
  <1>1. PICK id \in Value : BeginWalk(a, id) /\ object[a].thread /\ mpc' = mpc
    BY DEF Hear
  <1>2. id \in MemberId /\ id \in Announced
    BY HeapFacts DEF Announced
  <1> QED
    BY <1>1, <1>2, HeapFacts, BeginWalkKeeps

\* What setLeader and isOnline do to a member: a new state, and nothing else.
Painted(a, s) ==
    /\ a \in Heap /\ s \in MemberState
    /\ object' = [object EXCEPT ![a].memberState = s]

LEMMA PaintedFacts ==
    ASSUME MemberInv, NEW a, NEW s, Painted(a, s)
    PROVE  /\ object' \in [Heap -> MemberObject]
           /\ object'[a].memberState = s
           /\ \A b \in Heap : /\ b # a => object'[b] = object[b]
                              /\ object'[b].use = object[b].use
                              /\ object'[b].memberID = object[b].memberID
                              /\ object'[b].network = object[b].network
                              /\ object'[b].thread = object[b].thread
  <1>1. PICK o : o = object[a]
    OBVIOUS
  <1>2. o \in MemberObject /\ a \in Heap /\ s \in MemberState
    BY <1>1, FieldFacts DEF MemberInv, Painted
  <1>3. PICK p : p = [o EXCEPT !.memberState = s]
    OBVIOUS
  <1>4. /\ p \in MemberObject /\ p.memberState = s /\ p.use = o.use /\ p.memberID = o.memberID
        /\ p.network = o.network /\ p.thread = o.thread
    BY <1>2, <1>3 DEF MemberObject
  <1>5. object' = [object EXCEPT ![a] = p]
    BY <1>1, <1>3 DEF Painted
  <1>6. object \in [Heap -> MemberObject]
    BY DEF MemberInv, MemberTypes
  <1>7. object' \in [Heap -> MemberObject] /\ \A b \in Heap : object'[b] = IF b = a THEN p ELSE object[b]
    BY <1>2, <1>4, <1>5, <1>6
  <1> QED
    BY <1>1, <1>2, <1>4, <1>7

\* The parts of the invariant that do not look at the state of a member.
LEMMA PaintedKeeps ==
    ASSUME MemberInv, NEW a, NEW s, Painted(a, s), alive,
           UNCHANGED <<alive, mpc, target, vectorVars, wild, removed>>
    PROVE  /\ VectorOK'
           /\ Announced' = Announced
           /\ \A b : InVector(b)' <=> InVector(b)
  <1>1. VectorOK /\ Local \in Heap /\ target \in Heap
    BY HeapFacts DEF MemberInv, MemberTypes
  <1>2. \A i \in 1..Len(clusterMembers) : clusterMembers[i] \in Heap
    BY FieldFacts DEF MemberInv
  <1>3. \A b \in Heap : /\ object'[b].use = object[b].use
                        /\ object'[b].memberID = object[b].memberID
                        /\ object'[b].network = object[b].network
                        /\ object'[b].thread = object[b].thread
    BY PaintedFacts
  <1>4. Announced' = Announced
    BY <1>1, <1>3 DEF Announced
  <1>5. \A b : InVector(b)' <=> InVector(b)
    BY DEF InVector
  <1>6. VectorOK'
    <2>1. \A i \in 1..Len(clusterMembers') : object'[clusterMembers'[i]].use = "live"
      BY <1>1, <1>2, <1>3 DEF VectorOK
    <2>2. \A i, j \in 1..Len(clusterMembers') : i # j => clusterMembers'[i] # clusterMembers'[j]
      BY <1>1 DEF VectorOK
    <2>3. /\ mpc' \in {"open", "push", "delete"} => object'[target'].use = "live" /\ ~InVector(target)'
          /\ mpc' = "open" => object'[target'].network = "null"
      BY <1>1, <1>3 DEF VectorOK, InVector
    <2>4. \A b \in Heap : /\ object'[b].thread => object'[b].use = "live"
                          /\ object'[b].use = "freed" => object'[b].network = "dangling"
      BY <1>1, <1>3 DEF VectorOK
    <2>5. clusterMemberCount' - wild' = Counted'
      BY <1>1 DEF VectorOK, Counted
    <2> QED
      BY <2>1, <2>2, <2>3, <2>4, <2>5 DEF VectorOK
  <1> QED
    BY <1>4, <1>5, <1>6

LEMMA IsOnlineKeeps ==
    ASSUME MemberInv, NEW a \in Heap, IsOnline(a)
    PROVE  MemberInv'
  <1>1. /\ alive /\ mpc = "idle" /\ Painted(a, "ONLINE")
        /\ calls' = calls + 1 /\ calls < MaxCalls
        /\ UNCHANGED <<alive, mpc, target, vectorVars, leaderClusterMember, walk, historyVars>>
    BY DEF IsOnline, MayCall, Painted, MemberState
  <1>2. /\ object' \in [Heap -> MemberObject]
        /\ object'[a].memberState = "ONLINE"
        /\ \A b \in Heap : /\ b # a => object'[b] = object[b]
                           /\ object'[b].use = object[b].use
                           /\ object'[b].memberID = object[b].memberID
                           /\ object'[b].thread = object[b].thread
    BY <1>1, PaintedFacts
  <1>3. /\ VectorOK'
        /\ Announced' = Announced
        /\ \A b : InVector(b)' <=> InVector(b)
    BY <1>1, PaintedKeeps
  <1>4. MemberTypes'
    BY <1>1, <1>2, HeapFacts DEF MemberInv, MemberTypes
  <1>5. WalksOK'
    BY <1>1, <1>2 DEF MemberInv, WalksOK
  <1>6. ASSUME ~Doomed'
        PROVE  StatesOK'
    <2>1. StatesOK
      BY <1>1, <1>6 DEF MemberInv, Doomed
    <2>2. \A t \in Thread : walk'[t].on => Suffix(walk[t])' /\ walk'[t].id \in recent'
      BY <1>1, <2>1 DEF StatesOK, Suffix
    <2>3. ~(mpc' \in {"open", "push"})
      BY <1>1
    <2>4. ASSUME ~shifted', NEW i \in 1..Len(clusterMembers'), Leads(object'[clusterMembers'[i]])
          PROVE  object'[clusterMembers'[i]].memberID \in recent' \/ Ahead(i)'
      <3>1. i \in 1..Len(clusterMembers) /\ clusterMembers'[i] = clusterMembers[i]
            /\ clusterMembers[i] \in Heap
        BY <1>1, FieldFacts DEF MemberInv
      <3>2. clusterMembers[i] # a
        BY <1>2, <2>4, <3>1 DEF Leads
      <3>3. object'[clusterMembers'[i]] = object[clusterMembers[i]]
        BY <1>2, <3>1, <3>2
      <3>4. object[clusterMembers[i]].memberID \in recent \/ Ahead(i)
        BY <1>1, <2>1, <2>4, <3>1, <3>3 DEF StatesOK
      <3> QED
        BY <1>1, <3>3, <3>4 DEF Ahead
    <2> QED
      BY <2>2, <2>3, <2>4 DEF StatesOK, Leads
  <1>7. ASSUME ~removed'
        PROVE  LeaderOK'
    <2>1. LeaderOK
      BY <1>1, <1>7 DEF MemberInv
    <2> QED
      BY <1>1, <1>2, <1>3, <2>1 DEF LeaderOK, MemberInv, MemberTypes
  <1> QED
    BY <1>1, <1>3, <1>4, <1>5, <1>6, <1>7 DEF MemberInv

LEMMA DieKeeps ==
    ASSUME MemberInv, Die
    PROVE  MemberInv'
  <1>1. MemberTypes' /\ WalksOK' /\ ~alive'
    BY DEF Die, MemberInv, MemberTypes, WalksOK
  <1> QED
    BY <1>1 DEF MemberInv

LEMMA EndWalkKeeps ==
    ASSUME MemberInv, NEW t \in Thread, EndWalk(t)
    PROVE  MemberInv'
  <1>1. /\ alive /\ walk[t].on /\ walk[t].rest = <<>> /\ ~walk[t].lost
        /\ leaderClusterMember # NoLeader
        /\ walk' = [walk EXCEPT ![t] = NoWalk]
        /\ mpc' = IF t = Main THEN "idle" ELSE mpc
        /\ UNCHANGED <<alive, target, calls, object, vectorVars, leaderClusterMember, historyVars>>
    BY DEF EndWalk
  <1>2. \A u \in Thread : walk'[u] = IF u = t THEN NoWalk ELSE walk[u]
    BY <1>1 DEF MemberInv, MemberTypes
  <1>3. t = Main => mpc = "elect"
    BY <1>1 DEF MemberInv, WalksOK
  <1>4. /\ mpc' \in {"idle", "open", "push", "delete", "elect"}
        /\ \A x \in {"open", "push", "delete"} : mpc' = x <=> mpc = x
    BY <1>1, <1>3 DEF MemberInv, MemberTypes
  <1>5. MemberTypes'
    <2>1. walk' \in [Thread -> Walk]
      BY <1>1, NoWalkFacts DEF MemberInv, MemberTypes
    <2> QED
      BY <1>1, <1>4, <2>1 DEF MemberInv, MemberTypes
  <1>6. WalksOK'
    BY <1>1, <1>2, HeapFacts, NoWalkFacts DEF MemberInv, WalksOK
  <1>7. VectorOK'
    <2>1. VectorOK
      BY <1>1 DEF MemberInv
    <2> QED
      BY <1>1, <1>4, <2>1 DEF VectorOK, InVector, Counted
  <1>8. ASSUME ~Doomed'
        PROVE  StatesOK'
    <2>1. ~Doomed /\ StatesOK
      BY <1>1, <1>2, <1>8 DEF MemberInv, Doomed
    <2>2. ASSUME NEW u \in Thread, walk'[u].on
          PROVE  u # t /\ walk'[u] = walk[u] /\ Suffix(walk[u])' /\ walk'[u].id \in recent'
      <3>1. u # t /\ walk'[u] = walk[u]
        BY <1>2, <2>2, NoWalkFacts
      <3> QED
        <4>1. Suffix(walk[u]) /\ walk[u].id \in recent
          BY <2>1, <2>2, <3>1 DEF StatesOK
        <4>2. Suffix(walk[u])'
          BY <1>1, <3>1, <4>1 DEF Suffix
        <4> QED
          BY <1>1, <3>1, <4>1, <4>2
    <2>3. mpc' \in {"open", "push"} => ~Leads(object'[target'])
      BY <1>1, <1>4, <2>1 DEF StatesOK
    <2>4. ASSUME NEW i \in 1..Len(clusterMembers), Ahead(i)
          PROVE  Ahead(i)'
      <3>1. PICK u \in Thread : walk[u].on /\ i > Len(clusterMembers) - Len(walk[u].rest)
        BY <2>4 DEF Ahead
      <3>2. u # t
        <4>1. Len(walk[t].rest) = 0 /\ Len(clusterMembers) \in Nat
          BY <1>1, FieldFacts DEF MemberInv
        <4> QED
          BY <3>1, <4>1
      <3> QED
        BY <1>1, <1>2, <3>1, <3>2 DEF Ahead
    <2> QED
      BY <1>1, <2>1, <2>2, <2>3, <2>4 DEF StatesOK
  <1>9. ASSUME ~removed', mpc' # "delete"
        PROVE  LeaderOK'
    <2>1. LeaderOK
      BY <1>1, <1>4, <1>9 DEF MemberInv
    <2> QED
      BY <1>1, <1>2, <2>1, NoWalkFacts DEF LeaderOK, InVector, Announced
  <1> QED
    BY <1>5, <1>6, <1>7, <1>8, <1>9 DEF MemberInv

LEMMA VisitKeeps ==
    ASSUME MemberInv, NEW t \in Thread, Visit(t)
    PROVE  MemberInv'
  <1>1. PICK a, named, s :
           /\ a = Head(walk[t].rest) /\ named = Names(a, walk[t].id)
           /\ s = IF named THEN "LEADER" ELSE "SLAVE"
    OBVIOUS
  <1>2. /\ alive /\ walk[t].rest # <<>>
        /\ walk' = [walk EXCEPT ![t].rest = Tail(@)]
        /\ leaderClusterMember' = IF named THEN a ELSE leaderClusterMember
        /\ UNCHANGED <<alive, mainVars, vectorVars, historyVars>>
    BY <1>1 DEF Visit
  <1>3. object' = [object EXCEPT ![a].memberState = s]
    BY <1>1 DEF Visit, Others
  <1>4. PICK w \in Walk : w = walk[t]
    BY FieldFacts DEF MemberInv
  <1>5. PICK m \in Nat : m = Len(w.rest)
    BY <1>4 DEF Walk
  <1>6. PICK n \in Nat : n = Len(clusterMembers)
    BY FieldFacts DEF MemberInv
  <1>7. PICK q : q = Tail(w.rest)
    OBVIOUS
  <1>8. /\ m >= 1 /\ a \in Heap /\ a = w.rest[1]
        /\ q \in Seq(Heap) /\ Len(q) = m - 1 /\ \A i \in 1..(m - 1) : q[i] = w.rest[i + 1]
    <2>1. w.rest \in Seq(Heap) /\ w.rest # <<>> /\ a = Head(w.rest)
      BY <1>1, <1>2, <1>4 DEF Walk
    <2> QED
      BY <1>5, <1>7, <2>1
  <1>9. PICK v : v = [w EXCEPT !.rest = q]
    OBVIOUS
  <1>10. v \in Walk /\ v.on = w.on /\ v.id = w.id /\ v.lost = w.lost /\ v.rest = q
    BY <1>4, <1>8, <1>9 DEF Walk
  <1>11. walk' = [walk EXCEPT ![t] = v]
    BY <1>2, <1>4, <1>7, <1>9 DEF MemberInv, MemberTypes
  <1>12. \A u \in Thread : walk'[u] = IF u = t THEN v ELSE walk[u]
    BY <1>11 DEF MemberInv, MemberTypes
  <1>13. w.on
    BY <1>2, <1>4, NoWalkFacts DEF MemberInv, WalksOK
  <1>14. Painted(a, s)
    BY <1>1, <1>3, <1>8 DEF Painted, MemberState
  <1>15. /\ object' \in [Heap -> MemberObject]
         /\ object'[a].memberState = s
         /\ \A b \in Heap : /\ b # a => object'[b] = object[b]
                            /\ object'[b].use = object[b].use
                            /\ object'[b].memberID = object[b].memberID
                            /\ object'[b].thread = object[b].thread
    BY <1>14, PaintedFacts
  <1>16. /\ VectorOK'
         /\ Announced' = Announced
         /\ \A b : InVector(b)' <=> InVector(b)
    BY <1>2, <1>14, PaintedKeeps
  <1>17. MemberTypes'
    <2>1. walk' \in [Thread -> Walk]
      BY <1>10, <1>11 DEF MemberInv, MemberTypes
    <2> QED
      BY <1>2, <1>8, <1>15, <2>1 DEF MemberInv, MemberTypes
  <1>18. WalksOK'
    <2>1. \A u \in Thread : walk'[u].on = walk[u].on
      BY <1>4, <1>10, <1>12
    <2>2. \A u \in Thread : ~walk'[u].on => walk'[u] = NoWalk
      BY <1>10, <1>12, <1>13 DEF MemberInv, WalksOK
    <2> QED
      BY <1>2, <1>15, <2>1, <2>2, HeapFacts DEF MemberInv, WalksOK
  <1>19. \A u \in Thread : walk'[u].on = walk[u].on /\ walk'[u].lost = walk[u].lost
                           /\ walk'[u].id = walk[u].id
    BY <1>4, <1>10, <1>12
  <1>20. ASSUME ~Doomed'
         PROVE  StatesOK'
    <2>1. ~Doomed /\ StatesOK
      BY <1>2, <1>19, <1>20 DEF MemberInv, Doomed
    <2>2. m <= n /\ \A i \in 1..m : w.rest[i] = clusterMembers[n - m + i]
      BY <1>4, <1>5, <1>6, <1>13, <2>1 DEF StatesOK, Suffix
    <2>3. n - m + 1 \in 1..n /\ a = clusterMembers[n - m + 1]
      BY <1>8, <2>2
    <2>4. ASSUME NEW u \in Thread, walk'[u].on
          PROVE  Suffix(walk[u])' /\ walk'[u].id \in recent'
      <3>1. Suffix(walk[u]) /\ walk[u].id \in recent
        BY <1>19, <2>1, <2>4 DEF StatesOK
      <3>2. CASE u = t
        <4>1. ASSUME NEW i \in 1..(m - 1)
              PROVE  q[i] = clusterMembers[n - (m - 1) + i]
          <5>1. i + 1 \in 1..m /\ n - m + (i + 1) = n - (m - 1) + i
            OBVIOUS
          <5> QED
            BY <1>8, <2>2, <5>1
        <4>2. Len(q) <= n /\ \A i \in 1..Len(q) : q[i] = clusterMembers[n - Len(q) + i]
          BY <1>8, <2>2, <4>1
        <4>3. walk'[u].rest = q /\ clusterMembers' = clusterMembers
          BY <1>2, <1>10, <1>12, <3>2
        <4>4. Suffix(walk[u])'
          BY <1>6, <4>2, <4>3 DEF Suffix
        <4> QED
          BY <1>2, <1>19, <3>1, <4>4
      <3>3. CASE u # t
        <4>1. walk'[u] = walk[u] /\ clusterMembers' = clusterMembers
          BY <1>2, <1>12, <3>3
        <4>2. Suffix(walk[u])'
          BY <3>1, <4>1 DEF Suffix
        <4> QED
          BY <1>2, <1>19, <3>1, <4>2
      <3> QED
        BY <3>2, <3>3
    <2>5. mpc' \in {"open", "push"} => ~Leads(object'[target'])
      <3>1. mpc \in {"open", "push"} => target # a
        BY <1>2, <1>6, <2>3 DEF MemberInv, VectorOK, InVector
      <3>2. target \in Heap /\ target' = target /\ mpc' = mpc
        BY <1>2 DEF MemberInv, MemberTypes
      <3> QED
        BY <1>15, <2>1, <3>1, <3>2 DEF StatesOK
    <2>6. ASSUME ~shifted', NEW i \in 1..Len(clusterMembers'), Leads(object'[clusterMembers'[i]])
          PROVE  object'[clusterMembers'[i]].memberID \in recent' \/ Ahead(i)'
      <3>1. /\ i \in 1..n /\ clusterMembers' = clusterMembers /\ clusterMembers[i] \in Heap
            /\ recent' = recent /\ ~shifted
        BY <1>2, <1>6, <2>6, FieldFacts DEF MemberInv
      <3>2. CASE i = n - m + 1
        <4>1. named
          BY <1>1, <1>15, <2>3, <2>6, <3>1, <3>2 DEF Leads
        <4>2. object[a].memberID = w.id
          BY <1>1, <1>4, <4>1 DEF Names
        <4>3. w.id \in recent
          BY <1>4, <1>13, <2>1 DEF StatesOK
        <4> QED
          BY <1>8, <1>15, <2>3, <3>1, <3>2, <4>2, <4>3
      <3>3. CASE i # n - m + 1
        <4>1. clusterMembers[i] # a
          BY <1>2, <1>6, <2>3, <3>1, <3>3 DEF MemberInv, VectorOK
        <4>2. object'[clusterMembers'[i]] = object[clusterMembers[i]]
          BY <1>15, <3>1, <4>1
        <4>3. object[clusterMembers[i]].memberID \in recent \/ Ahead(i)
          BY <1>6, <2>1, <2>6, <3>1, <4>2 DEF StatesOK
        <4>4. ASSUME NEW u \in Thread, walk[u].on, i > n - Len(walk[u].rest)
              PROVE  walk'[u].on /\ i > n - Len(walk'[u].rest)
          <5>1. CASE u = t
            <6>1. Len(walk'[u].rest) = m - 1 /\ i > n - m
              BY <1>4, <1>5, <1>8, <1>10, <1>12, <4>4, <5>1
            <6> QED
              BY <1>19, <3>1, <3>3, <4>4, <6>1
          <5>2. CASE u # t
            BY <1>12, <4>4, <5>2
          <5> QED
            BY <5>1, <5>2
        <4>5. Ahead(i) => Ahead(i)'
          BY <1>6, <3>1, <4>4 DEF Ahead
        <4> QED
          BY <3>1, <4>2, <4>3, <4>5
      <3> QED
        BY <3>2, <3>3
    <2> QED
      BY <2>4, <2>5, <2>6 DEF StatesOK, Leads
  <1>21. ASSUME ~removed', mpc' # "delete"
         PROVE  LeaderOK'
    <2>1. LeaderOK
      BY <1>2, <1>21 DEF MemberInv
    <2>2. InVector(a) /\ w.id \in Announced
      BY <1>4, <1>5, <1>8, <1>13, <2>1 DEF LeaderOK
    <2>3. \A u \in Thread : /\ \A i \in 1..Len(walk'[u].rest) : InVector(walk'[u].rest[i])
                            /\ walk'[u].on => walk'[u].id \in Announced
      <3> SUFFICES ASSUME NEW u \in Thread
                   PROVE  /\ \A i \in 1..Len(walk'[u].rest) : InVector(walk'[u].rest[i])
                          /\ walk'[u].on => walk'[u].id \in Announced
        OBVIOUS
      <3>1. CASE u = t
        <4>1. \A i \in 1..(m - 1) : i + 1 \in 1..m
          OBVIOUS
        <4>2. \A i \in 1..(m - 1) : InVector(q[i])
          BY <1>4, <1>5, <1>8, <2>1, <4>1 DEF LeaderOK
        <4> QED
          BY <1>8, <1>10, <1>12, <2>2, <3>1, <4>2
      <3>2. CASE u # t
        BY <1>12, <2>1, <3>2 DEF LeaderOK
      <3> QED
        BY <3>1, <3>2
    <2>4. leaderClusterMember' # NoLeader =>
             InVector(leaderClusterMember') /\ object'[leaderClusterMember'].memberID \in Announced
      <3>1. CASE named
        <4>1. object[a].memberID = w.id
          BY <1>1, <1>4, <3>1 DEF Names
        <4> QED
          BY <1>2, <1>8, <1>15, <2>2, <3>1, <4>1
      <3>2. CASE ~named
        <4>1. leaderClusterMember \in Heap \union {NoLeader}
          BY DEF MemberInv, MemberTypes
        <4> QED
          BY <1>2, <1>15, <2>1, <3>2, <4>1 DEF LeaderOK
      <3> QED
        BY <3>1, <3>2
    <2> QED
      BY <1>16, <2>1, <2>3, <2>4 DEF LeaderOK
  <1> QED
    BY <1>2, <1>16, <1>17, <1>18, <1>20, <1>21 DEF MemberInv


LEMMA NextMembers ==
    MemberInv /\ [Next]_vars => MemberInv'
  <1> SUFFICES ASSUME MemberInv, [Next]_vars
               PROVE  MemberInv'
    OBVIOUS
  <1>1. CASE UNCHANGED vars
    <2>1. UNCHANGED <<alive, mpc, target, calls, object, clusterMembers, capacity,
                      clusterMemberCount, leaderClusterMember, walk, wild, recent, shifted, removed>>
      BY <1>1 DEF vars
    <2>2. MemberTypes' /\ WalksOK'
      BY <2>1 DEF MemberInv, MemberTypes, WalksOK
    <2>3. VectorOK' <=> VectorOK
      BY <2>1 DEF VectorOK, Counted, InVector
    <2>4. (Doomed' <=> Doomed) /\ (StatesOK' <=> StatesOK)
      BY <2>1 DEF Doomed, StatesOK, Suffix, Ahead, Leads
    <2>5. LeaderOK' <=> LeaderOK
      BY <2>1 DEF LeaderOK, InVector, Announced
    <2> QED
      BY <2>1, <2>2, <2>3, <2>4, <2>5 DEF MemberInv
  <1>2. CASE \E h \in Host, a \in Heap : AddMember(h, a)
    BY <1>2, AddMemberKeeps
  <1>3. CASE Open \/ OpenFails
    BY <1>3, OpenKeeps
  <1>4. CASE PushBack
    BY <1>4, PushBackKeeps
  <1>5. CASE \E h \in Host : RemoveMember(h)
    BY <1>5, RemoveMemberKeeps
  <1>6. CASE Delete
    BY <1>6, DeleteKeeps
  <1>7. CASE Elect
    BY <1>7, ElectKeeps
  <1>8. CASE \E a \in Heap : Hear(a) \/ IsOnline(a)
    BY <1>8, HearKeeps, IsOnlineKeeps
  <1>9. CASE \E t \in Thread : Visit(t) \/ EndWalk(t)
    BY <1>9, VisitKeeps, EndWalkKeeps
  <1>10. CASE Die
    BY <1>10, DieKeeps
  <1> QED
    BY <1>1, <1>2, <1>3, <1>4, <1>5, <1>6, <1>7, <1>8, <1>9, <1>10 DEF Next

-----------------------------------------------------------------------------
(* Theorems *)

\* Whatever the main thread and the receivers do, in any order, the parts of the
\* cluster fit together: what is in the vector, what is left of each setLeader,
\* the states of the members and the leader pointer.
THEOREM MemberInvariance ==
    Spec => []MemberInv
  <1>1. Init => MemberInv
    BY InitMembers
  <1>2. MemberInv /\ [Next]_vars => MemberInv'
    BY NextMembers
  <1> QED
    BY <1>1, <1>2, PTL DEF Spec

\* Every variable has values of its type, and only a thread that was started, or
\* the main thread, is in setLeader.
THEOREM TypeCorrect ==
    Spec => []TypeOK
  <1>1. MemberInv => TypeOK
    BY DEF MemberInv, MemberTypes, WalksOK, TypeOK, MemberObject, Walk
  <1> QED
    BY <1>1, MemberInvariance, PTL

\* addMember and removeMember, in any number, on memory that is used again, leave
\* the vector without deleted members and repetitions, and the count right.
THEOREM LiveMembers ==
    Spec => []VectorHoldsLiveMembers
  <1>1. MemberInv => VectorHoldsLiveMembers
    BY FieldFacts DEF MemberInv, VectorOK, VectorHoldsLiveMembers, Gone
  <1> QED
    BY <1>1, MemberInvariance, PTL

\* Once all calls of setLeader are over, and none was under way when a member was
\* removed, a member in state LEADER is one that the last of them named.
THEOREM StatesNameRecent ==
    Spec => []StateNamesRecentLeader
  <1>1. ASSUME MemberInv, alive, ~Busy, ~shifted, NEW i \in DOMAIN clusterMembers,
               Leads(object[clusterMembers[i]])
        PROVE  object[clusterMembers[i]].memberID \in recent
    <2>1. ~Doomed
      BY <1>1, NoWalkFacts DEF MemberInv, WalksOK, Doomed, Busy
    <2>2. StatesOK /\ ~Ahead(i)
      BY <1>1, <2>1 DEF MemberInv, Ahead, Busy
    <2>3. i \in 1..Len(clusterMembers)
      BY <1>1, FieldFacts DEF MemberInv
    <2> QED
      BY <1>1, <2>2, <2>3 DEF StatesOK
  <1>2. MemberInv => StateNamesRecentLeader
    BY <1>1 DEF StateNamesRecentLeader, Leads
  <1> QED
    BY <1>2, MemberInvariance, PTL

\* As long as no member was removed, the leader pointer names a member of the
\* cluster that somebody elected or announced.
THEOREM LeaderAnnounced ==
    Spec => []LeaderIsAnnouncedMember
  <1>1. ASSUME MemberInv, alive, ~removed, mpc # "delete", leaderClusterMember # NoLeader
        PROVE  /\ leaderClusterMember \in Range(clusterMembers)
               /\ object[leaderClusterMember].memberID \in Value \union {object[Local].memberID}
    <2>1. LeaderOK
      BY <1>1 DEF MemberInv
    <2>2. PICK i \in 1..Len(clusterMembers) : clusterMembers[i] = leaderClusterMember
      BY <1>1, <2>1 DEF LeaderOK, InVector
    <2>3. i \in DOMAIN clusterMembers
      BY <2>2, FieldFacts DEF MemberInv
    <2> QED
      BY <1>1, <2>1, <2>2, <2>3 DEF LeaderOK, Announced, Range
  <1>2. MemberInv => LeaderIsAnnouncedMember
    BY <1>1 DEF LeaderIsAnnouncedMember
  <1> QED
    BY <1>2, MemberInvariance, PTL

=============================================================================
