----------------------------- MODULE Membership -----------------------------
(***************************************************************************)
(* The members of a ddfsClusterPaxos in one process: the main thread adds  *)
(* and removes members, asks whether they are online and installs leaders; *)
(* the receiver thread of every member that was opened installs the leader *)
(* of each LEADER_ELECTED it hears.  setLeader goes through the vector     *)
(* clusterMembers one member at a time, and nothing locks the vector.      *)
(*                                                                         *)
(* Members are objects at addresses.  The constructor for remote members   *)
(* initialises only the way back to the cluster: everything else is what   *)
(* is in memory, zeros or what a deleted member left there.                *)
(***************************************************************************)
EXTENDS Integers, Sequences, FiniteSets, SequencesExt

CONSTANTS
    Host,        \* the addresses the administrator may name, the node's own too
    LocalHost,   \* the node's own
    IdOf,        \* IdOf[h]: the last two octets of h
    Heap,        \* 1..k: where member objects can be; the local member is at 1
    Value,       \* what LEADER_ELECTED may carry: IDs, and 0
    WildCount,   \* what clusterMemberCount may be before it is incremented
    MaxCalls     \* bound: calls of the main thread, and of setLeader

MaxId == 65535              \* an ID is made of two bytes

ASSUME MembershipAssumption ==
    /\ LocalHost \in Host
    /\ IdOf \in [Host -> 0..MaxId]
    /\ Value \subseteq 0..MaxId
    /\ Heap = 1..Cardinality(Heap) /\ 1 \in Heap
    /\ WildCount \subseteq Int
    /\ MaxCalls \in Nat

VARIABLES
    alive,                 \* the process
    mpc, target,           \* the main thread: where it is, the member it works on
    object,                \* what is at each address
    clusterMembers, capacity, clusterMemberCount, leaderClusterMember,
    walk,                  \* the setLeader call of each thread
    calls,                 \* calls made
    \* history: the wild count; the IDs of the setLeader calls since no call was
    \* under way, and whether one of them lost its place in the vector since; a
    \* member was removed
    wild, recent, shifted, removed

mainVars    == <<mpc, target, calls>>
vectorVars  == <<clusterMembers, capacity, clusterMemberCount>>
historyVars == <<wild, recent, shifted, removed>>
vars == <<alive, mainVars, object, vectorVars, leaderClusterMember, walk, historyVars>>

-----------------------------------------------------------------------------
NoLeader  == 0
Local     == 1
InvalidId == -1              \* s_invalid_memberID

MemberId  == InvalidId..MaxId

Main   == 0                  \* a thread is the address of its member, or Main
Thread == Heap \union {Main}

MemberState == {"ONLINE", "UNKNOWN", "LEADER", "SLAVE"}
Network     == {"null", "open", "failed", "dangling"}

Zeros == [use |-> "unused", host |-> LocalHost, memberID |-> 0, memberState |-> "ONLINE",
          network |-> "null", thread |-> FALSE]

NoWalk == [on |-> FALSE, rest |-> <<>>, lost |-> FALSE, id |-> 0]

\* The local member; bind() may fail, and then init does not get to the member ID.
LocalMember(bound) ==
    [use |-> "live", host |-> LocalHost,
     memberID |-> IF bound THEN IdOf[LocalHost] ELSE InvalidId,
     memberState |-> "UNKNOWN",
     network |-> IF bound THEN "open" ELSE "failed", thread |-> bound]

Init ==
    /\ alive = TRUE
    /\ mpc = "idle" /\ target = Local /\ calls = 0
    /\ \E bound \in BOOLEAN :
         object = [a \in Heap |-> IF a = Local THEN LocalMember(bound) ELSE Zeros]
    /\ clusterMembers = <<Local>> /\ capacity = 1
    /\ wild \in WildCount
    /\ clusterMemberCount = wild + 1
    /\ leaderClusterMember = NoLeader
    /\ walk = [t \in Thread |-> NoWalk]
    /\ recent = {} /\ shifted = FALSE /\ removed = FALSE

-----------------------------------------------------------------------------
(* The vector, and what happens to the calls of setLeader that go through it *)

\* A walk has passed Len(clusterMembers) - Len(rest) elements.  Erasing one of
\* those moves the iterator over an element that was not visited, or past the end.
Erased(w, k) ==
    LET passed == Len(clusterMembers) - Len(w.rest)
    IN  IF ~w.on \/ w.lost THEN w
        ELSE IF k > passed THEN [w EXCEPT !.rest = RemoveAt(w.rest, k - passed)]
        ELSE IF w.rest = <<>> THEN [w EXCEPT !.lost = TRUE]
        ELSE [w EXCEPT !.rest = Tail(w.rest)]

\* A vector that is full moves: a walk goes on in the old copy and misses its end.
Pushed(w, a) ==
    IF ~w.on \/ w.lost THEN w
    ELSE IF Len(clusterMembers) = capacity THEN [w EXCEPT !.lost = TRUE]
    ELSE [w EXCEPT !.rest = Append(w.rest, a)]

-----------------------------------------------------------------------------
(* addMember *)

MayCall == alive /\ mpc = "idle" /\ calls < MaxCalls

\* new: the memory of the object is zero or as a deleted member left it.
Memory(a) == IF object[a].use = "unused" THEN {Zeros} ELSE {Zeros, object[a]}

\* The check for a member of the same host stands behind a continue.  init leaves
\* at once when network is not NULL: the member has no connection and no ID.
AddMember(h, a) ==
    /\ MayCall
    /\ object[a].use # "live"
    /\ calls' = calls + 1
    /\ target' = a
    /\ \E m \in Memory(a) :
         /\ object' = [object EXCEPT ![a] = [m EXCEPT !.use = "live", !.host = h]]
         /\ mpc' = IF m.network = "null" THEN "open" ELSE "push"
    /\ UNCHANGED <<alive, vectorVars, leaderClusterMember, walk, historyVars>>

\* openConnection, setupPortal, subscribe: the receiver thread runs from here on.
Open ==
    /\ alive /\ mpc = "open"
    /\ object' = [object EXCEPT ![target].network = "open", ![target].thread = TRUE,
                                ![target].memberID = IdOf[object[target].host]]
    /\ mpc' = "push"
    /\ UNCHANGED <<alive, target, calls, vectorVars, leaderClusterMember, walk, historyVars>>

OpenFails ==
    /\ alive /\ mpc = "open"
    /\ object' = [object EXCEPT ![target].network = "failed"]
    /\ mpc' = "push"
    /\ UNCHANGED <<alive, target, calls, vectorVars, leaderClusterMember, walk, historyVars>>

PushBack ==
    /\ alive /\ mpc = "push"
    /\ clusterMembers' = Append(clusterMembers, target)
    /\ capacity' = IF Len(clusterMembers) = capacity THEN 2 * capacity ELSE capacity
    /\ clusterMemberCount' = clusterMemberCount + 1
    /\ walk' = [t \in Thread |-> Pushed(walk[t], target)]
    /\ mpc' = "idle"
    /\ UNCHANGED <<alive, target, calls, object, leaderClusterMember, historyVars>>

-----------------------------------------------------------------------------
(* removeMember *)

Named(h) == {i \in DOMAIN clusterMembers : object[clusterMembers[i]].host = h}

EraseMutant(k) == clusterMembers
Erase(k) == RemoveAt(clusterMembers, k)

RemoveMember(h) ==
    LET k == Min(Named(h))
    IN  /\ MayCall
        /\ Named(h) # {}
        /\ calls' = calls + 1
        /\ target' = clusterMembers[k]
        /\ clusterMembers' = Erase(k)
        /\ walk' = [t \in Thread |-> Erased(walk[t], k)]
        /\ shifted' = (shifted \/ \E t \in Thread : walk[t].on)
        /\ mpc' = "delete"
        /\ UNCHANGED <<alive, object, capacity, clusterMemberCount, leaderClusterMember, wild,
                       recent, removed>>

\* ~std::thread ends the process if the thread is still there, and no receiver ends.
TerminatesMutant(o) == FALSE
Terminates(o) == o.thread

\* A network that was never allocated, but is not NULL, is freed again.
Delete ==
    /\ alive /\ mpc = "delete"
    /\ \/ /\ ~Terminates(object[target])
          /\ object' = [object EXCEPT ![target].use = "freed", ![target].network = "dangling"]
          /\ clusterMemberCount' = clusterMemberCount - 1
          /\ removed' = TRUE
          /\ mpc' = "idle"
          /\ UNCHANGED alive
       \/ /\ Terminates(object[target]) \/ object[target].network = "dangling"
          /\ alive' = FALSE
          /\ UNCHANGED <<object, clusterMemberCount, removed, mpc>>
    /\ UNCHANGED <<target, calls, clusterMembers, capacity, leaderClusterMember, walk, wild,
                   recent, shifted>>

-----------------------------------------------------------------------------
(* setLeader, member by member *)

Busy == \E t \in Thread : walk[t].on

BeginWalk(t, id) ==
    /\ alive /\ ~walk[t].on
    /\ calls < MaxCalls
    /\ calls' = calls + 1
    /\ walk' = [walk EXCEPT ![t] = [on |-> TRUE, rest |-> clusterMembers, lost |-> FALSE, id |-> id]]
    /\ recent' = IF Busy THEN recent \union {id} ELSE {id}
    /\ shifted' = (Busy /\ shifted)
    /\ UNCHANGED <<alive, target, object, vectorVars, leaderClusterMember, wild, removed>>

\* leaderElection: alone, the local node leads; otherwise whoever was elected.
Elect ==
    /\ mpc = "idle"
    /\ \E id \in IF clusterMemberCount = 1 THEN {object[Local].memberID} ELSE Value :
         BeginWalk(Main, id)
    /\ mpc' = "elect"

\* processMessage, LEADER_ELECTED, in the receiver thread of the member at a.
Hear(a) ==
    /\ object[a].thread
    /\ \E id \in Value : BeginWalk(a, id)
    /\ UNCHANGED mpc

OthersMutant(s) == s
Others(s) == "SLAVE"

NamesMutant(a, id) == object[a].memberID >= id
Names(a, id) == object[a].memberID = id

Visit(t) ==
    LET a == Head(walk[t].rest)
        named == Names(a, walk[t].id)
    IN  /\ alive /\ walk[t].rest # <<>>
        /\ walk' = [walk EXCEPT ![t].rest = Tail(@)]
        /\ leaderClusterMember' = IF named THEN a ELSE leaderClusterMember
        /\ object' = [object EXCEPT ![a].memberState = IF named THEN "LEADER" ELSE Others(@)]
        /\ UNCHANGED <<alive, mainVars, vectorVars, historyVars>>

\* Then the leader's name is logged: without a leader, or with a deleted one, the
\* process may end here.  It may also end of a walk past the end of the vector.
EndWalk(t) ==
    /\ alive
    /\ walk[t].on /\ walk[t].rest = <<>> /\ ~walk[t].lost
    /\ leaderClusterMember # NoLeader
    /\ walk' = [walk EXCEPT ![t] = NoWalk]
    /\ mpc' = IF t = Main THEN "idle" ELSE mpc
    /\ UNCHANGED <<alive, target, calls, object, vectorVars, leaderClusterMember, historyVars>>

Gone(a) == object[a].use # "live"

Fatal(t) ==
    /\ walk[t].on
    /\ walk[t].rest = <<>>
    /\ walk[t].lost \/ leaderClusterMember \notin {a \in Heap : ~Gone(a)}

\* The main thread also uses a local member that was removed, if it had no thread.
Die ==
    /\ alive
    /\ (\E t \in Thread : Fatal(t)) \/ (mpc = "idle" /\ Gone(Local))
    /\ alive' = FALSE
    /\ UNCHANGED <<mainVars, object, vectorVars, leaderClusterMember, walk, historyVars>>

-----------------------------------------------------------------------------
(* isOnline *)

\* A socket whose connect() failed counts as open, and so may one in freed memory.
IsOnline(a) ==
    /\ MayCall
    /\ a \in Range(clusterMembers) /\ a # Local
    /\ calls' = calls + 1
    /\ object' = [object EXCEPT ![a].memberState = "ONLINE"]
    /\ UNCHANGED <<alive, mpc, target, vectorVars, leaderClusterMember, walk, historyVars>>

-----------------------------------------------------------------------------
Next ==
    \/ \E h \in Host, a \in Heap : AddMember(h, a)
    \/ Open \/ OpenFails \/ PushBack
    \/ \E h \in Host : RemoveMember(h)
    \/ Delete
    \/ Elect
    \/ \E a \in Heap : Hear(a) \/ IsOnline(a)
    \/ \E t \in Thread : Visit(t) \/ EndWalk(t)
    \/ Die

Spec == Init /\ [][Next]_vars

-----------------------------------------------------------------------------
(* Properties *)

\* Every variable has values of its type, and only a thread that was started, or
\* the main thread, is in setLeader.
TypeOK ==
    /\ alive \in BOOLEAN
    /\ mpc \in {"idle", "open", "push", "delete", "elect"}
    /\ target \in Heap
    /\ calls \in 0..MaxCalls
    /\ object \in [Heap -> [use : {"unused", "live", "freed"}, host : Host,
                            memberID : MemberId, memberState : MemberState,
                            network : Network, thread : BOOLEAN]]
    /\ clusterMembers \in Seq(Heap)
    /\ capacity \in Nat /\ Len(clusterMembers) <= capacity
    /\ clusterMemberCount \in Int
    /\ leaderClusterMember \in Heap \union {NoLeader}
    /\ walk \in [Thread -> [on : BOOLEAN, rest : Seq(Heap), lost : BOOLEAN,
                            id : MemberId]]
    /\ \A a \in Heap : walk[a].on => object[a].thread

Counted == Len(clusterMembers) + (IF mpc = "delete" THEN 1 ELSE 0)

\* Between the calls, and in the middle of one, the vector has no deleted member
\* and none twice, and the count is the length of the vector, off by what it was
\* before the constructor counted.  (addMember and removeMember each change both,
\* and a deleted member's memory is used again.)
VectorHoldsLiveMembers ==
    alive =>
        /\ \A i, j \in DOMAIN clusterMembers :
             /\ ~Gone(clusterMembers[i])
             /\ i # j => clusterMembers[i] # clusterMembers[j]
        /\ clusterMemberCount - wild = Counted

\* Once all calls of setLeader are over, whichever raced, a member in state LEADER
\* is one that the last of them named (the enumeration: "Member is the Cluster
\* Leader"), unless a member was removed under them, or it is one whose state
\* was never set.
StateNamesRecentLeader ==
    alive /\ ~Busy /\ ~shifted =>
        \A i \in DOMAIN clusterMembers :
            LET o == object[clusterMembers[i]]
            IN  o.memberState = "LEADER" /\ o.network # "dangling" => o.memberID \in recent

\* As long as no member was removed, the leader pointer names a member of the
\* cluster that somebody elected or announced, although members are added while
\* receivers go through the vector.
LeaderIsAnnouncedMember ==
    alive /\ ~removed /\ mpc # "delete" /\ leaderClusterMember # NoLeader =>
        /\ leaderClusterMember \in Range(clusterMembers)
        /\ object[leaderClusterMember].memberID \in Value \union {object[Local].memberID}
=============================================================================
