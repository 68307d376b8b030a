--------------------------- MODULE TcpConnection ---------------------------
(***************************************************************************)
(* The connections of ddfs: ddfsTcpConnection as the members of a cluster  *)
(* use it.  Every node runs three kinds of thread:                         *)
(*                                                                         *)
(*   - the main thread adds members (addMember, ddfsClusterMemberPaxos::   *)
(*     init), asks whether they are online and sends to them;              *)
(*   - the listener, bk_routine of the local member, accepts sockets and   *)
(*     puts them into the list openConnections;                            *)
(*   - one receiver per remote member, bk_routine of that member, waits    *)
(*     for a socket, reads from it and drops it when the peer is gone.     *)
(*                                                                         *)
(* Only openConnections is locked.  A process may die and start again.     *)
(* Every node adds a peer at most once in a life.                          *)
(***************************************************************************)
EXTENDS Naturals, Sequences, FiniteSets, SequencesExt

CONSTANTS
    Node,             \* the nodes
    HostName,         \* HostName[n]: the characters of n's address
    Adds,             \* <<n, m>>: n's application adds m to its cluster
    Mortal,           \* the nodes that may be killed at any moment
    MaxStarts,        \* bound: lives of a node
    MaxConnections,   \* bound: TCP connections ever made
    MaxMessages       \* bound: messages from one node to another

ASSUME ConnectionAssumption ==
    /\ IsFiniteSet(Node)
    /\ HostName \in [Node -> Seq(Nat)]
    /\ \A n, m \in Node : n # m => HostName[n] # HostName[m]
    /\ \A p \in Adds : p[1] \in Node /\ p[2] \in Node \ {p[1]}
    /\ Mortal \subseteq Node
    /\ MaxStarts \in Nat /\ MaxConnections \in Nat /\ MaxMessages \in Nat

VARIABLES
    life,             \* of the process and its server socket
    starts,           \* how often the process was started
    \* the main thread: where it is, and the member it works on
    mpc, target,
    \* the receiver thread of node n for member m
    rpc,
    \* how far addMember of m has come at n, and the fields of the member
    stage, serverSocketFD, online,
    \* the static list of accepted sockets
    openConnections,
    \* the operating system: connections, and those not accepted yet
    conns, backlog,
    \* history: how many messages were sent, and which were heard
    sent, heard

processVars == <<life, starts>>
mainVars    == <<mpc, target>>
memberVars  == <<stage, serverSocketFD, online>>
netVars     == <<conns, backlog>>
historyVars == <<sent, heard>>
vars == <<processVars, mainVars, rpc, memberVars, openConnections, netVars, historyVars>>

-----------------------------------------------------------------------------
NoSocket    == 0                     \* serverSocketFD is -1
Unconnected == MaxConnections + 1    \* a socket whose connect() failed

ConnId == 1..Len(conns)

\* A connection: who connected to whom, whose ends are open, what each may read.
NewConnection(n, m) ==
    [client |-> n, server |-> m, ends |-> {n, m}, data |-> [k \in {n, m} |-> <<>>]]

Running(n) == life[n] # "down"

Init ==
    /\ life = [n \in Node |-> "down"]
    /\ starts = [n \in Node |-> 0]
    /\ mpc = [n \in Node |-> "idle"]
    /\ target = [n \in Node |-> n]
    /\ rpc = [n \in Node |-> [m \in Node |-> "none"]]
    /\ stage = [n \in Node |-> [m \in Node |-> "absent"]]
    /\ serverSocketFD = [n \in Node |-> [m \in Node |-> NoSocket]]
    /\ online = [n \in Node |-> {}]
    /\ openConnections = [n \in Node |-> <<>>]
    /\ conns = <<>>
    /\ backlog = [n \in Node |-> <<>>]
    /\ sent = [n \in Node |-> [m \in Node |-> 0]]
    /\ heard = [n \in Node |-> [m \in Node |-> <<>>]]

-----------------------------------------------------------------------------
(***************************************************************************)
(* isConnectionOpen: a look at serverSocketFD without the lock, and, if it *)
(* is -1, a second one under the lock, where the first accepted socket of  *)
(* the member's host is taken off the list.  If another thread was faster, *)
(* the answer is "not open" although the member has a socket by now.       *)
(***************************************************************************)
Waiting(n, m) == {i \in DOMAIN openConnections[n] : conns[openConnections[n][i]].client = m}

NeedsSocketMutant(n, m) == Waiting(n, m) # {}
NeedsSocket(n, m) == serverSocketFD[n][m] = NoSocket /\ Waiting(n, m) # {}

Take(n, m) ==
    LET i == Min(Waiting(n, m))
    IN  /\ serverSocketFD' = [serverSocketFD EXCEPT ![n][m] = openConnections[n][i]]
        /\ openConnections' = [openConnections EXCEPT ![n] = RemoveAt(@, i)]

\* The part under the lock, with its answer.
AttachUnderLock(n, m, found) ==
    \/ NeedsSocket(n, m) /\ found /\ Take(n, m)
    \/ ~NeedsSocket(n, m) /\ ~found /\ UNCHANGED <<serverSocketFD, openConnections>>

-----------------------------------------------------------------------------
(***************************************************************************)
(* A process and its listener.  The port is bound without SO_REUSEADDR, so *)
(* that after a restart bind() may fail; nobody looks at the result, and   *)
(* the node goes on without a listener: it is deaf.                        *)
(***************************************************************************)
Start(n) ==
    /\ life[n] = "down"
    /\ starts[n] < MaxStarts
    /\ starts' = [starts EXCEPT ![n] = @ + 1]
    /\ \E l \in {"bound", "deaf"} :
         /\ l = "deaf" => starts[n] > 0
         /\ life' = [life EXCEPT ![n] = l]
    /\ UNCHANGED <<mainVars, rpc, memberVars, openConnections, netVars, historyVars>>

Listen(n) ==
    /\ life[n] = "bound"
    /\ life' = [life EXCEPT ![n] = "listening"]
    /\ UNCHANGED <<starts, mainVars, rpc, memberVars, openConnections, netVars, historyVars>>

Accept(n) ==
    /\ life[n] = "listening"
    /\ backlog[n] # <<>>
    /\ backlog' = [backlog EXCEPT ![n] = Tail(@)]
    /\ openConnections' = [openConnections EXCEPT ![n] = Append(@, Head(backlog[n]))]
    /\ UNCHANGED <<processVars, mainVars, rpc, memberVars, conns, historyVars>>

-----------------------------------------------------------------------------
(* Main thread: addMember *)

\* Some character of the local address is greater than the remote one's there.
doNotConnect(n, m) ==
    \E i \in DOMAIN HostName[n] \intersect DOMAIN HostName[m] : HostName[n][i] > HostName[m][i]

MayAdd(n, m) ==
    /\ Running(n)
    /\ mpc[n] = "idle"
    /\ <<n, m>> \in Adds
    /\ stage[n][m] = "absent"

\* openConnection starts the receiver thread before the member can receive.
Opened(n, m) ==
    /\ stage' = [stage EXCEPT ![n][m] = "opened"]
    /\ rpc' = [rpc EXCEPT ![n][m] = "poll"]
    /\ mpc' = [mpc EXCEPT ![n] = "portal"]
    /\ target' = [target EXCEPT ![n] = m]
    /\ UNCHANGED <<processVars, online, openConnections, historyVars>>

AddPassive(n, m) ==
    /\ MayAdd(n, m)
    /\ doNotConnect(n, m)
    /\ Opened(n, m)
    /\ UNCHANGED <<serverSocketFD, netVars>>

AddConnecting(n, m) ==
    /\ MayAdd(n, m)
    /\ ~doNotConnect(n, m)
    /\ life[m] = "listening"
    /\ Len(conns) < MaxConnections
    /\ conns' = Append(conns, NewConnection(n, m))
    /\ backlog' = [backlog EXCEPT ![m] = Append(@, Len(conns) + 1)]
    /\ serverSocketFD' = [serverSocketFD EXCEPT ![n][m] = Len(conns) + 1]
    /\ Opened(n, m)

\* connect() fails: no portal and no thread, but addMember keeps the member.
AddBroken(n, m) ==
    /\ MayAdd(n, m)
    /\ ~doNotConnect(n, m)
    /\ stage' = [stage EXCEPT ![n][m] = "broken"]
    /\ serverSocketFD' = [serverSocketFD EXCEPT ![n][m] = Unconnected]
    /\ UNCHANGED <<processVars, mainVars, rpc, online, openConnections, netVars, historyVars>>

\* The first look of isConnectionOpen on the way to step yes, or under the lock to no.
Look(n, m, yes, no) ==
    mpc' = [mpc EXCEPT ![n] = IF serverSocketFD[n][m] # NoSocket THEN yes ELSE no]

SetupPortal(n) ==
    /\ mpc[n] = "portal"
    /\ stage' = [stage EXCEPT ![n][target[n]] = "portal"]
    /\ Look(n, target[n], "subscribe", "portalLock")
    /\ UNCHANGED <<processVars, target, rpc, serverSocketFD, online, openConnections, netVars,
                   historyVars>>

PortalLock(n) ==
    /\ mpc[n] = "portalLock"
    /\ \E found \in BOOLEAN : AttachUnderLock(n, target[n], found)
    /\ mpc' = [mpc EXCEPT ![n] = "subscribe"]
    /\ UNCHANGED <<processVars, target, rpc, stage, online, netVars, historyVars>>

Subscribe(n) ==
    /\ mpc[n] = "subscribe"
    /\ stage' = [stage EXCEPT ![n][target[n]] = "member"]
    /\ mpc' = [mpc EXCEPT ![n] = "idle"]
    /\ UNCHANGED <<processVars, target, rpc, serverSocketFD, online, openConnections, netVars,
                   historyVars>>

-----------------------------------------------------------------------------
(* Main thread: isOnline and sendData *)

IsOnline(n, m) ==
    /\ mpc[n] = "idle"
    /\ stage[n][m] \in {"member", "broken"}
    /\ target' = [target EXCEPT ![n] = m]
    /\ Look(n, m, "checked", "checkLock")
    /\ UNCHANGED <<processVars, rpc, memberVars, openConnections, netVars, historyVars>>

CheckLock(n) ==
    /\ mpc[n] = "checkLock"
    /\ \E found \in BOOLEAN :
         /\ AttachUnderLock(n, target[n], found)
         /\ mpc' = [mpc EXCEPT ![n] = IF found THEN "checked" ELSE "idle"]
    /\ UNCHANGED <<processVars, target, rpc, stage, online, netVars, historyVars>>

SetOnline(n) ==
    /\ mpc[n] = "checked"
    /\ online' = [online EXCEPT ![n] = @ \union {target[n]}]
    /\ mpc' = [mpc EXCEPT ![n] = "idle"]
    /\ UNCHANGED <<processVars, target, rpc, stage, serverSocketFD, openConnections, netVars,
                   historyVars>>

SendData(n, m) ==
    /\ mpc[n] = "idle"
    /\ stage[n][m] = "member"
    /\ sent[n][m] < MaxMessages
    /\ target' = [target EXCEPT ![n] = m]
    /\ Look(n, m, "sendto", "sendLock")
    /\ UNCHANGED <<processVars, rpc, memberVars, openConnections, netVars, historyVars>>

SendLock(n) ==
    /\ mpc[n] = "sendLock"
    /\ \E found \in BOOLEAN :
         /\ AttachUnderLock(n, target[n], found)
         /\ mpc' = [mpc EXCEPT ![n] = IF found THEN "sendto" ELSE "idle"]
    /\ UNCHANGED <<processVars, target, rpc, stage, online, netVars, historyVars>>

\* sendto() on the member's socket: nothing arrives if it is -1 or the peer is gone.
Transmit(n, m) ==
    LET c == serverSocketFD[n][m]
    IN  /\ sent' = [sent EXCEPT ![n][m] = @ + 1]
        /\ conns' = [d \in ConnId |->
                       IF d = c /\ m \in conns[d].ends
                       THEN [conns[d] EXCEPT !.data[m] = Append(@, sent[n][m] + 1)]
                       ELSE conns[d]]

Sendto(n) ==
    /\ mpc[n] = "sendto"
    /\ Transmit(n, target[n])
    /\ mpc' = [mpc EXCEPT ![n] = "idle"]
    /\ UNCHANGED <<processVars, target, rpc, memberVars, openConnections, backlog, heard>>

-----------------------------------------------------------------------------
(* Receiver thread of node n for member m *)

Poll(n, m) ==
    /\ rpc[n][m] = "poll"
    /\ rpc' = [rpc EXCEPT ![n][m] = IF serverSocketFD[n][m] # NoSocket THEN "recv" ELSE "lock"]
    /\ UNCHANGED <<processVars, mainVars, memberVars, openConnections, netVars, historyVars>>

PollLock(n, m) ==
    /\ rpc[n][m] = "lock"
    /\ \E found \in BOOLEAN :
         /\ AttachUnderLock(n, m, found)
         /\ rpc' = [rpc EXCEPT ![n][m] = IF found THEN "recv" ELSE "poll"]
    /\ UNCHANGED <<processVars, mainVars, stage, online, netVars, historyVars>>

Incoming(n, m) == conns[serverSocketFD[n][m]].data[n]

PeerGone(n, m) == m \notin conns[serverSocketFD[n][m]].ends

ConsumeMutant(s) == s
Consume(s) == Tail(s)

\* A message that comes before subscribe() has been called is dropped.
Receive(n, m) ==
    /\ rpc[n][m] = "recv"
    /\ Incoming(n, m) # <<>>
    /\ conns' = [conns EXCEPT ![serverSocketFD[n][m]].data[n] = Consume(@)]
    /\ IF stage[n][m] = "member"
       THEN /\ heard' = [heard EXCEPT ![n][m] = Append(@, Head(Incoming(n, m)))]
            /\ rpc' = [rpc EXCEPT ![n][m] = "callback"]
       ELSE /\ rpc' = [rpc EXCEPT ![n][m] = "poll"]
            /\ UNCHANGED heard
    /\ UNCHANGED <<processVars, mainVars, memberVars, openConnections, backlog, sent>>

\* The callback may send an answer to the same member.
Callback(n, m) ==
    /\ rpc[n][m] = "callback"
    /\ rpc' = [rpc EXCEPT ![n][m] = "poll"]
    /\ \/ sent[n][m] < MaxMessages /\ Transmit(n, m)
       \/ UNCHANGED <<conns, sent>>
    /\ UNCHANGED <<processVars, mainVars, memberVars, openConnections, backlog, heard>>

\* recvfrom() returns -1: the connection was reset and the unread data is gone.
Reset(n, m) ==
    /\ rpc[n][m] = "recv"
    /\ PeerGone(n, m)
    /\ Incoming(n, m) # <<>>
    /\ conns' = [conns EXCEPT ![serverSocketFD[n][m]].data[n] = <<>>]
    /\ rpc' = [rpc EXCEPT ![n][m] = "poll"]
    /\ UNCHANGED <<processVars, mainVars, memberVars, openConnections, backlog, historyVars>>

\* recvfrom() returns 0; the socket is given up after a sleep, and never closed.
PeerClosed(n, m) ==
    /\ rpc[n][m] = "recv"
    /\ PeerGone(n, m)
    /\ Incoming(n, m) = <<>>
    /\ rpc' = [rpc EXCEPT ![n][m] = "closing"]
    /\ UNCHANGED <<processVars, mainVars, memberVars, openConnections, netVars, historyVars>>

GivenUpMutant(n, m) == serverSocketFD[n][m]
GivenUp(n, m) == NoSocket

AfterGiveUpMutant == "recv"
AfterGiveUp == "poll"

GiveUp(n, m) ==
    /\ rpc[n][m] = "closing"
    /\ serverSocketFD' = [serverSocketFD EXCEPT ![n][m] = GivenUp(n, m)]
    /\ rpc' = [rpc EXCEPT ![n][m] = AfterGiveUp]
    /\ UNCHANGED <<processVars, mainVars, stage, online, openConnections, netVars, historyVars>>

-----------------------------------------------------------------------------
(***************************************************************************)
(* Death.  Besides being killed from outside, a process dies               *)
(*   - of SIGPIPE, when it sends to a peer that is gone;                   *)
(*   - of a send to a member without a portal: networkPrivatePtr was never *)
(*     set;                                                                *)
(*   - of a message that arrives before setupPortal has set                *)
(*     responseQueueIndex.                                                 *)
(* Each of them may also go well.                                          *)
(***************************************************************************)
SendsTo(n, m) == (mpc[n] = "sendto" /\ target[n] = m) \/ rpc[n][m] = "callback"

Fatal(n) ==
    \/ n \in Mortal
    \/ \E m \in Node : SendsTo(n, m) /\ serverSocketFD[n][m] # NoSocket /\ PeerGone(n, m)
    \/ mpc[n] = "idle" /\ \E m \in Node : stage[n][m] = "broken"
    \/ \E m \in Node : stage[n][m] = "opened" /\ rpc[n][m] = "recv" /\ Incoming(n, m) # <<>>

Die(n) ==
    /\ Running(n)
    /\ Fatal(n)
    /\ life' = [life EXCEPT ![n] = "down"]
    /\ mpc' = [mpc EXCEPT ![n] = "idle"]
    /\ target' = [target EXCEPT ![n] = n]
    /\ rpc' = [rpc EXCEPT ![n] = [m \in Node |-> "none"]]
    /\ stage' = [stage EXCEPT ![n] = [m \in Node |-> "absent"]]
    /\ serverSocketFD' = [serverSocketFD EXCEPT ![n] = [m \in Node |-> NoSocket]]
    /\ online' = [online EXCEPT ![n] = {}]
    /\ openConnections' = [openConnections EXCEPT ![n] = <<>>]
    /\ backlog' = [backlog EXCEPT ![n] = <<>>]
    /\ conns' = [c \in ConnId |->
                   IF n \in conns[c].ends
                   THEN [conns[c] EXCEPT !.ends = @ \ {n}, !.data[n] = <<>>]
                   ELSE conns[c]]
    /\ UNCHANGED <<starts, historyVars>>

-----------------------------------------------------------------------------
Listener(n) == Listen(n) \/ Accept(n)

MainStep(n) ==
    \/ SetupPortal(n) \/ PortalLock(n) \/ Subscribe(n)
    \/ CheckLock(n) \/ SetOnline(n)
    \/ SendLock(n) \/ Sendto(n)

Call(n, m) ==
    \/ AddPassive(n, m) \/ AddConnecting(n, m) \/ AddBroken(n, m)
    \/ IsOnline(n, m) \/ SendData(n, m)

Receiver(n, m) ==
    \/ Poll(n, m) \/ PollLock(n, m)
    \/ Receive(n, m) \/ Callback(n, m) \/ Reset(n, m) \/ PeerClosed(n, m) \/ GiveUp(n, m)

Next ==
    \E n \in Node :
        \/ Start(n) \/ Die(n) \/ Listener(n) \/ MainStep(n)
        \/ \E m \in Node : Call(n, m) \/ Receiver(n, m)

\* Listeners and receivers are scheduled, and their sleeps end; nothing depends on
\* what the main thread does, which may stay in a call as long as it likes.
Fairness ==
    \A n \in Node :
        /\ WF_vars(Listener(n))
        /\ \A m \in Node \ {n} : WF_vars(Receiver(n, m))

Spec == Init /\ [][Next]_vars
FairSpec == Spec /\ Fairness

-----------------------------------------------------------------------------
(* Properties *)

ConnIds == 1..MaxConnections

\* Every variable has values of its type; a receiver thread that reads, or whose
\* callback may send, has a socket that was connected once.
TypeOK ==
    /\ life \in [Node -> {"down", "bound", "listening", "deaf"}]
    /\ starts \in [Node -> 0..MaxStarts]
    /\ mpc \in [Node -> {"idle", "portal", "portalLock", "subscribe", "checkLock", "checked",
                         "sendLock", "sendto"}]
    /\ target \in [Node -> Node]
    /\ rpc \in [Node -> [Node -> {"none", "poll", "lock", "recv", "callback", "closing"}]]
    /\ stage \in [Node -> [Node -> {"absent", "opened", "portal", "member", "broken"}]]
    /\ serverSocketFD \in [Node -> [Node -> 0..Unconnected]]
    /\ online \in [Node -> SUBSET Node]
    /\ openConnections \in [Node -> Seq(ConnIds)]
    /\ backlog \in [Node -> Seq(ConnIds)]
    /\ Len(conns) <= MaxConnections
    /\ \A c \in ConnId :
         /\ conns[c].client \in Node
         /\ conns[c].server \in Node \ {conns[c].client}
         /\ conns[c].ends \subseteq {conns[c].client, conns[c].server}
         /\ conns[c].data \in [{conns[c].client, conns[c].server} -> Seq(1..(MaxMessages + 1))]
    /\ sent \in [Node -> [Node -> 0..(MaxMessages + 1)]]
    /\ heard \in [Node -> [Node -> Seq(1..(MaxMessages + 1))]]
    /\ \A n, m \in Node :
         rpc[n][m] \in {"recv", "callback", "closing"} => serverSocketFD[n][m] \in ConnId

Peer(n, c) == IF conns[c].client = n THEN conns[c].server ELSE conns[c].client

Established(c) == conns[c].ends = {conns[c].client, conns[c].server}

\* The places at node n where connection c is held: the two queues and the members.
Holders(n, c) ==
    {<<"backlog", i>> : i \in {i \in DOMAIN backlog[n] : backlog[n][i] = c}}
    \union {<<"list", i>> : i \in {i \in DOMAIN openConnections[n] : openConnections[n][i] = c}}
    \union {<<"member", m>> : m \in {m \in Node : serverSocketFD[n][m] = c}}

\* An established connection is never lost and never shared: at each end it is
\* in the backlog, in openConnections or the socket of one member, the one it
\* leads to.  (isConnectionOpen is called by two threads for the same member.)
SocketHeldOnce ==
    \A c \in ConnId : Established(c) =>
        \A n \in conns[c].ends :
            /\ Cardinality(Holders(n, c)) = 1
            /\ \A m \in Node : serverSocketFD[n][m] = c => m = Peer(n, c)

\* What a node hears from another was sent and comes in order and once, also
\* across the deaths and reconnections of both.  (bk_routine's reads, and the
\* order in which isConnectionOpen takes sockets off the list.)
OC == INSTANCE OrderedChannel
ImplementsOrderedChannel == OC!Spec

\* A connection from a host that was added as a member gets to this member's
\* receiver, or loses an end: bk_routine of the listener, isConnectionOpen.
PendingAttached ==
    \A c \in ConnIds :
        (/\ c \in ConnId
         /\ Established(c)
         /\ rpc[conns[c].server][conns[c].client] # "none")
        ~> (c \in ConnId /\ (~Established(c) \/ serverSocketFD[conns[c].server][conns[c].client] = c))

DeadSocket(n, m) ==
    /\ serverSocketFD[n][m] \in ConnId
    /\ PeerGone(n, m)

\* A member does not keep the socket of a peer that is gone: bk_routine sees
\* the end of the stream and gives the socket up, or the node itself dies.
DeadSocketDropped == \A n \in Node : \A m \in Node \ {n} : DeadSocket(n, m) ~> ~DeadSocket(n, m)
=============================================================================
