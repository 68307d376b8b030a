-------------------------- MODULE TcpOrder_proofs --------------------------
(***************************************************************************)
(* Proof that TcpConnection implements OrderedChannel: what a node hears   *)
(* from another was sent, is heard once and in the order it was sent, for  *)
(* any number of nodes, connections, messages, deaths and restarts.        *)
(***************************************************************************)
EXTENDS TcpConnection_proofs

-----------------------------------------------------------------------------
(* The inductive invariant *)

\* The open ends of node n towards node m, and what n may still read from one.
Ends(n, m) == {c \in ConnId : n \in conns[c].ends /\ Peer(n, c) = m}

Data(n, c) == conns[c].data[n]

\* Connections are made by the node that must connect, and once per life of it.
ClientsOK ==
    /\ \A c \in ConnId :
         /\ ~doNotConnect(conns[c].client, conns[c].server)
         /\ conns[c].client \in conns[c].ends =>
              stage[conns[c].client][conns[c].server] \in {"opened", "portal", "member"}
    /\ \A c, d \in ConnId :
         conns[c].client = conns[d].client /\ conns[c].server = conns[d].server /\ c # d =>
            ~(conns[c].client \in conns[c].ends /\ conns[c].client \in conns[d].ends)

\* A death closes all the ends of a node: those made later than an open one are open.
LaterEndsOpen ==
    \A c, d \in ConnId : \A n \in conns[c].ends :
        c < d /\ n \in {conns[d].client, conns[d].server} => n \in conns[d].ends

\* A node that connected itself, and does not use its connection any more, has no
\* connection left that the other side might read.
OwnDropped ==
    \A n, m \in Node :
        /\ stage[n][m] = "broken" => serverSocketFD[n][m] = Unconnected
        /\ (/\ stage[n][m] \in {"opened", "portal", "member"}
            /\ ~doNotConnect(n, m)
            /\ ~(serverSocketFD[n][m] \in ConnId /\ conns[serverSocketFD[n][m]].client = n)) =>
           \A c \in ConnId :
              conns[c].client = n /\ conns[c].server = m => m \notin conns[c].ends

\* Accepted sockets are queued, and taken, in the order the connections were made.
Sorted(q) == \A i, j \in 1..Len(q) : i < j => q[i] < q[j]

QueuesSorted ==
    \A n \in Node :
        /\ Sorted(openConnections[n]) /\ Sorted(backlog[n])
        /\ \A c \in Range(openConnections[n]) : \A d \in Range(backlog[n]) : c < d
        /\ \A m \in Node :
             serverSocketFD[n][m] \in ConnId /\ conns[serverSocketFD[n][m]].client = m =>
               \A d \in Range(openConnections[n]) \union Range(backlog[n]) :
                  conns[d].client = m => serverSocketFD[n][m] < d

\* What may still be read is at an end that is held, and is not being given up.
UnreadHeld ==
    /\ \A c \in ConnId : \A n \in conns[c].ends : Data(n, c) # <<>> => Holds(n, c)
    /\ \A n, m \in Node : rpc[n][m] = "closing" => Data(n, serverSocketFD[n][m]) = <<>>

\* A node sends on the last connection that has anything for the other side.
SendsOnLast ==
    \A n, m \in Node : serverSocketFD[n][m] \in ConnId =>
        \A d \in Ends(m, n) :
            serverSocketFD[n][m] \in Ends(m, n) /\ serverSocketFD[n][m] < d => Data(m, d) = <<>>

\* Of two connections, each made by one side, the later one is not used.
CrossUnused ==
    \A n, m \in Node : \A c, d \in Ends(m, n) :
        conns[c].client = n /\ conns[d].client = m /\ c < d => Data(m, d) = <<>>

\* Messages lie in the order they were sent, within and across connections, and
\* what was heard lies before them.
Increasing(q) == \A i, j \in 1..Len(q) : i < j => q[i] < q[j]

MessagesOK ==
    \A n, m \in Node :
        /\ OC!LastHeard(m, n) \in 0..sent[n][m]
        /\ \A c \in Ends(m, n) :
             /\ Increasing(Data(m, c))
             /\ \A x \in Range(Data(m, c)) : OC!LastHeard(m, n) < x /\ x <= sent[n][m]
        /\ \A c, d \in Ends(m, n) : c < d =>
              \A x \in Range(Data(m, c)) : \A y \in Range(Data(m, d)) : x < y

OrderInv ==
    /\ ClientsOK /\ LaterEndsOpen /\ OwnDropped /\ QueuesSorted /\ UnreadHeld
    /\ SendsOnLast /\ CrossUnused /\ MessagesOK

-----------------------------------------------------------------------------
(* Facts about ends *)

LEMMA EndFacts ==
    ASSUME ConnInv, NEW c \in ConnId, NEW n \in conns[c].ends
    PROVE  /\ conns \in Seq(Conn) /\ conns[c] \in Conn
           /\ n \in Node /\ n \in {conns[c].client, conns[c].server}
           /\ conns[c].client \in Node /\ conns[c].server \in Node
           /\ conns[c].client # conns[c].server
           /\ Peer(n, c) \in Node /\ Peer(n, c) # n
           /\ Data(n, c) \in Seq(Payload)
  <1>1. conns \in Seq(Conn) /\ conns[c] \in Conn
    BY DEF ConnInv, NetInv, NetTypes, ConnId
  <1>2. /\ conns[c].client \in Node /\ conns[c].server \in Node
        /\ conns[c].client # conns[c].server /\ n \in {conns[c].client, conns[c].server}
        /\ Data(n, c) \in Seq(Payload)
    BY <1>1, ConnFacts DEF Data
  <1> QED
    BY <1>1, <1>2 DEF Peer

LEMMA ConnIdFacts ==
    ASSUME ConnInv
    PROVE  /\ ConnId \subseteq Nat /\ NoSocket \notin ConnId /\ Unconnected \notin ConnId
           /\ Len(conns) \in Nat
  BY ConnectionAssumption DEF ConnInv, NetInv, NetTypes, ConnId, NoSocket, Unconnected

LEMMA MessageFacts ==
    ASSUME NEW q \in Seq(Payload)
    PROVE  /\ Range(q) \subseteq Nat
           /\ q # <<>> <=> Range(q) # {}
  <1>1. \A x : x \in Range(q) <=> \E i \in 1..Len(q) : q[i] = x
    BY RangeFacts
  <1>2. \A i \in 1..Len(q) : q[i] \in Payload
    OBVIOUS
  <1>3. q # <<>> <=> 1 \in 1..Len(q)
    OBVIOUS
  <1>4. q # <<>> => q[1] \in Range(q)
    BY <1>1, <1>3
  <1>5. Range(q) # {} => q # <<>>
    BY EmptyQueue
  <1>6. Range(q) \subseteq Nat
    BY <1>1, <1>2 DEF Payload
  <1> QED
    BY <1>4, <1>5, <1>6

\* Sending a message that is newer than the others.
LEMMA AppendMessage ==
    ASSUME NEW q \in Seq(Payload), Increasing(q), NEW x \in Payload, \A y \in Range(q) : y < x
    PROVE  Increasing(Append(q, x)) /\ Range(Append(q, x)) = Range(q) \union {x}
  <1>1. Range(Append(q, x)) = Range(q) \union {x}
    BY AppendQueue
  <1>2. /\ Len(Append(q, x)) = Len(q) + 1 /\ Append(q, x)[Len(q) + 1] = x /\ Len(q) \in Nat
        /\ \A i \in 1..Len(q) : Append(q, x)[i] = q[i]
    OBVIOUS
  <1>3. \A i \in 1..Len(q) : q[i] < x
    BY RangeFacts
  <1>4. Increasing(Append(q, x))
    BY <1>2, <1>3 DEF Increasing
  <1> QED
    BY <1>1, <1>4

LEMMA TailMessage ==
    ASSUME NEW q \in Seq(Payload), q # <<>>, Increasing(q)
    PROVE  /\ Tail(q) \in Seq(Payload) /\ Increasing(Tail(q))
           /\ Range(Tail(q)) \subseteq Range(q) /\ Head(q) \in Range(q) /\ Head(q) \in Payload
           /\ \A x \in Range(Tail(q)) : Head(q) < x
  <1>1. /\ Head(q) \in Payload /\ Tail(q) \in Seq(Payload) /\ Len(Tail(q)) = Len(q) - 1
        /\ Len(q) \in Nat /\ Len(q) > 0 /\ Head(q) = q[1]
        /\ \A i \in 1..Len(Tail(q)) : Tail(q)[i] = q[i + 1]
    OBVIOUS
  <1>2. Increasing(Tail(q))
    BY <1>1 DEF Increasing
  <1>3. \A i \in 1..Len(Tail(q)) : Tail(q)[i] = q[i + 1] /\ q[1] < q[i + 1] /\ i + 1 \in 1..Len(q)
    BY <1>1 DEF Increasing
  <1>4. ASSUME NEW x \in Range(Tail(q))
        PROVE  Head(q) < x /\ x \in Range(q)
    <2>1. PICK i \in 1..Len(Tail(q)) : Tail(q)[i] = x
      BY <1>1, RangeFacts
    <2>2. x = q[i + 1] /\ i + 1 \in 1..Len(q) /\ q[1] < q[i + 1]
      BY <1>3, <2>1
    <2> QED
      BY <1>1, <2>2, RangeFacts
  <1>5. Head(q) \in Range(q)
    BY <1>1, RangeFacts
  <1> QED
    BY <1>1, <1>2, <1>4, <1>5

-----------------------------------------------------------------------------
(* Steps that leave every socket where it is *)

USE DEF processVars, mainVars, memberVars, netVars, historyVars

\* How addMember goes on, for a member that did not have to connect or did.
StageMoves ==
    \A n, m \in Node : stage'[n][m] # stage[n][m] =>
        \/ stage[n][m] \in {"opened", "portal"} /\ stage'[n][m] \in {"portal", "member"}
        \/ stage[n][m] = "absent" /\ stage'[n][m] = "opened" /\ doNotConnect(n, m)

SocketsStay == SameLinks /\ StageMoves /\ UNCHANGED <<backlog, openConnections, serverSocketFD>>

LEMMA StayFacts ==
    ASSUME ConnInv, SameLinks, UNCHANGED <<backlog, openConnections, serverSocketFD>>
    PROVE  /\ ConnId' = ConnId
           /\ \A n, m : Ends(n, m)' = Ends(n, m)
           /\ \A n, c : Holds(n, c)' = Holds(n, c)
           /\ \A c \in ConnId : /\ conns'[c].client = conns[c].client
                                /\ conns'[c].server = conns[c].server
                                /\ conns'[c].ends = conns[c].ends
  <1>1. ConnId' = ConnId
    BY DEF SameLinks, ConnId
  <1>2. \A c \in ConnId : /\ conns'[c].client = conns[c].client
                          /\ conns'[c].server = conns[c].server
                          /\ conns'[c].ends = conns[c].ends
    BY DEF SameLinks
  <1>3. \A n, m : Ends(n, m)' = Ends(n, m)
    BY <1>1, <1>2 DEF Ends, Peer
  <1>4. \A n, c : Holds(n, c)' = Holds(n, c)
    BY DEF Holds
  <1> QED
    BY <1>1, <1>2, <1>3, <1>4

LEMMA StayOrder ==
    ASSUME ConnInv, OrderInv, SocketsStay
    PROVE  ClientsOK' /\ LaterEndsOpen' /\ OwnDropped' /\ QueuesSorted'
  <1>1. /\ ConnId' = ConnId
        /\ \A c \in ConnId : /\ conns'[c].client = conns[c].client
                             /\ conns'[c].server = conns[c].server
                             /\ conns'[c].ends = conns[c].ends
    BY StayFacts DEF SocketsStay
  <1>2. UNCHANGED <<backlog, openConnections, serverSocketFD>> /\ StageMoves
    BY DEF SocketsStay
  <1>3. ClientsOK'
    <2>1. \A c \in ConnId : conns[c].client \in Node /\ conns[c].server \in Node
      <3>1. \A c \in ConnId : conns[c] \in Conn
        BY DEF ConnInv, NetInv, NetTypes, ConnId
      <3> QED
        BY <3>1, ConnFacts
    <2> QED
      BY <1>1, <1>2, <2>1 DEF OrderInv, ClientsOK, StageMoves
  <1>4. LaterEndsOpen'
    BY <1>1 DEF OrderInv, LaterEndsOpen
  <1>5. OwnDropped'
    BY <1>1, <1>2 DEF OrderInv, OwnDropped, StageMoves
  <1>6. QueuesSorted'
    <2>1. \A n \in Node : Range(openConnections[n]) \union Range(backlog[n]) \subseteq ConnId
      <3>1. \A n \in Node : backlog[n] \in Seq(ConnId) /\ openConnections[n] \in Seq(ConnId)
        BY DEF ConnInv, NetInv, NetTypes
      <3>2. \A q \in Seq(ConnId) : Range(q) \subseteq ConnId
        BY RangeFacts
      <3> QED
        BY <3>1, <3>2
    <2> QED
      BY <1>1, <1>2, <2>1 DEF OrderInv, QueuesSorted
  <1> QED
    BY <1>3, <1>4, <1>5, <1>6

\* Reading: what is left at an end was there before, in this order.
ReadOnly ==
    \A c \in ConnId : \A n \in conns[c].ends :
        /\ Increasing(Data(n, c))'
        /\ Range(Data(n, c)') \subseteq Range(Data(n, c))
        /\ Data(n, c) = <<>> => Data(n, c)' = <<>>

HeardFirst ==
    \A n, m \in Node :
        /\ OC!LastHeard(m, n) \in 0..sent[n][m]
        /\ \A c \in Ends(m, n) : \A x \in Range(Data(m, c)) : OC!LastHeard(m, n) < x

ClosingRead == \A n, m \in Node : rpc[n][m] = "closing" => Data(n, serverSocketFD[n][m]) = <<>>

LEMMA ReadOrder ==
    ASSUME ConnInv, OrderInv, SameLinks, UNCHANGED <<backlog, openConnections, serverSocketFD, sent>>,
           ReadOnly, HeardFirst', ClosingRead'
    PROVE  UnreadHeld' /\ SendsOnLast' /\ CrossUnused' /\ MessagesOK'
  <1>1. /\ ConnId' = ConnId
        /\ \A n, m : Ends(n, m)' = Ends(n, m)
        /\ \A n, c : Holds(n, c)' = Holds(n, c)
        /\ \A c \in ConnId : /\ conns'[c].client = conns[c].client
                             /\ conns'[c].server = conns[c].server
                             /\ conns'[c].ends = conns[c].ends
    BY StayFacts
  <1>2. \A n, m : \A c \in Ends(n, m) : c \in ConnId /\ n \in conns[c].ends
    BY DEF Ends
  <1>3. UnreadHeld'
    BY <1>1 DEF OrderInv, UnreadHeld, ReadOnly, ClosingRead
  <1>4. SendsOnLast'
    BY <1>1, <1>2 DEF OrderInv, SendsOnLast, ReadOnly
  <1>5. CrossUnused'
    BY <1>1, <1>2 DEF OrderInv, CrossUnused, ReadOnly
  <1>6. MessagesOK'
    <2>1. \A n, m \in Node : \A c \in Ends(m, n) :
             /\ Increasing(Data(m, c))'
             /\ \A x \in Range(Data(m, c)') : OC!LastHeard(m, n)' < x /\ x <= sent'[n][m]
      BY <1>1, <1>2 DEF OrderInv, MessagesOK, ReadOnly, HeardFirst
    <2>2. \A n, m \in Node : \A c, d \in Ends(m, n) : c < d =>
             \A x \in Range(Data(m, c)') : \A y \in Range(Data(m, d)') : x < y
      BY <1>2 DEF OrderInv, MessagesOK, ReadOnly
    <2> QED
      BY <1>1, <2>1, <2>2 DEF MessagesOK, HeardFirst
  <1> QED
    BY <1>3, <1>4, <1>5, <1>6

LEMMA HeardBefore ==
    ASSUME OrderInv
    PROVE  HeardFirst
  BY DEF OrderInv, MessagesOK, HeardFirst

\* Nothing happens on the connections.
LEMMA QuietOrder ==
    ASSUME ConnInv, OrderInv, StageMoves, ClosingRead',
           UNCHANGED <<conns, backlog, openConnections, serverSocketFD, sent, heard>>
    PROVE  OrderInv'
  <1>1. SameLinks
    BY KeptLinks DEF ConnInv, NetInv
  <1>2. ReadOnly
    <2>1. \A c \in ConnId : \A n \in conns[c].ends : Increasing(Data(n, c))
      <3>1. \A c \in ConnId : \A n \in conns[c].ends :
               n \in Node /\ Peer(n, c) \in Node /\ c \in Ends(n, Peer(n, c))
        BY EndFacts DEF Ends
      <3> QED
        BY <3>1 DEF OrderInv, MessagesOK
    <2> QED
      BY <2>1 DEF ReadOnly, Data
  <1>3. HeardFirst'
    <2>1. \A n, m : OC!LastHeard(m, n)' = OC!LastHeard(m, n) /\ Ends(m, n)' = Ends(m, n)
      BY DEF OC!LastHeard, Ends, ConnId, Peer
    <2>2. \A n, c : Data(n, c)' = Data(n, c)
      BY DEF Data
    <2> QED
      BY <2>1, <2>2, HeardBefore DEF HeardFirst
  <1> QED
    BY <1>1, <1>2, <1>3, StayOrder, ReadOrder DEF OrderInv, SocketsStay

LEMMA NoStageMoves ==
    UNCHANGED stage => StageMoves
  BY DEF StageMoves

LEMMA ClosingStays ==
    ASSUME OrderInv, UNCHANGED <<conns, serverSocketFD>>,
           \A n, m \in Node : rpc'[n][m] = "closing" => rpc[n][m] = "closing"
    PROVE  ClosingRead'
  BY DEF OrderInv, UnreadHeld, ClosingRead, Data

LEMMA StartOrder ==
    ASSUME ConnInv, OrderInv, NEW n \in Node, Start(n)
    PROVE  OrderInv'
  <1>1. StageMoves
    BY NoStageMoves DEF Start
  <1>2. ClosingRead'
    BY ClosingStays DEF Start
  <1> QED
    BY <1>1, <1>2, QuietOrder DEF Start

LEMMA ListenOrder ==
    ASSUME ConnInv, OrderInv, NEW n \in Node, Listen(n)
    PROVE  OrderInv'
  <1>1. StageMoves
    BY NoStageMoves DEF Listen
  <1>2. ClosingRead'
    BY ClosingStays DEF Listen
  <1> QED
    BY <1>1, <1>2, QuietOrder DEF Listen

LEMMA AddPassiveOrder ==
    ASSUME ConnInv, OrderInv, NEW n \in Node, NEW m \in Node, AddPassive(n, m)
    PROVE  OrderInv'
  <1>1. StageMoves
    BY DEF ConnInv, ThreadInv, ThreadTypes, StageMoves, AddPassive, MayAdd, Opened
  <1>2. ClosingRead'
    BY ClosingStays DEF ConnInv, ThreadInv, ThreadTypes, AddPassive, MayAdd, Opened
  <1> QED
    BY <1>1, <1>2, QuietOrder DEF AddPassive, MayAdd, Opened

LEMMA SetupPortalOrder ==
    ASSUME ConnInv, OrderInv, NEW n \in Node, SetupPortal(n)
    PROVE  OrderInv'
  <1>1. StageMoves
    <2>1. /\ target[n] \in Node /\ stage[n][target[n]] \in {"opened", "portal"}
          /\ stage \in [Node -> [Node -> {"absent", "opened", "portal", "member", "broken"}]]
      BY DEF ConnInv, ThreadInv, ThreadTypes, MainOK, SetupPortal
    <2> QED
      BY <2>1 DEF StageMoves, SetupPortal
  <1>2. ClosingRead'
    BY ClosingStays DEF SetupPortal, Look
  <1> QED
    BY <1>1, <1>2, QuietOrder DEF SetupPortal, Look

LEMMA SubscribeOrder ==
    ASSUME ConnInv, OrderInv, NEW n \in Node, Subscribe(n)
    PROVE  OrderInv'
  <1>1. StageMoves
    <2>1. /\ target[n] \in Node /\ stage[n][target[n]] \in {"opened", "portal"}
          /\ stage \in [Node -> [Node -> {"absent", "opened", "portal", "member", "broken"}]]
      BY DEF ConnInv, ThreadInv, ThreadTypes, MainOK, Subscribe
    <2> QED
      BY <2>1 DEF StageMoves, Subscribe
  <1>2. ClosingRead'
    BY ClosingStays DEF Subscribe
  <1> QED
    BY <1>1, <1>2, QuietOrder DEF Subscribe

LEMMA IsOnlineOrder ==
    ASSUME ConnInv, OrderInv, NEW n \in Node, NEW m \in Node, IsOnline(n, m)
    PROVE  OrderInv'
  <1>1. StageMoves
    BY NoStageMoves DEF IsOnline, Look
  <1>2. ClosingRead'
    BY ClosingStays DEF IsOnline, Look
  <1> QED
    BY <1>1, <1>2, QuietOrder DEF IsOnline, Look

LEMMA SetOnlineOrder ==
    ASSUME ConnInv, OrderInv, NEW n \in Node, SetOnline(n)
    PROVE  OrderInv'
  <1>1. StageMoves
    BY NoStageMoves DEF SetOnline
  <1>2. ClosingRead'
    BY ClosingStays DEF SetOnline
  <1> QED
    BY <1>1, <1>2, QuietOrder DEF SetOnline

LEMMA SendDataOrder ==
    ASSUME ConnInv, OrderInv, NEW n \in Node, NEW m \in Node, SendData(n, m)
    PROVE  OrderInv'
  <1>1. StageMoves
    BY NoStageMoves DEF SendData, Look
  <1>2. ClosingRead'
    BY ClosingStays DEF SendData, Look
  <1> QED
    BY <1>1, <1>2, QuietOrder DEF SendData, Look

LEMMA PollOrder ==
    ASSUME ConnInv, OrderInv, NEW n \in Node, NEW m \in Node, Poll(n, m)
    PROVE  OrderInv'
  <1>1. StageMoves
    BY NoStageMoves DEF Poll
  <1>2. ClosingRead'
    BY ClosingStays DEF ConnInv, ThreadInv, ThreadTypes, Poll
  <1> QED
    BY <1>1, <1>2, QuietOrder DEF Poll

LEMMA PeerClosedOrder ==
    ASSUME ConnInv, OrderInv, NEW n \in Node, NEW m \in Node, PeerClosed(n, m)
    PROVE  OrderInv'
  <1>1. StageMoves
    BY NoStageMoves DEF PeerClosed
  <1>2. ClosingRead'
    BY DEF ConnInv, ThreadInv, ThreadTypes, OrderInv, UnreadHeld, ClosingRead, Data, Incoming,
           PeerClosed
  <1> QED
    BY <1>1, <1>2, QuietOrder DEF PeerClosed

-----------------------------------------------------------------------------
(* Reading *)

LEMMA ReadEffect ==
    ASSUME ConnInv, NEW c \in ConnId, NEW n \in conns[c].ends, NEW q,
           conns' = [conns EXCEPT ![c].data[n] = q]
    PROVE  \A d \in ConnId : \A p \in conns[d].ends :
              Data(p, d)' = IF d = c /\ p = n THEN q ELSE Data(p, d)
  <1>1. conns \in Seq(Conn)
    BY DEF ConnInv, NetInv, NetTypes
  <1>2. /\ \A d \in ConnId : d # c => conns'[d] = conns[d]
        /\ conns'[c] = [conns[c] EXCEPT !.data[n] = q]
    <2>1. DOMAIN conns = ConnId
      BY <1>1 DEF ConnId
    <2> QED
      BY <2>1
  <1>3. /\ conns[c].data \in [{conns[c].client, conns[c].server} -> Seq(Payload)]
        /\ conns[c] \in Conn /\ n \in {conns[c].client, conns[c].server}
        /\ conns[c].ends \subseteq {conns[c].client, conns[c].server}
    <2>1. conns[c] \in Conn
      BY <1>1 DEF ConnId
    <2> QED
      BY <2>1, ConnFacts
  <1>4. conns'[c].data = [conns[c].data EXCEPT ![n] = q]
    BY <1>2, <1>3 DEF Conn
  <1>5. \A p \in conns[c].ends : Data(p, c)' = IF p = n THEN q ELSE Data(p, c)
    BY <1>3, <1>4 DEF Data
  <1>6. \A d \in ConnId : d # c => \A p : Data(p, d)' = Data(p, d)
    BY <1>2 DEF Data
  <1> QED
    BY <1>5, <1>6

\* A member's socket is the first of its connections that has anything to read.
LEMMA ReadsFirst ==
    ASSUME ConnInv, OrderInv, NEW n \in Node, NEW m \in Node, serverSocketFD[n][m] \in ConnId,
           NEW d \in Ends(n, m), d < serverSocketFD[n][m]
    PROVE  Data(n, serverSocketFD[n][m]) = <<>> \/ Data(n, d) = <<>>
  <1>1. PICK c \in ConnId : c = serverSocketFD[n][m]
    OBVIOUS
  <1>2. c \in Ends(n, m) /\ d \in ConnId /\ n \in conns[d].ends /\ Peer(n, d) = m /\ d # c
    <2>1. c \in Ends(n, m)
      BY <1>1, ReadersEnd DEF Ends
    <2>2. c \in Nat /\ d \in Nat /\ d < c /\ d \in ConnId
      BY <1>1, ConnIdFacts DEF Ends
    <2> QED
      BY <2>1, <2>2 DEF Ends
  <1>3. /\ \/ conns[c].client = n /\ conns[c].server = m
           \/ conns[c].client = m /\ conns[c].server = n
        /\ \/ conns[d].client = n /\ conns[d].server = m
           \/ conns[d].client = m /\ conns[d].server = n
        /\ n # m /\ n \in conns[c].ends
    BY <1>2, EndFacts DEF Ends, Peer
  <1>4. SUFFICES ASSUME Data(n, d) # <<>>
                 PROVE  Data(n, c) = <<>>
    BY <1>1
  <1>5. Holds(n, d)
    BY <1>2, <1>4 DEF OrderInv, UnreadHeld
  <1>6. d \in Range(backlog[n]) \union Range(openConnections[n])
    <2>1. \A p \in Node : serverSocketFD[n][p] = d => p = m
      BY <1>2 DEF ConnInv, NetInv, HeldOK, HeldAt
    <2> QED
      BY <1>1, <1>2, <1>5, <2>1 DEF Holds
  <1>7. conns[d].server = n
    BY <1>6 DEF ConnInv, NetInv, HeldOK, HeldAt, QueueOK
  <1>8. conns[d].client = m
    BY <1>3, <1>7
  <1>9. CASE conns[c].client = m
    <2>1. c < d
      BY <1>1, <1>6, <1>8, <1>9 DEF OrderInv, QueuesSorted
    <2>2. c \in Nat /\ d \in Nat /\ d < c
      BY <1>1, <1>2, ConnIdFacts
    <2> QED
      BY <2>1, <2>2
  <1>10. CASE conns[c].client = n
    BY <1>1, <1>2, <1>8, <1>10 DEF OrderInv, CrossUnused
  <1> QED
    BY <1>3, <1>9, <1>10

LEMMA ReceiveOrder ==
    ASSUME ConnInv, OrderInv, NEW n \in Node, NEW m \in Node, Receive(n, m)
    PROVE  /\ OrderInv'
           /\ heard' # heard =>
                \E k : /\ OC!LastHeard(n, m) < k /\ k <= sent[m][n] /\ k \in Nat
                       /\ heard' = [heard EXCEPT ![n][m] = Append(heard[n][m], k)]
  <1>1. PICK c \in ConnId : c = serverSocketFD[n][m]
    BY DEF ConnInv, ThreadInv, ReceiversOK, Receive
  <1>2. /\ n \in conns[c].ends /\ Peer(n, c) = m /\ c \in Ends(n, m)
        /\ Data(n, c) \in Seq(Payload) /\ Data(n, c) # <<>> /\ Increasing(Data(n, c))
    <2>1. n \in conns[c].ends /\ Peer(n, c) = m /\ Data(n, c) \in Seq(Payload)
      BY <1>1, ReadersEnd DEF Data, Incoming
    <2>2. c \in Ends(n, m)
      BY <2>1 DEF Ends
    <2>3. Data(n, c) # <<>>
      BY <1>1 DEF Receive, Incoming, Data
    <2> QED
      BY <2>1, <2>2, <2>3 DEF OrderInv, MessagesOK
  <1>3. PICK q : q = Tail(Data(n, c))
    OBVIOUS
  <1>4. PICK h : h = Head(Data(n, c))
    OBVIOUS
  <1>5. /\ q \in Seq(Payload) /\ Increasing(q) /\ Range(q) \subseteq Range(Data(n, c))
        /\ h \in Range(Data(n, c)) /\ h \in Payload /\ \A x \in Range(q) : h < x
    BY <1>2, <1>3, <1>4, TailMessage
  <1>6. conns' = [conns EXCEPT ![c].data[n] = q]
    BY <1>1, <1>3 DEF Receive, Consume, Data
  <1>7. SameLinks
    BY <1>2, <1>5, <1>6, DataLinks DEF ConnInv, NetInv
  <1>8. \A d \in ConnId : \A p \in conns[d].ends :
           Data(p, d)' = IF d = c /\ p = n THEN q ELSE Data(p, d)
    BY <1>2, <1>6, ReadEffect
  <1>9. UNCHANGED <<backlog, openConnections, serverSocketFD, sent, stage>>
    BY DEF Receive
  <1>10. ReadOnly
    <2>1. \A d \in ConnId : \A p \in conns[d].ends : Increasing(Data(p, d))
      <3>1. \A d \in ConnId : \A p \in conns[d].ends :
               p \in Node /\ Peer(p, d) \in Node /\ d \in Ends(p, Peer(p, d))
        BY EndFacts DEF Ends
      <3> QED
        BY <3>1 DEF OrderInv, MessagesOK
    <2>2. \A d \in ConnId : \A p \in conns[d].ends :
             Increasing(Data(p, d))' <=> Increasing(Data(p, d)')
      BY DEF Increasing
    <2> QED
      BY <1>2, <1>5, <1>8, <2>1, <2>2 DEF ReadOnly
  <1>11. ClosingRead'
    <2>1. \A a, b \in Node : rpc'[a][b] = "closing" => rpc[a][b] = "closing" /\ ~(a = n /\ b = m)
      <3>1. PICK x \in {"callback", "poll"} : rpc' = [rpc EXCEPT ![n][m] = x]
        BY DEF Receive
      <3>2. \A a, b \in Node : rpc'[a][b] = IF a = n /\ b = m THEN x ELSE rpc[a][b]
        BY <3>1 DEF ConnInv, ThreadInv, ThreadTypes
      <3> QED
        BY <3>2
    <2>2. \A a, b \in Node : rpc[a][b] = "closing" =>
             serverSocketFD[a][b] \in ConnId /\ a \in conns[serverSocketFD[a][b]].ends
             /\ (a = n /\ serverSocketFD[a][b] = c => b = m)
      BY <1>2 DEF ConnInv, NetInv, ThreadInv, ReceiversOK, HeldOK, HeldAt
    <2> QED
      BY <1>8, <1>9, <2>1, <2>2 DEF OrderInv, UnreadHeld, ClosingRead
  <1>12. OC!LastHeard(n, m) < h /\ h <= sent[m][n] /\ h \in Nat
    BY <1>2, <1>5 DEF OrderInv, MessagesOK, Payload
  <1>13. \A d \in Ends(n, m) : \A x \in Range(Data(n, d)') : h < x
    <2> SUFFICES ASSUME NEW d \in Ends(n, m), NEW x \in Range(Data(n, d)')
                 PROVE  h < x
      OBVIOUS
    <2>0. d \in ConnId /\ n \in conns[d].ends /\ d \in Nat /\ c \in Nat
      BY ConnIdFacts DEF Ends
    <2>1. CASE d = c
      BY <1>5, <1>8, <2>0, <2>1
    <2>2. CASE c < d
      BY <1>2, <1>5, <1>8, <2>0, <2>2 DEF OrderInv, MessagesOK
    <2>3. CASE d < c
      <3>1. Data(n, d) = <<>>
        BY <1>1, <1>2, <2>3, ReadsFirst
      <3> QED
        BY <1>8, <2>0, <2>3, <3>1, EmptyQueue
    <2> QED
      BY <2>0, <2>1, <2>2, <2>3
  <1>14. \/ heard' = heard
         \/ heard' = [heard EXCEPT ![n][m] = Append(heard[n][m], h)]
    BY <1>1, <1>4 DEF Receive, Incoming, Data
  <1>15. \A a, b \in Node :
           OC!LastHeard(a, b)' = IF a = n /\ b = m /\ heard' # heard THEN h ELSE OC!LastHeard(a, b)
    <2>1. heard \in [Node -> [Node -> Seq(Payload)]] /\ heard[n][m] \in Seq(Payload)
      BY DEF ConnInv, ThreadInv, ThreadTypes
    <2> DEFINE more == Append(heard[n][m], h)
    <2>2. more # <<>> /\ more[Len(more)] = h
      <3>1. \A s \in Seq(Payload) : Append(s, h) # <<>> /\ Append(s, h)[Len(Append(s, h))] = h
        <4> HIDE DEF Payload
        <4> QED
          BY <1>5
      <3> QED
        BY <2>1, <3>1
    <2>3. CASE heard' = heard
      BY <2>3 DEF OC!LastHeard
    <2>4. CASE heard' = [heard EXCEPT ![n][m] = more] /\ heard' # heard
      <3> HIDE DEF more
      <3>1. \A a, b \in Node : heard'[a][b] = IF a = n /\ b = m THEN more ELSE heard[a][b]
        BY <2>1, <2>4
      <3> QED
        BY <2>2, <2>4, <3>1 DEF OC!LastHeard
    <2> QED
      BY <1>14, <2>3, <2>4
  <1>16. HeardFirst'
    <2> SUFFICES ASSUME NEW a \in Node, NEW b \in Node
                 PROVE  /\ OC!LastHeard(b, a)' \in 0..sent[a][b]
                        /\ \A d \in Ends(b, a) : \A x \in Range(Data(b, d)') :
                              OC!LastHeard(b, a)' < x
      <3>1. \A a, b : Ends(a, b)' = Ends(a, b)
        BY <1>7, <1>9, StayFacts
      <3> QED
        BY <1>9, <3>1 DEF HeardFirst
    <2>1. CASE b = n /\ a = m /\ heard' # heard
      <3>1. sent[m][n] \in Nat
        BY DEF ConnInv, ThreadInv, ThreadTypes
      <3> QED
        BY <1>12, <1>13, <1>15, <2>1, <3>1
    <2>2. CASE ~(b = n /\ a = m /\ heard' # heard)
      <3>1. OC!LastHeard(b, a)' = OC!LastHeard(b, a)
        BY <1>15, <2>2
      <3>2. \A d \in Ends(b, a) : Range(Data(b, d)') \subseteq Range(Data(b, d))
        BY <1>10 DEF ReadOnly, Ends
      <3> QED
        BY <3>1, <3>2 DEF OrderInv, MessagesOK
    <2> QED
      BY <2>1, <2>2
  <1>17. OrderInv'
    BY <1>7, <1>9, <1>10, <1>11, <1>16, NoStageMoves, StayOrder, ReadOrder DEF OrderInv, SocketsStay
  <1> QED
    BY <1>12, <1>14, <1>17

LEMMA ResetOrder ==
    ASSUME ConnInv, OrderInv, NEW n \in Node, NEW m \in Node, Reset(n, m)
    PROVE  OrderInv'
  <1>1. PICK c \in ConnId : c = serverSocketFD[n][m]
    BY DEF ConnInv, ThreadInv, ReceiversOK, Reset
  <1>2. n \in conns[c].ends /\ <<>> \in Seq(Payload)
    BY <1>1, ReadersEnd
  <1>3. conns' = [conns EXCEPT ![c].data[n] = <<>>]
    BY <1>1 DEF Reset
  <1>4. SameLinks
    BY <1>2, <1>3, DataLinks DEF ConnInv, NetInv
  <1>5. \A d \in ConnId : \A p \in conns[d].ends :
           Data(p, d)' = IF d = c /\ p = n THEN <<>> ELSE Data(p, d)
    BY <1>2, <1>3, ReadEffect
  <1>6. UNCHANGED <<backlog, openConnections, serverSocketFD, sent, heard, stage>>
    BY DEF Reset
  <1>7. ReadOnly
    <2>1. \A d \in ConnId : \A p \in conns[d].ends : Increasing(Data(p, d))
      <3>1. \A d \in ConnId : \A p \in conns[d].ends :
               p \in Node /\ Peer(p, d) \in Node /\ d \in Ends(p, Peer(p, d))
        BY EndFacts DEF Ends
      <3> QED
        BY <3>1 DEF OrderInv, MessagesOK
    <2>2. Increasing(<<>>) /\ \A d \in ConnId : \A p \in conns[d].ends :
             Increasing(Data(p, d))' <=> Increasing(Data(p, d)')
      BY DEF Increasing
    <2> QED
      BY <1>5, <2>1, <2>2, EmptyQueue DEF ReadOnly
  <1>8. ClosingRead'
    <2>1. \A a, b \in Node : rpc'[a][b] = "closing" => rpc[a][b] = "closing"
      BY DEF ConnInv, ThreadInv, ThreadTypes, Reset
    <2>2. \A a, b \in Node : rpc[a][b] = "closing" =>
             serverSocketFD[a][b] \in ConnId /\ a \in conns[serverSocketFD[a][b]].ends
      BY DEF ConnInv, NetInv, ThreadInv, ReceiversOK, HeldOK, HeldAt
    <2> QED
      BY <1>5, <1>6, <2>1, <2>2 DEF OrderInv, UnreadHeld, ClosingRead
  <1>9. HeardFirst'
    <2>1. \A a, b : Ends(a, b)' = Ends(a, b) /\ OC!LastHeard(a, b)' = OC!LastHeard(a, b)
      BY <1>4, <1>6, StayFacts DEF OC!LastHeard
    <2>2. \A a, b : \A d \in Ends(b, a) : Range(Data(b, d)') \subseteq Range(Data(b, d))
      BY <1>7 DEF ReadOnly, Ends
    <2> QED
      BY <1>6, <2>1, <2>2 DEF OrderInv, MessagesOK, HeardFirst
  <1> QED
    BY <1>4, <1>6, <1>7, <1>8, <1>9, NoStageMoves, StayOrder, ReadOrder DEF OrderInv, SocketsStay

-----------------------------------------------------------------------------
(* Sending *)

LEMMA TransmitEffect ==
    ASSUME ConnInv, NEW n \in Node, NEW m \in Node, Transmit(n, m)
    PROVE  \A d \in ConnId : \A p \in conns[d].ends :
              Data(p, d)' = IF p = m /\ d = serverSocketFD[n][m]
                            THEN Append(Data(p, d), sent[n][m] + 1) ELSE Data(p, d)
  <1> SUFFICES ASSUME NEW d \in ConnId, NEW p \in conns[d].ends
               PROVE  Data(p, d)' = IF p = m /\ d = serverSocketFD[n][m]
                                    THEN Append(Data(p, d), sent[n][m] + 1) ELSE Data(p, d)
    OBVIOUS
  <1>1. /\ conns[d] \in Conn /\ p \in {conns[d].client, conns[d].server}
        /\ conns[d].data \in [{conns[d].client, conns[d].server} -> Seq(Payload)]
        /\ conns[d].ends \subseteq {conns[d].client, conns[d].server}
    BY EndFacts, ConnFacts
  <1>2. CASE d = serverSocketFD[n][m] /\ m \in conns[d].ends
    <2>1. conns'[d] = [conns[d] EXCEPT !.data[m] = Append(@, sent[n][m] + 1)]
      BY <1>2 DEF Transmit
    <2>2. conns'[d].data = [conns[d].data EXCEPT ![m] = Append(@, sent[n][m] + 1)]
      BY <1>1, <2>1 DEF Conn
    <2> QED
      BY <1>1, <1>2, <2>2 DEF Data
  <1>3. CASE ~(d = serverSocketFD[n][m] /\ m \in conns[d].ends)
    <2>1. conns'[d] = conns[d]
      BY <1>3 DEF Transmit
    <2> QED
      BY <1>3, <2>1 DEF Data
  <1> QED
    BY <1>2, <1>3

LEMMA TransmitOrder ==
    ASSUME ConnInv, OrderInv, NEW n \in Node, NEW m \in Node, Transmit(n, m),
           n # m, sent[n][m] <= MaxMessages, stage[n][m] \in {"opened", "portal", "member"},
           UNCHANGED <<backlog, openConnections, serverSocketFD, heard, stage>>,
           \A a, b \in Node : rpc'[a][b] = "closing" => rpc[a][b] = "closing"
    PROVE  OrderInv'
  <1>1. PICK f : f = serverSocketFD[n][m]
    OBVIOUS
  <1>2. PICK k : k = sent[n][m] + 1
    OBVIOUS
  <1>3. /\ sent[n][m] \in Nat /\ k \in Payload
        /\ sent' = [sent EXCEPT ![n][m] = k]
        /\ \A a, b \in Node : sent'[a][b] = IF a = n /\ b = m THEN k ELSE sent[a][b]
    <2>1. sent[n][m] \in Nat /\ k \in Payload
      BY <1>2, ConnectionAssumption DEF ConnInv, ThreadInv, ThreadTypes, Payload
    <2>2. sent' = [sent EXCEPT ![n][m] = k]
      BY <1>2 DEF Transmit
    <2>3. sent \in [Node -> [Node -> 0..(MaxMessages + 1)]]
      BY DEF ConnInv, ThreadInv, ThreadTypes
    <2>4. \A a, b \in Node : sent'[a][b] = IF a = n /\ b = m THEN k ELSE sent[a][b]
      BY <2>2, <2>3
    <2> QED
      BY <2>1, <2>2, <2>4
  <1>4. SameLinks
    BY TransmitLinks, ReadersEnd DEF ConnInv, NetInv, ThreadInv
  <1>5. \A d \in ConnId : \A p \in conns[d].ends :
           Data(p, d)' = IF p = m /\ d = f THEN Append(Data(p, d), k) ELSE Data(p, d)
    BY <1>1, <1>2, TransmitEffect
  <1>6. /\ ConnId' = ConnId
        /\ \A a, b : Ends(a, b)' = Ends(a, b)
        /\ \A a, c : Holds(a, c)' = Holds(a, c)
        /\ \A c \in ConnId : /\ conns'[c].client = conns[c].client
                             /\ conns'[c].server = conns[c].server
                             /\ conns'[c].ends = conns[c].ends
        /\ \A a, b : OC!LastHeard(a, b)' = OC!LastHeard(a, b)
    BY <1>4, StayFacts DEF OC!LastHeard
  <1>7. \A a, b : \A c \in Ends(a, b) : c \in ConnId /\ a \in conns[c].ends /\ Peer(a, c) = b
    BY DEF Ends
  <1>8. ASSUME f \in ConnId, m \in conns[f].ends
        PROVE  /\ n \in conns[f].ends /\ Peer(n, f) = m /\ Peer(m, f) = n /\ f \in Ends(m, n)
               /\ Holds(m, f) /\ Data(m, f) \in Seq(Payload)
               /\ \A x \in Range(Data(m, f)) : x < k
    <2>1. n \in conns[f].ends /\ Peer(n, f) = m
      BY <1>1, <1>8, ReadersEnd
    <2>2. Peer(m, f) = n /\ Established(f) /\ Data(m, f) \in Seq(Payload)
      BY <1>8, <2>1, EndFacts, ConnFacts DEF Peer, Established
    <2>3. Holds(m, f) /\ f \in Ends(m, n)
      BY <1>8, <2>2 DEF ConnInv, NetInv, NothingLost, Ends
    <2>4. \A x \in Range(Data(m, f)) : x <= sent[n][m] /\ x \in Nat
      BY <2>2, <2>3, MessageFacts DEF OrderInv, MessagesOK
    <2> QED
      BY <1>2, <1>3, <2>1, <2>2, <2>3, <2>4
  <1>9. UnreadHeld'
    <2>1. ASSUME NEW c \in ConnId, NEW a \in conns[c].ends, Data(a, c)' # <<>>
          PROVE  Holds(a, c)
      BY <1>5, <1>8, <2>1 DEF OrderInv, UnreadHeld
    <2>2. ASSUME NEW a \in Node, NEW b \in Node, rpc[a][b] = "closing"
          PROVE  Data(a, serverSocketFD[a][b])' = <<>>
      <3>1. PICK c : c = serverSocketFD[a][b]
        OBVIOUS
      <3>2. c \in ConnId /\ b \notin conns[c].ends /\ a \in conns[c].ends /\ Peer(a, c) = b
        BY <2>2, <3>1, ReadersEnd DEF ConnInv, ThreadInv, ReceiversOK
      <3>3. ~(a = m /\ c = f)
        BY <1>8, <3>2
      <3>4. Data(a, c)' = Data(a, c)
        BY <1>5, <3>2, <3>3
      <3>5. Data(a, c) = <<>>
        BY <2>2, <3>1 DEF OrderInv, UnreadHeld
      <3> QED
        BY <3>1, <3>4, <3>5 DEF Data
    <2> QED
      BY <1>6, <2>1, <2>2 DEF UnreadHeld
  <1>10. SendsOnLast'
    <2> SUFFICES ASSUME NEW a \in Node, NEW b \in Node, serverSocketFD[a][b] \in ConnId,
                        NEW d \in Ends(b, a), serverSocketFD[a][b] \in Ends(b, a),
                        serverSocketFD[a][b] < d
                 PROVE  Data(b, d)' = <<>>
      BY <1>6 DEF SendsOnLast
    <2>1. Data(b, d) = <<>>
      BY DEF OrderInv, SendsOnLast
    <2>2. ~(b = m /\ d = f)
      <3>1. ASSUME b = m, d = f
            PROVE  FALSE
        <4>1. a = n
          BY <1>7, <1>8, <3>1
        <4>2. d \in Nat /\ d < d
          BY <1>1, <1>7, <3>1, <4>1, ConnIdFacts
        <4> QED
          BY <4>2
      <3> QED
        BY <3>1
    <2> QED
      BY <1>5, <1>7, <2>1, <2>2
  <1>11. CrossUnused'
    <2> SUFFICES ASSUME NEW a \in Node, NEW b \in Node, NEW c \in Ends(b, a), NEW d \in Ends(b, a),
                        conns[c].client = a, conns[d].client = b, c < d
                 PROVE  Data(b, d)' = <<>>
      BY <1>6, <1>7 DEF CrossUnused
    <2>1. Data(b, d) = <<>>
      BY DEF OrderInv, CrossUnused
    <2>2. ~(b = m /\ d = f)
      <3>1. ASSUME b = m, d = f
            PROVE  FALSE
        <4>1. a = n /\ c \in ConnId /\ m \in conns[c].ends /\ Peer(m, c) = n
          BY <1>7, <1>8, <3>1
        <4>2. conns[c].client = n /\ conns[c].server = m
          BY <4>1, EndFacts DEF Peer
        <4>3. ~doNotConnect(n, m)
          BY <4>1, <4>2 DEF OrderInv, ClientsOK
        <4>4. ~(serverSocketFD[n][m] \in ConnId /\ conns[serverSocketFD[n][m]].client = n)
          BY <1>1, <3>1
        <4> QED
          BY <4>1, <4>2, <4>3, <4>4 DEF OrderInv, OwnDropped
      <3> QED
        BY <3>1
    <2> QED
      BY <1>5, <1>7, <2>1, <2>2
  <1>12. MessagesOK'
    <2>1. ASSUME NEW a \in Node, NEW b \in Node
          PROVE  /\ OC!LastHeard(b, a) \in 0..sent'[a][b]
                 /\ sent[a][b] <= sent'[a][b] /\ sent[a][b] \in Nat /\ sent'[a][b] \in Nat
      <3>1. OC!LastHeard(b, a) \in 0..sent[a][b] /\ sent[a][b] \in Nat
        BY DEF OrderInv, MessagesOK, ConnInv, ThreadInv, ThreadTypes
      <3>2. k = sent[n][m] + 1 /\ sent'[a][b] = IF a = n /\ b = m THEN k ELSE sent[a][b]
        BY <1>2, <1>3
      <3> QED
        BY <3>1, <3>2
    <2>2. ASSUME NEW a \in Node, NEW b \in Node, NEW c \in Ends(b, a)
          PROVE  /\ Increasing(Data(b, c)')
                 /\ \A x \in Range(Data(b, c)') : OC!LastHeard(b, a) < x /\ x <= sent'[a][b]
      <3>1. /\ Increasing(Data(b, c)) /\ Range(Data(b, c)) \subseteq Nat
            /\ \A x \in Range(Data(b, c)) : OC!LastHeard(b, a) < x /\ x <= sent[a][b]
        BY <1>7, EndFacts, MessageFacts DEF OrderInv, MessagesOK
      <3>2. CASE b = m /\ c = f
        <4>1. a = n
          BY <1>7, <1>8, <3>2
        <4>2. Data(b, c)' = Append(Data(b, c), k) /\ f \in ConnId /\ m \in conns[f].ends
          BY <1>5, <1>7, <3>2
        <4>3. /\ Increasing(Data(b, c)')
              /\ Range(Data(b, c)') = Range(Data(b, c)) \union {k}
          BY <1>3, <1>8, <3>1, <3>2, <4>2, AppendMessage
        <4>4. OC!LastHeard(b, a) < k /\ k <= sent'[a][b]
          <5>1. OC!LastHeard(m, n) \in 0..sent[n][m]
            BY DEF OrderInv, MessagesOK
          <5>2. k \in Nat /\ sent'[n][m] = k
            BY <1>3 DEF Payload
          <5> QED
            BY <1>2, <1>3, <3>2, <4>1, <5>1, <5>2
        <4>5. \A x \in Range(Data(b, c)) : x <= sent'[a][b]
          BY <2>1, <3>1
        <4> QED
          BY <3>1, <4>3, <4>4, <4>5
      <3>3. CASE ~(b = m /\ c = f)
        <4>1. Data(b, c)' = Data(b, c)
          BY <1>5, <1>7, <3>3
        <4>2. \A x \in Range(Data(b, c)) : x <= sent'[a][b]
          BY <2>1, <3>1
        <4> QED
          BY <3>1, <4>1, <4>2
      <3> QED
        BY <3>2, <3>3
    <2>3. ASSUME NEW a \in Node, NEW b \in Node, NEW c \in Ends(b, a), NEW d \in Ends(b, a), c < d
          PROVE  \A x \in Range(Data(b, c)') : \A y \in Range(Data(b, d)') : x < y
      <3>1. \A x \in Range(Data(b, c)) : \A y \in Range(Data(b, d)) : x < y
        BY <2>3 DEF OrderInv, MessagesOK
      <3>2. c \in Nat /\ d \in Nat /\ c # d
        BY <1>7, <2>3, ConnIdFacts
      <3>3. CASE b = m /\ c = f
        <4>1. a = n
          BY <1>7, <1>8, <3>3
        <4>2. Data(b, d) = <<>>
          BY <1>1, <1>7, <2>3, <3>3, <4>1 DEF OrderInv, SendsOnLast
        <4>3. Data(b, d)' = <<>>
          BY <1>5, <1>7, <3>2, <3>3, <4>2
        <4> QED
          BY <4>3, EmptyQueue
      <3>4. CASE b = m /\ d = f
        <4>1. a = n
          BY <1>7, <1>8, <3>4
        <4>2. Data(b, d)' = Append(Data(b, d), k) /\ f \in ConnId /\ m \in conns[f].ends
              /\ Data(b, c)' = Data(b, c)
          BY <1>5, <1>7, <3>2, <3>4
        <4>3. Range(Data(b, d)') = Range(Data(b, d)) \union {k}
          BY <1>3, <1>8, <3>4, <4>2, AppendQueue
        <4>4. \A x \in Range(Data(b, c)) : x <= sent[n][m] /\ x \in Nat
          BY <1>7, <3>4, <4>1, EndFacts, MessageFacts DEF OrderInv, MessagesOK
        <4>5. \A x \in Range(Data(b, c)) : x < k
          BY <1>2, <1>3, <4>4
        <4> QED
          BY <3>1, <4>2, <4>3, <4>5
      <3>5. CASE ~(b = m /\ c = f) /\ ~(b = m /\ d = f)
        BY <1>5, <1>7, <3>1, <3>5
      <3> QED
        BY <3>3, <3>4, <3>5
    <2>4. \A a, c : Increasing(Data(a, c))' <=> Increasing(Data(a, c)')
      BY DEF Increasing
    <2> QED
      BY <1>6, <2>1, <2>2, <2>3, <2>4 DEF MessagesOK
  <1> QED
    BY <1>4, <1>9, <1>10, <1>11, <1>12, NoStageMoves, StayOrder DEF OrderInv, SocketsStay

LEMMA SendtoOrder ==
    ASSUME ConnInv, OrderInv, NEW n \in Node, Sendto(n)
    PROVE  OrderInv'
  <1>1. /\ target[n] \in Node /\ stage[n][target[n]] = "member" /\ sent[n][target[n]] <= MaxMessages
        /\ n # target[n]
    BY DEF ConnInv, ThreadInv, ThreadTypes, MembersOK, MainOK, Sendto
  <1> QED
    BY <1>1, TransmitOrder DEF Sendto

LEMMA CallbackOrder ==
    ASSUME ConnInv, OrderInv, NEW n \in Node, NEW m \in Node, Callback(n, m)
    PROVE  OrderInv'
  <1>1. /\ stage[n][m] \in {"opened", "portal", "member"} /\ n # m
        /\ \A a, b \in Node : rpc'[a][b] = "closing" => rpc[a][b] = "closing"
    BY DEF ConnInv, ThreadInv, ThreadTypes, MembersOK, Callback
  <1>2. CASE sent[n][m] < MaxMessages /\ Transmit(n, m)
    <2>1. sent[n][m] <= MaxMessages
      BY <1>2, ConnectionAssumption DEF ConnInv, ThreadInv, ThreadTypes
    <2> QED
      BY <1>1, <1>2, <2>1, TransmitOrder DEF Callback
  <1>3. CASE UNCHANGED <<conns, sent>>
    BY <1>1, <1>3, QuietOrder, NoStageMoves, ClosingStays DEF Callback
  <1> QED
    BY <1>2, <1>3 DEF Callback

-----------------------------------------------------------------------------
(* Sockets change hands *)

LEMMA ListFacts ==
    ASSUME ConnInv, OrderInv, NEW n \in Node
    PROVE  /\ openConnections[n] \in Seq(ConnId) /\ backlog[n] \in Seq(ConnId)
           /\ Sorted(openConnections[n]) /\ Sorted(backlog[n])
           /\ IsInjective(openConnections[n]) /\ IsInjective(backlog[n])
           /\ Range(openConnections[n]) \subseteq ConnId /\ Range(backlog[n]) \subseteq ConnId
           /\ \A c \in Range(openConnections[n]) : \A d \in Range(backlog[n]) : c < d
  <1>1. openConnections[n] \in Seq(ConnId) /\ backlog[n] \in Seq(ConnId)
    BY DEF ConnInv, NetInv, NetTypes
  <1>2. \A q \in Seq(ConnId) : Range(q) \subseteq ConnId
    BY RangeFacts
  <1>3. IsInjective(openConnections[n]) /\ IsInjective(backlog[n])
    BY DEF ConnInv, NetInv, HeldOK, HeldAt, QueueOK
  <1> QED
    BY <1>1, <1>2, <1>3 DEF OrderInv, QueuesSorted

\* The socket taken is the oldest of its member.
LEMMA TakeOldest ==
    ASSUME ConnInv, OrderInv, NEW n \in Node, NEW m \in Node, NeedsSocket(n, m), Take(n, m)
    PROVE  \E c \in Range(openConnections[n]) : \E rest \in Seq(ConnId) :
              /\ conns[c].client = m
              /\ serverSocketFD' = [serverSocketFD EXCEPT ![n][m] = c]
              /\ openConnections' = [openConnections EXCEPT ![n] = rest]
              /\ Sorted(rest) /\ Range(rest) = Range(openConnections[n]) \ {c}
              /\ \A d \in Range(rest) : conns[d].client = m => c < d
  <1> DEFINE list == openConnections[n]
             i == Min(Waiting(n, m))
             rest == RemoveAt(list, i)
  <1>1. /\ list \in Seq(ConnId) /\ Sorted(list) /\ IsInjective(list) /\ DOMAIN list = 1..Len(list)
        /\ ConnId \subseteq Nat /\ Len(list) \in Nat
    BY ListFacts, ConnIdFacts
  <1>2. /\ i \in 1..Len(list) /\ conns[list[i]].client = m
        /\ \A j \in 1..Len(list) : conns[list[j]].client = m => i =< j
    <2>1. Waiting(n, m) \in SUBSET Nat /\ Waiting(n, m) # {}
      BY <1>1 DEF NeedsSocket, Waiting
    <2>2. i \in Waiting(n, m) /\ \A j \in Waiting(n, m) : i =< j
      BY <2>1, MinIsMember
    <2> QED
      BY <1>1, <2>2 DEF Waiting
  <1>3. /\ serverSocketFD' = [serverSocketFD EXCEPT ![n][m] = list[i]]
        /\ openConnections' = [openConnections EXCEPT ![n] = rest]
    BY DEF Take
  <1> HIDE DEF i
  <1>4. /\ rest \in Seq(ConnId) /\ Len(rest) = Len(list) - 1
        /\ \A j \in 1..Len(rest) : rest[j] = IF j < i THEN list[j] ELSE list[j + 1]
        /\ Range(rest) = Range(list) \ {list[i]}
    BY <1>1, <1>2, RemoveIndex, RemoveQueue
  <1>5. list[i] \in Range(list)
    BY <1>1, <1>2, RangeFacts
  <1> HIDE DEF rest, list
  <1>6. Sorted(rest)
    <2>1. i \in 1..Len(list) /\ Len(list) \in Nat /\ Len(rest) = Len(list) - 1
      BY <1>1, <1>2, <1>4
    <2>2. ASSUME NEW j \in 1..Len(rest)
          PROVE  /\ j < i => j \in 1..Len(list) /\ rest[j] = list[j]
                 /\ ~(j < i) => j + 1 \in 1..Len(list) /\ rest[j] = list[j + 1]
      <3>1. j \in 1..Len(list) /\ j + 1 \in 1..Len(list)
        BY <2>1
      <3>2. rest[j] = IF j < i THEN list[j] ELSE list[j + 1]
        BY <1>4
      <3> QED
        BY <3>1, <3>2
    <2>3. ASSUME NEW j \in 1..Len(rest), NEW k \in 1..Len(rest), j < k
          PROVE  rest[j] < rest[k]
      <3>1. PICK p \in 1..Len(list) : rest[j] = list[p] /\ p = IF j < i THEN j ELSE j + 1
        BY <2>2
      <3>2. PICK q \in 1..Len(list) : rest[k] = list[q] /\ q = IF k < i THEN k ELSE k + 1
        BY <2>2
      <3>3. p < q
        BY <2>1, <2>3, <3>1, <3>2
      <3> QED
        BY <1>1, <3>1, <3>2, <3>3 DEF Sorted
    <2> QED
      BY <2>3 DEF Sorted
  <1>7. \A d \in Range(rest) : conns[d].client = m => list[i] < d
    <2> SUFFICES ASSUME NEW d \in Range(rest), conns[d].client = m
                 PROVE  list[i] < d
      OBVIOUS
    <2>1. PICK j \in 1..Len(list) : list[j] = d
      BY <1>1, <1>4, RangeFacts
    <2>2. j # i /\ i =< j
      BY <1>2, <1>4, <2>1
    <2> QED
      BY <1>1, <1>2, <2>1, <2>2 DEF Sorted
  <1> QED
    BY <1>2, <1>3, <1>4, <1>5, <1>6, <1>7 DEF list

\* Sockets change hands, but nothing happens on the connections.
LEMMA HandOver ==
    ASSUME ConnInv, OrderInv, UNCHANGED <<conns, sent, heard>>
    PROVE  /\ LaterEndsOpen' /\ CrossUnused' /\ MessagesOK' /\ ConnId' = ConnId
           /\ \A n, m : Ends(n, m)' = Ends(n, m)
           /\ \A n, c : Data(n, c)' = Data(n, c)
  <1>1. ConnId' = ConnId
    BY DEF ConnId
  <1>2. \A n, m : Ends(n, m)' = Ends(n, m) /\ OC!LastHeard(n, m)' = OC!LastHeard(n, m)
    BY <1>1 DEF Ends, Peer, OC!LastHeard
  <1>3. \A n, c : Data(n, c)' = Data(n, c)
    BY DEF Data
  <1>4. LaterEndsOpen'
    BY <1>1 DEF OrderInv, LaterEndsOpen
  <1>5. CrossUnused'
    BY <1>2, <1>3 DEF OrderInv, CrossUnused
  <1>6. MessagesOK'
    <2>1. \A n, c : Increasing(Data(n, c))' <=> Increasing(Data(n, c))
      BY <1>3 DEF Increasing
    <2> QED
      BY <1>2, <1>3, <2>1 DEF OrderInv, MessagesOK
  <1> QED
    BY <1>1, <1>2, <1>3, <1>4, <1>5, <1>6

LEMMA TakeOrder ==
    ASSUME ConnInv, OrderInv, NEW n \in Node, NEW m \in Node, NeedsSocket(n, m), Take(n, m),
           stage[n][m] # "absent", UNCHANGED <<conns, backlog, stage, sent, heard>>,
           \A a, b \in Node : rpc'[a][b] = "closing" => rpc[a][b] = "closing"
    PROVE  OrderInv'
  <1>1. PICK c \in Range(openConnections[n]) : \E rest \in Seq(ConnId) :
           /\ conns[c].client = m
           /\ serverSocketFD' = [serverSocketFD EXCEPT ![n][m] = c]
           /\ openConnections' = [openConnections EXCEPT ![n] = rest]
           /\ Sorted(rest) /\ Range(rest) = Range(openConnections[n]) \ {c}
           /\ \A d \in Range(rest) : conns[d].client = m => c < d
    BY TakeOldest
  <1>2. PICK rest \in Seq(ConnId) :
           /\ conns[c].client = m
           /\ serverSocketFD' = [serverSocketFD EXCEPT ![n][m] = c]
           /\ openConnections' = [openConnections EXCEPT ![n] = rest]
           /\ Sorted(rest) /\ Range(rest) = Range(openConnections[n]) \ {c}
           /\ \A d \in Range(rest) : conns[d].client = m => c < d
    BY <1>1
  <1>3. /\ c \in ConnId /\ NoSocket \notin ConnId /\ NoSocket # Unconnected
        /\ conns[c].server = n /\ serverSocketFD[n][m] = NoSocket
    BY ListFacts, ConnIdFacts, NoSuchSocket
       DEF ConnInv, NetInv, HeldOK, HeldAt, QueueOK, NeedsSocket
  <1>4. /\ \A a, b \in Node :
             serverSocketFD'[a][b] = IF a = n /\ b = m THEN c ELSE serverSocketFD[a][b]
        /\ \A a \in Node : openConnections'[a] = IF a = n THEN rest ELSE openConnections[a]
    BY <1>2 DEF ConnInv, NetInv, NetTypes
  <1>5. /\ LaterEndsOpen' /\ CrossUnused' /\ MessagesOK' /\ ConnId' = ConnId
        /\ \A a, b : Ends(a, b)' = Ends(a, b)
        /\ \A a, d : Data(a, d)' = Data(a, d)
    BY HandOver
  <1>6. ClientsOK'
    BY <1>5 DEF OrderInv, ClientsOK
  <1>7. stage[n][m] \in {"opened", "portal", "member"}
    <2>1. stage[n][m] # "broken"
      BY <1>3 DEF OrderInv, OwnDropped
    <2> QED
      BY <2>1 DEF ConnInv, ThreadInv, ThreadTypes
  <1>8. OwnDropped'
    BY <1>3, <1>4, <1>5, <1>7 DEF OrderInv, OwnDropped
  <1>9. QueuesSorted'
    <2> SUFFICES ASSUME NEW a \in Node
                 PROVE  /\ Sorted(openConnections'[a]) /\ Sorted(backlog[a])
                        /\ \A x \in Range(openConnections'[a]) : \A y \in Range(backlog[a]) : x < y
                        /\ \A b \in Node :
                             (/\ serverSocketFD'[a][b] \in ConnId
                              /\ conns[serverSocketFD'[a][b]].client = b) =>
                               \A d \in Range(openConnections'[a]) \union Range(backlog[a]) :
                                  conns[d].client = b => serverSocketFD'[a][b] < d
      BY <1>5 DEF QueuesSorted, Sorted
    <2>1. /\ Sorted(openConnections[a]) /\ Sorted(backlog[a])
          /\ \A x \in Range(openConnections[a]) : \A y \in Range(backlog[a]) : x < y
          /\ \A b \in Node :
               (/\ serverSocketFD[a][b] \in ConnId
                /\ conns[serverSocketFD[a][b]].client = b) =>
                 \A d \in Range(openConnections[a]) \union Range(backlog[a]) :
                    conns[d].client = b => serverSocketFD[a][b] < d
      BY DEF OrderInv, QueuesSorted
    <2>2. CASE a = n
      <3>1. openConnections'[n] = rest /\ Range(rest) \subseteq Range(openConnections[n])
        BY <1>2, <1>4
      <3>2. \A b \in Node :
               serverSocketFD'[n][b] = IF b = m THEN c ELSE serverSocketFD[n][b]
        BY <1>4
      <3> QED
        BY <1>2, <2>1, <2>2, <3>1, <3>2
    <2>3. CASE a # n
      BY <1>4, <2>1, <2>3
    <2> QED
      BY <2>2, <2>3
  <1>10. UnreadHeld'
    <2>1. \A d \in ConnId : \A a \in conns[d].ends : a \in Node /\ (Holds(a, d) => Holds(a, d)')
      <3> SUFFICES ASSUME NEW d \in ConnId, NEW a \in conns[d].ends, Holds(a, d)
                   PROVE  Holds(a, d)'
        BY EndFacts
      <3>1. a \in Node
        BY EndFacts
      <3> QED
        BY <1>2, <1>3, <1>4, <3>1 DEF Holds
    <2>2. \A a, b \in Node : rpc[a][b] = "closing" => serverSocketFD'[a][b] = serverSocketFD[a][b]
      BY <1>3, <1>4 DEF ConnInv, ThreadInv, ReceiversOK
    <2> QED
      BY <1>5, <2>1, <2>2 DEF OrderInv, UnreadHeld
  <1>11. SendsOnLast'
    <2> SUFFICES ASSUME NEW a \in Node, NEW b \in Node, serverSocketFD'[a][b] \in ConnId,
                        NEW d \in Ends(b, a), serverSocketFD'[a][b] \in Ends(b, a),
                        serverSocketFD'[a][b] < d
                 PROVE  Data(b, d) = <<>>
      BY <1>5 DEF SendsOnLast
    <2>1. CASE a = n /\ b = m
      <3>1. /\ d \in ConnId /\ m \in conns[d].ends /\ Peer(m, d) = n
            /\ m \in conns[c].ends /\ c # d
        <4>1. d \in Nat /\ c \in Nat /\ c < d
          BY <1>3, <1>4, <2>1, ConnIdFacts DEF Ends
        <4> QED
          BY <1>4, <2>1, <4>1 DEF Ends
      <3>2. \/ conns[d].client = m /\ conns[d].server = n
            \/ conns[d].client = n /\ conns[d].server = m
        BY <3>1, EndFacts DEF Peer
      <3>3. ~(conns[d].client = m /\ conns[d].server = n)
        BY <1>2, <1>3, <3>1 DEF OrderInv, ClientsOK
      <3>4. ~(conns[d].client = n /\ conns[d].server = m)
        BY <1>3, <1>7, <3>1 DEF OrderInv, ClientsOK, OwnDropped
      <3> QED
        BY <3>2, <3>3, <3>4
    <2>2. CASE ~(a = n /\ b = m)
      BY <1>4, <2>2 DEF OrderInv, SendsOnLast
    <2> QED
      BY <2>1, <2>2
  <1> QED
    BY <1>5, <1>6, <1>8, <1>9, <1>10, <1>11 DEF OrderInv

LEMMA AttachOrder ==
    ASSUME ConnInv, OrderInv, NEW n \in Node, NEW m \in Node, NEW found \in BOOLEAN,
           AttachUnderLock(n, m, found), stage[n][m] # "absent",
           UNCHANGED <<conns, backlog, stage, sent, heard>>,
           \A a, b \in Node : rpc'[a][b] = "closing" => rpc[a][b] = "closing"
    PROVE  OrderInv'
  <1>1. CASE NeedsSocket(n, m) /\ found /\ Take(n, m)
    BY <1>1, TakeOrder
  <1>2. CASE ~NeedsSocket(n, m) /\ ~found /\ UNCHANGED <<serverSocketFD, openConnections>>
    BY <1>2, QuietOrder, NoStageMoves, ClosingStays
  <1> QED
    BY <1>1, <1>2 DEF AttachUnderLock

LEMMA PortalLockOrder ==
    ASSUME ConnInv, OrderInv, NEW n \in Node, PortalLock(n)
    PROVE  OrderInv'
  <1>1. target[n] \in Node /\ stage[n][target[n]] # "absent"
    BY DEF ConnInv, ThreadInv, ThreadTypes, MainOK, PortalLock
  <1> QED
    BY <1>1, AttachOrder DEF PortalLock

LEMMA CheckLockOrder ==
    ASSUME ConnInv, OrderInv, NEW n \in Node, CheckLock(n)
    PROVE  OrderInv'
  <1>1. target[n] \in Node /\ stage[n][target[n]] # "absent"
    BY DEF ConnInv, ThreadInv, ThreadTypes, MainOK, CheckLock
  <1> QED
    BY <1>1, AttachOrder DEF CheckLock

LEMMA SendLockOrder ==
    ASSUME ConnInv, OrderInv, NEW n \in Node, SendLock(n)
    PROVE  OrderInv'
  <1>1. target[n] \in Node /\ stage[n][target[n]] # "absent"
    BY DEF ConnInv, ThreadInv, ThreadTypes, MainOK, SendLock
  <1> QED
    BY <1>1, AttachOrder DEF SendLock

LEMMA PollLockOrder ==
    ASSUME ConnInv, OrderInv, NEW n \in Node, NEW m \in Node, PollLock(n, m)
    PROVE  OrderInv'
  <1>1. stage[n][m] # "absent"
    BY DEF ConnInv, ThreadInv, MembersOK, PollLock
  <1>2. \A a, b \in Node : rpc'[a][b] = "closing" => rpc[a][b] = "closing"
    BY DEF ConnInv, ThreadInv, ThreadTypes, PollLock
  <1> QED
    BY <1>1, <1>2, AttachOrder DEF PollLock

LEMMA AcceptOrder ==
    ASSUME ConnInv, OrderInv, NEW n \in Node, Accept(n)
    PROVE  OrderInv'
  <1> DEFINE list == openConnections[n]
             queue == backlog[n]
  <1>1. PICK c : c = Head(queue)
    OBVIOUS
  <1>2. PICK rest : rest = Tail(queue)
    OBVIOUS
  <1>3. PICK more : more = Append(list, c)
    OBVIOUS
  <1>4. /\ list \in Seq(ConnId) /\ queue \in Seq(ConnId) /\ Sorted(list) /\ Sorted(queue)
        /\ queue # <<>> /\ IsInjective(queue) /\ ConnId \subseteq Nat
        /\ Range(list) \subseteq ConnId /\ Range(queue) \subseteq ConnId
        /\ \A x \in Range(list) : \A y \in Range(queue) : x < y
    BY ListFacts, ConnIdFacts DEF Accept
  <1>5. /\ backlog' = [backlog EXCEPT ![n] = rest]
        /\ openConnections' = [openConnections EXCEPT ![n] = more]
        /\ UNCHANGED <<conns, serverSocketFD, stage, rpc, sent, heard>>
    BY <1>1, <1>2, <1>3 DEF Accept
  <1>6. /\ \A a \in Node : backlog'[a] = IF a = n THEN rest ELSE backlog[a]
        /\ \A a \in Node : openConnections'[a] = IF a = n THEN more ELSE openConnections[a]
    BY <1>5 DEF ConnInv, NetInv, NetTypes
  <1>7. /\ LaterEndsOpen' /\ CrossUnused' /\ MessagesOK' /\ ConnId' = ConnId
        /\ \A a, b : Ends(a, b)' = Ends(a, b)
        /\ \A a, d : Data(a, d)' = Data(a, d)
    BY <1>5, HandOver
  <1> HIDE DEF list, queue
  <1>8. /\ c \in Range(queue) /\ c \in ConnId /\ Range(rest) = Range(queue) \ {c}
        /\ rest \in Seq(ConnId)
    BY <1>1, <1>2, <1>4, TailQueue
  <1>9. Range(more) = Range(list) \union {c} /\ more \in Seq(ConnId)
    BY <1>3, <1>4, <1>8, AppendQueue
  <1>10. /\ Len(queue) \in Nat /\ Len(queue) > 0 /\ c = queue[1] /\ Len(rest) = Len(queue) - 1
         /\ \A i \in 1..Len(rest) : rest[i] = queue[i + 1]
    BY <1>1, <1>2, <1>4
  <1>11. Sorted(rest) /\ \A x \in Range(rest) : c < x
    <2>1. \A i \in 1..Len(rest) : rest[i] = queue[i + 1] /\ i + 1 \in 1..Len(queue)
      BY <1>10
    <2>3. Sorted(rest)
      <3> SUFFICES ASSUME NEW i \in 1..Len(rest), NEW j \in 1..Len(rest), i < j
                   PROVE  rest[i] < rest[j]
        BY DEF Sorted
      <3>1. i + 1 < j + 1
        OBVIOUS
      <3> QED
        BY <1>4, <2>1, <3>1 DEF Sorted
    <2>2. \A i \in 1..Len(rest) : c < rest[i]
      BY <1>10, <1>4 DEF Sorted
    <2> QED
      BY <1>8, <2>2, <2>3, RangeFacts
  <1>12. Sorted(more)
    <2>1. \A i \in 1..Len(list) : list[i] < c
      BY <1>4, <1>8, RangeFacts
    <2>2. /\ Len(more) = Len(list) + 1 /\ more[Len(list) + 1] = c /\ Len(list) \in Nat
          /\ \A i \in 1..Len(list) : more[i] = list[i]
      BY <1>3, <1>4, <1>8
    <2> QED
      BY <1>4, <2>1, <2>2 DEF Sorted
  <1>13. ClientsOK'
    BY <1>5, <1>7 DEF OrderInv, ClientsOK
  <1>14. OwnDropped'
    BY <1>5, <1>7 DEF OrderInv, OwnDropped
  <1>15. QueuesSorted'
    <2> SUFFICES ASSUME NEW a \in Node
                 PROVE  /\ Sorted(openConnections'[a]) /\ Sorted(backlog'[a])
                        /\ \A x \in Range(openConnections'[a]) : \A y \in Range(backlog'[a]) : x < y
                        /\ \A b \in Node :
                             (/\ serverSocketFD[a][b] \in ConnId
                              /\ conns[serverSocketFD[a][b]].client = b) =>
                               \A d \in Range(openConnections'[a]) \union Range(backlog'[a]) :
                                  conns[d].client = b => serverSocketFD[a][b] < d
      BY <1>5, <1>7 DEF QueuesSorted, Sorted
    <2>1. /\ Sorted(openConnections[a]) /\ Sorted(backlog[a])
          /\ \A x \in Range(openConnections[a]) : \A y \in Range(backlog[a]) : x < y
          /\ \A b \in Node :
               (/\ serverSocketFD[a][b] \in ConnId
                /\ conns[serverSocketFD[a][b]].client = b) =>
                 \A d \in Range(openConnections[a]) \union Range(backlog[a]) :
                    conns[d].client = b => serverSocketFD[a][b] < d
      BY DEF OrderInv, QueuesSorted
    <2>2. CASE a = n
      <3>1. /\ openConnections'[n] = more /\ backlog'[n] = rest
            /\ Range(more) \union Range(rest) = Range(openConnections[n]) \union Range(backlog[n])
        BY <1>6, <1>8, <1>9 DEF list, queue
      <3>2. \A x \in Range(more) : \A y \in Range(rest) : x < y
        BY <1>4, <1>8, <1>9, <1>11
      <3> QED
        BY <1>11, <1>12, <2>1, <2>2, <3>1, <3>2
    <2>3. CASE a # n
      BY <1>6, <2>1, <2>3
    <2> QED
      BY <2>2, <2>3
  <1>16. UnreadHeld'
    <2>1. \A d \in ConnId : \A a \in conns[d].ends : a \in Node /\ (Holds(a, d) => Holds(a, d)')
      <3> SUFFICES ASSUME NEW d \in ConnId, NEW a \in conns[d].ends, Holds(a, d)
                   PROVE  Holds(a, d)'
        BY EndFacts
      <3>1. a \in Node
        BY EndFacts
      <3> QED
        BY <1>5, <1>6, <1>8, <1>9, <3>1 DEF Holds, list, queue
    <2> QED
      BY <1>5, <1>7, <2>1 DEF OrderInv, UnreadHeld
  <1>17. SendsOnLast'
    BY <1>5, <1>7 DEF OrderInv, SendsOnLast
  <1> QED
    BY <1>7, <1>13, <1>14, <1>15, <1>16, <1>17 DEF OrderInv

\* A member that had no socket, or gives up one that has nothing more to read, and
\* whose other connections are dead if it made them itself.
LEMMA DropOrder ==
    ASSUME ConnInv, OrderInv, NEW n \in Node, NEW m \in Node, NEW x \in {NoSocket, Unconnected},
           serverSocketFD' = [serverSocketFD EXCEPT ![n][m] = x],
           UNCHANGED <<conns, backlog, openConnections, sent, heard>>,
           \A c \in ConnId : serverSocketFD[n][m] = c => Data(n, c) = <<>>,
           \A a, b \in Node : ~(a = n /\ b = m) => stage'[a][b] = stage[a][b],
           stage'[n][m] = "broken" => x = Unconnected,
           \/ stage[n][m] = "absent"
           \/ stage'[n][m] = stage[n][m],
           ~doNotConnect(n, m) /\ stage'[n][m] # "broken" =>
              \A c \in ConnId :
                 conns[c].client = n /\ conns[c].server = m => m \notin conns[c].ends,
           \A a, b \in Node : rpc'[a][b] = "closing" => rpc[a][b] = "closing" /\ ~(a = n /\ b = m)
    PROVE  OrderInv'
  <1>1. \A a, b \in Node :
           serverSocketFD'[a][b] = IF a = n /\ b = m THEN x ELSE serverSocketFD[a][b]
    BY DEF ConnInv, NetInv, NetTypes
  <1>2. x \notin ConnId
    BY ConnIdFacts
  <1>3. /\ LaterEndsOpen' /\ CrossUnused' /\ MessagesOK' /\ ConnId' = ConnId
        /\ \A a, b : Ends(a, b)' = Ends(a, b)
        /\ \A a, d : Data(a, d)' = Data(a, d)
    BY HandOver
  <1>4. ClientsOK'
    <2>1. \A c \in ConnId : conns[c].client \in conns[c].ends =>
             conns[c].client \in Node /\ conns[c].server \in Node
      BY EndFacts
    <2> QED
      BY <1>3, <2>1 DEF OrderInv, ClientsOK
  <1>5. OwnDropped'
    BY <1>1, <1>2, <1>3 DEF OrderInv, OwnDropped
  <1>6. QueuesSorted'
    BY <1>1, <1>2, <1>3 DEF OrderInv, QueuesSorted, Sorted
  <1>7. UnreadHeld'
    <2>1. ASSUME NEW c \in ConnId, NEW a \in conns[c].ends, Data(a, c) # <<>>
          PROVE  Holds(a, c)'
      <3>1. Holds(a, c) /\ a \in Node /\ ~(a = n /\ serverSocketFD[n][m] = c)
        BY <2>1, EndFacts DEF OrderInv, UnreadHeld
      <3> QED
        BY <1>1, <3>1 DEF Holds
    <2> QED
      BY <1>1, <1>3, <2>1 DEF OrderInv, UnreadHeld
  <1>8. SendsOnLast'
    BY <1>1, <1>2, <1>3 DEF OrderInv, SendsOnLast
  <1> QED
    BY <1>3, <1>4, <1>5, <1>6, <1>7, <1>8 DEF OrderInv

LEMMA AddBrokenOrder ==
    ASSUME ConnInv, OrderInv, NEW n \in Node, NEW m \in Node, AddBroken(n, m)
    PROVE  OrderInv'
  <1>1. serverSocketFD[n][m] = NoSocket /\ stage[n][m] = "absent" /\ rpc[n][m] # "closing"
    BY DEF ConnInv, ThreadInv, MembersOK, AddBroken, MayAdd
  <1>2. /\ \A a, b \in Node : ~(a = n /\ b = m) => stage'[a][b] = stage[a][b]
        /\ stage'[n][m] = "broken"
    BY DEF ConnInv, ThreadInv, ThreadTypes, AddBroken
  <1>3. serverSocketFD' = [serverSocketFD EXCEPT ![n][m] = Unconnected]
        /\ UNCHANGED <<conns, backlog, openConnections, sent, heard, rpc>>
    BY DEF AddBroken
  <1>4. \A c \in ConnId : serverSocketFD[n][m] # c
    BY <1>1, ConnIdFacts
  <1>5. \A a, b \in Node : rpc'[a][b] = "closing" => rpc[a][b] = "closing" /\ ~(a = n /\ b = m)
    BY <1>1, <1>3
  <1> QED
    BY <1>1, <1>2, <1>3, <1>4, <1>5, DropOrder

LEMMA GiveUpOrder ==
    ASSUME ConnInv, OrderInv, NEW n \in Node, NEW m \in Node, GiveUp(n, m)
    PROVE  OrderInv'
  <1>1. PICK c \in ConnId : c = serverSocketFD[n][m]
    BY DEF ConnInv, ThreadInv, ReceiversOK, GiveUp
  <1>2. /\ rpc[n][m] = "closing" /\ m \notin conns[c].ends /\ Data(n, c) = <<>>
        /\ stage[n][m] \in {"opened", "portal", "member"} /\ stage[n][m] # "broken"
    BY <1>1 DEF ConnInv, ThreadInv, MembersOK, ReceiversOK, OrderInv, UnreadHeld, GiveUp
  <1>3. n \in conns[c].ends /\ Peer(n, c) = m /\ n # m
    BY <1>1, ReadersEnd
  <1>4. ASSUME ~doNotConnect(n, m), NEW d \in ConnId,
               conns[d].client = n, conns[d].server = m, m \in conns[d].ends
        PROVE  FALSE
    <2>1. CASE conns[c].client = n
      <3>1. conns[c].server = m /\ c # d /\ c \in Nat /\ d \in Nat
        BY <1>2, <1>3, <1>4, <2>1, ConnIdFacts DEF Peer
      <3>2. CASE d < c
        BY <1>2, <1>4, <2>1, <3>1, <3>2 DEF OrderInv, LaterEndsOpen
      <3>3. CASE c < d
        <4>1. n \in conns[d].ends
          BY <1>3, <1>4, <3>3 DEF OrderInv, LaterEndsOpen
        <4> QED
          BY <1>3, <1>4, <2>1, <3>1, <4>1 DEF OrderInv, ClientsOK
      <3> QED
        BY <3>1, <3>2, <3>3
    <2>2. CASE conns[c].client # n
      BY <1>1, <1>2, <1>4, <2>2 DEF OrderInv, OwnDropped
    <2> QED
      BY <2>1, <2>2
  <1>5. \A a, b \in Node : rpc'[a][b] = "closing" => rpc[a][b] = "closing" /\ ~(a = n /\ b = m)
    BY DEF ConnInv, ThreadInv, ThreadTypes, GiveUp, AfterGiveUp
  <1>6. serverSocketFD' = [serverSocketFD EXCEPT ![n][m] = NoSocket]
        /\ UNCHANGED <<conns, backlog, openConnections, sent, heard, stage>>
    BY DEF GiveUp, GivenUp
  <1> QED
    BY <1>1, <1>2, <1>4, <1>5, <1>6, DropOrder

LEMMA DieEffect ==
    ASSUME ConnInv, NEW n \in Node, CutOff(n)
    PROVE  \A c \in ConnId : \A p \in conns[c].ends : p # n => Data(p, c)' = Data(p, c)
  <1> SUFFICES ASSUME NEW c \in ConnId, NEW p \in conns[c].ends, p # n
               PROVE  Data(p, c)' = Data(p, c)
    OBVIOUS
  <1>1. /\ conns[c] \in Conn /\ p \in {conns[c].client, conns[c].server}
        /\ conns[c].data \in [{conns[c].client, conns[c].server} -> Seq(Payload)]
    BY EndFacts, ConnFacts
  <1>2. CASE n \in conns[c].ends
    <2>1. conns'[c] = [conns[c] EXCEPT !.ends = @ \ {n}, !.data[n] = <<>>]
      BY <1>2 DEF CutOff
    <2>2. conns'[c].data = [conns[c].data EXCEPT ![n] = <<>>]
      BY <1>1, <2>1 DEF Conn
    <2> QED
      BY <1>1, <2>2 DEF Data
  <1>3. CASE n \notin conns[c].ends
    <2>1. conns'[c] = conns[c]
      BY <1>3 DEF CutOff
    <2> QED
      BY <2>1 DEF Data
  <1> QED
    BY <1>2, <1>3

LEMMA DieOrder ==
    ASSUME ConnInv, OrderInv, NEW n \in Node, Die(n)
    PROVE  OrderInv'
  <1>1. CutOff(n)
    BY DEF Die, CutOff
  <1>2. /\ ConnId' = ConnId
        /\ \A c \in ConnId : /\ conns'[c].client = conns[c].client
                             /\ conns'[c].server = conns[c].server
                             /\ conns'[c].ends = conns[c].ends \ {n}
    BY <1>1, DieSockets DEF ConnInv
  <1>3. /\ rpc' = [rpc EXCEPT ![n] = [m \in Node |-> "none"]]
        /\ stage' = [stage EXCEPT ![n] = [m \in Node |-> "absent"]]
        /\ UNCHANGED <<sent, heard>>
    BY DEF Die
  <1>4. /\ \A p, q \in Node :
             /\ rpc'[p][q] = IF p = n THEN "none" ELSE rpc[p][q]
             /\ stage'[p][q] = IF p = n THEN "absent" ELSE stage[p][q]
             /\ serverSocketFD'[p][q] = IF p = n THEN NoSocket ELSE serverSocketFD[p][q]
        /\ \A p \in Node : backlog'[p] = IF p = n THEN <<>> ELSE backlog[p]
        /\ \A p \in Node : openConnections'[p] = IF p = n THEN <<>> ELSE openConnections[p]
    BY <1>1, <1>3 DEF ConnInv, NetInv, NetTypes, ThreadInv, ThreadTypes, CutOff
  <1>5. /\ \A a, b : Ends(a, b)' \subseteq Ends(a, b)
        /\ \A a, b : \A c \in Ends(a, b)' : c \in ConnId /\ a \in conns[c].ends /\ a # n
        /\ \A a, c : c \in ConnId => Peer(a, c)' = Peer(a, c)
    BY <1>2 DEF Ends, Peer
  <1>6. \A c \in ConnId : \A p \in conns[c].ends : p # n => Data(p, c)' = Data(p, c)
    BY <1>1, DieEffect
  <1>7. NoSocket \notin ConnId /\ ConnId \subseteq Nat
    BY ConnIdFacts
  <1>8. \A c \in ConnId : conns[c].client \in Node /\ conns[c].server \in Node
    <2>1. \A c \in ConnId : conns[c] \in Conn
      BY DEF ConnInv, NetInv, NetTypes, ConnId
    <2> QED
      BY <2>1, ConnFacts
  <1>9. ClientsOK'
    BY <1>2, <1>4, <1>8 DEF OrderInv, ClientsOK
  <1>10. LaterEndsOpen'
    BY <1>2 DEF OrderInv, LaterEndsOpen
  <1>11. OwnDropped'
    BY <1>2, <1>4 DEF OrderInv, OwnDropped
  <1>12. QueuesSorted'
    <2> SUFFICES ASSUME NEW a \in Node
                 PROVE  /\ Sorted(openConnections'[a]) /\ Sorted(backlog'[a])
                        /\ \A x \in Range(openConnections'[a]) : \A y \in Range(backlog'[a]) : x < y
                        /\ \A b \in Node :
                             (/\ serverSocketFD'[a][b] \in ConnId
                              /\ conns'[serverSocketFD'[a][b]].client = b) =>
                               \A d \in Range(openConnections'[a]) \union Range(backlog'[a]) :
                                  conns'[d].client = b => serverSocketFD'[a][b] < d
      BY <1>2 DEF QueuesSorted, Sorted
    <2>1. CASE a = n
      <3>1. Sorted(<<>>)
        BY DEF Sorted
      <3> QED
        BY <1>4, <1>7, <2>1, <3>1, EmptyQueue
    <2>2. CASE a # n
      <3>1. /\ Range(openConnections[a]) \subseteq ConnId /\ Range(backlog[a]) \subseteq ConnId
        BY ListFacts
      <3>2. /\ openConnections'[a] = openConnections[a] /\ backlog'[a] = backlog[a]
            /\ \A b \in Node : serverSocketFD'[a][b] = serverSocketFD[a][b]
        BY <1>4, <2>2
      <3> QED
        BY <1>2, <3>1, <3>2 DEF OrderInv, QueuesSorted
    <2> QED
      BY <2>1, <2>2
  <1>13. UnreadHeld'
    <2>1. ASSUME NEW c \in ConnId, NEW a \in conns'[c].ends, Data(a, c)' # <<>>
          PROVE  Holds(a, c)'
      <3>1. a \in conns[c].ends /\ a # n /\ a \in Node
        BY <1>2, EndFacts
      <3>2. Holds(a, c)
        BY <1>6, <2>1, <3>1 DEF OrderInv, UnreadHeld
      <3> QED
        BY <1>4, <3>1, <3>2 DEF Holds
    <2>2. ASSUME NEW a \in Node, NEW b \in Node, rpc'[a][b] = "closing"
          PROVE  Data(a, serverSocketFD[a][b])' = <<>>
      <3>1. a # n /\ rpc[a][b] = "closing" /\ serverSocketFD'[a][b] = serverSocketFD[a][b]
        BY <1>4, <2>2
      <3>2. serverSocketFD[a][b] \in ConnId /\ a \in conns[serverSocketFD[a][b]].ends
            /\ Data(a, serverSocketFD[a][b]) = <<>>
        BY <3>1, ReadersEnd DEF ConnInv, ThreadInv, ReceiversOK, OrderInv, UnreadHeld
      <3>3. PICK c \in ConnId : c = serverSocketFD[a][b]
        BY <3>2
      <3>4. Data(a, c)' = <<>>
        BY <1>6, <3>1, <3>2, <3>3
      <3> QED
        BY <3>1, <3>3, <3>4 DEF Data
    <2> QED
      BY <1>2, <2>1, <2>2 DEF UnreadHeld
  <1>14. SendsOnLast'
    <2> SUFFICES ASSUME NEW a \in Node, NEW b \in Node, serverSocketFD'[a][b] \in ConnId,
                        NEW d \in Ends(b, a)', serverSocketFD'[a][b] \in Ends(b, a)',
                        serverSocketFD'[a][b] < d
                 PROVE  Data(b, d)' = <<>>
      BY <1>2 DEF SendsOnLast
    <2>1. a # n /\ serverSocketFD'[a][b] = serverSocketFD[a][b]
      BY <1>4, <1>7
    <2> QED
      BY <1>5, <1>6, <2>1 DEF OrderInv, SendsOnLast
  <1>15. CrossUnused'
    BY <1>2, <1>5, <1>6 DEF OrderInv, CrossUnused
  <1>16. MessagesOK'
    <2>1. \A a, b : OC!LastHeard(a, b)' = OC!LastHeard(a, b)
      BY <1>3 DEF OC!LastHeard
    <2>2. \A a, c : Increasing(Data(a, c))' <=> Increasing(Data(a, c)')
      BY DEF Increasing
    <2>3. \A a, b \in Node : \A c \in Ends(b, a)' : c \in Ends(b, a) /\ Data(b, c)' = Data(b, c)
      BY <1>5, <1>6
    <2> QED
      BY <1>3, <2>1, <2>2, <2>3 DEF OrderInv, MessagesOK
  <1> QED
    BY <1>9, <1>10, <1>11, <1>12, <1>13, <1>14, <1>15, <1>16 DEF OrderInv

LEMMA WiderQueue ==
    ASSUME NEW S, NEW T, S \subseteq T, NEW q \in Seq(S)
    PROVE  q \in Seq(T)
  OBVIOUS

LEMMA AddConnectingOrder ==
    ASSUME ConnInv, OrderInv, NEW n \in Node, NEW m \in Node, AddConnecting(n, m)
    PROVE  OrderInv'
  <1>1. /\ n # m /\ stage[n][m] = "absent" /\ serverSocketFD[n][m] = NoSocket /\ rpc[n][m] = "none"
        /\ ~doNotConnect(n, m)
    BY DifferentNodes DEF ConnInv, ThreadInv, ThreadTypes, MembersOK, AddConnecting, MayAdd
  <1>2. PICK c : c = Len(conns) + 1
    OBVIOUS
  <1>3. PICK more : more = Append(backlog[m], c)
    OBVIOUS
  <1>4. /\ conns' = Append(conns, NewConnection(n, m))
        /\ backlog' = [backlog EXCEPT ![m] = more]
        /\ serverSocketFD' = [serverSocketFD EXCEPT ![n][m] = c]
        /\ stage' = [stage EXCEPT ![n][m] = "opened"]
        /\ rpc' = [rpc EXCEPT ![n][m] = "poll"]
        /\ UNCHANGED <<openConnections, sent, heard>>
    BY <1>2, <1>3 DEF AddConnecting, Opened
  <1>5. ConnId' = ConnId \union {c} /\ \A d \in ConnId : conns'[d] = conns[d]
    BY <1>1, <1>2, ConnectSocket DEF ConnInv, AddConnecting, Opened
  <1>6. /\ ConnId \subseteq Nat /\ c \in Nat /\ c \notin ConnId /\ \A d \in ConnId : d < c
        /\ NoSocket \notin ConnId /\ c # NoSocket /\ conns \in Seq(Conn)
    BY <1>2, ConnIdFacts DEF ConnId, NoSocket, ConnInv, NetInv, NetTypes
  <1>7. /\ conns'[c].client = n /\ conns'[c].server = m /\ conns'[c].ends = {n, m}
        /\ Data(n, c)' = <<>> /\ Data(m, c)' = <<>>
    <2>1. conns'[c] = NewConnection(n, m)
      <3> DEFINE new == NewConnection(n, m)
      <3>1. new \in Conn
        BY <1>1, NewConn
      <3> HIDE DEF new
      <3> QED
        BY <1>2, <1>4, <1>6, <3>1 DEF new
    <2> QED
      BY <2>1 DEF Data, NewConnection
  <1>8. /\ \A a, b \in Node :
             /\ rpc'[a][b] = IF a = n /\ b = m THEN "poll" ELSE rpc[a][b]
             /\ stage'[a][b] = IF a = n /\ b = m THEN "opened" ELSE stage[a][b]
             /\ serverSocketFD'[a][b] = IF a = n /\ b = m THEN c ELSE serverSocketFD[a][b]
        /\ \A a \in Node : backlog'[a] = IF a = m THEN more ELSE backlog[a]
    BY <1>4 DEF ConnInv, NetInv, NetTypes, ThreadInv, ThreadTypes
  <1>9. \A d \in ConnId : /\ \A a : Data(a, d)' = Data(a, d) /\ Peer(a, d)' = Peer(a, d)
                          /\ conns[d].client \in Node /\ conns[d].server \in Node
                          /\ conns[d].ends \subseteq Node
    <2>1. \A d \in ConnId : conns[d] \in Conn
      BY <1>6 DEF ConnId
    <2> QED
      BY <1>5, <2>1, ConnFacts DEF Data, Peer
  <1>10. /\ \A a, b : \A d \in Ends(a, b)' : d # c => d \in Ends(a, b) /\ d \in ConnId /\ d < c
         /\ \A a, b : c \in Ends(a, b)' => Data(a, c)' = <<>> /\ a \in {n, m}
    BY <1>5, <1>6, <1>7, <1>9 DEF Ends
  <1>11. \A a, b \in Node : serverSocketFD'[a][b] \in ConnId' =>
            \/ a = n /\ b = m /\ serverSocketFD'[a][b] = c
            \/ serverSocketFD'[a][b] = serverSocketFD[a][b] /\ serverSocketFD[a][b] \in ConnId
    <2>1. c # Unconnected
      BY <1>2, <1>6, ConnectionAssumption DEF Unconnected, AddConnecting
    <2>2. \A a, b \in Node : serverSocketFD[a][b] \in ConnId \union {NoSocket, Unconnected}
      BY DEF ConnInv, NetInv, NetTypes
    <2> QED
      BY <1>5, <1>6, <1>8, <2>1, <2>2
  <1>12. ClientsOK'
    <2>1. \A d \in ConnId' : /\ ~doNotConnect(conns'[d].client, conns'[d].server)
                             /\ conns'[d].client \in conns'[d].ends =>
                                  stage'[conns'[d].client][conns'[d].server] \in
                                     {"opened", "portal", "member"}
      BY <1>1, <1>5, <1>7, <1>8, <1>9 DEF OrderInv, ClientsOK
    <2>2. ASSUME NEW d \in ConnId', NEW e \in ConnId', conns'[d].client = conns'[e].client,
                 conns'[d].server = conns'[e].server, d # e
          PROVE  ~(conns'[d].client \in conns'[d].ends /\ conns'[d].client \in conns'[e].ends)
      <3>1. \A x \in ConnId : conns[x].client = n /\ conns[x].server = m => n \notin conns[x].ends
        BY <1>1 DEF OrderInv, ClientsOK
      <3>2. CASE d = c
        BY <1>5, <1>7, <2>2, <3>1, <3>2
      <3>3. CASE e = c
        BY <1>5, <1>7, <2>2, <3>1, <3>3
      <3>4. CASE d # c /\ e # c
        BY <1>5, <2>2, <3>4 DEF OrderInv, ClientsOK
      <3> QED
        BY <3>2, <3>3, <3>4
    <2> QED
      BY <2>1, <2>2 DEF ClientsOK, doNotConnect
  <1>13. LaterEndsOpen'
    <2> SUFFICES ASSUME NEW d \in ConnId', NEW e \in ConnId', NEW a \in conns'[d].ends,
                        d < e, a \in {conns'[e].client, conns'[e].server}
                 PROVE  a \in conns'[e].ends
      BY DEF LaterEndsOpen
    <2>1. d # c
      BY <1>5, <1>6
    <2>2. CASE e = c
      BY <1>7, <2>2
    <2>3. CASE e # c
      BY <1>5, <2>1, <2>3 DEF OrderInv, LaterEndsOpen
    <2> QED
      BY <2>2, <2>3
  <1>14. OwnDropped'
    <2> SUFFICES ASSUME NEW a \in Node, NEW b \in Node
                 PROVE  /\ stage'[a][b] = "broken" => serverSocketFD'[a][b] = Unconnected
                        /\ (/\ stage'[a][b] \in {"opened", "portal", "member"}
                            /\ ~doNotConnect(a, b)
                            /\ ~(/\ serverSocketFD'[a][b] \in ConnId'
                                 /\ conns'[serverSocketFD'[a][b]].client = a)) =>
                           \A d \in ConnId' :
                              conns'[d].client = a /\ conns'[d].server = b => b \notin conns'[d].ends
      BY DEF OwnDropped, doNotConnect
    <2>1. CASE a = n /\ b = m
      BY <1>5, <1>7, <1>8, <2>1
    <2>2. CASE ~(a = n /\ b = m)
      <3>1. stage'[a][b] = stage[a][b] /\ serverSocketFD'[a][b] = serverSocketFD[a][b]
        BY <1>8, <2>2
      <3> QED
        BY <1>5, <1>7, <2>2, <3>1 DEF OrderInv, OwnDropped
    <2> QED
      BY <2>1, <2>2
  <1>15. QueuesSorted'
    <2>1. /\ Sorted(more) /\ Range(more) = Range(backlog[m]) \union {c}
      <3>1. backlog[m] \in Seq(ConnId) /\ Range(backlog[m]) \subseteq ConnId /\ Sorted(backlog[m])
        BY ListFacts
      <3>2. PICK q : q = backlog[m]
        OBVIOUS
      <3>3. q \in Seq(Nat)
        BY <1>6, <3>1, <3>2, WiderQueue
      <3>4. Range(more) = Range(q) \union {c}
        BY <1>3, <1>6, <3>2, <3>3, AppendQueue
      <3>5. \A i \in 1..Len(q) : q[i] < c
        BY <1>6, <3>1, <3>2, <3>3, RangeFacts
      <3>6. /\ Len(more) = Len(q) + 1 /\ more[Len(q) + 1] = c /\ Len(q) \in Nat
            /\ \A i \in 1..Len(q) : more[i] = q[i]
        BY <1>3, <1>6, <3>2, <3>3
      <3>7. Sorted(more)
        BY <3>1, <3>2, <3>5, <3>6 DEF Sorted
      <3> QED
        BY <3>2, <3>4, <3>7
    <2> SUFFICES ASSUME NEW a \in Node
                 PROVE  /\ Sorted(openConnections[a]) /\ Sorted(backlog'[a])
                        /\ \A x \in Range(openConnections[a]) : \A y \in Range(backlog'[a]) : x < y
                        /\ \A b \in Node :
                             (/\ serverSocketFD'[a][b] \in ConnId'
                              /\ conns'[serverSocketFD'[a][b]].client = b) =>
                               \A d \in Range(openConnections[a]) \union Range(backlog'[a]) :
                                  conns'[d].client = b => serverSocketFD'[a][b] < d
      BY <1>4 DEF QueuesSorted, Sorted
    <2>2. /\ Sorted(openConnections[a]) /\ Sorted(backlog[a])
          /\ \A x \in Range(openConnections[a]) : \A y \in Range(backlog[a]) : x < y
          /\ Range(openConnections[a]) \subseteq ConnId /\ Range(backlog[a]) \subseteq ConnId
      BY ListFacts
    <2>3. /\ Sorted(backlog'[a])
          /\ Range(backlog'[a]) \subseteq Range(backlog[a]) \union {c}
      BY <1>8, <2>1, <2>2
    <2>4. \A x \in Range(openConnections[a]) : \A y \in Range(backlog'[a]) : x < y
      BY <1>6, <2>2, <2>3
    <2>5. ASSUME NEW b \in Node, serverSocketFD'[a][b] \in ConnId',
                 conns'[serverSocketFD'[a][b]].client = b,
                 NEW d \in Range(openConnections[a]) \union Range(backlog'[a]),
                 conns'[d].client = b
          PROVE  serverSocketFD'[a][b] < d
      <3>1. serverSocketFD'[a][b] = serverSocketFD[a][b] /\ serverSocketFD[a][b] \in ConnId
        BY <1>1, <1>7, <1>11, <2>5
      <3>2. CASE d = c
        BY <1>6, <3>1, <3>2
      <3>3. CASE d # c
        <4>1. d \in Range(openConnections[a]) \union Range(backlog[a]) /\ d \in ConnId
          BY <2>2, <2>3, <3>3
        <4> QED
          BY <1>5, <2>5, <3>1, <4>1 DEF OrderInv, QueuesSorted
      <3> QED
        BY <3>2, <3>3
    <2> QED
      BY <2>2, <2>3, <2>4, <2>5
  <1>16. UnreadHeld'
    <2>1. ASSUME NEW d \in ConnId', NEW a \in conns'[d].ends, Data(a, d)' # <<>>
          PROVE  Holds(a, d)'
      <3>1. d # c
        BY <1>7, <2>1
      <3>2. d \in ConnId /\ a \in conns[d].ends /\ Data(a, d) # <<>> /\ a \in Node
        BY <1>5, <1>9, <2>1, <3>1
      <3>3. Holds(a, d) /\ d # NoSocket
        BY <1>6, <3>2 DEF OrderInv, UnreadHeld
      <3>4. Range(backlog[a]) \subseteq Range(backlog'[a])
        <4>1. backlog[m] \in Seq(ConnId)
          BY ListFacts
        <4>2. PICK q : q = backlog[m]
          OBVIOUS
        <4>3. q \in Seq(Nat)
          BY <1>6, <4>1, <4>2, WiderQueue
        <4>4. Range(more) = Range(q) \union {c}
          BY <1>3, <1>6, <4>2, <4>3, AppendQueue
        <4> QED
          BY <1>8, <3>2, <4>2, <4>4
      <3> QED
        BY <1>1, <1>4, <1>8, <3>2, <3>3, <3>4 DEF Holds
    <2>2. ASSUME NEW a \in Node, NEW b \in Node, rpc'[a][b] = "closing"
          PROVE  Data(a, serverSocketFD[a][b])' = <<>>
      <3>1. rpc[a][b] = "closing" /\ serverSocketFD'[a][b] = serverSocketFD[a][b]
            /\ serverSocketFD[a][b] \in ConnId
        BY <1>8, <2>2 DEF ConnInv, ThreadInv, ReceiversOK
      <3>2. Data(a, serverSocketFD[a][b]) = <<>>
        BY <3>1 DEF OrderInv, UnreadHeld
      <3> QED
        BY <1>5, <3>1, <3>2 DEF Data
    <2> QED
      BY <2>1, <2>2 DEF UnreadHeld
  <1>17. SendsOnLast'
    <2> SUFFICES ASSUME NEW a \in Node, NEW b \in Node, serverSocketFD'[a][b] \in ConnId',
                        NEW d \in Ends(b, a)', serverSocketFD'[a][b] \in Ends(b, a)',
                        serverSocketFD'[a][b] < d
                 PROVE  Data(b, d)' = <<>>
      BY DEF SendsOnLast
    <2>1. CASE d = c
      BY <1>10, <2>1
    <2>2. CASE d # c
      <3>1. d \in Ends(b, a) /\ d \in ConnId /\ d < c
        BY <1>10, <2>2
      <3>2. serverSocketFD'[a][b] # c
        BY <1>6, <3>1
      <3>3. serverSocketFD'[a][b] = serverSocketFD[a][b] /\ serverSocketFD[a][b] \in ConnId
            /\ serverSocketFD[a][b] \in Ends(b, a)
        BY <1>10, <1>11, <3>2
      <3> QED
        BY <1>9, <3>1, <3>3 DEF OrderInv, SendsOnLast
    <2> QED
      BY <2>1, <2>2
  <1>18. CrossUnused'
    <2> SUFFICES ASSUME NEW a \in Node, NEW b \in Node, NEW e \in Ends(b, a)', NEW d \in Ends(b, a)',
                        conns'[e].client = a, conns'[d].client = b, e < d
                 PROVE  Data(b, d)' = <<>>
      BY DEF CrossUnused
    <2>1. CASE d = c
      BY <1>10, <2>1
    <2>2. CASE d # c
      <3>1. d \in Ends(b, a) /\ d \in ConnId /\ d < c
        BY <1>10, <2>2
      <3>2. e # c
        BY <1>6, <3>1
      <3> QED
        BY <1>5, <1>9, <1>10, <3>1, <3>2 DEF OrderInv, CrossUnused
    <2> QED
      BY <2>1, <2>2
  <1>19. MessagesOK'
    <2>1. \A a, b : OC!LastHeard(a, b)' = OC!LastHeard(a, b)
      BY <1>4 DEF OC!LastHeard
    <2>2. /\ \A a, d : Increasing(Data(a, d))' <=> Increasing(Data(a, d)')
          /\ Increasing(<<>>)
      BY DEF Increasing
    <2>3. \A a, b : \A d \in Ends(b, a)' :
             \/ d \in Ends(b, a) /\ Data(b, d)' = Data(b, d)
             \/ Data(b, d)' = <<>> /\ Range(Data(b, d)') = {}
      BY <1>9, <1>10, EmptyQueue
    <2> QED
      BY <1>4, <2>1, <2>2, <2>3 DEF OrderInv, MessagesOK
  <1> QED
    BY <1>12, <1>13, <1>14, <1>15, <1>16, <1>17, <1>18, <1>19 DEF OrderInv

-----------------------------------------------------------------------------
(* The whole system *)

LEMMA InitOrder ==
    Init => OrderInv
  <1> SUFFICES ASSUME Init
               PROVE  OrderInv
    OBVIOUS
  <1>1. /\ conns = <<>> /\ Len(conns) = 0 /\ ConnId = {} /\ \A n, m : Ends(n, m) = {}
    BY DEF Init, ConnId, Ends
  <1>2. \A n, m \in Node : /\ rpc[n][m] = "none" /\ stage[n][m] = "absent"
                           /\ serverSocketFD[n][m] = NoSocket
                           /\ sent[n][m] = 0 /\ heard[n][m] = <<>>
    BY DEF Init
  <1>3. \A n \in Node : openConnections[n] = <<>> /\ backlog[n] = <<>>
    BY DEF Init
  <1>4. ClientsOK /\ LaterEndsOpen /\ CrossUnused /\ SendsOnLast
    BY <1>1 DEF ClientsOK, LaterEndsOpen, CrossUnused, SendsOnLast
  <1>5. OwnDropped /\ UnreadHeld
    BY <1>1, <1>2 DEF OwnDropped, UnreadHeld
  <1>6. QueuesSorted
    <2>1. Sorted(<<>>)
      BY DEF Sorted
    <2> QED
      BY <1>1, <1>3, <2>1, EmptyQueue DEF QueuesSorted
  <1>7. MessagesOK
    <2>1. \A n, m \in Node : OC!LastHeard(m, n) = 0
      BY <1>2 DEF OC!LastHeard
    <2> QED
      BY <1>1, <1>2, <2>1 DEF MessagesOK
  <1> QED
    BY <1>4, <1>5, <1>6, <1>7 DEF OrderInv

LEMMA StutterOrder ==
    ASSUME ConnInv, OrderInv, UNCHANGED vars
    PROVE  OrderInv'
  <1>1. /\ UNCHANGED <<conns, backlog, openConnections, serverSocketFD, sent, heard, stage>>
        /\ \A n, m \in Node : rpc'[n][m] = "closing" => rpc[n][m] = "closing"
    BY DEF vars
  <1> QED
    BY <1>1, QuietOrder, NoStageMoves, ClosingStays

LEMMA NextOrder ==
    ASSUME ConnInv, OrderInv, Next
    PROVE  OrderInv'
  <1>1. PICK n \in Node :
           \/ Start(n) \/ Die(n) \/ Listener(n) \/ MainStep(n)
           \/ \E m \in Node : Call(n, m) \/ Receiver(n, m)
    BY DEF Next
  <1>2. CASE Start(n) \/ Die(n) \/ Listener(n)
    BY <1>2, StartOrder, DieOrder, ListenOrder, AcceptOrder DEF Listener
  <1>3. CASE MainStep(n)
    BY <1>3, SetupPortalOrder, PortalLockOrder, SubscribeOrder, CheckLockOrder, SetOnlineOrder,
       SendLockOrder, SendtoOrder DEF MainStep
  <1>4. ASSUME NEW m \in Node, Call(n, m)
        PROVE  OrderInv'
    BY <1>4, AddPassiveOrder, AddConnectingOrder, AddBrokenOrder, IsOnlineOrder, SendDataOrder
       DEF Call
  <1>5. ASSUME NEW m \in Node, Receiver(n, m)
        PROVE  OrderInv'
    BY <1>5, PollOrder, PollLockOrder, ReceiveOrder, CallbackOrder, ResetOrder, PeerClosedOrder,
       GiveUpOrder DEF Receiver
  <1> QED
    BY <1>1, <1>2, <1>3, <1>4, <1>5

\* What a step of a node does to what was sent and heard.
LEMMA CallHistory ==
    ASSUME NEW n \in Node, NEW m \in Node, Call(n, m)
    PROVE  UNCHANGED <<sent, heard>>
  BY DEF Call, AddPassive, AddConnecting, AddBroken, Opened, IsOnline, SendData

LEMMA ReceiverHistory ==
    ASSUME ConnInv, OrderInv, NEW n \in Node, NEW m \in Node, Receiver(n, m)
    PROVE  [OC!Next]_<<sent, heard>>
  <1>1. CASE Poll(n, m) \/ PollLock(n, m) \/ Reset(n, m) \/ PeerClosed(n, m) \/ GiveUp(n, m)
    BY <1>1 DEF Poll, PollLock, Reset, PeerClosed, GiveUp
  <1>2. CASE Receive(n, m)
    <2>1. UNCHANGED sent
      BY <1>2 DEF Receive
    <2>2. CASE heard' # heard
      <3>1. PICK k : /\ OC!LastHeard(n, m) < k /\ k <= sent[m][n] /\ k \in Nat
                     /\ heard' = [heard EXCEPT ![n][m] = Append(heard[n][m], k)]
        BY <1>2, <2>2, ReceiveOrder
      <3>2. OC!LastHeard(n, m) \in Nat /\ sent[m][n] \in Nat
        BY DEF OrderInv, MessagesOK, ConnInv, ThreadInv, ThreadTypes
      <3>3. k \in (OC!LastHeard(n, m) + 1)..sent[m][n]
        BY <3>1, <3>2
      <3>4. OC!Hear(n, m)
        BY <2>1, <3>1, <3>3 DEF OC!Hear
      <3> QED
        BY <3>4 DEF OC!Next
    <2> QED
      BY <2>1, <2>2
  <1>3. CASE Callback(n, m)
    <2>1. UNCHANGED heard /\ (sent' = [sent EXCEPT ![n][m] = @ + 1] \/ UNCHANGED sent)
      BY <1>3 DEF Callback, Transmit
    <2> QED
      BY <2>1 DEF OC!Next, OC!Send
  <1> QED
    BY <1>1, <1>2, <1>3 DEF Receiver

LEMMA NodeHistory ==
    ASSUME ConnInv, NEW n \in Node, Start(n) \/ Die(n) \/ Listener(n) \/ MainStep(n)
    PROVE  [OC!Next]_<<sent, heard>>
  <1>1. CASE Start(n) \/ Die(n) \/ Listener(n)
    BY <1>1 DEF Start, Die, Listener, Listen, Accept
  <1>2. CASE SetupPortal(n) \/ PortalLock(n) \/ Subscribe(n) \/ CheckLock(n) \/ SetOnline(n)
             \/ SendLock(n)
    BY <1>2 DEF SetupPortal, PortalLock, Subscribe, CheckLock, SetOnline, SendLock
  <1>3. CASE Sendto(n)
    <2>1. UNCHANGED heard /\ sent' = [sent EXCEPT ![n][target[n]] = @ + 1] /\ target[n] \in Node
      BY <1>3 DEF Sendto, Transmit, ConnInv, ThreadInv, ThreadTypes
    <2> QED
      BY <2>1 DEF OC!Next, OC!Send
  <1> QED
    BY <1>1, <1>2, <1>3 DEF MainStep

-----------------------------------------------------------------------------
(* The theorems *)

\* Of the sockets and what lies in them: connections are made, queued and taken in
\* one order, messages lie in it, and what is sent goes on the last of them.
THEOREM OrderInvariance == Spec => [](ConnInv /\ OrderInv)
  <1>1. Init => ConnInv /\ OrderInv
    BY InitConn, InitOrder
  <1>2. ConnInv /\ OrderInv /\ [Next]_vars => (ConnInv /\ OrderInv)'
    BY NextConn, StutterConn, NextOrder, StutterOrder
  <1> QED
    BY <1>1, <1>2, PTL DEF Spec

\* The connection layer keeps the order in which a node sent to another, through
\* deaths, reconnections and the two threads that take sockets (bk_routine,
\* isConnectionOpen, sendData): what is heard was sent, comes once and in order.
THEOREM ImplementsChannel == Spec => ImplementsOrderedChannel
  <1>1. Init => OC!Init
    BY DEF Init, OC!Init
  <1>2. ASSUME ConnInv, OrderInv, [Next]_vars
        PROVE  [OC!Next]_(OC!vars)
    <2>1. CASE UNCHANGED vars
      BY <2>1 DEF vars, OC!vars
    <2>2. CASE Next
      <3>1. PICK n \in Node :
               \/ Start(n) \/ Die(n) \/ Listener(n) \/ MainStep(n)
               \/ \E m \in Node : Call(n, m) \/ Receiver(n, m)
        BY <2>2 DEF Next
      <3>2. CASE Start(n) \/ Die(n) \/ Listener(n) \/ MainStep(n)
        BY <1>2, <3>2, NodeHistory DEF OC!vars
      <3>3. CASE \E m \in Node : Call(n, m) \/ Receiver(n, m)
        BY <1>2, <3>3, CallHistory, ReceiverHistory DEF OC!vars
      <3> QED
        BY <3>1, <3>2, <3>3
    <2> QED
      BY <1>2, <2>1, <2>2
  <1> QED
    BY <1>1, <1>2, OrderInvariance, PTL DEF Spec, OC!Spec, ImplementsOrderedChannel

=============================================================================
