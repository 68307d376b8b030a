------------------------ MODULE TcpConnection_proofs ------------------------
(***************************************************************************)
(* Proofs about TcpConnection, for any number of nodes, whatever addresses *)
(* they have, and for any number of deaths and restarts.                   *)
(***************************************************************************)
EXTENDS TcpConnection, FiniteSetTheorems, SequenceTheorems, TLAPS

-----------------------------------------------------------------------------
(* Queues in which nothing is twice *)

LEMMA RangeFacts ==
    ASSUME NEW S, NEW s \in Seq(S)
    PROVE  \A x : x \in Range(s) <=> \E i \in 1..Len(s) : s[i] = x
  BY DEF Range

LEMMA EmptyQueue ==
    IsInjective(<<>>) /\ Range(<<>>) = {}
  BY DEF IsInjective, Range

\* Adding something new ...
LEMMA AppendQueue ==
    ASSUME NEW S, NEW s \in Seq(S), NEW x \in S
    PROVE  /\ Append(s, x) \in Seq(S)
           /\ Range(Append(s, x)) = Range(s) \union {x}
           /\ IsInjective(s) /\ x \notin Range(s) => IsInjective(Append(s, x))
  <1>1. Append(s, x) \in Seq(S)
    OBVIOUS
  <1>2. Range(Append(s, x)) = Range(s) \union {x}
    <2>1. Len(Append(s, x)) = Len(s) + 1 /\ Append(s, x)[Len(s) + 1] = x
      OBVIOUS
    <2>2. \A i \in 1..Len(s) : Append(s, x)[i] = s[i]
      OBVIOUS
    <2>3. \A y : y \in Range(Append(s, x)) <=> \E i \in 1..(Len(s) + 1) : Append(s, x)[i] = y
      BY <1>1, <2>1, RangeFacts
    <2> QED
      BY <2>1, <2>2, <2>3, RangeFacts
  <1>3. IsInjective(s) /\ x \notin Range(s) => IsInjective(Append(s, x))
    BY RangeFacts DEF IsInjective
  <1> QED
    BY <1>1, <1>2, <1>3

\* ... and taking the first element or any other off leaves the rest as it was.
LEMMA TailQueue ==
    ASSUME NEW S, NEW s \in Seq(S), s # <<>>, IsInjective(s)
    PROVE  /\ Head(s) \in S /\ Head(s) \in Range(s)
           /\ Tail(s) \in Seq(S)
           /\ IsInjective(Tail(s))
           /\ Range(Tail(s)) = Range(s) \ {Head(s)}
  <1>1. /\ Head(s) \in S /\ Tail(s) \in Seq(S) /\ Len(Tail(s)) = Len(s) - 1
        /\ Len(s) \in Nat /\ Len(s) > 0 /\ Head(s) = s[1]
        /\ \A i \in 1..Len(Tail(s)) : Tail(s)[i] = s[i + 1]
    OBVIOUS
  <1>2. IsInjective(Tail(s))
    BY <1>1 DEF IsInjective
  <1>3. ASSUME NEW y
        PROVE  y \in Range(Tail(s)) <=> y \in Range(s) \ {Head(s)}
    <2>1. ASSUME y \in Range(Tail(s))
          PROVE  y \in Range(s) \ {Head(s)}
      <3>1. PICK i \in 1..Len(Tail(s)) : Tail(s)[i] = y
        BY <1>1, <2>1, RangeFacts
      <3>2. i + 1 \in 1..Len(s) /\ i + 1 # 1 /\ 1 \in 1..Len(s) /\ s[i + 1] = y
        BY <1>1, <3>1
      <3>3. y # s[1]
        BY <3>2 DEF IsInjective
      <3> QED
        BY <1>1, <3>2, <3>3, RangeFacts
    <2>2. ASSUME y \in Range(s), y # Head(s)
          PROVE  y \in Range(Tail(s))
      <3>1. PICK i \in 1..Len(s) : s[i] = y
        BY <2>2, RangeFacts
      <3>2. i - 1 \in 1..Len(Tail(s)) /\ Tail(s)[i - 1] = y
        BY <1>1, <2>2, <3>1
      <3> QED
        BY <1>1, <3>2, RangeFacts
    <2> QED
      BY <2>1, <2>2
  <1>4. Head(s) \in Range(s)
    BY <1>1, RangeFacts
  <1> QED
    BY <1>1, <1>2, <1>3, <1>4

LEMMA RemoveIndex ==
    ASSUME NEW S, NEW s \in Seq(S), NEW i \in 1..Len(s)
    PROVE  /\ RemoveAt(s, i) \in Seq(S) /\ Len(RemoveAt(s, i)) = Len(s) - 1 /\ Len(s) \in Nat
           /\ \A j \in 1..Len(RemoveAt(s, i)) :
                 RemoveAt(s, i)[j] = IF j < i THEN s[j] ELSE s[j + 1]
  <1> DEFINE r == RemoveAt(s, i)
             a == SubSeq(s, 1, i - 1)
             b == SubSeq(s, i + 1, Len(s))
  <1>1. a \in Seq(S) /\ Len(a) = i - 1 /\ \A j \in 1..(i - 1) : a[j] = s[j]
    OBVIOUS
  <1>2. /\ b \in Seq(S) /\ Len(b) = Len(s) - i
        /\ \A j \in 1..(Len(s) - i) : b[j] = s[i + j]
    OBVIOUS
  <1>3. r = a \o b
    BY DEF RemoveAt
  <1> HIDE DEF a, b, r
  <1>4. r \in Seq(S) /\ Len(r) = Len(s) - 1 /\ Len(s) \in Nat
    BY <1>1, <1>2, <1>3
  <1>5. ASSUME NEW j \in 1..Len(r)
        PROVE  r[j] = IF j < i THEN s[j] ELSE s[j + 1]
    <2>1. CASE j < i
      BY <1>1, <1>2, <1>3, <1>4, <2>1
    <2>2. CASE ~(j < i)
      <3>1. r[j] = b[j - (i - 1)] /\ j - (i - 1) \in 1..(Len(s) - i)
        BY <1>1, <1>2, <1>3, <1>4, <2>2
      <3> QED
        BY <1>2, <2>2, <3>1
    <2> QED
      BY <2>1, <2>2
  <1> QED
    BY <1>4, <1>5 DEF r

LEMMA RemoveQueue ==
    ASSUME NEW S, NEW s \in Seq(S), NEW i \in 1..Len(s), IsInjective(s)
    PROVE  /\ RemoveAt(s, i) \in Seq(S)
           /\ IsInjective(RemoveAt(s, i))
           /\ Range(RemoveAt(s, i)) = Range(s) \ {s[i]}
  <1> DEFINE r == RemoveAt(s, i)
  <1>1. /\ r \in Seq(S) /\ Len(r) = Len(s) - 1 /\ Len(s) \in Nat
        /\ \A j \in 1..Len(r) : r[j] = IF j < i THEN s[j] ELSE s[j + 1]
    BY RemoveIndex DEF r
  <1> HIDE DEF r
  <1>2. \A j \in 1..Len(r) : \E k \in 1..Len(s) :
           r[j] = s[k] /\ k # i /\ k = IF j < i THEN j ELSE j + 1
    BY <1>1
  <1>3. IsInjective(r)
    <2>0. \A p, q \in 1..Len(s) : s[p] = s[q] => p = q
      BY DEF IsInjective
    <2>1. ASSUME NEW j \in 1..Len(r), NEW k \in 1..Len(r), r[j] = r[k]
          PROVE  j = k
      <3>1. PICK p \in 1..Len(s) : r[j] = s[p] /\ p = IF j < i THEN j ELSE j + 1
        BY <1>2
      <3>2. PICK q \in 1..Len(s) : r[k] = s[q] /\ q = IF k < i THEN k ELSE k + 1
        BY <1>2
      <3>3. p = q
        BY <2>0, <2>1, <3>1, <3>2
      <3> QED
        BY <3>1, <3>2, <3>3
    <2> QED
      BY <1>1, <2>1 DEF IsInjective
  <1>4. ASSUME NEW y
        PROVE  y \in Range(r) <=> y \in Range(s) \ {s[i]}
    <2>1. ASSUME y \in Range(r)
          PROVE  y \in Range(s) \ {s[i]}
      <3>1. PICK k \in 1..Len(s) : s[k] = y /\ k # i
        BY <1>1, <1>2, <2>1, RangeFacts
      <3> QED
        BY <3>1, RangeFacts DEF IsInjective
    <2>2. ASSUME y \in Range(s), y # s[i]
          PROVE  y \in Range(r)
      <3>1. PICK j \in 1..Len(s) : s[j] = y
        BY <2>2, RangeFacts
      <3>2. CASE j < i
        <4>1. j \in 1..Len(r) /\ r[j] = y
          BY <1>1, <3>1, <3>2
        <4> QED
          BY <1>1, <4>1, RangeFacts
      <3>3. CASE j > i
        <4>1. j - 1 \in 1..Len(r) /\ r[j - 1] = y
          BY <1>1, <3>1, <3>3
        <4> QED
          BY <1>1, <4>1, RangeFacts
      <3> QED
        BY <2>2, <3>1, <3>2, <3>3
    <2> QED
      BY <2>1, <2>2
  <1> QED
    BY <1>1, <1>3, <1>4 DEF r

-----------------------------------------------------------------------------
(* The inductive invariant *)

Payload == 1..(MaxMessages + 1)

\* What the two ends of a connection may still read.
Unread == UNION {[{p[1], p[2]} -> Seq(Payload)] : p \in Node \X Node}

\* A connection between two different nodes.
Conn ==
    {c \in [client : Node, server : Node, ends : SUBSET Node, data : Unread] :
        /\ c.client # c.server
        /\ c.ends \subseteq {c.client, c.server}
        /\ c.data \in [{c.client, c.server} -> Seq(Payload)]}

NetTypes ==
    /\ conns \in Seq(Conn)
    /\ Len(conns) <= MaxConnections
    /\ backlog \in [Node -> Seq(ConnId)]
    /\ openConnections \in [Node -> Seq(ConnId)]
    /\ serverSocketFD \in [Node -> [Node -> ConnId \union {NoSocket, Unconnected}]]

ThreadTypes ==
    /\ life \in [Node -> {"down", "bound", "listening", "deaf"}]
    /\ starts \in [Node -> 0..MaxStarts]
    /\ mpc \in [Node -> {"idle", "portal", "portalLock", "subscribe", "checkLock", "checked",
                         "sendLock", "sendto"}]
    /\ target \in [Node -> Node]
    /\ rpc \in [Node -> [Node -> {"none", "poll", "lock", "recv", "callback", "closing"}]]
    /\ stage \in [Node -> [Node -> {"absent", "opened", "portal", "member", "broken"}]]
    /\ online \in [Node -> SUBSET Node]
    /\ sent \in [Node -> [Node -> 0..(MaxMessages + 1)]]
    /\ heard \in [Node -> [Node -> Seq(Payload)]]

\* A member that was added is another node; it has a receiver unless its connect()
\* failed, and no socket before it was added.
MembersOK ==
    \A n, m \in Node :
        /\ stage[n][m] # "absent" => n # m
        /\ rpc[n][m] # "none" => stage[n][m] \in {"opened", "portal", "member"}
        /\ stage[n][m] = "absent" => serverSocketFD[n][m] = NoSocket
        /\ serverSocketFD[n][m] = Unconnected => stage[n][m] = "broken"

\* A receiver that reads has a socket, and gives it up only when the peer is gone.
ReceiversOK ==
    \A n, m \in Node :
        /\ rpc[n][m] \in {"recv", "callback", "closing"} => serverSocketFD[n][m] \in ConnId
        /\ rpc[n][m] = "closing" => m \notin conns[serverSocketFD[n][m]].ends

\* The main thread works on a member that was added.
MainOK ==
    \A n \in Node :
        /\ mpc[n] \in {"portal", "portalLock", "subscribe"} =>
              stage[n][target[n]] \in {"opened", "portal"}
        /\ mpc[n] \in {"checkLock", "checked"} => stage[n][target[n]] \in {"member", "broken"}
        /\ mpc[n] \in {"sendLock", "sendto"} =>
              stage[n][target[n]] = "member" /\ sent[n][target[n]] <= MaxMessages

\* A queue of accepted or waiting sockets of node n.
QueueOK(n, q) ==
    /\ IsInjective(q)
    /\ \A c \in Range(q) : conns[c].server = n /\ n \in conns[c].ends

\* What a node holds is its own end, held once, and a member's socket leads to it.
HeldAt(n) ==
    /\ QueueOK(n, backlog[n]) /\ QueueOK(n, openConnections[n])
    /\ Range(backlog[n]) \intersect Range(openConnections[n]) = {}
    /\ \A m \in Node : serverSocketFD[n][m] \in ConnId =>
          /\ n \in conns[serverSocketFD[n][m]].ends
          /\ m # n /\ Peer(n, serverSocketFD[n][m]) = m
          /\ serverSocketFD[n][m] \notin Range(backlog[n]) \union Range(openConnections[n])

HeldOK == \A n \in Node : HeldAt(n)

Holds(n, c) ==
    \/ c \in Range(backlog[n]) \union Range(openConnections[n])
    \/ \E m \in Node : serverSocketFD[n][m] = c

\* No end of an established connection gets lost.
NothingLost ==
    \A c \in ConnId : Established(c) => \A n \in conns[c].ends : Holds(n, c)

\* The sockets, wherever they are held, and the threads that use them.
NetInv == NetTypes /\ HeldOK /\ NothingLost

ThreadInv == ThreadTypes /\ MembersOK /\ ReceiversOK /\ MainOK

ConnInv == NetInv /\ ThreadInv

-----------------------------------------------------------------------------
(* Connections *)

LEMMA UnreadFacts ==
    ASSUME NEW n \in Node, NEW m \in Node, NEW f \in [{n, m} -> Seq(Payload)]
    PROVE  f \in Unread
  <1> DEFINE U == [{<<n, m>>[1], <<n, m>>[2]} -> Seq(Payload)]
  <1>1. f \in U
    OBVIOUS
  <1>2. <<n, m>> \in Node \X Node
    OBVIOUS
  <1>3. U \in {[{p[1], p[2]} -> Seq(Payload)] : p \in Node \X Node}
    BY <1>2, Zenon
  <1> HIDE DEF U
  <1> QED
    BY <1>1, <1>3 DEF Unread

LEMMA ConnFacts ==
    ASSUME NEW c \in Conn
    PROVE  /\ c.client \in Node /\ c.server \in Node /\ c.client # c.server
           /\ c.ends \subseteq {c.client, c.server}
           /\ c.data \in [{c.client, c.server} -> Seq(Payload)]
  BY DEF Conn

LEMMA NewConn ==
    ASSUME NEW n \in Node, NEW m \in Node, n # m
    PROVE  /\ NewConnection(n, m) \in Conn
           /\ NewConnection(n, m).client = n /\ NewConnection(n, m).server = m
           /\ NewConnection(n, m).ends = {n, m}
  <1> DEFINE d == [k \in {n, m} |-> <<>>]
  <1>1. d \in [{n, m} -> Seq(Payload)]
    OBVIOUS
  <1>2. d \in Unread
    BY <1>1, UnreadFacts
  <1>3. NewConnection(n, m) = [client |-> n, server |-> m, ends |-> {n, m}, data |-> d]
    BY DEF NewConnection
  <1> DEFINE c == NewConnection(n, m)
  <1> HIDE DEF d, c
  <1>4. c.client = n /\ c.server = m /\ c.ends = {n, m} /\ c.data = d
    BY <1>3 DEF c
  <1>5. c \in [client : Node, server : Node, ends : SUBSET Node, data : Unread]
    BY <1>2, <1>3 DEF c
  <1>6. c \in Conn
    BY <1>1, <1>4, <1>5 DEF Conn
  <1> QED
    BY <1>4, <1>6 DEF c

\* What end x may read becomes q, and e are the open ends.
WithData(c, x, q, e) == [c EXCEPT !.ends = e, !.data[x] = q]

LEMMA DataConn ==
    ASSUME NEW c \in Conn, NEW x \in c.ends, NEW q \in Seq(Payload), NEW e \in SUBSET c.ends
    PROVE  /\ WithData(c, x, q, e) \in Conn
           /\ WithData(c, x, q, e).client = c.client
           /\ WithData(c, x, q, e).server = c.server
           /\ WithData(c, x, q, e).ends = e
  <1> DEFINE f == [c.data EXCEPT ![x] = q]
             d == WithData(c, x, q, e)
  <1>1. f \in [{c.client, c.server} -> Seq(Payload)]
    BY ConnFacts
  <1>2. f \in Unread
    BY <1>1, ConnFacts, UnreadFacts
  <1>3. c \in [client : Node, server : Node, ends : SUBSET Node, data : Unread]
    BY DEF Conn
  <1>4. d = [c EXCEPT !.ends = e, !.data = f]
    BY <1>3 DEF WithData
  <1> HIDE DEF d, f
  <1>5. /\ d \in [client : Node, server : Node, ends : SUBSET Node, data : Unread]
        /\ d.client = c.client /\ d.server = c.server /\ d.ends = e /\ d.data = f
    BY <1>2, <1>3, <1>4
  <1>6. d \in Conn
    BY <1>1, <1>5, ConnFacts DEF Conn
  <1> QED
    BY <1>5, <1>6 DEF d

\* A step that opens and closes no end of any connection.
SameLinks ==
    /\ conns' \in Seq(Conn) /\ Len(conns') = Len(conns)
    /\ \A c \in ConnId :
         /\ conns'[c].client = conns[c].client /\ conns'[c].server = conns[c].server
         /\ conns'[c].ends = conns[c].ends

LEMMA SeqFunction ==
    ASSUME NEW S, NEW k \in Nat, NEW f \in [1..k -> S]
    PROVE  f \in Seq(S) /\ Len(f) = k
  OBVIOUS

LEMMA KeptLinks ==
    ASSUME NetTypes, UNCHANGED conns
    PROVE  SameLinks
  BY DEF NetTypes, SameLinks

LEMMA DataLinks ==
    ASSUME NetTypes, NEW c \in ConnId, NEW x \in conns[c].ends, NEW q \in Seq(Payload),
           conns' = [conns EXCEPT ![c].data[x] = q]
    PROVE  SameLinks
  <1> DEFINE d == WithData(conns[c], x, q, conns[c].ends)
  <1>1. conns \in Seq(Conn) /\ conns[c] \in Conn
    BY DEF NetTypes, ConnId
  <1>2. /\ d \in Conn /\ d.client = conns[c].client /\ d.server = conns[c].server
        /\ d.ends = conns[c].ends
    BY <1>1, DataConn
  <1>3. conns' = [conns EXCEPT ![c] = d]
    <2>1. d = [conns[c] EXCEPT !.data[x] = q]
      BY <1>1 DEF Conn, WithData
    <2> QED
      BY <2>1
  <1> HIDE DEF d
  <1>4. /\ conns' \in Seq(Conn) /\ Len(conns') = Len(conns)
        /\ \A k \in ConnId : conns'[k] = IF k = c THEN d ELSE conns[k]
    <2>1. c \in 1..Len(conns) /\ d \in Conn /\ conns \in Seq(Conn)
      BY <1>1, <1>2 DEF ConnId
    <2> HIDE DEF Conn
    <2> QED
      BY <1>3, <2>1, ExceptSeq DEF ConnId
  <1> QED
    BY <1>2, <1>4 DEF SameLinks

LEMMA TransmitLinks ==
    ASSUME NetTypes, ThreadTypes, NEW n \in Node, NEW m \in Node, sent[n][m] <= MaxMessages,
           n # m, serverSocketFD[n][m] \in ConnId => Peer(n, serverSocketFD[n][m]) = m,
           Transmit(n, m)
    PROVE  SameLinks /\ sent' \in [Node -> [Node -> 0..(MaxMessages + 1)]]
  <1>1. conns \in Seq(Conn)
    BY DEF NetTypes
  <1>2. sent[n][m] + 1 \in Payload /\ sent' \in [Node -> [Node -> 0..(MaxMessages + 1)]]
    <2>1. sent[n][m] \in 0..MaxMessages /\ MaxMessages \in Nat
      BY ConnectionAssumption DEF ThreadTypes
    <2>2. sent[n][m] + 1 \in 0..(MaxMessages + 1) /\ sent[n][m] + 1 \in Payload
      BY <2>1 DEF Payload
    <2>3. /\ sent \in [Node -> [Node -> 0..(MaxMessages + 1)]]
          /\ sent' = [sent EXCEPT ![n][m] = sent[n][m] + 1]
      BY DEF ThreadTypes, Transmit
    <2> QED
      BY <2>2, <2>3
  <1>3. ASSUME NEW d \in ConnId
        PROVE  /\ conns'[d] \in Conn
               /\ conns'[d].client = conns[d].client /\ conns'[d].server = conns[d].server
               /\ conns'[d].ends = conns[d].ends
    <2>1. conns[d] \in Conn
      BY <1>1 DEF ConnId
    <2>2. CASE d = serverSocketFD[n][m] /\ m \in conns[d].ends
      <3> DEFINE q == Append(conns[d].data[m], sent[n][m] + 1)
                 e == WithData(conns[d], m, q, conns[d].ends)
      <3>1. q \in Seq(Payload)
        <4>1. conns[d].data[m] \in Seq(Payload)
          BY <2>1, <2>2, ConnFacts
        <4> HIDE DEF Payload
        <4> QED
          BY <1>2, <4>1
      <3>2. conns'[d] = e
        <4>1. e = [conns[d] EXCEPT !.data[m] = q]
          BY <2>1 DEF Conn, WithData
        <4> QED
          BY <2>2, <4>1 DEF Transmit
      <3> HIDE DEF q
      <3>3. e \in Conn /\ e.client = conns[d].client /\ e.server = conns[d].server
            /\ e.ends = conns[d].ends
        BY <2>1, <2>2, <3>1, DataConn
      <3> QED
        BY <3>2, <3>3
    <2>3. CASE ~(d = serverSocketFD[n][m] /\ m \in conns[d].ends)
      BY <2>1, <2>3 DEF Transmit
    <2> QED
      BY <2>2, <2>3
  <1>4. conns' \in [ConnId -> Conn]
    BY <1>3 DEF Transmit
  <1>5. conns' \in Seq(Conn) /\ Len(conns') = Len(conns)
    BY <1>1, <1>4, SeqFunction DEF ConnId
  <1> QED
    BY <1>2, <1>3, <1>5 DEF SameLinks

LEMMA NetQuiet ==
    ASSUME NetInv, SameLinks, UNCHANGED <<backlog, openConnections, serverSocketFD>>
    PROVE  NetInv'
  <1>0. conns' \in Seq(Conn) /\ Len(conns') = Len(conns)
        /\ \A c \in ConnId : conns'[c].client = conns[c].client
                             /\ conns'[c].server = conns[c].server /\ conns'[c].ends = conns[c].ends
    BY DEF SameLinks
  <1>1. ConnId' = ConnId
    BY <1>0 DEF ConnId
  <1>2. NetTypes'
    BY <1>0, <1>1 DEF NetInv, NetTypes
  <1>3. \A c \in ConnId : \A n : Peer(n, c)' = Peer(n, c) /\ Established(c)' = Established(c)
    BY <1>0 DEF Peer, Established
  <1>4. \A n \in Node : Range(backlog[n]) \subseteq ConnId /\ Range(openConnections[n]) \subseteq ConnId
    <2>1. \A n \in Node : backlog[n] \in Seq(ConnId) /\ openConnections[n] \in Seq(ConnId)
      BY DEF NetInv, NetTypes
    <2>2. \A q \in Seq(ConnId) : Range(q) \subseteq ConnId
      BY RangeFacts
    <2> QED
      BY <2>1, <2>2
  <1>5. HeldOK'
    BY <1>0, <1>1, <1>3, <1>4 DEF NetInv, HeldOK, HeldAt, QueueOK
  <1>6. NothingLost'
    BY <1>0, <1>1, <1>3, <1>4 DEF NetInv, NothingLost, Holds
  <1> QED
    BY <1>2, <1>5, <1>6 DEF NetInv

-----------------------------------------------------------------------------
(* Sockets change hands *)

LEMMA MinIsMember ==
    ASSUME NEW S \in SUBSET Nat, S # {}
    PROVE  Min(S) \in S /\ \A x \in S : Min(S) =< x
  <1> DEFINE R == OpToRel(<, Nat)
  <1>1. \A x, y \in Nat : <<y, x>> \notin R => x =< y
    BY DEF OpToRel
  <1>2. \E x \in S : \A y \in S : <<y, x>> \notin R
    BY NatLessThanWellFounded, WFMin, Zenon
  <1>3. \E x \in S : \A y \in S : x =< y
    BY <1>1, <1>2
  <1> QED
    BY <1>3 DEF Min

\* isConnectionOpen takes a socket that leads to the member off the list.
LEMMA TakeSocket ==
    ASSUME NetInv, NEW n \in Node, NEW m \in Node, NeedsSocket(n, m), Take(n, m),
           UNCHANGED <<conns, backlog>>
    PROVE  /\ NetInv' /\ n # m
           /\ \E c \in ConnId : /\ serverSocketFD' = [serverSocketFD EXCEPT ![n][m] = c]
                                /\ conns[c].client = m /\ conns[c].server = n
  <1> DEFINE list == openConnections[n]
             i == Min(Waiting(n, m))
             c == list[i]
             rest == RemoveAt(list, i)
  <1>1. conns \in Seq(Conn) /\ list \in Seq(ConnId) /\ IsInjective(list) /\ DOMAIN list = 1..Len(list)
    BY DEF NetInv, NetTypes, HeldOK, HeldAt, QueueOK
  <1>2. i \in 1..Len(list) /\ conns[c].client = m
    <2>1. Waiting(n, m) \in SUBSET Nat /\ Waiting(n, m) # {}
      BY <1>1 DEF NeedsSocket, Waiting
    <2>2. i \in Waiting(n, m)
      BY <2>1, MinIsMember
    <2> QED
      BY <1>1, <2>2 DEF Waiting
  <1>3. /\ serverSocketFD' = [serverSocketFD EXCEPT ![n][m] = c]
        /\ openConnections' = [openConnections EXCEPT ![n] = rest]
    BY DEF Take
  <1> HIDE DEF i
  <1>4. /\ rest \in Seq(ConnId) /\ IsInjective(rest) /\ Range(rest) = Range(list) \ {c}
    BY <1>1, <1>2, RemoveQueue
  <1>5. c \in ConnId /\ c \in Range(list)
    BY <1>1, <1>2, RangeFacts
  <1>6. conns[c].server = n /\ n \in conns[c].ends /\ n # m /\ Peer(n, c) = m
    <2>1. conns[c] \in Conn
      BY <1>1, <1>5 DEF ConnId
    <2>2. conns[c].server = n /\ n \in conns[c].ends
      BY <1>5 DEF NetInv, HeldOK, HeldAt, QueueOK
    <2> QED
      BY <1>2, <2>1, <2>2, ConnFacts DEF Peer
  <1>7. /\ \A p \in Node : \A q \in Node :
             serverSocketFD'[p][q] = IF p = n /\ q = m THEN c ELSE serverSocketFD[p][q]
        /\ \A p \in Node : openConnections'[p] = IF p = n THEN rest ELSE openConnections[p]
        /\ c \notin Range(backlog[n])
        /\ serverSocketFD[n][m] = NoSocket /\ NoSocket \notin ConnId
    BY <1>3, <1>5 DEF NetInv, NetTypes, HeldOK, HeldAt, NeedsSocket, ConnId, NoSocket
  <1> HIDE DEF c, rest, list
  <1>8. NetTypes'
    BY <1>3, <1>4, <1>5 DEF NetInv, NetTypes, ConnId
  <1>9. HeldOK'
    <2> SUFFICES ASSUME NEW p \in Node
                 PROVE  HeldAt(p)'
      BY DEF HeldOK
    <2>1. CASE p = n
      <3>1. /\ QueueOK(n, backlog[n]) /\ QueueOK(n, list)
            /\ Range(backlog[n]) \intersect Range(list) = {}
            /\ \A q \in Node : serverSocketFD[n][q] \in ConnId =>
                  /\ n \in conns[serverSocketFD[n][q]].ends
                  /\ q # n /\ Peer(n, serverSocketFD[n][q]) = q
                  /\ serverSocketFD[n][q] \notin Range(backlog[n]) \union Range(list)
        BY DEF NetInv, HeldOK, HeldAt, list
      <3>2. openConnections'[n] = rest
        BY <1>7
      <3>3. QueueOK(n, backlog[n])' /\ QueueOK(n, openConnections[n])'
        BY <1>4, <3>1, <3>2 DEF QueueOK
      <3>4. Range(backlog[n]) \intersect Range(rest) = {}
        BY <1>4, <3>1
      <3>5. ASSUME NEW q \in Node, serverSocketFD'[n][q] \in ConnId
            PROVE  /\ n \in conns[serverSocketFD'[n][q]].ends
                   /\ q # n /\ Peer(n, serverSocketFD'[n][q]) = q
                   /\ serverSocketFD'[n][q] \notin Range(backlog[n]) \union Range(rest)
        <4>1. CASE q = m
          BY <1>4, <1>6, <1>7, <4>1
        <4>2. CASE q # m
          BY <1>4, <1>7, <3>1, <3>5, <4>2
        <4> QED
          BY <4>1, <4>2
      <3> QED
        BY <2>1, <3>2, <3>3, <3>4, <3>5 DEF HeldAt, Peer, ConnId
    <2>2. CASE p # n
      BY <1>7, <2>2 DEF NetInv, HeldOK, HeldAt, QueueOK, ConnId, Peer
    <2> QED
      BY <2>1, <2>2
  <1>10. NothingLost'
    <2> SUFFICES ASSUME NEW d \in ConnId, Established(d), NEW p \in conns[d].ends
                 PROVE  Holds(p, d)'
      BY DEF NothingLost, Established, ConnId
    <2>1. p \in Node
      <3>1. conns[d] \in Conn
        BY <1>1 DEF ConnId
      <3> QED
        BY <3>1, ConnFacts
    <2>2. Holds(p, d)
      BY DEF NetInv, NothingLost
    <2> QED
      BY <1>4, <1>7, <2>1, <2>2 DEF Holds, list
  <1> QED
    BY <1>2, <1>3, <1>5, <1>6, <1>8, <1>9, <1>10 DEF NetInv, c

\* The listener moves the first waiting connection to the list.
LEMMA AcceptSocket ==
    ASSUME NetInv, NEW n \in Node, backlog[n] # <<>>,
           backlog' = [backlog EXCEPT ![n] = Tail(@)],
           openConnections' = [openConnections EXCEPT ![n] = Append(@, Head(backlog[n]))],
           UNCHANGED <<conns, serverSocketFD>>
    PROVE  NetInv'
  <1> DEFINE queue == backlog[n]
             list == openConnections[n]
             c == Head(queue)
             rest == Tail(queue)
             more == Append(list, c)
  <1>1. queue \in Seq(ConnId) /\ list \in Seq(ConnId) /\ HeldAt(n) /\ conns \in Seq(Conn)
    BY DEF NetInv, NetTypes, HeldOK
  <1>2. /\ IsInjective(queue) /\ IsInjective(list)
        /\ Range(queue) \intersect Range(list) = {}
    BY <1>1 DEF HeldAt, QueueOK
  <1>3. /\ c \in ConnId /\ c \in Range(queue)
        /\ rest \in Seq(ConnId) /\ IsInjective(rest) /\ Range(rest) = Range(queue) \ {c}
    BY <1>1, <1>2, TailQueue
  <1>4. more \in Seq(ConnId) /\ IsInjective(more) /\ Range(more) = Range(list) \union {c}
    <2>1. c \notin Range(list)
      BY <1>2, <1>3
    <2> HIDE DEF c, list
    <2> QED
      BY <1>1, <1>2, <1>3, <2>1, AppendQueue
  <1>5. /\ \A p \in Node : backlog'[p] = IF p = n THEN rest ELSE backlog[p]
        /\ \A p \in Node : openConnections'[p] = IF p = n THEN more ELSE openConnections[p]
    BY DEF NetInv, NetTypes
  <1>6. \A q \in Range(queue) \union Range(list) : conns[q].server = n /\ n \in conns[q].ends
    BY <1>1 DEF HeldAt, QueueOK
  <1> HIDE DEF c, rest, more
  <1>7. NetTypes'
    BY <1>3, <1>4 DEF NetInv, NetTypes, ConnId, c, rest, more
  <1>8. HeldAt(n)'
    <2>1. backlog'[n] = rest /\ openConnections'[n] = more
      BY <1>5
    <2>2. QueueOK(n, backlog[n])' /\ QueueOK(n, openConnections[n])'
      BY <1>3, <1>4, <1>6, <2>1 DEF QueueOK
    <2>3. Range(rest) \intersect Range(more) = {}
      BY <1>2, <1>3, <1>4
    <2>4. Range(rest) \union Range(more) = Range(queue) \union Range(list)
      BY <1>3, <1>4
    <2> HIDE DEF queue, list
    <2> QED
      BY <1>1, <2>1, <2>2, <2>3, <2>4 DEF HeldAt, Peer, ConnId, queue, list
  <1>9. HeldOK'
    <2> SUFFICES ASSUME NEW p \in Node, p # n
                 PROVE  HeldAt(p)'
      BY <1>8 DEF HeldOK
    <2> QED
      BY <1>5 DEF NetInv, HeldOK, HeldAt, QueueOK, ConnId, Peer
  <1>10. NothingLost'
    <2> SUFFICES ASSUME NEW d \in ConnId, Established(d), NEW p \in conns[d].ends
                 PROVE  Holds(p, d)'
      BY DEF NothingLost, Established, ConnId
    <2>1. p \in Node
      <3>1. conns[d] \in Conn
        BY <1>1 DEF ConnId
      <3> QED
        BY <3>1, ConnFacts
    <2>2. Holds(p, d)
      BY DEF NetInv, NothingLost
    <2> QED
      BY <1>3, <1>4, <1>5, <2>1, <2>2 DEF Holds
  <1> QED
    BY <1>7, <1>9, <1>10 DEF NetInv

\* A member without a socket, or with one whose peer is gone, gets no socket.
LEMMA DropSocket ==
    ASSUME NetInv, NEW n \in Node, NEW m \in Node, NEW x \in {NoSocket, Unconnected},
           \A c \in ConnId : serverSocketFD[n][m] = c => ~Established(c),
           serverSocketFD' = [serverSocketFD EXCEPT ![n][m] = x],
           UNCHANGED <<conns, backlog, openConnections>>
    PROVE  NetInv'
  <1>1. \A p \in Node : \A q \in Node :
           serverSocketFD'[p][q] = IF p = n /\ q = m THEN x ELSE serverSocketFD[p][q]
    BY DEF NetInv, NetTypes
  <1>2. x \notin ConnId
    BY ConnectionAssumption DEF NetInv, NetTypes, ConnId, NoSocket, Unconnected
  <1>3. NetTypes'
    BY DEF NetInv, NetTypes, ConnId
  <1>4. HeldOK'
    <2> SUFFICES ASSUME NEW p \in Node
                 PROVE  HeldAt(p)'
      BY DEF HeldOK
    <2>1. HeldAt(p)
      BY DEF NetInv, HeldOK
    <2> QED
      BY <1>1, <1>2, <2>1 DEF HeldAt, QueueOK, ConnId, Peer
  <1>5. NothingLost'
    <2> SUFFICES ASSUME NEW d \in ConnId, Established(d), NEW p \in conns[d].ends
                 PROVE  Holds(p, d)'
      BY DEF NothingLost, Established, ConnId
    <2>1. p \in Node
      <3>1. conns[d] \in Conn
        BY DEF NetInv, NetTypes, ConnId
      <3> QED
        BY <3>1, ConnFacts
    <2>2. Holds(p, d)
      BY DEF NetInv, NothingLost
    <2> QED
      BY <1>1, <2>1, <2>2 DEF Holds
  <1> QED
    BY <1>3, <1>4, <1>5 DEF NetInv

\* connect(): one end becomes the member's socket, the other waits at the listener.
LEMMA ConnectSocket ==
    ASSUME NetInv, NEW n \in Node, NEW m \in Node, n # m, Len(conns) < MaxConnections,
           serverSocketFD[n][m] = NoSocket,
           conns' = Append(conns, NewConnection(n, m)),
           backlog' = [backlog EXCEPT ![m] = Append(@, Len(conns) + 1)],
           serverSocketFD' = [serverSocketFD EXCEPT ![n][m] = Len(conns) + 1],
           UNCHANGED openConnections
    PROVE  /\ NetInv' /\ ConnId' = ConnId \union {Len(conns) + 1}
           /\ \A c \in ConnId : conns'[c] = conns[c]
  <1>0. PICK c : c = Len(conns) + 1
    OBVIOUS
  <1> DEFINE queue == backlog[m]
             more == Append(queue, c)
  <1>1. conns \in Seq(Conn) /\ Len(conns) \in Nat /\ MaxConnections \in Nat
    BY ConnectionAssumption DEF NetInv, NetTypes
  <1>2. /\ NewConnection(n, m) \in Conn
        /\ NewConnection(n, m).client = n /\ NewConnection(n, m).server = m
        /\ NewConnection(n, m).ends = {n, m}
    BY NewConn
  <1>3. /\ c \in Nat /\ conns' \in Seq(Conn) /\ Len(conns') = c /\ c <= MaxConnections
        /\ conns'[c].client = n /\ conns'[c].server = m /\ conns'[c].ends = {n, m}
    <2> DEFINE new == NewConnection(n, m)
    <2> HIDE DEF new
    <2> QED
      BY <1>0, <1>1, <1>2 DEF new
  <1>4. \A d \in ConnId : conns'[d] = conns[d]
    BY <1>1 DEF ConnId
  <1>5. ConnId' = ConnId \union {c} /\ c \notin ConnId /\ c # NoSocket /\ c # Unconnected
    BY <1>0, <1>1, <1>3 DEF ConnId, NoSocket, Unconnected
  <1>6. /\ \A p \in Node : backlog[p] \in Seq(ConnId) /\ Range(backlog[p]) \subseteq ConnId
        /\ \A p \in Node : openConnections[p] \in Seq(ConnId)
                           /\ Range(openConnections[p]) \subseteq ConnId
    <2>1. \A p \in Node : backlog[p] \in Seq(ConnId) /\ openConnections[p] \in Seq(ConnId)
      BY DEF NetInv, NetTypes
    <2>2. \A q \in Seq(ConnId) : Range(q) \subseteq ConnId
      BY RangeFacts
    <2> QED
      BY <2>1, <2>2
  <1>7. \A q \in Seq(ConnId) : q \in Seq(ConnId')
    BY <1>5
  <1>8. IsInjective(queue)
    BY DEF NetInv, HeldOK, HeldAt, QueueOK
  <1>9. more \in Seq(ConnId') /\ IsInjective(more) /\ Range(more) = Range(queue) \union {c}
    <2>1. queue \in Seq(ConnId') /\ c \in ConnId' /\ c \notin Range(queue)
      BY <1>5, <1>6, <1>7
    <2> HIDE DEF queue
    <2> QED
      BY <1>8, <2>1, AppendQueue
  <1>10. /\ \A p \in Node : backlog'[p] = IF p = m THEN more ELSE backlog[p]
         /\ \A p \in Node : \A q \in Node :
              serverSocketFD'[p][q] = IF p = n /\ q = m THEN c ELSE serverSocketFD[p][q]
    BY <1>0 DEF NetInv, NetTypes
  <1> HIDE DEF more, queue
  <1>11. NetTypes'
    <2>1. backlog' \in [Node -> Seq(ConnId')] /\ openConnections' \in [Node -> Seq(ConnId')]
      BY <1>6, <1>7, <1>9, <1>10 DEF NetInv, NetTypes
    <2>2. serverSocketFD' \in [Node -> [Node -> ConnId' \union {NoSocket, Unconnected}]]
      BY <1>0, <1>5, <1>10 DEF NetInv, NetTypes
    <2> QED
      BY <1>3, <2>1, <2>2 DEF NetTypes
  <1>12. \A p : Peer(p, c)' = IF p = n THEN m ELSE n
    BY <1>3 DEF Peer
  <1>13. \A d \in ConnId : \A p : Peer(p, d)' = Peer(p, d) /\ Established(d)' = Established(d)
    BY <1>4 DEF Peer, Established
  <1>14. HeldOK'
    <2> SUFFICES ASSUME NEW p \in Node
                 PROVE  HeldAt(p)'
      BY DEF HeldOK
    <2>1. HeldAt(p)
      BY DEF NetInv, HeldOK
    <2>2. QueueOK(p, backlog[p])' /\ QueueOK(p, openConnections[p])'
      <3>1. QueueOK(p, backlog[p]) /\ QueueOK(p, openConnections[p])
        BY <2>1 DEF HeldAt
      <3>2. /\ IsInjective(backlog[p]) /\ IsInjective(openConnections[p])
            /\ \A d \in Range(backlog[p]) \union Range(openConnections[p]) :
                 conns'[d].server = p /\ p \in conns'[d].ends
        BY <1>4, <1>6, <3>1 DEF QueueOK
      <3>3. /\ IsInjective(backlog'[p])
            /\ \A d \in Range(backlog'[p]) : conns'[d].server = p /\ p \in conns'[d].ends
        <4>1. CASE p = m
          <5>1. backlog'[p] = more /\ Range(more) = Range(backlog[p]) \union {c}
            BY <1>9, <1>10, <4>1 DEF queue
          <5> QED
            BY <1>3, <1>9, <3>2, <4>1, <5>1
        <4>2. CASE p # m
          <5>1. backlog'[p] = backlog[p]
            BY <1>10, <4>2
          <5> QED
            BY <3>2, <5>1
        <4> QED
          BY <4>1, <4>2
      <3> QED
        BY <3>2, <3>3 DEF QueueOK
    <2>3. Range(backlog'[p]) \intersect Range(openConnections'[p]) = {}
      BY <1>5, <1>6, <1>9, <1>10, <2>1 DEF HeldAt, queue
    <2>4. ASSUME NEW q \in Node, serverSocketFD'[p][q] \in ConnId'
          PROVE  /\ p \in conns'[serverSocketFD'[p][q]].ends
                 /\ q # p /\ Peer(p, serverSocketFD[p][q])' = q
                 /\ serverSocketFD'[p][q] \notin Range(backlog'[p]) \union Range(openConnections'[p])
      <3>1. CASE p = n /\ q = m
        BY <1>3, <1>5, <1>6, <1>10, <1>12, <3>1
      <3>2. CASE ~(p = n /\ q = m)
        <4>1. serverSocketFD'[p][q] = serverSocketFD[p][q] /\ serverSocketFD[p][q] # c
          BY <1>1, <1>5, <1>10, <3>2, ConnectionAssumption DEF NetInv, NetTypes
        <4>2. serverSocketFD[p][q] \in ConnId
          BY <1>5, <2>4, <4>1
        <4> QED
          <5>1. /\ p \in conns[serverSocketFD[p][q]].ends
                /\ q # p /\ Peer(p, serverSocketFD[p][q]) = q
                /\ serverSocketFD[p][q] \notin Range(backlog[p]) \union Range(openConnections[p])
            BY <2>1, <4>2 DEF HeldAt
          <5>2. p \in conns'[serverSocketFD'[p][q]].ends /\ Peer(p, serverSocketFD[p][q])' = q
            BY <1>4, <4>1, <4>2, <5>1 DEF Peer
          <5>3. serverSocketFD'[p][q] \notin Range(backlog'[p]) \union Range(openConnections'[p])
            BY <1>9, <1>10, <4>1, <5>1 DEF queue
          <5> QED
            BY <5>1, <5>2, <5>3
      <3> QED
        BY <3>1, <3>2
    <2> QED
      BY <2>2, <2>3, <2>4 DEF HeldAt
  <1>15. NothingLost'
    <2> SUFFICES ASSUME NEW d \in ConnId', Established(d)', NEW p \in conns'[d].ends
                 PROVE  Holds(p, d)'
      BY DEF NothingLost
    <2>1. CASE d = c
      BY <1>3, <1>9, <1>10, <2>1 DEF Holds
    <2>2. CASE d \in ConnId
      <3>1. p \in conns[d].ends /\ Established(d)
        BY <1>4, <1>13, <2>2
      <3>2. p \in Node
        <4>1. conns[d] \in Conn
          BY <1>1, <2>2 DEF ConnId
        <4> QED
          BY <3>1, <4>1, ConnFacts
      <3>3. Holds(p, d)
        BY <2>2, <3>1 DEF NetInv, NothingLost
      <3>4. d # NoSocket
        BY <1>1, <2>2 DEF ConnId, NoSocket
      <3> QED
        BY <1>9, <1>10, <3>2, <3>3, <3>4 DEF Holds, queue
    <2> QED
      BY <1>5, <2>1, <2>2
  <1> QED
    BY <1>0, <1>4, <1>5, <1>11, <1>14, <1>15 DEF NetInv

\* What death does to the sockets: nothing is held any more, all ends are closed.
CutOff(n) ==
    /\ serverSocketFD' = [serverSocketFD EXCEPT ![n] = [m \in Node |-> NoSocket]]
    /\ openConnections' = [openConnections EXCEPT ![n] = <<>>]
    /\ backlog' = [backlog EXCEPT ![n] = <<>>]
    /\ conns' = [c \in ConnId |->
                    IF n \in conns[c].ends
                    THEN [conns[c] EXCEPT !.ends = @ \ {n}, !.data[n] = <<>>]
                    ELSE conns[c]]

LEMMA DieSockets ==
    ASSUME NetInv, NEW n \in Node, CutOff(n)
    PROVE  /\ NetInv' /\ ConnId' = ConnId
           /\ \A c \in ConnId : /\ conns'[c].client = conns[c].client
                                /\ conns'[c].server = conns[c].server
                                /\ conns'[c].ends = conns[c].ends \ {n}
  <1>1. conns \in Seq(Conn) /\ Len(conns) \in Nat
    BY DEF NetInv, NetTypes
  <1>2. ASSUME NEW d \in ConnId
        PROVE  /\ conns'[d] \in Conn
               /\ conns'[d].client = conns[d].client /\ conns'[d].server = conns[d].server
               /\ conns'[d].ends = conns[d].ends \ {n}
    <2>1. conns[d] \in Conn
      BY <1>1 DEF ConnId
    <2>2. CASE n \in conns[d].ends
      <3> DEFINE e == WithData(conns[d], n, <<>>, conns[d].ends \ {n})
      <3>1. conns'[d] = e
        <4>1. e = [conns[d] EXCEPT !.ends = @ \ {n}, !.data[n] = <<>>]
          BY <2>1 DEF Conn, WithData
        <4> QED
          BY <2>2, <4>1 DEF CutOff
      <3>2. <<>> \in Seq(Payload)
        OBVIOUS
      <3>3. e \in Conn /\ e.client = conns[d].client /\ e.server = conns[d].server
            /\ e.ends = conns[d].ends \ {n}
        <4> DEFINE rest == conns[d].ends \ {n}
        <4>1. rest \in SUBSET conns[d].ends
          OBVIOUS
        <4> HIDE DEF rest
        <4>2. /\ WithData(conns[d], n, <<>>, rest) \in Conn
              /\ WithData(conns[d], n, <<>>, rest).client = conns[d].client
              /\ WithData(conns[d], n, <<>>, rest).server = conns[d].server
              /\ WithData(conns[d], n, <<>>, rest).ends = rest
          BY <2>1, <2>2, <3>2, <4>1, DataConn
        <4> QED
          BY <4>2 DEF rest
      <3> QED
        BY <3>1, <3>3
    <2>3. CASE n \notin conns[d].ends
      BY <2>1, <2>3 DEF CutOff
    <2> QED
      BY <2>2, <2>3
  <1>3. conns' \in Seq(Conn) /\ Len(conns') = Len(conns)
    <2>1. conns' \in [ConnId -> Conn]
      BY <1>2 DEF CutOff
    <2> QED
      BY <1>1, <2>1, SeqFunction DEF ConnId
  <1>4. ConnId' = ConnId /\ NoSocket \notin ConnId
    BY <1>3 DEF ConnId, NoSocket
  <1>5. /\ \A p \in Node : backlog'[p] = IF p = n THEN <<>> ELSE backlog[p]
        /\ \A p \in Node : openConnections'[p] = IF p = n THEN <<>> ELSE openConnections[p]
        /\ \A p, q \in Node :
             serverSocketFD'[p][q] = IF p = n THEN NoSocket ELSE serverSocketFD[p][q]
    BY DEF NetInv, NetTypes, CutOff
  <1>6. NetTypes'
    <2>1. /\ backlog' \in [Node -> Seq(ConnId)] /\ openConnections' \in [Node -> Seq(ConnId)]
          /\ serverSocketFD' \in [Node -> [Node -> ConnId \union {NoSocket, Unconnected}]]
      <3>1. /\ backlog' \in [Node -> Seq(ConnId)] /\ openConnections' \in [Node -> Seq(ConnId)]
        <4>1. <<>> \in Seq(ConnId)
          OBVIOUS
        <4>2. /\ backlog \in [Node -> Seq(ConnId)] /\ openConnections \in [Node -> Seq(ConnId)]
              /\ openConnections' = [openConnections EXCEPT ![n] = <<>>]
              /\ backlog' = [backlog EXCEPT ![n] = <<>>]
          BY DEF NetInv, NetTypes, CutOff
        <4> QED
          BY <4>1, <4>2
      <3>2. serverSocketFD' \in [Node -> [Node -> ConnId \union {NoSocket, Unconnected}]]
        BY <1>5 DEF NetInv, NetTypes, CutOff
      <3> QED
        BY <3>1, <3>2
    <2>2. Len(conns') <= MaxConnections
      BY <1>3 DEF NetInv, NetTypes
    <2> QED
      BY <1>3, <1>4, <2>1, <2>2 DEF NetTypes
  <1>7. \A p \in Node : /\ Range(backlog[p]) \subseteq ConnId
                        /\ Range(openConnections[p]) \subseteq ConnId
    <2>1. \A p \in Node : backlog[p] \in Seq(ConnId) /\ openConnections[p] \in Seq(ConnId)
      BY DEF NetInv, NetTypes
    <2>2. \A q \in Seq(ConnId) : Range(q) \subseteq ConnId
      BY RangeFacts
    <2> QED
      BY <2>1, <2>2
  <1>8. HeldOK'
    <2> SUFFICES ASSUME NEW p \in Node
                 PROVE  HeldAt(p)'
      BY DEF HeldOK
    <2>1. CASE p = n
      <3>1. /\ backlog'[p] = <<>> /\ openConnections'[p] = <<>>
            /\ \A q \in Node : serverSocketFD'[p][q] \notin ConnId'
        BY <1>4, <1>5, <2>1
      <3>2. QueueOK(p, backlog[p])' /\ QueueOK(p, openConnections[p])'
            /\ Range(backlog'[p]) \intersect Range(openConnections'[p]) = {}
        BY <3>1, EmptyQueue DEF QueueOK
      <3> QED
        BY <3>1, <3>2 DEF HeldAt
    <2>2. CASE p # n
      <3>1. HeldAt(p)
        BY DEF NetInv, HeldOK
      <3>2. /\ backlog'[p] = backlog[p] /\ openConnections'[p] = openConnections[p]
            /\ \A q \in Node : serverSocketFD'[p][q] = serverSocketFD[p][q]
        BY <1>5, <2>2
      <3>3. /\ QueueOK(p, backlog[p]) /\ QueueOK(p, openConnections[p])
            /\ Range(backlog[p]) \intersect Range(openConnections[p]) = {}
            /\ \A q \in Node : serverSocketFD[p][q] \in ConnId =>
                 /\ p \in conns[serverSocketFD[p][q]].ends
                 /\ q # p /\ Peer(p, serverSocketFD[p][q]) = q
                 /\ serverSocketFD[p][q] \notin Range(backlog[p]) \union Range(openConnections[p])
        BY <3>1 DEF HeldAt
      <3>4. QueueOK(p, backlog[p])' /\ QueueOK(p, openConnections[p])'
        BY <1>2, <1>7, <2>2, <3>2, <3>3 DEF QueueOK
      <3>5. ASSUME NEW q \in Node, serverSocketFD'[p][q] \in ConnId
            PROVE  /\ p \in conns'[serverSocketFD'[p][q]].ends
                   /\ q # p /\ Peer(p, serverSocketFD[p][q])' = q
        BY <1>2, <2>2, <3>2, <3>3, <3>5 DEF Peer
      <3> QED
        BY <1>4, <3>2, <3>3, <3>4, <3>5 DEF HeldAt
    <2> QED
      BY <2>1, <2>2
  <1>9. NothingLost'
    <2> SUFFICES ASSUME NEW d \in ConnId, Established(d)', NEW p \in conns'[d].ends
                 PROVE  Holds(p, d)'
      BY <1>4 DEF NothingLost
    <2>1. conns[d] \in Conn
      BY <1>1 DEF ConnId
    <2>2. Established(d) /\ p \in conns[d].ends /\ p # n /\ p \in Node
      <3>1. conns'[d].ends = {conns[d].client, conns[d].server} /\ p \in conns'[d].ends
        BY <1>2 DEF Established
      <3>2. conns'[d].ends = conns[d].ends \ {n} /\ conns[d].ends \subseteq {conns[d].client, conns[d].server}
        BY <1>2, <2>1, ConnFacts
      <3>3. conns[d].client \in Node /\ conns[d].server \in Node
        BY <2>1, ConnFacts
      <3> QED
        BY <3>1, <3>2, <3>3 DEF Established
    <2>3. Holds(p, d)
      BY <2>2 DEF NetInv, NothingLost
    <2> QED
      BY <1>5, <2>2, <2>3 DEF Holds
  <1> QED
    BY <1>2, <1>4, <1>6, <1>8, <1>9 DEF NetInv

-----------------------------------------------------------------------------
(* Every action keeps the invariant *)

USE DEF processVars, mainVars, memberVars, netVars, historyVars

LEMMA QuietSockets ==
    ASSUME ConnInv, SameLinks, UNCHANGED <<backlog, openConnections, serverSocketFD>>
    PROVE  /\ NetInv' /\ ConnId' = ConnId
           /\ \A c \in ConnId : conns'[c].ends = conns[c].ends
  BY NetQuiet DEF ConnInv, SameLinks, ConnId

LEMMA QuietReceivers ==
    ASSUME ConnInv, ConnId' = ConnId, \A c \in ConnId : conns'[c].ends \subseteq conns[c].ends,
           UNCHANGED <<rpc, serverSocketFD>>
    PROVE  ReceiversOK'
  BY DEF ConnInv, ThreadInv, ReceiversOK

LEMMA DifferentNodes ==
    ASSUME NEW n \in Node, NEW m \in Node, MayAdd(n, m)
    PROVE  n # m
  <1>1. <<n, m>>[1] = n /\ <<n, m>>[2] = m
    OBVIOUS
  <1> QED
    BY <1>1, ConnectionAssumption DEF MayAdd

LEMMA NoSuchSocket ==
    NoSocket # Unconnected
  BY ConnectionAssumption DEF NoSocket, Unconnected

LEMMA StartKeeps ==
    ASSUME ConnInv, NEW n \in Node, Start(n)
    PROVE  ConnInv'
  <1>1. NetInv'
    BY KeptLinks, NetQuiet DEF ConnInv, NetInv, Start
  <1>2. ThreadTypes'
    BY ConnectionAssumption DEF ConnInv, ThreadInv, ThreadTypes, Start
  <1>3. MembersOK'
    BY ConnectionAssumption DEF ConnInv, ThreadInv, MembersOK, ThreadTypes, Start
  <1>4. ReceiversOK'
    BY DEF ConnInv, ThreadInv, ReceiversOK, ConnId, Start
  <1>5. MainOK'
    BY DEF ConnInv, ThreadInv, MainOK, ThreadTypes, Start
  <1> QED
    BY <1>1, <1>2, <1>3, <1>4, <1>5 DEF ConnInv, ThreadInv

LEMMA ListenKeeps ==
    ASSUME ConnInv, NEW n \in Node, Listen(n)
    PROVE  ConnInv'
  <1>1. NetInv'
    BY KeptLinks, NetQuiet DEF ConnInv, NetInv, Listen
  <1>2. ThreadTypes'
    BY ConnectionAssumption DEF ConnInv, ThreadInv, ThreadTypes, Listen
  <1>3. MembersOK'
    BY ConnectionAssumption DEF ConnInv, ThreadInv, MembersOK, ThreadTypes, Listen
  <1>4. ReceiversOK'
    BY DEF ConnInv, ThreadInv, ReceiversOK, ConnId, Listen
  <1>5. MainOK'
    BY DEF ConnInv, ThreadInv, MainOK, ThreadTypes, Listen
  <1> QED
    BY <1>1, <1>2, <1>3, <1>4, <1>5 DEF ConnInv, ThreadInv

LEMMA AddPassiveKeeps ==
    ASSUME ConnInv, NEW n \in Node, NEW m \in Node, AddPassive(n, m)
    PROVE  ConnInv'
  <1>1. NetInv'
    BY KeptLinks, NetQuiet DEF ConnInv, NetInv, AddPassive, MayAdd, Opened
  <1>2. ThreadTypes'
    BY ConnectionAssumption DEF ConnInv, ThreadInv, ThreadTypes, AddPassive, MayAdd, Opened
  <1>3. MembersOK'
    <2>1. \A p, q \in Node :
             stage'[p][q] = IF p = n /\ q = m THEN "opened" ELSE stage[p][q]
      BY DEF ConnInv, ThreadInv, ThreadTypes, AddPassive, MayAdd, Opened
    <2>2. \A p, q \in Node : rpc'[p][q] = IF p = n /\ q = m THEN "poll" ELSE rpc[p][q]
      BY DEF ConnInv, ThreadInv, ThreadTypes, AddPassive, MayAdd, Opened
    <2>3. /\ n # m /\ UNCHANGED serverSocketFD
          /\ serverSocketFD[n][m] # Unconnected
      BY DifferentNodes, NoSuchSocket DEF ConnInv, ThreadInv, MembersOK, AddPassive, MayAdd
    <2> QED
      BY <2>1, <2>2, <2>3 DEF ConnInv, ThreadInv, MembersOK
  <1>4. ReceiversOK'
    BY DEF ConnInv, ThreadInv, ReceiversOK, ConnId, AddPassive, MayAdd, Opened
  <1>5. MainOK'
    BY DEF ConnInv, ThreadInv, MainOK, ThreadTypes, AddPassive, MayAdd, Opened
  <1> QED
    BY <1>1, <1>2, <1>3, <1>4, <1>5 DEF ConnInv, ThreadInv

LEMMA SetupPortalKeeps ==
    ASSUME ConnInv, NEW n \in Node, SetupPortal(n)
    PROVE  ConnInv'
  <1>1. NetInv'
    BY KeptLinks, NetQuiet DEF ConnInv, NetInv, SetupPortal, Look
  <1>2. ThreadTypes'
    BY ConnectionAssumption DEF ConnInv, ThreadInv, ThreadTypes, SetupPortal, Look
  <1>3. MembersOK'
    <2>1. \A p, q \in Node :
             stage'[p][q] = IF p = n /\ q = target[n] THEN "portal" ELSE stage[p][q]
      BY DEF ConnInv, ThreadInv, ThreadTypes, SetupPortal, Look
    <2>2. stage[n][target[n]] \in {"opened", "portal"} /\ target[n] \in Node
      BY DEF ConnInv, ThreadInv, ThreadTypes, MainOK, SetupPortal
    <2>3. UNCHANGED <<rpc, serverSocketFD>>
      BY DEF SetupPortal
    <2> QED
      BY <2>1, <2>2, <2>3 DEF ConnInv, ThreadInv, MembersOK
  <1>4. ReceiversOK'
    BY DEF ConnInv, ThreadInv, ReceiversOK, ConnId, SetupPortal, Look
  <1>5. MainOK'
    BY DEF ConnInv, ThreadInv, MainOK, ThreadTypes, SetupPortal, Look
  <1> QED
    BY <1>1, <1>2, <1>3, <1>4, <1>5 DEF ConnInv, ThreadInv

LEMMA SubscribeKeeps ==
    ASSUME ConnInv, NEW n \in Node, Subscribe(n)
    PROVE  ConnInv'
  <1>1. NetInv'
    BY KeptLinks, NetQuiet DEF ConnInv, NetInv, Subscribe
  <1>2. ThreadTypes'
    BY ConnectionAssumption DEF ConnInv, ThreadInv, ThreadTypes, Subscribe
  <1>3. MembersOK'
    <2>1. \A p, q \in Node :
             stage'[p][q] = IF p = n /\ q = target[n] THEN "member" ELSE stage[p][q]
      BY DEF ConnInv, ThreadInv, ThreadTypes, Subscribe
    <2>2. stage[n][target[n]] \in {"opened", "portal"} /\ target[n] \in Node
      BY DEF ConnInv, ThreadInv, ThreadTypes, MainOK, Subscribe
    <2>3. UNCHANGED <<rpc, serverSocketFD>>
      BY DEF Subscribe
    <2> QED
      BY <2>1, <2>2, <2>3 DEF ConnInv, ThreadInv, MembersOK
  <1>4. ReceiversOK'
    BY DEF ConnInv, ThreadInv, ReceiversOK, ConnId, Subscribe
  <1>5. MainOK'
    BY DEF ConnInv, ThreadInv, MainOK, ThreadTypes, Subscribe
  <1> QED
    BY <1>1, <1>2, <1>3, <1>4, <1>5 DEF ConnInv, ThreadInv

LEMMA IsOnlineKeeps ==
    ASSUME ConnInv, NEW n \in Node, NEW m \in Node, IsOnline(n, m)
    PROVE  ConnInv'
  <1>1. NetInv'
    BY KeptLinks, NetQuiet DEF ConnInv, NetInv, IsOnline, Look
  <1>2. ThreadTypes'
    BY ConnectionAssumption DEF ConnInv, ThreadInv, ThreadTypes, IsOnline, Look
  <1>3. MembersOK'
    BY ConnectionAssumption DEF ConnInv, ThreadInv, MembersOK, ThreadTypes, IsOnline, Look
  <1>4. ReceiversOK'
    BY DEF ConnInv, ThreadInv, ReceiversOK, ConnId, IsOnline, Look
  <1>5. MainOK'
    BY DEF ConnInv, ThreadInv, MainOK, ThreadTypes, IsOnline, Look
  <1> QED
    BY <1>1, <1>2, <1>3, <1>4, <1>5 DEF ConnInv, ThreadInv

LEMMA SetOnlineKeeps ==
    ASSUME ConnInv, NEW n \in Node, SetOnline(n)
    PROVE  ConnInv'
  <1>1. NetInv'
    BY KeptLinks, NetQuiet DEF ConnInv, NetInv, SetOnline
  <1>2. ThreadTypes'
    BY ConnectionAssumption DEF ConnInv, ThreadInv, ThreadTypes, SetOnline
  <1>3. MembersOK'
    BY ConnectionAssumption DEF ConnInv, ThreadInv, MembersOK, ThreadTypes, SetOnline
  <1>4. ReceiversOK'
    BY DEF ConnInv, ThreadInv, ReceiversOK, ConnId, SetOnline
  <1>5. MainOK'
    BY DEF ConnInv, ThreadInv, MainOK, ThreadTypes, SetOnline
  <1> QED
    BY <1>1, <1>2, <1>3, <1>4, <1>5 DEF ConnInv, ThreadInv

LEMMA SendDataKeeps ==
    ASSUME ConnInv, NEW n \in Node, NEW m \in Node, SendData(n, m)
    PROVE  ConnInv'
  <1>1. NetInv'
    BY KeptLinks, NetQuiet DEF ConnInv, NetInv, SendData, Look
  <1>2. ThreadTypes'
    BY ConnectionAssumption DEF ConnInv, ThreadInv, ThreadTypes, SendData, Look
  <1>3. MembersOK'
    BY ConnectionAssumption DEF ConnInv, ThreadInv, MembersOK, ThreadTypes, SendData, Look
  <1>4. ReceiversOK'
    BY DEF ConnInv, ThreadInv, ReceiversOK, ConnId, SendData, Look
  <1>5. MainOK'
    <2>1. sent[n][m] <= MaxMessages
      BY ConnectionAssumption DEF ConnInv, ThreadInv, ThreadTypes, SendData
    <2> QED
      BY <2>1 DEF ConnInv, ThreadInv, MainOK, ThreadTypes, SendData, Look
  <1> QED
    BY <1>1, <1>2, <1>3, <1>4, <1>5 DEF ConnInv, ThreadInv

LEMMA PollKeeps ==
    ASSUME ConnInv, NEW n \in Node, NEW m \in Node, Poll(n, m)
    PROVE  ConnInv'
  <1>1. NetInv'
    BY KeptLinks, NetQuiet DEF ConnInv, NetInv, Poll
  <1>2. ThreadTypes'
    BY ConnectionAssumption DEF ConnInv, ThreadInv, ThreadTypes, Poll
  <1>3. MembersOK'
    BY ConnectionAssumption DEF ConnInv, ThreadInv, MembersOK, ThreadTypes, Poll
  <1>4. ReceiversOK'
    <2>1. \A p, q \in Node : rpc'[p][q] # rpc[p][q] =>
             p = n /\ q = m /\ (rpc'[p][q] = "recv" => serverSocketFD[n][m] # NoSocket)
                   /\ rpc'[p][q] \in {"recv", "lock"} /\ rpc[n][m] = "poll"
      BY DEF ConnInv, ThreadInv, ThreadTypes, Poll
    <2>2. UNCHANGED <<conns, serverSocketFD>>
      BY DEF Poll
    <2>3. \A p, q \in Node : serverSocketFD[p][q] \in ConnId \union {NoSocket, Unconnected}
      BY DEF ConnInv, NetInv, NetTypes
    <2>4. \A p, q \in Node : rpc[p][q] = "poll" => serverSocketFD[p][q] # Unconnected
      BY DEF ConnInv, ThreadInv, MembersOK
    <2> QED
      BY <2>1, <2>2, <2>3, <2>4 DEF ConnInv, ThreadInv, ReceiversOK, ConnId
  <1>5. MainOK'
    BY DEF ConnInv, ThreadInv, MainOK, ThreadTypes, Poll
  <1> QED
    BY <1>1, <1>2, <1>3, <1>4, <1>5 DEF ConnInv, ThreadInv

LEMMA PeerClosedKeeps ==
    ASSUME ConnInv, NEW n \in Node, NEW m \in Node, PeerClosed(n, m)
    PROVE  ConnInv'
  <1>1. NetInv'
    BY KeptLinks, NetQuiet DEF ConnInv, NetInv, PeerClosed, PeerGone
  <1>2. ThreadTypes'
    BY ConnectionAssumption DEF ConnInv, ThreadInv, ThreadTypes, PeerClosed, PeerGone
  <1>3. MembersOK'
    BY ConnectionAssumption DEF ConnInv, ThreadInv, MembersOK, ThreadTypes, PeerClosed, PeerGone
  <1>4. ReceiversOK'
    BY DEF ConnInv, ThreadInv, ReceiversOK, ConnId, PeerClosed, PeerGone
  <1>5. MainOK'
    BY DEF ConnInv, ThreadInv, MainOK, ThreadTypes, PeerClosed, PeerGone
  <1> QED
    BY <1>1, <1>2, <1>3, <1>4, <1>5 DEF ConnInv, ThreadInv

\* A socket that a receiver reads from is the end of a connection to its member.
LEMMA ReadersEnd ==
    ASSUME ConnInv, NEW n \in Node, NEW m \in Node, serverSocketFD[n][m] \in ConnId
    PROVE  /\ conns \in Seq(Conn) /\ conns[serverSocketFD[n][m]] \in Conn
           /\ n \in conns[serverSocketFD[n][m]].ends /\ n # m
           /\ Peer(n, serverSocketFD[n][m]) = m
           /\ Incoming(n, m) \in Seq(Payload)
  <1>1. conns \in Seq(Conn) /\ conns[serverSocketFD[n][m]] \in Conn
    BY DEF ConnInv, NetInv, NetTypes, ConnId
  <1>2. n \in conns[serverSocketFD[n][m]].ends /\ n # m /\ Peer(n, serverSocketFD[n][m]) = m
    BY DEF ConnInv, NetInv, HeldOK, HeldAt
  <1>3. Incoming(n, m) \in Seq(Payload)
    BY <1>1, <1>2, ConnFacts DEF Incoming
  <1> QED
    BY <1>1, <1>2, <1>3

LEMMA SendtoKeeps ==
    ASSUME ConnInv, NEW n \in Node, Sendto(n)
    PROVE  ConnInv'
  <1>1. /\ target[n] \in Node /\ stage[n][target[n]] = "member" /\ sent[n][target[n]] <= MaxMessages
        /\ n # target[n]
    BY DEF ConnInv, ThreadInv, ThreadTypes, MembersOK, MainOK, Sendto
  <1>2. SameLinks /\ sent' \in [Node -> [Node -> 0..(MaxMessages + 1)]]
    BY <1>1, ReadersEnd, TransmitLinks DEF ConnInv, NetInv, ThreadInv, Sendto
  <1>3. NetInv' /\ ConnId' = ConnId /\ \A c \in ConnId : conns'[c].ends = conns[c].ends
    BY <1>2, QuietSockets DEF Sendto
  <1>4. ThreadTypes'
    BY <1>2 DEF ConnInv, ThreadInv, ThreadTypes, Sendto
  <1>5. MembersOK'
    BY DEF ConnInv, ThreadInv, MembersOK, Sendto
  <1>6. ReceiversOK'
    BY <1>3, QuietReceivers DEF Sendto
  <1>7. MainOK'
    <2>1. \A p \in Node : mpc'[p] = (IF p = n THEN "idle" ELSE mpc[p]) /\ target' = target
      BY DEF ConnInv, ThreadInv, ThreadTypes, Sendto
    <2>2. \A p \in Node : p # n => \A q \in Node : sent'[p][q] = sent[p][q]
      BY DEF ConnInv, ThreadInv, ThreadTypes, Sendto, Transmit
    <2>3. UNCHANGED stage /\ \A p \in Node : target[p] \in Node
      BY DEF ConnInv, ThreadInv, ThreadTypes, Sendto
    <2> QED
      BY <2>1, <2>2, <2>3 DEF ConnInv, ThreadInv, MainOK
  <1> QED
    BY <1>3, <1>4, <1>5, <1>6, <1>7 DEF ConnInv, ThreadInv

LEMMA ReceiveKeeps ==
    ASSUME ConnInv, NEW n \in Node, NEW m \in Node, Receive(n, m)
    PROVE  ConnInv'
  <1>1. rpc[n][m] = "recv" /\ serverSocketFD[n][m] \in ConnId /\ Incoming(n, m) # <<>>
    BY DEF ConnInv, ThreadInv, ReceiversOK, Receive
  <1>2. /\ n \in conns[serverSocketFD[n][m]].ends /\ Incoming(n, m) \in Seq(Payload)
    BY <1>1, ReadersEnd
  <1>3. Tail(Incoming(n, m)) \in Seq(Payload) /\ Head(Incoming(n, m)) \in Payload
    BY <1>1, <1>2
  <1>4. SameLinks
    <2>1. conns' = [conns EXCEPT ![serverSocketFD[n][m]].data[n] = Tail(Incoming(n, m))]
      BY DEF Receive, Consume, Incoming
    <2> QED
      BY <1>1, <1>2, <1>3, <2>1, DataLinks DEF ConnInv, NetInv
  <1>5. NetInv' /\ ConnId' = ConnId /\ \A c \in ConnId : conns'[c].ends = conns[c].ends
    BY <1>4, QuietSockets DEF Receive
  <1>6. PICK x \in {"callback", "poll"} : rpc' = [rpc EXCEPT ![n][m] = x]
    BY DEF Receive
  <1>7. \A p, q \in Node : rpc'[p][q] = IF p = n /\ q = m THEN x ELSE rpc[p][q]
    BY <1>6 DEF ConnInv, ThreadInv, ThreadTypes
  <1>8. ThreadTypes'
    <2>1. heard' \in [Node -> [Node -> Seq(Payload)]]
      <3>1. heard \in [Node -> [Node -> Seq(Payload)]]
        BY DEF ConnInv, ThreadInv, ThreadTypes
      <3>2. heard[n][m] \in Seq(Payload)
        BY <3>1
      <3>3. Append(heard[n][m], Head(Incoming(n, m))) \in Seq(Payload)
        BY <1>3, <3>2
      <3> DEFINE more == Append(heard[n][m], Head(Incoming(n, m)))
      <3>4. CASE heard' = heard
        BY <3>1, <3>4
      <3>5. CASE heard' = [heard EXCEPT ![n][m] = more]
        <4> HIDE DEF more
        <4>1. more \in Seq(Payload)
          BY <3>3 DEF more
        <4> QED
          BY <3>1, <3>5, <4>1
      <3> QED
        BY <3>4, <3>5 DEF Receive
    <2>2. rpc' \in [Node -> [Node -> {"none", "poll", "lock", "recv", "callback", "closing"}]]
      BY <1>6 DEF ConnInv, ThreadInv, ThreadTypes
    <2>3. UNCHANGED <<life, starts, mpc, target, stage, online, sent>>
      BY DEF Receive
    <2> QED
      BY <2>1, <2>2, <2>3 DEF ConnInv, ThreadInv, ThreadTypes
  <1>9. MembersOK'
    BY <1>1, <1>7 DEF ConnInv, ThreadInv, MembersOK, Receive
  <1>10. ReceiversOK'
    BY <1>1, <1>5, <1>7 DEF ConnInv, ThreadInv, ReceiversOK, Receive
  <1>11. MainOK'
    BY DEF ConnInv, ThreadInv, MainOK, Receive
  <1> QED
    BY <1>5, <1>8, <1>9, <1>10, <1>11 DEF ConnInv, ThreadInv

LEMMA ResetKeeps ==
    ASSUME ConnInv, NEW n \in Node, NEW m \in Node, Reset(n, m)
    PROVE  ConnInv'
  <1>1. rpc[n][m] = "recv" /\ serverSocketFD[n][m] \in ConnId
    BY DEF ConnInv, ThreadInv, ReceiversOK, Reset
  <1>2. SameLinks
    <2>1. n \in conns[serverSocketFD[n][m]].ends /\ <<>> \in Seq(Payload)
      BY <1>1, ReadersEnd
    <2>2. conns' = [conns EXCEPT ![serverSocketFD[n][m]].data[n] = <<>>]
      BY DEF Reset
    <2> QED
      BY <1>1, <2>1, <2>2, DataLinks DEF ConnInv, NetInv
  <1>3. NetInv' /\ ConnId' = ConnId /\ \A c \in ConnId : conns'[c].ends = conns[c].ends
    BY <1>2, QuietSockets DEF Reset
  <1>4. ThreadTypes'
    BY DEF ConnInv, ThreadInv, ThreadTypes, Reset
  <1>5. \A p, q \in Node : rpc'[p][q] = IF p = n /\ q = m THEN "poll" ELSE rpc[p][q]
    BY DEF ConnInv, ThreadInv, ThreadTypes, Reset
  <1>6. MembersOK'
    BY <1>1, <1>5 DEF ConnInv, ThreadInv, MembersOK, Reset
  <1>7. ReceiversOK'
    BY <1>3, <1>5 DEF ConnInv, ThreadInv, ReceiversOK, Reset
  <1>8. MainOK'
    BY DEF ConnInv, ThreadInv, MainOK, Reset
  <1> QED
    BY <1>3, <1>4, <1>6, <1>7, <1>8 DEF ConnInv, ThreadInv

LEMMA CallbackKeeps ==
    ASSUME ConnInv, NEW n \in Node, NEW m \in Node, Callback(n, m)
    PROVE  ConnInv'
  <1>1. rpc[n][m] = "callback" /\ serverSocketFD[n][m] \in ConnId
    BY DEF ConnInv, ThreadInv, ReceiversOK, Callback
  <1>2. n # m /\ Peer(n, serverSocketFD[n][m]) = m
    BY <1>1, ReadersEnd
  <1>3. SameLinks /\ sent' \in [Node -> [Node -> 0..(MaxMessages + 1)]]
    <2>1. CASE sent[n][m] < MaxMessages /\ Transmit(n, m)
      <3>1. sent[n][m] <= MaxMessages
        BY <2>1, ConnectionAssumption DEF ConnInv, ThreadInv, ThreadTypes
      <3> QED
        BY <1>2, <2>1, <3>1, TransmitLinks DEF ConnInv, NetInv, ThreadInv
    <2>2. CASE UNCHANGED <<conns, sent>>
      BY <2>2, KeptLinks DEF ConnInv, NetInv, ThreadInv, ThreadTypes
    <2> QED
      BY <2>1, <2>2 DEF Callback
  <1>4. NetInv' /\ ConnId' = ConnId /\ \A c \in ConnId : conns'[c].ends = conns[c].ends
    BY <1>3, QuietSockets DEF Callback
  <1>5. \A p, q \in Node : rpc'[p][q] = IF p = n /\ q = m THEN "poll" ELSE rpc[p][q]
    BY DEF ConnInv, ThreadInv, ThreadTypes, Callback
  <1>6. ThreadTypes'
    <2>1. rpc' \in [Node -> [Node -> {"none", "poll", "lock", "recv", "callback", "closing"}]]
      BY DEF ConnInv, ThreadInv, ThreadTypes, Callback
    <2>2. UNCHANGED <<life, starts, mpc, target, stage, online, heard>>
      BY DEF Callback
    <2> QED
      BY <1>3, <2>1, <2>2 DEF ConnInv, ThreadInv, ThreadTypes
  <1>7. MembersOK'
    BY <1>1, <1>5 DEF ConnInv, ThreadInv, MembersOK, Callback
  <1>8. ReceiversOK'
    BY <1>4, <1>5 DEF ConnInv, ThreadInv, ReceiversOK, Callback
  <1>9. MainOK'
    <2>1. UNCHANGED <<mpc, target, stage>>
      BY DEF Callback
    <2>2. \A p, q \in Node : sent'[p][q] # sent[p][q] => sent'[p][q] <= MaxMessages
      <3>1. CASE sent[n][m] < MaxMessages /\ Transmit(n, m)
        <4>1. sent[n][m] \in Nat /\ sent[n][m] + 1 <= MaxMessages
          BY <3>1, ConnectionAssumption DEF ConnInv, ThreadInv, ThreadTypes
        <4>2. \A p, q \in Node :
                 sent'[p][q] = IF p = n /\ q = m THEN sent[n][m] + 1 ELSE sent[p][q]
          BY <3>1 DEF ConnInv, ThreadInv, ThreadTypes, Transmit
        <4> QED
          BY <4>1, <4>2
      <3>2. CASE UNCHANGED <<conns, sent>>
        BY <3>2
      <3> QED
        BY <3>1, <3>2 DEF Callback
    <2> QED
      BY <2>1, <2>2 DEF ConnInv, ThreadInv, ThreadTypes, MainOK
  <1> QED
    BY <1>4, <1>6, <1>7, <1>8, <1>9 DEF ConnInv, ThreadInv

\* The answer of isConnectionOpen under the lock, for a member that was added.
LEMMA AttachSockets ==
    ASSUME ConnInv, NEW n \in Node, NEW m \in Node, NEW found \in BOOLEAN,
           AttachUnderLock(n, m, found), UNCHANGED <<conns, backlog>>
    PROVE  /\ NetInv' /\ ConnId' = ConnId
           /\ found => serverSocketFD[n][m] = NoSocket /\ serverSocketFD'[n][m] \in ConnId
           /\ \A p, q \in Node :
                serverSocketFD'[p][q] # serverSocketFD[p][q] => p = n /\ q = m /\ found
  <1>1. ConnId' = ConnId
    BY DEF ConnId
  <1>2. CASE NeedsSocket(n, m) /\ found /\ Take(n, m)
    <2>1. PICK c \in ConnId : NetInv' /\ serverSocketFD' = [serverSocketFD EXCEPT ![n][m] = c]
      BY <1>2, TakeSocket DEF ConnInv
    <2>2. serverSocketFD \in [Node -> [Node -> ConnId \union {NoSocket, Unconnected}]]
      BY DEF ConnInv, NetInv, NetTypes
    <2>3. serverSocketFD[n][m] = NoSocket
      BY <1>2 DEF NeedsSocket
    <2>4. \A p, q \in Node :
             serverSocketFD'[p][q] = IF p = n /\ q = m THEN c ELSE serverSocketFD[p][q]
      BY <2>1, <2>2
    <2> QED
      BY <1>1, <1>2, <2>1, <2>3, <2>4
  <1>3. CASE ~NeedsSocket(n, m) /\ ~found /\ UNCHANGED <<serverSocketFD, openConnections>>
    BY <1>1, <1>3, KeptLinks, NetQuiet DEF ConnInv, NetInv
  <1> QED
    BY <1>2, <1>3 DEF AttachUnderLock

LEMMA AttachMembers ==
    ASSUME ConnInv, NEW n \in Node, NEW m \in Node, NEW found \in BOOLEAN,
           stage[n][m] # "absent",
           AttachUnderLock(n, m, found), UNCHANGED <<conns, backlog>>
    PROVE  /\ \A p, q \in Node :
                /\ stage[p][q] = "absent" => serverSocketFD'[p][q] = NoSocket
                /\ serverSocketFD'[p][q] = Unconnected => stage[p][q] = "broken"
           /\ \A p, q \in Node :
                /\ rpc[p][q] \in {"recv", "callback", "closing"} =>
                      serverSocketFD'[p][q] \in ConnId
                /\ rpc[p][q] = "closing" => q \notin conns[serverSocketFD'[p][q]].ends
  <1>1. /\ found => serverSocketFD[n][m] = NoSocket /\ serverSocketFD'[n][m] \in ConnId
        /\ \A p, q \in Node :
             serverSocketFD'[p][q] # serverSocketFD[p][q] => p = n /\ q = m /\ found
    BY AttachSockets
  <1>2. NoSocket \notin ConnId /\ Unconnected \notin ConnId
    BY ConnectionAssumption DEF ConnInv, NetInv, NetTypes, ConnId, NoSocket, Unconnected
  <1> QED
    BY <1>1, <1>2 DEF ConnInv, ThreadInv, MembersOK, ReceiversOK

LEMMA PortalLockKeeps ==
    ASSUME ConnInv, NEW n \in Node, PortalLock(n)
    PROVE  ConnInv'
  <1>1. target[n] \in Node /\ stage[n][target[n]] # "absent"
    BY DEF ConnInv, ThreadInv, ThreadTypes, MainOK, PortalLock
  <1>2. PICK found \in BOOLEAN : AttachUnderLock(n, target[n], found)
    BY DEF PortalLock
  <1>3. UNCHANGED <<conns, backlog>>
    BY DEF PortalLock
  <1>4. NetInv' /\ ConnId' = ConnId
    BY <1>1, <1>2, <1>3, AttachSockets
  <1>5. ThreadTypes'
    BY DEF ConnInv, ThreadInv, ThreadTypes, PortalLock
  <1>6. MembersOK'
    <2>1. UNCHANGED <<stage, rpc>>
      BY DEF PortalLock
    <2> QED
      BY <1>1, <1>2, <1>3, <2>1, AttachMembers DEF ConnInv, ThreadInv, MembersOK
  <1>7. ReceiversOK'
    <2>1. UNCHANGED rpc
      BY DEF PortalLock
    <2> QED
      BY <1>1, <1>2, <1>3, <1>4, <2>1, AttachMembers DEF ReceiversOK
  <1>8. MainOK'
    BY DEF ConnInv, ThreadInv, ThreadTypes, MainOK, PortalLock
  <1> QED
    BY <1>4, <1>5, <1>6, <1>7, <1>8 DEF ConnInv, ThreadInv

LEMMA CheckLockKeeps ==
    ASSUME ConnInv, NEW n \in Node, CheckLock(n)
    PROVE  ConnInv'
  <1>1. target[n] \in Node /\ stage[n][target[n]] # "absent"
    BY DEF ConnInv, ThreadInv, ThreadTypes, MainOK, CheckLock
  <1>2. PICK found \in BOOLEAN : AttachUnderLock(n, target[n], found)
    BY DEF CheckLock
  <1>3. UNCHANGED <<conns, backlog>>
    BY DEF CheckLock
  <1>4. NetInv' /\ ConnId' = ConnId
    BY <1>1, <1>2, <1>3, AttachSockets
  <1>5. ThreadTypes'
    BY DEF ConnInv, ThreadInv, ThreadTypes, CheckLock
  <1>6. MembersOK'
    <2>1. UNCHANGED <<stage, rpc>>
      BY DEF CheckLock
    <2> QED
      BY <1>1, <1>2, <1>3, <2>1, AttachMembers DEF ConnInv, ThreadInv, MembersOK
  <1>7. ReceiversOK'
    <2>1. UNCHANGED rpc
      BY DEF CheckLock
    <2> QED
      BY <1>1, <1>2, <1>3, <1>4, <2>1, AttachMembers DEF ReceiversOK
  <1>8. MainOK'
    BY DEF ConnInv, ThreadInv, ThreadTypes, MainOK, CheckLock
  <1> QED
    BY <1>4, <1>5, <1>6, <1>7, <1>8 DEF ConnInv, ThreadInv

LEMMA SendLockKeeps ==
    ASSUME ConnInv, NEW n \in Node, SendLock(n)
    PROVE  ConnInv'
  <1>1. target[n] \in Node /\ stage[n][target[n]] # "absent"
    BY DEF ConnInv, ThreadInv, ThreadTypes, MainOK, SendLock
  <1>2. PICK found \in BOOLEAN : AttachUnderLock(n, target[n], found)
    BY DEF SendLock
  <1>3. UNCHANGED <<conns, backlog>>
    BY DEF SendLock
  <1>4. NetInv' /\ ConnId' = ConnId
    BY <1>1, <1>2, <1>3, AttachSockets
  <1>5. ThreadTypes'
    BY DEF ConnInv, ThreadInv, ThreadTypes, SendLock
  <1>6. MembersOK'
    <2>1. UNCHANGED <<stage, rpc>>
      BY DEF SendLock
    <2> QED
      BY <1>1, <1>2, <1>3, <2>1, AttachMembers DEF ConnInv, ThreadInv, MembersOK
  <1>7. ReceiversOK'
    <2>1. UNCHANGED rpc
      BY DEF SendLock
    <2> QED
      BY <1>1, <1>2, <1>3, <1>4, <2>1, AttachMembers DEF ReceiversOK
  <1>8. MainOK'
    BY DEF ConnInv, ThreadInv, ThreadTypes, MainOK, SendLock
  <1> QED
    BY <1>4, <1>5, <1>6, <1>7, <1>8 DEF ConnInv, ThreadInv

LEMMA PollLockKeeps ==
    ASSUME ConnInv, NEW n \in Node, NEW m \in Node, PollLock(n, m)
    PROVE  ConnInv'
  <1>1. stage[n][m] \in {"opened", "portal", "member"} /\ rpc[n][m] = "lock"
    BY DEF ConnInv, ThreadInv, MembersOK, PollLock
  <1>2. PICK found \in BOOLEAN :
           /\ AttachUnderLock(n, m, found)
           /\ rpc' = [rpc EXCEPT ![n][m] = IF found THEN "recv" ELSE "poll"]
    BY DEF PollLock
  <1>3. UNCHANGED <<conns, backlog>>
    BY DEF PollLock
  <1>4. /\ NetInv' /\ ConnId' = ConnId
        /\ found => serverSocketFD'[n][m] \in ConnId
    BY <1>2, <1>3, AttachSockets
  <1>5. ThreadTypes'
    BY DEF ConnInv, ThreadInv, ThreadTypes, PollLock
  <1>6. \A p, q \in Node :
           rpc'[p][q] = IF p = n /\ q = m THEN IF found THEN "recv" ELSE "poll" ELSE rpc[p][q]
    BY <1>2 DEF ConnInv, ThreadInv, ThreadTypes
  <1>7. /\ \A p, q \in Node :
             /\ stage[p][q] = "absent" => serverSocketFD'[p][q] = NoSocket
             /\ serverSocketFD'[p][q] = Unconnected => stage[p][q] = "broken"
        /\ \A p, q \in Node :
             /\ rpc[p][q] \in {"recv", "callback", "closing"} => serverSocketFD'[p][q] \in ConnId
             /\ rpc[p][q] = "closing" => q \notin conns[serverSocketFD'[p][q]].ends
    BY <1>1, <1>2, <1>3, AttachMembers
  <1>8. MembersOK'
    <2>1. UNCHANGED stage
      BY DEF PollLock
    <2> QED
      BY <1>1, <1>6, <1>7, <2>1 DEF ConnInv, ThreadInv, MembersOK
  <1>9. ReceiversOK'
    BY <1>3, <1>4, <1>6, <1>7 DEF ReceiversOK
  <1>10. MainOK'
    BY DEF ConnInv, ThreadInv, MainOK, PollLock
  <1> QED
    BY <1>4, <1>5, <1>8, <1>9, <1>10 DEF ConnInv, ThreadInv

LEMMA AcceptKeeps ==
    ASSUME ConnInv, NEW n \in Node, Accept(n)
    PROVE  ConnInv'
  <1>1. NetInv'
    BY AcceptSocket DEF ConnInv, Accept
  <1>2. ThreadTypes'
    BY DEF ConnInv, ThreadInv, ThreadTypes, Accept
  <1>3. MembersOK'
    BY DEF ConnInv, ThreadInv, MembersOK, Accept
  <1>4. ReceiversOK'
    BY DEF ConnInv, ThreadInv, ReceiversOK, ConnId, Accept
  <1>5. MainOK'
    BY DEF ConnInv, ThreadInv, MainOK, Accept
  <1> QED
    BY <1>1, <1>2, <1>3, <1>4, <1>5 DEF ConnInv, ThreadInv

LEMMA AddConnectingKeeps ==
    ASSUME ConnInv, NEW n \in Node, NEW m \in Node, AddConnecting(n, m)
    PROVE  ConnInv'
  <1>1. /\ n # m /\ stage[n][m] = "absent" /\ serverSocketFD[n][m] = NoSocket /\ mpc[n] = "idle"
        /\ rpc[n][m] = "none"
    BY DifferentNodes DEF ConnInv, ThreadInv, ThreadTypes, MembersOK, AddConnecting, MayAdd
  <1>2. /\ NetInv' /\ ConnId' = ConnId \union {Len(conns) + 1}
        /\ \A c \in ConnId : conns'[c] = conns[c]
    BY <1>1, ConnectSocket DEF ConnInv, AddConnecting, Opened
  <1>3. ThreadTypes'
    BY DEF ConnInv, ThreadInv, ThreadTypes, AddConnecting, Opened
  <1>4. /\ \A p, q \in Node :
             stage'[p][q] = IF p = n /\ q = m THEN "opened" ELSE stage[p][q]
        /\ \A p, q \in Node : rpc'[p][q] = IF p = n /\ q = m THEN "poll" ELSE rpc[p][q]
    BY DEF ConnInv, ThreadInv, ThreadTypes, AddConnecting, Opened
  <1>5. /\ \A p, q \in Node : ~(p = n /\ q = m) => serverSocketFD'[p][q] = serverSocketFD[p][q]
        /\ serverSocketFD'[n][m] = Len(conns) + 1 /\ Len(conns) + 1 # Unconnected
    <2>1. Len(conns) \in Nat /\ Len(conns) < MaxConnections
      BY DEF ConnInv, NetInv, NetTypes, AddConnecting
    <2>2. Len(conns) + 1 # Unconnected
      BY <2>1, ConnectionAssumption DEF Unconnected
    <2>3. /\ serverSocketFD \in [Node -> [Node -> ConnId \union {NoSocket, Unconnected}]]
          /\ serverSocketFD' = [serverSocketFD EXCEPT ![n][m] = Len(conns) + 1]
      BY DEF ConnInv, NetInv, NetTypes, AddConnecting
    <2> QED
      BY <2>2, <2>3
  <1>6. MembersOK'
    BY <1>1, <1>4, <1>5 DEF ConnInv, ThreadInv, MembersOK
  <1>7. ReceiversOK'
    BY <1>2, <1>4, <1>5 DEF ConnInv, ThreadInv, ReceiversOK
  <1>8. MainOK'
    <2>1. /\ \A p \in Node : mpc'[p] = IF p = n THEN "portal" ELSE mpc[p]
          /\ \A p \in Node : target'[p] = IF p = n THEN m ELSE target[p]
          /\ \A p \in Node : target[p] \in Node
          /\ UNCHANGED sent
      BY DEF ConnInv, ThreadInv, ThreadTypes, AddConnecting, Opened
    <2> QED
      BY <1>1, <1>4, <2>1 DEF ConnInv, ThreadInv, MainOK
  <1> QED
    BY <1>2, <1>3, <1>6, <1>7, <1>8 DEF ConnInv, ThreadInv

LEMMA AddBrokenKeeps ==
    ASSUME ConnInv, NEW n \in Node, NEW m \in Node, AddBroken(n, m)
    PROVE  ConnInv'
  <1>1. /\ n # m /\ stage[n][m] = "absent" /\ serverSocketFD[n][m] = NoSocket /\ mpc[n] = "idle"
        /\ rpc[n][m] = "none"
    BY DifferentNodes DEF ConnInv, ThreadInv, ThreadTypes, MembersOK, AddBroken, MayAdd
  <1>2. NetInv'
    <2>1. NoSocket \notin ConnId
      BY DEF ConnId, NoSocket
    <2> QED
      BY <1>1, <2>1, DropSocket DEF ConnInv, AddBroken
  <1>3. ThreadTypes'
    BY DEF ConnInv, ThreadInv, ThreadTypes, AddBroken
  <1>4. /\ \A p, q \in Node :
             stage'[p][q] = IF p = n /\ q = m THEN "broken" ELSE stage[p][q]
        /\ \A p, q \in Node : serverSocketFD'[p][q] =
             IF p = n /\ q = m THEN Unconnected ELSE serverSocketFD[p][q]
        /\ UNCHANGED <<mpc, target, rpc, conns, sent>>
    BY DEF ConnInv, NetInv, NetTypes, ThreadInv, ThreadTypes, AddBroken
  <1>5. MembersOK'
    BY <1>1, <1>4 DEF ConnInv, ThreadInv, MembersOK
  <1>6. ReceiversOK'
    BY <1>1, <1>4 DEF ConnInv, ThreadInv, ReceiversOK, ConnId
  <1>7. MainOK'
    <2>1. \A p \in Node : p # n => stage'[p][target[p]] = stage[p][target[p]]
      BY <1>4 DEF ConnInv, ThreadInv, ThreadTypes
    <2> QED
      BY <1>1, <1>4, <2>1 DEF ConnInv, ThreadInv, MainOK
  <1> QED
    BY <1>2, <1>3, <1>5, <1>6, <1>7 DEF ConnInv, ThreadInv

LEMMA GiveUpKeeps ==
    ASSUME ConnInv, NEW n \in Node, NEW m \in Node, GiveUp(n, m)
    PROVE  ConnInv'
  <1>1. rpc[n][m] = "closing" /\ serverSocketFD[n][m] \in ConnId
        /\ m \notin conns[serverSocketFD[n][m]].ends
    BY DEF ConnInv, ThreadInv, ReceiversOK, GiveUp
  <1>2. ~Established(serverSocketFD[n][m])
    BY <1>1, ReadersEnd DEF Established, Peer
  <1>3. NetInv'
    BY <1>2, DropSocket DEF ConnInv, GiveUp, GivenUp
  <1>4. ThreadTypes'
    BY DEF ConnInv, ThreadInv, ThreadTypes, GiveUp, AfterGiveUp
  <1>5. /\ \A p, q \in Node : rpc'[p][q] = IF p = n /\ q = m THEN "poll" ELSE rpc[p][q]
        /\ \A p, q \in Node : serverSocketFD'[p][q] =
             IF p = n /\ q = m THEN NoSocket ELSE serverSocketFD[p][q]
        /\ UNCHANGED <<mpc, target, stage, conns, sent>>
    BY DEF ConnInv, NetInv, NetTypes, ThreadInv, ThreadTypes, GiveUp, GivenUp, AfterGiveUp
  <1>6. MembersOK'
    BY <1>1, <1>5, NoSuchSocket DEF ConnInv, ThreadInv, MembersOK
  <1>7. ReceiversOK'
    BY <1>5 DEF ConnInv, ThreadInv, ReceiversOK, ConnId
  <1>8. MainOK'
    BY <1>5 DEF ConnInv, ThreadInv, MainOK
  <1> QED
    BY <1>3, <1>4, <1>6, <1>7, <1>8 DEF ConnInv, ThreadInv

LEMMA DieKeeps ==
    ASSUME ConnInv, NEW n \in Node, Die(n)
    PROVE  ConnInv'
  <1>1. CutOff(n)
    BY DEF Die, CutOff
  <1>2. /\ NetInv' /\ ConnId' = ConnId
        /\ \A c \in ConnId : conns'[c].ends = conns[c].ends \ {n}
    BY <1>1, DieSockets DEF ConnInv
  <1>3. /\ life' = [life EXCEPT ![n] = "down"]
        /\ mpc' = [mpc EXCEPT ![n] = "idle"]
        /\ target' = [target EXCEPT ![n] = n]
        /\ rpc' = [rpc EXCEPT ![n] = [m \in Node |-> "none"]]
        /\ stage' = [stage EXCEPT ![n] = [m \in Node |-> "absent"]]
        /\ online' = [online EXCEPT ![n] = {}]
        /\ serverSocketFD' = [serverSocketFD EXCEPT ![n] = [m \in Node |-> NoSocket]]
        /\ UNCHANGED <<starts, sent, heard>>
    BY DEF Die
  <1>4. ThreadTypes'
    BY <1>3 DEF ConnInv, ThreadInv, ThreadTypes
  <1>5. \A p, q \in Node :
           /\ rpc'[p][q] = IF p = n THEN "none" ELSE rpc[p][q]
           /\ stage'[p][q] = IF p = n THEN "absent" ELSE stage[p][q]
           /\ serverSocketFD'[p][q] = IF p = n THEN NoSocket ELSE serverSocketFD[p][q]
    BY <1>3 DEF ConnInv, NetInv, NetTypes, ThreadInv, ThreadTypes
  <1>6. MembersOK'
    BY <1>5, NoSuchSocket DEF ConnInv, ThreadInv, MembersOK
  <1>7. ReceiversOK'
    BY <1>2, <1>5 DEF ConnInv, ThreadInv, ReceiversOK
  <1>8. MainOK'
    <2>1. \A p \in Node : /\ mpc'[p] = IF p = n THEN "idle" ELSE mpc[p]
                          /\ target'[p] = IF p = n THEN n ELSE target[p]
                          /\ target[p] \in Node
      BY <1>3 DEF ConnInv, ThreadInv, ThreadTypes
    <2> QED
      BY <1>3, <1>5, <2>1 DEF ConnInv, ThreadInv, MainOK
  <1> QED
    BY <1>2, <1>4, <1>6, <1>7, <1>8 DEF ConnInv, ThreadInv

LEMMA InitConn ==
    Init => ConnInv
  <1> SUFFICES ASSUME Init
               PROVE  ConnInv
    OBVIOUS
  <1>1. /\ conns = <<>> /\ Len(conns) = 0 /\ ConnId = {}
        /\ MaxConnections \in Nat /\ MaxStarts \in Nat /\ MaxMessages \in Nat
    BY ConnectionAssumption DEF Init, ConnId
  <1>2. NetTypes
    BY <1>1 DEF Init, NetTypes
  <1>3. HeldOK
    BY <1>1, EmptyQueue DEF Init, HeldOK, HeldAt, QueueOK
  <1>4. NothingLost
    BY <1>1 DEF NothingLost
  <1>5. ThreadTypes
    BY <1>1 DEF Init, ThreadTypes
  <1>6. MembersOK
    BY NoSuchSocket DEF Init, MembersOK
  <1>7. ReceiversOK
    BY DEF Init, ReceiversOK
  <1>8. MainOK
    BY DEF Init, MainOK
  <1> QED
    BY <1>2, <1>3, <1>4, <1>5, <1>6, <1>7, <1>8 DEF ConnInv, NetInv, ThreadInv

LEMMA StutterConn ==
    ASSUME ConnInv, UNCHANGED vars
    PROVE  ConnInv'
  <1>1. NetInv'
    BY KeptLinks, NetQuiet DEF ConnInv, NetInv, vars
  <1>2. ThreadTypes'
    BY DEF ConnInv, ThreadInv, ThreadTypes, vars
  <1>3. MembersOK' /\ ReceiversOK' /\ MainOK'
    BY DEF ConnInv, ThreadInv, MembersOK, ReceiversOK, MainOK, ConnId, vars
  <1> QED
    BY <1>1, <1>2, <1>3 DEF ConnInv, ThreadInv

LEMMA NextConn ==
    ASSUME ConnInv, Next
    PROVE  ConnInv'
  <1>1. PICK n \in Node :
           \/ Start(n) \/ Die(n) \/ Listener(n) \/ MainStep(n)
           \/ \E m \in Node : Call(n, m) \/ Receiver(n, m)
    BY DEF Next
  <1>2. CASE Start(n) \/ Die(n) \/ Listener(n)
    BY <1>2, StartKeeps, DieKeeps, ListenKeeps, AcceptKeeps DEF Listener
  <1>3. CASE MainStep(n)
    BY <1>3, SetupPortalKeeps, PortalLockKeeps, SubscribeKeeps, CheckLockKeeps, SetOnlineKeeps,
       SendLockKeeps, SendtoKeeps DEF MainStep
  <1>4. ASSUME NEW m \in Node, Call(n, m)
        PROVE  ConnInv'
    BY <1>4, AddPassiveKeeps, AddConnectingKeeps, AddBrokenKeeps, IsOnlineKeeps, SendDataKeeps
       DEF Call
  <1>5. ASSUME NEW m \in Node, Receiver(n, m)
        PROVE  ConnInv'
    BY <1>5, PollKeeps, PollLockKeeps, ReceiveKeeps, CallbackKeeps, ResetKeeps, PeerClosedKeeps,
       GiveUpKeeps DEF Receiver
  <1> QED
    BY <1>1, <1>2, <1>3, <1>4, <1>5

-----------------------------------------------------------------------------
(* The theorems *)

\* Of the connections: each is a connection between two different nodes; what a
\* process holds of them is its own open end, in one place only, and a member's
\* socket leads to that member; no end of an established connection gets lost.
THEOREM ConnectionInvariance == Spec => []ConnInv
  <1>1. ConnInv /\ [Next]_vars => ConnInv'
    BY NextConn, StutterConn
  <1> QED
    BY InitConn, <1>1, PTL DEF Spec

\* Every variable has values of its type, and a receiver that reads has a socket
\* that was connected once (bk_routine, isConnectionOpen).
THEOREM TypeCorrect == Spec => []TypeOK
  <1>1. ConnInv => TypeOK
    <2> SUFFICES ASSUME ConnInv
                 PROVE  TypeOK
      OBVIOUS
    <2>1. Len(conns) \in Nat /\ Len(conns) <= MaxConnections /\ MaxConnections \in Nat
      BY ConnectionAssumption DEF ConnInv, NetInv, NetTypes
    <2>2. ConnId \subseteq ConnIds
      BY <2>1 DEF ConnId, ConnIds
    <2>3. ConnId \union {NoSocket, Unconnected} \subseteq 0..Unconnected
      BY <2>1 DEF ConnId, NoSocket, Unconnected
    <2>4. \A q \in Seq(ConnId) : q \in Seq(ConnIds)
      BY <2>2
    <2>5. openConnections \in [Node -> Seq(ConnIds)] /\ backlog \in [Node -> Seq(ConnIds)]
      BY <2>4 DEF ConnInv, NetInv, NetTypes
    <2>6. serverSocketFD \in [Node -> [Node -> 0..Unconnected]]
      BY <2>3 DEF ConnInv, NetInv, NetTypes
    <2>7. ASSUME NEW c \in ConnId
          PROVE  /\ conns[c].client \in Node
                 /\ conns[c].server \in Node \ {conns[c].client}
                 /\ conns[c].ends \subseteq {conns[c].client, conns[c].server}
                 /\ conns[c].data \in
                       [{conns[c].client, conns[c].server} -> Seq(1..(MaxMessages + 1))]
      <3>1. conns[c] \in Conn
        BY DEF ConnInv, NetInv, NetTypes, ConnId
      <3> QED
        BY <3>1, ConnFacts DEF Payload
    <2> QED
      BY <2>1, <2>5, <2>6, <2>7 DEF ConnInv, ThreadInv, ThreadTypes, ReceiversOK, TypeOK, Payload
  <1> QED
    BY <1>1, ConnectionInvariance, PTL

\* An established connection has at each end exactly one holder, the listener's
\* queue, the list of accepted sockets or the member it leads to, whatever the
\* order in which two threads call isConnectionOpen for the same member.
THEOREM HeldOnce == Spec => []SocketHeldOnce
  <1>1. ASSUME ConnInv, NEW c \in ConnId, Established(c), NEW n \in conns[c].ends
        PROVE  /\ Cardinality(Holders(n, c)) = 1
               /\ \A m \in Node : serverSocketFD[n][m] = c => m = Peer(n, c)
    <2>1. n \in Node
      <3>1. conns[c] \in Conn
        BY <1>1 DEF ConnInv, NetInv, NetTypes, ConnId
      <3> QED
        BY <1>1, <3>1, ConnFacts
    <2>2. HeldAt(n) /\ Holds(n, c)
      BY <1>1, <2>1 DEF ConnInv, NetInv, HeldOK, NothingLost
    <2>3. \A m \in Node : serverSocketFD[n][m] = c =>
             /\ m = Peer(n, c)
             /\ c \notin Range(backlog[n]) \union Range(openConnections[n])
      BY <2>2 DEF HeldAt
    <2>4. /\ c \in Range(backlog[n]) <=> \E i \in DOMAIN backlog[n] : backlog[n][i] = c
          /\ c \in Range(openConnections[n]) <=>
                \E i \in DOMAIN openConnections[n] : openConnections[n][i] = c
      BY DEF Range
    <2>5. /\ \A i, j \in DOMAIN backlog[n] : backlog[n][i] = backlog[n][j] => i = j
          /\ \A i, j \in DOMAIN openConnections[n] :
               openConnections[n][i] = openConnections[n][j] => i = j
          /\ ~(c \in Range(backlog[n]) /\ c \in Range(openConnections[n]))
      BY <2>2 DEF HeldAt, QueueOK, IsInjective
    <2>6. \E h : Holders(n, c) = {h}
      <3>1. CASE c \in Range(backlog[n])
        <4>1. PICK i \in DOMAIN backlog[n] : backlog[n][i] = c
          BY <2>4, <3>1
        <4>2. Holders(n, c) = {<<"backlog", i>>}
          BY <2>3, <2>4, <2>5, <3>1, <4>1 DEF Holders
        <4> QED
          BY <4>2
      <3>2. CASE c \in Range(openConnections[n])
        <4>1. PICK i \in DOMAIN openConnections[n] : openConnections[n][i] = c
          BY <2>4, <3>2
        <4>2. Holders(n, c) = {<<"list", i>>}
          BY <2>3, <2>4, <2>5, <3>2, <4>1 DEF Holders
        <4> QED
          BY <4>2
      <3>3. CASE \E m \in Node : serverSocketFD[n][m] = c
        <4>1. PICK m \in Node : serverSocketFD[n][m] = c
          BY <3>3
        <4>2. Holders(n, c) = {<<"member", m>>}
          BY <2>3, <2>4, <4>1 DEF Holders
        <4> QED
          BY <4>2
      <3> QED
        BY <2>2, <3>1, <3>2, <3>3 DEF Holds
    <2> QED
      BY <2>3, <2>6, FS_Singleton
  <1>2. ConnInv => SocketHeldOnce
    BY <1>1 DEF SocketHeldOnce
  <1> QED
    BY <1>2, ConnectionInvariance, PTL

\* Who connects, by the comparison of doNotConnect.  The comment in init wants one
\* of the two to connect, the one with the smaller address.  That is so if the
\* addresses differ in exactly one of the positions that both have; if one begins
\* with the other, both connect; if each is greater somewhere, neither does.
THEOREM WhoConnects ==
    ASSUME NEW n \in Node, NEW m \in Node, NEW Both,
           Both = DOMAIN HostName[n] \intersect DOMAIN HostName[m]
    PROVE  /\ (\E i \in Both : /\ HostName[n][i] # HostName[m][i]
                              /\ \A j \in Both \ {i} : HostName[n][j] = HostName[m][j])
                => doNotConnect(n, m) # doNotConnect(m, n)
           /\ (\A i \in Both : HostName[n][i] = HostName[m][i])
                => ~doNotConnect(n, m) /\ ~doNotConnect(m, n)
           /\ (\E i, j \in Both : HostName[n][i] > HostName[m][i] /\ HostName[m][j] > HostName[n][j])
                => doNotConnect(n, m) /\ doNotConnect(m, n)
  <1>1. \A i \in Both : HostName[n][i] \in Nat /\ HostName[m][i] \in Nat
    BY ConnectionAssumption
  <1>2. /\ doNotConnect(n, m) <=> \E i \in Both : HostName[n][i] > HostName[m][i]
        /\ doNotConnect(m, n) <=> \E i \in Both : HostName[m][i] > HostName[n][i]
    BY DEF doNotConnect
  <1>3. ASSUME NEW i \in Both, HostName[n][i] # HostName[m][i],
               \A j \in Both \ {i} : HostName[n][j] = HostName[m][j]
        PROVE  doNotConnect(n, m) # doNotConnect(m, n)
    <2>1. CASE HostName[n][i] > HostName[m][i]
      BY <1>1, <1>2, <1>3, <2>1
    <2>2. CASE HostName[m][i] > HostName[n][i]
      BY <1>1, <1>2, <1>3, <2>2
    <2> QED
      BY <1>1, <1>3, <2>1, <2>2
  <1>4. ASSUME \A i \in Both : HostName[n][i] = HostName[m][i]
        PROVE  ~doNotConnect(n, m) /\ ~doNotConnect(m, n)
    BY <1>1, <1>2, <1>4
  <1> QED
    BY <1>2, <1>3, <1>4

=============================================================================
