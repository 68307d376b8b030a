------------------------- MODULE MessagePath_proofs -------------------------
(***************************************************************************)
(* Proofs about MessagePath: the request queue and the cutting of the      *)
(* stream, for any number of threads and packets and any segments.         *)
(***************************************************************************)
EXTENDS MessagePath, SequenceTheorems, FiniteSetTheorems, WellFoundedInduction, TLAPS

-----------------------------------------------------------------------------
(* The inductive invariant *)

\* The packets made so far, and the entry nobody made.
Made == 0..Len(count)

PathTypes ==
    /\ alive \in BOOLEAN /\ overlapped \in BOOLEAN /\ split \in BOOLEAN
    /\ pc \in [Sender -> {"idle", "place", "end", "move", "test", "pop", "sendto", "free"}]
    /\ count \in Seq(PerPacket) /\ Len(count) <= MaxPackets
    /\ entry \in [Sender -> Made] /\ own \in [Sender -> Made]
    /\ pushing \in [Sender -> Nat \ {0}]
    /\ slot \in [Slot -> Made]
    /\ head \in Nat \ {0} /\ tail \in Nat \ {0}
    /\ freed \subseteq Made \ {Wild}
    /\ stream \in Seq(Made)
    /\ acked \in Seq(Made)
    /\ arrived \in Nat
    /\ rx \in {"peek", "read", "lost"}

\* The end of the deque does not get ahead of the packets made: a thread that is
\* in the middle of a push has not moved it yet.
InPush == {t \in Sender : pc[t] \in {"place", "end", "move"}}

TailOK ==
    /\ tail + Cardinality(InPush) <= Len(count) + 1
    /\ \A t \in Sender :
          pc[t] = "move" => pushing[t] + Cardinality(InPush) <= Len(count) + 1

\* What a thread that is alone in sendData has done to the queue.
Serving(t) ==
    /\ own[t] = Len(count) /\ own[t] # Wild /\ own[t] \notin freed
    /\ pc[t] \in {"place", "end", "move", "sendto", "free"} => head = tail /\ entry[t] = own[t]
    /\ pc[t] \in {"end", "move"} => slot[tail] = own[t]
    /\ pc[t] = "move" => pushing[t] = tail
    /\ pc[t] \in {"test", "pop"} => tail = head + 1 /\ slot[head] = own[t]

SoleOK ==
    /\ alive
    /\ \A t, u \in Sender : pc[t] # "idle" /\ pc[u] # "idle" => t = u
    /\ Alone => head = tail
    /\ \A t \in Sender : pc[t] # "idle" => Serving(t)

\* f[i]: the bytes of the first i packets of the stream.
Sums(f) ==
    /\ f \in [0..Len(stream) -> Int]
    /\ f[0] = 0
    /\ \A i \in 1..Len(stream) : f[i] = f[i - 1] + Size(stream[i])

StreamOK ==
    /\ \E f : Sums(f) /\ arrived <= f[Len(stream)]
    /\ rx = "read" => stream # <<>> /\ Head(stream) # Wild

\* g[i]: the messages of the first i packets that were acknowledged.
Piece(p) == [j \in 1..count[p] |-> <<p, j>>]

Joined(g) ==
    /\ g \in [0..Len(acked) -> Seq(Nat \X Nat)]
    /\ g[0] = <<>>
    /\ \A i \in 1..Len(acked) : g[i] = g[i - 1] \o Piece(acked[i])
    /\ \A i \in 0..Len(acked) : IsPrefix(g[i], g[Len(acked)])

\* The stream is what was acknowledged and not read, and what was read was heard.
HeardOK ==
    /\ \A i \in 1..Len(acked) : acked[i] # Wild
    /\ \E g, k : /\ Joined(g) /\ k \in 0..Len(acked)
                 /\ Len(stream) = Len(acked) - k
                 /\ \A i \in 1..Len(stream) : stream[i] = acked[k + i]
                 /\ heard = g[k]

PathInv ==
    /\ PathTypes /\ TailOK /\ StreamOK
    /\ ~overlapped => SoleOK
    /\ ~overlapped /\ ~split => HeardOK

USE DEF threadVars, queueVars, peerVars

-----------------------------------------------------------------------------
(* Least elements, and functions that are defined recursively *)

LEMMA LeastElement ==
    ASSUME NEW S \in SUBSET Nat, S # {}
    PROVE  \E x \in S : \A y \in S : x <= y
  <1> DEFINE R == OpToRel(<, Nat)
  <1>1. \A x, y \in Nat : <<y, x>> \notin R => x =< y
    BY DEF OpToRel
  <1>2. \E x \in S : \A y \in S : <<y, x>> \notin R
    BY NatLessThanWellFounded, WFMin, Zenon
  <1> QED
    BY <1>1, <1>2

\* Two functions on 0..n that begin alike and go on alike are the same.
LEMMA SameRecursion ==
    ASSUME NEW n \in Nat, NEW b, NEW f,
           b[0] = f[0],
           \A i \in 1..n : b[i - 1] = f[i - 1] => b[i] = f[i]
    PROVE  \A i \in 0..n : b[i] = f[i]
  <1> SUFFICES ASSUME NEW j \in 0..n, b[j] # f[j]
               PROVE  FALSE
    OBVIOUS
  <1> DEFINE S == {i \in 0..n : b[i] # f[i]}
  <1>1. S \in SUBSET Nat /\ S # {}
    OBVIOUS
  <1>2. PICK x \in S : \A y \in S : x <= y
    BY <1>1, LeastElement
  <1>3. x \in 0..n /\ b[x] # f[x]
    OBVIOUS
  <1>4. x # 0
    BY <1>3
  <1>5. x \in 1..n /\ x - 1 \in 0..n /\ x - 1 \notin S
    BY <1>2, <1>3, <1>4
  <1>6. b[x - 1] = f[x - 1]
    BY <1>5
  <1> QED
    BY <1>3, <1>5, <1>6

-----------------------------------------------------------------------------
(* Lengths *)

LEMMA LengthFacts ==
    \A k \in 0..4 : totalLength[k] = HeaderSize + k * MessageSize
  <1> DEFINE F(f) == [k \in 0..4 |-> IF k = 0 THEN HeaderSize ELSE Added(f[k - 1])]
             g == [k \in 0..4 |-> HeaderSize + k * MessageSize]
  <1>1. \A k \in 0..4 : k # 0 => Added(HeaderSize + (k - 1) * MessageSize) = HeaderSize + k * MessageSize
    BY DEF Added, HeaderSize, MessageSize
  <1>2. g = F(g)
    <2>1. \A k \in 0..4 : (IF k = 0 THEN HeaderSize ELSE Added(g[k - 1])) = HeaderSize + k * MessageSize
      <3> SUFFICES ASSUME NEW k \in 0..4
                   PROVE  (IF k = 0 THEN HeaderSize ELSE Added(g[k - 1])) = HeaderSize + k * MessageSize
        OBVIOUS
      <3>1. CASE k = 0
        BY <3>1 DEF HeaderSize, MessageSize
      <3>2. CASE k # 0
        <4>1. k - 1 \in 0..4
          BY <3>2
        <4>2. g[k - 1] = HeaderSize + (k - 1) * MessageSize
          BY <4>1
        <4> QED
          BY <1>1, <3>2, <4>2
      <3> QED
        BY <3>1, <3>2
    <2> QED
      BY <2>1
  <1>3. totalLength = CHOOSE f : f = F(f)
    BY DEF totalLength
  <1>4. totalLength = F(totalLength)
    BY <1>2, <1>3
  <1> HIDE DEF F, g
  <1>5. totalLength[0] = HeaderSize /\ \A k \in 1..4 : totalLength[k] = Added(totalLength[k - 1])
    BY <1>4 DEF F
  <1>6. \A k \in 0..4 : g[k] = HeaderSize + k * MessageSize
    BY DEF g
  <1>7. g[0] = totalLength[0]
    BY <1>5, <1>6 DEF HeaderSize, MessageSize
  <1>8. \A k \in 1..4 : totalLength[k - 1] = g[k - 1] => totalLength[k] = g[k]
    BY <1>1, <1>5, <1>6
  <1> QED
    BY <1>6, <1>7, <1>8, SameRecursion


LEMMA PathFacts ==
    ASSUME PathTypes
    PROVE  /\ Len(count) \in Nat /\ Len(count) <= MaxPackets /\ MaxPackets \in Nat
           /\ Made = 0..Len(count) /\ Made \subseteq Packet \union {Wild} /\ Made \ {Wild} \subseteq Packet
           /\ Wild \in Made /\ Wild = 0
           /\ \A t \in Sender : entry[t] \in Made /\ own[t] \in Made /\ pushing[t] \in Nat \ {0}
           /\ \A i \in Slot : slot[i] \in Made
           /\ Len(stream) \in Nat /\ \A i \in 1..Len(stream) : stream[i] \in Made
           /\ Len(acked) \in Nat /\ \A i \in 1..Len(acked) : acked[i] \in Made
  BY PathAssumption DEF PathTypes, Made, Packet, Wild

\* The messages of a packet are the ones that were added, and they fit the buffer.
LEMMA SizeFacts ==
    ASSUME PathTypes, NEW p \in 1..Len(count)
    PROVE  /\ count[p] \in PerPacket /\ count[p] \in 1..4
           /\ Length(p) \in Nat /\ Length(p) >= HeaderSize /\ Length(p) <= Buffer
           /\ numberOfDdfsMessages(Length(p)) = count[p]
           /\ Messages(p) = Piece(p)
  <1>1. PICK k \in PerPacket : k = count[p]
    BY DEF PathTypes
  <1>2. k \in 1..4
    BY PathAssumption
  <1>3. Length(p) = HeaderSize + k * MessageSize
    BY <1>1, <1>2, LengthFacts DEF Length
  <1>4. k = 1 \/ k = 2 \/ k = 3 \/ k = 4
    BY <1>2
  <1>5. /\ HeaderSize + k * MessageSize \in Nat
        /\ HeaderSize + k * MessageSize >= HeaderSize /\ HeaderSize + k * MessageSize <= Buffer
    BY <1>4 DEF HeaderSize, MessageSize, Buffer
  <1>6. numberOfDdfsMessages(HeaderSize + k * MessageSize) = k
    BY <1>4 DEF HeaderSize, MessageSize, numberOfDdfsMessages
  <1>7. numberOfDdfsMessages(Length(p)) = count[p]
    BY <1>1, <1>3, <1>6
  <1>8. Messages(p) = Piece(p)
    BY <1>7 DEF Messages, Piece
  <1> QED
    BY <1>1, <1>2, <1>3, <1>5, <1>7, <1>8

LEMMA SizeIsInt ==
    ASSUME PathTypes, NEW p \in Made
    PROVE  Size(p) \in Int /\ (p # Wild => p \in 1..Len(count) /\ Size(p) = Length(p))
  <1>1. CASE p = Wild
    BY <1>1 DEF Size, HeaderSize
  <1>2. CASE p # Wild
    <2>1. p \in 1..Len(count)
      BY <1>2, PathFacts DEF Made
    <2> QED
      BY <1>2, <2>1, SizeFacts DEF Size
  <1> QED
    BY <1>1, <1>2

\* Total is what any sums of the packets' lengths come to.
LEMMA TotalIs ==
    ASSUME PathTypes, NEW f, Sums(f)
    PROVE  Total = f[Len(stream)] /\ Total \in Int
  <1>1. PICK n \in Nat : n = Len(stream)
    BY PathFacts
  <1> DEFINE F(b) == [i \in 0..n |-> IF i = 0 THEN 0 ELSE b[i - 1] + Size(stream[i])]
             bytes == CHOOSE b : b = F(b)
  <1>2. Total = bytes[n]
    BY <1>1 DEF Total
  <1>3. f = F(f)
    <2>1. f \in [0..n -> Int] /\ f[0] = 0 /\ \A i \in 1..n : f[i] = f[i - 1] + Size(stream[i])
      BY <1>1 DEF Sums
    <2>2. \A i \in 0..n : f[i] = IF i = 0 THEN 0 ELSE f[i - 1] + Size(stream[i])
      BY <2>1
    <2> QED
      BY <2>1, <2>2
  <1>4. bytes = F(bytes)
    BY <1>3
  <1>5. bytes[0] = 0 /\ \A i \in 1..n : bytes[i] = bytes[i - 1] + Size(stream[i])
    <2> HIDE DEF bytes
    <2>1. \A i \in 0..n : bytes[i] = IF i = 0 THEN 0 ELSE bytes[i - 1] + Size(stream[i])
      BY <1>4
    <2> QED
      BY <2>1
  <1> HIDE DEF bytes, F
  <1>6. f \in [0..n -> Int] /\ f[0] = 0 /\ \A i \in 1..n : f[i] = f[i - 1] + Size(stream[i])
    BY <1>1 DEF Sums
  <1>7. \A i \in 0..n : bytes[i] = f[i]
    <2>1. bytes[0] = f[0] /\ \A i \in 1..n : bytes[i - 1] = f[i - 1] => bytes[i] = f[i]
      BY <1>5, <1>6
    <2> QED
      BY <2>1, SameRecursion
  <1>8. n \in 0..n
    OBVIOUS
  <1> QED
    BY <1>1, <1>2, <1>6, <1>7, <1>8

LEMMA InitPath ==
    Init => PathInv
  <1> SUFFICES ASSUME Init
               PROVE  PathInv
    OBVIOUS
  <1>1. Len(count) = 0 /\ Len(stream) = 0 /\ Len(acked) = 0 /\ Made = {0} /\ Wild = 0
    BY DEF Init, Made, Wild
  <1>2. PathTypes
    <2>1. count \in Seq(PerPacket) /\ stream \in Seq(Made) /\ acked \in Seq(Made)
      BY DEF Init
    <2>2. Len(count) <= MaxPackets
      BY <1>1, PathAssumption
    <2>3. /\ entry \in [Sender -> Made] /\ own \in [Sender -> Made] /\ slot \in [Slot -> Made]
          /\ pushing \in [Sender -> Nat \ {0}] /\ freed \subseteq Made \ {Wild}
          /\ head \in Nat \ {0} /\ tail \in Nat \ {0} /\ arrived \in Nat
      BY <1>1 DEF Init
    <2>4. /\ alive \in BOOLEAN /\ overlapped \in BOOLEAN /\ split \in BOOLEAN
          /\ pc \in [Sender -> {"idle", "place", "end", "move", "test", "pop", "sendto", "free"}]
          /\ rx \in {"peek", "read", "lost"}
      BY DEF Init
    <2> QED
      BY <2>1, <2>2, <2>3, <2>4 DEF PathTypes
  <1>3. \A t \in Sender : pc[t] = "idle"
    BY DEF Init
  <1>4. TailOK
    <2>1. InPush = {}
      BY <1>3 DEF InPush
    <2>2. Cardinality(InPush) = 0
      BY <2>1, FS_EmptySet
    <2> QED
      BY <1>1, <1>3, <2>2 DEF Init, TailOK
  <1>5. StreamOK
    <2>1. PICK f : f = [i \in 0..0 |-> 0]
      OBVIOUS
    <2>2. Sums(f)
      BY <1>1, <2>1 DEF Sums
    <2>3. arrived <= f[Len(stream)]
      BY <1>1, <2>1 DEF Init
    <2> QED
      BY <2>2, <2>3 DEF Init, StreamOK
  <1>6. SoleOK
    BY <1>3 DEF Init, SoleOK
  <1>7. HeardOK
    <2>1. PICK g : g = [i \in 0..0 |-> <<>>]
      OBVIOUS
    <2>2. g \in [0..0 -> Seq(Nat \X Nat)] /\ g[0] = <<>>
      BY <2>1
    <2>3. IsPrefix(<<>>, <<>>)
      BY DEF IsPrefix
    <2>4. Joined(g)
      BY <1>1, <2>2, <2>3 DEF Joined
    <2>5. heard = g[0] /\ 0 \in 0..Len(acked) /\ Len(stream) = Len(acked) - 0
      BY <1>1, <2>2 DEF Init
    <2> QED
      BY <1>1, <2>4, <2>5 DEF HeardOK
  <1> QED
    BY <1>2, <1>4, <1>5, <1>6, <1>7 DEF PathInv


-----------------------------------------------------------------------------
(* What a step leaves alone *)

\* New packets change neither the stream nor what was heard.
LEMMA PeerFrame ==
    ASSUME PathInv, UNCHANGED <<peerVars, acked>>,
           \A p \in 1..Len(count) : count'[p] = count[p]
    PROVE  StreamOK' /\ (HeardOK => HeardOK')
  <1>1. PathTypes
    BY DEF PathInv
  <1>2. \A i \in 1..Len(stream) : Size(stream[i])' = Size(stream[i])
    <2> SUFFICES ASSUME NEW i \in 1..Len(stream)
                 PROVE  Size(stream[i])' = Size(stream[i])
      OBVIOUS
    <2>1. stream[i] = Wild \/ stream[i] \in 1..Len(count)
      BY <1>1, PathFacts
    <2> QED
      BY <2>1 DEF Size, Length
  <1>3. \A f : Sums(f) => Sums(f)'
    BY <1>2 DEF Sums
  <1>4. StreamOK'
    BY <1>3 DEF PathInv, StreamOK
  <1>5. ASSUME HeardOK
        PROVE  HeardOK'
    <2>1. \A i \in 1..Len(acked) : Piece(acked[i])' = Piece(acked[i])
      <3> SUFFICES ASSUME NEW i \in 1..Len(acked)
                   PROVE  Piece(acked[i])' = Piece(acked[i])
        OBVIOUS
      <3>1. acked[i] \in 1..Len(count)
        BY <1>1, <1>5, PathFacts DEF HeardOK
      <3> QED
        BY <3>1 DEF Piece
    <2>2. \A g : Joined(g) => Joined(g)'
      BY <2>1 DEF Joined
    <2> QED
      BY <1>5, <2>2 DEF HeardOK
  <1> QED
    BY <1>4, <1>5

\* TCP and the receiver do not touch the queue.
LEMMA QueueFrame ==
    ASSUME PathInv, UNCHANGED <<alive, threadVars, queueVars, count, overlapped>>
    PROVE  TailOK' /\ (~overlapped' => SoleOK')
  <1>1. InPush' = InPush
    BY DEF InPush
  <1>2. TailOK'
    BY <1>1 DEF PathInv, TailOK
  <1>3. SoleOK => SoleOK'
    BY DEF SoleOK, Serving, Alone
  <1> QED
    BY <1>2, <1>3 DEF PathInv

LEMMA InPushFinite ==
    ASSUME PathTypes, NEW t \in Sender
    PROVE  /\ Cardinality(InPush) \in Nat
           /\ t \in InPush => /\ Cardinality(InPush \ {t}) = Cardinality(InPush) - 1
                              /\ Cardinality(InPush) >= 1
           /\ t \notin InPush => Cardinality(InPush \union {t}) = Cardinality(InPush) + 1
  <1>1. IsFiniteSet(Sender) /\ InPush \subseteq Sender
    BY PathAssumption DEF InPush
  <1>2. IsFiniteSet(InPush)
    BY <1>1, FS_Subset
  <1>3. Cardinality(InPush) \in Nat
    BY <1>2, FS_CardinalityType
  <1>4. ASSUME t \in InPush
        PROVE  /\ Cardinality(InPush \ {t}) = Cardinality(InPush) - 1
               /\ Cardinality(InPush) >= 1
    <2>1. Cardinality(InPush \ {t}) = Cardinality(InPush) - 1
      BY <1>2, <1>4, FS_RemoveElement
    <2>2. IsFiniteSet(InPush \ {t})
      BY <1>2, FS_Subset
    <2>3. Cardinality(InPush \ {t}) \in Nat
      BY <2>2, FS_CardinalityType
    <2> QED
      BY <1>3, <2>1, <2>3
  <1>5. t \notin InPush => Cardinality(InPush \union {t}) = Cardinality(InPush) + 1
    BY <1>2, FS_AddElement
  <1> QED
    BY <1>3, <1>4, <1>5

\* The thread t goes on to s.
Moves(t, s) ==
    /\ t \in Sender /\ pc[t] # "idle"
    /\ s \in {"idle", "place", "end", "move", "test", "pop", "sendto", "free"}
    /\ pc' = [pc EXCEPT ![t] = s]

\* A step that neither begins nor ends a push.
LEMMA TailFrame ==
    ASSUME PathInv, NEW t, NEW s, Moves(t, s), UNCHANGED <<tail, count, pushing>>,
           s # "move",
           pc[t] \in {"place", "end", "move"} <=> s \in {"place", "end", "move"}
    PROVE  TailOK'
  <1>1. \A u \in Sender : pc'[u] = IF u = t THEN s ELSE pc[u]
    BY DEF PathInv, PathTypes, Moves
  <1>2. InPush' = InPush
    BY <1>1 DEF InPush, Moves
  <1> QED
    BY <1>1, <1>2 DEF PathInv, TailOK

\* One thread at a time: it leaves the queue as it has to.
LEMMA SoleStep ==
    ASSUME PathInv, NEW t, NEW s, Moves(t, s), ~overlapped, alive' = alive,
           s = "idle" => head' = tail',
           s # "idle" => Serving(t)'
    PROVE  SoleOK'
  <1>1. \A u \in Sender : pc'[u] = IF u = t THEN s ELSE pc[u]
    BY DEF PathInv, PathTypes, Moves
  <1>2. SoleOK
    BY DEF PathInv
  <1>3. \A u \in Sender : u # t => pc'[u] = "idle"
    BY <1>1, <1>2 DEF SoleOK, Moves
  <1>4. Alone' => s = "idle"
    BY <1>1 DEF Alone, Moves
  <1> QED
    BY <1>1, <1>2, <1>3, <1>4 DEF SoleOK


-----------------------------------------------------------------------------
(* The steps of the senders *)

LEMMA SendKeeps ==
    ASSUME PathInv, NEW t \in Sender, Send(t)
    PROVE  PathInv'
  <1>1. PathTypes /\ pc[t] = "idle" /\ alive
    BY DEF PathInv, Send, At
  <1>2. PICK n \in Nat : n = Len(count) /\ n + 1 <= MaxPackets
    BY <1>1, PathFacts DEF Send
  <1>3. PICK k \in PerPacket : count' = Append(count, k)
    BY DEF Send
  <1>4. /\ count' \in Seq(PerPacket) /\ Len(count') = n + 1
        /\ \A p \in 1..n : count'[p] = count[p]
    BY <1>2, <1>3 DEF PathInv, PathTypes
  <1>5. /\ own' = [own EXCEPT ![t] = n + 1] /\ entry' = [entry EXCEPT ![t] = n + 1]
        /\ overlapped' = (overlapped \/ \E u \in Sender : pc[u] # "idle")
        /\ pc' = [pc EXCEPT ![t] = "place"]
        /\ UNCHANGED <<alive, pushing, queueVars, acked, peerVars>>
    BY <1>2 DEF Send, Go
  <1>6. \A u \in Sender : /\ pc'[u] = IF u = t THEN "place" ELSE pc[u]
                          /\ own'[u] = IF u = t THEN n + 1 ELSE own[u]
                          /\ entry'[u] = IF u = t THEN n + 1 ELSE entry[u]
    BY <1>5 DEF PathInv, PathTypes
  <1>7. Made \subseteq Made' /\ n + 1 \in Made' /\ Made = 0..n
    BY <1>2, <1>4 DEF Made
  <1>8. PathTypes'
    <2>1. own \in [Sender -> Made'] /\ entry \in [Sender -> Made'] /\ slot \in [Slot -> Made']
      BY <1>7 DEF PathInv, PathTypes
    <2>2. own' \in [Sender -> Made'] /\ entry' \in [Sender -> Made'] /\ slot' \in [Slot -> Made']
      BY <1>5, <1>7, <2>1
    <2>3. stream' \in Seq(Made') /\ acked' \in Seq(Made') /\ freed' \subseteq Made'
      BY <1>5, <1>7 DEF PathInv, PathTypes
    <2>4. overlapped' \in BOOLEAN
      BY <1>5 DEF PathInv, PathTypes
    <2>5. pc' \in [Sender -> {"idle", "place", "end", "move", "test", "pop", "sendto", "free"}]
      BY <1>5 DEF PathInv, PathTypes
    <2> QED
      BY <1>2, <1>4, <1>5, <2>2, <2>3, <2>4, <2>5 DEF PathInv, PathTypes
  <1>9. TailOK'
    <2>1. InPush' = InPush \union {t} /\ t \notin InPush
      BY <1>1, <1>6 DEF InPush
    <2>2. Cardinality(InPush') = Cardinality(InPush) + 1 /\ Cardinality(InPush) \in Nat
      BY <1>1, <2>1, InPushFinite
    <2>3. tail \in Nat /\ \A u \in Sender : pushing[u] \in Nat
      BY <1>1, PathFacts DEF PathTypes
    <2>4. \A u \in Sender : pc'[u] = "move" => pc[u] = "move"
      BY <1>6
    <2> QED
      BY <1>2, <1>4, <1>5, <2>2, <2>3, <2>4 DEF PathInv, TailOK
  <1>10. StreamOK' /\ (HeardOK => HeardOK')
    BY <1>2, <1>4, <1>5, PeerFrame
  <1>11. ASSUME ~overlapped'
         PROVE  ~overlapped /\ SoleOK'
    <2>1. ~overlapped /\ \A u \in Sender : pc[u] = "idle"
      BY <1>5, <1>11
    <2>2. SoleOK /\ head = tail
      BY <2>1 DEF PathInv, SoleOK, Alone
    <2>3. n + 1 \notin freed
      <3>1. freed \subseteq Made
        BY <1>1 DEF PathTypes
      <3> QED
        BY <1>7, <3>1
    <2>4. Serving(t)'
      BY <1>4, <1>5, <1>6, <2>2, <2>3 DEF Serving, Wild
    <2> QED
      BY <1>1, <1>5, <1>6, <2>1, <2>2, <2>4 DEF SoleOK, Alone
  <1> QED
    BY <1>5, <1>8, <1>9, <1>10, <1>11 DEF PathInv

LEMMA PlaceKeeps ==
    ASSUME PathInv, NEW t \in Sender, Place(t)
    PROVE  PathInv'
  <1>1. /\ PathTypes /\ pc[t] = "place"
        /\ slot' = [slot EXCEPT ![tail] = entry[t]]
        /\ Moves(t, "end")
        /\ UNCHANGED <<alive, entry, own, pushing, head, tail, freed, count, acked, overlapped, peerVars>>
    BY DEF PathInv, Place, At, Go, Moves
  <1>2. PathTypes'
    BY <1>1, PathFacts DEF PathTypes, Moves, Made
  <1>3. TailOK'
    BY <1>1, TailFrame
  <1>4. StreamOK' /\ (HeardOK => HeardOK')
    BY <1>1, PeerFrame
  <1>5. ASSUME ~overlapped
        PROVE  SoleOK'
    <2>1. Serving(t) /\ SoleOK
      BY <1>1, <1>5 DEF PathInv, SoleOK
    <2>2. tail \in Slot
      <3>1. tail + Cardinality(InPush) <= Len(count) + 1 /\ Cardinality(InPush) \in Nat
        BY <1>1, InPushFinite DEF PathInv, TailOK
      <3> QED
        BY <1>1, <3>1, PathFacts DEF PathTypes, Slot
    <2>3. slot'[tail] = entry[t]
      BY <1>1, <2>2 DEF PathTypes
    <2>4. pc'[t] = "end"
      BY <1>1 DEF PathTypes, Moves
    <2>5. Serving(t)'
      BY <1>1, <2>1, <2>3, <2>4 DEF Serving
    <2> QED
      BY <1>1, <1>5, <2>5, SoleStep
  <1> QED
    BY <1>1, <1>2, <1>3, <1>4, <1>5 DEF PathInv

LEMMA ReadEndKeeps ==
    ASSUME PathInv, NEW t \in Sender, ReadEnd(t)
    PROVE  PathInv'
  <1>1. /\ PathTypes /\ pc[t] = "end"
        /\ pushing' = [pushing EXCEPT ![t] = tail]
        /\ Moves(t, "move")
        /\ UNCHANGED <<alive, entry, own, queueVars, count, acked, overlapped, peerVars>>
    BY DEF PathInv, ReadEnd, At, Go, Moves
  <1>2. \A u \in Sender : /\ pc'[u] = IF u = t THEN "move" ELSE pc[u]
                          /\ pushing'[u] = IF u = t THEN tail ELSE pushing[u]
    BY <1>1 DEF PathTypes, Moves
  <1>3. PathTypes'
    BY <1>1 DEF PathTypes, Moves, Made
  <1>4. TailOK'
    <2>1. InPush' = InPush
      BY <1>1, <1>2 DEF InPush
    <2> QED
      BY <1>1, <1>2, <2>1 DEF PathInv, TailOK
  <1>5. StreamOK' /\ (HeardOK => HeardOK')
    BY <1>1, PeerFrame
  <1>6. ASSUME ~overlapped
        PROVE  SoleOK'
    <2>1. Serving(t)
      BY <1>1, <1>6 DEF PathInv, SoleOK
    <2>2. Serving(t)'
      BY <1>1, <1>2, <2>1 DEF Serving
    <2> QED
      BY <1>1, <1>6, <2>2, SoleStep
  <1> QED
    BY <1>1, <1>3, <1>4, <1>5, <1>6 DEF PathInv

LEMMA MoveEndKeeps ==
    ASSUME PathInv, NEW t \in Sender, MoveEnd(t)
    PROVE  PathInv'
  <1>1. /\ PathTypes /\ pc[t] = "move"
        /\ tail' = pushing[t] + 1
        /\ Moves(t, "test")
        /\ UNCHANGED <<alive, entry, own, pushing, slot, head, freed, count, acked, overlapped, peerVars>>
    BY DEF PathInv, MoveEnd, At, Go, Moves
  <1>2. \A u \in Sender : pc'[u] = IF u = t THEN "test" ELSE pc[u]
    BY <1>1 DEF PathTypes, Moves
  <1>3. PathTypes'
    <2>1. tail' \in Nat \ {0}
      BY <1>1, PathFacts
    <2> QED
      BY <1>1, <2>1 DEF PathTypes, Moves, Made
  <1>4. TailOK'
    <2>1. InPush' = InPush \ {t} /\ t \in InPush
      BY <1>1, <1>2 DEF InPush
    <2>2. Cardinality(InPush') = Cardinality(InPush) - 1 /\ Cardinality(InPush) \in Nat
      BY <1>1, <2>1, InPushFinite
    <2>3. \A u \in Sender : pushing[u] \in Nat
      BY <1>1, PathFacts
    <2>4. \A u \in Sender : pc[u] = "move" => pushing[u] + Cardinality(InPush) <= Len(count) + 1
      BY DEF PathInv, TailOK
    <2>5. Len(count) \in Nat
      BY <1>1, PathFacts
    <2>6. tail' + Cardinality(InPush') <= Len(count) + 1
      BY <1>1, <2>2, <2>3, <2>4, <2>5
    <2>7. \A u \in Sender : pc'[u] = "move" => pushing[u] + Cardinality(InPush') <= Len(count) + 1
      BY <1>2, <2>2, <2>3, <2>4, <2>5
    <2> QED
      BY <1>1, <2>6, <2>7 DEF TailOK
  <1>5. StreamOK' /\ (HeardOK => HeardOK')
    BY <1>1, PeerFrame
  <1>6. ASSUME ~overlapped
        PROVE  SoleOK'
    <2>1. Serving(t)
      BY <1>1, <1>6 DEF PathInv, SoleOK
    <2>2. Serving(t)'
      BY <1>1, <1>2, <2>1 DEF Serving
    <2> QED
      BY <1>1, <1>6, <2>2, SoleStep
  <1> QED
    BY <1>1, <1>3, <1>4, <1>5, <1>6 DEF PathInv

LEMMA TestKeeps ==
    ASSUME PathInv, NEW t \in Sender, Test(t)
    PROVE  PathInv'
  <1>1. PICK s : s = IF head = tail THEN "free" ELSE "pop"
    OBVIOUS
  <1>2. /\ PathTypes /\ pc[t] = "test" /\ s \in {"free", "pop"}
        /\ Moves(t, s)
        /\ UNCHANGED <<alive, entry, own, pushing, queueVars, count, acked, overlapped, peerVars>>
    BY <1>1 DEF PathInv, Test, At, Go, Moves
  <1>3. PathTypes'
    BY <1>2 DEF PathTypes, Moves, Made
  <1>4. TailOK'
    BY <1>2, TailFrame
  <1>5. StreamOK' /\ (HeardOK => HeardOK')
    BY <1>2, PeerFrame
  <1>6. ASSUME ~overlapped
        PROVE  SoleOK'
    <2>1. Serving(t)
      BY <1>2, <1>6 DEF PathInv, SoleOK
    <2>2. tail = head + 1 /\ slot[head] = own[t] /\ head \in Nat
      BY <1>2, <2>1 DEF Serving, PathTypes
    <2>3. s = "pop" /\ pc'[t] = "pop"
      BY <1>1, <1>2, <2>2 DEF PathTypes, Moves
    <2>4. Serving(t)'
      BY <1>2, <2>1, <2>2, <2>3 DEF Serving
    <2> QED
      BY <1>2, <1>6, <2>3, <2>4, SoleStep
  <1> QED
    BY <1>2, <1>3, <1>4, <1>5, <1>6 DEF PathInv

LEMMA PopKeeps ==
    ASSUME PathInv, NEW t \in Sender, Pop(t)
    PROVE  PathInv'
  <1>1. /\ PathTypes /\ pc[t] = "pop" /\ head \in Slot
        /\ entry' = [entry EXCEPT ![t] = slot[head]]
        /\ head' = head + 1
        /\ Moves(t, "sendto")
        /\ UNCHANGED <<alive, own, pushing, slot, tail, freed, count, acked, overlapped, peerVars>>
    BY DEF PathInv, Pop, At, Go, Moves
  <1>2. PathTypes'
    <2>1. slot[head] \in Made /\ head' \in Nat \ {0}
      BY <1>1, PathFacts DEF PathTypes
    <2> QED
      BY <1>1, <2>1 DEF PathTypes, Moves, Made
  <1>3. TailOK'
    BY <1>1, TailFrame
  <1>4. StreamOK' /\ (HeardOK => HeardOK')
    BY <1>1, PeerFrame
  <1>5. ASSUME ~overlapped
        PROVE  SoleOK'
    <2>1. Serving(t)
      BY <1>1, <1>5 DEF PathInv, SoleOK
    <2>2. pc'[t] = "sendto" /\ entry'[t] = slot[head]
      BY <1>1 DEF PathTypes, Moves
    <2>3. Serving(t)'
      BY <1>1, <2>1, <2>2 DEF Serving
    <2> QED
      BY <1>1, <1>5, <2>3, SoleStep
  <1> QED
    BY <1>1, <1>2, <1>3, <1>4, <1>5 DEF PathInv

LEMMA FreeKeeps ==
    ASSUME PathInv, NEW t \in Sender, Free(t)
    PROVE  PathInv'
  <1>1. /\ PathTypes /\ pc[t] = "free"
        /\ freed' = freed \union {entry[t]}
        /\ Moves(t, "idle")
        /\ UNCHANGED <<alive, entry, own, pushing, slot, head, tail, count, acked, overlapped, peerVars>>
        /\ entry[t] \in Packet
    BY DEF PathInv, Free, At, Go, Moves
  <1>2. PathTypes'
    <2>1. freed' \subseteq Made \ {Wild}
      <3>1. entry[t] \in Made /\ entry[t] # Wild
        BY <1>1, PathFacts DEF Packet, Wild
      <3> QED
        BY <1>1, <3>1 DEF PathTypes
    <2> QED
      BY <1>1, <2>1 DEF PathTypes, Moves, Made
  <1>3. TailOK'
    BY <1>1, TailFrame
  <1>4. StreamOK' /\ (HeardOK => HeardOK')
    BY <1>1, PeerFrame
  <1>5. ASSUME ~overlapped
        PROVE  SoleOK'
    <2>1. Serving(t)
      BY <1>1, <1>5 DEF PathInv, SoleOK
    <2>2. head' = tail'
      BY <1>1, <2>1 DEF Serving
    <2> QED
      BY <1>1, <1>5, <2>2, SoleStep
  <1> QED
    BY <1>1, <1>2, <1>3, <1>4, <1>5 DEF PathInv

LEMMA SendtoFailsKeeps ==
    ASSUME PathInv, NEW t \in Sender, SendtoFails(t)
    PROVE  PathInv'
  <1>1. /\ PathTypes /\ pc[t] = "sendto"
        /\ Moves(t, "idle")
        /\ UNCHANGED <<alive, entry, own, pushing, head, slot, tail, freed, count, acked, overlapped, peerVars>>
    BY DEF PathInv, SendtoFails, Requeued, At, Go, Moves
  <1>2. PathTypes'
    BY <1>1 DEF PathTypes, Moves, Made
  <1>3. TailOK'
    BY <1>1, TailFrame
  <1>4. StreamOK' /\ (HeardOK => HeardOK')
    BY <1>1, PeerFrame
  <1>5. ASSUME ~overlapped
        PROVE  SoleOK'
    <2>1. Serving(t)
      BY <1>1, <1>5 DEF PathInv, SoleOK
    <2>2. head' = tail'
      BY <1>1, <2>1 DEF Serving
    <2> QED
      BY <1>1, <1>5, <2>2, SoleStep
  <1> QED
    BY <1>1, <1>2, <1>3, <1>4, <1>5 DEF PathInv


\* Sums and joined messages, one packet longer.
LEMMA SumsGrow ==
    ASSUME PathTypes, NEW p \in Made, NEW f, Sums(f), stream' = Append(stream, p), count' = count
    PROVE  \E h : Sums(h)' /\ h[Len(stream')] >= f[Len(stream)]
  <1>1. PICK n \in Nat : n = Len(stream) /\ stream \in Seq(Made)
    BY PathFacts DEF PathTypes
  <1>2. /\ Len(stream') = n + 1 /\ stream'[n + 1] = p
        /\ \A i \in 1..n : stream'[i] = stream[i]
    BY <1>1
  <1>3. PICK z \in Int : z = Size(p) /\ z >= 0
    <2>1. CASE p = Wild
      BY <2>1 DEF Size, HeaderSize
    <2>2. CASE p # Wild
      <3>1. Size(p) = Length(p) /\ p \in 1..Len(count)
        BY <2>2, SizeIsInt
      <3>2. Length(p) \in Nat
        BY <3>1, SizeFacts
      <3> QED
        BY <3>1, <3>2
    <2> QED
      BY <2>1, <2>2
  <1>4. PICK h : h = [i \in 0..(n + 1) |-> IF i = n + 1 THEN f[n] + z ELSE f[i]]
    OBVIOUS
  <1>5. f \in [0..n -> Int] /\ f[0] = 0 /\ \A i \in 1..n : f[i] = f[i - 1] + Size(stream[i])
    BY <1>1 DEF Sums
  <1>6. h \in [0..(n + 1) -> Int] /\ \A i \in 0..n : h[i] = f[i]
    BY <1>1, <1>4, <1>5
  <1>7. h[n + 1] = f[n] + z /\ f[n] \in Int
    BY <1>1, <1>4, <1>5
  <1>8. \A q : Size(q)' = Size(q)
    BY DEF Size, Length
  <1>9. \A i \in 1..(n + 1) : h[i] = h[i - 1] + Size(stream'[i])
    <2> SUFFICES ASSUME NEW i \in 1..(n + 1)
                 PROVE  h[i] = h[i - 1] + Size(stream'[i])
      OBVIOUS
    <2>1. i - 1 \in 0..n
      OBVIOUS
    <2>2. CASE i = n + 1
      <3>1. h[i - 1] = f[n] /\ Size(stream'[i]) = z
        BY <1>2, <1>3, <1>6, <2>1, <2>2
      <3> QED
        BY <1>7, <2>2, <3>1
    <2>3. CASE i # n + 1
      <3>1. i \in 1..n /\ i \in 0..n
        BY <2>3
      <3> QED
        BY <1>2, <1>5, <1>6, <2>1, <3>1
    <2> QED
      BY <2>2, <2>3
  <1>10. Sums(h)'
    BY <1>2, <1>5, <1>6, <1>8, <1>9 DEF Sums
  <1> QED
    BY <1>1, <1>2, <1>3, <1>7, <1>10

LEMMA PieceType ==
    ASSUME PathTypes, NEW p \in 1..Len(count)
    PROVE  Piece(p) \in Seq(Nat \X Nat)
  <1>1. count[p] \in Nat /\ p \in Nat
    BY SizeFacts
  <1> QED
    BY <1>1 DEF Piece

LEMMA PrefixFacts ==
    ASSUME NEW S, NEW r \in Seq(S), NEW s \in Seq(S), NEW u \in Seq(S)
    PROVE  /\ IsPrefix(r, r)
           /\ IsPrefix(r, s) => IsPrefix(r, s \o u)
  <1>1. ASSUME IsPrefix(r, s)
        PROVE  IsPrefix(r, s \o u)
    <2>1. PICK m \in Nat : m = Len(r)
      OBVIOUS
    <2>2. m <= Len(s) /\ Len(s) \in Nat /\ Len(u) \in Nat /\ Len(s \o u) = Len(s) + Len(u)
      BY <1>1, <2>1 DEF IsPrefix
    <2>3. SubSeq(s \o u, 1, m) = SubSeq(s, 1, m)
      <3>1. \A i \in 1..m : (s \o u)[i] = s[i]
        BY <2>2
      <3>2. /\ SubSeq(s \o u, 1, m) \in Seq(S) /\ Len(SubSeq(s \o u, 1, m)) = m
            /\ \A i \in 1..m : SubSeq(s \o u, 1, m)[i] = (s \o u)[i]
        BY <2>1, <2>2
      <3>3. /\ SubSeq(s, 1, m) \in Seq(S) /\ Len(SubSeq(s, 1, m)) = m
            /\ \A i \in 1..m : SubSeq(s, 1, m)[i] = s[i]
        BY <2>1, <2>2
      <3> QED
        BY <3>1, <3>2, <3>3, SeqEqual
    <2> QED
      BY <1>1, <2>1, <2>2, <2>3 DEF IsPrefix
  <1>2. IsPrefix(r, r)
    BY DEF IsPrefix
  <1> QED
    BY <1>1, <1>2

LEMMA JoinedGrows ==
    ASSUME PathTypes, NEW p \in 1..Len(count), NEW g, Joined(g),
           acked' = Append(acked, p), count' = count
    PROVE  \E h : /\ Joined(h)'
                  /\ \A i \in 0..Len(acked) : h[i] = g[i]
  <1>1. PICK n \in Nat : n = Len(acked) /\ acked \in Seq(Made)
    BY PathFacts DEF PathTypes
  <1>2. p \in Made
    BY DEF Made
  <1>3. /\ Len(acked') = n + 1 /\ acked'[n + 1] = p
        /\ \A i \in 1..n : acked'[i] = acked[i]
    BY <1>1, <1>2
  <1>4. PICK q \in Seq(Nat \X Nat) : q = Piece(p)
    BY PieceType
  <1>5. PICK z \in Seq(Nat \X Nat) : z = g[n] \o q /\ g[n] \in Seq(Nat \X Nat)
    <2>1. n \in 0..n
      OBVIOUS
    <2>2. g[n] \in Seq(Nat \X Nat)
      BY <1>1, <2>1 DEF Joined
    <2>3. g[n] \o q \in Seq(Nat \X Nat)
      BY <2>2
    <2> QED
      BY <2>2, <2>3
  <1>6. PICK h : h = [i \in 0..(n + 1) |-> IF i = n + 1 THEN z ELSE g[i]]
    OBVIOUS
  <1>7. /\ g \in [0..n -> Seq(Nat \X Nat)] /\ g[0] = <<>>
        /\ \A i \in 1..n : g[i] = g[i - 1] \o Piece(acked[i])
        /\ \A i \in 0..n : IsPrefix(g[i], g[n])
    BY <1>1 DEF Joined
  <1>8. h \in [0..(n + 1) -> Seq(Nat \X Nat)] /\ h[n + 1] = z /\ \A i \in 0..n : h[i] = g[i]
    BY <1>6, <1>7
  <1>9. \A r : Piece(r)' = Piece(r)
    BY DEF Piece
  <1>10. \A i \in 1..(n + 1) : h[i] = h[i - 1] \o Piece(acked'[i])
    <2> SUFFICES ASSUME NEW i \in 1..(n + 1)
                 PROVE  h[i] = h[i - 1] \o Piece(acked'[i])
      OBVIOUS
    <2>1. i - 1 \in 0..n
      OBVIOUS
    <2>2. CASE i = n + 1
      <3>1. h[i - 1] = g[n] /\ Piece(acked'[i]) = q
        BY <1>3, <1>4, <1>8, <2>1, <2>2
      <3> QED
        BY <1>5, <1>8, <2>2, <3>1
    <2>3. CASE i # n + 1
      <3>1. i \in 1..n /\ i \in 0..n
        BY <2>3
      <3>2. h[i] = g[i] /\ h[i - 1] = g[i - 1] /\ acked'[i] = acked[i]
        BY <1>3, <1>8, <2>1, <3>1
      <3> QED
        BY <1>7, <3>1, <3>2
    <2> QED
      BY <2>2, <2>3
  <1>11. \A i \in 0..(n + 1) : IsPrefix(h[i], h[n + 1])
    <2> SUFFICES ASSUME NEW i \in 0..(n + 1)
                 PROVE  IsPrefix(h[i], z)
      BY <1>8
    <2>1. CASE i = n + 1
      BY <1>8, <2>1, PrefixFacts
    <2>2. CASE i # n + 1
      <3>1. i \in 0..n
        BY <2>2
      <3>2. h[i] = g[i] /\ g[i] \in Seq(Nat \X Nat) /\ IsPrefix(g[i], g[n])
        BY <1>7, <1>8, <3>1
      <3> QED
        BY <1>5, <3>2, PrefixFacts
    <2> QED
      BY <2>1, <2>2
  <1>12. h[0] = <<>>
    BY <1>7, <1>8
  <1>13. Joined(h)'
    BY <1>3, <1>8, <1>9, <1>10, <1>11, <1>12 DEF Joined
  <1> QED
    BY <1>1, <1>8, <1>13

LEMMA SendtoKeeps ==
    ASSUME PathInv, NEW t \in Sender, Sendto(t)
    PROVE  PathInv'
  <1>1. PICK p : p = IF Usable(entry[t]) THEN entry[t] ELSE Wild
    OBVIOUS
  <1>2. /\ PathTypes /\ pc[t] = "sendto"
        /\ stream' = Append(stream, p)
        /\ acked' = Append(acked, own[t])
        /\ Moves(t, "free")
        /\ UNCHANGED <<alive, entry, own, pushing, queueVars, count, overlapped, arrived, rx, heard, split>>
    BY <1>1 DEF PathInv, Sendto, At, Go, Moves
  <1>3. p \in Made /\ own[t] \in Made /\ stream \in Seq(Made) /\ acked \in Seq(Made)
    BY <1>1, <1>2, PathFacts DEF PathTypes
  <1>4. PathTypes'
    BY <1>2, <1>3 DEF PathTypes, Moves, Made
  <1>5. TailOK'
    BY <1>2, TailFrame
  <1>6. StreamOK'
    <2>1. PICK f : Sums(f) /\ arrived <= f[Len(stream)]
      BY DEF PathInv, StreamOK
    <2>2. PICK h : Sums(h)' /\ h[Len(stream')] >= f[Len(stream)]
      BY <1>2, <1>3, <2>1, SumsGrow
    <2>3. arrived' <= h[Len(stream')]
      <3>1. f[Len(stream)] \in Int /\ arrived \in Nat
        BY <1>2, <2>1, TotalIs DEF PathTypes
      <3>2. h[Len(stream')] \in Int
        <4>1. Len(stream') \in 0..Len(stream')
          BY <1>4 DEF PathTypes
        <4> QED
          BY <2>2, <4>1 DEF Sums
      <3> QED
        BY <1>2, <2>1, <2>2, <3>1, <3>2
    <2>4. rx = "read" => stream' # <<>> /\ Head(stream') = Head(stream)
      BY <1>2, <1>3 DEF PathInv, StreamOK
    <2> QED
      BY <1>2, <2>2, <2>3, <2>4 DEF PathInv, StreamOK
  <1>7. ASSUME ~overlapped
        PROVE  SoleOK' /\ p = own[t] /\ p # Wild
    <2>1. Serving(t)
      BY <1>2, <1>7 DEF PathInv, SoleOK
    <2>2. pc'[t] = "free"
      BY <1>2 DEF PathTypes, Moves
    <2>3. Serving(t)'
      BY <1>2, <2>1, <2>2 DEF Serving
    <2>4. entry[t] = own[t] /\ own[t] # Wild /\ own[t] \notin freed
      BY <1>2, <2>1 DEF Serving
    <2>5. Usable(entry[t])
      <3>1. own[t] \in Packet
        BY <1>2, <1>3, <2>4, PathFacts
      <3> QED
        BY <1>2, <2>4, <3>1 DEF Usable
    <2> QED
      BY <1>1, <1>2, <1>7, <2>3, <2>4, <2>5, SoleStep
  <1>8. ASSUME ~overlapped, ~split
        PROVE  HeardOK'
    <2>1. HeardOK
      BY <1>8 DEF PathInv
    <2>2. PICK g, k : /\ Joined(g) /\ k \in 0..Len(acked)
                      /\ Len(stream) = Len(acked) - k
                      /\ \A i \in 1..Len(stream) : stream[i] = acked[k + i]
                      /\ heard = g[k]
      BY <2>1 DEF HeardOK
    <2>3. PICK n \in Nat : n = Len(acked)
      BY <1>2, PathFacts
    <2>4. PICK m \in Nat : m = Len(stream) /\ m = n - k
      BY <1>2, <2>2, <2>3, PathFacts
    <2>5. p = own[t] /\ p # Wild /\ p \in 1..Len(count)
      BY <1>2, <1>3, <1>7, <1>8, PathFacts
    <2>6. PICK h : Joined(h)' /\ \A i \in 0..n : h[i] = g[i]
      BY <1>2, <2>2, <2>3, <2>5, JoinedGrows
    <2>7. /\ Len(acked') = n + 1 /\ acked'[n + 1] = p /\ \A i \in 1..n : acked'[i] = acked[i]
          /\ Len(stream') = m + 1 /\ stream'[m + 1] = p /\ \A i \in 1..m : stream'[i] = stream[i]
      <3>1. PICK a \in Seq(Made), s \in Seq(Made) : a = acked /\ s = stream
        BY <1>3
      <3>2. p \in Made /\ acked' = Append(a, p) /\ stream' = Append(s, p)
        BY <1>2, <1>3, <2>5, <3>1
      <3>3. Len(a) = n /\ Len(s) = m
        BY <2>3, <2>4, <3>1
      <3>4. /\ Len(acked') = n + 1 /\ acked'[n + 1] = p /\ \A i \in 1..n : acked'[i] = a[i]
        BY <3>2, <3>3
      <3>5. /\ Len(stream') = m + 1 /\ stream'[m + 1] = p /\ \A i \in 1..m : stream'[i] = s[i]
        BY <3>2, <3>3
      <3> QED
        BY <3>1, <3>4, <3>5
    <2>8. k \in 0..n /\ k \in 0..(n + 1) /\ m + 1 = (n + 1) - k
      BY <2>2, <2>3, <2>4
    <2>9. \A i \in 1..(m + 1) : stream'[i] = acked'[k + i]
      <3> SUFFICES ASSUME NEW i \in 1..(m + 1)
                   PROVE  stream'[i] = acked'[k + i]
        OBVIOUS
      <3>1. CASE i = m + 1
        <4>1. k + i = n + 1
          BY <2>4, <2>8, <3>1
        <4> QED
          BY <2>7, <3>1, <4>1
      <3>2. CASE i # m + 1
        <4>1. i \in 1..m /\ k + i \in 1..n
          BY <2>4, <2>8, <3>2
        <4> QED
          BY <2>2, <2>4, <2>7, <4>1
      <3> QED
        BY <3>1, <3>2
    <2>10. \A i \in 1..(n + 1) : acked'[i] # Wild
      <3>1. \A i \in 1..(n + 1) : i = n + 1 \/ i \in 1..n
        OBVIOUS
      <3> QED
        BY <2>1, <2>3, <2>5, <2>7, <3>1 DEF HeardOK
    <2>11. heard' = h[k]
      BY <1>2, <2>2, <2>6, <2>8
    <2> QED
      BY <2>6, <2>7, <2>8, <2>9, <2>10, <2>11 DEF HeardOK
  <1> QED
    BY <1>2, <1>4, <1>5, <1>6, <1>7, <1>8 DEF PathInv

LEMMA DieKeeps ==
    ASSUME PathInv, Die
    PROVE  PathInv'
  <1>1. /\ PathTypes /\ alive' = FALSE
        /\ UNCHANGED <<threadVars, queueVars, count, acked, overlapped, peerVars>>
    BY DEF PathInv, Die
  <1>2. PathTypes'
    BY <1>1 DEF PathTypes, Made
  <1>3. TailOK'
    <2>1. InPush' = InPush
      BY <1>1 DEF InPush
    <2> QED
      BY <1>1, <2>1 DEF PathInv, TailOK
  <1>4. StreamOK' /\ (HeardOK => HeardOK')
    BY <1>1, PeerFrame
  <1>5. ASSUME ~overlapped
        PROVE  FALSE
    <2>1. SoleOK
      BY <1>5 DEF PathInv
    <2>2. PICK t \in Sender : \/ pc[t] = "sendto" /\ ~Usable(entry[t])
                              \/ pc[t] = "free" /\ entry[t] \notin Packet \ freed
                              \/ pc[t] = "pop" /\ head \notin Slot
      BY DEF Die
    <2>3. Serving(t) /\ pc[t] # "idle"
      BY <2>1, <2>2 DEF SoleOK
    <2>4. own[t] \in Packet \ freed
      BY <1>1, <2>3, PathFacts DEF Serving
    <2>5. pc[t] # "sendto" \/ Usable(entry[t])
      BY <2>3, <2>4 DEF Serving, Usable
    <2>6. pc[t] # "free" \/ entry[t] \in Packet \ freed
      BY <2>3, <2>4 DEF Serving
    <2>7. pc[t] # "pop" \/ head \in Slot
      <3>1. tail + Cardinality(InPush) <= Len(count) + 1 /\ Cardinality(InPush) \in Nat
        BY <1>1, InPushFinite DEF PathInv, TailOK
      <3>2. pc[t] = "pop" => tail = head + 1
        BY <2>3 DEF Serving
      <3> QED
        BY <1>1, <3>1, <3>2, PathFacts DEF PathTypes, Slot
    <2> QED
      BY <2>2, <2>5, <2>6, <2>7
  <1> QED
    BY <1>1, <1>2, <1>3, <1>4, <1>5 DEF PathInv

-----------------------------------------------------------------------------
(* The steps of TCP and of the receiver *)

LEMMA SmallerOfTwo ==
    ASSUME NEW a \in Int, NEW b \in Int
    PROVE  Min({a, b}) \in {a, b} /\ Min({a, b}) <= a /\ Min({a, b}) <= b
  <1>1. \E x \in {a, b} : \A y \in {a, b} : x <= y
    BY a <= b \/ b <= a
  <1> QED
    BY <1>1 DEF Min

LEMMA ArriveKeeps ==
    ASSUME PathInv, Arrive
    PROVE  PathInv'
  <1>1. PICK b \in Segment : arrived' = Min({arrived + b, Total}) /\ arrived < Total
    BY DEF Arrive
  <1>2. /\ PathTypes
        /\ UNCHANGED <<alive, threadVars, queueVars, count, acked, overlapped, stream, rx, heard, split>>
    BY DEF PathInv, Arrive
  <1>3. PICK f : Sums(f) /\ arrived <= f[Len(stream)] /\ Total = f[Len(stream)] /\ Total \in Int
    BY <1>2, TotalIs DEF PathInv, StreamOK
  <1>4. arrived' \in Nat /\ arrived' <= Total
    <2>1. b \in Nat /\ arrived \in Nat
      BY <1>2, PathAssumption DEF PathTypes
    <2>2. arrived' \in {arrived + b, Total} /\ arrived' <= Total
      <3>1. PICK c \in Int, d \in Int : c = arrived + b /\ d = Total
        BY <1>3, <2>1
      <3>2. Min({c, d}) \in {c, d} /\ Min({c, d}) <= d
        BY SmallerOfTwo
      <3>3. arrived' = Min({c, d})
        BY <1>1, <3>1
      <3> QED
        BY <3>1, <3>2, <3>3
    <2> QED
      BY <1>1, <1>3, <2>1, <2>2
  <1>5. PathTypes'
    BY <1>2, <1>4 DEF PathTypes, Made
  <1>6. TailOK' /\ (~overlapped' => SoleOK')
    BY <1>2, QueueFrame
  <1>7. StreamOK'
    <2>1. Sums(f)'
      BY <1>2, <1>3 DEF Sums, Size, Length
    <2> QED
      BY <1>2, <1>3, <1>4, <2>1 DEF PathInv, StreamOK
  <1>8. HeardOK => HeardOK'
    BY <1>2 DEF HeardOK, Joined, Piece
  <1> QED
    BY <1>2, <1>5, <1>6, <1>7, <1>8 DEF PathInv

LEMMA PeekKeeps ==
    ASSUME PathInv, Peek
    PROVE  PathInv'
  <1>1. /\ PathTypes /\ arrived >= HeaderSize
        /\ rx' = IF Head(stream) = Wild THEN "lost" ELSE "read"
        /\ UNCHANGED <<alive, threadVars, queueVars, count, acked, overlapped, stream, arrived, heard,
                       split>>
    BY DEF PathInv, Peek
  <1>2. PathTypes'
    BY <1>1 DEF PathTypes, Made
  <1>3. TailOK' /\ (~overlapped' => SoleOK')
    BY <1>1, QueueFrame
  <1>4. StreamOK'
    <2>1. PICK f : Sums(f) /\ arrived <= f[Len(stream)]
      BY DEF PathInv, StreamOK
    <2>2. stream # <<>>
      <3>1. stream = <<>> => f[Len(stream)] = 0
        BY <2>1 DEF Sums
      <3> QED
        BY <1>1, <2>1, <3>1 DEF PathTypes, HeaderSize
    <2>3. Sums(f)'
      BY <1>1, <2>1 DEF Sums, Size, Length
    <2> QED
      BY <1>1, <2>1, <2>2, <2>3 DEF StreamOK
  <1>5. HeardOK => HeardOK'
    BY <1>1 DEF HeardOK, Joined, Piece
  <1> QED
    BY <1>1, <1>2, <1>3, <1>4, <1>5 DEF PathInv

\* Without the first packet the sums begin after it.
LEMMA SumsShift ==
    ASSUME PathTypes, NEW f, Sums(f), stream # <<>>, stream' = Tail(stream), count' = count
    PROVE  \E h : Sums(h)' /\ h[Len(stream')] = f[Len(stream)] - Size(Head(stream))
  <1>1. PICK n \in Nat : n = Len(stream) /\ stream \in Seq(Made)
    BY PathFacts DEF PathTypes
  <1>2. /\ n >= 1 /\ Len(stream') = n - 1 /\ Head(stream) = stream[1]
        /\ \A i \in 1..(n - 1) : stream'[i] = stream[i + 1]
    BY <1>1
  <1>3. f \in [0..n -> Int] /\ f[0] = 0 /\ \A i \in 1..n : f[i] = f[i - 1] + Size(stream[i])
    BY <1>1 DEF Sums
  <1>4. PICK z \in Int : z = Size(stream[1]) /\ f[1] = z
    <2>1. stream[1] \in Made /\ 1 \in 1..n
      BY <1>1, <1>2
    <2>2. f[1] = f[1 - 1] + Size(stream[1]) /\ 1 - 1 = 0
      BY <1>3, <2>1
    <2>3. Size(stream[1]) \in Int
      BY <2>1, SizeIsInt
    <2> QED
      BY <1>3, <2>2, <2>3
  <1>5. PICK h : h = [i \in 0..(n - 1) |-> f[i + 1] - z]
    OBVIOUS
  <1>6. \A i \in 0..(n - 1) : i + 1 \in 0..n /\ i + 1 \in 1..n /\ f[i + 1] \in Int
    BY <1>2, <1>3
  <1>7. h \in [0..(n - 1) -> Int] /\ \A i \in 0..(n - 1) : h[i] = f[i + 1] - z
    BY <1>5, <1>6
  <1>8. h[0] = 0
    BY <1>2, <1>4, <1>7
  <1>9. \A i \in 1..(n - 1) : h[i] = h[i - 1] + Size(stream'[i])
    <2> SUFFICES ASSUME NEW i \in 1..(n - 1)
                 PROVE  h[i] = h[i - 1] + Size(stream'[i])
      OBVIOUS
    <2>1. i \in 0..(n - 1) /\ i - 1 \in 0..(n - 1) /\ i + 1 \in 1..n
      OBVIOUS
    <2>2. h[i] = f[i + 1] - z /\ h[i - 1] = f[i] - z
      BY <1>7, <2>1
    <2>3. f[i + 1] = f[i] + Size(stream[i + 1])
      BY <1>3, <2>1
    <2>4. Size(stream[i + 1]) \in Int /\ f[i] \in Int /\ f[i + 1] \in Int
      <3>1. stream[i + 1] \in Made
        BY <1>1, <2>1
      <3>2. Size(stream[i + 1]) \in Int
        BY <3>1, SizeIsInt
      <3>3. i \in 0..n /\ i + 1 \in 0..n
        OBVIOUS
      <3> QED
        BY <1>3, <3>2, <3>3
    <2> QED
      BY <1>2, <2>2, <2>3, <2>4
  <1>10. \A q : Size(q)' = Size(q)
    BY DEF Size, Length
  <1>11. Sums(h)'
    BY <1>2, <1>7, <1>8, <1>9, <1>10 DEF Sums
  <1>12. h[n - 1] = f[n] - z
    BY <1>2, <1>7
  <1> QED
    BY <1>1, <1>2, <1>4, <1>11, <1>12

LEMMA FullReadKeeps ==
    ASSUME PathInv, rx = "read", NEW p, p = Head(stream), arrived >= Length(p),
           heard' = heard \o Messages(p),
           arrived' = arrived - Length(p),
           stream' = Tail(stream),
           rx' = "peek",
           UNCHANGED <<split, alive, threadVars, queueVars, count, acked, overlapped>>
    PROVE  PathInv'
  <1>1. PathTypes /\ stream # <<>> /\ p # Wild
    BY DEF PathInv, StreamOK
  <1>2. PICK m \in Nat : m = Len(stream) /\ stream \in Seq(Made)
    BY <1>1, PathFacts DEF PathTypes
  <1>3. /\ m >= 1 /\ Len(stream') = m - 1 /\ p = stream[1] /\ stream' \in Seq(Made)
        /\ \A i \in 1..(m - 1) : stream'[i] = stream[i + 1]
    BY <1>1, <1>2
  <1>4. p \in 1..Len(count) /\ Size(p) = Length(p)
    <2>1. p \in Made
      BY <1>2, <1>3
    <2> QED
      BY <1>1, <2>1, SizeIsInt
  <1>5. PICK z \in Nat : z = Length(p) /\ Size(p) = z
    BY <1>1, <1>4, SizeFacts
  <1>6. arrived' \in Nat /\ arrived' = arrived - z
    BY <1>1, <1>5 DEF PathTypes
  <1>7. PathTypes'
    BY <1>1, <1>3, <1>6 DEF PathTypes, Made
  <1>8. TailOK' /\ (~overlapped' => SoleOK')
    BY QueueFrame
  <1>9. StreamOK'
    <2>1. PICK f : Sums(f) /\ arrived <= f[Len(stream)]
      BY DEF PathInv, StreamOK
    <2>2. PICK h : Sums(h)' /\ h[Len(stream')] = f[Len(stream)] - Size(Head(stream))
      BY <1>1, <2>1, SumsShift
    <2>3. f[Len(stream)] \in Int
      BY <1>1, <2>1, TotalIs
    <2>4. arrived' <= h[Len(stream')]
      BY <1>1, <1>5, <1>6, <2>1, <2>2, <2>3 DEF PathTypes
    <2> QED
      BY <2>2, <2>4 DEF StreamOK
  <1>10. ASSUME ~overlapped, ~split
         PROVE  HeardOK'
    <2>1. HeardOK
      BY <1>10 DEF PathInv
    <2>2. PICK g, k : /\ Joined(g) /\ k \in 0..Len(acked)
                      /\ Len(stream) = Len(acked) - k
                      /\ \A i \in 1..Len(stream) : stream[i] = acked[k + i]
                      /\ heard = g[k]
      BY <2>1 DEF HeardOK
    <2>3. PICK n \in Nat : n = Len(acked)
      BY <1>1, PathFacts
    <2>4. k \in Nat /\ m = n - k /\ k + 1 \in 1..n /\ k + 1 \in 0..n /\ m - 1 = n - (k + 1)
      BY <1>2, <1>3, <2>2, <2>3
    <2>5. \A i \in 1..(m - 1) : stream'[i] = acked[(k + 1) + i]
      <3> SUFFICES ASSUME NEW i \in 1..(m - 1)
                   PROVE  stream'[i] = acked[(k + 1) + i]
        OBVIOUS
      <3>1. i + 1 \in 1..m /\ k + (i + 1) = (k + 1) + i
        BY <1>3, <2>4
      <3> QED
        BY <1>2, <1>3, <2>2, <3>1
    <2>6. p = acked[k + 1]
      <3>1. 1 \in 1..m
        BY <1>3
      <3> QED
        BY <1>2, <1>3, <2>2, <3>1
    <2>7. heard' = g[k + 1]
      <3>1. g[k + 1] = g[(k + 1) - 1] \o Piece(acked[k + 1])
        BY <2>2, <2>3, <2>4 DEF Joined
      <3>2. (k + 1) - 1 = k
        BY <2>4
      <3>3. Messages(p) = Piece(p)
        BY <1>1, <1>4, SizeFacts
      <3> QED
        BY <2>2, <2>6, <3>1, <3>2, <3>3
    <2>8. Joined(g)'
      BY <2>2 DEF Joined, Piece
    <2>9. Len(stream') = Len(acked') - (k + 1) /\ k + 1 \in 0..Len(acked')
      BY <1>3, <2>3, <2>4
    <2>10. \A i \in 1..Len(stream') : stream'[i] = acked'[(k + 1) + i]
      BY <1>3, <2>5
    <2>11. \A i \in 1..Len(acked') : acked'[i] # Wild
      BY <2>1 DEF HeardOK
    <2> QED
      BY <2>7, <2>8, <2>9, <2>10, <2>11 DEF HeardOK
  <1> QED
    BY <1>7, <1>8, <1>9, <1>10 DEF PathInv

LEMMA ReadKeeps ==
    ASSUME PathInv, Read
    PROVE  PathInv'
  <1>1. PICK p : p = Head(stream)
    OBVIOUS
  <1>2. rx = "read" /\ UNCHANGED <<alive, threadVars, queueVars, count, acked, overlapped>>
    BY DEF Read
  <1>3. CASE /\ arrived >= Length(p)
             /\ heard' = heard \o Messages(p)
             /\ arrived' = arrived - Length(p)
             /\ stream' = Tail(stream)
             /\ rx' = "peek"
             /\ UNCHANGED split
    BY <1>1, <1>2, <1>3, FullReadKeeps
  <1>4. CASE /\ split' = TRUE /\ rx' = "lost"
             /\ UNCHANGED <<stream, arrived, heard>>
    <2>1. PathTypes'
      BY <1>2, <1>4 DEF PathInv, PathTypes, Made
    <2>2. TailOK' /\ (~overlapped' => SoleOK')
      BY <1>2, QueueFrame
    <2>3. StreamOK'
      BY <1>2, <1>4 DEF PathInv, StreamOK, Sums, Size, Length
    <2> QED
      BY <1>2, <1>4, <2>1, <2>2, <2>3 DEF PathInv
  <1> QED
    BY <1>1, <1>3, <1>4 DEF Read

LEMMA NextPath ==
    PathInv /\ [Next]_vars => PathInv'
  <1> SUFFICES ASSUME PathInv, [Next]_vars
               PROVE  PathInv'
    OBVIOUS
  <1>1. ASSUME NEW t \in Sender, Send(t)  PROVE PathInv'
    BY <1>1, SendKeeps
  <1>2. ASSUME NEW t \in Sender, Place(t)  PROVE PathInv'
    BY <1>2, PlaceKeeps
  <1>3. ASSUME NEW t \in Sender, ReadEnd(t)  PROVE PathInv'
    BY <1>3, ReadEndKeeps
  <1>4. ASSUME NEW t \in Sender, MoveEnd(t)  PROVE PathInv'
    BY <1>4, MoveEndKeeps
  <1>5. ASSUME NEW t \in Sender, Test(t)  PROVE PathInv'
    BY <1>5, TestKeeps
  <1>6. ASSUME NEW t \in Sender, Pop(t)  PROVE PathInv'
    BY <1>6, PopKeeps
  <1>7. ASSUME NEW t \in Sender, Sendto(t)  PROVE PathInv'
    BY <1>7, SendtoKeeps
  <1>8. ASSUME NEW t \in Sender, SendtoFails(t)  PROVE PathInv'
    BY <1>8, SendtoFailsKeeps
  <1>9. ASSUME NEW t \in Sender, Free(t)  PROVE PathInv'
    BY <1>9, FreeKeeps
  <1>10. CASE UNCHANGED vars
    <2>1. UNCHANGED <<alive, threadVars, queueVars, count, acked, overlapped, peerVars>>
      BY <1>10 DEF vars
    <2>2. PathTypes'
      BY <2>1 DEF PathInv, PathTypes, Made
    <2>3. TailOK' /\ (~overlapped' => SoleOK')
      BY <2>1, QueueFrame
    <2>4. StreamOK' /\ (HeardOK => HeardOK')
      BY <2>1, PeerFrame
    <2> QED
      BY <2>1, <2>2, <2>3, <2>4 DEF PathInv
  <1> QED
    BY <1>1, <1>2, <1>3, <1>4, <1>5, <1>6, <1>7, <1>8, <1>9, <1>10,
       DieKeeps, ArriveKeeps, PeekKeeps, ReadKeeps DEF Next, Step, Receiver

-----------------------------------------------------------------------------
(* The theorems *)

\* Whatever threads send, and however TCP cuts the stream, the queue, the stream
\* and what callback was given stay as PathInv says: the deque's end does not get
\* ahead of the packets made (sendData, push of the request queue), and a thread
\* that is alone in sendData finds the queue as it left it.
THEOREM PathInvariance == Spec => []PathInv
  <1>1. Init => PathInv
    BY InitPath
  <1>2. PathInv /\ [Next]_vars => PathInv'
    BY NextPath
  <1> QED
    BY <1>1, <1>2, PTL DEF Spec

LEMMA TypesFollow ==
    ASSUME PathInv
    PROVE  TypeOK
  <1>1. PathTypes
    BY DEF PathInv
  <1>2. Made \subseteq Packet \union {Wild} /\ Len(count) <= MaxPackets
    BY <1>1, PathFacts
  <1>3. /\ alive \in BOOLEAN /\ overlapped \in BOOLEAN /\ split \in BOOLEAN
        /\ pc \in [Sender -> {"idle", "place", "end", "move", "test", "pop", "sendto", "free"}]
        /\ pushing \in [Sender -> Nat]
        /\ head \in Nat
        /\ rx \in {"peek", "read", "lost"}
    BY <1>1 DEF PathTypes
  <1>4. /\ entry \in [Sender -> Packet \union {Wild}]
        /\ own \in [Sender -> Packet \union {Wild}]
        /\ slot \in [Slot -> Packet \union {Wild}]
    BY <1>1, <1>2 DEF PathTypes
  <1>5. stream \in Seq(Packet \union {Wild})
    BY <1>1, <1>2 DEF PathTypes
  <1>6. freed \subseteq Packet
    BY <1>1, <1>2 DEF PathInv, PathTypes
  <1>7. tail \in Slot
    <2>1. Cardinality(InPush) \in Nat
      <3>1. IsFiniteSet(Sender) /\ InPush \subseteq Sender
        BY PathAssumption DEF InPush
      <3> QED
        BY <3>1, FS_Subset, FS_CardinalityType
    <2>2. tail \in Nat \ {0} /\ tail + Cardinality(InPush) <= Len(count) + 1
      BY <1>1 DEF PathInv, TailOK, PathTypes
    <2> QED
      BY <1>1, <2>1, <2>2, PathFacts DEF Slot
  <1>8. \A p \in DOMAIN count : count[p] \in PerPacket /\ Length(p) <= Buffer
    <2>1. DOMAIN count = 1..Len(count)
      BY <1>1 DEF PathTypes
    <2> QED
      BY <1>1, <2>1, SizeFacts
  <1>9. arrived \in 0..Total
    <2>1. PICK f : Sums(f) /\ arrived <= f[Len(stream)]
      BY DEF PathInv, StreamOK
    <2>2. Total = f[Len(stream)] /\ Total \in Int
      BY <1>1, <2>1, TotalIs
    <2> QED
      BY <1>1, <2>1, <2>2 DEF PathTypes
  <1> QED
    BY <1>2, <1>3, <1>4, <1>5, <1>6, <1>7, <1>8, <1>9 DEF TypeOK

\* Every variable keeps its type; no packet is longer than the buffer addMessage
\* writes it to, and the bytes that arrived are bytes that were sent.
THEOREM TypeCorrect == Spec => []TypeOK
  BY PathInvariance, TypesFollow, PTL

\* As long as sendData is never entered twice at once, the process lives, the
\* queue is empty between the calls, and each call takes out what it put in.
THEOREM SoleCaller == Spec => []QueueServesOneCaller
  <1>1. ASSUME PathInv
        PROVE  QueueServesOneCaller
    <2>1. ~overlapped => SoleOK
      BY <1>1 DEF PathInv
    <2>2. ASSUME SoleOK
          PROVE  /\ alive
                 /\ Alone => head = tail
                 /\ \A t \in Sender : pc[t] \in {"sendto", "free"} => entry[t] = own[t]
      BY <2>2 DEF SoleOK, Serving
    <2> QED
      BY <2>1, <2>2 DEF QueueServesOneCaller
  <1> QED
    BY <1>1, PathInvariance, PTL
\* g[i] is the first i of n sequences over S, one after the other.
Partial(g, s, n, S) ==
    /\ s \in [1..n -> Seq(S)]
    /\ g[0] = <<>>
    /\ \A i \in 1..n : g[i] = g[i - 1] \o s[i] /\ g[i - 1] \in Seq(S)

\* Joining the pieces one after the other gives what FlattenSeq gives.
LEMMA FlattenIs ==
    ASSUME NEW n \in Nat, NEW S, NEW s, NEW g, Partial(g, s, n, S)
    PROVE  FlattenSeq(s) = g[n]
  <1>0. /\ s \in [1..n -> Seq(S)]
        /\ g[0] = <<>>
        /\ \A i \in 1..n : g[i] = g[i - 1] \o s[i] /\ g[i - 1] \in Seq(S)
    BY DEF Partial
  <1>1. s \in Seq(Seq(S)) /\ Len(s) = n
    BY <1>0
  <1>2. CASE n = 0
    <2>1. s = <<>>
      BY <1>1, <1>2
    <2>2. FlattenSeq(s) = s
      BY <1>1, <1>2 DEF FlattenSeq
    <2> QED
      BY <1>0, <1>2, <2>1, <2>2
  <1>3. CASE n # 0
    <2> DEFINE F(f) == [i \in 1..n |-> IF i = 1 THEN s[i] ELSE f[i - 1] \o s[i]]
               flatten == CHOOSE f : f = F(f)
               h == [i \in 1..n |-> g[i]]
    <2>1. FlattenSeq(s) = flatten[n]
      BY <1>1, <1>3 DEF FlattenSeq
    <2>2. g[1] = s[1]
      <3>1. 1 \in 1..n /\ 1 - 1 = 0
        BY <1>3
      <3>2. g[1] = g[0] \o s[1]
        BY <1>0, <3>1
      <3>3. s[1] \in Seq(S)
        BY <1>0, <3>1
      <3> QED
        BY <1>0, <3>2, <3>3
    <2>3. h = F(h)
      <3>1. \A i \in 1..n : g[i] = IF i = 1 THEN s[i] ELSE h[i - 1] \o s[i]
        <4> SUFFICES ASSUME NEW i \in 1..n
                     PROVE  g[i] = IF i = 1 THEN s[i] ELSE h[i - 1] \o s[i]
          OBVIOUS
        <4>1. i = 1 \/ i - 1 \in 1..n
          OBVIOUS
        <4>2. i - 1 \in 1..n => h[i - 1] = g[i - 1]
          OBVIOUS
        <4> HIDE DEF h
        <4> QED
          BY <1>0, <2>2, <4>1, <4>2
      <3> QED
        BY <3>1
    <2>4. flatten = F(flatten)
      BY <2>3
    <2> HIDE DEF flatten
    <2>5. \A i \in 1..n : flatten[i] = IF i = 1 THEN s[i] ELSE flatten[i - 1] \o s[i]
      BY <2>4
    <2> HIDE DEF F, h
    <2>6. PICK b : b = [i \in 0..n |-> IF i = 0 THEN <<>> ELSE flatten[i]]
      OBVIOUS
    <2>7. b[0] = g[0] /\ \A i \in 1..n : b[i] = flatten[i]
      BY <1>0, <2>6
    <2>8. \A i \in 1..n : b[i - 1] = g[i - 1] => b[i] = g[i]
      <3> SUFFICES ASSUME NEW i \in 1..n, b[i - 1] = g[i - 1]
                   PROVE  b[i] = g[i]
        OBVIOUS
      <3>1. CASE i = 1
        BY <2>2, <2>5, <2>7, <3>1
      <3>2. CASE i # 1
        <4>1. i - 1 \in 1..n
          BY <3>2
        <4>2. flatten[i - 1] = g[i - 1]
          BY <2>7, <4>1
        <4>3. flatten[i] = flatten[i - 1] \o s[i]
          BY <2>5, <3>2
        <4>4. g[i] = g[i - 1] \o s[i]
          BY <1>0
        <4> QED
          BY <2>7, <4>2, <4>3, <4>4
      <3> QED
        BY <3>1, <3>2
    <2>9. \A i \in 0..n : b[i] = g[i]
      <3>1. b[0] = g[0] /\ \A i \in 1..n : b[i - 1] = g[i - 1] => b[i] = g[i]
        BY <2>7, <2>8
      <3> QED
        BY <3>1, SameRecursion
    <2>10. n \in 1..n /\ n \in 0..n
      BY <1>3
    <2> QED
      BY <2>1, <2>7, <2>9, <2>10
  <1> QED
    BY <1>2, <1>3

LEMMA HeardFollows ==
    ASSUME PathInv
    PROVE  HeardIsSent
  <1> SUFFICES ASSUME ~overlapped, ~split
               PROVE  IsPrefix(heard, Sent)
    BY DEF HeardIsSent
  <1>1. PathTypes /\ HeardOK
    BY DEF PathInv
  <1>2. PICK g, k : Joined(g) /\ k \in 0..Len(acked) /\ heard = g[k]
    BY <1>1 DEF HeardOK
  <1>3. PICK n \in Nat : n = Len(acked) /\ DOMAIN acked = 1..n
    BY <1>1, PathFacts DEF PathTypes
  <1>4. PICK s : s = [i \in 1..n |-> Piece(acked[i])]
    OBVIOUS
  <1>5. \A i \in 1..n : Piece(acked[i]) \in Seq(Nat \X Nat)
    <2> SUFFICES ASSUME NEW i \in 1..n
                 PROVE  Piece(acked[i]) \in Seq(Nat \X Nat)
      OBVIOUS
    <2>1. acked[i] \in 1..Len(count)
      BY <1>1, <1>3, PathFacts DEF HeardOK
    <2> QED
      BY <1>1, <2>1, PieceType
  <1>6. s \in [1..n -> Seq(Nat \X Nat)] /\ \A i \in 1..n : s[i] = Piece(acked[i])
    BY <1>4, <1>5
  <1>7. /\ g \in [0..n -> Seq(Nat \X Nat)] /\ g[0] = <<>>
        /\ \A i \in 1..n : g[i] = g[i - 1] \o s[i]
        /\ \A i \in 0..n : IsPrefix(g[i], g[n])
    BY <1>2, <1>3, <1>6 DEF Joined
  <1>8. \A i \in 1..n : g[i - 1] \in Seq(Nat \X Nat)
    <2>1. \A i \in 1..n : i - 1 \in 0..n
      OBVIOUS
    <2> QED
      BY <1>7, <2>1
  <1>9. FlattenSeq(s) = g[n]
    <2>1. Partial(g, s, n, Nat \X Nat)
      BY <1>6, <1>7, <1>8 DEF Partial
    <2> QED
      BY <2>1, FlattenIs
  <1>10. Sent = FlattenSeq(s)
    BY <1>3, <1>4 DEF Sent, Piece
  <1> QED
    BY <1>2, <1>3, <1>7, <1>9, <1>10

\* What callback takes out of the stream is what the acknowledged packets were
\* given, every message in order and once, unless two threads sent at once or a
\* body was read in part.
THEOREM Heard == Spec => []HeardIsSent
  BY PathInvariance, HeardFollows, PTL

=============================================================================
