---------------------------- MODULE MessagePath ----------------------------
(***************************************************************************)
(* The way of a packet from one member to another: addMessage builds it,   *)
(* sendClusterMetaData copies it to the sender's stack, sendData puts it   *)
(* into the request queue and takes an entry out again, TCP carries bytes, *)
(* bk_routine cuts them into packets, and callback takes the messages out. *)
(*                                                                         *)
(* Two threads of a node send to the same member: the main thread and the  *)
(* member's receiver thread.  The queue is a std::deque; popping is under  *)
(* a lock, pushing and asking whether it is empty are not.                 *)
(***************************************************************************)
EXTENDS Naturals, Sequences, FiniteSets, SequencesExt

CONSTANTS
    Sender,       \* the threads that send
    PerPacket,    \* how many messages a packet may be given
    Segment,      \* how many bytes TCP may deliver at a time
    MaxPackets    \* bound: calls of sendClusterMetaData

ASSUME PathAssumption ==
    /\ IsFiniteSet(Sender)
    /\ PerPacket \subseteq 1..4     \* "Maximum four messages at a time are supported"
    /\ Segment \subseteq Nat \ {0}
    /\ MaxPackets \in Nat

VARIABLES
    alive,            \* the sender's process
    pc, entry, own,   \* each thread: where it is in sendData; `entry'; its packet
    pushing,          \* what it has read of the deque's end
    slot, head, tail, \* the deque
    freed,            \* entries that were freed
    count,            \* count[p]: how many messages packet p has
    stream, arrived,  \* packets not read yet, and how many bytes of them are there
    rx,               \* the receiver
    heard,            \* what callback was given: <<packet, message>>
    \* history: the packets whose calls reported success; two calls overlapped;
    \* a body was read in part
    acked, overlapped, split

threadVars == <<pc, entry, own, pushing>>
queueVars  == <<slot, head, tail, freed>>
peerVars   == <<stream, arrived, rx, heard, split>>
vars == <<alive, threadVars, queueVars, count, acked, overlapped, peerVars>>

-----------------------------------------------------------------------------
(* Packets *)

HeaderSize  == 56
MessageSize == 36

BufferMutant == MessageSize * 4
Buffer == HeaderSize + MessageSize * 4

\* The limit is compared with a length that counts the header: it is never met.
AddedMutant(length) == IF length = HeaderSize + MessageSize THEN length ELSE length + MessageSize
Added(length) == IF length = MessageSize * 4 THEN length ELSE length + MessageSize

\* totalLength after k calls of addMessage.
totalLength[k \in 0..4] == IF k = 0 THEN HeaderSize ELSE Added(totalLength[k - 1])

numberOfDdfsMessagesMutant(length) == (length \div MessageSize) % 256
numberOfDdfsMessages(length) == ((length - HeaderSize) \div MessageSize) % 256

Length(p) == totalLength[count[p]]

Messages(p) == [i \in 1..numberOfDdfsMessages(Length(p)) |-> <<p, i>>]

Packet == 1..MaxPackets
Slot   == 1..(2 * MaxPackets + 1)
Wild   == 0      \* an entry nobody made, or the bytes of a stack frame that is gone

Init ==
    /\ alive = TRUE
    /\ pc = [t \in Sender |-> "idle"]
    /\ entry = [t \in Sender |-> Wild]
    /\ own = [t \in Sender |-> Wild]
    /\ pushing = [t \in Sender |-> 1]
    /\ slot = [i \in Slot |-> Wild]
    /\ head = 1 /\ tail = 1
    /\ freed = {}
    /\ count = <<>>
    /\ stream = <<>> /\ arrived = 0
    /\ rx = "peek"
    /\ heard = <<>>
    /\ acked = <<>> /\ overlapped = FALSE /\ split = FALSE

-----------------------------------------------------------------------------
(* sendClusterMetaData and sendData.  A call that finds no connection only *)
(* reports it.                                                              *)

At(t, s) == alive /\ pc[t] = s

Go(t, s) == pc' = [pc EXCEPT ![t] = s]

Send(t) ==
    /\ At(t, "idle")
    /\ Len(count) < MaxPackets
    /\ \E k \in PerPacket : count' = Append(count, k)
    /\ own' = [own EXCEPT ![t] = Len(count) + 1]
    /\ entry' = [entry EXCEPT ![t] = Len(count) + 1]
    /\ overlapped' = (overlapped \/ \E u \in Sender : pc[u] # "idle")
    /\ Go(t, "place")
    /\ UNCHANGED <<alive, pushing, queueVars, acked, peerVars>>

\* push: the entry is stored at the end, and the end is read and moved.
Place(t) ==
    /\ At(t, "place")
    /\ slot' = [slot EXCEPT ![tail] = entry[t]]
    /\ Go(t, "end")
    /\ UNCHANGED <<alive, entry, own, pushing, head, tail, freed, count, acked, overlapped, peerVars>>

ReadEnd(t) ==
    /\ At(t, "end")
    /\ pushing' = [pushing EXCEPT ![t] = tail]
    /\ Go(t, "move")
    /\ UNCHANGED <<alive, entry, own, queueVars, count, acked, overlapped, peerVars>>

MoveEnd(t) ==
    /\ At(t, "move")
    /\ tail' = pushing[t] + 1
    /\ Go(t, "test")
    /\ UNCHANGED <<alive, entry, own, pushing, slot, head, freed, count, acked, overlapped, peerVars>>

\* A thread that finds the queue empty frees the entry it pushed itself.
Test(t) ==
    /\ At(t, "test")
    /\ Go(t, IF head = tail THEN "free" ELSE "pop")
    /\ UNCHANGED <<alive, entry, own, pushing, queueVars, count, acked, overlapped, peerVars>>

\* front() and pop() under the lock; nobody looks again whether the queue is empty.
Pop(t) ==
    /\ At(t, "pop")
    /\ head \in Slot
    /\ entry' = [entry EXCEPT ![t] = slot[head]]
    /\ head' = head + 1
    /\ Go(t, "sendto")
    /\ UNCHANGED <<alive, own, pushing, slot, tail, freed, count, acked, overlapped, peerVars>>

\* An entry can be used while it is not freed and the call that made it goes on.
Usable(e) == e \in Packet \ freed /\ \E t \in Sender : pc[t] # "idle" /\ own[t] = e

Sendto(t) ==
    /\ At(t, "sendto")
    /\ stream' = Append(stream, IF Usable(entry[t]) THEN entry[t] ELSE Wild)
    /\ acked' = Append(acked, own[t])
    /\ Go(t, "free")
    /\ UNCHANGED <<alive, entry, own, pushing, queueVars, count, overlapped, arrived, rx, heard, split>>

\* sendto() fails: the entry is neither sent nor freed nor put back.
RequeuedMutant == head - 1
Requeued == head

SendtoFails(t) ==
    /\ At(t, "sendto")
    /\ head' = Requeued
    /\ Go(t, "idle")
    /\ UNCHANGED <<alive, entry, own, pushing, slot, tail, freed, count, acked, overlapped, peerVars>>

Free(t) ==
    /\ At(t, "free")
    /\ entry[t] \in Packet \ freed
    /\ freed' = freed \union {entry[t]}
    /\ Go(t, "idle")
    /\ UNCHANGED <<alive, entry, own, pushing, slot, head, tail, count, acked, overlapped, peerVars>>

\* The process may die where it uses an entry that is gone, or frees one again.
Die ==
    /\ alive
    /\ \E t \in Sender :
         \/ pc[t] = "sendto" /\ ~Usable(entry[t])
         \/ pc[t] = "free" /\ entry[t] \notin Packet \ freed
         \/ pc[t] = "pop" /\ head \notin Slot
    /\ alive' = FALSE
    /\ UNCHANGED <<threadVars, queueVars, count, acked, overlapped, peerVars>>

-----------------------------------------------------------------------------
(* TCP and the receiver *)

\* Of a wild packet the header is all that matters.
Size(p) == IF p = Wild THEN HeaderSize ELSE Length(p)

\* The bytes of the packets that are not read yet.
Total ==
    LET bytes[i \in 0..Len(stream)] == IF i = 0 THEN 0 ELSE bytes[i - 1] + Size(stream[i])
    IN  bytes[Len(stream)]

Arrive ==
    /\ arrived < Total
    /\ \E b \in Segment : arrived' = Min({arrived + b, Total})
    /\ UNCHANGED <<alive, threadVars, queueVars, count, acked, overlapped, stream, rx, heard, split>>

\* MSG_PEEK leaves the header where it is; the loop goes round until it is complete.
Peek ==
    /\ rx = "peek"
    /\ arrived >= HeaderSize
    /\ rx' = IF Head(stream) = Wild THEN "lost" ELSE "read"
    /\ UNCHANGED <<alive, threadVars, queueVars, count, acked, overlapped, stream, arrived, heard,
                   split>>

\* One recvfrom() for header and body.  It takes what is there: if that is not
\* all, callback is given memory that was never written, and what comes next is
\* taken for a header.  Nothing can be said of the receiver then.
Read ==
    /\ rx = "read"
    /\ LET p == Head(stream)
       IN  \/ /\ arrived >= Length(p)
              /\ heard' = heard \o Messages(p)
              /\ arrived' = arrived - Length(p)
              /\ stream' = Tail(stream)
              /\ rx' = "peek"
              /\ UNCHANGED split
           \/ /\ arrived < Length(p)
              /\ split' = TRUE
              /\ rx' = "lost"
              /\ UNCHANGED <<stream, arrived, heard>>
    /\ UNCHANGED <<alive, threadVars, queueVars, count, acked, overlapped>>

-----------------------------------------------------------------------------
Step(t) ==
    \/ Place(t) \/ ReadEnd(t) \/ MoveEnd(t) \/ Test(t) \/ Pop(t)
    \/ Sendto(t) \/ SendtoFails(t) \/ Free(t)

Receiver == Peek \/ Read

Next ==
    \/ \E t \in Sender : Send(t) \/ Step(t)
    \/ Die
    \/ Arrive
    \/ Receiver

\* Threads are scheduled and TCP delivers; nobody has to send.
Fairness ==
    /\ \A t \in Sender : WF_vars(Step(t))
    /\ WF_vars(Arrive)
    /\ WF_vars(Receiver)

Spec == Init /\ [][Next]_vars
FairSpec == Spec /\ Fairness

-----------------------------------------------------------------------------
(* Properties *)

\* Every variable has values of its type, and no packet is longer than the buffer
\* that addMessage writes it to, up to the documented four messages.
TypeOK ==
    /\ alive \in BOOLEAN /\ overlapped \in BOOLEAN /\ split \in BOOLEAN
    /\ pc \in [Sender -> {"idle", "place", "end", "move", "test", "pop", "sendto", "free"}]
    /\ entry \in [Sender -> Packet \union {Wild}]
    /\ own \in [Sender -> Packet \union {Wild}]
    /\ pushing \in [Sender -> Nat]
    /\ slot \in [Slot -> Packet \union {Wild}]
    /\ head \in Nat /\ tail \in Slot
    /\ freed \subseteq Packet
    /\ Len(count) <= MaxPackets
    /\ \A p \in DOMAIN count : count[p] \in PerPacket /\ Length(p) <= Buffer
    /\ stream \in Seq(Packet \union {Wild})
    /\ arrived \in 0..Total
    /\ rx \in {"peek", "read", "lost"}

Alone == \A t \in Sender : pc[t] = "idle"

\* As long as no two threads were in sendData at once the process survives it and
\* leaves the queue empty, also when sends fail, and takes out the entry it put
\* in.  (Two at once can lose an entry, send memory that is gone, free an entry
\* twice, or pop more than was pushed: the queue then never looks empty again.)
QueueServesOneCaller ==
    ~overlapped =>
        /\ alive
        /\ Alone => head = tail
        /\ \A t \in Sender : pc[t] \in {"sendto", "free"} => entry[t] = own[t]

Sent == FlattenSeq([i \in DOMAIN acked |-> [j \in 1..count[acked[i]] |-> <<acked[i], j>>]])

\* What callback takes out of the stream is what was put into the packets whose
\* sending was reported as a success: every message, in order and once, however
\* TCP cuts and joins the packets, unless two threads sent at once or a packet
\* was read in part.
HeardIsSent == ~overlapped /\ ~split => IsPrefix(heard, Sent)

\* And all of it arrives: a header that comes in pieces, or several packets at
\* once, hold up nothing.
SentIsHeard == \A i \in Packet : (Len(acked) = i) ~> (overlapped \/ split \/ Len(heard) >= Len(Sent))
=============================================================================
