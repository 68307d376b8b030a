--------------------------- MODULE OrderedChannel ---------------------------
(***************************************************************************)
(* What the connection layer promises to the election: what one node hears *)
(* from another was sent, is heard once, and in the order it was sent.     *)
(* Anything may be lost.  Messages are numbered by their sender.           *)
(***************************************************************************)
EXTENDS Naturals, Sequences

CONSTANT Node

VARIABLES
    sent,   \* sent[n][m]: messages that n sent to m so far
    heard   \* heard[n][m]: the messages that n heard from m, in this order

vars == <<sent, heard>>

Init ==
    /\ sent = [n \in Node |-> [m \in Node |-> 0]]
    /\ heard = [n \in Node |-> [m \in Node |-> <<>>]]

Send(n, m) ==
    /\ sent' = [sent EXCEPT ![n][m] = @ + 1]
    /\ UNCHANGED heard

LastHeard(n, m) == IF heard[n][m] = <<>> THEN 0 ELSE heard[n][m][Len(heard[n][m])]

Hear(n, m) ==
    /\ \E k \in (LastHeard(n, m) + 1)..sent[m][n] :
          heard' = [heard EXCEPT ![n][m] = Append(@, k)]
    /\ UNCHANGED sent

Next == \E n, m \in Node : Send(n, m) \/ Hear(n, m)

Spec == Init /\ [][Next]_vars
=============================================================================
