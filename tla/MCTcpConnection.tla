-------------------------- MODULE MCTcpConnection --------------------------
(***************************************************************************)
(* An instance of TcpConnection.  Only the characters in which the addresses *)
(* of a cluster differ are given.                                          *)
(***************************************************************************)
EXTENDS TcpConnection

\* 10.0.0.1 and 10.0.0.2: node 1 connects to node 2.  One position, 49 is "1".
MCPlain == [n \in Node |-> <<48 + n>>]

\* All nodes add each other.
MCAllAdd == {p \in Node \X Node : p[1] # p[2]}
=============================================================================
