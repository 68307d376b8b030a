--------------------------- MODULE MCReceiverRaces ---------------------------
\* Small instances of ReceiverRaces, with the members in MCPaxosElection's order.
EXTENDS ReceiverRaces, MCPaxosElection
=============================================================================
