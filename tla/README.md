# Verification of the dumb distributed filesystem (ddfs)

TLA+ models of ddfs, TLC runs on small instances, and TLAPS proofs. Paths below
are relative to the repository root.

## The system

A ddfs node is one process. Its administrator builds a `ddfsClusterPaxos` object
for the local address, adds the other nodes by address and calls
`leaderElection()` (`test_programs/test1.cpp` is exactly that). Everything that
is finished in the code serves this election; the file system on top is a stub.

| Component | State | Operations | Interacts with |
|---|---|---|---|
| Cluster, `cluster/ddfs_clusterPaxos.*` | member vector, leader pointer, member count, proposal counter, round number | `leaderElection`, `getProposalNumber`, `processMessage`, `setLeader`, `addMember`, `removeMember` | calls the Paxos instance; is called by the receiver threads of the members |
| Paxos instance, `cluster/ddfs_clusterPaxosInstance.*` | `state`, `lastPromised`, `lastAccepted*`, two counters; one object is proposer and acceptor at once, with no lock | `execute`, accessors | sends through members; its fields are changed by `processMessage` while `execute` sleeps |
| Member, `cluster/ddfs_clusterMemberPaxos.*` | host name, ID (last two octets), `memberState`, portal pointer | `init`, `isOnline`, `callback`, `sendClusterMetaData` | owns a TCP connection; called back by its thread |
| Messages, `cluster/ddfs_clusterMessagesPaxos.*` | packet buffer of a header and up to four messages | `addMessage`, `returnBuffer`, `clearBuffer` | built by cluster and instance, parsed by `callback` |
| TCP connection, `network/ddfs_tcpConnection.hpp` | socket, static list of accepted sockets, static request and response queues | `openConnection`, `isConnectionOpen`, `setupPortal`, `subscribe`, `sendData`, `closeConnection`, `bk_routine` | the listener thread hands accepted sockets to the members' threads |
| File system meta data, `filesystem/*` | directory tree in memory, metadata file and its stdio stream | `init` with `fillInMemDirectoryTree`; `insertNode`, `removeNode`, `findNode`, which nothing reaches | nothing in the repository calls it; every other file operation returns failure |
| Global, status, logger | initialised flag; status enum; log stream | `initialize`; compare; `<<` | used everywhere |

What makes it hard: the main thread of a node and one receiver thread per remote
member share the Paxos instance without a lock; the main thread's waits are
plain sleeps; messages are lost whenever a socket has not been handed over;
several fields are never initialised; nothing is retransmitted.

What correctness means, per component:

* election: no two nodes announce different leaders; what is announced was
  promised and accepted by a majority and names a member that stood; a call of
  `leaderElection` returns; an announcement reaches everybody;
* connections: an accepted socket belongs to exactly one member, one of two nodes
  that add each other connects, messages stay in order across
  reconnections, a queue entry is sent once;
* membership: the vector holds live members, a member's state and the leader pointer follow what was announced;
* messages: what is packed is what is parsed, up to the documented four, however
  TCP cuts the stream;
* file system: a file keeps its root block and the blocks of its files.

Some of these are not kept. What is stated as a property then says how far the
code gets, and the text below says what happens beyond that.

## Modules

| Module | What it is |
|---|---|
| `PaxosElection` | the election: main thread and receiver threads of every node, streams, losses, deaths, uninitialised memory |
| `QuorumCommit` | the abstract specification the election implements |
| `MCPaxosElection` | the order of the members for the instances TLC checks, and a schedule of five nodes |
| `PaxosElection_proofs` | types, numbers and values of the election: an inductive invariant and theorems |
| `PaxosQuorum_proofs` | requests, answers and counts: announcements have a majority, and the election implements `QuorumCommit` |
| `ReceiverRaces` | `PaxosElection` with `processMessage` taken apart, one step for each access to a shared field |
| `MCReceiverRaces` | `ReceiverRaces` with the order of the members |
| `ReceiverRaces_proofs` | the same theorems for receivers that overlap |
| `Membership` | member objects, the vector, the leader pointer: `addMember`, `removeMember`, `setLeader` element by element |
| `MCMembership` | addresses, announced values and wild counts for TLC |
| `Membership_proofs` | the vector, what is left of every `setLeader`, states and leader pointer |
| `TcpConnection` | main thread, listener and receivers around the sockets of one process, with deaths and restarts |
| `OrderedChannel` | what `TcpConnection` implements: an ordered channel that may lose messages |
| `MCTcpConnection` | host names for the instances TLC checks |
| `TcpConnection_proofs` | who holds which end of which connection |
| `TcpOrder_proofs` | the refinement of `OrderedChannel` |
| `MessagePath` | a packet from `addMessage` through the request queue and TCP to `callback` |
| `MessagePath_proofs` | the queue of a single caller, and what `callback` hears |
| `MetadataFile` | the metadata files and the processes that initialise file system objects |
| `MCMetadataFile` | what a metadata file may hold at first |
| `MetadataFile_proofs` | streams, files and root blocks |

### PaxosElection

A step of the main thread (`pc[n]`) is the code between two points at which
messages can come in: `leaderElection`'s head, the checks at the head of
`execute` (`Refuse`), the choice of participants (`SelectQuorum`), the loop of
PREPAREs (`SendPrepare`), the block after it (`PromiseSelf`), the end of the
sleep with its two outcomes (`PrepareTimeout`, `RequestAccept`), and so on to
`Commit`, `Elected`, and the two ways to go on after a failure (`FoundLeader`,
`Retry`). The main thread's steps interleave with those of the receiver threads:
`Receive(n, m)` is one `processMessage` call for the next message from `m`, one
action per branch of the switch, the answer it sends included.

State corresponds to the code by name (`promisesRecieved` keeps its spelling).
`knownOnline[n]` is the set of members whose `memberState` is
`s_clusterMemberOnline`; the other values of that enumeration make no difference
to the election. `chan[n][m]` is the TCP stream: ordered, no duplicates. A
send may fail when `Lossy` is TRUE, or when the receiver is dead. Leader 0 is
the NULL pointer, 65536 a pointer that was never initialised. `pledges`, `votes`
and `commits` are history: who promised, accepted and announced which number.

Undefined behaviour: nodes in `Recycled` start with any leader pointer (NULL or
wild), any member count (1, right, wrong), any round number (0 or higher), any set of
members taken for online and, where the node is a candidate, any set of remote members
whose object says that it is the local node (`isLocalNode`, which only `execute`
reads), because the constructors do not set these.
Calling `getHostName` on NULL ends the process; on a wild pointer it may.

Abstractions: a loop of sends is one step. The process of a node in `Mortal` may die
at any send or between two of them: then only the first members of its list, up to
some place, are reached (`LoopEnds`), whether messages are lost or not. A
`processMessage` call is one step too, though nothing in the code makes it one:
`ReceiverRaces` takes it apart, and what depends on the order of its accesses is
checked there. The one step of `ReceivePrepare`, which compares `lastPromised` and
assigns it, is `CheckPrepare` and `Raise` there, and `AcceptorKeepsPromise` is checked
only there. The members are fixed before the first election (`Membership` changes
them). Numbers do not overflow. The configuration is read once; every node knows every
other.

### ReceiverRaces

Extends `PaxosElection`. Each remote member has a receiver thread, and all of
them run `processMessage` on one instance. A receiver of a node in `Racing` takes
a message into `hand`, and `at` says where in the switch it is: the comparison
with `lastPromised` and the assignment to it, reading the two halves of the vote
for a PROMISE, the two halves of an increment, the number and the value of an
adopted or accepted vote, and the second reading of the fields for the answer are
steps of their own. Between them the main thread and the other receivers go on.
The main thread's steps, and the receivers of other nodes, are those of
`PaxosElection`. The reads of `state` and `lastPromised` in one condition are one
step; torn 64-bit words are left out.

### QuorumCommit

Acceptors pledge themselves to numbers and accept only what they are pledged to;
a proposer announces a result at most once, and only for a number that it is
pledged to and that a majority accepted, itself counted in. `PaxosElection` and
`ReceiverRaces` implement it (`ImplementsQuorumCommit`, with the history variables
as they are). It deliberately says nothing about which value is announced, and does
not ask for the announcer's own vote: the code keeps neither promise, see the
findings.

### TcpConnection

Models how the members of a cluster get and use their sockets. `Listen` and
`Accept` are the listener (`bk_routine` of the local member); `Poll` to `GiveUp`
are the receiver of one remote member (`bk_routine`'s other half, two looks of
`isConnectionOpen` included); `AddPassive`, `AddConnecting` and `AddBroken` are
the three outcomes of `init` with `openConnection`, followed by `SetupPortal` and
`Subscribe`; `IsOnline` and `SendData` begin the other two calls of the main
thread. `isConnectionOpen` is two steps, because it looks at `serverSocketFD`
before it takes the lock; the part under the lock is `AttachUnderLock`.

`stage[n][m]` is how far `init` has come with member `m`, `serverSocketFD` is
the field (0 for -1, `Unconnected` for a socket whose `connect()` failed),
`openConnections` the static list. `conns` and `backlog` are the operating
system's: a connection has two ends, each with the messages it may read; an end
closes when its process dies. `sent` and `heard` number the messages.

External behaviour that is modelled from its use: `connect()` may always fail;
`bind()` may fail after a restart; a dead peer's data can be read until the end of
the stream or is lost with a reset; a send to a dead peer is lost or kills the
sender (SIGPIPE is not handled). Undefined behaviour: a send to a member without
a portal, and a message before `setupPortal`, are harmless or end the process.

Abstractions: a message is read in one step and the request queue between
`sendData` and `sendto` is left out (`MessagePath` has both); `socket()` and `accept()` do
not run out of descriptors; a node adds a peer once per life; memory of a new
connection object is zeroed (`network` is NULL, no queue is in use).

`OrderedChannel` is the promise that `PaxosElection` builds on with its `chan` and
`Lossy`: what is heard was sent, once and in order, also across reconnections.

### Membership

One process and its member objects. `object[a]` is the object at an address;
`Zeros` is fresh memory, and a freed object's fields are still there for the next
one that is built in its place, as the constructor for remote members sets none of
them. The local member is at address 1. `AddMember` is the constructor and the
head of `init`, which returns at once if `network` is not NULL (`Memory`), `Open`
and `OpenFails` are the rest of `init`, `PushBack` the end of `addMember`;
`RemoveMember` is the loop with `erase`, `Delete` the destructor and the count.
`walk[t]` is thread `t`'s `setLeader` call: `BeginWalk`, one `Visit` for each
element, `EndWalk`. A walk keeps what is left of the vector for its iterator;
`Erased` and `Pushed` are what `erase` and `push_back` do to it, and it is `lost`
when it is past the end or in the old copy of a vector that has grown.
`Terminates` is `~std::thread` of a thread that still runs.

`wild`, `recent`, `shifted` and `removed` are history. The capacity doubles, as in
the library the program is built with. Accesses to one member's fields are one
step. Not modelled: `~ddfsClusterPaxos` (nothing deletes a cluster).

### MessagePath

One connection in one direction, two threads of the sender: the main thread and
the receiver thread of that member, which answers. `Send` is
`sendClusterMetaData` up to `sendData`'s push; `Place`, `ReadEnd` and `MoveEnd`
are the push into the `std::deque`, which is not locked; `Test` is the loop's
condition, `Pop` the part under the lock, then `Sendto` or `SendtoFails`, and
`Free`. A packet is a number, `count[p]` says how many messages it has, and
lengths are what the code computes (`totalLength`, `numberOfDdfsMessages`). The
packet itself is an array on the stack of `sendClusterMetaData`: an entry can be
used until its call returns or it is freed (`Usable`), and then is `Wild`.
`Arrive` lets TCP deliver some bytes, `Peek` is the look at the header and `Read`
the one `recvfrom` with the call of `callback`.

Abstractions: one push is three steps, and the pop, which is under a lock, one;
of a wild packet nothing is known but that the receiver does not find its way
back; the connection stays up (`TcpConnection` is about that).

### MetadataFile

Files, and processes with file system objects. `WriteRoot` is `init` where
`fopen` succeeds: the block goes to the stream's buffer, and `init` reports a
failure, since `fwrite` returns 1 and not 1024. `NotThere` and `CannotOpen` are the
two early returns; `rootNode` is not initialised, so an object may be in `wild`.
Nothing closes the stream. `Exit`, `Flush` and `Exited` are `exit()`, which writes
the buffers from the last stream to the first; `Kill` loses them. A file is a
sequence of blocks, of which only the first is ever written. Writing one block of
1024 bytes is one step.

Neither the tree in memory nor the loop that reads the files is modelled: `init`
always returns before it gets there.

## Runs

| Run | Instance | Checks |
|---|---|---|
| `election_contention` | 3 nodes, 2 candidates, 2 attempts each, no loss | `TypeOK`, `OneNumberPerProposer`, `LeaderStoodForElection`, `OkMeansLeaderKnown`, `ImplementsQuorumCommit`, `CommitBackedByMajority` |
| `election_unreliable` | 2 nodes, both candidates, 2 attempts each, losses, node 1 may die, node 2 in recycled memory, fairness | `CommitBackedByMajority`, `LeaderStoodForElection`, `AttemptsBounded`, `ElectionReturns` |
| `races_election` | 3 nodes, 2 candidates, 1 attempt, no loss, node 1 may die, receivers of nodes 1 and 2 overlap, fairness | `RaceTypeOK`, `CommitBackedByMajority`, `ImplementsQuorumCommit`, `CommitLearned` |
| `races_promise` | receivers of the acceptor, node 2, overlap | violates `AcceptorKeepsPromise` |
| `election_disagree` | 3 nodes, 2 candidates, 1 attempt, no loss | violates `Agreement` |
| `election_nack` | same | violates `AcceptAfterMajorityPromise` |
| `election_quorum` | 5 nodes, 3 candidates, 2 attempts, no loss, along one schedule | violates `CommitAcceptedByMajority` |
| `handoff_restarts` | 2 nodes, node 1 connects, may be killed and start again; 2 connections, 1 message each way, fairness | `TypeOK`, `SocketHeldOnce`, `ImplementsOrderedChannel`, `PendingAttached`, `DeadSocketDropped` |
| `membership_races` | 2 hosts, 3 addresses, 5 calls | `TypeOK`, `VectorHoldsLiveMembers`, `StateNamesRecentLeader`, `LeaderIsAnnouncedMember` |
| `message_path` | 2 threads, 2 packets of 1 or 4 messages, segments of 36 and 92 bytes, fairness | `TypeOK`, `QueueServesOneCaller`, `HeardIsSent`, `SentIsHeard` |
| `metadata_exit` | 2 files, 2 processes with 2 lives and 2 streams, one of them may be killed, fairness | `TypeOK`, `RootAndBlocksKept`, `ExitInitialises` |
| `metadata_root` | 1 file, 1 process | violates `InitialisedRootKept` |

Bounds. Three nodes are the least with a majority that leaves somebody out, so
that two candidates can have different participants; two nodes suffice where the
question is about one node's own memory or its loop. Two candidates are enough
for every race between a node's proposer and its acceptor. `RetryCountLE` is 5
in the code; with 2 a failed attempt is followed by another, which is where
stale counters and the lock-out after an accept phase appear. `MaxElections` is
1: a second call by the application starts where a further retry would.

An announcement with one acceptance too few needs five nodes: of three, the two that
a quorum has are the announcer and one other, and where the announcer did not accept
its own number the other did not either. All interleavings of five nodes are out of
TLC's reach, so `election_quorum` follows `Schedule` in `MCPaxosElection`, which only
leaves steps out: a behaviour it finds is one of `Spec`.

With three nodes, losses, deaths and retries together are more than TLC finishes. So
`election_contention` has three nodes with a retry each and every message delivered,
where promises and accepts of one attempt come in during the next, and
`election_unreliable` has two nodes and everything else: with two, either message of
an exchange may be lost in either attempt, an attempt may end in any of its ways, and
the wild leader pointer is looked at after it. For other sizes there are the theorems
`CommitBacked`, `LeaderStood` and `AttemptsAreBounded`. In `races_election` the receivers of a candidate and of the
acceptor overlap, which are the two roles `processMessage` serves.

Connections involve two nodes. Two lives of the connecting node put a stale and a
fresh socket of the same host next to each other, which is where order, loss and
stale sockets matter; a node of the other side may die as well, of a send. A
callback may add a message to the one of each node. A list with the sockets of
two hosts needs a third node, and with restarts that is more than TLC finishes.

Five calls are enough to add a member that fails to connect, announce it,
remove it and build another in its place under a second announcement. Three
addresses let a vector that is full grow. Value 0 stands for "no value" and for the
ID of a member in zeroed memory.

Two packets are the least that can be swapped or lost in the queue, one and four
messages the ends of what is documented. A segment of 92 bytes is a packet of one
message; with 36 a header, and a body, come in pieces, and packets are joined.

`CHECK_DEADLOCK` is off in every run because a system stops when its calls
have returned or its bound is used up.

Fairness: in `PaxosElection` weak fairness of each node's main thread after it has
entered `leaderElection` (threads are scheduled, sleeps end) and of nothing else:
that `leaderElection` returns does not depend on the receivers. Calling it is not
fair. In `TcpConnection` the listener and every receiver are weakly fair (they poll
in endless loops); the main thread, calls, starts and deaths are not. In
`ReceiverRaces` it is enough that some thread goes on while one can (one weak
fairness condition for all main threads and receivers together): with bounded calls
no thread can go on for ever and starve the others. In `MessagePath` a sender's
steps, the delivery of bytes and the receiver are weakly fair; in `MetadataFile` the
steps of `exit()`.

### Findings

1. The value in an accept request is the accepted value, 0 for a first
   candidate, and not the candidate's ID. Acceptors then hold the value 0, which
   the next candidate does not adopt: both announce themselves
   (`election_disagree`).
   The same 0 can reach a candidate that is asleep and be announced by it; a
   receiver without a leader then dies in the log line.
2. A refusal can be counted as a promise (`election_nack`). With a retry a late
   promise to the first attempt can be counted for the second, with the same
   effect.
3. A candidate counts itself among the accepts in any case, but records its own
   acceptance only if it holds no higher number. One that accepted a rival's request
   between the check of its last accepted number and that line announces its
   number with one real acceptance too few, while the comment at
   `src/cluster/ddfs_clusterPaxosInstance.cpp:231` says "Wait for the Accept response
   from Quorum" (`election_quorum`).
4. Two receiver threads can both pass the check of `lastPromised` and assign the
   smaller number last. The acceptor has then taken back a promise and accepts the
   lower number (`races_promise`).
5. `fillInMemDirectoryTree` asks `fread` for 0 items and so takes every file for one
   that is, in the words of the comment at
   `src/filesystem/ddfs_simplefilesystemMeta.hpp:283-285`, "not yet initalized". A process
   that exits replaces the root of every file it opened with an empty one
   (`metadata_root`): the blocks of the files stay, but nothing leads to them. No
   operation of ddfs writes a root with files yet, so the run is given one.

A sixth needs no run, as two addresses decide it. `doNotConnect` is not an order on
addresses, where the comment at `src/cluster/ddfs_clusterMemberPaxos.cpp:66-72` says "Only
connect to the remote IP server port if following condition is met. localIP <
remoteIP". Of 10.0.0.1 and 10.0.0.10 both connect, and then each reads only the
connection that it made itself, on which the other never writes; of 10.0.1.20 and
10.0.2.10 nobody connects. The theorem `WhoConnects` says which pairs are which.

The accept phase makes up for 2 and 4: an acceptor accepts only the number it
promised last, so behind what is announced stands a majority of members that promised
the number and, but for the announcer, accepted it. `CommitBackedByMajority` says
so, and is proved for receivers that overlap as well. Nothing makes up for 1
and 3.

More is visible in the models and not stated as properties, mostly since no document
promises otherwise.

* A candidate that dies between two sends of its announcement leaves members that never
  get to know the leader; `CommitLearned` begins at the end of that loop.

* A candidate whose accept phase times out can never be elected again (it refuses
  itself), and if this happens to a majority the cluster stays without a leader
  for good. A node in recycled memory may report success with a wild leader
  pointer.
* Removing a member that was ever connected ends the process, as its receiver
  never ends, although `src/cluster/ddfs_clusterPaxos.hpp:37-38` says that the "interface
  is exposed to the Admin can add or remove members for the cluster". Removing one that never was, while a receiver is in `setLeader`,
  makes that pass over a member, which stays the LEADER it was, or run past the
  end; so does adding one when the vector has to grow. If the removed member was the
  leader the pointer is left dangling, and the next member built in its memory
  becomes the leader without an announcement. A member built in the memory of a
  deleted one is never connected, keeps its ID and state, and counts. Without
  the conditions that leave these cases out, TLC refutes
  `StateNamesRecentLeader` and `LeaderIsAnnouncedMember`.
* After a failed `connect()`, `checkConnection` reports success, where
  `src/network/ddfs_network.hpp:105-109` says "Check the connection that has been
  previously established" and names `DDFS_HOST_DOWN`; the first send to such a member
  uses a pointer that was never set.
* A member that is added twice counts twice.
* When the main thread and a receiver are in `sendData` at once, a packet can be
  lost or sent from a stack frame that is gone, and an entry can be freed twice.
  When `sendto` fails, the entry leaks.
* A body that arrives in pieces is given to `callback` unfinished, and its rest is
  taken for the next header. Packets that arrive in pieces at the header, or joined,
  do no harm.
* The file system's `init` never succeeds.

## Proofs

Every safety property that a passing run checks is a theorem, for all values of the
constants. What is assumed of these is in the `ASSUME`s of the modules, and TLC
evaluates them in every run: IDs are distinct and between 1 and 65535 and
`MemberList[n]` lists all nodes, `n` first (`PaxosElection`); overlapping
receivers are receivers of nodes (`ReceiverRaces`); nodes have different
addresses, and nobody adds itself (`TcpConnection`); the local host is a host, and the
heap is numbered from 1 (`Membership`); a packet has one to four messages, which is
what `addMessage` documents (`MessagePath`); the bounds are numbers. The theorems are
about `Spec`, `RaceSpec`, that is without fairness, so they hold with it.

| Module | Theorems |
|---|---|
| `PaxosElection_proofs` | `TypeCorrect`, `OneNumber`, `LeaderStood`, from `Invariance` |
| `PaxosQuorum_proofs` | `CommitBacked`, `LeaderIsKnown`, `AttemptsAreBounded`, `Implements`, from `QuorumInvariance` |
| `ReceiverRaces_proofs` | `RaceTypeCorrect`, `RaceCommitBacked`, `RaceOneNumber`, `RaceLeaderIsKnown`, `RaceImplements`, from `RaceInvariance` |
| `TcpConnection_proofs` | `TypeCorrect`, `HeldOnce`, from `ConnectionInvariance`; `WhoConnects` |
| `TcpOrder_proofs` | `ImplementsChannel`, from `OrderInvariance` |
| `Membership_proofs` | `TypeCorrect`, `LiveMembers`, `StatesNameRecent`, `LeaderAnnounced`, from `MemberInvariance` |
| `MessagePath_proofs` | `TypeCorrect`, `SoleCaller`, `Heard`, from `PathInvariance` |
| `MetadataFile_proofs` | `TypeCorrect`, `BlocksKept`, from `FileInvariance` |

### Numbers and values of the election (`Inv`)

`VarTypes` is `TypeOK` without the streams. `OwnNumbers` says that inside `execute`
the current number is the node's own, so it is never 0. `StreamsOK` says of every
message in a stream from `n` that its value, if it is a member, stood for election,
and if it is an accept request, that its number is `n`'s current one and `n` has
begun its accept phase (it holds an accepted number, or is about to, or is dead).
`VotesOK` says the same of every vote ever cast, `ValuesOK` of the nodes' own values.
The argument for `OneNumber` is that beginning the accept phase cannot be undone and
blocks the only action that changes the number; `Grows` states this of every step, and
both `StreamsOK` and `VotesOK` are carried along by it. Neither is inductive alone: a
vote is only known to be good because the accept request was. The network operators
are dealt with once (`SendKeeps`, `ConsumeKeeps`, `ReplyKeeps`).

### Requests, answers and counts (`QuorumInv`)

A count of accept responses is only a number, and answers may come in late. What makes
it right is that a node has one accept phase in its life (`Fresh` until then), so that
each member gets at most one request from it and gives at most one answer.
`ExchangeOK` says that of a request to a member and the answer to it at most one is in
the streams, and that whoever answered has voted for the number; `CountOK` that the
count is at most the size of a set of members that voted and have nothing more to
say, plus one for the node itself. An ACCEPTED that is taken from the stream adds
its sender to this set. `NumbersOK` bounds the numbers by the calls and retries left,
`CommitsOK` carries the majority behind an announcement on, `StatusOK` says when a
leader is known. `AttemptsAreBounded` is read off `NumbersOK`. A loop of sends, cut or
not, reaches some of those it is for (`LoopEndsIn`), and no more is used of it. The proof goes over each action twice: what
becomes of the fields (`...Keeps`) and what becomes of the streams.

The refinement: `PromiseSelf` and `ReceivePrepare` are `Pledge`, `AcceptSelf` and
`ReceiveAcceptRequested` are `Vote`, `Commit` is `Commit`, all else is a stutter.

### Overlapping receivers (`RaceInv`)

`QuorumInv` still holds; added to it is what the threads have in hand. `HandsOK`: a
message in hand is as good as it was in the stream, the place in the switch fits its
type, and of the checks that a thread made, `ChecksHold` is what other threads
cannot undo: the number of the accept request was promised once (`pledges`), though
perhaps not last. `PairsOK`: the one request or answer of an exchange may now be in a
hand instead of a stream (`Pending`), and stays there until the answer is sent or
counted. `CountsUpTo`: neither the count nor what any thread has read of it to
increment it is above the number of members that are `Settled`. Two increments from one
reading lose a count, and a thread that writes late sets the count back; none gains.
Each of the twenty steps of a receiver is one lemma, which ends in `GoStep`,
`DoneStep`, `AnswerStep` or `CheckStep`, and these in `ThreadStep`; steps of main
threads and of receivers that do not overlap use what was proved for `PaxosElection`.
`AcceptorKeepsPromise` is what the races break, see `races_promise`: it is not a
theorem.

### Connections (`ConnInv`, `OrderInv`)

`ConnInv` says which ends of connections exist and that each open end is in one place:
the backlog, the list of accepted sockets, or the member it leads to; and what a thread
between the first look of `isConnectionOpen` and the lock may still find there.
`OrderInv` is about order. Connections are numbered as they are made; accepted
sockets are queued and taken in that order (`QueuesSorted`); a death closes all ends
of a node, so the ends made after an open one are open (`LaterEndsOpen`); a node sends
on the last connection that has anything for the other side (`SendsOnLast`); what can
still be read is at an end that is held and not being given up (`UnreadHeld`). With
these, messages lie in the order they were sent, within and across connections,
behind what was heard (`MessagesOK`), which is what a step that hears one needs.

### Members (`MemberInv`)

`VectorOK` sorts the heap: what is in the vector is live and there once, the object the
main thread works on is not in it, threads belong to live objects. What is left of a
`setLeader` call is the end of the vector, or the call is lost (`Suffix`, `Doomed`);
a lost one never returns, so nothing is claimed of states from then on. A member in
state LEADER was named by a recent call, or is still ahead of one (`StatesOK`): the
members behind all of them are the ones that matter, and `erase` and `push_back`
keep the end of the vector the end. An object at a used address exists only after
`delete`, which ends the process if the member had a thread.

### Messages (`PathInv`)

`TailOK` bounds the end of the deque by the packets made and the threads in the
middle of a push. `SoleOK` says step by step what a caller that is alone has done to
the queue. `StreamOK` and `HeardOK` speak of what the model computes recursively (the
bytes of a stream, the messages of its packets) through a function that satisfies the
recursion, since a recursive definition cannot be computed by the prover; that such
a function is unique is proved through a least argument on which two differ. The
packets acknowledged are those read, whose messages were heard, followed by those in
the stream; this holds until two threads send at once or a body is read in parts.

### Files (`FileInv`)

A stream belongs to a process that runs or exits and to a file that exists. Then the
step invariant is about one write: it replaces the first block, by a root.

### Only model-checked

Liveness is out of the prover's reach: `ElectionReturns`, `CommitLearned`,
`PendingAttached`, `DeadSocketDropped`, `SentIsHeard`, `ExitInitialises`. The
properties that runs show to be violated have no theorems, of course.

## Not modelled

* Numbers do not wrap: `leaderElection` cuts a number to `int` and `lastPromised`
  passes through `int`, which shows after 2^15 attempts of one process.
* Two hosts' sockets in one list, in a run.
* `closeConnection` (it would loop for ever), `removeSubscription`, `receiveData`,
  `isDead`, `abandon`, `~ddfsClusterPaxos`: nothing calls them.
* The response buffer, which only grows; memory and descriptors that run out; the
  limit of 128 queues, of which a connection object uses one.
* The directory tree in memory: no execution reaches it, and its search writes to
  its own parameter, so its callers would follow a pointer that was never set.
* The file operations that are stubs, `global/`, the status class, the logger.

## Plan

Modelling is complete but for the above, and of each safety property there is a
proof. What is left is to prove what lies between the modules and behind liveness:

1. that the streams of `PaxosElection` are channels in the sense of `OrderedChannel`,
   so that the two abstractions of the network are the same one;
2. the safety halves of the liveness properties: what holds of every state in which a
   wait goes on (for `SentIsHeard`, `PendingAttached` and `ElectionReturns`), and the
   measures that go down;
3. for `Agreement`: that it holds where the value in an accept request is a member,
   which is what finding 1 says is missing.
