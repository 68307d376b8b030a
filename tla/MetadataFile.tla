---------------------------- MODULE MetadataFile ----------------------------
(***************************************************************************)
(* The metadata files of the file system, and the processes that open      *)
(* them.  A process initialises ddfsSimpleFilesystem objects with a file   *)
(* name.  fillInMemDirectoryTree always takes the file for a new one,      *)
(* since it reads 0 items; it writes a root block, takes the one item      *)
(* written for a failure and returns, before anything gets to the tree in  *)
(* memory.  The stream stays open with the block in its buffer: the block  *)
(* reaches the file when the process exits, or never if it is killed.      *)
(* The other operations of the file system only return a failure.          *)
(***************************************************************************)
EXTENDS Naturals, Sequences, FiniteSets, SequencesExt

CONSTANTS
    File,        \* the metadata files there may be
    Content,     \* what a file may hold before ddfs opens it: sequences of blocks
    Process,     \* the processes, which may run at the same time
    Mortal,      \* those that may be killed
    Object,      \* the file system objects of one process
    MaxStarts,   \* bound: how often a process is started
    MaxStreams   \* bound: successful fopen() calls in a life

\* A root block without files, one with files, and a block of another kind.
Block == {"root", "tree", "data"}

ASSUME MetadataAssumption ==
    /\ Content \subseteq Seq(Block)
    /\ Mortal \subseteq Process
    /\ MaxStarts \in Nat /\ MaxStreams \in Nat

VARIABLES
    disk,        \* the files; one that does not exist yet is Missing
    run,         \* each process
    starts,
    wild,        \* the objects whose rootNode is not NULL: nothing initialises it
    streams,     \* the open streams of each process, each with a root block to write
    status       \* what the last initialisation of each object reported

vars == <<disk, run, starts, wild, streams, status>>

-----------------------------------------------------------------------------
Missing == <<"missing">>

Init ==
    /\ disk \in [File -> Content \union {Missing}]
    /\ run = [p \in Process |-> "off"]
    /\ starts = [p \in Process |-> 0]
    /\ wild = [p \in Process |-> {}]
    /\ streams = [p \in Process |-> <<>>]
    /\ status = [p \in Process |-> [o \in Object |-> "none"]]

Start(p) ==
    /\ run[p] = "off"
    /\ starts[p] < MaxStarts
    /\ run' = [run EXCEPT ![p] = "on"]
    /\ starts' = [starts EXCEPT ![p] = @ + 1]
    /\ \E w \in SUBSET Object : wild' = [wild EXCEPT ![p] = w]
    /\ status' = [status EXCEPT ![p] = [o \in Object |-> "none"]]
    /\ UNCHANGED <<disk, streams>>

\* Somebody makes an empty file: fopen() with "r+" does not.
Create(f) ==
    /\ disk[f] = Missing
    /\ disk' = [disk EXCEPT ![f] = <<>>]
    /\ UNCHANGED <<run, starts, wild, streams, status>>

-----------------------------------------------------------------------------
(* init, with fillInMemDirectoryTree *)

Reports(p, o, s) == status' = [status EXCEPT ![p][o] = s]

\* An empty name, or a tree that seems to be there.
NotThere(p, o) ==
    /\ run[p] = "on"
    /\ Reports(p, o, "DDFS_FILESYSTEM_FILE_DOES_NOT_EXIST")
    /\ UNCHANGED <<disk, run, starts, wild, streams>>

CannotOpen(p, o, f) ==
    /\ run[p] = "on"
    /\ o \notin wild[p]
    /\ disk[f] = Missing
    /\ Reports(p, o, "DDFS_FAILURE")
    /\ UNCHANGED <<disk, run, starts, wild, streams>>

\* fopen() with "r+" leaves the file as it is.
OpenedMutant(c) == <<>>
Opened(c) == c

\* fwrite() returns the items it has written; only a count of bytes would do.
WrittenMutant == 1024
Written == 1
metaDatablockSize == 1024

WriteRoot(p, o, f) ==
    /\ run[p] = "on"
    /\ o \notin wild[p]
    /\ disk[f] # Missing
    /\ Len(streams[p]) < MaxStreams
    /\ disk' = [disk EXCEPT ![f] = Opened(@)]
    /\ streams' = [streams EXCEPT ![p] = Append(@, f)]
    /\ Reports(p, o, IF Written # metaDatablockSize THEN "DDFS_FAILURE" ELSE "DDFS_OK")
    /\ UNCHANGED <<run, starts, wild>>

-----------------------------------------------------------------------------
(* The end of a process *)

Exit(p) ==
    /\ run[p] = "on"
    /\ run' = [run EXCEPT ![p] = "exiting"]
    /\ UNCHANGED <<disk, starts, wild, streams, status>>

\* The block that was written: a directory without files.
NewBlockMutant == "data"
NewBlock == "root"

\* fseek() has put the block at the beginning of the file.
WithRoot(c) == IF c = <<>> THEN <<NewBlock>> ELSE [c EXCEPT ![1] = NewBlock]

\* The streams are flushed from the last to the first.
Flush(p) ==
    /\ run[p] = "exiting"
    /\ streams[p] # <<>>
    /\ disk' = [disk EXCEPT ![Last(streams[p])] = WithRoot(@)]
    /\ streams' = [streams EXCEPT ![p] = Front(@)]
    /\ UNCHANGED <<run, starts, wild, status>>

Exited(p) ==
    /\ run[p] = "exiting"
    /\ streams[p] = <<>>
    /\ run' = [run EXCEPT ![p] = "off"]
    /\ UNCHANGED <<disk, starts, wild, streams, status>>

Kill(p) ==
    /\ p \in Mortal
    /\ run[p] # "off"
    /\ run' = [run EXCEPT ![p] = "off"]
    /\ streams' = [streams EXCEPT ![p] = <<>>]
    /\ UNCHANGED <<disk, starts, wild, status>>

-----------------------------------------------------------------------------
Next ==
    \/ \E f \in File : Create(f)
    \/ \E p \in Process :
         \/ Start(p) \/ Exit(p) \/ Flush(p) \/ Exited(p) \/ Kill(p)
         \/ \E o \in Object :
              \/ NotThere(p, o)
              \/ \E f \in File : CannotOpen(p, o, f) \/ WriteRoot(p, o, f)

\* exit() ends; nobody has to call it.
Fairness == \A p \in Process : WF_vars(Flush(p) \/ Exited(p))

Spec == Init /\ [][Next]_vars
FairSpec == Spec /\ Fairness

-----------------------------------------------------------------------------
(* Properties *)

\* Every variable has values of its type: only a running process has streams, and
\* no initialisation ever reports DDFS_OK.
TypeOK ==
    /\ \A f \in File : disk[f] = Missing \/ Range(disk[f]) \subseteq Block
    /\ run \in [Process -> {"off", "on", "exiting"}]
    /\ starts \in [Process -> 0..MaxStarts]
    /\ wild \in [Process -> SUBSET Object]
    /\ \A p \in Process :
         /\ streams[p] \in Seq(File) /\ Len(streams[p]) <= MaxStreams
         /\ run[p] = "off" => streams[p] = <<>>
    /\ status \in [Process -> [Object -> {"none", "DDFS_FAILURE",
                                          "DDFS_FILESYSTEM_FILE_DOES_NOT_EXIST"}]]

HasRoot(c) == c # <<>> /\ c[1] \in {"root", "tree"}

\* Whoever opens a file, and whenever a process is killed, a file that has a root
\* block keeps one, though perhaps not the same (see InitialisedRootKept), and no
\* block behind the first is changed, added or lost.
RootAndBlocksKept ==
    [][\A f \in File :
         /\ HasRoot(disk[f]) => HasRoot(disk'[f])
         /\ disk[f] \notin {Missing, <<>>} => Tail(disk'[f]) = Tail(disk[f])]_vars

\* A process that is not killed and exits has written what it had to: every file
\* that it opened has a root block then, whoever else writes to it.
ExitInitialises ==
    \A p \in Process \ Mortal : \A f \in File :
        (run[p] = "exiting" /\ f \in Range(streams[p]))
        ~> (HasRoot(disk[f]) /\ f \notin Range(streams[p]))

\* A file that was initialised keeps its root: the comment in fillInMemDirectoryTree
\* has the branch that writes one for a file system that is "not yet initalized".
InitialisedRootKept ==
    [][\A f \in File : HasRoot(disk[f]) => disk'[f][1] = disk[f][1]]_vars
=============================================================================
