------------------------ MODULE MetadataFile_proofs ------------------------
(***************************************************************************)
(* Proofs about MetadataFile: what the processes may do to a metadata file *)
(* whatever their number, their streams and the moments they are killed.   *)
(***************************************************************************)
EXTENDS MetadataFile, TLAPS

Status == {"none", "DDFS_FAILURE", "DDFS_FILESYSTEM_FILE_DOES_NOT_EXIST"}

\* The inductive invariant.  A stream belongs to a process that runs, or is on its
\* way out, and to a file that exists.
FileInv ==
    /\ disk \in [File -> Seq(Block) \union {Missing}]
    /\ run \in [Process -> {"off", "on", "exiting"}]
    /\ starts \in [Process -> 0..MaxStarts]
    /\ wild \in [Process -> SUBSET Object]
    /\ streams \in [Process -> Seq(File)]
    /\ status \in [Process -> [Object -> Status]]
    /\ \A p \in Process :
         /\ Len(streams[p]) <= MaxStreams
         /\ run[p] = "off" => streams[p] = <<>>
         /\ \A i \in 1..Len(streams[p]) : disk[streams[p][i]] # Missing

-----------------------------------------------------------------------------
(* Facts about the contents of a file *)

LEMMA MissingIsNone ==
    Missing \notin Seq(Block) /\ Missing # <<>>
  <1>1. Missing[1] = "missing" /\ Len(Missing) = 1
    BY DEF Missing
  <1>2. \A c \in Seq(Block) : Len(c) = 1 => c[1] \in Block
    OBVIOUS
  <1> QED
    BY <1>1, <1>2 DEF Block

\* WithRoot puts a root block in the first place, and touches no other.
LEMMA WithRootFacts ==
    ASSUME NEW c \in Seq(Block)
    PROVE  /\ WithRoot(c) \in Seq(Block) /\ WithRoot(c) # Missing
           /\ HasRoot(WithRoot(c))
           /\ c # <<>> => Tail(WithRoot(c)) = Tail(c)
  <1>1. CASE c = <<>>
    <2>1. PICK d : d = <<"root">>
      OBVIOUS
    <2>2. d \in Seq(Block) /\ d # <<>> /\ d[1] = "root"
      BY <2>1 DEF Block
    <2>3. WithRoot(c) = d
      BY <1>1, <2>1 DEF WithRoot, NewBlock
    <2> QED
      BY <1>1, <2>2, <2>3, MissingIsNone DEF HasRoot
  <1>2. CASE c # <<>>
    <2>1. PICK d : d = [c EXCEPT ![1] = "root"]
      OBVIOUS
    <2>2. /\ d \in Seq(Block) /\ Len(d) = Len(c) /\ d[1] = "root" /\ d # <<>>
          /\ \A i \in 2..Len(c) : d[i] = c[i]
      BY <1>2, <2>1 DEF Block
    <2>3. Tail(d) = Tail(c)
      BY <1>2, <2>2
    <2>4. WithRoot(c) = d
      BY <1>2, <2>1 DEF WithRoot, NewBlock
    <2> QED
      BY <2>2, <2>3, <2>4, MissingIsNone DEF HasRoot
  <1> QED
    BY <1>1, <1>2

LEMMA FrontFacts ==
    ASSUME NEW q \in Seq(File), q # <<>>
    PROVE  /\ Front(q) \in Seq(File) /\ Len(Front(q)) = Len(q) - 1
           /\ Last(q) = q[Len(q)] /\ Last(q) \in File
           /\ \A i \in 1..Len(Front(q)) : Front(q)[i] = q[i]
  <1>1. Len(q) \in Nat \ {0} /\ Len(q) - 1 \in Nat
    OBVIOUS
  <1>2. PICK k : k = Len(q) - 1
    OBVIOUS
  <1>3. /\ SubSeq(q, 1, k) \in Seq(File) /\ Len(SubSeq(q, 1, k)) = k
        /\ \A i \in 1..k : SubSeq(q, 1, k)[i] = q[i]
    BY <1>1, <1>2
  <1>4. Front(q) = SubSeq(q, 1, k)
    BY <1>2 DEF Front
  <1> QED
    BY <1>1, <1>2, <1>3, <1>4 DEF Last

-----------------------------------------------------------------------------
(* The invariant, action by action *)

LEMMA InitFiles ==
    Init => FileInv
  <1>1. ASSUME Init
        PROVE  FileInv
    <2>1. /\ disk \in [File -> Seq(Block) \union {Missing}]
          /\ MaxStarts \in Nat /\ MaxStreams \in Nat
      BY <1>1, MetadataAssumption DEF Init
    <2>2. \A p \in Process : streams[p] = <<>> /\ Len(streams[p]) = 0
      BY <1>1 DEF Init
    <2> QED
      BY <1>1, <2>1, <2>2 DEF Init, FileInv, Status
  <1> QED
    BY <1>1

LEMMA StartFiles ==
    ASSUME FileInv, NEW p \in Process, Start(p)
    PROVE  FileInv'
  <1>1. starts'[p] \in 0..MaxStarts
    BY MetadataAssumption DEF FileInv, Start
  <1> QED
    BY <1>1 DEF FileInv, Start, Status

LEMMA CreateFiles ==
    ASSUME FileInv, NEW f \in File, Create(f)
    PROVE  FileInv'
  <1>1. disk' \in [File -> Seq(Block) \union {Missing}]
    BY DEF FileInv, Create
  <1>2. \A g \in File : disk[g] # Missing => disk'[g] # Missing
    BY DEF FileInv, Create
  <1>3. \A p \in Process : \A i \in 1..Len(streams[p]) : streams[p][i] \in File
    BY DEF FileInv
  <1> QED
    BY <1>1, <1>2, <1>3 DEF FileInv, Create

LEMMA ReportFiles ==
    ASSUME FileInv, NEW p \in Process, NEW o \in Object, NEW f \in File,
           NotThere(p, o) \/ CannotOpen(p, o, f)
    PROVE  FileInv'
  <1>1. status' \in [Process -> [Object -> Status]]
    <2>1. \E s \in Status : status' = [status EXCEPT ![p][o] = s]
      BY DEF NotThere, CannotOpen, Reports, Status
    <2> QED
      BY <2>1 DEF FileInv
  <1>2. UNCHANGED <<disk, run, starts, wild, streams>>
    BY DEF NotThere, CannotOpen
  <1> QED
    BY <1>1, <1>2 DEF FileInv

\* The file is left as it is: the block is only in the buffer of the stream.
LEMMA WriteRootFiles ==
    ASSUME FileInv, NEW p \in Process, NEW o \in Object, NEW f \in File, WriteRoot(p, o, f)
    PROVE  FileInv' /\ disk' = disk
  <1>1. disk' = disk
    BY DEF FileInv, WriteRoot, Opened
  <1>2. status' \in [Process -> [Object -> Status]]
    BY DEF FileInv, WriteRoot, Reports, Written, metaDatablockSize, Status
  <1>3. PICK q : q = Append(streams[p], f)
    OBVIOUS
  <1>4. streams[p] \in Seq(File) /\ Len(streams[p]) < MaxStreams /\ MaxStreams \in Nat
    BY MetadataAssumption DEF FileInv, WriteRoot
  <1>5. /\ q \in Seq(File) /\ Len(q) = Len(streams[p]) + 1 /\ q[Len(q)] = f
        /\ \A i \in 1..Len(streams[p]) : q[i] = streams[p][i]
    BY <1>3, <1>4
  <1>6. \A i \in 1..Len(q) : disk[q[i]] # Missing
    <2>1. disk[f] # Missing /\ \A i \in 1..Len(streams[p]) : disk[streams[p][i]] # Missing
      BY DEF FileInv, WriteRoot
    <2>2. \A i \in 1..Len(q) : i = Len(q) \/ i \in 1..Len(streams[p])
      BY <1>4, <1>5
    <2> QED
      BY <1>5, <2>1, <2>2
  <1>7. streams' = [streams EXCEPT ![p] = q] /\ UNCHANGED <<run, starts, wild>> /\ run[p] = "on"
    BY <1>3 DEF WriteRoot
  <1> QED
    BY <1>1, <1>2, <1>4, <1>5, <1>6, <1>7 DEF FileInv

LEMMA EndFiles ==
    ASSUME FileInv, NEW p \in Process, Exit(p) \/ Exited(p) \/ Kill(p)
    PROVE  FileInv'
  <1>1. streams' = streams \/ streams' = [streams EXCEPT ![p] = <<>>]
    BY DEF Exit, Exited, Kill
  <1>2. MaxStreams \in Nat
    BY MetadataAssumption
  <1>3. /\ \A q \in Process : streams'[q] = streams[q] \/ (streams'[q] = <<>> /\ Len(streams'[q]) = 0)
        /\ streams' \in [Process -> Seq(File)]
    <2>1. CASE streams' = streams
      BY <2>1 DEF FileInv
    <2>2. CASE streams' = [streams EXCEPT ![p] = <<>>]
      BY <2>2 DEF FileInv
    <2> QED
      BY <1>1, <2>1, <2>2
  <1>4. /\ run' \in [Process -> {"off", "on", "exiting"}]
        /\ \A q \in Process : run'[q] = "off" => streams'[q] = <<>>
    <2>1. CASE Exit(p)
      BY <2>1 DEF FileInv, Exit
    <2>2. CASE Exited(p)
      BY <2>2 DEF FileInv, Exited
    <2>3. CASE Kill(p)
      BY <2>3 DEF FileInv, Kill
    <2> QED
      BY <2>1, <2>2, <2>3
  <1>5. UNCHANGED <<disk, starts, wild, status>>
    BY DEF Exit, Exited, Kill
  <1> QED
    BY <1>1, <1>2, <1>3, <1>4, <1>5 DEF FileInv

LEMMA FlushFiles ==
    ASSUME FileInv, NEW p \in Process, Flush(p)
    PROVE  /\ FileInv'
           /\ \E f \in File : disk[f] # Missing /\ disk' = [disk EXCEPT ![f] = WithRoot(disk[f])]
  <1>1. streams[p] \in Seq(File) /\ streams[p] # <<>> /\ run[p] = "exiting"
    BY DEF FileInv, Flush
  <1>2. PICK f : f = Last(streams[p])
    OBVIOUS
  <1>3. PICK q : q = Front(streams[p])
    OBVIOUS
  <1>4. /\ q \in Seq(File) /\ Len(q) = Len(streams[p]) - 1 /\ f = streams[p][Len(streams[p])]
        /\ f \in File /\ \A i \in 1..Len(q) : q[i] = streams[p][i]
    BY <1>1, <1>2, <1>3, FrontFacts
  <1>5. Len(streams[p]) \in Nat /\ Len(streams[p]) > 0
    BY <1>1
  <1>6. disk[f] # Missing
    BY <1>4, <1>5 DEF FileInv
  <1>7. disk[f] \in Seq(Block)
    BY <1>4, <1>6 DEF FileInv
  <1>8. PICK c : c = WithRoot(disk[f])
    OBVIOUS
  <1>9. c \in Seq(Block) /\ c # Missing
    BY <1>7, <1>8, WithRootFacts
  <1>10. /\ disk' = [disk EXCEPT ![f] = c]
         /\ streams' = [streams EXCEPT ![p] = q]
         /\ UNCHANGED <<run, starts, wild, status>>
    BY <1>2, <1>3, <1>8 DEF Flush
  <1>11. \A g \in File : disk[g] # Missing => disk'[g] # Missing
    BY <1>9, <1>10 DEF FileInv
  <1>12. disk' \in [File -> Seq(Block) \union {Missing}]
    BY <1>9, <1>10 DEF FileInv
  <1>13. \A r \in Process : \A i \in 1..Len(streams'[r]) : disk'[streams'[r][i]] # Missing
    <2>1. ASSUME NEW r \in Process, NEW i \in 1..Len(streams'[r])
          PROVE  i \in 1..Len(streams[r]) /\ streams'[r][i] = streams[r][i]
      <3>1. CASE r = p
        BY <1>4, <1>5, <1>10, <2>1, <3>1 DEF FileInv
      <3>2. CASE r # p
        BY <1>10, <2>1, <3>2 DEF FileInv
      <3> QED
        BY <3>1, <3>2
    <2>2. \A r \in Process : \A i \in 1..Len(streams[r]) :
             streams[r][i] \in File /\ disk[streams[r][i]] # Missing
      BY DEF FileInv
    <2> QED
      BY <1>11, <2>1, <2>2
  <1>14. /\ streams' \in [Process -> Seq(File)]
         /\ \A r \in Process : /\ Len(streams'[r]) <= MaxStreams
                               /\ run'[r] = "off" => streams'[r] = <<>>
    BY <1>1, <1>4, <1>5, <1>10, MetadataAssumption DEF FileInv
  <1>15. FileInv'
    BY <1>10, <1>12, <1>13, <1>14 DEF FileInv
  <1> QED
    BY <1>4, <1>6, <1>8, <1>10, <1>15

-----------------------------------------------------------------------------
(* Every step *)

\* The only step that changes a file, but for the one that makes it, is Flush.
LEMMA StepFiles ==
    ASSUME FileInv, [Next]_vars
    PROVE  /\ FileInv'
           /\ \/ disk' = disk
              \/ \E f \in File : disk[f] = Missing /\ disk' = [disk EXCEPT ![f] = <<>>]
              \/ \E f \in File : disk[f] # Missing /\ disk' = [disk EXCEPT ![f] = WithRoot(disk[f])]
  <1>1. CASE UNCHANGED vars
    BY <1>1 DEF vars, FileInv
  <1>2. CASE \E f \in File : Create(f)
    BY <1>2, CreateFiles DEF Create
  <1>3. ASSUME NEW p \in Process, Start(p) \/ Exit(p) \/ Exited(p) \/ Kill(p)
        PROVE  FileInv' /\ disk' = disk
    BY <1>3, StartFiles, EndFiles DEF Start, Exit, Exited, Kill
  <1>4. ASSUME NEW p \in Process, NEW o \in Object, NEW f \in File,
               CannotOpen(p, o, f) \/ WriteRoot(p, o, f)
        PROVE  FileInv' /\ disk' = disk
    BY <1>4, ReportFiles, WriteRootFiles DEF CannotOpen
  <1>5. ASSUME NEW p \in Process, NEW o \in Object, NotThere(p, o)
        PROVE  FileInv' /\ disk' = disk
    BY <1>5 DEF FileInv, NotThere, Reports, Status
  <1>6. CASE \E p \in Process : Flush(p)
    BY <1>6, FlushFiles
  <1> QED
    BY <1>1, <1>2, <1>3, <1>4, <1>5, <1>6 DEF Next

-----------------------------------------------------------------------------
(* The theorems *)

\* Of the processes and their files: a stream is of a file that exists, and only a
\* process that runs, or flushes its streams, has any (init, exit).
THEOREM FileInvariance == Spec => []FileInv
  BY InitFiles, StepFiles, PTL DEF Spec

\* Every variable has values of its type, only a running process has streams, and no
\* initialisation reports DDFS_OK (fillInMemDirectoryTree).
THEOREM TypeCorrect == Spec => []TypeOK
  <1>1. FileInv => TypeOK
    <2>1. \A c \in Seq(Block) : Range(c) \subseteq Block
      BY DEF Range
    <2> QED
      BY <2>1 DEF FileInv, TypeOK, Status
  <1> QED
    BY <1>1, FileInvariance, PTL

\* However many processes open a file, and whenever they are killed: a file with a
\* root block keeps one, and no other block of it changes (fillInMemDirectoryTree,
\* the flush of the streams at exit).
THEOREM BlocksKept == Spec => RootAndBlocksKept
  <1>1. ASSUME FileInv, [Next]_vars
        PROVE  [\A f \in File :
                  /\ HasRoot(disk[f]) => HasRoot(disk'[f])
                  /\ disk[f] \notin {Missing, <<>>} => Tail(disk'[f]) = Tail(disk[f])]_vars
    <2> SUFFICES ASSUME NEW f \in File
                 PROVE  /\ HasRoot(disk[f]) => HasRoot(disk'[f])
                        /\ disk[f] \notin {Missing, <<>>} => Tail(disk'[f]) = Tail(disk[f])
      OBVIOUS
    <2>1. CASE disk'[f] = disk[f]
      BY <2>1 DEF HasRoot
    <2>2. CASE disk[f] = Missing
      BY <2>2, MissingIsNone DEF HasRoot, Missing
    <2>3. CASE disk[f] # Missing /\ disk'[f] = WithRoot(disk[f])
      BY <1>1, <2>3, WithRootFacts DEF FileInv
    <2> QED
      BY <1>1, <2>1, <2>2, <2>3, StepFiles DEF FileInv
  <1> QED
    BY <1>1, FileInvariance, PTL DEF Spec, RootAndBlocksKept

=============================================================================
