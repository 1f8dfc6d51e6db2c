-------------------------- MODULE IoUringStoreProofs --------------------------
(***************************************************************************)
(* IoUringStore, beside LocalStore handles on the same directory, for any   *)
(* number of either: its types, that a key never names a partial payload,   *)
(* that a dropped put leaves no temp file, and that it implements BlobStore *)
(* as LocalStore does.                                                      *)
(*                                                                         *)
(* The invariants of LocalStore hold here, too.  What is new is what a      *)
(* closure whose put was dropped still does: TaskFiles says that its file   *)
(* is written by nobody else, is not yet synced and holds a beginning of    *)
(* the closure's payload.                                                   *)
(***************************************************************************)
EXTENDS IoUringStore, LocalStoreProofs

StoreInv == Inv /\ TreeInv /\ RefInv

\* a client holds a file only while it writes or reads it
OpenFiles == \A c \in Clients : pc[c] \notin {"write", "persist", "read"} => file[c] = Nil

\* a temp name stands for the file it was made for
TmpsOwn ==
  \A d \in Dirs, i \in Files : /\ tree[Append(d, TmpName(i))] \in {i, NoEnt}
                               /\ disk[Append(d, TmpName(i))] \in {i, NoEnt}

TaskHolds(t) ==
  /\ t \in [file : born, key : Keys, val : Values]
  /\ t.file \notin synced /\ ~ TooBig(t.val)
  /\ Len(data[t.file]) <= Size[t.val]
  /\ \A n \in 1..Len(data[t.file]) : data[t.file][n] = t.val
  /\ \A c \in Clients : Working(c) => file[c] # t.file

TaskFiles ==
  /\ \A t \in tasks : TaskHolds(t)
  /\ \A t, u \in tasks : t.file = u.file => t = u

RingInv == StoreInv /\ OpenFiles /\ TmpsOwn /\ TaskFiles

LEMMA InitRingInv == RingInit => RingInv
  <1> SUFFICES ASSUME RingInit PROVE RingInv
    OBVIOUS
  <1>1. Init /\ tasks = {}
    BY DEF RingInit
  <1>2. StoreInv
    BY <1>1, InitInv, InitTreeInv, InitRefInv DEF StoreInv
  <1>3. OpenFiles /\ TaskFiles
    BY <1>1 DEF Init, OpenFiles, TaskFiles
  <1>4. TmpsOwn
    <2> SUFFICES ASSUME NEW d \in Dirs, NEW i \in Files
                 PROVE  tree[Append(d, TmpName(i))] = NoEnt /\ disk[Append(d, TmpName(i))] = NoEnt
      BY DEF TmpsOwn
    <2>1. Append(d, TmpName(i)) \in Paths \ Dirs /\ <<>> \in Dirs
      BY TmpOnly DEF Dirs
    <2> QED
      BY <1>1, <2>1 DEF Init
  <1> QED
    BY <1>2, <1>3, <1>4 DEF RingInv

(***************************************************************************)
(* Steps of LocalStore.                                                     *)
(***************************************************************************)
LEMMA NextStoreInv == ASSUME StoreInv, [Next]_vars PROVE StoreInv'
  BY InvIsInductive, TreeInvIsInductive, RefInvIsInductive DEF StoreInv

\* A step of a client touches the bytes of no file but the one it is writing,
\* and comes to write no file but a new one.
LEMMA StepFiles ==
  ASSUME Inv, OpenFiles, NEW c \in Clients, Step(c)
  PROVE  /\ pc'[c] \notin {"write", "persist", "read"} => file'[c] = Nil
         /\ Working(c)' => file'[c] \notin born \/ (Working(c) /\ file'[c] = file[c])
         /\ \A i \in Files : i # file[c] \/ ~ Working(c) =>
              data'[i] = data[i] /\ (i \in synced' => i \in synced)
         /\ born \subseteq born'
  <1>1. pc \in [Clients -> Labels] /\ file \in [Clients -> Files \cup {Nil}]
        /\ data \in [Files -> Seq(Values)]
    BY DEF Inv, ClientTypes, FsTypes
  <1>2. ASSUME \E r : Done(c, r) PROVE pc'[c] = "done" /\ file'[c] = Nil
    BY <1>1, <1>2 DEF Done
  <1>3. CASE Refusing(c) \/ ListFails(c) \/ Removing(c) \/ PutPersist(c)
    <2>1. /\ \E r : Done(c, r)
          /\ UNCHANGED <<data, synced, born>>
      BY <1>3 DEF Refusing, Refuse, PutQuota, PutMkdirFails, PutCreateFails, NoFile, LookupFails,
         GetEof, Exists, Presign, ListEnd, ListFails, Removing, PutWriteFails, PutPersistFails,
         Delete, PutPersist, Reply, Drop, fs
    <2> QED
      BY <1>2, <2>1 DEF Working
  <1>4. CASE PutResolved(c) \/ PutMkdirDone(c) \/ PutMkdir(c) \/ ListStart(c) \/ ListDir(c)
    <2>1. /\ UNCHANGED <<data, synced, born, file>> /\ pc[c] \in {"start", "mkdir", "walk"}
          /\ pc'[c] \in {"mkdir", "create", "walk"}
      BY <1>1, <1>4 DEF PutResolved, PutMkdirDone, PutMkdir, MkdirStep, ListStart, ListDir, Goto,
         Begin, At, fs, local
    <2> QED
      BY <2>1 DEF OpenFiles, Working
  <1>5. CASE GetOpen(c) \/ GetRead(c)
    BY <1>1, <1>5 DEF GetOpen, GetRead, Goto, At, fs, Working
  <1>6. CASE PutCreate(c)
    BY <1>1, <1>6 DEF PutCreate, Goto, At, Working
  <1>7. CASE PutWrite(c)
    BY <1>1, <1>7 DEF PutWrite, At, Working, local
  <1>8. CASE PutSync(c)
    BY <1>1, <1>8 DEF PutSync, Goto, At, Working, local
  <1> QED
    BY <1>3, <1>4, <1>5, <1>6, <1>7, <1>8, StepSplit DEF Quiet, Moving

LEMMA StepTmpsOwn ==
  ASSUME Inv, TreeInv, TmpsOwn, NEW c \in Clients, Step(c)
  PROVE  TmpsOwn'
  <1>1. tree \in [Paths -> Node] /\ disk' = disk
    BY StepFrame DEF Inv, FsTypes
  <1> SUFFICES ASSUME NEW d \in Dirs, NEW i \in Files
               PROVE  tree'[Append(d, TmpName(i))] \in {i, NoEnt}
    BY <1>1 DEF TmpsOwn
  <1> DEFINE p == Append(d, TmpName(i))
  <1>2. p \in Paths \ (Keys \cup Dirs) /\ tree[p] \in {i, NoEnt}
    BY TmpOnly DEF TmpsOwn
  <1> SUFFICES tree'[p] \in {i, NoEnt}
    OBVIOUS
  <1> HIDE DEF p
  <1>3. CASE Quiet(c) \/ PutWrite(c) \/ PutSync(c)
    BY <1>2, <1>3, QuietTree
  <1>4. CASE PutMkdir(c)
    <2>1. Key(c) \in Keys /\ MkdirStep(Key(c))
      BY <1>4 DEF PutMkdir, At, Inv, PutArgs, Key
    <2>2. FirstBlock(Key(c)) \in Dirs /\ tree' = [tree EXCEPT ![FirstBlock(Key(c))] = Dir]
      BY <2>1, MkdirGrown DEF Inv, TreeInv
    <2> QED
      BY <1>1, <1>2, <2>2
  <1>5. CASE PutCreate(c)
    <2>1. Key(c) \in Keys
      BY <1>5 DEF PutCreate, At, Inv, PutArgs, Key
    <2>2. PICK j \in Files : tree' = [tree EXCEPT ![Append(Parent(Key(c)), TmpName(j))] = j]
      BY <1>5 DEF PutCreate
    <2>3. Parent(Key(c)) \in Dirs
      BY <2>1, AboveKey
    <2>4. p = Append(Parent(Key(c)), TmpName(j)) => i = j
      BY <2>3, TmpInjective DEF p
    <2> QED
      BY <1>1, <1>2, <2>2, <2>4
  <1>6. CASE Removing(c)
    <2>1. PICK q : tree' = Unlink(tree, q)
      BY <1>6 DEF Removing, PutWriteFails, PutPersistFails, Delete, Drop
    <2> QED
      BY <1>1, <1>2, <2>1 DEF Unlink
  <1>7. CASE PutPersist(c)
    <2>1. Key(c) \in Keys /\ tree' = [Unlink(tree, Tmp(c)) EXCEPT ![Key(c)] = file[c]]
      BY <1>7 DEF PutPersist, At, Inv, PutArgs, Key
    <2> QED
      BY <1>1, <1>2, <2>1 DEF Unlink
  <1> QED
    BY <1>3, <1>4, <1>5, <1>6, <1>7, StepSplit

\* What a closure's file needs of a step: nobody else touches it.
LEMMA TaskFrame ==
  ASSUME NEW t \in tasks, TaskHolds(t), born \subseteq born',
         data'[t.file] = data[t.file], t.file \in synced' => t.file \in synced,
         \A c \in Clients : Working(c)' => file'[c] # t.file
  PROVE  TaskHolds(t)'
  BY DEF TaskHolds, TooBig

\* LocalStore's own steps, without a power failure.
StoreNext == (\E c \in Clients : Invoke(c) \/ Cancel(c) \/ Step(c)) \/ Orphan \/ Commit

LEMMA StepTasks ==
  ASSUME RingInv, NEW c \in Clients, Step(c), UNCHANGED tasks
  PROVE  OpenFiles' /\ TaskFiles'
  <1>1. \A d \in Clients \ {c} : pc'[d] = pc[d] /\ file'[d] = file[d]
    BY StepFrame DEF RingInv, StoreInv
  <1>2. /\ pc'[c] \notin {"write", "persist", "read"} => file'[c] = Nil
        /\ Working(c)' => file'[c] \notin born \/ (Working(c) /\ file'[c] = file[c])
        /\ \A i \in Files : i # file[c] \/ ~ Working(c) =>
             data'[i] = data[i] /\ (i \in synced' => i \in synced)
        /\ born \subseteq born'
    BY StepFiles DEF RingInv, StoreInv
  <1>3. OpenFiles'
    BY <1>1, <1>2 DEF RingInv, OpenFiles
  <1>4. ASSUME NEW t \in tasks PROVE TaskHolds(t)'
    <2>1. TaskHolds(t) /\ t.file \in born /\ born \subseteq Files
      BY DEF RingInv, TaskFiles, TaskHolds, StoreInv, Inv, FsTypes
    <2>2. t.file # file[c] \/ ~ Working(c)
      BY <2>1 DEF TaskHolds
    <2>3. \A d \in Clients : Working(d)' => file'[d] # t.file
      BY <1>1, <1>2, <2>1 DEF TaskHolds, Working
    <2>4. data'[t.file] = data[t.file] /\ (t.file \in synced' => t.file \in synced)
      BY <1>2, <2>1, <2>2
    <2> QED
      BY <1>2, <2>1, <2>3, <2>4, TaskFrame
  <1>5. TaskFiles'
    BY <1>4 DEF RingInv, TaskFiles
  <1> QED
    BY <1>3, <1>5

\* Steps that leave the contents of files and who writes them alone.
LEMMA QuietTasks ==
  ASSUME RingInv, UNCHANGED <<data, born, synced>>, tasks' \subseteq tasks,
         \A c \in Clients : /\ Working(c)' => Working(c) /\ file'[c] = file[c]
                            /\ \/ pc'[c] = pc[c] /\ file'[c] = file[c]
                               \/ pc'[c] = "start" /\ pc[c] \in {"idle", "done"} /\ file'[c] = file[c]
                               \/ file'[c] = Nil
  PROVE  OpenFiles' /\ TaskFiles'
  <1>1. OpenFiles'
    BY DEF RingInv, OpenFiles
  <1>2. ASSUME NEW t \in tasks' PROVE TaskHolds(t)'
    <2>1. t \in tasks /\ TaskHolds(t)
      BY DEF RingInv, TaskFiles
    <2>2. \A c \in Clients : Working(c)' => file'[c] # t.file
      BY <2>1 DEF TaskHolds
    <2> QED
      BY <2>1, <2>2, TaskFrame
  <1>3. TaskFiles'
    BY <1>2 DEF RingInv, TaskFiles
  <1> QED
    BY <1>1, <1>3

LEMMA SameTmpsOwn ==
  ASSUME Inv, TmpsOwn,
         \A d \in Dirs, i \in Files :
           tree'[Append(d, TmpName(i))] \in {tree[Append(d, TmpName(i))], NoEnt},
         disk' \in {disk, tree}
  PROVE  TmpsOwn'
  BY DEF TmpsOwn

LEMMA StoreNextInv ==
  ASSUME RingInv, StoreNext, UNCHANGED tasks
  PROVE  RingInv'
  <1> USE DEF RingInv
  <1>1. StoreInv'
    BY NextStoreInv DEF StoreNext, Next
  <1>2. Inv /\ TreeInv /\ pc \in [Clients -> Labels] /\ file \in [Clients -> Files \cup {Nil}]
    BY DEF StoreInv, Inv, ClientTypes
  <1>3. ASSUME NEW c \in Clients, Step(c) PROVE RingInv'
    BY <1>1, <1>2, <1>3, StepTasks, StepTmpsOwn
  <1>4. ASSUME NEW c \in Clients, Invoke(c) \/ Cancel(c) PROVE RingInv'
    <2>1. UNCHANGED <<tree, disk, data, born, synced>>
          /\ \A d \in Clients \ {c} : pc'[d] = pc[d] /\ file'[d] = file[d]
      BY <1>2, <1>4 DEF Invoke, Cancel, fs, Goto
    <2>2. \/ pc'[c] = "start" /\ pc[c] \in {"idle", "done"} /\ file'[c] = file[c]
          \/ pc'[c] = "idle" /\ file'[c] = Nil
      BY <1>2, <1>4 DEF Invoke, Cancel, Goto, Idle
    <2>3. OpenFiles' /\ TaskFiles'
      BY <2>1, <2>2, QuietTasks DEF Working
    <2> QED
      BY <1>1, <1>2, <2>1, <2>3, SameTmpsOwn
  <1>5. CASE Orphan
    <2>1. UNCHANGED <<disk, data, born, synced, pc, file>>
      BY <1>5 DEF Orphan, OrphanUnlink, OrphanMkdir, OrphanEnds, MkdirStep, local, fs
    <2>2. OpenFiles' /\ TaskFiles'
      BY <2>1, QuietTasks DEF Working
    <2>3. TmpsOwn'
      <3>1. PICK o \in orphans : OrphanUnlink(o) \/ OrphanMkdir(o) \/ OrphanEnds(o)
        BY <1>5 DEF Orphan
      <3>2. ASSUME NEW d \in Dirs, NEW i \in Files
            PROVE  tree'[Append(d, TmpName(i))] \in {tree[Append(d, TmpName(i))], NoEnt}
        <4>1. tree \in [Paths -> Node] /\ Append(d, TmpName(i)) \in Paths \ Dirs
          BY <1>2, TmpOnly DEF Inv, FsTypes
        <4>2. CASE OrphanUnlink(o)
          BY <4>1, <4>2 DEF OrphanUnlink, Unlink
        <4>3. CASE OrphanMkdir(o)
          <5>1. FirstBlock(o.key) \in Dirs /\ tree' = [tree EXCEPT ![FirstBlock(o.key)] = Dir]
            BY <1>2, <4>3, MkdirGrown DEF OrphanMkdir, Inv, TreeInv, OrphanKeys
          <5> QED
            BY <4>1, <5>1
        <4>4. CASE OrphanEnds(o)
          BY <4>4 DEF OrphanEnds, fs
        <4> QED
          BY <3>1, <4>2, <4>3, <4>4
      <3> QED
        BY <1>2, <2>1, <3>2, SameTmpsOwn
    <2> QED
      BY <1>1, <2>2, <2>3
  <1>6. CASE Commit
    <2>1. UNCHANGED <<tree, data, born, synced, pc, file>> /\ disk' = tree
      BY <1>6 DEF Commit, local, fs
    <2>2. OpenFiles' /\ TaskFiles'
      BY <2>1, QuietTasks DEF Working
    <2> QED
      BY <1>1, <1>2, <2>1, <2>2, SameTmpsOwn
  <1> QED
    BY <1>3, <1>4, <1>5, <1>6 DEF StoreNext

LEMMA CrashRingInv ==
  ASSUME RingInv, Crash, tasks' = {}
  PROVE  RingInv'
  <1>1. StoreInv'
    BY NextStoreInv DEF Next, RingInv
  <1>2. tree' = disk /\ disk' = disk /\ file' = [c \in Clients |-> Nil]
    BY DEF Crash
  <1>3. OpenFiles' /\ TaskFiles' /\ TmpsOwn'
    BY <1>2 DEF RingInv, OpenFiles, TaskFiles, TmpsOwn
  <1> QED
    BY <1>1, <1>3 DEF RingInv

(***************************************************************************)
(* The get of IoUringStore: an answer, and nothing else.                    *)
(***************************************************************************)
LEMMA ReplyKeeps ==
  ASSUME StoreInv, NEW c \in Clients, NEW r \in Results, Reply(c, r), pc[c] # "idle"
  PROVE  /\ StoreInv' /\ Settled /\ Frame(c) /\ Blobs' = Blobs /\ UNCHANGED call
         /\ UNCHANGED <<tree, disk, data, born, synced, crashes>>
         /\ pc'[c] = "done" /\ ret'[c] = r /\ file'[c] = Nil
         /\ \A d \in Clients \ {c} : pc'[d] = pc[d] /\ file'[d] = file[d]
  <1>1. Inv /\ TreeInv /\ RefInv
    BY DEF StoreInv
  <1>2. UNCHANGED <<tree, disk, data, born, synced, call, orphans, crashes>>
    BY DEF Reply, fs, faults
  <1>3. /\ \A d \in Clients \ {c} : /\ pc'[d] = pc[d] /\ file'[d] = file[d]
                                    /\ ret'[d] = ret[d] /\ acc'[d] = acc[d]
        /\ pc'[c] = "done" /\ ret'[c] = r /\ file'[c] = Nil /\ acc'[c] = <<>>
    BY <1>1 DEF Reply, Done, Inv, ClientTypes
  <1>4. Settled
    BY <1>2 DEF Settled
  <1>5. Inv'
    BY <1>1, ReplyInv
  <1>6. TreeInv'
    <2>1. Grown /\ Shaped(disk') /\ OrphanKeys'
      BY <1>1, <1>2, SameGrown DEF TreeInv, OrphanKeys
    <2> QED
      BY <1>1, <1>2, <1>3, <2>1, FrameTreeInv
  <1>7. RefInv'
    <2>1. \A d \in Clients : RefInvOf(d)
      BY <1>1, RefInvSplit
    <2>2. \A d \in Clients \ {c} : RefInvOf(d)'
      BY <1>1, <1>2, <1>3, <1>4, <2>1, RefInvFrame
    <2>3. RefInvOf(c)'
      BY <1>2, <1>3, <2>1 DEF RefInvOf
    <2> QED
      BY <2>2, <2>3, RefInvSplitPrime
  <1>8. Frame(c)
    <2>1. Calling' = Calling
      BY <1>2 DEF Calling, PendingCall, Visible, Full
    <2>2. Durable' = Durable /\ Detached' = Detached
      BY <1>1, <1>2, <1>4, SameDurable DEF Detached
    <2>3. Outcomes' = [Outcomes EXCEPT ![c] = Outcome(c)']
      BY <1>1, <1>2, <1>3, <1>4, OthersSeen
    <2> QED
      BY <2>1, <2>2, <2>3 DEF Frame
  <1>9. Blobs' = Blobs
    BY <1>1, <1>2, <1>4, SameBlobs
  <1> QED
    BY <1>2, <1>3, <1>4, <1>5, <1>6, <1>7, <1>8, <1>9 DEF StoreInv

RingGet(c) == RingGetEnds(c) \/ RingGetDir(c)

LEMMA RingGetReplies ==
  ASSUME RingInv, NEW c \in Clients, RingGet(c)
  PROVE  pc[c] \in {"start", "read"} /\ \E r \in Results : Reply(c, r)
  <1>1. CASE RingGetEnds(c)
    <2>1. pc[c] = "read" /\ Reply(c, Ok(data[file[c]]))
      BY <1>1 DEF RingGetEnds
    <2>2. data[file[c]] \in Seq(Values)
      BY <2>1 DEF RingInv, StoreInv, Inv, Held, FsTypes
    <2> QED
      BY <2>1, <2>2 DEF Ok, Results
  <1>2. CASE RingGetDir(c)
    <2>1. Ok(<<>>) \in Results /\ Err("Io") \in Results
      BY DEF Ok, Err, Results
    <2> QED
      BY <1>2, <2>1 DEF RingGetDir
  <1> QED
    BY <1>1, <1>2 DEF RingGet

LEMMA RingGetInv ==
  ASSUME RingInv, NEW c \in Clients, RingGet(c), UNCHANGED tasks
  PROVE  RingInv'
  <1>1. PICK r \in Results : Reply(c, r)
    BY RingGetReplies
  <1>2. pc[c] # "idle" /\ StoreInv
    BY RingGetReplies DEF RingInv
  <1>3. /\ StoreInv' /\ UNCHANGED <<tree, disk, data, born, synced, crashes>>
        /\ pc'[c] = "done" /\ file'[c] = Nil
        /\ \A d \in Clients \ {c} : pc'[d] = pc[d] /\ file'[d] = file[d]
    BY <1>1, <1>2, ReplyKeeps
  <1>4. OpenFiles' /\ TaskFiles'
    BY <1>3, QuietTasks DEF Working
  <1> QED
    BY <1>2, <1>3, <1>4, SameTmpsOwn DEF RingInv, StoreInv

(***************************************************************************)
(* Dropped puts.                                                            *)
(***************************************************************************)
\* The removal of a temp name.
LEMMA UnlinkTmp ==
  ASSUME Inv, TreeInv, NEW k \in Keys, NEW i \in Files,
         tree' = Unlink(tree, Append(Parent(k), TmpName(i)))
  PROVE  /\ Grown /\ TreeKeepsKeys
         /\ \A q \in Keys : tree'[q] = tree[q]
         /\ \A q \in Paths : tree'[q] \in {tree[q], NoEnt}
         /\ \A d \in Dirs, j \in Files :
              tree'[Append(d, TmpName(j))] # NoEnt =>
                tree[Append(d, TmpName(j))] # NoEnt /\ (i # j \/ d # Parent(k))
  <1> DEFINE p == Append(Parent(k), TmpName(i))
  <1>1. p \in Paths \ (Keys \cup Dirs) /\ tree \in [Paths -> Node] /\ Keys \subseteq Paths
    BY TmpBeside DEF Inv, FsTypes, Paths
  <1>2. tree[p] # Dir
    BY <1>1 DEF TreeInv, Shaped, OnlyDirs
  <1>3. Grown
    BY <1>1, <1>2, UnlinkGrown DEF Inv, TreeInv
  <1>4. TreeKeepsKeys
    BY UnlinkKeepsKeys
  <1>5. ASSUME NEW d \in Dirs, NEW j \in Files, tree'[Append(d, TmpName(j))] # NoEnt
        PROVE  tree[Append(d, TmpName(j))] # NoEnt /\ (i # j \/ d # Parent(k))
    <2>1. Append(d, TmpName(j)) \in Paths
      BY TmpOnly
    <2>2. Append(d, TmpName(j)) # p /\ tree[Append(d, TmpName(j))] # NoEnt
      BY <1>1, <1>5, <2>1 DEF Unlink
    <2> QED
      BY <2>2
  <1> HIDE DEF p
  <1>6. /\ \A q \in Keys : tree'[q] = tree[q]
        /\ \A q \in Paths : tree'[q] \in {tree[q], NoEnt}
    <2>1. tree' = Unlink(tree, p)
      BY DEF p
    <2> QED
      BY <1>1, <2>1 DEF Unlink
  <1> QED
    BY <1>3, <1>4, <1>5, <1>6

Dropping(c) == DropWriting(c) \/ DropWritten(c)

\* What a dropped put changes.
LEMMA DropChanges ==
  ASSUME RingInv, NEW c \in Clients, Dropping(c)
  PROVE  /\ Working(c) /\ call[c].op = "put" /\ Key(c) \in Keys /\ file[c] \in Files
         /\ UNCHANGED <<disk, data, born, synced, acc, todo, found, ret, orphans, crashes>>
         /\ cancels' = cancels + 1
         /\ pc' = [pc EXCEPT ![c] = "idle"] /\ call' = [call EXCEPT ![c] = Nil]
         /\ file' = [file EXCEPT ![c] = Nil]
         /\ \A d \in Clients \ {c} : /\ pc'[d] = pc[d] /\ file'[d] = file[d]
                                     /\ call'[d] = call[d] /\ ret'[d] = ret[d] /\ acc'[d] = acc[d]
         /\ pc'[c] = "idle" /\ call'[c] = Nil /\ file'[c] = Nil
         /\ \/ DropWriting(c) /\ UNCHANGED tree /\ pc[c] = "write"
            \/ DropWritten(c) /\ UNCHANGED tasks
               /\ tree' = Unlink(tree, Append(Parent(Key(c)), TmpName(file[c])))
  <1>1. Inv
    BY DEF RingInv, StoreInv
  <1>2. pc[c] \in {"write", "persist"} /\ call[c].op = "put" /\ Forget(c)
    BY DEF Dropping, DropWriting, DropWritten, At
  <1>3. Key(c) \in Keys /\ file[c] \in Files
    BY <1>1, <1>2 DEF Inv, PutArgs, Held, Working, FsTypes, Key
  <1>4. /\ UNCHANGED <<disk, data, born, synced, acc, todo, found, ret, orphans, crashes>>
        /\ cancels' = cancels + 1
        /\ pc' = [pc EXCEPT ![c] = "idle"] /\ call' = [call EXCEPT ![c] = Nil]
        /\ file' = [file EXCEPT ![c] = Nil]
    BY <1>2 DEF Forget, Goto
  <1>5. /\ \A d \in Clients \ {c} : /\ pc'[d] = pc[d] /\ file'[d] = file[d]
                                    /\ call'[d] = call[d] /\ ret'[d] = ret[d] /\ acc'[d] = acc[d]
        /\ pc'[c] = "idle" /\ call'[c] = Nil /\ file'[c] = Nil
    BY <1>1, <1>4 DEF Inv, ClientTypes
  <1>6. \/ DropWriting(c) /\ UNCHANGED tree /\ pc[c] = "write"
        \/ DropWritten(c) /\ UNCHANGED tasks
           /\ tree' = Unlink(tree, Append(Parent(Key(c)), TmpName(file[c])))
    BY DEF Dropping, DropWriting, DropWritten, At, Tmp
  <1> QED
    BY <1>2, <1>3, <1>4, <1>5, <1>6 DEF Working

LEMMA DropTree ==
  ASSUME RingInv, NEW c \in Clients, Dropping(c)
  PROVE  /\ Grown /\ TreeKeepsKeys /\ \A q \in Keys : tree'[q] = tree[q]
         /\ \A q \in Paths : tree'[q] \in {tree[q], NoEnt}
  <1>1. Inv /\ TreeInv
    BY DEF RingInv, StoreInv
  <1>2. Key(c) \in Keys /\ file[c] \in Files
    BY DropChanges
  <1>3. CASE UNCHANGED tree
    BY <1>1, <1>3, SameGrown, SameTreeKeepsKeys DEF TreeInv
  <1>4. CASE tree' = Unlink(tree, Append(Parent(Key(c)), TmpName(file[c])))
    BY <1>1, <1>2, <1>4, UnlinkTmp
  <1> QED
    BY <1>3, <1>4, DropChanges

LEMMA DropStoreInv ==
  ASSUME RingInv, NEW c \in Clients, Dropping(c)
  PROVE  StoreInv' /\ Settled
  <1>1. Inv /\ TreeInv /\ RefInv
    BY DEF RingInv, StoreInv
  <1>2. /\ UNCHANGED <<disk, data, born, synced, acc, todo, found, ret, orphans, crashes>>
        /\ cancels' = cancels + 1
        /\ pc' = [pc EXCEPT ![c] = "idle"] /\ call' = [call EXCEPT ![c] = Nil]
        /\ file' = [file EXCEPT ![c] = Nil]
    BY DropChanges
  <1>3. /\ \A d \in Clients \ {c} : /\ pc'[d] = pc[d] /\ file'[d] = file[d]
                                    /\ call'[d] = call[d] /\ ret'[d] = ret[d] /\ acc'[d] = acc[d]
        /\ pc'[c] = "idle" /\ call'[c] = Nil /\ Working(c)
    BY DropChanges
  <1>4. Grown /\ TreeKeepsKeys
    BY DropTree
  <1>5. Settled
    BY <1>2 DEF Settled
  <1>6. Inv'
    <2>1. FsTypes' /\ FaultTypes'
      BY <1>1, <1>2, <1>4 DEF Inv, FsTypes, FaultTypes, TreeKeepsKeys
    <2>2. ClientTypes'
      BY <1>1, <1>2 DEF Inv, ClientTypes, Labels
    <2>3. PutArgs'
      BY <1>1, <1>3 DEF Inv, PutArgs, TooBig
    <2>5. Held'
      <3>1. \A d \in Clients : pc'[d] # "idle" =>
              pc'[d] = pc[d] /\ file'[d] = file[d] /\ call'[d] = call[d]
        BY <1>3
      <3>2. \A i \in Files \ born' : data'[i] = <<>>
        BY <1>1, <1>2 DEF Inv, Held
      <3>3. \A d \in Clients : Working(d)' => Working(d) /\ file'[d] = file[d]
        BY <3>1 DEF Working
      <3>4. ASSUME NEW d \in Clients
            PROVE  /\ Working(d)' => file'[d] \in born'
                   /\ pc'[d] = "write" =>
                        /\ file'[d] \notin synced'
                        /\ Len(data'[file'[d]]) <= Size[call'[d].val]
                        /\ \A n \in 1..Len(data'[file'[d]]) : data'[file'[d]][n] = call'[d].val
                   /\ pc'[d] = "persist" => file'[d] \in synced'
                   /\ pc'[d] = "read" => file'[d] \in Files
        <4>1. Held
          BY <1>1 DEF Inv
        <4>2. CASE pc'[d] = "idle"
          BY <4>2 DEF Working
        <4>3. CASE pc'[d] # "idle"
          <5>1. /\ pc'[d] = pc[d] /\ file'[d] = file[d] /\ call'[d] = call[d]
                /\ UNCHANGED <<data, born, synced>>
            BY <1>2, <3>1, <4>3
          <5>2. Working(d)' <=> Working(d)
            BY <5>1 DEF Working
          <5> QED
            BY <4>1, <5>1, <5>2 DEF Held
        <4> QED
          BY <4>2, <4>3
      <3>5. \A d, e \in Clients : Working(d)' /\ Working(e)' /\ file'[d] = file'[e] => d = e
        BY <1>1, <3>3 DEF Inv, Held
      <3> QED
        BY <3>2, <3>4, <3>5 DEF Held
    <2>4. SyncedWhole' /\ KeysSynced'
      BY <1>1, <1>2, <1>4 DEF Inv, SyncedWhole, KeysSynced, TreeKeepsKeys, Whole
    <2> QED
      BY <2>1, <2>2, <2>3, <2>4, <2>5 DEF Inv
  <1>7. TreeInv'
    <2>1. Shaped(disk') /\ OrphanKeys'
      BY <1>1, <1>2 DEF TreeInv, OrphanKeys
    <2> QED
      BY <1>1, <1>3, <1>4, <2>1, FrameTreeInv
  <1>8. RefInv'
    <2>1. \A d \in Clients : RefInvOf(d)
      BY <1>1, RefInvSplit
    <2>2. \A d \in Clients \ {c} : RefInvOf(d)'
      BY <1>1, <1>3, <1>5, <2>1, RefInvFrame
    <2>3. RefInvOf(c)'
      BY <1>2, <1>3, <2>1 DEF RefInvOf, Working
    <2> QED
      BY <2>2, <2>3, RefInvSplitPrime
  <1> QED
    BY <1>5, <1>6, <1>7, <1>8 DEF StoreInv

LEMMA DropRingInv ==
  ASSUME RingInv, NEW c \in Clients, Dropping(c)
  PROVE  RingInv'
  <1>1. /\ UNCHANGED <<disk, data, born, synced>> /\ Working(c)
        /\ \A d \in Clients \ {c} : pc'[d] = pc[d] /\ file'[d] = file[d]
        /\ pc'[c] = "idle" /\ file'[c] = Nil
    BY DropChanges
  <1>2. StoreInv' /\ Inv
    BY DropStoreInv DEF RingInv, StoreInv
  <1>3. OpenFiles'
    BY <1>1 DEF RingInv, OpenFiles
  <1>4. TmpsOwn'
    <2>1. \A q \in Paths : tree'[q] \in {tree[q], NoEnt}
      BY DropTree
    <2> QED
      BY <1>1, <1>2, <2>1, TmpOnly, SameTmpsOwn DEF RingInv
  <1>5. ASSUME NEW t \in tasks PROVE TaskHolds(t)' /\ t.file # file[c]
    <2>1. TaskHolds(t)
      BY DEF RingInv, TaskFiles
    <2>2. \A d \in Clients : Working(d)' => file'[d] # t.file
      BY <1>1, <2>1 DEF TaskHolds, Working
    <2>3. TaskHolds(t)'
      BY <1>1, <2>1, <2>2, TaskFrame
    <2> QED
      BY <1>1, <2>1, <2>3 DEF TaskHolds
  <1>6. CASE UNCHANGED tasks
    <2>1. \A u \in tasks' : TaskHolds(u)'
      BY <1>5, <1>6
    <2>2. \A u, w \in tasks' : u.file = w.file => u = w
      BY <1>6 DEF RingInv, TaskFiles
    <2> QED
      BY <1>2, <1>3, <1>4, <2>1, <2>2 DEF RingInv, TaskFiles
  <1>7. CASE DropWriting(c)
    <2>1. PICK t : t = Task(c) /\ tasks' = tasks \cup {t}
      BY <1>7 DEF DropWriting
    <2>2. At(c, "write", {"put"})
      BY <1>7 DEF DropWriting
    <2>3. TaskHolds(t)'
      <3>1. /\ file[c] \in born \ synced /\ call[c].val \in Values /\ ~ TooBig(call[c].val)
            /\ \A n \in 1..Len(data[file[c]]) : data[file[c]][n] = call[c].val
            /\ \A d \in Clients \ {c} : Working(d) => file[d] # file[c]
        BY <1>2, <2>2, Writing
      <3>2. Len(data[file[c]]) <= Size[call[c].val] /\ Key(c) \in Keys
        BY <1>2, <2>2, DropChanges DEF Inv, Held, At
      <3>3. /\ t.file = file[c] /\ t.key = Key(c) /\ t.val = call[c].val
            /\ t = [file |-> file[c], key |-> Key(c), val |-> call[c].val]
        BY <2>1 DEF Task
      <3>4. t \in [file : born', key : Keys, val : Values] /\ t.file \notin synced' /\ ~ TooBig(t.val)'
        BY <1>1, <3>1, <3>2, <3>3 DEF TooBig
      <3>5. /\ Len(data'[t.file]) <= Size[t.val]
            /\ \A n \in 1..Len(data'[t.file]) : data'[t.file][n] = t.val
        BY <1>1, <3>1, <3>2, <3>3
      <3>6. \A d \in Clients : Working(d)' => file'[d] # t.file
        BY <1>1, <3>1, <3>3 DEF Working
      <3> QED
        BY <3>4, <3>5, <3>6 DEF TaskHolds
    <2>4. t.file = file[c]
      BY <2>1 DEF Task
    <2>5. \A u \in tasks' : TaskHolds(u)'
      BY <1>5, <2>1, <2>3
    <2>6. \A u, w \in tasks' : u.file = w.file => u = w
      BY <1>5, <2>1, <2>4 DEF RingInv, TaskFiles
    <2> QED
      BY <1>2, <1>3, <1>4, <2>5, <2>6 DEF RingInv, TaskFiles
  <1> QED
    BY <1>2, <1>3, <1>4, <1>6, <1>7, DropChanges DEF RingInv

(***************************************************************************)
(* Closures whose put was dropped.                                          *)
(***************************************************************************)
\* A closure writes only its own file, and syncs it only when it is whole.
LEMMA TaskStep ==
  ASSUME RingInv, NEW t \in tasks, TaskWrites(t) \/ TaskEnds(t) \/ TaskFails(t)
  PROVE  /\ t.file \in born \ synced /\ t.file \in Files /\ t.key \in Keys /\ t.val \in Values
         /\ \A i \in Files : i # t.file => data'[i] = data[i]
         /\ data' \in [Files -> Seq(Values)]
         /\ Len(data'[t.file]) <= Size[t.val]
         /\ \A n \in 1..Len(data'[t.file]) : data'[t.file][n] = t.val
         /\ born' = born /\ synced' \in {synced, synced \cup {t.file}}
         /\ t.file \in synced' => Whole(data'[t.file])
         /\ \/ UNCHANGED <<tree, synced, tasks>>
            \/ /\ tasks' = tasks \ {t}
               /\ tree' = Unlink(tree, Append(Parent(t.key), TmpName(t.file)))
  <1>1. /\ t.file \in born \ synced /\ t.file \in Files /\ t.key \in Keys /\ t.val \in Values
        /\ ~ TooBig(t.val) /\ Len(data[t.file]) <= Size[t.val]
        /\ \A n \in 1..Len(data[t.file]) : data[t.file][n] = t.val
        /\ data \in [Files -> Seq(Values)] /\ Size[t.val] \in Nat
    BY ConstantsAssumption DEF RingInv, TaskFiles, TaskHolds, StoreInv, Inv, FsTypes
  <1>2. CASE TaskWrites(t)
    <2>1. /\ Len(data[t.file]) < Size[t.val] /\ UNCHANGED <<tree, born, synced, tasks>>
          /\ data' = [data EXCEPT ![t.file] = Append(data[t.file], t.val)]
      BY <1>2 DEF TaskWrites
    <2>2. data'[t.file] = Append(data[t.file], t.val) /\ data[t.file] \in Seq(Values)
      BY <1>1, <2>1
    <2>3. data' \in [Files -> Seq(Values)] /\ \A i \in Files : i # t.file => data'[i] = data[i]
      BY <1>1, <2>1
    <2>4. /\ Len(data'[t.file]) <= Size[t.val]
          /\ \A n \in 1..Len(data'[t.file]) : data'[t.file][n] = t.val
      BY <1>1, <2>1, <2>2
    <2> QED
      BY <1>1, <2>1, <2>3, <2>4
  <1>3. CASE TaskEnds(t)
    <2>1. /\ Len(data[t.file]) = Size[t.val] /\ data' = data /\ born' = born
          /\ synced' = synced \cup {t.file} /\ tasks' = tasks \ {t}
          /\ tree' = Unlink(tree, Append(Parent(t.key), TmpName(t.file)))
      BY <1>3 DEF TaskEnds, TaskTmp
    <2>2. data[t.file] = Full(t.val)
      BY <1>1, <2>1, FilledIsFull
    <2> QED
      BY <1>1, <2>1, <2>2 DEF Whole
  <1>4. CASE TaskFails(t)
    BY <1>1, <1>4 DEF TaskFails, TaskTmp
  <1> QED
    BY <1>2, <1>3, <1>4

LEMMA TaskTree ==
  ASSUME RingInv, NEW t \in tasks, TaskWrites(t) \/ TaskEnds(t) \/ TaskFails(t)
  PROVE  /\ Grown /\ TreeKeepsKeys /\ \A q \in Keys : tree'[q] = tree[q]
         /\ \A q \in Paths : tree'[q] \in {tree[q], NoEnt}
  <1>1. Inv /\ TreeInv
    BY DEF RingInv, StoreInv
  <1>2. t.key \in Keys /\ t.file \in Files
    BY TaskStep
  <1>3. CASE UNCHANGED tree
    BY <1>1, <1>3, SameGrown, SameTreeKeepsKeys DEF TreeInv
  <1>4. CASE tree' = Unlink(tree, Append(Parent(t.key), TmpName(t.file)))
    BY <1>1, <1>2, <1>4, UnlinkTmp
  <1> QED
    BY <1>3, <1>4, TaskStep

LEMMA TasksStoreInv ==
  ASSUME RingInv, Tasks
  PROVE  StoreInv' /\ Settled
  <1>1. Inv /\ TreeInv /\ RefInv
    BY DEF RingInv, StoreInv
  <1>2. PICK t \in tasks : TaskWrites(t) \/ TaskEnds(t) \/ TaskFails(t)
    BY DEF Tasks
  <1>3. UNCHANGED <<disk, pc, call, file, acc, todo, found, ret, orphans, cancels, crashes>>
    BY DEF Tasks, local, faults
  <1>4. /\ t.file \in born \ synced /\ t.file \in Files
        /\ \A i \in Files : i # t.file => data'[i] = data[i]
        /\ data' \in [Files -> Seq(Values)]
        /\ born' = born /\ synced' \in {synced, synced \cup {t.file}}
        /\ t.file \in synced' => Whole(data'[t.file])
    BY <1>2, TaskStep
  <1>5. Grown /\ TreeKeepsKeys
    BY <1>2, TaskTree
  <1>6. synced \subseteq Files /\ born \subseteq Files
    BY <1>1 DEF Inv, FsTypes
  <1>7. Settled
    BY <1>4, <1>6 DEF Settled
  <1>8. \A c \in Clients : Working(c) => file[c] # t.file /\ data'[file[c]] = data[file[c]]
    BY <1>1, <1>2, <1>4, <1>6 DEF RingInv, TaskFiles, TaskHolds, Inv, Held
  <1>9. Inv'
    <2>1. FsTypes' /\ FaultTypes'
      BY <1>1, <1>3, <1>4, <1>5 DEF Inv, FsTypes, FaultTypes, TreeKeepsKeys
    <2>2. ClientTypes'
      BY <1>1, <1>3 DEF Inv, ClientTypes
    <2>3. PutArgs'
      BY <1>1, <1>3 DEF Inv, PutArgs, TooBig
    <2>4. Held'
      <3>1. \A i \in Files \ born' : data'[i] = <<>>
        BY <1>1, <1>4 DEF Inv, Held
      <3>2. \A c \in Clients :
              /\ Working(c)' => Working(c) /\ file'[c] \in born'
              /\ pc'[c] = "write" =>
                   /\ file'[c] \notin synced'
                   /\ Len(data'[file'[c]]) <= Size[call'[c].val]
                   /\ \A n \in 1..Len(data'[file'[c]]) : data'[file'[c]][n] = call'[c].val
              /\ pc'[c] = "persist" => file'[c] \in synced'
              /\ pc'[c] = "read" => file'[c] \in Files
        BY <1>1, <1>3, <1>4, <1>8 DEF Inv, Held, Working
      <3>3. \A c, d \in Clients : Working(c)' /\ Working(d)' /\ file'[c] = file'[d] => c = d
        BY <1>1, <1>3 DEF Inv, Held, Working
      <3> QED
        BY <3>1, <3>2, <3>3 DEF Held
    <2>5. SyncedWhole' /\ KeysSynced'
      <3>1. \A i \in synced' : Whole(data'[i])
        BY <1>1, <1>4, <1>7 DEF Inv, SyncedWhole, Settled
      <3>2. SyncedWhole'
        BY <3>1 DEF SyncedWhole, Whole, TooBig, Full
      <3> QED
        BY <1>1, <1>3, <1>5, <1>7, <3>2 DEF Inv, KeysSynced, TreeKeepsKeys, Settled
    <2> QED
      BY <2>1, <2>2, <2>3, <2>4, <2>5 DEF Inv
  <1>10. TreeInv'
    <2>1. Shaped(disk') /\ OrphanKeys'
      BY <1>1, <1>3 DEF TreeInv, OrphanKeys
    <2> QED
      BY <1>1, <1>3, <1>5, <2>1, FrameTreeInv
  <1>11. RefInv'
    <2>1. \A d \in Clients : RefInvOf(d)
      BY <1>1, RefInvSplit
    <2>2. \A d \in Clients : RefInvOf(d)'
      BY <1>1, <1>3, <1>7, <2>1, RefInvFrame
    <2> QED
      BY <2>2, RefInvSplitPrime
  <1> QED
    BY <1>7, <1>9, <1>10, <1>11 DEF StoreInv

LEMMA TasksRingInv ==
  ASSUME RingInv, Tasks
  PROVE  RingInv'
  <1>1. StoreInv' /\ Inv
    BY TasksStoreInv DEF RingInv, StoreInv
  <1>2. PICK t \in tasks : TaskWrites(t) \/ TaskEnds(t) \/ TaskFails(t)
    BY DEF Tasks
  <1>3. UNCHANGED <<disk, pc, file>>
    BY DEF Tasks, local
  <1>4. /\ t.file \in born \ synced /\ t.file \in Files
        /\ \A i \in Files : i # t.file => data'[i] = data[i]
        /\ Len(data'[t.file]) <= Size[t.val]
        /\ \A n \in 1..Len(data'[t.file]) : data'[t.file][n] = t.val
        /\ born' = born /\ synced' \in {synced, synced \cup {t.file}}
        /\ UNCHANGED <<synced, tasks>> \/ tasks' = tasks \ {t}
    BY <1>2, TaskStep
  <1>5. OpenFiles'
    BY <1>3 DEF RingInv, OpenFiles
  <1>6. TmpsOwn'
    <2>1. \A q \in Paths : tree'[q] \in {tree[q], NoEnt}
      BY <1>2, TaskTree
    <2> QED
      BY <1>1, <1>3, <2>1, TmpOnly, SameTmpsOwn DEF RingInv
  <1>7. ASSUME NEW u \in tasks' PROVE TaskHolds(u)'
    <2>1. u \in tasks /\ TaskHolds(u) /\ TaskHolds(t)
      BY <1>2, <1>4 DEF RingInv, TaskFiles
    <2>2. \A c \in Clients : Working(c)' => file'[c] # u.file
      BY <1>3, <2>1 DEF TaskHolds, Working
    <2>3. CASE u = t
      <3>1. UNCHANGED <<synced, tasks>>
        BY <1>4, <2>3
      <3> QED
        BY <1>4, <2>1, <2>2, <2>3, <3>1 DEF TaskHolds, TooBig
    <2>4. CASE u # t
      <3>1. u.file # t.file /\ u.file \in Files
        BY <1>1, <1>2, <2>1, <2>4 DEF RingInv, TaskFiles, TaskHolds, Inv, FsTypes
      <3> QED
        BY <1>4, <2>1, <2>2, <3>1, TaskFrame
    <2> QED
      BY <2>3, <2>4
  <1>8. TaskFiles'
    <2>1. tasks' \subseteq tasks
      BY <1>4
    <2>2. \A u, w \in tasks' : u.file = w.file => u = w
      BY <2>1 DEF RingInv, TaskFiles
    <2> QED
      BY <1>7, <2>2 DEF TaskFiles
  <1> QED
    BY <1>1, <1>5, <1>6, <1>8 DEF RingInv

(***************************************************************************)
(* The invariant and what it implies.                                       *)
(***************************************************************************)
LEMMA RingSplit ==
  ASSUME RingNext
  PROVE  \/ StoreNext /\ UNCHANGED tasks
         \/ \E c \in Clients : RingGet(c) /\ UNCHANGED tasks
         \/ \E c \in Clients : Dropping(c)
         \/ Tasks
         \/ Crash /\ tasks' = {}
  BY RingAssumption DEF RingNext, RingStep, StoreNext, RingGet, Dropping

LEMMA RingStutterInv ==
  ASSUME RingInv, UNCHANGED ringVars
  PROVE  RingInv'
  <1>1. UNCHANGED vars /\ UNCHANGED tasks
    BY DEF ringVars
  <1>2. StoreInv'
    BY <1>1, NextStoreInv DEF RingInv
  <1>3. UNCHANGED <<tree, disk, data, born, synced, pc, file>>
    BY <1>1 DEF vars
  <1>4. OpenFiles' /\ TaskFiles'
    BY <1>1, <1>3, QuietTasks DEF Working
  <1> QED
    BY <1>2, <1>3, <1>4, SameTmpsOwn DEF RingInv, StoreInv

LEMMA RingInvIsInductive == RingInv /\ [RingNext]_ringVars => RingInv'
  BY RingSplit, StoreNextInv, RingGetInv, DropRingInv, TasksRingInv, CrashRingInv, RingStutterInv

LEMMA SpecRingInv == RingSpec => []RingInv
  BY InitRingInv, RingInvIsInductive, PTL DEF RingSpec

\* Every variable keeps its type, and a closure that outlived its put is the
\* only one to write its file: nobody else is given that file or its name.
THEOREM RingTypeSafety == RingSpec => []RingTypeOK
  <1>1. RingInv => RingTypeOK
    <2> SUFFICES ASSUME RingInv PROVE RingTypeOK
      OBVIOUS
    <2>1. Inv /\ pc \in [Clients -> Labels] /\ born \subseteq Files
      BY DEF RingInv, StoreInv, Inv, ClientTypes, FsTypes
    <2>2. TypeOK
      BY <2>1 DEF Inv, TypeOK, FsTypes, ClientTypes, FaultTypes
    <2>3. \A t \in tasks : t \in [file : born, key : Keys, val : Values]
          /\ Len(data[t.file]) <= Size[t.val]
      BY DEF RingInv, TaskFiles, TaskHolds
    <2>4. ASSUME NEW t \in tasks PROVE tree[TaskTmp(t)] \in {t.file, NoEnt}
      <3>1. t.file \in Files /\ Parent(t.key) \in Dirs
        BY <2>1, <2>3, AboveKey
      <3> QED
        BY <3>1 DEF RingInv, TmpsOwn, TaskTmp
    <2>5. ASSUME NEW t \in tasks, NEW c \in Clients, file[c] = t.file PROVE pc[c] = "read"
      <3>1. t.file # Nil
        BY <2>1, <2>3, ConstantsAssumption
      <3>2. ~ Working(c)
        BY <2>5 DEF RingInv, TaskFiles, TaskHolds
      <3> QED
        BY <2>5, <3>1, <3>2 DEF RingInv, OpenFiles, Working
    <2> QED
      BY <2>2, <2>3, <2>4, <2>5 DEF RingTypeOK
  <1> QED
    BY <1>1, SpecRingInv, PTL

\* With closures that outlive their puts beside LocalStore handles on the same
\* directory, a key still names nothing or one complete synced payload.
THEOREM RingBlobsWhole == RingSpec => []BlobsWhole
  <1>1. RingInv => BlobsWhole
    BY DEF RingInv, StoreInv, Inv, BlobsWhole, SyncedWhole, KeysSynced, FsTypes
  <1> QED
    BY <1>1, SpecRingInv, PTL

(***************************************************************************)
(* Temp files.                                                              *)
(***************************************************************************)
Holder(d, i) ==
  \/ \E c \in Clients : Working(c) /\ file[c] = i /\ d = Parent(Key(c))
  \/ \E t \in tasks : t.file = i /\ d = Parent(t.key)

RingTemps ==
  crashes = 0 =>
    \A d \in Dirs, i \in Files : tree[Append(d, TmpName(i))] # NoEnt => Holder(d, i)

\* A temp name that stays keeps its holder, and one that is new has one.
LEMMA RingTempsFrame ==
  ASSUME RingTemps, crashes' = crashes,
         \A d \in Dirs, i \in Files :
           /\ tree'[Append(d, TmpName(i))] # NoEnt
           /\ tree[Append(d, TmpName(i))] # NoEnt => Holder(d, i)
           => Holder(d, i)'
  PROVE  RingTemps'
  BY DEF RingTemps

LEMMA StepRingTemps ==
  ASSUME RingInv, RingTemps, NEW c \in Clients, Step(c), UNCHANGED tasks
  PROVE  RingTemps'
  <1>1. Inv /\ TreeInv
    BY DEF RingInv, StoreInv
  <1>2. /\ UNCHANGED <<call, crashes>>
        /\ \A d \in Clients \ {c} : pc'[d] = pc[d] /\ file'[d] = file[d]
    BY <1>1, StepFrame
  <1>3. ASSUME NEW d \in Dirs, NEW i \in Files, tree'[Append(d, TmpName(i))] # NoEnt,
               tree[Append(d, TmpName(i))] # NoEnt => Holder(d, i)
        PROVE  Holder(d, i)'
    <2>1. \/ /\ tree[Append(d, TmpName(i))] # NoEnt
             /\ \/ ~ Working(c)
                \/ Working(c)' /\ file'[c] = file[c]
                \/ Append(d, TmpName(i)) # Tmp(c)
          \/ Working(c)' /\ file'[c] = i /\ d = Parent(Key(c))
      BY <1>1, <1>3, StepTempNames DEF TempNames
    <2>2. CASE Working(c)' /\ file'[c] = i /\ d = Parent(Key(c))
      BY <1>2, <2>2 DEF Holder, Key
    <2>3. CASE /\ tree[Append(d, TmpName(i))] # NoEnt
               /\ \/ ~ Working(c)
                  \/ Working(c)' /\ file'[c] = file[c]
                  \/ Append(d, TmpName(i)) # Tmp(c)
      <3>1. CASE \E t \in tasks : t.file = i /\ d = Parent(t.key)
        BY <3>1 DEF Holder
      <3>2. ASSUME NEW b \in Clients, Working(b), file[b] = i, d = Parent(Key(b))
            PROVE  Holder(d, i)'
        <4>1. CASE b # c
          BY <1>2, <3>2, <4>1 DEF Holder, Working, Key
        <4>2. CASE b = c
          <5>1. Append(d, TmpName(i)) = Tmp(c)
            BY <3>2, <4>2 DEF Tmp
          <5>2. Working(c)' /\ file'[c] = i /\ d = Parent(Key(c))
            BY <2>3, <3>2, <4>2, <5>1
          <5> QED
            BY <1>2, <5>2 DEF Holder, Key
        <4> QED
          BY <4>1, <4>2
      <3> QED
        BY <1>3, <2>3, <3>1, <3>2 DEF Holder
    <2> QED
      BY <2>1, <2>2, <2>3
  <1> QED
    BY <1>2, <1>3, RingTempsFrame

\* Steps that take temp names away at most, and leave the others their holders.
LEMMA KeptRingTemps ==
  ASSUME RingTemps, crashes' = crashes,
         \A d \in Dirs, i \in Files : tree'[Append(d, TmpName(i))] # NoEnt =>
           tree[Append(d, TmpName(i))] # NoEnt,
         \A c \in Clients : Working(c) => Working(c)' /\ file'[c] = file[c] /\ call'[c] = call[c],
         tasks \subseteq tasks'
  PROVE  RingTemps'
  <1>1. ASSUME NEW d \in Dirs, NEW i \in Files, Holder(d, i) PROVE Holder(d, i)'
    BY <1>1 DEF Holder, Key
  <1> QED
    BY <1>1, RingTempsFrame

LEMMA DropRingTemps ==
  ASSUME RingInv, RingTemps, NEW c \in Clients, Dropping(c)
  PROVE  RingTemps'
  <1>1. Inv /\ TreeInv
    BY DEF RingInv, StoreInv
  <1>2. /\ crashes' = crashes /\ Key(c) \in Keys /\ file[c] \in Files
        /\ \A d \in Clients \ {c} : pc'[d] = pc[d] /\ file'[d] = file[d] /\ call'[d] = call[d]
        /\ \/ DropWriting(c) /\ UNCHANGED tree /\ pc[c] = "write"
           \/ DropWritten(c) /\ UNCHANGED tasks
              /\ tree' = Unlink(tree, Append(Parent(Key(c)), TmpName(file[c])))
    BY DropChanges
  <1>3. ASSUME NEW d \in Dirs, NEW i \in Files, NEW b \in Clients \ {c},
               Working(b), file[b] = i, d = Parent(Key(b))
        PROVE  Holder(d, i)'
    BY <1>2, <1>3 DEF Holder, Working, Key
  <1>4. CASE DropWriting(c) /\ UNCHANGED tree
    <2>1. PICK t : t = Task(c) /\ tasks' = tasks \cup {t}
      BY <1>4 DEF DropWriting
    <2>2. t.file = file[c] /\ t.key = Key(c)
      BY <2>1 DEF Task
    <2>3. ASSUME NEW d \in Dirs, NEW i \in Files, Holder(d, i) PROVE Holder(d, i)'
      BY <1>3, <2>1, <2>2, <2>3 DEF Holder
    <2> QED
      BY <1>2, <1>4, <2>3, RingTempsFrame
  <1>5. CASE /\ UNCHANGED tasks
             /\ tree' = Unlink(tree, Append(Parent(Key(c)), TmpName(file[c])))
    <2>1. \A d \in Dirs, i \in Files : tree'[Append(d, TmpName(i))] # NoEnt =>
            tree[Append(d, TmpName(i))] # NoEnt /\ (file[c] # i \/ d # Parent(Key(c)))
      BY <1>1, <1>2, <1>5, UnlinkTmp
    <2>2. ASSUME NEW d \in Dirs, NEW i \in Files, tree'[Append(d, TmpName(i))] # NoEnt,
                 Holder(d, i)
          PROVE  Holder(d, i)'
      <3>1. file[c] # i \/ d # Parent(Key(c))
        BY <2>1, <2>2
      <3>2. CASE \E t \in tasks : t.file = i /\ d = Parent(t.key)
        BY <1>5, <3>2 DEF Holder
      <3> QED
        BY <1>3, <2>2, <3>1, <3>2 DEF Holder
    <2> QED
      BY <1>2, <2>1, <2>2, RingTempsFrame
  <1> QED
    BY <1>2, <1>4, <1>5

LEMMA TasksRingTemps ==
  ASSUME RingInv, RingTemps, Tasks
  PROVE  RingTemps'
  <1>1. Inv /\ TreeInv
    BY DEF RingInv, StoreInv
  <1>2. UNCHANGED <<pc, call, file, crashes>>
    BY DEF Tasks, local, faults
  <1>3. PICK t \in tasks : TaskWrites(t) \/ TaskEnds(t) \/ TaskFails(t)
    BY DEF Tasks
  <1>4. /\ t.file \in Files /\ t.key \in Keys
        /\ \/ UNCHANGED <<tree, synced, tasks>>
           \/ /\ tasks' = tasks \ {t}
              /\ tree' = Unlink(tree, Append(Parent(t.key), TmpName(t.file)))
    BY <1>3, TaskStep
  <1>5. CASE UNCHANGED <<tree, tasks>>
    BY <1>2, <1>5, KeptRingTemps DEF Working
  <1>6. CASE /\ tasks' = tasks \ {t}
             /\ tree' = Unlink(tree, Append(Parent(t.key), TmpName(t.file)))
    <2>1. \A d \in Dirs, i \in Files : tree'[Append(d, TmpName(i))] # NoEnt =>
            tree[Append(d, TmpName(i))] # NoEnt /\ (t.file # i \/ d # Parent(t.key))
      BY <1>1, <1>4, <1>6, UnlinkTmp
    <2>2. ASSUME NEW d \in Dirs, NEW i \in Files, tree'[Append(d, TmpName(i))] # NoEnt,
                 Holder(d, i)
          PROVE  Holder(d, i)'
      BY <1>2, <1>6, <2>1, <2>2 DEF Holder, Working, Key
    <2> QED
      BY <1>2, <2>1, <2>2, RingTempsFrame
  <1> QED
    BY <1>4, <1>5, <1>6

LEMMA StoreRingTemps ==
  ASSUME RingInv, RingTemps, StoreNext, UNCHANGED tasks
  PROVE  RingTemps'
  <1>1. Inv /\ TreeInv /\ pc \in [Clients -> Labels]
    BY DEF RingInv, StoreInv, Inv, ClientTypes
  <1>2. ASSUME NEW c \in Clients, Invoke(c) \/ Cancel(c) PROVE RingTemps'
    <2>1. UNCHANGED <<tree, crashes>> /\ ~ Working(c)
          /\ \A d \in Clients \ {c} : pc'[d] = pc[d] /\ call'[d] = call[d] /\ file'[d] = file[d]
      BY <1>1, <1>2 DEF Invoke, Cancel, fs, faults, Goto, Idle, Begin, At, Working, Inv, ClientTypes
    <2> QED
      BY <2>1, KeptRingTemps DEF Working
  <1>3. CASE Orphan
    <2>1. UNCHANGED <<pc, call, file, crashes>>
      BY <1>3 DEF Orphan, local
    <2>2. PICK o \in orphans : OrphanUnlink(o) \/ OrphanMkdir(o) \/ OrphanEnds(o)
      BY <1>3 DEF Orphan
    <2> QED
      BY <1>1, <2>1, <2>2, OrphanTemps, KeptRingTemps DEF Working
  <1>4. CASE Commit
    <2>1. UNCHANGED <<tree, pc, call, file, crashes>>
      BY <1>4 DEF Commit, fs, local, faults
    <2> QED
      BY <2>1, KeptRingTemps DEF Working
  <1> QED
    BY <1>2, <1>3, <1>4, StepRingTemps DEF StoreNext

LEMMA RingTempsIsInductive == RingInv /\ RingTemps /\ [RingNext]_ringVars => RingTemps'
  <1> SUFFICES ASSUME RingInv, RingTemps, [RingNext]_ringVars PROVE RingTemps'
    OBVIOUS
  <1>1. ASSUME NEW c \in Clients, RingGet(c), UNCHANGED tasks PROVE RingTemps'
    <2>1. PICK r \in Results : Reply(c, r)
      BY <1>1, RingGetReplies
    <2>2. pc[c] \in {"start", "read"} /\ StoreInv
      BY <1>1, RingGetReplies DEF RingInv
    <2>3. /\ UNCHANGED <<tree, call, crashes>>
          /\ \A d \in Clients \ {c} : pc'[d] = pc[d] /\ file'[d] = file[d]
      BY <2>1, <2>2, ReplyKeeps
    <2> QED
      BY <1>1, <2>2, <2>3, KeptRingTemps DEF Working
  <1>2. CASE Crash
    <2>1. crashes' # 0
      BY <1>2 DEF Crash, RingInv, StoreInv, Inv, FaultTypes
    <2> QED
      BY <2>1 DEF RingTemps
  <1>3. CASE UNCHANGED ringVars
    <2>1. UNCHANGED <<tree, pc, call, file, crashes, tasks>>
      BY <1>3 DEF ringVars, vars
    <2> QED
      BY <2>1, KeptRingTemps DEF Working
  <1> QED
    BY <1>1, <1>2, <1>3, RingSplit, StoreRingTemps, DropRingTemps, TasksRingTemps

LEMMA InitRingTemps == RingInit => RingTemps
  BY InitTemps DEF RingInit, Temps, RingTemps, Holder

\* As long as the machine has not lost power, a temp file belongs to a put at
\* work or to a closure that will drop it: a put dropped before, during or after
\* its closure leaves none for good.
THEOREM RingNoTempLeftBehind == RingSpec => []RingTempsOwned
  <1>1. RingTemps => RingTempsOwned
    BY DEF RingTemps, RingTempsOwned, Holder, Working
  <1> QED
    BY <1>1, InitRingTemps, RingTempsIsInductive, SpecRingInv, PTL DEF RingSpec

(***************************************************************************)
(* IoUringStore implements BlobStore.                                       *)
(***************************************************************************)
\* The answer of a get that has its file open is the one BlobStore gave at the open.
LEMMA RingGetEndsRefines ==
  ASSUME RingInv, NEW c \in Clients, RingGetEnds(c)
  PROVE  AbstractStep
  <1>1. pc[c] = "read" /\ Reply(c, Ok(data[file[c]]))
    BY DEF RingGetEnds
  <1>2. Ok(data[file[c]]) \in Results /\ StoreInv
    BY <1>1 DEF RingInv, StoreInv, Inv, Held, FsTypes, Ok, Results
  <1>3. /\ Frame(c) /\ Blobs' = Blobs /\ UNCHANGED call
        /\ pc'[c] = "done" /\ ret'[c] = Ok(data[file[c]])
    BY <1>1, <1>2, ReplyKeeps
  <1>4. CASE ~ Visible(c)
    BY <1>3, <1>4, Invisible
  <1>5. CASE Visible(c)
    <2>1. Outcome(c) = Ok(data[file[c]])
      BY <1>1, <1>5 DEF Outcome
    <2>2. Outcome(c)' = Ok(data[file[c]])
      BY <1>3, <1>5 DEF Outcome, Visible
    <2> QED
      BY <1>3, <2>1, <2>2, Unseen
  <1> QED
    BY <1>4, <1>5

\* A get of a directory fails, or names no blob.
LEMMA RingGetDirRefines ==
  ASSUME RingInv, DirLen > 0 \/ Keys \cap Dirs = {}, NEW c \in Clients, RingGetDir(c)
  PROVE  AbstractStep
  <1>1. Inv /\ TreeInv /\ RefInv /\ StoreInv
    BY DEF RingInv, StoreInv
  <1>2. pc[c] = "start" /\ Stat(Key(c)) = Dir
    BY DEF RingGetDir, OwnGet, At
  <1>3. PICK r \in {Ok(<<>>), Err("Io")} : Reply(c, r) /\ (r = Ok(<<>>) => DirLen = 0)
    BY DEF RingGetDir, Ok, Err
  <1>4. r \in Results
    <2>1. Ok(<<>>) \in Results /\ Err("Io") \in Results
      BY DEF Ok, Err, Results
    <2> QED
      BY <1>3, <2>1
  <1>5. Frame(c) /\ Blobs' = Blobs /\ UNCHANGED call
    BY <1>1, <1>2, <1>3, <1>4, ReplyKeeps
  <1>6. CASE ~ Visible(c)
    BY <1>5, <1>6, Invisible
  <1>7. CASE Visible(c)
    <2>1. Key(c) \in Keys \cap Dirs
      BY <1>1, <1>2, <1>7, Viewed, KeyLookup
    <2>2. r = Err("Io")
      BY <1>3, <2>1
    <2>3. Done(c, r)
      BY <1>3 DEF Reply
    <2>4. Answered(c, r)
      BY <1>1, <1>2, <1>5, <1>7, <2>3, DoneAnswers
    <2> QED
      BY <1>1, <1>5, <2>2, <2>4, AnsweredFails
  <1> QED
    BY <1>6, <1>7

\* A dropped put is given up: the key keeps the blob it has, now and later.
LEMMA DropRefines ==
  ASSUME RingInv, NEW c \in Clients, Dropping(c)
  PROVE  AbstractStep
  <1>1. Inv /\ RefInv
    BY DEF RingInv, StoreInv
  <1>2. /\ UNCHANGED <<disk, orphans>> /\ call'[c] = Nil
        /\ \A d \in Clients \ {c} : /\ pc'[d] = pc[d] /\ file'[d] = file[d]
                                    /\ call'[d] = call[d] /\ ret'[d] = ret[d]
    BY DropChanges
  <1>3. Settled /\ \A q \in Keys : tree'[q] = tree[q]
    BY DropStoreInv, DropTree
  <1>4. Blobs' = Blobs /\ Durable' = Durable /\ Detached' = Detached
    BY <1>1, <1>2, <1>3, SameBlobs, SameDurable DEF Detached
  <1>5. PendingCall(c)' = Nil /\ Outcome(c)' = Nil
    BY <1>2 DEF PendingCall, Outcome, Visible
  <1>6. Calling' = [Calling EXCEPT ![c] = Nil] /\ Outcomes' = [Outcomes EXCEPT ![c] = Nil]
    BY <1>1, <1>2, <1>3, <1>5, OthersSeen
  <1> QED
    BY <1>1, <1>4, <1>6, GivesUp

\* What a closure does once its put is dropped, BlobStore does not see.
LEMMA TasksRefine ==
  ASSUME RingInv, Tasks
  PROVE  AbstractStep
  <1>1. Inv /\ RefInv
    BY DEF RingInv, StoreInv
  <1>2. UNCHANGED <<disk, pc, call, file, ret, orphans>>
    BY DEF Tasks, local, faults
  <1>3. PICK t \in tasks : TaskWrites(t) \/ TaskEnds(t) \/ TaskFails(t)
    BY DEF Tasks
  <1>4. Settled /\ \A q \in Keys : tree'[q] = tree[q]
    BY <1>3, TasksStoreInv, TaskTree
  <1>5. Blobs' = Blobs /\ Durable' = Durable /\ Detached' = Detached
    BY <1>1, <1>2, <1>4, SameBlobs, SameDurable DEF Detached
  <1>6. Calling' = Calling
    BY <1>2 DEF Calling, PendingCall, Visible, Full
  <1>7. Outcomes' = Outcomes
    <2>1. \A d \in Clients : Outcome(d)' = Outcome(d)
      BY <1>1, <1>2, <1>4, SameOutcome
    <2> QED
      BY <2>1 DEF Outcomes
  <1> QED
    BY <1>5, <1>6, <1>7 DEF AbstractStep, Abstract!vars

LEMMA RingNextRefines ==
  ASSUME RingInv, DirLen > 0 \/ Keys \cap Dirs = {}, [RingNext]_ringVars
  PROVE  AbstractStep
  <1>1. Inv /\ TreeInv /\ RefInv
    BY DEF RingInv, StoreInv
  <1>2. CASE StoreNext \/ Crash \/ UNCHANGED ringVars
    <2>1. [Next]_vars
      BY <1>2 DEF StoreNext, Next, ringVars
    <2> QED
      BY <1>1, <2>1, NextRefines
  <1> QED
    BY <1>2, RingSplit, RingGetEndsRefines, RingGetDirRefines, DropRefines, TasksRefine DEF RingGet

\* Clients of IoUringStore and of LocalStore on one directory see one dictionary
\* of whole blobs, as in LocalStoreIsBlobStore.  Where an empty directory has
\* length 0 a get of a key that names one answers with an empty blob nobody put
\* (RingGetDir), so that there no key may also be a folder of another key.
THEOREM RingIsBlobStore ==
  ASSUME DirLen > 0 \/ Keys \cap Dirs = {}
  PROVE  RingSpec => ImplementsBlobStore
  <1>1. RingInit => Abstract!Init
    BY InitRefines DEF RingInit
  <1>2. RingInv /\ [RingNext]_ringVars => [Abstract!Next]_(Abstract!vars)
    BY RingNextRefines DEF AbstractStep
  <1> QED
    BY <1>1, <1>2, SpecRingInv, PTL DEF RingSpec, ImplementsBlobStore, Abstract!Spec
================================================================================
