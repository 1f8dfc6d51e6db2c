--------------------------- MODULE LocalStoreProofs ---------------------------
(***************************************************************************)
(* LocalStore, for any number of clients, keys, payloads, files, dropped    *)
(* futures and power failures: a key never names anything but a complete,   *)
(* synced payload, the directory tree has no holes, no put leaves its temp  *)
(* file behind, and the store implements BlobStore.                         *)
(*                                                                         *)
(* BlobsWhole alone is not inductive: the rename publishes whatever the     *)
(* client's temp file holds.  Inv therefore also follows the payload from   *)
(* the call (PutArgs) through the temp file, owned by one put at a time     *)
(* (Held), to the synced files (SyncedWhole) that keys may name             *)
(* (KeysSynced).  TreeInv and RefInv come with the parts that need them.    *)
(***************************************************************************)
EXTENDS LocalStoreRefinement, ObjectKeyProofs

Working(c) == pc[c] \in {"write", "persist"}

\* TypeOK in three parts, each the concern of few actions
FsTypes ==
  /\ tree \in [Paths -> Node] /\ disk \in [Paths -> Node]
  /\ data \in [Files -> Seq(Values)]
  /\ born \subseteq Files /\ synced \subseteq born

ClientTypes ==
  /\ pc \in [Clients -> Labels]
  /\ call \in [Clients -> Calls \cup {Nil}] /\ ret \in [Clients -> Results \cup {Nil}]
  /\ file \in [Clients -> Files \cup {Nil}] /\ acc \in [Clients -> Seq(Values)]
  /\ todo \in [Clients -> SUBSET Paths] /\ found \in [Clients -> SUBSET Paths]

FaultTypes == orphans \subseteq Orphans /\ cancels \in Nat /\ crashes \in Nat

\* what a put was called with, and that it got past the quota
PutArgs ==
  \A c \in Clients : pc[c] # "idle" =>
    /\ call[c].op # "list" => call[c].key \in Paths
    /\ call[c].op = "put" => call[c].key \in Keys /\ call[c].val \in Values
    /\ pc[c] \in {"mkdir", "create", "write", "persist"} =>
         call[c].op = "put" /\ ~ TooBig(call[c].val)

\* a temp file grows towards its payload and belongs to one put
Held ==
  /\ \A i \in Files \ born : data[i] = <<>>
  /\ \A c \in Clients :
       /\ Working(c) => file[c] \in born
       /\ pc[c] = "write" =>
            /\ file[c] \notin synced
            /\ Len(data[file[c]]) <= Size[call[c].val]
            /\ \A n \in 1..Len(data[file[c]]) : data[file[c]][n] = call[c].val
       /\ pc[c] = "persist" => file[c] \in synced
       /\ pc[c] = "read" => file[c] \in Files
  /\ \A c, d \in Clients : Working(c) /\ Working(d) /\ file[c] = file[d] => c = d

SyncedWhole == \A i \in synced : Whole(data[i])

KeysSynced ==
  \A k \in Keys : /\ tree[k] \in Files => tree[k] \in synced
                  /\ disk[k] \in Files => disk[k] \in synced

Inv == FsTypes /\ ClientTypes /\ FaultTypes /\ PutArgs /\ Held /\ SyncedWhole /\ KeysSynced

USE ConstantsAssumption

LEMMA InitInv == Init => Inv
  <1> SUFFICES ASSUME Init PROVE Inv
    OBVIOUS
  <1>1. FsTypes /\ ClientTypes /\ FaultTypes
    BY DEF Init, FsTypes, ClientTypes, FaultTypes, Node, Labels, Paths, Dirs
  <1>2. PutArgs /\ Held
    BY DEF Init, PutArgs, Held, Working
  <1>3. SyncedWhole /\ KeysSynced
    BY DEF Init, SyncedWhole, KeysSynced, Paths
  <1> QED
    BY <1>1, <1>2, <1>3 DEF Inv

\* The temp file of a put lies in the directory of its key and is no key itself.
LEMMA TmpInDir ==
  ASSUME NEW d \in Dirs, NEW i \in Files
  PROVE  Append(d, TmpName(i)) \in TmpPaths
  BY DEF TmpPaths

LEMMA TmpIsNoKey ==
  ASSUME NEW k \in Keys, NEW i \in Files
  PROVE  Append(Parent(k), TmpName(i)) \in TmpPaths \ Keys
  <1>1. Len(k) - 1 \in 0..(Len(k) - 1)
    OBVIOUS
  <1>2. Parent(k) \in Dirs
    <2>1. Parent(k) \in Ancestors(k)
      BY <1>1 DEF Parent, Ancestors
    <2> QED
      BY <2>1 DEF Dirs
  <1>3. Append(Parent(k), TmpName(i)) \in TmpPaths
    BY <1>2, TmpInDir
  <1>4. ASSUME NEW x \in TmpPaths PROVE x \notin Keys
    OBVIOUS
  <1> QED
    BY <1>3, <1>4

\* A file of Size[v] copies of v is a whole payload.
LEMMA FilledIsFull ==
  ASSUME NEW v \in Values, NEW s \in Seq(Values), Len(s) = Size[v],
         \A n \in 1..Len(s) : s[n] = v
  PROVE  s = Full(v)
  BY DEF Full

(***************************************************************************)
(* Calls that end.  Whatever happened to the tree, no key came to name a    *)
(* file that is not synced.                                                 *)
(***************************************************************************)
TreeKeepsKeys ==
  /\ tree' \in [Paths -> Node]
  /\ \A k \in Keys : tree'[k] \in Files => tree'[k] = tree[k] \/ tree'[k] \in synced

LEMMA DoneInv ==
  ASSUME Inv, NEW c \in Clients, NEW r \in Results, Done(c, r),
         pc[c] # "idle", TreeKeepsKeys,
         todo' = todo \/ todo' = [todo EXCEPT ![c] = {}],
         found' = found \/ found' = [found EXCEPT ![c] = {}],
         UNCHANGED <<data, born, synced, disk, call, faults>>
  PROVE  Inv'
  <1> USE DEF Inv
  <1>1. FsTypes'
    BY DEF FsTypes, TreeKeepsKeys
  <1>2. ClientTypes'
    <2>1. pc' \in [Clients -> Labels] /\ call' \in [Clients -> Calls \cup {Nil}]
      BY DEF ClientTypes, Done, Labels
    <2>2. ret' \in [Clients -> Results \cup {Nil}]
      BY DEF ClientTypes, Done
    <2>3. file' \in [Clients -> Files \cup {Nil}] /\ acc' \in [Clients -> Seq(Values)]
      BY DEF ClientTypes, Done
    <2>4. todo' \in [Clients -> SUBSET Paths] /\ found' \in [Clients -> SUBSET Paths]
      BY DEF ClientTypes
    <2> QED
      BY <2>1, <2>2, <2>3, <2>4 DEF ClientTypes
  <1>3. FaultTypes'
    BY DEF FaultTypes, faults
  <1>4. PutArgs'
    BY DEF PutArgs, Done, ClientTypes, TooBig
  <1>5. Held'
    BY DEF Held, Working, Done, ClientTypes
  <1>6. SyncedWhole' /\ KeysSynced'
    BY DEF SyncedWhole, KeysSynced, TreeKeepsKeys, Whole
  <1> QED
    BY <1>1, <1>2, <1>3, <1>4, <1>5, <1>6

\* Taking a name away keeps what the keys name.
LEMMA UnlinkKeepsKeys ==
  ASSUME Inv, NEW p, tree' = Unlink(tree, p)
  PROVE  TreeKeepsKeys
  BY DEF Inv, FsTypes, Unlink, TreeKeepsKeys, Node, Paths

LEMMA MkdirKeepsKeys ==
  ASSUME Inv, NEW p, MkdirStep(p)
  PROVE  TreeKeepsKeys
  BY DEF Inv, FsTypes, MkdirStep, TreeKeepsKeys, Node, Paths

LEMMA SameTreeKeepsKeys ==
  ASSUME Inv, UNCHANGED tree
  PROVE  TreeKeepsKeys
  BY DEF Inv, FsTypes, TreeKeepsKeys

Refusing(c) ==
  \/ Refuse(c) \/ PutQuota(c) \/ PutMkdirFails(c) \/ PutCreateFails(c)
  \/ NoFile(c) \/ LookupFails(c) \/ GetEof(c) \/ Exists(c) \/ Presign(c) \/ ListEnd(c)

LEMMA ReplyInv ==
  ASSUME Inv, NEW c \in Clients, NEW r \in Results, Reply(c, r), pc[c] # "idle"
  PROVE  Inv'
  BY SameTreeKeepsKeys, DoneInv DEF Reply, fs

\* What these steps reply is a result.
LEMMA RefusingReplies ==
  ASSUME Inv, NEW c \in Clients, Refusing(c)
  PROVE  pc[c] # "idle" /\ \E r \in Results : Reply(c, r)
  <1>1. pc[c] # "idle"
    BY DEF Refusing, Refuse, PutQuota, PutMkdirFails, PutCreateFails,
       NoFile, LookupFails, GetEof, Exists, Presign, ListEnd, Begin, At
  <1>2. Err("InvalidKey") \in Results /\ Err("StorageFull") \in Results /\ Err("Io") \in Results
        /\ Err("Other") \in Results /\ Err("NotFound") \in Results /\ Ok(Nil) \in Results
        /\ Answer(TRUE) \in Results /\ Answer(FALSE) \in Results
    BY DEF Err, Ok, Answer, Results
  <1>3. ASSUME NEW s \in Seq(Values) PROVE Ok(s) \in Results
    BY DEF Ok, Results
  <1>4. CASE \/ Refuse(c) \/ PutQuota(c) \/ PutMkdirFails(c) \/ PutCreateFails(c)
             \/ LookupFails(c) \/ ListEnd(c)
    BY <1>1, <1>2, <1>4 DEF Refuse, PutQuota, PutMkdirFails, PutCreateFails, LookupFails, ListEnd
  <1>5. CASE NoFile(c)
    <2>1. Stat(Key(c)) \in Files \cup {NoEnt, Dir, NotDir}
      <3>1. Key(c) \in Paths
        BY <1>5 DEF NoFile, Begin, At, Inv, PutArgs, Key
      <3> QED
        BY <3>1 DEF Stat, Inv, FsTypes, Node
    <2>2. LookupError(c) \in Results
      BY <1>2, <1>5, <2>1 DEF LookupError, NoFile
    <2> QED
      BY <1>1, <1>5, <2>2 DEF NoFile
  <1>6. CASE GetEof(c)
    BY <1>1, <1>3, <1>6 DEF GetEof, Inv, ClientTypes
  <1>7. CASE Exists(c)
    BY <1>1, <1>2, <1>7 DEF Exists
  <1>8. CASE Presign(c)
    BY <1>1, <1>2, <1>8 DEF Presign
  <1> QED
    BY <1>4, <1>5, <1>6, <1>7, <1>8 DEF Refusing

LEMMA RefusingInv == ASSUME Inv, NEW c \in Clients, Refusing(c) PROVE Inv'
  BY RefusingReplies, ReplyInv

\* A walk that fails forgets what it has found.
LEMMA ListFailsInv == ASSUME Inv, NEW c \in Clients, ListFails(c) PROVE Inv'
  <1>1. Err("Io") \in Results
    BY DEF Err, Results
  <1> QED
    BY <1>1, SameTreeKeepsKeys, DoneInv DEF ListFails, At, fs

Removing(c) == PutWriteFails(c) \/ PutPersistFails(c) \/ Delete(c)

LEMMA RemovingInv == ASSUME Inv, NEW c \in Clients, Removing(c) PROVE Inv'
  <1>1. pc[c] # "idle"
    BY DEF Removing, PutWriteFails, PutPersistFails, Delete, Begin, At
  <1>2. PICK r \in Results : \E p : Drop(c, p, r)
    BY DEF Removing, PutWriteFails, PutPersistFails, Delete, Err, Ok, Results
  <1>3. PICK p : Drop(c, p, r)
    BY <1>2
  <1>4. TreeKeepsKeys
    BY <1>3, UnlinkKeepsKeys DEF Drop
  <1> QED
    BY <1>1, <1>3, <1>4, DoneInv DEF Drop

\* The rename: the key comes to name the client's temp file, which is synced.
LEMMA PutPersistInv == ASSUME Inv, NEW c \in Clients, PutPersist(c) PROVE Inv'
  <1>1. file[c] \in synced /\ file[c] \in Files
    BY DEF PutPersist, At, Inv, Held, FsTypes
  <1>2. TreeKeepsKeys
    <2>1. tree' = [Unlink(tree, Tmp(c)) EXCEPT ![Key(c)] = file[c]] /\ synced' = synced
      BY DEF PutPersist
    <2>2. Unlink(tree, Tmp(c)) \in [Paths -> Node]
      BY DEF Unlink, Inv, FsTypes, Node
    <2>3. \A p \in Paths : Unlink(tree, Tmp(c))[p] \in {NoEnt, tree[p]}
      BY DEF Unlink, Inv, FsTypes
    <2>4. tree' \in [Paths -> Node]
      BY <1>1, <2>1, <2>2 DEF Node
    <2>5. \A p \in Paths : tree'[p] \in {NoEnt, tree[p], file[c]}
      BY <2>1, <2>2, <2>3
    <2> QED
      BY <1>1, <2>1, <2>4, <2>5 DEF TreeKeepsKeys, Paths
  <1> QED
    BY <1>2, DoneInv DEF PutPersist, At, Ok, Results

(***************************************************************************)
(* Calls that go on.                                                        *)
(***************************************************************************)
LEMMA InvokeArgs ==
  ASSUME Inv, NEW c \in Clients, Invoke(c)
  PROVE  \E op, k, v :
           /\ op \in Ops /\ call' = [call EXCEPT ![c] = Call(op, k, v)]
           /\ Call(op, k, v) \in Calls
           /\ op = "put"  => k \in Keys /\ v \in Values
           /\ op = "list" => k \in ListArgs /\ v = Nil
           /\ op \notin {"put", "list"} => k \in Paths /\ v = Nil
  <1>1. PICK op \in Ops : \E a \in CallArgs(c, op) :
                            call' = [call EXCEPT ![c] = Call(op, a[1], a[2])]
    BY DEF Invoke
  <1>2. PICK a \in CallArgs(c, op) : call' = [call EXCEPT ![c] = Call(op, a[1], a[2])]
    BY <1>1
  <1>3. Listed(c) \subseteq Paths
    BY DEF Listed, Inv, ClientTypes
  <1>4. /\ op = "put"  => a[1] \in Keys /\ a[2] \in Values
        /\ op = "list" => a[1] \in ListArgs /\ a[2] = Nil
        /\ op \notin {"put", "list"} => a[1] \in Paths /\ a[2] = Nil
    BY <1>3 DEF CallArgs, Paths
  <1>5. Call(op, a[1], a[2]) \in Calls
    BY <1>4 DEF Call, Calls, Paths
  <1> QED
    BY <1>2, <1>4, <1>5

LEMMA InvokeInv == ASSUME Inv, NEW c \in Clients, Invoke(c) PROVE Inv'
  <1> USE DEF Inv
  <1>1. PICK op, k, v :
          /\ op \in Ops /\ call' = [call EXCEPT ![c] = Call(op, k, v)]
          /\ Call(op, k, v) \in Calls
          /\ op = "put"  => k \in Keys /\ v \in Values
          /\ op = "list" => k \in ListArgs /\ v = Nil
          /\ op \notin {"put", "list"} => k \in Paths /\ v = Nil
    BY InvokeArgs
  <1>2. FsTypes' /\ FaultTypes'
    BY DEF FsTypes, FaultTypes, Invoke, fs, faults
  <1>3. ClientTypes'
    <2>1. pc' \in [Clients -> Labels] /\ call' \in [Clients -> Calls \cup {Nil}]
      BY <1>1 DEF ClientTypes, Invoke, Goto, Labels
    <2>2. ret' \in [Clients -> Results \cup {Nil}] /\ found' \in [Clients -> SUBSET Paths]
      BY DEF ClientTypes, Invoke
    <2> QED
      BY <2>1, <2>2 DEF ClientTypes, Invoke
  <1>4. PutArgs'
    <2>1. call'[c] = Call(op, k, v) /\ pc'[c] = "start"
      BY <1>1 DEF ClientTypes, Invoke, Goto
    <2>2. \A d \in Clients \ {c} : call'[d] = call[d] /\ pc'[d] = pc[d]
      BY <1>1 DEF ClientTypes, Invoke, Goto
    <2> QED
      BY <1>1, <2>1, <2>2 DEF PutArgs, Call, Paths, TooBig
  <1>5. Held'
    BY <1>1 DEF Held, Working, Invoke, ClientTypes, Goto, fs
  <1>6. SyncedWhole' /\ KeysSynced'
    BY DEF SyncedWhole, KeysSynced, Invoke, fs, Whole
  <1> QED
    BY <1>2, <1>3, <1>4, <1>5, <1>6

\* Steps of a call that only move its client.
Moving(c) ==
  \/ PutResolved(c) \/ PutMkdirDone(c) \/ GetOpen(c) \/ GetRead(c) \/ ListStart(c) \/ ListDir(c)

LEMMA MovingInv == ASSUME Inv, NEW c \in Clients, Moving(c) PROVE Inv'
  <1> USE DEF Inv
  <1>1. UNCHANGED <<tree, disk, data, born, synced, call, ret, orphans, cancels, crashes>>
    BY DEF Moving, PutResolved, PutMkdirDone, GetOpen, GetRead, ListStart, ListDir, fs, faults
  <1>2. FsTypes' /\ FaultTypes' /\ SyncedWhole' /\ KeysSynced'
    BY <1>1 DEF FsTypes, FaultTypes, SyncedWhole, KeysSynced, Whole
  <1>3. ClientTypes'
    <2>1. pc' \in [Clients -> Labels]
      BY DEF ClientTypes, Moving, PutResolved, PutMkdirDone, GetOpen, GetRead,
         ListStart, ListDir, Goto, Labels
    <2>2. file' \in [Clients -> Files \cup {Nil}]
      BY DEF ClientTypes, Moving, PutResolved, PutMkdirDone, GetOpen, GetRead,
         ListStart, ListDir, local
    <2>3. acc' \in [Clients -> Seq(Values)]
      <3>1. CASE GetRead(c)
        <4>1. data[file[c]] \in Seq(Values) /\ acc[c] \in Seq(Values)
          BY <3>1 DEF GetRead, At, Held, FsTypes, ClientTypes
        <4>2. data[file[c]][Len(acc[c]) + 1] \in Values
          BY <3>1, <4>1 DEF GetRead
        <4> QED
          BY <3>1, <4>1, <4>2 DEF GetRead, ClientTypes
      <3> QED
        BY <3>1 DEF ClientTypes, Moving, PutResolved, PutMkdirDone, GetOpen, ListStart, ListDir, local
    <2>4. todo' \in [Clients -> SUBSET Paths] /\ found' \in [Clients -> SUBSET Paths]
      <3>1. CASE ListDir(c)
        BY <3>1 DEF ListDir, Entries, ClientTypes
      <3>2. CASE ListStart(c)
        BY <3>2 DEF ListStart, ClientTypes, Paths, Dirs
      <3> QED
        BY <3>1, <3>2 DEF ClientTypes, Moving, PutResolved, PutMkdirDone, GetOpen, GetRead, local
    <2> QED
      BY <1>1, <2>1, <2>2, <2>3, <2>4 DEF ClientTypes
  <1>4. PutArgs'
    BY <1>1 DEF PutArgs, ClientTypes, TooBig, Moving, PutResolved, PutMkdirDone, GetOpen, GetRead,
       ListStart, ListDir, Goto, Begin, At
  <1>5. Held'
    <2>1. \A d \in Clients : Working(d)' => Working(d) /\ pc'[d] = pc[d] /\ file'[d] = file[d]
      BY DEF Working, ClientTypes, Moving, PutResolved, PutMkdirDone, GetOpen, GetRead,
         ListStart, ListDir, Goto, Begin, At, local
    <2>2. \A d \in Clients : pc'[d] = "read" => file'[d] \in Files
      BY DEF Held, ClientTypes, Moving, PutResolved, PutMkdirDone, GetOpen, GetRead,
         ListStart, ListDir, Goto, Begin, At, local
    <2> QED
      BY <1>1, <2>1, <2>2 DEF Held, Working
  <1> QED
    BY <1>1, <1>2, <1>3, <1>4, <1>5

(***************************************************************************)
(* The steps of a put that change the file system.                          *)
(***************************************************************************)
LEMMA PutMkdirInv == ASSUME Inv, NEW c \in Clients, PutMkdir(c) PROVE Inv'
  <1> USE DEF Inv
  <1>1. TreeKeepsKeys
    BY MkdirKeepsKeys DEF PutMkdir
  <1>2. UNCHANGED <<disk, data, born, synced, pc, call, file, acc, todo, found, ret,
                    orphans, cancels, crashes>>
    BY DEF PutMkdir, MkdirStep, local, faults
  <1>3. FsTypes' /\ FaultTypes'
    BY <1>1, <1>2 DEF FsTypes, FaultTypes, TreeKeepsKeys
  <1>4. ClientTypes'
    BY <1>2 DEF ClientTypes
  <1>5. PutArgs' /\ Held'
    BY <1>2 DEF PutArgs, Held, Working, TooBig
  <1>6. SyncedWhole' /\ KeysSynced'
    BY <1>1, <1>2 DEF SyncedWhole, KeysSynced, TreeKeepsKeys, Whole
  <1> QED
    BY <1>3, <1>4, <1>5, <1>6

LEMMA PutCreateInv == ASSUME Inv, NEW c \in Clients, PutCreate(c) PROVE Inv'
  <1> USE DEF Inv
  <1> DEFINE tmp(i) == Append(Parent(Key(c)), TmpName(i))
  <1>1. PICK i \in Files \ born :
          born' = born \cup {i} /\ file' = [file EXCEPT ![c] = i]
          /\ tree' = [tree EXCEPT ![tmp(i)] = i]
    BY DEF PutCreate
  <1>2. Key(c) \in Keys /\ call[c].val \in Values /\ ~ TooBig(call[c].val)
        /\ pc[c] = "create" /\ call[c].op = "put"
    BY DEF PutCreate, At, PutArgs, Key
  <1>3. UNCHANGED <<disk, data, synced, call, acc, todo, found, ret, orphans, cancels, crashes>>
        /\ pc' = [pc EXCEPT ![c] = "write"]
    BY DEF PutCreate, faults, Goto
  <1>4. TreeKeepsKeys
    <2>1. \A k \in Keys : tmp(i) # k
      BY <1>2, TmpIsNoKey
    <2>2. tree' \in [Paths -> Node]
      BY <1>1 DEF FsTypes, Node
    <2>3. \A k \in Keys : tree'[k] = tree[k]
      BY <1>1, <2>1 DEF FsTypes, Paths
    <2> QED
      BY <2>2, <2>3 DEF TreeKeepsKeys
  <1>5. FsTypes' /\ FaultTypes'
    BY <1>1, <1>3, <1>4 DEF FsTypes, FaultTypes, TreeKeepsKeys
  <1>6. ClientTypes'
    BY <1>1, <1>3 DEF ClientTypes, Labels
  <1>7. PutArgs'
    BY <1>2, <1>3 DEF PutArgs, ClientTypes, TooBig
  <1>8. Held'
    <2>1. data[i] = <<>> /\ i \notin synced
      BY DEF Held, FsTypes
    <2>2. Len(data[i]) = 0 /\ Size[call[c].val] \in Nat
      BY <1>2, <2>1
    <2>3. \A d \in Clients \ {c} : pc'[d] = pc[d] /\ file'[d] = file[d]
      BY <1>1, <1>3 DEF ClientTypes
    <2>4. pc'[c] = "write" /\ file'[c] = i
      BY <1>1, <1>3 DEF ClientTypes
    <2>5. \A d \in Clients \ {c} : Working(d) => file[d] # i
      BY DEF Held
    <2>6. \A j \in Files \ born' : data'[j] = <<>>
      BY <1>1, <1>3 DEF Held
    <2>7. /\ Working(c)' /\ file'[c] \in born' /\ file'[c] \notin synced'
          /\ Len(data'[file'[c]]) = 0 /\ Size[call'[c].val] \in Nat
      BY <1>1, <1>3, <2>1, <2>2, <2>4 DEF Working
    <2>8. \A d \in Clients \ {c} :
            /\ Working(d)' => Working(d) /\ file'[d] = file[d] /\ file'[d] # file'[c]
            /\ Working(d)' => file'[d] \in born'
            /\ pc'[d] = "write" =>
                 /\ file'[d] \notin synced'
                 /\ Len(data'[file'[d]]) <= Size[call'[d].val]
                 /\ \A n \in 1..Len(data'[file'[d]]) : data'[file'[d]][n] = call'[d].val
            /\ pc'[d] = "persist" => file'[d] \in synced'
            /\ pc'[d] = "read" => file'[d] \in Files
      BY <1>1, <1>3, <2>3, <2>4, <2>5 DEF Held, Working
    <2>9. /\ pc'[c] = "write" =>
                /\ file'[c] \notin synced'
                /\ Len(data'[file'[c]]) <= Size[call'[c].val]
                /\ \A n \in 1..Len(data'[file'[c]]) : data'[file'[c]][n] = call'[c].val
          /\ pc'[c] # "persist" /\ pc'[c] # "read"
      BY <2>4, <2>7
    <2>10. \A d, e \in Clients : Working(d)' /\ Working(e)' /\ file'[d] = file'[e] => d = e
      BY <2>8 DEF Held
    <2> QED
      BY <2>6, <2>7, <2>8, <2>9, <2>10 DEF Held
  <1>9. SyncedWhole' /\ KeysSynced'
    BY <1>3, <1>4 DEF SyncedWhole, KeysSynced, TreeKeepsKeys, Whole
  <1> QED
    BY <1>5, <1>6, <1>7, <1>8, <1>9

\* What a client about to write knows of its file.
LEMMA Writing ==
  ASSUME Inv, NEW c \in Clients, At(c, "write", {"put"})
  PROVE  /\ file[c] \in born \ synced /\ file[c] \in Files
         /\ call[c].val \in Values /\ Size[call[c].val] \in Nat /\ ~ TooBig(call[c].val)
         /\ data[file[c]] \in Seq(Values) /\ Len(data[file[c]]) \in Nat
         /\ \A n \in 1..Len(data[file[c]]) : data[file[c]][n] = call[c].val
         /\ \A d \in Clients \ {c} : Working(d) => file[d] # file[c]
  <1>1. pc[c] = "write" /\ call[c].op = "put"
    BY DEF At
  <1>2. file[c] \in born \ synced /\ file[c] \in Files
    BY <1>1 DEF Inv, Held, FsTypes, Working
  <1>3. call[c].val \in Values /\ ~ TooBig(call[c].val)
    BY <1>1 DEF Inv, PutArgs
  <1>4. data[file[c]] \in Seq(Values)
    BY <1>2 DEF Inv, FsTypes
  <1>5. \A n \in 1..Len(data[file[c]]) : data[file[c]][n] = call[c].val
    BY <1>1 DEF Inv, Held
  <1>6. \A d \in Clients \ {c} : Working(d) => file[d] # file[c]
    BY <1>1 DEF Inv, Held, Working
  <1> QED
    BY <1>2, <1>3, <1>4, <1>5, <1>6

LEMMA PutWriteInv == ASSUME Inv, NEW c \in Clients, PutWrite(c) PROVE Inv'
  <1> USE DEF Inv
  <1> DEFINE f == file[c]  v == call[c].val
  <1>1. At(c, "write", {"put"}) /\ Len(data[f]) < Size[v]
        /\ data' = [data EXCEPT ![f] = Append(data[f], v)]
    BY DEF PutWrite
  <1>2. UNCHANGED <<tree, disk, born, synced, pc, call, file, acc, todo, found, ret,
                    orphans, cancels, crashes>>
    BY DEF PutWrite, local, faults
  <1>3. /\ f \in born \ synced /\ f \in Files /\ v \in Values /\ Size[v] \in Nat
        /\ data[f] \in Seq(Values) /\ Len(data[f]) \in Nat
        /\ \A n \in 1..Len(data[f]) : data[f][n] = v
        /\ \A d \in Clients \ {c} : Working(d) => file[d] # f
    BY <1>1, Writing
  <1>4. data'[f] = Append(data[f], v) /\ \A i \in Files \ {f} : data'[i] = data[i]
    BY <1>1, <1>3 DEF FsTypes
  <1>5. FsTypes' /\ FaultTypes'
    <2>1. data' \in [Files -> Seq(Values)]
      BY <1>1, <1>3 DEF FsTypes
    <2> QED
      BY <1>2, <2>1 DEF FsTypes, FaultTypes
  <1>6. ClientTypes'
    BY <1>2 DEF ClientTypes
  <1>7. PutArgs'
    BY <1>2 DEF PutArgs, TooBig
  <1>8. Held'
    <2>1. /\ Len(data'[f]) <= Size[v]
          /\ \A n \in 1..Len(data'[f]) : data'[f][n] = v
      BY <1>1, <1>3, <1>4
    <2>2. \A i \in Files \ born : data'[i] = <<>>
      BY <1>3, <1>4 DEF Held
    <2>3. \A d \in Clients \ {c} : Working(d) => data'[file[d]] = data[file[d]]
      BY <1>3, <1>4 DEF Held, FsTypes
    <2>4. \A d \in Clients \ {c} : pc[d] = "write" =>
            /\ file[d] \notin synced
            /\ Len(data'[file[d]]) <= Size[call[d].val]
            /\ \A n \in 1..Len(data'[file[d]]) : data'[file[d]][n] = call[d].val
      BY <2>3 DEF Held, Working
    <2>5. \A d \in Clients : pc[d] = "write" =>
            /\ file[d] \notin synced
            /\ Len(data'[file[d]]) <= Size[call[d].val]
            /\ \A n \in 1..Len(data'[file[d]]) : data'[file[d]][n] = call[d].val
      BY <1>3, <2>1, <2>4
    <2> QED
      BY <1>2, <2>2, <2>5 DEF Held, Working
  <1>9. SyncedWhole' /\ KeysSynced'
    <2>1. \A i \in synced : data'[i] = data[i]
      BY <1>3, <1>4 DEF FsTypes
    <2> QED
      BY <1>2, <2>1 DEF SyncedWhole, KeysSynced, Whole, TooBig, Full
  <1> QED
    BY <1>5, <1>6, <1>7, <1>8, <1>9

LEMMA PutSyncInv == ASSUME Inv, NEW c \in Clients, PutSync(c) PROVE Inv'
  <1> USE DEF Inv
  <1> DEFINE f == file[c]  v == call[c].val
  <1>1. At(c, "write", {"put"}) /\ Len(data[f]) = Size[v] /\ synced' = synced \cup {f}
        /\ pc' = [pc EXCEPT ![c] = "persist"]
    BY DEF PutSync, Goto
  <1>2. UNCHANGED <<tree, disk, data, born, call, file, acc, todo, found, ret,
                    orphans, cancels, crashes>>
    BY DEF PutSync, local, faults
  <1>3. /\ f \in born \ synced /\ f \in Files /\ v \in Values /\ ~ TooBig(v)
        /\ data[f] \in Seq(Values)
        /\ \A n \in 1..Len(data[f]) : data[f][n] = v
        /\ \A d \in Clients \ {c} : Working(d) => file[d] # f
    BY <1>1, Writing
  <1>4. FsTypes' /\ FaultTypes'
    BY <1>1, <1>2, <1>3 DEF FsTypes, FaultTypes
  <1>5. ClientTypes'
    BY <1>1, <1>2 DEF ClientTypes, Labels
  <1>6. PutArgs'
    BY <1>1, <1>2 DEF PutArgs, ClientTypes, TooBig, At
  <1>7. Held'
    <2>1. \A d \in Clients \ {c} : pc'[d] = pc[d]
      BY <1>1 DEF ClientTypes
    <2>2. pc[c] = "write" /\ pc'[c] = "persist"
      BY <1>1 DEF ClientTypes, At
    <2>3. \A d \in Clients : Working(d)' <=> Working(d)
      BY <2>1, <2>2 DEF Working
    <2>4. \A d \in Clients : Working(d) => file[d] \in born
      BY DEF Held
    <2>5. \A d \in Clients \ {c} : pc[d] = "write" => file[d] \notin synced'
      BY <1>1, <1>3 DEF Held, Working
    <2>6. /\ \A i \in Files \ born' : data'[i] = <<>>
          /\ \A d, e \in Clients : Working(d)' /\ Working(e)' /\ file'[d] = file'[e] => d = e
      BY <1>2, <2>3 DEF Held
    <2>7. \A d \in Clients \ {c} :
            /\ pc'[d] = "write" =>
                 /\ Len(data'[file'[d]]) <= Size[call'[d].val]
                 /\ \A n \in 1..Len(data'[file'[d]]) : data'[file'[d]][n] = call'[d].val
            /\ pc'[d] = "persist" => file'[d] \in synced'
            /\ pc'[d] = "read" => file'[d] \in Files
      BY <1>1, <1>2, <2>1 DEF Held
    <2>8. file'[c] \in synced'
      BY <1>1, <1>2
    <2> QED
      BY <1>2, <2>1, <2>2, <2>3, <2>4, <2>5, <2>6, <2>7, <2>8 DEF Held
  <1>8. SyncedWhole' /\ KeysSynced'
    <2>1. data[f] = Full(v)
      BY <1>1, <1>3, FilledIsFull
    <2>2. Whole(data[f])
      BY <1>3, <2>1 DEF Whole
    <2> QED
      BY <1>1, <1>2, <2>2 DEF SyncedWhole, KeysSynced, Whole, TooBig, Full
  <1> QED
    BY <1>4, <1>5, <1>6, <1>7, <1>8

(***************************************************************************)
(* Dropped futures, the journal, power failures.                            *)
(***************************************************************************)
LEMMA CancelInv == ASSUME Inv, NEW c \in Clients, Cancel(c) PROVE Inv'
  <1> USE DEF Inv
  <1>1. UNCHANGED <<tree, disk, data, born, synced, todo, found, ret, crashes>>
        /\ cancels' = cancels + 1
        /\ pc' = [pc EXCEPT ![c] = "idle"] /\ call' = [call EXCEPT ![c] = Nil]
        /\ file' = [file EXCEPT ![c] = Nil] /\ acc' = [acc EXCEPT ![c] = <<>>]
    BY DEF Cancel, fs, Goto
  <1>2. orphans' \subseteq Orphans
    <2>1. orphans \subseteq Orphans
      BY DEF FaultTypes
    <2>2. CASE At(c, "mkdir", {"put"}) \/ Begin(c, {"delete"})
      <3>1. call[c].op \in {"put", "delete"} /\ Key(c) \in Paths
        BY <2>2 DEF At, Begin, PutArgs, Key
      <3> QED
        BY <2>1, <3>1 DEF Cancel, Orphans
    <2>3. CASE ~ (At(c, "mkdir", {"put"}) \/ Begin(c, {"delete"}))
      BY <2>1, <2>3 DEF Cancel
    <2> QED
      BY <2>2, <2>3
  <1>3. FsTypes' /\ FaultTypes'
    BY <1>1, <1>2 DEF FsTypes, FaultTypes
  <1>4. ClientTypes'
    BY <1>1 DEF ClientTypes, Labels
  <1>5. PutArgs'
    BY <1>1 DEF PutArgs, ClientTypes, TooBig
  <1>6. Held'
    <2>1. \A d \in Clients : pc'[d] # "idle" =>
            pc'[d] = pc[d] /\ file'[d] = file[d] /\ call'[d] = call[d]
      BY <1>1 DEF ClientTypes
    <2> QED
      BY <1>1, <2>1 DEF Held, Working
  <1>7. SyncedWhole' /\ KeysSynced'
    BY <1>1 DEF SyncedWhole, KeysSynced, Whole
  <1> QED
    BY <1>3, <1>4, <1>5, <1>6, <1>7

LEMMA OrphanInv == ASSUME Inv, Orphan PROVE Inv'
  <1> USE DEF Inv
  <1>1. UNCHANGED <<disk, data, born, synced, pc, call, file, acc, todo, found, ret, cancels, crashes>>
    BY DEF Orphan, OrphanUnlink, OrphanMkdir, OrphanEnds, MkdirStep, local, fs
  <1>2. orphans' \subseteq orphans
    BY DEF Orphan, OrphanUnlink, OrphanMkdir, OrphanEnds
  <1>3. TreeKeepsKeys
    <2>1. PICK o \in orphans : OrphanUnlink(o) \/ OrphanMkdir(o) \/ OrphanEnds(o)
      BY DEF Orphan
    <2>2. CASE OrphanUnlink(o)
      BY <2>2, UnlinkKeepsKeys, SameTreeKeepsKeys DEF OrphanUnlink
    <2>3. CASE OrphanMkdir(o)
      BY <2>3, MkdirKeepsKeys DEF OrphanMkdir
    <2>4. CASE OrphanEnds(o)
      BY <2>4, SameTreeKeepsKeys DEF OrphanEnds, fs
    <2> QED
      BY <2>1, <2>2, <2>3, <2>4
  <1>4. FsTypes' /\ FaultTypes'
    BY <1>1, <1>2, <1>3 DEF FsTypes, FaultTypes, TreeKeepsKeys
  <1>5. ClientTypes'
    BY <1>1 DEF ClientTypes
  <1>6. PutArgs' /\ Held'
    BY <1>1 DEF PutArgs, Held, Working, TooBig
  <1>7. SyncedWhole' /\ KeysSynced'
    BY <1>1, <1>3 DEF SyncedWhole, KeysSynced, TreeKeepsKeys, Whole
  <1> QED
    BY <1>4, <1>5, <1>6, <1>7

LEMMA CommitInv == ASSUME Inv, Commit PROVE Inv'
  <1> USE DEF Inv
  <1>1. disk' = tree /\ UNCHANGED <<tree, data, born, synced, pc, call, file, acc, todo, found,
                                    ret, orphans, cancels, crashes>>
    BY DEF Commit, fs, local, faults
  <1>2. FsTypes' /\ FaultTypes'
    BY <1>1 DEF FsTypes, FaultTypes
  <1>3. ClientTypes'
    BY <1>1 DEF ClientTypes
  <1>4. PutArgs' /\ Held'
    BY <1>1 DEF PutArgs, Held, Working, TooBig
  <1>5. SyncedWhole' /\ KeysSynced'
    BY <1>1 DEF SyncedWhole, KeysSynced, Whole
  <1> QED
    BY <1>2, <1>3, <1>4, <1>5

LEMMA CrashInv == ASSUME Inv, Crash PROVE Inv'
  <1> USE DEF Inv
  <1>1. /\ tree' = disk /\ UNCHANGED <<disk, born, synced, cancels>>
        /\ crashes' = crashes + 1 /\ orphans' = {}
        /\ \A c \in Clients : pc'[c] = "idle"
    BY DEF Crash
  <1>2. PICK kept \in SUBSET (born \ synced) :
          data' = [i \in Files |-> IF i \in synced \cup kept THEN data[i] ELSE <<>>]
    BY DEF Crash
  <1>3. FsTypes' /\ FaultTypes'
    BY <1>1, <1>2 DEF FsTypes, FaultTypes
  <1>4. ClientTypes'
    BY DEF Crash, ClientTypes, Labels
  <1>5. PutArgs'
    BY <1>1 DEF PutArgs
  <1>6. Held'
    BY <1>1, <1>2 DEF Held, Working, FsTypes
  <1>7. SyncedWhole' /\ KeysSynced'
    <2>1. \A i \in synced : data'[i] = data[i]
      BY <1>2 DEF FsTypes
    <2> QED
      BY <1>1, <2>1 DEF SyncedWhole, KeysSynced, Whole, TooBig, Full
  <1> QED
    BY <1>3, <1>4, <1>5, <1>6, <1>7

(***************************************************************************)
(* The theorems.                                                            *)
(***************************************************************************)
\* Inv is inductive.
LEMMA InvIsInductive == Inv /\ [Next]_vars => Inv'
  <1> SUFFICES ASSUME Inv, [Next]_vars PROVE Inv'
    OBVIOUS
  <1>1. ASSUME NEW c \in Clients, Step(c) PROVE Inv'
    <2>1. CASE Refusing(c)
      BY <2>1, RefusingInv
    <2>2. CASE Removing(c)
      BY <2>2, RemovingInv
    <2>3. CASE Moving(c)
      BY <2>3, MovingInv
    <2>4. CASE ListFails(c)
      BY <2>4, ListFailsInv
    <2>5. CASE PutMkdir(c) \/ PutCreate(c) \/ PutWrite(c) \/ PutSync(c) \/ PutPersist(c)
      BY <2>5, PutMkdirInv, PutCreateInv, PutWriteInv, PutSyncInv, PutPersistInv
    <2> QED
      BY <1>1, <2>1, <2>2, <2>3, <2>4, <2>5 DEF Step, Advance, PutStep, Refusing, Removing, Moving
  <1>2. CASE UNCHANGED vars
    <2>1. UNCHANGED <<tree, disk, data, born, synced, pc, call, file, acc, todo, found,
                      ret, orphans, cancels, crashes>>
      BY <1>2 DEF vars
    <2>2. FsTypes' /\ FaultTypes'
      BY <2>1 DEF Inv, FsTypes, FaultTypes
    <2>3. ClientTypes'
      BY <2>1 DEF Inv, ClientTypes
    <2>4. PutArgs' /\ Held'
      BY <2>1 DEF Inv, PutArgs, Held, Working, TooBig
    <2>5. SyncedWhole' /\ KeysSynced'
      BY <2>1 DEF Inv, SyncedWhole, KeysSynced, Whole
    <2> QED
      BY <2>2, <2>3, <2>4, <2>5 DEF Inv
  <1> QED
    BY <1>1, <1>2, InvokeInv, CancelInv, OrphanInv, CommitInv, CrashInv DEF Next

LEMMA SpecInv == Spec => []Inv
  BY InitInv, InvIsInductive, PTL DEF Spec

\* Every variable keeps its type, in an instance of any size.
THEOREM TypeSafety == Spec => []TypeOK
  <1>1. Inv => TypeOK
    BY DEF Inv, TypeOK, FsTypes, ClientTypes, FaultTypes
  <1> QED
    BY <1>1, SpecInv, PTL

\* A key names nothing or one complete payload within the quota that is on
\* disk: for readers at any moment and for whoever reopens the store after any
\* number of power failures (put writes a temp file, syncs it, renames it).
THEOREM BlobsAlwaysWhole == Spec => []BlobsWhole
  <1>1. Inv => BlobsWhole
    BY DEF Inv, BlobsWhole, SyncedWhole, KeysSynced, FsTypes
  <1> QED
    BY <1>1, SpecInv, PTL

\* What no step of a client takes back.
Settled == synced \subseteq synced' /\ \A i \in synced : data'[i] = data[i]

LEMMA StepSettled == ASSUME Inv, NEW c \in Clients, Step(c) PROVE Settled
  <1>1. ASSUME NEW i \in synced PROVE i \in Files
    BY DEF Inv, FsTypes
  <1>2. CASE ~ PutWrite(c)
    BY <1>2 DEF Settled, Step, Advance, PutStep, Refuse, PutQuota, PutResolved, PutMkdir, MkdirStep,
       PutMkdirFails, PutMkdirDone, PutCreate, PutCreateFails, PutSync, PutWriteFails, PutPersist,
       PutPersistFails, GetOpen, NoFile, LookupFails, GetRead, GetEof, Delete, Exists,
       Presign, ListStart, ListDir, ListEnd, ListFails, Reply, Drop, fs
  <1>3. CASE PutWrite(c)
    <2>1. file[c] \in born \ synced
      BY <1>3, Writing DEF PutWrite
    <2> QED
      BY <1>1, <1>3, <2>1 DEF Settled, PutWrite, Inv, FsTypes
  <1> QED
    BY <1>2, <1>3

LEMMA NextSettled == ASSUME Inv, Next PROVE Settled
  <1>1. ASSUME NEW c \in Clients, Invoke(c) \/ Cancel(c) PROVE Settled
    BY <1>1 DEF Settled, Invoke, Cancel, fs
  <1>2. CASE Orphan \/ Commit
    BY <1>2 DEF Settled, Orphan, OrphanUnlink, OrphanMkdir, OrphanEnds, MkdirStep, Commit, fs
  <1>3. CASE Crash
    BY <1>3 DEF Settled, Crash, Inv, FsTypes
  <1> QED
    BY <1>1, <1>2, <1>3, StepSettled DEF Next

\* The bytes of a synced file are final: no step of any client, no dropped
\* future and no power failure changes them.
THEOREM SyncedNeverChanges == Spec => SyncedImmutable
  <1>1. Inv /\ [Next]_vars => [\A i \in synced : data'[i] = data[i]]_vars
    BY NextSettled DEF Settled
  <1> QED
    BY <1>1, SpecInv, PTL DEF Spec, SyncedImmutable

HIDE ConstantsAssumption

(***************************************************************************)
(* The directory tree: it has no holes, and without a power failure no      *)
(* temp file outlives the put that made it.                                 *)
(*                                                                         *)
(* TreeShape speaks of parents, a path lookup of all ancestors.  Rooted     *)
(* says the latter outright.  It is inductive together with what a put      *)
(* knows of the directory it is about to use (PutPaths): directories are    *)
(* never taken away.                                                        *)
(***************************************************************************)
\* what paths are made of
KeyNames == UNION {ToSet(k) : k \in Keys}
TmpNames == {TmpName(i) : i \in Files}
Names    == KeyNames \cup TmpNames

Rooted(t) ==
  /\ t[<<>>] = Dir
  /\ \A p \in Paths : t[p] # NoEnt => \A a \in Ancestors(p) : t[a] = Dir

OnlyDirs(t) == \A p \in Paths : t[p] = Dir => p \in Dirs

Shaped(t) == Rooted(t) /\ OnlyDirs(t)

\* past create_dir_all, the directory of the key is there
PutPaths ==
  \A c \in Clients : pc[c] \in {"create", "write", "persist"} =>
    \A a \in Ancestors(Key(c)) : tree[a] = Dir

OrphanKeys == \A o \in orphans : o.op = "put" => o.key \in Keys

TreeInv == Shaped(tree) /\ Shaped(disk) /\ PutPaths /\ OrphanKeys

\* without a crash, a temp name stands in the directory of the put that made it
Temps ==
  crashes = 0 =>
    \A d \in Dirs, i \in Files :
      tree[Append(d, TmpName(i))] # NoEnt =>
        \E c \in Clients : Working(c) /\ file[c] = i /\ d = Parent(Key(c))

(***************************************************************************)
(* Paths.                                                                   *)
(***************************************************************************)
\* A prefix of a sequence, and the prefixes of that.
LEMMA CutPath ==
  ASSUME NEW s \in Seq(Names), NEW n \in 0..Len(s)
  PROVE  /\ SubSeq(s, 1, n) \in Seq(Names) /\ Len(SubSeq(s, 1, n)) = n
         /\ \A m \in 0..n : SubSeq(SubSeq(s, 1, n), 1, m) = SubSeq(s, 1, m)
  OBVIOUS

LEMMA ExtendPath ==
  ASSUME NEW s \in Seq(Names), NEW x \in Names
  PROVE  /\ Append(s, x) \in Seq(Names) /\ Len(Append(s, x)) = Len(s) + 1 /\ Append(s, x) # <<>>
         /\ \A m \in 0..Len(s) : SubSeq(Append(s, x), 1, m) = SubSeq(s, 1, m)
         /\ SubSeq(s, 1, Len(s)) = s
  OBVIOUS

LEMMA TmpNamed ==
  ASSUME NEW i \in Files
  PROVE  TmpName(i) \in Names
  BY Zenon DEF Names, TmpNames

LEMMA PathsAreSeqs ==
  /\ Keys \subseteq Seq(Names) /\ Dirs \subseteq Seq(Names) /\ TmpPaths \subseteq Seq(Names)
  /\ Paths \subseteq Seq(Names)
  <1>1. Keys \subseteq Seq(Names)
    <2>1. Keys \subseteq Seq(KeyNames)
      BY ConstantsAssumption DEF KeyNames
    <2> QED
      BY <2>1 DEF Names
  <1>2. Dirs \subseteq Seq(Names)
    <2>1. <<>> \in Seq(Names)
      OBVIOUS
    <2>2. ASSUME NEW k \in Keys PROVE Ancestors(k) \subseteq Seq(Names)
      <3>1. k \in Seq(Names) /\ Len(k) \in Nat
        BY <1>1
      <3>2. \A n \in 0..(Len(k) - 1) : n \in 0..Len(k)
        BY <3>1
      <3>3. \A n \in 0..(Len(k) - 1) : SubSeq(k, 1, n) \in Seq(Names)
        BY <3>1, <3>2, CutPath
      <3> QED
        BY <3>3 DEF Ancestors
    <2> QED
      BY <2>1, <2>2 DEF Dirs
  <1>3. TmpPaths \subseteq Seq(Names)
    <2> SUFFICES ASSUME NEW d \in Dirs, NEW i \in Files
                 PROVE  Append(d, TmpName(i)) \in Seq(Names)
      BY DEF TmpPaths
    <2> QED
      BY <1>2, TmpNamed
  <1> QED
    BY <1>1, <1>2, <1>3 DEF Paths

LEMMA ParentAbove ==
  ASSUME NEW p \in Paths \ { <<>> }
  PROVE  Parent(p) \in Ancestors(p)
  <1>1. p \in Seq(Names) /\ p # <<>>
    BY PathsAreSeqs
  <1>2. Len(p) - 1 \in 0..(Len(p) - 1)
    BY <1>1
  <1> QED
    BY <1>2 DEF Parent, Ancestors

\* The directories above a name in a directory.
LEMMA AboveEntry ==
  ASSUME NEW d \in Dirs, NEW x \in Names
  PROVE  Ancestors(Append(d, x)) = Ancestors(d) \cup {d} /\ Parent(Append(d, x)) = d
  <1>1. d \in Seq(Names) /\ Len(d) \in Nat
    BY PathsAreSeqs
  <1>2. /\ Len(Append(d, x)) - 1 = Len(d)
        /\ \A m \in 0..Len(d) : SubSeq(Append(d, x), 1, m) = SubSeq(d, 1, m)
        /\ SubSeq(d, 1, Len(d)) = d
    BY <1>1, ExtendPath
  <1>3. Ancestors(Append(d, x)) = {SubSeq(d, 1, m) : m \in 0..Len(d)}
    BY <1>2 DEF Ancestors
  <1>4. 0..Len(d) = (0..(Len(d) - 1)) \cup {Len(d)}
    BY <1>1
  <1>5. Parent(Append(d, x)) = d
    BY <1>1, <1>2 DEF Parent
  <1> QED
    BY <1>2, <1>3, <1>4, <1>5 DEF Ancestors

LEMMA AbovePrefix ==
  ASSUME NEW s \in Seq(Names), NEW n \in 0..Len(s)
  PROVE  Ancestors(SubSeq(s, 1, n)) = {SubSeq(s, 1, m) : m \in 0..(n - 1)}
  <1>1. Len(SubSeq(s, 1, n)) = n
        /\ \A m \in 0..n : SubSeq(SubSeq(s, 1, n), 1, m) = SubSeq(s, 1, m)
    BY CutPath
  <1> QED
    BY <1>1 DEF Ancestors

LEMMA AboveKey ==
  ASSUME NEW k \in Keys
  PROVE  Ancestors(k) = Ancestors(Parent(k)) \cup {Parent(k)} /\ Parent(k) \in Dirs
         /\ Ancestors(k) \subseteq Dirs
  <1>1. k \in Seq(Names) /\ Len(k) \in Nat \ {0}
    BY PathsAreSeqs, ConstantsAssumption DEF Paths
  <1>2. Ancestors(Parent(k)) = {SubSeq(k, 1, m) : m \in 0..(Len(k) - 2)}
    BY <1>1, AbovePrefix DEF Parent
  <1>3. 0..(Len(k) - 1) = (0..(Len(k) - 2)) \cup {Len(k) - 1}
    BY <1>1
  <1>4. Ancestors(k) \subseteq Dirs
    BY DEF Dirs
  <1>5. Ancestors(k) = Ancestors(Parent(k)) \cup {Parent(k)}
    BY <1>2, <1>3 DEF Ancestors, Parent
  <1> QED
    BY <1>4, <1>5

LEMMA AboveDir ==
  ASSUME NEW d \in Dirs
  PROVE  Ancestors(d) \subseteq Dirs
  <1>1. CASE d = <<>>
    BY <1>1 DEF Ancestors
  <1>2. ASSUME NEW k \in Keys, NEW n \in 0..(Len(k) - 1), d = SubSeq(k, 1, n)
        PROVE  Ancestors(d) \subseteq Dirs
    <2>1. k \in Seq(Names) /\ Len(k) \in Nat \ {0}
      BY PathsAreSeqs, ConstantsAssumption
    <2>2. Ancestors(d) \subseteq Ancestors(k)
      BY <1>2, <2>1, AbovePrefix DEF Ancestors
    <2> QED
      BY <2>2, AboveKey
  <1>3. d = <<>> \/ \E k \in Keys : \E n \in 0..(Len(k) - 1) : d = SubSeq(k, 1, n)
    BY DEF Dirs, Ancestors
  <1> QED
    BY <1>1, <1>2, <1>3

\* Only directories lie above a path, and no path lies above itself.
LEMMA AbovePath ==
  ASSUME NEW p \in Paths
  PROVE  Ancestors(p) \subseteq Dirs /\ p \notin Ancestors(p)
  <1>1. Ancestors(p) \subseteq Dirs
    <2>1. CASE p \in Keys
      BY <2>1, AboveKey
    <2>2. CASE p \in Dirs
      BY <2>2, AboveDir
    <2>3. ASSUME NEW d \in Dirs, NEW i \in Files, p = Append(d, TmpName(i))
          PROVE  Ancestors(p) \subseteq Dirs
      BY <2>3, TmpNamed, AboveEntry, AboveDir
    <2> QED
      BY <2>1, <2>2, <2>3 DEF Paths, TmpPaths
  <1>2. p \notin Ancestors(p)
    <2>1. p \in Seq(Names) /\ Len(p) \in Nat
      BY PathsAreSeqs
    <2>2. ASSUME NEW n \in 0..(Len(p) - 1) PROVE SubSeq(p, 1, n) # p
      <3>1. n \in 0..Len(p)
        BY <2>1
      <3>2. Len(SubSeq(p, 1, n)) = n
        BY <2>1, <3>1, CutPath
      <3> QED
        BY <2>1, <3>2
    <2> QED
      BY <2>2 DEF Ancestors
  <1> QED
    BY <1>1, <1>2

(***************************************************************************)
(* What a change of one name does to the shape of a tree.                   *)
(***************************************************************************)
LEMMA SetName ==
  ASSUME NEW t, NEW u, NEW p \in Paths \ { <<>> },
         Shaped(t), t[p] # Dir,
         \A q \in Paths : q # p => u[q] = t[q],
         u[p] # NoEnt => \A a \in Ancestors(p) : t[a] = Dir,
         u[p] = Dir => p \in Dirs
  PROVE  Shaped(u) /\ \A d \in Dirs : t[d] = Dir => u[d] = Dir
  <1>1. \A q \in Paths : t[q] = Dir => u[q] = Dir
    OBVIOUS
  <1>2. Dirs \subseteq Paths /\ <<>> \in Dirs
    BY DEF Paths, Dirs
  <1>3. \A q \in Paths : Ancestors(q) \subseteq Paths
    BY <1>2, AbovePath
  <1>4. u[<<>>] = Dir
    BY <1>1, <1>2 DEF Shaped, Rooted
  <1>5. ASSUME NEW q \in Paths, u[q] # NoEnt, NEW a \in Ancestors(q) PROVE u[a] = Dir
    <2>1. t[a] = Dir
      BY <1>5 DEF Shaped, Rooted
    <2> QED
      BY <2>1, <1>1, <1>3
  <1>6. \A q \in Paths : u[q] = Dir => q \in Dirs
    BY DEF Shaped, OnlyDirs
  <1> QED
    BY <1>1, <1>2, <1>4, <1>5, <1>6 DEF Shaped, Rooted, OnlyDirs

\* A tree that changes keeps its shape and its directories.
Grown == Shaped(tree') /\ \A d \in Dirs : tree[d] = Dir => tree'[d] = Dir

LEMMA UnlinkGrown ==
  ASSUME FsTypes, Shaped(tree), NEW p \in Paths, tree[p] # Dir, tree' = Unlink(tree, p)
  PROVE  Grown
  <1>1. p \in Paths \ { <<>> }
    BY DEF Shaped, Rooted
  <1>2. tree'[p] = NoEnt /\ NoEnt # Dir /\ \A q \in Paths : q # p => tree'[q] = tree[q]
    BY ConstantsAssumption DEF Unlink, FsTypes
  <1> QED
    BY <1>1, <1>2, SetName DEF Grown

LEMMA SameGrown ==
  ASSUME Shaped(tree), UNCHANGED tree
  PROVE  Grown
  BY DEF Grown, Shaped, Rooted, OnlyDirs

\* What Blocked and Stat say, once the tree has no holes.
LEMMA Lookup ==
  ASSUME FsTypes, Shaped(tree), NEW p \in Paths
  PROVE  /\ (Blocked(p) = {}) <=> \A a \in Ancestors(p) : tree[a] = Dir
         /\ Blocked(p) # {} => tree[p] = NoEnt
         /\ Stat(p) \in Files => tree[p] = Stat(p)
         /\ Stat(p) = Dir => tree[p] = Dir
         /\ Stat(p) \in {NoEnt, NotDir} => tree[p] = NoEnt
  <1>1. (Blocked(p) = {}) <=> \A a \in Ancestors(p) : tree[a] = Dir
    BY DEF Blocked, Ancestors
  <1>2. Blocked(p) # {} => tree[p] = NoEnt
    BY <1>1 DEF Shaped, Rooted
  <1>3. tree[p] \in Files \cup {NoEnt, Dir}
    BY DEF FsTypes, Node
  <1> QED
    BY <1>1, <1>2, <1>3, ConstantsAssumption DEF Stat

LEMMA NewDirGrown ==
  ASSUME FsTypes, Shaped(tree), NEW p \in Dirs, tree[p] = NoEnt,
         \A a \in Ancestors(p) : tree[a] = Dir,
         tree'[p] = Dir, \A q \in Paths : q # p => tree'[q] = tree[q]
  PROVE  Grown
  <1>1. p \in Paths \ { <<>> } /\ tree[p] # Dir
    BY ConstantsAssumption DEF Shaped, Rooted, Paths
  <1> QED
    BY ZenonT(40), <1>1, SetName DEF Grown

\* One mkdir: the first missing directory, under one that is there.
LEMMA MkdirGrown ==
  ASSUME FsTypes, Shaped(tree), NEW k \in Keys, MkdirStep(k)
  PROVE  Grown /\ FirstBlock(k) \in Dirs /\ tree' = [tree EXCEPT ![FirstBlock(k)] = Dir]
  <1> DEFINE m == Min(Blocked(k))  p == FirstBlock(k)
  <1>1. k \in Seq(Names) /\ Len(k) \in Nat \ {0}
    BY PathsAreSeqs, ConstantsAssumption
  <1>2. Blocked(k) \in SUBSET Nat /\ Blocked(k) # {}
    BY <1>1 DEF Blocked, MkdirStep
  <1>3. m \in Blocked(k) /\ \A n \in Blocked(k) : m <= n
    BY <1>2, NatMin
  <1>4. m \in 0..(Len(k) - 1) /\ p = SubSeq(k, 1, m)
    BY <1>3 DEF Blocked, FirstBlock
  <1>5. \A n \in 0..(m - 1) : tree[SubSeq(k, 1, n)] = Dir
    <2> SUFFICES ASSUME NEW n \in 0..(m - 1) PROVE tree[SubSeq(k, 1, n)] = Dir
      OBVIOUS
    <2>1. n \notin Blocked(k) /\ n \in 0..(Len(k) - 1)
      BY <1>1, <1>2, <1>3, <1>4
    <2> QED
      BY <2>1 DEF Blocked
  <1>6. \A a \in Ancestors(p) : tree[a] = Dir
    <2>1. m \in 0..Len(k)
      BY <1>1, <1>4
    <2>2. Ancestors(p) = {SubSeq(k, 1, n) : n \in 0..(m - 1)}
      BY <1>1, <1>4, <2>1, AbovePrefix
    <2> QED
      BY <2>2, <1>5
  <1>7. p \in Dirs
    BY <1>4, AboveKey DEF Ancestors
  <1>8. tree[p] = NoEnt /\ tree' = [tree EXCEPT ![p] = Dir]
    BY DEF MkdirStep
  <1> HIDE DEF p, m
  <1>9. tree'[p] = Dir /\ \A q \in Paths : q # p => tree'[q] = tree[q]
    BY <1>7, <1>8 DEF FsTypes, Paths
  <1>10. Grown
    BY <1>6, <1>7, <1>8, <1>9, NewDirGrown
  <1> QED
    BY <1>7, <1>8, <1>10 DEF p

(***************************************************************************)
(* Steps of a client.                                                       *)
(***************************************************************************)
Quiet(c) == Refusing(c) \/ Moving(c) \/ ListFails(c)

\* A step of one client leaves the others where they are.
LEMMA StepFrame ==
  ASSUME Inv, NEW c \in Clients, Step(c)
  PROVE  /\ UNCHANGED <<call, disk, orphans, cancels, crashes>>
         /\ \A d \in Clients \ {c} : /\ pc'[d] = pc[d] /\ file'[d] = file[d]
                                     /\ acc'[d] = acc[d] /\ ret'[d] = ret[d]
  <1>1. UNCHANGED <<call, disk, orphans, cancels, crashes>>
    BY DEF Step, Advance, PutStep, Refuse, PutQuota, PutResolved, PutMkdir, MkdirStep,
       PutMkdirFails, PutMkdirDone, PutCreate, PutCreateFails, PutWrite, PutSync, PutWriteFails,
       PutPersist, PutPersistFails, GetOpen, NoFile, LookupFails, GetRead, GetEof, Delete,
       Exists, Presign, ListStart, ListDir, ListEnd, ListFails, Reply, Drop, faults
  <1>2. ASSUME NEW r, Done(c, r)
        PROVE  \A d \in Clients \ {c} : /\ pc'[d] = pc[d] /\ file'[d] = file[d]
                                        /\ acc'[d] = acc[d] /\ ret'[d] = ret[d]
    BY <1>2 DEF Done, Inv, ClientTypes
  <1>3. CASE Refusing(c) \/ Removing(c) \/ PutPersist(c) \/ ListFails(c)
    <2>1. PICK r : Done(c, r)
      BY <1>3 DEF Refusing, Refuse, PutQuota, PutMkdirFails, PutCreateFails, NoFile, LookupFails,
         GetEof, Exists, Presign, ListEnd, Removing, PutWriteFails, PutPersistFails, Delete,
         PutPersist, ListFails, Reply, Drop
    <2> QED
      BY <1>1, <1>2, <2>1
  <1>4. pc \in [Clients -> Labels] /\ file \in [Clients -> Files \cup {Nil}]
        /\ acc \in [Clients -> Seq(Values)]
    BY DEF Inv, ClientTypes
  <1>5. CASE PutResolved(c) \/ PutMkdirDone(c) \/ PutSync(c) \/ PutMkdir(c) \/ PutWrite(c)
    BY <1>1, <1>4, <1>5 DEF PutResolved, PutMkdirDone, PutSync, PutMkdir, PutWrite, Goto, local
  <1>6. CASE ListStart(c) \/ ListDir(c)
    BY <1>1, <1>4, <1>6 DEF ListStart, ListDir, Goto
  <1>7. CASE PutCreate(c) \/ GetOpen(c)
    BY <1>1, <1>4, <1>7 DEF PutCreate, GetOpen, Goto
  <1>8. CASE GetRead(c)
    BY <1>1, <1>4, <1>8 DEF GetRead
  <1> QED
    BY <1>1, <1>3, <1>5, <1>6, <1>7, <1>8 DEF Step, Advance, PutStep, Refusing, Removing, Moving

LEMMA StepSplit ==
  ASSUME NEW c \in Clients, Step(c)
  PROVE  \/ Quiet(c) \/ PutWrite(c) \/ PutSync(c)
         \/ PutMkdir(c) \/ PutCreate(c) \/ Removing(c) \/ PutPersist(c)
  BY DEF Step, Advance, PutStep, Quiet, Refusing, Removing, Moving

LEMMA QuietTree ==
  ASSUME NEW c \in Clients, Quiet(c) \/ PutWrite(c) \/ PutSync(c)
  PROVE  UNCHANGED tree
  BY DEF Quiet, Refusing, Refuse, PutQuota, PutMkdirFails, PutCreateFails, NoFile, LookupFails,
     GetEof, Exists, Presign, ListEnd, Moving, PutResolved, PutMkdirDone, GetOpen, GetRead,
     ListStart, ListDir, ListFails, PutWrite, PutSync, Reply, fs

\* The temp file of a put stands beside its key.
LEMMA TmpBeside ==
  ASSUME NEW k \in Keys, NEW i \in Files
  PROVE  /\ Append(Parent(k), TmpName(i)) \in Paths \ (Keys \cup Dirs)
         /\ Append(Parent(k), TmpName(i)) # <<>>
         /\ Ancestors(Append(Parent(k), TmpName(i))) = Ancestors(k)
  <1>1. Parent(k) \in Dirs /\ Ancestors(k) = Ancestors(Parent(k)) \cup {Parent(k)}
    BY AboveKey
  <1>2. Append(Parent(k), TmpName(i)) \in TmpPaths
    BY <1>1, TmpInDir
  <1>3. Append(Parent(k), TmpName(i)) \notin Keys /\ Append(Parent(k), TmpName(i)) \notin Dirs
    BY <1>2, ConstantsAssumption
  <1>4. <<>> \in Dirs
    BY DEF Dirs
  <1> QED
    BY <1>1, <1>2, <1>3, <1>4, AboveEntry, TmpNamed DEF Paths

LEMMA PutCreateGrown ==
  ASSUME Inv, TreeInv, NEW c \in Clients, PutCreate(c)
  PROVE  Grown
  <1>1. Key(c) \in Keys /\ pc[c] = "create"
    BY DEF PutCreate, At, Inv, PutArgs, Key
  <1>2. PICK i \in Files : tree' = [tree EXCEPT ![Append(Parent(Key(c)), TmpName(i))] = i]
    BY DEF PutCreate
  <1> DEFINE p == Append(Parent(Key(c)), TmpName(i))
  <1>3. p \in Paths \ { <<>> } /\ p \notin Dirs /\ Ancestors(p) = Ancestors(Key(c))
    BY <1>1, TmpBeside
  <1>4. tree[p] # Dir /\ \A a \in Ancestors(p) : tree[a] = Dir
    BY <1>1, <1>3 DEF TreeInv, Shaped, OnlyDirs, PutPaths
  <1>5. tree'[p] = i /\ i # Dir /\ \A q \in Paths : q # p => tree'[q] = tree[q]
    BY <1>2, <1>3, ConstantsAssumption DEF Inv, FsTypes
  <1> HIDE DEF p
  <1> QED
    BY ZenonT(40), <1>3, <1>4, <1>5, SetName DEF Grown, TreeInv

LEMMA RemovingGrown ==
  ASSUME Inv, TreeInv, NEW c \in Clients, Removing(c)
  PROVE  Grown
  <1>1. CASE PutWriteFails(c) \/ PutPersistFails(c)
    <2>1. Key(c) \in Keys /\ file[c] \in Files /\ tree' = Unlink(tree, Tmp(c))
      BY <1>1 DEF PutWriteFails, PutPersistFails, Drop, At, Inv, PutArgs, Held, Working, FsTypes, Key
    <2>2. Tmp(c) \in Paths /\ Tmp(c) \notin Dirs
      BY <2>1, TmpBeside DEF Tmp
    <2>3. tree[Tmp(c)] # Dir
      BY <2>2 DEF TreeInv, Shaped, OnlyDirs
    <2> QED
      BY <2>1, <2>2, <2>3, UnlinkGrown DEF Inv, TreeInv
  <1>2. CASE Delete(c)
    <2>1. Key(c) \in Paths /\ Stat(Key(c)) \in Files /\ tree' = Unlink(tree, Key(c))
      BY <1>2 DEF Delete, Drop, Begin, At, Inv, PutArgs, Key
    <2>2. tree[Key(c)] # Dir
      BY <2>1, Lookup, ConstantsAssumption DEF Inv, TreeInv
    <2> QED
      BY <2>1, <2>2, UnlinkGrown DEF Inv, TreeInv
  <1> QED
    BY <1>1, <1>2 DEF Removing

\* The rename takes the temp name away and sets the key.
LEMMA PutPersistGrown ==
  ASSUME Inv, TreeInv, NEW c \in Clients, PutPersist(c)
  PROVE  Grown
  <1> DEFINE t == Unlink(tree, Tmp(c))
  <1>1. /\ Key(c) \in Keys /\ file[c] \in Files /\ pc[c] = "persist"
        /\ Stat(Key(c)) \in Files \cup {NoEnt}
        /\ tree' = [t EXCEPT ![Key(c)] = file[c]]
    BY DEF PutPersist, CanRename, At, Inv, PutArgs, Held, Working, FsTypes, Key
  <1>2. Tmp(c) \in Paths \ { <<>> } /\ Tmp(c) \notin Dirs /\ Tmp(c) # Key(c)
    BY <1>1, TmpBeside DEF Tmp
  <1>3. Key(c) \in Paths \ { <<>> } /\ file[c] # Dir /\ NoEnt # Dir
    BY <1>1, ConstantsAssumption DEF Paths
  <1>4. t[Tmp(c)] = NoEnt /\ \A q \in Paths : q # Tmp(c) => t[q] = tree[q]
    BY <1>2 DEF Inv, FsTypes, Unlink
  <1>5. tree'[Key(c)] = file[c] /\ \A q \in Paths : q # Key(c) => tree'[q] = t[q]
    BY <1>1, <1>3 DEF Inv, FsTypes, Unlink
  <1>6. Shaped(tree) /\ tree[Tmp(c)] # Dir /\ \A a \in Ancestors(Key(c)) : tree[a] = Dir
    BY <1>1, <1>2 DEF TreeInv, Shaped, OnlyDirs, PutPaths
  <1> HIDE DEF t
  <1>7. Shaped(t) /\ \A d \in Dirs : tree[d] = Dir => t[d] = Dir
    BY <1>2, <1>3, <1>4, <1>6, SetName
  <1>8. t[Key(c)] # Dir
    <2>1. tree[Key(c)] # Dir
      BY <1>1, <1>3, Lookup, ConstantsAssumption DEF Inv, TreeInv
    <2> QED
      BY <1>2, <1>3, <1>4, <2>1
  <1>9. \A a \in Ancestors(Key(c)) : t[a] = Dir
    BY <1>1, <1>6, <1>7, AboveKey
  <1>10. Shaped(tree') /\ \A d \in Dirs : t[d] = Dir => tree'[d] = Dir
    BY ZenonT(40), <1>3, <1>5, <1>7, <1>8, <1>9, SetName
  <1> QED
    BY <1>7, <1>10 DEF Grown

LEMMA StepGrown ==
  ASSUME Inv, TreeInv, NEW c \in Clients, Step(c)
  PROVE  Grown
  <1>1. CASE Quiet(c) \/ PutWrite(c) \/ PutSync(c)
    BY <1>1, QuietTree, SameGrown DEF TreeInv
  <1>2. CASE PutMkdir(c)
    <2>1. Key(c) \in Keys /\ MkdirStep(Key(c))
      BY <1>2 DEF PutMkdir, At, Inv, PutArgs, Key
    <2> QED
      BY <2>1, MkdirGrown DEF Inv, TreeInv
  <1> QED
    BY <1>1, <1>2, StepSplit, PutCreateGrown, RemovingGrown, PutPersistGrown

\* A put reaches "create" only with its directory in place.
LEMMA StepPutPaths ==
  ASSUME Inv, TreeInv, NEW c \in Clients, Step(c)
  PROVE  pc'[c] \in {"create", "write", "persist"} =>
           /\ Key(c) \in Keys
           /\ \A a \in Ancestors(Key(c)) : tree[a] = Dir
  <1> SUFFICES ASSUME pc'[c] \in {"create", "write", "persist"}
               PROVE  Key(c) \in Keys /\ \A a \in Ancestors(Key(c)) : tree[a] = Dir
    OBVIOUS
  <1>1. CASE pc[c] \in {"create", "write", "persist"}
    BY <1>1 DEF Inv, PutArgs, TreeInv, PutPaths, Key
  <1>2. CASE pc[c] \notin {"create", "write", "persist"}
    <2>1. PutMkdirDone(c)
      <3>1. pc \in [Clients -> Labels]
        BY DEF Inv, ClientTypes
      <3>2. ASSUME NEW r, Done(c, r) PROVE pc'[c] = "done"
        BY <3>1, <3>2 DEF Done
      <3>3. ~ (Refusing(c) \/ Removing(c) \/ PutPersist(c) \/ ListFails(c))
        <4>1. ASSUME Refusing(c) \/ Removing(c) \/ PutPersist(c) \/ ListFails(c)
              PROVE  \E r : Done(c, r)
          BY <4>1 DEF Refusing, Refuse, PutQuota, PutMkdirFails, PutCreateFails, NoFile,
             LookupFails, GetEof, Exists, Presign, ListEnd, Removing, PutWriteFails,
             PutPersistFails, Delete, PutPersist, ListFails, Reply, Drop
        <4> QED
          BY <3>2, <4>1
      <3>4. ~ (PutCreate(c) \/ PutWrite(c) \/ PutSync(c))
        BY <1>2 DEF PutCreate, PutWrite, PutSync, At
      <3>5. ~ (PutResolved(c) \/ PutMkdir(c) \/ GetOpen(c) \/ GetRead(c) \/ ListStart(c) \/ ListDir(c))
        BY <1>2, <3>1 DEF PutResolved, PutMkdir, GetOpen, GetRead, ListStart, ListDir, Goto
      <3> QED
        BY <3>3, <3>4, <3>5, StepSplit DEF Quiet, Moving
    <2>2. Key(c) \in Keys /\ Blocked(Key(c)) = {}
      BY <2>1 DEF PutMkdirDone, At, Inv, PutArgs, Key
    <2> QED
      BY <2>2 DEF Blocked, Ancestors
  <1> QED
    BY <1>1, <1>2

LEMMA StepTreeInv ==
  ASSUME Inv, TreeInv, NEW c \in Clients, Step(c)
  PROVE  TreeInv'
  <1>1. Shaped(tree') /\ \A d \in Dirs : tree[d] = Dir => tree'[d] = Dir
    BY StepGrown DEF Grown
  <1>2. /\ UNCHANGED <<call, disk, orphans>>
        /\ \A d \in Clients \ {c} : pc'[d] = pc[d]
    BY StepFrame
  <1>3. PutPaths'
    <2> SUFFICES ASSUME NEW d \in Clients, pc'[d] \in {"create", "write", "persist"},
                        NEW a \in Ancestors(Key(d))
                 PROVE  tree'[a] = Dir
      BY <1>2 DEF PutPaths, Key
    <2>1. Key(d) \in Keys /\ tree[a] = Dir
      <3>1. CASE d = c
        BY <3>1, StepPutPaths
      <3>2. CASE d # c
        BY <3>2, <1>2 DEF Inv, PutArgs, TreeInv, PutPaths, Key
      <3> QED
        BY <3>1, <3>2
    <2> QED
      BY <2>1, <1>1, AboveKey
  <1>4. Shaped(disk)' /\ OrphanKeys'
    BY <1>2 DEF TreeInv, OrphanKeys, Shaped, Rooted, OnlyDirs
  <1>5. Shaped(tree)'
    BY <1>1 DEF Shaped, Rooted, OnlyDirs
  <1> QED
    BY <1>3, <1>4, <1>5 DEF TreeInv

LEMMA OrphanGrown ==
  ASSUME Inv, TreeInv, NEW o \in orphans, OrphanUnlink(o) \/ OrphanMkdir(o) \/ OrphanEnds(o)
  PROVE  Grown
  <1>1. o.key \in Paths
    BY DEF Inv, FaultTypes, Orphans
  <1>2. CASE OrphanUnlink(o)
    <2>1. CASE Stat(o.key) \in Files
      <3>1. tree[o.key] # Dir
        BY <1>1, <2>1, Lookup, ConstantsAssumption DEF Inv, TreeInv
      <3> QED
        BY <1>1, <1>2, <2>1, <3>1, UnlinkGrown DEF OrphanUnlink, Inv, TreeInv
    <2>2. CASE Stat(o.key) \notin Files
      BY <1>2, <2>2, SameGrown DEF OrphanUnlink, TreeInv
    <2> QED
      BY <2>1, <2>2
  <1>3. CASE OrphanMkdir(o)
    BY <1>3, MkdirGrown DEF OrphanMkdir, Inv, TreeInv, OrphanKeys
  <1>4. CASE OrphanEnds(o)
    BY <1>4, SameGrown DEF OrphanEnds, fs, TreeInv
  <1> QED
    BY <1>2, <1>3, <1>4

(***************************************************************************)
(* TreeInv is inductive relative to Inv.                                    *)
(***************************************************************************)
LEMMA InitTreeInv == Init => TreeInv
  <1> SUFFICES ASSUME Init PROVE TreeInv
    OBVIOUS
  <1>1. \A p \in Paths : tree[p] = (IF p = <<>> THEN Dir ELSE NoEnt)
    BY DEF Init
  <1>2. <<>> \in Paths /\ <<>> \in Dirs
    BY DEF Paths, Dirs
  <1>3. Ancestors(<<>>) = {}
    BY DEF Ancestors
  <1>4. Shaped(tree)
    BY <1>1, <1>2, <1>3, ConstantsAssumption DEF Shaped, Rooted, OnlyDirs
  <1>5. disk = tree /\ orphans = {} /\ \A c \in Clients : pc[c] = "idle"
    BY DEF Init
  <1> QED
    BY <1>4, <1>5 DEF TreeInv, PutPaths, OrphanKeys

\* Steps that neither move a client into a put nor take a directory away.
LEMMA FrameTreeInv ==
  ASSUME Inv, TreeInv, Grown, Shaped(disk'),
         \A c \in Clients : pc'[c] \in {"create", "write", "persist"} =>
           pc'[c] = pc[c] /\ call'[c] = call[c],
         OrphanKeys'
  PROVE  TreeInv'
  <1>1. PutPaths'
    <2> SUFFICES ASSUME NEW d \in Clients, pc'[d] \in {"create", "write", "persist"},
                        NEW a \in Ancestors(call'[d].key)
                 PROVE  tree'[a] = Dir
      BY DEF PutPaths, Key
    <2>1. Key(d) \in Keys /\ a \in Ancestors(Key(d)) /\ tree[a] = Dir
      BY DEF Inv, PutArgs, TreeInv, PutPaths, Key
    <2> QED
      BY <2>1, AboveKey DEF Grown
  <1>2. Shaped(tree)' /\ Shaped(disk)'
    BY DEF Grown, Shaped, Rooted, OnlyDirs
  <1> QED
    BY <1>1, <1>2 DEF TreeInv

LEMMA InvokeTreeInv == ASSUME Inv, TreeInv, NEW c \in Clients, Invoke(c) PROVE TreeInv'
  <1>1. UNCHANGED <<tree, disk, orphans>> /\ pc' = [pc EXCEPT ![c] = "start"]
        /\ \A d \in Clients \ {c} : call'[d] = call[d]
    BY DEF Invoke, fs, faults, Goto, Inv, ClientTypes
  <1>2. \A d \in Clients : pc'[d] \in {"create", "write", "persist"} =>
          pc'[d] = pc[d] /\ call'[d] = call[d]
    BY <1>1 DEF Inv, ClientTypes
  <1>3. Grown /\ Shaped(disk') /\ OrphanKeys'
    BY <1>1, SameGrown DEF TreeInv, OrphanKeys
  <1> QED
    BY <1>2, <1>3, FrameTreeInv

LEMMA CancelTreeInv == ASSUME Inv, TreeInv, NEW c \in Clients, Cancel(c) PROVE TreeInv'
  <1>1. UNCHANGED <<tree, disk>> /\ pc' = [pc EXCEPT ![c] = "idle"]
        /\ call' = [call EXCEPT ![c] = Nil]
    BY DEF Cancel, fs, Goto
  <1>2. \A d \in Clients : pc'[d] \in {"create", "write", "persist"} =>
          pc'[d] = pc[d] /\ call'[d] = call[d]
    BY <1>1 DEF Inv, ClientTypes
  <1>3. OrphanKeys'
    <2>1. CASE orphans' = orphans
      BY <2>1 DEF TreeInv, OrphanKeys
    <2>2. CASE orphans' = orphans \cup {[op |-> call[c].op, key |-> Key(c), by |-> c]}
               /\ (At(c, "mkdir", {"put"}) \/ Begin(c, {"delete"}))
      <3>1. call[c].op = "put" => Key(c) \in Keys
        BY <2>2 DEF At, Begin, Inv, PutArgs, Key
      <3> QED
        BY <2>2, <3>1 DEF TreeInv, OrphanKeys
    <2> QED
      BY <2>1, <2>2 DEF Cancel
  <1>4. Grown /\ Shaped(disk')
    BY <1>1, SameGrown DEF TreeInv
  <1> QED
    BY <1>2, <1>3, <1>4, FrameTreeInv

LEMMA OrphanTreeInv == ASSUME Inv, TreeInv, Orphan PROVE TreeInv'
  <1>1. PICK o \in orphans : OrphanUnlink(o) \/ OrphanMkdir(o) \/ OrphanEnds(o)
    BY DEF Orphan
  <1>2. UNCHANGED <<disk, pc, call>> /\ orphans' \subseteq orphans
    BY DEF Orphan, OrphanUnlink, OrphanMkdir, OrphanEnds
  <1>3. Grown
    BY <1>1, OrphanGrown
  <1>4. Shaped(disk') /\ OrphanKeys'
    BY <1>2 DEF TreeInv, OrphanKeys
  <1> QED
    BY <1>2, <1>3, <1>4, FrameTreeInv

LEMMA TreeInvIsInductive == Inv /\ TreeInv /\ [Next]_vars => TreeInv'
  <1> SUFFICES ASSUME Inv, TreeInv, [Next]_vars PROVE TreeInv'
    OBVIOUS
  <1>1. CASE Commit
    <2>1. UNCHANGED <<tree, pc, call, orphans>> /\ disk' = tree
      BY <1>1 DEF Commit, fs, faults
    <2>2. Grown /\ Shaped(disk') /\ OrphanKeys'
      BY <2>1, SameGrown DEF TreeInv, OrphanKeys
    <2> QED
      BY <2>1, <2>2, FrameTreeInv
  <1>2. CASE Crash
    <2>1. tree' = disk /\ disk' = disk /\ orphans' = {} /\ \A c \in Clients : pc'[c] = "idle"
      BY <1>2 DEF Crash
    <2>2. Shaped(tree)' /\ Shaped(disk)'
      BY <2>1 DEF TreeInv, Shaped, Rooted, OnlyDirs
    <2> QED
      BY <2>1, <2>2 DEF TreeInv, PutPaths, OrphanKeys
  <1>3. CASE UNCHANGED vars
    <2>1. UNCHANGED <<tree, disk, pc, call, orphans>>
      BY <1>3 DEF vars
    <2>2. Grown /\ Shaped(disk') /\ OrphanKeys'
      BY <2>1, SameGrown DEF TreeInv, OrphanKeys
    <2> QED
      BY <2>1, <2>2, FrameTreeInv
  <1> QED
    BY <1>1, <1>2, <1>3, StepTreeInv, InvokeTreeInv, CancelTreeInv, OrphanTreeInv DEF Next

LEMMA SpecTreeInv == Spec => []TreeInv
  BY InitTreeInv, TreeInvIsInductive, SpecInv, PTL DEF Spec

\* Every name lies in a directory that exists, in the tree readers see and in
\* the one a power failure falls back to: create_dir_all runs before the temp
\* file is made and nothing in the store removes a directory.
THEOREM TreeIsWhole == Spec => []TreeShape
  <1>1. TreeInv => TreeShape
    BY ParentAbove DEF TreeInv, TreeShape, Shaped, Rooted
  <1> QED
    BY <1>1, SpecTreeInv, PTL

(***************************************************************************)
(* Temp files.                                                              *)
(***************************************************************************)
LEMMA TmpInjective ==
  ASSUME NEW d \in Dirs, NEW e \in Dirs, NEW i \in Files, NEW j \in Files,
         Append(d, TmpName(i)) = Append(e, TmpName(j))
  PROVE  d = e /\ i = j
  <1>1. d \in Seq(Names) /\ e \in Seq(Names) /\ TmpName(i) \in Names /\ TmpName(j) \in Names
    BY PathsAreSeqs, TmpNamed
  <1>2. Len(Append(d, TmpName(i))) = Len(d) + 1 /\ Len(Append(e, TmpName(j))) = Len(e) + 1
    BY <1>1, ExtendPath
  <1>3. Len(d) = Len(e)
    BY <1>1, <1>2
  <1>4. d = e
    <2>1. /\ SubSeq(Append(d, TmpName(i)), 1, Len(d)) = SubSeq(d, 1, Len(d))
          /\ SubSeq(Append(e, TmpName(j)), 1, Len(e)) = SubSeq(e, 1, Len(e))
          /\ SubSeq(d, 1, Len(d)) = d /\ SubSeq(e, 1, Len(e)) = e
      BY <1>1, ExtendPath
    <2> QED
      BY <1>3, <2>1
  <1>5. TmpName(i) = TmpName(j)
    <2>1. Append(d, TmpName(i))[Len(d) + 1] = TmpName(i)
          /\ Append(e, TmpName(j))[Len(e) + 1] = TmpName(j)
      BY <1>1
    <2> QED
      BY <1>3, <2>1
  <1> QED
    BY <1>4, <1>5 DEF TmpName

\* Every temp name a step of c leaves was there before and is not one c gave up,
\* or is one c has just made.
TempNames(c) ==
  \A d \in Dirs, i \in Files : tree'[Append(d, TmpName(i))] # NoEnt =>
    \/ /\ tree[Append(d, TmpName(i))] # NoEnt
       /\ \/ ~ Working(c)
          \/ Working(c)' /\ file'[c] = file[c]
          \/ Append(d, TmpName(i)) # Tmp(c)
    \/ Working(c)' /\ file'[c] = i /\ d = Parent(Key(c))

LEMMA StepTemps ==
  ASSUME Inv, Temps, NEW c \in Clients,
         UNCHANGED <<call, crashes>>,
         \A d \in Clients \ {c} : pc'[d] = pc[d] /\ file'[d] = file[d],
         TempNames(c)
  PROVE  Temps'
  <1> SUFFICES ASSUME crashes = 0, NEW d \in Dirs, NEW i \in Files,
                      tree'[Append(d, TmpName(i))] # NoEnt
               PROVE  \E b \in Clients : Working(b)' /\ file'[b] = i /\ d = Parent(Key(b))
    BY DEF Temps, Key
  <1> USE DEF TempNames
  <1>1. CASE Working(c)' /\ file'[c] = i /\ d = Parent(Key(c))
    BY <1>1
  <1>2. CASE /\ tree[Append(d, TmpName(i))] # NoEnt
             /\ \/ ~ Working(c)
                \/ Working(c)' /\ file'[c] = file[c]
                \/ Append(d, TmpName(i)) # Tmp(c)
    <2>1. PICK b \in Clients : Working(b) /\ file[b] = i /\ d = Parent(Key(b))
      BY <1>2 DEF Temps
    <2>2. CASE b # c
      BY <2>1, <2>2 DEF Working
    <2>3. CASE b = c
      <3>1. Append(d, TmpName(i)) = Tmp(c)
        BY <2>1, <2>3 DEF Tmp
      <3> QED
        BY <1>2, <2>1, <2>3, <3>1
    <2> QED
      BY <2>2, <2>3
  <1> QED
    BY <1>1, <1>2

\* Names that are no temp names do not matter.
LEMMA TmpOnly ==
  ASSUME NEW d \in Dirs, NEW i \in Files
  PROVE  Append(d, TmpName(i)) \in Paths \ (Keys \cup Dirs)
  BY TmpInDir, ConstantsAssumption DEF Paths

LEMMA StepTempNames ==
  ASSUME Inv, TreeInv, NEW c \in Clients, Step(c)
  PROVE  TempNames(c)
  <1> USE DEF TempNames
  <1>1. UNCHANGED call
    BY StepFrame
  <1>2. pc \in [Clients -> Labels] /\ file \in [Clients -> Files \cup {Nil}] /\ tree \in [Paths -> Node]
    BY DEF Inv, ClientTypes, FsTypes
  <1>3. CASE Quiet(c)
    <2>1. ~ Working(c)
      BY <1>3 DEF Quiet, Refusing, Refuse, PutQuota, PutMkdirFails, PutCreateFails, NoFile,
         LookupFails, GetEof, Exists, Presign, ListEnd, Moving, PutResolved, PutMkdirDone, GetOpen,
         GetRead, ListStart, ListDir, ListFails, Begin, At, Working
    <2> QED
      BY <1>1, <1>3, <2>1, QuietTree
  <1>4. CASE PutWrite(c) \/ PutSync(c)
    <2>1. Working(c)' /\ file'[c] = file[c]
      BY <1>2, <1>4 DEF PutWrite, PutSync, Goto, local, At, Working
    <2> QED
      BY <1>1, <1>4, <2>1, QuietTree
  <1>5. CASE PutMkdir(c)
    <2>1. Key(c) \in Keys /\ MkdirStep(Key(c)) /\ ~ Working(c)
      BY <1>5 DEF PutMkdir, At, Inv, PutArgs, Key, Working
    <2>2. FirstBlock(Key(c)) \in Dirs /\ tree' = [tree EXCEPT ![FirstBlock(Key(c))] = Dir]
      BY <2>1, MkdirGrown DEF Inv, TreeInv
    <2>3. \A d \in Dirs, i \in Files : tree'[Append(d, TmpName(i))] = tree[Append(d, TmpName(i))]
      BY <1>2, <2>2, TmpOnly
    <2> QED
      BY <1>1, <2>1, <2>3
  <1>6. CASE PutCreate(c)
    <2>1. Key(c) \in Keys /\ pc[c] = "create" /\ ~ Working(c)
      BY <1>6 DEF PutCreate, At, Inv, PutArgs, Key, Working
    <2>2. PICK j \in Files : /\ file' = [file EXCEPT ![c] = j]
                             /\ tree' = [tree EXCEPT ![Append(Parent(Key(c)), TmpName(j))] = j]
      BY <1>6 DEF PutCreate
    <2>3. Working(c)' /\ file'[c] = j
      BY <1>2, <1>6, <2>2 DEF PutCreate, Goto, Working
    <2>4. Parent(Key(c)) \in Dirs
      BY <2>1, AboveKey
    <2>5. ASSUME NEW d \in Dirs, NEW i \in Files
          PROVE  \/ tree'[Append(d, TmpName(i))] = tree[Append(d, TmpName(i))]
                 \/ i = j /\ d = Parent(Key(c))
      <3>1. CASE Append(d, TmpName(i)) = Append(Parent(Key(c)), TmpName(j))
        BY <2>4, <3>1, TmpInjective
      <3>2. CASE Append(d, TmpName(i)) # Append(Parent(Key(c)), TmpName(j))
        BY <1>2, <2>2, <3>2
      <3> QED
        BY <3>1, <3>2
    <2> QED
      BY <1>1, <2>1, <2>3, <2>5
  <1>7. CASE PutWriteFails(c) \/ PutPersistFails(c)
    <2>1. tree' = Unlink(tree, Tmp(c))
      BY <1>7 DEF PutWriteFails, PutPersistFails, Drop
    <2>2. ASSUME NEW p \in Paths, tree'[p] # NoEnt PROVE tree[p] # NoEnt /\ p # Tmp(c)
      BY <1>2, <2>1, <2>2 DEF Unlink
    <2>3. \A d \in Dirs, i \in Files : tree'[Append(d, TmpName(i))] # NoEnt =>
            tree[Append(d, TmpName(i))] # NoEnt /\ Append(d, TmpName(i)) # Tmp(c)
      BY <2>2, TmpOnly
    <2> QED
      BY <1>1, <2>3
  <1>8. CASE Delete(c)
    <2>1. tree' = Unlink(tree, Key(c)) /\ ~ Working(c)
      BY <1>8 DEF Delete, Drop, Begin, At, Working
    <2>2. \A p \in Paths : tree'[p] # NoEnt => tree[p] # NoEnt
      BY <1>2, <2>1 DEF Unlink
    <2>3. \A d \in Dirs, i \in Files : tree'[Append(d, TmpName(i))] # NoEnt =>
            tree[Append(d, TmpName(i))] # NoEnt
      BY <2>2, TmpOnly
    <2> QED
      BY <1>1, <2>1, <2>3
  <1>9. CASE PutPersist(c)
    <2>1. Key(c) \in Keys /\ tree' = [Unlink(tree, Tmp(c)) EXCEPT ![Key(c)] = file[c]]
      BY <1>9 DEF PutPersist, At, Inv, PutArgs, Key
    <2>2. ASSUME NEW p \in Paths, p # Key(c), tree'[p] # NoEnt PROVE tree[p] # NoEnt /\ p # Tmp(c)
      BY <1>2, <2>1, <2>2 DEF Unlink
    <2>3. \A d \in Dirs, i \in Files : tree'[Append(d, TmpName(i))] # NoEnt =>
            tree[Append(d, TmpName(i))] # NoEnt /\ Append(d, TmpName(i)) # Tmp(c)
      BY <2>1, <2>2, TmpOnly
    <2> QED
      BY <1>1, <2>3
  <1> QED
    BY <1>3, <1>4, <1>5, <1>6, <1>7, <1>8, <1>9, StepSplit DEF Removing

LEMMA StepKeepsTemps ==
  ASSUME Inv, TreeInv, Temps, NEW c \in Clients, Step(c)
  PROVE  Temps'
  BY StepFrame, StepTempNames, StepTemps

\* Steps that leave every put where it is and make no temp name.
LEMMA FrameTemps ==
  ASSUME Temps, crashes' = crashes,
         \A c \in Clients : Working(c) =>
           pc'[c] = pc[c] /\ file'[c] = file[c] /\ call'[c] = call[c],
         \A d \in Dirs, i \in Files : tree'[Append(d, TmpName(i))] # NoEnt =>
           tree[Append(d, TmpName(i))] # NoEnt
  PROVE  Temps'
  <1> SUFFICES ASSUME crashes = 0, NEW d \in Dirs, NEW i \in Files,
                      tree'[Append(d, TmpName(i))] # NoEnt
               PROVE  \E b \in Clients : Working(b)' /\ file'[b] = i /\ d = Parent(Key(b))'
    BY DEF Temps
  <1>1. PICK b \in Clients : Working(b) /\ file[b] = i /\ d = Parent(Key(b))
    BY DEF Temps
  <1>2. Working(b)' /\ Key(b)' = Key(b)
    BY <1>1 DEF Working, Key
  <1> QED
    BY <1>1, <1>2

LEMMA OrphanTemps ==
  ASSUME Inv, TreeInv, NEW o \in orphans, OrphanUnlink(o) \/ OrphanMkdir(o) \/ OrphanEnds(o),
         NEW d \in Dirs, NEW i \in Files, tree'[Append(d, TmpName(i))] # NoEnt
  PROVE  tree[Append(d, TmpName(i))] # NoEnt
  <1>1. tree \in [Paths -> Node] /\ Append(d, TmpName(i)) \in Paths \ Dirs
    BY TmpOnly DEF Inv, FsTypes
  <1>2. CASE OrphanUnlink(o)
    BY <1>1, <1>2 DEF OrphanUnlink, Unlink
  <1>3. CASE OrphanMkdir(o)
    <2>1. FirstBlock(o.key) \in Dirs /\ tree' = [tree EXCEPT ![FirstBlock(o.key)] = Dir]
      BY <1>3, MkdirGrown DEF OrphanMkdir, Inv, TreeInv, OrphanKeys
    <2> QED
      BY <1>1, <2>1
  <1>4. CASE OrphanEnds(o)
    BY <1>4 DEF OrphanEnds, fs
  <1> QED
    BY <1>2, <1>3, <1>4

LEMMA TempsIsInductive == Inv /\ TreeInv /\ Temps /\ [Next]_vars => Temps'
  <1> SUFFICES ASSUME Inv, TreeInv, Temps, [Next]_vars PROVE Temps'
    OBVIOUS
  <1>1. ASSUME NEW c \in Clients, Invoke(c) PROVE Temps'
    <2>1. UNCHANGED <<tree, file, crashes>> /\ ~ Working(c)
          /\ \A d \in Clients \ {c} : pc'[d] = pc[d] /\ call'[d] = call[d]
      BY <1>1 DEF Invoke, fs, faults, Goto, Idle, Working, Inv, ClientTypes
    <2> QED
      BY <2>1, FrameTemps
  <1>2. ASSUME NEW c \in Clients, Cancel(c) PROVE Temps'
    <2>1. UNCHANGED <<tree, crashes>> /\ ~ Working(c)
          /\ \A d \in Clients \ {c} : pc'[d] = pc[d] /\ call'[d] = call[d] /\ file'[d] = file[d]
      BY <1>2 DEF Cancel, fs, Goto, Begin, At, Working, Inv, ClientTypes
    <2> QED
      BY <2>1, FrameTemps
  <1>3. CASE Orphan
    <2>1. UNCHANGED <<pc, call, file, crashes>>
      BY <1>3 DEF Orphan, local
    <2>2. PICK o \in orphans : OrphanUnlink(o) \/ OrphanMkdir(o) \/ OrphanEnds(o)
      BY <1>3 DEF Orphan
    <2> QED
      BY <2>1, <2>2, OrphanTemps, FrameTemps
  <1>4. CASE Commit \/ UNCHANGED vars
    <2>1. UNCHANGED <<tree, pc, call, file, crashes>>
      BY <1>4 DEF Commit, fs, local, faults, vars
    <2> QED
      BY <2>1, FrameTemps
  <1>5. CASE Crash
    <2>1. crashes' # 0
      BY <1>5 DEF Crash, Inv, FaultTypes
    <2> QED
      BY <2>1 DEF Temps
  <1> QED
    BY <1>1, <1>2, <1>3, <1>4, <1>5, StepKeepsTemps DEF Next

LEMMA InitTemps == Init => Temps
  <1> SUFFICES ASSUME Init, NEW d \in Dirs, NEW i \in Files
               PROVE  tree[Append(d, TmpName(i))] = NoEnt
    BY DEF Temps
  <1>1. Append(d, TmpName(i)) \in Paths \ Dirs /\ <<>> \in Dirs
    BY TmpOnly DEF Dirs
  <1> QED
    BY <1>1 DEF Init

\* As long as the machine has not lost power, every temp file belongs to a put
\* that is still writing or about to rename: a put that returned, on any error
\* path, and a put whose rename was refused, left none behind.
THEOREM NoTempLeftBehind == Spec => []TempsOwned
  <1>1. Temps => TempsOwned
    BY DEF Temps, TempsOwned, Working
  <1> QED
    BY <1>1, InitTemps, TempsIsInductive, SpecInv, SpecTreeInv, PTL DEF Spec

(***************************************************************************)
(* LocalStore implements BlobStore.                                         *)
(*                                                                         *)
(* Between its call and its return every operation has one step that is     *)
(* the operation of BlobStore and no other step that BlobStore sees.  What  *)
(* a step needs to know beyond Inv and TreeInv is RefInv: the file a put    *)
(* renames holds the payload it was called with (PutFilled), and a get has  *)
(* read a beginning of a file that no longer changes (Reads).               *)
(***************************************************************************)
CallsOpen ==
  \A c \in Clients : /\ pc[c] = "idle" => call[c] = Nil
                     /\ pc[c] # "idle" => call[c] \in Calls
                     /\ pc[c] = "done" => ret[c] \in Results

PutFilled == \A c \in Clients : pc[c] = "persist" => data[file[c]] = Full(call[c].val)

Reads ==
  \A c \in Clients :
    /\ pc[c] # "read" => acc[c] = <<>>
    /\ pc[c] = "read" /\ call[c].key \in Keys =>
         /\ file[c] \in synced
         /\ Len(acc[c]) <= Len(data[file[c]])
         /\ \A n \in 1..Len(acc[c]) : acc[c][n] = data[file[c]][n]

RefInv == CallsOpen /\ PutFilled /\ Reads

USE NilAssumption

LEMMA NilIsNoCall == Nil \notin Calls
  <1> SUFFICES ASSUME NEW op \in Operations, NEW key \in Paths \cup ListArgs, NEW val \in Values \cup {Nil}
               PROVE  Nil # [op |-> op, key |-> key, val |-> val]
    BY DEF Calls
  <1> QED
    BY DEF Call

LEMMA InitRefInv == Init => RefInv
  BY DEF Init, RefInv, CallsOpen, PutFilled, Reads

(***************************************************************************)
(* RefInv is inductive.                                                     *)
(***************************************************************************)
\* Where a step takes its client.
LEMMA StepMoves ==
  ASSUME Inv, NEW c \in Clients, Step(c)
  PROVE  /\ pc[c] \notin {"idle", "done"}
         /\ \/ /\ \E r \in Results : Done(c, r)
               /\ pc'[c] = "done" /\ ret'[c] \in Results /\ acc'[c] = <<>>
            \/ /\ pc'[c] \in {"mkdir", "create", "write", "persist", "walk"}
               /\ pc[c] # "read" /\ UNCHANGED acc
               /\ pc'[c] = "persist" =>
                    PutSync(c) /\ file' = file /\ data' = data
            \/ /\ GetOpen(c) /\ pc'[c] = "read"
            \/ /\ GetRead(c) /\ pc'[c] = "read"
  <1>1. /\ pc \in [Clients -> Labels] /\ ret \in [Clients -> Results \cup {Nil}]
        /\ acc \in [Clients -> Seq(Values)]
    BY DEF Inv, ClientTypes
  <1>2. ASSUME NEW r \in Results, Done(c, r)
        PROVE  pc'[c] = "done" /\ ret'[c] \in Results /\ acc'[c] = <<>>
    BY <1>1, <1>2 DEF Done
  <1>3. pc[c] \notin {"idle", "done"}
    BY DEF Step, Advance, PutStep, Refuse, PutQuota, PutResolved, PutMkdir,
       PutMkdirFails, PutMkdirDone, PutCreate, PutCreateFails, PutWrite, PutSync, PutWriteFails,
       PutPersist, PutPersistFails, GetOpen, NoFile, LookupFails, GetRead, GetEof, Delete,
       Exists, Presign, ListStart, ListDir, ListEnd, ListFails, Begin, At
  <1>4. CASE Refusing(c)
    BY <1>2, <1>3, <1>4, RefusingReplies DEF Reply
  <1>5. CASE Removing(c) \/ PutPersist(c) \/ ListFails(c)
    <2>1. Err("Other") \in Results /\ Err("Io") \in Results /\ Ok(Nil) \in Results
      BY DEF Err, Ok, Results
    <2>2. \E r \in Results : Done(c, r)
      BY <1>5, <2>1 DEF Removing, PutWriteFails, PutPersistFails, Delete, PutPersist, ListFails, Drop
    <2> QED
      BY <1>2, <1>3, <2>2
  <1>6. CASE PutResolved(c) \/ PutMkdirDone(c) \/ PutMkdir(c)
    BY <1>1, <1>3, <1>6 DEF PutResolved, PutMkdirDone, PutMkdir, Goto, local, Begin, At
  <1>7. CASE PutCreate(c) \/ PutWrite(c) \/ PutSync(c)
    BY <1>1, <1>3, <1>7 DEF PutCreate, PutWrite, PutSync, Goto, local, At
  <1>8. CASE ListStart(c) \/ ListDir(c)
    BY <1>1, <1>3, <1>8 DEF ListStart, ListDir, Goto, At
  <1>9. CASE GetOpen(c) \/ GetRead(c)
    BY <1>1, <1>3, <1>9 DEF GetOpen, GetRead, Goto, At
  <1> QED
    BY <1>4, <1>5, <1>6, <1>7, <1>8, <1>9 DEF Step, Advance, PutStep, Refusing, Removing

\* The clients a step leaves alone keep what RefInv says of them.
RefInvOf(c) ==
  /\ pc[c] = "idle" => call[c] = Nil
  /\ pc[c] # "idle" => call[c] \in Calls
  /\ pc[c] = "done" => ret[c] \in Results
  /\ pc[c] = "persist" => data[file[c]] = Full(call[c].val)
  /\ pc[c] # "read" => acc[c] = <<>>
  /\ pc[c] = "read" /\ call[c].key \in Keys =>
       /\ file[c] \in synced
       /\ Len(acc[c]) <= Len(data[file[c]])
       /\ \A n \in 1..Len(acc[c]) : acc[c][n] = data[file[c]][n]

LEMMA RefInvSplit == RefInv <=> \A c \in Clients : RefInvOf(c)
  BY DEF RefInv, CallsOpen, PutFilled, Reads, RefInvOf

LEMMA RefInvSplitPrime == RefInv' <=> \A c \in Clients : RefInvOf(c)'
  BY DEF RefInv, CallsOpen, PutFilled, Reads, RefInvOf

LEMMA RefInvFrame ==
  ASSUME Inv, NEW c \in Clients, RefInvOf(c), Settled,
         pc'[c] = pc[c], call'[c] = call[c], ret'[c] = ret[c],
         file'[c] = file[c], acc'[c] = acc[c]
  PROVE  RefInvOf(c)'
  <1>1. pc[c] = "persist" => file[c] \in synced
    BY DEF Inv, Held
  <1> QED
    BY <1>1 DEF RefInvOf, Settled, Full

\* A file a get opens through a key has been synced.
LEMMA GetOpens ==
  ASSUME Inv, TreeInv, NEW c \in Clients, GetOpen(c)
  PROVE  /\ file'[c] = Stat(Key(c)) /\ file'[c] \in Files /\ UNCHANGED <<data, synced, acc, ret>>
         /\ Key(c) \in Keys => file'[c] = tree[Key(c)] /\ file'[c] \in synced
  <1>1. file'[c] = Stat(Key(c)) /\ Stat(Key(c)) \in Files
    BY DEF GetOpen, Inv, ClientTypes
  <1>2. ASSUME Key(c) \in Keys PROVE Stat(Key(c)) = tree[Key(c)]
    BY <1>1, <1>2, Lookup DEF Inv, TreeInv, Paths
  <1>3. UNCHANGED <<data, synced, acc, ret>>
    BY DEF GetOpen, fs
  <1> QED
    BY <1>1, <1>2, <1>3 DEF Inv, KeysSynced

LEMMA StepRefInv ==
  ASSUME Inv, TreeInv, RefInv, NEW c \in Clients, Step(c)
  PROVE  RefInv'
  <1>1. \A d \in Clients : RefInvOf(d)
    BY RefInvSplit
  <1>2. Settled /\ call' = call
    BY StepSettled, StepFrame
  <1>3. ASSUME NEW d \in Clients \ {c} PROVE RefInvOf(d)'
    BY <1>1, <1>2, <1>3, StepFrame, RefInvFrame
  <1>4. call[c] \in Calls /\ (pc[c] # "read" => acc[c] = <<>>)
    BY <1>1, StepMoves DEF RefInvOf
  <1>5. RefInvOf(c)'
    <2>1. CASE pc'[c] = "done" /\ ret'[c] \in Results /\ acc'[c] = <<>>
      BY <1>2, <1>4, <2>1 DEF RefInvOf
    <2>2. CASE /\ pc'[c] \in {"mkdir", "create", "write", "persist", "walk"}
               /\ pc[c] # "read" /\ UNCHANGED acc
               /\ pc'[c] = "persist" => PutSync(c) /\ file' = file /\ data' = data
      <3>1. ASSUME PutSync(c) PROVE data[file[c]] = Full(call[c].val)
        BY <3>1, Writing, FilledIsFull DEF PutSync
      <3> QED
        BY <1>2, <1>4, <2>2, <3>1 DEF RefInvOf
    <2>3. CASE GetOpen(c) /\ pc'[c] = "read"
      <3>1. pc[c] = "start"
        BY <2>3 DEF GetOpen, Begin, At
      <3>2. acc'[c] = <<>> /\ (Key(c) \in Keys => file'[c] \in synced')
            /\ file'[c] \in Files /\ data' = data
        BY <1>4, <2>3, <3>1, GetOpens
      <3>3. Len(acc'[c]) = 0 /\ Len(data[file'[c]]) \in Nat
        BY <3>2 DEF Inv, FsTypes
      <3> QED
        BY <1>2, <1>4, <2>3, <3>2, <3>3 DEF RefInvOf, Key
    <2>4. CASE GetRead(c) /\ pc'[c] = "read"
      <3> DEFINE s == data[file[c]]
      <3>1. /\ pc[c] = "read" /\ Len(acc[c]) < Len(s)
            /\ acc'[c] = Append(acc[c], s[Len(acc[c]) + 1])
            /\ UNCHANGED <<data, synced, file>>
        BY <2>4 DEF GetRead, At, Inv, ClientTypes, fs
      <3>2. acc[c] \in Seq(Values) /\ s \in Seq(Values)
        BY <3>1 DEF Inv, ClientTypes, Held, FsTypes
      <3>3. ASSUME Key(c) \in Keys
            PROVE  /\ file'[c] \in synced' /\ Len(acc'[c]) <= Len(s)
                   /\ \A n \in 1..Len(acc'[c]) : acc'[c][n] = s[n]
        <4>1. file[c] \in synced /\ \A n \in 1..Len(acc[c]) : acc[c][n] = s[n]
          BY <1>1, <3>1, <3>3 DEF RefInvOf, Key
        <4> HIDE DEF s
        <4>2. s[Len(acc[c]) + 1] \in Values
          BY <3>1, <3>2
        <4> QED
          BY <3>1, <3>2, <4>1, <4>2
      <3> QED
        BY <1>2, <1>4, <2>4, <3>1, <3>3 DEF RefInvOf, Key
    <2> QED
      BY <2>1, <2>2, <2>3, <2>4, StepMoves
  <1> QED
    BY <1>3, <1>5, RefInvSplitPrime

LEMMA RefInvIsInductive == Inv /\ TreeInv /\ RefInv /\ [Next]_vars => RefInv'
  <1> SUFFICES ASSUME Inv, TreeInv, RefInv, [Next]_vars PROVE RefInv'
    OBVIOUS
  <1>1. \A d \in Clients : RefInvOf(d)
    BY RefInvSplit
  <1>2. ASSUME NEW c \in Clients, Invoke(c) PROVE RefInv'
    <2>1. Settled
      BY <1>2, NextSettled DEF Next
    <2>2. /\ pc' = [pc EXCEPT ![c] = "start"] /\ UNCHANGED <<file, acc>>
          /\ ret' = [ret EXCEPT ![c] = Nil] /\ \E x : call' = [call EXCEPT ![c] = x]
      BY <1>2 DEF Invoke, Goto
    <2>3. ASSUME NEW d \in Clients \ {c} PROVE RefInvOf(d)'
      BY <1>1, <2>1, <2>2, <2>3, RefInvFrame DEF Inv, ClientTypes
    <2>4. RefInvOf(c)'
      <3>1. pc'[c] = "start" /\ acc'[c] = <<>>
        BY <1>1, <1>2, <2>2 DEF Invoke, Idle, RefInvOf, Inv, ClientTypes
      <3>2. call'[c] \in Calls
        BY <1>2, InvokeArgs DEF Inv, ClientTypes
      <3> QED
        BY <3>1, <3>2 DEF RefInvOf
    <2> QED
      BY <2>3, <2>4, RefInvSplitPrime
  <1>3. ASSUME NEW c \in Clients, Cancel(c) PROVE RefInv'
    <2>1. Settled
      BY <1>3, NextSettled DEF Next
    <2>2. /\ pc' = [pc EXCEPT ![c] = "idle"] /\ file' = [file EXCEPT ![c] = Nil]
          /\ acc' = [acc EXCEPT ![c] = <<>>] /\ call' = [call EXCEPT ![c] = Nil]
          /\ ret' = ret
      BY <1>3 DEF Cancel, Goto
    <2>3. ASSUME NEW d \in Clients \ {c} PROVE RefInvOf(d)'
      BY <1>1, <2>1, <2>2, <2>3, RefInvFrame DEF Inv, ClientTypes
    <2>4. RefInvOf(c)'
      BY <2>2 DEF RefInvOf, Inv, ClientTypes
    <2> QED
      BY <2>3, <2>4, RefInvSplitPrime
  <1>4. CASE Orphan \/ Commit \/ UNCHANGED vars
    <2>1. Settled /\ UNCHANGED <<pc, call, file, acc, ret>>
      <3>1. CASE Orphan \/ Commit
        BY <3>1, NextSettled DEF Next, Orphan, Commit, local
      <3>2. CASE UNCHANGED vars
        BY <3>2 DEF vars, Settled
      <3> QED
        BY <1>4, <3>1, <3>2
    <2> QED
      BY <1>1, <2>1, RefInvFrame, RefInvSplitPrime
  <1>5. CASE Crash
    BY <1>5 DEF Crash, RefInv, CallsOpen, PutFilled, Reads
  <1> QED
    BY <1>2, <1>3, <1>4, <1>5, StepRefInv DEF Next

LEMMA SpecRefInv == Spec => []RefInv
  BY InitRefInv, RefInvIsInductive, SpecInv, SpecTreeInv, PTL DEF Spec

(***************************************************************************)
(* The dictionary.                                                          *)
(***************************************************************************)
LEMMA BlobAtKey ==
  ASSUME NEW t, NEW k \in Keys
  PROVE  BlobAt(t)[k] = IF t[k] \in Files THEN data[t[k]] ELSE Nil
  BY DEF BlobAt

\* Keys that name what they named, or no file either way, hold what they held.
LEMMA SameBlobs ==
  ASSUME Inv, Settled,
         \A k \in Keys : tree'[k] = tree[k] \/ (tree'[k] \notin Files /\ tree[k] \notin Files)
  PROVE  Blobs' = Blobs
  <1>1. \A k \in Keys : tree[k] \in Files => data'[tree[k]] = data[tree[k]]
    BY DEF Inv, KeysSynced, Settled
  <1> QED
    BY <1>1 DEF Blobs, BlobAt

LEMMA SameDurable ==
  ASSUME Inv, Settled, UNCHANGED disk
  PROVE  Durable' = Durable
  <1>1. \A k \in Keys : disk[k] \in Files => data'[disk[k]] = data[disk[k]]
    BY DEF Inv, KeysSynced, Settled
  <1> QED
    BY <1>1 DEF Durable, BlobAt

\* One key changes.
LEMMA OneBlob ==
  ASSUME Inv, Settled, NEW k \in Keys, \A q \in Keys : q # k => tree'[q] = tree[q]
  PROVE  Blobs' = [Blobs EXCEPT ![k] = IF tree'[k] \in Files THEN data'[tree'[k]] ELSE Nil]
  <1>1. \A q \in Keys : tree[q] \in Files => data'[tree[q]] = data[tree[q]]
    BY DEF Inv, KeysSynced, Settled
  <1> QED
    BY <1>1 DEF Blobs, BlobAt

\* A key names a file, or a directory, or nothing.
LEMMA KeyLookup ==
  ASSUME Inv, TreeInv, NEW k \in Keys
  PROVE  /\ Stat(k) \in Files \cup {NoEnt, Dir, NotDir}
         /\ Stat(k) \in Files => Blobs[k] = data[Stat(k)] /\ Blobs[k] # Nil /\ tree[k] = Stat(k)
         /\ Stat(k) \notin Files => Blobs[k] = Nil /\ tree[k] \notin Files
         /\ Stat(k) = Dir => k \in Keys \cap Dirs
  <1>1. /\ Stat(k) \in Files => tree[k] = Stat(k)
        /\ Stat(k) = Dir => tree[k] = Dir
        /\ Stat(k) \in {NoEnt, NotDir} => tree[k] = NoEnt
    BY Lookup DEF Inv, TreeInv, Paths
  <1>2. tree[k] \in Files \cup {NoEnt, Dir}
    BY DEF Inv, FsTypes, Node, Paths
  <1>3. Stat(k) \in Files \cup {NoEnt, Dir, NotDir}
    BY <1>2 DEF Stat
  <1>4. \A i \in Files : data[i] # Nil
    BY DEF Inv, FsTypes
  <1>5. Blobs[k] = IF tree[k] \in Files THEN data[tree[k]] ELSE Nil
    BY BlobAtKey DEF Blobs
  <1>6. tree[k] = Dir => k \in Dirs
    BY DEF TreeInv, Shaped, OnlyDirs, Paths
  <1>7. CASE Stat(k) \in Files
    <2>1. Stat(k) # Dir
      BY <1>7, ConstantsAssumption
    <2> QED
      BY <1>1, <1>3, <1>4, <1>5, <1>7, <2>1
  <1>8. CASE Stat(k) \notin Files
    <2>1. tree[k] \notin Files
      BY <1>1, <1>3, <1>8, ConstantsAssumption
    <2> QED
      BY <1>1, <1>3, <1>5, <1>6, <1>8, <2>1
  <1> QED
    BY <1>7, <1>8

(***************************************************************************)
(* What a client's step is to BlobStore.                                    *)
(***************************************************************************)
\* The call and its effects other than on the blobs and on c's own outcome.
Frame(c) ==
  /\ Calling' = Calling /\ Durable' = Durable /\ Detached' = Detached
  /\ Outcomes' = [Outcomes EXCEPT ![c] = Outcome(c)']

LEMMA SameOutcome ==
  ASSUME Inv, RefInv, Settled, NEW c \in Clients,
         call'[c] = call[c], pc'[c] = pc[c], ret'[c] = ret[c], file'[c] = file[c]
  PROVE  Outcome(c)' = Outcome(c)
  <1>1. Visible(c)' <=> Visible(c)
    BY DEF Visible
  <1>2. Visible(c) /\ pc[c] = "read" => data'[file[c]] = data[file[c]]
    BY DEF RefInv, Reads, Settled, Visible
  <1> QED
    BY <1>1, <1>2 DEF Outcome, Ok

LEMMA StepFrames ==
  ASSUME Inv, RefInv, NEW c \in Clients, Step(c)
  PROVE  Frame(c)
  <1>1. Settled /\ UNCHANGED <<call, disk, orphans>>
    BY StepSettled, StepFrame
  <1>2. Calling' = Calling
    BY <1>1 DEF Calling, PendingCall, Visible, Full
  <1>3. Durable' = Durable /\ Detached' = Detached
    BY <1>1, SameDurable DEF Detached
  <1>4. \A d \in Clients \ {c} : Outcome(d)' = Outcome(d)
    BY <1>1, StepFrame, SameOutcome
  <1>5. Outcomes' = [d \in Clients |-> Outcome(d)'] /\ Outcomes = [d \in Clients |-> Outcome(d)]
    BY DEF Outcomes
  <1>6. Outcomes' = [Outcomes EXCEPT ![c] = Outcome(c)']
    BY <1>4, <1>5
  <1> QED
    BY <1>2, <1>3, <1>6 DEF Frame

\* A payload, and what BlobStore sees of a call.
LEMMA FullIsSeq ==
  ASSUME NEW v \in Values
  PROVE  Full(v) \in Seq(Values) /\ Len(Full(v)) = Size[v]
  <1>1. Size[v] \in Nat
    BY ConstantsAssumption
  <1> QED
    BY <1>1 DEF Full

LEMMA Viewed ==
  ASSUME Inv, RefInv, NEW c \in Clients
  PROVE  /\ Calling[c] = PendingCall(c) /\ Outcomes[c] = Outcome(c)
         /\ ~ Visible(c) => Calling[c] = Nil /\ Outcomes[c] = Nil
         /\ Visible(c) => /\ Calling[c] # Nil /\ pc[c] # "idle"
                          /\ Calling[c].op = call[c].op /\ Calling[c].key = call[c].key
                          /\ Key(c) = call[c].key /\ call[c].key \in Keys
         /\ Visible(c) /\ call[c].op = "put" => Calling[c].val = Full(call[c].val)
         /\ Visible(c) /\ pc[c] \notin {"done", "read"} => Outcomes[c] = Nil
  <1>1. Calling[c] = PendingCall(c) /\ Outcomes[c] = Outcome(c)
    BY DEF Calling, Outcomes
  <1>2. ~ Visible(c) => Calling[c] = Nil /\ Outcomes[c] = Nil
    BY <1>1 DEF PendingCall, Outcome
  <1>3. ASSUME Visible(c)
        PROVE  /\ Calling[c] # Nil /\ pc[c] # "idle"
               /\ Calling[c].op = call[c].op /\ Calling[c].key = call[c].key
               /\ Key(c) = call[c].key /\ call[c].key \in Keys
               /\ call[c].op = "put" => Calling[c].val = Full(call[c].val)
    <2>1. pc[c] # "idle" /\ call[c] \in Calls
      BY <1>3 DEF RefInv, CallsOpen, Visible
    <2>2. CASE call[c].op = "put"
      <3> DEFINE r == PendingCall(c)
      <3>1. r = [call[c] EXCEPT !.val = Full(call[c].val)]
        BY <1>3, <2>2 DEF PendingCall
      <3>2. call[c].key \in Keys /\ call[c].val \in Values
        BY <2>1, <2>2 DEF Inv, PutArgs
      <3>3. r \in [op : {"put"}, key : Keys, val : Seq(Values)]
        BY <2>1, <2>2, <3>1, <3>2, FullIsSeq DEF Calls
      <3> QED
        BY <1>1, <1>3, <2>1, <2>2, <3>1, <3>3 DEF Calls, Visible, Key
    <2>3. CASE call[c].op # "put"
      BY <1>1, <1>3, <2>1, <2>3 DEF PendingCall, Visible, Key
    <2> QED
      BY <2>2, <2>3
  <1>4. Visible(c) /\ pc[c] \notin {"done", "read"} => Outcomes[c] = Nil
    BY <1>1 DEF Outcome
  <1> QED
    BY <1>1, <1>2, <1>3, <1>4

AbstractStep == [Abstract!Next]_(Abstract!vars)

LEMMA Unseen ==
  ASSUME NEW c \in Clients, Frame(c), Blobs' = Blobs, Outcome(c)' = Outcome(c)
  PROVE  AbstractStep
  <1>1. Outcomes' = Outcomes
    BY DEF Frame, Outcomes
  <1> QED
    BY <1>1 DEF AbstractStep, Abstract!vars, Frame

\* A call that BlobStore does not know ends or goes on.
LEMMA Invisible ==
  ASSUME NEW c \in Clients, Frame(c), Blobs' = Blobs, ~ Visible(c), call' = call
  PROVE  AbstractStep
  <1>1. Outcome(c)' = Nil /\ Outcome(c) = Nil
    BY DEF Outcome, Visible
  <1> QED
    BY <1>1, Unseen

\* A client is a client of BlobStore: one disjunct of its Next.
LEMMA ClientStep ==
  ASSUME NEW c \in Clients,
         \/ Abstract!Invoke(c) \/ Abstract!Put(c) \/ Abstract!Get(c) \/ Abstract!Delete(c)
         \/ Abstract!Exists(c) \/ Abstract!Presign(c) \/ Abstract!Fail(c) \/ Abstract!Abandon(c)
  PROVE  AbstractStep
  BY DEF AbstractStep, Abstract!Next

\* What BlobStore sees when a visible call of c is answered with r.
Answered(c, r) ==
  /\ Visible(c) /\ pc[c] \notin {"done", "read"}
  /\ Frame(c) /\ Outcome(c)' = r

\* put's comparison is the documented quota, the limit itself included.
LEMMA QuotaExact ==
  ASSUME NEW v \in Values
  PROVE  Fits(v) <=> ~ TooBig(v)
  BY ConstantsAssumption DEF Fits, TooBig

LEMMA AnsweredFails ==
  ASSUME Inv, RefInv, NEW c \in Clients, NEW e \in {"InvalidKey", "StorageFull", "Io", "Other"},
         Answered(c, Err(e)), Blobs' = Blobs,
         e = "StorageFull" => call[c].op = "put" /\ TooBig(call[c].val)
  PROVE  AbstractStep
  <1>1. Calling[c] # Nil /\ Outcomes[c] = Nil
    BY Viewed DEF Answered
  <1>2. ASSUME e = "StorageFull"
        PROVE  Calling[c].val \notin {Full(v) : v \in {w \in Values : Fits(w)}} \cup {Nil}
    <2>1. call[c].val \in Values /\ Calling[c].val = Full(call[c].val)
      BY <1>2, Viewed DEF Answered, Inv, PutArgs
    <2>2. \A v \in Values : Full(v) = Full(call[c].val) => Size[v] = Size[call[c].val]
      BY <2>1, FullIsSeq
    <2>3. \A v \in Values : Full(v) = Full(call[c].val) => ~ Fits(v)
      BY <1>2, <2>2, QuotaExact DEF TooBig
    <2>4. Full(call[c].val) # Nil
      BY <2>1, FullIsSeq
    <2> QED
      BY <2>1, <2>3, <2>4
  <1>3. Abstract!Decide(c, Err(e))
    BY DEF Abstract!Decide, Answered, Frame
  <1>4. Abstract!Fail(c)
    BY <1>1, <1>2, <1>3 DEF Abstract!Fail, Abstract!Failures, Abstract!Err, Err, Answered, Frame
  <1> QED
    BY <1>4, ClientStep

LEMMA DoneAnswers ==
  ASSUME Inv, RefInv, NEW c \in Clients, NEW r, Frame(c), Visible(c), UNCHANGED call,
         pc[c] \notin {"done", "read"}, Done(c, r)
  PROVE  Answered(c, r)
  <1>1. Visible(c)'
    BY DEF Visible
  <1>2. pc'[c] = "done" /\ ret'[c] = r
    BY DEF Done, Inv, ClientTypes
  <1> QED
    BY <1>1, <1>2 DEF Answered, Outcome

LEMMA AnsweredGets ==
  ASSUME Inv, RefInv, TreeInv, NEW c \in Clients, call[c].op = "get", Blobs' = Blobs,
         \/ Stat(Key(c)) \in Files /\ Answered(c, Ok(data[Stat(Key(c))]))
         \/ Stat(Key(c)) \notin Files /\ Answered(c, Err("NotFound"))
  PROVE  AbstractStep
  <1>1. Visible(c) /\ pc[c] \notin {"done", "read"} /\ Frame(c) /\ Outcomes' = [Outcomes EXCEPT ![c] = Outcome(c)']
    BY DEF Answered, Frame
  <1>2. /\ Calling[c] # Nil /\ Outcomes[c] = Nil /\ Calling[c].op = "get"
        /\ Calling[c].key = Key(c) /\ Key(c) \in Keys
    BY <1>1, Viewed
  <1>3. Outcome(c)' = Abstract!Found(c, Blobs[Key(c)])
    BY <1>2, KeyLookup DEF Abstract!Found, Abstract!Ok, Abstract!Err, Ok, Err, Answered
  <1>4. Abstract!Get(c)
    BY <1>1, <1>2, <1>3 DEF Abstract!Get, Abstract!Takes, Abstract!Decide, Frame
  <1> QED
    BY <1>4, ClientStep

LEMMA AnsweredDeletes ==
  ASSUME Inv, RefInv, TreeInv, NEW c \in Clients, call[c].op = "delete",
         Blobs' = [Blobs EXCEPT ![Key(c)] = Nil],
         \/ Stat(Key(c)) \in Files /\ Answered(c, Ok(Nil))
         \/ Stat(Key(c)) \notin Files /\ Answered(c, Err("NotFound"))
  PROVE  AbstractStep
  <1>1. Visible(c) /\ pc[c] \notin {"done", "read"} /\ Frame(c) /\ Outcomes' = [Outcomes EXCEPT ![c] = Outcome(c)']
    BY DEF Answered, Frame
  <1>2. /\ Calling[c] # Nil /\ Outcomes[c] = Nil /\ Calling[c].op = "delete"
        /\ Calling[c].key = Key(c) /\ Key(c) \in Keys
    BY <1>1, Viewed
  <1>3. Outcome(c)' = Abstract!Found(c, Nil)
    BY <1>2, KeyLookup DEF Abstract!Found, Abstract!Ok, Abstract!Err, Ok, Err, Answered
  <1>4. Abstract!Delete(c)
    BY <1>1, <1>2, <1>3 DEF Abstract!Delete, Abstract!Takes, Abstract!Decide, Frame
  <1> QED
    BY <1>4, ClientStep

LEMMA AnsweredLooks ==
  ASSUME Inv, RefInv, TreeInv, NEW c \in Clients, Blobs' = Blobs, Stat(Key(c)) # NotDir,
         \/ call[c].op = "exists" /\ Answered(c, Answer(Stat(Key(c)) # NoEnt))
         \/ /\ call[c].op = "presign"
            /\ Answered(c, IF Stat(Key(c)) = NoEnt THEN Err("NotFound") ELSE Ok(Nil))
  PROVE  AbstractStep
  <1> DEFINE b == Stat(Key(c)) # NoEnt
  <1>1. Visible(c) /\ pc[c] \notin {"done", "read"} /\ Frame(c) /\ Outcomes' = [Outcomes EXCEPT ![c] = Outcome(c)']
    BY DEF Answered, Frame
  <1>2. /\ Calling[c] # Nil /\ Outcomes[c] = Nil /\ Calling[c].op = call[c].op
        /\ Calling[c].key = Key(c) /\ Key(c) \in Keys
    BY <1>1, Viewed
  <1>3. b \in Abstract!Seen(Key(c))
    <2>1. CASE Stat(Key(c)) \in Files
      <3>1. b = TRUE /\ (Blobs[Key(c)] # Nil) = TRUE
        BY <1>2, <2>1, KeyLookup, ConstantsAssumption
      <3> QED
        BY <3>1 DEF Abstract!Seen
    <2>2. CASE Stat(Key(c)) = Dir
      <3>1. b = TRUE /\ Key(c) \in Keys \cap Dirs
        BY <1>2, <2>2, KeyLookup, ConstantsAssumption
      <3> QED
        BY <3>1 DEF Abstract!Seen
    <2>3. CASE Stat(Key(c)) = NoEnt
      <3>1. b = FALSE /\ (Blobs[Key(c)] # Nil) = FALSE
        BY <1>2, <2>3, KeyLookup, ConstantsAssumption
      <3> QED
        BY <3>1 DEF Abstract!Seen
    <2> QED
      BY <1>2, <2>1, <2>2, <2>3, KeyLookup
  <1> HIDE DEF b
  <1>4. CASE call[c].op = "exists" /\ Answered(c, Answer(b))
    <2>1. Outcomes' = [Outcomes EXCEPT ![c] = Abstract!Answer(b)]
      BY <1>1, <1>4 DEF Answered, Answer, Abstract!Answer
    <2>2. Abstract!Exists(c)
      BY <1>1, <1>2, <1>3, <1>4, <2>1 DEF Abstract!Exists, Abstract!Takes, Abstract!Decide, Frame
    <2> QED
      BY <2>2, ClientStep
  <1>5. CASE call[c].op = "presign" /\ Answered(c, IF b THEN Ok(Nil) ELSE Err("NotFound"))
    <2>1. Outcomes' = [Outcomes EXCEPT ![c] = IF b THEN Abstract!Ok(Nil) ELSE Abstract!Err("NotFound")]
      BY <1>1, <1>5 DEF Answered, Ok, Err, Abstract!Ok, Abstract!Err
    <2>2. \E x \in Abstract!Seen(Calling[c].key) :
            Abstract!Decide(c, IF x THEN Abstract!Ok(Nil) ELSE Abstract!Err("NotFound"))
      <3>1. CASE b
        <4>1. TRUE \in Abstract!Seen(Calling[c].key)
          BY <1>2, <1>3, <3>1 DEF b
        <4>2. Abstract!Decide(c, IF TRUE THEN Abstract!Ok(Nil) ELSE Abstract!Err("NotFound"))
          BY <2>1, <3>1 DEF Abstract!Decide
        <4> QED
          BY <4>1, <4>2
      <3>2. CASE ~ b
        <4>1. FALSE \in Abstract!Seen(Calling[c].key)
          BY <1>2, <1>3, <3>2 DEF b
        <4>2. Abstract!Decide(c, IF FALSE THEN Abstract!Ok(Nil) ELSE Abstract!Err("NotFound"))
          BY <2>1, <3>2 DEF Abstract!Decide
        <4> QED
          BY <4>1, <4>2
      <3> QED
        BY <3>1, <3>2
    <2>3. Abstract!Presign(c)
      BY <1>1, <1>2, <1>5, <2>2 DEF Abstract!Presign, Abstract!Takes, Frame
    <2> QED
      BY <2>3, ClientStep
  <1>6. /\ (IF Stat(Key(c)) = NoEnt THEN Err("NotFound") ELSE Ok(Nil))
           = (IF b THEN Ok(Nil) ELSE Err("NotFound"))
        /\ Answer(Stat(Key(c)) # NoEnt) = Answer(b)
    BY DEF b
  <1> QED
    BY <1>4, <1>5, <1>6

(***************************************************************************)
(* Each step of a client.                                                   *)
(***************************************************************************)
LEMMA PutsAreVisible ==
  ASSUME Inv, RefInv, NEW c \in Clients, call[c].op = "put", pc[c] # "idle"
  PROVE  Visible(c) /\ Key(c) \in Keys /\ call[c].val \in Values
  BY NilIsNoCall DEF Inv, PutArgs, RefInv, CallsOpen, Visible, Key

\* The end of a get: it has read the whole file, which is what it saw at the open.
LEMMA GetEofUnseen ==
  ASSUME Inv, RefInv, NEW c \in Clients, GetEof(c), Frame(c), Blobs' = Blobs, UNCHANGED call
  PROVE  AbstractStep
  <1>1. CASE ~ Visible(c)
    BY <1>1, Invisible
  <1>2. CASE Visible(c)
    <2>1. /\ pc[c] = "read" /\ Len(acc[c]) = Len(data[file[c]]) /\ Key(c) \in Keys
          /\ pc'[c] = "done" /\ ret'[c] = Ok(acc[c])
      BY <1>2 DEF GetEof, At, Reply, Done, Inv, ClientTypes, Visible, Key
    <2>2. acc[c] \in Seq(Values) /\ data[file[c]] \in Seq(Values)
          /\ \A n \in 1..Len(acc[c]) : acc[c][n] = data[file[c]][n]
      BY <2>1 DEF Inv, ClientTypes, Held, FsTypes, RefInv, Reads, Key
    <2>3. acc[c] = data[file[c]]
      BY <2>1, <2>2
    <2>4. Outcome(c) = Ok(data[file[c]]) /\ Outcome(c)' = ret'[c]
      BY <1>2, <2>1 DEF Outcome, Visible
    <2> QED
      BY <2>1, <2>3, <2>4, Unseen
  <1> QED
    BY <1>1, <1>2

LEMMA RefusingRefines ==
  ASSUME Inv, TreeInv, RefInv, NEW c \in Clients, Step(c), Refusing(c)
  PROVE  AbstractStep
  <1>1. Frame(c) /\ UNCHANGED call /\ Settled
    BY StepFrames, StepFrame, StepSettled
  <1>2. Blobs' = Blobs
    BY <1>1, QuietTree, SameBlobs DEF Quiet
  <1>3. CASE ~ Visible(c)
    BY <1>1, <1>2, <1>3, Invisible
  <1>4. CASE GetEof(c)
    BY <1>1, <1>2, <1>4, GetEofUnseen
  <1>5. ASSUME Visible(c), NEW r, Done(c, r), pc[c] \in {"start", "mkdir", "create"}
        PROVE  Answered(c, r)
    BY <1>1, <1>5, DoneAnswers
  <1>6. CASE Visible(c) /\ (Refuse(c) \/ PutMkdirFails(c) \/ PutCreateFails(c) \/ LookupFails(c))
    <2>1. \E e \in {"InvalidKey", "Io", "Other"} : Answered(c, Err(e))
      BY <1>5, <1>6 DEF Refuse, PutMkdirFails, PutCreateFails, LookupFails, Begin, At, Reply
    <2> QED
      BY <1>2, <2>1, AnsweredFails
  <1>7. CASE Visible(c) /\ PutQuota(c)
    <2>1. Answered(c, Err("StorageFull")) /\ call[c].op = "put" /\ TooBig(call[c].val)
      BY <1>5, <1>7 DEF PutQuota, At, Reply
    <2> QED
      BY <1>2, <2>1, AnsweredFails
  <1>8. CASE Visible(c) /\ NoFile(c)
    <2>1. Key(c) \in Keys
      BY <1>8 DEF Visible, Key
    <2>2. /\ call[c].op \in {"get", "delete"} /\ Stat(Key(c)) \in {NoEnt, Dir, NotDir}
          /\ Answered(c, LookupError(c))
      BY <1>5, <1>8, <2>1, KeyLookup DEF NoFile, Begin, At, Reply
    <2>3. CASE Stat(Key(c)) = NoEnt
      <3>1. Answered(c, Err("NotFound"))
        BY <2>2, <2>3, ConstantsAssumption DEF LookupError
      <3>2. Stat(Key(c)) \notin Files /\ Blobs[Key(c)] = Nil
        BY <1>8, <2>1, KeyLookup DEF NoFile
      <3>3. Blobs' = [Blobs EXCEPT ![Key(c)] = Nil]
        BY <1>2, <3>2 DEF Blobs, BlobAt
      <3> QED
        BY <1>2, <2>2, <3>1, <3>2, <3>3, AnsweredGets, AnsweredDeletes
    <2>4. CASE Stat(Key(c)) \in {Dir, NotDir}
      <3>1. Stat(Key(c)) # NoEnt
        BY <2>4, ConstantsAssumption
      <3>2. Answered(c, Err("Io"))
        BY <2>2, <2>4, <3>1 DEF LookupError
      <3> QED
        BY <1>2, <3>2, AnsweredFails
    <2> QED
      BY <2>2, <2>3, <2>4
  <1>9. CASE Visible(c) /\ (Exists(c) \/ Presign(c))
    <2>1. pc[c] = "start"
      BY <1>9 DEF Exists, Presign, Begin, At
    <2>2. CASE Stat(Key(c)) = NotDir
      <3>1. Answered(c, Err("Io"))
        BY <1>5, <1>9, <2>1, <2>2, ConstantsAssumption DEF Exists, Presign, Reply
      <3> QED
        BY <1>2, <3>1, AnsweredFails
    <2>3. CASE Stat(Key(c)) # NotDir
      <3>1. \/ call[c].op = "exists" /\ Answered(c, Answer(Stat(Key(c)) # NoEnt))
            \/ /\ call[c].op = "presign"
               /\ Answered(c, IF Stat(Key(c)) = NoEnt THEN Err("NotFound") ELSE Ok(Nil))
        BY <1>5, <1>9, <2>1, <2>3 DEF Exists, Presign, Begin, At, Reply
      <3> QED
        BY <1>2, <2>3, <3>1, AnsweredLooks
    <2> QED
      BY <2>2, <2>3
  <1>10. ASSUME ListEnd(c) PROVE ~ Visible(c)
    BY <1>10 DEF ListEnd, At, Visible
  <1> QED
    BY <1>3, <1>4, <1>6, <1>7, <1>8, <1>9, <1>10 DEF Refusing

\* Steps in the middle of a call.
LEMMA OngoingRefines ==
  ASSUME Inv, TreeInv, RefInv, NEW c \in Clients, Step(c), Blobs' = Blobs,
         pc[c] \notin {"done", "read"}, pc'[c] \notin {"done", "read"}
  PROVE  AbstractStep
  <1>1. Frame(c) /\ UNCHANGED call
    BY StepFrames, StepFrame
  <1>2. Outcome(c)' = Nil /\ Outcome(c) = Nil
    BY DEF Outcome
  <1> QED
    BY <1>1, <1>2, Unseen

LEMMA GetOpenRefines ==
  ASSUME Inv, TreeInv, RefInv, NEW c \in Clients, Step(c), GetOpen(c)
  PROVE  AbstractStep
  <1>1. Frame(c) /\ UNCHANGED call /\ Settled
    BY StepFrames, StepFrame, StepSettled
  <1>2. Blobs' = Blobs
    BY <1>1, QuietTree, SameBlobs DEF Quiet, Moving
  <1>3. CASE Visible(c)
    <2>1. /\ pc[c] = "start" /\ call[c].op = "get" /\ Stat(Key(c)) \in Files
          /\ pc'[c] = "read" /\ file'[c] = Stat(Key(c)) /\ UNCHANGED data
      BY GetOpens DEF GetOpen, Goto, Begin, At, Inv, ClientTypes
    <2>2. Visible(c)'
      BY <1>1, <1>3 DEF Visible
    <2>3. Answered(c, Ok(data[Stat(Key(c))]))
      BY <1>1, <1>3, <2>1, <2>2 DEF Answered, Outcome
    <2> QED
      BY <1>2, <2>1, <2>3, AnsweredGets
  <1> QED
    BY <1>1, <1>2, <1>3, Invisible

LEMMA GetReadRefines ==
  ASSUME Inv, TreeInv, RefInv, NEW c \in Clients, Step(c), GetRead(c)
  PROVE  AbstractStep
  <1>1. Frame(c) /\ UNCHANGED call /\ Settled
    BY StepFrames, StepFrame, StepSettled
  <1>2. Blobs' = Blobs
    BY <1>1, QuietTree, SameBlobs DEF Quiet, Moving
  <1>3. pc'[c] = pc[c] /\ file'[c] = file[c] /\ ret'[c] = ret[c] /\ call'[c] = call[c]
    BY <1>1 DEF GetRead
  <1> QED
    BY <1>1, <1>2, <1>3, SameOutcome, Unseen

LEMMA MovingRefines ==
  ASSUME Inv, TreeInv, RefInv, NEW c \in Clients, Step(c),
         Moving(c) \/ PutMkdir(c) \/ PutCreate(c) \/ PutWrite(c) \/ PutSync(c)
  PROVE  AbstractStep
  <1>1. Settled
    BY StepSettled
  <1>2. pc \in [Clients -> Labels] /\ tree \in [Paths -> Node]
    BY DEF Inv, ClientTypes, FsTypes
  <1>3. CASE PutResolved(c) \/ PutMkdirDone(c) \/ ListStart(c) \/ ListDir(c)
             \/ PutWrite(c) \/ PutSync(c)
    <2>1. pc[c] \notin {"done", "read"} /\ pc'[c] \notin {"done", "read"}
      BY <1>2, <1>3 DEF PutResolved, PutMkdirDone, ListStart, ListDir, PutWrite, PutSync, Goto,
         Begin, At
    <2>2. Blobs' = Blobs
      BY <1>1, <1>3, QuietTree, SameBlobs DEF Quiet, Moving
    <2> QED
      BY <2>1, <2>2, OngoingRefines
  <1>4. CASE PutMkdir(c)
    <2>1. pc[c] = "mkdir" /\ call[c].op = "put" /\ pc'[c] = "mkdir" /\ MkdirStep(Key(c))
      BY <1>4 DEF PutMkdir, At
    <2>2. Key(c) \in Keys
      BY <2>1, PutsAreVisible
    <2>3. \A k \in Keys : tree'[k] = tree[k] \/ (tree'[k] \notin Files /\ tree[k] \notin Files)
      BY <1>2, <2>1, ConstantsAssumption DEF MkdirStep, Paths
    <2>4. Blobs' = Blobs
      BY <1>1, <2>3, SameBlobs
    <2> QED
      BY <2>1, <2>4, OngoingRefines
  <1>5. CASE PutCreate(c)
    <2>1. pc[c] = "create" /\ call[c].op = "put" /\ pc'[c] = "write"
      BY <1>2, <1>5 DEF PutCreate, At, Goto
    <2>2. Key(c) \in Keys
      BY <2>1, PutsAreVisible
    <2>3. \A k \in Keys : tree'[k] = tree[k]
      <3>1. PICK i \in Files : tree' = [tree EXCEPT ![Append(Parent(Key(c)), TmpName(i))] = i]
        BY <1>5 DEF PutCreate
      <3> QED
        BY <1>2, <2>2, <3>1, TmpIsNoKey DEF Paths
    <2>4. Blobs' = Blobs
      BY <1>1, <2>3, SameBlobs
    <2> QED
      BY <2>1, <2>4, OngoingRefines
  <1> QED
    BY <1>3, <1>4, <1>5, GetOpenRefines, GetReadRefines DEF Moving

\* Steps of a put that end it after its temp file was made.
LEMMA PutEnds ==
  ASSUME Inv, RefInv, NEW c \in Clients, NEW r, Step(c), call[c].op = "put",
         pc[c] \in {"write", "persist"}, Done(c, r)
  PROVE  Answered(c, r) /\ Key(c) \in Keys /\ Tmp(c) \notin Keys
  <1>1. Visible(c) /\ Key(c) \in Keys
    BY PutsAreVisible
  <1>2. Frame(c) /\ UNCHANGED call
    BY StepFrames, StepFrame
  <1>3. file[c] \in Files
    BY DEF Inv, Held, Working, FsTypes
  <1>4. Tmp(c) \notin Keys
    BY <1>1, <1>3, TmpIsNoKey DEF Tmp
  <1> QED
    BY <1>1, <1>2, <1>4, DoneAnswers

LEMMA RemovingRefines ==
  ASSUME Inv, TreeInv, RefInv, NEW c \in Clients, Step(c), Removing(c)
  PROVE  AbstractStep
  <1>1. Frame(c) /\ UNCHANGED call /\ Settled
    BY StepFrames, StepFrame, StepSettled
  <1>2. tree \in [Paths -> Node] /\ Keys \subseteq Paths
    BY DEF Inv, FsTypes, Paths
  <1>3. CASE PutWriteFails(c) \/ PutPersistFails(c)
    <2>1. PICK e \in {"Io", "Other"} : Drop(c, Tmp(c), Err(e))
      BY <1>3 DEF PutWriteFails, PutPersistFails
    <2>2. Answered(c, Err(e)) /\ Tmp(c) \notin Keys
      BY <1>3, <2>1, PutEnds DEF PutWriteFails, PutPersistFails, At, Drop
    <2>3. \A k \in Keys : tree'[k] = tree[k]
      BY <1>2, <2>1, <2>2 DEF Drop, Unlink
    <2>4. Blobs' = Blobs
      BY <1>1, <2>3, SameBlobs
    <2> QED
      BY <2>2, <2>4, AnsweredFails
  <1>4. CASE Delete(c)
    <2>1. /\ pc[c] = "start" /\ call[c].op = "delete" /\ Stat(Key(c)) \in Files
          /\ Done(c, Ok(Nil)) /\ tree' = Unlink(tree, Key(c))
      BY <1>4 DEF Delete, Begin, At, Drop
    <2>2. CASE Visible(c)
      <3>1. Answered(c, Ok(Nil)) /\ Key(c) \in Keys
        BY <1>1, <2>1, <2>2, DoneAnswers DEF Visible, Key
      <3>2. tree'[Key(c)] = NoEnt /\ \A q \in Keys : q # Key(c) => tree'[q] = tree[q]
        BY <1>2, <2>1, <3>1 DEF Unlink
      <3>3. Blobs' = [Blobs EXCEPT ![Key(c)] = Nil]
        BY <1>1, <3>1, <3>2, OneBlob, ConstantsAssumption
      <3> QED
        BY <2>1, <3>1, <3>3, AnsweredDeletes
    <2>3. CASE ~ Visible(c)
      <3>1. Key(c) \notin Keys
        <4>1. call[c] # Nil
          BY <2>1, NilIsNoCall DEF RefInv, CallsOpen
        <4> QED
          BY <2>1, <2>3, <4>1 DEF Visible, Key
      <3>2. \A k \in Keys : tree'[k] = tree[k]
        BY <1>2, <2>1, <3>1 DEF Unlink
      <3>3. Blobs' = Blobs
        BY <1>1, <3>2, SameBlobs
      <3> QED
        BY <1>1, <2>3, <3>3, Invisible
    <2> QED
      BY <2>2, <2>3
  <1> QED
    BY <1>3, <1>4 DEF Removing

\* The rename is the put.
LEMMA PutPersistRefines ==
  ASSUME Inv, TreeInv, RefInv, NEW c \in Clients, Step(c), PutPersist(c)
  PROVE  AbstractStep
  <1> DEFINE v == call[c].val
  <1>1. /\ pc[c] = "persist" /\ call[c].op = "put" /\ Done(c, Ok(Nil)) /\ data' = data
        /\ tree' = [Unlink(tree, Tmp(c)) EXCEPT ![Key(c)] = file[c]]
    BY DEF PutPersist, At
  <1>2. Answered(c, Ok(Nil)) /\ Key(c) \in Keys /\ Tmp(c) \notin Keys
    BY <1>1, PutEnds
  <1>3. /\ Visible(c) /\ Frame(c) /\ pc[c] \notin {"done", "read"}
        /\ Outcomes' = [Outcomes EXCEPT ![c] = Ok(Nil)] /\ Settled
    BY <1>2, StepSettled DEF Answered, Frame
  <1>4. v \in Values /\ ~ TooBig(v) /\ data[file[c]] = Full(v) /\ file[c] \in Files
    BY <1>1 DEF Inv, PutArgs, RefInv, PutFilled, Held, FsTypes
  <1>5. tree'[Key(c)] = file[c] /\ \A q \in Keys : q # Key(c) => tree'[q] = tree[q]
    <2>1. Unlink(tree, Tmp(c)) \in [Paths -> Node \cup {NoEnt}] /\ Keys \subseteq Paths
          /\ \A q \in Keys : Unlink(tree, Tmp(c))[q] = tree[q]
      BY <1>2 DEF Inv, FsTypes, Unlink, Paths
    <2> QED
      BY <1>1, <1>2, <2>1
  <1>6. Blobs' = [Blobs EXCEPT ![Key(c)] = Full(v)]
    BY <1>1, <1>2, <1>3, <1>4, <1>5, OneBlob
  <1>7. /\ Calling[c] # Nil /\ Outcomes[c] = Nil /\ Calling[c].op = "put"
        /\ Calling[c].key = Key(c) /\ Calling[c].val = Full(v)
    BY <1>1, <1>3, Viewed
  <1>8. Full(v) \in {Full(w) : w \in {x \in Values : Fits(x)}}
    BY <1>4, QuotaExact
  <1> HIDE DEF v
  <1>9. Abstract!Put(c)
    BY <1>3, <1>6, <1>7, <1>8
       DEF Abstract!Put, Abstract!Takes, Abstract!Decide, Abstract!Ok, Ok, Frame
  <1> QED
    BY <1>9, ClientStep

LEMMA ListFailsRefines ==
  ASSUME Inv, TreeInv, RefInv, NEW c \in Clients, Step(c), ListFails(c)
  PROVE  AbstractStep
  <1>1. Frame(c) /\ UNCHANGED call /\ Settled /\ ~ Visible(c)
    BY StepFrames, StepFrame, StepSettled DEF ListFails, At, Visible
  <1>2. Blobs' = Blobs
    BY <1>1, QuietTree, SameBlobs DEF Quiet
  <1> QED
    BY <1>1, <1>2, Invisible

\* Every step of a client is an operation of BlobStore or nothing to it.
LEMMA StepRefines ==
  ASSUME Inv, TreeInv, RefInv, NEW c \in Clients, Step(c)
  PROVE  AbstractStep
  BY StepSplit, RefusingRefines, MovingRefines, RemovingRefines, PutPersistRefines,
     ListFailsRefines DEF Quiet

(***************************************************************************)
(* Calls, dropped futures, the journal, power failures.                     *)
(***************************************************************************)
\* What a step leaves of the other clients.
LEMMA OthersSeen ==
  ASSUME Inv, RefInv, Settled, NEW c \in Clients,
         \A d \in Clients \ {c} : call'[d] = call[d] /\ pc'[d] = pc[d]
                                  /\ ret'[d] = ret[d] /\ file'[d] = file[d]
  PROVE  /\ Calling' = [Calling EXCEPT ![c] = PendingCall(c)']
         /\ Outcomes' = [Outcomes EXCEPT ![c] = Outcome(c)']
  <1>1. \A d \in Clients \ {c} : Outcome(d)' = Outcome(d)
    BY SameOutcome
  <1>2. \A d \in Clients \ {c} : PendingCall(d)' = PendingCall(d)
    BY DEF PendingCall, Visible, Full
  <1>3. /\ Calling' = [d \in Clients |-> PendingCall(d)'] /\ Calling = [d \in Clients |-> PendingCall(d)]
        /\ Outcomes' = [d \in Clients |-> Outcome(d)'] /\ Outcomes = [d \in Clients |-> Outcome(d)]
    BY DEF Calling, Outcomes
  <1> HIDE DEF Calling, Outcomes
  <1> QED
    BY <1>1, <1>2, <1>3

\* A client gives up its call, or has none that BlobStore knows.
LEMMA GivesUp ==
  ASSUME Inv, RefInv, NEW c \in Clients, Blobs' = Blobs, Durable' = Durable,
         Calling' = [Calling EXCEPT ![c] = Nil], Outcomes' = [Outcomes EXCEPT ![c] = Nil],
         \/ Detached' = Detached
         \/ /\ Visible(c) /\ call[c].op = "delete" /\ pc[c] = "start"
            /\ Detached' = Detached \cup {<<c, Key(c)>>}
  PROVE  AbstractStep
  <1>1. CASE Visible(c)
    <2>1. Calling[c] # Nil /\ Calling[c].op = call[c].op /\ Calling[c].key = Key(c)
          /\ (pc[c] = "start" => Outcomes[c] = Nil)
      BY <1>1, Viewed
    <2>2. Abstract!Abandon(c)
      BY <2>1 DEF Abstract!Abandon, Abstract!Takes
    <2> QED
      BY <2>2, ClientStep
  <1>2. CASE ~ Visible(c)
    <2>1. Calling[c] = Nil /\ Outcomes[c] = Nil
      BY <1>2, Viewed
    <2>2. Calling' = Calling /\ Outcomes' = Outcomes
      BY <2>1 DEF Calling, Outcomes
    <2> QED
      BY <1>2, <2>2 DEF AbstractStep, Abstract!vars
  <1> QED
    BY <1>1, <1>2

LEMMA InvokeRefines ==
  ASSUME Inv, TreeInv, RefInv, NEW c \in Clients, Invoke(c)
  PROVE  AbstractStep
  <1>1. PICK op, k, v :
          /\ op \in Ops /\ call' = [call EXCEPT ![c] = Call(op, k, v)]
          /\ Call(op, k, v) \in Calls
          /\ op = "put"  => k \in Keys /\ v \in Values
          /\ op = "list" => k \in ListArgs /\ v = Nil
          /\ op \notin {"put", "list"} => k \in Paths /\ v = Nil
    BY InvokeArgs
  <1>2. Settled /\ UNCHANGED <<tree, disk, data, file, orphans>>
    BY NextSettled DEF Next, Invoke, fs, faults
  <1>3. /\ \A d \in Clients \ {c} : call'[d] = call[d] /\ pc'[d] = pc[d]
                                    /\ ret'[d] = ret[d] /\ file'[d] = file[d]
        /\ call'[c] = Call(op, k, v) /\ pc'[c] = "start"
    BY <1>1, <1>2 DEF Invoke, Goto, Inv, ClientTypes
  <1>4. /\ Calling' = [Calling EXCEPT ![c] = PendingCall(c)']
        /\ Outcomes' = [Outcomes EXCEPT ![c] = Outcome(c)']
    BY <1>2, <1>3, OthersSeen
  <1>5. Outcome(c)' = Nil
    BY <1>3 DEF Outcome
  <1>6. Blobs' = Blobs /\ Durable' = Durable /\ Detached' = Detached
    BY <1>2, SameBlobs, SameDurable DEF Detached
  <1>7. CASE Visible(c)'
    <2>1. op # "list" /\ k \in Keys
      BY <1>3, <1>7 DEF Visible, Call
    <2>2. PICK w \in {Full(x) : x \in Values} \cup {Nil} :
            (op = "put" <=> w # Nil) /\ PendingCall(c)' = Call(op, k, w)
      <3>1. CASE op = "put"
        <4>1. PendingCall(c)' = Call(op, k, Full(v))
          <5>1. call'[c].op = "put" /\ call'[c].val = v
            BY <1>3, <3>1 DEF Call
          <5>2. PendingCall(c)' = [call'[c] EXCEPT !.val = Full(call'[c].val)]
            BY <1>7, <5>1 DEF PendingCall, Full
          <5> QED
            BY <1>3, <5>1, <5>2 DEF Call
        <4>2. Full(v) # Nil
          BY <1>1, <3>1, FullIsSeq
        <4> QED
          BY <1>1, <3>1, <4>1, <4>2
      <3>2. CASE op # "put"
        <4>1. PendingCall(c)' = Call(op, k, Nil)
          BY <1>1, <1>3, <1>7, <2>1, <3>2 DEF PendingCall, Call
        <4> QED
          BY <3>2, <4>1
      <3> QED
        BY <3>1, <3>2
    <2>3. Calling[c] = Nil \/ Outcomes[c] # Nil
      <3>1. CASE Visible(c)
        <4>1. pc[c] = "done" /\ ret[c] \in Results
          BY <3>1, Viewed DEF Invoke, Idle, RefInv, CallsOpen
        <4> QED
          BY <3>1, <4>1, Viewed DEF Outcome
      <3> QED
        BY <3>1, Viewed
    <2>4. op \in Abstract!Operations
      BY <1>1, <2>1, ConstantsAssumption DEF Operations, Abstract!Operations
    <2>5. Abstract!Invoke(c)
      BY <1>4, <1>5, <1>6, <2>1, <2>2, <2>3, <2>4 DEF Abstract!Invoke, Abstract!Call, Call
    <2> QED
      BY <2>5, ClientStep
  <1>8. CASE ~ Visible(c)'
    <2>1. PendingCall(c)' = Nil
      BY <1>8 DEF PendingCall
    <2> QED
      BY <1>4, <1>5, <1>6, <2>1, GivesUp
  <1> QED
    BY <1>7, <1>8

\* A new orphan, to BlobStore.
LEMMA DetachOne ==
  ASSUME NEW o, orphans' = orphans \cup {o}
  PROVE  Detached' = IF o.op = "delete" /\ o.key \in Keys THEN Detached \cup {<<o.by, o.key>>}
                     ELSE Detached
  BY DEF Detached

LEMMA CancelRefines ==
  ASSUME Inv, TreeInv, RefInv, NEW c \in Clients, Cancel(c)
  PROVE  AbstractStep
  <1>1. Settled /\ UNCHANGED <<tree, disk, data, ret>>
    BY NextSettled DEF Next, Cancel, fs
  <1>2. /\ pc' = [pc EXCEPT ![c] = "idle"] /\ call' = [call EXCEPT ![c] = Nil]
        /\ file' = [file EXCEPT ![c] = Nil]
    BY DEF Cancel, Goto
  <1>3. /\ \A d \in Clients \ {c} : call'[d] = call[d] /\ pc'[d] = pc[d]
                                    /\ ret'[d] = ret[d] /\ file'[d] = file[d]
        /\ call'[c] = Nil
    BY <1>1, <1>2 DEF Inv, ClientTypes
  <1>4. PendingCall(c)' = Nil /\ Outcome(c)' = Nil
    BY <1>3 DEF PendingCall, Outcome, Visible
  <1>5. Calling' = [Calling EXCEPT ![c] = Nil] /\ Outcomes' = [Outcomes EXCEPT ![c] = Nil]
    BY <1>1, <1>3, <1>4, OthersSeen
  <1>6. Blobs' = Blobs /\ Durable' = Durable
    BY <1>1, SameBlobs, SameDurable
  <1>7. \/ Detached' = Detached
        \/ /\ Visible(c) /\ call[c].op = "delete" /\ pc[c] = "start"
           /\ Detached' = Detached \cup {<<c, Key(c)>>}
    <2>1. CASE orphans' = orphans
      BY <2>1 DEF Detached
    <2>2. CASE /\ At(c, "mkdir", {"put"}) \/ Begin(c, {"delete"})
               /\ orphans' = orphans \cup {[op |-> call[c].op, key |-> Key(c), by |-> c]}
      <3> DEFINE o == [op |-> call[c].op, key |-> Key(c), by |-> c]
      <3>1. Detached' = IF o.op = "delete" /\ o.key \in Keys THEN Detached \cup {<<o.by, o.key>>}
                        ELSE Detached
        BY <2>2, DetachOne
      <3>2. call[c].op = "delete" => pc[c] = "start" /\ (Key(c) \in Keys => Visible(c))
        BY <2>2, NilIsNoCall DEF At, Begin, RefInv, CallsOpen, Visible, Key
      <3> QED
        BY <3>1, <3>2
    <2> QED
      BY <2>1, <2>2 DEF Cancel
  <1> QED
    BY <1>5, <1>6, <1>7, GivesUp

\* A finished orphan, to BlobStore: the by and the key tell the deletes apart.
LEMMA DetachedEnds ==
  ASSUME Inv, NEW o \in orphans, orphans' = orphans \ {o}
  PROVE  Detached' = IF o.op = "delete" /\ o.key \in Keys THEN Detached \ {<<o.by, o.key>>}
                     ELSE Detached
  <1>1. ASSUME NEW q \in orphans, q.op = "delete", q # o, o.op = "delete"
        PROVE  <<q.by, q.key>> # <<o.by, o.key>>
    BY <1>1 DEF Inv, FaultTypes, Orphans
  <1>2. CASE o.op = "delete" /\ o.key \in Keys
    BY <1>1, <1>2 DEF Detached
  <1>3. CASE ~ (o.op = "delete" /\ o.key \in Keys)
    BY <1>3 DEF Detached
  <1> QED
    BY <1>2, <1>3

LEMMA OrphanRefines ==
  ASSUME Inv, TreeInv, RefInv, Orphan
  PROVE  AbstractStep
  <1>1. Settled /\ UNCHANGED <<disk, pc, call, file, ret>>
    BY NextSettled DEF Next, Orphan, local
  <1>2. Calling' = Calling
    BY <1>1 DEF Calling, PendingCall, Visible, Full
  <1>3. Outcomes' = Outcomes
    <2>1. \A d \in Clients : Outcome(d)' = Outcome(d)
      BY <1>1, SameOutcome
    <2> QED
      BY <2>1 DEF Outcomes
  <1>4. Durable' = Durable
    BY <1>1, SameDurable
  <1>5. tree \in [Paths -> Node] /\ Keys \subseteq Paths
    BY DEF Inv, FsTypes, Paths
  <1>6. PICK o \in orphans : OrphanUnlink(o) \/ OrphanMkdir(o) \/ OrphanEnds(o)
    BY DEF Orphan
  <1>7. ASSUME Blobs' = Blobs, Detached' = Detached PROVE AbstractStep
    BY <1>2, <1>3, <1>4, <1>7 DEF AbstractStep, Abstract!vars
  <1>8. CASE OrphanMkdir(o)
    <2>1. o.op = "put" /\ MkdirStep(o.key) /\ UNCHANGED orphans
      BY <1>8 DEF OrphanMkdir
    <2>2. \A k \in Keys : tree'[k] = tree[k] \/ (tree'[k] \notin Files /\ tree[k] \notin Files)
      BY <1>5, <2>1, ConstantsAssumption DEF MkdirStep
    <2>3. Blobs' = Blobs /\ Detached' = Detached
      BY <1>1, <2>1, <2>2, SameBlobs DEF Detached
    <2> QED
      BY <1>7, <2>3
  <1>9. CASE OrphanEnds(o)
    <2>1. o.op = "put" /\ orphans' = orphans \ {o} /\ UNCHANGED tree
      BY <1>9 DEF OrphanEnds, fs
    <2>2. Blobs' = Blobs /\ Detached' = Detached
      BY <1>1, <2>1, SameBlobs, DetachedEnds
    <2> QED
      BY <1>7, <2>2
  <1>10. CASE OrphanUnlink(o)
    <2>1. /\ o.op = "delete" /\ orphans' = orphans \ {o}
          /\ tree' = IF Stat(o.key) \in Files THEN Unlink(tree, o.key) ELSE tree
      BY <1>10 DEF OrphanUnlink
    <2>2. \A q \in Keys : q # o.key => tree'[q] = tree[q]
      BY <1>5, <2>1 DEF Unlink
    <2>3. CASE o.key \in Keys
      <3>1. tree'[o.key] \notin Files
        BY <1>5, <2>1, <2>3, KeyLookup, ConstantsAssumption DEF Unlink
      <3>2. Blobs' = [Blobs EXCEPT ![o.key] = Nil]
        BY <1>1, <2>2, <2>3, <3>1, OneBlob
      <3>3. Detached' = Detached \ {<<o.by, o.key>>} /\ <<o.by, o.key>> \in Detached
        BY <2>1, <2>3, DetachedEnds DEF Detached
      <3>4. Abstract!LateDelete
        <4> DEFINE d == <<o.by, o.key>>
        <4>1. d \in Detached /\ Detached' = Detached \ {d} /\ Blobs' = [Blobs EXCEPT ![d[2]] = Nil]
          BY <3>2, <3>3
        <4> HIDE DEF d
        <4> QED
          BY <1>2, <1>3, <1>4, <4>1 DEF Abstract!LateDelete
      <3> QED
        BY <3>4 DEF AbstractStep, Abstract!Next
    <2>4. CASE o.key \notin Keys
      <3>1. Blobs' = Blobs /\ Detached' = Detached
        BY <1>1, <2>1, <2>2, <2>4, SameBlobs, DetachedEnds
      <3> QED
        BY <1>7, <3>1
    <2> QED
      BY <2>3, <2>4
  <1> QED
    BY <1>6, <1>8, <1>9, <1>10

LEMMA CommitRefines ==
  ASSUME Inv, TreeInv, RefInv, Commit
  PROVE  AbstractStep
  <1>1. UNCHANGED <<tree, data, pc, call, file, ret, orphans>> /\ disk' = tree
    BY DEF Commit, fs, local, faults
  <1>2. Durable' = Blobs /\ Blobs' = Blobs /\ Detached' = Detached
    BY <1>1 DEF Durable, Blobs, BlobAt, Detached
  <1>3. Calling' = Calling
    BY <1>1 DEF Calling, PendingCall, Visible, Full
  <1>4. Outcomes' = Outcomes
    BY <1>1 DEF Outcomes, Outcome, Visible, Ok
  <1>5. Abstract!Commit
    BY <1>2, <1>3, <1>4 DEF Abstract!Commit
  <1> QED
    BY <1>5 DEF AbstractStep, Abstract!Next

\* A power failure falls back to the committed tree; the bytes it names are synced.
LEMMA CrashRefines ==
  ASSUME Inv, TreeInv, RefInv, Crash
  PROVE  AbstractStep
  <1>1. Settled /\ tree' = disk /\ disk' = disk /\ orphans' = {}
        /\ call' = [c \in Clients |-> Nil]
    BY NextSettled DEF Next, Crash
  <1>2. \A k \in Keys : disk[k] \in Files => data'[disk[k]] = data[disk[k]]
    BY <1>1 DEF Inv, KeysSynced, Settled
  <1>3. Durable' = Durable
    BY <1>1, SameDurable
  <1>4. Blobs' = Durable
    BY <1>1, <1>2 DEF Blobs, Durable, BlobAt
  <1>5. Calling' = [c \in Clients |-> Nil] /\ Outcomes' = [c \in Clients |-> Nil]
    BY <1>1 DEF Calling, PendingCall, Outcomes, Outcome, Visible
  <1>6. Detached' = {}
    BY <1>1 DEF Detached
  <1>7. Abstract!Crash
    BY <1>3, <1>4, <1>5, <1>6 DEF Abstract!Crash
  <1> QED
    BY <1>7 DEF AbstractStep, Abstract!Next

(***************************************************************************)
(* The theorem.                                                             *)
(***************************************************************************)
LEMMA InitRefines == Init => Abstract!Init
  <1> SUFFICES ASSUME Init PROVE Abstract!Init
    OBVIOUS
  <1>1. \A k \in Keys : k # <<>>
    BY ConstantsAssumption
  <1>2. \A k \in Keys : tree[k] = NoEnt /\ disk[k] = NoEnt
    BY <1>1 DEF Init, Paths
  <1>3. Blobs = [k \in Keys |-> Nil] /\ Durable = Blobs
    BY <1>2, ConstantsAssumption DEF Blobs, Durable, BlobAt
  <1>4. Calling = [c \in Clients |-> Nil] /\ Outcomes = [c \in Clients |-> Nil] /\ Detached = {}
    BY DEF Init, Calling, PendingCall, Outcomes, Outcome, Visible, Detached
  <1> QED
    BY <1>3, <1>4 DEF Abstract!Init

\* A stutter of LocalStore is one of BlobStore.
LEMMA StutterRefines == UNCHANGED vars => AbstractStep
  <1> SUFFICES ASSUME UNCHANGED vars PROVE AbstractStep
    OBVIOUS
  <1>1. UNCHANGED <<tree, disk, data, pc, call, file, ret, orphans>>
    BY DEF vars
  <1>2. Blobs' = Blobs /\ Durable' = Durable /\ Detached' = Detached
    BY <1>1 DEF Blobs, Durable, BlobAt, Detached
  <1>3. Calling' = Calling /\ Outcomes' = Outcomes
    BY <1>1 DEF Calling, PendingCall, Visible, Full, Outcomes, Outcome, Ok
  <1> QED
    BY <1>2, <1>3 DEF AbstractStep, Abstract!vars

LEMMA NextRefines == Inv /\ TreeInv /\ RefInv /\ [Next]_vars => AbstractStep
  BY StepRefines, InvokeRefines, CancelRefines, OrphanRefines, CommitRefines, CrashRefines,
     StutterRefines DEF Next

\* put, get, delete, exists and presigned_url of LocalStore, each a sequence of
\* system calls that interleave with those of other clients, behave as
\* instantaneous operations on a dictionary of whole blobs: a failed call
\* changes nothing, a dropped delete may happen later, and a power failure falls
\* back to a dictionary there really was.
THEOREM LocalStoreIsBlobStore == Spec => ImplementsBlobStore
  <1>1. Inv /\ TreeInv /\ RefInv /\ [Next]_vars => [Abstract!Next]_(Abstract!vars)
    BY NextRefines DEF AbstractStep
  <1> QED
    BY <1>1, InitRefines, SpecInv, SpecTreeInv, SpecRefInv, PTL
       DEF Spec, ImplementsBlobStore, Abstract!Spec
===============================================================================
