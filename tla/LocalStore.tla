------------------------------ MODULE LocalStore ------------------------------
(***************************************************************************)
(* LocalStore (local.rs) over a POSIX file system.                          *)
(*                                                                         *)
(* Several tasks use one store directory at once: handles of one process on *)
(* a multi-threaded runtime, or several processes.  Each system call is one *)
(* step, and the steps of different clients interleave.                     *)
(*                                                                         *)
(* The file system is external.  `tree' is the directory tree the calls     *)
(* see, `disk' the tree a power failure falls back to: directory updates    *)
(* reach it in order (a journal), at a moment the store does not choose.    *)
(* File contents reach it for certain only through sync_all.                *)
(*                                                                         *)
(* A definition marked (slip) is not the code: it is what a plausible error *)
(* would turn the definition below it into, and some run notices it.        *)
(***************************************************************************)
EXTENDS ObjectKey

CONSTANTS Clients,     \* tasks that share the store
          Keys,        \* object keys, as paths below the root
          Values,      \* payloads
          Size,        \* the number of write() calls a payload takes
          MaxBytes,    \* the quota, in the same unit; Nil is Option::None
          Files,       \* files ever created; also the random part of temp names
          ListArgs,    \* arguments of list
          Ops,         \* the operations clients call in this instance
          Faulty,      \* whether system calls may fail with EIO, ENOSPC, EACCES ...
          MaxCancels,  \* bound on dropped futures
          MaxCrashes,  \* bound on power failures
          NoEnt, Dir, NotDir, Nil

TmpName(i) == <<Dot, i>>     \* ".blobkit-" and six random characters
Dirs     == { <<>> } \cup UNION {Ancestors(k) : k \in Keys}
TmpPaths == {Append(d, TmpName(i)) : d \in Dirs, i \in Files}
Paths    == Keys \cup Dirs \cup TmpPaths
Node     == Files \cup {NoEnt, Dir}
Operations == {"put", "get", "delete", "exists", "presign", "list"}

ASSUME ConstantsAssumption ==
  /\ Size \in [Values -> Nat]
  /\ MaxBytes \in Nat \cup {Nil}
  /\ Keys \cap TmpPaths = {} /\ Dirs \cap TmpPaths = {}
  /\ Keys \subseteq Seq(UNION {ToSet(k) : k \in Keys})
  /\ \A k \in Keys : Len(k) \in Nat \ {0}
  /\ {NoEnt, Dir, NotDir, Nil} \cap Files = {}
  /\ NoEnt # Dir /\ NoEnt # NotDir /\ Dir # NotDir
  /\ Nil \notin Nat /\ Nil \notin Values
  /\ Ops \subseteq Operations
  /\ MaxCancels \in Nat /\ MaxCrashes \in Nat /\ Faulty \in BOOLEAN

\* the text of a key is an ObjectKey's, and names and prefixes are text
ASSUME TextAssumption ==
  /\ \A k \in Keys : Validate(Text(k)) /\ \A name \in ToSet(k) : name \in Seq(ToSet(name))
  /\ \A arg \in ListArgs : arg \in Seq(ToSet(arg))

VARIABLES tree,      \* what every path names
          disk,      \* what it names after a power failure
          data,      \* contents of every file
          born,      \* files created so far
          synced,    \* files whose contents are on disk
          pc,        \* where each client is
          call,      \* its latest call
          file,      \* the file it holds open
          acc,       \* bytes a get has read
          todo,      \* directories a list has still to read
          found,     \* paths it has collected
          ret,       \* its latest result
          orphans,   \* blocking calls whose future was dropped
          cancels, crashes

fs     == <<tree, data, born, synced>>
local  == <<file, acc, todo, found>>
faults == <<orphans, cancels, crashes>>
vars   == <<tree, disk, data, born, synced, pc, call, file, acc, todo, found,
            ret, orphans, cancels, crashes>>

Full(v)   == [n \in 1..Size[v] |-> v]
TooBig(v) == MaxBytes # Nil /\ Size[v] > MaxBytes
Whole(s)  == \E v \in Values : s = Full(v) /\ ~ TooBig(v)

Call(op, key, val) == [op |-> op, key |-> key, val |-> val]
Ok(val) == [st |-> "Ok", val |-> val]
Err(e)  == [st |-> e, val |-> Nil]
Answer(b) == [st |-> IF b THEN "True" ELSE "False", val |-> Nil]

Done(c, r) ==
  /\ pc' = [pc EXCEPT ![c] = "done"]
  /\ ret' = [ret EXCEPT ![c] = r]
  /\ file' = [file EXCEPT ![c] = Nil]
  /\ acc' = [acc EXCEPT ![c] = <<>>]
Goto(c, l) == pc' = [pc EXCEPT ![c] = l]

\* the call ends; the file system stays as it is
Reply(c, r) == Done(c, r) /\ UNCHANGED <<fs, disk, call, todo, found, faults>>

\* the call ends with the removal of a name, whatever the name stands for by then
Unlink(t, p) == [t EXCEPT ![p] = NoEnt]
Drop(c, p, r) ==
  /\ tree' = Unlink(tree, p)
  /\ Done(c, r)
  /\ UNCHANGED <<data, born, synced, disk, call, todo, found, faults>>

Key(c) == call[c].key
Tmp(c) == Append(Parent(Key(c)), TmpName(file[c]))
At(c, l, ops) == pc[c] = l /\ call[c].op \in ops

(***************************************************************************)
(* Path lookup: the node a path names, NoEnt when it or a directory above   *)
(* it is missing (ENOENT), NotDir when a file stands above it (ENOTDIR).    *)
(***************************************************************************)
Blocked(p) == {n \in 0..(Len(p) - 1) : tree[SubSeq(p, 1, n)] # Dir}
FirstBlock(p) == SubSeq(p, 1, Min(Blocked(p)))

Stat(p) ==
  IF Blocked(p) = {} THEN tree[p]
  ELSE IF tree[FirstBlock(p)] = NoEnt THEN NoEnt ELSE NotDir

Init ==
  /\ tree = [p \in Paths |-> IF p = <<>> THEN Dir ELSE NoEnt]
  /\ disk = tree
  /\ data = [i \in Files |-> <<>>]
  /\ born = {} /\ synced = {}
  /\ pc = [c \in Clients |-> "idle"]
  /\ call = [c \in Clients |-> Nil]
  /\ file = [c \in Clients |-> Nil]
  /\ acc = [c \in Clients |-> <<>>]
  /\ todo = [c \in Clients |-> {}] /\ found = [c \in Clients |-> {}]
  /\ ret = [c \in Clients |-> Nil]
  /\ orphans = {} /\ cancels = 0 /\ crashes = 0

(***************************************************************************)
(* Calls.  A client may also use the keys its last list returned.  Every    *)
(* put needs a fresh file: Files bounds the puts of a behaviour.            *)
(***************************************************************************)
Idle(c) == pc[c] \in {"idle", "done"}
Listed(c) ==
  IF pc[c] = "done" /\ call[c].op = "list" THEN found[c] ELSE {}
Creating == {c \in Clients : pc[c] \in {"start", "mkdir", "create"} /\ call[c].op = "put"}

CallArgs(c, op) ==
  CASE op = "put"  -> IF Cardinality(Creating) < Cardinality(Files \ born)
                      THEN Keys \X Values ELSE {}
    [] op = "list" -> ListArgs \X {Nil}
    [] OTHER       -> (Keys \cup Listed(c)) \X {Nil}

Invoke(c) ==
  /\ Idle(c)
  /\ \E op \in Ops : \E a \in CallArgs(c, op) :
       call' = [call EXCEPT ![c] = Call(op, a[1], a[2])]
  /\ Goto(c, "start")
  /\ ret' = [ret EXCEPT ![c] = Nil]
  /\ found' = [found EXCEPT ![c] = {}]
  /\ UNCHANGED <<fs, disk, file, acc, todo, faults>>

Refuse(c) ==   \* resolve() fails: no file system call is made
  /\ At(c, "start", {"put", "get", "delete", "exists", "presign"})
  /\ ~ Resolvable(Text(Key(c)))
  /\ call[c].op = "put" => ~ TooBig(call[c].val)
  /\ Reply(c, Err("InvalidKey"))

Begin(c, ops) == At(c, "start", ops) /\ Resolvable(Text(Key(c)))

(***************************************************************************)
(* put                                                                      *)
(***************************************************************************)
PutQuota(c) ==
  /\ At(c, "start", {"put"}) /\ TooBig(call[c].val)
  /\ Reply(c, Err("StorageFull"))

\* (slip) the quota is not looked at
PutResolvedUnchecked(c) ==
  /\ Begin(c, {"put"})
  /\ Goto(c, "mkdir")
  /\ UNCHANGED <<fs, disk, call, local, ret, faults>>

PutResolved(c) ==
  /\ Begin(c, {"put"}) /\ ~ TooBig(call[c].val)
  /\ Goto(c, "mkdir")
  /\ UNCHANGED <<fs, disk, call, local, ret, faults>>

\* one mkdir of create_dir_all
MkdirStep(key) ==
  /\ Blocked(key) # {} /\ tree[FirstBlock(key)] = NoEnt
  /\ tree' = [tree EXCEPT ![FirstBlock(key)] = Dir]
  /\ UNCHANGED <<data, born, synced>>

PutMkdir(c) ==
  /\ At(c, "mkdir", {"put"})
  /\ MkdirStep(Key(c))
  /\ UNCHANGED <<disk, pc, call, local, ret, faults>>

PutMkdirFails(c) ==   \* a file stands where a directory is needed, or mkdir fails
  /\ At(c, "mkdir", {"put"})
  /\ Faulty \/ Stat(Key(c)) = NotDir
  /\ Reply(c, Err("Io"))

PutMkdirDone(c) ==
  /\ At(c, "mkdir", {"put"})
  /\ Blocked(Key(c)) = {}
  /\ Goto(c, "create")
  /\ UNCHANGED <<fs, disk, call, local, ret, faults>>

\* (slip) a name already taken is taken again
PutCreateStaleName(c) ==
  /\ At(c, "create", {"put"})
  /\ \E i \in Files \ born :
       /\ file' = [file EXCEPT ![c] = i]
       /\ tree' = [tree EXCEPT ![Append(Parent(Key(c)), TmpName(i))] = i]
  /\ Goto(c, "write")
  /\ UNCHANGED <<data, born, synced, disk, call, acc, todo, found, ret, faults>>

PutCreate(c) ==   \* Builder::tempfile_in
  /\ At(c, "create", {"put"})
  /\ \E i \in Files \ born :
       /\ born' = born \cup {i}
       /\ file' = [file EXCEPT ![c] = i]
       /\ tree' = [tree EXCEPT ![Append(Parent(Key(c)), TmpName(i))] = i]
  /\ Goto(c, "write")
  /\ UNCHANGED <<data, synced, disk, call, acc, todo, found, ret, faults>>

PutCreateFails(c) ==
  /\ Faulty /\ At(c, "create", {"put"})
  /\ Reply(c, Err("Other"))

\* (slip) an object that exists is overwritten in place
PutWriteInPlace(c) ==
  /\ At(c, "write", {"put"})
  /\ Len(data[file[c]]) < Size[call[c].val]
  /\ LET i == IF tree[Key(c)] \in Files THEN tree[Key(c)] ELSE file[c]
     IN  data' = [data EXCEPT ![i] = Append(@, call[c].val)]
  /\ UNCHANGED <<tree, born, synced, disk, pc, call, local, ret, faults>>

PutWrite(c) ==   \* one write() of write_all
  /\ At(c, "write", {"put"})
  /\ Len(data[file[c]]) < Size[call[c].val]
  /\ data' = [data EXCEPT ![file[c]] = Append(@, call[c].val)]
  /\ UNCHANGED <<tree, born, synced, disk, pc, call, local, ret, faults>>

\* (slip) the temp file is renamed without sync_all
PutSyncSkipped(c) ==
  /\ At(c, "write", {"put"})
  /\ Len(data[file[c]]) = Size[call[c].val]
  /\ Goto(c, "persist")
  /\ UNCHANGED <<fs, disk, call, local, ret, faults>>

PutSync(c) ==   \* flush and sync_all
  /\ At(c, "write", {"put"})
  /\ Len(data[file[c]]) = Size[call[c].val]
  /\ synced' = synced \cup {file[c]}
  /\ Goto(c, "persist")
  /\ UNCHANGED <<tree, data, born, disk, call, local, ret, faults>>

\* (slip) the error path keeps the temp file
PutWriteFailsKeepsTemp(c) ==
  /\ Faulty /\ At(c, "write", {"put"})
  /\ Reply(c, Err("Other"))

PutWriteFails(c) ==   \* write_all or sync_all fails: the temp file is dropped
  /\ Faulty /\ At(c, "write", {"put"})
  /\ Drop(c, Tmp(c), Err("Other"))

\* (slip) the destination is not looked at
CanRenameAnywhere(c) == tree[Tmp(c)] = file[c]

\* rename(2) refuses a source someone removed and a destination directory
CanRename(c) == tree[Tmp(c)] = file[c] /\ Stat(Key(c)) \in Files \cup {NoEnt}

PutPersist(c) ==
  /\ At(c, "persist", {"put"})
  /\ CanRename(c)
  /\ tree' = [Unlink(tree, Tmp(c)) EXCEPT ![Key(c)] = file[c]]
  /\ Done(c, Ok(Nil))
  /\ UNCHANGED <<data, born, synced, disk, call, todo, found, faults>>

\* (slip) the result of persist() is dropped
PutPersistErrorIgnored(c) ==
  /\ At(c, "persist", {"put"})
  /\ Faulty \/ ~ CanRename(c)
  /\ Drop(c, Tmp(c), Ok(Nil))

PutPersistFails(c) ==
  /\ At(c, "persist", {"put"})
  /\ Faulty \/ ~ CanRename(c)
  /\ Drop(c, Tmp(c), Err("Io"))

(***************************************************************************)
(* get: open, then read to the end; the open file keeps its contents        *)
(* whatever happens to its name.                                            *)
(***************************************************************************)
GetOpen(c) ==
  /\ Begin(c, {"get"}) /\ Stat(Key(c)) \in Files
  /\ file' = [file EXCEPT ![c] = Stat(Key(c))]
  /\ Goto(c, "read")
  /\ UNCHANGED <<fs, disk, call, acc, todo, found, ret, faults>>

\* the error each operation returns when its key names no file
LookupError(c) ==
  CASE Stat(Key(c)) = NoEnt         -> Err("NotFound")
    [] Stat(Key(c)) \in {Dir, NotDir} -> Err("Io")

NoFile(c) ==   \* read, remove_file: ENOENT, EISDIR or ENOTDIR
  /\ Begin(c, {"get", "delete"}) /\ Stat(Key(c)) \notin Files
  /\ Reply(c, LookupError(c))

\* open, read, stat or unlink fails.  Nothing depends on the moment at which the
\* read of a get fails, so that is settled at the open.
LookupFails(c) ==
  /\ Faulty /\ Begin(c, {"get", "delete", "exists", "presign"})
  /\ Reply(c, Err("Io"))

GetRead(c) ==
  /\ At(c, "read", {"get"})
  /\ Len(acc[c]) < Len(data[file[c]])
  /\ acc' = [acc EXCEPT ![c] = Append(@, data[file[c]][Len(@) + 1])]
  /\ UNCHANGED <<fs, disk, pc, call, file, todo, found, ret, faults>>

GetEof(c) ==
  /\ At(c, "read", {"get"})
  /\ Len(acc[c]) = Len(data[file[c]])
  /\ Reply(c, Ok(acc[c]))

(***************************************************************************)
(* delete, exists, presigned_url                                            *)
(***************************************************************************)
Delete(c) ==
  /\ Begin(c, {"delete"}) /\ Stat(Key(c)) \in Files
  /\ Drop(c, Key(c), Ok(Nil))

Exists(c) ==   \* fs::metadata succeeds on a directory, too
  /\ Begin(c, {"exists"})
  /\ Reply(c, IF Stat(Key(c)) = NotDir THEN Err("Io")
              ELSE Answer(Stat(Key(c)) # NoEnt))

Presign(c) ==   \* an exists() check, then a URL made from the path
  /\ Begin(c, {"presign"})
  /\ Reply(c, CASE Stat(Key(c)) = NotDir -> Err("Io")
                [] Stat(Key(c)) = NoEnt  -> Err("NotFound")
                [] OTHER                 -> Ok(Nil))

(***************************************************************************)
(* list: a walk that reads one directory after the other.  Reading one      *)
(* directory is a step; the order of the stack is left open.                *)
(***************************************************************************)
ListStart(c) ==
  /\ At(c, "start", {"list"})
  /\ todo' = [todo EXCEPT ![c] = { <<>> }]
  /\ Goto(c, "walk")
  /\ UNCHANGED <<fs, disk, call, file, acc, found, ret, faults>>

Entries(d) == {p \in Paths : p # <<>> /\ Parent(p) = d /\ tree[p] # NoEnt}

\* (slip) the directory read is not taken off the stack
ListDirAgain(c) ==
  /\ At(c, "walk", {"list"})
  /\ \E d \in todo[c] :
       found' = [found EXCEPT ![c] = @ \cup {p \in Entries(d) : tree[p] # Dir}]
  /\ UNCHANGED <<fs, disk, pc, call, file, acc, todo, ret, faults>>

ListDir(c) ==
  /\ At(c, "walk", {"list"})
  /\ \E d \in todo[c] :
       LET files == {p \in Entries(d) : tree[p] # Dir /\ MatchesPrefix(Key(c), Text(p))}
           dirs  == {p \in Entries(d) : tree[p] = Dir /\ KeepDir(Key(c), DirText(p))}
       IN  /\ found' = [found EXCEPT ![c] = @ \cup {p \in files : Validate(Text(p))}]
           /\ todo' = [todo EXCEPT ![c] = (@ \ {d}) \cup dirs]
  /\ UNCHANGED <<fs, disk, pc, call, file, acc, ret, faults>>

ListEnd(c) ==
  /\ At(c, "walk", {"list"}) /\ todo[c] = {}
  /\ Reply(c, Ok(Nil))

ListFails(c) ==   \* read_dir or the read of an entry fails: no key is returned
  /\ Faulty /\ At(c, "walk", {"list"})
  /\ Done(c, Err("Io"))
  /\ todo' = [todo EXCEPT ![c] = {}] /\ found' = [found EXCEPT ![c] = {}]
  /\ UNCHANGED <<fs, disk, call, faults>>

(***************************************************************************)
(* The caller drops the future while a tokio::fs call is pending.  The      *)
(* blocking thread still runs the call: a remove_file or a create_dir_all   *)
(* takes effect later, on nobody's behalf.                                  *)
(***************************************************************************)
Cancel(c) ==
  /\ cancels < MaxCancels
  /\ \/ /\ At(c, "mkdir", {"put"}) \/ Begin(c, {"delete"})
        /\ orphans' = orphans \cup {[op |-> call[c].op, key |-> Key(c), by |-> c]}
     \/ /\ Begin(c, {"get", "exists", "presign"}) \/ At(c, "read", {"get"})
        /\ orphans' = orphans
  /\ cancels' = cancels + 1
  /\ Goto(c, "idle")
  /\ call' = [call EXCEPT ![c] = Nil]
  /\ file' = [file EXCEPT ![c] = Nil]
  /\ acc' = [acc EXCEPT ![c] = <<>>]
  /\ UNCHANGED <<fs, disk, todo, found, ret, crashes>>

OrphanUnlink(o) ==
  /\ o.op = "delete"
  /\ tree' = IF Stat(o.key) \in Files THEN Unlink(tree, o.key) ELSE tree
  /\ orphans' = orphans \ {o}
  /\ UNCHANGED <<data, born, synced>>

OrphanMkdir(o) == o.op = "put" /\ MkdirStep(o.key) /\ UNCHANGED orphans

OrphanEnds(o) ==
  /\ o.op = "put" /\ (Blocked(o.key) = {} \/ Stat(o.key) = NotDir)
  /\ orphans' = orphans \ {o}
  /\ UNCHANGED fs

Orphan ==
  /\ \E o \in orphans : OrphanUnlink(o) \/ OrphanMkdir(o) \/ OrphanEnds(o)
  /\ UNCHANGED <<disk, pc, call, local, ret, cancels, crashes>>

(***************************************************************************)
(* The journal commits; the machine loses power and the store is opened     *)
(* again.  Contents never synced may be lost.                               *)
(***************************************************************************)
Commit ==
  /\ crashes < MaxCrashes /\ disk # tree
  /\ disk' = tree
  /\ UNCHANGED <<fs, pc, call, local, ret, faults>>

Crash ==
  /\ crashes < MaxCrashes
  /\ crashes' = crashes + 1
  /\ tree' = disk
  /\ \E kept \in SUBSET (born \ synced) :
       data' = [i \in Files |-> IF i \in synced \cup kept THEN data[i] ELSE <<>>]
  /\ pc' = [c \in Clients |-> "idle"]
  /\ call' = [c \in Clients |-> Nil]
  /\ file' = [c \in Clients |-> Nil]
  /\ acc' = [c \in Clients |-> <<>>]
  /\ todo' = [c \in Clients |-> {}] /\ found' = [c \in Clients |-> {}]
  /\ ret' = [c \in Clients |-> Nil]
  /\ orphans' = {}
  /\ UNCHANGED <<disk, born, synced, cancels>>

PutStep(c) ==
  \/ PutQuota(c) \/ PutResolved(c) \/ PutMkdir(c) \/ PutMkdirFails(c) \/ PutMkdirDone(c)
  \/ PutCreate(c) \/ PutWrite(c) \/ PutSync(c)
  \/ PutPersist(c) \/ PutPersistFails(c)

\* a pending call always has one of these steps to take
Advance(c) ==
  \/ Refuse(c) \/ PutStep(c)
  \/ GetOpen(c) \/ NoFile(c) \/ GetRead(c) \/ GetEof(c)
  \/ Delete(c) \/ Exists(c) \/ Presign(c)
  \/ ListStart(c) \/ ListDir(c) \/ ListEnd(c)

Step(c) ==
  \/ Advance(c)
  \/ PutCreateFails(c) \/ PutWriteFails(c) \/ LookupFails(c) \/ ListFails(c)

Next ==
  \/ \E c \in Clients : Invoke(c) \/ Step(c) \/ Cancel(c)
  \/ Orphan \/ Commit \/ Crash

Spec == Init /\ [][Next]_vars

\* Every pending call is polled until it resolves: the runtime runs each task.
\* No call owes its end to a failure.
Fairness == \A c \in Clients : WF_vars(Advance(c))

(***************************************************************************)
(* Properties                                                               *)
(***************************************************************************)
Labels  == {"idle", "start", "mkdir", "create", "write", "persist", "read", "walk", "done"}
Calls   == [op : Operations,
            key : Paths \cup ListArgs, val : Values \cup {Nil}]
Results == [st : {"Ok", "True", "False", "NotFound", "InvalidKey", "StorageFull", "Io", "Other"},
            val : Seq(Values) \cup {Nil}]
Orphans == [op : {"put", "delete"}, key : Paths, by : Clients]

\* The types of the variables.
TypeOK ==
  /\ tree \in [Paths -> Node] /\ disk \in [Paths -> Node]
  /\ data \in [Files -> Seq(Values)]
  /\ born \subseteq Files /\ synced \subseteq born
  /\ pc \in [Clients -> Labels]
  /\ call \in [Clients -> Calls \cup {Nil}] /\ ret \in [Clients -> Results \cup {Nil}]
  /\ file \in [Clients -> Files \cup {Nil}] /\ acc \in [Clients -> Seq(Values)]
  /\ todo \in [Clients -> SUBSET Paths] /\ found \in [Clients -> SUBSET Paths]
  /\ orphans \subseteq Orphans
  /\ cancels \in Nat /\ crashes \in Nat

\* A key names nothing or a complete payload within the quota whose bytes are
\* on disk, both for readers and for whoever reopens the store after a power
\* failure (put: tempfile, write_all, sync_all, then rename).
BlobsWhole ==
  \A k \in Keys : \A t \in {tree, disk} :
    t[k] \in Files => t[k] \in synced /\ Whole(data[t[k]])

\* Whatever exists lies in a directory that exists, so create_dir_all, rename
\* and the walk of list never meet a hole in the tree, not even after a crash.
TreeShape ==
  \A p \in Paths \ { <<>> } : \A t \in {tree, disk} :
    t[p] # NoEnt => t[Parent(p)] = Dir

\* Without a crash, a temp file belongs to a put still at work: a put that
\* returned, on whichever error path, left none behind (NamedTempFile's drop).
TempsOwned ==
  crashes = 0 =>
    \A d \in Dirs, i \in Files :
      tree[Append(d, TmpName(i))] # NoEnt =>
        \E c \in Clients : pc[c] \in {"write", "persist"} /\ file[c] = i

\* The bytes of a synced file never change again: a get that has opened a file
\* reads one payload to its end while other clients replace or delete the key.
SyncedImmutable == [][\A i \in synced : data'[i] = data[i]]_vars

\* Every call resolves.
Resolves == \A c \in Clients : ~ Idle(c) ~> Idle(c)

\* list() reports keys, never a file the store made for itself.
ListOnlyKeys ==
  \A c \in Clients : At(c, "done", {"list"}) => found[c] \subseteq Keys
==============================================================================
