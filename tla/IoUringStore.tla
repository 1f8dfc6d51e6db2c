---------------------------- MODULE IoUringStore ----------------------------
(***************************************************************************)
(* IoUringStore (io_uring_backend.rs): the on-disk layout and the steps of  *)
(* LocalStore, with the bulk data moved by IoUringFile on a blocking thread.*)
(* Clients with a LocalStore handle on the same directory may be at work    *)
(* beside the RingClients.                                                  *)
(*                                                                         *)
(* What is shared is taken from LocalStore.  Two things differ.  A put can  *)
(* be dropped while the blocking thread writes: the thread, which owns the  *)
(* temp file, finishes and then drops it.  A get asks for the length of the *)
(* file first and reads exactly that much.                                  *)
(*                                                                         *)
(* PutWrite, PutSync and PutWriteFails stand for the blocking closure: that *)
(* its Ok means every byte is written is IoUringFile's OkMeansAll.  The     *)
(* ring may write the chunks out of order; a file is judged when complete,  *)
(* so they are appended here.                                               *)
(*                                                                         *)
(* A definition marked (slip) is not the code: it is what a plausible error *)
(* would turn the definition below it into, and the run notices it.         *)
(***************************************************************************)
EXTENDS LocalStoreRefinement

CONSTANTS RingClients,  \* the clients whose handle is an IoUringStore
          DirLen        \* st_size of a directory; btrfs reports 0 for an empty one

ASSUME RingAssumption == RingClients \subseteq Clients /\ DirLen \in Nat

VARIABLE tasks    \* blocking closures of put whose future was dropped

ringVars == <<vars, tasks>>

Task(c) == [file |-> file[c], key |-> Key(c), val |-> call[c].val]
TaskTmp(t) == Append(Parent(t.key), TmpName(t.file))

RingInit == Init /\ tasks = {}

(***************************************************************************)
(* get                                                                      *)
(***************************************************************************)
\* what IoUringStore does itself: reading, and a directory, which opens like a file
OwnGet(c) == At(c, "read", {"get"}) \/ (Begin(c, {"get"}) /\ Stat(Key(c)) = Dir)

\* the length, then read_all_at of that length: bytes appended later are not
\* part of it, and the bytes counted do not change
RingGetEnds(c) ==
  /\ OwnGet(c) /\ pc[c] = "read"
  /\ Reply(c, Ok(data[file[c]]))

\* reading a directory is EISDIR, unless its length is zero and nothing is read
RingGetDir(c) ==
  /\ OwnGet(c) /\ pc[c] = "start"
  /\ \/ DirLen = 0 /\ Reply(c, Ok(<<>>))
     \/ (DirLen > 0 \/ Faulty) /\ Reply(c, Err("Io"))

(***************************************************************************)
(* put: the future is dropped while the closure runs, or between its end    *)
(* and the rename                                                           *)
(***************************************************************************)
Forget(c) ==
  /\ cancels < MaxCancels
  /\ cancels' = cancels + 1
  /\ Goto(c, "idle")
  /\ call' = [call EXCEPT ![c] = Nil]
  /\ file' = [file EXCEPT ![c] = Nil]
  /\ UNCHANGED <<data, born, synced, disk, acc, todo, found, ret, orphans, crashes>>

\* (slip) the closure does not own the temp file: nobody drops it
DropWritingLeaks(c) ==
  /\ At(c, "write", {"put"})
  /\ Forget(c)
  /\ UNCHANGED <<tree, tasks>>

DropWriting(c) ==
  /\ At(c, "write", {"put"})
  /\ tasks' = tasks \cup {Task(c)}
  /\ Forget(c)
  /\ UNCHANGED tree

DropWritten(c) ==   \* the closure's result, the temp file, is dropped unread
  /\ At(c, "persist", {"put"})
  /\ tree' = Unlink(tree, Tmp(c))
  /\ Forget(c)
  /\ UNCHANGED tasks

\* (slip) one write too many
TaskWritesPast(t) ==
  /\ Len(data[t.file]) <= Size[t.val]
  /\ data' = [data EXCEPT ![t.file] = Append(@, t.val)]
  /\ UNCHANGED <<tree, born, synced, tasks>>

TaskWrites(t) ==
  /\ Len(data[t.file]) < Size[t.val]
  /\ data' = [data EXCEPT ![t.file] = Append(@, t.val)]
  /\ UNCHANGED <<tree, born, synced, tasks>>

\* (slip) the rename is part of the closure
TaskEndsPersisting(t) ==
  /\ Len(data[t.file]) = Size[t.val]
  /\ synced' = synced \cup {t.file}
  /\ tree' = [Unlink(tree, TaskTmp(t)) EXCEPT ![t.key] = t.file]
  /\ tasks' = tasks \ {t}
  /\ UNCHANGED <<data, born>>

TaskEnds(t) ==   \* sync_all; nobody takes the result
  /\ Len(data[t.file]) = Size[t.val]
  /\ synced' = synced \cup {t.file}
  /\ tree' = Unlink(tree, TaskTmp(t))
  /\ tasks' = tasks \ {t}
  /\ UNCHANGED <<data, born>>

TaskFails(t) ==
  /\ Faulty
  /\ tree' = Unlink(tree, TaskTmp(t))
  /\ tasks' = tasks \ {t}
  /\ UNCHANGED <<data, born, synced>>

Tasks ==
  /\ \E t \in tasks : TaskWrites(t) \/ TaskEnds(t) \/ TaskFails(t)
  /\ UNCHANGED <<disk, pc, call, local, ret, faults>>

\* the other steps are those of LocalStore
RingStep(c) ==
  \/ Step(c) /\ ~ OwnGet(c)
  \/ RingGetEnds(c) \/ RingGetDir(c)

RingNext ==
  \/ /\ \/ \E c \in Clients : Invoke(c) \/ Cancel(c)
        \/ \E c \in RingClients : RingStep(c)
        \/ \E c \in Clients \ RingClients : Step(c)
        \/ Orphan \/ Commit
     /\ UNCHANGED tasks
  \/ \E c \in RingClients : DropWriting(c) \/ DropWritten(c)
  \/ Tasks
  \/ Crash /\ tasks' = {}

RingSpec == RingInit /\ [][RingNext]_ringVars

(***************************************************************************)
(* Properties                                                               *)
(***************************************************************************)
\* The types of the variables; a detached closure is the only holder of its file.
RingTypeOK ==
  /\ TypeOK
  /\ tasks \subseteq [file : born, key : Keys, val : Values]
  /\ \A t \in tasks : Len(data[t.file]) <= Size[t.val] /\ tree[TaskTmp(t)] \in {t.file, NoEnt}
  /\ \A t \in tasks, c \in Clients : file[c] = t.file => pc[c] = "read"

\* Without a crash, a temp file belongs to a put still at work or to a closure
\* that outlived its put; once that has ended none is left (put moves the
\* NamedTempFile into the closure).
RingTempsOwned ==
  crashes = 0 =>
    \A d \in Dirs, i \in Files :
      tree[Append(d, TmpName(i))] # NoEnt =>
        \/ \E c \in Clients : pc[c] \in {"write", "persist"} /\ file[c] = i
        \/ \E t \in tasks : t.file = i
==============================================================================
