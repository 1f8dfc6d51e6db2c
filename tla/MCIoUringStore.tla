---------------------------- MODULE MCIoUringStore ----------------------------
(***************************************************************************)
(* Instances of IoUringStore for TLC: one client's handle is an             *)
(* IoUringStore, the other's a LocalStore on the same directory.            *)
(***************************************************************************)
EXTENDS MCLocalStore, IoUringStore

InUseByTask(i) == InUse(i) \/ \E t \in tasks : t.file = i
RingView == <<ViewOf(InUseByTask, ExceptList), tasks>>
==============================================================================
