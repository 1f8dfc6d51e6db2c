-------------------------------- MODULE BlobId --------------------------------
(***************************************************************************)
(* BlobId::new (types.rs): the id a put returns.                            *)
(*                                                                         *)
(* The feature flags choose among three generators.  Without `typed-id' the *)
(* std build hashes the wall clock and the thread's id with a hasher whose  *)
(* keys are fixed.  The hash is taken to be free of collisions, so whatever *)
(* repeats here repeats there.  Thread ids are numbered per process.  The   *)
(* clock moves between two readings, or does not, and may be set.           *)
(***************************************************************************)
EXTENDS Naturals, Sequences

CONSTANTS Processes,
          Threads,   \* the numbers of a process's threads
          Builds,    \* "typed-id", "std" (the default features), "no_std"
          MaxTime,   \* bound on the clock
          MaxIds     \* bound on the puts of a behaviour

VARIABLES build,     \* the build of this behaviour
          clock,     \* what SystemTime::now returns
          issued     \* every id handed out, in order, and the thread it went to

vars == <<build, clock, issued>>

Init ==
  /\ build \in Builds
  /\ clock = 0
  /\ issued = <<>>

\* the last of the three is the constant [0xAB; 16]
NewId(t) ==
  CASE build = "typed-id" -> <<"uuid", Len(issued)>>
    [] build = "std"      -> <<"hash", clock, t>>
    [] build = "no_std"   -> <<"fixed">>

Put(p, t) ==   \* a put of some store ends
  /\ Len(issued) < MaxIds
  /\ issued' = Append(issued, [by |-> <<p, t>>, id |-> NewId(t)])
  /\ UNCHANGED <<build, clock>>

Clock ==   \* time passes, or the operator or NTP sets the clock
  /\ clock' \in 0..MaxTime
  /\ UNCHANGED <<build, issued>>

Next == (\E p \in Processes, t \in Threads : Put(p, t)) \/ Clock

Spec == Init /\ [][Next]_vars

(***************************************************************************)
(* Properties                                                               *)
(***************************************************************************)
\* No id is handed out twice, by whichever thread and process, even for the
\* same content (REQ-BK-105).
FreshIds ==
  \A i, j \in DOMAIN issued : issued[i].id = issued[j].id => i = j
==============================================================================
