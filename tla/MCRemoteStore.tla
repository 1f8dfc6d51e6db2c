----------------------------- MODULE MCRemoteStore -----------------------------
(***************************************************************************)
(* Instances of RemoteStore for TLC.  "a/b" comes before "aa" in            *)
(* lexicographic order; list("a") asks the service for what is below "a".   *)
(***************************************************************************)
EXTENDS RemoteStore, TLC

CONSTANTS c1, c2, v1, v2

AB == <<"a", "/", "b">>
AA == <<"a", "a">>
TwoKeys == <<AB, AA>>

\* list(""), list("a"), list("a/.")
ManyArgs == {<<>>, <<"a">>, <<"a", "/", ".">>}

Symmetry == Permutations(Clients) \cup Permutations(Values)

(***************************************************************************)
(* Nothing depends on a call that has returned, so it is forgotten; what it *)
(* returned is judged in the step that returned it.  Of the history of a    *)
(* call under way what its result will be held against is kept.             *)
(***************************************************************************)
Busy(c) == pc[c] \notin {"idle", "done"}
Pending(f) == [c \in Clients |-> IF Busy(c) THEN f[c] ELSE Nil]
Relevant(c) ==
  CASE Op(c) = "put" -> call[c].val \in Held(c)
    [] Op(c) = "get" -> Held(c)
    [] OTHER         -> [k \in Keys |-> <<Nil \in seen[c][k], seen[c][k] # {Nil}>>]
History == [c \in Clients |-> IF Busy(c) THEN Relevant(c) ELSE Nil]
View == <<config, objects, late, Pending(pc), Pending(call), req, reply, cursor,
          Pending(found), History>>
==============================================================================
