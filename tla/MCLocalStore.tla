----------------------------- MODULE MCLocalStore -----------------------------
(***************************************************************************)
(* Instances of LocalStore for TLC.                                         *)
(*                                                                         *)
(* The prefix of a list is a sequence of letters, the key of another call a *)
(* path; TLC cannot compare the two, and compares calls by op first as long *)
(* as op is the first of their fields that is named below.                  *)
(***************************************************************************)
EXTENDS LocalStoreRefinement, TLC

CONSTANTS c1, c2, f1, f2, f3, f4, small, large, huge

A   == << <<"a">> >>
AB  == << <<"a">>, <<"b">> >>
ADB == << <<"a">>, <<"d">>, <<"b">> >>
D   == << <<"d">> >>
Dotted == << <<"d", ".", ".", "d">> >>

\* "a" and "a/b" cannot both be stored; "d..d" is refused by resolve(); a list
\* of "a/d" walks through "a" for a/d/b and passes a/b over
ConflictKeys == {A, AB}
RefusedKeys  == {A, AB, Dotted}
CrashKeys    == {AB, D}
ListKeys     == {AB, ADB, Dotted}

\* list(""), list("a/d")
AllOfIt == { <<>> }
UnderAD == { <<"a", "/", "d">> }

Sizes == small :> 1 @@ large :> 2 @@ huge :> 3
SizesOf(V) == [v \in V |-> Sizes[v]]
SmallLarge == SizesOf({small, large})
SmallHuge  == SizesOf({small, huge})
OnlySmall  == SizesOf({small})
OnlyLarge  == SizesOf({large})

FileSymmetry   == Permutations(Files)
ClientSymmetry == Permutations(Clients)
Symmetry == FileSymmetry \cup ClientSymmetry

\* at most one dropped future or power failure in a behaviour
OneFault == cancels + crashes <= 1

\* a list, and a call that is refused, meet an idle client, a put or a delete, and no
\* earlier fault; what a list reported is not called on (local_list is without faults
\* and has the rest)
Lists(c)   == call[c].op = "list"
Refused(c) == call[c].key = Dotted \/ call[c].val = huge
Aside(c)   == ~ Idle(c) /\ (Lists(c) \/ Refused(c))
ListsAside ==
  /\ OneFault
  /\ \A c \in Clients : Aside(c) =>
       /\ cancels + crashes = 0
       /\ \A d \in Clients \ {c} :
            Idle(d) \/ (call[d].op \in {"put", "delete"} /\ ~ Refused(d))
  /\ \A c \in Clients : ~ Idle(c) => call[c].key \notin TmpPaths

(***************************************************************************)
(* What a state leads to does not depend on the result of a call that has   *)
(* ended, other than a list, nor on a file nothing refers to any more, nor, *)
(* under OneFault, on the disk once there was a fault; under ListsAside, nor *)
(* on what a list has reported.  States that differ in nothing else are      *)
(* explored once: steps, and with them the results they return, are checked  *)
(* before that.                                                             *)
(***************************************************************************)
CanCrash == cancels + crashes = 0
InUse(i) ==
  \/ \E p \in Paths : tree[p] = i \/ (CanCrash /\ disk[p] = i)
  \/ \E c \in Clients : file[c] = i

ViewOf(InView(_), Over(_)) ==
  <<tree, IF CanCrash THEN disk ELSE Nil, [i \in Files |-> IF InView(i) THEN data[i] ELSE <<>>],
    born, {i \in synced : InView(i)}, pc, file, acc, todo, faults,
    [c \in Clients |-> IF Over(c) THEN Nil ELSE <<call[c], found[c]>>]>>

ExceptList(c) == pc[c] = "done" /\ ~ Lists(c)
View      == ViewOf(InUse, ExceptList)
StoreView == ViewOf(InUse, Idle)
==============================================================================
