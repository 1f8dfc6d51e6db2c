---------------------------- MODULE MCMemoryStore ----------------------------
(***************************************************************************)
(* Instances of MemoryStore for TLC.                                        *)
(*                                                                         *)
(* The strings of ObjectKeyProperties are typed beside a store that was     *)
(* never used, and the store is used beside the empty string: the two do    *)
(* not meet, and share a run only to be enumerated once each.               *)
(***************************************************************************)
EXTENDS MemoryStore, ObjectKeyProperties, TLC

CONSTANTS c1, c2, v1, v2

AB == <<"a", "/", "b">>
AA == <<"a", "a">>
B  == <<"b">>
ThreeKeys == {AB, AA, B}

\* list("a"), list("a/")
SomeArgs == {<<"a">>, <<"a", "/">>}

Untouched ==
  /\ home = [k \in Keys |-> 1] /\ inner = [k \in Keys |-> Nil]
  /\ \A c \in Clients : ret[c] = Nil /\ scan[c] = Nil
Alone == typed = <<>> /\ UNCHANGED typed

MCInit == Init /\ TypingInit
MCNext ==
  \/ \E c \in Clients, k \in Keys :
       \/ Put(c, k) /\ Alone
       \/ Get(c, k) /\ Alone
       \/ Delete(c, k) /\ Alone
       \/ Exists(c, k) /\ Alone
  \/ \E c \in Clients :
       \/ Presign(c) /\ Alone
       \/ Begin(c) /\ Alone
       \/ ListShard(c) /\ Alone
       \/ LenShard(c) /\ Alone
       \/ ClearShard(c) /\ Alone
  \/ TypeLetter /\ Untouched /\ UNCHANGED vars
  \/ StartOver /\ UNCHANGED vars
MCSpec == MCInit /\ [][MCNext]_<<vars, typed>>

Symmetry == Permutations(Clients) \cup Permutations(Values)
==============================================================================
