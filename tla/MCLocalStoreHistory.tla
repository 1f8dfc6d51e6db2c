------------------------- MODULE MCLocalStoreHistory -------------------------
(***************************************************************************)
(* Instances of LocalStoreHistory for TLC.                                  *)
(*                                                                         *)
(* For listings, what was present during one that has ended no longer       *)
(* matters, nor which puts were acknowledged.  What is left decides which   *)
(* steps are enabled and where they lead, so the view is as good for        *)
(* Resolves as it is for steps: whether a call is pending (pc) is in it.    *)
(***************************************************************************)
EXTENDS MCLocalStore, LocalStoreHistory

During(S) == [c \in Clients |-> IF Listing(c) THEN S[c] ELSE {}]
ListView == <<View, During(always), During(ever)>>
==============================================================================
