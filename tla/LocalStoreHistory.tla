-------------------------- MODULE LocalStoreHistory --------------------------
(***************************************************************************)
(* LocalStore observed over time: what its callers may conclude from an     *)
(* acknowledged put and from a listing, neither of which one state shows.   *)
(* The three history variables observe the store and do not influence it.   *)
(***************************************************************************)
EXTENDS LocalStoreRefinement

VARIABLES acked,   \* the blob each key must hold: its last mutation was this put
          always,  \* keys present ever since the client's list began
          ever     \* keys present at some time since it began

hvars == <<vars, acked, always, ever>>

Present  == {k \in Keys : tree[k] \in Files}
Mutating(k) ==
  \/ \E c \in Clients : ~ Idle(c) /\ call[c].op \in {"put", "delete"} /\ Key(c) = k
  \/ \E o \in orphans : o.op = "delete" /\ o.key = k

PutReturns(c, k) == pc[c] = "persist" /\ pc'[c] = "done" /\ ret'[c].st = "Ok" /\ Key(c) = k

Acknowledge(k) ==
  IF Mutating(k)' THEN Nil
  ELSE IF \E c \in Clients : PutReturns(c, k)
       THEN LET c == CHOOSE c \in Clients : PutReturns(c, k) IN Full(call[c].val)
       ELSE acked[k]

Listing(c) == call[c] # Nil /\ call[c].op = "list" /\ pc[c] \in {"start", "walk"}

HInit ==
  /\ Init
  /\ acked = [k \in Keys |-> Nil]
  /\ always = [c \in Clients |-> {}] /\ ever = [c \in Clients |-> {}]

HNext ==
  /\ Next
  /\ acked' = [k \in Keys |-> Acknowledge(k)]
  /\ always' = [c \in Clients |->
       IF Listing(c) THEN always[c] \cap Present'
       ELSE IF Listing(c)' THEN Present' ELSE {}]
  /\ ever' = [c \in Clients |->
       IF Listing(c) THEN ever[c] \cup Present'
       ELSE IF Listing(c)' THEN Present' ELSE {}]

HSpec == HInit /\ [][HNext]_hvars

FairHSpec == HSpec /\ Fairness

Matching(c, S) == {p \in S : MatchesPrefix(Key(c), Text(p))}

\* A list that returns Ok reports every key that was there, and matched, during the
\* whole walk, and no key that was there at no time of it - while other clients
\* create directories, replace files and delete them (LocalStore::list).
ListFaithful ==
  [][\A c \in Clients : Listing(c) /\ pc'[c] = "done" /\ ret'[c].st = "Ok" =>
       /\ Matching(c, always'[c]) \subseteq found'[c]
       /\ found'[c] \cap Keys \subseteq Matching(c, ever'[c])]_hvars

\* A put that was acknowledged and is the key's last mutation can be read back,
\* in lib.rs's word: LocalStore is Durable.
AckedPutSurvives ==
  \A k \in Keys : acked[k] # Nil => BlobAt(tree)[k] = acked[k]
==============================================================================
