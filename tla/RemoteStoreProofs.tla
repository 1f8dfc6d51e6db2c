--------------------------- MODULE RemoteStoreProofs ---------------------------
(***************************************************************************)
(* RemoteStore, for any number of clients, keys, payloads, page sizes and   *)
(* late requests: its types, and what an answer of S3Store or               *)
(* ObjectStoreBackend says of the object while the call was under way.      *)
(*                                                                         *)
(* The properties are about the step in which a call returns.  What makes   *)
(* them true is an invariant on calls under way: the history of the keys a  *)
(* call watches is kept (Watches), an answer of the service is borne out by *)
(* that history (Truthful), a listing that has passed `cursor' keys has     *)
(* them all (ListSoFar), and ObjectStoreBackend sends its delete only once  *)
(* it has seen the object (Looked).  All of it is stable when the history   *)
(* grows, so that neither other clients nor late requests disturb it.       *)
(***************************************************************************)
EXTENDS RemoteStore, ObjectKeyProofs, FiniteSetTheorems

USE NilAssumption

Calls ==
  {cl \in [op : Ops, key : Keys \cup ListArgs, val : Values \cup {Nil}] :
     /\ cl.op = "list" => cl.key \in ListArgs
     /\ cl.op # "list" => cl.key \in Keys
     /\ cl.op = "put"  => cl.val \in Values}

LateRequests == [req : {"put", "delete"}, key : Keys, val : Values \cup {Nil}]

Types ==
  /\ backend \in Backends /\ bucket \in BOOLEAN
  /\ objects \in [Keys -> Values \cup {Nil}]
  /\ late \subseteq LateRequests
  /\ pc \in [Clients -> {"idle", "start", "sent", "answered", "done"}]
  /\ call \in [Clients -> Calls \cup {Nil}]
  /\ req \in [Clients -> {"put", "get", "delete", "head", "list", Nil}]
  /\ reply \in [Clients -> Responses \cup {Nil}]
  /\ cursor \in [Clients -> {0} \cup 1..(Len(KeySeq) - 1)]
  /\ found \in [Clients -> SUBSET Keys]
  /\ ret = [c \in Clients |-> ret[c]]
  /\ seen \in [Clients -> [Keys -> SUBSET (Values \cup {Nil})]]

EmptyBucket == ~ bucket => \A k \in Keys : objects[k] = Nil

Busy(c) == pc[c] \in {"start", "sent", "answered"}

Watches(c) ==
  Busy(c) => call[c] \in Calls /\ \A k \in Watched(call[c]) : objects[k] \in seen[c][k]

\* the requests of each operation
Requests(op) ==
  CASE op = "exists" -> {"head"}
    [] op = "delete" -> IF backend = "ObjectStore" THEN {"head", "delete"} ELSE {"delete"}
    [] OTHER         -> {op}

Asks(c) ==
  /\ ~ Waiting(c) => cursor[c] = 0
  /\ pc[c] = "start" => found[c] = {}
  /\ Waiting(c) => req[c] \in Requests(Op(c)) /\ Op(c) # "presign" /\ backend # "Stub"
  /\ reply[c] # Nil <=> pc[c] = "answered"

\* a key that held a blob at some moment of the call
Seen(c, k) == \E v \in seen[c][k] : v # Nil

Listable(c) == {k \in Keys : Below(PathPrefix(Key(c)), k) /\ MatchesPrefix(Key(c), k)}

PageFaithful(c, page) ==
  /\ \A i \in page.keys : /\ cursor[c] < i
                          /\ Below(PathPrefix(Key(c)), KeySeq[i])
                          /\ Seen(c, KeySeq[i])
  /\ \A i \in (cursor[c] + 1)..Len(KeySeq) :
       Below(PathPrefix(Key(c)), KeySeq[i]) /\ Nil \notin seen[c][KeySeq[i]] =>
         i \in page.keys \/ (page.more /\ \A j \in page.keys : j < i)
  /\ page.more => page.keys # {} /\ \E i \in 1..Len(KeySeq) : \A j \in page.keys : j < i

Truthful(c) ==
  pc[c] = "answered" =>
    /\ req[c] \in {"get", "head"} =>
         /\ reply[c].st = "Ok" => reply[c].val \in Held(c) \ {Nil}
         /\ reply[c].st = "NotFound" => Nil \in Held(c)
    /\ req[c] = "put" /\ reply[c].st = "Ok" => call[c].val \in Held(c)
    /\ req[c] = "delete" =>
         /\ reply[c].st \in {"Ok", "NotFound"} => Nil \in Held(c)
         /\ reply[c].st = "NotFound" => backend = "ObjectStore" \/ ~ bucket
    /\ req[c] = "list" /\ reply[c].st = "Ok" =>
         /\ reply[c].val \in [keys : SUBSET (1..Len(KeySeq)), more : BOOLEAN]
         /\ PageFaithful(c, reply[c].val)

ListSoFar(c) ==
  Waiting(c) /\ Op(c) = "list" =>
    /\ \A i \in 1..Len(KeySeq) :
         i <= cursor[c] /\ KeySeq[i] \in Listable(c) /\ Nil \notin seen[c][KeySeq[i]] =>
           KeySeq[i] \in found[c]
    /\ \A k \in found[c] : k \in Listable(c) /\ Seen(c, k)

Looked(c) ==
  Waiting(c) /\ Op(c) = "delete" /\ req[c] = "delete" /\ backend = "ObjectStore" => Seen(c, Key(c))

ClientInv(c) == Watches(c) /\ Asks(c) /\ Truthful(c) /\ ListSoFar(c) /\ Looked(c)

Inv == Types /\ EmptyBucket /\ \A c \in Clients : ClientInv(c)

(***************************************************************************)
(* Keys and pages                                                           *)
(***************************************************************************)
LEMMA KeysListed ==
  /\ Len(KeySeq) \in Nat
  /\ \A i \in 1..Len(KeySeq) : KeySeq[i] \in Keys
  /\ \A k \in Keys : \E i \in 1..Len(KeySeq) : k = KeySeq[i]
  <1>1. KeySeq \in Seq(Keys) /\ Keys = {KeySeq[i] : i \in DOMAIN KeySeq}
    BY ConstantsAssumption DEF Keys, ToSet
  <1> HIDE DEF Keys
  <1> QED
    BY <1>1

(***************************************************************************)
(* What a step leaves of a client it is not a step of.                      *)
(***************************************************************************)
SameClient(d) ==
  /\ pc'[d] = pc[d] /\ call'[d] = call[d] /\ req'[d] = req[d] /\ reply'[d] = reply[d]
  /\ cursor'[d] = cursor[d] /\ found'[d] = found[d]

\* the history of the keys a call watches goes on
HistoryGoesOn(d) ==
  Busy(d) => \A k \in Watched(call[d]) : seen[d][k] \cup {objects'[k]} \subseteq seen'[d][k]

LEMMA WatchedKeys ==
  ASSUME NEW d \in Clients, call[d] \in Calls
  PROVE  /\ Watched(call[d]) \subseteq Keys
         /\ Op(d) = "list" => Watched(call[d]) = Keys
         /\ Op(d) # "list" => Key(d) \in Watched(call[d]) /\ Key(d) \in Keys
         /\ Op(d) = "put" => call[d].val \in Values
  BY DEF Calls, Watched, Op, Key

\* A listing stays what it is while the history grows.
LEMMA ListGrows ==
  ASSUME NEW d \in Clients, ListSoFar(d), Waiting(d)' <=> Waiting(d), call'[d] = call[d],
         cursor'[d] = cursor[d], found'[d] = found[d],
         Busy(d) /\ Op(d) = "list" => \A k \in Keys : seen[d][k] \subseteq seen'[d][k]
  PROVE  ListSoFar(d)'
  <1>1. Key(d)' = Key(d) /\ Op(d)' = Op(d) /\ Listable(d)' = Listable(d)
    BY DEF Key, Op, Listable
  <1> SUFFICES ASSUME Waiting(d), Op(d) = "list" PROVE ListSoFar(d)'
    BY <1>1 DEF ListSoFar
  <1>2. \A k \in Keys : seen[d][k] \subseteq seen'[d][k]
    BY DEF Waiting, Busy
  <1>3. \A k \in found[d] : k \in Listable(d) /\ Seen(d, k)'
    BY <1>2 DEF ListSoFar, Seen, Listable
  <1>4. \A i \in 1..Len(KeySeq) :
          i <= cursor[d] /\ KeySeq[i] \in Listable(d) /\ Nil \notin seen'[d][KeySeq[i]] =>
            KeySeq[i] \in found[d]
    BY <1>2, KeysListed DEF ListSoFar
  <1> QED
    BY <1>1, <1>3, <1>4 DEF ListSoFar

LEMMA SameClientInv ==
  ASSUME NEW d \in Clients, cursor[d] \in Nat, ClientInv(d), SameClient(d), HistoryGoesOn(d),
         UNCHANGED config
  PROVE  ClientInv(d)'
  <1>1. backend' = backend /\ bucket' = bucket
    BY DEF config
  <1>2. /\ (Busy(d)' <=> Busy(d)) /\ (Waiting(d)' <=> Waiting(d)) /\ Key(d)' = Key(d) /\ Op(d)' = Op(d)
        /\ (Waiting(d) => Busy(d)) /\ (pc[d] = "answered" => Waiting(d))
    BY DEF SameClient, Busy, Waiting, Key, Op
  <1>3. Watches(d)'
    BY <1>2 DEF ClientInv, Watches, SameClient, HistoryGoesOn, Watched
  <1>4. Asks(d)'
    BY <1>1, <1>2 DEF ClientInv, Asks, SameClient, Requests
  <1>5. Busy(d) => call[d] \in Calls
    BY DEF ClientInv, Watches
  <1>6. Busy(d) /\ Op(d) = "list" => \A k \in Keys : seen[d][k] \subseteq seen'[d][k]
    BY <1>5, WatchedKeys DEF HistoryGoesOn
  <1>7. Busy(d) /\ Op(d) # "list" => seen[d][Key(d)] \subseteq seen'[d][Key(d)]
    BY <1>5, WatchedKeys DEF HistoryGoesOn
  <1>8. Waiting(d) /\ req[d] # "list" => Held(d) \subseteq Held(d)'
    <2>1. Waiting(d) /\ req[d] # "list" => Op(d) # "list"
      BY DEF ClientInv, Asks, Requests
    <2> QED
      BY <1>2, <1>7, <2>1 DEF Held
  <1>9. Waiting(d) /\ req[d] = "list" => Op(d) = "list"
    BY DEF ClientInv, Asks, Requests
  <1>10. Truthful(d)'
    <2> SUFFICES ASSUME pc'[d] = "answered" PROVE Truthful(d)'
      BY DEF Truthful
    <2>1. pc[d] = "answered" /\ Waiting(d)
      BY <1>2 DEF SameClient
    <2>2. ASSUME req[d] = "list", reply[d].st = "Ok", PageFaithful(d, reply[d].val),
                 reply[d].val \in [keys : SUBSET (1..Len(KeySeq)), more : BOOLEAN]
          PROVE  PageFaithful(d, reply[d].val)'
      <3>1. \A k \in Keys : seen[d][k] \subseteq seen'[d][k]
        BY <1>2, <1>6, <1>9, <2>1, <2>2
      <3>2. cursor'[d] = cursor[d] /\ reply'[d].val = reply[d].val
        BY DEF SameClient
      <3>3. \A i \in reply[d].val.keys : Seen(d, KeySeq[i])'
        BY <2>2, <3>1, KeysListed DEF PageFaithful, Seen
      <3>4. \A i \in (cursor[d] + 1)..Len(KeySeq) :
              Below(PathPrefix(Key(d)), KeySeq[i]) /\ Nil \notin seen'[d][KeySeq[i]] =>
                i \in reply[d].val.keys \/ (reply[d].val.more /\ \A j \in reply[d].val.keys : j < i)
        <4> SUFFICES ASSUME NEW i \in (cursor[d] + 1)..Len(KeySeq), Nil \notin seen'[d][KeySeq[i]],
                            Below(PathPrefix(Key(d)), KeySeq[i])
                     PROVE  i \in reply[d].val.keys \/ (reply[d].val.more /\ \A j \in reply[d].val.keys : j < i)
          OBVIOUS
        <4>1. KeySeq[i] \in Keys
          BY KeysListed
        <4>2. Nil \notin seen[d][KeySeq[i]]
          BY <3>1, <4>1
        <4> QED
          BY <2>2, <4>2 DEF PageFaithful
      <3> QED
        BY <1>2, <2>2, <3>2, <3>3, <3>4 DEF PageFaithful
    <2>3. req'[d] = req[d] /\ reply'[d] = reply[d] /\ call'[d] = call[d] /\ Truthful(d)
      BY DEF SameClient, ClientInv
    <2> QED
      BY <1>1, <1>8, <2>1, <2>2, <2>3 DEF Truthful
  <1>11. ListSoFar(d)'
    BY <1>2, <1>6, ListGrows DEF ClientInv, SameClient
  <1>12. Looked(d)'
    BY <1>1, <1>2, <1>7 DEF ClientInv, Looked, SameClient, Seen
  <1> QED
    BY <1>3, <1>4, <1>10, <1>11, <1>12 DEF ClientInv

\* The step of one client that changes no object.
LEMMA OthersInv ==
  ASSUME Inv, NEW c \in Clients, UNCHANGED <<config, objects>>,
         \A d \in Clients \ {c} : SameClient(d) /\ seen'[d] = seen[d],
         Types', ClientInv(c)'
  PROVE  Inv'
  <1>1. EmptyBucket'
    BY DEF Inv, EmptyBucket, config
  <1>2. ASSUME NEW d \in Clients \ {c} PROVE ClientInv(d)'
    <2>1. ClientInv(d) /\ SameClient(d) /\ cursor[d] \in Nat
      BY KeysListed DEF Inv, Types
    <2>2. HistoryGoesOn(d)
      BY <2>1 DEF HistoryGoesOn, ClientInv, Watches
    <2> QED
      BY <2>1, <2>2, SameClientInv
  <1> QED
    BY <1>1, <1>2 DEF Inv

(***************************************************************************)
(* Calls that end, begin, or are dropped                                    *)
(***************************************************************************)
LEMMA LeaveTypes ==
  ASSUME Inv, NEW c \in Clients, Leave(c)
  PROVE  late' \subseteq LateRequests
  <1>1. CASE late' = late
    BY <1>1 DEF Inv, Types
  <1>2. CASE late' # late
    <2>1. /\ pc[c] = "sent" /\ req[c] \in {"put", "delete"}
          /\ late' = late \cup {[req |-> req[c], key |-> Key(c), val |-> call[c].val]}
      BY <1>2 DEF Leave
    <2>2. call[c] \in Calls /\ Op(c) \in {"put", "delete"}
      BY <2>1 DEF Inv, ClientInv, Watches, Busy, Asks, Waiting, Requests
    <2>3. Key(c) \in Keys /\ call[c].val \in Values \cup {Nil}
      BY <2>2, WatchedKeys DEF Calls
    <2> QED
      BY <2>1, <2>3 DEF Inv, Types, LateRequests
  <1> QED
    BY <1>1, <1>2

LEMMA DoneInv ==
  ASSUME Inv, NEW c \in Clients, NEW r, Done(c, r), Leave(c) \/ UNCHANGED late,
         \E S \in SUBSET Keys : found' = [found EXCEPT ![c] = S],
         UNCHANGED <<config, objects, call, seen>>
  PROVE  Inv'
  <1>1. Types
    BY DEF Inv
  <1>2. /\ pc' = [pc EXCEPT ![c] = "done"] /\ ret' = [ret EXCEPT ![c] = r]
        /\ req' = [req EXCEPT ![c] = Nil] /\ reply' = [reply EXCEPT ![c] = Nil]
        /\ cursor' = [cursor EXCEPT ![c] = 0]
    BY DEF Done
  <1>3. late' \subseteq LateRequests
    BY <1>1, LeaveTypes DEF Types
  <1>4. Types'
    <2>1. found' \in [Clients -> SUBSET Keys]
      BY <1>1 DEF Types
    <2>2. ret' = [d \in Clients |-> ret'[d]]
      BY <1>1, <1>2 DEF Types
    <2> QED
      BY <1>1, <1>2, <1>3, <2>1, <2>2 DEF Types, config
  <1>5. \A d \in Clients \ {c} : SameClient(d) /\ seen'[d] = seen[d]
    BY <1>1, <1>2 DEF SameClient, Types
  <1>6. ClientInv(c)'
    <2>1. pc'[c] = "done" /\ reply'[c] = Nil /\ cursor'[c] = 0
      BY <1>1, <1>2 DEF Types
    <2> QED
      BY <2>1 DEF ClientInv, Watches, Busy, Asks, Waiting, Truthful, ListSoFar, Looked
  <1> QED
    BY <1>4, <1>5, <1>6, OthersInv

LEMMA CancelInv == ASSUME Inv, NEW c \in Clients, Cancel(c) PROVE Inv'
  <1>1. Types
    BY DEF Inv
  <1>2. /\ pc' = [pc EXCEPT ![c] = "idle"] /\ call' = [call EXCEPT ![c] = Nil]
        /\ req' = [req EXCEPT ![c] = Nil] /\ reply' = [reply EXCEPT ![c] = Nil]
        /\ cursor' = [cursor EXCEPT ![c] = 0] /\ found' = [found EXCEPT ![c] = {}]
        /\ seen' = [seen EXCEPT ![c] = [k \in Keys |-> {}]]
        /\ UNCHANGED <<config, objects, ret>>
    BY DEF Cancel
  <1>3. late' \subseteq LateRequests
    BY LeaveTypes DEF Cancel
  <1>4. Types'
    BY <1>1, <1>2, <1>3 DEF Types, config
  <1>5. \A d \in Clients \ {c} : SameClient(d) /\ seen'[d] = seen[d]
    BY <1>1, <1>2 DEF SameClient, Types
  <1>6. ClientInv(c)'
    <2>1. pc'[c] = "idle" /\ reply'[c] = Nil /\ cursor'[c] = 0
      BY <1>1, <1>2 DEF Types
    <2> QED
      BY <2>1 DEF ClientInv, Watches, Busy, Asks, Waiting, Truthful, ListSoFar, Looked
  <1> QED
    BY <1>2, <1>4, <1>5, <1>6, OthersInv

LEMMA InvokeInv == ASSUME Inv, NEW c \in Clients, Invoke(c) PROVE Inv'
  <1>1. Types /\ pc[c] \in {"idle", "done"}
    BY DEF Inv, Invoke
  <1>2. PICK cl \in Calls : call' = [call EXCEPT ![c] = cl]
    <2>1. PICK op \in Ops : \E a \in CallArgs(op) : call' = [call EXCEPT ![c] = Call(op, a[1], a[2])]
      BY DEF Invoke
    <2>2. PICK a \in CallArgs(op) : call' = [call EXCEPT ![c] = Call(op, a[1], a[2])]
      BY <2>1
    <2>3. Call(op, a[1], a[2]) \in Calls
      BY DEF Calls, Call, CallArgs
    <2> QED
      BY <2>2, <2>3
  <1>3. /\ pc' = [pc EXCEPT ![c] = "start"] /\ ret' = [ret EXCEPT ![c] = Nil]
        /\ found' = [found EXCEPT ![c] = {}]
        /\ seen' = [seen EXCEPT ![c] =
             [k \in Keys |-> IF k \in Watched(call'[c]) THEN {objects[k]} ELSE {}]]
        /\ UNCHANGED <<config, objects, late, req, reply, cursor>>
    BY DEF Invoke
  <1>4. Types'
    <2>1. [k \in Keys |-> IF k \in Watched(call'[c]) THEN {objects[k]} ELSE {}]
            \in [Keys -> SUBSET (Values \cup {Nil})]
      BY <1>1 DEF Types
    <2>2. seen' \in [Clients -> [Keys -> SUBSET (Values \cup {Nil})]]
      BY <1>1, <1>3, <2>1 DEF Types
    <2>3. ret' = [d \in Clients |-> ret'[d]]
      BY <1>1, <1>3 DEF Types
    <2> QED
      BY <1>1, <1>2, <1>3, <2>2, <2>3 DEF Types, config
  <1>5. \A d \in Clients \ {c} : SameClient(d) /\ seen'[d] = seen[d]
    BY <1>1, <1>2, <1>3 DEF SameClient, Types
  <1>6. ClientInv(c)'
    <2>1. /\ pc'[c] = "start" /\ call'[c] = cl /\ found'[c] = {}
          /\ \A k \in Keys : seen'[c][k] = IF k \in Watched(cl) THEN {objects[k]} ELSE {}
      BY <1>1, <1>2, <1>3 DEF Types
    <2>2. cursor'[c] = 0 /\ reply'[c] = Nil
      BY <1>1, <1>3 DEF Inv, ClientInv, Asks, Waiting
    <2>3. Watched(cl) \subseteq Keys
      BY DEF Watched, Calls
    <2>4. Watches(c)'
      BY SMTT(60), <1>3, <2>1, <2>3 DEF Watches, Watched
    <2> QED
      BY <2>1, <2>2, <2>4 DEF ClientInv, Asks, Waiting, Truthful, ListSoFar, Looked
  <1> QED
    BY <1>3, <1>4, <1>5, <1>6, OthersInv

(***************************************************************************)
(* The service                                                              *)
(***************************************************************************)
LEMMA ApplyTypes ==
  ASSUME Types, NEW r, NEW key, NEW val \in Values \cup {Nil}
  PROVE  /\ Apply(r, key, val) \in [Keys -> Values \cup {Nil}]
         /\ ~ bucket => Apply(r, key, val) = objects
  BY DEF Types, Apply

LEMMA ObservedHistory ==
  ASSUME Inv, Observe, objects' \in [Keys -> Values \cup {Nil}]
  PROVE  /\ seen' \in [Clients -> [Keys -> SUBSET (Values \cup {Nil})]]
         /\ \A d \in Clients : HistoryGoesOn(d)
  <1>1. Types
    BY DEF Inv
  <1> DEFINE More(d) ==
        [k \in Keys |-> IF k \in Watched(call[d]) THEN seen[d][k] \cup {objects'[k]} ELSE {}]
  <1>2. seen' = [d \in Clients |-> IF pc[d] \in {"idle", "done"} THEN seen[d] ELSE More(d)]
    BY DEF Observe
  <1>3. \A d \in Clients : More(d) \in [Keys -> SUBSET (Values \cup {Nil})]
    BY <1>1 DEF Types
  <1>4. ASSUME NEW d \in Clients PROVE HistoryGoesOn(d)
    <2> SUFFICES ASSUME Busy(d), NEW k \in Watched(call[d])
                 PROVE  seen[d][k] \cup {objects'[k]} \subseteq seen'[d][k]
      BY DEF HistoryGoesOn
    <2>1. k \in Keys
      BY WatchedKeys DEF Inv, ClientInv, Watches
    <2>2. seen'[d] = More(d)
      BY <1>2 DEF Busy
    <2> QED
      BY <2>1, <2>2
  <1> HIDE DEF More
  <1>5. seen' \in [Clients -> [Keys -> SUBSET (Values \cup {Nil})]]
    BY <1>1, <1>2, <1>3 DEF Types
  <1> QED
    BY <1>4, <1>5

LEMMA LateServeInv == ASSUME Inv, LateServe PROVE Inv'
  <1>1. Types /\ EmptyBucket
    BY DEF Inv
  <1>2. PICK r \in late : late' = late \ {r} /\ (objects' = Apply(r.req, r.key, r.val) \/ objects' = objects)
    BY DEF LateServe
  <1>3. Observe /\ UNCHANGED <<config, pc, call, req, reply, cursor, found, ret>>
    BY DEF LateServe
  <1>4. r.val \in Values \cup {Nil}
    BY <1>1 DEF Types, LateRequests
  <1>5. objects' \in [Keys -> Values \cup {Nil}] /\ (~ bucket => objects' = objects)
    BY <1>1, <1>2, <1>4, ApplyTypes DEF Types
  <1>6. seen' \in [Clients -> [Keys -> SUBSET (Values \cup {Nil})]] /\ \A d \in Clients : HistoryGoesOn(d)
    BY <1>3, <1>5, ObservedHistory
  <1>7. Types'
    BY <1>1, <1>2, <1>3, <1>5, <1>6 DEF Types, config
  <1>8. EmptyBucket'
    BY <1>1, <1>3, <1>5 DEF EmptyBucket, config
  <1>9. ASSUME NEW d \in Clients PROVE ClientInv(d)'
    <2>1. ClientInv(d) /\ SameClient(d) /\ cursor[d] \in Nat
      BY <1>3, KeysListed DEF Inv, Types, SameClient
    <2> QED
      BY <1>3, <1>6, <2>1, SameClientInv
  <1> QED
    BY <1>7, <1>8, <1>9 DEF Inv

\* A page is the first of the keys that are left, and has one if any is left.
LEMMA PageComesFirst ==
  ASSUME NEW c \in Clients, cursor[c] \in Nat
  PROVE  /\ Page(c) \subseteq Remaining(c) /\ Remaining(c) \subseteq 1..Len(KeySeq)
         /\ \A i \in Remaining(c) \ Page(c) : \A j \in Page(c) : j < i
         /\ Remaining(c) # {} => Page(c) # {}
  <1> DEFINE Before(i) == {j \in Remaining(c) : j < i}
  <1>1. Page(c) \subseteq Remaining(c) /\ Remaining(c) \subseteq 1..Len(KeySeq)
    BY KeysListed DEF Page, Remaining
  <1>2. \A i \in Remaining(c) : i \in Page(c) <=> Cardinality(Before(i)) < PageSize
    BY DEF Page
  <1>3. ASSUME NEW i \in Remaining(c)
        PROVE  IsFiniteSet(Before(i)) /\ Cardinality(Before(i)) \in Nat
    <2>1. IsFiniteSet(1..Len(KeySeq))
      BY KeysListed, FS_Interval
    <2>2. Before(i) \subseteq 1..Len(KeySeq)
      BY <1>1
    <2>3. IsFiniteSet(Before(i))
      BY <2>1, <2>2, FS_Subset
    <2> QED
      BY <2>3, FS_CardinalityType
  <1>4. ASSUME NEW i \in Remaining(c) \ Page(c), NEW j \in Page(c) PROVE j < i
    <2> SUFFICES ASSUME ~ (j < i) PROVE FALSE
      OBVIOUS
    <2>1. i <= j /\ j \in Remaining(c)
      BY <1>1
    <2>2. Before(i) \subseteq Before(j)
      BY <1>1, <2>1
    <2>3. Cardinality(Before(i)) <= Cardinality(Before(j))
      BY <1>3, <2>1, <2>2, FS_Subset
    <2>4. Cardinality(Before(j)) < PageSize /\ ~ (Cardinality(Before(i)) < PageSize)
      BY <1>2, <2>1
    <2>5. Cardinality(Before(j)) \in Nat /\ Cardinality(Before(i)) \in Nat /\ PageSize \in Nat
      BY <1>3, <2>1, ConstantsAssumption
    <2> HIDE DEF Before
    <2> QED
      BY <2>3, <2>4, <2>5
  <1>5. ASSUME Remaining(c) # {} PROVE Page(c) # {}
    <2>1. Remaining(c) \in SUBSET Nat
      BY <1>1, KeysListed
    <2>2. PICK m \in Remaining(c) : \A n \in Remaining(c) : m <= n
      BY <1>5, <2>1, NatMin
    <2>3. Before(m) = {}
      BY <2>1, <2>2
    <2>4. Cardinality(Before(m)) = 0
      BY <2>3, FS_EmptySet, Zenon
    <2>5. Cardinality(Before(m)) < PageSize
      BY <2>4, ConstantsAssumption
    <2> QED
      BY <1>2, <2>2, <2>5
  <1> QED
    BY <1>1, <1>4, <1>5

LEMMA ResponseTypes ==
  ASSUME Types, NEW c \in Clients, cursor[c] \in Nat, Op(c) # "list" => Key(c) \in Keys,
         req[c] = "list" <=> Op(c) = "list"
  PROVE  Response(c) \in Responses
  <1>1. \A e \in {"NotFound", "Denied", "Internal"} : Err(e) \in Responses
    BY DEF Err, Responses
  <1>2. \A v \in Values \cup {Nil} : Ok(v) \in Responses
    BY DEF Ok, Responses
  <1>3. Ok([keys |-> Page(c), more |-> Page(c) # Remaining(c)]) \in Responses
    BY PageComesFirst DEF Ok, Responses
  <1>4. Op(c) # "list" => objects[Key(c)] \in Values \cup {Nil}
    BY DEF Types
  <1> QED
    BY <1>1, <1>2, <1>3, <1>4 DEF Response

\* The answer of the service says what is so at the moment it acts, and that
\* moment is part of the history of the call.
LEMMA ResponseFaithful ==
  ASSUME Inv, NEW c \in Clients, Serve(c), Types', HistoryGoesOn(c)
  PROVE  Truthful(c)'
  <1>1. /\ Types /\ EmptyBucket /\ pc[c] = "sent" /\ Watches(c) /\ Asks(c)
        /\ objects' = Apply(req[c], Key(c), call[c].val)
        /\ UNCHANGED <<config, late, call, req, cursor, found, ret>>
    BY DEF Inv, ClientInv, Serve
  <1>2. reply'[c] = Response(c) /\ pc'[c] = "answered"
    BY <1>1 DEF Serve, Types
  <1>3. /\ call[c] \in Calls /\ req[c] \in Requests(Op(c)) /\ Op(c) # "presign"
        /\ \A k \in Watched(call[c]) : seen[c][k] \cup {objects'[k]} \subseteq seen'[c][k]
        /\ \A k \in Watched(call[c]) : objects[k] \in seen'[c][k]
    BY <1>1 DEF Watches, Busy, Asks, Waiting, HistoryGoesOn
  <1>4. Key(c)' = Key(c) /\ Op(c)' = Op(c) /\ backend' = backend /\ bucket' = bucket
    BY <1>1 DEF Key, Op, config
  <1>5. CASE req[c] # "list"
    <2>1. Op(c) # "list" /\ Key(c) \in Keys
      BY <1>3, <1>5, WatchedKeys DEF Requests
    <2>2. objects'[Key(c)] \in seen'[c][Key(c)] /\ objects[Key(c)] \in seen'[c][Key(c)]
      BY <1>3, <2>1, WatchedKeys
    <2>3. req[c] \in {"get", "head"} =>
            /\ reply'[c].st = "Ok" => reply'[c].val \in seen'[c][Key(c)] \ {Nil}
            /\ reply'[c].st = "NotFound" => Nil \in seen'[c][Key(c)]
      BY <1>1, <1>2, <2>1, <2>2 DEF Response, Ok, Err, EmptyBucket
    <2>4. req[c] = "put" /\ reply'[c].st = "Ok" => call[c].val \in seen'[c][Key(c)]
      BY <1>1, <1>2, <2>1, <2>2 DEF Response, Ok, Err, Apply, Types
    <2>5. req[c] = "delete" =>
            /\ reply'[c].st \in {"Ok", "NotFound"} => Nil \in seen'[c][Key(c)]
            /\ reply'[c].st = "NotFound" => backend = "ObjectStore" \/ ~ bucket
      BY <1>1, <1>2, <2>1, <2>2 DEF Response, Ok, Err, Apply, Types, EmptyBucket
    <2> QED
      BY <1>1, <1>4, <1>5, <2>3, <2>4, <2>5 DEF Truthful, Held
  <1>6. CASE req[c] = "list"
    <2>1. Op(c) = "list" /\ Watched(call[c]) = Keys /\ objects' = objects
      BY <1>1, <1>3, <1>6, WatchedKeys DEF Requests, Apply
    <2>2. \A k \in Keys : objects[k] \in seen'[c][k]
      BY <1>3, <2>1
    <2>3. cursor[c] \in Nat /\ cursor'[c] = cursor[c]
      BY <1>1, KeysListed DEF Types
    <2>0. PICK page : page = [keys |-> Page(c), more |-> Page(c) # Remaining(c)]
      OBVIOUS
    <2>4. /\ Page(c) \subseteq Remaining(c) /\ Remaining(c) \subseteq 1..Len(KeySeq)
          /\ \A i \in Remaining(c) \ Page(c) : \A j \in Page(c) : j < i
          /\ Remaining(c) # {} => Page(c) # {}
      BY <2>3, PageComesFirst
    <2>5. /\ page \in [keys : SUBSET (1..Len(KeySeq)), more : BOOLEAN]
          /\ page.keys = Page(c) /\ page.more = (Page(c) # Remaining(c))
      BY <2>0, <2>4
    <2>6. ASSUME NEW i \in Page(c)
          PROVE  /\ cursor[c] < i /\ Below(PathPrefix(Key(c)), KeySeq[i])
                 /\ \E v \in seen'[c][KeySeq[i]] : v # Nil
      <3>1. i \in Remaining(c) /\ KeySeq[i] \in Keys
        BY <2>4, KeysListed
      <3>2. i \in (cursor[c] + 1)..Len(KeySeq) /\ objects[KeySeq[i]] # Nil
        BY <3>1 DEF Remaining
      <3> QED
        BY <2>2, <2>3, <3>1, <3>2, KeysListed DEF Remaining
    <2>7. ASSUME NEW i \in (cursor[c] + 1)..Len(KeySeq), Nil \notin seen'[c][KeySeq[i]],
                 Below(PathPrefix(Key(c)), KeySeq[i])
          PROVE  i \in Page(c) \/ (Page(c) # Remaining(c) /\ \A j \in Page(c) : j < i)
      <3>1. KeySeq[i] \in Keys
        BY <2>3, KeysListed
      <3>2. i \in Remaining(c)
        BY <2>2, <2>7, <3>1 DEF Remaining
      <3> QED
        BY <2>4, <3>2
    <2>8. ASSUME Page(c) # Remaining(c)
          PROVE  Page(c) # {} /\ \E i \in 1..Len(KeySeq) : \A j \in Page(c) : j < i
      <3>1. PICK i \in Remaining(c) : i \notin Page(c)
        BY <2>4, <2>8
      <3> QED
        BY <2>4, <3>1
    <2>9. reply'[c].st = "Ok" => reply'[c].val = page
      BY <1>2, <1>6, <2>0 DEF Response, Ok, Err
    <2>10. PageFaithful(c, page)'
      BY <1>4, <2>3, <2>5, <2>6, <2>7, <2>8 DEF PageFaithful, Seen
    <2>11. req'[c] = "list"
      BY <1>1, <1>6
    <2> QED
      BY <2>5, <2>9, <2>10, <2>11 DEF Truthful
  <1> QED
    BY <1>5, <1>6

LEMMA ServeInv == ASSUME Inv, NEW c \in Clients, Serve(c) PROVE Inv'
  <1>1. /\ Types /\ EmptyBucket /\ pc[c] = "sent" /\ ClientInv(c) /\ Waiting(c)
        /\ objects' = Apply(req[c], Key(c), call[c].val)
        /\ reply' = [reply EXCEPT ![c] = Response(c)] /\ pc' = [pc EXCEPT ![c] = "answered"]
        /\ Observe /\ UNCHANGED <<config, late, call, req, cursor, found, ret>>
    BY DEF Inv, Serve, Waiting
  <1>2. /\ call[c] \in Calls /\ req[c] \in Requests(Op(c)) /\ Op(c) # "presign" /\ backend # "Stub"
        /\ cursor[c] \in Nat
    BY <1>1, KeysListed DEF ClientInv, Watches, Busy, Asks, Waiting, Types
  <1>3. call[c].val \in Values \cup {Nil} /\ (Op(c) # "list" => Key(c) \in Keys)
    BY <1>2, WatchedKeys DEF Calls
  <1>4. req[c] = "list" <=> Op(c) = "list"
    BY <1>2 DEF Requests
  <1>5. Response(c) \in Responses
    BY <1>1, <1>2, <1>3, <1>4, ResponseTypes
  <1>6. objects' \in [Keys -> Values \cup {Nil}] /\ (~ bucket => objects' = objects)
    BY <1>1, <1>3, ApplyTypes
  <1>7. seen' \in [Clients -> [Keys -> SUBSET (Values \cup {Nil})]] /\ \A d \in Clients : HistoryGoesOn(d)
    BY <1>1, <1>6, ObservedHistory
  <1>8. Types'
    BY <1>1, <1>5, <1>6, <1>7 DEF Types, config
  <1>9. EmptyBucket'
    BY <1>1, <1>6 DEF EmptyBucket, config
  <1>10. ASSUME NEW d \in Clients \ {c} PROVE ClientInv(d)'
    <2>1. ClientInv(d) /\ SameClient(d) /\ cursor[d] \in Nat
      BY <1>1, KeysListed DEF Inv, Types, SameClient
    <2> QED
      BY <1>1, <1>7, <2>1, SameClientInv
  <1>11. ClientInv(c)'
    <2>1. pc'[c] = "answered" /\ reply'[c] # Nil /\ call'[c] = call[c] /\ req'[c] = req[c]
          /\ cursor'[c] = cursor[c] /\ found'[c] = found[c] /\ backend' = backend
      BY <1>1, <1>5 DEF Types, config
    <2>2. Op(c)' = Op(c) /\ Key(c)' = Key(c) /\ Waiting(c)' /\ Watched(call[c])' = Watched(call[c])
      BY <2>1 DEF Op, Key, Waiting, Watched
    <2>3. \A k \in Watched(call[c]) : seen[c][k] \cup {objects'[k]} \subseteq seen'[c][k]
      BY <1>1, <1>7 DEF HistoryGoesOn, Busy
    <2>4. Watches(c)'
      BY <1>2, <2>1, <2>3 DEF Watches, Watched
    <2>5. Asks(c)'
      BY <1>2, <2>1, <2>2 DEF Asks, Requests
    <2>6. Truthful(c)'
      BY <1>7, <1>8, ResponseFaithful
    <2>7. ListSoFar(c)'
      <3>1. Op(c) = "list" => \A k \in Keys : seen[c][k] \subseteq seen'[c][k]
        BY <1>2, <2>3, WatchedKeys
      <3> QED
        BY <1>1, <2>1, <2>2, <3>1, ListGrows DEF ClientInv
    <2>8. Looked(c)'
      <3>1. Op(c) = "delete" => seen[c][Key(c)] \subseteq seen'[c][Key(c)]
        BY <1>2, <2>3, WatchedKeys
      <3> QED
        BY <1>1, <2>1, <2>2, <3>1 DEF ClientInv, Looked, Seen
    <2> QED
      BY <2>4, <2>5, <2>6, <2>7, <2>8 DEF ClientInv
  <1> QED
    BY <1>8, <1>9, <1>10, <1>11 DEF Inv

(***************************************************************************)
(* Requests that are sent, refused by the service, and sent again           *)
(***************************************************************************)
\* A step that moves one client between "start", "sent" and "answered".
LEMMA OnWayInv ==
  ASSUME Inv, NEW c \in Clients,
         NEW p \in {"sent", "answered"}, NEW r \in {"put", "get", "delete", "head", "list"},
         NEW a \in Responses \cup {Nil}, p = "answered" <=> a # Nil,
         Busy(c), pc' = [pc EXCEPT ![c] = p], req' = [req EXCEPT ![c] = r],
         reply' = [reply EXCEPT ![c] = a], late' \subseteq LateRequests,
         UNCHANGED <<config, objects, call, cursor, found, ret, seen>>,
         r \in Requests(Op(c)), Op(c) # "presign", backend # "Stub",
         a # Nil => a.st \in {"Denied", "Internal"},
         r = "delete" /\ backend = "ObjectStore" => Seen(c, Key(c))
  PROVE  Inv'
  <1>1. Types /\ ClientInv(c)
    BY DEF Inv
  <1>2. Types'
    BY <1>1 DEF Types, config
  <1>3. \A d \in Clients \ {c} : SameClient(d) /\ seen'[d] = seen[d]
    BY <1>1 DEF SameClient, Types
  <1>4. /\ pc'[c] = p /\ req'[c] = r /\ reply'[c] = a /\ call'[c] = call[c] /\ cursor'[c] = cursor[c]
        /\ found'[c] = found[c] /\ seen'[c] = seen[c] /\ backend' = backend /\ bucket' = bucket
        /\ objects' = objects
    BY <1>1 DEF Types, config
  <1>5. /\ Op(c)' = Op(c) /\ Key(c)' = Key(c) /\ Waiting(c)' /\ Busy(c)' /\ Listable(c)' = Listable(c)
        /\ Seen(c, Key(c))' = Seen(c, Key(c))
    BY <1>4 DEF Op, Key, Waiting, Busy, Listable, Seen
  <1>6. Watches(c)'
    BY <1>1, <1>4, <1>5 DEF ClientInv, Watches, Watched
  <1>7. Asks(c)'
    BY <1>4, <1>5 DEF Asks, Requests
  <1>8. Truthful(c)'
    <2>1. pc'[c] = "answered" => reply'[c].st \in {"Denied", "Internal"}
      BY <1>4
    <2> QED
      BY <2>1 DEF Truthful
  <1>9. ListSoFar(c)'
    <2>1. CASE Waiting(c)
      BY <1>1, <1>4, <1>5, <2>1, ListGrows DEF ClientInv
    <2>2. CASE ~ Waiting(c)
      <3>1. cursor[c] = 0 /\ found[c] = {}
        BY <1>1, <2>2 DEF ClientInv, Asks, Waiting, Busy
      <3> QED
        BY <1>4, <3>1 DEF ListSoFar
    <2> QED
      BY <2>1, <2>2
  <1>10. Looked(c)'
    BY <1>4, <1>5 DEF Looked
  <1>11. ClientInv(c)'
    BY <1>6, <1>7, <1>8, <1>9, <1>10 DEF ClientInv
  <1> QED
    BY <1>2, <1>3, <1>11, OthersInv

LEMMA RequestInv == ASSUME Inv, NEW c \in Clients, Request(c) PROVE Inv'
  <1>1. PICK op \in {"put", "get", "delete", "exists", "list"} : Begin(c, op)
    BY DEF Request
  <1>2. Busy(c) /\ Op(c) = op /\ backend # "Stub"
    BY <1>1 DEF Begin, Busy
  <1>3. backend \in {"S3", "Stub", "ObjectStore"}
    BY ConstantsAssumption DEF Inv, Types
  <1>4. /\ FirstRequest(c) \in {"put", "get", "delete", "head", "list"}
        /\ FirstRequest(c) \in Requests(Op(c))
        /\ ~ (FirstRequest(c) = "delete" /\ backend = "ObjectStore")
    BY <1>2, <1>3 DEF FirstRequest, Requests
  <1>5. /\ pc' = [pc EXCEPT ![c] = "sent"] /\ req' = [req EXCEPT ![c] = FirstRequest(c)]
        /\ reply' = [reply EXCEPT ![c] = Nil]
        /\ UNCHANGED <<config, objects, late, call, cursor, found, ret, seen>>
    BY DEF Request, Send
  <1>6. late' \subseteq LateRequests
    BY <1>5 DEF Inv, Types
  <1> QED
    BY <1>2, <1>4, <1>5, <1>6, OnWayInv

LEMMA ServeFailsInv == ASSUME Inv, NEW c \in Clients, ServeFails(c) PROVE Inv'
  <1>1. PICK e \in {"Denied", "Internal"} : reply' = [reply EXCEPT ![c] = Err(e)]
    BY DEF ServeFails
  <1>2. /\ pc[c] = "sent" /\ pc' = [pc EXCEPT ![c] = "answered"]
        /\ UNCHANGED <<config, late, objects, call, req, cursor, found, ret, seen>>
    BY DEF ServeFails
  <1>3. Err(e) \in Responses /\ Err(e) # Nil /\ Err(e).st \in {"Denied", "Internal"}
    BY DEF Err, Responses
  <1>4. /\ Waiting(c) /\ Busy(c) /\ ClientInv(c) /\ Types
    BY <1>2 DEF Waiting, Busy, Inv
  <1>5. /\ req[c] \in Requests(Op(c)) /\ Op(c) # "presign" /\ backend # "Stub"
        /\ req[c] = "delete" /\ backend = "ObjectStore" => Seen(c, Key(c))
    BY <1>4 DEF ClientInv, Asks, Looked, Requests
  <1>6. req[c] \in {"put", "get", "delete", "head", "list"} /\ call[c] \in Calls
    BY <1>4, <1>5, ConstantsAssumption DEF ClientInv, Watches, Requests, Calls, Op
  <1>7. req' = [req EXCEPT ![c] = req[c]] /\ late' \subseteq LateRequests
    BY <1>2, <1>4 DEF Types
  <1> QED
    BY <1>1, <1>2, <1>3, <1>4, <1>5, <1>6, <1>7, OnWayInv

LEMMA ResendInv == ASSUME Inv, NEW c \in Clients, Resend(c) PROVE Inv'
  <1>1. /\ Waiting(c) /\ Leave(c) /\ pc' = [pc EXCEPT ![c] = "sent"] /\ reply' = [reply EXCEPT ![c] = Nil]
        /\ UNCHANGED <<config, objects, call, req, cursor, found, ret, seen>>
    BY DEF Resend
  <1>2. /\ Busy(c) /\ ClientInv(c) /\ Types
    BY <1>1 DEF Waiting, Busy, Inv
  <1>3. /\ req[c] \in Requests(Op(c)) /\ Op(c) # "presign" /\ backend # "Stub"
        /\ req[c] = "delete" /\ backend = "ObjectStore" => Seen(c, Key(c))
    BY <1>1, <1>2 DEF ClientInv, Asks, Looked, Requests
  <1>4. req[c] \in {"put", "get", "delete", "head", "list"} /\ call[c] \in Calls
    BY <1>2, <1>3, ConstantsAssumption DEF ClientInv, Watches, Requests, Calls, Op
  <1>5. req' = [req EXCEPT ![c] = req[c]] /\ late' \subseteq LateRequests
    BY <1>1, <1>2, LeaveTypes DEF Types
  <1> QED
    BY <1>1, <1>2, <1>3, <1>4, <1>5, OnWayInv

LEMMA DeleteFoundInv == ASSUME Inv, NEW c \in Clients, DeleteFound(c) PROVE Inv'
  <1>1. /\ pc[c] = "answered" /\ req[c] = "head" /\ Op(c) = "delete" /\ HeadResult(c) = Answer(TRUE)
        /\ pc' = [pc EXCEPT ![c] = "sent"] /\ req' = [req EXCEPT ![c] = "delete"]
        /\ reply' = [reply EXCEPT ![c] = Nil]
        /\ UNCHANGED <<config, objects, late, call, cursor, found, ret, seen>>
    BY DEF DeleteFound, Answered, Send, Keep
  <1>2. Waiting(c) /\ Busy(c) /\ ClientInv(c) /\ Types
    BY <1>1 DEF Waiting, Busy, Inv
  <1>3. backend # "Stub" /\ "delete" \in Requests(Op(c))
    BY <1>1, <1>2 DEF ClientInv, Asks, Requests
  <1>4. reply[c].st = "Ok"
    BY <1>1 DEF HeadResult, Answer, MapError, Err
  <1>5. Seen(c, Key(c))
    BY <1>1, <1>2, <1>4 DEF ClientInv, Truthful, Held, Seen
  <1>6. late' \subseteq LateRequests
    BY <1>1, <1>2 DEF Types
  <1> QED
    BY <1>1, <1>2, <1>3, <1>5, <1>6, OnWayInv

(***************************************************************************)
(* The pages of a listing                                                   *)
(***************************************************************************)
\* What a page adds to the keys collected so far.
PageKeys(c, page) == {KeySeq[i] : i \in {j \in page.keys : MatchesPrefix(Key(c), KeySeq[j])}}

LEMMA PageAdds ==
  ASSUME Inv, NEW c \in Clients, Answered(c, "list"), reply[c].st = "Ok",
         NEW page, page = reply[c].val
  PROVE  /\ page \in [keys : SUBSET (1..Len(KeySeq)), more : BOOLEAN] /\ PageFaithful(c, page)
         /\ PageKeys(c, page) \subseteq Keys
         /\ \A k \in PageKeys(c, page) : k \in Listable(c) /\ Seen(c, k)
         /\ \A i \in (cursor[c] + 1)..Len(KeySeq) :
              KeySeq[i] \in Listable(c) /\ Nil \notin seen[c][KeySeq[i]] =>
                KeySeq[i] \in PageKeys(c, page) \/ (page.more /\ \A j \in page.keys : j < i)
  <1>1. page \in [keys : SUBSET (1..Len(KeySeq)), more : BOOLEAN] /\ PageFaithful(c, page)
    BY DEF Inv, ClientInv, Truthful, Answered
  <1>2. PageKeys(c, page) \subseteq Keys
    BY <1>1, KeysListed DEF PageKeys
  <1>3. ASSUME NEW k \in PageKeys(c, page) PROVE k \in Listable(c) /\ Seen(c, k)
    <2>1. PICK i \in page.keys : k = KeySeq[i] /\ MatchesPrefix(Key(c), KeySeq[i])
      BY DEF PageKeys
    <2> QED
      BY <1>1, <1>2, <2>1 DEF PageFaithful, Listable
  <1>4. ASSUME NEW i \in (cursor[c] + 1)..Len(KeySeq), KeySeq[i] \in Listable(c),
               Nil \notin seen[c][KeySeq[i]]
        PROVE  KeySeq[i] \in PageKeys(c, page) \/ (page.more /\ \A j \in page.keys : j < i)
    BY <1>1, <1>4 DEF PageFaithful, Listable, PageKeys
  <1> QED
    BY <1>1, <1>2, <1>3, <1>4

LEMMA NextPageInv ==
  ASSUME Inv, NEW c \in Clients, ListPage(c), reply[c].val.more
  PROVE  Inv'
  <1>1. PICK page : page = reply[c].val
    OBVIOUS
  <1>2. Types /\ ClientInv(c) /\ Answered(c, "list") /\ reply[c].st = "Ok"
    BY DEF Inv, ListPage
  <1>3. /\ found' = [found EXCEPT ![c] = @ \cup PageKeys(c, page)]
        /\ pc' = [pc EXCEPT ![c] = "sent"] /\ req' = [req EXCEPT ![c] = "list"]
        /\ reply' = [reply EXCEPT ![c] = Nil]
        /\ cursor' = [cursor EXCEPT ![c] = Max(page.keys)]
        /\ UNCHANGED <<config, objects, late, call, ret, seen>>
    BY <1>1 DEF ListPage, Send, NextCursor, PageKeys, Keep
  <1>4. /\ page \in [keys : SUBSET (1..Len(KeySeq)), more : BOOLEAN] /\ PageFaithful(c, page)
        /\ PageKeys(c, page) \subseteq Keys
        /\ \A k \in PageKeys(c, page) : k \in Listable(c) /\ Seen(c, k)
        /\ \A i \in (cursor[c] + 1)..Len(KeySeq) :
             KeySeq[i] \in Listable(c) /\ Nil \notin seen[c][KeySeq[i]] =>
               KeySeq[i] \in PageKeys(c, page) \/ (page.more /\ \A j \in page.keys : j < i)
    BY <1>1, <1>2, PageAdds
  <1>5. page.keys # {} /\ \E i \in 1..Len(KeySeq) : \A j \in page.keys : j < i
    BY <1>1, <1>4 DEF PageFaithful
  <1>6. PICK m \in 1..Len(KeySeq) : m = Max(page.keys) /\ m \in page.keys
    BY <1>4, <1>5, KeysListed, MaxOfPage
  <1>7. m \in 1..(Len(KeySeq) - 1)
    BY <1>5, <1>6, KeysListed
  <1>8. Types'
    <2>1. found' \in [Clients -> SUBSET Keys]
      BY <1>2, <1>3, <1>4 DEF Types
    <2> QED
      BY <1>2, <1>3, <1>6, <1>7, <2>1 DEF Types, config
  <1>9. \A d \in Clients \ {c} : SameClient(d) /\ seen'[d] = seen[d]
    BY <1>2, <1>3 DEF SameClient, Types
  <1>10. /\ pc'[c] = "sent" /\ req'[c] = "list" /\ reply'[c] = Nil /\ call'[c] = call[c]
         /\ cursor'[c] = m /\ found'[c] = found[c] \cup PageKeys(c, page) /\ seen'[c] = seen[c]
         /\ objects' = objects /\ backend' = backend /\ bucket' = bucket
    BY <1>2, <1>3, <1>6 DEF Types, config
  <1>11. /\ Op(c)' = Op(c) /\ Key(c)' = Key(c) /\ Listable(c)' = Listable(c)
         /\ Waiting(c) /\ Waiting(c)' /\ Busy(c) /\ Busy(c)'
         /\ pc[c] = "answered" /\ req[c] = "list"
    BY <1>2, <1>10 DEF Op, Key, Listable, Waiting, Busy, Answered
  <1>12. /\ Op(c) = "list" /\ backend # "Stub"
    BY <1>2, <1>11 DEF ClientInv, Asks, Requests
  <1>13. Watches(c)'
    BY <1>2, <1>10, <1>11 DEF ClientInv, Watches, Watched
  <1>14. Asks(c)' /\ Truthful(c)' /\ Looked(c)'
    BY <1>10, <1>11, <1>12 DEF Asks, Truthful, Looked, Requests
  <1>15. ListSoFar(c)'
    <2>1. \A k \in found'[c] : k \in Listable(c) /\ Seen(c, k)
      BY <1>2, <1>4, <1>10, <1>11, <1>12 DEF ClientInv, ListSoFar
    <2>2. ASSUME NEW i \in 1..Len(KeySeq), i <= m, KeySeq[i] \in Listable(c),
                 Nil \notin seen[c][KeySeq[i]]
          PROVE  KeySeq[i] \in found'[c]
      <3>1. CASE i <= cursor[c]
        BY <1>2, <1>10, <1>11, <1>12, <2>2, <3>1 DEF ClientInv, ListSoFar
      <3>2. CASE ~ (i <= cursor[c])
        <4>1. cursor[c] \in Nat
          BY <1>2, KeysListed DEF Types
        <4>2. i \in (cursor[c] + 1)..Len(KeySeq)
          BY <3>2, <4>1, KeysListed
        <4>3. ~ \A j \in page.keys : j < i
          BY <1>6, <2>2
        <4> QED
          BY <1>4, <1>10, <2>2, <4>2, <4>3
      <3> QED
        BY <3>1, <3>2
    <2>3. \A k \in Keys : Seen(c, k)' = Seen(c, k)
      BY <1>10 DEF Seen
    <2> QED
      BY <1>10, <1>11, <2>1, <2>2, <2>3 DEF ListSoFar, Seen
  <1>16. ClientInv(c)'
    BY <1>13, <1>14, <1>15 DEF ClientInv
  <1> QED
    BY <1>3, <1>8, <1>9, <1>16, OthersInv

LEMMA LastPageInv ==
  ASSUME Inv, NEW c \in Clients, ListPage(c), ~ reply[c].val.more
  PROVE  Inv'
  <1>1. PICK page : page = reply[c].val
    OBVIOUS
  <1>2. Types /\ Answered(c, "list") /\ reply[c].st = "Ok"
    BY DEF Inv, ListPage
  <1>3. /\ found' = [found EXCEPT ![c] = found[c] \cup PageKeys(c, page)]
        /\ Done(c, Ok(Nil)) /\ Keep
    BY <1>1, <1>2 DEF ListPage, PageKeys, Types
  <1>4. found[c] \cup PageKeys(c, page) \in SUBSET Keys
    BY <1>1, <1>2, PageAdds DEF Types
  <1> QED
    BY <1>3, <1>4, DoneInv DEF Keep

(***************************************************************************)
(* The steps in which a call returns                                        *)
(***************************************************************************)
LEMMA StepInv == ASSUME Inv, NEW c \in Clients, Step(c) PROVE Inv'
  <1>1. Types
    BY DEF Inv
  <1>2. found[c] \in SUBSET Keys /\ {} \in SUBSET Keys /\ found = [found EXCEPT ![c] = found[c]]
    BY <1>1 DEF Types
  <1>3. ASSUME NEW r, Done(c, r), UNCHANGED <<config, objects, late, call, found, seen>> PROVE Inv'
    <2>1. found' = [found EXCEPT ![c] = found[c]]
      BY <1>2, <1>3
    <2> QED
      BY <1>2, <1>3, <2>1, DoneInv
  <1>4. CASE Refuse(c)
    BY <1>3, <1>4 DEF Refuse
  <1>5. CASE Stub(c)
    BY <1>3, <1>5 DEF Stub
  <1>6. CASE ListUnsupported(c)
    BY <1>3, <1>6 DEF ListUnsupported
  <1>7. CASE Presign(c)
    BY <1>3, <1>7 DEF Presign
  <1>8. CASE Request(c)
    BY <1>8, RequestInv
  <1>9. CASE PutAnswer(c)
    BY <1>3, <1>9 DEF PutAnswer, Keep
  <1>10. CASE GetAnswer(c)
    BY <1>3, <1>10 DEF GetAnswer, Keep
  <1>11. CASE GetBodyFails(c)
    BY <1>3, <1>11 DEF GetBodyFails, Keep
  <1>12. CASE ExistsAnswer(c)
    BY <1>3, <1>12 DEF ExistsAnswer, Keep
  <1>13. CASE DeleteLooked(c)
    BY <1>3, <1>13 DEF DeleteLooked, Keep
  <1>14. CASE DeleteFound(c)
    BY <1>14, DeleteFoundInv
  <1>15. CASE DeleteAnswer(c)
    BY <1>3, <1>15 DEF DeleteAnswer, Keep
  <1>16. CASE ListPage(c)
    BY <1>16, NextPageInv, LastPageInv
  <1>17. CASE ListFails(c)
    <2>1. Done(c, MapError(reply[c].st)) /\ found' = [found EXCEPT ![c] = {}] /\ Keep
      BY <1>17 DEF ListFails
    <2> QED
      BY <1>2, <2>1, DoneInv DEF Keep
  <1>18. CASE GiveUp(c)
    <2>1. /\ Leave(c) /\ Done(c, Err("Other")) /\ found' = [found EXCEPT ![c] = {}]
          /\ UNCHANGED <<config, objects, call, seen>>
      BY <1>18 DEF GiveUp
    <2> QED
      BY <1>2, <2>1, DoneInv
  <1> QED
    BY <1>4, <1>5, <1>6, <1>7, <1>8, <1>9, <1>10, <1>11, <1>12, <1>13, <1>14, <1>15, <1>16, <1>17,
       <1>18 DEF Step, Answers

LEMMA InitInv == Init => Inv
  <1> SUFFICES ASSUME Init PROVE Inv
    OBVIOUS
  <1>1. Types
    BY DEF Init, Types
  <1>2. EmptyBucket
    BY DEF Init, EmptyBucket
  <1>3. ASSUME NEW c \in Clients PROVE ClientInv(c)
    <2>1. pc[c] = "idle" /\ reply[c] = Nil /\ cursor[c] = 0
      BY DEF Init
    <2> QED
      BY <2>1 DEF ClientInv, Watches, Busy, Asks, Waiting, Truthful, ListSoFar, Looked
  <1> QED
    BY <1>1, <1>2, <1>3 DEF Inv

LEMMA InvIsInductive == Inv /\ [Next]_vars => Inv'
  <1> SUFFICES ASSUME Inv, [Next]_vars PROVE Inv'
    OBVIOUS
  <1>1. CASE UNCHANGED vars
    <2>1. Types' /\ EmptyBucket'
      BY <1>1 DEF Inv, Types, EmptyBucket, vars, config
    <2>2. ASSUME NEW d \in Clients PROVE ClientInv(d)'
      <3>1. ClientInv(d) /\ SameClient(d) /\ cursor[d] \in Nat
        BY <1>1, KeysListed DEF Inv, Types, SameClient, vars
      <3>2. HistoryGoesOn(d)
        BY <1>1, <3>1 DEF HistoryGoesOn, ClientInv, Watches, vars
      <3> QED
        BY <1>1, <3>1, <3>2, SameClientInv DEF vars, config
    <2> QED
      BY <2>1, <2>2 DEF Inv
  <1>2. ASSUME NEW c \in Clients,
               Invoke(c) \/ Step(c) \/ Serve(c) \/ ServeFails(c) \/ Resend(c) \/ Cancel(c)
        PROVE  Inv'
    BY <1>2, InvokeInv, StepInv, ServeInv, ServeFailsInv, ResendInv, CancelInv
  <1>3. CASE LateServe
    BY <1>3, LateServeInv
  <1> QED
    BY <1>1, <1>2, <1>3 DEF Next

LEMMA SpecInv == Spec => []Inv
  BY InitInv, InvIsInductive, PTL DEF Spec

\* The types of the variables, and that an answer is there exactly while a client
\* looks at one: for any number of clients and keys.
THEOREM TypeSafety == Spec => []TypeOK
  <1>1. Inv => TypeOK
    <2> SUFFICES ASSUME Inv PROVE TypeOK
      OBVIOUS
    <2>1. Types /\ \A c \in Clients : Asks(c)
      BY DEF Inv, ClientInv
    <2>2. \A r \in late : r.req \in {"put", "delete"} /\ r.key \in Keys
      BY <2>1 DEF Types, LateRequests
    <2>3. \A c \in Clients : call[c] # Nil => Op(c) \in Ops /\ Key(c) \in Keys \cup ListArgs
      BY <2>1 DEF Types, Calls, Op, Key
    <2>4. \A c \in Clients : reply[c] # Nil <=> pc[c] = "answered"
      BY <2>1 DEF Asks
    <2> QED
      BY <2>1, <2>2, <2>3, <2>4 DEF Types, TypeOK
  <1> QED
    BY <1>1, SpecInv, PTL

(***************************************************************************)
(* The properties are about the step in which a call returns.  A call that  *)
(* returns neither an error of its own nor a URL is one of eight steps.     *)
(***************************************************************************)
OwnErrors == {"InvalidKey", "Unsupported", "Other"}

Concluded(c) ==
  PutAnswer(c) \/ GetAnswer(c) \/ ExistsAnswer(c) \/ DeleteLooked(c) \/ DeleteAnswer(c) \/ ListPage(c)
  \/ ListFails(c)

LEMMA ResultOf ==
  ASSUME Types, NEW c \in Clients, NEW r, Done(c, r)
  PROVE  ret'[c] = r
  BY DEF Types, Done

LEMMA Returning ==
  ASSUME Inv, Next, NEW c \in Clients, pc[c] # "done", pc'[c] = "done"
  PROVE  ret'[c].st \in OwnErrors \/ Op(c) = "presign" \/ Concluded(c)
  <1>1. Types
    BY DEF Inv
  <1>2. ASSUME NEW d \in Clients, d # c,
               Invoke(d) \/ Step(d) \/ Serve(d) \/ ServeFails(d) \/ Resend(d) \/ Cancel(d)
        PROVE  FALSE
    <2>1. pc' = [pc EXCEPT ![d] = pc'[d]]
      <3>1. CASE Step(d)
        BY <1>1, <3>1 DEF Types, Step, Answers, Refuse, Stub, ListUnsupported, Presign, Request,
           PutAnswer, GetAnswer, GetBodyFails, ExistsAnswer, DeleteLooked, DeleteFound, DeleteAnswer,
           ListPage, ListFails, GiveUp, Done, Send
      <3>2. CASE Invoke(d) \/ Serve(d) \/ ServeFails(d) \/ Resend(d) \/ Cancel(d)
        BY <1>1, <3>2 DEF Types, Invoke, Serve, ServeFails, Resend, Cancel
      <3> QED
        BY <1>2, <3>1, <3>2
    <2> QED
      BY <1>1, <1>2, <2>1 DEF Types
  <1>3. ~ LateServe
    BY DEF LateServe
  <1>4. ~ (Invoke(c) \/ Serve(c) \/ ServeFails(c) \/ Resend(c) \/ Cancel(c))
    BY <1>1 DEF Types, Invoke, Serve, ServeFails, Resend, Cancel
  <1>5. Step(c)
    BY <1>2, <1>3, <1>4 DEF Next
  <1>6. ASSUME NEW e \in OwnErrors, Done(c, Err(e)) PROVE ret'[c].st \in OwnErrors
    BY <1>1, <1>6, ResultOf DEF Err
  <1>7. CASE Refuse(c) \/ Stub(c) \/ ListUnsupported(c) \/ GetBodyFails(c) \/ GiveUp(c)
    BY <1>6, <1>7 DEF Refuse, Stub, ListUnsupported, GetBodyFails, GiveUp, OwnErrors
  <1>8. CASE Presign(c)
    BY <1>8 DEF Presign, Begin
  <1>9. ~ (Request(c) \/ DeleteFound(c))
    BY <1>1 DEF Types, Request, DeleteFound, Send
  <1> QED
    BY <1>5, <1>7, <1>8, <1>9 DEF Step, Answers, Concluded

\* What holds of a client whose call has an answer.
LEMMA AnsweredFacts ==
  ASSUME Inv, NEW c \in Clients, pc[c] = "answered"
  PROVE  /\ Types /\ Truthful(c) /\ ListSoFar(c) /\ Looked(c) /\ Waiting(c)
         /\ call[c] \in Calls /\ req[c] \in Requests(Op(c)) /\ Op(c) # "presign"
  BY DEF Inv, ClientInv, Watches, Busy, Asks, Waiting

\* Which operation an answer concludes.
LEMMA ConcludesItsOperation ==
  ASSUME Inv, NEW c \in Clients
  PROVE  /\ PutAnswer(c) => Op(c) = "put"
         /\ GetAnswer(c) => Op(c) = "get"
         /\ ExistsAnswer(c) => Op(c) = "exists"
         /\ DeleteLooked(c) \/ DeleteAnswer(c) => Op(c) = "delete"
         /\ ListPage(c) \/ ListFails(c) => Op(c) = "list"
  <1>1. ASSUME pc[c] = "answered" PROVE req[c] \in Requests(Op(c))
    BY <1>1, AnsweredFacts
  <1>2. /\ PutAnswer(c) => pc[c] = "answered" /\ req[c] = "put"
        /\ GetAnswer(c) => pc[c] = "answered" /\ req[c] = "get"
        /\ DeleteAnswer(c) => pc[c] = "answered" /\ req[c] = "delete"
        /\ ListPage(c) \/ ListFails(c) => pc[c] = "answered" /\ req[c] = "list"
    BY DEF PutAnswer, GetAnswer, DeleteAnswer, ListPage, ListFails, Answered
  <1>3. ExistsAnswer(c) => Op(c) = "exists"
    BY DEF ExistsAnswer
  <1>4. DeleteLooked(c) => Op(c) = "delete"
    BY DEF DeleteLooked
  <1> QED
    BY <1>1, <1>2, <1>3, <1>4 DEF Requests

\* S3Store and ObjectStoreBackend report Ok for a put only if the payload was
\* under the key at some moment of the call, whatever was lost, sent again, given
\* up by others or still arrives late.
THEOREM PutWasApplied == Spec => PutApplied
  <1> DEFINE Justified == \A c \in Clients : Returns(c, "put", "Ok") => call[c].val \in Held(c)
  <1>1. Inv /\ [Next]_vars => [Justified]_vars
    <2> SUFFICES ASSUME Inv, Next, NEW c \in Clients, Returns(c, "put", "Ok")
                 PROVE  call[c].val \in Held(c)
      OBVIOUS
    <2>1. /\ Op(c) = "put" /\ ret'[c].st = "Ok" /\ ret'[c].st \notin OwnErrors
          /\ pc[c] # "done" /\ pc'[c] = "done"
      BY DEF Returns, OwnErrors
    <2>2. PutAnswer(c)
      BY <2>1, Returning, ConcludesItsOperation DEF Concluded
    <2>3. pc[c] = "answered" /\ req[c] = "put"
      BY <2>2 DEF PutAnswer, Answered
    <2>4. ret'[c] = IF reply[c].st = "Ok" THEN Ok(Nil) ELSE MapError(reply[c].st)
      BY <2>2, <2>3, AnsweredFacts, ResultOf DEF PutAnswer
    <2>5. reply[c].st = "Ok"
      BY <2>1, <2>4 DEF MapError, Err
    <2> QED
      BY <2>3, <2>5, AnsweredFacts DEF Truthful
  <1> QED
    BY <1>1, SpecInv, PTL DEF Spec, PutApplied

\* A get that returns Ok returns a blob that was under the key during the call,
\* and NotFound is returned only if there was none at some moment of it.
THEOREM GetWasJustified == Spec => GetJustified
  <1> DEFINE Justified == \A c \in Clients :
       /\ Returns(c, "get", "Ok") => ret'[c].val \in Held(c) \ {Nil}
       /\ Returns(c, "get", "NotFound") => Nil \in Held(c)
  <1>1. Inv /\ [Next]_vars => [Justified]_vars
    <2> SUFFICES ASSUME Inv, Next, NEW c \in Clients, NEW st \in {"Ok", "NotFound"},
                        Returns(c, "get", st)
                 PROVE  (st = "Ok" => ret'[c].val \in Held(c) \ {Nil}) /\ (st = "NotFound" => Nil \in Held(c))
      OBVIOUS
    <2>1. /\ Op(c) = "get" /\ ret'[c].st = st /\ ret'[c].st \notin OwnErrors
          /\ pc[c] # "done" /\ pc'[c] = "done"
      BY DEF Returns, OwnErrors
    <2>2. GetAnswer(c)
      BY <2>1, Returning, ConcludesItsOperation DEF Concluded
    <2>3. pc[c] = "answered" /\ req[c] = "get"
      BY <2>2 DEF GetAnswer, Answered
    <2>4. ret'[c] = IF reply[c].st = "Ok" THEN Ok(reply[c].val) ELSE MapError(reply[c].st)
      BY <2>2, <2>3, AnsweredFacts, ResultOf DEF GetAnswer
    <2>5. CASE reply[c].st = "Ok"
      BY <2>1, <2>3, <2>4, <2>5, AnsweredFacts DEF Truthful, Ok
    <2>6. CASE reply[c].st # "Ok"
      BY <2>1, <2>3, <2>4, <2>6, AnsweredFacts DEF Truthful, MapError, Err
    <2> QED
      BY <2>5, <2>6
  <1> QED
    BY <1>1, SpecInv, PTL DEF Spec, GetJustified

\* exists answers what was true at some moment of the call, and never turns an
\* error of the service into an answer.
THEOREM ExistsWasJustified == Spec => ExistsJustified
  <1> DEFINE Justified == \A c \in Clients :
       /\ Returns(c, "exists", "True")  => Held(c) # {Nil}
       /\ Returns(c, "exists", "False") => Nil \in Held(c)
  <1>1. Inv /\ [Next]_vars => [Justified]_vars
    <2> SUFFICES ASSUME Inv, Next, NEW c \in Clients, NEW st \in {"True", "False"},
                        Returns(c, "exists", st)
                 PROVE  (st = "True" => Held(c) # {Nil}) /\ (st = "False" => Nil \in Held(c))
      OBVIOUS
    <2>1. /\ Op(c) = "exists" /\ ret'[c].st = st /\ ret'[c].st \notin OwnErrors
          /\ pc[c] # "done" /\ pc'[c] = "done"
      BY DEF Returns, OwnErrors
    <2>2. ExistsAnswer(c)
      BY <2>1, Returning, ConcludesItsOperation DEF Concluded
    <2>3. pc[c] = "answered" /\ req[c] = "head"
      BY <2>2 DEF ExistsAnswer, Answered
    <2>4. ret'[c] = HeadResult(c)
      BY <2>2, <2>3, AnsweredFacts, ResultOf DEF ExistsAnswer
    <2>5. reply[c].st = IF st = "True" THEN "Ok" ELSE "NotFound"
      BY <2>1, <2>4 DEF HeadResult, Answer, MapError, Err
    <2> QED
      BY <2>3, <2>5, AnsweredFacts DEF Truthful
  <1> QED
    BY <1>1, SpecInv, PTL DEF Spec, ExistsJustified

\* After Ok the object was gone at some moment of the call, and for
\* ObjectStoreBackend it had been there at another; NotFound is returned only if
\* it was gone.
THEOREM DeleteWasJustified == Spec => DeleteJustified
  <1> DEFINE Justified == \A c \in Clients :
       /\ Returns(c, "delete", "Ok") => Nil \in Held(c)
       /\ Returns(c, "delete", "Ok") /\ backend = "ObjectStore" => Held(c) # {Nil}
       /\ Returns(c, "delete", "NotFound") => Nil \in Held(c)
  <1>1. Inv /\ [Next]_vars => [Justified]_vars
    <2> SUFFICES ASSUME Inv, Next, NEW c \in Clients, NEW st \in {"Ok", "NotFound"},
                        Returns(c, "delete", st)
                 PROVE  /\ Nil \in Held(c)
                        /\ st = "Ok" /\ backend = "ObjectStore" => Held(c) # {Nil}
      OBVIOUS
    <2>1. /\ Op(c) = "delete" /\ ret'[c].st = st /\ ret'[c].st \notin OwnErrors
          /\ pc[c] # "done" /\ pc'[c] = "done"
      BY DEF Returns, OwnErrors
    <2>2. DeleteLooked(c) \/ DeleteAnswer(c)
      BY <2>1, Returning, ConcludesItsOperation DEF Concluded
    <2>3. CASE DeleteLooked(c)
      <3>1. pc[c] = "answered" /\ req[c] = "head" /\ HeadResult(c) # Answer(TRUE)
        BY <2>3 DEF DeleteLooked, Answered
      <3>2. ret'[c] = IF HeadResult(c) = Answer(FALSE) THEN Err("NotFound") ELSE HeadResult(c)
        BY <2>3, <3>1, AnsweredFacts, ResultOf DEF DeleteLooked
      <3>3. reply[c].st = "NotFound" /\ st = "NotFound"
        BY <2>1, <3>1, <3>2 DEF HeadResult, Answer, MapError, Err
      <3>4. Nil \in Held(c)
        BY <3>1, <3>3, AnsweredFacts DEF Truthful
      <3> QED
        BY <3>3, <3>4
    <2>4. CASE DeleteAnswer(c)
      <3>1. pc[c] = "answered" /\ req[c] = "delete"
        BY <2>4 DEF DeleteAnswer, Answered
      <3>2. ret'[c] = IF reply[c].st = "Ok" \/ (reply[c].st = "NotFound" /\ backend = "ObjectStore")
                      THEN Ok(Nil) ELSE MapError(reply[c].st)
        BY <2>4, <3>1, AnsweredFacts, ResultOf DEF DeleteAnswer
      <3>3. reply[c].st \in {"Ok", "NotFound"} /\ (st = "NotFound" => reply[c].st = "NotFound")
        BY <2>1, <3>2 DEF MapError, Err, Ok
      <3>4. Nil \in Held(c)
        BY <3>1, <3>3, AnsweredFacts DEF Truthful
      <3>5. backend = "ObjectStore" => \E v \in Held(c) : v # Nil
        BY <2>1, <3>1, AnsweredFacts DEF Looked, Seen, Held
      <3> QED
        BY <3>4, <3>5
    <2> QED
      BY <2>2, <2>3, <2>4
  <1> QED
    BY <1>1, SpecInv, PTL DEF Spec, DeleteJustified

\* A listing that returns Ok has every matching key below the prefix that was
\* there all along, on whichever page it came, and only keys that match and were
\* there during the call, for any page size.
THEOREM PagesWereComplete == Spec => PagesComplete
  <1> DEFINE Justified == \A c \in Clients : Returns(c, "list", "Ok") =>
       /\ Matching(c, {k \in Throughout(c) : Below(PathPrefix(Key(c)), k)}) \subseteq found'[c]
       /\ found'[c] \subseteq Matching(c, Sometime(c))
  <1>1. Inv /\ [Next]_vars => [Justified]_vars
    <2> SUFFICES ASSUME Inv, Next, NEW c \in Clients, Returns(c, "list", "Ok")
                 PROVE  /\ \A k \in Listable(c) : Nil \notin seen[c][k] => k \in found'[c]
                        /\ \A k \in found'[c] : k \in Listable(c) /\ seen[c][k] # {Nil}
      BY DEF Listable, Matching, Throughout, Sometime
    <2>1. /\ Op(c) = "list" /\ ret'[c].st = "Ok" /\ ret'[c].st \notin OwnErrors
          /\ pc[c] # "done" /\ pc'[c] = "done"
      BY DEF Returns, OwnErrors
    <2>2. ListPage(c) \/ ListFails(c)
      BY <2>1, Returning, ConcludesItsOperation DEF Concluded
    <2>3. pc[c] = "answered" /\ req[c] = "list"
      BY <2>2 DEF ListPage, ListFails, Answered
    <2>4. /\ Types /\ ListSoFar(c) /\ Waiting(c)
      BY <2>3, AnsweredFacts
    <2>5. ~ ListFails(c)
      <3> SUFFICES ASSUME ListFails(c) PROVE FALSE
        OBVIOUS
      <3>1. ret'[c] = MapError(reply[c].st)
        BY <2>4, ResultOf DEF ListFails
      <3> QED
        BY <2>1, <3>1 DEF MapError, Err
    <2>6. ListPage(c) /\ Answered(c, "list") /\ reply[c].st = "Ok"
      BY <2>2, <2>5 DEF ListPage
    <2>7. PICK page : page = reply[c].val
      OBVIOUS
    <2>8. ~ page.more
      BY <2>1, <2>4, <2>6, <2>7 DEF ListPage, Send, Types
    <2>9. found'[c] = found[c] \cup PageKeys(c, page)
      BY <2>4, <2>6, <2>7 DEF ListPage, PageKeys, Types
    <2>10. /\ \A k \in PageKeys(c, page) : k \in Listable(c) /\ Seen(c, k)
           /\ \A i \in (cursor[c] + 1)..Len(KeySeq) :
                KeySeq[i] \in Listable(c) /\ Nil \notin seen[c][KeySeq[i]] =>
                  KeySeq[i] \in PageKeys(c, page)
      BY <2>6, <2>7, <2>8, PageAdds
    <2>11. ASSUME NEW k \in Listable(c), Nil \notin seen[c][k] PROVE k \in found'[c]
      <3>1. PICK i \in 1..Len(KeySeq) : k = KeySeq[i]
        BY KeysListed DEF Listable
      <3>2. cursor[c] \in Nat
        BY <2>4, KeysListed DEF Types
      <3>3. CASE i <= cursor[c]
        BY <2>1, <2>4, <2>9, <2>11, <3>1, <3>3 DEF ListSoFar
      <3>4. CASE i \in (cursor[c] + 1)..Len(KeySeq)
        BY <2>9, <2>10, <2>11, <3>1, <3>4
      <3> QED
        BY <3>2, <3>3, <3>4, KeysListed
    <2>12. ASSUME NEW k \in found'[c] PROVE k \in Listable(c) /\ seen[c][k] # {Nil}
      BY <2>1, <2>4, <2>9, <2>10, <2>12 DEF ListSoFar, Seen
    <2> QED
      BY <2>11, <2>12
  <1> QED
    BY <1>1, SpecInv, PTL DEF Spec, PagesComplete
================================================================================
