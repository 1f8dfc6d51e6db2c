------------------------------ MODULE BlobStore ------------------------------
(***************************************************************************)
(* What the BlobStore trait (store.rs) promises its callers, whatever the   *)
(* backend: a dictionary from keys to whole blobs in which every operation  *)
(* takes effect at one instant between its call and its return, and a       *)
(* failed operation takes no effect.                                        *)
(*                                                                         *)
(* exists may answer True, and presigned_url Ok, for a folder: a key that    *)
(* has none but others below it.  get and delete do not take it for a blob. *)
(*                                                                         *)
(* A caller may drop a future before it resolves.  A dropped operation      *)
(* either never takes effect or, if it is a delete that was already handed  *)
(* to a blocking thread, takes effect at some later time.                   *)
(*                                                                         *)
(* A crash rolls the dictionary back to a state it really had (the last     *)
(* one committed), never to a mixture and never to part of a blob.          *)
(***************************************************************************)
CONSTANTS Clients,   \* the tasks that use the store
          Keys,      \* the keys they use
          Contents,  \* the byte strings they store
          Storable,  \* those within the backend's size limit
          Folders,   \* keys that may have others below them
          Nil

Operations == {"put", "get", "delete", "exists", "presign"}
Failures == {"InvalidKey", "StorageFull", "Io", "Other"}

VARIABLES blobs,     \* what each key holds
          durable,   \* what a crash falls back to
          pending,   \* the latest call of each client
          outcome,   \* its result, once the operation has taken effect
          detached   \* deletes whose caller is gone but which may still happen

vars == <<blobs, durable, pending, outcome, detached>>

Call(op, key, val) == [op |-> op, key |-> key, val |-> val]
Ok(val) == [st |-> "Ok", val |-> val]
Err(e)  == [st |-> e, val |-> Nil]
Answer(b) == [st |-> IF b THEN "True" ELSE "False", val |-> Nil]

Calls == [op : Operations, key : Keys, val : Contents \cup {Nil}]
Results == [st : Failures \cup {"Ok", "True", "False", "NotFound"}, val : Contents \cup {Nil}]

TypeOK ==
  /\ blobs \in [Keys -> Contents \cup {Nil}]
  /\ durable \in [Keys -> Contents \cup {Nil}]
  /\ pending \in [Clients -> Calls \cup {Nil}]
  /\ outcome \in [Clients -> Results \cup {Nil}]
  /\ detached \subseteq Clients \X Keys

Init ==
  /\ blobs = [k \in Keys |-> Nil]
  /\ durable = blobs
  /\ pending = [c \in Clients |-> Nil]
  /\ outcome = [c \in Clients |-> Nil]
  /\ detached = {}

\* a client that has its answer may call again
Invoke(c) ==
  /\ pending[c] = Nil \/ outcome[c] # Nil
  /\ outcome' = [outcome EXCEPT ![c] = Nil]
  /\ \E op \in Operations, k \in Keys, v \in Contents \cup {Nil} :
       /\ (op = "put") <=> (v # Nil)
       /\ pending' = [pending EXCEPT ![c] = Call(op, k, v)]
  /\ UNCHANGED <<blobs, durable, detached>>

Takes(c, op) == pending[c] # Nil /\ outcome[c] = Nil /\ pending[c].op = op
Decide(c, r) == outcome' = [outcome EXCEPT ![c] = r]
Found(c, val) == IF blobs[pending[c].key] = Nil THEN Err("NotFound") ELSE Ok(val)

Put(c) ==
  /\ Takes(c, "put")
  /\ pending[c].val \in Storable
  /\ blobs' = [blobs EXCEPT ![pending[c].key] = pending[c].val]
  /\ Decide(c, Ok(Nil))
  /\ UNCHANGED <<durable, pending, detached>>

Get(c) ==
  /\ Takes(c, "get")
  /\ Decide(c, Found(c, blobs[pending[c].key]))
  /\ UNCHANGED <<blobs, durable, pending, detached>>

Delete(c) ==
  /\ Takes(c, "delete")
  /\ Decide(c, Found(c, Nil))
  /\ blobs' = [blobs EXCEPT ![pending[c].key] = Nil]
  /\ UNCHANGED <<durable, pending, detached>>

\* what exists and presigned_url go by: a stored key; a folder may count as one
Seen(key) == {blobs[key] # Nil} \cup (IF key \in Folders THEN {TRUE} ELSE {})

Exists(c) ==
  /\ Takes(c, "exists")
  /\ \E b \in Seen(pending[c].key) : Decide(c, Answer(b))
  /\ UNCHANGED <<blobs, durable, pending, detached>>

Presign(c) ==
  /\ Takes(c, "presign")
  /\ \E b \in Seen(pending[c].key) : Decide(c, IF b THEN Ok(Nil) ELSE Err("NotFound"))
  /\ UNCHANGED <<blobs, durable, pending, detached>>

\* an operation may fail, and then it has done nothing; only a put of more
\* than the limit is answered StorageFull
Fail(c) ==
  /\ pending[c] # Nil /\ outcome[c] = Nil
  /\ \E e \in Failures :
       /\ e = "StorageFull" => pending[c].val \notin Storable \cup {Nil}
       /\ Decide(c, Err(e))
  /\ UNCHANGED <<blobs, durable, pending, detached>>

Abandon(c) ==
  /\ pending[c] # Nil
  /\ pending' = [pending EXCEPT ![c] = Nil]
  /\ outcome' = [outcome EXCEPT ![c] = Nil]
  /\ \/ detached' = detached
     \/ /\ Takes(c, "delete")
        /\ detached' = detached \cup {<<c, pending[c].key>>}
  /\ UNCHANGED <<blobs, durable>>

LateDelete ==
  /\ \E d \in detached :
       /\ detached' = detached \ {d}
       /\ blobs' = [blobs EXCEPT ![d[2]] = Nil]
  /\ UNCHANGED <<durable, pending, outcome>>

Commit ==
  /\ durable' = blobs
  /\ UNCHANGED <<blobs, pending, outcome, detached>>

Crash ==
  /\ blobs' = durable
  /\ pending' = [c \in Clients |-> Nil]
  /\ outcome' = [c \in Clients |-> Nil]
  /\ detached' = {}
  /\ UNCHANGED durable

Next ==
  \/ \E c \in Clients :
       \/ Invoke(c) \/ Put(c) \/ Get(c) \/ Delete(c) \/ Exists(c) \/ Presign(c)
       \/ Fail(c) \/ Abandon(c)
  \/ LateDelete \/ Commit \/ Crash

Spec == Init /\ [][Next]_vars
==============================================================================
