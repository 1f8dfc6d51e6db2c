------------------------- MODULE LocalStoreRefinement -------------------------
(***************************************************************************)
(* LocalStore implements BlobStore.                                         *)
(*                                                                         *)
(* A put takes effect at the rename, a get at the open (the file it opened  *)
(* no longer changes), a delete at the unlink, exists and presigned_url at  *)
(* the stat.  list is not one instant and has its own properties            *)
(* (LocalStoreHistory); it is no operation of BlobStore, nor is a call on a *)
(* temp file's name, which a listing may have returned.                     *)
(***************************************************************************)
EXTENDS LocalStore

\* None is neither a payload nor a call nor a result
ASSUME NilAssumption ==
  /\ Nil \notin Seq(Values) /\ Nil \notin Results
  /\ \A op \in Operations, val \in Values \cup {Nil} :
       /\ \A key \in Paths : Nil # Call(op, key, val)
       /\ \A key \in ListArgs : Nil # Call(op, key, val)
  /\ Nil \notin [op : {"put"}, key : Keys, val : Seq(Values)]

BlobAt(t) == [k \in Keys |-> IF t[k] \in Files THEN data[t[k]] ELSE Nil]
Blobs   == BlobAt(tree)
Durable == BlobAt(disk)

\* a call on the dictionary
Visible(c) == call[c] # Nil /\ call[c].op # "list" /\ call[c].key \in Keys

PendingCall(c) ==
  IF ~ Visible(c) THEN Nil
  ELSE IF call[c].op = "put" THEN [call[c] EXCEPT !.val = Full(@)] ELSE call[c]
Calling == [c \in Clients |-> PendingCall(c)]

Outcome(c) ==
  CASE Visible(c) /\ pc[c] = "done" -> ret[c]
    [] Visible(c) /\ pc[c] = "read" -> Ok(data[file[c]])
    [] OTHER                        -> Nil
Outcomes == [c \in Clients |-> Outcome(c)]

Detached == {<<o.by, o.key>> : o \in {q \in orphans : q.op = "delete" /\ q.key \in Keys}}

\* The quota as it is documented (REQ-BK-104: writes "that exceed it" are rejected),
\* not as put computes it.
Fits(v) == MaxBytes = Nil \/ Size[v] <= MaxBytes

Abstract == INSTANCE BlobStore WITH
  Contents <- {Full(v) : v \in Values},
  Storable <- {Full(v) : v \in {w \in Values : Fits(w)}},
  Folders  <- Keys \cap Dirs,
  blobs    <- Blobs,
  durable  <- Durable,
  pending  <- Calling,
  outcome  <- Outcomes,
  detached <- Detached

\* Put, get, delete, exists and presigned_url of concurrent clients behave as
\* instantaneous operations on a dictionary of whole blobs; a failed call
\* changes nothing; a power failure falls back to an earlier dictionary.
ImplementsBlobStore == Abstract!Spec
==============================================================================
