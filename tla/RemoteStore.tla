------------------------------ MODULE RemoteStore ------------------------------
(***************************************************************************)
(* S3Store (s3.rs) and ObjectStoreBackend (object_store_backend.rs): each   *)
(* operation is one or two requests to an object service, sent through a    *)
(* client library.                                                          *)
(*                                                                         *)
(* Library and service are external.  The service handles one request at a  *)
(* time and is strongly consistent.  A connection may break before or after *)
(* the service acts on a request; the library then sends it again, or gives *)
(* the operation up when its attempts or its time are used.  A request left *)
(* behind by a retry, a timeout or a dropped future may still reach the     *)
(* service later.                                                           *)
(*                                                                         *)
(* `seen' is history: what every key held since a client's call began.      *)
(*                                                                         *)
(* A definition marked (slip) is not the code: it is what a plausible error *)
(* would turn the definition below it into, and some run notices it.        *)
(***************************************************************************)
EXTENDS ObjectKey

CONSTANTS Clients,
          KeySeq,     \* the object keys, in lexicographic order
          Values,
          ListArgs,   \* arguments of list
          Ops,        \* the operations clients call in this instance
          Backends,   \* "S3", "Stub" (S3Store without its feature), "ObjectStore" (GCS, Azure)
          PageSize,   \* keys a list response holds
          MaxLate,    \* bound on given-up requests under way at once
          Nil

Keys == ToSet(KeySeq)

ASSUME ConstantsAssumption ==
  /\ KeySeq \in Seq(Keys) /\ \A i, j \in DOMAIN KeySeq : KeySeq[i] = KeySeq[j] => i = j
  /\ \A k \in Keys : Validate(k)
  /\ Nil \notin Values
  /\ Ops \subseteq {"put", "get", "delete", "exists", "presign", "list"}
  /\ Backends \subseteq {"S3", "Stub", "ObjectStore"}
  /\ PageSize \in Nat \ {0} /\ MaxLate \in Nat

VARIABLES backend,   \* the backend of this behaviour
          bucket,    \* whether the configured bucket exists
          objects,   \* what the service stores
          late,      \* given-up requests that may still take effect
          pc,        \* where each client is
          call,      \* its latest call
          req,       \* the request it waits for
          reply,     \* the service's answer
          cursor,    \* how many keys a list has passed
          found,     \* keys it has collected
          ret,       \* result of the latest call
          seen

config == <<backend, bucket>>
vars == <<backend, bucket, objects, late, pc, call, req, reply, cursor, found, ret, seen>>

Call(op, key, val) == [op |-> op, key |-> key, val |-> val]
Ok(val) == [st |-> "Ok", val |-> val]
Err(e)  == [st |-> e, val |-> Nil]
Answer(b) == [st |-> IF b THEN "True" ELSE "False", val |-> Nil]
Key(c) == call[c].key
Op(c) == call[c].op

Init ==
  /\ backend \in Backends /\ bucket \in BOOLEAN
  /\ objects = [k \in Keys |-> Nil]
  /\ late = {}
  /\ pc = [c \in Clients |-> "idle"]
  /\ call = [c \in Clients |-> Nil]
  /\ req = [c \in Clients |-> Nil]
  /\ reply = [c \in Clients |-> Nil]
  /\ cursor = [c \in Clients |-> 0] /\ found = [c \in Clients |-> {}]
  /\ ret = [c \in Clients |-> Nil]
  /\ seen = [c \in Clients |-> [k \in Keys |-> {}]]

Done(c, r) ==
  /\ pc' = [pc EXCEPT ![c] = "done"]
  /\ ret' = [ret EXCEPT ![c] = r]
  /\ req' = [req EXCEPT ![c] = Nil]
  /\ reply' = [reply EXCEPT ![c] = Nil]
  /\ cursor' = [cursor EXCEPT ![c] = 0]

Send(c, r) ==
  /\ pc' = [pc EXCEPT ![c] = "sent"]
  /\ req' = [req EXCEPT ![c] = r]
  /\ reply' = [reply EXCEPT ![c] = Nil]

(***************************************************************************)
(* Calls                                                                    *)
(***************************************************************************)
CallArgs(op) ==
  CASE op = "put"  -> Keys \X Values
    [] op = "list" -> ListArgs \X {Nil}
    [] OTHER       -> Keys \X {Nil}

\* the keys the result of a call speaks of
Watched(cl) == IF cl.op = "list" THEN Keys ELSE {cl.key}

Invoke(c) ==
  /\ pc[c] \in {"idle", "done"}
  /\ \E op \in Ops : \E a \in CallArgs(op) :
       call' = [call EXCEPT ![c] = Call(op, a[1], a[2])]
  /\ pc' = [pc EXCEPT ![c] = "start"]
  /\ ret' = [ret EXCEPT ![c] = Nil] /\ found' = [found EXCEPT ![c] = {}]
  /\ seen' = [seen EXCEPT ![c] =
       [k \in Keys |-> IF k \in Watched(call'[c]) THEN {objects[k]} ELSE {}]]
  /\ UNCHANGED <<config, objects, late, req, reply, cursor>>

\* str::trim_matches('/')
Trim(s) ==
  LET inner == {i \in 1..Len(s) : s[i] # Slash}
  IN  IF inner = {} THEN <<>> ELSE SubSeq(s, Min(inner), Max(inner))

\* object_store's Path::parse refuses empty, "." and ".." segments
PathParses(s) ==
  s = <<>> \/ {<<>>, <<Dot>>, DotDot} \cap ToSet(Split(s)) = {}

Refuse(c) ==   \* key_path() fails
  /\ pc[c] = "start" /\ backend = "ObjectStore"
  /\ ~ PathParses(Trim(Key(c)))
  /\ Done(c, Err("InvalidKey"))
  /\ UNCHANGED <<config, objects, late, call, found, seen>>

Begin(c, op) ==
  /\ pc[c] = "start" /\ Op(c) = op /\ backend # "Stub"
  /\ backend = "ObjectStore" => PathParses(Trim(Key(c)))

Stub(c) ==   \* S3Store without its feature
  /\ pc[c] = "start" /\ backend = "Stub"
  /\ Done(c, Err("Unsupported"))
  /\ UNCHANGED <<config, objects, late, call, found, seen>>

ListUnsupported(c) ==   \* S3Store keeps the trait's default list
  /\ Begin(c, "list") /\ backend = "S3"
  /\ Done(c, Err("Unsupported"))
  /\ UNCHANGED <<config, objects, late, call, found, seen>>

Presign(c) ==   \* signed locally, if the credentials can sign; nobody looks for the object
  /\ Begin(c, "presign")
  /\ \E e \in {"Ok", "PermissionDenied", "Other"} :
       /\ backend = "S3" => e # "PermissionDenied"
       /\ Done(c, [st |-> e, val |-> Nil])
  /\ UNCHANGED <<config, objects, late, call, found, seen>>

\* (slip) ObjectStoreBackend deletes without looking first
FirstRequestNoHead(c) == IF Op(c) = "exists" THEN "head" ELSE Op(c)

\* ObjectStoreBackend asks whether the object exists before it deletes it
FirstRequest(c) ==
  IF Op(c) = "exists" \/ (Op(c) = "delete" /\ backend = "ObjectStore") THEN "head" ELSE Op(c)

Request(c) ==
  /\ \E op \in {"put", "get", "delete", "exists", "list"} : Begin(c, op)
  /\ Op(c) = "list" => backend = "ObjectStore"
  /\ Send(c, FirstRequest(c))
  /\ UNCHANGED <<config, objects, late, call, cursor, found, ret, seen>>

(***************************************************************************)
(* The service (external)                                                   *)
(***************************************************************************)
Apply(r, key, val) ==
  CASE bucket /\ r = "put"    -> [objects EXCEPT ![key] = val]
    [] bucket /\ r = "delete" -> [objects EXCEPT ![key] = Nil]
    [] OTHER                  -> objects

Observe ==
  seen' = [c \in Clients |->
    IF pc[c] \in {"idle", "done"} THEN seen[c]
    ELSE [k \in Keys |-> IF k \in Watched(call[c]) THEN seen[c][k] \cup {objects'[k]} ELSE {}]]

\* keys strictly below the prefix, compared segment by segment
Below(prefix, key) == IsStrictPrefix(prefix, Split(key))
PathPrefix(arg) == IF Trim(arg) = <<>> THEN <<>> ELSE Split(Trim(arg))

Remaining(c) ==
  {i \in (cursor[c] + 1)..Len(KeySeq) :
     objects[KeySeq[i]] # Nil /\ Below(PathPrefix(Key(c)), KeySeq[i])}
Page(c) ==
  {i \in Remaining(c) : Cardinality({j \in Remaining(c) : j < i}) < PageSize}

\* deleting what is not there is a success for S3, a 404 for GCS and Azure
Response(c) ==
  IF ~ bucket THEN Err("NotFound")
  ELSE CASE req[c] = "list" -> Ok([keys |-> Page(c), more |-> Page(c) # Remaining(c)])
         [] req[c] \in {"get", "head"} ->
              IF objects[Key(c)] = Nil THEN Err("NotFound") ELSE Ok(objects[Key(c)])
         [] req[c] = "delete" ->
              IF objects[Key(c)] = Nil /\ backend = "ObjectStore" THEN Err("NotFound") ELSE Ok(Nil)
         [] OTHER -> Ok(Nil)

Responses ==
  [st : {"Ok", "NotFound", "Denied", "Internal"},
   val : Values \cup {Nil} \cup [keys : SUBSET (1..Len(KeySeq)), more : BOOLEAN]]

ASSUME NilAssumption == Nil \notin Responses

Serve(c) ==
  /\ pc[c] = "sent"
  /\ objects' = Apply(req[c], Key(c), call[c].val)
  /\ reply' = [reply EXCEPT ![c] = Response(c)]
  /\ pc' = [pc EXCEPT ![c] = "answered"]
  /\ Observe
  /\ UNCHANGED <<config, late, call, req, cursor, found, ret>>

ServeFails(c) ==   \* 401 and 403, or a 5xx
  /\ pc[c] = "sent"
  /\ \E e \in {"Denied", "Internal"} : reply' = [reply EXCEPT ![c] = Err(e)]
  /\ pc' = [pc EXCEPT ![c] = "answered"]
  /\ UNCHANGED <<config, objects, late, call, req, cursor, found, ret, seen>>

LateServe ==
  /\ \E r \in late :
       /\ late' = late \ {r}
       /\ objects' = Apply(r.req, r.key, r.val) \/ objects' = objects
  /\ Observe
  /\ UNCHANGED <<config, pc, call, req, reply, cursor, found, ret>>

\* the request under way is given up: lost, or left to arrive late
Leave(c) ==
  \/ late' = late
  \/ /\ pc[c] = "sent" /\ req[c] \in {"put", "delete"} /\ Cardinality(late) < MaxLate
     /\ late' = late \cup {[req |-> req[c], key |-> Key(c), val |-> call[c].val]}

Waiting(c) == pc[c] \in {"sent", "answered"}

Resend(c) ==   \* the request, or the answer on its way, was lost
  /\ Waiting(c)
  /\ Leave(c)
  /\ reply' = [reply EXCEPT ![c] = Nil]
  /\ pc' = [pc EXCEPT ![c] = "sent"]
  /\ UNCHANGED <<config, objects, call, req, cursor, found, ret, seen>>

(***************************************************************************)
(* What the stores make of an answer                                        *)
(***************************************************************************)
\* The service's errors in the model are of these three classes.  The further ones
\* of object_store (AlreadyExists, NotSupported, NotImplemented, InvalidPath), which
\* the requests here are not answered with, are left out.
MapError(e) ==
  CASE e = "NotFound" -> Err("NotFound")
    [] e = "Denied"   -> Err("PermissionDenied")
    [] OTHER          -> Err("Other")

Answered(c, r) == pc[c] = "answered" /\ req[c] = r
Keep == UNCHANGED <<config, objects, late, call, seen>>

\* (slip) the result of the request is not looked at
PutAnswerIgnored(c) ==
  /\ Answered(c, "put")
  /\ Done(c, Ok(Nil))
  /\ Keep /\ UNCHANGED found

PutAnswer(c) ==
  /\ Answered(c, "put")
  /\ Done(c, IF reply[c].st = "Ok" THEN Ok(Nil) ELSE MapError(reply[c].st))
  /\ Keep /\ UNCHANGED found

GetAnswer(c) ==
  /\ Answered(c, "get")
  /\ Done(c, IF reply[c].st = "Ok" THEN Ok(reply[c].val) ELSE MapError(reply[c].st))
  /\ Keep /\ UNCHANGED found

\* (slip) a body that breaks off counts as an empty one
GetBodyDefault(c) ==
  /\ Answered(c, "get") /\ reply[c].st = "Ok"
  /\ Done(c, Ok(Nil))
  /\ Keep /\ UNCHANGED found

GetBodyFails(c) ==   \* the connection breaks while the body is collected
  /\ Answered(c, "get") /\ reply[c].st = "Ok"
  /\ Done(c, Err("Other"))
  /\ Keep /\ UNCHANGED found

\* (slip) every error means absent
HeadResultAbsent(c) == Answer(reply[c].st = "Ok")

HeadResult(c) ==
  CASE reply[c].st = "Ok"       -> Answer(TRUE)
    [] reply[c].st = "NotFound" -> Answer(FALSE)
    [] OTHER                    -> MapError(reply[c].st)

ExistsAnswer(c) ==
  /\ Answered(c, "head") /\ Op(c) = "exists"
  /\ Done(c, HeadResult(c))
  /\ Keep /\ UNCHANGED found

DeleteLooked(c) ==   \* ObjectStoreBackend: not there, or the look failed
  /\ Answered(c, "head") /\ Op(c) = "delete" /\ HeadResult(c) # Answer(TRUE)
  /\ Done(c, IF HeadResult(c) = Answer(FALSE) THEN Err("NotFound") ELSE HeadResult(c))
  /\ Keep /\ UNCHANGED found

DeleteFound(c) ==
  /\ Answered(c, "head") /\ Op(c) = "delete" /\ HeadResult(c) = Answer(TRUE)
  /\ Send(c, "delete")
  /\ Keep /\ UNCHANGED <<cursor, found, ret>>

\* ObjectStoreBackend: deleted by someone else since the look is fine
DeleteAnswer(c) ==
  /\ Answered(c, "delete")
  /\ Done(c, IF reply[c].st = "Ok" \/ (reply[c].st = "NotFound" /\ backend = "ObjectStore")
             THEN Ok(Nil) ELSE MapError(reply[c].st))
  /\ Keep /\ UNCHANGED found

\* (slip) the page after next
NextCursorPast(page) == Max(page.keys) + 1

NextCursor(page) == Max(page.keys)

\* (slip) one page is taken for all of them
ListPageOnlyFirst(c) ==
  /\ Answered(c, "list") /\ reply[c].st = "Ok"
  /\ found' = [found EXCEPT ![c] = @ \cup
       {KeySeq[i] : i \in {j \in reply[c].val.keys : MatchesPrefix(Key(c), KeySeq[j])}}]
  /\ Done(c, Ok(Nil))
  /\ Keep

\* list: the pages of the stream, filtered by the raw prefix
ListPage(c) ==
  /\ Answered(c, "list") /\ reply[c].st = "Ok"
  /\ LET page == reply[c].val IN
       /\ found' = [found EXCEPT ![c] = @ \cup
            {KeySeq[i] : i \in {j \in page.keys : MatchesPrefix(Key(c), KeySeq[j])}}]
       /\ IF page.more
          THEN /\ Send(c, "list")
               /\ cursor' = [cursor EXCEPT ![c] = NextCursor(page)]
               /\ UNCHANGED ret
          ELSE Done(c, Ok(Nil))
  /\ Keep

ListFails(c) ==
  /\ Answered(c, "list") /\ reply[c].st # "Ok"
  /\ Done(c, MapError(reply[c].st))
  /\ found' = [found EXCEPT ![c] = {}]
  /\ Keep

GiveUp(c) ==   \* no attempt is left, or the operation's timeout has passed
  /\ Waiting(c) /\ Leave(c)
  /\ Done(c, Err("Other"))
  /\ found' = [found EXCEPT ![c] = {}]
  /\ UNCHANGED <<config, objects, call, seen>>

Cancel(c) ==   \* the caller drops the future
  /\ Waiting(c) /\ Leave(c)
  /\ pc' = [pc EXCEPT ![c] = "idle"]
  /\ call' = [call EXCEPT ![c] = Nil]
  /\ req' = [req EXCEPT ![c] = Nil]
  /\ reply' = [reply EXCEPT ![c] = Nil]
  /\ cursor' = [cursor EXCEPT ![c] = 0] /\ found' = [found EXCEPT ![c] = {}]
  /\ seen' = [seen EXCEPT ![c] = [k \in Keys |-> {}]]
  /\ UNCHANGED <<config, objects, ret>>

Answers(c) ==
  \/ PutAnswer(c) \/ GetAnswer(c) \/ GetBodyFails(c)
  \/ ExistsAnswer(c) \/ DeleteLooked(c) \/ DeleteFound(c) \/ DeleteAnswer(c)
  \/ ListPage(c) \/ ListFails(c)

Step(c) ==
  \/ Refuse(c) \/ Stub(c) \/ ListUnsupported(c) \/ Presign(c) \/ Request(c)
  \/ Answers(c) \/ GiveUp(c)

Next ==
  \/ \E c \in Clients :
       Invoke(c) \/ Step(c) \/ Serve(c) \/ ServeFails(c) \/ Resend(c) \/ Cancel(c)
  \/ LateServe

Spec == Init /\ [][Next]_vars

(***************************************************************************)
(* Properties                                                               *)
(***************************************************************************)
\* The types of the variables; a client has an answer exactly when one came, and
\* a list asks for a further page only where keys are left.
TypeOK ==
  /\ backend \in Backends /\ bucket \in BOOLEAN
  /\ objects \in [Keys -> Values \cup {Nil}]
  /\ \A r \in late : r.req \in {"put", "delete"} /\ r.key \in Keys
  /\ pc \in [Clients -> {"idle", "start", "sent", "answered", "done"}]
  /\ \A c \in Clients : call[c] # Nil => Op(c) \in Ops /\ Key(c) \in Keys \cup ListArgs
  /\ req \in [Clients -> {"put", "get", "delete", "head", "list", Nil}]
  /\ \A c \in Clients : reply[c] # Nil <=> pc[c] = "answered"
  /\ cursor \in [Clients -> {0} \cup 1..(Len(KeySeq) - 1)]
  /\ found \in [Clients -> SUBSET Keys]
  /\ seen \in [Clients -> [Keys -> SUBSET (Values \cup {Nil})]]

Held(c) == seen[c][Key(c)]

\* the step in which a call returns
Returns(c, op, st) ==
  /\ pc[c] # "done" /\ pc'[c] = "done"
  /\ Op(c) = op /\ ret'[c].st = st

\* A put that returns Ok was applied during the call; no retry, lost answer or
\* error of the service is ever reported as success.
PutApplied ==
  [][\A c \in Clients : Returns(c, "put", "Ok") => call[c].val \in Held(c)]_vars

\* A get returns a blob the key held during the call, whole, and NotFound only
\* if the key held none at some moment of it.
GetJustified ==
  [][\A c \in Clients :
       /\ Returns(c, "get", "Ok") => ret'[c].val \in Held(c) \ {Nil}
       /\ Returns(c, "get", "NotFound") => Nil \in Held(c)]_vars

\* exists answers what was true at some moment of the call; an error of the
\* service is never an answer.
ExistsJustified ==
  [][\A c \in Clients :
       /\ Returns(c, "exists", "True")  => Held(c) # {Nil}
       /\ Returns(c, "exists", "False") => Nil \in Held(c)]_vars

\* After Ok the object was gone at some moment of the call, and NotFound is
\* returned only if it was gone at some moment of it.  ObjectStoreBackend
\* returns Ok only if there was an object to delete, however its two requests
\* interleave with those of others or are sent again.
DeleteJustified ==
  [][\A c \in Clients :
       /\ Returns(c, "delete", "Ok") => Nil \in Held(c)
       /\ Returns(c, "delete", "Ok") /\ backend = "ObjectStore" => Held(c) # {Nil}
       /\ Returns(c, "delete", "NotFound") => Nil \in Held(c)]_vars

Matching(c, S) == {k \in S : MatchesPrefix(Key(c), k)}
Throughout(c) == {k \in Keys : Nil \notin seen[c][k]}
Sometime(c)   == {k \in Keys : seen[c][k] # {Nil}}

\* No page of a listing is lost or read twice, whatever happens between the
\* requests: of the keys below the directory the prefix names, those that match
\* and were there all along are reported, on whichever page they came, and
\* nothing is reported that does not match or was never there.
PagesComplete ==
  [][\A c \in Clients : Returns(c, "list", "Ok") =>
       /\ Matching(c, {k \in Throughout(c) : Below(PathPrefix(Key(c)), k)}) \subseteq found'[c]
       /\ found'[c] \subseteq Matching(c, Sometime(c))]_vars

\* store.rs: delete "Returns NotFound if the key does not exist" - so Ok means
\* that it existed at some moment of the call.
DeleteReportsMissing ==
  [][\A c \in Clients : Returns(c, "delete", "Ok") => Held(c) # {Nil}]_vars

\* store.rs: the prefix of list "is a raw string prefix", so that list("a") "also
\* matches keys like aa.txt": every key that matches and was there is reported.
ListsPrefix ==
  [][\A c \in Clients : Returns(c, "list", "Ok") =>
       Matching(c, Throughout(c)) \subseteq found'[c]]_vars
==============================================================================
