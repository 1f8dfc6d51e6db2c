----------------------------- MODULE MemoryStore -----------------------------
(***************************************************************************)
(* MemoryStore (memory.rs) used by several threads at once.                 *)
(*                                                                         *)
(* The map is external.  A DashMap (feature "memory") is split into shards, *)
(* each behind a lock of its own; keys go to shards by a random hash.  An   *)
(* operation on one key holds the lock of one shard and is one step; list,  *)
(* list_keys, len and clear visit the shards one after the other, and other *)
(* threads run between two visits.  Without the feature there is one        *)
(* Mutex<HashMap>: the case where one shard holds every key.                *)
(*                                                                         *)
(* `always', `ever' and `fresh' are history.                                *)
(*                                                                         *)
(* A definition marked (slip) is not the code: it is what a plausible error *)
(* would turn the definition below it into, and some run notices it.        *)
(***************************************************************************)
EXTENDS ObjectKey

CONSTANTS Clients,
          Keys,      \* object keys
          Values,
          ListArgs,  \* arguments of list
          Shards,    \* the number of shards
          Nil

ASSUME ConstantsAssumption ==
  /\ \A k \in Keys : Validate(k)
  /\ IsFiniteSet(Keys)   \* a valid key has at most MAX_KEY_LEN bytes
  /\ Shards \in Nat \ {0}
  /\ Nil \notin Values

VARIABLES home,    \* the shard each key belongs to
          inner,   \* the entry of each key
          ret,     \* result of a thread's latest call, if that was on one key
          scan,    \* the list, list_keys, len or clear it is in, or came out of
          next,    \* the shard it visits next
          found,   \* keys collected
          count,   \* keys counted
          always,  \* keys present ever since the list or len began
          ever,    \* keys present at some time since then
          fresh    \* keys put since the clear began

vars == <<home, inner, ret, scan, next, found, count, always, ever, fresh>>

Present == {k \in Keys : inner[k] # Nil}

Init ==
  /\ home \in [Keys -> 1..Shards]
  /\ inner = [k \in Keys |-> Nil]
  /\ ret = [c \in Clients |-> Nil]
  /\ scan = [c \in Clients |-> Nil]
  /\ next = [c \in Clients |-> Shards + 1]
  /\ found = [c \in Clients |-> {}] /\ count = [c \in Clients |-> 0]
  /\ always = [c \in Clients |-> {}] /\ ever = [c \in Clients |-> {}]
  /\ fresh = [c \in Clients |-> {}]

Scanned(c) == next[c] = Shards + 1   \* no scan is under way

Visits(c, op) == ~ Scanned(c) /\ scan[c].op = op
Counted(c) == Visits(c, "list") \/ Visits(c, "len")

\* what the step means to the scans whose results it may matter to
Observe(put) ==
  /\ always' = [c \in Clients |->
       IF Counted(c) THEN always[c] \cap Present' ELSE IF scan'[c] = Nil THEN {} ELSE always[c]]
  /\ ever' = [c \in Clients |->
       IF Counted(c) THEN ever[c] \cup Present' ELSE IF scan'[c] = Nil THEN {} ELSE ever[c]]
  /\ fresh' = [c \in Clients |->
       IF scan'[c] # Nil /\ scan'[c].op = "clear" THEN fresh[c] \cup put ELSE {}]

(***************************************************************************)
(* Operations on one key: one step under the lock of one shard              *)
(***************************************************************************)
Returns(c, r) ==
  /\ Scanned(c)
  /\ ret' = [ret EXCEPT ![c] = r]
  /\ scan' = [scan EXCEPT ![c] = Nil]
  /\ found' = [found EXCEPT ![c] = {}] /\ count' = [count EXCEPT ![c] = 0]
  /\ UNCHANGED <<home, next>>

Put(c, k) ==   \* data and metadata are replaced together, as one Entry
  /\ \E v \in Values : inner' = [inner EXCEPT ![k] = v]
  /\ Returns(c, "Ok")
  /\ Observe({k})

Delete(c, k) ==
  /\ inner' = [inner EXCEPT ![k] = Nil]
  /\ Returns(c, IF inner[k] # Nil THEN "Ok" ELSE "NotFound")
  /\ Observe({})

Get(c, k) ==   \* metadata() reads the other half of the same Entry
  /\ Returns(c, IF inner[k] # Nil THEN inner[k] ELSE "NotFound")
  /\ UNCHANGED inner /\ Observe({})

Exists(c, k) ==
  /\ Returns(c, IF inner[k] # Nil THEN "True" ELSE "False")
  /\ UNCHANGED inner /\ Observe({})

Presign(c) ==
  /\ Returns(c, "Unsupported")
  /\ UNCHANGED inner /\ Observe({})

(***************************************************************************)
(* Scans: list, list_keys (the list of every key), len, is_empty, clear     *)
(***************************************************************************)
Scans == {[op |-> "list", arg |-> a] : a \in ListArgs \cup {<<>>}}
           \cup {[op |-> op, arg |-> <<>>] : op \in {"len", "clear"}}

ASSUME NilAssumption == Nil \notin Scans

Begin(c) ==
  /\ Scanned(c)
  /\ \E s \in Scans : scan' = [scan EXCEPT ![c] = s]
  /\ next' = [next EXCEPT ![c] = 1]
  /\ found' = [found EXCEPT ![c] = {}] /\ count' = [count EXCEPT ![c] = 0]
  /\ ret' = [ret EXCEPT ![c] = Nil]
  /\ LET start == IF scan'[c].op = "clear" THEN {} ELSE Present IN
       always' = [always EXCEPT ![c] = start] /\ ever' = [ever EXCEPT ![c] = start]
  /\ fresh' = [fresh EXCEPT ![c] = {}]
  /\ UNCHANGED <<home, inner>>

\* (slip) a visit sees the entries of every shard
ShardKeysAll(s) == {k \in Present : s \in 1..Shards}

ShardKeys(s) == {k \in Present : home[k] = s}

\* (slip) one visit too many
AdvancePast(c) ==
  next' = [next EXCEPT ![c] = IF @ = Shards THEN Shards + 2 ELSE @ + 1]

Advance(c) == next' = [next EXCEPT ![c] = @ + 1]

\* (slip) the prefix is not looked at
ListShardUnfiltered(c) ==
  /\ Visits(c, "list")
  /\ found' = [found EXCEPT ![c] = @ \cup ShardKeys(next[c])]
  /\ Advance(c)
  /\ UNCHANGED <<home, inner, ret, scan, count, always, ever, fresh>>

ListShard(c) ==
  /\ Visits(c, "list")
  /\ found' = [found EXCEPT ![c] =
       @ \cup {k \in ShardKeys(next[c]) : IsPrefix(scan[c].arg, k)}]
  /\ Advance(c)
  /\ UNCHANGED <<home, inner, ret, scan, count, always, ever, fresh>>

LenShard(c) ==
  /\ Visits(c, "len")
  /\ count' = [count EXCEPT ![c] = @ + Cardinality(ShardKeys(next[c]))]
  /\ Advance(c)
  /\ UNCHANGED <<home, inner, ret, scan, found, always, ever, fresh>>

\* (slip) a shard with a single entry is passed over
ClearShardSkipped(c) ==
  /\ Visits(c, "clear")
  /\ inner' = [k \in Keys |->
       IF home[k] = next[c] /\ Cardinality(ShardKeys(next[c])) # 1 THEN Nil ELSE inner[k]]
  /\ Advance(c)
  /\ UNCHANGED <<home, ret, scan, found, count>>
  /\ Observe({})

ClearShard(c) ==
  /\ Visits(c, "clear")
  /\ inner' = [k \in Keys |-> IF home[k] = next[c] THEN Nil ELSE inner[k]]
  /\ Advance(c)
  /\ UNCHANGED <<home, ret, scan, found, count>>
  /\ Observe({})

Next == \E c \in Clients :
  \/ \E k \in Keys : Put(c, k) \/ Get(c, k) \/ Delete(c, k) \/ Exists(c, k)
  \/ Presign(c) \/ Begin(c)
  \/ ListShard(c) \/ LenShard(c) \/ ClearShard(c)

Spec == Init /\ [][Next]_vars

(***************************************************************************)
(* Properties                                                               *)
(***************************************************************************)
\* The types of the variables; a scan ends behind the last shard.
TypeOK ==
  /\ home \in [Keys -> 1..Shards]
  /\ inner \in [Keys -> Values \cup {Nil}]
  /\ ret \in [Clients -> Values \cup {"Ok", "NotFound", "True", "False", "Unsupported", Nil}]
  /\ scan \in [Clients -> Scans \cup {Nil}]
  /\ next \in [Clients -> 1..(Shards + 1)]
  /\ found \in [Clients -> SUBSET Keys] /\ count \in [Clients -> 0..Cardinality(Keys)]
  /\ \A h \in {always, ever, fresh} : h \in [Clients -> SUBSET Keys]

Ended(c, op) == scan[c] # Nil /\ scan[c].op = op /\ Scanned(c)
Matching(c, S) == {k \in S : IsPrefix(scan[c].arg, k)}

\* list reports every matching key that was there throughout, and none that
\* did not match or was there at no time of the call, while other threads put,
\* delete and clear between its visits (MemoryStore::list, list_keys).
ListFaithful ==
  \A c \in Clients : Ended(c, "list") =>
    /\ Matching(c, always[c]) \subseteq found[c]
    /\ found[c] \subseteq Matching(c, ever[c])

\* len counts every key that was there throughout and no key twice, so is_empty
\* answers false as long as some key stays (MemoryStore::len, is_empty).
LenBounded ==
  \A c \in Clients : Ended(c, "len") =>
    Cardinality(always[c]) <= count[c] /\ count[c] <= Cardinality(ever[c])

\* After clear nothing is left but what was put since it began
\* (MemoryStore::clear).
ClearRemoves ==
  \A c \in Clients : Ended(c, "clear") => Present \subseteq fresh[c]
==============================================================================
