--------------------------- MODULE MemoryStoreProofs ---------------------------
(***************************************************************************)
(* MemoryStore, for any number of threads, keys, payloads and shards and    *)
(* any distribution of the keys over the shards: its types, and what list,  *)
(* list_keys, len, is_empty and clear promise while other threads change    *)
(* the shards between their visits.                                         *)
(*                                                                         *)
(* The three promises are about a scan that has ended.  The invariant is    *)
(* what holds of one that has come as far as shard next[c]: the promise,    *)
(* cut down to the keys of the shards before it (Passed).                   *)
(***************************************************************************)
EXTENDS MemoryStore, FiniteSetTheorems, TLAPS

USE NilAssumption

Passed(c, S) == {k \in S : home[k] < next[c]}
ScanOf(c, op) == scan[c] # Nil /\ scan[c].op = op

\* the history of a list or len under way
Watches(c) == Counted(c) => always[c] \subseteq Present /\ Present \subseteq ever[c]

ListSoFar(c) ==
  ScanOf(c, "list") =>
    /\ Matching(c, Passed(c, always[c])) \subseteq found[c]
    /\ found[c] \subseteq Matching(c, ever[c])

LenSoFar(c) ==
  IF ScanOf(c, "len")
  THEN Cardinality(Passed(c, always[c])) <= count[c] /\ count[c] <= Cardinality(Passed(c, ever[c]))
  ELSE count[c] = 0

ClearSoFar(c) == ScanOf(c, "clear") => Passed(c, Present) \subseteq fresh[c]

ScanInv(c) ==
  /\ scan[c] = Nil => Scanned(c)
  /\ Watches(c) /\ ListSoFar(c) /\ LenSoFar(c) /\ ClearSoFar(c)

\* TypeOK, but that count[c] stays below the number of keys: that takes LenSoFar
Types ==
  /\ home \in [Keys -> 1..Shards]
  /\ inner \in [Keys -> Values \cup {Nil}]
  /\ ret \in [Clients -> Values \cup {"Ok", "NotFound", "True", "False", "Unsupported", Nil}]
  /\ scan \in [Clients -> Scans \cup {Nil}]
  /\ next \in [Clients -> 1..(Shards + 1)]
  /\ found \in [Clients -> SUBSET Keys] /\ count \in [Clients -> Nat]
  /\ always \in [Clients -> SUBSET Keys] /\ ever \in [Clients -> SUBSET Keys]
  /\ fresh \in [Clients -> SUBSET Keys]

Inv == Types /\ \A c \in Clients : ScanInv(c)

(***************************************************************************)
(* Sets of keys are finite: a key has at most MAX_KEY_LEN bytes.            *)
(***************************************************************************)
LEMMA KeySets ==
  ASSUME NEW T \in SUBSET Keys, NEW S \in SUBSET T
  PROVE  /\ IsFiniteSet(S) /\ Cardinality(S) \in Nat /\ Cardinality(T) \in Nat
         /\ Cardinality(S) <= Cardinality(T)
  <1>1. IsFiniteSet(T)
    BY FS_Subset, ConstantsAssumption
  <1> QED
    BY <1>1, FS_Subset, FS_CardinalityType

LEMMA KeySetsApart ==
  ASSUME NEW S \in SUBSET Keys, NEW T \in SUBSET Keys, S \cap T = {}
  PROVE  Cardinality(S \cup T) = Cardinality(S) + Cardinality(T)
  <1>1. IsFiniteSet(S) /\ IsFiniteSet(T) /\ Cardinality(S) \in Nat /\ Cardinality(T) \in Nat
    BY KeySets
  <1>2. Cardinality(S \cup T) = Cardinality(S) + Cardinality(T) - Cardinality(S \cap T)
    BY <1>1, FS_Union
  <1>3. Cardinality(S \cap T) = 0
    <2>1. Cardinality({}) = 0
      BY FS_EmptySet
    <2> QED
      BY <2>1, Zenon
  <1> QED
    BY <1>1, <1>2, <1>3

LEMMA ShardsPositive == Shards \in Nat \ {0} /\ Nil \notin Scans
  BY ConstantsAssumption

(***************************************************************************)
(* The scans of the threads a step leaves alone.                            *)
(***************************************************************************)
SameScan(d) ==
  scan'[d] = scan[d] /\ next'[d] = next[d] /\ found'[d] = found[d] /\ count'[d] = count[d]

LEMMA UnseenScan ==
  ASSUME NEW d \in Clients, ScanInv(d), SameScan(d), UNCHANGED <<home, inner>>,
         always'[d] = always[d], ever'[d] = ever[d], fresh'[d] = fresh[d]
  PROVE  ScanInv(d)'
  <1>1. Present' = Present
    BY DEF Present
  <1>2. /\ Passed(d, always[d])' = Passed(d, always[d]) /\ Passed(d, ever[d])' = Passed(d, ever[d])
        /\ Passed(d, Present)' = Passed(d, Present)
    BY <1>1 DEF SameScan, Passed
  <1>3. (\A op : ScanOf(d, op)' <=> ScanOf(d, op)) /\ (Counted(d)' <=> Counted(d))
        /\ (Scanned(d)' <=> Scanned(d))
    BY DEF SameScan, ScanOf, Counted, Visits, Scanned
  <1> QED
    BY <1>1, <1>2, <1>3
       DEF ScanInv, SameScan, Watches, ListSoFar, LenSoFar, ClearSoFar, Matching

\* Another thread changes entries: what was there throughout can only lose keys,
\* what was there at some time only gain some, and so can what clear may leave.
LEMMA SeenScan ==
  ASSUME Types, NEW d \in Clients, ScanInv(d), SameScan(d), home' = home,
         NEW put \in SUBSET Keys, Observe(put), Present' \subseteq Present \cup put
  PROVE  ScanInv(d)'
  <1>1. /\ always'[d] = IF Counted(d) THEN always[d] \cap Present'
                        ELSE IF scan'[d] = Nil THEN {} ELSE always[d]
        /\ ever'[d] = IF Counted(d) THEN ever[d] \cup Present'
                      ELSE IF scan'[d] = Nil THEN {} ELSE ever[d]
        /\ fresh'[d] = IF scan'[d] # Nil /\ scan'[d].op = "clear" THEN fresh[d] \cup put ELSE {}
    BY DEF Observe
  <1>2. (Counted(d)' <=> Counted(d)) /\ (Scanned(d)' <=> Scanned(d))
    BY DEF SameScan, Counted, Visits, Scanned
  <1>3. Watches(d)'
    BY <1>1, <1>2 DEF Watches
  <1>4. ASSUME scan[d] # Nil PROVE always'[d] \subseteq always[d] /\ ever[d] \subseteq ever'[d]
    BY <1>1, <1>4 DEF SameScan
  <1>5. ListSoFar(d)'
    <2> SUFFICES ASSUME ScanOf(d, "list")'
                 PROVE  /\ Matching(d, Passed(d, always[d]))' \subseteq found'[d]
                        /\ found'[d] \subseteq Matching(d, ever[d])'
      BY DEF ListSoFar
    <2>1. scan[d] # Nil /\ ScanOf(d, "list")
      BY DEF ScanOf, SameScan
    <2>2. /\ Matching(d, Passed(d, always[d]))' \subseteq Matching(d, Passed(d, always[d]))
          /\ Matching(d, ever[d]) \subseteq Matching(d, ever[d])'
      BY <1>4, <2>1 DEF Matching, Passed, SameScan
    <2> QED
      BY <2>1, <2>2 DEF ScanInv, ListSoFar, SameScan
  <1>6. LenSoFar(d)'
    <2>1. CASE ~ ScanOf(d, "len")
      BY <2>1 DEF ScanInv, LenSoFar, SameScan, ScanOf
    <2>2. CASE ScanOf(d, "len")
      <3> DEFINE oldA == Passed(d, always[d])
                 oldE == Passed(d, ever[d])
                 newA == {k \in always'[d] : home'[k] < next'[d]}
                 newE == {k \in ever'[d] : home'[k] < next'[d]}
      <3>1. scan[d] # Nil
        BY <2>2 DEF ScanOf
      <3>2. oldA \in SUBSET Keys /\ newA \in SUBSET oldA
        BY <1>4, <3>1 DEF Types, Passed, SameScan
      <3>3. newE \in SUBSET Keys /\ oldE \in SUBSET newE
        BY <1>1, <1>4, <3>1 DEF Types, Passed, SameScan, Present
      <3>4. count[d] \in Nat /\ Cardinality(oldA) <= count[d] /\ count[d] <= Cardinality(oldE)
        BY <2>2 DEF ScanInv, LenSoFar, Types
      <3>5. count'[d] = count[d] /\ ScanOf(d, "len")'
        BY <2>2 DEF SameScan, ScanOf
      <3>6. newA = Passed(d, always[d])' /\ newE = Passed(d, ever[d])'
        BY DEF Passed
      <3> HIDE DEF oldA, oldE, newA, newE
      <3>7. Cardinality(newA) <= count'[d] /\ count'[d] <= Cardinality(newE)
        <4>1. Cardinality(newA) <= Cardinality(oldA) /\ Cardinality(oldE) <= Cardinality(newE)
              /\ Cardinality(newA) \in Nat /\ Cardinality(oldA) \in Nat
              /\ Cardinality(newE) \in Nat /\ Cardinality(oldE) \in Nat
          BY <3>2, <3>3, KeySets
        <4> QED
          BY <3>4, <3>5, <4>1
      <3> QED
        BY <3>5, <3>6, <3>7 DEF LenSoFar
    <2> QED
      BY <2>1, <2>2
  <1>7. ClearSoFar(d)'
    <2> SUFFICES ASSUME ScanOf(d, "clear")' PROVE Passed(d, Present)' \subseteq fresh'[d]
      BY DEF ClearSoFar
    <2>1. fresh'[d] = fresh[d] \cup put /\ ScanOf(d, "clear")
      BY <1>1 DEF ScanOf, SameScan
    <2>2. Passed(d, Present)' \subseteq Passed(d, Present) \cup put
      BY DEF Passed, SameScan
    <2> QED
      BY <2>1, <2>2 DEF ScanInv, ClearSoFar
  <1>8. scan'[d] = Nil => Scanned(d)'
    BY <1>2 DEF ScanInv, SameScan
  <1> QED
    BY <1>3, <1>5, <1>6, <1>7, <1>8 DEF ScanInv

LEMMA ObserveTypes ==
  ASSUME Types, NEW put \in SUBSET Keys, Observe(put)
  PROVE  /\ always' \in [Clients -> SUBSET Keys] /\ ever' \in [Clients -> SUBSET Keys]
         /\ fresh' \in [Clients -> SUBSET Keys]
  <1>1. Present' \subseteq Keys
    BY DEF Present
  <1> QED
    BY <1>1 DEF Observe, Types

(***************************************************************************)
(* Operations on one key                                                    *)
(***************************************************************************)
LEMMA ReturnsInv ==
  ASSUME Inv, NEW c \in Clients,
         NEW r \in Values \cup {"Ok", "NotFound", "True", "False", "Unsupported"}, Returns(c, r),
         NEW put \in SUBSET Keys, Observe(put), inner' \in [Keys -> Values \cup {Nil}],
         Present' \subseteq Present \cup put
  PROVE  Inv'
  <1>1. Types
    BY DEF Inv
  <1>2. /\ ret' = [ret EXCEPT ![c] = r] /\ scan' = [scan EXCEPT ![c] = Nil]
        /\ found' = [found EXCEPT ![c] = {}] /\ count' = [count EXCEPT ![c] = 0]
        /\ UNCHANGED <<home, next>> /\ next[c] = Shards + 1
    BY DEF Returns, Scanned
  <1>3. Types'
    BY <1>1, <1>2, ObserveTypes DEF Types
  <1>4. \A d \in Clients \ {c} : ScanInv(d)'
    <2> SUFFICES ASSUME NEW d \in Clients \ {c} PROVE ScanInv(d)'
      OBVIOUS
    <2>1. SameScan(d) /\ ScanInv(d) /\ home' = home
      BY <1>1, <1>2 DEF SameScan, Inv, Types
    <2> QED
      BY <1>1, <2>1, SeenScan
  <1>5. ScanInv(c)'
    <2>1. scan'[c] = Nil /\ count'[c] = 0 /\ next'[c] = Shards + 1
      BY <1>1, <1>2 DEF Types
    <2> QED
      BY <2>1 DEF ScanInv, Scanned, Watches, Counted, Visits, ListSoFar, LenSoFar, ClearSoFar, ScanOf
  <1> QED
    BY <1>3, <1>4, <1>5 DEF Inv

LEMMA OneKeyInv ==
  ASSUME Inv, NEW c \in Clients,
         Presign(c) \/ \E k \in Keys : Put(c, k) \/ Get(c, k) \/ Delete(c, k) \/ Exists(c, k)
  PROVE  Inv'
  <1>1. inner \in [Keys -> Values \cup {Nil}]
    BY DEF Inv, Types
  <1>2. CASE Presign(c)
    BY <1>1, <1>2, ReturnsInv DEF Presign, Present
  <1>3. ASSUME NEW k \in Keys, Get(c, k) PROVE Inv'
    <2>1. PICK r \in Values \cup {"NotFound"} : Returns(c, r)
      BY <1>1, <1>3 DEF Get
    <2> QED
      BY <1>1, <1>3, <2>1, ReturnsInv DEF Get, Present
  <1>4. ASSUME NEW k \in Keys, Exists(c, k) PROVE Inv'
    <2>1. PICK r \in {"True", "False"} : Returns(c, r)
      BY <1>4 DEF Exists
    <2> QED
      BY <1>1, <1>4, <2>1, ReturnsInv DEF Exists, Present
  <1>5. ASSUME NEW k \in Keys, Delete(c, k) PROVE Inv'
    <2>1. PICK r \in {"Ok", "NotFound"} : Returns(c, r)
      BY <1>5 DEF Delete
    <2>2. inner' = [inner EXCEPT ![k] = Nil] /\ Observe({})
      BY <1>5 DEF Delete
    <2>3. inner' \in [Keys -> Values \cup {Nil}] /\ Present' \subseteq Present \cup {}
      BY <1>1, <2>2 DEF Present
    <2> QED
      BY <2>1, <2>2, <2>3, ReturnsInv
  <1>6. ASSUME NEW k \in Keys, Put(c, k) PROVE Inv'
    <2>1. PICK v \in Values : inner' = [inner EXCEPT ![k] = v]
      BY <1>6 DEF Put
    <2>2. inner' \in [Keys -> Values \cup {Nil}] /\ Present' \subseteq Present \cup {k}
      BY <1>1, <2>1 DEF Present
    <2>3. Returns(c, "Ok") /\ Observe({k})
      BY <1>6 DEF Put
    <2> QED
      BY <2>2, <2>3, ReturnsInv
  <1> QED
    BY <1>2, <1>3, <1>4, <1>5, <1>6

(***************************************************************************)
(* Scans                                                                    *)
(***************************************************************************)
LEMMA BeginInv == ASSUME Inv, NEW c \in Clients, Begin(c) PROVE Inv'
  <1>1. Types
    BY DEF Inv
  <1>2. PICK s \in Scans : scan' = [scan EXCEPT ![c] = s]
    BY DEF Begin
  <1>3. /\ next' = [next EXCEPT ![c] = 1]
        /\ found' = [found EXCEPT ![c] = {}] /\ count' = [count EXCEPT ![c] = 0]
        /\ ret' = [ret EXCEPT ![c] = Nil] /\ fresh' = [fresh EXCEPT ![c] = {}]
        /\ UNCHANGED <<home, inner>>
    BY DEF Begin
  <1>4. scan'[c] = s
    BY <1>1, <1>2 DEF Types
  <1>5. PICK start \in {{}, Present} :
          /\ always' = [always EXCEPT ![c] = start] /\ ever' = [ever EXCEPT ![c] = start]
          /\ s.op # "clear" => start = Present
    BY <1>4 DEF Begin
  <1>6. Present' = Present /\ start \subseteq Keys
    BY <1>3 DEF Present
  <1>7. Types'
    BY <1>1, <1>2, <1>3, <1>5, <1>6, ShardsPositive DEF Types
  <1>8. ASSUME NEW d \in Clients \ {c} PROVE ScanInv(d)'
    <2>1. SameScan(d) /\ ScanInv(d) /\ always'[d] = always[d] /\ ever'[d] = ever[d]
          /\ fresh'[d] = fresh[d]
      BY <1>1, <1>2, <1>3, <1>5 DEF SameScan, Inv, Types
    <2> QED
      BY <1>3, <2>1, UnseenScan
  <1>9. ScanInv(c)'
    <2>1. /\ next'[c] = 1 /\ found'[c] = {} /\ count'[c] = 0 /\ always'[c] = start /\ ever'[c] = start
          /\ scan'[c] # Nil
      BY <1>1, <1>2, <1>3, <1>5 DEF Types
    <2>2. Passed(c, always[c])' = {} /\ Passed(c, ever[c])' = {} /\ Passed(c, Present)' = {}
      BY <1>1, <1>3, <1>6, <2>1 DEF Types, Passed, Present
    <2>3. Watches(c)'
      BY <1>4, <1>5, <1>6, <2>1 DEF Watches, Counted, Visits
    <2>4. ListSoFar(c)' /\ ClearSoFar(c)'
      BY <2>1, <2>2 DEF ListSoFar, ClearSoFar, Matching
    <2>5. LenSoFar(c)'
      BY <2>1, <2>2, FS_EmptySet DEF LenSoFar
    <2> QED
      BY <2>1, <2>3, <2>4, <2>5 DEF ScanInv
  <1> QED
    BY <1>7, <1>8, <1>9 DEF Inv

\* A visit takes its scan past one shard.
LEMMA PassesShard ==
  ASSUME Types, NEW c \in Clients, ~ Scanned(c), Advance(c), home' = home
  PROVE  /\ next'[c] = next[c] + 1 /\ next' \in [Clients -> 1..(Shards + 1)] /\ next[c] \in 1..Shards
         /\ \A d \in Clients \ {c} : next'[d] = next[d]
         /\ \A S : Passed(c, S)' = {k \in S' : home[k] < next[c] + 1}
         /\ \A k \in Keys : home[k] < next[c] + 1 <=> home[k] < next[c] \/ home[k] = next[c]
  <1>1. next[c] \in 1..Shards
    BY ShardsPositive DEF Types, Scanned
  <1>2. next' = [next EXCEPT ![c] = next[c] + 1]
    BY DEF Advance
  <1>3. \A k \in Keys : home[k] \in 1..Shards
    BY DEF Types
  <1>4. next'[c] = next[c] + 1 /\ next' \in [Clients -> 1..(Shards + 1)]
        /\ \A d \in Clients \ {c} : next'[d] = next[d]
    BY <1>1, <1>2, ShardsPositive DEF Types
  <1>5. \A k \in Keys : home[k] < next[c] + 1 <=> home[k] < next[c] \/ home[k] = next[c]
    BY <1>1, <1>3, ShardsPositive
  <1> QED
    BY <1>1, <1>4, <1>5 DEF Passed

\* A visit that changes no entry, seen from the other threads.
LEMMA VisitOthers ==
  ASSUME Inv, NEW c \in Clients, Advance(c), UNCHANGED <<home, inner, scan, always, ever, fresh>>,
         \A d \in Clients \ {c} : found'[d] = found[d] /\ count'[d] = count[d]
  PROVE  \A d \in Clients \ {c} : ScanInv(d)'
  <1> SUFFICES ASSUME NEW d \in Clients \ {c} PROVE ScanInv(d)'
    OBVIOUS
  <1>1. SameScan(d) /\ ScanInv(d)
    BY DEF SameScan, Inv, Advance, Types
  <1> QED
    BY <1>1, UnseenScan

LEMMA ListShardInv == ASSUME Inv, NEW c \in Clients, ListShard(c) PROVE Inv'
  <1>1. Types /\ ScanInv(c) /\ Present' = Present
    BY DEF Inv, ListShard, Present
  <1>2. /\ ~ Scanned(c) /\ scan[c].op = "list" /\ Advance(c) /\ Counted(c)
        /\ found' = [found EXCEPT ![c] =
             found[c] \cup {k \in ShardKeys(next[c]) : IsPrefix(scan[c].arg, k)}]
        /\ UNCHANGED <<home, inner, ret, scan, count, always, ever, fresh>>
    BY DEF ListShard, Visits, Counted
  <1>3. /\ next'[c] = next[c] + 1 /\ next' \in [Clients -> 1..(Shards + 1)]
        /\ \A k \in Keys : home[k] < next[c] + 1 <=> home[k] < next[c] \/ home[k] = next[c]
    BY <1>1, <1>2, PassesShard
  <1>4. Types'
    BY <1>1, <1>2, <1>3 DEF Types, ShardKeys, Present
  <1>5. \A d \in Clients \ {c} : ScanInv(d)'
    BY <1>1, <1>2, VisitOthers DEF Types
  <1>6. ScanInv(c)'
    <2>1. scan[c] # Nil /\ ~ ScanOf(c, "len") /\ ~ ScanOf(c, "clear") /\ ScanOf(c, "list")
      BY <1>1, <1>2 DEF ScanInv, ScanOf
    <2>2. always[c] \subseteq Present /\ Present \subseteq ever[c] /\ always[c] \subseteq Keys
      BY <1>1, <1>2 DEF ScanInv, Watches, Types
    <2>3. found'[c] = found[c] \cup {k \in ShardKeys(next[c]) : IsPrefix(scan[c].arg, k)}
      BY <1>1, <1>2 DEF Types
    <2>4. Watches(c)'
      BY <1>1, <1>2, <2>2 DEF Watches
    <2>5. Matching(c, Passed(c, always[c]))' \subseteq found'[c]
      <3>1. ASSUME NEW k \in always[c], home[k] < next[c] + 1, IsPrefix(scan[c].arg, k)
            PROVE  k \in found'[c]
        <4>1. CASE home[k] = next[c]
          BY <2>2, <2>3, <3>1, <4>1 DEF ShardKeys
        <4>2. CASE home[k] < next[c]
          BY <1>1, <2>1, <2>3, <3>1, <4>2 DEF ScanInv, ListSoFar, Matching, Passed
        <4> QED
          BY <1>3, <2>2, <3>1, <4>1, <4>2
      <3> QED
        BY <1>2, <1>3, <3>1 DEF Matching, Passed
    <2>6. found'[c] \subseteq Matching(c, ever[c])'
      <3>1. ShardKeys(next[c]) \subseteq ever[c]
        BY <2>2 DEF ShardKeys
      <3> QED
        BY <1>1, <1>2, <2>1, <2>3, <3>1 DEF ScanInv, ListSoFar, Matching
    <2>7. LenSoFar(c)'
      BY <1>1, <1>2, <2>1 DEF ScanInv, LenSoFar, ScanOf
    <2>8. ClearSoFar(c)'
      BY <1>2, <2>1 DEF ClearSoFar, ScanOf
    <2> QED
      BY <1>2, <2>1, <2>4, <2>5, <2>6, <2>7, <2>8 DEF ScanInv, ListSoFar
  <1> QED
    BY <1>4, <1>5, <1>6 DEF Inv

\* The shards are disjoint: no key is counted twice.
LEMMA LenShardInv == ASSUME Inv, NEW c \in Clients, LenShard(c) PROVE Inv'
  <1>1. Types /\ ScanInv(c) /\ Present' = Present
    BY DEF Inv, LenShard, Present
  <1>2. /\ ~ Scanned(c) /\ scan[c].op = "len" /\ Advance(c) /\ Counted(c)
        /\ count' = [count EXCEPT ![c] = count[c] + Cardinality(ShardKeys(next[c]))]
        /\ UNCHANGED <<home, inner, ret, scan, found, always, ever, fresh>>
    BY DEF LenShard, Visits, Counted
  <1>3. /\ next'[c] = next[c] + 1 /\ next' \in [Clients -> 1..(Shards + 1)]
        /\ \A k \in Keys : home[k] < next[c] + 1 <=> home[k] < next[c] \/ home[k] = next[c]
    BY <1>1, <1>2, PassesShard
  <1>4. Cardinality(ShardKeys(next[c])) \in Nat /\ ShardKeys(next[c]) \subseteq Present
        /\ ShardKeys(next[c]) \subseteq Keys
    <2>1. ShardKeys(next[c]) \subseteq Present /\ ShardKeys(next[c]) \subseteq Keys
      BY DEF ShardKeys, Present
    <2> QED
      BY <2>1, KeySets
  <1>5. Types'
    <2>1. PICK n \in Nat : n = Cardinality(ShardKeys(next[c]))
      BY <1>4
    <2>2. count' \in [Clients -> Nat]
      BY <1>1, <1>2, <2>1 DEF Types
    <2> QED
      BY <1>1, <1>2, <1>3, <2>2 DEF Types
  <1>6. \A d \in Clients \ {c} : ScanInv(d)'
    BY <1>1, <1>2, VisitOthers DEF Types
  <1>7. ScanInv(c)'
    <2>1. scan[c] # Nil /\ ScanOf(c, "len") /\ ~ ScanOf(c, "clear") /\ ~ ScanOf(c, "list")
      BY <1>1, <1>2 DEF ScanInv, ScanOf
    <2>2. always[c] \subseteq Present /\ Present \subseteq ever[c] /\ ever[c] \subseteq Keys
          /\ always[c] \subseteq Keys
      BY <1>1, <1>2 DEF ScanInv, Watches, Types
    <2>3. count'[c] = count[c] + Cardinality(ShardKeys(next[c])) /\ count[c] \in Nat
      BY <1>1, <1>2 DEF Types
    <2> DEFINE shard == ShardKeys(next[c])
               here(S) == {k \in S : home[k] = next[c]}
    <2>4. ASSUME NEW S \in SUBSET Keys
          PROVE  /\ Cardinality({k \in S : home[k] < next[c] + 1})
                      = Cardinality(Passed(c, S)) + Cardinality(here(S))
                 /\ Cardinality(Passed(c, S)) \in Nat /\ Cardinality(here(S)) \in Nat
      <3>1. {k \in S : home[k] < next[c] + 1} = Passed(c, S) \cup here(S)
        BY <1>3 DEF Passed
      <3>2. Passed(c, S) \subseteq Keys /\ here(S) \subseteq Keys /\ Passed(c, S) \cap here(S) = {}
        BY <1>1 DEF Passed, Types
      <3> HIDE DEF here
      <3> QED
        BY <3>1, <3>2, KeySets, KeySetsApart
    <2>5. here(always[c]) \subseteq shard /\ shard \subseteq here(ever[c]) /\ here(ever[c]) \subseteq Keys
      BY <2>2 DEF ShardKeys
    <2>6. Cardinality(here(always[c])) <= Cardinality(shard)
          /\ Cardinality(shard) <= Cardinality(here(ever[c]))
      <3> HIDE DEF here, shard
      <3> QED
        BY <1>4, <2>5, KeySets DEF shard
    <2>7. Cardinality(Passed(c, always[c])) <= count[c] /\ count[c] <= Cardinality(Passed(c, ever[c]))
      BY <1>1, <2>1 DEF ScanInv, LenSoFar
    <2>8. /\ Cardinality({k \in always[c] : home[k] < next[c] + 1}) <= count'[c]
          /\ count'[c] <= Cardinality({k \in ever[c] : home[k] < next[c] + 1})
      <3> HIDE DEF here
      <3> QED
        BY <1>4, <2>2, <2>3, <2>4, <2>6, <2>7
    <2>9. /\ {k \in always[c] : home[k] < next[c] + 1} = Passed(c, always[c])'
          /\ {k \in ever[c] : home[k] < next[c] + 1} = Passed(c, ever[c])'
      BY <1>2, <1>3 DEF Passed
    <2>10. LenSoFar(c)'
      BY <1>2, <2>1, <2>8, <2>9 DEF LenSoFar, ScanOf
    <2>11. Watches(c)' /\ ListSoFar(c)' /\ ClearSoFar(c)'
      BY <1>1, <1>2, <2>1, <2>2 DEF Watches, ListSoFar, ClearSoFar, ScanOf
    <2> QED
      BY <1>2, <2>1, <2>10, <2>11 DEF ScanInv
  <1> QED
    BY <1>5, <1>6, <1>7 DEF Inv

LEMMA ClearShardInv == ASSUME Inv, NEW c \in Clients, ClearShard(c) PROVE Inv'
  <1>1. Types /\ ScanInv(c)
    BY DEF Inv
  <1>2. /\ ~ Scanned(c) /\ scan[c].op = "clear" /\ Advance(c) /\ Observe({})
        /\ inner' = [k \in Keys |-> IF home[k] = next[c] THEN Nil ELSE inner[k]]
        /\ UNCHANGED <<home, ret, scan, found, count>>
    BY DEF ClearShard, Visits
  <1>3. /\ next'[c] = next[c] + 1 /\ next' \in [Clients -> 1..(Shards + 1)]
        /\ \A d \in Clients \ {c} : next'[d] = next[d]
        /\ \A k \in Keys : home[k] < next[c] + 1 <=> home[k] < next[c] \/ home[k] = next[c]
    BY <1>1, <1>2, PassesShard
  <1>4. Present' = {k \in Present : home[k] # next[c]}
    BY <1>2 DEF Present
  <1>5. Types'
    <2>1. inner' \in [Keys -> Values \cup {Nil}]
      BY <1>1, <1>2 DEF Types
    <2> QED
      BY <1>1, <1>2, <1>3, <2>1, ObserveTypes DEF Types
  <1>6. ASSUME NEW d \in Clients \ {c} PROVE ScanInv(d)'
    <2>1. SameScan(d) /\ ScanInv(d)
      BY <1>2, <1>3 DEF SameScan, Inv
    <2>2. {} \in SUBSET Keys /\ Present' \subseteq Present \cup {}
      BY <1>4
    <2> QED
      BY <1>1, <1>2, <2>1, <2>2, SeenScan
  <1>7. ScanInv(c)'
    <2>1. scan[c] # Nil /\ ScanOf(c, "clear") /\ ~ ScanOf(c, "len") /\ ~ ScanOf(c, "list")
      BY <1>1, <1>2 DEF ScanInv, ScanOf
    <2>2. fresh'[c] = fresh[c]
      BY <1>2, <2>1 DEF Observe, ScanOf
    <2>3. Passed(c, Present)' \subseteq Passed(c, Present)
      BY <1>2, <1>3, <1>4 DEF Passed, Present
    <2>4. ClearSoFar(c)'
      BY <1>1, <2>1, <2>2, <2>3 DEF ScanInv, ClearSoFar
    <2>5. LenSoFar(c)' /\ ListSoFar(c)'
      BY <1>1, <1>2, <2>1 DEF ScanInv, LenSoFar, ListSoFar, ScanOf
    <2>6. Watches(c)'
      BY <1>2 DEF Watches, Counted, Visits
    <2> QED
      BY <1>2, <2>1, <2>4, <2>5, <2>6 DEF ScanInv
  <1> QED
    BY <1>5, <1>6, <1>7 DEF Inv

(***************************************************************************)
(* The theorems                                                             *)
(***************************************************************************)
LEMMA InitInv == Init => Inv
  <1> SUFFICES ASSUME Init PROVE Inv
    OBVIOUS
  <1>1. Types
    BY ShardsPositive DEF Init, Types
  <1>2. ASSUME NEW c \in Clients PROVE ScanInv(c)
    BY DEF Init, ScanInv, Scanned, Watches, Counted, Visits, ListSoFar, LenSoFar, ClearSoFar, ScanOf
  <1> QED
    BY <1>1, <1>2 DEF Inv

LEMMA InvIsInductive == Inv /\ [Next]_vars => Inv'
  <1> SUFFICES ASSUME Inv, [Next]_vars PROVE Inv'
    OBVIOUS
  <1>1. CASE UNCHANGED vars
    <2>1. Types'
      BY <1>1 DEF Inv, vars, Types
    <2>2. \A d \in Clients : ScanInv(d)'
      BY <1>1, UnseenScan DEF Inv, vars, SameScan
    <2> QED
      BY <2>1, <2>2 DEF Inv
  <1> QED
    BY <1>1, OneKeyInv, BeginInv, ListShardInv, LenShardInv, ClearShardInv DEF Next

LEMMA SpecInv == Spec => []Inv
  BY InitInv, InvIsInductive, PTL DEF Spec

\* Behind the last shard every key has been passed.
LEMMA AllPassed ==
  ASSUME Types, NEW c \in Clients, Scanned(c), NEW S \in SUBSET Keys
  PROVE  Passed(c, S) = S
  BY ShardsPositive DEF Types, Scanned, Passed

\* Every variable keeps its type; no count exceeds the number of keys.
THEOREM TypeSafety == Spec => []TypeOK
  <1>1. Inv => TypeOK
    <2> SUFFICES ASSUME Inv PROVE TypeOK
      OBVIOUS
    <2>1. Types
      BY DEF Inv
    <2>2. ASSUME NEW c \in Clients PROVE count[c] \in 0..Cardinality(Keys)
      <3>1. count[c] \in Nat /\ Cardinality(Keys) \in Nat
        BY <2>1, KeySets DEF Types
      <3>2. Passed(c, ever[c]) \in SUBSET Keys
        BY <2>1 DEF Types, Passed
      <3>3. Cardinality(Passed(c, ever[c])) <= Cardinality(Keys)
            /\ Cardinality(Passed(c, ever[c])) \in Nat
        BY <3>2, KeySets
      <3> QED
        BY <3>1, <3>3 DEF Inv, ScanInv, LenSoFar
    <2> QED
      BY <2>1, <2>2 DEF Types, TypeOK
  <1> QED
    BY <1>1, SpecInv, PTL

\* list and list_keys report every matching key that was there throughout and
\* none that was there at no time, whatever other threads do meanwhile.
THEOREM ListIsFaithful == Spec => []ListFaithful
  <1>1. Inv => ListFaithful
    <2> SUFFICES ASSUME Inv, NEW c \in Clients, Ended(c, "list")
                 PROVE  /\ Matching(c, always[c]) \subseteq found[c]
                        /\ found[c] \subseteq Matching(c, ever[c])
      BY DEF ListFaithful
    <2>1. Passed(c, always[c]) = always[c]
      BY AllPassed DEF Inv, Types, Ended
    <2> QED
      BY <2>1 DEF Inv, ScanInv, ListSoFar, ScanOf, Ended
  <1> QED
    BY <1>1, SpecInv, PTL

\* len counts every key that was there throughout, and no key twice; so is_empty
\* never answers true while some key stays.
THEOREM LenIsBounded == Spec => []LenBounded
  <1>1. Inv => LenBounded
    <2> SUFFICES ASSUME Inv, NEW c \in Clients, Ended(c, "len")
                 PROVE  Cardinality(always[c]) <= count[c] /\ count[c] <= Cardinality(ever[c])
      BY DEF LenBounded
    <2>1. Passed(c, always[c]) = always[c] /\ Passed(c, ever[c]) = ever[c]
      BY AllPassed DEF Inv, Types, Ended
    <2> QED
      BY <2>1 DEF Inv, ScanInv, LenSoFar, ScanOf, Ended
  <1> QED
    BY <1>1, SpecInv, PTL

\* clear leaves nothing but what was put since it began, although it empties one
\* shard after the other.
THEOREM ClearLeavesOnlyFresh == Spec => []ClearRemoves
  <1>1. Inv => ClearRemoves
    <2> SUFFICES ASSUME Inv, NEW c \in Clients, Ended(c, "clear")
                 PROVE  Present \subseteq fresh[c]
      BY DEF ClearRemoves
    <2>1. Passed(c, Present) = Present
      BY AllPassed DEF Inv, Ended, Present
    <2> QED
      BY <2>1 DEF Inv, ScanInv, ClearSoFar, ScanOf, Ended
  <1> QED
    BY <1>1, SpecInv, PTL
================================================================================
