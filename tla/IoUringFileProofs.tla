--------------------------- MODULE IoUringFileProofs ---------------------------
(***************************************************************************)
(* IoUringFile, for any chunk size, ring size, buffer length, any width of  *)
(* the machine's integers and any number of calls on one ring: its types,   *)
(* that operations of the kernel never overlap and that an Ok means every   *)
(* byte was transferred.                                                    *)
(*                                                                         *)
(* Neither is inductive.  On a ring no earlier call failed on (clean), the  *)
(* pieces to push and in flight are disjoint parts of the buffer            *)
(* (PiecesDisjoint, PiecesInside), and the entries and completions under    *)
(* way speak of pieces in flight, each of at most one, and truthfully       *)
(* (Tracking); so operations are as disjoint as pieces, and no length ever  *)
(* wraps.  While the call itself has not failed either (Sound), every byte  *)
(* still to move lies in a piece (Covered): the piece dropped on a full     *)
(* completion has been moved, and when nothing is left to do all has.       *)
(***************************************************************************)
EXTENDS IoUringFile, FiniteSetTheorems, TLAPS

Sound == clean /\ result \in {"None", "Ok"}

\* user_data names one piece
IdsUnique ==
  /\ \A p \in inFlight : p.id < nextId
  /\ \A p, q \in inFlight : p.id = q.id => p = q

\* every piece lies within the buffer and is at most a chunk
PiecesInside == \A p \in work \cup inFlight : p.off + p.len <= total /\ p.len <= Chunk

PiecesDisjoint ==
  /\ \A p, q \in work : p # q => Bytes(p) \cap Bytes(q) = {}
  /\ \A p \in work, q \in inFlight : Bytes(p) \cap Bytes(q) = {}
  /\ \A p, q \in inFlight : p # q => Bytes(p) \cap Bytes(q) = {}

Covered ==
  /\ moved \subseteq All
  /\ \A b \in All : b \in moved \/ \E p \in work \cup inFlight : b \in Bytes(p)

Tracking ==
  /\ \A s \in sq \cup kern : s.by = calls /\ [id |-> s.id, off |-> s.off, len |-> s.len] \in inFlight
  /\ \A e \in cq : e.by = calls /\ \E p \in inFlight :
       p.id = e.id /\ e.n <= p.len /\ (p.off .. (p.off + e.n - 1)) \subseteq moved
  /\ \A s \in sq, t \in kern : s.id # t.id
  /\ \A s \in sq \cup kern, e \in cq : s.id # e.id
  /\ \A e, f \in cq : e.id = f.id => e = f

Settled ==
  /\ pc = "idle" => inFlight = {}
  /\ pc \in {"idle", "check"} /\ inFlight = {} => work = {}

CleanInv == clean => PiecesInside /\ PiecesDisjoint /\ Tracking
SoundInv == Sound => Covered /\ Settled

Running == pc # "idle" => result = "None"

Inv == TypeOK /\ IdsUnique /\ Running /\ CleanInv /\ SoundInv

LEMMA ChunkIsPositive == Chunk \in Nat \ {0}
  BY ConstantsAssumption

(***************************************************************************)
(* The chunks of a buffer.                                                  *)
(***************************************************************************)
LEMMA MinOfTwo ==
  ASSUME NEW a \in Int, NEW b \in Int
  PROVE  Min({a, b}) \in {a, b} /\ Min({a, b}) <= a /\ Min({a, b}) <= b
  BY DEF Min

LEMMA MaxWithZero ==
  ASSUME NEW b \in Int
  PROVE  Max({0, b}) \in {0, b}
  BY DEF Max

LEMMA ChunkOrRest ==
  ASSUME NEW n \in Int, NEW o \in Int
  PROVE  Min({Chunk, n - o}) \in {Chunk, n - o} /\ Min({Chunk, n - o}) <= Chunk
         /\ Min({Chunk, n - o}) <= n - o
  <1>1. PICK m \in Int : m = n - o
    OBVIOUS
  <1>2. Min({Chunk, m}) \in {Chunk, m} /\ Min({Chunk, m}) <= Chunk /\ Min({Chunk, m}) <= m
    BY MinOfTwo, ChunkIsPositive
  <1> QED
    BY <1>1, <1>2

LEMMA SmallRemainder ==
  ASSUME NEW N \in Nat, NEW x \in 0..(N - 1)
  PROVE  x % N = x
  OBVIOUS

LEMMA RemainderInRange ==
  ASSUME NEW N \in Nat \ {0}, NEW x \in Int
  PROVE  x % N \in 0..(N - 1)
  OBVIOUS

LEMMA Widths == U32 \in Nat \ {0} /\ USize \in Nat \ {0} /\ Chunk < U32 /\ U32 <= USize
  BY ConstantsAssumption

LEMMA MultiplesApart ==
  ASSUME NEW a \in Nat, NEW b \in Nat, a % Chunk = 0, b % Chunk = 0, a < b
  PROVE  a + Chunk <= b
  <1>1. a = (a \div Chunk) * Chunk /\ a \div Chunk \in Nat
    BY ChunkIsPositive
  <1>2. b = (b \div Chunk) * Chunk /\ b \div Chunk \in Nat
    BY ChunkIsPositive
  <1>3. ASSUME NEW q \in Nat, NEW r \in Nat, q * Chunk < r * Chunk PROVE q * Chunk + Chunk <= r * Chunk
    BY <1>3, ChunkIsPositive
  <1> QED
    BY <1>1, <1>2, <1>3

\* The chunks lie inside the buffer, are disjoint and cover it.
LEMMA ChunksPartition ==
  ASSUME NEW n \in 0..(USize - 1)
  PROVE  /\ Chunks(n) \subseteq Pieces
         /\ \A p \in Chunks(n) : p.off + p.len <= n /\ p.len <= Chunk
         /\ \A p, q \in Chunks(n) : p # q => Bytes(p) \cap Bytes(q) = {}
         /\ \A b \in 0..(n - 1) : \E p \in Chunks(n) : b \in Bytes(p)
  <1>1. ASSUME NEW p \in Chunks(n)
        PROVE  /\ p \in Pieces /\ p.off + p.len <= n /\ p.off % Chunk = 0 /\ p.len <= Chunk
               /\ p = [off |-> p.off, len |-> Min({Chunk, n - p.off})]
    <2>1. PICK o \in {i \in 0..(n - 1) : i % Chunk = 0} : p = [off |-> o, len |-> Min({Chunk, n - o})]
      BY DEF Chunks
    <2>2. Min({Chunk, n - o}) \in {Chunk, n - o} /\ Min({Chunk, n - o}) <= Chunk
          /\ Min({Chunk, n - o}) <= n - o
      <3>1. n \in Int /\ o \in Int
        BY <2>1
      <3> QED
        BY <3>1, ChunkOrRest
    <2>3. p.off = o /\ p.len = Min({Chunk, n - o}) /\ o \in Nat /\ n - o \in Nat \ {0}
      BY <2>1
    <2>4. p.len \in Nat \ {0} /\ p.len <= Chunk /\ p.off + p.len <= n
      BY <2>2, <2>3, ChunkIsPositive
    <2>5. p \in Pieces
      BY <2>1, <2>3, <2>4, Widths DEF Pieces, Offsets
    <2> QED
      BY <2>1, <2>3, <2>4, <2>5
  <1>2. ASSUME NEW p \in Chunks(n), NEW q \in Chunks(n), p # q PROVE Bytes(p) \cap Bytes(q) = {}
    <2>1. p.off # q.off
      BY <1>1, <1>2
    <2>2. p.off \in Nat /\ q.off \in Nat /\ p.len \in Nat /\ q.len \in Nat
      <3>1. p \in Pieces /\ q \in Pieces /\ USize \in Nat
        BY <1>1, Widths
      <3> QED
        BY <3>1 DEF Pieces, Offsets
    <2>3. p.off + p.len <= q.off \/ q.off + q.len <= p.off
      <3>1. p.off % Chunk = 0 /\ q.off % Chunk = 0 /\ p.len <= Chunk /\ q.len <= Chunk
        BY <1>1
      <3>2. CASE p.off < q.off
        <4>1. p.off + Chunk <= q.off
          BY <2>2, <3>1, <3>2, MultiplesApart
        <4> QED
          BY <2>2, <3>1, <4>1, ChunkIsPositive
      <3>3. CASE q.off < p.off
        <4>1. q.off + Chunk <= p.off
          BY <2>2, <3>1, <3>3, MultiplesApart
        <4> QED
          BY <2>2, <3>1, <4>1, ChunkIsPositive
      <3> QED
        BY <2>1, <2>2, <3>2, <3>3
    <2> QED
      BY <2>2, <2>3 DEF Bytes
  <1>3. ASSUME NEW b \in 0..(n - 1) PROVE \E p \in Chunks(n) : b \in Bytes(p)
    <2>1. \E o \in 0..b : o % Chunk = 0 /\ b < o + Chunk
      <3>1. PICK q \in Nat : b = q * Chunk + (b % Chunk)
        <4>1. b = (b \div Chunk) * Chunk + (b % Chunk) /\ b \div Chunk \in Nat
          BY ChunkIsPositive
        <4> QED
          BY <4>1
      <3>2. PICK r \in 0..(Chunk - 1) : b = q * Chunk + r
        BY <3>1, ChunkIsPositive
      <3>3. PICK o \in Nat : o = q * Chunk
        BY ChunkIsPositive
      <3>4. o % Chunk = 0
        BY <3>3, ChunkIsPositive
      <3>5. o \in 0..b /\ b < o + Chunk
        BY <3>2, <3>3, ChunkIsPositive
      <3> QED
        BY <3>4, <3>5
    <2>2. PICK o \in 0..b : o % Chunk = 0 /\ b < o + Chunk
      BY <2>1
    <2>3. o \in Int /\ n \in Int /\ o \in 0..(n - 1)
      OBVIOUS
    <2> DEFINE p == [off |-> o, len |-> Min({Chunk, n - o})]
    <2>4. p \in Chunks(n)
      BY <2>2, <2>3 DEF Chunks
    <2>5. Min({Chunk, n - o}) \in {Chunk, n - o}
      BY <2>3, ChunkOrRest
    <2>6. b \in Bytes(p)
      BY <2>2, <2>3, <2>5, ChunkIsPositive DEF Bytes
    <2> QED
      BY <2>4, <2>6
  <1> QED
    BY <1>1, <1>2, <1>3

LEMMA InitInv == Init => Inv
  <1> SUFFICES ASSUME Init PROVE Inv
    OBVIOUS
  <1>1. TypeOK
    BY Widths DEF Init, TypeOK, Offsets
  <1>2. IdsUnique /\ Running /\ CleanInv
    BY DEF Init, IdsUnique, Running, CleanInv, PiecesDisjoint, PiecesInside, Tracking
  <1>3. SoundInv
    BY DEF Init, SoundInv, Covered, Settled, All
  <1> QED
    BY <1>1, <1>2, <1>3 DEF Inv

(***************************************************************************)
(* Steps that fail, and steps that only move pc.                            *)
(***************************************************************************)
\* A reaped completion was the only trace of its piece.
LEMMA ReapTracking ==
  ASSUME Inv, Tracking, NEW e \in cq, NEW p \in Piece(e), Reap(e, p)
  PROVE  Tracking'
  <1>1. /\ p \in inFlight /\ p.id = e.id
        /\ cq' = cq \ {e} /\ inFlight' = inFlight \ {p} /\ UNCHANGED <<sq, kern, moved, calls>>
    BY DEF Piece, Reap
  <1>2. \A s \in sq' \cup kern' : s.by = calls' /\ [id |-> s.id, off |-> s.off, len |-> s.len] \in inFlight'
    <2>1. ASSUME NEW s \in sq \cup kern
          PROVE  s.by = calls /\ [id |-> s.id, off |-> s.off, len |-> s.len] \in inFlight \ {p}
      <3>1. s.by = calls /\ [id |-> s.id, off |-> s.off, len |-> s.len] \in inFlight /\ s.id # e.id
        BY DEF Tracking
      <3> QED
        BY <1>1, <3>1
    <2> QED
      BY <1>1, <2>1
  <1>3. \A x \in cq' : x.by = calls' /\ \E q \in inFlight' :
           q.id = x.id /\ x.n <= q.len /\ (q.off .. (q.off + x.n - 1)) \subseteq moved'
    <2>1. ASSUME NEW x \in cq, x # e
          PROVE  x.by = calls /\ \E q \in inFlight \ {p} :
                   q.id = x.id /\ x.n <= q.len /\ (q.off .. (q.off + x.n - 1)) \subseteq moved
      <3>1. x.by = calls /\ x.id # e.id
        BY <2>1 DEF Tracking
      <3>2. PICK q \in inFlight :
              q.id = x.id /\ x.n <= q.len /\ (q.off .. (q.off + x.n - 1)) \subseteq moved
        BY DEF Tracking
      <3> QED
        BY <1>1, <3>1, <3>2
    <2> QED
      BY <1>1, <2>1
  <1>4. /\ \A x \in sq', t \in kern' : x.id # t.id
        /\ \A t \in sq' \cup kern', x \in cq' : t.id # x.id
        /\ \A x, f \in cq' : x.id = f.id => x = f
    BY <1>1 DEF Tracking
  <1> QED
    BY <1>2, <1>3, <1>4 DEF Tracking

LEMMA FailInv ==
  ASSUME Inv, pc' = "idle", result' \in {"Err", "Panic"}, inFlight' \subseteq inFlight, cq' \subseteq cq,
         UNCHANGED <<op, total, work, nextId, sq, kern, moved, calls, clean>>,
         Tracking => Tracking'
  PROVE  Inv'
  <1> USE DEF Inv
  <1>1. TypeOK'
    BY DEF TypeOK
  <1>2. IdsUnique' /\ Running'
    BY DEF IdsUnique, Running
  <1>3. CleanInv'
    BY DEF CleanInv, PiecesDisjoint, PiecesInside, Bytes
  <1>4. SoundInv'
    BY DEF SoundInv, Sound
  <1> QED
    BY <1>1, <1>2, <1>3, <1>4

LEMMA FailingInv ==
  ASSUME Inv,
         \/ SubmitFails \/ (Interrupted /\ pc = "waitOnly")
         \/ \E e \in cq : ReapUnknown(e) \/ \E p \in Piece(e) : ReapError(e, p) \/ ReapTooMuchPanics(e, p)
  PROVE  Inv'
  <1>1. CASE SubmitFails \/ (Interrupted /\ pc = "waitOnly")
    <2>1. /\ pc' = "idle" /\ result' = "Err"
          /\ UNCHANGED <<op, total, work, inFlight, nextId, sq, kern, cq, moved, calls, clean>>
      BY <1>1 DEF SubmitFails, Interrupted, Return, queues
    <2>2. Tracking => Tracking'
      BY <2>1 DEF Tracking
    <2> QED
      BY <2>1, <2>2, FailInv
  <1>2. ASSUME NEW e \in cq, ReapUnknown(e) PROVE Inv'
    <2>1. /\ pc' = "idle" /\ result' = "Err" /\ cq' \subseteq cq
          /\ UNCHANGED <<op, total, work, inFlight, nextId, sq, kern, moved, calls, clean>>
      BY <1>2 DEF ReapUnknown, Return
    <2>2. Tracking => Tracking'
      BY <2>1 DEF Tracking
    <2> QED
      BY <2>1, <2>2, FailInv
  <1>3. ASSUME NEW e \in cq, NEW p \in Piece(e), ReapError(e, p) \/ ReapTooMuchPanics(e, p) PROVE Inv'
    <2>1. Reap(e, p) /\ pc' = "idle" /\ result' \in {"Err", "Panic"} /\ UNCHANGED work
      BY <1>3 DEF ReapError, ReapTooMuchPanics, Return
    <2>2. Tracking => Tracking'
      BY <2>1, ReapTracking
    <2> QED
      BY <2>1, <2>2, FailInv DEF Reap
  <1> QED
    BY <1>1, <1>2, <1>3

LEMMA GoOnInv ==
  ASSUME Inv, pc # "idle", pc' \in {"fill", "reap"},
         UNCHANGED <<op, total, work, inFlight, nextId, sq, kern, cq, moved, result, calls, clean>>
  PROVE  Inv'
  <1> USE DEF Inv
  <1>1. TypeOK'
    BY DEF TypeOK
  <1>2. IdsUnique' /\ Running' /\ CleanInv'
    BY DEF IdsUnique, Running, CleanInv, PiecesDisjoint, PiecesInside, Tracking, Bytes
  <1>3. SoundInv'
    BY DEF SoundInv, Sound, Covered, Settled, All, Bytes
  <1> QED
    BY <1>1, <1>2, <1>3

LEMMA GoingOnInv ==
  ASSUME Inv, WaitEnds \/ ReapEnds \/ (Interrupted /\ pc = "wait")
  PROVE  Inv'
  BY GoOnInv DEF WaitEnds, ReapEnds, Interrupted, queues

(***************************************************************************)
(* The fill loop                                                            *)
(***************************************************************************)
LEMMA StartInv == ASSUME Inv, Start PROVE Inv'
  <1> USE DEF Inv
  <1>1. PICK n \in Lengths[calls + 1] : total' = n /\ work' = Chunks(n) /\ op' \in {"write", "read"}
    BY DEF Start
  <1>2. n \in 0..(USize - 1)
    <2>1. calls + 1 \in 1..Len(Lengths)
      BY ConstantsAssumption DEF Start, TypeOK
    <2> QED
      BY <2>1, ConstantsAssumption
  <1>3. /\ pc = "idle" /\ inFlight' = {} /\ nextId' = 0 /\ moved' = {} /\ calls' = calls + 1
        /\ clean' = (clean /\ result \in {"None", "Ok"})
        /\ pc' = "fill" /\ result' = "None" /\ UNCHANGED <<sq, kern, cq>>
    BY DEF Start, queues
  <1>4. /\ work' \subseteq Pieces
        /\ \A p \in work' : p.off + p.len <= total' /\ p.len <= Chunk
        /\ \A p, q \in work' : p # q => Bytes(p) \cap Bytes(q) = {}
        /\ \A b \in 0..(n - 1) : \E p \in work' : b \in Bytes(p)
    BY <1>1, <1>2, ChunksPartition
  <1>5. TypeOK'
    BY <1>1, <1>2, <1>3, <1>4 DEF TypeOK, Offsets
  <1>6. IdsUnique' /\ Running'
    BY <1>3 DEF IdsUnique, Running
  <1>7. ASSUME clean' PROVE PiecesInside' /\ PiecesDisjoint' /\ Tracking'
    <2>1. sq = {} /\ kern = {} /\ cq = {}
      BY <1>3, <1>7 DEF Sound, SoundInv, CleanInv, Tracking, Settled
    <2>2. PiecesInside' /\ PiecesDisjoint'
      BY <1>3, <1>4 DEF PiecesDisjoint, PiecesInside, Bytes
    <2> QED
      BY <1>3, <2>1, <2>2 DEF Tracking
  <1>8. Covered' /\ Settled'
    BY <1>1, <1>3, <1>4 DEF Covered, Settled, All, Bytes
  <1> QED
    BY <1>5, <1>6, <1>7, <1>8 DEF CleanInv, SoundInv

LEMMA PushInv == ASSUME Inv, Push PROVE Inv'
  <1> USE DEF Inv
  <1> DEFINE flight(p) == [id |-> nextId, off |-> p.off, len |-> p.len]
             entry(p)  == [id |-> nextId, off |-> p.off, len |-> p.len % U32, by |-> calls]
  <1>1. PICK p \in work : /\ work' = work \ {p}
                          /\ inFlight' = inFlight \cup {flight(p)}
                          /\ sq' = sq \cup {entry(p)}
    BY DEF Push
  <1>2. nextId' = nextId + 1 /\ pc = "fill"
        /\ UNCHANGED <<pc, op, total, kern, cq, moved, result, calls, clean>>
    BY DEF Push
  <1>3. p.off \in Offsets /\ p.len \in Offsets \ {0} /\ nextId \in Nat /\ calls \in Nat
    BY DEF TypeOK, Pieces
  <1>4. Bytes(flight(p)) = Bytes(p)
    BY DEF Bytes
  <1>5. TypeOK'
    <2>1. p.len % U32 \in 0..(U32 - 1)
      <3>1. p.len \in Int /\ U32 \in Nat \ {0}
        BY <1>3, Widths DEF Offsets
      <3> QED
        BY <3>1, RemainderInRange
    <2>2. flight(p) \in Flights /\ entry(p) \in Entries
      BY <1>3, <2>1 DEF Flights, Entries
    <2>3. work' \subseteq Pieces /\ inFlight' \subseteq Flights /\ sq' \subseteq Entries
      BY <1>1, <2>2 DEF TypeOK
    <2> QED
      BY <1>2, <1>3, <2>3 DEF TypeOK
  <1>6. IdsUnique' /\ Running'
    <2>1. \A q \in inFlight : q.id < nextId /\ q.id \in Nat
      BY DEF IdsUnique, TypeOK, Flights
    <2>2. flight(p).id = nextId
      OBVIOUS
    <2>3. \A q \in inFlight' : q.id < nextId'
      BY <1>1, <1>2, <1>3, <2>1, <2>2
    <2>4. \A q, r \in inFlight' : q.id = r.id => q = r
      BY <1>1, <1>3, <2>1, <2>2 DEF IdsUnique
    <2> QED
      BY <1>2, <2>3, <2>4 DEF IdsUnique, Running
  <1>7. ASSUME clean' PROVE PiecesInside' /\ PiecesDisjoint' /\ Tracking'
    <2>1. PiecesInside /\ PiecesDisjoint /\ Tracking
      BY <1>2, <1>7 DEF CleanInv
    <2>2. PiecesInside' /\ PiecesDisjoint'
      <3>1. PiecesInside'
        BY <1>1, <1>2, <2>1 DEF PiecesInside
      <3>2. PiecesDisjoint'
        BY <1>1, <1>4, <2>1 DEF PiecesDisjoint, Bytes
      <3> QED
        BY <3>1, <3>2
    <2>3. p.len % U32 = p.len
      <3>1. p.len <= Chunk
        BY <1>1, <2>1 DEF PiecesInside
      <3>2. p.len \in 0..(U32 - 1)
        BY <1>3, <3>1, Widths, ChunkIsPositive DEF Offsets
      <3> QED
        BY <3>2, Widths, SmallRemainder
    <2>4. Tracking'
      <3>1. \A q \in inFlight : q.id # nextId
        BY DEF IdsUnique, TypeOK, Flights
      <3>2. \A s \in sq \cup kern \cup cq : s.id # nextId
        BY <2>1, <3>1 DEF Tracking
      <3>3. entry(p).id = nextId /\ entry(p).off = p.off /\ entry(p).len = p.len /\ entry(p).by = calls
        BY <2>3
      <3>4. \A s \in sq' \cup kern' : s.by = calls' /\ [id |-> s.id, off |-> s.off, len |-> s.len] \in inFlight'
        BY <1>1, <1>2, <2>1, <3>3 DEF Tracking
      <3>5. \A e \in cq' : e.by = calls' /\ \E q \in inFlight' :
               q.id = e.id /\ e.n <= q.len /\ (q.off .. (q.off + e.n - 1)) \subseteq moved'
        BY <1>1, <1>2, <2>1 DEF Tracking
      <3>6. /\ \A s \in sq', t \in kern' : s.id # t.id
            /\ \A s \in sq' \cup kern', e \in cq' : s.id # e.id
            /\ \A e, f \in cq' : e.id = f.id => e = f
        BY <1>1, <1>2, <2>1, <3>2, <3>3 DEF Tracking
      <3> QED
        BY <3>4, <3>5, <3>6 DEF Tracking
    <2> QED
      BY <2>2, <2>4
  <1>8. ASSUME Sound' PROVE Covered' /\ Settled'
    <2>1. Covered
      BY <1>2, <1>8 DEF Sound, SoundInv
    <2>2. moved' \subseteq All'
      BY <1>2, <2>1 DEF Covered, All
    <2>3. ASSUME NEW b \in All, b \notin moved
          PROVE  \E q \in work' \cup inFlight' : b \in Bytes(q)
      <3>1. PICK q \in work \cup inFlight : b \in Bytes(q)
        BY <2>1, <2>3 DEF Covered
      <3>2. CASE q = p
        BY <1>1, <1>4, <3>1, <3>2
      <3>3. CASE q # p
        BY <1>1, <3>1, <3>3
      <3> QED
        BY <3>2, <3>3
    <2> QED
      BY <1>2, <2>2, <2>3 DEF Covered, Settled, All, Bytes
  <1> QED
    BY <1>5, <1>6, <1>7, <1>8 DEF CleanInv, SoundInv

\* When nothing is in flight the loop ends only because nothing is left.
LEMMA FillEndsInv == ASSUME Inv, FillEnds PROVE Inv'
  <1> USE DEF Inv
  <1>1. pc' = "check" /\ (~ HasRoom \/ work = {} \/ Cardinality(sq) >= RingSize)
        /\ UNCHANGED <<op, total, work, inFlight, nextId, sq, kern, cq, moved, result, calls, clean>>
    BY DEF FillEnds, queues
  <1>2. TypeOK'
    BY <1>1 DEF TypeOK
  <1>3. IdsUnique' /\ Running' /\ CleanInv'
    BY <1>1 DEF IdsUnique, Running, CleanInv, PiecesDisjoint, PiecesInside, Tracking, Bytes, FillEnds
  <1>4. ASSUME Sound' PROVE Covered' /\ Settled'
    <2>1. Covered /\ Tracking
      BY <1>1, <1>4 DEF Sound, SoundInv, CleanInv
    <2>2. ASSUME inFlight = {} PROVE work = {}
      <3>1. sq = {}
        BY <2>1, <2>2 DEF Tracking
      <3>2. Cardinality({}) = 0 /\ RingSize \in Nat \ {0}
        BY FS_EmptySet, ConstantsAssumption
      <3> QED
        BY <1>1, <2>2, <3>1, <3>2 DEF HasRoom
    <2> QED
      BY <1>1, <2>1, <2>2 DEF Covered, Settled, All, Bytes
  <1> QED
    BY <1>2, <1>3, <1>4 DEF SoundInv

LEMMA FinishInv == ASSUME Inv, Finish PROVE Inv'
  <1> USE DEF Inv
  <1>1. pc = "check" /\ inFlight = {} /\ pc' = "idle" /\ result' = "Ok"
        /\ UNCHANGED <<op, total, work, inFlight, nextId, sq, kern, cq, moved, calls, clean>>
    BY DEF Finish, Return, queues
  <1>2. TypeOK'
    BY <1>1 DEF TypeOK
  <1>3. IdsUnique' /\ Running' /\ CleanInv'
    BY <1>1 DEF IdsUnique, Running, CleanInv, PiecesDisjoint, PiecesInside, Tracking, Bytes
  <1>4. ASSUME Sound' PROVE Covered' /\ Settled'
    <2>1. Covered /\ Settled
      BY <1>1, <1>4 DEF Running, Sound, SoundInv
    <2> QED
      BY <1>1, <2>1 DEF Covered, Settled, All, Bytes
  <1> QED
    BY <1>2, <1>3, <1>4 DEF SoundInv

(***************************************************************************)
(* Submission and the kernel                                                *)
(***************************************************************************)
\* Two entries with the same user_data are the same entry.
LEMMA EntryOfPiece ==
  ASSUME Inv, Tracking, NEW s \in sq \cup kern, NEW t \in sq \cup kern, s.id = t.id
  PROVE  s = t
  <1>1. /\ [id |-> s.id, off |-> s.off, len |-> s.len] \in inFlight /\ s.by = calls
        /\ [id |-> t.id, off |-> t.off, len |-> t.len] \in inFlight /\ t.by = calls
    BY DEF Tracking
  <1>2. [id |-> s.id, off |-> s.off, len |-> s.len] = [id |-> t.id, off |-> t.off, len |-> t.len]
    BY <1>1 DEF Inv, IdsUnique
  <1>3. s.off = t.off /\ s.len = t.len
    BY <1>2
  <1>4. s \in Entries /\ t \in Entries
    BY DEF Inv, TypeOK
  <1> QED
    BY <1>1, <1>3, <1>4 DEF Entries

LEMMA SubmitInv ==
  ASSUME Inv, NEW S \in SUBSET sq, Submit(S), pc' \in {"wait", "waitOnly", "reap"}
  PROVE  Inv'
  <1> USE DEF Inv
  <1>1. kern' = kern \cup S /\ sq' = sq \ S
        /\ UNCHANGED <<op, total, work, inFlight, nextId, cq, moved, result, calls, clean>>
    BY DEF Submit
  <1>2. TypeOK'
    BY <1>1 DEF TypeOK
  <1>3. IdsUnique' /\ Running'
    BY <1>1 DEF IdsUnique, Running, Submit
  <1>4. ASSUME clean' PROVE PiecesInside' /\ PiecesDisjoint' /\ Tracking'
    <2>1. PiecesInside /\ PiecesDisjoint /\ Tracking
      BY <1>1, <1>4 DEF CleanInv
    <2>2. \A s, t \in sq : s.id = t.id => s = t
      BY <2>1, EntryOfPiece
    <2>3. PiecesInside' /\ PiecesDisjoint'
      BY <1>1, <2>1 DEF PiecesDisjoint, PiecesInside, Bytes
    <2>4. Tracking'
      BY <1>1, <2>1, <2>2 DEF Tracking
    <2> QED
      BY <2>3, <2>4
  <1>5. ASSUME Sound' PROVE Covered' /\ Settled'
    BY <1>1, <1>5 DEF Submit, Sound, SoundInv, Covered, Settled, All, Bytes
  <1> QED
    BY <1>2, <1>3, <1>4, <1>5 DEF CleanInv, SoundInv

\* A completion of n bytes (-1: an error) moved the first n bytes of its entry.
LEMMA CompleteInv ==
  ASSUME Inv, NEW s \in kern, NEW n \in Int, n >= -1, n <= s.len, Complete(s, n)
  PROVE  Inv'
  <1> USE DEF Inv
  <1> DEFINE e == [id |-> s.id, n |-> n, by |-> s.by]
             bytes == s.off .. (s.off + n - 1)
  <1>1. /\ kern' = kern \ {s} /\ cq' = cq \cup {e}
        /\ moved' = IF s.by = calls THEN moved \cup bytes ELSE moved
        /\ UNCHANGED <<pc, op, total, work, inFlight, nextId, sq, result, calls, clean>>
    BY DEF Complete
  <1>2. s.id \in Nat /\ s.off \in Nat /\ s.len \in 0..(U32 - 1) /\ s.by \in Nat
    BY DEF TypeOK, Entries, Offsets
  <1>3. TypeOK'
    <2>1. e \in [id : Nat, n : -1..(U32 - 1), by : Nat] /\ bytes \subseteq Nat
      BY <1>2, Widths
    <2> QED
      BY <1>1, <2>1 DEF TypeOK
  <1>4. IdsUnique' /\ Running'
    BY <1>1 DEF IdsUnique, Running
  <1> DEFINE p == [id |-> s.id, off |-> s.off, len |-> s.len]
  <1>5. p.id = s.id /\ p.off = s.off /\ p.len = s.len
    OBVIOUS
  <1>6. ASSUME clean' PROVE PiecesInside' /\ PiecesDisjoint' /\ Tracking'
    <2>1. PiecesInside /\ PiecesDisjoint /\ Tracking
      BY <1>1, <1>6 DEF CleanInv
    <2>2. p \in inFlight /\ s.by = calls
      BY <2>1 DEF Tracking
    <2>3. moved' = moved \cup bytes
      BY <1>1, <2>2
    <2>4. Tracking'
      <3>1. e.id = s.id /\ e.n = n /\ e.by = calls
        BY <2>2
      <3>2. \A x \in cq' : x.by = calls' /\ \E q \in inFlight' :
               q.id = x.id /\ x.n <= q.len /\ (q.off .. (q.off + x.n - 1)) \subseteq moved'
        <4>1. \E q \in inFlight :
               q.id = e.id /\ e.n <= q.len /\ (q.off .. (q.off + e.n - 1)) \subseteq moved'
          BY <1>5, <2>2, <2>3, <3>1
        <4>2. \A x \in cq : x.by = calls' /\ \E q \in inFlight' :
               q.id = x.id /\ x.n <= q.len /\ (q.off .. (q.off + x.n - 1)) \subseteq moved'
          BY <1>1, <2>1, <2>3 DEF Tracking
        <4> QED
          BY <1>1, <3>1, <4>1, <4>2
      <3>3. \A t \in sq \cup (kern \ {s}) : t.id # s.id
        <4>1. \A t \in kern : t.id = s.id => t = s
          BY <2>1, EntryOfPiece
        <4> QED
          BY <2>1, <4>1 DEF Tracking
      <3>4. \A x \in cq : x.id # s.id
        BY <2>1 DEF Tracking
      <3>5. \A t \in sq' \cup kern' : t.by = calls' /\ [id |-> t.id, off |-> t.off, len |-> t.len] \in inFlight'
        BY <1>1, <2>1 DEF Tracking
      <3>6. /\ \A x \in sq', t \in kern' : x.id # t.id
            /\ \A t \in sq' \cup kern', x \in cq' : t.id # x.id
            /\ \A x, f \in cq' : x.id = f.id => x = f
        BY <1>1, <2>1, <3>1, <3>3, <3>4 DEF Tracking
      <3> QED
        BY <3>2, <3>5, <3>6 DEF Tracking
    <2>5. PiecesInside' /\ PiecesDisjoint'
      BY <1>1, <2>1 DEF PiecesDisjoint, PiecesInside, Bytes
    <2> QED
      BY <2>4, <2>5
  <1>7. ASSUME Sound' PROVE Covered' /\ Settled'
    <2>1. Covered /\ Settled /\ PiecesInside /\ Tracking
      BY <1>1, <1>7 DEF Sound, SoundInv, CleanInv
    <2>2. p \in inFlight /\ s.by = calls
      BY <2>1 DEF Tracking
    <2>3. p.off + p.len <= total /\ total \in Nat
      BY <2>1, <2>2 DEF PiecesInside, TypeOK, Offsets
    <2>4. bytes \subseteq All
      BY <1>2, <1>5, <2>3 DEF All
    <2> QED
      BY <1>1, <2>1, <2>2, <2>4 DEF Covered, Settled, All, Bytes
  <1> QED
    BY <1>3, <1>4, <1>6, <1>7 DEF CleanInv, SoundInv

LEMMA KernelInv == ASSUME Inv, Kernel PROVE Inv'
  <1>1. PICK s \in kern : Transfer(s) \/ EndOfFile(s) \/ TransferFails(s)
    BY DEF Kernel
  <1>2. s.off \in Nat /\ s.len \in Nat
    BY DEF Inv, TypeOK, Entries, Offsets
  <1>3. Limit(s) \in Int /\ Limit(s) <= s.len
    <2>1. CASE op # "read"
      BY <1>2, <2>1 DEF Limit
    <2>2. CASE op = "read"
      <3>1. PICK r \in Int : r = FileLen - s.off
        BY <1>2, ConstantsAssumption
      <3>2. PICK m \in Int : m = Min({s.len, r}) /\ m <= s.len
        <4>1. PICK l \in Int : l = s.len
          BY <1>2
        <4>2. Min({l, r}) \in {l, r} /\ Min({l, r}) <= l
          BY MinOfTwo
        <4> QED
          BY <4>1, <4>2
      <3>3. Max({0, m}) \in {0, m}
        BY MaxWithZero
      <3> QED
        BY <1>2, <2>2, <3>1, <3>2, <3>3 DEF Limit
    <2> QED
      BY <2>1, <2>2
  <1>4. \E n \in Int : n >= -1 /\ n <= s.len /\ Complete(s, n)
    BY <1>1, <1>2, <1>3 DEF Transfer, EndOfFile, TransferFails
  <1> QED
    BY <1>4, CompleteInv

(***************************************************************************)
(* Reaping                                                                  *)
(***************************************************************************)
LEMMA ReapFullInv ==
  ASSUME Inv, NEW e \in cq, NEW p \in Piece(e), ReapFull(e, p)
  PROVE  Inv'
  <1> USE DEF Inv
  <1>1. /\ p \in inFlight /\ p.id = e.id /\ e.n = p.len /\ pc = "reap"
        /\ cq' = cq \ {e} /\ inFlight' = inFlight \ {p}
        /\ UNCHANGED <<pc, op, total, work, nextId, sq, kern, moved, result, calls, clean>>
    BY DEF Piece, ReapFull, Reap
  <1>2. TypeOK'
    BY <1>1 DEF TypeOK
  <1>3. IdsUnique' /\ Running' /\ CleanInv'
    <2>1. IdsUnique' /\ Running'
      BY <1>1 DEF IdsUnique, Running
    <2>2. Tracking => Tracking'
      BY ReapTracking DEF ReapFull
    <2> QED
      BY <1>1, <2>1, <2>2 DEF CleanInv, PiecesDisjoint, PiecesInside, Bytes
  <1>4. ASSUME Sound' PROVE Covered' /\ Settled'
    <2>1. Covered /\ Tracking
      BY <1>1, <1>4 DEF Sound, SoundInv, CleanInv
    <2>3. Bytes(p) \subseteq moved
      <3>1. PICK q \in inFlight : q.id = e.id /\ (q.off .. (q.off + e.n - 1)) \subseteq moved
        BY <2>1 DEF Tracking
      <3>2. q = p
        BY <1>1, <3>1 DEF IdsUnique
      <3> QED
        BY <1>1, <3>1, <3>2 DEF Bytes
    <2>4. Covered'
      BY <1>1, <2>1, <2>3 DEF Covered, All, Bytes
    <2> QED
      BY <1>1, <2>4 DEF Settled
  <1> QED
    BY <1>2, <1>3, <1>4 DEF SoundInv

\* What a short transfer left over goes back to `work'.
LEMMA ReapShortInv ==
  ASSUME Inv, NEW e \in cq, NEW p \in Piece(e), ReapShort(e, p)
  PROVE  Inv'
  <1> USE DEF Inv
  <1> DEFINE r == [off |-> Advanced(p, e.n), len |-> p.len - e.n]
  <1>1. /\ p \in inFlight /\ p.id = e.id /\ 0 < e.n /\ e.n < p.len /\ pc = "reap"
        /\ cq' = cq \ {e} /\ inFlight' = inFlight \ {p} /\ work' = work \cup {r}
        /\ UNCHANGED <<pc, op, total, nextId, sq, kern, moved, result, calls, clean>>
    BY DEF Piece, ReapShort, Reap
  <1>2. p.off \in Offsets /\ p.len \in Offsets \ {0} /\ e.n \in Int
    BY <1>1 DEF TypeOK, Flights
  <1>3. r.off = Advanced(p, e.n) /\ r.len = p.len - e.n /\ r \in Pieces
    <2>1. Advanced(p, e.n) \in Offsets
      <3>1. p.off + e.n \in Int /\ USize \in Nat \ {0}
        BY <1>2, Widths DEF Offsets
      <3> QED
        BY <3>1, RemainderInRange DEF Advanced, Offsets
    <2>2. p.len - e.n \in Offsets \ {0}
      BY <1>1, <1>2, Widths DEF Offsets
    <2> QED
      BY <2>1, <2>2 DEF Pieces
  <1>4. TypeOK'
    BY <1>1, <1>3 DEF TypeOK
  <1>5. IdsUnique' /\ Running'
    BY <1>1 DEF IdsUnique, Running
  <1>6. ASSUME clean PROVE r.off = p.off + e.n /\ Bytes(r) \subseteq Bytes(p)
                          /\ r.off + r.len <= total /\ r.len <= Chunk
    <2>1. p.off + p.len <= total /\ p.len <= Chunk /\ total \in Offsets
      BY <1>1, <1>6 DEF CleanInv, PiecesInside, TypeOK
    <2>2. p.off + e.n \in 0..(USize - 1)
      BY <1>1, <1>2, <2>1, Widths DEF Offsets
    <2>3. r.off = p.off + e.n
      BY <1>3, <2>2, Widths, SmallRemainder DEF Advanced
    <2> QED
      BY <1>1, <1>2, <1>3, <2>1, <2>3, ChunkIsPositive DEF Bytes, Offsets
  <1>7. ASSUME clean' PROVE PiecesInside' /\ PiecesDisjoint' /\ Tracking'
    <2>1. clean /\ PiecesInside /\ PiecesDisjoint /\ Tracking
      BY <1>1, <1>7 DEF CleanInv
    <2>2. PiecesDisjoint'
      <3>1. \A x \in work : Bytes(x) \cap Bytes(r) = {}
        BY <1>1, <1>6, <2>1 DEF PiecesDisjoint
      <3>2. \A x \in inFlight \ {p} : Bytes(x) \cap Bytes(r) = {}
        BY <1>1, <1>6, <2>1 DEF PiecesDisjoint
      <3>3. \A x, y \in work' : x # y => Bytes(x) \cap Bytes(y) = {}
        BY <1>1, <2>1, <3>1 DEF PiecesDisjoint
      <3>4. \A x \in work', y \in inFlight' : Bytes(x) \cap Bytes(y) = {}
        BY <1>1, <2>1, <3>2 DEF PiecesDisjoint
      <3>5. \A x, y \in inFlight' : x # y => Bytes(x) \cap Bytes(y) = {}
        BY <1>1, <2>1 DEF PiecesDisjoint
      <3> QED
        BY <3>3, <3>4, <3>5 DEF PiecesDisjoint, Bytes
    <2>3. PiecesInside'
      BY <1>1, <1>6, <2>1 DEF PiecesInside
    <2>4. Tracking'
      BY <2>1, ReapTracking DEF ReapShort
    <2> QED
      BY <2>2, <2>3, <2>4
  <1>8. ASSUME Sound' PROVE Covered' /\ Settled'
    <2>1. Covered /\ Tracking /\ clean
      BY <1>1, <1>8 DEF Sound, SoundInv, CleanInv
    <2>3. Bytes(p) \subseteq moved \cup Bytes(r)
      <3>1. PICK q \in inFlight : q.id = e.id /\ (q.off .. (q.off + e.n - 1)) \subseteq moved
        BY <2>1 DEF Tracking
      <3>2. q = p
        BY <1>1, <3>1 DEF IdsUnique
      <3> QED
        BY <1>1, <1>2, <1>3, <1>6, <2>1, <3>1, <3>2 DEF Bytes, Offsets
    <2>4. Covered'
      <3>1. ASSUME NEW b \in All, b \notin moved
            PROVE  \E q \in work' \cup inFlight' : b \in Bytes(q)
        <4>1. PICK q \in work \cup inFlight : b \in Bytes(q)
          BY <2>1, <3>1 DEF Covered
        <4>2. CASE q = p
          BY <1>1, <2>3, <3>1, <4>1, <4>2
        <4>3. CASE q # p
          BY <1>1, <4>1, <4>3
        <4> QED
          BY <4>2, <4>3
      <3> QED
        BY <1>1, <2>1, <3>1 DEF Covered, All, Bytes
    <2> QED
      BY <1>1, <2>4 DEF Settled
  <1> QED
    BY <1>4, <1>5, <1>7, <1>8 DEF CleanInv, SoundInv

\* A count larger than the piece does not occur on a clean ring, and elsewhere
\* the wrapped length is still a length.
LEMMA ReapWrapsInv ==
  ASSUME Inv, NEW e \in cq, NEW p \in Piece(e), ReapTooMuchWraps(e, p)
  PROVE  Inv'
  <1> USE DEF Inv
  <1> DEFINE r == [off |-> Advanced(p, e.n), len |-> p.len - e.n + USize]
  <1>1. /\ p \in inFlight /\ p.id = e.id /\ e.n > p.len /\ pc = "reap"
        /\ cq' = cq \ {e} /\ inFlight' = inFlight \ {p} /\ work' = work \cup {r}
        /\ UNCHANGED <<pc, op, total, nextId, sq, kern, moved, result, calls, clean>>
    BY DEF Piece, ReapTooMuchWraps, Reap
  <1>2. p.off \in Offsets /\ p.len \in Offsets \ {0} /\ e.n \in -1..(U32 - 1)
    BY <1>1 DEF TypeOK, Flights
  <1>3. r \in Pieces
    <2>1. Advanced(p, e.n) \in Offsets
      <3>1. p.off + e.n \in Int /\ USize \in Nat \ {0}
        BY <1>2, Widths DEF Offsets
      <3> QED
        BY <3>1, RemainderInRange DEF Advanced, Offsets
    <2>2. p.len - e.n + USize \in Offsets \ {0}
      BY <1>1, <1>2, Widths DEF Offsets
    <2> QED
      BY <2>1, <2>2 DEF Pieces
  <1>4. TypeOK'
    BY <1>1, <1>3 DEF TypeOK
  <1>5. IdsUnique' /\ Running'
    BY <1>1 DEF IdsUnique, Running
  <1>6. ~ clean
    <2>1. SUFFICES ASSUME clean PROVE FALSE
      OBVIOUS
    <2>2. PICK q \in inFlight : q.id = e.id /\ e.n <= q.len
      BY <2>1 DEF CleanInv, Tracking
    <2>3. q = p
      BY <1>1, <2>2 DEF IdsUnique
    <2> QED
      BY <1>1, <1>2, <2>2, <2>3 DEF Offsets
  <1> QED
    BY <1>1, <1>4, <1>5, <1>6 DEF CleanInv, SoundInv, Sound

(***************************************************************************)
(* The theorems.                                                            *)
(***************************************************************************)
LEMMA InvIsInductive == Inv /\ [Next]_vars => Inv'
  <1> SUFFICES ASSUME Inv, [Next]_vars PROVE Inv'
    OBVIOUS
  <1>1. CASE Drive
    <2>1. CASE SubmitAll
      BY <2>1, SubmitInv DEF SubmitAll
    <2>2. CASE ReapOne
      BY <2>2, FailingInv, ReapFullInv, ReapShortInv, ReapWrapsInv DEF ReapOne
    <2> QED
      BY <1>1, <2>1, <2>2, PushInv, FillEndsInv, FinishInv, GoingOnInv DEF Drive
  <1>2. CASE Trouble
    <2>1. CASE SubmitSome
      BY <2>1, SubmitInv DEF SubmitSome
    <2>2. CASE Interrupted
      BY <2>2, FailingInv, GoingOnInv DEF Interrupted
    <2> QED
      BY <1>2, <2>1, <2>2, FailingInv DEF Trouble
  <1>3. CASE UNCHANGED vars
    <2>1. UNCHANGED <<pc, op, total, work, inFlight, nextId, sq, kern, cq, moved, result, calls, clean>>
      BY <1>3 DEF vars
    <2>2. TypeOK'
      BY <2>1 DEF Inv, TypeOK
    <2>3. IdsUnique' /\ Running' /\ CleanInv'
      BY <2>1 DEF Inv, IdsUnique, Running, CleanInv, PiecesDisjoint, PiecesInside, Tracking, Bytes
    <2>4. SoundInv'
      BY <2>1 DEF Inv, SoundInv, Sound, Covered, Settled, All, Bytes
    <2> QED
      BY <2>2, <2>3, <2>4 DEF Inv
  <1> QED
    BY <1>1, <1>2, <1>3, StartInv, KernelInv DEF Next

LEMMA SpecInv == Spec => []Inv
  BY InitInv, InvIsInductive, PTL DEF Spec

\* Every variable keeps its type and its width: no piece of a buffer is ever
\* empty, on a ring an earlier call failed on and in a build that wraps too.
THEOREM TypeSafety == Spec => []TypeOK
  BY SpecInv, PTL DEF Inv

\* On a ring no earlier call failed on, every operation of the kernel lies in
\* the buffer and no byte belongs to two of them, or to one and a piece still to
\* be pushed (the SAFETY comments on drive() and on the read pointer).
THEOREM OperationsDisjoint == Spec => []NoByteTwice
  <1>1. Inv => NoByteTwice
    <2> SUFFICES ASSUME Inv, clean
                 PROVE  /\ \A s \in sq \cup kern : Bytes(s) \subseteq All
                        /\ \A s, t \in sq \cup kern : s # t => Bytes(s) \cap Bytes(t) = {}
                        /\ \A s \in sq \cup kern, p \in work : Bytes(s) \cap Bytes(p) = {}
                        /\ \A p, q \in work : p # q => Bytes(p) \cap Bytes(q) = {}
      BY DEF NoByteTwice
    <2> DEFINE flight(s) == [id |-> s.id, off |-> s.off, len |-> s.len]
    <2>1. PiecesInside /\ PiecesDisjoint /\ Tracking
      BY DEF Inv, CleanInv
    <2>2. ASSUME NEW s \in sq \cup kern
          PROVE  flight(s) \in inFlight /\ Bytes(flight(s)) = Bytes(s)
      BY <2>1 DEF Tracking, Bytes
    <2>3. ASSUME NEW s \in sq \cup kern PROVE Bytes(s) \subseteq All
      <3>1. flight(s).off + flight(s).len <= total
        BY <2>1, <2>2 DEF PiecesInside
      <3>2. s.off \in Nat /\ s.len \in Nat /\ total \in Nat
        BY DEF Inv, TypeOK, Entries, Offsets
      <3> QED
        BY <3>1, <3>2 DEF Bytes, All
    <2>4. ASSUME NEW s \in sq \cup kern, NEW t \in sq \cup kern, s # t
          PROVE  Bytes(s) \cap Bytes(t) = {}
      <3>1. s.id # t.id
        BY <2>1, <2>4, EntryOfPiece
      <3>2. flight(s) # flight(t)
        <4>1. flight(s).id = s.id /\ flight(t).id = t.id
          OBVIOUS
        <4> QED
          BY <3>1, <4>1
      <3>3. Bytes(flight(s)) \cap Bytes(flight(t)) = {}
        BY <2>1, <2>2, <3>2 DEF PiecesDisjoint
      <3> QED
        BY <2>2, <3>3
    <2>5. ASSUME NEW s \in sq \cup kern, NEW p \in work PROVE Bytes(s) \cap Bytes(p) = {}
      <3>1. Bytes(p) \cap Bytes(flight(s)) = {}
        BY <2>1, <2>2 DEF PiecesDisjoint
      <3> QED
        BY <2>2, <3>1
    <2> QED
      BY <2>1, <2>3, <2>4, <2>5 DEF PiecesDisjoint
  <1> QED
    BY <1>1, SpecInv, PTL

\* Ok means every byte of the buffer was transferred, for every buffer, chunk
\* and ring size and every pattern of short transfers (write_all_at, read_all_at).
THEOREM OkTransfersAll == Spec => []OkMeansAll
  <1>1. Inv => OkMeansAll
    <2> SUFFICES ASSUME Inv, result = "Ok", clean PROVE moved = All
      BY DEF OkMeansAll
    <2>1. Covered /\ Settled /\ pc = "idle"
      BY DEF Inv, SoundInv, Sound, Running
    <2>2. inFlight = {} /\ work = {}
      BY <2>1 DEF Settled
    <2> QED
      BY <2>1, <2>2 DEF Covered
  <1> QED
    BY <1>1, SpecInv, PTL

(***************************************************************************)
(* The queues.  Tracking says that what is in a queue stands for one piece  *)
(* in flight; what is missing is that every piece in flight is in a queue   *)
(* (Accounted) and that the fill loop keeps to the size of the ring.        *)
(***************************************************************************)
Accounted == \A p \in inFlight : \E x \in sq \cup kern \cup cq : x.id = p.id
Capped    == IsFiniteSet(inFlight) /\ Cardinality(inFlight) <= RingSize

QueueInv == Sound => Accounted /\ Capped

\* Pieces leave the ring, and those that stay keep their entry or completion.
LEMMA QueueFrame ==
  ASSUME QueueInv, Sound' => Sound, inFlight' \subseteq inFlight,
         \A p \in inFlight', x \in sq \cup kern \cup cq : x.id = p.id =>
           \E y \in sq' \cup kern' \cup cq' : y.id = p.id
  PROVE  QueueInv'
  <1> SUFFICES ASSUME Sound' PROVE Accounted' /\ Capped'
    BY DEF QueueInv
  <1>1. Accounted /\ Capped
    BY DEF QueueInv
  <1>2. Capped'
    <2>1. /\ IsFiniteSet(inFlight') /\ Cardinality(inFlight') <= Cardinality(inFlight)
          /\ Cardinality(inFlight) \in Nat /\ Cardinality(inFlight') \in Nat
      BY <1>1, FS_Subset, FS_CardinalityType DEF Capped
    <2> QED
      BY <1>1, <2>1, ConstantsAssumption DEF Capped
  <1>3. Accounted'
    BY <1>1 DEF Accounted
  <1> QED
    BY <1>2, <1>3

LEMMA PushQueue == ASSUME Inv, QueueInv, Push PROVE QueueInv'
  <1> DEFINE flight(p) == [id |-> nextId, off |-> p.off, len |-> p.len]
             entry(p)  == [id |-> nextId, off |-> p.off, len |-> p.len % U32, by |-> calls]
  <1> SUFFICES ASSUME Sound' PROVE Accounted' /\ Capped'
    BY DEF QueueInv
  <1>1. PICK p \in work : inFlight' = inFlight \cup {flight(p)} /\ sq' = sq \cup {entry(p)}
    BY DEF Push
  <1>2. UNCHANGED <<kern, cq, result, clean>> /\ Cardinality(inFlight) < RingSize
    BY DEF Push, HasRoom
  <1>3. Accounted /\ Capped
    BY <1>2 DEF QueueInv, Sound
  <1>4. Accounted'
    <2>1. flight(p).id = nextId /\ entry(p).id = nextId
      OBVIOUS
    <2> QED
      BY <1>1, <1>2, <1>3, <2>1 DEF Accounted
  <1>5. Capped'
    <2>1. Cardinality(inFlight) \in Nat
      BY <1>3, FS_CardinalityType DEF Capped
    <2> HIDE DEF flight
    <2>2. /\ IsFiniteSet(inFlight')
          /\ Cardinality(inFlight') \in {Cardinality(inFlight), Cardinality(inFlight) + 1}
      BY <1>1, <1>3, FS_AddElement DEF Capped
    <2> QED
      BY <1>2, <2>1, <2>2, ConstantsAssumption DEF Capped
  <1> QED
    BY <1>4, <1>5

LEMMA CompleteQueue ==
  ASSUME QueueInv, NEW s \in kern, NEW n, Complete(s, n)
  PROVE  QueueInv'
  <1> DEFINE e == [id |-> s.id, n |-> n, by |-> s.by]
  <1>1. kern' = kern \ {s} /\ cq' = cq \cup {e} /\ UNCHANGED <<sq, inFlight, result, clean>>
    BY DEF Complete
  <1>2. e.id = s.id
    OBVIOUS
  <1>3. \A x \in sq \cup kern \cup cq : \E y \in sq' \cup kern' \cup cq' : y.id = x.id
    BY <1>1, <1>2
  <1> QED
    BY <1>1, <1>3, QueueFrame DEF Sound

\* user_data names one piece, so that reaping one piece takes no other's completion
LEMMA ReapQueue ==
  ASSUME Inv, QueueInv, NEW e \in cq, NEW p \in Piece(e),
         ReapFull(e, p) \/ ReapShort(e, p) \/ ReapTooMuchWraps(e, p)
  PROVE  QueueInv'
  <1>1. /\ p \in inFlight /\ p.id = e.id
        /\ cq' = cq \ {e} /\ inFlight' = inFlight \ {p} /\ UNCHANGED <<sq, kern, result, clean>>
    BY DEF Piece, ReapFull, ReapShort, ReapTooMuchWraps, Reap
  <1>2. \A q \in inFlight' : q.id # e.id
    BY <1>1 DEF Inv, IdsUnique
  <1> QED
    BY <1>1, <1>2, QueueFrame DEF Sound

LEMMA QueueInvIsInductive == Inv /\ QueueInv /\ [Next]_vars => QueueInv'
  <1> SUFFICES ASSUME Inv, QueueInv, [Next]_vars PROVE QueueInv'
    OBVIOUS
  <1>1. CASE Start
    <2>1. inFlight' = {}
      BY <1>1 DEF Start
    <2> QED
      BY <2>1, FS_EmptySet, ConstantsAssumption DEF QueueInv, Accounted, Capped
  <1>2. ASSUME result' \in {"Err", "Panic"} PROVE QueueInv'
    BY <1>2 DEF QueueInv, Sound
  <1>3. ASSUME UNCHANGED <<inFlight, sq, kern, cq, clean>>, result' \in {"None", "Ok"} => Sound \/ ~ clean
        PROVE  QueueInv'
    BY <1>3, QueueFrame DEF Sound
  <1>4. CASE FillEnds \/ WaitEnds \/ ReapEnds \/ Interrupted \/ SubmitFails \/ UNCHANGED vars
    BY <1>2, <1>3, <1>4 DEF FillEnds, WaitEnds, ReapEnds, Interrupted, SubmitFails, Return,
       queues, vars, Sound
  <1>5. CASE Finish
    <2>1. UNCHANGED <<inFlight, sq, kern, cq, clean>> /\ result = "None"
      BY <1>5 DEF Finish, queues, Inv, Running
    <2> QED
      BY <1>3, <2>1 DEF Sound
  <1>6. ASSUME NEW S \in SUBSET sq, Submit(S) PROVE QueueInv'
    BY <1>6, QueueFrame DEF Submit, Sound
  <1>7. CASE SubmitAll \/ SubmitSome
    BY <1>6, <1>7 DEF SubmitAll, SubmitSome
  <1>8. CASE Kernel
    BY <1>8, CompleteQueue DEF Kernel, Transfer, EndOfFile, TransferFails
  <1>9. CASE ReapOne
    BY <1>2, <1>9, ReapQueue DEF ReapOne, ReapUnknown, ReapError, ReapTooMuchPanics, Return
  <1> QED
    BY <1>1, <1>4, <1>5, <1>7, <1>8, <1>9, PushQueue DEF Next, Drive, Trouble

\* A piece in flight is in one place: among the entries or the completions.
LEMMA InOnePlace ==
  ASSUME Inv, Tracking, Accounted, NEW p \in inFlight
  PROVE  Tracked(p)
  <1> DEFINE entries == {s \in sq \cup kern : s.id = p.id}
             completions == {e \in cq : e.id = p.id}
  <1>1. \A s, t \in entries : s = t
    <2>1. ASSUME NEW s \in entries
          PROVE  s.off = p.off /\ s.len = p.len /\ s.by = calls /\ s.id = p.id /\ s \in Entries
      <3>1. s.by = calls /\ [id |-> s.id, off |-> s.off, len |-> s.len] \in inFlight
        BY DEF Tracking
      <3>2. [id |-> s.id, off |-> s.off, len |-> s.len] = p
        BY <3>1 DEF Inv, IdsUnique
      <3> QED
        BY <3>1, <3>2 DEF Inv, TypeOK
    <2> QED
      BY <2>1 DEF Entries
  <1>2. \A e, f \in completions : e = f
    BY DEF Tracking
  <1>3. entries = {} \/ completions = {}
    BY DEF Tracking
  <1>4. entries # {} \/ completions # {}
    BY DEF Accounted
  <1>5. (\E s : entries = {s} /\ completions = {}) \/ (\E e : completions = {e} /\ entries = {})
    BY ZenonT(40), <1>1, <1>2, <1>3, <1>4
  <1>6. Tracked(p) <=> Cardinality(entries) + Cardinality(completions) = 1
    BY DEF Tracked
  <1> HIDE DEF entries, completions
  <1>7. Cardinality({}) = 0 /\ \A s : Cardinality({s}) = 1
    BY FS_EmptySet, FS_Singleton
  <1> QED
    BY <1>5, <1>6, <1>7

\* On a ring no call failed on, the pieces in flight, the entries and the
\* completions correspond: the queues never overflow, no completion is unknown
\* or claims more than its piece (the subtraction in drive() cannot underflow),
\* and drive() waits only for what will come.
THEOREM QueuesCorrespond == Spec => []QueuesMatch
  <1>1. Inv /\ QueueInv => QueuesMatch
    <2> SUFFICES ASSUME Inv, QueueInv, Sound
                 PROVE  /\ Cardinality(inFlight) <= RingSize
                        /\ \A p \in inFlight : Tracked(p)
                        /\ \A s \in sq \cup kern \cup cq : \E p \in inFlight : p.id = s.id
                        /\ \A e \in cq, p \in inFlight : p.id = e.id => e.n <= p.len
      BY DEF QueuesMatch, Sound
    <2>1. Accounted /\ Capped /\ Tracking
      BY DEF QueueInv, Inv, CleanInv, Sound
    <2>2. \A s \in sq \cup kern \cup cq : \E p \in inFlight : p.id = s.id
      <3>1. ASSUME NEW s \in sq \cup kern PROVE \E p \in inFlight : p.id = s.id
        <4>1. [id |-> s.id, off |-> s.off, len |-> s.len] \in inFlight
          BY <2>1 DEF Tracking
        <4> QED
          BY <4>1
      <3> QED
        BY <2>1, <3>1 DEF Tracking
    <2>3. \A e \in cq, p \in inFlight : p.id = e.id => e.n <= p.len
      BY <2>1 DEF Tracking, Inv, IdsUnique
    <2> QED
      BY <2>1, <2>2, <2>3, InOnePlace DEF Capped
  <1>2. Init => QueueInv
    BY FS_EmptySet, ConstantsAssumption DEF Init, QueueInv, Accounted, Capped
  <1> QED
    BY <1>1, <1>2, QueueInvIsInductive, SpecInv, PTL DEF Spec
==============================================================================
