----------------------------- MODULE IoUringFile -----------------------------
(***************************************************************************)
(* IoUringFile (io_uring_backend.rs): write_all_at and read_all_at cut a    *)
(* buffer into chunks and drive them through one io_uring, resubmitting     *)
(* what a completion left over.                                             *)
(*                                                                         *)
(* The kernel is external: it takes submitted entries, transfers some bytes *)
(* of each, in any order and at any time, and posts one completion per      *)
(* entry.  No property depends on the order within a queue, so the work     *)
(* list, the submission queue and the completion queue are sets, and every  *)
(* order is explored.                                                       *)
(*                                                                         *)
(* One ring may serve several calls.  `clean' records that every earlier    *)
(* call returned Ok; after an error the ring may still hold its entries.    *)
(* What they complete to then meets the pieces of the next call, and a      *)
(* completion may count more bytes than its piece has: a build with         *)
(* overflow checks panics, one without them (Cargo.toml asks for none in    *)
(* the release profile) wraps the length and goes on.  Both are explored.   *)
(*                                                                         *)
(* A definition marked (slip) is not the code: it is what a plausible error *)
(* would turn the definition below it into, and the run notices it.         *)
(***************************************************************************)
EXTENDS Integers, Sequences, FiniteSets, FiniteSetsExt

CONSTANTS Chunk,      \* chunk_size
          RingSize,   \* ring_size, and the capacity of the submission queue
          Lengths,    \* buffer lengths of the first, second, ... call on the ring;
                      \* it bounds the number of calls
          FileLen,    \* bytes a read finds in the file
          Faulty,     \* submission and transfers may fail
          USize,      \* 2^64: offsets and lengths of pieces are usize
          U32         \* 2^32: the length of an entry is u32

ASSUME ConstantsAssumption ==
  /\ Chunk \in Nat \ {0} /\ RingSize \in Nat \ {0}
  /\ FileLen \in Nat
  /\ U32 \in Nat /\ Chunk < U32
  /\ USize \in Nat /\ U32 <= USize
  /\ Lengths \in Seq(SUBSET (0..(USize - 1)))

VARIABLES pc,         \* where drive() is
          op,         \* "write" or "read"
          total,      \* length of the buffer
          work,       \* pieces not yet pushed
          inFlight,   \* pieces pushed, by user_data
          nextId,
          sq,         \* entries pushed but not yet submitted
          kern,       \* entries the kernel works on
          cq,         \* completions not yet reaped
          moved,      \* bytes of this call's buffer transferred
          result,     \* of the latest call
          calls,      \* calls so far; marks which call an entry belongs to
          clean

queues == <<sq, kern, cq>>
vars == <<pc, op, total, work, inFlight, nextId, sq, kern, cq, moved, result, calls, clean>>

Bytes(p) == p.off .. (p.off + p.len - 1)
All == 0 .. (total - 1)

\* (slip) one chunk too many when the length is a multiple of the chunk size
ChunksInclusive(n) ==
  {[off |-> o, len |-> Min({Chunk, n - o})] : o \in {i \in 0..n : i % Chunk = 0}}

\* data.chunks(chunk_size) with the offset of each chunk
Chunks(n) ==
  {[off |-> o, len |-> Min({Chunk, n - o})] : o \in {i \in 0..(n - 1) : i % Chunk = 0}}

Init ==
  /\ pc = "idle" /\ op = "write" /\ total = 0
  /\ work = {} /\ inFlight = {} /\ nextId = 0
  /\ sq = {} /\ kern = {} /\ cq = {}
  /\ moved = {} /\ result = "None" /\ calls = 0 /\ clean = TRUE

Return(r) == pc' = "idle" /\ result' = r

\* write_all_at or read_all_at, on a file opened for the one or the other
Start ==
  /\ pc = "idle" /\ calls < Len(Lengths)
  /\ \E o \in {"write", "read"}, n \in Lengths[calls + 1] :
       (calls > 0 => o = op) /\ op' = o /\ total' = n /\ work' = Chunks(n)
  /\ inFlight' = {} /\ nextId' = 0 /\ moved' = {}
  /\ calls' = calls + 1
  /\ clean' = (clean /\ result \in {"None", "Ok"})
  /\ pc' = "fill" /\ result' = "None"
  /\ UNCHANGED queues

(***************************************************************************)
(* The fill loop                                                            *)
(***************************************************************************)
\* (slip) off by one
HasRoomInclusive == Cardinality(inFlight) <= RingSize

HasRoom == Cardinality(inFlight) < RingSize

Push ==
  /\ pc = "fill" /\ HasRoom /\ Cardinality(sq) < RingSize
  /\ \E p \in work :
       /\ work' = work \ {p}
       /\ inFlight' = inFlight \cup {[id |-> nextId, off |-> p.off, len |-> p.len]}
       /\ sq' = sq \cup {[id |-> nextId, off |-> p.off, len |-> p.len % U32, by |-> calls]}
  /\ nextId' = nextId + 1
  /\ UNCHANGED <<pc, op, total, kern, cq, moved, result, calls, clean>>

FillEnds ==   \* ring full, work done, or push() failed and the piece went back
  /\ pc = "fill"
  /\ ~ HasRoom \/ work = {} \/ Cardinality(sq) >= RingSize
  /\ pc' = "check"
  /\ UNCHANGED <<op, total, work, inFlight, nextId, queues, moved, result, calls, clean>>

Finish ==
  /\ pc = "check" /\ inFlight = {}
  /\ Return("Ok")
  /\ UNCHANGED <<op, total, work, inFlight, nextId, queues, moved, calls, clean>>

(***************************************************************************)
(* submit_and_wait(1).  The kernel may take only some of the entries, and   *)
(* then does not wait; the call may fail before it takes any; a signal ends *)
(* the wait, as an error (EINTR) if this call submitted nothing.            *)
(***************************************************************************)
Submit(S) ==
  /\ pc = "check" /\ inFlight # {}
  /\ kern' = kern \cup S
  /\ sq' = sq \ S
  /\ UNCHANGED <<op, total, work, inFlight, nextId, cq, moved, result, calls, clean>>

SubmitAll  == Submit(sq) /\ pc' = IF sq = {} THEN "waitOnly" ELSE "wait"
SubmitSome == Faulty /\ \E S \in SUBSET sq \ {{}, sq} : Submit(S) /\ pc' = "reap"

SubmitFails ==
  /\ Faulty /\ pc = "check" /\ inFlight # {}
  /\ Return("Err")
  /\ UNCHANGED <<op, total, work, inFlight, nextId, queues, moved, calls, clean>>

WaitEnds ==
  /\ pc \in {"wait", "waitOnly"} /\ cq # {}
  /\ pc' = "reap"
  /\ UNCHANGED <<op, total, work, inFlight, nextId, queues, moved, result, calls, clean>>

Interrupted ==
  /\ Faulty /\ cq = {}
  /\ \/ pc = "wait" /\ pc' = "reap" /\ result' = result
     \/ pc = "waitOnly" /\ Return("Err")
  /\ UNCHANGED <<op, total, work, inFlight, nextId, queues, moved, calls, clean>>

(***************************************************************************)
(* The kernel: a full, short, empty or failed transfer.  A read ends at the *)
(* end of the file.  It does not care whether drive() is still there.       *)
(***************************************************************************)
Limit(s) == IF op = "read" THEN Max({0, Min({s.len, FileLen - s.off})}) ELSE s.len

Complete(s, n) ==
  /\ kern' = kern \ {s}
  /\ cq' = cq \cup {[id |-> s.id, n |-> n, by |-> s.by]}
  /\ moved' = IF s.by = calls THEN moved \cup (s.off .. (s.off + n - 1)) ELSE moved
  /\ UNCHANGED <<pc, op, total, work, inFlight, nextId, sq, result, calls, clean>>

Transfer(s) == \E n \in 1..Limit(s) : Complete(s, n)
EndOfFile(s) == (Limit(s) = 0 \/ Faulty) /\ Complete(s, 0)
TransferFails(s) == Faulty /\ Complete(s, -1)

Kernel == \E s \in kern : Transfer(s) \/ EndOfFile(s) \/ TransferFails(s)

(***************************************************************************)
(* Reaping.  The code sees a completion's user_data and result only.        *)
(***************************************************************************)
Piece(e) == {p \in inFlight : p.id = e.id}

\* piece.buf_off += n
Advanced(p, n) == (p.off + n) % USize

Reap(e, p) ==
  /\ pc = "reap"
  /\ cq' = cq \ {e}
  /\ inFlight' = inFlight \ {p}
  /\ UNCHANGED <<op, total, nextId, sq, kern, moved, calls, clean>>

ReapFull(e, p) ==
  /\ Reap(e, p) /\ e.n = p.len
  /\ UNCHANGED <<pc, work, result>>

\* (slip) the remainder starts where the piece did
ReapShortSameOffset(e, p) ==
  /\ Reap(e, p) /\ 0 < e.n /\ e.n < p.len
  /\ work' = work \cup {[off |-> p.off, len |-> p.len - e.n]}
  /\ UNCHANGED <<pc, result>>

\* (slip) the remainder is as long as the piece was
ReapShortSameLength(e, p) ==
  /\ Reap(e, p) /\ 0 < e.n /\ e.n < p.len
  /\ work' = work \cup {[off |-> Advanced(p, e.n), len |-> p.len]}
  /\ UNCHANGED <<pc, result>>

ReapShort(e, p) ==
  /\ Reap(e, p) /\ 0 < e.n /\ e.n < p.len
  /\ work' = work \cup {[off |-> Advanced(p, e.n), len |-> p.len - e.n]}
  /\ UNCHANGED <<pc, result>>

ReapError(e, p) ==   \* -errno, or nothing transferred
  /\ Reap(e, p) /\ e.n <= 0
  /\ Return("Err")
  /\ UNCHANGED work

\* a count larger than the piece, subtracted with overflow checks ...
ReapTooMuchPanics(e, p) ==
  /\ Reap(e, p) /\ e.n > p.len
  /\ Return("Panic")
  /\ UNCHANGED work

\* ... and without: the length wraps, and the remainder goes back to `work'
ReapTooMuchWraps(e, p) ==
  /\ Reap(e, p) /\ e.n > p.len
  /\ work' = work \cup {[off |-> Advanced(p, e.n), len |-> p.len - e.n + USize]}
  /\ UNCHANGED <<pc, result>>

ReapUnknown(e) ==
  /\ pc = "reap" /\ Piece(e) = {}
  /\ cq' = cq \ {e}
  /\ Return("Err")
  /\ UNCHANGED <<op, total, work, inFlight, nextId, sq, kern, moved, calls, clean>>

ReapOne ==
  \E e \in cq :
    \/ ReapUnknown(e)
    \/ \E p \in Piece(e) :
         \/ ReapFull(e, p) \/ ReapShort(e, p) \/ ReapError(e, p)
         \/ ReapTooMuchPanics(e, p) \/ ReapTooMuchWraps(e, p)

\* (slip) after the drain the loop waits again before it refills the queue
ReapEndsInWait ==
  /\ pc = "reap" /\ cq = {}
  /\ pc' = "waitOnly"
  /\ UNCHANGED <<op, total, work, inFlight, nextId, queues, moved, result, calls, clean>>

ReapEnds ==
  /\ pc = "reap" /\ cq = {}
  /\ pc' = "fill"
  /\ UNCHANGED <<op, total, work, inFlight, nextId, queues, moved, result, calls, clean>>

Drive ==
  \/ Push \/ FillEnds \/ Finish
  \/ SubmitAll \/ WaitEnds
  \/ ReapOne \/ ReapEnds

Trouble == SubmitSome \/ SubmitFails \/ Interrupted

Next == Start \/ Drive \/ Trouble \/ Kernel

Spec == Init /\ [][Next]_vars

\* The thread inside drive() runs, and the kernel completes what it has taken;
\* nobody promises that a signal or an error ever ends a wait.
FairSpec == Spec /\ WF_vars(Drive) /\ WF_vars(Kernel)

(***************************************************************************)
(* Properties                                                               *)
(***************************************************************************)
Offsets == 0..(USize - 1)
Pieces  == [off : Offsets, len : Offsets \ {0}]
Flights == [id : Nat, off : Offsets, len : Offsets \ {0}]
Entries == [id : Nat, off : Offsets, len : 0..(U32 - 1), by : Nat]

\* The types of the variables, widths included: no piece is ever empty.
TypeOK ==
  /\ pc \in {"idle", "fill", "check", "wait", "waitOnly", "reap"}
  /\ op \in {"write", "read"} /\ total \in Offsets /\ nextId \in Nat /\ calls \in Nat
  /\ work \subseteq Pieces /\ inFlight \subseteq Flights
  /\ sq \subseteq Entries /\ kern \subseteq Entries
  /\ cq \subseteq [id : Nat, n : -1..(U32 - 1), by : Nat]
  /\ moved \subseteq Nat
  /\ result \in {"None", "Ok", "Err", "Panic"} /\ clean \in BOOLEAN

\* write_all_at and read_all_at return Ok only when every byte of the buffer
\* was transferred, across short transfers and resubmissions - as long as no
\* earlier call on the ring failed.
OkMeansAll == result = "Ok" /\ clean => moved = All

\* On a ring no earlier call failed on, every operation the kernel has or will
\* be given lies inside the buffer, and no byte of it belongs to two of them or
\* to one of them and a piece still to be pushed (the SAFETY comments on drive()
\* and on the read pointer).  This holds beyond a failure of the call itself,
\* while the kernel still works on what the call left behind.
NoByteTwice ==
  clean =>
    /\ \A s \in sq \cup kern : Bytes(s) \subseteq All
    /\ \A s, t \in sq \cup kern : s # t => Bytes(s) \cap Bytes(t) = {}
    /\ \A s \in sq \cup kern, p \in work : Bytes(s) \cap Bytes(p) = {}
    /\ \A p, q \in work : p # q => Bytes(p) \cap Bytes(q) = {}

\* On a clean ring every piece in flight is in exactly one queue and no queue
\* overflows: push() never fails, no completion is unknown or too long, the
\* wait for a completion is for one that will come, and after an Ok the kernel
\* holds nothing of the buffer.
Tracked(p) ==
  Cardinality({s \in sq \cup kern : s.id = p.id}) + Cardinality({e \in cq : e.id = p.id}) = 1

QueuesMatch ==
  clean /\ result \in {"None", "Ok"} =>
    /\ Cardinality(inFlight) <= RingSize
    /\ \A p \in inFlight : Tracked(p)
    /\ \A s \in sq \cup kern \cup cq : \E p \in inFlight : p.id = s.id
    /\ \A e \in cq, p \in inFlight : p.id = e.id => e.n <= p.len

\* Every call returns.
Terminates == pc # "idle" ~> pc = "idle"

\* The SAFETY comment on drive(): when it returns, the kernel refers to no
\* byte of the buffer any more.
NothingOutstanding == pc = "idle" => kern = {}
==============================================================================
