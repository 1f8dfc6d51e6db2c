# blobkit in TLA+

Models of blobkit's stores, checked with TLC, and proofs about all of them, checked
with TLAPS: every safety property that TLC checks on a small instance is also proved
for every instance. Paths below are relative to the repository root.

- [The system](#the-system)
- [The modules and the code](#the-modules-and-the-code)
- [The runs](#the-runs)
- [Fairness](#fairness)
- [Where documents and code differ](#where-documents-and-code-differ)
- [What is proved](#what-is-proved)
- [What is only model-checked](#what-is-only-model-checked)
- [What is not modelled](#what-is-not-modelled)
- [Plan](#plan)

## The system

blobkit is a library: one async trait, `BlobStore` (`src/store.rs`: put, get,
delete, exists, list, presigned_url), and five implementations. There is no
server and no background task of its own; all concurrency is the caller's. Tasks
of one runtime share a store (`Send + Sync`), a caller may drop any future at any
await, and several processes may open the same directory or bucket.

| Component | State it keeps | Operations | What makes it correct |
|---|---|---|---|
| Object keys (`types.rs`, `resolve` and `list` of `local.rs`) | none | validate, resolve, relative path, prefix match, pruning | a valid key stays below the root; listing gives back the key; pruning loses no match |
| `BlobStore` trait (`store.rs`) | the caller's view: keys to blobs | six methods | an atomic dictionary; a failed call has no effect |
| `LocalStore` (`local.rs`) | a directory tree; temp files `.blobkit-XXXXXX`; root and quota | the trait | readers see whole blobs; error paths clean up; power failure leaves whole, synced blobs; a walk is faithful; calls resolve |
| `IoUringFile` (`io_uring_backend.rs`) | work list, in-flight map, `next_id`, the ring's two queues | write_all_at, read_all_at, drive | Ok means every byte; no byte twice at once; queues never overflow, never wait for nothing; the loop ends |
| `IoUringStore` (`io_uring_backend.rs`) | as LocalStore, plus closures on blocking threads | the trait | as LocalStore, also when a future is dropped while a closure runs |
| `S3Store` (`s3.rs`), `ObjectStoreBackend` (`object_store_backend.rs`) | the service's objects; requests under way | the trait, each as one or more requests | a result was true at some moment of its call, whatever was retried, lost or late |
| `MemoryStore` (`memory.rs`) | a sharded `DashMap`, or one `Mutex<HashMap>` | the trait, `list_keys`, `len`, `is_empty`, `clear` | the scans are faithful, although they are not atomic |
| `error.rs` | none | error classes | as used by the stores above |
| `BlobId` (`types.rs`) | none; reads the clock and the thread's id | new | an id is never handed out twice |
| `BucketName`, `BlobMetadata`, `lib.rs`, benches | none | | not modelled, see below |

How they interact: every store validates keys with `ObjectKey`; `LocalStore` and
`IoUringStore` share the on-disk layout and call the kernel's file system from
blocking threads; `IoUringStore` moves its bulk data through `IoUringFile`; the
remote stores talk to a service through a client library that retries.

What is hard here, and hardly reached by the repository's tests, which are
sequential or race on in-memory maps: interleavings of `create_dir_all`, temp file
and rename; failures half-way through a put; power loss between any two system
calls; dropped futures whose blocking call still runs; a directory walk over a tree
that changes; short and failed completions of io_uring; retries whose first attempt
did take effect; pages of one listing that see different states; scans shard by
shard. PROJECT.json lists each with its line.

## The modules and the code

```
ObjectKey ──┬── LocalStore ── LocalStoreRefinement ──┬── LocalStoreHistory
            │                 (Abstract = BlobStore) └── IoUringStore
            ├── RemoteStore
            ├── MemoryStore
            └── ObjectKeyProperties (checked with MCMemoryStore)
IoUringFile
BlobId
```

The proofs extend one another as the modules do:

```
ObjectKeyProofs ──┬── LocalStoreProofs ──┬── LocalStoreHistoryProofs
                  │                      └── IoUringStoreProofs
                  ├── RemoteStoreProofs
                  └── ObjectKeyPropertiesProofs
IoUringFileProofs      MemoryStoreProofs
```

`MC<Module>` gives the constants values for TLC. `map` in PROJECT.json has the
lines of every definition. A definition commented **(slip)** is not the code: it
is a plausible bug, kept beside the definition it would replace, and some run's
property fails with it in place. Nothing else refers to it.

**ObjectKey.** Text is a sequence of characters; the two that matter to the code
are `Slash` and `Dot` (and NUL). `Validate` is `ObjectKey::validate`, `Resolvable`
the substring check of `LocalStore::resolve`. A path is a sequence of names;
`Denotes` is what `root.join(key)` names (empty and `.` components vanish), `Text`
what `list` reports. `Split` and `Denotes` are folds, over characters and over
components. `MatchesPrefix` and `KeepDir` are the two prefix tests of
`list`. The character classes and byte lengths of UTF-8 are one character each.
**ObjectKeyProperties** says what these operators are for, of every string: its machine
types one, letter by letter.

**BlobStore.** The abstract specification: `blobs` is a dictionary and each
operation one step between `Invoke` and the answer. `Fail` answers with an error
and changes nothing. `Abandon` is a dropped future; a delete may then still happen
(`LateDelete`). `Crash` returns to `durable`, which `Commit` set to an earlier
`blobs`. `exists` and `presigned_url` may take a folder (a key with others below it,
now or in the past) for an object, because the code stats the path; `Seen` allows
that for the keys in `Folders` and for no other.

**LocalStore** (the core). One action per system call:

| Code (`local.rs`) | Actions |
|---|---|
| quota check, `resolve` | `PutQuota`, `Refuse`, `PutResolved` |
| `create_dir_all` | `PutMkdir` (one directory), `PutMkdirDone`, `PutMkdirFails` |
| `tempfile_in` | `PutCreate`, `PutCreateFails` |
| `write_all`, `flush`, `sync_all` | `PutWrite`, `PutSync`, `PutWriteFails` (with the temp file's destructor) |
| `persist` | `PutPersist`, `PutPersistFails` |
| `fs::read` | `GetOpen`, `GetRead`, `GetEof`, `NoFile`, `LookupFails` |
| `remove_file` | `Delete`, `NoFile`, `LookupFails` |
| `metadata` | `Exists`, `Presign`, `LookupFails` |
| the directory walk | `ListStart`, `ListDir`, `ListEnd`, `ListFails` |

`tree` maps every path to a file, `Dir` or nothing, and `Stat` looks a path up with
ENOENT and ENOTDIR; `data` holds contents. The quota is checked before the key, so
`Refuse` applies to a put only below the quota. The tempfile, write, sync and
persist of a put run on the task itself without an await: between them a future
cannot be dropped, so `Cancel` is possible only at the `tokio::fs` calls, and
leaves `orphans`, calls the blocking pool still runs. `disk` is what a power
failure leaves of the tree, an earlier `tree` that reached the journal
(`Commit`); unsynced contents are kept or lost at will (`Crash`). With `Faulty` every
system call may fail (EIO, ENOSPC, EACCES, ...). `NamedTempFile`'s
destructor does not run in a power failure, so temp files can then remain.

A file is never reused (`Files` minus `born`), so names of temp files do not
collide; the code retries a collision and never overwrites one.

**LocalStoreRefinement** maps `LocalStore` to `BlobStore`. A put takes effect at the
rename, a get at the open, a delete at the unlink, exists and presigned_url at the
stat. **LocalStoreHistory** adds three history variables that record what was
present during a list and which puts were acknowledged.

**IoUringFile.** `Start` cuts a buffer into pieces; `Push` fills the submission
queue while `in_flight` is below the ring size; `FillEnds`/`Finish` decide whether
to go on; `Submit` is `submit_and_wait(1)` with its partial submissions, errors and
signals; `Kernel` completes entries, in full, short, empty or with an error;
`ReapFull`, `ReapShort` and the failing reaps are the completion loop. Queues are
sets, so every order is explored. `clean` says that no earlier call on the ring
failed. Offsets and lengths of pieces are `usize` (`USize` stands for 2^64), the length
of an entry is cast to `u32` (`U32`). A completion that counts more bytes than its piece
has, as a stale one may, makes `piece.len -= n` underflow: `ReapTooMuchPanics` in a
build with overflow checks, `ReapTooMuchWraps` in one without, which is what Cargo.toml's
release profile gives; then the loop goes on with a huge piece that reaches past
the buffer. Both are explored, in the same run.

**IoUringStore** extends `LocalStoreRefinement`. What it shares with `LocalStore` is
reused; a put dropped while the blocking closure runs becomes a `task`, which ends
by itself and drops its temp file; a get opens, takes `st_size` and reads that
many bytes. `RingClients` hold an IoUringStore, the other clients a LocalStore on the
same directory, as IoUringStore itself does for `list` and `presigned_url`.
The closure's writes are `PutWrite` and `PutSync`: that an Ok of
`write_all_at` means every byte is `IoUringFile`'s `OkMeansAll`, the one fact the two
models share. Chunks reach the file in any order in the code and in order here;
nobody opens a temp file before the rename, so the difference shows to no one.

**RemoteStore.** One module for both remote backends, chosen by `backend` in the
initial state, because they differ in a few actions only: S3 deletes with one request,
has no list, and is a stub without its feature; `ObjectStoreBackend` looks with `head` before a
delete and reads a list as a stream of pages. The client library and the service
are external. The service acts on a request atomically (`Serve`), an answer may be
lost, a request is sent again, or given up; given-up requests stay in `late` and may
be served at any later time. The bucket may not exist. `seen` is history: the
values each key has had since the call began.

**MemoryStore.** An operation on one key holds one shard's lock: one step. `list`,
`list_keys`, `len` and `clear` visit shard after shard, with other threads in
between. Which key lives in which shard (`home`) is left open in `Init`, as the
hash is random; every key in one shard is the `Mutex<HashMap>` build.

**BlobId** is the generator behind every put's result, for the three builds: a fresh
UUID, a hash of clock and thread number, a constant. The hash is taken to be
injective, the best case. The clock may stand still or be set back, as
`SystemTime` promises neither progress nor a resolution.

## The runs

Constants are small sets of model values. `Size` gives a payload its number of
`write` calls, and the quota is 2 of that unit: `small` is 1, `large` 2, `huge` 3, so
`large` can be seen half written and `huge` is refused.

| Run | Question and bounds |
|---|---|
| `local_store` | Two clients; keys `a` and `a/b`, which need a file and a directory of one name, and the refused `d..d`; two payloads so that replaced and replacing blob differ, and an oversized one; every operation and every failing system call; one dropped future, or one power failure at any step with commits at any step before it (`OneFault`); two puts. A list and a refused call run beside an idle client, a put or a delete, before any fault, and what a list reported is not called on (`ListsAside`): `local_list` has the other combinations without faults, and no step of a list or of a refused call writes to the tree. The refinement with put, get, delete, exists and presigned_url, the shape of the tree, temp files, whole blobs. |
| `local_list` | Two clients, keys `a/b`, `a/d/b` and the refused `d..d`; the prefix `a/d`, which `a/` leads to, `a/d/` lies under and `a/b` does not match, so that pruning decides each way; every operation, two puts, one of them perhaps oversized, every system call may fail. Walks against puts and deletes at both levels of directories, and liveness of every call. |
| `ring_drive` | Chunk 2, ring of 2, a first call of 0 or 5 bytes and a second of 2: the empty buffer, three pieces on two slots with a short last one, an exact multiple. A file one byte shorter than the longest read: end of file within a piece. Every failure. `U32` = 4 and `USize` = 8: above every honest length, and a wrapped one is in reach. |
| `uring_store` | One client with an IoUringStore, one with a LocalStore on the same directory; keys `a`, `a/b`; put, get, delete and presigned_url; one dropped future or one power failure (`OneFault`), failing system calls and ring. exists and list are LocalStore's actions word for word and are left to its runs. |
| `remote` | Two clients, keys `a/b` and `aa` (lexicographic order differs from path order), two payloads, pages of one key so that a listing has several, one late request at a time, both backends and the stub, bucket there or not. |
| `memory` | Two threads, three keys over two shards in every placement. Beside a store that was not used yet, the machine of ObjectKeyProperties types every string of up to 6 characters over one letter, `/`, `.` and NUL (maximum length 5, so that "too long" happens), each held against every prefix of up to 4; beside the empty string the store is used. The two do not meet, so the run is the sum of both and not their product. All checks on keys look at neighbouring characters and at both ends; three components with every one of them empty, `.`, `..` or a name fit in. |
| `local_list_temps`, `local_durable`, `ring_safety`, `blob_id`, `remote_s3_delete`, `remote_list_prefix` | Violations, see below. |

What the properties say:

- `KeyStaysBelowRoot`, `ValidMeansCleanComponents`, `ListedTextIsKey`,
  `PruningKeepsMatches`: no component of a walk along a valid key is above the root;
  the substring checks amount to a check of components; list reports the key that
  was put, `.` components excepted; every directory above a match is entered.
- `ImplementsBlobStore`: LocalStore and IoUringStore are linearizable dictionaries
  (put, get, delete, exists, presigned_url), including failed and dropped calls, and
  a power failure falls back to a state that was there. The quota in it is the documented
  one (`Fits`), apart from the comparison `put` makes.
- `BlobsWhole`, `SyncedImmutable`, `TreeShape`, `TempsOwned` (`RingTempsOwned`): the
  reasons why.
- `ListFaithful`: a walk or scan reports what was there all along and nothing that
  was there at no time.
- `Resolves`, `Terminates`: calls end.
- `OkMeansAll`, `NoByteTwice`, `QueuesMatch`: the ring moves each byte; no operation the
  kernel has or will be given reaches past the buffer or shares a byte with another or
  with a piece still waiting; and in-flight entries are exactly those the queues hold, so
  `submit_and_wait(1)` always has something to wait for. All three are about rings on which no
  earlier call failed. On others they are false, as the second call of `ring_drive` shows
  when `clean` is taken out of them: a stale short completion makes the loop resubmit
  bytes whose own entry the kernel still holds.
- `PutApplied`, `GetJustified`, `ExistsJustified`, `DeleteJustified`: each result of a remote
  store was true at some moment of its call.
- `PagesComplete`: a listing loses no page. Its lower bound is about the keys below the
  directory the prefix names, its upper bound about the prefix as a string; what
  is documented beyond that is `ListsPrefix`, below.
- `LenBounded`, `ClearRemoves`: what `len` and `clear` can be relied on to say.

`local_store`, `local_list`, `uring_store` and `remote` use a `VIEW`: states that differ
only in what can no longer matter are explored once. A call that has ended, other
than a list (whose keys the caller may use; in `local_store`, under `ListsAside`, also a
list), a file no name and no client refers to,
and the history of a listing that has ended are left out; so is `disk` after a
fault, as `OneFault` leaves no other; of the history of a remote call only what its
result is held against is kept. What a call returns is
still judged: `ImplementsBlobStore`, `ListFaithful` and the properties of RemoteStore are
about steps, and TLC evaluates those for every step it finds, also one that leads to
a state it has seen. State invariants that mention `ret` (the types) are evaluated in
the first of the states a view identifies; for LocalStore `TypeSafety` proves them.

Deadlock is checked except in the `ring_*` runs, where the calls on a ring are bounded.
TLC uses symmetry only where no liveness property is checked. The view of `local_list`
is sound for `Resolves`: what it leaves out neither enables nor changes a step,
and whether a call is pending is in it.

What the bounds cannot show: interference that needs three clients, two faults
(crashes or dropped futures), a dropped future before a crash, or a list that begins after a fault. The proofs have no such bound. In all models a client meets others only through the
shared state, and each of the hazards listed takes two actors.

## Fairness

- `local_list`: weak fairness of each client's `Advance`, its steps other than the
  failures of system calls that could also succeed, so no call owes its end to an error. The caller polls the future
  until it is ready and the runtime runs every woken task; a system call returns.
  Nothing is assumed of new calls: a list ends although the other client keeps
  calling, because files, and with them puts, are bounded, and directories are never
  removed. No fairness is assumed of cancels, orphans, commits or crashes.
- `ring_drive`: weak fairness of the thread in `drive()` and of the kernel, which
  completes what it took. None of signals, failures or short transfers; a short
  transfer moves at least one byte, as an empty one is an error in the code.

## Where documents and code differ

Six runs show it, each with a counterexample:

- `local_list_temps`: `store.rs:69` says list returns the keys under a prefix. A walk
  during a put, or after a power failure, also reports `.blobkit-XXXXXX`.
- `local_durable`: `lib.rs:49` calls LocalStore durable and `CLAIMS.md:28` says fsync
  is never traded for speed. The file is synced, the directory is not: an
  acknowledged put can be absent after a power failure. (What is there is whole:
  `BlobsWhole`.)
- `ring_safety`: the SAFETY comment at `io_uring_backend.rs:189-193` says that all
  completions are reaped before `drive()` returns. Every early error return leaves
  operations with the kernel.
- `blob_id`: REQ-BK-105 (`REQUIREMENTS.md:32`) and `store.rs:41-42` say that ids are
  unique across puts. In the default build an id is a hash of the clock and the thread
  number, so it repeats within one reading of the clock, after the clock was set back,
  and between processes. `typed-id` (a UUID) is not among the default features.
- `remote_s3_delete`: `store.rs:59-60` says delete "Returns `BlobError::NotFound` if the key
  does not exist", and REQ-BK-103 (`REQUIREMENTS.md:30`, a MUST) that `get`/`delete` of a missing key
  returns `Err`. S3 answers such a delete with success, and `S3Store` passes it on as Ok.
  ObjectStoreBackend looks first and keeps the promise (`DeleteJustified`).
- `remote_list_prefix`: `store.rs:71-74` says the prefix is a raw string prefix and `list("a")`
  also matches `aa.txt`; the comment at `object_store_backend.rs:463-466` says the same
  semantics are kept. The service is asked for what lies below `a/`, and the filter that
  follows can only take away, so `ObjectStoreBackend::list("a")` misses `aa`.

Met while modelling: `exists` is true for a directory (REQ-BK-002 says absent means
false; the abstract specification allows it for folders); a ring reused after an error can
take an old completion for its own, and then transfer bytes twice or past the buffer;
the temp file of a put of the key `.` is made in the directory above the root
(`dest.parent()`, `local.rs:155`; `KeyStaysBelowRoot` is about the walk along the key);
`get` of an empty directory on btrfs; keys
with a `.` component share a file with another key; LocalStore alone refuses `a..b`; a
late remote put overwrites a later one; whoever deletes all listed keys can delete a
temp file of a put at work.

## What is proved

Every theorem is about the specification TLC runs, `Spec => ...` (for the four on keys,
`Typing => ...`), for every value of the constants that satisfies the named assumptions: any number of clients, keys,
files, payload sizes, dropped futures and power failures. The assumptions, each
evaluated by TLC in the runs:

| Assumption | What it says, and why the code justifies it |
|---|---|
| `MaxLenAssumption` | The maximum length of a key is a number. The alphabet of the four theorems on keys may be any set; `BoundsAssumption` says that the bound on prefixes is a number. |
| `LocalStore`'s `ConstantsAssumption` | Keys are non-empty sequences of names; temp names are no keys and no directories (a key may start with a dot, but the random suffix of a temp file differs: `tempfile_in` retries until it does); payload sizes are numbers; the special values differ. |
| `TextAssumption` | The text of a key is a valid `ObjectKey`, names and prefixes are text: LocalStore's methods take `&ObjectKey`, and `list` takes `&str`. Used for the walk only. |
| `NilAssumption` (refinement, memory, remote) | `None` is no payload, call or result. |
| `IoUringFile`'s `ConstantsAssumption` | Chunk and ring size are positive; a chunk fits in the `u32` of an entry, that in a `usize`, and so does every buffer length: `chunk_size` is 128 KiB in every ring (`io_uring_backend.rs:130`), and a buffer is a slice. |
| `MemoryStore`'s and `RemoteStore`'s | There are shards, pages are not empty, keys are valid; the keys of MemoryStore are finitely many, as a valid key has at most `MAX_KEY_LEN` bytes; the service's key order lists every key once. |

| Module | Theorems | Runs' properties |
|---|---|---|
| `ObjectKeyPropertiesProofs` | `KeysStayBelowRoot`, `ValidKeysHaveCleanComponents`, `ListsKeysAsStored`, `PruningLosesNoMatch` | `KeyStaysBelowRoot`, `ValidMeansCleanComponents`, `ListedTextIsKey`, `PruningKeepsMatches` |
| `LocalStoreProofs` | `TypeSafety`, `BlobsAlwaysWhole`, `SyncedNeverChanges`, `TreeIsWhole`, `NoTempLeftBehind`, `LocalStoreIsBlobStore` | `TypeOK`, `BlobsWhole`, `SyncedImmutable`, `TreeShape`, `TempsOwned`, `ImplementsBlobStore` |
| `LocalStoreHistoryProofs` | `ListIsFaithful` | `ListFaithful` |
| `IoUringStoreProofs` | `RingTypeSafety`, `RingBlobsWhole`, `RingNoTempLeftBehind`, `RingIsBlobStore` | `RingTypeOK`, `BlobsWhole`, `RingTempsOwned`, `ImplementsBlobStore` |
| `IoUringFileProofs` | `TypeSafety`, `OperationsDisjoint`, `OkTransfersAll`, `QueuesCorrespond` | `TypeOK`, `NoByteTwice`, `OkMeansAll`, `QueuesMatch` |
| `MemoryStoreProofs` | `TypeSafety`, `ListIsFaithful`, `LenIsBounded`, `ClearLeavesOnlyFresh` | `TypeOK`, `ListFaithful`, `LenBounded`, `ClearRemoves` |
| `RemoteStoreProofs` | `TypeSafety`, `PutWasApplied`, `GetWasJustified`, `ExistsWasJustified`, `DeleteWasJustified`, `PagesWereComplete` | `TypeOK`, `PutApplied`, `GetJustified`, `ExistsJustified`, `DeleteJustified`, `PagesComplete` |

**Keys** (`ObjectKeyProofs`). The four theorems hold of strings of any length over any
alphabet, as MaxKey may be anything and MaxPrefix any number. `Split`, `Denotes` and `FlattenSeq` are defined by recursion, and the
induction rules of the library cannot be instantiated here (they take an operator as
a parameter). Three things take their place. `CountUp` proves a step case for *sets* of
numbers, from the least counterexample (`NatMin`, from the well-foundedness of `<`).
`FoldExists` shows with it that a fold, which the library defines over sets of
positions by a `CHOOSE`, exists, and so satisfies its recursion. `SplitSteps` and
`DenotesSteps` then give its values at 0, 1, ... as the steps of a loop, and everything
else is said of a step: a component is empty where two slashes meet or at an end that
is a slash (`EmptyComponents`); the components so far, joined by slashes, are the
characters so far (`JoinedGrows`, so that `Text(Split(s)) = s`, `TextOfSplit`); no step
of the walk skips a component that is neither empty nor `.` (`DenotesComponents`).
Pruning (`PruningKeepsPaths`): a directory's text and a slash begin the text of every
path below it (`DirTextBegins`), and of two strings that begin the same string one begins
the other.

**Whole blobs** (`Inv`). `BlobsWhole` is not inductive: it does not say why the file a
put renames is whole. `PutArgs`: a put past its quota check carries a payload within
the quota. `Held`: the file a put is writing is born, not yet synced until it is at
`persist`, holds a beginning of its payload, and no other put holds it. `SyncedWhole`:
synced files are whole, which makes them unchangeable as only unsynced files are
written. `KeysSynced`: in `tree` and `disk` alike, keys name synced files only; it
survives `Crash` because it holds of `disk`. Actions with the same effect on `Inv`
share a lemma (`ReplyInv`, `RefusingInv`, `RemovingInv`, `MovingInv`).

**The shape of the tree** (`TreeInv`). That a parent exists says too little: the mkdir
of `create_dir_all` looks for the first hole on the way. `Rooted` says that all
ancestors of whatever exists are directories, `OnlyDirs` that nothing else is one;
`PutPaths` that a put past `create_dir_all` finds its directories there, which holds as
nothing removes a directory, not even a power failure while a put is at work: it
ends the put. `SetName` is the one lemma on what a change of one name does.
`Temps` ties a temp name to the put that made it, by file and by directory.

**The refinement** (`RefInv`). `PutFilled`: at `persist` the file holds the payload in
full. `Reads`: a get of a key has read a beginning of a synced file, which no longer
changes. Each action then maps to the operation of BlobStore (`PutPersist`, `GetOpen`,
`Delete`, the stats, `OrphanUnlink`), to its invocation, return, failure or loss, or to
a stutter. A call that BlobStore does not have is hidden from it (`Visible`): a list, and
a call on the name of a temp file, which a listing may have returned.

**The walk** (`HInv`, with history). `WalkInv` ties the stack to what was there: a
matching key present since the list began is collected, or a directory above it is
still to be read (`Complete`). Reading that directory brings the next one on the way,
which exists by `TreeInv`, and which pruning keeps (`PruningKeeps`, from
`PruningKeepsPaths` for the paths of the tree).

**IoUringFile.** `OkMeansAll` and `NoByteTwice` are not inductive: an Ok is returned when
nothing is waiting or in flight, and it is the past that decides whether all bytes have
moved by then. While no earlier call on the ring has failed (`CleanInv`), pieces waiting
and in flight lie inside the buffer (`PiecesInside`) and are disjoint (`PiecesDisjoint`),
and every entry and completion speaks of a piece in flight, no two of the same, and a
completion's bytes have moved (`Tracking`): an entry's bytes are its piece's, which is why
no byte is with the kernel twice, and no completion counts more than its piece, so the length
neither underflows nor wraps. A call that fails takes only the piece of one completion away
from those in flight, whose entry is gone, so `NoByteTwice` outlives the failure. These
pieces and the bytes moved cover the buffer (`Covered`), and `drive()` gets past its check
with nothing in flight only when nothing is waiting (`Settled`). `ChunksPartition` is the
arithmetic fact that chunks tile the buffer, proved from lemmas about multiples of the
chunk size; `Widths` and its company say that no offset or length of a clean ring leaves
its type. `QueueInv` is the converse of `Tracking`, which `QueuesMatch` needs: every piece
in flight has its entry or completion (`Accounted`), and there are at most as many as slots
(`Capped`).

**IoUringStore** (`RingInv`). The three invariants of LocalStore hold unchanged, and what
a detached closure does is bounded by `TaskFiles`: its file belongs to it alone, is
unsynced and holds a beginning of its payload. To see that its temp file can be removed,
`TmpsOwn` says that a temp name stands for the file it was made for or for
nothing, and `OpenFiles` that no client keeps a file it does not use. `RingIsBlobStore` has one
hypothesis: `DirLen > 0`, a directory has a length (ext4, xfs), or no key names a
directory. Without it the theorem is false, and TLC shows it: a get of a key that
names an empty directory of length 0 (btrfs) returns Ok with no bytes.

**MemoryStore** (`ScanInv`). A promise about a scan that has ended is cut down to the keys
in the shards it has passed (`Passed`): what was there all along in those is found and
counted, what was found or counted was there at some time. A visit adds the keys of one shard.

**RemoteStore** (`ClientInv`). The properties are about the step that returns. `Watches`: the
history of a watched key contains its current value. `Truthful`: an answer on its way is
borne out by that history. `Asks` says which request belongs to which operation, `Looked` that
ObjectStoreBackend sends a delete only once it has seen the object, `ListSoFar` that a listing has all
it must have of the keys before its cursor. All of these survive any growth of the
history, so other clients, late requests and retries need no case of their own.

## What is only model-checked

- `Resolves` and `Terminates`: liveness, and with it `ENABLED`, is outside the prover.
- That `disk` and `tree` stay in step with what real file systems do, and all the runs expected to fail.

## What is not modelled

- A failing unlink in the destructor of `NamedTempFile`, which the code ignores: the temp
  file then stays.
- readdir of one directory while it changes: POSIX leaves open whether an entry made
  or removed meanwhile shows up; here one directory is read at once. What was there
  throughout is reported in both cases.
- Directory updates reach the disk in order, as with a journal; a file system that
  reorders a rename before an earlier mkdir or unlink is out of scope.
- The order of a listing: LocalStore's and MemoryStore's results are sets, as a final sort of
  the whole vector cannot go wrong in a way these models would show.
- Keys learned from a list are used by get, delete, exists and presigned_url only.
- Metadata, content types and SHA-256 (pure data the stores compute and, but for
  MemoryStore, drop), `BucketName` (a character check), the text form of `BlobId`.
- Configuration and credentials of the remote stores; the stub of LocalStore without
  `std`; benches.
- That a call of a remote store ends: `operation_timeout` covers S3's requests, but reading
  a body, and every request of `ObjectStoreBackend`, end by the client library's own
  limits, which are not in this repository.
- A poisoned Mutex in MemoryStore: only a failed allocation could panic there.

## Plan

The order followed the weight of the behaviour: LocalStore with its refinement, its
list, its proofs; then the ring, the store on the ring, the remote stores, the
in-memory one, the keys, the ids; then the proofs in the same order. No safety
property of a passing run is left to TLC alone. What could follow:

1. `local_list` and `ring_drive` check liveness on small instances. That a variant
   (holes on the way to a directory, bytes and pieces left) decreases with every step
   is an action property, in reach of the provers; that the steps happen needs `ENABLED`.
2. A walk that reads a directory entry by entry, to say what readdir may do to the
   order and to names made meanwhile.
3. `BlobMetadata` as data of `MemoryStore`, the one store that keeps it.
