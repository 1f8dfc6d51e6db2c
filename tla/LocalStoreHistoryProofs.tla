------------------------ MODULE LocalStoreHistoryProofs ------------------------
(***************************************************************************)
(* LocalStore's list, for any number of clients, keys, files and prefixes:  *)
(* a walk that ends reports every matching key that was there all along and *)
(* none that never was, however others create, replace and delete meanwhile.*)
(*                                                                         *)
(* A walk loses nothing because of what it has still to read (Complete): a  *)
(* matching key that has been there since the list began is collected, or a *)
(* directory above it is on the stack.  Reading that directory replaces it  *)
(* by the next one on the way to the key, which exists because the tree has *)
(* no holes (TreeInv), and which pruning by prefix keeps because its text   *)
(* and a slash begin the text of the key (PruningKeeps).                    *)
(***************************************************************************)
EXTENDS LocalStoreHistory, LocalStoreProofs

\* The walk enters every directory above a key that matches (LocalStore::list).
LEMMA PruningKeeps ==
  ASSUME NEW k \in Keys, NEW prefix \in ListArgs, MatchesPrefix(prefix, Text(k)),
         NEW n \in 1..(Len(k) - 1)
  PROVE  KeepDir(prefix, DirText(SubSeq(k, 1, n)))
  <1>1. PICK C : C = (UNION {ToSet(name) : name \in ToSet(k)}) \cup ToSet(prefix) \cup {Slash}
    OBVIOUS
  <1>2. k \in Seq(Seq(C)) /\ Len(k) \in Nat
    <2>1. k \in Seq(KeyNames) /\ Len(k) \in Nat
      BY ConstantsAssumption DEF KeyNames
    <2>2. \A i \in 1..Len(k) : k[i] \in ToSet(k)
      BY <2>1 DEF ToSet
    <2>3. \A name \in ToSet(k) : name \in Seq(C)
      <3>1. ASSUME NEW name \in ToSet(k) PROVE name \in Seq(C)
        <4>1. name \in Seq(ToSet(name))
          BY TextAssumption, Zenon
        <4>2. \A ch \in ToSet(name) : ch \in C
          BY <1>1, Zenon
        <4> QED
          BY <4>1, <4>2
      <3> QED
        BY <3>1
    <2> QED
      BY <2>1, <2>2, <2>3
  <1>3. prefix \in Seq(C)
    <2>1. prefix \in Seq(ToSet(prefix))
      BY TextAssumption, Zenon
    <2>2. \A ch \in ToSet(prefix) : ch \in C
      BY <1>1, Zenon
    <2> QED
      BY <2>1, <2>2
  <1>4. Slash \in C
    BY <1>1, Zenon
  <1> QED
    BY <1>2, <1>3, <1>4, PruningKeepsPaths

(***************************************************************************)
(* The walk.                                                                *)
(***************************************************************************)
\* a matching key that was there all along is collected or still to be come by
Complete(c) ==
  \A k \in always[c] : MatchesPrefix(Key(c), Text(k)) =>
    k \in found[c] \/ \E d \in todo[c] : d \in Ancestors(k)

WalkInv(c) ==
  Listing(c) =>
    /\ Key(c) \in ListArgs
    /\ always[c] \subseteq Present /\ Present \subseteq ever[c]
    /\ \A k \in found[c] \cap Keys : MatchesPrefix(Key(c), Text(k)) /\ k \in ever[c]
    /\ pc[c] = "start" => found[c] = {}
    /\ pc[c] = "walk" => Complete(c)

Walks == \A c \in Clients : WalkInv(c)

HInv == Inv /\ TreeInv /\ Walks

\* What a step makes of the history of one client.
Observed(c) ==
  /\ Listing(c) => always'[c] = always[c] \cap Present' /\ ever'[c] = ever[c] \cup Present'
  /\ ~ Listing(c) /\ Listing(c)' => always'[c] = Present' /\ ever'[c] = Present'

LEMMA HNextObserved == ASSUME HNext, NEW c \in Clients PROVE Observed(c)
  <1>1. always'[c] = IF Listing(c) THEN always[c] \cap Present'
                     ELSE IF Listing(c)' THEN Present' ELSE {}
    BY DEF HNext
  <1>2. ever'[c] = IF Listing(c) THEN ever[c] \cup Present'
                   ELSE IF Listing(c)' THEN Present' ELSE {}
    BY DEF HNext
  <1> QED
    BY <1>1, <1>2 DEF Observed

\* A client whose listing is not disturbed.
LEMMA WalkGoesOn ==
  ASSUME NEW c \in Clients, WalkInv(c), Observed(c),
         Listing(c)' => /\ Listing(c) /\ pc'[c] = pc[c] /\ call'[c] = call[c]
                        /\ found'[c] = found[c] /\ todo'[c] = todo[c]
  PROVE  WalkInv(c)'
  <1> SUFFICES ASSUME Listing(c)' PROVE WalkInv(c)'
    BY DEF WalkInv
  <1>1. /\ Listing(c) /\ pc'[c] = pc[c] /\ Key(c)' = Key(c)
        /\ found'[c] = found[c] /\ todo'[c] = todo[c]
    BY DEF Key
  <1>2. always'[c] = always[c] \cap Present' /\ ever'[c] = ever[c] \cup Present'
    BY <1>1 DEF Observed
  <1>3. pc'[c] = "walk" => Complete(c)'
    BY <1>1, <1>2 DEF WalkInv, Complete
  <1> QED
    BY <1>1, <1>2, <1>3 DEF WalkInv

\* The step of a client that lists is a step of the walk; others leave the walk alone.
LEMMA StepOfWalk ==
  ASSUME Inv, NEW c \in Clients, Step(c)
  PROVE  /\ call[c].op = "list" => ListStart(c) \/ ListDir(c) \/ ListEnd(c) \/ ListFails(c)
         /\ \A d \in Clients \ {c} : todo'[d] = todo[d] /\ found'[d] = found[d]
  <1>1. CASE ListStart(c) \/ ListDir(c) \/ ListEnd(c) \/ ListFails(c)
    BY <1>1 DEF ListStart, ListDir, ListEnd, ListFails, Reply, Inv, ClientTypes
  <1>2. CASE ~ (ListStart(c) \/ ListDir(c) \/ ListEnd(c) \/ ListFails(c))
    <2>1. call[c].op # "list"
      BY <1>2 DEF Step, Advance, PutStep, Refuse, PutQuota, PutResolved, PutMkdir,
         PutMkdirFails, PutMkdirDone, PutCreate, PutCreateFails, PutWrite, PutSync, PutWriteFails,
         PutPersist, PutPersistFails, GetOpen, NoFile, LookupFails, GetRead, GetEof, Delete,
         Exists, Presign, At, Begin
    <2>2. UNCHANGED <<todo, found>>
      BY <1>2 DEF Step, Advance, PutStep, Refuse, PutQuota, PutResolved, PutMkdir,
         PutMkdirFails, PutMkdirDone, PutCreate, PutCreateFails, PutWrite, PutSync, PutWriteFails,
         PutPersist, PutPersistFails, GetOpen, NoFile, LookupFails, GetRead, GetEof, Delete,
         Exists, Presign, Reply, Drop, local
    <2> QED
      BY <2>1, <2>2
  <1> QED
    BY <1>1, <1>2

(***************************************************************************)
(* Steps of the walk.                                                       *)
(***************************************************************************)
\* A new list has found nothing, and what is there is all it may and must find.
LEMMA InvokeWalks ==
  ASSUME Inv, NEW c \in Clients, Invoke(c), NEW d \in Clients, WalkInv(d), Observed(d)
  PROVE  WalkInv(d)'
  <1>1. PICK op, k, v : /\ call' = [call EXCEPT ![c] = Call(op, k, v)]
                        /\ op = "list" => k \in ListArgs
    BY InvokeArgs
  <1>2. /\ pc' = [pc EXCEPT ![c] = "start"] /\ found' = [found EXCEPT ![c] = {}]
        /\ UNCHANGED todo /\ pc[c] \in {"idle", "done"}
    BY DEF Invoke, Goto, Idle
  <1>3. /\ pc \in [Clients -> Labels] /\ call \in [Clients -> Calls \cup {Nil}]
        /\ found \in [Clients -> SUBSET Paths]
    BY DEF Inv, ClientTypes
  <1>4. CASE d # c
    <2>1. pc'[d] = pc[d] /\ call'[d] = call[d] /\ found'[d] = found[d] /\ todo'[d] = todo[d]
      BY <1>1, <1>2, <1>3, <1>4
    <2>2. Listing(d)' => Listing(d)
      BY <2>1 DEF Listing
    <2> QED
      BY <2>1, <2>2, WalkGoesOn
  <1>5. CASE d = c
    <2> SUFFICES ASSUME Listing(c)' PROVE WalkInv(c)'
      BY <1>5 DEF WalkInv
    <2>1. ~ Listing(c)
      BY <1>2 DEF Listing
    <2>2. always'[c] = Present' /\ ever'[c] = Present'
      BY <2>1, <1>5 DEF Observed
    <2>3. call'[c] = Call(op, k, v) /\ pc'[c] = "start" /\ found'[c] = {}
      BY <1>1, <1>2, <1>3
    <2>4. Key(c)' \in ListArgs
      BY <1>1, <2>3 DEF Key, Call, Listing
    <2> QED
      BY <2>2, <2>3, <2>4 DEF WalkInv
  <1> QED
    BY <1>4, <1>5

\* The walk begins at the root, which is above every key.
LEMMA ListStartWalks ==
  ASSUME Inv, NEW c \in Clients, ListStart(c), WalkInv(c), Observed(c)
  PROVE  WalkInv(c)'
  <1>1. /\ pc[c] = "start" /\ call[c].op = "list"
        /\ pc' = [pc EXCEPT ![c] = "walk"] /\ todo' = [todo EXCEPT ![c] = { <<>> }]
        /\ UNCHANGED <<tree, call, found>>
    BY DEF ListStart, At, Goto, fs
  <1> SUFFICES ASSUME Listing(c)' PROVE WalkInv(c)'
    BY DEF WalkInv
  <1>2. Listing(c) /\ pc'[c] = "walk" /\ todo'[c] = { <<>> }
    BY <1>1 DEF Listing, Inv, ClientTypes
  <1>3. /\ Key(c)' = Key(c) /\ found'[c] = found[c]
        /\ always'[c] = always[c] \cap Present' /\ ever'[c] = ever[c] \cup Present'
    BY <1>1, <1>2 DEF Key, Observed
  <1>4. \A k \in always'[c] : <<>> \in Ancestors(k)
    <2>1. ASSUME NEW k \in Keys PROVE <<>> \in Ancestors(k)
      <3>1. k \in Seq(Names) /\ Len(k) \in Nat \ {0}
        BY PathsAreSeqs, ConstantsAssumption
      <3>2. SubSeq(k, 1, 0) = <<>> /\ 0 \in 0..(Len(k) - 1)
        BY <3>1
      <3> QED
        BY <3>2 DEF Ancestors
    <2> QED
      BY <1>3, <2>1 DEF Present
  <1>5. Complete(c)'
    BY <1>2, <1>4 DEF Complete
  <1> QED
    BY <1>2, <1>3, <1>5 DEF WalkInv

\* On the way to a key that is there, the directory read names the next directory,
\* which the walk enters, or the key itself.
LEMMA NextOnTheWay ==
  ASSUME Inv, TreeInv, NEW k \in Present, NEW prefix \in ListArgs, MatchesPrefix(prefix, Text(k)),
         NEW d \in Ancestors(k)
  PROVE  \/ k \in Entries(d) /\ tree[k] # Dir /\ Validate(Text(k))
         \/ \E p \in Entries(d) : /\ tree[p] = Dir /\ KeepDir(prefix, DirText(p))
                                  /\ p \in Ancestors(k)
  <1>1. k \in Keys /\ k \in Seq(Names) /\ Len(k) \in Nat \ {0} /\ k # <<>> /\ tree[k] \in Files
    <2>1. k \in Keys /\ tree[k] \in Files
      BY DEF Present
    <2>2. k \in Seq(Names) /\ Len(k) \in Nat \ {0}
      BY <2>1, PathsAreSeqs, ConstantsAssumption
    <2> QED
      BY <2>1, <2>2
  <1>2. tree[k] # NoEnt /\ tree[k] # Dir /\ NoEnt # Dir
    BY <1>1, ConstantsAssumption
  <1>3. PICK n \in 0..(Len(k) - 1) : d = SubSeq(k, 1, n)
    BY DEF Ancestors
  <1>4. PICK p : p = SubSeq(k, 1, n + 1)
    OBVIOUS
  <1>5. n + 1 \in 0..Len(k) /\ (n + 1) - 1 = n /\ n \in 0..(n + 1)
    BY <1>1, <1>3
  <1>6. Len(p) = n + 1 /\ \A m \in 0..(n + 1) : SubSeq(p, 1, m) = SubSeq(k, 1, m)
    BY <1>1, <1>4, <1>5, CutPath
  <1>7. Parent(p) = d /\ p # <<>>
    <2>1. Parent(p) = SubSeq(p, 1, n)
      BY <1>5, <1>6 DEF Parent
    <2>2. p # <<>>
      BY <1>3, <1>6
    <2> QED
      BY <1>3, <1>5, <1>6, <2>1, <2>2
  <1>8. CASE n + 1 = Len(k)
    <2>1. p = k
      BY <1>1, <1>4, <1>8
    <2>2. k \in Paths /\ Validate(Text(k))
      BY <1>1, TextAssumption DEF Paths
    <2> QED
      BY <1>2, <1>7, <2>1, <2>2 DEF Entries
  <1>9. CASE n + 1 # Len(k)
    <2>1. n + 1 \in 0..(Len(k) - 1) /\ n + 1 \in 1..(Len(k) - 1)
      BY <1>1, <1>3, <1>9
    <2>2. p \in Ancestors(k) /\ p \in Dirs
      <3>1. p \in Ancestors(k)
        BY <1>4, <2>1 DEF Ancestors
      <3> QED
        BY <1>1, <3>1, AboveKey
    <2>3. tree[p] = Dir
      BY <1>1, <1>2, <2>2 DEF TreeInv, Shaped, Rooted, Paths
    <2>4. KeepDir(prefix, DirText(p))
      BY <1>1, <1>4, <2>1, PruningKeeps
    <2>5. p \in Entries(d)
      BY <1>2, <1>7, <2>2, <2>3 DEF Entries, Paths
    <2> QED
      BY <2>2, <2>3, <2>4, <2>5
  <1> QED
    BY <1>8, <1>9

\* Reading a directory loses no key and reports none that is not there.
LEMMA ListDirWalks ==
  ASSUME Inv, TreeInv, NEW c \in Clients, ListDir(c), WalkInv(c), Observed(c)
  PROVE  WalkInv(c)'
  <1> DEFINE files(d) == {p \in Entries(d) : tree[p] # Dir /\ MatchesPrefix(Key(c), Text(p))}
             dirs(d)  == {p \in Entries(d) : tree[p] = Dir /\ KeepDir(Key(c), DirText(p))}
  <1>1. PICK d \in todo[c] :
          /\ found' = [found EXCEPT ![c] = found[c] \cup {p \in files(d) : Validate(Text(p))}]
          /\ todo' = [todo EXCEPT ![c] = (todo[c] \ {d}) \cup dirs(d)]
    BY DEF ListDir
  <1>2. pc[c] = "walk" /\ call[c].op = "list" /\ UNCHANGED <<tree, pc, call>>
    BY DEF ListDir, At, fs
  <1> SUFFICES ASSUME Listing(c)' PROVE WalkInv(c)'
    BY DEF WalkInv
  <1>3. Listing(c) /\ Present' = Present /\ Key(c)' = Key(c)
    BY <1>2 DEF Listing, Present, Key
  <1>4. always'[c] = always[c] /\ ever'[c] = ever[c]
    BY <1>3 DEF Observed, WalkInv
  <1>5. /\ found'[c] = found[c] \cup {p \in files(d) : Validate(Text(p))}
        /\ todo'[c] = (todo[c] \ {d}) \cup dirs(d)
    BY <1>1 DEF Inv, ClientTypes
  <1>6. ASSUME NEW k \in always[c], MatchesPrefix(Key(c), Text(k))
        PROVE  k \in found'[c] \/ \E e \in todo'[c] : e \in Ancestors(k)
    <2>1. k \in Present /\ Key(c) \in ListArgs
          /\ (k \in found[c] \/ \E e \in todo[c] : e \in Ancestors(k))
      BY <1>2, <1>3, <1>6 DEF WalkInv, Complete
    <2>2. CASE k \in found[c]
      BY <1>5, <2>2
    <2>3. ASSUME NEW e \in todo[c], e \in Ancestors(k), e # d
          PROVE  \E a \in todo'[c] : a \in Ancestors(k)
      BY <1>5, <2>3
    <2>4. CASE d \in Ancestors(k)
      BY <1>1, <1>5, <1>6, <2>1, <2>4, NextOnTheWay
    <2> QED
      BY <2>1, <2>2, <2>3, <2>4
  <1>7. ASSUME NEW k \in found'[c] \cap Keys
        PROVE  MatchesPrefix(Key(c), Text(k)) /\ k \in ever[c]
    <2>1. CASE k \in found[c]
      BY <1>3, <1>7, <2>1 DEF WalkInv
    <2>2. CASE k \in files(d)
      <3>1. tree[k] # Dir /\ tree[k] # NoEnt /\ tree[k] \in Node /\ MatchesPrefix(Key(c), Text(k))
        BY <1>1, <2>2 DEF Entries, Inv, FsTypes
      <3>2. k \in Present
        BY <1>7, <3>1 DEF Present, Node
      <3> QED
        BY <1>3, <3>1, <3>2 DEF WalkInv
    <2> QED
      BY <1>5, <1>7, <2>1, <2>2
  <1>8. Complete(c)'
    BY <1>3, <1>4, <1>6 DEF Complete
  <1> QED
    BY <1>2, <1>3, <1>4, <1>7, <1>8 DEF WalkInv

LEMMA StepWalks ==
  ASSUME Inv, TreeInv, NEW c \in Clients, Step(c), NEW d \in Clients, WalkInv(d), Observed(d)
  PROVE  WalkInv(d)'
  <1>1. UNCHANGED call /\ \A e \in Clients \ {c} : pc'[e] = pc[e]
    BY StepFrame
  <1>2. CASE d # c
    <2>1. pc'[d] = pc[d] /\ call'[d] = call[d] /\ found'[d] = found[d] /\ todo'[d] = todo[d]
      BY <1>1, <1>2, StepOfWalk
    <2>2. Listing(d)' => Listing(d)
      BY <2>1 DEF Listing
    <2> QED
      BY <2>1, <2>2, WalkGoesOn
  <1>3. CASE d = c /\ ListStart(c)
    BY <1>3, ListStartWalks
  <1>4. CASE d = c /\ ListDir(c)
    BY <1>4, ListDirWalks
  <1>5. CASE d = c /\ (ListEnd(c) \/ ListFails(c))
    <2>1. pc'[c] = "done"
      BY <1>5 DEF ListEnd, ListFails, Reply, Done, Inv, ClientTypes
    <2> QED
      BY <1>5, <2>1 DEF WalkInv, Listing
  <1>6. CASE d = c /\ call[c].op # "list"
    BY <1>1, <1>6 DEF WalkInv, Listing
  <1> QED
    BY <1>2, <1>3, <1>4, <1>5, <1>6, StepOfWalk

LEMMA CancelWalks ==
  ASSUME Inv, NEW c \in Clients, Cancel(c), NEW d \in Clients, WalkInv(d), Observed(d)
  PROVE  WalkInv(d)'
  <1>1. /\ pc' = [pc EXCEPT ![c] = "idle"] /\ call' = [call EXCEPT ![c] = Nil]
        /\ UNCHANGED <<todo, found>>
    BY DEF Cancel, Goto
  <1>2. pc \in [Clients -> Labels] /\ call \in [Clients -> Calls \cup {Nil}]
    BY DEF Inv, ClientTypes
  <1>3. CASE d # c
    <2>1. pc'[d] = pc[d] /\ call'[d] = call[d] /\ found'[d] = found[d] /\ todo'[d] = todo[d]
      BY <1>1, <1>2, <1>3
    <2>2. Listing(d)' => Listing(d)
      BY <2>1 DEF Listing
    <2> QED
      BY <2>1, <2>2, WalkGoesOn
  <1>4. CASE d = c
    <2>1. call'[d] = Nil
      BY <1>1, <1>2, <1>4
    <2> QED
      BY <2>1 DEF WalkInv, Listing
  <1> QED
    BY <1>3, <1>4

LEMMA HInvIsInductive == HInv /\ [HNext]_hvars => HInv'
  <1> SUFFICES ASSUME HInv, [HNext]_hvars PROVE HInv'
    OBVIOUS
  <1>1. Inv' /\ TreeInv'
    <2>1. [Next]_vars
      BY DEF HNext, hvars
    <2> QED
      BY <2>1, InvIsInductive, TreeInvIsInductive DEF HInv
  <1>2. ASSUME NEW d \in Clients PROVE WalkInv(d)'
    <2>1. Inv /\ TreeInv /\ WalkInv(d)
      BY DEF HInv, Walks
    <2>2. CASE HNext
      <3>1. Observed(d)
        BY <2>2, HNextObserved
      <3>2. ASSUME NEW c \in Clients, Invoke(c) PROVE WalkInv(d)'
        BY <2>1, <3>1, <3>2, InvokeWalks
      <3>3. ASSUME NEW c \in Clients, Step(c) PROVE WalkInv(d)'
        BY <2>1, <3>1, <3>3, StepWalks
      <3>4. ASSUME NEW c \in Clients, Cancel(c) PROVE WalkInv(d)'
        BY <2>1, <3>1, <3>4, CancelWalks
      <3>5. CASE Orphan \/ Commit
        <4>1. UNCHANGED <<pc, call, todo, found>>
          BY <3>5 DEF Orphan, Commit, local
        <4>2. Listing(d)' => Listing(d)
          BY <4>1 DEF Listing
        <4> QED
          BY <2>1, <3>1, <4>1, <4>2, WalkGoesOn
      <3>6. CASE Crash
        BY <3>6 DEF Crash, WalkInv, Listing
      <3> QED
        BY <2>2, <3>2, <3>3, <3>4, <3>5, <3>6 DEF HNext, Next
    <2>3. CASE UNCHANGED hvars
      BY <2>1, <2>3 DEF hvars, vars, WalkInv, Complete, Listing, Present, Key
    <2> QED
      BY <2>2, <2>3
  <1> QED
    BY <1>1, <1>2 DEF HInv, Walks

LEMMA InitHInv == HInit => HInv
  <1> SUFFICES ASSUME HInit PROVE HInv
    OBVIOUS
  <1>1. Inv /\ TreeInv
    BY InitInv, InitTreeInv DEF HInit
  <1>2. Walks
    BY DEF HInit, Init, Walks, WalkInv, Listing
  <1> QED
    BY <1>1, <1>2 DEF HInv

\* Only the end of a walk with nothing left to read returns Ok.
LEMMA WalkReturns ==
  ASSUME Inv, Next, NEW c \in Clients, Listing(c), pc'[c] = "done", ret'[c].st = "Ok"
  PROVE  ListEnd(c)
  <1>1. /\ pc \in [Clients -> Labels] /\ ret \in [Clients -> Results \cup {Nil}]
        /\ pc[c] \in {"start", "walk"} /\ call[c].op = "list"
    BY DEF Inv, ClientTypes, Listing
  <1>2. ~ (Orphan \/ Commit \/ Crash)
    BY <1>1 DEF Orphan, Commit, Crash
  <1>3. ASSUME NEW d \in Clients, Invoke(d) \/ Cancel(d) PROVE FALSE
    BY <1>1, <1>3 DEF Invoke, Cancel, Goto
  <1>4. PICK d \in Clients : Step(d)
    BY <1>2, <1>3 DEF Next
  <1>5. d = c
    BY <1>1, <1>4, StepFrame
  <1>6. ListStart(c) \/ ListDir(c) \/ ListEnd(c) \/ ListFails(c)
    BY <1>1, <1>4, <1>5, StepOfWalk
  <1>7. ~ ListStart(c) /\ ~ ListDir(c)
    BY <1>1 DEF ListStart, ListDir, Goto
  <1>8. ~ ListFails(c)
    <2>1. ListFails(c) => ret'[c] = Err("Io")
      BY <1>1 DEF ListFails, Done
    <2> QED
      BY <2>1 DEF Err
  <1> QED
    BY <1>6, <1>7, <1>8

LEMMA StepListsFaithfully ==
  ASSUME HInv, HNext, NEW c \in Clients, Listing(c), pc'[c] = "done", ret'[c].st = "Ok"
  PROVE  /\ Matching(c, always'[c]) \subseteq found'[c]
         /\ found'[c] \cap Keys \subseteq Matching(c, ever'[c])
  <1>1. ListEnd(c)
    BY WalkReturns DEF HInv, HNext
  <1>2. pc[c] = "walk" /\ todo[c] = {} /\ UNCHANGED found
    BY <1>1 DEF ListEnd, At, Reply
  <1>3. always'[c] = always[c] \cap Present' /\ ever'[c] = ever[c] \cup Present'
    BY HNextObserved DEF Observed
  <1>4. WalkInv(c)
    BY DEF HInv, Walks
  <1>5. ASSUME NEW k \in always'[c], MatchesPrefix(Key(c), Text(k)) PROVE k \in found'[c]
    BY <1>2, <1>3, <1>4, <1>5 DEF WalkInv, Complete
  <1>6. ASSUME NEW k \in found'[c] \cap Keys PROVE MatchesPrefix(Key(c), Text(k)) /\ k \in ever'[c]
    BY <1>2, <1>3, <1>4, <1>6 DEF WalkInv
  <1> QED
    BY <1>5, <1>6 DEF Matching

\* A list that returns Ok reports every key that was there, and matched its
\* prefix, while it ran, and none that was there at no time of it, whatever the
\* other clients did meanwhile (LocalStore::list).
THEOREM ListIsFaithful == HSpec => ListFaithful
  <1>1. HInv /\ [HNext]_hvars =>
          [\A c \in Clients : Listing(c) /\ pc'[c] = "done" /\ ret'[c].st = "Ok" =>
             /\ Matching(c, always'[c]) \subseteq found'[c]
             /\ found'[c] \cap Keys \subseteq Matching(c, ever'[c])]_hvars
    BY StepListsFaithfully
  <1>2. HSpec => []HInv
    BY InitHInv, HInvIsInductive, PTL DEF HSpec
  <1> QED
    BY <1>1, <1>2, PTL DEF HSpec, ListFaithful
===============================================================================
