---------------------- MODULE ObjectKeyPropertiesProofs ----------------------
(***************************************************************************)
(* What TLC checks of short keys and prefixes holds of those of any length  *)
(* over any alphabet: MaxKey is anything, MaxPrefix any number, and nothing *)
(* below asks what Letters is.                                              *)
(***************************************************************************)
EXTENDS ObjectKeyProperties, ObjectKeyProofs, FiniteSetTheorems

\* What is typed is a string over the alphabet.
LEMMA TypedIsString == Typing => [](typed \in Seq(Alphabet))
  <1>1. TypingInit => typed \in Seq(Alphabet)
    BY DEF TypingInit
  <1>2. typed \in Seq(Alphabet) /\ [TypeLetter \/ StartOver]_typed => (typed \in Seq(Alphabet))'
    <2> SUFFICES ASSUME typed \in Seq(Alphabet), [TypeLetter \/ StartOver]_typed
                 PROVE  typed' \in Seq(Alphabet)
      OBVIOUS
    <2>1. CASE TypeLetter
      BY <2>1 DEF TypeLetter
    <2>2. CASE StartOver
      BY <2>2 DEF StartOver
    <2> QED
      BY <2>1, <2>2
  <1> QED
    BY <1>1, <1>2, PTL DEF Typing

LEMMA PrefixesAreStrings == PrefixStrings \subseteq Seq(Alphabet)
  <1>1. ASSUME NEW n \in Nat, NEW s \in [1..n -> Alphabet \ {Nul}] PROVE s \in Seq(Alphabet)
    OBVIOUS
  <1> QED
    BY <1>1, BoundsAssumption DEF PrefixStrings

\* The three slash tests of validate are: no component is empty.
LEMMA SlashTests ==
  ASSUME NEW key \in Seq(Alphabet), key # <<>>
  PROVE  /\ Split(key) \in Parts(Alphabet)
         /\ <<>> \notin ToSet(Split(key)) <=>
              Head(key) # Slash /\ Last(key) # Slash /\ ~ ContainsPair(key, Slash, Slash)
  <1>1. Head(key) = key[1] /\ Last(key) = key[Len(key)]
    BY DEF Last
  <1> QED
    BY <1>1, EmptyComponents

LEMMA ValidComponents ==
  ASSUME NEW key \in Seq(Alphabet), Validate(key)
  PROVE  /\ key # <<>> /\ Split(key) \in Parts(Alphabet)
         /\ <<>> \notin ToSet(Split(key)) /\ DotDot \notin ToSet(Split(key))
  BY SlashTests DEF Validate

LEMMA NothingGoesUp ==
  ASSUME NEW key \in Seq(Alphabet), Validate(key), NEW n \in 1..Len(Split(key))
  PROVE  LET w == SubSeq(Split(key), 1, n) IN Up(w) = 0 /\ Down(w) \in Nat
  <1>1. PICK q \in Parts(Alphabet) : q = Split(key) /\ DotDot \notin ToSet(q)
    BY ValidComponents
  <1>2. q \in Seq(Seq(Alphabet)) /\ n \in 1..Len(q) /\ n \in Nat
    BY <1>1 DEF Parts
  <1>3. PICK w : w = SubSeq(q, 1, n)
    OBVIOUS
  <1>4. w \in Seq(Seq(Alphabet)) /\ Len(w) = n /\ \A i \in 1..n : w[i] = q[i]
    BY <1>2, <1>3, FirstOf
  <1>5. DOMAIN w = 1..n
    BY <1>4
  <1>6. \A i \in 1..n : w[i] # DotDot
    <2>1. \A i \in 1..n : i \in DOMAIN q
      BY <1>2
    <2> QED
      BY <1>1, <1>4, <2>1 DEF ToSet
  <1>7. Up(w) = 0
    <2>1. {i \in DOMAIN w : w[i] = DotDot} = {}
      BY <1>5, <1>6
    <2> QED
      BY <2>1, FS_EmptySet, Zenon DEF Up
  <1>8. Down(w) \in Nat
    <2>1. PICK S : S = {i \in DOMAIN w : w[i] \notin {DotDot, <<Dot>>, <<>>}}
      OBVIOUS
    <2>2. S \in SUBSET (1..n) /\ IsFiniteSet(1..n)
      BY <1>2, <1>5, <2>1, FS_Interval
    <2>3. IsFiniteSet(S)
      BY <2>2, FS_Subset
    <2> QED
      BY <2>1, <2>3, FS_CardinalityType, Zenon DEF Down
  <1> QED
    BY <1>1, <1>3, <1>7, <1>8

LEMMA ValidStaysBelowRoot ==
  ASSUME NEW key \in Seq(Alphabet), Validate(key)
  PROVE  ~ Escapes(key)
  <1>1. ~ (key # <<>> /\ Head(key) = Slash)
    BY DEF Validate
  <1>2. ASSUME NEW n \in 1..Len(Split(key))
        PROVE  LET w == SubSeq(Split(key), 1, n) IN ~ (Up(w) > Down(w))
    <2>1. PICK u, d : u = Up(SubSeq(Split(key), 1, n)) /\ d = Down(SubSeq(Split(key), 1, n))
      OBVIOUS
    <2>2. u = 0 /\ d \in Nat
      BY <2>1, NothingGoesUp
    <2> QED
      BY <2>1, <2>2
  <1> QED
    BY <1>1, <1>2, Zenon DEF Escapes

LEMMA ValidIsClean ==
  ASSUME NEW key \in Seq(Alphabet)
  PROVE  Validate(key) <=> /\ Len(key) \in 1..MaxLen /\ Nul \notin ToSet(key)
                           /\ \A name \in ToSet(Split(key)) : name # <<>> /\ name # DotDot
  <1>1. CASE key = <<>>
    BY <1>1 DEF Validate
  <1>2. CASE key # <<>>
    <2>1. Len(key) \in 1..MaxLen <=> Len(key) <= MaxLen
      BY <1>2, MaxLenAssumption
    <2>2. /\ \A name \in ToSet(Split(key)) : name # <<>> /\ name # DotDot
          <=> <<>> \notin ToSet(Split(key)) /\ DotDot \notin ToSet(Split(key))
      BY Zenon
    <2> QED
      BY <1>2, <2>1, <2>2, SlashTests, Zenon DEF Validate
  <1> QED
    BY <1>1, <1>2

LEMMA ListedAsStored ==
  ASSUME NEW key \in Seq(Alphabet), Validate(key), <<Dot>> \notin ToSet(Split(key))
  PROVE  Text(Denotes(key)) = key
  <1>1. <<>> \notin ToSet(Split(key)) /\ Slash \in Alphabet
    BY ValidComponents DEF Alphabet
  <1>2. Denotes(key) = Split(key)
    BY <1>1, DenotesComponents
  <1> QED
    BY <1>1, <1>2, TextOfSplit

LEMMA AncestorsAreKept ==
  ASSUME NEW key \in Seq(Alphabet), NEW prefix \in Seq(Alphabet),
         MatchesPrefix(prefix, Text(Denotes(key))),
         NEW d \in Ancestors(Denotes(key)) \ { <<>> }
  PROVE  KeepDir(prefix, DirText(d))
  <1>1. PICK p \in Seq(Seq(Alphabet)) : p = Denotes(key)
    BY DenotesTypes
  <1>2. PICK n \in 0..(Len(p) - 1) : d = SubSeq(p, 1, n)
    BY <1>1 DEF Ancestors
  <1>3. n # 0
    BY <1>1, <1>2
  <1>4. n \in 1..(Len(p) - 1) /\ Slash \in Alphabet
    BY <1>1, <1>2, <1>3 DEF Alphabet
  <1> QED
    BY <1>1, <1>2, <1>4, PruningKeepsPaths

\* A walk along a validated key stays below the root, at no component of it
\* does it go above (the promise of ObjectKey::new).
THEOREM KeysStayBelowRoot == Typing => []KeyStaysBelowRoot
  <1>1. typed \in Seq(Alphabet) => KeyStaysBelowRoot
    BY ValidStaysBelowRoot DEF KeyStaysBelowRoot
  <1> QED
    BY <1>1, TypedIsString, PTL

\* What validate asks of a string with starts_with, ends_with and contains is
\* what its documentation asks of the components: none empty, none "..".
THEOREM ValidKeysHaveCleanComponents == Typing => []ValidMeansCleanComponents
  <1>1. typed \in Seq(Alphabet) => ValidMeansCleanComponents
    BY ValidIsClean DEF ValidMeansCleanComponents
  <1> QED
    BY <1>1, TypedIsString, PTL

\* list names a stored file by the key it was stored in: the text rebuilt from
\* the path is the key, character for character, unless the key spells ".".
THEOREM ListsKeysAsStored == Typing => []ListedTextIsKey
  <1>1. typed \in Seq(Alphabet) => ListedTextIsKey
    BY ListedAsStored DEF ListedTextIsKey, Storable
  <1> QED
    BY <1>1, TypedIsString, PTL

\* Pruning loses no match: a directory above a file whose key has the prefix
\* is one the walk enters.
THEOREM PruningLosesNoMatch == Typing => []PruningKeepsMatches
  <1>1. typed \in Seq(Alphabet) => PruningKeepsMatches
    BY AncestorsAreKept, PrefixesAreStrings DEF PruningKeepsMatches
  <1> QED
    BY <1>1, TypedIsString, PTL
==============================================================================
