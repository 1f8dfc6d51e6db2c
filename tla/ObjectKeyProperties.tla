------------------------- MODULE ObjectKeyProperties -------------------------
(***************************************************************************)
(* What the key checks, the text list reports and its prefix pruning are    *)
(* for, of every string and prefix.  The machine only enumerates the        *)
(* strings a caller may hand to ObjectKey::new: it types them.              *)
(***************************************************************************)
EXTENDS ObjectKey

CONSTANTS Letters, MaxKey, MaxPrefix

ASSUME BoundsAssumption == MaxPrefix \in Nat

VARIABLE typed

Alphabet == Letters \cup {Slash, Dot, Nul}
PrefixStrings == UNION {[1..n -> Alphabet \ {Nul}] : n \in 0..MaxPrefix}

TypingInit == typed = <<>>

TypeLetter ==
  /\ Len(typed) < MaxKey
  /\ \E ch \in Alphabet : typed' = Append(typed, ch)
StartOver == typed # <<>> /\ typed' = <<>>

Typing == TypingInit /\ [][TypeLetter \/ StartOver]_typed

\* How many directories below the root a walk along the string ends, or passes:
\* ".." goes up, "." and empty components stay.
Up(names)   == Cardinality({i \in DOMAIN names : names[i] = DotDot})
Down(names) == Cardinality({i \in DOMAIN names : names[i] \notin {DotDot, <<Dot>>, <<>>}})
Escapes(s) ==
  \/ s # <<>> /\ Head(s) = Slash
  \/ \E n \in 1..Len(Split(s)) : LET w == SubSeq(Split(s), 1, n) IN Up(w) > Down(w)

\* A walk along a validated key never leaves the root, at no component of it
\* (types.rs: "prevents directory traversal").
KeyStaysBelowRoot == Validate(typed) => ~ Escapes(typed)

\* The checks on slashes, written with starts_with, ends_with and contains,
\* amount to: every component is non-empty and none is "..".
ValidMeansCleanComponents ==
  Validate(typed) <=>
    /\ Len(typed) \in 1..MaxLen /\ Nul \notin ToSet(typed)
    /\ \A name \in ToSet(Split(typed)) : name # <<>> /\ name # DotDot

\* a put under this key reaches the file system
Storable == Validate(typed) /\ Resolvable(typed)

\* What list reports for the file a key was stored in is that key, unless the
\* key spells a "." component.
ListedTextIsKey ==
  Storable /\ <<Dot>> \notin ToSet(Split(typed)) => Text(Denotes(typed)) = typed

\* The walk of list enters every directory above a file that matches.
PruningKeepsMatches ==
  Storable =>
    \A prefix \in PrefixStrings :
      MatchesPrefix(prefix, Text(Denotes(typed))) =>
        \A d \in Ancestors(Denotes(typed)) \ { <<>> } : KeepDir(prefix, DirText(d))
==============================================================================
