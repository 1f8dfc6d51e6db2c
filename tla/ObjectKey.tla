------------------------------ MODULE ObjectKey ------------------------------
(***************************************************************************)
(* Object keys and how LocalStore turns them into paths.                    *)
(*                                                                         *)
(* A string is a sequence of characters; "/" and "." are the two characters *)
(* the code looks at, Nul stands for the rejected control characters, and   *)
(* any other value is an ordinary character.  A path below the store's root *)
(* is a sequence of names (slash-free strings); the root itself is <<>>.    *)
(***************************************************************************)
EXTENDS Naturals, SequencesExt

CONSTANTS MaxLen,   \* ObjectKey::MAX_LEN, in bytes
          Nul       \* stands for '\0', '\r' and '\n'

ASSUME MaxLenAssumption == MaxLen \in Nat

Slash == "/"
Dot   == "."
DotDot == <<Dot, Dot>>

\* a slash opens the next component
AddChar(parts, ch) ==
  IF ch = Slash THEN Append(parts, <<>>) ELSE [parts EXCEPT ![Len(parts)] = Append(@, ch)]

\* str::split('/'): always at least one component, possibly empty ones
Split(s) == FoldLeft(AddChar, << <<>> >>, s)

\* str::contains for the two-character patterns ".." and "//"
ContainsPair(s, a, b) ==
  \E i \in 1..(Len(s) - 1) : s[i] = a /\ s[i + 1] = b

\* (slip) ".." is not looked for
ValidateDotDotAllowed(s) ==
  /\ s # <<>> /\ Len(s) <= MaxLen /\ Nul \notin ToSet(s)
  /\ Head(s) # Slash /\ Last(s) # Slash /\ ~ ContainsPair(s, Slash, Slash)

\* (slip) only the ends are examined for empty components
ValidateEndsOnly(s) ==
  /\ s # <<>> /\ Len(s) <= MaxLen /\ Nul \notin ToSet(s)
  /\ DotDot \notin ToSet(Split(s))
  /\ Head(s) # Slash /\ Last(s) # Slash

(***************************************************************************)
(* ObjectKey::validate: the checks in the code's order.                     *)
(***************************************************************************)
Validate(s) ==
  /\ s # <<>>
  /\ Len(s) <= MaxLen
  /\ Nul \notin ToSet(s)
  /\ DotDot \notin ToSet(Split(s))
  /\ Head(s) # Slash
  /\ Last(s) # Slash
  /\ ~ ContainsPair(s, Slash, Slash)

(***************************************************************************)
(* LocalStore::resolve refuses every key whose text contains "..", also     *)
(* inside a component ("a..b"), which ObjectKey accepts.                    *)
(***************************************************************************)
Resolvable(s) == ~ ContainsPair(s, Dot, Dot)

\* one step of pathname resolution: the kernel skips empty and "." components
Descend(path, name) == IF name \in {<<>>, <<Dot>>} THEN path ELSE Append(path, name)

\* The path a string denotes below the root.
Denotes(s) == FoldLeft(Descend, <<>>, Split(s))

(***************************************************************************)
(* Paths and their text.                                                    *)
(***************************************************************************)
Text(path) ==
  IF path = <<>> THEN <<>>
  ELSE Tail(FlattenSeq([i \in 1..Len(path) |-> <<Slash>> \o path[i]]))

\* format!("{}/", relative): for the root the code never asks
DirText(dir) == Text(dir) \o <<Slash>>

Parent(path) == SubSeq(path, 1, Len(path) - 1)

\* the directories above a path, root first
Ancestors(path) == {SubSeq(path, 1, n) : n \in 0..(Len(path) - 1)}

(***************************************************************************)
(* LocalStore::list: which directories the walk enters, which files it      *)
(* reports.  Both compare strings, not components: list("a") reports        *)
(* "aa.txt" as well as "a/b".                                               *)
(***************************************************************************)
MatchesPrefix(prefix, text) == IsPrefix(prefix, text)

\* (slip) only the directories above the prefix are entered, not those below
KeepDirAbove(prefix, dirText) == IsPrefix(dirText, prefix)

KeepDir(prefix, dirText) ==
  \/ prefix = <<>>
  \/ IsPrefix(dirText, prefix)
  \/ IsPrefix(prefix, dirText)
==============================================================================
