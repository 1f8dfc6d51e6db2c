--------------------------- MODULE ObjectKeyProofs ---------------------------
(***************************************************************************)
(* What the operators of ObjectKey return, for strings over any set of      *)
(* characters C: the components of a string and when one of them is empty,  *)
(* the text of a path and of a directory above it, and that splitting a     *)
(* string, walking along it and writing down the path give the string.      *)
(*                                                                         *)
(* Split and Denotes are folds, defined by recursion over sets of positions.*)
(* Such a fold exists (FoldExists), so that it satisfies its recursion, and *)
(* its values at 0, 1, .. Len(s) are the steps of a loop (SplitSteps,       *)
(* DenotesSteps).  What is claimed of every step follows by counting up     *)
(* (CountUp), which rests on the least number of a set (NatMin).            *)
(***************************************************************************)
EXTENDS ObjectKey, WellFoundedInduction, TLAPS

(***************************************************************************)
(* Numbers.                                                                 *)
(***************************************************************************)
\* A set of numbers has a least one, and Min is it.
LEMMA NatMin ==
  ASSUME NEW S \in SUBSET Nat, S # {}
  PROVE  Min(S) \in S /\ \A n \in S : Min(S) <= n
  <1>1. PICK m \in S : \A n \in S : <<n, m>> \notin OpToRel(<, Nat)
    BY WFMin, NatLessThanWellFounded, Zenon
  <1>2. \A n \in S : ~ (n < m)
    BY <1>1, Zenon DEF OpToRel
  <1>3. \A n \in S : m <= n
    BY <1>2
  <1> QED
    BY <1>3 DEF Min

\* Counting up, for sets.
LEMMA CountUp ==
  ASSUME NEW a \in Nat, NEW b \in Nat, NEW S, a \in S,
         \A i \in a..b : i \in S /\ i < b => i + 1 \in S
  PROVE  \A i \in a..b : i \in S
  <1> SUFFICES ASSUME NEW i \in a..b, i \notin S PROVE FALSE
    OBVIOUS
  <1>1. PICK T : T = {n \in a..b : n \notin S}
    OBVIOUS
  <1>2. T \in SUBSET Nat /\ T # {}
    BY <1>1
  <1>3. PICK m \in T : \A n \in T : m <= n
    BY <1>2, NatMin
  <1>4. m \in a..b /\ m # a /\ m - 1 \notin T
    BY <1>1, <1>3
  <1>5. m - 1 \in a..b /\ m - 1 \in S /\ m - 1 < b
    BY <1>1, <1>4
  <1>6. (m - 1) + 1 \in S
    BY <1>5
  <1> QED
    BY <1>1, <1>3, <1>4, <1>6

\* Max of a set of positions is one of them.
LEMMA MaxOfPage ==
  ASSUME NEW n \in Nat, NEW S \in SUBSET (1..n), S # {}
  PROVE  Max(S) \in S /\ \A y \in S : y <= Max(S)
  <1> DEFINE T == {n - i : i \in S}
  <1>1. T \in SUBSET Nat
    OBVIOUS
  <1>2. T # {}
    OBVIOUS
  <1>3. PICK m \in T : \A t \in T : m <= t
    <2> HIDE DEF T
    <2> QED
      BY <1>1, <1>2, NatMin
  <1>4. PICK x \in S : m = n - x
    OBVIOUS
  <1>5. ASSUME NEW y \in S PROVE x >= y
    <2>1. n - y \in T
      OBVIOUS
    <2>2. m <= n - y
      BY <1>3, <2>1
    <2> QED
      BY <1>4, <2>2
  <1>6. \E z \in S : \A y \in S : z >= y
    BY <1>5
  <1> QED
    BY <1>6 DEF Max

(***************************************************************************)
(* A fold over a sequence, step by step.                                    *)
(***************************************************************************)
\* g folds s with the step F, set of positions by set of positions
Folds(g, F, base, s) ==
  g = [S \in SUBSET (1..Len(s)) |-> IF S = {} THEN base ELSE F[<<g[S \ {Max(S)}], s[Max(S)]>>]]

\* Every fold exists and stays in the type of its steps.
LEMMA FoldExists ==
  ASSUME NEW X, NEW Y, NEW base \in X, NEW F \in [X \X Y -> X], NEW s \in Seq(Y)
  PROVE  \E g : Folds(g, F, base, s) /\ \A S \in SUBSET (1..Len(s)) : g[S] \in X
  <1> DEFINE Step(g, S) == IF S = {} THEN base ELSE F[<<g[S \ {Max(S)}], s[Max(S)]>>]
             Upto(m) == \E g : /\ DOMAIN g = SUBSET (1..m)
                               /\ g = [S \in SUBSET (1..m) |-> Step(g, S)]
                               /\ \A S \in SUBSET (1..m) : g[S] \in X
  <1>1. PICK T : T = {m \in Nat : Upto(m)}
    OBVIOUS
  <1>2. 0 \in T
    <2>1. PICK g : g = [S \in { {} } |-> base]
      OBVIOUS
    <2>2. SUBSET (1..0) = { {} }
      OBVIOUS
    <2>3. g = [S \in SUBSET (1..0) |-> Step(g, S)]
      BY <2>1, <2>2
    <2>4. \A S \in SUBSET (1..0) : g[S] \in X
      BY <2>1, <2>2
    <2> QED
      BY <1>1, <2>1, <2>2, <2>3, <2>4
  <1>3. ASSUME NEW m \in 0..Len(s), m \in T, m < Len(s) PROVE m + 1 \in T
    <2>1. PICK g : /\ DOMAIN g = SUBSET (1..m) /\ g = [S \in SUBSET (1..m) |-> Step(g, S)]
                   /\ \A S \in SUBSET (1..m) : g[S] \in X
      BY <1>1, <1>3
    <2>2. PICK h : h = [S \in SUBSET (1..(m + 1)) |->
                          IF m + 1 \in S THEN F[<<g[S \ {m + 1}], s[m + 1]>>] ELSE g[S]]
      OBVIOUS
    <2>3. ASSUME NEW S \in SUBSET (1..(m + 1)) PROVE h[S] = Step(h, S)
      <3>1. CASE m + 1 \in S
        <4>1. S # {} /\ Max(S) = m + 1
          <5>1. S # {} /\ m + 1 \in Nat
            BY <1>3, <3>1
          <5>2. Max(S) \in S /\ \A y \in S : y <= Max(S)
            BY <5>1, MaxOfPage
          <5>3. PICK x : x = Max(S)
            OBVIOUS
          <5>4. x \in 1..(m + 1) /\ m + 1 <= x
            BY <3>1, <5>2, <5>3
          <5> QED
            BY <1>3, <5>1, <5>3, <5>4
        <4>2. S \ {m + 1} \in SUBSET (1..m) /\ S \ {m + 1} \in SUBSET (1..(m + 1))
          OBVIOUS
        <4>3. h[S \ {m + 1}] = g[S \ {m + 1}]
          BY <2>2, <4>2
        <4>4. h[S] = F[<<g[S \ {m + 1}], s[m + 1]>>]
          BY <2>2, <3>1
        <4> QED
          BY <4>1, <4>3, <4>4
      <3>2. CASE m + 1 \notin S
        <4>1. S \in SUBSET (1..m)
          BY <3>2
        <4>2. h[S] = g[S] /\ g[S] = Step(g, S)
          BY <2>1, <2>2, <3>2, <4>1
        <4>3. PICK R : R = S \ {Max(S)}
          OBVIOUS
        <4>4. R \in SUBSET (1..m) /\ m + 1 \notin R /\ R \in SUBSET (1..(m + 1))
          BY <3>2, <4>1, <4>3
        <4>5. h[R] = g[R]
          BY <2>2, <4>4
        <4> QED
          BY <4>2, <4>3, <4>5
      <3> QED
        BY <3>1, <3>2
    <2>4. h = [S \in SUBSET (1..(m + 1)) |-> Step(h, S)]
      BY <2>2, <2>3
    <2>5. DOMAIN h = SUBSET (1..(m + 1))
      BY <2>2
    <2>6. ASSUME NEW S \in SUBSET (1..(m + 1)) PROVE h[S] \in X
      <3>1. CASE m + 1 \in S
        <4>1. PICK R : R = S \ {m + 1}
          OBVIOUS
        <4>2. R \in SUBSET (1..m) /\ m + 1 \in 1..Len(s)
          BY <1>3, <4>1
        <4>3. g[R] \in X /\ s[m + 1] \in Y
          <5>1. s[m + 1] \in Y
            BY <4>2
          <5> QED
            BY <2>1, <4>2, <5>1
        <4>4. h[S] = F[<<g[R], s[m + 1]>>]
          BY <2>2, <3>1, <4>1
        <4> QED
          BY <4>3, <4>4
      <3>2. CASE m + 1 \notin S
        <4>1. S \in SUBSET (1..m)
          BY <3>2
        <4> QED
          BY <2>1, <2>2, <3>2, <4>1
      <3> QED
        BY <3>1, <3>2
    <2>7. Upto(m + 1)
      BY <2>4, <2>5, <2>6
    <2>8. m + 1 \in Nat
      OBVIOUS
    <2> HIDE DEF Upto
    <2> QED
      BY <1>1, <2>7, <2>8
  <1> HIDE DEF Upto
  <1>4. Len(s) \in Nat
    OBVIOUS
  <1>5. Len(s) \in T
    <2>1. \A m \in 0..Len(s) : m \in T
      BY <1>2, <1>3, <1>4, CountUp
    <2> QED
      BY <1>4, <2>1
  <1>6. Upto(Len(s))
    BY <1>1, <1>5
  <1> QED
    BY <1>6 DEF Folds, Upto

\* The positions up to n, less the last.
LEMMA MaxUpto ==
  ASSUME NEW n \in Nat \ {0}
  PROVE  Max(1..n) = n /\ (1..n) \ {n} = 1..(n - 1)
  <1>1. PICK S : S = 1..n
    OBVIOUS
  <1>2. Max(S) \in S /\ \A y \in S : y <= Max(S)
    <2>1. S \in SUBSET (1..n) /\ S # {}
      BY <1>1
    <2> QED
      BY <2>1, MaxOfPage
  <1>3. PICK m : m = Max(S)
    OBVIOUS
  <1>4. m = n
    BY <1>1, <1>2, <1>3
  <1> QED
    BY <1>1, <1>3, <1>4

(***************************************************************************)
(* Split, character by character.                                           *)
(***************************************************************************)
Parts(C) == {q \in Seq(Seq(C)) : Len(q) > 0}

\* A slash opens a component, any other character extends the last one.
LEMMA AddCharGrows ==
  ASSUME NEW C, NEW q \in Parts(C), NEW ch \in C
  PROVE  /\ AddChar(q, ch) \in Parts(C)
         /\ ch = Slash => /\ Len(AddChar(q, ch)) = Len(q) + 1
                          /\ \A i \in 1..Len(q) : AddChar(q, ch)[i] = q[i]
                          /\ AddChar(q, ch)[Len(q) + 1] = <<>>
         /\ ch # Slash => /\ Len(AddChar(q, ch)) = Len(q)
                          /\ \A i \in 1..(Len(q) - 1) : AddChar(q, ch)[i] = q[i]
                          /\ AddChar(q, ch)[Len(q)] = Append(q[Len(q)], ch)
  <1>1. q \in Seq(Seq(C)) /\ Len(q) \in Nat \ {0} /\ q[Len(q)] \in Seq(C)
    BY DEF Parts
  <1>2. CASE ch = Slash
    <2>1. PICK r : r = Append(q, <<>>)
      OBVIOUS
    <2>2. /\ r \in Seq(Seq(C)) /\ Len(r) = Len(q) + 1
          /\ \A i \in 1..Len(q) : r[i] = q[i]
          /\ r[Len(q) + 1] = <<>>
      BY <1>1, <2>1
    <2>3. AddChar(q, ch) = r
      BY <1>2, <2>1 DEF AddChar
    <2>4. r \in Parts(C)
      BY <1>1, <2>2 DEF Parts
    <2> QED
      BY <1>2, <2>2, <2>3, <2>4
  <1>3. CASE ch # Slash
    <2>1. PICK v \in Seq(C) : v = q[Len(q)]
      BY <1>1
    <2>2. PICK w \in Seq(C) : w = Append(v, ch)
      <3>1. Append(v, ch) \in Seq(C)
        OBVIOUS
      <3> QED
        BY <3>1
    <2>3. PICK r : r = [q EXCEPT ![Len(q)] = w]
      OBVIOUS
    <2>4. /\ r \in Seq(Seq(C)) /\ Len(r) = Len(q)
          /\ \A i \in 1..(Len(q) - 1) : r[i] = q[i]
          /\ r[Len(q)] = w
      BY <1>1, <2>3
    <2>5. AddChar(q, ch) = r
      BY <1>3, <2>1, <2>2, <2>3 DEF AddChar
    <2>6. r \in Parts(C)
      BY <1>1, <2>4 DEF Parts
    <2> QED
      BY <1>3, <2>1, <2>2, <2>4, <2>5, <2>6
  <1> QED
    BY <1>2, <1>3

\* p[n] is what Split has made of the first n characters
Splits(p, C, s) ==
  /\ p[0] = << <<>> >>
  /\ \A n \in 0..Len(s) : p[n] \in Parts(C)
  /\ \A n \in 1..Len(s) : p[n] = AddChar(p[n - 1], s[n])
  /\ Split(s) = p[Len(s)]

\* Split is the last of its steps.
LEMMA SplitSteps ==
  ASSUME NEW C, NEW s \in Seq(C)
  PROVE  \E p : Splits(p, C, s)
  <1> DEFINE X == Parts(C)
             base == << <<>> >>
             F == [a \in X \X C |-> AddChar(a[1], a[2])]
             Iterates(g) == g = [S \in SUBSET (1..Len(s)) |->
                              IF S = {} THEN base ELSE AddChar(g[S \ {Max(S)}], s[Max(S)])]
             I == CHOOSE g : Iterates(g)
  <1>1. Split(s) = I[1..Len(s)]
    <2>1. DOMAIN s = 1..Len(s)
      OBVIOUS
    <2> QED
      BY <2>1, Zenon DEF Split, FoldLeft, MapThenFoldSet
  <1>2. base \in X
    BY DEF Parts
  <1>3. F \in [X \X C -> X]
    BY AddCharGrows
  <1>4. \E g : Iterates(g)
    <2> HIDE DEF X, F
    <2>1. PICK g : Folds(g, F, base, s) /\ \A S \in SUBSET (1..Len(s)) : g[S] \in X
      BY <1>2, <1>3, FoldExists
    <2>2. ASSUME NEW S \in SUBSET (1..Len(s)), S # {}
          PROVE  F[<<g[S \ {Max(S)}], s[Max(S)]>>] = AddChar(g[S \ {Max(S)}], s[Max(S)])
      <3>1. Max(S) \in S
        <4>1. Len(s) \in Nat
          OBVIOUS
        <4> QED
          BY <2>2, <4>1, MaxOfPage
      <3>2. PICK x : x = Max(S)
        OBVIOUS
      <3>3. S \ {x} \in SUBSET (1..Len(s)) /\ x \in 1..Len(s)
        BY <3>1, <3>2
      <3>4. g[S \ {x}] \in X /\ s[x] \in C
        BY <2>1, <3>3
      <3>5. F[<<g[S \ {x}], s[x]>>] = AddChar(g[S \ {x}], s[x])
        BY <3>4 DEF F
      <3> QED
        BY <3>2, <3>5
    <2>3. [S \in SUBSET (1..Len(s)) |-> IF S = {} THEN base ELSE F[<<g[S \ {Max(S)}], s[Max(S)]>>]]
            = [S \in SUBSET (1..Len(s)) |-> IF S = {} THEN base ELSE AddChar(g[S \ {Max(S)}], s[Max(S)])]
      BY <2>2, Zenon
    <2> QED
      BY <2>1, <2>3, Zenon DEF Folds
  <1>5. Iterates(I)
    BY <1>4, Zenon
  <1> HIDE DEF I
  <1>6. PICK p : p = [n \in 0..Len(s) |-> I[1..n]]
    OBVIOUS
  <1>7. Len(s) \in Nat
    OBVIOUS
  <1>8. p[0] = base
    <2>1. 1..0 = {} /\ {} \in SUBSET (1..Len(s)) /\ 0 \in 0..Len(s)
      BY <1>7
    <2> QED
      BY <1>5, <1>6, <2>1
  <1>9. ASSUME NEW n \in 1..Len(s) PROVE p[n] = AddChar(p[n - 1], s[n])
    <2>1. n \in Nat \ {0} /\ n \in 0..Len(s) /\ n - 1 \in 0..Len(s)
      BY <1>7
    <2>2. PICK S : S = 1..n
      OBVIOUS
    <2>3. S \in SUBSET (1..Len(s)) /\ n \in S
      BY <1>7, <2>1, <2>2
    <2>4. Max(S) = n /\ S \ {n} = 1..(n - 1)
      BY <2>1, <2>2, MaxUpto
    <2>5. I[S] = AddChar(I[S \ {Max(S)}], s[Max(S)])
      BY <1>5, <2>3
    <2> QED
      BY <1>6, <2>1, <2>2, <2>4, <2>5
  <1>10. ASSUME NEW n \in 0..Len(s) PROVE p[n] \in Parts(C)
    <2>1. PICK T : T = {m \in 0..Len(s) : p[m] \in Parts(C)}
      OBVIOUS
    <2>2. 0 \in T
      BY <1>2, <1>7, <1>8, <2>1
    <2>3. ASSUME NEW m \in 0..Len(s), m \in T, m < Len(s) PROVE m + 1 \in T
      <3>1. m + 1 \in 1..Len(s) /\ (m + 1) - 1 = m /\ m + 1 \in 0..Len(s)
        BY <1>7, <2>3
      <3>2. p[m] \in Parts(C) /\ s[m + 1] \in C
        BY <2>1, <2>3, <3>1
      <3>3. p[m + 1] = AddChar(p[m], s[m + 1])
        BY <1>9, <3>1
      <3>4. p[m + 1] \in Parts(C)
        BY <3>2, <3>3, AddCharGrows
      <3> QED
        BY <2>1, <3>1, <3>4
    <2>4. \A m \in 0..Len(s) : m \in T
      BY <1>7, <2>2, <2>3, CountUp
    <2> QED
      BY <2>1, <2>4
  <1>11. p[Len(s)] = I[1..Len(s)]
    BY <1>6, <1>7
  <1> QED
    BY <1>1, <1>8, <1>9, <1>10, <1>11 DEF Splits

\* A component is empty where two slashes meet, and at an end that is a slash.
LEMMA EmptyComponents ==
  ASSUME NEW C, NEW s \in Seq(C), s # <<>>
  PROVE  /\ Split(s) \in Parts(C)
         /\ <<>> \notin ToSet(Split(s)) <=>
              s[1] # Slash /\ s[Len(s)] # Slash /\ ~ ContainsPair(s, Slash, Slash)
  <1>1. PICK p : /\ p[0] = << <<>> >>
                 /\ \A n \in 0..Len(s) : p[n] \in Parts(C)
                 /\ \A n \in 1..Len(s) : p[n] = AddChar(p[n - 1], s[n])
                 /\ Split(s) = p[Len(s)]
    BY SplitSteps DEF Splits
  <1>2. Len(s) \in Nat \ {0} /\ \A n \in 1..Len(s) : s[n] \in C
    OBVIOUS
  <1> DEFINE Inner(q) == \E i \in 1..(Len(q) - 1) : q[i] = <<>>
             Meet(n) == n > 0 /\ (s[1] = Slash \/ \E i \in 1..(n - 1) : s[i] = Slash /\ s[i + 1] = Slash)
             Right(n) == /\ p[n][Len(p[n])] = <<>> <=> n = 0 \/ s[n] = Slash
                         /\ Inner(p[n]) <=> Meet(n)
  <1>3. PICK T : T = {n \in 0..Len(s) : Right(n)}
    OBVIOUS
  <1>4. 0 \in T
    <2>1. Len(p[0]) = 1 /\ p[0][1] = <<>>
      BY <1>1
    <2> QED
      BY <1>2, <1>3, <2>1
  <1>5. ASSUME NEW n \in 0..Len(s), n \in T, n < Len(s) PROVE n + 1 \in T
    <2>1. n + 1 \in 1..Len(s) /\ (n + 1) - 1 = n /\ n + 1 \in 0..Len(s) /\ n \in Nat
      BY <1>2, <1>5
    <2>2. Right(n)
      BY <1>3, <1>5
    <2>3. PICK q \in Parts(C) : q = p[n]
      BY <1>1
    <2>4. PICK r \in Parts(C) : r = p[n + 1]
      BY <1>1, <2>1
    <2>5. r = AddChar(q, s[n + 1]) /\ s[n + 1] \in C
      BY <1>1, <1>2, <2>1, <2>3, <2>4
    <2>6. Len(q) \in Nat \ {0}
      BY DEF Parts
    <2>7. CASE s[n + 1] = Slash
      <3>1. Len(r) = Len(q) + 1 /\ r[Len(q) + 1] = <<>> /\ \A i \in 1..Len(q) : r[i] = q[i]
        BY <2>5, <2>7, AddCharGrows
      <3>2. Inner(r) <=> Inner(q) \/ q[Len(q)] = <<>>
        BY <2>6, <3>1
      <3>3. Meet(n + 1) <=> Meet(n) \/ n = 0 \/ s[n] = Slash
        BY <2>1, <2>7
      <3>4. Right(n + 1)
        BY <2>1, <2>2, <2>3, <2>4, <2>7, <3>1, <3>2, <3>3
      <3> QED
        BY <1>3, <2>1, <3>4
    <2>8. CASE s[n + 1] # Slash
      <3>1. /\ Len(r) = Len(q) /\ r[Len(q)] = Append(q[Len(q)], s[n + 1])
            /\ \A i \in 1..(Len(q) - 1) : r[i] = q[i]
        BY <2>5, <2>8, AddCharGrows
      <3>2. r[Len(q)] # <<>>
        <4>1. PICK v \in Seq(C) : v = q[Len(q)]
          BY <2>6 DEF Parts
        <4>2. Append(v, s[n + 1]) # <<>>
          BY <2>5
        <4> QED
          BY <3>1, <4>1, <4>2
      <3>3. Inner(r) <=> Inner(q)
        BY <2>6, <3>1
      <3>4. Meet(n + 1) <=> Meet(n)
        <4>1. CASE n = 0
          BY <2>1, <2>8, <4>1
        <4>2. CASE n > 0
          BY <2>1, <2>8, <4>2
        <4> QED
          BY <2>1, <4>1, <4>2
      <3>5. Right(n + 1)
        BY <2>1, <2>2, <2>3, <2>4, <2>8, <3>1, <3>2, <3>3, <3>4
      <3> QED
        BY <1>3, <2>1, <3>5
    <2> QED
      BY <2>7, <2>8
  <1>6. \A n \in 0..Len(s) : n \in T
    <2> HIDE DEF Right
    <2> QED
      BY <1>2, <1>4, <1>5, CountUp
  <1>7. Right(Len(s)) /\ Len(s) \in 0..Len(s)
    BY <1>2, <1>3, <1>6
  <1>8. PICK q \in Parts(C) : q = p[Len(s)]
    BY <1>1, <1>7
  <1>9. Len(q) \in Nat \ {0} /\ ToSet(q) = {q[i] : i \in 1..Len(q)}
    BY DEF Parts, ToSet
  <1>10. <<>> \in ToSet(q) <=> Inner(q) \/ q[Len(q)] = <<>>
    BY <1>9
  <1>11. Meet(Len(s)) <=> s[1] = Slash \/ ContainsPair(s, Slash, Slash)
    BY <1>2 DEF ContainsPair
  <1>12. <<>> \in ToSet(q) <=> s[1] = Slash \/ ContainsPair(s, Slash, Slash) \/ s[Len(s)] = Slash
    BY <1>2, <1>7, <1>8, <1>10, <1>11
  <1> QED
    BY <1>1, <1>8, <1>12

(***************************************************************************)
(* Text of paths.  FlattenSeq is defined by recursion over the length; what *)
(* is needed of it follows from the least length for which it would fail.   *)
(***************************************************************************)
\* f concatenates the sequences of s, one after the other
Concatenates(f, s) ==
  f = [i \in 1..Len(s) |-> IF i = 1 THEN s[1] ELSE f[i - 1] \o s[i]]

\* The recursion behind FlattenSeq has a solution.
LEMMA ConcatenationExists ==
  ASSUME NEW s, Len(s) \in Nat
  PROVE  \E f : Concatenates(f, s)
  <1> DEFINE Upto(m) == \E f : f = [i \in 1..m |-> IF i = 1 THEN s[1] ELSE f[i - 1] \o s[i]]
  <1>1. PICK S : S = {m \in Nat : Upto(m)}
    OBVIOUS
  <1>2. 0 \in S
    <2>1. <<>> = [i \in 1..0 |-> IF i = 1 THEN s[1] ELSE <<>>[i - 1] \o s[i]]
      OBVIOUS
    <2> QED
      BY <1>1, <2>1
  <1>3. ASSUME NEW n \in 0..Len(s), n \in S PROVE n + 1 \in S
    <2>1. PICK g : g = [i \in 1..n |-> IF i = 1 THEN s[1] ELSE g[i - 1] \o s[i]]
      BY <1>1, <1>3
    <2>2. PICK x : x = IF n = 0 THEN s[1] ELSE g[n] \o s[n + 1]
      OBVIOUS
    <2>3. PICK h : h = [i \in 1..(n + 1) |-> IF i = n + 1 THEN x ELSE g[i]]
      OBVIOUS
    <2>4. ASSUME NEW i \in 1..(n + 1) PROVE h[i] = IF i = 1 THEN s[1] ELSE h[i - 1] \o s[i]
      <3>1. CASE i = n + 1
        <4>1. h[i] = x /\ (n # 0 => h[n] = g[n])
          BY <2>3, <3>1
        <4> QED
          BY <2>2, <3>1, <4>1
      <3>2. CASE i # n + 1
        <4>1. i \in 1..n /\ (i # 1 => i - 1 \in 1..n)
          BY <3>2
        <4>2. h[i] = g[i] /\ (i # 1 => h[i - 1] = g[i - 1])
          BY <2>3, <3>2, <4>1
        <4>3. g[i] = IF i = 1 THEN s[1] ELSE g[i - 1] \o s[i]
          BY <2>1, <4>1
        <4> QED
          BY <4>2, <4>3
      <3> QED
        BY <3>1, <3>2
    <2>5. h = [i \in 1..(n + 1) |-> IF i = 1 THEN s[1] ELSE h[i - 1] \o s[i]]
      BY <2>3, <2>4
    <2>6. Upto(n + 1)
      BY <2>5, Zenon
    <2>7. n + 1 \in Nat
      OBVIOUS
    <2> HIDE DEF Upto
    <2> QED
      BY <1>1, <2>6, <2>7
  <1> HIDE DEF Upto
  <1>4. \A m \in 0..Len(s) : m \in S
    BY <1>2, <1>3, CountUp
  <1>5. Upto(Len(s))
    BY <1>1, <1>4
  <1> QED
    BY <1>5 DEF Concatenates, Upto

\* FlattenSeq is the last of the concatenations.
LEMMA FlattenIsLast ==
  ASSUME NEW s, Len(s) \in Nat \ {0}
  PROVE  \E f : Concatenates(f, s) /\ FlattenSeq(s) = f[Len(s)]
  <1> DEFINE F == CHOOSE f : f = [i \in 1..Len(s) |-> IF i = 1 THEN s[i] ELSE f[i - 1] \o s[i]]
  <1>1. FlattenSeq(s) = F[Len(s)]
    BY DEF FlattenSeq
  <1>2. \E f : f = [i \in 1..Len(s) |-> IF i = 1 THEN s[i] ELSE f[i - 1] \o s[i]]
    <2>1. PICK f : Concatenates(f, s)
      BY ConcatenationExists
    <2>2. f = [i \in 1..Len(s) |-> IF i = 1 THEN s[i] ELSE f[i - 1] \o s[i]]
      BY <2>1 DEF Concatenates
    <2> QED
      BY <2>2
  <1>3. F = [i \in 1..Len(s) |-> IF i = 1 THEN s[i] ELSE F[i - 1] \o s[i]]
    BY <1>2, Zenon
  <1> HIDE DEF F
  <1>4. Concatenates(F, s)
    BY <1>3 DEF Concatenates
  <1> QED
    BY <1>1, <1>4

Starts(a, b) == Len(a) <= Len(b) /\ \A i \in 1..Len(a) : a[i] = b[i]

\* A concatenation begins with its first part and goes on with the second.
LEMMA ConcatStarts ==
  ASSUME NEW C, NEW a \in Seq(C), NEW b \in Seq(C)
  PROVE  /\ a \o b \in Seq(C) /\ Len(a \o b) = Len(a) + Len(b) /\ Starts(a, a \o b)
         /\ \A i \in 1..Len(a) : (a \o b)[i] = a[i]
         /\ \A i \in 1..Len(b) : (a \o b)[Len(a) + i] = b[i]
  BY DEF Starts

LEMMA StartsTransitive ==
  ASSUME NEW C, NEW a \in Seq(C), NEW b \in Seq(C), NEW d \in Seq(C), Starts(a, b), Starts(b, d)
  PROVE  Starts(a, d)
  BY DEF Starts

\* What a concatenation is after each sequence.
LEMMA ConcatenationGrows ==
  ASSUME NEW C, NEW s \in Seq(Seq(C)), NEW f, Concatenates(f, s)
  PROVE  /\ \A i \in 1..Len(s) : f[i] \in Seq(C)
         /\ Len(s) > 0 => f[1] = s[1]
         /\ \A i \in 2..Len(s) : f[i] = f[i - 1] \o s[i]
         /\ \A n \in 1..Len(s) : \A i \in n..Len(s) : Starts(f[n], f[i])
  <1>1. Len(s) \in Nat /\ \A i \in 1..Len(s) : s[i] \in Seq(C)
    OBVIOUS
  <1>2. \A i \in 1..Len(s) : f[i] = IF i = 1 THEN s[1] ELSE f[i - 1] \o s[i]
    BY DEF Concatenates
  <1>3. ASSUME NEW i \in 1..Len(s) PROVE f[i] \in Seq(C)
    <2>1. PICK S : S = {j \in 1..Len(s) : f[j] \in Seq(C)}
      OBVIOUS
    <2>2. 1 \in S
      BY SMTT(60), <1>1, <1>2, <2>1
    <2>3. ASSUME NEW j \in 1..Len(s), j \in S, j < Len(s) PROVE j + 1 \in S
      <3>1. j + 1 \in 1..Len(s) /\ j + 1 # 1 /\ (j + 1) - 1 = j
        BY <1>1, <2>3
      <3>2. f[j + 1] = f[j] \o s[j + 1] /\ f[j] \in Seq(C) /\ s[j + 1] \in Seq(C)
        BY <1>1, <1>2, <2>1, <2>3, <3>1
      <3>3. f[j + 1] \in Seq(C)
        BY <3>2, ConcatStarts
      <3> QED
        BY <2>1, <3>1, <3>3
    <2>4. i \in S
      BY <1>1, <2>2, <2>3, CountUp
    <2> QED
      BY <2>1, <2>4
  <1>4. ASSUME NEW i \in 2..Len(s) PROVE f[i] = f[i - 1] \o s[i] /\ Starts(f[i - 1], f[i])
    <2>1. i \in 1..Len(s) /\ i - 1 \in 1..Len(s) /\ i # 1
      BY <1>1
    <2>2. f[i] = f[i - 1] \o s[i] /\ f[i - 1] \in Seq(C) /\ s[i] \in Seq(C)
      BY <1>1, <1>2, <1>3, <2>1
    <2> QED
      BY <2>2, ConcatStarts
  <1>5. ASSUME NEW n \in 1..Len(s), NEW i \in n..Len(s) PROVE Starts(f[n], f[i])
    <2>1. PICK S : S = {j \in n..Len(s) : Starts(f[n], f[j])}
      OBVIOUS
    <2>2. n \in S
      BY <1>1, <1>3, <2>1 DEF Starts
    <2>3. ASSUME NEW j \in n..Len(s), j \in S, j < Len(s) PROVE j + 1 \in S
      <3>1. j + 1 \in 2..Len(s) /\ j + 1 \in n..Len(s) /\ (j + 1) - 1 = j
        BY <1>1, <2>3
      <3>2. Starts(f[n], f[j]) /\ Starts(f[j], f[j + 1])
        BY <1>4, <2>1, <2>3, <3>1
      <3>3. f[n] \in Seq(C) /\ f[j] \in Seq(C) /\ f[j + 1] \in Seq(C)
        BY <1>1, <1>3, <3>1
      <3>4. Starts(f[n], f[j + 1])
        BY <3>2, <3>3, StartsTransitive
      <3> QED
        BY <2>1, <3>1, <3>4
    <2>4. n \in Nat /\ Len(s) \in Nat
      BY <1>1
    <2>5. \A j \in n..Len(s) : j \in S
      BY <2>2, <2>3, <2>4, CountUp
    <2> QED
      BY <2>1, <2>5
  <1>6. Len(s) > 0 => f[1] = s[1]
    BY <1>1, <1>2
  <1>7. \A i \in 2..Len(s) : f[i] = f[i - 1] \o s[i]
    BY <1>4
  <1> QED
    BY <1>3, <1>5, <1>6, <1>7

\* The concatenation of the first n sequences is what all of them make up to there.
LEMMA FlattenOfFirst ==
  ASSUME NEW C, NEW s \in Seq(Seq(C)), NEW f, Concatenates(f, s), NEW n \in 1..Len(s),
         NEW d \in Seq(Seq(C)), Len(d) = n, \A i \in 1..n : d[i] = s[i]
  PROVE  FlattenSeq(d) = f[n]
  <1>1. Len(s) \in Nat \ {0} /\ Len(d) \in Nat \ {0}
    OBVIOUS
  <1>2. PICK g : Concatenates(g, d) /\ FlattenSeq(d) = g[n]
    BY <1>1, FlattenIsLast
  <1>3. /\ \A i \in 1..Len(s) : f[i] \in Seq(C)
        /\ Len(s) > 0 => f[1] = s[1]
        /\ \A i \in 2..Len(s) : f[i] = f[i - 1] \o s[i]
        /\ \A m \in 1..Len(s) : \A i \in m..Len(s) : Starts(f[m], f[i])
    BY ConcatenationGrows
  <1>4. /\ \A i \in 1..Len(d) : g[i] \in Seq(C)
        /\ Len(d) > 0 => g[1] = d[1]
        /\ \A i \in 2..Len(d) : g[i] = g[i - 1] \o d[i]
        /\ \A m \in 1..Len(d) : \A i \in m..Len(d) : Starts(g[m], g[i])
    BY <1>2, ConcatenationGrows
  <1>5. g[n] = f[n]
    <2>1. PICK S : S = {j \in 1..n : g[j] = f[j]}
      OBVIOUS
    <2>2. 1 \in S
      BY <1>1, <1>3, <1>4, <2>1
    <2>3. ASSUME NEW j \in 1..n, j \in S, j < n PROVE j + 1 \in S
      <3>1. j + 1 \in 2..n /\ j + 1 \in 2..Len(s) /\ (j + 1) - 1 = j
        BY <1>1, <2>3
      <3>2. f[j + 1] = f[j] \o s[j + 1]
        BY <1>3, <3>1
      <3>3. g[j + 1] = g[j] \o d[j + 1] /\ d[j + 1] = s[j + 1] /\ j + 1 \in 1..n
        <4>1. j + 1 \in 2..Len(d) /\ j + 1 \in 1..n
          BY <1>1, <3>1
        <4>2. g[j + 1] = g[(j + 1) - 1] \o d[j + 1]
          BY <1>4, <4>1
        <4> QED
          BY <3>1, <4>1, <4>2
      <3> QED
        BY <2>1, <2>3, <3>2, <3>3
    <2>4. n \in Nat /\ n \in 1..n
      BY <1>1
    <2>5. \A j \in 1..n : j \in S
      BY <2>2, <2>3, <2>4, CountUp
    <2> QED
      BY <2>1, <2>4, <2>5
  <1> QED
    BY <1>2, <1>5

\* The concatenation of the first n sequences, and then the next one, begins that of all.
LEMMA FlattenBegins ==
  ASSUME NEW C, NEW s \in Seq(Seq(C)), NEW n \in 1..Len(s), NEW d \in Seq(Seq(C)),
         Len(d) = n, \A i \in 1..n : d[i] = s[i]
  PROVE  /\ FlattenSeq(s) \in Seq(C) /\ FlattenSeq(d) \in Seq(C)
         /\ Starts(d[1], FlattenSeq(d))
         /\ n < Len(s) => Starts(FlattenSeq(d) \o s[n + 1], FlattenSeq(s))
  <1>1. Len(s) \in Nat \ {0} /\ Len(d) \in Nat \ {0}
    OBVIOUS
  <1>2. PICK f : Concatenates(f, s) /\ FlattenSeq(s) = f[Len(s)]
    BY <1>1, FlattenIsLast
  <1>3. PICK g : Concatenates(g, d) /\ FlattenSeq(d) = g[n]
    BY <1>1, FlattenIsLast
  <1>4. /\ \A i \in 1..Len(s) : f[i] \in Seq(C)
        /\ Len(s) > 0 => f[1] = s[1]
        /\ \A i \in 2..Len(s) : f[i] = f[i - 1] \o s[i]
        /\ \A m \in 1..Len(s) : \A i \in m..Len(s) : Starts(f[m], f[i])
    BY <1>2, ConcatenationGrows
  <1>5. /\ \A i \in 1..Len(d) : g[i] \in Seq(C)
        /\ Len(d) > 0 => g[1] = d[1]
        /\ \A i \in 2..Len(d) : g[i] = g[i - 1] \o d[i]
        /\ \A m \in 1..Len(d) : \A i \in m..Len(d) : Starts(g[m], g[i])
    BY <1>3, ConcatenationGrows
  <1>6. g[n] = f[n]
    BY <1>2, <1>3, FlattenOfFirst
  <1>7. ASSUME n < Len(s) PROVE Starts(g[n] \o s[n + 1], f[Len(s)])
    <2>1. n + 1 \in 2..Len(s) /\ (n + 1) - 1 = n /\ n + 1 \in 1..Len(s) /\ Len(s) \in (n + 1)..Len(s)
      BY <1>1, <1>7
    <2>2. f[n + 1] = f[n] \o s[n + 1] /\ Starts(f[n + 1], f[Len(s)])
      BY <1>4, <2>1
    <2> QED
      BY <1>6, <2>2
  <1>8. n \in 1..n /\ Len(s) \in 1..Len(s)
    BY <1>1
  <1> QED
    BY <1>1, <1>2, <1>3, <1>4, <1>5, <1>7, <1>8

\* The concatenation of all is that of all but the last, and the last.
LEMMA FlattenLast ==
  ASSUME NEW C, NEW q \in Parts(C)
  PROVE  /\ FlattenSeq(q) \in Seq(C)
         /\ Len(q) = 1 => FlattenSeq(q) = q[1]
         /\ \A d \in Parts(C) :
              Len(q) = Len(d) + 1 /\ (\A i \in 1..Len(d) : d[i] = q[i])
                => FlattenSeq(q) = FlattenSeq(d) \o q[Len(q)]
  <1>1. q \in Seq(Seq(C)) /\ Len(q) \in Nat \ {0}
    BY DEF Parts
  <1>2. PICK f : Concatenates(f, q) /\ FlattenSeq(q) = f[Len(q)]
    BY <1>1, FlattenIsLast
  <1>3. /\ \A i \in 1..Len(q) : f[i] \in Seq(C)
        /\ Len(q) > 0 => f[1] = q[1]
        /\ \A i \in 2..Len(q) : f[i] = f[i - 1] \o q[i]
        /\ \A m \in 1..Len(q) : \A i \in m..Len(q) : Starts(f[m], f[i])
    BY <1>1, <1>2, ConcatenationGrows
  <1>4. ASSUME NEW d \in Parts(C), Len(q) = Len(d) + 1, \A i \in 1..Len(d) : d[i] = q[i]
        PROVE  FlattenSeq(q) = FlattenSeq(d) \o q[Len(q)]
    <2>1. d \in Seq(Seq(C)) /\ Len(d) \in Nat \ {0}
      BY DEF Parts
    <2>2. PICK n \in 1..Len(q) : n = Len(d) /\ Len(q) \in 2..Len(q) /\ Len(q) - 1 = n
      <3>1. PICK m \in Nat \ {0} : m = Len(d)
        BY <2>1
      <3>2. Len(q) = m + 1
        BY <1>4, <3>1
      <3> QED
        BY <3>1, <3>2
    <2>3. FlattenSeq(d) = f[n]
      <3>1. Len(d) = n /\ \A i \in 1..n : d[i] = q[i]
        BY <1>4, <2>2
      <3> QED
        BY <1>1, <1>2, <2>1, <3>1, FlattenOfFirst
    <2>4. f[Len(q)] = f[n] \o q[Len(q)]
      BY <1>3, <2>2
    <2> QED
      BY <1>2, <2>3, <2>4
  <1>5. FlattenSeq(q) \in Seq(C) /\ (Len(q) = 1 => FlattenSeq(q) = q[1])
    <2>1. Len(q) \in 1..Len(q)
      BY <1>1
    <2>2. f[Len(q)] \in Seq(C) /\ f[1] = q[1]
      BY <1>1, <1>3, <2>1
    <2> QED
      BY <1>2, <2>2
  <1> QED
    BY <1>4, <1>5

LEMMA TailOf ==
  ASSUME NEW C, NEW b \in Seq(C), Len(b) > 0
  PROVE  Tail(b) \in Seq(C) /\ Len(Tail(b)) = Len(b) - 1 /\ \A i \in 1..(Len(b) - 1) : Tail(b)[i] = b[i + 1]
  <1>1. b # <<>>
    OBVIOUS
  <1> QED
    BY <1>1

LEMMA FirstOf ==
  ASSUME NEW T, NEW p \in Seq(T), NEW n \in 1..Len(p)
  PROVE  SubSeq(p, 1, n) \in Seq(T) /\ Len(SubSeq(p, 1, n)) = n /\ \A i \in 1..n : SubSeq(p, 1, n)[i] = p[i]
  OBVIOUS

LEMMA MapToSeq ==
  ASSUME NEW T, NEW n \in Nat, NEW f \in [1..n -> T]
  PROVE  f \in Seq(T) /\ Len(f) = n
  OBVIOUS

LEMMA SlashFirst ==
  ASSUME NEW C, Slash \in C, NEW name \in Seq(C)
  PROVE  /\ <<Slash>> \o name \in Seq(C) /\ Len(<<Slash>> \o name) = Len(name) + 1
         /\ (<<Slash>> \o name)[1] = Slash
  OBVIOUS

\* Beginnings remain beginnings when both lose their first character.
LEMMA TailStarts ==
  ASSUME NEW C, NEW a \in Seq(C), NEW x \in Seq(C), NEW b \in Seq(C),
         Len(a) > 0, Len(x) > 0, Starts(a \o x, b)
  PROVE  Starts(Tail(a) \o <<x[1]>>, Tail(b))
  <1>1. Len(a) \in Nat /\ Len(x) \in Nat /\ Len(b) \in Nat /\ x[1] \in C
    OBVIOUS
  <1>2. /\ Len(a \o x) = Len(a) + Len(x) /\ \A i \in 1..Len(a) : (a \o x)[i] = a[i]
        /\ \A i \in 1..Len(x) : (a \o x)[Len(a) + i] = x[i]
    BY ConcatStarts
  <1>3. Len(a) + Len(x) <= Len(b) /\ \A i \in 1..(Len(a) + Len(x)) : (a \o x)[i] = b[i]
    BY <1>2 DEF Starts
  <1>4. PICK v \in Seq(C) : v = Tail(b) /\ Len(v) = Len(b) - 1 /\ \A i \in 1..(Len(b) - 1) : v[i] = b[i + 1]
    <2>1. Len(b) > 0
      BY <1>1, <1>3
    <2> QED
      BY <2>1, TailOf
  <1>5. PICK t \in Seq(C) : t = Tail(a) /\ Len(t) = Len(a) - 1 /\ \A i \in 1..(Len(a) - 1) : t[i] = a[i + 1]
    BY TailOf
  <1>6. PICK e \in Seq(C) : e = <<x[1]>> /\ Len(e) = 1 /\ e[1] = x[1]
    <2>1. <<x[1]>> \in Seq(C) /\ Len(<<x[1]>>) = 1 /\ <<x[1]>>[1] = x[1]
      BY <1>1
    <2> QED
      BY <2>1, Zenon
  <1>7. /\ Len(t \o e) = Len(t) + Len(e) /\ \A i \in 1..Len(t) : (t \o e)[i] = t[i]
        /\ \A i \in 1..Len(e) : (t \o e)[Len(t) + i] = e[i]
    BY ConcatStarts
  <1>8. ASSUME NEW i \in 1..Len(a) PROVE (t \o e)[i] = v[i]
    <2>1. i + 1 \in 1..(Len(a) + Len(x)) /\ i \in 1..(Len(b) - 1)
      BY <1>1, <1>3
    <2>2. v[i] = (a \o x)[i + 1]
      BY <1>3, <1>4, <2>1
    <2>3. CASE i # Len(a)
      <3>1. i \in 1..Len(t) /\ i \in 1..(Len(a) - 1) /\ i + 1 \in 1..Len(a)
        <4>1. Len(t) = Len(a) - 1 /\ Len(a) \in Nat
          BY <1>1, <1>5
        <4> QED
          BY <2>3, <4>1
      <3> QED
        BY <1>2, <1>5, <1>7, <2>2, <3>1
    <2>4. CASE i = Len(a)
      <3>1. i = Len(t) + 1 /\ i + 1 = Len(a) + 1 /\ 1 \in 1..Len(e) /\ 1 \in 1..Len(x)
        BY <1>1, <1>5, <1>6, <2>4
      <3>2. (t \o e)[i] = x[1] /\ (a \o x)[i + 1] = x[1]
        BY <1>2, <1>6, <1>7, <3>1
      <3> QED
        BY <2>2, <3>2
    <2> QED
      BY <2>3, <2>4
  <1>9. Len(t \o e) = Len(a) /\ Len(a) <= Len(v)
    BY <1>1, <1>3, <1>4, <1>5, <1>6, <1>7
  <1> QED
    BY <1>4, <1>5, <1>6, <1>8, <1>9 DEF Starts

\* IsPrefix, element by element.
LEMMA PrefixStarts ==
  ASSUME NEW C, NEW a \in Seq(C), NEW b \in Seq(C)
  PROVE  IsPrefix(a, b) <=> Starts(a, b)
  <1>1. ASSUME Len(a) <= Len(b) PROVE SubSeq(b, 1, Len(a)) \in Seq(C) /\ Len(SubSeq(b, 1, Len(a))) = Len(a)
    BY <1>1
  <1>2. SubSeq(a, 1, Len(a)) = a
    OBVIOUS
  <1>3. ASSUME Starts(a, b) PROVE IsPrefix(a, b)
    BY <1>2, <1>3 DEF Starts, IsPrefix
  <1>4. ASSUME IsPrefix(a, b) PROVE Starts(a, b)
    <2>1. Len(a) <= Len(b) /\ a = SubSeq(b, 1, Len(a))
      BY <1>2, <1>4 DEF IsPrefix
    <2>2. \A i \in 1..Len(a) : SubSeq(b, 1, Len(a))[i] = b[i]
      BY <2>1
    <2> QED
      BY <2>1, <2>2 DEF Starts
  <1> QED
    BY <1>3, <1>4

\* The text of a directory, with a slash, begins the text of every path below it.
LEMMA DirTextBegins ==
  ASSUME NEW C, Slash \in C, NEW p \in Seq(Seq(C)), NEW n \in 1..Len(p)
  PROVE  /\ Text(p) \in Seq(C) /\ DirText(SubSeq(p, 1, n)) \in Seq(C)
         /\ n < Len(p) => Starts(DirText(SubSeq(p, 1, n)), Text(p))
  <1>1. PICK q \in Seq(Seq(C)) : q = SubSeq(p, 1, n) /\ Len(q) = n /\ \A i \in 1..n : q[i] = p[i]
    BY ZenonT(40), FirstOf
  <1>2. Len(p) \in Nat \ {0} /\ n \in Nat /\ n <= Len(p) /\ \A i \in 1..Len(p) : p[i] \in Seq(C)
    OBVIOUS
  <1>3. PICK s \in Seq(Seq(C)) : s = [i \in 1..Len(p) |-> <<Slash>> \o p[i]] /\ Len(s) = Len(p)
    <2>1. [i \in 1..Len(p) |-> <<Slash>> \o p[i]] \in [1..Len(p) -> Seq(C)]
      BY <1>2, SlashFirst
    <2> QED
      BY <1>2, <2>1, MapToSeq
  <1>4. PICK d \in Seq(Seq(C)) : d = [i \in 1..Len(q) |-> <<Slash>> \o q[i]] /\ Len(d) = n
    <2>1. [i \in 1..Len(q) |-> <<Slash>> \o q[i]] \in [1..n -> Seq(C)]
      BY <1>1, <1>2, SlashFirst
    <2> QED
      BY <1>2, <2>1, MapToSeq
  <1>5. \A i \in 1..n : d[i] = s[i]
    BY <1>1, <1>2, <1>3, <1>4
  <1>6. /\ FlattenSeq(s) \in Seq(C) /\ FlattenSeq(d) \in Seq(C)
        /\ Starts(d[1], FlattenSeq(d))
        /\ n < Len(p) => Starts(FlattenSeq(d) \o s[n + 1], FlattenSeq(s))
    <2>1. n \in 1..Len(s)
      BY <1>3
    <2>2. /\ FlattenSeq(s) \in Seq(C) /\ FlattenSeq(d) \in Seq(C)
          /\ Starts(d[1], FlattenSeq(d))
          /\ n < Len(s) => Starts(FlattenSeq(d) \o s[n + 1], FlattenSeq(s))
      BY ZenonT(40), <1>4, <1>5, <2>1, FlattenBegins
    <2> QED
      BY <1>3, <2>2
  <1>7. p # <<>> /\ q # <<>>
    <2>1. Len(p) # 0 /\ Len(q) # 0
      BY <1>1, <1>2
    <2> QED
      BY <2>1
  <1>8. Text(p) = Tail(FlattenSeq(s)) /\ Text(q) = Tail(FlattenSeq(d))
    BY <1>3, <1>4, <1>7 DEF Text
  <1>9. d[1] \in Seq(C) /\ Len(d[1]) > 0 /\ s[1] \in Seq(C) /\ Len(s[1]) > 0
    BY <1>1, <1>2, <1>3, <1>4, SlashFirst
  <1>10. Len(FlattenSeq(d)) > 0 /\ Len(FlattenSeq(s)) > 0
    <2>1. Len(p) \in 1..Len(s) /\ \A i \in 1..Len(p) : s[i] = s[i]
      BY <1>2, <1>3
    <2>2. Starts(s[1], FlattenSeq(s))
      BY <1>3, <2>1, FlattenBegins
    <2>3. Len(s[1]) <= Len(FlattenSeq(s)) /\ Len(d[1]) <= Len(FlattenSeq(d))
      BY <1>6, <2>2 DEF Starts
    <2>4. Len(s[1]) \in Nat /\ Len(d[1]) \in Nat /\ Len(FlattenSeq(s)) \in Nat /\ Len(FlattenSeq(d)) \in Nat
      BY SMTT(60), <1>6, <1>9
    <2> QED
      BY SMTT(60), <1>9, <2>3, <2>4
  <1>11. Text(p) \in Seq(C) /\ DirText(q) \in Seq(C)
    BY <1>6, <1>8, <1>10, TailOf DEF DirText
  <1>12. ASSUME n < Len(p) PROVE Starts(DirText(q), Text(p))
    <2>1. s[n + 1] \in Seq(C) /\ Len(s[n + 1]) > 0 /\ s[n + 1][1] = Slash
      BY <1>2, <1>3, <1>12, SlashFirst
    <2>2. Starts(Tail(FlattenSeq(d)) \o <<Slash>>, Tail(FlattenSeq(s)))
      BY <1>6, <1>10, <1>12, <2>1, TailStarts
    <2> QED
      BY <1>8, <2>2 DEF DirText
  <1> QED
    BY <1>1, <1>11, <1>12

\* Two strings that begin the same string begin one another.
LEMMA StartsComparable ==
  ASSUME NEW C, NEW a \in Seq(C), NEW b \in Seq(C), NEW t \in Seq(C), Starts(a, t), Starts(b, t)
  PROVE  Starts(a, b) \/ Starts(b, a)
  <1>1. Len(a) \in Nat /\ Len(b) \in Nat
    OBVIOUS
  <1>2. CASE Len(a) <= Len(b)
    BY <1>1, <1>2 DEF Starts
  <1>3. CASE Len(b) <= Len(a)
    BY <1>1, <1>3 DEF Starts
  <1> QED
    BY <1>1, <1>2, <1>3

\* The walk enters every directory above a path that matches (LocalStore::list).
LEMMA PruningKeepsPaths ==
  ASSUME NEW C, Slash \in C, NEW p \in Seq(Seq(C)), NEW prefix \in Seq(C),
         MatchesPrefix(prefix, Text(p)), NEW n \in 1..(Len(p) - 1)
  PROVE  KeepDir(prefix, DirText(SubSeq(p, 1, n)))
  <1>1. /\ Text(p) \in Seq(C) /\ DirText(SubSeq(p, 1, n)) \in Seq(C)
        /\ Starts(DirText(SubSeq(p, 1, n)), Text(p))
    <2>1. n \in 1..Len(p) /\ n < Len(p)
      OBVIOUS
    <2> QED
      BY <2>1, DirTextBegins
  <1>2. Starts(prefix, Text(p))
    BY <1>1, PrefixStarts DEF MatchesPrefix
  <1>3. Starts(prefix, DirText(SubSeq(p, 1, n))) \/ Starts(DirText(SubSeq(p, 1, n)), prefix)
    BY <1>1, <1>2, StartsComparable
  <1> QED
    BY <1>1, <1>3, PrefixStarts DEF KeepDir

(***************************************************************************)
(* The components of a string, joined by slashes, are the string.           *)
(***************************************************************************)
Slashed(q) == [i \in 1..Len(q) |-> <<Slash>> \o q[i]]

\* Every component gets its slash.
LEMMA SlashedParts ==
  ASSUME NEW C, Slash \in C, NEW q \in Parts(C)
  PROVE  /\ Slashed(q) \in Parts(C) /\ Len(Slashed(q)) = Len(q)
         /\ \A i \in 1..Len(q) : Slashed(q)[i] = <<Slash>> \o q[i]
  <1>1. Len(q) \in Nat \ {0} /\ \A i \in 1..Len(q) : q[i] \in Seq(C)
    BY DEF Parts
  <1>2. Slashed(q) \in [1..Len(q) -> Seq(C)]
    BY <1>1, SlashFirst DEF Slashed
  <1>3. Slashed(q) \in Seq(Seq(C)) /\ Len(Slashed(q)) = Len(q)
    BY <1>1, <1>2, MapToSeq
  <1> QED
    BY <1>1, <1>3 DEF Parts, Slashed

LEMMA ConcatAppend ==
  ASSUME NEW C, NEW a \in Seq(C), NEW b \in Seq(C), NEW ch \in C
  PROVE  /\ Append(b, ch) \in Seq(C) /\ a \o Append(b, ch) = Append(a \o b, ch)
         /\ a \o (<<ch>> \o <<>>) = Append(a, ch)
  OBVIOUS

\* A step of split adds its character to the joined text.
LEMMA JoinedGrows ==
  ASSUME NEW C, Slash \in C, NEW q \in Parts(C), NEW ch \in C
  PROVE  FlattenSeq(Slashed(AddChar(q, ch))) = Append(FlattenSeq(Slashed(q)), ch)
  <1>1. PICK r \in Parts(C) : r = AddChar(q, ch)
    BY AddCharGrows
  <1>2. PICK x \in Parts(C) : /\ x = Slashed(q) /\ Len(x) = Len(q)
                             /\ \A i \in 1..Len(q) : x[i] = <<Slash>> \o q[i]
    BY SlashedParts
  <1>3. PICK y \in Parts(C) : /\ y = Slashed(r) /\ Len(y) = Len(r)
                             /\ \A i \in 1..Len(r) : y[i] = <<Slash>> \o r[i]
    BY SlashedParts
  <1>4. /\ Len(q) \in Nat \ {0} /\ \A i \in 1..Len(q) : q[i] \in Seq(C)
        /\ Len(r) \in Nat \ {0} /\ FlattenSeq(x) \in Seq(C) /\ <<Slash>> \in Seq(C)
    BY FlattenLast DEF Parts
  <1>5. CASE ch = Slash
    <2>1. Len(r) = Len(q) + 1 /\ r[Len(q) + 1] = <<>> /\ \A i \in 1..Len(q) : r[i] = q[i]
      BY <1>1, <1>5, AddCharGrows
    <2>2. Len(y) = Len(x) + 1 /\ y[Len(y)] = <<Slash>> \o <<>> /\ \A i \in 1..Len(x) : x[i] = y[i]
      <3>1. PICK m \in Nat \ {0} : m = Len(q)
        BY <1>4
      <3>2. Len(x) = m /\ Len(y) = m + 1 /\ m + 1 \in 1..Len(r)
        BY <1>2, <1>3, <2>1, <3>1
      <3>3. y[m + 1] = <<Slash>> \o r[m + 1] /\ r[m + 1] = <<>>
        BY <1>3, <2>1, <3>1, <3>2
      <3>4. ASSUME NEW i \in 1..m PROVE x[i] = y[i]
        <4>1. i \in 1..Len(q) /\ i \in 1..Len(r) /\ r[i] = q[i]
          BY <2>1, <3>1, <3>4
        <4> QED
          BY <1>2, <1>3, <4>1
      <3> QED
        BY <3>2, <3>3, <3>4
    <2>3. FlattenSeq(y) = FlattenSeq(x) \o (<<Slash>> \o <<>>)
      BY <2>2, FlattenLast
    <2>4. FlattenSeq(x) \o (<<Slash>> \o <<>>) = Append(FlattenSeq(x), ch)
      BY <1>4, <1>5, ConcatAppend
    <2> QED
      BY <1>1, <1>2, <1>3, <2>3, <2>4
  <1>6. CASE ch # Slash
    <2>1. PICK m \in Nat \ {0} : m = Len(q)
      BY <1>4
    <2>2. /\ Len(r) = m /\ r[m] = Append(q[m], ch)
          /\ \A i \in 1..(m - 1) : r[i] = q[i]
      <3>1. /\ Len(r) = Len(q) /\ r[Len(q)] = Append(q[Len(q)], ch)
            /\ \A i \in 1..(Len(q) - 1) : r[i] = q[i]
        BY <1>1, <1>6, AddCharGrows, Zenon
      <3> QED
        BY <2>1, <3>1
    <2>3. PICK v \in Seq(C) : v = q[m]
      BY <1>4, <2>1
    <2>4. Append(v, ch) \in Seq(C) /\ <<Slash>> \o v \in Seq(C)
          /\ <<Slash>> \o Append(v, ch) = Append(<<Slash>> \o v, ch)
      BY <1>4, ConcatAppend, ConcatStarts
    <2>5. x[m] = <<Slash>> \o v /\ y[m] = Append(<<Slash>> \o v, ch) /\ Len(x) = m /\ Len(y) = m
      <3>1. m \in 1..Len(q) /\ m \in 1..Len(r)
        BY <2>1, <2>2
      <3>2. x[m] = <<Slash>> \o q[m] /\ y[m] = <<Slash>> \o r[m]
        BY <1>2, <1>3, <3>1
      <3> QED
        BY <1>2, <1>3, <2>1, <2>2, <2>3, <2>4, <3>2
    <2>6. CASE m = 1
      <3>1. FlattenSeq(x) = <<Slash>> \o v /\ FlattenSeq(y) = Append(<<Slash>> \o v, ch)
        BY <2>5, <2>6, FlattenLast
      <3> QED
        BY <1>1, <1>2, <1>3, <3>1
    <2>7. CASE m > 1
      <3>1. PICK d : d = SubSeq(x, 1, m - 1)
        OBVIOUS
      <3>2. d \in Parts(C) /\ Len(d) = m - 1 /\ \A i \in 1..(m - 1) : d[i] = x[i]
        <4>1. x \in Seq(Seq(C)) /\ m - 1 \in 1..Len(x)
          BY <1>2, <2>1, <2>7 DEF Parts
        <4>2. d \in Seq(Seq(C)) /\ Len(d) = m - 1 /\ \A i \in 1..(m - 1) : d[i] = x[i]
          BY ZenonT(40), <3>1, <4>1, FirstOf
        <4> QED
          BY <2>1, <2>7, <4>2 DEF Parts
      <3>3. ASSUME NEW i \in 1..Len(d) PROVE d[i] = x[i] /\ d[i] = y[i]
        <4>1. i \in 1..(m - 1) /\ i \in 1..Len(q) /\ i \in 1..Len(r)
          BY <2>1, <2>2, <3>2
        <4>2. d[i] = x[i] /\ r[i] = q[i]
          BY <2>2, <3>2, <4>1
        <4> QED
          BY <1>2, <1>3, <4>1, <4>2
      <3>4. Len(x) = Len(d) + 1 /\ Len(y) = Len(d) + 1 /\ FlattenSeq(d) \in Seq(C)
        <4>1. Len(x) = Len(d) + 1 /\ Len(y) = Len(d) + 1
          BY <2>1, <2>5, <3>2
        <4> QED
          BY <3>2, <4>1, FlattenLast
      <3>5. FlattenSeq(x) = FlattenSeq(d) \o (<<Slash>> \o v)
        <4>1. FlattenSeq(x) = FlattenSeq(d) \o x[Len(x)]
          BY <3>2, <3>3, <3>4, FlattenLast
        <4> QED
          BY <2>5, <4>1
      <3>6. FlattenSeq(y) = FlattenSeq(d) \o Append(<<Slash>> \o v, ch)
        <4>1. FlattenSeq(y) = FlattenSeq(d) \o y[Len(y)]
          BY <3>2, <3>3, <3>4, FlattenLast
        <4> QED
          BY <2>5, <4>1
      <3>7. FlattenSeq(y) = Append(FlattenSeq(x), ch)
        BY <2>4, <3>4, <3>5, <3>6, ConcatAppend
      <3> QED
        BY <1>1, <1>2, <1>3, <3>7
    <2> QED
      BY <2>1, <2>6, <2>7
  <1> QED
    BY <1>5, <1>6

\* The components, each after a slash, are the string after a slash.
LEMMA SplitJoins ==
  ASSUME NEW C, Slash \in C, NEW s \in Seq(C)
  PROVE  FlattenSeq(Slashed(Split(s))) = <<Slash>> \o s
  <1>1. PICK p : /\ p[0] = << <<>> >>
                 /\ \A n \in 0..Len(s) : p[n] \in Parts(C)
                 /\ \A n \in 1..Len(s) : p[n] = AddChar(p[n - 1], s[n])
                 /\ Split(s) = p[Len(s)]
    BY SplitSteps DEF Splits
  <1>2. Len(s) \in Nat /\ \A n \in 1..Len(s) : s[n] \in C
    OBVIOUS
  <1> DEFINE Begun(n) == FlattenSeq(Slashed(p[n])) = <<Slash>> \o SubSeq(s, 1, n)
  <1>3. PICK T : T = {n \in 0..Len(s) : Begun(n)}
    OBVIOUS
  <1>4. 0 \in T
    <2>1. PICK q \in Parts(C) : q = p[0]
      <3>1. 0 \in 0..Len(s)
        BY <1>2
      <3> QED
        BY <1>1, <3>1
    <2>2. Len(q) = 1 /\ q[1] = <<>>
      BY <1>1, <2>1
    <2>3. /\ Slashed(q) \in Parts(C) /\ Len(Slashed(q)) = 1
          /\ Slashed(q)[1] = <<Slash>> \o <<>>
      BY <2>2, SlashedParts
    <2>4. FlattenSeq(Slashed(q)) = <<Slash>> \o <<>>
      BY <2>3, FlattenLast
    <2>5. SubSeq(s, 1, 0) = <<>>
      OBVIOUS
    <2> QED
      BY <1>2, <1>3, <2>1, <2>4, <2>5
  <1>5. ASSUME NEW n \in 0..Len(s), n \in T, n < Len(s) PROVE n + 1 \in T
    <2>1. n + 1 \in 1..Len(s) /\ (n + 1) - 1 = n /\ n + 1 \in 0..Len(s) /\ n \in Nat
      BY <1>2, <1>5
    <2>2. Begun(n) /\ p[n] \in Parts(C) /\ s[n + 1] \in C /\ p[n + 1] = AddChar(p[n], s[n + 1])
      BY <1>1, <1>2, <1>3, <1>5, <2>1
    <2>3. FlattenSeq(Slashed(p[n + 1])) = Append(<<Slash>> \o SubSeq(s, 1, n), s[n + 1])
      BY <2>2, JoinedGrows
    <2>4. SubSeq(s, 1, n) \in Seq(C) /\ SubSeq(s, 1, n + 1) = Append(SubSeq(s, 1, n), s[n + 1])
      BY <2>1, <1>2
    <2>5. <<Slash>> \in Seq(C)
      OBVIOUS
    <2>6. <<Slash>> \o SubSeq(s, 1, n + 1) = Append(<<Slash>> \o SubSeq(s, 1, n), s[n + 1])
      BY <2>2, <2>4, <2>5, ConcatAppend
    <2>7. Begun(n + 1)
      BY <2>3, <2>6
    <2> QED
      BY <1>3, <2>1, <2>7
  <1>6. \A n \in 0..Len(s) : n \in T
    <2> HIDE DEF Begun
    <2> QED
      BY <1>2, <1>4, <1>5, CountUp
  <1>7. Begun(Len(s))
    BY <1>2, <1>3, <1>6
  <1>8. SubSeq(s, 1, Len(s)) = s
    OBVIOUS
  <1> QED
    BY <1>1, <1>7, <1>8

\* The text of the components of a string is the string.
LEMMA TextOfSplit ==
  ASSUME NEW C, Slash \in C, NEW s \in Seq(C)
  PROVE  Text(Split(s)) = s
  <1>1. PICK p : (\A n \in 0..Len(s) : p[n] \in Parts(C)) /\ Split(s) = p[Len(s)]
    BY SplitSteps DEF Splits
  <1>2. PICK q \in Parts(C) : q = Split(s)
    BY <1>1
  <1>3. q # <<>>
    BY DEF Parts
  <1>4. Text(q) = Tail(FlattenSeq(Slashed(q)))
    BY <1>3 DEF Text, Slashed
  <1>5. FlattenSeq(Slashed(q)) = <<Slash>> \o s
    BY <1>2, SplitJoins
  <1>6. Tail(<<Slash>> \o s) = s
    OBVIOUS
  <1> QED
    BY <1>2, <1>4, <1>5, <1>6

(***************************************************************************)
(* The path a string denotes, component by component.                       *)
(***************************************************************************)
\* r[n] is where the first n components lead
Descends(r, C, q) ==
  /\ r[0] = <<>>
  /\ \A n \in 0..Len(q) : r[n] \in Seq(Seq(C))
  /\ \A n \in 1..Len(q) : r[n] = Descend(r[n - 1], q[n])

\* Sequences with the same elements are the same.
LEMMA SameElements ==
  ASSUME NEW D, NEW p \in Seq(D), NEW q \in Seq(D), Len(p) = Len(q),
         \A i \in 1..Len(q) : p[i] = q[i]
  PROVE  p = q
  OBVIOUS

LEMMA DescendTypes ==
  ASSUME NEW C, NEW path \in Seq(Seq(C)), NEW name \in Seq(C)
  PROVE  Descend(path, name) \in Seq(Seq(C))
  <1>1. Append(path, name) \in Seq(Seq(C))
    OBVIOUS
  <1> QED
    BY <1>1 DEF Descend

\* Denotes is the last of its steps.
LEMMA DenotesSteps ==
  ASSUME NEW C, NEW s \in Seq(C)
  PROVE  \E r : Descends(r, C, Split(s)) /\ Denotes(s) = r[Len(Split(s))]
  <1>1. PICK q \in Parts(C) : q = Split(s)
    <2>1. PICK p : (\A n \in 0..Len(s) : p[n] \in Parts(C)) /\ Split(s) = p[Len(s)]
      BY SplitSteps DEF Splits
    <2>2. Len(s) \in 0..Len(s)
      OBVIOUS
    <2> QED
      BY <2>1, <2>2
  <1>2. q \in Seq(Seq(C)) /\ Len(q) \in Nat /\ \A n \in 1..Len(q) : q[n] \in Seq(C)
    BY DEF Parts
  <1> DEFINE X == Seq(Seq(C))
             Y == Seq(C)
             F == [a \in X \X Y |-> Descend(a[1], a[2])]
             Iterates(g) == g = [S \in SUBSET (1..Len(q)) |->
                              IF S = {} THEN <<>> ELSE Descend(g[S \ {Max(S)}], q[Max(S)])]
             I == CHOOSE g : Iterates(g)
  <1>3. Denotes(s) = I[1..Len(q)]
    <2>1. DOMAIN q = 1..Len(q)
      BY <1>2
    <2> QED
      BY <1>1, <2>1, Zenon DEF Denotes, FoldLeft, MapThenFoldSet
  <1>4. F \in [X \X Y -> X] /\ <<>> \in X
    BY DescendTypes
  <1>5. \E g : Iterates(g)
    <2> HIDE DEF X, Y, F
    <2>1. q \in Seq(Y)
      BY <1>2 DEF Y
    <2>2. PICK g : Folds(g, F, <<>>, q) /\ \A S \in SUBSET (1..Len(q)) : g[S] \in X
      BY <1>4, <2>1, FoldExists
    <2>3. ASSUME NEW S \in SUBSET (1..Len(q)), S # {}
          PROVE  F[<<g[S \ {Max(S)}], q[Max(S)]>>] = Descend(g[S \ {Max(S)}], q[Max(S)])
      <3>1. Max(S) \in S
        BY <1>2, <2>3, MaxOfPage
      <3>2. PICK x : x = Max(S)
        OBVIOUS
      <3>3. S \ {x} \in SUBSET (1..Len(q)) /\ x \in 1..Len(q)
        BY <3>1, <3>2
      <3>4. g[S \ {x}] \in X /\ q[x] \in Y
        BY <1>2, <2>2, <3>3 DEF Y
      <3>5. F[<<g[S \ {x}], q[x]>>] = Descend(g[S \ {x}], q[x])
        BY <3>4 DEF F
      <3> QED
        BY <3>2, <3>5
    <2>4. [S \in SUBSET (1..Len(q)) |-> IF S = {} THEN <<>> ELSE F[<<g[S \ {Max(S)}], q[Max(S)]>>]]
            = [S \in SUBSET (1..Len(q)) |-> IF S = {} THEN <<>> ELSE Descend(g[S \ {Max(S)}], q[Max(S)])]
      BY <2>3, Zenon
    <2> QED
      BY <2>2, <2>4, Zenon DEF Folds
  <1>6. Iterates(I)
    BY <1>5, Zenon
  <1> HIDE DEF I
  <1>7. PICK r : r = [n \in 0..Len(q) |-> I[1..n]]
    OBVIOUS
  <1>8. r[0] = <<>>
    <2>1. 1..0 = {} /\ {} \in SUBSET (1..Len(q)) /\ 0 \in 0..Len(q)
      BY <1>2
    <2> QED
      BY <1>6, <1>7, <2>1
  <1>9. ASSUME NEW n \in 1..Len(q) PROVE r[n] = Descend(r[n - 1], q[n])
    <2>1. n \in Nat \ {0} /\ n \in 0..Len(q) /\ n - 1 \in 0..Len(q)
      BY <1>2
    <2>2. PICK S : S = 1..n
      OBVIOUS
    <2>3. S \in SUBSET (1..Len(q)) /\ n \in S
      BY <1>2, <2>1, <2>2
    <2>4. Max(S) = n /\ S \ {n} = 1..(n - 1)
      BY <2>1, <2>2, MaxUpto
    <2>5. I[S] = Descend(I[S \ {Max(S)}], q[Max(S)])
      BY <1>6, <2>3
    <2> QED
      BY <1>7, <2>1, <2>2, <2>4, <2>5
  <1>10. ASSUME NEW n \in 0..Len(q) PROVE r[n] \in Seq(Seq(C))
    <2>1. PICK T : T = {m \in 0..Len(q) : r[m] \in Seq(Seq(C))}
      OBVIOUS
    <2>2. 0 \in T
      <3>1. 0 \in 0..Len(q) /\ <<>> \in Seq(Seq(C))
        BY <1>2
      <3>2. r[0] \in Seq(Seq(C))
        BY ONLY <1>8, <3>1
      <3> QED
        BY ONLY <2>1, <3>1, <3>2
    <2>3. ASSUME NEW m \in 0..Len(q), m \in T, m < Len(q) PROVE m + 1 \in T
      <3>1. m + 1 \in 1..Len(q) /\ (m + 1) - 1 = m /\ m + 1 \in 0..Len(q)
        BY <1>2, <2>3
      <3>2. r[m] \in Seq(Seq(C)) /\ q[m + 1] \in Seq(C)
        BY <1>2, <2>1, <2>3, <3>1
      <3>3. r[m + 1] = Descend(r[m], q[m + 1])
        BY <1>9, <3>1
      <3>4. r[m + 1] \in Seq(Seq(C))
        BY <3>2, <3>3, DescendTypes
      <3> QED
        BY <2>1, <3>1, <3>4
    <2>4. \A m \in 0..Len(q) : m \in T
      BY <1>2, <2>2, <2>3, CountUp
    <2> QED
      BY <2>1, <2>4
  <1>11. r[Len(q)] = I[1..Len(q)]
    BY <1>2, <1>7
  <1>12. Descends(r, C, q)
    BY <1>8, <1>9, <1>10 DEF Descends
  <1> QED
    BY <1>1, <1>3, <1>11, <1>12

\* A string denotes a sequence of names.
LEMMA DenotesTypes ==
  ASSUME NEW C, NEW s \in Seq(C)
  PROVE  Denotes(s) \in Seq(Seq(C)) /\ Split(s) \in Parts(C)
  <1>1. Split(s) \in Parts(C)
    <2>1. PICK p : (\A n \in 0..Len(s) : p[n] \in Parts(C)) /\ Split(s) = p[Len(s)]
      BY SplitSteps DEF Splits
    <2>2. Len(s) \in 0..Len(s)
      OBVIOUS
    <2> QED
      BY <2>1, <2>2
  <1>2. PICK r : Descends(r, C, Split(s)) /\ Denotes(s) = r[Len(Split(s))]
    BY DenotesSteps
  <1>3. Len(Split(s)) \in 0..Len(Split(s))
    BY <1>1 DEF Parts
  <1> QED
    BY <1>1, <1>2, <1>3 DEF Descends

\* With no component to skip, the path is the components.
LEMMA DenotesComponents ==
  ASSUME NEW C, NEW s \in Seq(C), <<>> \notin ToSet(Split(s)), <<Dot>> \notin ToSet(Split(s))
  PROVE  Denotes(s) = Split(s)
  <1>1. PICK q \in Parts(C) : q = Split(s)
    BY DenotesTypes
  <1>2. PICK r : Descends(r, C, q) /\ Denotes(s) = r[Len(q)]
    BY <1>1, DenotesSteps
  <1>3. q \in Seq(Seq(C)) /\ Len(q) \in Nat /\ \A n \in 1..Len(q) : q[n] \in Seq(C)
    BY DEF Parts
  <1>4. ASSUME NEW n \in 1..Len(q) PROVE q[n] \notin {<<>>, <<Dot>>}
    <2>1. q[n] \in ToSet(q)
      BY <1>3 DEF ToSet
    <2> QED
      BY <1>1, <2>1
  <1> DEFINE Agrees(n) == Len(r[n]) = n /\ \A i \in 1..n : r[n][i] = q[i]
  <1>5. PICK T : T = {n \in 0..Len(q) : Agrees(n)}
    OBVIOUS
  <1>6. 0 \in T
    <2>1. Len(<<>>) = 0 /\ 0 \in 0..Len(q) /\ r[0] = <<>>
      BY <1>2, <1>3 DEF Descends
    <2> QED
      BY <1>5, <2>1
  <1>7. ASSUME NEW n \in 0..Len(q), n \in T, n < Len(q) PROVE n + 1 \in T
    <2>1. n + 1 \in 1..Len(q) /\ (n + 1) - 1 = n /\ n + 1 \in 0..Len(q) /\ n \in Nat
      BY <1>3, <1>7
    <2>2. PICK path \in Seq(Seq(C)) : path = r[n] /\ Len(path) = n /\ \A i \in 1..n : path[i] = q[i]
      BY <1>2, <1>5, <1>7 DEF Descends
    <2>3. PICK name \in Seq(C) : name = q[n + 1] /\ name \notin {<<>>, <<Dot>>}
      BY <1>3, <1>4, <2>1
    <2>4. r[n + 1] = Append(path, name)
      <3>1. r[n + 1] = Descend(r[n], q[n + 1])
        BY <1>2, <2>1 DEF Descends
      <3> QED
        BY <2>2, <2>3, <3>1 DEF Descend
    <2>5. /\ Len(Append(path, name)) = n + 1 /\ Append(path, name)[n + 1] = name
          /\ \A i \in 1..n : Append(path, name)[i] = path[i]
      BY <2>2
    <2>6. Agrees(n + 1)
      BY <2>1, <2>2, <2>3, <2>4, <2>5
    <2> QED
      BY <1>5, <2>1, <2>6
  <1>8. \A n \in 0..Len(q) : n \in T
    <2> HIDE DEF Agrees
    <2> QED
      BY <1>3, <1>6, <1>7, CountUp
  <1>9. Agrees(Len(q)) /\ r[Len(q)] \in Seq(Seq(C))
    <2>1. Len(q) \in 0..Len(q)
      BY <1>3
    <2>2. r[Len(q)] \in Seq(Seq(C))
      BY <1>2, <2>1, Zenon DEF Descends
    <2>3. Agrees(Len(q))
      <3> HIDE DEF Agrees
      <3> QED
        BY <1>5, <1>8, <2>1
    <2> QED
      BY <2>2, <2>3
  <1>10. r[Len(q)] = q
    <2>1. PICK path \in Seq(Seq(C)) : path = r[Len(q)]
      BY <1>9
    <2>2. Len(path) = Len(q) /\ \A i \in 1..Len(q) : path[i] = q[i]
      BY <1>9, <2>1
    <2>3. path = q
      BY ONLY <1>3, <2>2, path \in Seq(Seq(C)), SameElements
    <2> QED
      BY <2>1, <2>3
  <1> QED
    BY <1>1, <1>2, <1>10
==============================================================================
