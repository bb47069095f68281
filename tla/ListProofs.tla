------------------------------- MODULE ListProofs -------------------------------
(***************************************************************************)
(* Lemmas about lists, for the proofs about every part of the system that  *)
(* keeps one: induction over numbers and over sequences, what a function   *)
(* that takes in one element after the other returns, what a list          *)
(* comprehension keeps, lists in the order of another, and lists by score. *)
(*                                                                         *)
(* Induction is over a set, the set of those that have the property.       *)
(***************************************************************************)
EXTENDS Ranking, FiniteSetTheorems, SequenceTheorems, WellFoundedInduction, TLAPS

Below == {p \in Nat \X Nat : p[1] < p[2]}

LEMMA BelowWellFounded == IsWellFoundedOn(Below, Nat)
BY NatLessThanWellFounded DEF OpToRel, Below

\* Induction, over a set of numbers.
LEMMA Induct ==
    ASSUME NEW S, 0 \in S, \A n \in Nat : n \in S => n + 1 \in S
    PROVE  Nat \subseteq S
<1>1. IsWellFoundedOn(Below, Nat)
  BY BelowWellFounded
<1>2. SUFFICES ASSUME Nat \ S # {} PROVE FALSE
  OBVIOUS
<1>3. PICK n \in Nat \ S : \A m \in Nat \ S : ~(<<m, n>> \in Below)
  BY <1>1, <1>2, WFMin
<1>4. n - 1 \in Nat /\ n - 1 < n /\ (n - 1) + 1 = n
  BY <1>3
<1>5. <<n - 1, n>> \in Below
  BY <1>4 DEF Below
<1> QED BY <1>3, <1>4, <1>5

\* A set of numbers has a least one.
LEMMA Least ==
    ASSUME NEW S, S \subseteq Nat, S # {}
    PROVE  \E n \in S : \A m \in S : n <= m
<1>1. IsWellFoundedOn(Below, Nat)
  BY BelowWellFounded
<1>2. PICK n \in S : \A m \in S : ~(<<m, n>> \in Below)
  BY <1>1, WFMin
<1>3. \A m \in S : ~(m < n)
  BY <1>2 DEF Below
<1>4. \A m \in S : n <= m
  BY <1>3
<1> QED BY <1>4

\* What Min returns.
LEMMA LeastIsMin ==
    ASSUME NEW S, S \subseteq Nat, S # {}
    PROVE  Min(S) \in S /\ \A x \in S : Min(S) <= x
<1>1. PICK n \in S : \A m \in S : n <= m
  BY Least
<1> QED BY <1>1 DEF Min

\* What Max returns, of a set with an upper bound: the least number that is
\* left to the bound is the greatest of the set.
LEMMA GreatestOf ==
    ASSUME NEW n \in Nat, NEW S, S \subseteq 0 .. n, S # {}
    PROVE  Max(S) \in S /\ \A x \in S : x <= Max(S)
<1> DEFINE T == {n - x : x \in S}
<1>1. T \subseteq Nat /\ T # {}
  <2>1. \A x \in S : n - x \in Nat
    OBVIOUS
  <2> QED BY <2>1
<1>2. Min(T) \in T /\ \A t \in T : Min(T) <= t
  BY <1>1, LeastIsMin
<1>3. PICK x \in S : Min(T) = n - x
  BY <1>2
<1>4. \A y \in S : n - x <= n - y
  BY <1>2, <1>3
<1>5. \A y \in S : x >= y
  BY <1>4
<1> QED BY <1>5 DEF Max

LEMMA GreatestIsMax ==
    ASSUME NEW n \in Nat, NEW S, S \subseteq 1 .. n, S # {}
    PROVE  Max(S) \in S /\ \A x \in S : x <= Max(S)
<1>1. S \subseteq 0 .. n
  OBVIOUS
<1> QED BY <1>1, GreatestOf

\* Induction over the sequences, from the front.
LEMMA SeqInduct ==
    ASSUME NEW T, NEW S, <<>> \in S, \A s \in Seq(T), x \in T : s \in S => Append(s, x) \in S
    PROVE  Seq(T) \subseteq S
<1> DEFINE L == {n \in Nat : \A s \in Seq(T) : Len(s) = n => s \in S}
<1>1. 0 \in L
  <2>1. ASSUME NEW s \in Seq(T), Len(s) = 0 PROVE s \in S
    BY <2>1, EmptySeq
  <2> QED BY <2>1
<1>2. ASSUME NEW n \in Nat, n \in L PROVE n + 1 \in L
  <2>1. ASSUME NEW s \in Seq(T), Len(s) = n + 1 PROVE s \in S
    <3> DEFINE t == SubSeq(s, 1, n)
    <3>1. t \in Seq(T) /\ Len(t) = n /\ \A i \in 1 .. n : t[i] = s[i]
      BY <2>1
    <3>2. s[n + 1] \in T
      BY <2>1
    <3>3. s = Append(t, s[n + 1])
      BY <2>1, <3>1, <3>2
    <3> HIDE DEF t
    <3>4. t \in S
      BY <1>2, <3>1
    <3> QED BY <3>1, <3>2, <3>3, <3>4
  <2> QED BY <2>1
<1>3. Nat \subseteq L
  <2> HIDE DEF L
  <2> QED BY <1>1, <1>2, Induct
<1> QED BY <1>3

-----------------------------------------------------------------------------
IsStep(step, A, B) == step \in [A \X B -> A]

\* f has the results of the steps from a over the elements of s.
Run(f, A, a, step, s) ==
    /\ f \in [0 .. Len(s) -> A] /\ f[0] = a
    /\ \A n \in 1 .. Len(s) : f[n] = step[<<f[n - 1], s[n]>>]

LEMMA RunExists ==
    ASSUME NEW A, NEW B, NEW a \in A, NEW step, IsStep(step, A, B), NEW s \in Seq(B)
    PROVE  \E f : Run(f, A, a, step, s)
<1> USE DEF IsStep
<1> DEFINE Good(n) == \E f \in [0 .. n -> A] : f[0] = a /\ \A i \in 1 .. n : f[i] = step[<<f[i - 1], s[i]>>]
           N == Len(s)
           S == {n \in Nat : n <= N => Good(n)}
<1>0. N \in Nat /\ \A n \in 1 .. N : s[n] \in B
  OBVIOUS
<1>1. 0 \in S
  <2> DEFINE g == [i \in 0 .. 0 |-> a]
  <2>1. g \in [0 .. 0 -> A] OBVIOUS
  <2>2. g[0] = a OBVIOUS
  <2>3. \A i \in 1 .. 0 : g[i] = step[<<g[i - 1], s[i]>>] OBVIOUS
  <2> HIDE DEF g
  <2>4. Good(0) BY <2>1, <2>2, <2>3
  <2> QED BY <2>4
<1>2. ASSUME NEW n \in Nat, n \in S PROVE n + 1 \in S
  <2> HIDE DEF N
  <2>1. SUFFICES ASSUME n + 1 <= N PROVE Good(n + 1) OBVIOUS
  <2>2. PICK f \in [0 .. n -> A] : f[0] = a /\ \A i \in 1 .. n : f[i] = step[<<f[i - 1], s[i]>>]
    BY <1>0, <1>2, <2>1
  <2> DEFINE x == step[<<f[n], s[n + 1]>>]
             g == [i \in 0 .. n + 1 |-> IF i = n + 1 THEN x ELSE f[i]]
  <2>3. s[n + 1] \in B /\ f[n] \in A BY <1>0, <2>1
  <2>4. x \in A BY <2>3
  <2>5. g \in [0 .. n + 1 -> A] BY <2>4
  <2>6. g[0] = a BY <2>2
  <2>7. ASSUME NEW i \in 1 .. n + 1 PROVE g[i] = step[<<g[i - 1], s[i]>>]
    <3> HIDE DEF x
    <3>1. CASE i = n + 1
      <4>1. g[i] = x /\ g[i - 1] = f[n] BY <3>1
      <4> QED BY <4>1, <3>1 DEF x
    <3>2. CASE i # n + 1
      <4>1. i \in 1 .. n BY <3>2
      <4>2. g[i] = f[i] /\ g[i - 1] = f[i - 1] BY <4>1
      <4> QED BY <4>1, <4>2, <2>2
    <3> QED BY <3>1, <3>2
  <2> HIDE DEF g
  <2> QED BY <2>5, <2>6, <2>7
<1>3. N \in S
  <2> HIDE DEF S
  <2> QED BY <1>0, <1>1, <1>2, Induct
<1>4. Good(N) BY <1>0, <1>3
<1> QED BY <1>4 DEF Run

Alike(f, g, N) == f[0] = g[0] /\ \A n \in 1 .. N : f[n - 1] = g[n - 1] => f[n] = g[n]

\* Two of them agree as far as both go.
LEMMA Agree ==
    ASSUME NEW N \in Nat, NEW f, NEW g, Alike(f, g, N)
    PROVE  \A n \in 0 .. N : f[n] = g[n]
<1> USE DEF Alike
<1> DEFINE S == {n \in Nat : n <= N => f[n] = g[n]}
<1>1. 0 \in S
  OBVIOUS
<1>2. ASSUME NEW n \in Nat, n \in S PROVE n + 1 \in S
  <2>1. ASSUME n + 1 <= N PROVE f[n + 1] = g[n + 1]
    <3>1. n + 1 \in 1 .. N /\ (n + 1) - 1 = n /\ f[n] = g[n]
      BY <1>2, <2>1
    <3> QED BY <3>1
  <2> QED BY <2>1
<1>3. Nat \subseteq S
  <2> HIDE DEF S
  <2> QED BY <1>1, <1>2, Induct
<1> QED BY <1>3

\* The result of the steps; it takes in one element after the other.
Folded(A, a, step, s) == (CHOOSE f : Run(f, A, a, step, s))[Len(s)]

LEMMA FoldedIs ==
    ASSUME NEW A, NEW B, NEW a \in A, NEW step, IsStep(step, A, B), NEW s \in Seq(B),
           NEW f, Run(f, A, a, step, s)
    PROVE  Folded(A, a, step, s) = f[Len(s)]
<1> DEFINE g == CHOOSE h : Run(h, A, a, step, s)
<1>1. Run(g, A, a, step, s)
  BY Zenon
<1> HIDE DEF g
<1>2. Alike(f, g, Len(s))
  BY <1>1 DEF Run, Alike
<1>3. Len(s) \in Nat
  OBVIOUS
<1>4. f[Len(s)] = g[Len(s)]
  <2>1. \A n \in 0 .. Len(s) : f[n] = g[n]
    BY <1>2, <1>3, Agree
  <2> QED BY <1>3, <2>1
<1> QED BY <1>4 DEF g, Folded

\* g takes the steps from a over the elements of s, as long as it stays in A.
Steps(g, A, a, step, s) ==
    /\ g[0] = a
    /\ \A n \in 1 .. Len(s) : g[n - 1] \in A => g[n] = step[<<g[n - 1], s[n]>>]

LEMMA FoldedBy ==
    ASSUME NEW A, NEW B, NEW a \in A, NEW step, IsStep(step, A, B), NEW s \in Seq(B),
           NEW g, Steps(g, A, a, step, s)
    PROVE  g[Len(s)] = Folded(A, a, step, s)
<1>1. PICK f : Run(f, A, a, step, s)
  BY RunExists
<1>2. Alike(f, g, Len(s))
  <2>1. f[0] = g[0]
    BY <1>1 DEF Run, Steps
  <2>2. ASSUME NEW n \in 1 .. Len(s), f[n - 1] = g[n - 1] PROVE f[n] = g[n]
    <3>1. n - 1 \in 0 .. Len(s) /\ Len(s) \in Nat
      OBVIOUS
    <3>2. g[n - 1] \in A
      BY <1>1, <2>2, <3>1 DEF Run
    <3> QED BY <1>1, <2>2, <3>2 DEF Run, Steps
  <2> QED BY <2>1, <2>2 DEF Alike
<1>3. \A n \in 0 .. Len(s) : f[n] = g[n]
  BY <1>2, Agree
<1>4. Folded(A, a, step, s) = f[Len(s)]
  BY <1>1, FoldedIs
<1> QED BY <1>3, <1>4

LEMMA FoldedFacts ==
    ASSUME NEW A, NEW B, NEW a \in A, NEW step, IsStep(step, A, B)
    PROVE  /\ Folded(A, a, step, <<>>) = a
           /\ \A s \in Seq(B) : Folded(A, a, step, s) \in A
           /\ \A s \in Seq(B), x \in B :
                 Folded(A, a, step, Append(s, x)) = step[<<Folded(A, a, step, s), x>>]
<1>1. Folded(A, a, step, <<>>) = a
  <2> DEFINE e == <<>>
  <2>1. e \in Seq(B) /\ Len(e) = 0
    OBVIOUS
  <2> HIDE DEF e
  <2>2. PICK f : Run(f, A, a, step, e)
    BY <2>1, RunExists
  <2>a. e \in Seq(B)
    BY <2>1
  <2>3. Folded(A, a, step, e) = f[Len(e)]
    BY ONLY IsStep(step, A, B), a \in A, <2>a, <2>2, FoldedIs
  <2> QED BY <2>1, <2>2, <2>3 DEF Run, e
<1>2. ASSUME NEW s \in Seq(B) PROVE Folded(A, a, step, s) \in A
  <2>1. PICK f : Run(f, A, a, step, s)
    BY RunExists
  <2>2. Folded(A, a, step, s) = f[Len(s)]
    BY <2>1, FoldedIs
  <2> QED BY <2>1, <2>2 DEF Run
<1>3. ASSUME NEW s \in Seq(B), NEW x \in B
      PROVE  Folded(A, a, step, Append(s, x)) = step[<<Folded(A, a, step, s), x>>]
  <2> DEFINE t == Append(s, x)
  <2>1. t \in Seq(B) /\ Len(t) = Len(s) + 1 /\ t[Len(s) + 1] = x /\ Len(s) \in Nat
        /\ \A i \in 1 .. Len(s) : t[i] = s[i]
    OBVIOUS
  <2> HIDE DEF t
  <2>2. PICK f : Run(f, A, a, step, s)
    BY RunExists
  <2>3. PICK g : Run(g, A, a, step, t)
    BY <2>1, RunExists
  <2>4. f[0] = g[0]
    BY <2>2, <2>3 DEF Run
  <2>5. ASSUME NEW n \in 1 .. Len(s), f[n - 1] = g[n - 1] PROVE f[n] = g[n]
    <3>1. n \in 1 .. Len(t) /\ t[n] = s[n]
      BY <2>1
    <3> QED BY <2>2, <2>3, <2>5, <3>1 DEF Run
  <2>6. \A n \in 0 .. Len(s) : f[n] = g[n]
    <3>1. Alike(f, g, Len(s))
      BY <2>4, <2>5 DEF Alike
    <3> QED BY <2>1, <3>1, Agree
  <2>7. f[Len(s)] = g[Len(s)]
    BY <2>1, <2>6
  <2>8. g[Len(t)] = step[<<g[Len(s)], x>>]
    BY <2>1, <2>3 DEF Run
  <2>9. Folded(A, a, step, s) = f[Len(s)] /\ Folded(A, a, step, t) = g[Len(t)]
    BY <2>1, <2>2, <2>3, FoldedIs
  <2> QED BY <2>7, <2>8, <2>9 DEF t
<1> QED BY <1>1, <1>2, <1>3

-----------------------------------------------------------------------------
KeepIn(T, S) == [p \in Seq(T) \X T |-> IF p[2] \in S THEN Append(p[1], p[2]) ELSE p[1]]

LEMMA OnlyIsFolded ==
    ASSUME NEW T, NEW s \in Seq(T), NEW S
    PROVE  Only(s, S) = Folded(Seq(T), <<>>, KeepIn(T, S), s)
<1> DEFINE G(x, y) == IF y \in S THEN Append(x, y) ELSE x
           F(f) == [n \in 0 .. Len(s) |-> IF n = 0 THEN <<>> ELSE G(f[n - 1], s[n])]
           P(f) == f = F(f)
           A == Seq(T)
           e == <<>>
           N == Len(s)
           step == KeepIn(T, S)
<1>1. Only(s, S) = (CHOOSE h : P(h))[N] BY DEF Only
<1>2. N \in Nat /\ e \in A /\ s \in Seq(T) /\ \A n \in 1 .. N : s[n] \in T OBVIOUS
<1>3. ASSUME NEW x \in A, NEW y \in T PROVE G(x, y) \in A
  OBVIOUS
<1>4. ASSUME NEW x \in A, NEW y \in T PROVE step[<<x, y>>] = G(x, y)
  BY DEF KeepIn
<1>5. IsStep(step, A, T)
  BY <1>3 DEF KeepIn, IsStep
<1> HIDE DEF A, N, G, e, step
<1>6. PICK f : Run(f, A, e, step, s)
  BY <1>2, <1>5, RunExists
<1>7. P(f)
  <2>1. f[0] = e /\ f = [n \in 0 .. N |-> f[n]] BY <1>6 DEF Run, N
  <2>2. ASSUME NEW n \in 0 .. N, n # 0 PROVE f[n] = G(f[n - 1], s[n])
    <3>1. n \in 1 .. N /\ f[n - 1] \in A /\ s[n] \in T BY <1>2, <1>6, <2>2 DEF Run, N
    <3> QED BY <1>4, <1>6, <3>1 DEF Run, N
  <2>3. F(f) = [n \in 0 .. N |-> IF n = 0 THEN e ELSE G(f[n - 1], s[n])] BY DEF e, N
  <2> QED BY <2>1, <2>2, <2>3
<1> DEFINE g == CHOOSE h : P(h)
<1>8. P(g)
  <2> HIDE DEF P
  <2> QED BY <1>7, Zenon
<1> HIDE DEF g
<1>9. Steps(g, A, e, step, s)
  BY <1>2, <1>4, <1>8 DEF Steps, e, N
<1>10. g[N] = Folded(A, e, step, s)
  BY <1>2, <1>5, <1>9, FoldedBy DEF N
<1> QED BY <1>1, <1>10 DEF g, e, A, step

LEMMA OnlyFacts ==
    ASSUME NEW T, NEW S
    PROVE  /\ Only(<<>>, S) = <<>>
           /\ \A s \in Seq(T) : Only(s, S) \in Seq(T)
           /\ \A s \in Seq(T), x \in T :
                 /\ x \in S => Only(Append(s, x), S) = Append(Only(s, S), x)
                 /\ x \notin S => Only(Append(s, x), S) = Only(s, S)
<1> DEFINE A == Seq(T)
           e == <<>>
           step == KeepIn(T, S)
           O(s) == Folded(A, e, step, s)
<1>1. IsStep(step, A, T) /\ e \in A
  BY DEF IsStep, KeepIn
<1>2. \A s \in Seq(T) : Only(s, S) = O(s)
  BY OnlyIsFolded
<1>3. <<>> \in Seq(T) /\ \A s \in Seq(T), x \in T : Append(s, x) \in Seq(T)
  OBVIOUS
<1>4. ASSUME NEW y \in A, NEW x \in T
      PROVE  step[<<y, x>>] = IF x \in S THEN Append(y, x) ELSE y
  BY DEF KeepIn
<1> HIDE DEF A, e, step
<1>5. /\ O(<<>>) = e
      /\ \A s \in Seq(T) : O(s) \in A
      /\ \A s \in Seq(T), x \in T : O(Append(s, x)) = step[<<O(s), x>>]
  BY <1>1, FoldedFacts
<1> HIDE DEF O
<1>6. Only(<<>>, S) = <<>>
  BY <1>2, <1>3, <1>5 DEF e
<1>7. \A s \in Seq(T) : Only(s, S) \in Seq(T)
  BY <1>2, <1>5 DEF A
<1>8. ASSUME NEW s \in Seq(T), NEW x \in T
      PROVE  /\ x \in S => Only(Append(s, x), S) = Append(Only(s, S), x)
             /\ x \notin S => Only(Append(s, x), S) = Only(s, S)
  <2>1. Append(s, x) \in Seq(T) /\ O(s) \in A /\ O(Append(s, x)) = step[<<O(s), x>>]
    BY <1>3, <1>5
  <2>2. O(Append(s, x)) = IF x \in S THEN Append(O(s), x) ELSE O(s)
    BY <1>4, <2>1
  <2> QED BY <1>2, <2>1, <2>2
<1> QED BY <1>6, <1>7, <1>8

LEMMA OnlyOfEmpty == \A S : Only(<<>>, S) = <<>>
<1> TAKE S
<1>1. Only(<<>>, S) = <<>>
  BY OnlyFacts
<1> QED BY <1>1

LEMMA OnlyTyped ==
    ASSUME NEW T, NEW s \in Seq(T), NEW S
    PROVE  Only(s, S) \in Seq(T)
  BY OnlyFacts

LEMMA OnlyAppend ==
    ASSUME NEW T, NEW s \in Seq(T), NEW x \in T, NEW S
    PROVE  /\ x \in S => Only(Append(s, x), S) = Append(Only(s, S), x)
           /\ x \notin S => Only(Append(s, x), S) = Only(s, S)
<1>1. \A r \in Seq(T), y \in T :
          /\ y \in S => Only(Append(r, y), S) = Append(Only(r, S), y)
          /\ y \notin S => Only(Append(r, y), S) = Only(r, S)
  BY OnlyFacts
<1> QED BY <1>1, Zenon

\* The elements of a sequence, one place after the other.
LEMMA ToSetFacts ==
    ASSUME NEW T
    PROVE  /\ ToSet(<<>>) = {}
           /\ \A s \in Seq(T) : ToSet(s) \subseteq T
           /\ \A s \in Seq(T), x \in T : ToSet(Append(s, x)) = ToSet(s) \cup {x}
<1>1. ToSet(<<>>) = {}
  BY DEF ToSet
<1>2. \A s \in Seq(T) : ToSet(s) \subseteq T
  BY DEF ToSet
<1>3. ASSUME NEW s \in Seq(T), NEW x \in T PROVE ToSet(Append(s, x)) = ToSet(s) \cup {x}
  <2> DEFINE t == Append(s, x)
  <2>1. DOMAIN t = 1 .. Len(s) + 1 /\ DOMAIN s = 1 .. Len(s) /\ Len(s) \in Nat
        /\ t[Len(s) + 1] = x /\ \A i \in 1 .. Len(s) : t[i] = s[i]
    OBVIOUS
  <2> HIDE DEF t
  <2>2. ASSUME NEW y \in ToSet(t) PROVE y \in ToSet(s) \cup {x}
    <3>1. PICK i \in 1 .. Len(s) + 1 : y = t[i]
      BY <2>1, <2>2 DEF ToSet
    <3>2. CASE i = Len(s) + 1
      BY <2>1, <3>1, <3>2
    <3>3. CASE i # Len(s) + 1
      <4>1. i \in 1 .. Len(s)
        BY <2>1, <3>3
      <4> QED BY <2>1, <3>1, <4>1 DEF ToSet
    <3> QED BY <3>2, <3>3
  <2>3. x \in ToSet(t)
    <3>1. Len(s) + 1 \in DOMAIN t
      BY <2>1
    <3> QED BY <2>1, <3>1 DEF ToSet
  <2>4. ASSUME NEW y \in ToSet(s) PROVE y \in ToSet(t)
    <3>1. PICK i \in 1 .. Len(s) : y = s[i]
      BY <2>1, <2>4 DEF ToSet
    <3>2. i \in DOMAIN t
      BY <2>1
    <3> QED BY <2>1, <3>1, <3>2 DEF ToSet
  <2> QED BY <2>2, <2>3, <2>4 DEF t
<1> QED BY <1>1, <1>2, <1>3

LEMMA OnlyElements ==
    ASSUME NEW T, NEW S
    PROVE  \A s \in Seq(T) : ToSet(Only(s, S)) = ToSet(s) \cap S
<1> DEFINE G == {s \in Seq(T) : ToSet(Only(s, S)) = ToSet(s) \cap S}
<1>1. <<>> \in G
  BY ToSetFacts, OnlyFacts
<1>2. ASSUME NEW s \in Seq(T), NEW x \in T, s \in G PROVE Append(s, x) \in G
  <2>1. Only(s, S) \in Seq(T) /\ Append(s, x) \in Seq(T)
    BY OnlyOfEmpty, OnlyTyped, OnlyAppend
  <2>2. ToSet(Append(s, x)) = ToSet(s) \cup {x}
    BY ToSetFacts
  <2>3. ToSet(Append(Only(s, S), x)) = ToSet(Only(s, S)) \cup {x}
    BY <2>1, ToSetFacts
  <2>4. Only(Append(s, x), S) = IF x \in S THEN Append(Only(s, S), x) ELSE Only(s, S)
    BY OnlyOfEmpty, OnlyTyped, OnlyAppend
  <2>5. ToSet(Only(Append(s, x), S)) = ToSet(Append(s, x)) \cap S
    BY <1>2, <2>2, <2>3, <2>4
  <2> QED BY <2>1, <2>5
<1> HIDE DEF G
<1>3. Seq(T) \subseteq G
  BY <1>1, <1>2, SeqInduct
<1> QED BY <1>3 DEF G

LEMMA OnlySame ==
    ASSUME NEW T, NEW S, NEW R
    PROVE  \A s \in Seq(T) : ToSet(s) \cap S = ToSet(s) \cap R => Only(s, S) = Only(s, R)
<1> DEFINE G == {s \in Seq(T) : ToSet(s) \cap S = ToSet(s) \cap R => Only(s, S) = Only(s, R)}
<1>1. <<>> \in G
  BY OnlyOfEmpty, OnlyTyped, OnlyAppend
<1>2. ASSUME NEW s \in Seq(T), NEW x \in T, s \in G PROVE Append(s, x) \in G
  <2>1. Append(s, x) \in Seq(T)
    OBVIOUS
  <2>2. ToSet(Append(s, x)) = ToSet(s) \cup {x}
    BY ToSetFacts
  <2>3. /\ Only(Append(s, x), S) = IF x \in S THEN Append(Only(s, S), x) ELSE Only(s, S)
        /\ Only(Append(s, x), R) = IF x \in R THEN Append(Only(s, R), x) ELSE Only(s, R)
    BY OnlyOfEmpty, OnlyTyped, OnlyAppend
  <2>4. ASSUME ToSet(Append(s, x)) \cap S = ToSet(Append(s, x)) \cap R
        PROVE  Only(Append(s, x), S) = Only(Append(s, x), R)
    <3>1. (x \in S) = (x \in R)
      BY <2>2, <2>4
    <3>2. ToSet(s) \cap S = ToSet(s) \cap R
      BY <2>2, <2>4
    <3> QED BY <1>2, <2>3, <3>1, <3>2
  <2> QED BY <2>1, <2>4
<1> HIDE DEF G
<1>3. Seq(T) \subseteq G
  BY <1>1, <1>2, SeqInduct
<1> QED BY <1>3 DEF G

LEMMA OnlyTwice ==
    ASSUME NEW T, NEW S, NEW R
    PROVE  \A s \in Seq(T) : Only(Only(s, S), R) = Only(s, S \cap R)
<1> DEFINE Q == S \cap R
           G == {s \in Seq(T) : Only(Only(s, S), R) = Only(s, Q)}
<1>1. <<>> \in G
  BY OnlyOfEmpty
<1>2. \A x : x \in Q <=> x \in S /\ x \in R
  OBVIOUS
<1> HIDE DEF Q
<1>3. ASSUME NEW s \in Seq(T), NEW x \in T, s \in G PROVE Append(s, x) \in G
  <2> DEFINE u == Only(s, S)
             t == Append(s, x)
  <2>1. u \in Seq(T) /\ t \in Seq(T) /\ Only(u, R) = Only(s, Q)
    BY <1>3, OnlyTyped
  <2>2. /\ x \in S => Only(t, S) = Append(u, x)
        /\ x \notin S => Only(t, S) = u
        /\ x \in Q => Only(t, Q) = Append(Only(s, Q), x)
        /\ x \notin Q => Only(t, Q) = Only(s, Q)
    BY OnlyAppend
  <2>3. /\ x \in R => Only(Append(u, x), R) = Append(Only(u, R), x)
        /\ x \notin R => Only(Append(u, x), R) = Only(u, R)
    BY <2>1, OnlyAppend
  <2> HIDE DEF u, t
  <2>4. Only(Only(t, S), R) = Only(t, Q)
    BY <1>2, <2>1, <2>2, <2>3
  <2> QED BY <2>1, <2>4 DEF t
<1> HIDE DEF G
<1>4. Seq(T) \subseteq G
  BY <1>1, <1>3, SeqInduct
<1> QED BY <1>4 DEF G, Q

LEMMA OnlyAll ==
    ASSUME NEW T, NEW S
    PROVE  \A s \in Seq(T) : ToSet(s) \subseteq S => Only(s, S) = s
<1> DEFINE G == {s \in Seq(T) : ToSet(s) \subseteq S => Only(s, S) = s}
<1>1. <<>> \in G
  BY OnlyOfEmpty, OnlyTyped, OnlyAppend
<1>2. ASSUME NEW s \in Seq(T), NEW x \in T, s \in G PROVE Append(s, x) \in G
  <2>1. Append(s, x) \in Seq(T)
    OBVIOUS
  <2>2. ToSet(Append(s, x)) = ToSet(s) \cup {x}
    BY ToSetFacts
  <2>3. Only(Append(s, x), S) = IF x \in S THEN Append(Only(s, S), x) ELSE Only(s, S)
    BY OnlyOfEmpty, OnlyTyped, OnlyAppend
  <2> QED BY <1>2, <2>1, <2>2, <2>3
<1> HIDE DEF G
<1>3. Seq(T) \subseteq G
  BY <1>1, <1>2, SeqInduct
<1> QED BY <1>3 DEF G

LEMMA DistinctAppend ==
    ASSUME NEW T, NEW s \in Seq(T), NEW x \in T
    PROVE  IsInjective(Append(s, x)) <=> IsInjective(s) /\ x \notin ToSet(s)
<1> DEFINE t == Append(s, x)
<1>1. DOMAIN t = 1 .. Len(s) + 1 /\ DOMAIN s = 1 .. Len(s) /\ Len(s) \in Nat
      /\ t[Len(s) + 1] = x /\ \A i \in 1 .. Len(s) : t[i] = s[i]
  OBVIOUS
<1> HIDE DEF t
<1>2. ASSUME IsInjective(t) PROVE IsInjective(s) /\ x \notin ToSet(s)
  <2>1. \A i \in 1 .. Len(s) : i \in DOMAIN t /\ Len(s) + 1 \in DOMAIN t /\ i # Len(s) + 1
    BY <1>1
  <2> QED BY <1>1, <1>2, <2>1 DEF IsInjective, ToSet
<1>3. ASSUME IsInjective(s), x \notin ToSet(s) PROVE IsInjective(t)
  <2>1. \A i \in 1 .. Len(s) : s[i] # x
    BY <1>1, <1>3 DEF ToSet
  <2>2. ASSUME NEW i \in DOMAIN t, NEW j \in DOMAIN t, t[i] = t[j] PROVE i = j
    <3>1. \A k \in DOMAIN t : k = Len(s) + 1 \/ k \in 1 .. Len(s)
      BY <1>1
    <3> QED BY <1>1, <1>3, <2>1, <2>2, <3>1 DEF IsInjective
  <2> QED BY <2>2 DEF IsInjective
<1> QED BY <1>2, <1>3 DEF t

LEMMA OnlyDistinct ==
    ASSUME NEW T, NEW S
    PROVE  \A s \in Seq(T) : IsInjective(s) => IsInjective(Only(s, S))
<1> DEFINE G == {s \in Seq(T) : IsInjective(s) => IsInjective(Only(s, S))}
<1>1. <<>> \in G
  BY OnlyOfEmpty, OnlyTyped, OnlyAppend DEF IsInjective
<1>2. ASSUME NEW s \in Seq(T), NEW x \in T, s \in G PROVE Append(s, x) \in G
  <2>1. Only(s, S) \in Seq(T) /\ Append(s, x) \in Seq(T)
    BY OnlyOfEmpty, OnlyTyped, OnlyAppend
  <2>2. Only(Append(s, x), S) = IF x \in S THEN Append(Only(s, S), x) ELSE Only(s, S)
    BY OnlyOfEmpty, OnlyTyped, OnlyAppend
  <2>3. ToSet(Only(s, S)) \subseteq ToSet(s)
    BY OnlyElements
  <2>4. /\ IsInjective(Append(s, x)) <=> IsInjective(s) /\ x \notin ToSet(s)
        /\ IsInjective(Append(Only(s, S), x)) <=> IsInjective(Only(s, S)) /\ x \notin ToSet(Only(s, S))
    BY <2>1, DistinctAppend
  <2> QED BY <1>2, <2>1, <2>2, <2>3, <2>4
<1> HIDE DEF G
<1>3. Seq(T) \subseteq G
  BY <1>1, <1>2, SeqInduct
<1> QED BY <1>3 DEF G

\* What a comprehension leaves out.
LEMMA OnlyLength ==
    ASSUME NEW T, NEW S
    PROVE  \A s \in Seq(T) :
              Len(Only(s, S)) <= Len(s) /\ (~(ToSet(s) \subseteq S) => Len(Only(s, S)) < Len(s))
<1> DEFINE P(s) == Len(Only(s, S)) <= Len(s) /\ (~(ToSet(s) \subseteq S) => Len(Only(s, S)) < Len(s))
           G == {s \in Seq(T) : P(s)}
<1>1. <<>> \in G
  <2>1. Only(<<>>, S) = <<>> /\ ToSet(<<>>) = {} /\ <<>> \in Seq(T) /\ Len(<<>>) = 0
    BY OnlyOfEmpty, ToSetFacts
  <2> QED BY <2>1
<1>2. ASSUME NEW s \in Seq(T), NEW x \in T, s \in G PROVE Append(s, x) \in G
  <2> DEFINE t == Append(s, x)
             o == Only(s, S)
  <2>1. t \in Seq(T) /\ Len(s) \in Nat /\ Len(t) = Len(s) + 1
    OBVIOUS
  <2>2. o \in Seq(T)
    BY OnlyTyped
  <2>3. Len(o) \in Nat /\ Len(Append(o, x)) = Len(o) + 1
    BY <2>2
  <2>4. /\ x \in S => Only(t, S) = Append(o, x)
        /\ x \notin S => Only(t, S) = o
    BY OnlyAppend
  <2>5. ToSet(t) = ToSet(s) \cup {x}
    BY ToSetFacts
  <2>6. Len(o) <= Len(s) /\ (~(ToSet(s) \subseteq S) => Len(o) < Len(s))
    BY <1>2
  <2> HIDE DEF t, o
  <2>7. P(t)
    <3>1. CASE x \in S
      BY <2>1, <2>3, <2>4, <2>5, <2>6, <3>1
    <3>2. CASE x \notin S
      BY <2>1, <2>3, <2>4, <2>5, <2>6, <3>2
    <3> QED BY <3>1, <3>2
  <2> QED BY <2>1, <2>7 DEF t
<1> HIDE DEF G
<1>3. Seq(T) \subseteq G
  BY <1>1, <1>2, SeqInduct
<1> QED BY <1>3 DEF G

\* s has some of the elements of r, in the order of r.
Ordered(s, r) == s = Only(r, ToSet(s))

LEMMA OnlyOrdered ==
    ASSUME NEW T, NEW r \in Seq(T), NEW s, Ordered(s, r), NEW S
    PROVE  Ordered(Only(s, S), r)
<1> DEFINE E == ToSet(s)
           u == Only(s, S)
<1>1. s = Only(r, E) /\ s \in Seq(T)
  BY OnlyTyped DEF Ordered
<1>2. u \in Seq(T) /\ ToSet(u) = E \cap S
  BY <1>1, OnlyTyped, OnlyElements
<1>3. Only(Only(r, E), S) = Only(r, E \cap S)
  BY OnlyTwice
<1> HIDE DEF E
<1>4. u = Only(r, E \cap S)
  BY <1>1, <1>3
<1> QED BY <1>2, <1>4 DEF Ordered

\* An element that comes to the end of r and of s.
LEMMA OrderedMoved ==
    ASSUME NEW T, NEW r \in Seq(T), NEW s, Ordered(s, r), NEW x \in T, x \notin ToSet(s)
    PROVE  Ordered(Append(s, x), Append(Only(r, T \ {x}), x))
<1> DEFINE E == ToSet(s)
           q == Only(r, T \ {x})
           F == E \cup {x}
<1>1. s = Only(r, E) /\ s \in Seq(T) /\ q \in Seq(T)
  BY OnlyTyped DEF Ordered
<1>2. ToSet(Append(s, x)) = F
  BY <1>1, ToSetFacts
<1>3. Only(q, F) = Only(r, (T \ {x}) \cap F)
  BY OnlyTwice
<1>4. Only(r, (T \ {x}) \cap F) = Only(r, E)
  <2> DEFINE D == (T \ {x}) \cap F
  <2>1. ToSet(r) \subseteq T
    BY ToSetFacts
  <2>2. ToSet(r) \cap D = ToSet(r) \cap E
    BY <2>1
  <2> HIDE DEF D, E
  <2>3. Only(r, D) = Only(r, E)
    BY <2>2, OnlySame
  <2> QED BY <2>3 DEF D
<1>5. Only(q, F) = s
  BY <1>1, <1>3, <1>4
<1>6. x \in F
  OBVIOUS
<1> HIDE DEF F, q
<1>7. Only(Append(q, x), F) = Append(s, x)
  BY <1>1, <1>5, <1>6, OnlyAppend
<1> QED BY <1>2, <1>7 DEF Ordered, q

LEMMA FrontAndBack ==
    ASSUME NEW T, NEW s \in Seq(T), NEW n \in 0 .. Len(s)
    PROVE  SubSeq(s, 1, n) \o SubSeq(s, n + 1, Len(s)) = s
<1> DEFINE p == SubSeq(s, 1, n)
           q == SubSeq(s, n + 1, Len(s))
<1>1. /\ p \in Seq(T) /\ q \in Seq(T) /\ Len(p) = n /\ Len(q) = Len(s) - n /\ Len(s) \in Nat
      /\ \A i \in 1 .. n : p[i] = s[i]
      /\ \A i \in 1 .. Len(s) - n : q[i] = s[n + i]
  OBVIOUS
<1> HIDE DEF p, q
<1> DEFINE u == p \o q
<1>2. /\ u \in Seq(T) /\ Len(u) = Len(p) + Len(q)
      /\ \A i \in 1 .. Len(p) + Len(q) : u[i] = IF i <= Len(p) THEN p[i] ELSE q[i - Len(p)]
  BY <1>1, ConcatProperties
<1> HIDE DEF u
<1>3. ASSUME NEW i \in 1 .. Len(s) PROVE u[i] = s[i]
  <2>1. CASE i <= n
    <3>1. i \in 1 .. n /\ u[i] = p[i]
      BY <1>1, <1>2, <2>1
    <3> QED BY <1>1, <3>1
  <2>2. CASE i > n
    <3>1. i - n \in 1 .. Len(s) - n /\ n + (i - n) = i
      BY <1>1, <2>2
    <3>2. u[i] = q[i - n]
      BY <1>1, <1>2, <2>2
    <3>3. q[i - n] = s[n + (i - n)]
      BY <1>1, <3>1
    <3> QED BY <3>1, <3>2, <3>3
  <2> QED BY <2>1, <2>2
<1>4. u = s
  BY <1>1, <1>2, <1>3, SeqEqual
<1> QED BY <1>4 DEF u, p, q

\* Without its first n elements, a list without repetition is its list of the others.
LEMMA OnlyTheRest ==
    ASSUME NEW T, NEW n \in Nat
    PROVE  \A s \in Seq(T) : IsInjective(s) /\ n <= Len(s) =>
              SubSeq(s, n + 1, Len(s)) = Only(s, ToSet(SubSeq(s, n + 1, Len(s))))
<1> DEFINE R(s) == SubSeq(s, n + 1, Len(s))
           G == {s \in Seq(T) : IsInjective(s) /\ n <= Len(s) => R(s) = Only(s, ToSet(R(s)))}
<1>1. <<>> \in G
  <2>1. ASSUME n <= Len(<<>>) PROVE R(<<>>) = <<>>
    BY <2>1
  <2>2. <<>> \in Seq(T)
    OBVIOUS
  <2> HIDE DEF R
  <2> QED BY <2>1, <2>2, OnlyOfEmpty
<1>2. ASSUME NEW s \in Seq(T), NEW x \in T, s \in G PROVE Append(s, x) \in G
  <2> DEFINE t == Append(s, x)
  <2>1. t \in Seq(T) /\ Len(t) = Len(s) + 1 /\ Len(s) \in Nat
    OBVIOUS
  <2>2. ASSUME IsInjective(t), n <= Len(t) PROVE R(t) = Only(t, ToSet(R(t)))
    <3>1. IsInjective(s) /\ x \notin ToSet(s)
      BY <2>2, DistinctAppend
    <3>2. CASE n = Len(t)
      <4>1. R(t) = <<>>
        BY <2>1, <3>2
      <4>2. ToSet(R(t)) = {}
        BY <4>1, ToSetFacts
      <4>3. Only(t, {}) = <<>>
        <5>1. Only(t, {}) \in Seq(T) /\ ToSet(Only(t, {})) = ToSet(t) \cap {}
          BY <2>1, OnlyTyped, OnlyElements
        <5> DEFINE u == Only(t, {})
        <5>2. Len(u) \in Nat /\ DOMAIN u = 1 .. Len(u)
          BY <5>1
        <5>3. \A i \in DOMAIN u : u[i] \in ToSet(u)
          BY DEF ToSet
        <5>4. Len(u) = 0
          BY <5>1, <5>2, <5>3
        <5> HIDE DEF u
        <5> QED BY <5>1, <5>4, EmptySeq DEF u
      <4> QED BY <4>1, <4>2, <4>3
    <3>3. CASE n # Len(t)
      <4>1. n <= Len(s)
        BY <2>1, <2>2, <3>3
      <4>2. R(s) = Only(s, ToSet(R(s))) /\ R(s) \in Seq(T)
        BY <1>2, <3>1, <4>1
      <4>3. R(t) = Append(R(s), x)
        <5>1. R(t) \in Seq(T) /\ Len(R(t)) = Len(s) + 1 - n /\ Len(R(s)) = Len(s) - n
          BY <2>1, <4>1
        <5>2. ASSUME NEW i \in 1 .. Len(s) + 1 - n PROVE R(t)[i] = Append(R(s), x)[i]
          <6>1. R(t)[i] = t[n + i]
            BY <2>1, <4>1
          <6>2. CASE i = Len(s) + 1 - n
            BY <2>1, <4>1, <4>2, <5>1, <6>1, <6>2
          <6>3. CASE i # Len(s) + 1 - n
            <7>1. i \in 1 .. Len(s) - n /\ n + i \in 1 .. Len(s)
              BY <2>1, <4>1, <6>3
            <7>2. R(s)[i] = s[n + i]
              BY <2>1, <4>1, <7>1
            <7> QED BY <2>1, <4>2, <5>1, <6>1, <7>1, <7>2
          <6> QED BY <6>2, <6>3
        <5>3. Append(R(s), x) \in Seq(T) /\ Len(Append(R(s), x)) = Len(R(t))
          BY <4>2, <5>1
        <5> HIDE DEF R, t
        <5> QED BY <5>1, <5>2, <5>3, SeqEqual
      <4> DEFINE E == ToSet(R(s))
                 F == E \cup {x}
      <4>4. ToSet(R(t)) = F
        BY <4>2, <4>3, ToSetFacts
      <4>5. ToSet(s) \cap F = ToSet(s) \cap E /\ x \in F
        BY <3>1
      <4> HIDE DEF E, F, R
      <4>6. Only(s, F) = Only(s, E)
        BY <4>5, OnlySame
      <4>7. Only(t, F) = Append(Only(s, F), x)
        BY <4>5, OnlyAppend
      <4> QED BY <4>2, <4>3, <4>4, <4>6, <4>7 DEF E
    <3> QED BY <3>2, <3>3
  <2> QED BY <2>1, <2>2
<1> HIDE DEF G
<1>3. Seq(T) \subseteq G
  BY <1>1, <1>2, SeqInduct
<1> QED BY <1>3 DEF G

LEMMA OrderedFacts ==
    ASSUME NEW T, NEW r \in Seq(T), NEW s, Ordered(s, r)
    PROVE  s \in Seq(T) /\ ToSet(s) \subseteq ToSet(r) /\ (IsInjective(r) => IsInjective(s))
<1>1. s = Only(r, ToSet(s))
  BY DEF Ordered
<1>2. s \in Seq(T) /\ ToSet(s) = ToSet(r) \cap ToSet(s)
  BY <1>1, OnlyTyped, OnlyElements
<1>3. IsInjective(r) => IsInjective(s)
  BY <1>1, OnlyDistinct
<1> QED BY <1>2, <1>3

\* An element moves to the end, or joins there.
LEMMA MovedDistinct ==
    ASSUME NEW T, NEW r \in Seq(T), NEW x \in T, IsInjective(r)
    PROVE  /\ Append(Only(r, T \ {x}), x) \in Seq(T)
           /\ IsInjective(Append(Only(r, T \ {x}), x))
<1> DEFINE q == Only(r, T \ {x})
<1>1. q \in Seq(T) /\ ToSet(q) = ToSet(r) \cap (T \ {x}) /\ IsInjective(q)
  BY OnlyTyped, OnlyElements, OnlyDistinct
<1> HIDE DEF q
<1>2. x \notin ToSet(q)
  BY <1>1
<1> QED BY <1>1, <1>2, DistinctAppend DEF q

LEMMA RestOrdered ==
    ASSUME NEW T, NEW r \in Seq(T), IsInjective(r), NEW s, Ordered(s, r), NEW n \in Nat, n <= Len(s)
    PROVE  Ordered(SubSeq(s, n + 1, Len(s)), r)
<1>1. s \in Seq(T) /\ IsInjective(s)
  BY OrderedFacts
<1> DEFINE u == SubSeq(s, n + 1, Len(s))
<1>2. u = Only(s, ToSet(u))
  BY <1>1, OnlyTheRest
<1> HIDE DEF u
<1>3. Ordered(Only(s, ToSet(u)), r)
  BY OnlyOrdered
<1> QED BY <1>2, <1>3 DEF u

-----------------------------------------------------------------------------
LEMMA CountOfAll ==
    ASSUME NEW n \in Nat
    PROVE  IsFiniteSet(1 .. n) /\ Cardinality(1 .. n) = n
  BY FS_Interval

LEMMA CountOfSome ==
    ASSUME NEW n \in Nat, NEW S, S \subseteq 1 .. n
    PROVE  IsFiniteSet(S) /\ Cardinality(S) \in Nat /\ Cardinality(S) <= n
<1>1. IsFiniteSet(1 .. n) /\ Cardinality(1 .. n) = n
  BY FS_Interval
<1>2. IsFiniteSet(S) /\ Cardinality(S) <= n
  BY <1>1, FS_Subset
<1> QED BY <1>2, FS_CardinalityType

LEMMA CountOfMore ==
    ASSUME NEW n \in Nat, NEW S, NEW R, R \subseteq 1 .. n, S \subseteq R, NEW x \in R, x \notin S
    PROVE  Cardinality(S) < Cardinality(R)
<1>0. S \subseteq 1 .. n
  OBVIOUS
<1>1. IsFiniteSet(R) /\ IsFiniteSet(S) /\ Cardinality(R) \in Nat /\ Cardinality(S) \in Nat
  BY <1>0, CountOfSome
<1>2. Cardinality(S) <= Cardinality(R) /\ (Cardinality(R) = Cardinality(S) => R = S)
  BY <1>1, FS_Subset
<1>3. R # S
  OBVIOUS
<1> QED BY <1>1, <1>2, <1>3

-----------------------------------------------------------------------------
HasScores(T) == \A x \in T : x.score \in Int

Before(s, i) == {j \in 1 .. Len(s) : Better(s, j, i)}

\* Where the i-th element goes.
Pos(s, i) == Cardinality(Before(s, i)) + 1

LEMMA ScoreTyped ==
    ASSUME NEW T, HasScores(T), NEW s \in Seq(T)
    PROVE  Len(s) \in Nat /\ DOMAIN s = 1 .. Len(s) /\ \A i \in 1 .. Len(s) : s[i] \in T /\ s[i].score \in Int
<1>1. \A i \in 1 .. Len(s) : s[i] \in T
  OBVIOUS
<1> QED BY <1>1 DEF HasScores

LEMMA ReachingCount ==
    ASSUME NEW T, NEW s \in Seq(T), NEW least
    PROVE  Reaching(s, least) \subseteq 1 .. Len(s) /\ Cardinality(Reaching(s, least)) \in 0 .. Len(s)
<1>1. Reaching(s, least) \subseteq 1 .. Len(s) /\ Len(s) \in Nat
  BY DEF Reaching
<1>2. Cardinality(Reaching(s, least)) \in Nat /\ Cardinality(Reaching(s, least)) <= Len(s)
  BY <1>1, CountOfSome
<1> QED BY <1>1, <1>2

LEMMA BeforeFacts ==
    ASSUME NEW T, HasScores(T), NEW s \in Seq(T), NEW i \in 1 .. Len(s)
    PROVE  /\ Before(s, i) \subseteq 1 .. Len(s) /\ i \notin Before(s, i)
           /\ \A j \in Before(s, i) : Before(s, j) \subseteq Before(s, i)
<1>1. Len(s) \in Nat /\ \A j \in 1 .. Len(s) : s[j].score \in Int
  BY ScoreTyped
<1>2. Before(s, i) \subseteq 1 .. Len(s)
  BY DEF Before
<1>3. i \notin Before(s, i)
  BY <1>1 DEF Before, Better
<1>4. ASSUME NEW j \in Before(s, i), NEW k \in Before(s, j) PROVE k \in Before(s, i)
  <2>1. j \in 1 .. Len(s) /\ k \in 1 .. Len(s) /\ Better(s, j, i) /\ Better(s, k, j)
    BY DEF Before
  <2>2. s[i].score \in Int /\ s[j].score \in Int /\ s[k].score \in Int
    BY <1>1, <2>1
  <2>3. Better(s, k, i)
    BY <2>1, <2>2 DEF Better
  <2> QED BY <2>1, <2>3 DEF Before
<1> QED BY <1>2, <1>3, <1>4

LEMMA PosTyped ==
    ASSUME NEW T, HasScores(T), NEW s \in Seq(T), NEW i \in 1 .. Len(s)
    PROVE  Pos(s, i) \in 1 .. Len(s)
<1>1. Len(s) \in Nat /\ Before(s, i) \subseteq 1 .. Len(s) /\ i \notin Before(s, i)
  BY BeforeFacts
<1>2. Cardinality(Before(s, i)) \in Nat /\ Cardinality(1 .. Len(s)) = Len(s)
  BY <1>1, CountOfSome, CountOfAll
<1>3. Cardinality(Before(s, i)) < Cardinality(1 .. Len(s))
  BY <1>1, CountOfMore
<1> QED BY <1>1, <1>2, <1>3 DEF Pos

LEMMA PosOrder ==
    ASSUME NEW T, HasScores(T), NEW s \in Seq(T), NEW i \in 1 .. Len(s), NEW j \in 1 .. Len(s),
           Better(s, i, j)
    PROVE  Pos(s, i) < Pos(s, j)
<1>1. i \in Before(s, j)
  BY DEF Before
<1>2. Before(s, i) \subseteq Before(s, j) /\ i \notin Before(s, i) /\ Before(s, j) \subseteq 1 .. Len(s)
  BY <1>1, BeforeFacts
<1>3. Len(s) \in Nat
  OBVIOUS
<1>4. Cardinality(Before(s, i)) < Cardinality(Before(s, j))
  BY <1>1, <1>2, <1>3, CountOfMore
<1>5. Cardinality(Before(s, i)) \in Nat /\ Cardinality(Before(s, j)) \in Nat
  <2>1. Before(s, i) \subseteq 1 .. Len(s)
    BY <1>2
  <2> QED BY <1>2, <1>3, <2>1, CountOfSome
<1> QED BY <1>4, <1>5 DEF Pos

LEMMA PosOneToOne ==
    ASSUME NEW T, HasScores(T), NEW s \in Seq(T), NEW i \in 1 .. Len(s), NEW j \in 1 .. Len(s),
           Pos(s, i) = Pos(s, j)
    PROVE  i = j
<1>1. s[i].score \in Int /\ s[j].score \in Int /\ i \in Int /\ j \in Int
  BY ScoreTyped
<1>2. i = j \/ Better(s, i, j) \/ Better(s, j, i)
  BY <1>1 DEF Better
<1>3. Pos(s, i) \in Int /\ Pos(s, j) \in Int
  BY PosTyped
<1> QED BY <1>2, <1>3, PosOrder

\* Every place is taken.
LEMMA PosOnto ==
    ASSUME NEW T, HasScores(T), NEW s \in Seq(T), NEW k \in 1 .. Len(s)
    PROVE  \E i \in 1 .. Len(s) : Pos(s, i) = k
<1> DEFINE N == 1 .. Len(s)
           f == [i \in N |-> Pos(s, i)]
<1>1. \A i \in N : Pos(s, i) \in N
  BY PosTyped
<1>2. f \in [N -> N]
  BY <1>1
<1>3. \A i, j \in N : f[i] = f[j] => i = j
  BY PosOneToOne
<1>4. IsFiniteSet(N)
  BY FS_Interval
<1>5. \A i \in N : f[i] = Pos(s, i)
  OBVIOUS
<1> HIDE DEF f, N
<1>6. f \in Injection(N, N)
  BY <1>2, <1>3 DEF Injection, IsInjective
<1>7. f \in Surjection(N, N)
  BY <1>4, <1>6, FS_Injection
<1>8. k \in N
  BY DEF N
<1>9. PICK i \in N : f[i] = k
  BY <1>7, <1>8 DEF Surjection
<1> QED BY <1>5, <1>9 DEF N

\* Those with at least some score come first.
LEMMA PosAmong ==
    ASSUME NEW T, HasScores(T), NEW s \in Seq(T), NEW v \in Int, NEW i \in 1 .. Len(s)
    PROVE  s[i].score >= v <=> Pos(s, i) <= Cardinality(Reaching(s, v))
<1> DEFINE R == Reaching(s, v)
<1>1. Len(s) \in Nat /\ \A j \in 1 .. Len(s) : s[j].score \in Int
  BY ScoreTyped
<1>2. \A j : j \in R <=> j \in 1 .. Len(s) /\ s[j].score >= v
  BY DEF Reaching
<1>3. \A j : j \in Before(s, i) <=> j \in 1 .. Len(s) /\ Better(s, j, i)
  BY DEF Before
<1>4. i \notin Before(s, i) /\ Before(s, i) \subseteq 1 .. Len(s) /\ R \subseteq 1 .. Len(s)
  BY <1>2, BeforeFacts
<1> HIDE DEF R
<1>5. Cardinality(R) \in Nat /\ Cardinality(Before(s, i)) \in Nat /\ IsFiniteSet(Before(s, i))
  BY <1>1, <1>4, CountOfSome
<1>6. CASE s[i].score >= v
  <2>1. i \in R
    BY <1>2, <1>6
  <2>2. Before(s, i) \subseteq R
    BY <1>1, <1>2, <1>3, <1>6 DEF Better
  <2>3. Cardinality(Before(s, i)) < Cardinality(R)
    BY <1>1, <1>4, <2>1, <2>2, CountOfMore
  <2> QED BY <1>5, <1>6, <2>3 DEF Pos, R
<1>7. CASE ~(s[i].score >= v)
  <2>1. R \subseteq Before(s, i)
    BY <1>1, <1>2, <1>3, <1>7 DEF Better
  <2>2. Cardinality(R) <= Cardinality(Before(s, i))
    BY <1>5, <2>1, FS_Subset
  <2> QED BY <1>5, <1>7, <2>2 DEF Pos, R
<1> QED BY <1>6, <1>7

\* A list in these places has as many elements with at least some score.
LEMMA SameReaching ==
    ASSUME NEW T, HasScores(T), NEW s \in Seq(T), NEW u \in Seq(T), Len(u) = Len(s),
           \A i \in 1 .. Len(s) : u[Pos(s, i)] = s[i], NEW v \in Int
    PROVE  Cardinality(Reaching(u, v)) = Cardinality(Reaching(s, v))
<1> DEFINE A == Reaching(s, v)
           B == Reaching(u, v)
           f == [i \in A |-> Pos(s, i)]
<1>1. \A i : i \in A <=> i \in 1 .. Len(s) /\ s[i].score >= v
  BY DEF Reaching
<1>2. \A k : k \in B <=> k \in 1 .. Len(s) /\ u[k].score >= v
  BY DEF Reaching
<1>3. A \subseteq 1 .. Len(s) /\ B \subseteq 1 .. Len(s) /\ Len(s) \in Nat
  BY <1>1, <1>2
<1>4. IsFiniteSet(A) /\ IsFiniteSet(B)
  BY <1>3, CountOfSome
<1>5. \A i \in A : Pos(s, i) \in B
  <2>1. \A i \in 1 .. Len(s) : Pos(s, i) \in 1 .. Len(s)
    BY PosTyped
  <2> QED BY <1>1, <1>2, <2>1
<1>6. f \in [A -> B] /\ \A i \in A : f[i] = Pos(s, i)
  BY <1>5
<1>7. \A i, j \in A : f[i] = f[j] => i = j
  <2>1. \A i, j \in 1 .. Len(s) : Pos(s, i) = Pos(s, j) => i = j
    BY PosOneToOne
  <2> HIDE DEF f, A
  <2> QED BY <1>3, <1>6, <2>1
<1>8. \A k \in B : \E i \in A : f[i] = k
  <2> SUFFICES ASSUME NEW k \in B PROVE \E i \in A : f[i] = k
    OBVIOUS
  <2>1. PICK i \in 1 .. Len(s) : Pos(s, i) = k
    BY <1>3, PosOnto
  <2>2. i \in A
    BY <1>1, <1>2, <2>1
  <2> HIDE DEF f, A
  <2> QED BY <1>6, <2>1, <2>2
<1> HIDE DEF A, B, f
<1>9. f \in Bijection(A, B)
  BY <1>6, <1>7, <1>8 DEF Bijection, Injection, Surjection, IsInjective
<1>10. ExistsBijection(A, B)
  BY <1>9 DEF ExistsBijection
<1>11. Cardinality(B) = Cardinality(A)
  BY <1>4, <1>10, FS_Bijection
<1> QED BY <1>11 DEF A, B

LEMMA InsertedAt ==
    ASSUME NEW T, NEW u \in Seq(T), NEW x \in T, NEW p \in 1 .. Len(u) + 1
    PROVE  /\ InsertAt(u, p, x) \in Seq(T) /\ Len(InsertAt(u, p, x)) = Len(u) + 1
           /\ \A k \in 1 .. Len(u) + 1 : InsertAt(u, p, x)[k] =
                 IF k < p THEN u[k] ELSE IF k = p THEN x ELSE u[k - 1]
<1> DEFINE a == SubSeq(u, 1, p - 1)
           b == <<x>>
           c == SubSeq(u, p, Len(u))
           n == Len(u)
<1>0. n \in Nat /\ p \in Nat /\ 1 <= p /\ p <= n + 1
  OBVIOUS
<1>1. a \in Seq(T) /\ Len(a) = p - 1 /\ \A i \in 1 .. p - 1 : a[i] = u[i]
  OBVIOUS
<1>2. b \in Seq(T) /\ Len(b) = 1 /\ b[1] = x
  OBVIOUS
<1>3. c \in Seq(T) /\ Len(c) = (n - p) + 1 /\ \A i \in 1 .. (n - p) + 1 : c[i] = u[(p + i) - 1]
  OBVIOUS
<1> DEFINE d == a \o b
           e == d \o c
<1> HIDE DEF a, b, c, n
<1>4. d \in Seq(T) /\ Len(d) = p /\ \A i \in 1 .. p : d[i] = IF i <= p - 1 THEN a[i] ELSE b[i - (p - 1)]
  <2>1. /\ d \in Seq(T) /\ Len(d) = Len(a) + Len(b)
        /\ \A i \in 1 .. Len(a) + Len(b) : d[i] = IF i <= Len(a) THEN a[i] ELSE b[i - Len(a)]
    BY <1>1, <1>2, ConcatProperties
  <2>2. Len(a) + Len(b) = p
    BY <1>0, <1>1, <1>2
  <2> QED BY <1>1, <2>1, <2>2
<1> HIDE DEF d
<1>5. /\ e \in Seq(T) /\ Len(e) = n + 1
      /\ \A i \in 1 .. n + 1 : e[i] = IF i <= p THEN d[i] ELSE c[i - p]
  <2>1. /\ e \in Seq(T) /\ Len(e) = Len(d) + Len(c)
        /\ \A i \in 1 .. Len(d) + Len(c) : e[i] = IF i <= Len(d) THEN d[i] ELSE c[i - Len(d)]
    BY <1>3, <1>4, ConcatProperties
  <2>2. Len(d) + Len(c) = n + 1
    BY <1>0, <1>3, <1>4
  <2> QED BY <1>4, <2>1, <2>2
<1> HIDE DEF e
<1>6. ASSUME NEW k \in 1 .. n + 1
      PROVE  e[k] = IF k < p THEN u[k] ELSE IF k = p THEN x ELSE u[k - 1]
  <2>1. CASE k < p
    <3>1. k \in 1 .. p - 1 /\ k \in 1 .. p /\ k <= p - 1 /\ k <= p
      BY <1>0, <2>1
    <3> QED BY <1>1, <1>4, <1>5, <2>1, <3>1
  <2>2. CASE k = p
    <3>1. k \in 1 .. p /\ ~(k <= p - 1) /\ k - (p - 1) = 1 /\ k <= p
      BY <1>0, <2>2
    <3> QED BY <1>2, <1>4, <1>5, <2>2, <3>1
  <2>3. CASE k > p
    <3>1. k - p \in 1 .. (n - p) + 1 /\ (p + (k - p)) - 1 = k - 1 /\ ~(k <= p)
      BY <1>0, <2>3
    <3>2. e[k] = c[k - p]
      BY <1>5, <3>1
    <3>3. c[k - p] = u[(p + (k - p)) - 1]
      BY <1>3, <3>1
    <3> QED BY <1>0, <2>3, <3>1, <3>2, <3>3
  <2> QED BY <1>0, <2>1, <2>2, <2>3
<1>7. InsertAt(u, p, x) = e
  BY DEF InsertAt, a, b, c, d, e, n
<1> QED BY <1>5, <1>6, <1>7 DEF n

\* w is u with x at place p.
IsInserted(w, u, x, p) ==
    /\ p \in 1 .. Len(u) + 1 /\ Len(w) = Len(u) + 1
    /\ \A k \in 1 .. Len(u) + 1 : w[k] = IF k < p THEN u[k] ELSE IF k = p THEN x ELSE u[k - 1]

LEMMA Inserted ==
    ASSUME NEW T, NEW u \in Seq(T), NEW x \in T, NEW p, p = Cardinality(Reaching(u, x.score)) + 1
    PROVE  Insert(u, x) \in Seq(T) /\ IsInserted(Insert(u, x), u, x, p)
<1>1. Cardinality(Reaching(u, x.score)) \in 0 .. Len(u) /\ Len(u) \in Nat
  BY ReachingCount
<1>2. p \in 1 .. Len(u) + 1
  BY <1>1
<1>3. Insert(u, x) = InsertAt(u, p, x)
  BY DEF Insert
<1> DEFINE w == InsertAt(u, p, x)
<1>4. /\ w \in Seq(T) /\ Len(w) = Len(u) + 1
      /\ \A k \in 1 .. Len(u) + 1 : w[k] = IF k < p THEN u[k] ELSE IF k = p THEN x ELSE u[k - 1]
  BY <1>2, InsertedAt
<1> HIDE DEF w
<1>5. w \in Seq(T) /\ IsInserted(w, u, x, p)
  BY <1>2, <1>4, Zenon DEF IsInserted
<1>6. Insert(u, x) = w
  BY <1>3 DEF w
<1> QED BY <1>5, <1>6

-----------------------------------------------------------------------------
InsertIn(T) == [p \in Seq(T) \X T |-> Insert(p[1], p[2])]

LEMMA ByScoreIsFolded ==
    ASSUME NEW T, NEW s \in Seq(T)
    PROVE  ByScore(s) = Folded(Seq(T), <<>>, InsertIn(T), s)
<1> DEFINE G(x, y) == Insert(x, y)
           F(f) == [n \in 0 .. Len(s) |-> IF n = 0 THEN <<>> ELSE G(f[n - 1], s[n])]
           P(f) == f = F(f)
           A == Seq(T)
           e == <<>>
           N == Len(s)
           step == InsertIn(T)
<1>1. ByScore(s) = (CHOOSE h : P(h))[N] BY DEF ByScore
<1>2. N \in Nat /\ e \in A /\ s \in Seq(T) /\ \A n \in 1 .. N : s[n] \in T OBVIOUS
<1>3. ASSUME NEW x \in A, NEW y \in T PROVE G(x, y) \in A
  BY Inserted
<1>4. ASSUME NEW x \in A, NEW y \in T PROVE step[<<x, y>>] = G(x, y)
  BY DEF InsertIn
<1>5. IsStep(step, A, T)
  BY <1>3 DEF InsertIn, IsStep
<1> HIDE DEF A, N, G, e, step
<1>6. PICK f : Run(f, A, e, step, s)
  BY <1>2, <1>5, RunExists
<1>7. P(f)
  <2>1. f[0] = e /\ f = [n \in 0 .. N |-> f[n]] BY <1>6 DEF Run, N
  <2>2. ASSUME NEW n \in 0 .. N, n # 0 PROVE f[n] = G(f[n - 1], s[n])
    <3>1. n \in 1 .. N /\ f[n - 1] \in A /\ s[n] \in T BY <1>2, <1>6, <2>2 DEF Run, N
    <3> QED BY <1>4, <1>6, <3>1 DEF Run, N
  <2>3. F(f) = [n \in 0 .. N |-> IF n = 0 THEN e ELSE G(f[n - 1], s[n])] BY DEF e, N
  <2> QED BY <2>1, <2>2, <2>3
<1> DEFINE g == CHOOSE h : P(h)
<1>8. P(g)
  <2> HIDE DEF P
  <2> QED BY <1>7, Zenon
<1> HIDE DEF g
<1>9. Steps(g, A, e, step, s)
  BY <1>2, <1>4, <1>8 DEF Steps, e, N
<1>10. g[N] = Folded(A, e, step, s)
  BY <1>2, <1>5, <1>9, FoldedBy DEF N
<1> QED BY <1>1, <1>10 DEF g, e, A, step

LEMMA ByScoreFacts ==
    ASSUME NEW T
    PROVE  /\ ByScore(<<>>) = <<>>
           /\ \A s \in Seq(T) : ByScore(s) \in Seq(T)
           /\ \A s \in Seq(T), x \in T : ByScore(Append(s, x)) = Insert(ByScore(s), x)
<1> DEFINE step == InsertIn(T)
           A == Seq(T)
           e == <<>>
           O(s) == Folded(A, e, step, s)
<1>1. IsStep(step, A, T) /\ e \in A
  <2>1. \A u \in Seq(T), x \in T : Insert(u, x) \in Seq(T)
    BY Inserted
  <2> QED BY <2>1 DEF IsStep, InsertIn
<1>2. \A s \in Seq(T) : ByScore(s) = O(s)
  BY ByScoreIsFolded
<1>3. <<>> \in Seq(T) /\ \A s \in Seq(T), x \in T : Append(s, x) \in Seq(T)
  OBVIOUS
<1>4. ASSUME NEW y \in A, NEW x \in T PROVE step[<<y, x>>] = Insert(y, x)
  BY DEF InsertIn
<1> HIDE DEF step, A, e
<1>5. /\ O(<<>>) = e
      /\ \A s \in Seq(T) : O(s) \in A
      /\ \A s \in Seq(T), x \in T : O(Append(s, x)) = step[<<O(s), x>>]
  BY <1>1, FoldedFacts
<1> HIDE DEF O
<1>6. ASSUME NEW s \in Seq(T), NEW x \in T PROVE ByScore(Append(s, x)) = Insert(ByScore(s), x)
  <2>1. Append(s, x) \in Seq(T) /\ O(s) \in A /\ O(Append(s, x)) = step[<<O(s), x>>]
    BY <1>3, <1>5
  <2> QED BY <1>2, <1>4, <2>1
<1>7. ByScore(<<>>) = <<>>
  BY <1>2, <1>3, <1>5 DEF e
<1>8. \A s \in Seq(T) : ByScore(s) \in Seq(T)
  BY <1>2, <1>5 DEF A
<1> QED BY <1>6, <1>7, <1>8

LEMMA ByScoreOfAppend ==
    ASSUME NEW T, NEW s \in Seq(T), NEW x \in T
    PROVE  ByScore(Append(s, x)) = Insert(ByScore(s), x)
<1>1. \A r \in Seq(T), y \in T : ByScore(Append(r, y)) = Insert(ByScore(r), y)
  BY ByScoreFacts
<1> QED BY <1>1, Zenon

\* u has each element of s where it goes.
InPlaces(u, s) == Len(u) = Len(s) /\ \A i \in 1 .. Len(s) : u[Pos(s, i)] = s[i]

\* Where the elements go when one more comes: it goes after those with as high a score,
\* and those with a lower one move by one.
LEMMA PosOfAppend ==
    ASSUME NEW T, HasScores(T), NEW s \in Seq(T), NEW x \in T, NEW t, t = Append(s, x)
    PROVE  /\ Pos(t, Len(s) + 1) = Cardinality(Reaching(s, x.score)) + 1
           /\ \A i \in 1 .. Len(s) :
                 Pos(t, i) = IF x.score > s[i].score THEN Pos(s, i) + 1 ELSE Pos(s, i)
<1> DEFINE n == Len(s)
<1>1. /\ n \in Nat /\ Len(t) = n + 1 /\ t[n + 1] = x /\ t \in Seq(T)
      /\ \A i \in 1 .. n : t[i] = s[i]
  OBVIOUS
<1>2. x.score \in Int /\ \A i \in 1 .. n : s[i].score \in Int
  BY ScoreTyped DEF HasScores
<1> HIDE DEF n
<1>3. \A j \in 1 .. n : j < n + 1 /\ j \in 1 .. n + 1 /\ j # n + 1
  BY <1>1
<1>4. n + 1 \in 1 .. n + 1 /\ \A j \in 1 .. n + 1 : j = n + 1 \/ j \in 1 .. n
  BY <1>1
<1>5. Before(t, n + 1) = Reaching(s, x.score)
  <2>1. DOMAIN s = 1 .. n
    BY DEF n
  <2>2. \A j : j \in Reaching(s, x.score) <=> j \in 1 .. n /\ s[j].score >= x.score
    BY <2>1 DEF Reaching
  <2>3. \A j : j \in Before(t, n + 1) <=> j \in 1 .. n + 1 /\ Better(t, j, n + 1)
    BY <1>1 DEF Before
  <2>4. \A j \in 1 .. n : Better(t, j, n + 1) <=> s[j].score >= x.score
    BY <1>1, <1>2, <1>3 DEF Better
  <2>5. ~Better(t, n + 1, n + 1)
    BY <1>1, <1>2 DEF Better
  <2> QED BY <1>3, <1>4, <2>2, <2>3, <2>4, <2>5
<1>6. ASSUME NEW i \in 1 .. n
      PROVE  Pos(t, i) = IF x.score > s[i].score THEN Pos(s, i) + 1 ELSE Pos(s, i)
  <2>1. \A j : j \in Before(t, i) <=> j \in 1 .. n + 1 /\ Better(t, j, i)
    BY <1>1 DEF Before
  <2>2. \A j : j \in Before(s, i) <=> j \in 1 .. n /\ Better(s, j, i)
    BY DEF Before, n
  <2>3. \A j \in 1 .. n : Better(t, j, i) <=> Better(s, j, i)
    BY <1>1 DEF Better
  <2>4. Better(t, n + 1, i) <=> x.score > s[i].score
    BY <1>1, <1>2, <1>3 DEF Better
  <2>5. IsFiniteSet(Before(s, i)) /\ n + 1 \notin Before(s, i)
    <3>1. Before(s, i) \subseteq 1 .. n
      BY <2>2
    <3> QED BY <1>1, <1>3, <3>1, CountOfSome
  <2>6. CASE x.score > s[i].score
    <3>1. Before(t, i) = Before(s, i) \cup {n + 1}
      BY <1>3, <1>4, <2>1, <2>2, <2>3, <2>4, <2>6
    <3>2. Cardinality(Before(t, i)) = Cardinality(Before(s, i)) + 1
      BY <2>5, <3>1, FS_AddElement
    <3> QED BY <2>6, <3>2 DEF Pos
  <2>7. CASE ~(x.score > s[i].score)
    <3>1. Before(t, i) = Before(s, i)
      BY <1>3, <1>4, <2>1, <2>2, <2>3, <2>4, <2>7
    <3> QED BY <2>7, <3>1 DEF Pos
  <2> QED BY <2>6, <2>7
<1> QED BY <1>5, <1>6 DEF Pos, n

\* What sorting does.
LEMMA Sorted ==
    ASSUME NEW T, HasScores(T)
    PROVE  \A s \in Seq(T) : InPlaces(ByScore(s), s)
<1> DEFINE G == {s \in Seq(T) : InPlaces(ByScore(s), s)}
<1>1. <<>> \in G
  <2>1. <<>> \in Seq(T) /\ ByScore(<<>>) = <<>> /\ Len(<<>>) = 0
    BY ByScoreFacts
  <2> QED BY <2>1 DEF InPlaces
<1>2. ASSUME NEW s \in Seq(T), NEW x \in T, s \in G PROVE Append(s, x) \in G
  <2> DEFINE t == Append(s, x)
             u == ByScore(s)
             w == Insert(u, x)
             n == Len(s)
             p == Cardinality(Reaching(s, x.score)) + 1
  <2>1. u \in Seq(T) /\ InPlaces(u, s) /\ x.score \in Int /\ n \in Nat
    BY <1>2, ByScoreFacts DEF HasScores
  <2>2. ByScore(t) = w
    BY ByScoreOfAppend
  <2>3. t \in Seq(T) /\ Len(t) = n + 1 /\ t[n + 1] = x /\ \A i \in 1 .. n : t[i] = s[i]
    OBVIOUS
  <2> HIDE DEF t, u
  <2>4. p = Cardinality(Reaching(u, x.score)) + 1
    BY <2>1, SameReaching DEF InPlaces
  <2> HIDE DEF p
  <2>5. Len(u) = n
    BY <2>1 DEF InPlaces
  <2>6. /\ p \in 1 .. n + 1 /\ Len(w) = n + 1
        /\ \A k \in 1 .. n + 1 : w[k] = IF k < p THEN u[k] ELSE IF k = p THEN x ELSE u[k - 1]
    <3>1. /\ p \in 1 .. Len(u) + 1 /\ Len(w) = Len(u) + 1
          /\ \A k \in 1 .. Len(u) + 1 : w[k] = IF k < p THEN u[k] ELSE IF k = p THEN x ELSE u[k - 1]
      <4>1. x \in T /\ u \in Seq(T)
        BY <2>1
      <4> HIDE DEF w, n
      <4>2. w = Insert(u, x)
        BY DEF w
      <4>3. IsInserted(Insert(u, x), u, x, p)
        BY <2>4, <4>1, Inserted
      <4> QED BY <2>4, <4>1, <4>2, <4>3 DEF IsInserted
    <3> QED BY <2>5, <3>1
  <2>7. /\ Pos(t, n + 1) = p
        /\ \A i \in 1 .. n : Pos(t, i) = IF x.score > s[i].score THEN Pos(s, i) + 1 ELSE Pos(s, i)
    BY PosOfAppend DEF p, t
  <2>8. ASSUME NEW i \in 1 .. n PROVE w[Pos(t, i)] = s[i]
    <3>1. Pos(s, i) \in 1 .. n /\ s[i].score \in Int
      BY PosTyped, ScoreTyped
    <3>2. s[i].score >= x.score <=> Pos(s, i) <= p - 1
      <4>1. s[i].score >= x.score <=> Pos(s, i) <= Cardinality(Reaching(s, x.score))
        BY <2>1, PosAmong
      <4>2. Cardinality(Reaching(s, x.score)) \in 0 .. Len(s) /\ Len(s) \in Nat
        BY ReachingCount
      <4>3. p - 1 = Cardinality(Reaching(s, x.score))
        BY <4>2 DEF p
      <4> QED BY <4>1, <4>3
    <3>3. u[Pos(s, i)] = s[i]
      BY <2>1 DEF InPlaces
    <3> DEFINE q == Pos(s, i)
    <3> HIDE DEF w, n, q
    <3>4. CASE x.score > s[i].score
      <4>a. ~(q <= p - 1) /\ q \in 1 .. n /\ p \in Int
        BY <2>1, <2>6, <3>1, <3>2, <3>4 DEF q
      <4>b. Pos(t, i) = q + 1
        BY <2>7, <3>4 DEF q
      <4>1. q + 1 \in 1 .. n + 1 /\ q + 1 > p /\ (q + 1) - 1 = q /\ Pos(t, i) = q + 1
        BY <2>1, <4>a, <4>b
      <4>2. w[q + 1] = u[q]
        BY <2>1, <2>6, <3>1, <4>1
      <4> QED BY <3>3, <4>1, <4>2 DEF q
    <3>5. CASE ~(x.score > s[i].score)
      <4>1. q \in 1 .. n + 1 /\ q < p /\ Pos(t, i) = q
        BY <2>1, <2>6, <2>7, <3>1, <3>2, <3>5 DEF q
      <4>2. w[q] = u[q]
        BY <2>6, <4>1
      <4> QED BY <3>3, <4>1, <4>2 DEF q
    <3> QED BY <3>4, <3>5
  <2>9. w[Pos(t, n + 1)] = x
    BY <2>6, <2>7
  <2>10. ASSUME NEW i \in 1 .. n + 1 PROVE w[Pos(t, i)] = t[i]
    <3>1. CASE i = n + 1
      BY <2>3, <2>9, <3>1
    <3>2. CASE i # n + 1
      <4>1. i \in 1 .. n
        BY <2>1, <3>2
      <4> QED BY <2>3, <2>8, <4>1
    <3> QED BY <3>1, <3>2
  <2> HIDE DEF w, n
  <2>11. InPlaces(w, t)
    BY <2>3, <2>6, <2>10 DEF InPlaces
  <2> QED BY <2>2, <2>3, <2>11 DEF t
<1> HIDE DEF G
<1>3. Seq(T) \subseteq G
  BY <1>1, <1>2, SeqInduct
<1> QED BY <1>3 DEF G

-----------------------------------------------------------------------------
\* The elements of s that are in S are its first K.
FirstOnes(s, S, K) == K <= Len(s) /\ \A k \in 1 .. Len(s) : s[k] \in S <=> k <= K

LEMMA OnlyFirst ==
    ASSUME NEW T, NEW S
    PROVE  \A s \in Seq(T) : \A K \in Nat : FirstOnes(s, S, K) => Only(s, S) = SubSeq(s, 1, K)
<1> DEFINE G == {s \in Seq(T) : \A K \in Nat : FirstOnes(s, S, K) => Only(s, S) = SubSeq(s, 1, K)}
<1>1. <<>> \in G
  <2>1. Only(<<>>, S) = <<>>
    BY OnlyOfEmpty
  <2>2. \A K \in Nat : FirstOnes(<<>>, S, K) => SubSeq(<<>>, 1, K) = <<>>
    <3>1. Len(<<>>) = 0 /\ SubSeq(<<>>, 1, 0) = <<>>
      OBVIOUS
    <3>2. \A K \in Nat : FirstOnes(<<>>, S, K) => K = 0
      BY <3>1 DEF FirstOnes
    <3> QED BY <3>1, <3>2
  <2>3. <<>> \in Seq(T)
    OBVIOUS
  <2> QED BY <2>1, <2>2, <2>3
<1>2. ASSUME NEW s \in Seq(T), NEW x \in T, s \in G PROVE Append(s, x) \in G
  <2> DEFINE t == Append(s, x)
             n == Len(s)
  <2>1. t \in Seq(T) /\ n \in Nat /\ Len(t) = n + 1 /\ t[n + 1] = x /\ \A i \in 1 .. n : t[i] = s[i]
    OBVIOUS
  <2>2. /\ x \in S => Only(t, S) = Append(Only(s, S), x)
        /\ x \notin S => Only(t, S) = Only(s, S)
    BY OnlyAppend
  <2>3. ASSUME NEW K \in Nat, FirstOnes(t, S, K) PROVE Only(t, S) = SubSeq(t, 1, K)
    <3>1. K <= n + 1 /\ (x \in S <=> n + 1 <= K) /\ \A k \in 1 .. n : s[k] \in S <=> k <= K
      <4>1. K <= n + 1 /\ \A k \in 1 .. n + 1 : t[k] \in S <=> k <= K
        BY <2>1, <2>3 DEF FirstOnes
      <4>2. n + 1 \in 1 .. n + 1 /\ \A k \in 1 .. n : k \in 1 .. n + 1
        BY <2>1
      <4> HIDE DEF t, n
      <4> QED BY <2>1, <4>1, <4>2
    <3>2. CASE K = n + 1
      <4>1. x \in S /\ FirstOnes(s, S, n)
        BY <2>1, <3>1, <3>2 DEF FirstOnes
      <4>2. Only(s, S) = SubSeq(s, 1, n)
        BY <1>2, <2>1, <4>1
      <4>3. SubSeq(s, 1, n) = s /\ SubSeq(t, 1, n + 1) = t
        BY <2>1
      <4> QED BY <2>2, <3>2, <4>1, <4>2, <4>3
    <3>3. CASE K # n + 1
      <4>1. x \notin S /\ FirstOnes(s, S, K) /\ K <= n
        BY <2>1, <3>1, <3>3 DEF FirstOnes
      <4>2. Only(s, S) = SubSeq(s, 1, K)
        BY <1>2, <4>1
      <4>3. SubSeq(s, 1, K) = SubSeq(t, 1, K)
        BY <2>1, <4>1
      <4> QED BY <2>2, <4>1, <4>2, <4>3
    <3> QED BY <3>2, <3>3
  <2> QED BY <2>1, <2>3
<1> HIDE DEF G
<1>3. Seq(T) \subseteq G
  BY <1>1, <1>2, SeqInduct
<1> QED BY <1>3 DEF G

\* s is the first m elements of u.
IsFirst(s, u, m) == Len(s) = m /\ \A k \in 1 .. m : s[k] = u[k]

LEMMA CutFacts ==
    ASSUME NEW T, NEW s \in Seq(T), NEW n \in Nat
    PROVE  /\ Cut(s, n) \in Seq(T) /\ Min({Len(s), n}) \in Nat
           /\ Min({Len(s), n}) <= Len(s) /\ Min({Len(s), n}) <= n
           /\ IsFirst(Cut(s, n), s, Min({Len(s), n}))
<1> DEFINE m == Min({Len(s), n})
<1>1. m \in {Len(s), n} /\ \A x \in {Len(s), n} : m <= x
  <2>1. {Len(s), n} \subseteq Nat /\ {Len(s), n} # {}
    OBVIOUS
  <2> QED BY <2>1, LeastIsMin
<1>2. m \in Nat /\ m <= Len(s) /\ m <= n /\ Len(s) \in Nat
  BY <1>1
<1> HIDE DEF m
<1>3. Cut(s, n) = SubSeq(s, 1, m)
  BY DEF Cut, m
<1>4. SubSeq(s, 1, m) \in Seq(T) /\ IsFirst(SubSeq(s, 1, m), s, m)
  BY <1>2 DEF IsFirst
<1> QED BY <1>2, <1>3, <1>4 DEF m

\* Sorted by score, the elements that reach a score are the first ones.
LEMMA ReachingFirst ==
    ASSUME NEW T, HasScores(T), NEW s \in Seq(T), NEW least \in Int, NEW u, u = ByScore(s),
           NEW K, K = Cardinality(Reaching(s, least))
    PROVE  /\ u \in Seq(T) /\ Len(u) = Len(s) /\ K \in Nat /\ K <= Len(u)
           /\ \A k \in 1 .. Len(u) : u[k].score >= least <=> k <= K
<1>1. u \in Seq(T) /\ InPlaces(u, s)
  BY ByScoreFacts, Sorted
<1>2. Len(u) = Len(s) /\ Len(s) \in Nat
  BY <1>1 DEF InPlaces
<1>3. K \in 0 .. Len(s)
  BY ReachingCount
<1>4. ASSUME NEW k \in 1 .. Len(s) PROVE u[k].score >= least <=> k <= K
  <2>1. PICK i \in 1 .. Len(s) : Pos(s, i) = k
    BY PosOnto
  <2>2. u[k] = s[i]
    BY <1>1, <2>1 DEF InPlaces
  <2>3. s[i].score >= least <=> k <= K
    BY <2>1, PosAmong
  <2> QED BY <2>2, <2>3
<1> QED BY <1>1, <1>2, <1>3, <1>4

\* Of the sorted list the first n that reach a score are the best n.
LEMMA FirstAreBest ==
    ASSUME NEW T, HasScores(T), NEW s \in Seq(T), NEW least \in Int, NEW n \in Nat,
           NEW w, NEW m, m = Min({n, Cardinality(Reaching(s, least))}), IsFirst(w, ByScore(s), m)
    PROVE  BestOf(w, s, least, n)
<1> DEFINE E == Reaching(s, least)
           u == ByScore(s)
<1>1. \A i : i \in E <=> i \in 1 .. Len(s) /\ s[i].score >= least
  BY DEF Reaching
<1>2. InPlaces(u, s) /\ Len(s) \in Nat /\ \A i \in 1 .. Len(s) : s[i].score \in Int
  BY Sorted, ScoreTyped
<1>3. m \in Nat
  <2>1. Cardinality(E) \in 0 .. Len(s)
    BY ReachingCount
  <2>2. {n, Cardinality(E)} \subseteq Nat /\ {n, Cardinality(E)} # {}
    BY <2>1
  <2> QED BY <2>2, LeastIsMin
<1> HIDE DEF E, u
<1>4. ASSUME NEW i \in E PROVE {j \in E : Better(s, j, i)} = Before(s, i)
  <2>1. \A j \in 1 .. Len(s) : Better(s, j, i) => j \in E
    BY <1>1, <1>2 DEF Better
  <2>2. E \subseteq 1 .. Len(s)
    BY <1>1
  <2> QED BY <2>1, <2>2 DEF Before
<1>5. ASSUME NEW i \in E, Cardinality({j \in E : Better(s, j, i)}) + 1 <= m
      PROVE  w[Cardinality({j \in E : Better(s, j, i)}) + 1] = s[i]
  <2>1. i \in 1 .. Len(s)
    BY <1>1
  <2>2. Cardinality({j \in E : Better(s, j, i)}) + 1 = Pos(s, i)
    BY <1>4 DEF Pos
  <2>3. Pos(s, i) \in 1 .. m
    <3>1. Pos(s, i) \in 1 .. Len(s)
      BY <2>1, PosTyped
    <3> QED BY <1>2, <1>3, <1>5, <2>2, <3>1
  <2>4. w[Pos(s, i)] = u[Pos(s, i)] /\ u[Pos(s, i)] = s[i]
    BY <1>2, <2>1, <2>3 DEF IsFirst, InPlaces, u
  <2> QED BY <2>2, <2>4
<1>6. Len(w) = m /\ m = Min({n, Cardinality(E)})
  BY DEF IsFirst, E
<1> QED BY <1>5, <1>6 DEF BestOf, E

\* What a list comprehension keeps of the sorted list, cut.
LEMMA BestTaken ==
    ASSUME NEW T, HasScores(T), NEW s \in Seq(T), NEW least \in Int, NEW n \in Nat
    PROVE  BestOf(Cut(AtLeast(ByScore(s), least), n), s, least, n)
<1> DEFINE u == ByScore(s)
           K == Cardinality(Reaching(s, least))
           S == {x \in ToSet(u) : x.score >= least}
           v == SubSeq(u, 1, K)
<1>1. /\ u \in Seq(T) /\ Len(u) = Len(s) /\ K \in Nat /\ K <= Len(u)
      /\ \A k \in 1 .. Len(u) : u[k].score >= least <=> k <= K
  BY ReachingFirst
<1>2. \A k \in 1 .. Len(u) : u[k] \in S <=> u[k].score >= least
  BY <1>1 DEF ToSet
<1>a. AtLeast(u, least) = Only(u, S)
  BY DEF AtLeast
<1> HIDE DEF u, K, S
<1>3. FirstOnes(u, S, K)
  BY <1>1, <1>2 DEF FirstOnes
<1>4. Only(u, S) = v
  BY <1>1, <1>3, OnlyFirst
<1>5. v \in Seq(T) /\ Len(v) = K /\ \A k \in 1 .. K : v[k] = u[k]
  BY <1>1
<1> HIDE DEF v
<1> DEFINE m == Min({K, n})
           w == Cut(v, n)
<1>6. m \in Nat /\ m <= K /\ IsFirst(w, v, m)
  BY <1>5, CutFacts
<1> HIDE DEF m, w
<1>7. IsFirst(w, u, m)
  BY <1>1, <1>5, <1>6 DEF IsFirst
<1>8. m = Min({n, K})
  <2>1. {K, n} = {n, K}
    OBVIOUS
  <2> QED BY <2>1 DEF m
<1>9. BestOf(w, s, least, n)
  BY <1>7, <1>8, FirstAreBest DEF u, K
<1> QED BY <1>a, <1>4, <1>9 DEF u, w

\* The element that no other is better than comes first.
LEMMA BestFirst ==
    ASSUME NEW T, HasScores(T), NEW s \in Seq(T), NEW i \in 1 .. Len(s),
           \A j \in 1 .. Len(s) : ~Better(s, j, i)
    PROVE  ByScore(s)[1] = s[i]
<1>1. Before(s, i) = {}
  BY DEF Before
<1>2. Pos(s, i) = 1
  BY <1>1, FS_EmptySet DEF Pos
<1>3. InPlaces(ByScore(s), s)
  BY Sorted
<1> QED BY <1>2, <1>3 DEF InPlaces

\* A list comprehension over the sorted list that is cut first leaves the best as well.
LEMMA BestCutTaken ==
    ASSUME NEW T, HasScores(T), NEW s \in Seq(T), NEW least \in Int, NEW n \in Nat,
           NEW w, w = AtLeast(Cut(ByScore(s), n), least)
    PROVE  /\ BestOf(w, s, least, n)
           /\ \E m \in Nat : m <= Len(s) /\ IsFirst(w, ByScore(s), m)
           /\ w \in Seq(T)
<1> DEFINE u == ByScore(s)
           K == Cardinality(Reaching(s, least))
           c == Cut(u, n)
           S == {x \in ToSet(c) : x.score >= least}
           M == Min({Len(u), n})
           m == Min({n, K})
           v == SubSeq(c, 1, m)
<1>1. /\ u \in Seq(T) /\ Len(u) = Len(s) /\ K \in Nat /\ K <= Len(u)
      /\ \A k \in 1 .. Len(u) : u[k].score >= least <=> k <= K
  BY ReachingFirst
<1>2. w = Only(c, S)
  BY DEF AtLeast
<1> HIDE DEF u, K
<1>3. c \in Seq(T) /\ M \in Nat /\ M <= Len(u) /\ M <= n /\ IsFirst(c, u, M)
  BY <1>1, CutFacts
<1>4. M \in {Len(u), n} /\ m \in {n, K} /\ m <= n /\ m <= K
  <2>1. {Len(u), n} \subseteq Nat /\ {n, K} \subseteq Nat /\ {Len(u), n} # {} /\ {n, K} # {}
    BY <1>1
  <2> QED BY <2>1, LeastIsMin
<1>5. \A k \in 1 .. Len(c) : c[k] \in S <=> c[k].score >= least
  BY <1>3 DEF ToSet
<1> HIDE DEF c, S, M, m
<1>6. FirstOnes(c, S, m)
  <2>1. Len(c) = M /\ \A k \in 1 .. M : c[k] = u[k]
    BY <1>3 DEF IsFirst
  <2>2. m <= M
    BY <1>1, <1>3, <1>4
  <2>3. ASSUME NEW k \in 1 .. M PROVE c[k] \in S <=> k <= m
    <3>1. k \in 1 .. Len(u) /\ k <= n
      BY <1>1, <1>3
    <3>2. c[k] \in S <=> k <= K
      BY <1>1, <1>5, <2>1, <3>1
    <3>3. k <= K <=> k <= m
      BY <1>1, <1>4, <3>1
    <3> QED BY <3>2, <3>3
  <2> QED BY <2>1, <2>2, <2>3 DEF FirstOnes
<1>7. m \in Nat
  BY <1>1, <1>4
<1>8. w = v
  BY <1>2, <1>3, <1>6, <1>7, OnlyFirst
<1>9. v \in Seq(T) /\ IsFirst(v, u, m) /\ m <= Len(s)
  <2>1. m <= Len(c) /\ Len(c) = M /\ \A k \in 1 .. M : c[k] = u[k]
    BY <1>3, <1>6 DEF IsFirst, FirstOnes
  <2>2. v \in Seq(T) /\ Len(v) = m /\ \A k \in 1 .. m : v[k] = c[k]
    BY <1>3, <1>7, <2>1
  <2> HIDE DEF v
  <2>3. \A k \in 1 .. m : k \in 1 .. M
    BY <1>3, <1>7, <2>1
  <2> QED BY <1>1, <1>3, <2>1, <2>2, <2>3 DEF IsFirst
<1>10. BestOf(w, s, least, n)
  BY <1>8, <1>9, FirstAreBest DEF u, K, m
<1> QED BY <1>7, <1>8, <1>9, <1>10 DEF u

\* Of a list whose elements after the first are in S the comprehension leaves all, or
\* all but the first.
LEMMA OnlyAfterFirst ==
    ASSUME NEW T, NEW S
    PROVE  \A s \in Seq(T) : (\A i \in 2 .. Len(s) : s[i] \in S) => Only(s, S) = s \/ (s # <<>> /\ s[1] \notin S /\ Only(s, S) = Tail(s))
<1> DEFINE P(s) == \A i \in 2 .. Len(s) : s[i] \in S
           Q(s) == Only(s, S) = s \/ (s # <<>> /\ s[1] \notin S /\ Only(s, S) = Tail(s))
           G == {s \in Seq(T) : P(s) => Q(s)}
<1>1. <<>> \in G
  BY OnlyOfEmpty
<1>2. ASSUME NEW s \in Seq(T), NEW x \in T, s \in G PROVE Append(s, x) \in G
  <2> DEFINE t == Append(s, x)
  <2>1. t \in Seq(T) /\ Len(s) \in Nat /\ Len(t) = Len(s) + 1 /\ t[Len(s) + 1] = x /\ \A i \in 1 .. Len(s) : t[i] = s[i]
    OBVIOUS
  <2>2. /\ x \in S => Only(t, S) = Append(Only(s, S), x)
        /\ x \notin S => Only(t, S) = Only(s, S)
    BY OnlyAppend
  <2>3. ASSUME P(t) PROVE Q(t)
    <3>1. CASE s = <<>>
      <4>1. t = <<x>> /\ Tail(t) = <<>> /\ t[1] = x /\ t # <<>> /\ Append(<<>>, x) = t
        BY <3>1
      <4>2. Only(s, S) = <<>>
        BY <3>1, OnlyOfEmpty
      <4> QED BY <2>2, <4>1, <4>2
    <3>2. CASE s # <<>>
      <4>1. Len(s) + 1 \in 2 .. Len(t) /\ 1 \in 1 .. Len(s) /\ \A i \in 2 .. Len(s) : i \in 2 .. Len(t) /\ i \in 1 .. Len(s)
        BY <2>1, <3>2
      <4>2. x \in S /\ P(s)
        BY <2>1, <2>3, <4>1
      <4>3. Q(s)
        BY <1>2, <4>2
      <4>4. Only(t, S) = Append(Only(s, S), x) /\ t[1] = s[1] /\ t # <<>>
        BY <2>1, <2>2, <4>1, <4>2
      <4>5. Append(Tail(s), x) = Tail(t)
        BY <3>2
      <4> QED BY <4>3, <4>4, <4>5
    <3> QED BY <3>1, <3>2
  <2> QED BY <2>1, <2>3
<1> HIDE DEF G
<1>3. Seq(T) \subseteq G
  BY <1>1, <1>2, SeqInduct
<1> QED BY <1>3 DEF G

\* A sequence over a set is one over a larger set.
LEMMA SeqSubset ==
    ASSUME NEW S, NEW T, S \subseteq T, NEW s \in Seq(S)
    PROVE  s \in Seq(T)
<1>1. Len(s) \in Nat /\ s = [i \in 1 .. Len(s) |-> s[i]] /\ \A i \in 1 .. Len(s) : s[i] \in S
  OBVIOUS
<1>2. \A i \in 1 .. Len(s) : s[i] \in T
  BY <1>1
<1> QED BY <1>1, <1>2

\* What a comprehension keeps, and a cut list, are lists of the same elements.
LEMMA SelectedTyped ==
    ASSUME NEW T, NEW s \in Seq(T), NEW n \in Nat, NEW S
    PROVE  Only(Cut(s, n), S) \in Seq(T)
<1>1. Cut(s, n) \in Seq(T)
  BY CutFacts
<1> QED BY <1>1, OnlyTyped

-----------------------------------------------------------------------------
\* s is the end of t: what IsSuffix says, place by place from the end.
Trails(s, t) ==
    /\ Len(s) <= Len(t)
    /\ \A k \in 0 .. Len(s) - 1 : s[Len(s) - k] = t[Len(t) - k]

LEMMA TrailsIsSuffix ==
    ASSUME NEW S, NEW s \in Seq(S), NEW t \in Seq(S), Trails(s, t)
    PROVE  IsSuffix(s, t)
<1>1. /\ Len(Reverse(s)) = Len(s) /\ \A i \in 1 .. Len(s) : Reverse(s)[i] = s[Len(s) - i + 1]
      /\ Len(Reverse(t)) = Len(t) /\ \A i \in 1 .. Len(t) : Reverse(t)[i] = t[Len(t) - i + 1]
      /\ Reverse(s) \in Seq(S) /\ Reverse(t) \in Seq(S)
  BY DEF Reverse
<1>2. ASSUME NEW i \in 1 .. Len(s)
      PROVE  Reverse(s)[i] = Reverse(t)[i]
  <2>1. Len(s) \in Nat /\ Len(t) \in Nat /\ Len(s) <= Len(t)
    BY DEF Trails
  <2>2. i - 1 \in 0 .. Len(s) - 1 /\ i \in 1 .. Len(t)
    BY <2>1
  <2>3. s[Len(s) - (i - 1)] = t[Len(t) - (i - 1)]
    BY <2>2 DEF Trails
  <2>4. Len(s) - (i - 1) = Len(s) - i + 1 /\ Len(t) - (i - 1) = Len(t) - i + 1
    BY <2>1
  <2>5. Reverse(s)[i] = s[Len(s) - i + 1] /\ Reverse(t)[i] = t[Len(t) - i + 1]
    BY <1>1, <2>2
  <2> QED BY <2>3, <2>4, <2>5
<1>3. Len(s) <= Len(t)
  BY DEF Trails
<1>4. SubSeq(Reverse(s), 1, Len(s)) = SubSeq(Reverse(t), 1, Len(s))
  BY <1>1, <1>2, <1>3
<1> QED BY <1>1, <1>3, <1>4 DEF IsSuffix, IsPrefix

\* A sorted list has the elements it was made of, the highest score first.
LEMMA SortedFacts ==
    ASSUME NEW T, HasScores(T), NEW s \in Seq(T)
    PROVE  /\ ByScore(s) \in Seq(T) /\ ToSet(ByScore(s)) = ToSet(s) /\ Len(ByScore(s)) = Len(s)
           /\ \A i, j \in 1 .. Len(s) : i < j => ByScore(s)[i].score >= ByScore(s)[j].score
<1> DEFINE u == ByScore(s)
           n == Len(s)
<1>1. u \in Seq(T) /\ InPlaces(u, s)
  BY ByScoreFacts, Sorted
<1>2. \A i \in 1 .. n : Pos(s, i) \in 1 .. n
  BY PosTyped
<1>3. \A k \in 1 .. n : \E i \in 1 .. n : Pos(s, i) = k
  BY PosOnto
<1> HIDE DEF u
<1>4. Len(u) = n /\ n \in Nat /\ \A i \in 1 .. n : u[Pos(s, i)] = s[i]
  BY <1>1 DEF InPlaces
<1>5. \A x : x \in ToSet(u) <=> \E k \in 1 .. n : x = u[k]
  BY <1>1, <1>4 DEF ToSet
<1>6. \A x : x \in ToSet(s) <=> \E i \in 1 .. n : x = s[i]
  BY DEF ToSet
<1>7. ToSet(u) = ToSet(s)
  <2>1. ASSUME NEW x \in ToSet(u) PROVE x \in ToSet(s)
    <3>1. PICK k \in 1 .. n : x = u[k]
      BY <1>5
    <3>2. PICK i \in 1 .. n : Pos(s, i) = k
      BY <1>3
    <3> QED BY <1>4, <1>6, <3>1, <3>2
  <2>2. ASSUME NEW x \in ToSet(s) PROVE x \in ToSet(u)
    <3>1. PICK i \in 1 .. n : x = s[i]
      BY <1>6
    <3> QED BY <1>2, <1>4, <1>5, <3>1
  <2> QED BY <2>1, <2>2
<1>8. ASSUME NEW k \in 1 .. n, NEW l \in 1 .. n, k < l PROVE u[k].score >= u[l].score
  <2>1. PICK i \in 1 .. n : Pos(s, i) = k
    BY <1>3
  <2>2. PICK j \in 1 .. n : Pos(s, j) = l
    BY <1>3
  <2>3. ~Better(s, j, i)
    <3>1. Better(s, j, i) => Pos(s, j) < Pos(s, i)
      BY PosOrder
    <3> QED BY <1>8, <2>1, <2>2, <3>1
  <2>4. s[i].score \in Int /\ s[j].score \in Int
    BY DEF HasScores
  <2>5. s[i].score >= s[j].score
    BY <2>3, <2>4 DEF Better
  <2> QED BY <1>4, <2>1, <2>2, <2>5
<1> QED BY <1>1, <1>4, <1>7, <1>8 DEF u

\* The greatest of some numbers.
LEMMA GreatestIs ==
    ASSUME NEW S, S \subseteq Int, NEW m \in S, \A x \in S : x <= m
    PROVE  Max(S) = m
<1>1. \A y \in S : m >= y
  OBVIOUS
<1>2. Max(S) \in S /\ \A y \in S : Max(S) >= y
  BY <1>1 DEF Max
<1>3. Max(S) \in Int /\ m \in Int /\ m >= Max(S) /\ Max(S) >= m
  BY <1>1, <1>2
<1> HIDE DEF Max
<1> QED BY <1>3

NamedBy(R, name, n) == R = {name[i] : i \in 1 .. n}

\* Distinct names are as many as what they name.
LEMMA CountOfNames ==
    ASSUME NEW n \in Nat, NEW name, \A i, j \in 1 .. n : name[i] = name[j] => i = j,
           NEW R, NamedBy(R, name, n)
    PROVE  Cardinality(R) = n
<1> DEFINE D == 1 .. n
           f == [i \in D |-> name[i]]
<1>1. f \in [D -> R] /\ (\A i, j \in D : f[i] = f[j] => i = j) /\ \A y \in R : \E i \in D : f[i] = y
  BY DEF NamedBy
<1> HIDE DEF f, D
<1>2. f \in Injection(D, R)
  BY <1>1 DEF Injection, IsInjective
<1>3. f \in Surjection(D, R)
  BY <1>1 DEF Surjection
<1>4. ExistsBijection(D, R)
  BY <1>2, <1>3 DEF Bijection, ExistsBijection
<1>5. IsFiniteSet(D) /\ Cardinality(D) = n
  BY CountOfAll DEF D
<1>6. Cardinality(R) = Cardinality(D)
  BY <1>4, <1>5, FS_Bijection
<1> QED BY <1>5, <1>6

\* Two lists without repetition and without common elements.
LEMMA ConcatDistinct ==
    ASSUME NEW T, NEW s \in Seq(T), NEW t \in Seq(T), NEW u, u = s \o t
    PROVE  /\ u \in Seq(T) /\ ToSet(u) = ToSet(s) \cup ToSet(t)
           /\ (IsInjective(s) /\ IsInjective(t) /\ ToSet(s) \cap ToSet(t) = {}) => IsInjective(u)
<1> DEFINE m == Len(s)
           n == Len(t)
<1>1. /\ u \in Seq(T) /\ Len(u) = m + n
      /\ \A i \in 1 .. m + n : u[i] = IF i <= m THEN s[i] ELSE t[i - m]
  BY ConcatProperties
<1>2. m \in Nat /\ n \in Nat /\ DOMAIN s = 1 .. m /\ DOMAIN t = 1 .. n /\ DOMAIN u = 1 .. m + n
  BY <1>1
<1> HIDE DEF m, n
<1>3. \A i \in 1 .. m : i \in 1 .. m + n /\ u[i] = s[i]
  BY <1>1, <1>2
<1>4. \A i \in 1 .. n : i + m \in 1 .. m + n /\ u[i + m] = t[i]
  BY <1>1, <1>2
<1>5. \A i \in 1 .. m + n : i \in 1 .. m \/ (i - m \in 1 .. n /\ (i - m) + m = i)
  BY <1>2
<1>6. ToSet(u) = ToSet(s) \cup ToSet(t)
  <2>1. \A y \in ToSet(u) : y \in ToSet(s) \cup ToSet(t)
    <3> TAKE y \in ToSet(u)
    <3>1. PICK i \in 1 .. m + n : u[i] = y
      BY <1>2 DEF ToSet
    <3>2. CASE i \in 1 .. m
      BY <1>2, <1>3, <3>1, <3>2 DEF ToSet
    <3>3. CASE i - m \in 1 .. n /\ (i - m) + m = i
      <4>1. t[i - m] = y
        BY <1>4, <3>1, <3>3
      <4> QED BY <1>2, <3>3, <4>1 DEF ToSet
    <3> QED BY <1>5, <3>2, <3>3
  <2>2. \A y \in ToSet(s) : y \in ToSet(u)
    BY <1>2, <1>3 DEF ToSet
  <2>3. \A y \in ToSet(t) : y \in ToSet(u)
    BY <1>2, <1>4 DEF ToSet
  <2> QED BY <2>1, <2>2, <2>3
<1>7. ASSUME IsInjective(s), IsInjective(t), ToSet(s) \cap ToSet(t) = {} PROVE IsInjective(u)
  <2>1. \A i \in 1 .. m, j \in 1 .. n : s[i] # t[j]
    BY <1>2, <1>7 DEF ToSet
  <2> SUFFICES ASSUME NEW i \in 1 .. m + n, NEW j \in 1 .. m + n, u[i] = u[j] PROVE i = j
    BY <1>2 DEF IsInjective
  <2>2. CASE i \in 1 .. m /\ j \in 1 .. m
    BY <1>2, <1>3, <1>7, <2>2 DEF IsInjective
  <2>3. CASE i \in 1 .. m /\ (j - m \in 1 .. n /\ (j - m) + m = j)
    <3>1. u[j] = t[j - m]
      BY <1>4, <2>3
    <3> QED BY <1>3, <2>1, <2>3, <3>1
  <2>4. CASE j \in 1 .. m /\ (i - m \in 1 .. n /\ (i - m) + m = i)
    <3>1. u[i] = t[i - m]
      BY <1>4, <2>4
    <3> QED BY <1>3, <2>1, <2>4, <3>1
  <2>5. CASE (i - m \in 1 .. n /\ (i - m) + m = i) /\ (j - m \in 1 .. n /\ (j - m) + m = j)
    <3>1. u[i] = t[i - m] /\ u[j] = t[j - m]
      BY <1>4, <2>5
    <3>2. i - m = j - m
      BY <1>2, <1>7, <2>5, <3>1 DEF IsInjective
    <3> QED BY <2>5, <3>2
  <2> QED BY <1>5, <2>2, <2>3, <2>4, <2>5
<1> QED BY <1>1, <1>6, <1>7

-----------------------------------------------------------------------------
(* A step that is taken n times. *)

Zeros(n) == [i \in 1 .. n |-> 0]

IsMap(step, A) == step \in [A -> A]

\* f has what n steps from a lead to, for every n up to N.
Goes(f, A, a, step, N) ==
    /\ f \in [0 .. N -> A] /\ f[0] = a
    /\ \A n \in 1 .. N : f[n] = step[f[n - 1]]

\* The same of an f that is not known to stay in A.
Tracks(f, A, a, step, N) ==
    /\ f[0] = a
    /\ \A n \in 1 .. N : f[n - 1] \in A => f[n] = step[f[n - 1]]

Ignoring(A, step) == [p \in A \X {0} |-> step[p[1]]]

Times(A, a, step, n) == Folded(A, a, Ignoring(A, step), Zeros(n))

LEMMA ZerosFacts ==
    ASSUME NEW n \in Nat
    PROVE  Zeros(n) \in Seq({0}) /\ Len(Zeros(n)) = n /\ Append(Zeros(n), 0) = Zeros(n + 1)
<1>1. Zeros(n) \in Seq({0}) /\ Len(Zeros(n)) = n
  BY DEF Zeros
<1>2. Zeros(n + 1) \in Seq({0}) /\ Len(Zeros(n + 1)) = n + 1
  BY DEF Zeros
<1>3. Append(Zeros(n), 0) = Zeros(n + 1)
  BY DEF Zeros
<1> QED BY <1>1, <1>3

LEMMA IgnoringSteps ==
    ASSUME NEW A, NEW step, IsMap(step, A)
    PROVE  /\ IsStep(Ignoring(A, step), A, {0})
           /\ \A x \in A : Ignoring(A, step)[<<x, 0>>] = step[x]
BY DEF IsMap, IsStep, Ignoring

LEMMA TimesFacts ==
    ASSUME NEW A, NEW a \in A, NEW step, IsMap(step, A)
    PROVE  /\ Times(A, a, step, 0) = a
           /\ \A n \in Nat : /\ Times(A, a, step, n) \in A
                             /\ Times(A, a, step, n + 1) = step[Times(A, a, step, n)]
<1> DEFINE way == Ignoring(A, step)
           B == {0}
           O(s) == Folded(A, a, way, s)
<1>1. IsStep(way, A, B) /\ \A x \in A : way[<<x, 0>>] = step[x]
  BY IgnoringSteps
<1>2. 0 \in B /\ \A n \in Nat : Zeros(n) \in Seq(B) /\ Append(Zeros(n), 0) = Zeros(n + 1)
  BY ZerosFacts
<1>3. Zeros(0) = <<>>
  BY DEF Zeros
<1> HIDE DEF way, B
<1>4. /\ O(<<>>) = a
      /\ \A s \in Seq(B) : O(s) \in A
      /\ \A s \in Seq(B), x \in B : O(Append(s, x)) = way[<<O(s), x>>]
  BY <1>1, FoldedFacts
<1>5. \A n : Times(A, a, step, n) = O(Zeros(n))
  BY DEF Times, way
<1> HIDE DEF O
<1>6. ASSUME NEW n \in Nat
      PROVE  O(Zeros(n)) \in A /\ O(Zeros(n + 1)) = step[O(Zeros(n))]
  <2>1. O(Zeros(n)) \in A /\ O(Append(Zeros(n), 0)) = way[<<O(Zeros(n)), 0>>]
    BY <1>2, <1>4
  <2> QED BY <1>1, <1>2, <2>1
<1> QED BY <1>3, <1>4, <1>5, <1>6

LEMMA TimesExists ==
    ASSUME NEW A, NEW a \in A, NEW step, IsMap(step, A), NEW N \in Nat
    PROVE  \E f : Goes(f, A, a, step, N)
<1> DEFINE f == [n \in 0 .. N |-> Times(A, a, step, n)]
           T(n) == Times(A, a, step, n)
<1>1. T(0) = a /\ \A n \in Nat : T(n) \in A /\ T(n + 1) = step[T(n)]
  BY TimesFacts
<1> HIDE DEF T
<1>2. f = [n \in 0 .. N |-> T(n)]
  BY DEF T
<1> HIDE DEF f
<1>3. f \in [0 .. N -> A] /\ f[0] = a
  BY <1>1, <1>2
<1>4. ASSUME NEW n \in 1 .. N PROVE f[n] = step[f[n - 1]]
  <2>1. n - 1 \in Nat /\ n - 1 \in 0 .. N /\ n \in 0 .. N /\ (n - 1) + 1 = n
    OBVIOUS
  <2>2. T((n - 1) + 1) = step[T(n - 1)]
    BY <1>1, <2>1
  <2> QED BY <1>2, <2>1, <2>2
<1>5. Goes(f, A, a, step, N)
  BY <1>3, <1>4 DEF Goes
<1> QED BY <1>5

LEMMA TimesIs ==
    ASSUME NEW A, NEW a \in A, NEW step, IsMap(step, A), NEW N \in Nat,
           NEW g, Tracks(g, A, a, step, N)
    PROVE  g[N] = Times(A, a, step, N)
<1> DEFINE way == Ignoring(A, step)
           B == {0}
           s == Zeros(N)
<1>1. IsStep(way, A, B) /\ \A x \in A : way[<<x, 0>>] = step[x]
  BY IgnoringSteps
<1>2. s \in Seq(B) /\ Len(s) = N /\ \A n \in 1 .. N : s[n] = 0
  BY ZerosFacts DEF Zeros
<1>3. Times(A, a, step, N) = Folded(A, a, way, s)
  BY DEF Times
<1> HIDE DEF way, B, s
<1>4. Steps(g, A, a, way, s)
  BY <1>1, <1>2 DEF Steps, Tracks
<1>5. g[Len(s)] = Folded(A, a, way, s)
  BY <1>1, <1>2, <1>4, FoldedBy
<1> QED BY <1>2, <1>3, <1>5
=================================================================================
