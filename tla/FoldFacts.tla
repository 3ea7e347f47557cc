------------------------------ MODULE FoldFacts ------------------------------
(***************************************************************************)
(* The fold of a sequence, step by step.                                   *)
(*                                                                         *)
(* FoldLeft folds over the set of a sequence's indices, from the greatest  *)
(* on.  Its values on the initial segments form a run: they begin with the *)
(* base, and each follows from the one before by the operator.  A module   *)
(* that folds with an operator of its own instantiates this one for it and *)
(* shows by induction over the run what the fold computes.                 *)
(***************************************************************************)
EXTENDS Integers, Sequences, SequencesExt, WellFoundedInduction, TLAPS

CONSTANT Op(_, _)   \* what is folded with

Fold(base, seq) == FoldLeft(Op, base, seq)

\* A set of numbers has a least one: all induction here is by least elements.
LEMMA NatMin ==
  ASSUME NEW T, T \subseteq Nat, T # {}
  PROVE  \E n \in T : \A m \in T : n <= m
<1>1. IsWellFoundedOn(OpToRel(<, Nat), Nat)
  BY NatLessThanWellFounded, Zenon
<1>2. \E x \in T : \A y \in T : ~ (<<y, x>> \in OpToRel(<, Nat))
  BY <1>1, WFMin, Zenon
<1>3. OpToRel(<, Nat) = {ss \in Nat \X Nat : ss[1] < ss[2]}
  BY Zenon DEF OpToRel
<1>4. PICK n \in T : \A y \in T : ~ (<<y, n>> \in {ss \in Nat \X Nat : ss[1] < ss[2]})
  BY <1>2, <1>3, Zenon
<1>5. ASSUME NEW m \in T PROVE n <= m
  <2>1. ~ (<<m, n>> \in {ss \in Nat \X Nat : ss[1] < ss[2]})
    BY <1>4, Zenon
  <2>2. <<m, n>> \in Nat \X Nat /\ <<m, n>>[1] = m /\ <<m, n>>[2] = n /\ m \in Nat /\ n \in Nat
    OBVIOUS
  <2>3. ~ (m < n)
    BY <2>1, <2>2, Zenon
  <2> QED
    BY <2>2, <2>3
<1> QED
  BY <1>5, Zenon

\* A set that holds 0 and with each number the next holds all numbers up to n.
LEMMA Induction ==
  ASSUME NEW n \in Nat, NEW T, 0 \in T, \A k \in 0 .. n - 1 : k \in T => k + 1 \in T
  PROVE  \A k \in 0 .. n : k \in T
<1> DEFINE gaps == {k \in 0 .. n : k \notin T}
<1>1. SUFFICES ASSUME gaps # {} PROVE FALSE
  OBVIOUS
<1>2. PICK k \in gaps : \A m \in gaps : k <= m
  <2>1. gaps \subseteq Nat
    OBVIOUS
  <2> HIDE DEF gaps
  <2> QED
    BY <1>1, <2>1, NatMin, Zenon
<1>3. k \in 1 .. n /\ k - 1 \notin gaps
  BY <1>2
<1>4. k - 1 \in T /\ k - 1 \in 0 .. n - 1 /\ k = (k - 1) + 1
  BY <1>3
<1> QED
  BY <1>2, <1>4

\* Sequences are equal if their elements are.
LEMMA SameSequence ==
  ASSUME NEW T, NEW s \in Seq(T), NEW t \in Seq(T), Len(s) = Len(t), \A i \in 1 .. Len(s) : s[i] = t[i]
  PROVE  s = t
<1>1. DOMAIN s = 1 .. Len(s) /\ DOMAIN t = 1 .. Len(s)
  OBVIOUS
<1>2. s = [i \in DOMAIN s |-> s[i]] /\ t = [i \in DOMAIN t |-> t[i]]
  OBVIOUS
<1> QED
  BY <1>1, <1>2, Zenon

\* What the fold of the first m elements is defined by.
Equation(base, seq, m, g) ==
    g = [s \in SUBSET (1 .. m) |->
            IF s = {} THEN base ELSE LET x == Max(s) IN Op(g[s \ {x}], seq[x])]

\* The greatest number up to m of a set that holds m.
LEMMA MaxIsLast ==
  ASSUME NEW m \in Nat, NEW s \in SUBSET (1 .. m), m \in s
  PROVE  Max(s) = m
<1>1. m \in s /\ \A y \in s : m >= y
  OBVIOUS
<1>2. \A x \in s : (\A y \in s : x >= y) => x = m
  <2> TAKE x \in s
  <2> HAVE \A y \in s : x >= y
  <2>1. x >= m /\ m >= x /\ x \in Int
    BY <1>1
  <2> QED
    BY <2>1
<1>3. Max(s) = CHOOSE x \in s : \A y \in s : x >= y
  BY Zenon DEF Max
<1> QED
  BY <1>1, <1>2, <1>3, Zenon

\* A fold is a CHOOSE of a function with its equation; there is one.
LEMMA FoldDefined ==
  ASSUME NEW base, NEW seq, NEW n \in Nat
  PROVE  \E g : Equation(base, seq, n, g)
<1> DEFINE T == {m \in 0 .. n : \E g : Equation(base, seq, m, g)}
<1>1. 0 \in T
  <2> DEFINE g == [s \in SUBSET (1 .. 0) |-> base]
  <2>1. \A s \in SUBSET (1 .. 0) : s = {}
    OBVIOUS
  <2>2. Equation(base, seq, 0, g)
    BY <2>1, Zenon DEF Equation
  <2> QED
    BY <2>2
<1>2. ASSUME NEW k \in 0 .. n - 1, k \in T
      PROVE  k + 1 \in T
  <2>1. PICK g : Equation(base, seq, k, g)
    BY <1>2
  <2> DEFINE m == k + 1
             h == [s \in SUBSET (1 .. m) |-> IF m \in s THEN Op(g[s \ {m}], seq[m]) ELSE g[s]]
  <2>2. ASSUME NEW s \in SUBSET (1 .. m)
        PROVE  h[s] = IF s = {} THEN base ELSE LET x == Max(s) IN Op(h[s \ {x}], seq[x])
    <3>1. CASE m \in s
      <4>1. Max(s) = m
        BY <3>1, MaxIsLast
      <4>2. s \ {m} \in SUBSET (1 .. m) /\ m \notin s \ {m} /\ s # {}
        BY <3>1
      <4>3. h[s \ {m}] = g[s \ {m}]
        BY <4>2, Zenon
      <4>4. h[s] = Op(g[s \ {m}], seq[m])
        BY <3>1, Zenon
      <4> QED
        BY <4>1, <4>2, <4>3, <4>4, Zenon
    <3>2. CASE m \notin s
      <4>1. s \in SUBSET (1 .. k)
        BY <3>2
      <4>2. h[s] = g[s]
        BY <3>2, Zenon
      <4>3. g[s] = IF s = {} THEN base ELSE LET x == Max(s) IN Op(g[s \ {x}], seq[x])
        BY <2>1, <4>1, Zenon DEF Equation
      <4>4. \A x : h[s \ {x}] = g[s \ {x}]
        <5> TAKE x
        <5>1. s \ {x} \in SUBSET (1 .. m) /\ m \notin s \ {x}
          BY <3>2
        <5> QED
          BY <5>1, Zenon
      <4> QED
        BY <4>2, <4>3, <4>4, Zenon
    <3> QED
      BY <3>1, <3>2
  <2>3. Equation(base, seq, m, h)
    <3> DEFINE F(s) == IF s = {} THEN base ELSE LET x == Max(s) IN Op(h[s \ {x}], seq[x])
    <3>1. \A s \in SUBSET (1 .. m) : h[s] = F(s)
      BY <2>2, Zenon
    <3>2. h = [s \in SUBSET (1 .. m) |-> h[s]]
      BY Zenon
    <3>3. [s \in SUBSET (1 .. m) |-> h[s]] = [s \in SUBSET (1 .. m) |-> F(s)]
      <4> HIDE DEF h, F
      <4> QED
        BY <3>1, Zenon
    <3> HIDE DEF h
    <3>4. h = [s \in SUBSET (1 .. m) |-> F(s)]
      BY <3>2, <3>3, Zenon
    <3> QED
      BY <3>4, Zenon DEF Equation
  <2> QED
    BY <2>3
<1> HIDE DEF T
<1>3. \A k \in 0 .. n : k \in T
  BY <1>1, <1>2, Induction, Zenon
<1> QED
  BY <1>3 DEF T

\* A fold goes through the sequence, one element after the other.
IsRun(base, seq, h) ==
    /\ h[0] = base
    /\ \A k \in 0 .. Len(seq) - 1 : h[k + 1] = Op(h[k], seq[k + 1])

\* The fold of a sequence is the end of a run over it, whatever the operator.
LEMMA FoldRuns ==
  ASSUME NEW S, NEW seq \in Seq(S), NEW base
  PROVE  \E h : IsRun(base, seq, h) /\ h[Len(seq)] = Fold(base, seq)
<1> DEFINE n == Len(seq)
<1>1. n \in Nat /\ DOMAIN seq = 1 .. n
  OBVIOUS
<1> DEFINE iter == CHOOSE g : Equation(base, seq, n, g)
<1>2. Equation(base, seq, n, iter)
  BY <1>1, FoldDefined, Zenon
<1>3. Fold(base, seq) = iter[1 .. n]
  <2>1. Fold(base, seq) = (CHOOSE g : Equation(base, seq, n, g))[1 .. n]
    BY <1>1, Zenon DEF Fold, FoldLeft, MapThenFoldSet, Equation
  <2> QED
    BY <2>1, Zenon
<1> HIDE DEF iter, n
<1> DEFINE h == [k \in 0 .. n |-> iter[1 .. k]]
<1>4. h[0] = base
  <2>1. h[0] = iter[1 .. 0] /\ 1 .. 0 = {}
    BY <1>1
  <2>2. {} \in SUBSET (1 .. n)
    OBVIOUS
  <2> QED
    BY <1>2, <2>1, <2>2, Zenon DEF Equation
<1>5. ASSUME NEW k \in 0 .. n - 1
      PROVE  h[k + 1] = Op(h[k], seq[k + 1])
  <2> DEFINE s == 1 .. k + 1
  <2>1. s \in SUBSET (1 .. n) /\ s # {} /\ k + 1 \in s /\ k + 1 \in Nat
    BY <1>1
  <2>2. Max(s) = k + 1
    BY <2>1, MaxIsLast
  <2>3. s \ {k + 1} = 1 .. k
    BY <1>1
  <2>4. iter[s] = Op(iter[s \ {k + 1}], seq[k + 1])
    <3> HIDE DEF s
    <3> QED
      BY <1>2, <2>1, <2>2, Zenon DEF Equation
  <2>5. h[k + 1] = iter[1 .. k + 1] /\ h[k] = iter[1 .. k]
    BY <1>1
  <2> QED
    BY <2>3, <2>4, <2>5, Zenon
<1>6. h[n] = iter[1 .. n]
  BY <1>1
<1>7. IsRun(base, seq, h)
  <2> HIDE DEF h
  <2> QED
    BY <1>4, <1>5, Zenon DEF IsRun, n
<1> HIDE DEF h
<1> QED
  BY <1>3, <1>6, <1>7, Zenon DEF n

\* Sequences that begin alike have runs that begin alike.
LEMMA RunsAgree ==
  ASSUME NEW base, NEW s, NEW t, NEW h, NEW g,
         IsRun(base, s, h), IsRun(base, t, g),
         NEW m \in Nat, Len(s) \in Nat, Len(t) \in Nat, m <= Len(s), m <= Len(t),
         \A i \in 1 .. m : s[i] = t[i]
  PROVE  \A k \in 0 .. m : h[k] = g[k]
<1> DEFINE T == {k \in 0 .. m : h[k] = g[k]}
<1>1. 0 \in T
  BY DEF IsRun
<1>2. ASSUME NEW k \in 0 .. m - 1, k \in T
      PROVE  k + 1 \in T
  <2>1. k \in 0 .. Len(s) - 1 /\ k \in 0 .. Len(t) - 1 /\ k + 1 \in 1 .. m /\ k + 1 \in 0 .. m
    OBVIOUS
  <2>2. h[k] = g[k] /\ s[k + 1] = t[k + 1]
    BY <1>2, <2>1
  <2>3. h[k + 1] = Op(h[k], s[k + 1]) /\ g[k + 1] = Op(g[k], t[k + 1])
    BY <2>1, Zenon DEF IsRun
  <2> QED
    BY <2>1, <2>2, <2>3, Zenon
<1> HIDE DEF T
<1>3. \A k \in 0 .. m : k \in T
  BY <1>1, <1>2, Induction, Zenon
<1> QED
  BY <1>3, Zenon DEF T

\* The fold of no element.
LEMMA FoldNone ==
  ASSUME NEW base
  PROVE  Fold(base, <<>>) = base
<1>1. <<>> \in Seq({}) /\ Len(<<>>) = 0
  OBVIOUS
<1>2. PICK h : IsRun(base, <<>>, h) /\ h[Len(<<>>)] = Fold(base, <<>>)
  BY <1>1, FoldRuns, Zenon
<1> QED
  BY <1>1, <1>2, Zenon DEF IsRun

\* The fold of one element more.
LEMMA FoldAppend ==
  ASSUME NEW S, NEW seq \in Seq(S), NEW x \in S, NEW base
  PROVE  Fold(base, Append(seq, x)) = Op(Fold(base, seq), x)
<1> DEFINE n == Len(seq)
           t == Append(seq, x)
<1>1. n \in Nat /\ t \in Seq(S) /\ Len(t) = n + 1 /\ t[n + 1] = x /\ \A i \in 1 .. n : seq[i] = t[i]
  OBVIOUS
<1>2. n <= n /\ n <= n + 1 /\ n + 1 \in Nat /\ n \in 0 .. n /\ n \in 0 .. (n + 1) - 1
  BY <1>1
<1> HIDE DEF n, t
<1>3. PICK h : IsRun(base, seq, h) /\ h[Len(seq)] = Fold(base, seq)
  BY FoldRuns, Zenon
<1>4. PICK g : IsRun(base, t, g) /\ g[Len(t)] = Fold(base, t)
  BY <1>1, FoldRuns, Zenon
<1>5. h[n] = g[n]
  <2>1. \A k \in 0 .. n : h[k] = g[k]
    BY <1>1, <1>2, <1>3, <1>4, RunsAgree DEF n
  <2> QED
    BY <1>2, <2>1, Zenon
<1>6. g[n + 1] = Op(g[n], x)
  BY <1>1, <1>2, <1>4, Zenon DEF IsRun
<1> QED
  BY <1>1, <1>3, <1>4, <1>5, <1>6, Zenon DEF n, t

\* The fold of a sequence after another goes on where that one's ended.
LEMMA FoldJoin ==
  ASSUME NEW S, NEW s \in Seq(S), NEW t \in Seq(S), NEW base
  PROVE  Fold(base, s \o t) = Fold(Fold(base, s), t)
<1> DEFINE m == Len(s)
           n == Len(t)
           joined == s \o t
<1>1. m \in Nat /\ n \in Nat /\ joined \in Seq(S) /\ Len(joined) = m + n
  OBVIOUS
<1>2. \A i \in 1 .. m : joined[i] = s[i]
  OBVIOUS
<1>3. \A i \in 1 .. n : joined[m + i] = t[i]
  OBVIOUS
<1> HIDE DEF m, n, joined
<1>4. PICK h : IsRun(base, s, h) /\ h[Len(s)] = Fold(base, s)
  BY FoldRuns, Zenon
<1>5. PICK g : IsRun(base, joined, g) /\ g[Len(joined)] = Fold(base, joined)
  BY <1>1, FoldRuns, Zenon
<1>6. PICK r : IsRun(Fold(base, s), t, r) /\ r[Len(t)] = Fold(Fold(base, s), t)
  BY FoldRuns, Zenon
<1>7. g[m] = Fold(base, s)
  <2>1. \A i \in 1 .. m : s[i] = joined[i]
    BY <1>2, Zenon
  <2>2. /\ m <= Len(joined) /\ Len(joined) \in Nat /\ m \in 0 .. m
        /\ m \in Nat /\ m <= Len(s) /\ Len(s) \in Nat
    BY <1>1 DEF m
  <2>3. IsRun(base, s, h) /\ IsRun(base, joined, g)
    BY <1>4, <1>5, Zenon
  <2>4. \A k \in 0 .. m : h[k] = g[k]
    BY <2>1, <2>2, <2>3, RunsAgree
  <2> QED
    BY <1>4, <2>2, <2>4, Zenon DEF m
<1> DEFINE T == {k \in 0 .. n : g[m + k] = r[k]}
<1>8. 0 \in T
  <2>1. m + 0 = m /\ 0 \in 0 .. n
    BY <1>1
  <2>2. r[0] = Fold(base, s)
    BY <1>6, Zenon DEF IsRun
  <2> QED
    BY <1>7, <2>1, <2>2, Zenon
<1>9. ASSUME NEW k \in 0 .. n - 1, k \in T
      PROVE  k + 1 \in T
  <2>1. /\ k \in 0 .. n /\ k + 1 \in 0 .. n /\ k + 1 \in 1 .. n
        /\ m + k \in 0 .. (m + n) - 1 /\ (m + k) + 1 = m + (k + 1)
    BY <1>1
  <2>2. g[(m + k) + 1] = Op(g[m + k], joined[(m + k) + 1])
    BY <1>1, <1>5, <2>1, Zenon DEF IsRun
  <2>3. r[k + 1] = Op(r[k], t[k + 1])
    BY <1>6, Zenon DEF IsRun, n
  <2>4. joined[m + (k + 1)] = t[k + 1] /\ g[m + k] = r[k]
    BY <1>3, <1>9, <2>1, Zenon
  <2>5. g[m + (k + 1)] = r[k + 1]
    BY <2>1, <2>2, <2>3, <2>4, Zenon
  <2> QED
    BY <2>1, <2>5, Zenon
<1> HIDE DEF T
<1>10. n \in T
  <2>1. \A k \in 0 .. n : k \in T
    BY <1>1, <1>8, <1>9, Induction, Zenon
  <2>2. n \in 0 .. n
    BY <1>1
  <2> QED
    BY <2>1, <2>2, Zenon
<1>11. g[m + n] = r[n]
  BY <1>10, Zenon DEF T
<1> QED
  BY <1>1, <1>5, <1>6, <1>11, Zenon DEF n, joined
=============================================================================
