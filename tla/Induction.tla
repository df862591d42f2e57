------------------------------- MODULE Induction -------------------------------
(***************************************************************************)
(* Lemmas on numbers that several proofs use.  Induction over the numbers  *)
(* is stated for a set, because the provers cannot instantiate a theorem   *)
(* that takes an operator; it follows from the order being well-founded.   *)
(***************************************************************************)
EXTENDS Integers, Sequences, FiniteSetsExt, WellFoundedInduction, TLAPS

LEMMA LeastMember == ASSUME NEW S \in SUBSET Nat, S # {} PROVE \E x \in S : \A y \in S : x <= y
<1>1. IsWellFoundedOn(OpToRel(<, Nat), Nat)
  BY NatLessThanWellFounded
<1>2. PICK x \in S : \A y \in S : <<y, x>> \notin OpToRel(<, Nat)
  BY <1>1, WFMin
<1>3. \A y \in S : ~(y < x)
  BY <1>2 DEF OpToRel
<1> QED BY <1>3

\* What holds of zero and is passed on from each number to the next holds of all.
LEMMA NatInduct ==
    ASSUME NEW S \in SUBSET Nat, 0 \in S, \A n \in Nat : n \in S => n + 1 \in S
    PROVE  S = Nat
<1>1. ASSUME Nat \ S # {} PROVE FALSE
  <2>1. PICK x \in Nat \ S : \A y \in Nat \ S : x <= y
    BY <1>1, LeastMember
  <2>2. x - 1 \in S /\ x - 1 + 1 = x /\ x - 1 \in Nat
    BY <2>1
  <2> QED BY <2>1, <2>2
<1> QED BY <1>1

\* The same up to a number.
LEMMA NatInductTo ==
    ASSUME NEW n \in Nat, NEW S, 0 \in S, \A k \in 0..(n - 1) : k \in S => k + 1 \in S
    PROVE  \A k \in 0..n : k \in S
<1> DEFINE T == {k \in Nat : k <= n => k \in S}
<1>1. 0 \in T /\ \A k \in Nat : k \in T => k + 1 \in T
  OBVIOUS
<1>2. T = Nat
  <2>1. T \in SUBSET Nat
    OBVIOUS
  <2> HIDE DEF T
  <2> QED BY <1>1, <2>1, NatInduct
<1> QED BY <1>2

\* Max is what its name says, of a set with a bound.
LEMMA MaxMember ==
    ASSUME NEW S \in SUBSET Int, S # {}, NEW b \in Int, \A s \in S : s <= b
    PROVE  Max(S) \in S /\ \A s \in S : s <= Max(S)
<1> DEFINE below == {n \in Nat : b - n \in S}
<1>1. below # {}
  <2>1. PICK s \in S : TRUE
    OBVIOUS
  <2>2. b - s \in Nat /\ b - (b - s) = s
    BY <2>1
  <2> QED BY <2>1, <2>2
<1>2. PICK n \in below : \A k \in below : n <= k
  BY <1>1, LeastMember
<1>3. \A s \in S : s <= b - n
  <2> SUFFICES ASSUME NEW s \in S PROVE s <= b - n
    OBVIOUS
  <2>1. b - s \in Nat /\ b - (b - s) = s
    OBVIOUS
  <2>2. b - s \in below
    BY <2>1
  <2> QED BY <1>2, <2>2
<1>4. b - n \in S
  BY <1>2
<1> QED BY <1>3, <1>4 DEF Max

LEMMA MaxIsLast ==
    ASSUME NEW n \in Nat, NEW S \in SUBSET (1..n), n \in S
    PROVE  Max(S) = n
<1>1. S \in SUBSET Int /\ S # {} /\ n \in Int /\ \A x \in S : x <= n
  OBVIOUS
<1>2. Max(S) \in S /\ \A x \in S : x <= Max(S)
  BY <1>1, MaxMember
<1> DEFINE m == Max(S)
<1>3. m \in 1..n /\ n <= m
  BY <1>2
<1> HIDE DEF m
<1>4. m = n
  BY <1>3
<1> QED BY <1>4 DEF m

\* The numbers up to k, and what is left of them without the last.
LEMMA Peeled ==
    ASSUME NEW n \in Nat, NEW k \in 1..n
    PROVE  /\ 1..k \in SUBSET (1..n) /\ 1..k # {}
           /\ (1..k) \ {k} = 1..(k - 1) /\ Max(1..k) = k
<1>1. k \in Nat /\ 1 <= k /\ k <= n
  OBVIOUS
<1>2. \A m, l \in Nat : 1 <= m /\ m <= l => 1..m \in SUBSET (1..l) /\ 1..m # {} /\ m \in 1..m
  OBVIOUS
<1>3. 1..k \in SUBSET (1..n) /\ 1..k # {} /\ k \in 1..k
  BY <1>1, <1>2
<1>4. (1..k) \ {k} = 1..(k - 1)
  BY <1>1
<1>5. Max(1..k) = k
  BY <1>1, <1>3, MaxIsLast
<1> QED BY <1>3, <1>4, <1>5

LEMMA MaxAmong ==
    ASSUME NEW n \in Nat, NEW t \in SUBSET (1..n), t # {}
    PROVE  Max(t) \in t /\ Max(t) \in 1..n
<1>1. t \in SUBSET Int /\ n \in Int /\ \A x \in t : x <= n
  OBVIOUS
<1>2. Max(t) \in t
  BY <1>1, MaxMember
<1> QED BY <1>2

\* The iteration that MapThenFoldSet chooses: over sets of numbers, the largest last.
Iterates(f, D, base, s, Step) ==
    /\ f \in [SUBSET (1..Len(s)) -> D]
    /\ \A t \in SUBSET (1..Len(s)) :
         f[t] = IF t = {} THEN base ELSE Step[<<f[t \ {Max(t)}], s[Max(t)]>>]

\* It exists if its step stays in D.
LEMMA IterationExists ==
    ASSUME NEW D, NEW base \in D, NEW X, NEW s \in Seq(X), NEW Step \in [D \X X -> D]
    PROVE  \E f : Iterates(f, D, base, s, Step)
<1> DEFINE Eq(f, n) == /\ f \in [SUBSET (1..n) -> D]
                       /\ \A t \in SUBSET (1..n) :
                            f[t] = IF t = {} THEN base ELSE Step[<<f[t \ {Max(t)}], s[Max(t)]>>]
           Some(n) == \E f : Eq(f, n)
           has == {n \in Nat : n <= Len(s) => Some(n)}
<1>1. 0 \in has
  <2>1. SUBSET (1..0) = {{}}
    OBVIOUS
  <2>2. Eq([t \in {{}} |-> base], 0)
    BY <2>1
  <2> QED BY <2>2
<1>2. ASSUME NEW n \in Nat, n \in has PROVE n + 1 \in has
  <2> SUFFICES ASSUME n + 1 <= Len(s) PROVE Some(n + 1)
    <3> HIDE DEF Some
    <3> QED OBVIOUS
  <2>0. Some(n)
    <3> HIDE DEF Some
    <3> QED BY <1>2
  <2>1. PICK f : Eq(f, n)
    <3> HIDE DEF Eq
    <3> QED BY <2>0
  <2>2. s[n + 1] \in X
    OBVIOUS
  <2> DEFINE g == [t \in SUBSET (1..(n + 1)) |->
                     IF n + 1 \in t THEN Step[<<f[t \ {n + 1}], s[n + 1]>>] ELSE f[t]]
  <2>3. ASSUME NEW t \in SUBSET (1..(n + 1))
        PROVE  g[t] \in D /\ g[t] = IF t = {} THEN base ELSE Step[<<g[t \ {Max(t)}], s[Max(t)]>>]
    <3>1. CASE n + 1 \in t
      <4>1. Max(t) = n + 1
        BY <3>1, MaxIsLast
      <4>2. t \ {n + 1} \in SUBSET (1..n) /\ n + 1 \notin t \ {n + 1} /\ t \ {n + 1} \in SUBSET (1..(n + 1))
        OBVIOUS
      <4>3. g[t \ {n + 1}] = f[t \ {n + 1}] /\ f[t \ {n + 1}] \in D
        BY <2>1, <4>2
      <4>4. g[t] = Step[<<f[t \ {n + 1}], s[n + 1]>>]
        BY <3>1
      <4>5. g[t] \in D
        BY <2>2, <4>3, <4>4
      <4> QED BY <3>1, <4>1, <4>3, <4>4, <4>5
    <3>2. CASE n + 1 \notin t
      <4>1. t \in SUBSET (1..n)
        BY <3>2
      <4>2. g[t] = f[t] /\ f[t] \in D
        BY <2>1, <3>2, <4>1
      <4>3. CASE t = {}
        BY <2>1, <4>1, <4>2, <4>3
      <4>4. CASE t # {}
        <5>1. t \in SUBSET Int /\ (\A x \in t : x <= n) /\ n \in Int
          BY <4>1
        <5>2. Max(t) \in t
          BY <4>4, <5>1, MaxMember
        <5>3. t \ {Max(t)} \in SUBSET (1..(n + 1)) /\ n + 1 \notin t \ {Max(t)}
          BY <3>2
        <5>4. g[t \ {Max(t)}] = f[t \ {Max(t)}]
          BY <5>3
        <5>5. f[t] = Step[<<f[t \ {Max(t)}], s[Max(t)]>>]
          BY <2>1, <4>1, <4>4
        <5> QED BY <4>2, <4>4, <5>4, <5>5
      <4> QED BY <4>3, <4>4
    <3> QED BY <3>1, <3>2
  <2>4. g \in [SUBSET (1..(n + 1)) -> D]
    <3>1. g = [t \in SUBSET (1..(n + 1)) |-> g[t]]
      OBVIOUS
    <3> HIDE DEF g
    <3> QED BY <2>3, <3>1
  <2>5. Eq(g, n + 1)
    BY <2>3, <2>4
  <2> HIDE DEF Eq, g
  <2> QED BY <2>5
<1>3. Len(s) \in has
  <2> HIDE DEF has
  <2>1. has = Nat
    <3>1. has \in SUBSET Nat
      BY DEF has
    <3> QED BY <1>1, <1>2, <3>1, NatInduct
  <2> QED BY <2>1
<1>4. Some(Len(s))
  <2> HIDE DEF Some
  <2> QED BY <1>3
<1>5. PICK f : Eq(f, Len(s))
  <2> HIDE DEF Eq
  <2> QED BY <1>4
<1> QED BY <1>5 DEF Iterates

\* Two ways to the same end: equal at the beginning, and kept equal by every step.
LEMMA InStepTo ==
    ASSUME NEW n \in Nat, NEW F, NEW H, F[0] = H[0], \A k \in 1..n : F[k - 1] = H[k - 1] => F[k] = H[k]
    PROVE  F[n] = H[n]
<1> DEFINE T == {k \in 0..n : F[k] = H[k]}
<1>1. 0 \in T
  OBVIOUS
<1>2. ASSUME NEW k \in 0..(n - 1), k \in T PROVE k + 1 \in T
  <2>1. k + 1 \in 1..n /\ (k + 1) - 1 = k
    OBVIOUS
  <2> QED BY <1>2, <2>1
<1> HIDE DEF T
<1>3. n \in 0..n
  OBVIOUS
<1>4. n \in T
  BY <1>1, <1>2, <1>3, NatInductTo
<1> QED BY <1>4 DEF T
===============================================================================
