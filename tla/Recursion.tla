----------------------------- MODULE Recursion -----------------------------
(***************************************************************************)
(* Induction over the numbers, and what a recursive function is.  TLA+     *)
(* reads the definition of a recursive function as the choice of a         *)
(* function that satisfies an equation; that one does is a theorem.  It is *)
(* proved here for every function on numbers whose value at n is made of   *)
(* its value at n - 1: of MerkleTree (the levels, the hashes on a path),   *)
(* PolicyEngine (a list without a name) and TrustMemory (a sum, a power).  *)
(*                                                                         *)
(* First and Step are what the function is made of, c what it is given.    *)
(***************************************************************************)
EXTENDS Integers, WellFoundedInduction, TLAPS

CONSTANTS First(_), Step(_, _, _)

-----------------------------------------------------------------------------
(* Induction, with a set in the place of a predicate.                      *)

\* Every set of numbers that is not empty has a least one.
LEMMA Least ==
    ASSUME NEW T, T \subseteq Nat, T # {}
    PROVE  \E x \in T : \A y \in T : x <= y
<1>1. IsWellFoundedOn(OpToRel(<, Nat), Nat)
      BY NatLessThanWellFounded
<1>2. PICK x \in T : \A y \in T : ~ (<<y, x>> \in OpToRel(<, Nat))
      BY <1>1, WFMin
<1>3. \A y \in T : <<y, x>> \in Nat \X Nat /\ <<y, x>>[1] = y /\ <<y, x>>[2] = x
      OBVIOUS
<1>4. \A y \in T : ~ (y < x)
      BY <1>2, <1>3 DEF OpToRel
<1> QED BY <1>4

\* A set of numbers that has 0, and the successor of whatever it has, has them all.
LEMMA Induction ==
    ASSUME NEW S, 0 \in S, \A n \in Nat : n \in S => n + 1 \in S
    PROVE  \A n \in Nat : n \in S
<1> SUFFICES ASSUME NEW T, T = Nat \ S, T # {} PROVE FALSE
    OBVIOUS
<1>1. PICK x \in T : \A y \in T : x <= y
      BY Least
<1>2. x \in Nat /\ x # 0 /\ x - 1 \in Nat /\ x - 1 < x
      BY <1>1
<1>3. x - 1 \in S
      BY <1>1, <1>2
<1>4. (x - 1) + 1 = x
      BY <1>2
<1> QED BY <1>1, <1>2, <1>3, <1>4

-----------------------------------------------------------------------------
(* Recursive functions.                                                    *)

Equation(c, D, f) == f = [n \in D |-> IF n = 0 THEN First(c) ELSE Step(c, n, f[n - 1])]

\* What a recursive definition of a function on D defines.
Solution(c, D) ==
    CHOOSE f : f = [n \in D |-> IF n = 0 THEN First(c) ELSE Step(c, n, f[n - 1])]

\* Two functions that satisfy the equation agree where both are defined.
LEMMA Unique ==
    ASSUME NEW c, NEW m \in Nat, NEW p \in Nat,
           NEW f, Equation(c, 0 .. m, f), NEW g, Equation(c, 0 .. p, g)
    PROVE  \A k \in Nat : k <= m /\ k <= p => f[k] = g[k]
<1> DEFINE S == {n \in Nat : n <= m /\ n <= p => f[n] = g[n]}
<1>1. 0 \in S
      BY DEF Equation
<1>2. ASSUME NEW n \in Nat, n \in S
      PROVE  n + 1 \in S
  <2> SUFFICES ASSUME n + 1 <= m, n + 1 <= p PROVE f[n + 1] = g[n + 1]
      OBVIOUS
  <2>1. n + 1 # 0 /\ (n + 1) - 1 = n /\ n + 1 \in 0 .. m /\ n + 1 \in 0 .. p
        OBVIOUS
  <2>2. f[n + 1] = Step(c, n + 1, f[n]) /\ g[n + 1] = Step(c, n + 1, g[n])
        BY <2>1 DEF Equation
  <2> QED BY <1>2, <2>2
<1> HIDE DEF S
<1>3. \A n \in Nat : n \in S
      BY <1>1, <1>2, Induction
<1> QED BY <1>3 DEF S

\* Some function satisfies the equation on the numbers up to m.
LEMMA Initial ==
    ASSUME NEW c, NEW m \in Nat
    PROVE  \E f : Equation(c, 0 .. m, f)
<1> DEFINE S == {n \in Nat : \E f : Equation(c, 0 .. n, f)}
<1>1. 0 \in S
  <2> DEFINE f == [n \in 0 .. 0 |-> First(c)]
  <2>1. Equation(c, 0 .. 0, f)
        BY DEF Equation
  <2> QED BY <2>1
<1>2. ASSUME NEW n \in Nat, n \in S
      PROVE  n + 1 \in S
  <2>1. PICK f : Equation(c, 0 .. n, f)
        BY <1>2
  <2> DEFINE g == [k \in 0 .. n + 1 |-> IF k = n + 1 THEN Step(c, n + 1, f[n]) ELSE f[k]]
  <2>2. ASSUME NEW k \in 0 .. n + 1
        PROVE  g[k] = IF k = 0 THEN First(c) ELSE Step(c, k, g[k - 1])
    <3>1. CASE k = n + 1
          BY <3>1
    <3>2. CASE k # n + 1
      <4>1. k \in 0 .. n /\ g[k] = f[k]
            BY <3>2
      <4>2. k # 0 => g[k - 1] = f[k - 1]
            BY <3>2
      <4>3. f[k] = IF k = 0 THEN First(c) ELSE Step(c, k, f[k - 1])
            BY <2>1, <4>1 DEF Equation
      <4> QED BY <4>1, <4>2, <4>3
    <3> QED BY <3>1, <3>2
  <2>3. g = [k \in 0 .. n + 1 |-> g[k]]
        OBVIOUS
  <2> HIDE DEF g
  <2>4. Equation(c, 0 .. n + 1, g)
        BY <2>2, <2>3 DEF Equation
  <2> QED BY <2>4
<1> HIDE DEF S
<1>3. \A n \in Nat : n \in S
      BY <1>1, <1>2, Induction
<1> QED BY <1>3 DEF S

\* A recursive function satisfies the equation it is defined by: on all numbers, on
\* the numbers up to a bound, or on any other numbers that go down to 0.
THEOREM RecursionEquation ==
    ASSUME NEW c, NEW D, D \subseteq Nat, \A n \in D : n = 0 \/ n - 1 \in D
    PROVE  Equation(c, D, Solution(c, D))
<1> DEFINE h(n) == CHOOSE g : Equation(c, 0 .. n, g)
           F == [n \in D |-> h(n)[n]]
<1>1. \A n \in Nat : Equation(c, 0 .. n, h(n))
      BY Initial
<1> HIDE DEF h
<1>2. ASSUME NEW n \in D
      PROVE  F[n] = IF n = 0 THEN First(c) ELSE Step(c, n, F[n - 1])
  <2>1. /\ F[n] = h(n)[n]
        /\ h(n)[n] = IF n = 0 THEN First(c) ELSE Step(c, n, h(n)[n - 1])
        BY <1>1 DEF Equation
  <2>2. CASE n = 0
        BY <2>1, <2>2
  <2>3. CASE n # 0
    <3>1. n - 1 \in D /\ n - 1 \in Nat /\ n \in Nat
          BY <2>3
    <3>2. Equation(c, 0 .. n, h(n)) /\ Equation(c, 0 .. n - 1, h(n - 1))
          BY <1>1, <3>1
    <3>3. h(n)[n - 1] = h(n - 1)[n - 1]
          BY <3>1, <3>2, Unique
    <3>4. F[n - 1] = h(n - 1)[n - 1]
          BY <3>1
    <3> QED BY <2>1, <2>3, <3>3, <3>4
  <2> QED BY <2>2, <2>3
<1>3. F = [n \in D |-> IF n = 0 THEN First(c) ELSE Step(c, n, F[n - 1])]
      BY <1>2
<1> HIDE DEF F
<1> QED BY <1>3 DEF Solution, Equation
=============================================================================
