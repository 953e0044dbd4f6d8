-------------------------------- MODULE Loops -------------------------------
(***************************************************************************)
(* Facts about loops that the proofs of this project share: the first hit  *)
(* of a search is Min of FiniteSetsExt, and what a loop computes is a      *)
(* recursive function of its counter.                                      *)
(***************************************************************************)
EXTENDS Integers, FiniteSetsExt, WellFoundedInduction, TLAPS

\* The provers and their time limits, where a step names none.
USE SMTT(60), ZenonT(60)

\* A non-empty set of naturals has a least element and Min names it: what a
\* loop that walks up an array or a list and stops at the first hit returns.
LEMMA MinOfNats ==
  ASSUME NEW S \in SUBSET Nat, S # {}
  PROVE  Min(S) \in S /\ \A y \in S : Min(S) =< y
<1>1. PICK x \in S : \A y \in S : ~(<<y, x>> \in OpToRel(<, Nat))
  BY NatLessThanWellFounded, WFMin, ZenonT(60)
<1>2. ASSUME NEW y \in S PROVE x =< y
  <2>1. y \in Nat /\ x \in Nat
    OBVIOUS
  <2>2. <<y, x>> \in OpToRel(<, Nat) <=> y < x
    BY <2>1 DEF OpToRel
  <2>3. ~(y < x)
    BY <1>1, <2>2, ZenonT(60)
  <2> QED BY <2>1, <2>3
<1> QED BY <1>2, ZenonT(60) DEF Min

\* What holds before a loop, and after a round whenever it held before it,
\* holds after every round: S is the set of the counters it holds at.
LEMMA LoopInduction ==
  ASSUME NEW n \in Nat, NEW S, 0 \in S,
         \A i \in 1..n : i - 1 \in S => i \in S
  PROVE  0..n \subseteq S
<1> DEFINE Bad == (0..n) \ S
<1>1. SUFFICES ASSUME Bad # {} PROVE FALSE
  OBVIOUS
<1>2. Min(Bad) \in Bad /\ \A y \in Bad : Min(Bad) =< y
  <2>1. Bad \in SUBSET Nat
    OBVIOUS
  <2> HIDE DEF Bad
  <2> QED BY <1>1, <2>1, MinOfNats
<1>3. PICK m \in 0..n : m \notin S /\ \A y \in Bad : m =< y
  BY <1>2, ZenonT(60)
<1>4. m \in 1..n /\ m - 1 \in 0..n /\ ~(m =< m - 1)
  BY <1>3
<1>5. m - 1 \in S
  BY <1>3, <1>4
<1> QED BY <1>3, <1>4, <1>5

\* What a round makes of the counter and the value so far.
LoopBodies(T, n) == [(1..n) \X T -> T]

\* f is the values of T a loop of n rounds goes through: b before it, and what
\* g says after each round.
IsLoop(f, T, n, b, g) ==
  f \in [0..n -> T] /\ f[0] = b /\ \A i \in 1..n : f[i] = g[<<i, f[i - 1]>>]

\* There are such values.
LEMMA LoopExists ==
  ASSUME NEW T, NEW n \in Nat, NEW b \in T, NEW g \in LoopBodies(T, n)
  PROVE  \E f : IsLoop(f, T, n, b, g)
<1> USE DEF LoopBodies
<1> DEFINE Run(m, f) == /\ f \in [0..m -> T] /\ f[0] = b
                        /\ \A i \in 1..m : f[i] = g[<<i, f[i - 1]>>]
           Good == {m \in 0..n : \E f : Run(m, f)}
<1>1. 0 \in Good
  <2>1. Run(0, [i \in 0..0 |-> b])
    OBVIOUS
  <2>2. 0 \in 0..n
    OBVIOUS
  <2> HIDE DEF Run
  <2> QED BY <2>1, <2>2, ZenonT(60)
<1>2. ASSUME NEW m \in 1..n, m - 1 \in Good
      PROVE  m \in Good
  <2>1. PICK f : Run(m - 1, f)
    BY <1>2
  <2> DEFINE h == [i \in 0..m |-> IF i = m THEN g[<<m, f[m - 1]>>] ELSE f[i]]
  <2>2. m - 1 \in 0..m - 1 /\ f[m - 1] \in T /\ g[<<m, f[m - 1]>>] \in T
    BY <2>1
  <2>3. h \in [0..m -> T] /\ h[0] = b
    BY <2>1, <2>2
  <2>4. ASSUME NEW i \in 1..m PROVE h[i] = g[<<i, h[i - 1]>>]
    <3>1. i - 1 \in 0..m /\ i \in 0..m /\ i - 1 # m
      OBVIOUS
    <3>2. h[i - 1] = f[i - 1]
      BY <3>1
    <3>3. CASE i = m
      BY <3>1, <3>2, <3>3
    <3>4. CASE i # m
      <4>1. i \in 1..m - 1
        BY <3>4
      <4> QED BY <4>1, <3>1, <3>2, <3>4, <2>1
    <3> QED BY <3>3, <3>4
  <2>5. Run(m, h)
    BY <2>3, <2>4, ZenonT(60)
  <2>6. m \in 0..n
    OBVIOUS
  <2> HIDE DEF Run, h
  <2> QED BY <2>5, <2>6, ZenonT(60)
<1>3. 0..n \subseteq Good
  <2> HIDE DEF Good
  <2> QED BY <1>1, <1>2, LoopInduction
<1>4. n \in 0..n
  OBVIOUS
<1> QED BY <1>3, <1>4, ZenonT(60) DEF IsLoop

=============================================================================
