----------------------------- MODULE LoopProofs -----------------------------
(***************************************************************************)
(* Facts about loops that count up, for proofs about what a recursive      *)
(* function computes.  Induction is stated for sets and functions and not  *)
(* for operators, so that it can be instantiated.                          *)
(***************************************************************************)
EXTENDS Integers, TLAPS, WellFoundedInduction

LEMMA LessIsWellFounded == IsWellFoundedOn({p \in Nat \X Nat : p[1] < p[2]}, Nat)
<1>1. {p \in Nat \X Nat : p[1] < p[2]} = OpToRel(<, Nat)
  BY DEF OpToRel
<1> QED  BY <1>1, NatLessThanWellFounded, Zenon

\* Every set of natural numbers that is not empty has a least element.
LEMMA LeastNumber ==
  ASSUME NEW T \in SUBSET Nat, T # {}
  PROVE  \E x \in T : \A y \in T : x <= y
<1> DEFINE R == {p \in Nat \X Nat : p[1] < p[2]}
<1>1. \E x \in T : \A y \in T : <<y, x>> \notin R
  <2>1. IsWellFoundedOn(R, Nat)
    BY LessIsWellFounded
  <2> HIDE DEF R
  <2> QED  BY <2>1, WFMin
<1>2. \A x, y \in Nat : <<y, x>> \notin R => x <= y
  OBVIOUS
<1> HIDE DEF R
<1> QED  BY <1>1, <1>2, Zenon

\* What holds before the first turn of a loop of N turns, and after each
\* turn if it held before it, holds after all turns.
LEMMA AfterAllTurns ==
  ASSUME NEW N \in Nat, NEW Good, 0 \in Good,
         \A n \in 1..N : n - 1 \in Good => n \in Good
  PROVE  \A n \in 0..N : n \in Good
<1> DEFINE Bad == {n \in 0..N : n \notin Good}
<1> SUFFICES ASSUME Bad # {} PROVE FALSE
  OBVIOUS
<1>1. PICK n \in Bad : \A m \in Bad : n <= m
  <2>1. Bad \in SUBSET Nat
    OBVIOUS
  <2> HIDE DEF Bad
  <2> QED  BY <2>1, LeastNumber
<1>2. n \in 1..N /\ n - 1 \in 0..N /\ n - 1 \notin Bad
  BY <1>1
<1> QED  BY <1>1, <1>2

\* What the turns 1..N of a loop do to a value in V.
Turns(N, V) == [1..N -> [V -> V]]

\* f gives the values, after each turn, of the loop that starts with v and
\* whose n-th turn does turn[n].
IsLoop(f, N, V, v, turn) ==
  /\ f \in [0..N -> V]
  /\ f[0] = v
  /\ \A n \in 1..N : f[n] = turn[n][f[n - 1]]

\* Every loop has such values.
LEMMA LoopExists ==
  ASSUME NEW N \in Nat, NEW V, NEW v \in V, NEW turn \in Turns(N, V)
  PROVE  \E f : IsLoop(f, N, V, v, turn)
<1> DEFINE Fits(f, k) == f[0] = v /\ \A n \in 1..k : f[n] = turn[n][f[n - 1]]
           Good == {k \in 0..N : \E f \in [0..N -> V] : Fits(f, k)}
<1>0. turn \in [1..N -> [V -> V]]
  BY DEF Turns
<1>1. 0 \in Good
  <2>1. Fits([n \in 0..N |-> v], 0)
    OBVIOUS
  <2>2. [n \in 0..N |-> v] \in [0..N -> V]
    OBVIOUS
  <2>3. 0 \in 0..N
    OBVIOUS
  <2> HIDE DEF Fits
  <2> QED  BY <2>1, <2>2, <2>3
<1>2. ASSUME NEW k \in 1..N, k - 1 \in Good PROVE k \in Good
  <2>1. PICK f \in [0..N -> V] : Fits(f, k - 1)
    BY <1>2
  <2> DEFINE g == [f EXCEPT ![k] = turn[k][f[k - 1]]]
  <2>2. g \in [0..N -> V]
    BY <1>0
  <2>3. g[k] = turn[k][f[k - 1]] /\ \A n \in 0..N : n # k => g[n] = f[n]
    OBVIOUS
  <2> HIDE DEF g
  <2>4. g[0] = v
    BY <2>1, <2>3
  <2>5. ASSUME NEW n \in 1..k PROVE g[n] = turn[n][g[n - 1]]
    <3>1. g[n - 1] = f[n - 1]
      BY <2>3
    <3>2. CASE n = k
      BY <2>3, <3>1, <3>2
    <3>3. CASE n # k
      <4>1. n \in 1..k - 1
        BY <3>3
      <4>2. f[n] = turn[n][f[n - 1]]
        BY <2>1, <4>1
      <4> QED  BY <2>3, <3>1, <3>3, <4>2
    <3> QED  BY <3>2, <3>3
  <2>6. Fits(g, k)
    BY <2>4, <2>5
  <2>7. k \in 0..N
    OBVIOUS
  <2> HIDE DEF Fits
  <2> QED  BY <2>2, <2>6, <2>7
<1>3. N \in Good
  <2> HIDE DEF Good
  <2>1. \A n \in 0..N : n \in Good
    BY <1>1, <1>2, AfterAllTurns
  <2> QED  BY <2>1
<1> QED  BY <1>3 DEF IsLoop
=============================================================================
