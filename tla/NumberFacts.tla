----------------------------- MODULE NumberFacts -----------------------------
(***************************************************************************)
(* Facts about natural numbers that the proofs about tables and lines use: *)
(* least elements, induction over a set of numbers, and what \div and %    *)
(* make of an address.                                                     *)
(***************************************************************************)
EXTENDS Integers, WellFoundedInduction, TLAPS

(* A non-empty set of naturals has a least element.                        *)
LEMMA LeastNat ==
  ASSUME NEW S \in SUBSET Nat, S # {}
  PROVE  \E m \in S : \A k \in S : m <= k
<1>1. PICK m \in S : \A k \in S : <<k, m>> \notin OpToRel(<, Nat)
  BY NatLessThanWellFounded, WFMin
<1>2. \A k \in S : ~(k < m)
  BY <1>1 DEF OpToRel
<1>. QED BY <1>2

(* A set with 0 that is closed under successors up to n has all of 0..n:   *)
(* induction for loops, the set being that of the good indices.            *)
LEMMA UpTo ==
  ASSUME NEW n \in Nat, NEW S, 0 \in S,
         \A k \in 0..(n - 1) : k \in S => k + 1 \in S
  PROVE  \A k \in 0..n : k \in S
<1>. DEFINE Bad == {k \in 0..n : k \notin S}
<1>1. SUFFICES ASSUME Bad # {} PROVE FALSE
  OBVIOUS
<1>2. PICK m \in Bad : \A k \in Bad : m <= k
  <2>1. Bad \in SUBSET Nat
    OBVIOUS
  <2>. QED BY <1>1, <2>1, LeastNat
<1>3. m # 0 /\ m \in Nat /\ m - 1 \in 0..(n - 1)
  BY <1>2
<1>4. m - 1 \notin Bad
  BY <1>2, <1>3
<1>5. (m - 1) + 1 \in S
  BY <1>3, <1>4
<1>. QED BY <1>2, <1>3, <1>5

(* A loop that makes n passes, pass k doing step[k] to a state of X, and   *)
(* the function from the number of passes to the state after them.         *)
Loop(n, X, base, step) == n \in Nat /\ base \in X /\ step \in [1..n -> [X -> X]]
Runs(g, n, X, base, step) ==
  /\ g \in [0..n -> X] /\ g[0] = base
  /\ \A k \in 1..n : g[k] = step[k][g[k - 1]]

(* There is one: the recursion equation of a loop has a solution.          *)
LEMMA LoopExists ==
  ASSUME NEW n, NEW X, NEW base, NEW step, Loop(n, X, base, step)
  PROVE  \E g : Runs(g, n, X, base, step)
<1>. USE DEF Loop
<1>. DEFINE Solves(g, m) ==
              /\ g[0] = base
              /\ \A k \in 1..m : g[k] = step[k][g[k - 1]]
            Solved == {m \in 0..n : \E g \in [0..n -> X] : Solves(g, m)}
<1>1. 0 \in Solved
  <2>. DEFINE h == [k \in 0..n |-> base]
  <2>1. h \in [0..n -> X]
    OBVIOUS
  <2>2. Solves(h, 0)
    OBVIOUS
  <2>. HIDE DEF h, Solves
  <2>. QED BY <2>1, <2>2
<1>2. ASSUME NEW m \in 0..(n - 1), m \in Solved PROVE m + 1 \in Solved
  <2>1. PICK g \in [0..n -> X] : Solves(g, m)
    BY <1>2
  <2>. DEFINE h == [g EXCEPT ![m + 1] = step[m + 1][g[m]]]
  <2>2. m \in 0..n /\ m + 1 \in 1..n
    OBVIOUS
  <2>3. step[m + 1][g[m]] \in X
    BY <2>2
  <2>4. h \in [0..n -> X]
    BY <2>3
  <2>5. /\ h[m + 1] = step[m + 1][g[m]]
        /\ \A k \in 0..m : h[k] = g[k]
    BY <2>2
  <2>. HIDE DEF h
  <2>6. h[0] = base
    BY <2>1, <2>2, <2>5
  <2>7. ASSUME NEW k \in 1..(m + 1) PROVE h[k] = step[k][h[k - 1]]
    <3>1. CASE k = m + 1
      <4>1. k - 1 = m /\ m \in 0..m
        BY <2>2, <3>1
      <4>. QED BY <2>5, <3>1, <4>1
    <3>2. CASE k # m + 1
      <4>1. k \in 1..m /\ k \in 0..m /\ k - 1 \in 0..m
        BY <2>2, <3>2
      <4>. QED BY <2>1, <2>5, <4>1
    <3>. QED BY <3>1, <3>2
  <2>8. Solves(h, m + 1)
    BY <2>6, <2>7
  <2>. QED BY <2>2, <2>4, <2>8
<1>. HIDE DEF Solved
<1>3. n \in Solved
  <2>1. \A k \in 0..n : k \in Solved
    BY <1>1, <1>2, UpTo
  <2>. QED BY <2>1
<1>. USE DEF Solved
<1>. QED BY <1>3 DEF Runs

(* Quotient and rest.                                                      *)
LEMMA Division ==
  ASSUME NEW a \in Nat, NEW b \in Nat \ {0}
  PROVE  /\ a \div b \in Nat /\ a % b \in 0..(b - 1)
         /\ a = (a \div b) * b + (a % b)
  OBVIOUS

(* They are the only ones.                                                 *)
LEMMA DivisionUnique ==
  ASSUME NEW b \in Nat \ {0}, NEW q \in Nat, NEW r \in 0..(b - 1)
  PROVE  /\ (q * b + r) \div b = q
         /\ (q * b + r) % b = r
  OBVIOUS

(* A sum of two numbers below n wraps at most once.                        *)
LEMMA ModOnce ==
  ASSUME NEW n \in Nat \ {0}, NEW x \in 0..(2 * n - 1)
  PROVE  x % n = IF x < n THEN x ELSE x - n
  OBVIOUS

(* Two different multiples of b are at least b apart.                      *)
LEMMA MultiplesApart ==
  ASSUME NEW b \in Nat \ {0}, NEW x \in Nat, NEW y \in Nat,
         x % b = 0, y % b = 0, x < y
  PROVE  x + b <= y
<1>1. x = (x \div b) * b /\ y = (y \div b) * b /\ x \div b \in Nat /\ y \div b \in Nat
  BY Division
<1>2. (x \div b) + 1 <= y \div b
  <2>1. SUFFICES ASSUME y \div b <= x \div b PROVE FALSE
    BY <1>1
  <2>2. (y \div b) * b <= (x \div b) * b
    BY <1>1, <2>1
  <2>. QED BY <1>1, <2>2
<1>3. ((x \div b) + 1) * b <= (y \div b) * b
  BY <1>1, <1>2
<1>4. ((x \div b) + 1) * b = (x \div b) * b + b
  BY <1>1
<1>. QED BY <1>1, <1>3, <1>4
==============================================================================
