------------------------------ MODULE Iteration ------------------------------
(***************************************************************************)
(* Loops as recursive functions: what a loop has after k rounds, with the    *)
(* round number and three parameters at hand.  The recursions of the other   *)
(* modules are of this kind; that they define a function is proved here.     *)
(***************************************************************************)
EXTENDS Integers, WellFoundedInduction, TLAPS

CONSTANT Step(_, _, _, _, _)   \* one round: the parameters, the round, the state before

\* A set of numbers has a least one.
LEMMA Least ==
    \A S \in SUBSET Nat : S # {} => \E x \in S : \A y \in S : x <= y
  <1> SUFFICES ASSUME NEW S \in SUBSET Nat, S # {} PROVE \E x \in S : \A y \in S : x <= y
    OBVIOUS
  <1> DEFINE R == OpToRel(<, Nat)
  <1>1. IsWellFoundedOn(R, Nat) BY NatLessThanWellFounded
  <1>2. \A x, y \in Nat : x < y => <<x, y>> \in R BY DEF OpToRel
  <1> HIDE DEF R
  <1>3. PICK x \in S : \A y \in S : ~(<<y, x>> \in R) BY <1>1, WFMin
  <1>4. \A y \in S : ~(y < x) BY <1>2, <1>3
  <1> QED BY <1>4

\* Induction: a set of counterexamples that has the predecessor of each of its
\* members is empty.
LEMMA Descent ==
    \A S \in SUBSET Nat : (\A k \in S : k - 1 \in S) => S = {}
  <1> SUFFICES ASSUME NEW S \in SUBSET Nat, \A k \in S : k - 1 \in S, S # {} PROVE FALSE
    OBVIOUS
  <1>1. PICK x \in S : \A y \in S : x <= y BY Least
  <1>2. x - 1 \in S /\ x \in Nat OBVIOUS
  <1> QED BY <1>1, <1>2

\* From every state x a loop runs on, round after round: the
\* recursive definition of its states has a solution.
LEMMA Runs ==
    \A p, q, r, x : \E f : f = [k \in Nat |-> IF k = 0 THEN x ELSE Step(p, q, r, k, f[k - 1])]
  <1> SUFFICES ASSUME NEW p, NEW q, NEW r, NEW x
               PROVE  \E f : f = [k \in Nat |-> IF k = 0 THEN x ELSE Step(p, q, r, k, f[k - 1])]
    OBVIOUS
  <1> DEFINE Upto(n, g) == g[0] = x /\ \A k \in 1 .. n : g[k] = Step(p, q, r, k, g[k - 1])
  <1>1. \A n \in Nat : \E g : Upto(n, g)
    <2> DEFINE Bad == {n \in Nat : ~\E g : Upto(n, g)}
    <2>1. SUFFICES ASSUME Bad # {} PROVE FALSE OBVIOUS
    <2>2. PICK n \in Bad : \A m \in Bad : n <= m BY <2>1, Least
    <2>3. n # 0
      <3>1. Upto(0, [i \in {0} |-> x]) OBVIOUS
      <3> QED BY <2>2, <3>1
    <2>4. n - 1 \in Nat /\ n - 1 \notin Bad BY <2>2, <2>3
    <2>5. PICK g : Upto(n - 1, g) BY <2>4
    <2> DEFINE h == [i \in 0 .. n |-> IF i = n THEN Step(p, q, r, n, g[n - 1]) ELSE g[i]]
    <2>6. h[0] = x BY <2>3, <2>4, <2>5
    <2>7. ASSUME NEW k \in 1 .. n PROVE h[k] = Step(p, q, r, k, h[k - 1])
      <3>1. k \in 0 .. n /\ k - 1 \in 0 .. n /\ k - 1 # n /\ n \in Nat BY <2>4
      <3>2. h[k - 1] = g[k - 1] BY <3>1
      <3>3. CASE k = n BY <3>1, <3>2, <3>3
      <3>4. CASE k # n
        <4>1. h[k] = g[k] BY <3>1, <3>4
        <4>2. k \in 1 .. n - 1 BY <3>1, <3>4
        <4> QED BY <2>5, <3>2, <4>1, <4>2
      <3> QED BY <3>3, <3>4
    <2>8. Upto(n, h) BY <2>6, <2>7
    <2> QED BY <2>2, <2>8
  <1>2. ASSUME NEW n \in Nat, NEW m \in Nat, NEW g, NEW h, Upto(n, g), Upto(m, h)
        PROVE  \A k \in Nat : k <= n /\ k <= m => g[k] = h[k]
    <2> DEFINE Bad == {k \in Nat : k <= n /\ k <= m /\ g[k] # h[k]}
    <2>1. SUFFICES ASSUME Bad # {} PROVE FALSE OBVIOUS
    <2>2. PICK k \in Bad : \A l \in Bad : k <= l BY <2>1, Least
    <2>3. k # 0 BY <1>2, <2>2
    <2>4. k - 1 \in Nat /\ k - 1 \notin Bad BY <2>2, <2>3
    <2>5. g[k - 1] = h[k - 1] BY <2>2, <2>4
    <2>6. k \in 1 .. n /\ k \in 1 .. m BY <2>2, <2>3
    <2>7. g[k] = Step(p, q, r, k, g[k - 1]) /\ h[k] = Step(p, q, r, k, h[k - 1]) BY <1>2, <2>6
    <2> QED BY <2>2, <2>5, <2>7
  <1> DEFINE G(n) == CHOOSE g : Upto(n, g)
             f == [k \in Nat |-> G(k)[k]]
  <1>3. \A n \in Nat : Upto(n, G(n)) BY <1>1
  <1>4. ASSUME NEW k \in Nat PROVE f[k] = IF k = 0 THEN x ELSE Step(p, q, r, k, f[k - 1])
    <2> HIDE DEF G
    <2>1. CASE k = 0 BY <1>3, <2>1
    <2>2. CASE k # 0
      <3>1. k - 1 \in Nat /\ k \in 1 .. k BY <2>2
      <3>2. G(k)[k] = Step(p, q, r, k, G(k)[k - 1]) BY <1>3, <3>1
      <3> HIDE DEF Upto
      <3>3. G(k)[k - 1] = G(k - 1)[k - 1] BY <1>2, <1>3, <3>1
      <3> QED BY <2>2, <3>1, <3>2, <3>3
    <2> QED BY <2>1, <2>2
  <1>5. f = [k \in Nat |-> f[k]] OBVIOUS
  <1> HIDE DEF f
  <1>6. f = [k \in Nat |-> IF k = 0 THEN x ELSE Step(p, q, r, k, f[k - 1])] BY <1>4, <1>5
  <1> QED BY <1>6

\* What holds at first and is kept by every round holds in the end.
LEMMA Stays ==
    \A f, S : \A n \in Nat :
       f[0] \in S /\ (\A k \in 1 .. n : f[k - 1] \in S => f[k] \in S) => f[n] \in S
  <1> SUFFICES ASSUME NEW f, NEW S, NEW n \in Nat, f[0] \in S,
                      \A k \in 1 .. n : f[k - 1] \in S => f[k] \in S
               PROVE  f[n] \in S
    OBVIOUS
  <1> DEFINE Bad == {k \in 0 .. n : f[k] \notin S}
  <1>1. ASSUME NEW k \in Bad PROVE k - 1 \in Bad
    <2>1. k # 0 BY <1>1
    <2>2. k - 1 \in 0 .. n /\ k \in 1 .. n BY <2>1
    <2> QED BY <1>1, <2>2
  <1>2. Bad \in SUBSET Nat OBVIOUS
  <1> HIDE DEF Bad
  <1>3. Bad = {} BY <1>1, <1>2, Descent
  <1> QED BY <1>3 DEF Bad

=============================================================================
