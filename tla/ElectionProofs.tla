---------------------------- MODULE ElectionProofs ----------------------------
(***************************************************************************)
(* The mesh election keeps control slots exclusive but for what messages     *)
(* dated late bring about, for every mesh, every holdoff exponent, every     *)
(* loss of messages, whichever of them are long, and any pseudo-random order *)
(* that is strict; and it implements ControlAccess.                          *)
(***************************************************************************)
EXTENDS Election, Integers, TLAPS

\* The slot that a holds is not one that b may still take from it: b has lost
\* it, or b's next slot comes too late for b to be ready again by then.
Guarded(a, b) == \/ ~LosesTo(a, b, (phase + wait[a]) % Period)
                 \/ wait[a] < wait[b] + Holdoff(b)

IInv == /\ TypeOK
        /\ KnowledgeSound
        /\ NoSharedSlot
        /\ \A a \in Node : \A b \in Near(mesh, a) : b \in misled[a] \/ Guarded(a, b)

-----------------------------------------------------------------------------
(* Facts about the operators. *)

\* Division with remainder.
LEMMA DivMod ==
    ASSUME NEW p \in Nat \ {0}, NEW x \in Int
    PROVE  /\ x \div p \in Int
           /\ x % p \in 0 .. p - 1
           /\ x = p * (x \div p) + (x % p)
  BY SMT

\* The remainder is unique.
LEMMA Unique ==
    ASSUME NEW p \in Nat \ {0},
           NEW q \in Int, NEW r \in 0 .. p - 1,
           NEW s \in Int, NEW t \in 0 .. p - 1,
           p * q + r = p * s + t
    PROVE  r = t
  <1>1. CASE q > s
    <2>1. q - s >= 1 BY <1>1
    <2>2. p * (q - s) >= p BY <2>1, SMT
    <2>3. p * (q - s) = p * q - p * s BY SMT
    <2> QED BY <2>2, <2>3, SMT
  <1>2. CASE q < s
    <2>1. s - q >= 1 BY <1>2
    <2>2. p * (s - q) >= p BY <2>1, SMT
    <2>3. p * (s - q) = p * s - p * q BY SMT
    <2> QED BY <2>2, <2>3, SMT
  <1> QED BY <1>1, <1>2, SMT

\* A whole period changes nothing.
LEMMA ModuloShift ==
    ASSUME NEW p \in Nat \ {0}, NEW x \in Nat
    PROVE  (x + p) % p = x % p
  <1> DEFINE y == x + p
  <1>0. y \in Int OBVIOUS
  <1>1. y = p * (y \div p) + (y % p) /\ y \div p \in Int /\ y % p \in 0 .. p - 1 BY <1>0, DivMod
  <1>2. x = p * (x \div p) + (x % p) /\ x \div p \in Int /\ x % p \in 0 .. p - 1 BY DivMod
  <1>3. y = p * (x \div p + 1) + (x % p) BY <1>2, SMT
  <1>4. x \div p + 1 \in Int BY <1>2
  <1>5. p * (y \div p) + (y % p) = p * (x \div p + 1) + (x % p) BY <1>1, <1>3
  <1> QED BY <1>1, <1>2, <1>4, <1>5, Unique

\* A number below the period is its own remainder.
LEMMA Small ==
    ASSUME NEW p \in Nat \ {0}, NEW x \in 0 .. p - 1
    PROVE  x % p = x
  <1>1. x = p * (x \div p) + (x % p) /\ x \div p \in Int /\ x % p \in 0 .. p - 1 BY DivMod
  <1>2. p * 0 + x = p * (x \div p) + (x % p) BY <1>1, SMT
  <1> QED BY <1>1, <1>2, Unique

\* The slot that is y + 1 away now is y away after a tick.
LEMMA NextPhase ==
    ASSUME NEW p \in Nat \ {0}, NEW x \in 0 .. p - 1, NEW y \in Nat
    PROVE  /\ (x + 1) % p \in 0 .. p - 1
           /\ (((x + 1) % p) + y) % p = (x + (y + 1)) % p
  <1>1. (x + 1) % p \in 0 .. p - 1 BY DivMod
  <1>2. CASE x + 1 = p
    <2>1. (x + 1) % p = 0 
      <3>1. (0 + p) % p = 0 % p BY ModuloShift
      <3>2. 0 % p = 0 BY Small
      <3> QED BY <3>1, <3>2, <1>2
    <2>2. x + (y + 1) = y + p BY <1>2
    <2>3. (y + p) % p = y % p BY ModuloShift
    <2> QED BY <1>1, <2>1, <2>2, <2>3
  <1>3. CASE x + 1 < p
    <2>1. (x + 1) % p = x + 1 
       <3>1. x + 1 \in 0 .. p - 1 BY <1>3
       <3> QED BY <3>1, Small
    <2> QED BY <1>1, <2>1
  <1> QED BY <1>2, <1>3

\* t lies in the interval of k slots that LowerBound opens.
LEMMA InInterval ==
    ASSUME NEW k \in Nat \ {0}, NEW t \in Nat \ {0}
    PROVE  /\ 1 + k * ((t - 1) \div k) \in Nat \ {0}
           /\ 1 + k * ((t - 1) \div k) <= t
           /\ t < 1 + k * ((t - 1) \div k) + k
  <1> DEFINE x == t - 1
  <1>1. x \in Int OBVIOUS
  <1>2. x = k * (x \div k) + (x % k) /\ x \div k \in Int /\ x % k \in 0 .. k - 1 BY <1>1, DivMod
  <1>3. k * (x \div k) > 0 - k  BY <1>2
  <1>4. x \div k >= 0 
    <2>1. SUFFICES ASSUME x \div k <= -1 PROVE FALSE BY <1>2
    <2>2. k * (x \div k) <= 0 - k BY <1>2, <2>1, SMT
    <2> QED BY <2>2, <1>3, <1>2
  <1>5. k * (x \div k) \in Nat BY <1>2, <1>4, SMT
  <1> QED BY <1>2, <1>5

\* Holdoff times and intervals are numbers of slots, at least one.
LEMMA Times ==
    ASSUME NEW n \in Node
    PROVE  /\ HoldoffExp[n] \in Nat
           /\ 2^HoldoffExp[n] \in Nat \ {0}
           /\ Holdoff(n) \in Nat \ {0}
           /\ Holdoff(n) = computeHoldoffTime(HoldoffExp[n])
  <1>1. HoldoffExp[n] \in Nat /\ Base \in Nat \ {0} BY ElectionAssumption
  <1>2. 2^HoldoffExp[n] \in Nat \ {0} BY PowerAssumption
  <1>3. \A x, y \in Nat \ {0} : x * y \in Nat \ {0} OBVIOUS
  <1> QED BY <1>1, <1>2, <1>3 DEF Holdoff, computeHoldoffTime

\* Neighbourhoods are symmetric and leave the node itself out.
LEMMA Neighbourhood ==
    ASSUME mesh \in Meshes, NEW a \in Node, NEW b \in Near(mesh, a)
    PROVE  b \in Node /\ a # b /\ a \in Near(mesh, b)
  BY ElectionAssumption DEF Near

\* The order is strict: of two nodes one loses.
LEMMA OneLoses ==
    ASSUME NEW a \in Node, NEW b \in Node, a # b, NEW x \in 0 .. Period - 1
    PROVE  LosesTo(a, b, x) \/ LosesTo(b, a, x)
  <1>1. Smear1(a, x) \in Nat /\ Smear1(b, x) \in Nat /\ Smear1(a, x) # Smear1(b, x)
    BY SmearAssumption
  <1> QED BY <1>1 DEF LosesTo

\* A node takes into account every neighbour that has the slot, or can be
\* ready for it again after the slot it has, if it believes nothing late of it.
LEMMA WouldCompete ==
    ASSUME TypeOK, KnowledgeSound, NEW a \in Node, NEW b \in Near(mesh, a), NEW t \in Nat,
           b \notin Doubtful(a),
           wait[b] = t \/ wait[b] + Holdoff(b) <= t
    PROVE  Competes(ngh[a][b], HoldoffExp[b], t)
  <1>1. b \in Node BY Neighbourhood DEF TypeOK
  <1>2. wait[b] \in Nat /\ ngh[a][b] \in Nat /\ late[a][b] \in Nat BY <1>1 DEF TypeOK
  <1>3. ngh[a][b] > 0 => /\ ngh[a][b] <= wait[b]
                         /\ wait[b] < ngh[a][b] + 2^HoldoffExp[b]
                         /\ Aware => wait[b] = ngh[a][b]
    <2>1. SUFFICES ASSUME ngh[a][b] > 0 
                   PROVE /\ ngh[a][b] <= wait[b]
                         /\ wait[b] < ngh[a][b] + 2^HoldoffExp[b]
                         /\ Aware => wait[b] = ngh[a][b]
      OBVIOUS
    <2>2. late[a][b] = 0 BY <1>2, <2>1 DEF Doubtful
    <2> QED BY <1>2, <2>1, <2>2 DEF KnowledgeSound
  <1>4. 2^HoldoffExp[b] \in Nat /\ Holdoff(b) \in Nat /\ Holdoff(b) = computeHoldoffTime(HoldoffExp[b])
    BY <1>1, Times
  <1>5. CASE ngh[a][b] = 0 BY <1>5 DEF Competes
  <1>6. CASE ngh[a][b] > 0 /\ wait[b] = t BY <1>2, <1>3, <1>4, <1>6 DEF Competes
  <1>7. CASE ngh[a][b] > 0 /\ wait[b] + Holdoff(b) <= t BY <1>2, <1>3, <1>4, <1>7 DEF Competes
  <1> QED BY <1>2, <1>5, <1>6, <1>7

\* What a node that elects t knows of the neighbours around it.
LEMMA Elected ==
    ASSUME TypeOK, KnowledgeSound, NEW n \in Node, NEW t \in Candidates(n), Elects(n, t)
    PROVE  /\ t \in Nat
           /\ t >= Holdoff(n)
           /\ \A b \in Near(mesh, n) \ Doubtful(n) :
                 wait[b] = t \/ wait[b] + Holdoff(b) <= t => ~LosesTo(n, b, (phase + t) % Period)
  <1>1. Holdoff(n) \in Nat /\ Holdoff(n) = computeHoldoffTime(HoldoffExp[n]) /\ Horizon \in Nat
    BY Times, ElectionAssumption
  <1>2. t \in Nat /\ t >= Holdoff(n) BY <1>1 DEF Candidates
  <1>3. ASSUME NEW b \in Near(mesh, n) \ Doubtful(n), wait[b] = t \/ wait[b] + Holdoff(b) <= t
        PROVE  ~LosesTo(n, b, (phase + t) % Period)
    <2>1. Competes(ngh[n][b], HoldoffExp[b], t) BY <1>2, <1>3, WouldCompete
    <2> QED BY <2>1 DEF Elects, meshElection
  <1> QED BY <1>2, <1>3

-----------------------------------------------------------------------------
(* Every step keeps the invariant. *)

LEMMA InitInv == Init => IInv
  <1> SUFFICES ASSUME Init PROVE IInv OBVIOUS
  <1>1. TypeOK BY ElectionAssumption DEF Init, TypeOK
  <1>2. KnowledgeSound
    <2> SUFFICES ASSUME NEW a \in Node, NEW b \in Near(mesh, a), ngh[a][b] > late[a][b] PROVE FALSE
      BY DEF KnowledgeSound
    <2>1. b \in Node BY <1>1, Neighbourhood DEF TypeOK
    <2> QED BY <2>1 DEF Init
  <1>3. NoSharedSlot BY ElectionAssumption, Neighbourhood DEF Init, NoSharedSlot
  <1>4. ASSUME NEW a \in Node, NEW b \in Near(mesh, a) PROVE Guarded(a, b)
    <2>1. b \in Node BY <1>1, Neighbourhood DEF TypeOK
    <2>2. First[a] \in Nat /\ First[b] \in Nat /\ Holdoff(b) \in Nat /\ First[a] < Holdoff(b)
      BY <2>1, Times, ElectionAssumption
    <2> QED BY <2>2 DEF Init, Guarded
  <1> QED BY <1>1, <1>2, <1>3, <1>4 DEF IInv

LEMMA TickInv == IInv /\ Tick => IInv'
  <1> SUFFICES ASSUME IInv, Tick PROVE IInv' OBVIOUS
  <1> USE DEF IInv
  <1>1. mesh' = mesh /\ type' = type /\ misled' = misled BY DEF Tick
  <1>2. \A n \in Node : wait[n] \in Nat /\ wait[n] > 0 /\ wait'[n] = wait[n] - 1
    BY DEF Tick, TypeOK
  <1>3. \A a, b \in Node : /\ ngh[a][b] \in Nat
                           /\ late[a][b] \in Nat
                           /\ ngh'[a][b] = IF ngh[a][b] > 0 THEN ngh[a][b] - 1 ELSE 0
                           /\ late'[a][b] = IF ngh[a][b] > 1 THEN late[a][b] ELSE 0
    BY DEF Tick, TypeOK
  <1>4. Period \in Nat \ {0} /\ phase \in 0 .. Period - 1 /\ phase' = (phase + 1) % Period
    BY ElectionAssumption DEF Tick, TypeOK
  <1>5. TypeOK'
    <2>1. phase' \in 0 .. Period - 1 BY <1>4, NextPhase
    <2>2. wait' \in [Node -> Nat] BY <1>2 DEF Tick
    <2>3. ngh' \in [Node -> [Node -> Nat]] BY <1>3 DEF Tick
    <2>4. late' \in [Node -> [Node -> Nat]] BY <1>3 DEF Tick
    <2>5. owners' \in SUBSET Node BY DEF Tick
    <2> QED BY <1>1, <2>1, <2>2, <2>3, <2>4, <2>5 DEF TypeOK
  <1>6. KnowledgeSound'
    <2>1. SUFFICES ASSUME NEW a \in Node, NEW b \in Near(mesh, a), ngh'[a][b] > late'[a][b]
                   PROVE  /\ ngh'[a][b] <= wait'[b] + late'[a][b]
                          /\ wait'[b] + late'[a][b] < ngh'[a][b] + 2^HoldoffExp[b]
                          /\ Aware => wait'[b] + late'[a][b] = ngh'[a][b]
      BY <1>1 DEF KnowledgeSound, Aware
    <2>2. b \in Node /\ 2^HoldoffExp[b] \in Nat BY Neighbourhood, Times DEF TypeOK
    <2>3. ngh[a][b] > 1 /\ late'[a][b] = late[a][b] /\ ngh[a][b] > late[a][b]
      BY <1>3, <2>1, <2>2
    <2>4. /\ ngh[a][b] <= wait[b] + late[a][b]
          /\ wait[b] + late[a][b] < ngh[a][b] + 2^HoldoffExp[b]
          /\ Aware => wait[b] + late[a][b] = ngh[a][b]
      BY <2>3 DEF KnowledgeSound
    <2> QED BY <1>2, <1>3, <2>2, <2>3, <2>4
  <1>7. NoSharedSlot'
    <2>1. SUFFICES ASSUME NEW a \in Node, NEW b \in Near(mesh, a), wait'[a] = wait'[b]
                   PROVE  b \in misled[a] \/ a \in misled[b]
      BY <1>1 DEF NoSharedSlot
    <2>2. b \in Node BY Neighbourhood DEF TypeOK
    <2>3. wait[a] = wait[b] BY <1>2, <2>1, <2>2
    <2> QED BY <2>3 DEF NoSharedSlot
  <1>8. ASSUME NEW a \in Node, NEW b \in Near(mesh, a), b \notin misled[a] PROVE Guarded(a, b)'
    <2>1. b \in Node /\ Holdoff(b) \in Nat BY Neighbourhood, Times DEF TypeOK
    <2>2. (phase' + wait'[a]) % Period = (phase + wait[a]) % Period
      <3>1. wait'[a] \in Nat /\ wait[a] = wait'[a] + 1 BY <1>2
      <3> QED BY <1>4, <3>1, NextPhase
    <2>3. Guarded(a, b) BY <1>8
    <2>4. CASE ~LosesTo(a, b, (phase + wait[a]) % Period) BY <2>2, <2>4 DEF Guarded
    <2>5. CASE wait[a] < wait[b] + Holdoff(b)
      <3>1. wait'[a] < wait'[b] + Holdoff(b) BY <1>2, <2>1, <2>5
      <3>2. Holdoff(b)' = Holdoff(b) BY DEF Holdoff, computeHoldoffTime
      <3> QED BY <3>1, <3>2 DEF Guarded
    <2> QED BY <2>3, <2>4, <2>5 DEF Guarded
  <1> QED BY <1>1, <1>5, <1>6, <1>7, <1>8

LEMMA TransmitInv ==
    ASSUME IInv, NEW n \in Node, Transmit(n)
    PROVE  IInv' /\ Access!Use(n)
  <1> USE DEF IInv
  <1>1. PICK t \in Candidates(n) :
          /\ Elects(n, t)
          /\ wait' = [wait EXCEPT ![n] = t]
          /\ \E hearers \in SUBSET (OneHop(mesh, n) \ owners), place \in Lists(n), l \in Stamps[n] :
                /\ ngh' = [a \in Node |-> IF a \in hearers THEN Heard(a, n, t, place, l) ELSE ngh[a]]
                /\ late' = [a \in Node |-> IF a \in hearers THEN Lateness(a, n, place, l) ELSE late[a]]
    BY Zenon DEF Transmit
  <1>2. PICK hearers \in SUBSET (OneHop(mesh, n) \ owners), place \in Lists(n), l \in Stamps[n] :
          /\ ngh' = [a \in Node |-> IF a \in hearers THEN Heard(a, n, t, place, l) ELSE ngh[a]]
          /\ late' = [a \in Node |-> IF a \in hearers THEN Lateness(a, n, place, l) ELSE late[a]]
    BY <1>1, Zenon
  <1>3. /\ wait[n] = 0 /\ mesh' = mesh /\ type' = type /\ phase' = phase /\ owners' = owners
        /\ misled' = [misled EXCEPT ![n] = Doubtful(n)]
    BY DEF Transmit
  <1>4. l \in {0, 1} /\ hearers \subseteq OneHop(mesh, n) BY ElectionAssumption
  <1>5. /\ t \in Nat
        /\ t >= Holdoff(n)
        /\ \A b \in Near(mesh, n) \ Doubtful(n) :
              wait[b] = t \/ wait[b] + Holdoff(b) <= t => ~LosesTo(n, b, (phase + t) % Period)
    BY <1>1, Elected
  <1>6. \A m \in Node : /\ wait[m] \in Nat /\ wait'[m] = IF m = n THEN t ELSE wait[m]
                        /\ misled'[m] = IF m = n THEN Doubtful(n) ELSE misled[m]
    BY <1>1, <1>3 DEF TypeOK
  <1>7. Holdoff(n) \in Nat \ {0} /\ 2^HoldoffExp[n] \in Nat \ {0} /\ HoldoffExp[n] \in Nat BY Times
  <1>8. LET v == LowerBound(HoldoffExp[n], t)
        IN /\ v \in Nat \ {0}
           /\ v <= t
           /\ t < v + 2^HoldoffExp[n]
           /\ Aware => v = t
    <2>1. t \in Nat \ {0} BY <1>5, <1>7
    <2> QED BY <1>7, <2>1, InInterval DEF LowerBound
  <1>9. (phase + t) % Period \in 0 .. Period - 1
    <2>1. Period \in Nat \ {0} /\ phase + t \in Int BY <1>5, ElectionAssumption DEF TypeOK
    <2> QED BY <2>1, DivMod
  <1>10. \A a, b \in Node : ngh[a][b] \in Nat /\ late[a][b] \in Nat BY DEF TypeOK
  \* What anybody believes after the message.
  <1>11. ASSUME NEW a \in Node, NEW b \in Node
         PROVE  \/ /\ b = n /\ a \in hearers
                   /\ ngh'[a][b] = LowerBound(HoldoffExp[n], t) + l
                   /\ late'[a][b] = l
                \/ /\ b # n /\ a \in hearers
                   /\ b \in OneHop(mesh, n) /\ ngh[n][b] > 0
                   /\ ngh'[a][b] = ngh[n][b] + l
                   /\ late'[a][b] = late[n][b] + l
                \/ ngh'[a][b] = ngh[a][b] /\ late'[a][b] = late[a][b]
    <2>1. CASE a \notin hearers BY <1>2, <2>1
    <2>2. CASE a \in hearers
      <3>1. /\ ngh'[a][b] = Heard(a, n, t, place, l)[b]
            /\ late'[a][b] = Lateness(a, n, place, l)[b]
        BY <1>2, <2>2
      <3>2. CASE b = n BY <2>2, <3>1, <3>2 DEF Heard, Lateness
      <3>3. CASE b # n /\ b \in Used(a, n, place)
        <4>1. b \in OneHop(mesh, n) /\ ngh[n][b] > 0 BY <3>3 DEF Used, Advertised, Known
        <4> QED BY <2>2, <3>1, <3>3, <4>1 DEF Heard, Lateness
      <3>4. CASE b # n /\ b \notin Used(a, n, place) BY <3>1, <3>4 DEF Heard, Lateness
      <3> QED BY <3>2, <3>3, <3>4
    <2> QED BY <2>1, <2>2
  <1>12. TypeOK'
    <2>1. wait' \in [Node -> Nat] BY <1>1, <1>5 DEF TypeOK
    <2>2. \A a, b \in Node : ngh'[a][b] \in Nat /\ late'[a][b] \in Nat BY <1>4, <1>8, <1>10, <1>11
    <2>3. ASSUME NEW a \in Node PROVE ngh'[a] \in [Node -> Nat] /\ late'[a] \in [Node -> Nat]
      <3>1. ngh'[a] = [b \in Node |-> ngh'[a][b]] BY <1>2 DEF TypeOK, Heard
      <3>2. late'[a] = [b \in Node |-> late'[a][b]] BY <1>2 DEF TypeOK, Lateness
      <3> QED BY <2>2, <3>1, <3>2
    <2>4. ngh' \in [Node -> [Node -> Nat]] /\ late' \in [Node -> [Node -> Nat]] BY <1>2, <2>3
    <2>5. misled' \in [Node -> SUBSET Node]
      <3>1. Doubtful(n) \subseteq Node BY Neighbourhood DEF Doubtful, TypeOK
      <3> QED BY <1>3, <3>1 DEF TypeOK
    <2> QED BY <1>3, <2>1, <2>4, <2>5 DEF TypeOK
  <1>13. KnowledgeSound'
    <2>1. SUFFICES ASSUME NEW a \in Node, NEW b \in Near(mesh, a), ngh'[a][b] > late'[a][b]
                   PROVE  /\ ngh'[a][b] <= wait'[b] + late'[a][b]
                          /\ wait'[b] + late'[a][b] < ngh'[a][b] + 2^HoldoffExp[b]
                          /\ Aware => wait'[b] + late'[a][b] = ngh'[a][b]
      BY <1>3 DEF KnowledgeSound, Aware
    <2>2. b \in Node /\ 2^HoldoffExp[b] \in Nat BY Neighbourhood, Times DEF TypeOK
    <2>3. CASE b = n /\ ngh'[a][b] = LowerBound(HoldoffExp[n], t) + l /\ late'[a][b] = l
      BY <1>4, <1>6, <1>7, <1>8, <1>5, <2>3
    <2>4. CASE /\ b # n /\ b \in OneHop(mesh, n)
               /\ ngh'[a][b] = ngh[n][b] + l
               /\ late'[a][b] = late[n][b] + l
      <3>1. ngh[n][b] > late[n][b] BY <1>4, <1>10, <2>1, <2>2, <2>4
      <3>2. b \in Near(mesh, n) BY <2>4 DEF Near
      <3>3. /\ ngh[n][b] <= wait[b] + late[n][b]
            /\ wait[b] + late[n][b] < ngh[n][b] + 2^HoldoffExp[b]
            /\ Aware => wait[b] + late[n][b] = ngh[n][b]
        BY <3>1, <3>2 DEF KnowledgeSound
      <3>4. wait'[b] = wait[b] /\ wait[b] \in Nat BY <1>6, <2>2, <2>4
      <3>5. Aware => wait'[b] + late'[a][b] = ngh'[a][b] BY <1>4, <1>10, <2>2, <2>4, <3>3, <3>4
      <3> QED BY <1>4, <1>10, <2>2, <2>4, <3>3, <3>4, <3>5
    <2>5. CASE ngh'[a][b] = ngh[a][b] /\ late'[a][b] = late[a][b]
      <3>1. /\ ngh[a][b] <= wait[b] + late[a][b]
            /\ wait[b] + late[a][b] < ngh[a][b] + 2^HoldoffExp[b]
            /\ Aware => wait[b] + late[a][b] = ngh[a][b]
        BY <2>1, <2>5 DEF KnowledgeSound
      <3>2. b # n BY <1>3, <1>10, <2>1, <2>2, <2>5, <3>1
      <3> QED BY <1>6, <2>2, <2>5, <3>1, <3>2
    <2> QED BY <1>11, <2>2, <2>3, <2>4, <2>5
  \* Nobody around n whom it knows rightly has the slot: it would have lost it
  \* to n, or n to it.
  <1>14. ASSUME NEW b \in Near(mesh, n) \ Doubtful(n), wait[b] = t PROVE n \in misled[b]
    <2>1. SUFFICES ASSUME n \notin misled[b] PROVE FALSE OBVIOUS
    <2>2. b \in Node /\ b # n /\ n \in Near(mesh, b) BY Neighbourhood DEF TypeOK
    <2>3. ~LosesTo(n, b, (phase + t) % Period) BY <1>5, <1>14
    <2>4. LosesTo(b, n, (phase + t) % Period) BY <1>9, <2>2, <2>3, OneLoses
    <2>5. Guarded(b, n) BY <2>1, <2>2
    <2>6. wait[b] < wait[n] + Holdoff(n) BY <1>14, <2>4, <2>5 DEF Guarded
    <2> QED BY <1>3, <1>5, <1>7, <1>14, <2>6
  <1>15. NoSharedSlot'
    <2>1. SUFFICES ASSUME NEW a \in Node, NEW b \in Near(mesh, a), wait'[a] = wait'[b]
                   PROVE  b \in misled'[a] \/ a \in misled'[b]
      BY <1>3 DEF NoSharedSlot
    <2>2. b \in Node /\ b # a /\ a \in Near(mesh, b) BY Neighbourhood DEF TypeOK
    <2>3. CASE a = n BY <1>6, <1>14, <2>1, <2>2, <2>3
    <2>4. CASE b = n BY <1>6, <1>14, <2>1, <2>2, <2>4
    <2>5. CASE a # n /\ b # n BY <1>6, <2>1, <2>2, <2>5 DEF NoSharedSlot
    <2> QED BY <2>3, <2>4, <2>5
  <1>16. ASSUME NEW a \in Node, NEW b \in Near(mesh, a), b \notin misled'[a] PROVE Guarded(a, b)'
    <2>1. b \in Node /\ b # a /\ Holdoff(b) \in Nat /\ Holdoff(b)' = Holdoff(b)
      BY Neighbourhood, Times DEF TypeOK, Holdoff, computeHoldoffTime
    <2>2. CASE a = n
      <3>1. wait'[a] = t /\ wait'[b] = wait[b] /\ b \in Near(mesh, n) \ Doubtful(n)
        BY <1>6, <1>16, <2>1, <2>2
      <3>2. CASE wait[b] + Holdoff(b) <= t
        <4>1. ~LosesTo(a, b, (phase + t) % Period) BY <1>5, <2>2, <3>1, <3>2
        <4> QED BY <1>3, <3>1, <4>1 DEF Guarded
      <3>3. CASE t < wait[b] + Holdoff(b) BY <2>1, <3>1, <3>3 DEF Guarded
      <3> QED BY <1>5, <1>6, <2>1, <3>2, <3>3
    <2>3. CASE b = n
      <3>1. wait'[b] = t /\ wait'[a] = wait[a] /\ misled'[a] = misled[a] BY <1>6, <2>1, <2>3
      <3>2. Guarded(a, b) BY <1>16, <3>1
      <3>3. CASE ~LosesTo(a, b, (phase + wait[a]) % Period) BY <1>3, <3>1, <3>3 DEF Guarded
      <3>4. CASE wait[a] < wait[b] + Holdoff(b)
        <4>1. wait'[a] < wait'[b] + Holdoff(b) BY <1>3, <1>5, <1>6, <2>1, <2>3, <3>1, <3>4
        <4> QED BY <2>1, <4>1 DEF Guarded
      <3> QED BY <3>2, <3>3, <3>4 DEF Guarded
    <2>4. CASE a # n /\ b # n
      <3>1. wait'[a] = wait[a] /\ wait'[b] = wait[b] /\ misled'[a] = misled[a] BY <1>6, <2>1, <2>4
      <3>2. Guarded(a, b) BY <1>16, <3>1
      <3> QED BY <1>3, <2>1, <3>1, <3>2 DEF Guarded
    <2> QED BY <2>2, <2>3, <2>4
  \* Doubts spread with the message only.
  <1>17. ASSUME NEW m \in Node
         PROVE  IF m \in OneHop(mesh, n)
                  THEN Doubtful(m)' \subseteq Doubtful(m) \cup IF l = 0 THEN Doubtful(n)
                                                              ELSE {n} \cup OneHop(mesh, n)
                  ELSE Doubtful(m)' = Doubtful(m)
    <2>1. \A b \in Near(mesh, m) : b \in Node BY Neighbourhood DEF TypeOK
    <2>2. CASE m \in OneHop(mesh, n)
      <3>1. SUFFICES ASSUME NEW b \in Doubtful(m)', b \notin Doubtful(m)
                     PROVE  b \in IF l = 0 THEN Doubtful(n) ELSE {n} \cup OneHop(mesh, n)
        BY <2>2
      <3>2. b \in Near(mesh, m) /\ ngh'[m][b] > 0 /\ late'[m][b] > 0 BY <1>3, <3>1 DEF Doubtful
      <3>3. b \in Node BY <2>1, <3>2
      <3>4. ~(ngh'[m][b] = ngh[m][b] /\ late'[m][b] = late[m][b]) BY <3>1, <3>2 DEF Doubtful
      <3>5. CASE b = n /\ late'[m][b] = l BY <3>2, <3>5
      <3>6. CASE b \in OneHop(mesh, n) /\ ngh[n][b] > 0 /\ late'[m][b] = late[n][b] + l
        <4>1. CASE l = 0
          <5>1. late[n][b] > 0 BY <1>10, <3>2, <3>3, <3>6, <4>1
          <5> QED BY <3>6, <4>1, <5>1 DEF Doubtful, Near
        <4> QED BY <1>4, <3>6, <4>1
      <3> QED BY <1>11, <3>3, <3>4, <3>5, <3>6
    <2>3. CASE m \notin OneHop(mesh, n)
      <3>1. ngh'[m] = ngh[m] /\ late'[m] = late[m] BY <1>2, <1>4, <2>3
      <3> QED BY <1>3, <2>3, <3>1 DEF Doubtful
    <2> QED BY <2>2, <2>3
  <1>18. Access!Use(n)
    <2> DEFINE doubt == [m \in Node |-> Doubtful(m)]
    <2>1. wait'[n] = t /\ t \in Nat /\ t >= Holdoff(n) BY <1>5, <1>6
    <2>2. \A m \in Near(mesh, n) \ doubt[n] : wait[m] = wait'[n] => n \in misled[m]
      BY <1>14, <2>1
    <2>3. misled' = [misled EXCEPT ![n] = doubt[n]] BY <1>3
    <2>4. \E told \in {doubt[n], {n} \cup OneHop(mesh, n)} :
             \A m \in Node :
                IF m \in OneHop(mesh, n) THEN doubt'[m] \subseteq doubt[m] \cup told
                                         ELSE doubt'[m] = doubt[m]
      <3>1. CASE l = 0 BY <1>17, <3>1
      <3>2. CASE l # 0 BY <1>17, <3>2
      <3> QED BY <3>1, <3>2
    <2> QED BY <1>1, <1>3, <2>1, <2>2, <2>3, <2>4 DEF Access!Use
  <1> QED BY <1>3, <1>12, <1>13, <1>15, <1>16, <1>18

-----------------------------------------------------------------------------
(* The theorems. *)

\* competition: the invariant holds at every moment of every run.
THEOREM Invariant == Spec => []IInv
  <1>1. Init => IInv BY InitInv
  <1>2. IInv /\ [Next]_vars => IInv'
    <2> SUFFICES ASSUME IInv, [Next]_vars PROVE IInv' OBVIOUS
    <2>1. CASE Tick BY <2>1, TickInv
    <2>2. ASSUME NEW n \in Node, Transmit(n) PROVE IInv' BY <2>2, TransmitInv
    <2>3. CASE UNCHANGED vars
      BY <2>3 DEF vars, IInv, TypeOK, KnowledgeSound, NoSharedSlot, Guarded, Aware, Holdoff,
                  computeHoldoffTime
    <2> QED BY <2>1, <2>2, <2>3 DEF Next
  <1> QED BY <1>1, <1>2, PTL DEF Spec

\* competition, meshElection and competingNodes: no two nodes that a common
\* neighbour could hear ever hold the same control slot, unless one of them
\* elected it while it believed of the other something that was dated late.
THEOREM SlotsExclusive == Spec => []NoSharedSlot
  <1>1. IInv => NoSharedSlot BY DEF IInv
  <1> QED BY <1>1, Invariant, PTL

\* Where no MSH-DSCH is longer than 48 bytes nothing is dated late and nobody is
\* misled.
Exact == \A n \in Node : misled[n] = {} /\ \A b \in Node : late[n][b] = 0

\* Without long messages two nodes within two hops never have the same slot:
\* the late dates of currentCtrlSlotDsch are all that breaks the election.
THEOREM ShortMessagesExclusive ==
    ASSUME \A n \in Node : Stamps[n] = {0}
    PROVE  Spec => []NeverShared
  <1>1. Init => Exact BY DEF Init, Exact
  <1>2. ASSUME IInv, Exact, [Next]_vars PROVE Exact'
    <2>1. CASE Tick BY <1>2, <2>1 DEF Tick, Exact
    <2>2. ASSUME NEW n \in Node, Transmit(n) PROVE Exact'
      <3>1. PICK hearers \in SUBSET (OneHop(mesh, n) \ owners), place \in Lists(n), l \in Stamps[n] :
               late' = [a \in Node |-> IF a \in hearers THEN Lateness(a, n, place, l) ELSE late[a]]
        BY <2>2 DEF Transmit
      <3>2. l = 0 OBVIOUS
      <3>3. ASSUME NEW a \in Node, NEW b \in Node PROVE late'[a][b] = 0
        <4>1. late'[a][b] = IF a \in hearers THEN Lateness(a, n, place, l)[b] ELSE late[a][b]
          BY <3>1
        <4>2. late[a][b] = 0 /\ late[n][b] = 0 BY <1>2 DEF Exact
        <4>3. Lateness(a, n, place, l)[b] = 0 BY <3>2, <4>2 DEF Lateness
        <4> QED BY <4>1, <4>2, <4>3
      <3>4. Doubtful(n) = {}
        <4>1. Near(mesh, n) \subseteq Node BY <1>2, Neighbourhood DEF IInv, TypeOK
        <4> QED BY <1>2, <4>1 DEF Doubtful, Exact
      <3>5. misled \in [Node -> SUBSET Node] BY <1>2 DEF IInv, TypeOK
      <3>6. \A a \in Node : misled'[a] = {} BY <1>2, <2>2, <3>4, <3>5 DEF Transmit, Exact
      <3> QED BY <3>3, <3>6 DEF Exact
    <2>3. CASE UNCHANGED vars BY <1>2, <2>3 DEF vars, Exact
    <2> QED BY <1>2, <2>1, <2>2, <2>3 DEF Next
  <1>3. ASSUME IInv, Exact PROVE NeverShared
    <2>1. \A a \in Node : \A b \in Near(mesh, a) : b \in Node BY <1>3, Neighbourhood DEF IInv, TypeOK
    <2> QED BY <1>3, <2>1 DEF IInv, NoSharedSlot, NeverShared, Exact
  <1>4. Spec => []Exact
    <2>1. IInv /\ Exact /\ [Next]_vars => Exact' BY <1>2
    <2> QED BY <1>1, <2>1, Invariant, PTL DEF Spec
  <1>5. IInv /\ Exact => NeverShared BY <1>3
  <1> QED BY <1>4, <1>5, Invariant, PTL

\* recvMshDsch: what is believed of a neighbour stays true until it transmits,
\* but for the slots by which it was dated late.
THEOREM KnowledgeStaysSound == Spec => []KnowledgeSound
  <1>1. IInv => KnowledgeSound BY DEF IInv
  <1> QED BY <1>1, Invariant, PTL

\* Every run of the coordinators is one that ControlAccess allows.
THEOREM Refines == Spec => ImplementsControlAccess
  <1>1. Init => Access!Init
    <2> SUFFICES ASSUME Init PROVE Access!Init OBVIOUS
    <2>1. IInv BY InitInv
    <2>2. \A n \in Node : \A m \in Near(mesh, n) : wait[m] # wait[n] /\ ngh[n][m] = 0
      BY <2>1, Neighbourhood, ElectionAssumption DEF Init, IInv, TypeOK
    <2>3. \A n \in Node : Doubtful(n) = {} BY <2>2 DEF Doubtful
    <2>4. wait \in [Node -> Nat] BY <2>1 DEF IInv, TypeOK
    <2>5. mesh \in Meshes /\ misled = [n \in Node |-> {}] BY DEF Init
    <2> QED BY <2>2, <2>3, <2>4, <2>5 DEF Access!Init
  <1>2. IInv /\ [Next]_vars => [Access!Next]_(Access!vars)
    <2> SUFFICES ASSUME IInv, [Next]_vars PROVE [Access!Next]_(Access!vars) OBVIOUS
    <2>1. CASE Tick
      <3>1. ASSUME NEW n \in Node PROVE Doubtful(n)' \subseteq Doubtful(n)
        <4> SUFFICES ASSUME NEW b \in Doubtful(n)' PROVE b \in Doubtful(n) OBVIOUS
        <4>1. b \in Near(mesh, n) /\ ngh'[n][b] > 0 /\ late'[n][b] > 0 BY <2>1 DEF Tick, Doubtful
        <4>2. b \in Node BY <4>1, Neighbourhood DEF IInv, TypeOK
        <4>3. ngh[n][b] \in Nat /\ late[n][b] \in Nat BY <4>2 DEF IInv, TypeOK
        <4>4. /\ ngh'[n][b] = IF ngh[n][b] > 0 THEN ngh[n][b] - 1 ELSE 0
              /\ late'[n][b] = IF ngh[n][b] > 1 THEN late[n][b] ELSE 0
          BY <2>1, <4>2 DEF Tick
        <4> QED BY <4>1, <4>3, <4>4 DEF Doubtful
      <3>2. Access!Tick BY <2>1, <3>1 DEF Tick, Access!Tick
      <3> QED BY <3>2 DEF Access!Next
    <2>2. ASSUME NEW n \in Node, Transmit(n) PROVE Access!Next
      BY <2>2, TransmitInv DEF Access!Next
    <2>3. CASE UNCHANGED vars
      <3>1. \A n \in Node : Doubtful(n)' = Doubtful(n) BY <2>3 DEF vars, Doubtful
      <3> QED BY <2>3, <3>1 DEF vars, Access!vars
    <2> QED BY <2>1, <2>2, <2>3 DEF Next
  <1> QED BY <1>1, <1>2, Invariant, PTL DEF Spec, ImplementsControlAccess, Access!Spec
=============================================================================
