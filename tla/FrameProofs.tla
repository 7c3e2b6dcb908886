----------------------------- MODULE FrameProofs -----------------------------
(***************************************************************************)
(* The opportunities of the standard coordinator, for every number of        *)
(* control slots and every period of configuration frames: none is missed,   *)
(* kinds of messages do not meet, and slots are counted alike by all; and    *)
(* the calls of the bandwidth manager, for every number of minislots.        *)
(***************************************************************************)
EXTENDS Frame, WellFoundedInduction, TLAPS

Standard == conf.type = "STANDARD"

-----------------------------------------------------------------------------
(* Slots and frames. *)

\* Division with remainder.
LEMMA Division ==
    ASSUME NEW p \in Nat \ {0}, NEW x \in Nat
    PROVE  /\ x \div p \in Nat
           /\ x % p \in 0 .. p - 1
           /\ x = p * (x \div p) + (x % p)
  <1>1. x \div p \in Int /\ x % p \in 0 .. p - 1 /\ x = p * (x \div p) + (x % p) BY SMT
  <1>2. x \div p >= 0
    <2>1. SUFFICES ASSUME x \div p <= -1 PROVE FALSE BY <1>1
    <2>2. p * (x \div p) <= 0 - p BY <1>1, <2>1, SMT
    <2> QED BY <1>1, <2>2
  <1> QED BY <1>1, <1>2

\* Quotient and remainder are unique.
LEMMA Quotient ==
    ASSUME NEW p \in Nat \ {0}, NEW q \in Nat, NEW r \in 0 .. p - 1
    PROVE  /\ (p * q + r) \div p = q
           /\ (p * q + r) % p = r
  <1> DEFINE x == p * q + r
             d == x \div p
             m == x % p
  <1>1. x \in Nat BY SMT
  <1>2. d \in Nat /\ m \in 0 .. p - 1 /\ x = p * d + m BY <1>1, Division
  <1> HIDE DEF d, m
  <1>3. CASE d > q
    <2>1. p * (d - q) >= p BY <1>2, <1>3, SMT
    <2> QED BY <1>2, <2>1, SMT
  <1>4. CASE d < q
    <2>1. p * (q - d) >= p BY <1>2, <1>4, SMT
    <2> QED BY <1>2, <2>1, SMT
  <1>5. CASE d = q BY <1>2, <1>5, SMT DEF d, m
  <1> QED BY <1>2, <1>3, <1>4, <1>5

\* Division keeps the order.
LEMMA Monotone ==
    ASSUME NEW p \in Nat \ {0}, NEW x \in Nat, NEW y \in Nat, x <= y
    PROVE  x \div p <= y \div p
  <1> DEFINE a == x \div p
             b == y \div p
  <1>1. a \in Nat /\ x % p \in 0 .. p - 1 /\ x = p * a + (x % p) BY Division
  <1>2. b \in Nat /\ y % p \in 0 .. p - 1 /\ y = p * b + (y % p) BY Division
  <1> HIDE DEF a, b
  <1>3. SUFFICES ASSUME a > b PROVE FALSE BY <1>1, <1>2 DEF a, b
  <1>4. p * (a - b) >= p BY <1>1, <1>2, <1>3, SMT
  <1>5. p * a - p * b >= p BY <1>1, <1>2, <1>4, SMT
  <1> QED BY <1>1, <1>2, <1>5

\* electionDsch, start: the x-th MSH-DSCH slot is one of a frame that is not
\* for configuration, and it is counted as the x-th (currentCtrlSlotDsch).
LEMMA DschPlaced ==
    ASSUME NEW x \in Nat
    PROVE  LET d == DschAt(x)
               q == x \div C
           IN /\ d = At(x % C, q + 1 + (q \div T))
              /\ d = DschStart(x)
              /\ d.slot \in 0 .. C - 1 /\ d.frame \in Nat
              /\ d.frame % (T + 1) # 0
              /\ currentCtrlSlotDsch(d.slot, d.frame) = x
  <1> DEFINE q == x \div C
             r == x % C
             k == q \div T
             j == q % T
             f == q + 1 + k
  <1>0. C \in Nat \ {0, 1} /\ T \in Nat \ {0} /\ T + 1 \in Nat \ {0} BY FrameAssumption
  <1>1. q \in Nat /\ r \in 0 .. C - 1 /\ x = C * q + r BY <1>0, Division
  <1>2. k \in Nat /\ j \in 0 .. T - 1 /\ q = T * k + j BY <1>0, <1>1, Division
  <1>3. DschAt(x) = At((x + (1 + k) * C) % C, (x + (1 + k) * C) \div C) BY DEF DschAt
  <1>4. DschStart(x) = At(r, f) BY <1>1, <1>2 DEF DschStart
  <1> HIDE DEF q, r, k, j
  <1>5. x + (1 + k) * C = C * f + r /\ f \in Nat BY <1>0, <1>1, <1>2, SMT
  <1>6. DschAt(x) = At(r, f) BY <1>0, <1>1, <1>3, <1>5, Quotient
  <1>7. f = (T + 1) * k + (j + 1) /\ f - 1 = (T + 1) * k + j BY <1>0, <1>2, SMT
  <1>8. f % (T + 1) = j + 1
    <2>1. j + 1 \in 0 .. (T + 1) - 1 BY <1>0, <1>2
    <2> QED BY <1>0, <1>2, <1>7, <2>1, Quotient, SMTT(30)
  <1>9. (f - 1) \div (T + 1) = k
    <2>1. j \in 0 .. (T + 1) - 1 BY <1>0, <1>2
    <2> QED BY <1>0, <1>2, <1>7, <2>1, Quotient
  <1>10. currentCtrlSlotDsch(r, f) = x
    <2>1. currentCtrlSlotDsch(r, f) = (C * f + r) - C * (1 + k) BY <1>9 DEF currentCtrlSlotDsch
    <2> QED BY <2>1, <1>0, <1>1, <1>2, <1>5, SMT
  <1> QED BY <1>1, <1>2, <1>4, <1>5, <1>6, <1>8, <1>10 DEF At, q, r, k

\* Later MSH-DSCH slots come later.
LEMMA DschLater ==
    ASSUME NEW x \in Nat, NEW w \in Nat \ {0}
    PROVE  \/ DschAt(x + w).frame > DschAt(x).frame
           \/ /\ DschAt(x + w).frame = DschAt(x).frame
              /\ DschAt(x + w).slot > DschAt(x).slot
  <1> DEFINE q(z) == z \div C
             k(z) == q(z) \div T
             r(z) == z % C
  <1>0. C \in Nat \ {0} /\ T \in Nat \ {0} /\ x + w \in Nat BY FrameAssumption
  <1>1. \A z \in Nat : /\ q(z) \in Nat /\ k(z) \in Nat /\ r(z) \in 0 .. C - 1
                       /\ z = C * q(z) + r(z)
    BY <1>0, Division
  <1>2. \A z \in Nat : DschAt(z).slot = r(z) /\ DschAt(z).frame = q(z) + 1 + k(z)
    BY DschPlaced DEF At
  <1>3. q(x) <= q(x + w) BY <1>0, Monotone
  <1>4. k(x) <= k(x + w) BY <1>0, <1>1, <1>3, Monotone
  <1> HIDE DEF q, k, r
  <1>5. CASE q(x) < q(x + w) BY <1>0, <1>1, <1>2, <1>4, <1>5
  <1>6. CASE q(x) = q(x + w)
    <2>1. k(x) = k(x + w) BY <1>6 DEF k
    <2>2. r(x) < r(x + w) BY <1>0, <1>1, <1>6
    <2> QED BY <1>0, <1>1, <1>2, <1>6, <2>1, <2>2
  <1> QED BY <1>0, <1>1, <1>3, <1>5, <1>6

\* electionNcfg, start: MSH-NCFG slots are those of configuration frames, but
\* for the first one.
LEMMA NcfgPlaced ==
    ASSUME NEW x \in Nat
    PROVE  LET d == NcfgAt(x)
           IN /\ d.frame = (T + 1) * (x \div (C - 1))
              /\ d.slot \in 1 .. C - 1 /\ d.frame \in Nat
              /\ d.frame % (T + 1) = 0
              /\ NcfgStart(x).frame = d.frame
              /\ NcfgStart(x).slot \in 1 .. C - 1
  <1> DEFINE q == x \div (C - 1)
             r == x % (C - 1)
             y == x + (1 + T * C) * q
  <1>0. C \in Nat \ {0, 1} /\ C - 1 \in Nat \ {0} /\ T \in Nat \ {0} /\ T + 1 \in Nat \ {0}
    BY FrameAssumption
  <1>1. q \in Nat /\ r \in 0 .. (C - 1) - 1 /\ x = (C - 1) * q + r BY <1>0, Division
  <1>2. NcfgAt(x) = At(1 + (y % (C - 1)), y \div C) BY DEF NcfgAt
  <1>3. NcfgStart(x) = At(1 + r, q * (T + 1)) BY DEF NcfgStart
  <1> HIDE DEF q, r
  <1>4. y = C * ((T + 1) * q) + r /\ (T + 1) * q \in Nat /\ y \in Nat BY <1>0, <1>1, SMT
  <1> HIDE DEF y
  <1>5. y \div C = (T + 1) * q
    <2>1. r \in 0 .. C - 1 BY <1>0, <1>1
    <2> QED BY <1>0, <1>4, <2>1, Quotient
  <1>6. y % (C - 1) \in 0 .. (C - 1) - 1 BY <1>0, <1>4, Division
  <1>7. ((T + 1) * q + 0) % (T + 1) = 0 BY <1>0, <1>1, Quotient
  <1>8. (T + 1) * q + 0 = (T + 1) * q /\ q * (T + 1) = (T + 1) * q BY <1>0, <1>1, SMT
  <1>9. NcfgAt(x).frame = (T + 1) * q /\ NcfgAt(x).slot = 1 + (y % (C - 1))
    BY <1>2, <1>5 DEF At
  <1>10. NcfgStart(x).frame = (T + 1) * q /\ NcfgStart(x).slot = 1 + r BY <1>3, <1>8 DEF At
  <1>11. NcfgAt(x).slot \in 1 .. C - 1 /\ NcfgStart(x).slot \in 1 .. C - 1
    BY <1>0, <1>1, <1>6, <1>9, <1>10
  <1>12. NcfgAt(x).frame % (T + 1) = 0 BY <1>7, <1>8, <1>9
  <1> QED BY <1>4, <1>9, <1>10, <1>11, <1>12 DEF q

\* electionNcfg: with a holdoff that is longer than the MSH-NCFG slots of a
\* frame, the next one is in a later configuration frame.
LEMMA NcfgLater ==
    ASSUME NEW slot \in 1 .. C - 1, NEW f \in Nat, f % (T + 1) = 0, NEW w \in Nat \ 0 .. C - 2
    PROVE  /\ currentCtrlSlotNcfg(slot, f) + w \in Nat
           /\ NcfgAt(currentCtrlSlotNcfg(slot, f) + w).frame > f
  <1> DEFINE m == f \div (T + 1)
             x == currentCtrlSlotNcfg(slot, f) + w
             q == x \div (C - 1)
  <1>0. C \in Nat \ {0, 1} /\ C - 1 \in Nat \ {0} /\ T \in Nat \ {0} /\ T + 1 \in Nat \ {0}
    BY FrameAssumption
  <1>1. m \in Nat /\ f = (T + 1) * m
    <2>1. m \in Nat /\ f = (T + 1) * m + (f % (T + 1)) BY <1>0, Division
    <2>2. (T + 1) * m \in Nat BY <1>0, <2>1, SMT
    <2> HIDE DEF m
    <2> QED BY <2>1, <2>2
  <1>2. x = (C * f + slot) - (1 + T * C) * m + w BY DEF currentCtrlSlotNcfg
  <1> HIDE DEF m, x
  <1>3. x = (C - 1) * m + slot + w BY <1>0, <1>1, <1>2, SMT
  <1>4. (C - 1) * m \in Nat /\ (C - 1) * (m + 1) + 0 = (C - 1) * m + (C - 1) /\ m + 1 \in Nat
    BY <1>0, <1>1, SMT
  <1>5. x \in Nat /\ (C - 1) * (m + 1) + 0 \in Nat /\ (C - 1) * (m + 1) + 0 <= x
    BY <1>0, <1>3, <1>4, SMT
  <1>6. m + 1 <= q
    <2>1. ((C - 1) * (m + 1) + 0) \div (C - 1) <= q BY <1>0, <1>5, Monotone
    <2>2. ((C - 1) * (m + 1) + 0) \div (C - 1) = m + 1 BY <1>0, <1>4, Quotient
    <2> QED BY <2>1, <2>2
  <1>7. NcfgAt(x).frame = (T + 1) * q BY <1>5, NcfgPlaced
  <1>8. q \in Nat BY <1>0, <1>5, Division
  <1> HIDE DEF q
  <1>9. (T + 1) * q > (T + 1) * m
    <2>1. (T + 1) * (q - m) >= T + 1 BY <1>0, <1>1, <1>6, <1>8, SMT
    <2> QED BY <1>0, <1>1, <1>8, <2>1, SMT
  <1> QED BY <1>1, <1>5, <1>7, <1>9 DEF x

-----------------------------------------------------------------------------
(* The invariant: where each opportunity is, and that the timer of the        *)
(* coordinator ends no later than at the first of them.                       *)

Opportunity == [slot : Nat, frame : Nat]

Typed ==
    /\ conf \in Configs /\ index \in Nat
    /\ next \in [DSCH : Opportunity, NCFG : Opportunity, NENT : Opportunity]
    /\ frame \in Nat /\ pos \in 0 .. C + N - 1 /\ ctl \in Nat

\* What the election placed.
Placed ==
    /\ next.DSCH = DschAt(index)
    /\ next.NCFG.frame % (T + 1) = 0 /\ next.NCFG.slot \in 1 .. C - 1
    /\ next.NENT.frame % (T + 1) = 0 /\ next.NENT.slot = 0

\* No opportunity o before the timer ends.
Ahead(o) == o.frame > frame \/ (o.frame = frame /\ o.slot >= pos + ctl)

Timed ==
    /\ pos < C => pos + ctl <= C
    /\ pos = C => ctl = 0 \/ ctl = N
    /\ pos > C => ctl = C + N - pos
    /\ Ahead(next.DSCH) /\ Ahead(next.NCFG) /\ Ahead(next.NENT)

IInv == Standard => Typed /\ Placed /\ Timed

\* start places the first opportunities.
LEMMA InitIInv == Init => IInv
  <1> SUFFICES ASSUME Init, Standard PROVE Typed /\ Placed /\ Timed BY DEF IInv
  <1>0. C \in Nat \ {0, 1} /\ N \in Nat \ {0} /\ T + 1 \in Nat \ {0} BY FrameAssumption
  <1>1. PICK d \in conf.dsch0, n \in conf.ncfg0 :
           /\ index = d
           /\ next = [DSCH |-> DschStart(d), NCFG |-> NcfgStart(n), NENT |-> At(0, 0)]
    BY DEF Init, Standard
  <1>2. conf \in Configs /\ frame = 0 /\ pos = 0 /\ ctl = 0 BY DEF Init, Standard
  <1>3. d \in Nat /\ n \in Nat BY <1>1, <1>2, <1>0, ConfigAssumption DEF Standard
  <1>4. next.DSCH = DschAt(index) /\ next.DSCH \in Opportunity
    BY <1>1, <1>3, DschPlaced DEF At, Opportunity
  <1>5. next.NCFG \in Opportunity /\ next.NCFG.frame % (T + 1) = 0 /\ next.NCFG.slot \in 1 .. C - 1
    <2>1. next.NCFG = NcfgStart(n) BY <1>1
    <2>2. NcfgStart(n) = [slot |-> NcfgStart(n).slot, frame |-> NcfgStart(n).frame]
      BY DEF NcfgStart, At
    <2>3. /\ NcfgStart(n).frame = NcfgAt(n).frame /\ NcfgStart(n).slot \in 1 .. C - 1
          /\ NcfgAt(n).frame \in Nat /\ NcfgAt(n).frame % (T + 1) = 0
      BY <1>3, NcfgPlaced
    <2> QED BY <1>0, <2>1, <2>2, <2>3 DEF Opportunity
  <1>6. next.NENT = [slot |-> 0, frame |-> 0] BY <1>1 DEF At
  <1>7. ((T + 1) * 0 + 0) % (T + 1) = 0 /\ (T + 1) * 0 + 0 = 0 BY <1>0, Quotient
  <1>8. 0 % (T + 1) = 0 BY <1>7
  <1>9. Typed
    <2>1. next = [DSCH |-> next.DSCH, NCFG |-> next.NCFG, NENT |-> next.NENT] BY <1>1
    <2> QED BY <1>0, <1>1, <1>2, <1>3, <1>4, <1>5, <1>6, <2>1 DEF Typed, Opportunity
  <1>10. Placed BY <1>4, <1>5, <1>6, <1>8 DEF Placed
  <1>11. Timed BY <1>0, <1>2, <1>4, <1>5, <1>6 DEF Timed, Ahead, Opportunity
  <1> QED BY <1>9, <1>10, <1>11

\* MSH-DSCH opportunities and those of the other kinds are never in one frame,
\* and in slot 0 of a configuration frame MSH-NENT is alone.
LEMMA Apart ==
    ASSUME Typed, Placed
    PROVE  /\ next.DSCH.slot \in 0 .. C - 1 /\ next.DSCH.frame % (T + 1) # 0
           /\ next.DSCH.frame # next.NCFG.frame /\ next.DSCH.frame # next.NENT.frame
           /\ next.DSCH \in Opportunity /\ next.NCFG \in Opportunity /\ next.NENT \in Opportunity
  BY DschPlaced DEF Typed, Placed


\* A taken MSH-DSCH opportunity: the election places a later one, counted from
\* the slot of this one.
LEMMA DschIInv == ASSUME Standard, Typed, Placed, Timed, ctl = 0, Dsch
                  PROVE  Typed' /\ Placed' /\ Timed'
  <1>0. C \in Nat \ {0, 1} /\ N \in Nat \ {0} /\ T \in Nat \ {0} BY FrameAssumption
  <1>1. next.DSCH = At(pos, frame) /\ next.DSCH = DschAt(index) BY DEF Dsch, Now, Placed
  <1>2. currentCtrlSlotDsch(pos, frame) = index BY <1>1, DschPlaced DEF At, Typed
  <1>3. PICK w \in conf.dsch :
           /\ next' = [next EXCEPT !.DSCH = DschAt(currentCtrlSlotDsch(pos, frame) + w)]
           /\ index' = index + w
    BY DEF Dsch, Standard
  <1>4. w \in Nat \ {0} BY ConfigAssumption DEF Typed, Standard
  <1>5. conf' = conf /\ frame' = frame /\ pos' = pos /\ ctl' = 1 BY DEF Dsch, AfterOpportunity
  <1>6. index \in Nat /\ index' \in Nat BY <1>3, <1>4 DEF Typed
  <1>7. next' = [next EXCEPT !.DSCH = DschAt(index')] BY <1>2, <1>3
  <1>8. DschAt(index') \in Opportunity BY <1>6, DschPlaced DEF At, Opportunity
  <1>9. /\ next'.DSCH = DschAt(index')
        /\ next'.NCFG = next.NCFG /\ next'.NENT = next.NENT
        /\ next' \in [DSCH : Opportunity, NCFG : Opportunity, NENT : Opportunity]
    BY <1>7, <1>8 DEF Typed
  <1>10. pos \in 0 .. C - 1 BY <1>1, Apart DEF At
  <1>11. Typed' BY <1>5, <1>6, <1>9, <1>0 DEF Typed
  <1>12. Placed' BY <1>9 DEF Placed
  <1>13. Ahead(next.DSCH)'
    <2>1. \/ DschAt(index').frame > frame
          \/ DschAt(index').frame = frame /\ DschAt(index').slot > pos
      BY <1>1, <1>3, <1>4, <1>6, DschLater DEF At
    <2> QED BY <1>5, <1>8, <1>9, <1>10, <2>1 DEF Ahead, Opportunity, Typed
  <1>14. Ahead(next.NCFG)' /\ Ahead(next.NENT)'
    <2>1. next.NCFG.frame # frame /\ next.NENT.frame # frame BY <1>1, Apart DEF At
    <2> QED BY <1>5, <1>9, <2>1 DEF Ahead, Timed
  <1>15. Timed' BY <1>0, <1>5, <1>10, <1>13, <1>14 DEF Timed
  <1> QED BY <1>11, <1>12, <1>15

\* A taken MSH-NCFG opportunity.
LEMMA NcfgIInv == ASSUME Standard, Typed, Placed, Timed, ctl = 0, Ncfg
                  PROVE  Typed' /\ Placed' /\ Timed'
  <1> DEFINE x(w) == currentCtrlSlotNcfg(pos, frame) + w
  <1>0. C \in Nat \ {0, 1} /\ N \in Nat \ {0} /\ T \in Nat \ {0} BY FrameAssumption
  <1>1. next.NCFG = At(pos, frame) BY DEF Ncfg, Now
  <1>2. pos \in 1 .. C - 1 /\ frame \in Nat /\ frame % (T + 1) = 0
    BY <1>1 DEF At, Typed, Placed
  <1>3. PICK w \in conf.ncfg : next' = [next EXCEPT !.NCFG = NcfgAt(x(w))]
    BY DEF Ncfg
  <1>4. w \in Nat \ 0 .. C - 2 BY ConfigAssumption DEF Typed, Standard
  <1>5. conf' = conf /\ frame' = frame /\ pos' = pos /\ ctl' = 1 /\ index' = index
    BY DEF Ncfg, AfterOpportunity
  <1>6. x(w) \in Nat /\ NcfgAt(x(w)).frame > frame BY <1>2, <1>4, NcfgLater
  <1> HIDE DEF x
  <1>7. /\ NcfgAt(x(w)).slot \in 1 .. C - 1 /\ NcfgAt(x(w)).frame \in Nat
        /\ NcfgAt(x(w)).frame % (T + 1) = 0
    BY <1>6, NcfgPlaced
  <1>8. NcfgAt(x(w)) \in Opportunity
    <2>1. NcfgAt(x(w)) = [slot |-> NcfgAt(x(w)).slot, frame |-> NcfgAt(x(w)).frame]
      BY DEF NcfgAt, At
    <2> QED BY <1>0, <1>7, <2>1 DEF Opportunity
  <1>9. /\ next'.NCFG = NcfgAt(x(w))
        /\ next'.DSCH = next.DSCH /\ next'.NENT = next.NENT
        /\ next' \in [DSCH : Opportunity, NCFG : Opportunity, NENT : Opportunity]
    BY <1>3, <1>8 DEF Typed
  <1>10. Typed' BY <1>5, <1>9 DEF Typed
  <1>11. Placed' BY <1>5, <1>7, <1>9 DEF Placed
  <1>12. Ahead(next.NCFG)' BY <1>5, <1>6, <1>9 DEF Ahead
  <1>13. Ahead(next.DSCH)'
    <2>1. next.DSCH.frame # frame BY <1>1, Apart DEF At
    <2> QED BY <1>5, <1>9, <2>1 DEF Ahead, Timed
  <1>14. Ahead(next.NENT)'
    <2>1. next.NENT.frame > frame
      BY <1>2 DEF Ahead, Timed, Typed, Placed
    <2> QED BY <1>5, <1>9, <2>1 DEF Ahead
  <1>15. Timed' BY <1>0, <1>2, <1>5, <1>12, <1>13, <1>14 DEF Timed
  <1> QED BY <1>10, <1>11, <1>15

\* A taken MSH-NENT opportunity: the next one is a period later.
LEMMA NentIInv == ASSUME Standard, Typed, Placed, Timed, ctl = 0, Nent
                  PROVE  Typed' /\ Placed' /\ Timed'
  <1> DEFINE f == frame + T + 1
             m == frame \div (T + 1)
  <1>0. C \in Nat \ {0, 1} /\ N \in Nat \ {0} /\ T \in Nat \ {0} /\ T + 1 \in Nat \ {0}
    BY FrameAssumption
  <1>1. next.NENT = At(pos, frame) BY DEF Nent, Now
  <1>2. pos = 0 /\ frame \in Nat /\ frame % (T + 1) = 0 BY <1>1 DEF At, Typed, Placed
  <1>3. next' = [next EXCEPT !.NENT.frame = @ + T + 1] BY DEF Nent
  <1>4. conf' = conf /\ frame' = frame /\ pos' = pos /\ ctl' = 1 /\ index' = index
    BY DEF Nent, AfterOpportunity
  <1>5. f % (T + 1) = 0
    <2>1. m \in Nat /\ frame = (T + 1) * m + (frame % (T + 1)) BY <1>0, <1>2, Division
    <2> HIDE DEF m
    <2>2. f = (T + 1) * (m + 1) + 0 BY <1>0, <1>2, <2>1, SMT
    <2>3. ((T + 1) * (m + 1) + 0) % (T + 1) = 0 BY <1>0, <2>1, Quotient, SMTT(30)
    <2> QED BY <2>2, <2>3
  <1>6. /\ next'.NENT = [slot |-> 0, frame |-> f]
        /\ next'.DSCH = next.DSCH /\ next'.NCFG = next.NCFG
        /\ next' \in [DSCH : Opportunity, NCFG : Opportunity, NENT : Opportunity]
    <2>1. next.NENT.frame = frame /\ next.NENT.slot = 0 BY <1>1, <1>2 DEF At
    <2>2. [slot |-> 0, frame |-> f] \in Opportunity BY <1>0, <1>2 DEF Opportunity
    <2>3. next' = [next EXCEPT !.NENT = [slot |-> 0, frame |-> f]]
      <3> DEFINE o == next.NENT
      <3>1. o \in Opportunity /\ o.frame = frame /\ o.slot = 0 BY <2>1 DEF Typed
      <3> HIDE DEF o
      <3>2. [o EXCEPT !.frame = f] = [slot |-> 0, frame |-> f] BY <3>1 DEF Opportunity
      <3>3. next' = [next EXCEPT !.NENT = [o EXCEPT !.frame = f]]
        BY <1>3, <2>1 DEF o
      <3> QED BY <3>2, <3>3
    <2> QED BY <2>2, <2>3 DEF Typed
  <1>7. f > frame BY <1>0, <1>2
  <1> HIDE DEF f
  <1>8. Typed' BY <1>4, <1>6 DEF Typed
  <1>9. Placed' BY <1>4, <1>5, <1>6 DEF Placed
  <1>10. Ahead(next.NENT)' BY <1>4, <1>6, <1>7 DEF Ahead
  <1>11. Ahead(next.DSCH)'
    <2>1. next.DSCH.frame # frame BY <1>1, Apart DEF At
    <2> QED BY <1>4, <1>6, <2>1 DEF Ahead, Timed
  <1>12. Ahead(next.NCFG)' BY <1>0, <1>2, <1>4, <1>6 DEF Ahead, Timed, Placed
  <1>13. Timed' BY <1>0, <1>2, <1>4, <1>10, <1>11, <1>12 DEF Timed
  <1> QED BY <1>8, <1>9, <1>13

\* Listening: the timer is set to the first opportunity of the frame, or to the
\* end of the subframe.
LEMMA ListenIInv == ASSUME Standard, Typed, Placed, Timed, ctl = 0, Listen
                    PROVE  Typed' /\ Placed' /\ Timed'
  <1>0. C \in Nat \ {0, 1} /\ N \in Nat \ {0} /\ T \in Nat \ {0} BY FrameAssumption
  <1>1. /\ conf' = conf /\ frame' = frame /\ pos' = pos /\ index' = index /\ next' = next
        /\ ctl' = IF pos = C THEN N ELSE NextInFrame - pos
    BY DEF Listen
  <1>2. /\ next.DSCH # At(pos, frame) /\ next.NCFG # At(pos, frame)
        /\ next.NENT # At(pos, frame)
    BY DEF Listen, Kinds, Now
  <1>3. /\ next.DSCH = [slot |-> next.DSCH.slot, frame |-> next.DSCH.frame]
        /\ next.NCFG = [slot |-> next.NCFG.slot, frame |-> next.NCFG.frame]
        /\ next.NENT = [slot |-> next.NENT.slot, frame |-> next.NENT.frame]
        /\ next.DSCH \in Opportunity /\ next.NCFG \in Opportunity /\ next.NENT \in Opportunity
    BY DEF Typed, Opportunity
  <1>4. /\ next.DSCH.frame = frame => next.DSCH.slot > pos
        /\ next.NCFG.frame = frame => next.NCFG.slot > pos
        /\ next.NENT.frame = frame => next.NENT.slot > pos
    BY <1>2, <1>3 DEF At, Timed, Ahead, Typed, Opportunity
  <1>5. next.NENT.frame > frame BY <1>4, <1>3 DEF Timed, Ahead, Placed, Typed
  <1>6. pos <= C
    <2> SUFFICES ASSUME pos > C PROVE FALSE BY <1>0 DEF Typed
    <2> QED BY <1>0 DEF Timed, Typed
  <1>7. next.DSCH.slot \in 0 .. C - 1 /\ next.NCFG.slot \in 1 .. C - 1 BY Apart DEF Placed
  <1>8. next.DSCH.frame # next.NCFG.frame BY Apart
  <1>9. Placed' BY <1>1 DEF Placed
  <1>10. CASE pos = C
    <2>1. ctl' = N BY <1>1, <1>10
    <2>2. /\ next.DSCH.frame # frame /\ next.NCFG.frame # frame
          /\ next.NENT.frame # frame
      BY <1>0, <1>3, <1>4, <1>5, <1>7, <1>10 DEF Opportunity, Typed
    <2>3. Ahead(next.DSCH)' /\ Ahead(next.NCFG)' /\ Ahead(next.NENT)'
      BY <1>1, <2>2 DEF Ahead, Timed
    <2>4. Timed' BY <1>0, <1>1, <1>10, <2>1, <2>3 DEF Timed
    <2>5. Typed' BY <1>0, <1>1, <2>1 DEF Typed
    <2> QED BY <1>9, <2>4, <2>5
  <1>11. CASE pos < C
    <2> DEFINE e == NextInFrame
    <2>1. e \in pos + 1 .. C
      BY <1>0, <1>3, <1>4, <1>5, <1>7, <1>11 DEF NextInFrame, Typed, Opportunity
    <2>2. /\ next.DSCH.frame = frame => next.DSCH.slot >= e
          /\ next.NCFG.frame = frame => next.NCFG.slot >= e
      BY <1>0, <1>3, <1>5, <1>7, <1>8, <1>11 DEF NextInFrame, Typed, Opportunity
    <2>3. ctl' = e - pos BY <1>0, <1>1, <1>11 DEF Typed
    <2> HIDE DEF e
    <2>4. ctl' \in Nat /\ pos + ctl' = e BY <2>1, <2>3 DEF Typed
    <2>5. Typed' BY <1>1, <2>4 DEF Typed
    <2>6. Ahead(next.DSCH)' /\ Ahead(next.NCFG)' /\ Ahead(next.NENT)'
      BY <1>1, <1>3, <1>5, <2>2, <2>4 DEF Ahead, Timed
    <2>7. Timed' BY <1>0, <1>1, <1>11, <2>1, <2>4, <2>6 DEF Timed, Typed
    <2> QED BY <1>9, <2>5, <2>7
  <1> QED BY <1>6, <1>10, <1>11, <1>0 DEF Typed

\* Time passes while the timer of the coordinator runs.
LEMMA TickIInv == ASSUME Standard, Typed, Placed, Timed, Tick
                  PROVE  Typed' /\ Placed' /\ Timed'
  <1>0. C \in Nat \ {0, 1} /\ N \in Nat \ {0} /\ T \in Nat \ {0} BY FrameAssumption
  <1>1. /\ conf' = conf /\ index' = index /\ next' = next
        /\ ctl > 0 /\ ctl' = ctl - 1
    BY DEF Tick, Settled
  <1>2. Placed' BY <1>1 DEF Placed
  <1>3. /\ next.DSCH \in Opportunity /\ next.NCFG \in Opportunity /\ next.NENT \in Opportunity
        /\ next.DSCH.slot <= C - 1 /\ next.NCFG.slot <= C - 1 /\ next.NENT.slot = 0
    BY Apart DEF Placed
  <1>4. ctl \in Nat /\ ctl' \in Nat BY <1>1 DEF Typed
  <1>5. CASE pos < C + N - 1
    <2>1. pos' = pos + 1 /\ frame' = frame BY <1>5 DEF Tick
    <2>2. Typed' BY <1>0, <1>1, <1>4, <1>5, <2>1 DEF Typed
    <2>3. pos' + ctl' = pos + ctl BY <1>1, <1>4, <2>1 DEF Typed
    <2>4. Ahead(next.DSCH)' /\ Ahead(next.NCFG)' /\ Ahead(next.NENT)'
      BY <1>1, <2>1, <2>3 DEF Ahead, Timed
    <2>5. Timed' BY <1>0, <1>1, <1>4, <1>5, <2>1, <2>3, <2>4 DEF Timed, Typed
    <2> QED BY <1>2, <2>2, <2>5
  <1>6. CASE ~(pos < C + N - 1)
    <2>1. pos' = 0 /\ frame' = frame + 1 BY <1>6 DEF Tick
    <2>2. pos = C + N - 1 /\ pos >= C BY <1>0, <1>6 DEF Typed
    <2>3. ctl = 1 /\ ctl' = 0 BY <1>0, <1>1, <1>4, <2>2 DEF Timed
    <2>4. Typed' BY <1>0, <1>1, <2>1, <2>3 DEF Typed
    <2>5. /\ next.DSCH.frame > frame /\ next.NCFG.frame > frame
          /\ next.NENT.frame > frame
      BY <1>0, <1>3, <2>2, <2>3 DEF Timed, Ahead, Opportunity
    <2>6. Ahead(next.DSCH)' /\ Ahead(next.NCFG)' /\ Ahead(next.NENT)'
      BY <1>1, <1>3, <2>1, <2>3, <2>5 DEF Ahead, Opportunity, Typed
    <2>7. Timed' BY <1>0, <2>1, <2>3, <2>6 DEF Timed
    <2> QED BY <1>2, <2>4, <2>7
  <1> QED BY <1>5, <1>6

\* Every step keeps the invariant: the coordinator and time as above, the
\* bandwidth manager (handle) and grants because they change none of it.
LEMMA NextIInv == IInv /\ [Next]_vars => IInv'
  <1> SUFFICES ASSUME IInv, [Next]_vars, Standard' PROVE (Typed /\ Placed /\ Timed)' BY DEF IInv
  <1>1. conf' = conf
    BY DEF Next, vars, CoordinatorHandle, Dsch, Ncfg, Nent, Listen, AfterOpportunity,
           BwManagerHandle, Mark, Tick, Stop
  <1>2. Standard /\ Typed /\ Placed /\ Timed BY <1>1 DEF IInv, Standard
  <1>3. CASE CoordinatorHandle
    <2>1. ctl = 0 /\ (Dsch \/ Ncfg \/ Nent \/ Listen) BY <1>3 DEF CoordinatorHandle
    <2>2. CASE Dsch BY <1>2, <2>1, <2>2, DschIInv
    <2>3. CASE Ncfg BY <1>2, <2>1, <2>3, NcfgIInv
    <2>4. CASE Nent BY <1>2, <2>1, <2>4, NentIInv
    <2>5. CASE Listen BY <1>2, <2>1, <2>5, ListenIInv
    <2> QED BY <2>1, <2>2, <2>3, <2>4, <2>5
  <1>4. CASE Tick BY <1>2, <1>4, TickIInv
  <1>5. CASE UNCHANGED <<conf, frame, pos, ctl, next, index>>
    BY <1>2, <1>5 DEF Typed, Placed, Timed, Ahead
  <1>6. CASE BwManagerHandle BY <1>5, <1>6 DEF BwManagerHandle
  <1>7. CASE \E i \in 0 .. H, s \in 0 .. N - 1, g \in Grants :
                \E range \in 1 .. N - s : Mark(i, s, range, g)
    BY <1>5, <1>7 DEF Mark
  <1>8. CASE Stop \/ UNCHANGED vars BY <1>5, <1>8 DEF Stop, vars
  <1> QED BY <1>3, <1>4, <1>6, <1>7, <1>8 DEF Next

\* IInv always holds.
LEMMA AlwaysIInv == Spec => []IInv
  BY InitIInv, NextIInv, PTL DEF Spec

\* electionDsch and currentCtrlSlotDsch count MSH-DSCH slots alike: what one
\* node announces as its next slot, others take for the same one.
THEOREM SlotsCounted == Spec => []DschCounted
  <1>1. IInv => DschCounted
    <2> SUFFICES ASSUME IInv, Standard
                 PROVE  currentCtrlSlotDsch(next.DSCH.slot, next.DSCH.frame) = index
      BY DEF DschCounted, Standard
    <2>1. index \in Nat /\ next.DSCH = DschAt(index) BY DEF IInv, Typed, Placed
    <2> QED BY <2>1, DschPlaced
  <1> QED BY <1>1, AlwaysIInv, PTL

\* A standard coordinator misses no opportunity that its elections gave, and no
\* two of them meet in a slot, whatever the elections return.
THEOREM NoneMissed == Spec => [](Standard => OpportunitiesAhead)
  <1>1. IInv => (Standard => OpportunitiesAhead)
    <2> SUFFICES ASSUME IInv, Standard PROVE OpportunitiesAhead OBVIOUS
    <2>1. Typed /\ Placed /\ Timed BY DEF IInv
    <2>2. FramesApart BY <2>1, Apart DEF FramesApart, Placed
    <2> DEFINE o(k) == next[k]
    <2>3. \A k \in Kinds : o(k) \in Opportunity /\ Ahead(o(k))
      BY <2>1 DEF Kinds, Typed, Timed
    <2>4. pos \in Int /\ ctl \in Nat BY <2>1 DEF Typed
    <2> HIDE DEF o
    <2>5. \A k \in Kinds : \/ o(k).frame > frame
                           \/ /\ o(k).frame = frame
                              /\ o(k).slot >= (IF ctl = 0 THEN pos ELSE pos + 1)
      BY <2>3, <2>4 DEF Ahead, Opportunity
    <2> QED BY <2>2, <2>5 DEF OpportunitiesAhead, o
  <1> QED BY <1>1, AlwaysIInv, PTL
-----------------------------------------------------------------------------
(* Runs of minislots.                                                        *)

\* A set of naturals has a least element.
LEMMA Least ==
    ASSUME NEW S \in SUBSET Nat, S # {}
    PROVE  \E x \in S : \A y \in S : x <= y
  <1> DEFINE R == OpToRel(<, Nat)
  <1>1. IsWellFoundedOn(R, Nat) BY NatLessThanWellFounded
  <1>2. \A x, y \in Nat : x < y => <<x, y>> \in R BY DEF OpToRel
  <1> HIDE DEF R
  <1>3. PICK x \in S : \A y \in S : ~(<<y, x>> \in R) BY <1>1, WFMin
  <1>4. \A y \in S : ~(y < x) BY <1>2, <1>3
  <1> QED BY <1>4

Row == [0 .. N - 1 -> Cell]

\* The run that starts at s goes on to RunEnd(row, s).
LEMMA RunEnds ==
    ASSUME NEW row \in Row, NEW s \in 0 .. N - 1
    PROVE  /\ RunEnd(row, s) \in s + 1 .. N
           /\ \A m \in s .. RunEnd(row, s) - 1 : SameRun(row[s], row[m])
  <1> DEFINE S == {e \in s + 1 .. N : e = N \/ ~SameRun(row[s], row[e])}
             P(e) == /\ \A m \in s .. e - 1 : SameRun(row[s], row[m])
                     /\ e = N \/ ~SameRun(row[s], row[e])
  <1>0. N \in Nat \ {0} BY FrameAssumption
  <1>1. N \in S BY <1>0
  <1>2. S \subseteq Nat OBVIOUS
  <1>3. PICK e \in S : \A y \in S : e <= y BY <1>1, <1>2, Least
  <1>4. e \in s + 1 .. N /\ (e = N \/ ~SameRun(row[s], row[e])) OBVIOUS
  <1>5. SameRun(row[s], row[s]) BY DEF SameRun
  <1>6. \A m \in s .. e - 1 : SameRun(row[s], row[m])
    <2> SUFFICES ASSUME NEW m \in s .. e - 1, m # s PROVE SameRun(row[s], row[m]) BY <1>5
    <2>1. m \in s + 1 .. N /\ m < e BY <1>0, <1>4
    <2>2. m \notin S BY <1>3, <1>4, <2>1
    <2> QED BY <2>1, <2>2
  <1>7. P(e) BY <1>4, <1>6
  <1> HIDE DEF S
  <1>8. RunEnd(row, s) = CHOOSE x \in s + 1 .. N : P(x) BY DEF RunEnd
  <1> HIDE DEF P
  <1>9. RunEnd(row, s) \in s + 1 .. N /\ P(RunEnd(row, s)) BY <1>4, <1>7, <1>8
  <1> QED BY <1>9 DEF P

\* Minislots of one run are the same call, and on one channel.
LEMMA RunIsOneCall ==
    ASSUME NEW c \in Cell, NEW d \in Cell, SameRun(c, d)
    PROVE  CallFor(c) = CallFor(d) /\ c.channel = d.channel /\ c.undsch = d.undsch /\ c.grant = d.grant
  BY DEF SameRun, CallFor, Cell

-----------------------------------------------------------------------------
(* The rows of the circular table.                                           *)

\* H frames in a row use different rows, and the next one the first again.
LEMMA RowsApart ==
    ASSUME NEW f \in Nat
    PROVE  /\ \A i \in 0 .. H - 1 : (f + i) % H \in 0 .. H - 1
           /\ \A i, j \in 0 .. H - 1 : (f + i) % H = (f + j) % H => i = j
           /\ (f + H) % H = f % H
           /\ (f + 0) % H = f % H
  <1>0. H \in Nat \ {0} BY FrameAssumption
  <1>1. \A i \in 0 .. H - 1 : /\ (f + i) \div H \in Nat /\ (f + i) % H \in 0 .. H - 1
                              /\ f + i = H * ((f + i) \div H) + ((f + i) % H)
    <2> SUFFICES ASSUME NEW i \in 0 .. H - 1
                 PROVE  /\ (f + i) \div H \in Nat /\ (f + i) % H \in 0 .. H - 1
                        /\ f + i = H * ((f + i) \div H) + ((f + i) % H)
      OBVIOUS
    <2>1. f + i \in Nat BY <1>0
    <2> QED BY <1>0, <2>1, Division
  <1>2. ASSUME NEW i \in 0 .. H - 1, NEW j \in 0 .. H - 1, (f + i) % H = (f + j) % H, i < j
        PROVE  FALSE
    <2> DEFINE a == (f + i) \div H
               b == (f + j) \div H
               r == (f + i) % H
    <2>1. a \in Nat /\ b \in Nat /\ r \in Nat BY <1>0, <1>1
    <2>2. f + i = H * a + r /\ f + j = H * b + r BY <1>1, <1>2
    <2> HIDE DEF a, b, r
    <2>3. j - i = H * (b - a) BY <1>0, <2>1, <2>2, SMT
    <2>4. b > a
      <3> SUFFICES ASSUME b <= a PROVE FALSE BY <2>1
      <3>1. H * (b - a) <= 0 BY <1>0, <2>1, SMT
      <3> QED BY <1>0, <1>2, <2>3, <3>1
    <2>5. H * (b - a) >= H BY <1>0, <2>1, <2>4, SMT
    <2> QED BY <1>0, <1>2, <2>3, <2>5
  <1>3. \A i, j \in 0 .. H - 1 : (f + i) % H = (f + j) % H => i = j
    <2> SUFFICES ASSUME NEW i \in 0 .. H - 1, NEW j \in 0 .. H - 1, (f + i) % H = (f + j) % H,
                        i # j
                 PROVE  FALSE
      OBVIOUS
    <2>1. CASE i < j BY <1>2, <2>1
    <2>2. CASE j < i BY <1>2, <2>2
    <2> QED BY <2>1, <2>2
  <1>4. (f + H) % H = f % H
    <2> DEFINE q == f \div H
               r == f % H
    <2>1. q \in Nat /\ r \in 0 .. H - 1 /\ f = H * q + r BY <1>0, Division
    <2> HIDE DEF q, r
    <2>2. f + H = H * (q + 1) + r /\ q + 1 \in Nat BY <1>0, <2>1, SMT
    <2>3. (f + H) % H = r BY <1>0, <2>1, <2>2, Quotient
    <2> QED BY <2>3 DEF r
  <1> QED BY <1>1, <1>3, <1>4

-----------------------------------------------------------------------------
(* What the table holds and what has been called.                            *)

DataTyped ==
    /\ frame \in Nat /\ pos \in 0 .. C + N - 1 /\ dat \in Nat /\ lastSlot \in 0 .. N - 1
    /\ table \in [0 .. H - 1 -> Row] /\ plan \in [0 .. H -> Row]

\* Minislots from lastSlot on are still to be called; or the frame is over.
Working == pos + dat = C + lastSlot /\ (pos < C => lastSlot = 0)
Done == pos >= C /\ pos + dat = C + N + C /\ lastSlot = 0

\* The first minislot that has not been called.
Upto == IF Done THEN N ELSE lastSlot

\* The row of frame + i is what has been marked for that frame; the one of this
\* frame, once it is over, is already that of frame + H.
Rowed(i) == table[(frame + i) % H] = plan[IF Done /\ i = 0 THEN H ELSE i]

\* The minislots from now to the next call are part of the last one, but for
\* those marked since.
Called == pos >= C => \A m \in pos - C .. Upto - 1 : m \notin late => call = CallFor(plan[0][m])

DataInv ==
    /\ DataTyped
    /\ Working \/ Done
    /\ \A i \in 0 .. H - 1 : Rowed(i)
    /\ Called

LEMMA FreeIsCell == Free \in Cell /\ FreeRow \in Row
  <1>1. Free \in Cell BY DEF Free, Cell, Dests
  <1> QED BY <1>1 DEF FreeRow, Row

\* Marks for a frame that is over and invalidate agree on what stays.
LEMMA InvalidateRow ==
    ASSUME NEW row \in Row
    PROVE  invalidate(row) \in Row /\ Renewed(row) = invalidate(row)
  <1>1. \A c \in Cell : [c EXCEPT !.undsch = "none"] \in Cell BY DEF Cell, Dests
  <1>2. invalidate(row) \in Row BY <1>1, FreeIsCell DEF invalidate, Row
  <1> QED BY <1>2 DEF invalidate, Renewed

\* Marks set some of the arrays of some minislots.
LEMMA MarkedIsRow ==
    ASSUME NEW row \in Row, NEW s \in 0 .. N - 1, NEW range \in 1 .. N - s, NEW g \in Grants
    PROVE  /\ MarkedRow(row, s, range, g) \in Row
           /\ \A m \in 0 .. N - 1 : m \notin s .. s + range - 1 =>
                 MarkedRow(row, s, range, g)[m] = row[m]
  <1>1. g \in Grant BY GrantAssumption
  <1>2. ASSUME NEW c \in Cell PROVE Marked(g, c) \in Cell
    <2>1. g.kind \in {"confirm", "listen", "serve", "cancel", "undsch"} BY <1>1 DEF Grant
    <2>2. CASE g.kind = "confirm"
      <3>1. g.dst \in Neighbors /\ g.channel \in Nat /\ g.service \in Services
        BY <1>1, <2>2 DEF Grant
      <3> QED BY <2>2, <3>1 DEF Marked, Cell, Dests
    <2>3. CASE g.kind = "listen"
      <3>1. g.channel \in Nat BY <1>1, <2>3 DEF Grant
      <3> QED BY <2>3, <3>1 DEF Marked, Cell, Dests
    <2>4. CASE g.kind = "serve"
      <3>1. g.service \in Services BY <1>1, <2>4 DEF Grant
      <3> QED BY <2>4, <3>1 DEF Marked, Cell, Dests
    <2>5. CASE g.kind = "cancel" BY <2>5 DEF Marked, Cell, Dests
    <2>6. CASE g.kind = "undsch"
      <3>1. g.dst \in Neighbors BY <1>1, <2>6 DEF Grant
      <3> QED BY <2>6, <3>1 DEF Marked, Cell, Dests
    <2> QED BY <2>1, <2>2, <2>3, <2>4, <2>5, <2>6
  <1> QED BY <1>2 DEF MarkedRow, Row

LEMMA InitData == Init => DataInv
  <1> SUFFICES ASSUME Init PROVE DataInv OBVIOUS
  <1>0. C \in Nat \ {0, 1} /\ N \in Nat \ {0} /\ H \in Nat \ {0} BY FrameAssumption
  <1>1. /\ frame = 0 /\ pos = 0 /\ dat = C /\ lastSlot = 0
        /\ table = [F \in 0 .. H - 1 |-> FreeRow] /\ plan = [i \in 0 .. H |-> FreeRow]
    BY DEF Init
  <1>2. DataTyped BY <1>0, <1>1, FreeIsCell DEF DataTyped
  <1>3. Working /\ ~Done BY <1>0, <1>1 DEF Working, Done
  <1>4. \A i \in 0 .. H - 1 : Rowed(i)
    <2>1. \A i \in 0 .. H - 1 : (frame + i) % H \in 0 .. H - 1 BY <1>2, RowsApart DEF DataTyped
    <2>2. \A i \in 0 .. H - 1 : plan[i] = FreeRow BY <1>0, <1>1
    <2> QED BY <1>1, <1>3, <2>1, <2>2 DEF Rowed
  <1>5. Called BY <1>0, <1>1 DEF Called
  <1> QED BY <1>2, <1>3, <1>4, <1>5 DEF DataInv
\* A handler of the bandwidth manager takes the run that starts now.
LEMMA BwRun ==
    ASSUME DataInv, BwManagerHandle
    PROVE  LET row == plan[0]
               end == RunEnd(row, lastSlot)
           IN /\ frame' = frame /\ pos' = pos /\ plan'[0] = row /\ ~Done
              /\ late' = late
              /\ pos = C + lastSlot /\ lastSlot \in 0 .. N - 1
              /\ row = table[frame % H] /\ row \in Row /\ frame % H \in 0 .. H - 1
              /\ end \in lastSlot + 1 .. N
              /\ \A m \in lastSlot .. end - 1 :
                    row[m] \in Cell /\ row[lastSlot] \in Cell /\ SameRun(row[lastSlot], row[m])
              /\ Done' <=> end = N
              /\ Upto' = end
  <1> DEFINE F == frame % H
             row == plan[0]
             end == RunEnd(row, lastSlot)
  <1>0. C \in Nat \ {0, 1} /\ N \in Nat \ {0} /\ H \in Nat \ {0} /\ 0 \in 0 .. H - 1
    BY FrameAssumption
  <1>1. /\ dat = 0 /\ frame' = frame /\ pos' = pos /\ late' = late
        /\ plan' = plan \/ plan' = [plan EXCEPT ![H] = Renewed(plan[0])]
    BY DEF BwManagerHandle
  <1>2. pos = C + lastSlot /\ ~Done /\ lastSlot \in 0 .. N - 1
    BY <1>0, <1>1 DEF DataInv, DataTyped, Working, Done
  <1>3. Rowed(0) BY <1>0 DEF DataInv
  <1>4. row = table[F] /\ row \in Row /\ F \in 0 .. H - 1
    BY <1>0, <1>2, <1>3, RowsApart DEF Rowed, DataInv, DataTyped
  <1>5. end \in lastSlot + 1 .. N /\ \A m \in lastSlot .. end - 1 : SameRun(row[lastSlot], row[m])
    BY <1>2, <1>4, RunEnds
  <1>6. \A m \in lastSlot .. end - 1 : row[m] \in Cell /\ row[lastSlot] \in Cell
    BY <1>0, <1>2, <1>4, <1>5 DEF Row
  <1> HIDE DEF end
  <1>7. (Done' <=> end = N) /\ Upto' = end
    <2>1. CASE end = N
      <3>1. dat' = (C + N - pos) + C /\ lastSlot' = 0 BY <1>4, <2>1 DEF BwManagerHandle, end
      <3>2. Done' BY <1>0, <1>1, <1>2, <3>1 DEF Done
      <3> QED BY <2>1, <3>2 DEF Upto
    <2>2. CASE end # N
      <3>1. dat' = end - lastSlot /\ lastSlot' = end BY <1>4, <2>2 DEF BwManagerHandle, end
      <3>2. ~Done' BY <1>0, <1>1, <1>2, <1>5, <2>2, <3>1 DEF Done
      <3> QED BY <2>2, <3>1, <3>2 DEF Upto
    <2> QED BY <2>1, <2>2
  <1>8. plan'[0] = row BY <1>0, <1>1 DEF DataInv, DataTyped
  <1> QED BY <1>1, <1>2, <1>4, <1>5, <1>6, <1>7, <1>8 DEF end

\* Its minislots are called, and the row is invalidated with the last of them.
LEMMA BwData == ASSUME DataInv, BwManagerHandle PROVE DataInv'
  <1> DEFINE F == frame % H
             row == plan[0]
             end == RunEnd(row, lastSlot)
  <1>0. C \in Nat \ {0, 1} /\ N \in Nat \ {0} /\ H \in Nat \ {0} /\ 0 \in 0 .. H - 1
    BY FrameAssumption
  <1>1. /\ frame' = frame /\ pos' = pos /\ plan'[0] = row
        /\ pos = C + lastSlot /\ lastSlot \in 0 .. N - 1 /\ ~Done
        /\ row = table[F] /\ row \in Row /\ F \in 0 .. H - 1 /\ end \in lastSlot + 1 .. N
    BY BwRun
  <1>2. (Done' <=> end = N) /\ Upto' = end BY BwRun
  <1>3. \A m \in lastSlot .. end - 1 :
           row[m] \in Cell /\ row[lastSlot] \in Cell /\ SameRun(row[lastSlot], row[m])
    BY BwRun
  <1>4. call' = CallFor(row[lastSlot]) BY <1>1 DEF BwManagerHandle
  <1>5. Called' 
    <2>1. \A m \in lastSlot .. end - 1 : call' = CallFor(row[m]) BY <1>3, <1>4, RunIsOneCall
    <2>2. pos' - C = lastSlot BY <1>0, <1>1
    <2> QED BY <1>1, <1>2, <2>1, <2>2 DEF Called
  <1> HIDE DEF end
  <1>6. CASE end = N
    <2>1. /\ dat' = (C + N - pos) + C /\ lastSlot' = 0
          /\ table' = [table EXCEPT ![F] = invalidate(@)]
          /\ plan' = [plan EXCEPT ![H] = invalidate(row)]
      BY <1>1, <1>6, InvalidateRow DEF BwManagerHandle, end
    <2>2. Done' BY <1>2, <1>6
    <2>3. DataTyped'
      BY <1>0, <1>1, <2>1, InvalidateRow DEF DataInv, DataTyped
    <2>4. ASSUME NEW i \in 0 .. H - 1 PROVE Rowed(i)'
      <3>1. Rowed(i) BY DEF DataInv
      <3>2. (frame + i) % H \in 0 .. H - 1 /\ (i # 0 => (frame + i) % H # F)
        BY <1>0, RowsApart, ZenonT(30) DEF DataInv, DataTyped
      <3>3. i = 0 => (frame + i) % H = F BY RowsApart DEF DataInv, DataTyped
      <3>4. table[(frame + i) % H] = plan[i] BY <1>1, <3>1 DEF Rowed
      <3>5. DOMAIN table = 0 .. H - 1 /\ DOMAIN plan = 0 .. H BY DEF DataInv, DataTyped
      <3>6. table'[(frame + i) % H] = IF i = 0 THEN invalidate(row) ELSE plan[i]
        BY <1>1, <2>1, <3>2, <3>3, <3>4, <3>5
      <3>7. plan'[H] = invalidate(row) /\ plan'[i] = plan[i] BY <1>0, <2>1, <3>5
      <3> QED BY <1>1, <2>2, <3>6, <3>7 DEF Rowed
    <2> QED BY <1>5, <2>2, <2>3, <2>4 DEF DataInv
  <1>7. CASE end # N
    <2>1. dat' = end - lastSlot /\ lastSlot' = end /\ table' = table /\ plan' = plan
      BY <1>1, <1>7 DEF BwManagerHandle, end
    <2>2. Working' /\ ~Done'
      BY <1>0, <1>1, <1>2, <1>7, <2>1 DEF Working
    <2>3. DataTyped' BY <1>0, <1>1, <1>7, <2>1 DEF DataInv, DataTyped
    <2>4. \A i \in 0 .. H - 1 : Rowed(i)' BY <1>1, <2>1, <2>2 DEF Rowed, DataInv
    <2> QED BY <1>5, <2>2, <2>3, <2>4 DEF DataInv
  <1> QED BY <1>6, <1>7

\* Once the frame is over its row is that of frame + H for marks too.
LEMMA OverIsDone == ASSUME DataInv, Settled PROVE Over <=> Done
  <1>0. C \in Nat \ {0, 1} /\ N \in Nat \ {0} BY FrameAssumption
  <1> QED BY <1>0 DEF Over, Settled, DataInv, DataTyped, Working, Done

\* What is marked in a run that was cut comes too late for its call.
LEMMA MarkedLate ==
    ASSUME DataInv, NEW i \in 0 .. H, NEW s \in 0 .. N - 1, NEW g \in Grants,
           NEW range \in 1 .. N - s, Mark(i, s, range, g), pos >= C,
           NEW m \in pos - C .. Upto - 1, m \notin late'
    PROVE  m \notin late /\ plan'[0][m] = plan[0][m]
  <1>0. C \in Nat \ {0, 1} /\ N \in Nat \ {0} /\ H \in Nat \ {0} BY FrameAssumption
  <1>1. /\ plan' = [plan EXCEPT ![i] = MarkedRow(@, s, range, g)]
        /\ late' = IF i = 0 THEN late \cup (s .. s + range - 1 \cap 0 .. lastSlot - 1) ELSE late
        /\ Over => i # 0
        /\ Settled
    BY DEF Mark
  <1>2. plan[0] \in Row /\ DOMAIN plan = 0 .. H BY <1>0 DEF DataInv, DataTyped
  <1>3. CASE i # 0 BY <1>0, <1>1, <1>2, <1>3
  <1>4. CASE i = 0
    <2>1. ~Done BY <1>1, <1>4, OverIsDone
    <2>2. m \in 0 .. lastSlot - 1 /\ m \in 0 .. N - 1
      BY <1>0, <2>1 DEF Upto, DataInv, DataTyped
    <2>3. m \notin late /\ m \notin s .. s + range - 1 BY <1>1, <1>4, <2>2
    <2>4. plan'[0] = MarkedRow(plan[0], s, range, g) BY <1>0, <1>1, <1>2, <1>4
    <2> QED BY <1>2, <2>2, <2>3, <2>4, MarkedIsRow
  <1> QED BY <1>3, <1>4

\* A mark is for one frame only.
LEMMA MarkData ==
    ASSUME DataInv, NEW i \in 0 .. H, NEW s \in 0 .. N - 1, NEW g \in Grants,
           NEW range \in 1 .. N - s, Mark(i, s, range, g)
    PROVE  DataInv'
  <1> DEFINE F == (frame + i) % H
             P(row) == MarkedRow(row, s, range, g)
  <1>0. C \in Nat \ {0, 1} /\ N \in Nat \ {0} /\ H \in Nat \ {0} BY FrameAssumption
  <1>1. /\ table' = [table EXCEPT ![F] = P(@)] /\ plan' = [plan EXCEPT ![i] = P(@)]
        /\ UNCHANGED <<frame, pos, dat, lastSlot, call>>
        /\ Settled /\ IF Over THEN i # 0 ELSE i # H
    BY DEF Mark
  <1>2. (IF Done THEN i # 0 ELSE i # H) /\ frame \in Nat
    BY <1>1, OverIsDone DEF DataInv, DataTyped
  <1>3. F \in 0 .. H - 1 /\ (i = H => F = (frame + 0) % H)
    <2>1. CASE i = H
      <3>0. (frame + H) % H = frame % H /\ (frame + 0) % H = frame % H BY <1>2, RowsApart
      <3>1. (frame + H) % H = (frame + 0) % H /\ 0 \in 0 .. H - 1 BY <1>0, <3>0
      <3>2. (frame + 0) % H \in 0 .. H - 1 BY <1>2, <3>1, RowsApart
      <3> QED BY <2>1, <3>1, <3>2
    <2>2. CASE i # H
      <3>1. i \in 0 .. H - 1 BY <1>0, <2>2
      <3> QED BY <1>2, <2>2, <3>1, RowsApart
    <2> QED BY <2>1, <2>2
  <1>4. \A row \in Row : P(row) \in Row BY MarkedIsRow
  <1> HIDE DEF P
  <1>5. DataTyped' BY <1>1, <1>3, <1>4 DEF DataInv, DataTyped
  <1>6. (Working' <=> Working) /\ (Done' <=> Done) BY <1>1 DEF Working, Done
  <1>7. ASSUME NEW j \in 0 .. H - 1 PROVE Rowed(j)'
    <2> DEFINE G == (frame + j) % H
               k == IF Done /\ j = 0 THEN H ELSE j
    <2>1. table[G] = plan[k] BY DEF Rowed, DataInv
    <2>2. G \in 0 .. H - 1 /\ k \in 0 .. H
      <3>1. G \in 0 .. H - 1 BY <1>2, RowsApart
      <3> QED BY <1>0, <3>1
    <2>3. G = F <=> k = i
      <3>1. CASE i = H
        <4>1. G = F <=> j = 0
          <5>1. F = (frame + 0) % H /\ 0 \in 0 .. H - 1 BY <1>0, <1>3, <3>1
          <5>2. \A a, b \in 0 .. H - 1 : (frame + a) % H = (frame + b) % H => a = b
            BY <1>2, RowsApart
          <5> HIDE DEF F
          <5>3. G = F => j = 0 BY <5>1, <5>2, Zenon
          <5>4. j = 0 => G = F BY <5>1, Zenon
          <5> QED BY <5>3, <5>4
        <4> QED BY <1>0, <1>2, <3>1, <4>1
      <3>2. CASE i # H
        <4>1. i \in 0 .. H - 1 BY <1>0, <3>2
        <4>2. G = F <=> j = i BY <1>2, <4>1, RowsApart
        <4> QED BY <1>0, <1>2, <3>2, <4>2
      <3> QED BY <3>1, <3>2
    <2>4. k' = k BY <1>6
    <2>5. DOMAIN table = 0 .. H - 1 /\ DOMAIN plan = 0 .. H BY DEF DataInv, DataTyped
    <2> HIDE DEF k
    <2>6. table'[G] = plan'[k]
      <3>1. CASE k = i
        <4>1. table'[G] = P(table[G]) /\ plan'[k] = P(plan[k])
          BY <1>1, <2>2, <2>3, <2>5, <3>1
        <4> QED BY <2>1, <4>1
      <3>2. CASE k # i
        <4>1. table'[G] = table[G] /\ plan'[k] = plan[k] BY <1>1, <2>2, <2>3, <2>5, <3>2
        <4> QED BY <2>1, <4>1
      <3> QED BY <3>1, <3>2
    <2>7. G' = G BY <1>1
    <2> QED BY <2>4, <2>6, <2>7 DEF Rowed, k
  <1>8. Called'
    <2>1. Upto' = Upto BY <1>1, <1>6 DEF Upto
    <2> SUFFICES ASSUME pos >= C, NEW m \in pos - C .. Upto - 1, m \notin late'
                 PROVE  call = CallFor(plan'[0][m])
      BY <1>1, <2>1 DEF Called
    <2>2. m \notin late /\ plan'[0][m] = plan[0][m] BY MarkedLate
    <2> QED BY <2>2 DEF Called, DataInv
  <1> QED BY <1>5, <1>6, <1>7, <1>8 DEF DataInv

\* Time: at the end of the frame the row that was invalidated becomes the one of
\* the last frame of the horizon.
LEMMA TickData == ASSUME DataInv, Tick PROVE DataInv'
  <1>0. C \in Nat \ {0, 1} /\ N \in Nat \ {0} /\ H \in Nat \ {0} BY FrameAssumption
  <1>1. dat > 0 /\ dat' = dat - 1 /\ table' = table /\ lastSlot' = lastSlot /\ call' = call
    BY DEF Tick, Settled
  <1>2. CASE pos < C + N - 1
    <2>1. pos' = pos + 1 /\ frame' = frame /\ plan' = plan /\ late' = late BY <1>2 DEF Tick
    <2>2. pos' + dat' = pos + dat BY <1>1, <2>1 DEF DataInv, DataTyped
    <2>3. DataTyped' BY <1>0, <1>1, <1>2, <2>1 DEF DataInv, DataTyped
    <2>4. Done' <=> Done
      BY <1>0, <1>1, <2>1, <2>2 DEF DataInv, DataTyped, Working, Done
    <2>5. Working => Working' BY <1>0, <1>1, <2>1, <2>2 DEF Working, DataInv, DataTyped
    <2>6. \A i \in 0 .. H - 1 : Rowed(i)' BY <1>1, <2>1, <2>4 DEF Rowed, DataInv
    <2>7. Called'
      <3>1. CASE pos >= C
        <4>1. Upto' = Upto BY <1>1, <2>4 DEF Upto
        <4>2. \A m \in pos' - C .. Upto - 1 : m \in pos - C .. Upto - 1
          BY <1>0, <2>1 DEF DataInv, DataTyped, Upto
        <4> QED BY <1>1, <2>1, <3>1, <4>1, <4>2 DEF Called, DataInv
      <3>2. CASE pos < C
        <4>1. Working /\ ~Done /\ lastSlot = 0 BY <1>0, <3>2 DEF DataInv, DataTyped, Working, Done
        <4>2. Upto' = 0 BY <1>1, <2>4, <4>1 DEF Upto
        <4> QED BY <1>0, <2>1, <4>2 DEF Called, DataInv, DataTyped
      <3> QED BY <1>0, <3>1, <3>2 DEF DataInv, DataTyped
    <2> QED BY <2>3, <2>4, <2>5, <2>6, <2>7 DEF DataInv
  <1>3. CASE ~(pos < C + N - 1)
    <2>1. /\ pos' = 0 /\ frame' = frame + 1
          /\ plan' = [i \in DOMAIN plan |-> IF i < H THEN plan[i + 1] ELSE FreeRow]
      BY <1>3 DEF Tick
    <2>2. pos = C + N - 1 BY <1>0, <1>3 DEF DataInv, DataTyped
    <2>3. Done /\ dat = C + 1 /\ lastSlot = 0
      BY <1>0, <1>1, <2>2 DEF DataInv, DataTyped, Working, Done
    <2>4. plan' = [i \in 0 .. H |-> IF i < H THEN plan[i + 1] ELSE FreeRow]
      BY <2>1 DEF DataInv, DataTyped
    <2>5. \A i \in 0 .. H - 1 : plan'[i] = plan[i + 1] /\ plan[i + 1] \in Row
      BY <1>0, <2>4 DEF DataInv, DataTyped
    <2>6. plan' \in [0 .. H -> Row] BY <1>0, <2>4, <2>5, FreeIsCell
    <2>7. Working' /\ ~Done' BY <1>0, <1>1, <2>1, <2>3 DEF Working, Done
    <2>8. DataTyped'
      <3>1. dat' = C /\ lastSlot' = 0 /\ pos' = 0 BY <1>0, <1>1, <2>1, <2>3
      <3>2. frame' \in Nat /\ table' \in [0 .. H - 1 -> Row] BY <1>1, <2>1 DEF DataInv, DataTyped
      <3> QED BY <1>0, <2>6, <3>1, <3>2 DEF DataTyped
    <2>9. ASSUME NEW i \in 0 .. H - 1 PROVE Rowed(i)'
      <3>1. plan'[i] = plan[i + 1] BY <2>5
      <3>2. CASE i < H - 1
        <4>1. i + 1 \in 0 .. H - 1 /\ i + 1 # 0 BY <1>0, <3>2
        <4>2. Rowed(i + 1) BY <4>1 DEF DataInv
        <4>3. (frame + 1) + i = frame + (i + 1) BY DEF DataInv, DataTyped
        <4>4. table[(frame + (i + 1)) % H] = plan[i + 1] BY <4>1, <4>2 DEF Rowed
        <4> QED BY <1>1, <2>1, <2>7, <3>1, <4>3, <4>4 DEF Rowed
      <3>3. CASE ~(i < H - 1)
        <4>1. i = H - 1 /\ i + 1 = H /\ 0 \in 0 .. H - 1 BY <1>0, <3>3
        <4>2. (frame + 1) + i = frame + H BY <4>1, <1>0 DEF DataInv, DataTyped
        <4>3. (frame + H) % H = frame % H /\ (frame + 0) % H = frame % H
          BY RowsApart DEF DataInv, DataTyped
        <4>4. table[(frame + 0) % H] = plan[H] BY <2>3, <4>1 DEF Rowed, DataInv
        <4> QED BY <1>1, <2>1, <2>7, <3>1, <4>1, <4>2, <4>3, <4>4 DEF Rowed
      <3> QED BY <3>2, <3>3
    <2>10. Called' BY <1>0, <2>1 DEF Called
    <2> QED BY <2>7, <2>8, <2>9, <2>10 DEF DataInv
  <1> QED BY <1>2, <1>3

LEMMA NextData == DataInv /\ [Next]_vars => DataInv'
  <1> SUFFICES ASSUME DataInv, [Next]_vars PROVE DataInv' OBVIOUS
  <1>1. CASE BwManagerHandle BY <1>1, BwData
  <1>2. CASE \E i \in 0 .. H, s \in 0 .. N - 1, g \in Grants :
                \E range \in 1 .. N - s : Mark(i, s, range, g)
    BY <1>2, MarkData
  <1>3. CASE Tick BY <1>3, TickData
  <1>4. CASE UNCHANGED <<frame, pos, dat, rows, call>>
    BY <1>4 DEF rows, DataInv, DataTyped, Working, Done, Rowed, Called, Upto
  <1>5. CASE CoordinatorHandle
    BY <1>4, <1>5 DEF CoordinatorHandle, Dsch, Ncfg, Nent, Listen, AfterOpportunity
  <1>6. CASE Stop \/ UNCHANGED vars BY <1>4, <1>6 DEF Stop, vars
  <1> QED BY <1>1, <1>2, <1>3, <1>5, <1>6 DEF Next

\* In every minislot the MAC has been asked for what that minislot was marked
\* for before its run was cut, in the control subframe or in the data subframe,
\* whatever the coordinator and whoever comes first at the end of the control
\* subframe.
THEOREM MinislotsCalled == Spec => []CallsFollowGrants
  <1>1. DataInv => CallsFollowGrants
    <2> SUFFICES ASSUME DataInv, dat > 0, pos >= C, pos - C \notin late
                 PROVE  call = CallFor(plan[0][pos - C])
      BY DEF CallsFollowGrants, Settled, Minislot
    <2>1. C \in Nat /\ N \in Nat /\ pos - C \in pos - C .. Upto - 1
      BY FrameAssumption DEF DataInv, DataTyped, Working, Done, Upto
    <2> QED BY <2>1 DEF Called, DataInv
  <1> QED BY <1>1, InitData, NextData, PTL DEF Spec
-----------------------------------------------------------------------------
(* The radio. *)

LEMMA AlwaysDataInv == Spec => []DataInv
  BY InitData, NextData, PTL DEF Spec

\* The last message was sent before now.
Past == \/ last.frame > MaxFrame \/ last.frame < frame
        \/ last.frame = frame /\ last.slot < pos

\* While the timer of the coordinator runs in the control subframe, the node is
\* sending what this opportunity is for, or listens; but for a MSH-NENT
\* opportunity with nothing to send.
Tuning ==
    /\ last \in Opportunity /\ frame <= MaxFrame
    /\ Past \/ (last = Now /\ ctl = 1 /\ pos < C /\ radio = Tuned("TX", 0))
    /\ ctl > 0 /\ pos < C /\ Past =>
          \/ radio = Tuned("RX", 0)
          \/ ctl = 1 /\ pos = 0 /\ frame % (T + 1) = 0

RadioInv == Standard => Tuning

\* The minislots of each kind of opportunity.
LEMMA Opportune ==
    ASSUME Typed, Placed
    PROVE  /\ Dsch \/ Ncfg \/ Nent => pos \in 0 .. C - 1 /\ ctl' = 1
           /\ Nent => pos = 0 /\ frame % (T + 1) = 0
  <1>0. C \in Nat \ {0, 1} BY FrameAssumption
  <1>1. Dsch => pos \in 0 .. C - 1 /\ ctl' = 1 BY Apart DEF Dsch, Now, At, AfterOpportunity
  <1>2. Ncfg => pos \in 0 .. C - 1 /\ ctl' = 1 BY <1>0 DEF Ncfg, Now, At, Placed, AfterOpportunity
  <1>3. Nent => pos = 0 /\ frame % (T + 1) = 0 /\ ctl' = 1
    BY DEF Nent, Now, At, Placed, AfterOpportunity
  <1> QED BY <1>0, <1>1, <1>2, <1>3

LEMMA InitRadio == Init => RadioInv
  <1> SUFFICES ASSUME Init, Standard PROVE Tuning BY DEF RadioInv
  <1>1. MaxFrame \in Nat BY FrameAssumption
  <1>2. last = [slot |-> 0, frame |-> MaxFrame + 100] /\ frame = 0 /\ ctl = 0
    BY DEF Init, At, Never, Standard
  <1> QED BY <1>1, <1>2 DEF Tuning, Past, Opportunity

LEMMA NextRadio == IInv /\ DataInv /\ RadioInv /\ [Next]_vars => RadioInv'
  <1> SUFFICES ASSUME IInv, DataInv, RadioInv, [Next]_vars, Standard' PROVE Tuning' BY DEF RadioInv
  <1>0. C \in Nat \ {0, 1} /\ N \in Nat \ {0} /\ T \in Nat \ {0} /\ MaxFrame \in Nat
    BY FrameAssumption
  <1>1. conf' = conf
    BY DEF Next, vars, CoordinatorHandle, Dsch, Ncfg, Nent, Listen, AfterOpportunity,
           BwManagerHandle, Mark, Tick, Stop
  <1>2. Standard /\ Typed /\ Placed /\ Timed /\ Tuning BY <1>1 DEF IInv, RadioInv, Standard
  <1>3. last \in Opportunity /\ frame \in Nat /\ pos \in Nat /\ ctl \in Nat
    BY <1>0, <1>2 DEF Tuning, Typed
  <1>4. Now \in Opportunity /\ Now.frame = frame /\ Now.slot = pos BY <1>3 DEF Now, At, Opportunity
  <1>5. ASSUME Past, last' = last, frame' = frame, pos' = pos PROVE Past' BY <1>5 DEF Past
  <1>6. CASE CoordinatorHandle
    <2>1. ctl = 0 /\ (Dsch \/ Ncfg \/ Nent \/ Listen) BY <1>6 DEF CoordinatorHandle
    <2>2. Past BY <1>2, <2>1 DEF Tuning
    <2>3. frame' = frame /\ pos' = pos
      BY <2>1 DEF Dsch, Ncfg, Nent, Listen, AfterOpportunity
    <2>4. Now' = Now BY <2>3 DEF Now
    <2>5. ASSUME last' = Now, radio' = Tuned("TX", 0), Dsch \/ Ncfg \/ Nent PROVE Tuning'
      <3>1. ctl' = 1 /\ pos < C BY <1>0, <1>2, <2>5, Opportune
      <3>2. ~Past' BY <1>0, <1>2, <1>3, <1>4, <2>3, <2>5 DEF Past, Tuning
      <3> QED BY <1>2, <1>4, <2>3, <2>4, <2>5, <3>1, <3>2 DEF Tuning
    <2>6. CASE Dsch \/ Ncfg BY <2>5, <2>6 DEF Dsch, Ncfg
    <2>7. CASE Nent
      <3>1. CASE radio' = Tuned("TX", 0) /\ last' = Now BY <2>5, <2>7, <3>1
      <3>2. CASE UNCHANGED <<radio, last>>
        <4>1. ctl' = 1 /\ pos = 0 /\ frame % (T + 1) = 0 BY <1>2, <2>7, Opportune
        <4> QED BY <1>2, <1>5, <2>2, <2>3, <3>2, <4>1 DEF Tuning
      <3> QED BY <2>7, <3>1, <3>2 DEF Nent
    <2>8. CASE Listen
      <3>1. radio' = Tuned("RX", 0) /\ last' = last BY <2>8 DEF Listen
      <3> QED BY <1>2, <1>5, <2>2, <2>3, <3>1 DEF Tuning
    <2> QED BY <2>1, <2>6, <2>7, <2>8
  <1>7. CASE BwManagerHandle
    <2>1. UNCHANGED <<frame, pos, last>> BY <1>7 DEF BwManagerHandle
    <2>2. pos >= C BY <1>0, <1>7, BwRun
    <2>3. Past BY <1>0, <1>2, <1>3, <2>2 DEF Tuning
    <2> QED BY <1>0, <1>2, <1>3, <1>5, <2>1, <2>2, <2>3 DEF Tuning
  <1>8. CASE Tick
    <2>1. ctl > 0 /\ ctl' = ctl - 1 /\ last' = last /\ radio' = radio
      BY <1>8 DEF Tick, Settled
    <2>2. \/ pos' = pos + 1 /\ frame' = frame
          \/ pos >= C /\ pos = C + N - 1 /\ pos' = 0 /\ frame' = frame + 1 /\ frame < MaxFrame
      BY <1>0, <1>2, <1>8 DEF Tick, Typed
    <2>3. Past'
      <3>1. CASE Past BY <1>3, <2>1, <2>2, <3>1 DEF Past, Opportunity
      <3>2. CASE last = Now BY <1>0, <1>3, <1>4, <2>1, <2>2, <3>2 DEF Past
      <3> QED BY <1>2, <3>1, <3>2 DEF Tuning
    <2>4. frame' <= MaxFrame BY <1>0, <1>2, <1>3, <2>2 DEF Tuning
    <2>5. ctl' > 0 /\ pos' < C => radio' = Tuned("RX", 0)
      <3> SUFFICES ASSUME ctl' > 0, pos' < C PROVE radio = Tuned("RX", 0) BY <2>1
      <3>1. ctl >= 2 BY <1>3, <2>1
      <3>2. pos' = pos + 1 /\ pos < C
        <4>1. ~(pos = C + N - 1 /\ pos >= C) BY <1>0, <1>2, <1>3, <3>1 DEF Timed
        <4> QED BY <1>0, <1>3, <2>2, <4>1
      <3>3. Past BY <1>2, <3>1 DEF Tuning
      <3> QED BY <1>2, <1>3, <3>1, <3>2, <3>3 DEF Tuning
    <2> QED BY <1>2, <2>1, <2>3, <2>4, <2>5 DEF Tuning
  <1>9. CASE UNCHANGED <<frame, pos, ctl, last, radio>>
    BY <1>2, <1>9 DEF Tuning, Past, Now
  <1>10. CASE \E i \in 0 .. H, s \in 0 .. N - 1, g \in Grants :
                 \E range \in 1 .. N - s : Mark(i, s, range, g)
    BY <1>9, <1>10 DEF Mark
  <1>11. CASE Stop \/ UNCHANGED vars BY <1>9, <1>11 DEF Stop, vars
  <1> QED BY <1>6, <1>7, <1>8, <1>10, <1>11 DEF Next

\* In the control subframe a node with the standard coordinator is on the control
\* channel and transmits in its own opportunities only, but for slot 0 of
\* configuration frames.
THEOREM QuietElsewhere == Spec => []QuietOutsideOpportunities
  <1>1. IInv /\ RadioInv => QuietOutsideOpportunities
    <2> SUFFICES ASSUME Tuning, Typed, ctl > 0, pos < C
                 PROVE  \/ radio.channel = 0 /\ (radio.mode = "TX" <=> last = Now)
                        \/ pos = 0 /\ frame % (T + 1) = 0 /\ last # Now
      BY DEF QuietOutsideOpportunities, Settled, IInv, RadioInv, Standard
    <2>0. C \in Nat /\ N \in Nat BY FrameAssumption
    <2>1. Past => last # Now
      <3>1. frame \in Nat /\ pos \in Nat /\ MaxFrame \in Nat BY <2>0, FrameAssumption DEF Typed
      <3>2. Now.frame = frame /\ Now.slot = pos BY DEF Now, At
      <3> QED BY <3>1, <3>2 DEF Past, Tuning
    <2>2. CASE Past BY <2>1, <2>2 DEF Tuning, Tuned
    <2>3. CASE ~Past BY <2>3 DEF Tuning, Tuned
    <2> QED BY <2>2, <2>3
  <1>2. Spec => []RadioInv
    <2>1. IInv /\ DataInv /\ RadioInv /\ [Next]_vars => RadioInv' BY NextRadio
    <2> QED BY InitRadio, <2>1, AlwaysIInv, AlwaysDataInv, PTL DEF Spec
  <1> QED BY <1>1, <1>2, AlwaysIInv, PTL
-----------------------------------------------------------------------------
(* Reception in the minislots.                                               *)

\* In the first minislot, once it is called, the first run is under way: that is
\* when the coordinator may still come.
FirstRun == pos = C /\ dat > 0 => start = 0

\* From now to the next call the radio is on the channel of the minislots, or
\* on that of the control subframe.
Listening ==
    pos >= C => \A m \in pos - C .. Upto - 1 :
        m \notin late /\ ~plan[0][m].grant /\ plan[0][m].undsch = "none" =>
            \/ radio = Tuned("RX", plan[0][m].channel)
            \/ start = 0 /\ radio = Tuned("RX", 0)

ListenInv == Standard => FirstRun /\ Listening

LEMMA InitListen == Init => ListenInv
  <1> SUFFICES ASSUME Init PROVE FirstRun /\ Listening BY DEF ListenInv
  <1>1. C \in Nat \ {0, 1} /\ pos = 0 BY FrameAssumption DEF Init
  <1> QED BY <1>1 DEF FirstRun, Listening

LEMMA NextListen == IInv /\ DataInv /\ ListenInv /\ [Next]_vars => ListenInv'
  <1> SUFFICES ASSUME IInv, DataInv, ListenInv, [Next]_vars, Standard'
               PROVE  FirstRun' /\ Listening'
    BY DEF ListenInv
  <1>0. C \in Nat \ {0, 1} /\ N \in Nat \ {0} /\ T \in Nat \ {0}
    BY FrameAssumption
  <1>1. conf' = conf
    BY DEF Next, vars, CoordinatorHandle, Dsch, Ncfg, Nent, Listen, AfterOpportunity,
           BwManagerHandle, Mark, Tick, Stop
  <1>2. Standard /\ Typed /\ Placed /\ Timed /\ FirstRun /\ Listening
    BY <1>1 DEF IInv, ListenInv, Standard
  <1>3. /\ pos \in 0 .. C + N - 1 /\ ctl \in Nat /\ dat \in Nat /\ lastSlot \in 0 .. N - 1
        /\ Working \/ Done
    BY <1>2 DEF Typed, DataInv, DataTyped
  <1>4. CASE CoordinatorHandle
    <2>1. ctl = 0 /\ (Dsch \/ Ncfg \/ Nent \/ Listen) BY <1>4 DEF CoordinatorHandle
    <2>2. UNCHANGED <<frame, pos, dat, rows, start>>
      BY <2>1 DEF Dsch, Ncfg, Nent, Listen, AfterOpportunity
    <2>3. FirstRun' BY <1>2, <2>2 DEF FirstRun
    <2>4. CASE pos < C BY <1>0, <1>3, <2>2, <2>3, <2>4 DEF Listening
    <2>5. CASE pos >= C
      <3>1. pos = C BY <1>0, <1>2, <1>3, <2>1, <2>5 DEF Timed
      <3>2. Listen BY <1>0, <1>2, <1>3, <2>1, <3>1, Opportune
      <3>3. radio' = Tuned("RX", 0) BY <3>2 DEF Listen
      <3>4. Upto' = Upto BY <2>2 DEF rows, Upto, Done
      <3>5. CASE dat > 0
        <4>1. start' = 0 BY <1>2, <2>2, <3>1, <3>5 DEF FirstRun
        <4> QED BY <2>3, <3>3, <4>1 DEF Listening
      <3>6. CASE dat = 0
        <4>1. Upto = 0 BY <1>0, <1>3, <3>1, <3>6 DEF Working, Done, Upto
        <4> QED BY <1>0, <2>2, <2>3, <3>1, <3>4, <4>1 DEF Listening
      <3> QED BY <1>3, <3>5, <3>6
    <2> QED BY <1>0, <1>3, <2>4, <2>5
  <1>5. CASE BwManagerHandle
    <2> DEFINE row == plan[0]
               end == RunEnd(row, lastSlot)
    <2>1. /\ pos' = pos /\ plan'[0] = row /\ pos = C + lastSlot /\ Upto' = end
          /\ row = table[frame % H] /\ end \in lastSlot + 1 .. N
      BY <1>5, BwRun
    <2>2. \A m \in lastSlot .. end - 1 :
             row[m] \in Cell /\ row[lastSlot] \in Cell /\ SameRun(row[lastSlot], row[m])
      BY <1>5, BwRun
    <2>3. start' = lastSlot BY <1>5 DEF BwManagerHandle
    <2>4. SetRadio(row[lastSlot]) BY <1>5, <2>1 DEF BwManagerHandle
    <2> HIDE DEF end
    <2>5. \A m \in lastSlot .. end - 1 : ~row[m].grant /\ row[m].undsch = "none" =>
             radio' = Tuned("RX", row[m].channel)
      <3> SUFFICES ASSUME NEW m \in lastSlot .. end - 1, ~row[m].grant, row[m].undsch = "none"
                   PROVE  radio' = Tuned("RX", row[m].channel)
        OBVIOUS
      <3>1. /\ row[lastSlot].channel = row[m].channel /\ row[lastSlot].undsch = "none"
            /\ ~row[lastSlot].grant
        BY <2>2, RunIsOneCall
      <3> QED BY <2>4, <3>1 DEF SetRadio
    <2>6. pos' - C = lastSlot BY <1>0, <1>3, <2>1
    <2>7. FirstRun' BY <1>0, <1>3, <2>1, <2>3 DEF FirstRun
    <2> QED BY <2>1, <2>5, <2>6, <2>7 DEF Listening
  <1>6. CASE Tick
    <2>1. /\ ctl > 0 /\ dat > 0 /\ ctl' = ctl - 1 /\ dat' = dat - 1 /\ radio' = radio
          /\ lastSlot' = lastSlot /\ start' = start
      BY <1>6 DEF Tick, Settled
    <2>2. CASE pos < C + N - 1
      <3>1. pos' = pos + 1 /\ frame' = frame /\ plan' = plan /\ late' = late BY <1>6, <2>2 DEF Tick
      <3>2. pos' + dat' = pos + dat BY <1>3, <2>1, <3>1
      <3>3. CASE pos < C
        <4>1. Working /\ lastSlot = 0 BY <1>0, <1>3, <3>3 DEF Working, Done
        <4>2. pos + dat = C BY <1>0, <1>3, <4>1 DEF Working
        <4>3. ~Done' BY <1>0, <3>2, <4>2 DEF Done
        <4>4. Upto' = 0 BY <2>1, <4>1, <4>3 DEF Upto
        <4> QED BY <1>0, <1>3, <2>1, <3>1, <3>2, <3>3, <4>2, <4>4 DEF FirstRun, Listening
      <3>4. CASE pos >= C
        <4>1. Done' <=> Done BY <1>0, <1>3, <2>1, <3>1, <3>2, <3>4 DEF Done
        <4>2. Upto' = Upto BY <2>1, <4>1 DEF Upto
        <4>3. Upto \in 0 .. N BY <1>0, <1>3 DEF Upto
        <4>4. \A m \in pos' - C .. Upto - 1 : m \in pos - C .. Upto - 1 BY <1>0, <1>3, <3>1, <4>3
        <4>5. Listening' BY <1>2, <2>1, <3>1, <3>4, <4>2, <4>4 DEF Listening
        <4> QED BY <1>0, <1>3, <3>1, <3>4, <4>5 DEF FirstRun
      <3> QED BY <1>0, <1>3, <3>3, <3>4
    <2>3. CASE ~(pos < C + N - 1)
      <3>1. pos' = 0 BY <1>6, <2>3 DEF Tick
      <3> QED BY <1>0, <3>1 DEF FirstRun, Listening
    <2> QED BY <2>2, <2>3
  <1>7. CASE \E i \in 0 .. H, s \in 0 .. N - 1, g \in Grants :
                \E range \in 1 .. N - s : Mark(i, s, range, g)
    <2>1. UNCHANGED <<pos, dat, lastSlot, radio, start>> BY <1>7 DEF Mark
    <2>2. FirstRun' BY <1>2, <2>1 DEF FirstRun
    <2>3. Upto' = Upto BY <2>1 DEF Upto, Done
    <2>4. ASSUME pos >= C, NEW m \in pos - C .. Upto - 1, m \notin late'
          PROVE  m \notin late /\ plan'[0][m] = plan[0][m]
      BY <1>7, <2>4, MarkedLate
    <2> QED BY <1>2, <2>1, <2>2, <2>3, <2>4 DEF Listening
  <1>8. CASE Stop \/ UNCHANGED vars
    BY <1>2, <1>8 DEF Stop, vars, rows, FirstRun, Listening, Upto, Done
  <1> QED BY <1>4, <1>5, <1>6, <1>7, <1>8 DEF Next

\* With the standard coordinator, whoever comes first at the end of the control
\* subframe, the radio listens where the table says in every minislot that is
\* not for transmission, but for the first run, in which it may be left on the
\* control channel.
THEOREM ListensOnItsChannel == Spec => [](Standard => ListensWhereTold)
  <1>1. DataInv /\ ListenInv => (Standard => ListensWhereTold)
    <2> SUFFICES ASSUME DataInv, Listening, dat > 0, pos >= C, pos - C \notin late,
                        ~plan[0][pos - C].grant, plan[0][pos - C].undsch = "none"
                 PROVE  \/ radio = Tuned("RX", plan[0][pos - C].channel)
                        \/ start = 0 /\ radio = Tuned("RX", 0)
      BY DEF ListensWhereTold, Reception, Settled, Minislot, ListenInv
    <2>1. C \in Nat /\ N \in Nat /\ pos - C \in pos - C .. Upto - 1
      BY FrameAssumption DEF DataInv, DataTyped, Working, Done, Upto
    <2> QED BY <2>1 DEF Listening
  <1>2. Spec => []ListenInv BY InitListen, NextListen, AlwaysIInv, AlwaysDataInv, PTL DEF Spec
  <1> QED BY <1>1, <1>2, AlwaysDataInv, PTL
=============================================================================
