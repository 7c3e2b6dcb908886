----------------------------- MODULE FairRRProofs -----------------------------
(***************************************************************************)
(* Proofs about the circular tables and the bandwidth managers, for every    *)
(* number of rows and of minislots, mesh and demand.                         *)
(***************************************************************************)
EXTENDS FairRR, SequenceTheorems, FiniteSetTheorems, TLAPS

SendAvls  == INSTANCE Iteration WITH
                Step <- LAMBDA q, u, v, k, d : SendAvailability(d, q)
SendGnts  == INSTANCE Iteration WITH
                Step <- LAMBDA t, u, v, k, d : SendWaiting(d)
Confirms  == INSTANCE Iteration WITH
                Step <- LAMBDA n, s, v, k, d : ConfirmLast(n, d, s)
Runs      == INSTANCE Iteration WITH
                Step <- LAMBDA n, y, s, k, l : GrantRun(n, l, y, s, k)
Grants    == INSTANCE Iteration WITH
                Step <- LAMBDA n, s, v, k, d : GrantFirst(n, d, s)
Requests  == INSTANCE Iteration WITH
                Step <- LAMBDA n, links, s, k, d : Request(n, d, links[k], s)
HearAvls  == INSTANCE Iteration WITH
                Step <- LAMBDA n, x, list, k, a : rcvAnyAvailability(n, x, a, list[k])
HearGnts  == INSTANCE Iteration WITH
                Step <- LAMBDA n, x, list, k, m : rcvGrant(n, x, m, list[k])
HearReqs  == INSTANCE Iteration WITH
                Step <- LAMBDA n, x, list, k, m : rcvRequest(n, x, m, list[k])

-----------------------------------------------------------------------------
(* The circular tables. *)

\* The row of a frame is what is left of its number after whole horizons.
LEMMA RowOfFrame ==
  ASSUME NEW f \in Nat
  PROVE  /\ f % Horizon \in 0 .. Horizon - 1
         /\ f \div Horizon \in Nat
         /\ f = (Horizon * (f \div Horizon)) + (f % Horizon)
BY SlotTablesAssumption

\* Two multiples of the horizon less than a horizon apart are the same.
LEMMA MultiplesApart ==
  ASSUME NEW p \in Int, NEW q \in Int, -Horizon < Horizon * (p - q), Horizon * (p - q) < Horizon
  PROVE  p = q
<1>0. Horizon \in Nat /\ Horizon > 0
  BY SlotTablesAssumption
<1>1. CASE p - q >= 1
  BY <1>0, <1>1
<1>2. CASE p - q <= -1
  BY <1>0, <1>2
<1> QED
  BY <1>1, <1>2

(* Frames less than a horizon apart have different rows: what a node writes  *)
(* for one of them (setSlots) says nothing of the other.                     *)
LEMMA RowsDistinct ==
  ASSUME NEW f \in Nat, NEW h \in Nat, f - h < Horizon, h - f < Horizon,
         f % Horizon = h % Horizon
  PROVE  f = h
<1> DEFINE p == f \div Horizon
           q == h \div Horizon
<1>0. Horizon \in Nat /\ p \in Nat /\ q \in Nat
  BY RowOfFrame, SlotTablesAssumption
<1>1. f - h = Horizon * p - Horizon * q
  BY RowOfFrame, SlotTablesAssumption
<1>2. Horizon * p - Horizon * q = Horizon * (p - q)
  BY <1>0
<1> HIDE DEF p, q
<1>3. -Horizon < Horizon * (p - q) /\ Horizon * (p - q) < Horizon
  BY <1>0, <1>1, <1>2
<1>4. p = q
  BY <1>0, <1>3, MultiplesApart
<1> QED
  BY <1>0, <1>1, <1>4

(* A reservation that is not over, cut at the current frame by               *)
(* realPersistence, keeps just the frames that are not over; the subtraction  *)
(* of unsigned integers does not wrap around.                                *)
THEOREM RealPersistenceLive ==
  ASSUME NEW now \in Nat, NEW start \in Nat, NEW pers \in 1 .. Horizon, now <= start + pers
  PROVE  /\ RealStart(now, start) \in Nat
         /\ RealRange(now, start, pers) \in 0 .. pers
         /\ RealStart(now, start) .. RealStart(now, start) + RealRange(now, start, pers) - 1
              = {f \in start .. start + pers - 1 : f >= now}
<1>0. Horizon \in Nat /\ UintMod \in Nat /\ Horizon < UintMod
  BY SlotTablesAssumption
<1>1. CASE start >= now
  BY <1>0, <1>1 DEF RealStart, RealRange
<1>2. CASE start < now
  <2>1. pers - (now - start) \in 0 .. pers - 1
    BY <1>0, <1>2
  <2>2. RealRange(now, start, pers) = pers - (now - start)
    BY <1>0, <1>2, <2>1 DEF RealRange, Uint
  <2> QED
    BY <1>0, <1>2, <2>1, <2>2 DEF RealStart
<1> QED
  BY <1>1, <1>2

\* Writing at most a horizon of frames writes each of them.
LEMMA BlockCells ==
  ASSUME NEW fstart \in Nat, NEW frange \in 0 .. Horizon, NEW mstart \in Nat, NEW mrange \in Nat
  PROVE  Block(fstart, frange, mstart, mrange) =
           {f % Horizon : f \in fstart .. fstart + frange - 1} \X (mstart .. mstart + mrange - 1)
<1>0. Horizon \in Nat
  BY SlotTablesAssumption
<1>1. Min({frange, Horizon}) = frange
  <2>1. \A m \in {frange, Horizon} : (\A y \in {frange, Horizon} : m <= y) => m = frange
    BY <1>0
  <2>2. \A y \in {frange, Horizon} : frange <= y
    BY <1>0
  <2> QED
    BY <2>1, <2>2 DEF Min
<1>2. {(fstart + k) % Horizon : k \in 0 .. frange - 1}
        = {f % Horizon : f \in fstart .. fstart + frange - 1}
  <2>1. ASSUME NEW k \in 0 .. frange - 1
        PROVE  fstart + k \in fstart .. fstart + frange - 1
    BY <1>0
  <2>2. ASSUME NEW f \in fstart .. fstart + frange - 1
        PROVE  f - fstart \in 0 .. frange - 1 /\ fstart + (f - fstart) = f
    BY <1>0
  <2>3. \A f \in fstart .. fstart + frange - 1 :
          \E k \in 0 .. frange - 1 : f % Horizon = (fstart + k) % Horizon
    BY <2>2
  <2>4. \A k \in 0 .. frange - 1 :
          \E f \in fstart .. fstart + frange - 1 : (fstart + k) % Horizon = f % Horizon
    BY <2>1
  <2>5. ASSUME NEW r
        PROVE  (\E k \in 0 .. frange - 1 : r = (fstart + k) % Horizon)
                 <=> (\E f \in fstart .. fstart + frange - 1 : r = f % Horizon)
    BY <2>3, <2>4, Zenon
  <2> DEFINE left == {(fstart + k) % Horizon : k \in 0 .. frange - 1}
             right == {f % Horizon : f \in fstart .. fstart + frange - 1}
  <2>6. \A r : r \in left <=> r \in right
    BY <2>5, Zenon
  <2> QED
    BY <2>6, Zenon
<1> QED
  BY <1>1, <1>2 DEF Block

(* A confirmation that is not over when it is heard touches, of all frames    *)
(* that the tables can tell apart now, exactly the frames it is for, however  *)
(* late it is heard: this is why rcvGrants passes realPersistence's result to *)
(* setSlots.                                                                 *)
THEOREM LateMarkingIsExact ==
  ASSUME NEW now \in Nat, NEW start \in Nat, NEW pers \in 1 .. Horizon,
         now <= start + pers, start + pers <= now + Horizon,
         NEW mstart \in Nat, NEW mrange \in Nat,
         NEW h \in now .. now + Horizon - 1, NEW s \in Minislot
  PROVE  <<h % Horizon, s>> \in Block(RealStart(now, start), RealRange(now, start, pers), mstart, mrange)
           <=> h \in start .. start + pers - 1 /\ s \in mstart .. mstart + mrange - 1
<1> DEFINE realStart == RealStart(now, start)
           range == RealRange(now, start, pers)
           live == {f \in start .. start + pers - 1 : f >= now}
<1>0. Horizon \in Nat
  BY SlotTablesAssumption
<1>1. realStart \in Nat /\ range \in 0 .. Horizon /\ realStart .. realStart + range - 1 = live
  BY <1>0, RealPersistenceLive
<1> HIDE DEF realStart, range
<1>2. Block(realStart, range, mstart, mrange) =
        {f % Horizon : f \in live} \X (mstart .. mstart + mrange - 1)
  <2>1. Block(realStart, range, mstart, mrange) =
          {f % Horizon : f \in realStart .. realStart + range - 1} \X (mstart .. mstart + mrange - 1)
    BY <1>1, BlockCells
  <2> QED
    BY <1>1, <2>1
<1>3. ASSUME NEW f \in live, h % Horizon = f % Horizon
      PROVE  f = h
  <2>1. f \in Nat /\ h \in Nat /\ f - h < Horizon /\ h - f < Horizon
    BY <1>0
  <2> QED
    BY <1>3, <2>1, RowsDistinct
<1>4. (\E f \in live : h % Horizon = f % Horizon) <=> h \in start .. start + pers - 1
  <2>1. h \in start .. start + pers - 1 => h \in live
    BY <1>0
  <2>2. \A f \in live : h % Horizon = f % Horizon => h \in start .. start + pers - 1
    BY <1>3
  <2> QED
    BY <2>1, <2>2
<1> QED
  BY <1>2, <1>4 DEF realStart, range, Minislot

-----------------------------------------------------------------------------
(* The loops, round by round. *)

SendAvlRun(f, y, q) ==
    /\ SendAvailabilities(y, q) = f[Len(y.m.availabilities[q])]
    /\ f[0] = y
    /\ \A k \in Nat \ {0} : f[k] = SendAvailability(f[k - 1], q)

LEMMA SendAvlSteps ==
  ASSUME NEW q, NEW y PROVE \E f : SendAvlRun(f, y, q)
<1> DEFINE f[k \in Nat] == IF k = 0 THEN y ELSE SendAvailability(f[k - 1], q)
<1>1. f = [k \in Nat |-> IF k = 0 THEN y ELSE SendAvailability(f[k - 1], q)]
  BY SendAvls!Runs
<1>2. SendAvailabilities(y, q) = f[Len(y.m.availabilities[q])] BY DEF Rounds, SendAvailabilities
<1> HIDE DEF f
<1>3. SendAvlRun(f, y, q) BY <1>1, <1>2 DEF SendAvlRun
<1> QED BY <1>3

SendGntRun(f, y) ==
    /\ SendAllWaiting(y) = f[Len(y.m.grantWaiting)]
    /\ f[0] = y
    /\ \A k \in Nat \ {0} : f[k] = SendWaiting(f[k - 1])

LEMMA SendGntSteps ==
  ASSUME NEW y PROVE \E f : SendGntRun(f, y)
<1> DEFINE f[k \in Nat] == IF k = 0 THEN y ELSE SendWaiting(f[k - 1])
<1>1. f = [k \in Nat |-> IF k = 0 THEN y ELSE SendWaiting(f[k - 1])]
  BY SendGnts!Runs
<1>2. SendAllWaiting(y) = f[Len(y.m.grantWaiting)] BY DEF Rounds, SendAllWaiting
<1> HIDE DEF f
<1>3. SendGntRun(f, y) BY <1>1, <1>2 DEF SendGntRun
<1> QED BY <1>3

ConfirmsRun(f, n, y, s) ==
    /\ confirm(n, y, s) = f[Len(y.m.unconfirmed)]
    /\ f[0] = y
    /\ \A k \in Nat \ {0} : f[k] = ConfirmLast(n, f[k - 1], s)

LEMMA ConfirmSteps ==
  ASSUME NEW n, NEW s, NEW y PROVE \E f : ConfirmsRun(f, n, y, s)
<1> DEFINE f[k \in Nat] == IF k = 0 THEN y ELSE ConfirmLast(n, f[k - 1], s)
<1>1. f = [k \in Nat |-> IF k = 0 THEN y ELSE ConfirmLast(n, f[k - 1], s)]
  BY Confirms!Runs
<1>2. confirm(n, y, s) = f[Len(y.m.unconfirmed)] BY DEF Rounds, confirm
<1> HIDE DEF f
<1>3. ConfirmsRun(f, n, y, s) BY <1>1, <1>2 DEF ConfirmsRun
<1> QED BY <1>3

RunsRun(f, n, y, x, s) ==
    /\ GrantRuns(n, y, x, s) = f[MaxPasses + 1]
    /\ f[0] = y
    /\ \A k \in Nat \ {0} : f[k] = GrantRun(n, f[k - 1], x, s, k)

LEMMA GrantRunSteps ==
  ASSUME NEW n, NEW x, NEW s, NEW y PROVE \E f : RunsRun(f, n, y, x, s)
<1> DEFINE f[k \in Nat] == IF k = 0 THEN y ELSE GrantRun(n, f[k - 1], x, s, k)
<1>1. f = [k \in Nat |-> IF k = 0 THEN y ELSE GrantRun(n, f[k - 1], x, s, k)]
  BY Runs!Runs
<1>2. GrantRuns(n, y, x, s) = f[MaxPasses + 1] BY DEF Rounds, GrantRuns
<1> HIDE DEF f
<1>3. RunsRun(f, n, y, x, s) BY <1>1, <1>2 DEF RunsRun
<1> QED BY <1>3

GrantsRun(f, n, y, s) ==
    /\ GrantAll(n, y, s) = f[Len(y.m.activeList[s])]
    /\ f[0] = y
    /\ \A k \in Nat \ {0} : f[k] = GrantFirst(n, f[k - 1], s)

LEMMA GrantSteps ==
  ASSUME NEW n, NEW s, NEW y PROVE \E f : GrantsRun(f, n, y, s)
<1> DEFINE f[k \in Nat] == IF k = 0 THEN y ELSE GrantFirst(n, f[k - 1], s)
<1>1. f = [k \in Nat |-> IF k = 0 THEN y ELSE GrantFirst(n, f[k - 1], s)]
  BY Grants!Runs
<1>2. GrantAll(n, y, s) = f[Len(y.m.activeList[s])] BY DEF Rounds, GrantAll
<1> HIDE DEF f
<1>3. GrantsRun(f, n, y, s) BY <1>1, <1>2 DEF GrantsRun
<1> QED BY <1>3

RequestsRun(f, n, y, links, s) ==
    /\ RequestAll(n, y, links, s) = f[Len(links)]
    /\ f[0] = y
    /\ \A k \in Nat \ {0} : f[k] = Request(n, f[k - 1], links[k], s)

LEMMA RequestSteps ==
  ASSUME NEW n, NEW links, NEW s, NEW y PROVE \E f : RequestsRun(f, n, y, links, s)
<1> DEFINE f[k \in Nat] == IF k = 0 THEN y ELSE Request(n, f[k - 1], links[k], s)
<1>1. f = [k \in Nat |-> IF k = 0 THEN y ELSE Request(n, f[k - 1], links[k], s)]
  BY Requests!Runs
<1>2. RequestAll(n, y, links, s) = f[Len(links)] BY DEF Rounds, RequestAll
<1> HIDE DEF f
<1>3. RequestsRun(f, n, y, links, s) BY <1>1, <1>2 DEF RequestsRun
<1> QED BY <1>3

HearAvlRun(f, n, x, y, list) ==
    /\ rcvAllAvailabilities(n, x, y, list) = f[Len(list)]
    /\ f[0] = y
    /\ \A k \in Nat \ {0} : f[k] = rcvAnyAvailability(n, x, f[k - 1], list[k])

LEMMA HearAvlSteps ==
  ASSUME NEW n, NEW x, NEW list, NEW y PROVE \E f : HearAvlRun(f, n, x, y, list)
<1> DEFINE f[k \in Nat] == IF k = 0 THEN y ELSE rcvAnyAvailability(n, x, f[k - 1], list[k])
<1>1. f = [k \in Nat |-> IF k = 0 THEN y ELSE rcvAnyAvailability(n, x, f[k - 1], list[k])]
  BY HearAvls!Runs
<1>2. rcvAllAvailabilities(n, x, y, list) = f[Len(list)] BY DEF Rounds, rcvAllAvailabilities
<1> HIDE DEF f
<1>3. HearAvlRun(f, n, x, y, list) BY <1>1, <1>2 DEF HearAvlRun
<1> QED BY <1>3

HearGntRun(f, n, x, y, list) ==
    /\ rcvGrants(n, x, y, list) = f[Len(list)]
    /\ f[0] = y
    /\ \A k \in Nat \ {0} : f[k] = rcvGrant(n, x, f[k - 1], list[k])

LEMMA HearGntSteps ==
  ASSUME NEW n, NEW x, NEW list, NEW y PROVE \E f : HearGntRun(f, n, x, y, list)
<1> DEFINE f[k \in Nat] == IF k = 0 THEN y ELSE rcvGrant(n, x, f[k - 1], list[k])
<1>1. f = [k \in Nat |-> IF k = 0 THEN y ELSE rcvGrant(n, x, f[k - 1], list[k])]
  BY HearGnts!Runs
<1>2. rcvGrants(n, x, y, list) = f[Len(list)] BY DEF Rounds, rcvGrants
<1> HIDE DEF f
<1>3. HearGntRun(f, n, x, y, list) BY <1>1, <1>2 DEF HearGntRun
<1> QED BY <1>3

HearReqRun(f, n, x, y, list) ==
    /\ rcvRequests(n, x, y, list) = f[Len(list)]
    /\ f[0] = y
    /\ \A k \in Nat \ {0} : f[k] = rcvRequest(n, x, f[k - 1], list[k])

LEMMA HearReqSteps ==
  ASSUME NEW n, NEW x, NEW list, NEW y PROVE \E f : HearReqRun(f, n, x, y, list)
<1> DEFINE f[k \in Nat] == IF k = 0 THEN y ELSE rcvRequest(n, x, f[k - 1], list[k])
<1>1. f = [k \in Nat |-> IF k = 0 THEN y ELSE rcvRequest(n, x, f[k - 1], list[k])]
  BY HearReqs!Runs
<1>2. rcvRequests(n, x, y, list) = f[Len(list)] BY DEF Rounds, rcvRequests
<1> HIDE DEF f
<1>3. HearReqRun(f, n, x, y, list) BY <1>1, <1>2 DEF HearReqRun
<1> QED BY <1>3

-----------------------------------------------------------------------------
(* Numbers, runs and blocks. *)

\* The constants, at hand.
LEMMA Constants ==
  /\ Horizon \in Nat \ {0} /\ Slots \in Nat \ {0} /\ UintMod \in Nat \ {0}
  /\ Persist \in Nat /\ LookAhead \in Nat /\ Handshake \in Nat
  /\ Margin \in Nat /\ NrtpsMin \in Nat /\ Room \in Nat /\ Room < UintMod
  /\ Preamble \in Nat /\ SymPerSlot \in Nat \ {0} /\ Alpha \in Nat \ {0} /\ SymPerSlot > Preamble
  /\ Minislot \in SUBSET Nat
BY SlotTablesAssumption, FairRRAssumption DEF Minislot

LEMMA MinOfTwo ==
  ASSUME NEW a \in Int, NEW b \in Int
  PROVE  /\ Min({a, b}) \in {a, b} /\ Min({a, b}) <= a /\ Min({a, b}) <= b
         /\ Min({a, b}) \in Int
<1>1. \E x \in {a, b} : \A y \in {a, b} : x <= y
  <2>1. CASE a <= b BY <2>1
  <2>2. CASE b <= a BY <2>2
  <2> QED BY <2>1, <2>2
<1> QED BY <1>1 DEF Min

LEMMA MaxOfTwo ==
  ASSUME NEW a \in Int, NEW b \in Int
  PROVE  /\ Max({a, b}) \in {a, b} /\ Max({a, b}) >= a /\ Max({a, b}) >= b
         /\ Max({a, b}) \in Int
<1>1. \E x \in {a, b} : \A y \in {a, b} : x >= y
  <2>1. CASE a >= b BY <2>1
  <2>2. CASE b >= a BY <2>2
  <2> QED BY <2>1, <2>2
<1> QED BY <1>1 DEF Max

LEMMA UintNat ==
  ASSUME NEW x \in Int PROVE Uint(x) \in Nat
BY Constants DEF Uint

LEMMA MinOfSome ==
  ASSUME NEW S \in SUBSET Nat, S # {}
  PROVE  Min(S) \in S /\ \A x \in S : Min(S) <= x
<1>1. \E x \in S : \A y \in S : x <= y BY Requests!Least
<1> QED BY <1>1 DEF Min

LEMMA MaxUpto ==
  ASSUME NEW n \in Nat, NEW S \in SUBSET (0 .. n), S # {}
  PROVE  Max(S) \in S /\ \A x \in S : Max(S) >= x
<1> DEFINE T == {n - x : x \in S}
<1>0. \A x \in S : x \in 0 .. n /\ n - x \in Nat OBVIOUS
<1>1. T \in SUBSET Nat /\ T # {} BY <1>0
<1>2. PICK t \in T : \A u \in T : t <= u BY <1>1, Requests!Least
<1>3. PICK x \in S : t = n - x BY <1>2
<1>4. \A y \in S : x >= y BY <1>0, <1>2, <1>3
<1> QED BY <1>3, <1>4 DEF Max

\* The run found is of free minislots, and no longer than asked for.
LEMMA FirstRunFree ==
  ASSUME NEW free \in SUBSET Minislot, NEW len \in Nat
  PROVE  LET run == FirstRun(free, len)
         IN /\ run = [start |-> run.start, range |-> run.range]
            /\ run.start \in Nat /\ run.range \in 0 .. len
            /\ run.start + run.range <= Slots
            /\ run.start .. run.start + run.range - 1 \subseteq free
<1>0. Slots \in Nat \ {0} /\ free \in SUBSET Nat BY Constants DEF Minislot
<1>1. CASE free = {} BY <1>0, <1>1 DEF FirstRun
<1>2. CASE free # {}
  <2> DEFINE s == Min(free)
             K == {k \in 0 .. len : s .. s + k - 1 \subseteq free}
             r == Max(K)
  <2>1. s \in free BY <1>0, <1>2, MinOfSome
  <2>2. s \in Nat /\ s < Slots
    <3> HIDE DEF s
    <3>1. s \in 0 .. Slots - 1 BY <2>1 DEF Minislot
    <3> QED BY <1>0, <3>1
  <2> HIDE DEF s
  <2>3. 0 \in K BY <2>2
  <2>4. r \in K BY <2>3, MaxUpto
  <2> HIDE DEF r
  <2>5. r \in 0 .. len /\ s .. s + r - 1 \subseteq free BY <2>4
  <2>6. s + r <= Slots
    <3>1. CASE r = 0 BY <1>0, <2>2, <3>1
    <3>2. CASE r # 0
      <4>1. s + r - 1 \in s .. s + r - 1 BY <2>2, <2>5, <3>2
      <4>2. s + r - 1 \in 0 .. Slots - 1 BY <2>5, <4>1 DEF Minislot
      <4> QED BY <1>0, <2>2, <2>5, <4>2
    <3> QED BY <3>1, <3>2
  <2>7. FirstRun(free, len) = [start |-> s, range |-> r] BY <1>2 DEF FirstRun, s, r
  <2> QED BY <2>2, <2>5, <2>6, <2>7
<1> QED BY <1>1, <1>2

LEMMA BlockTyped ==
  ASSUME NEW fstart \in Nat, NEW frange \in Nat, NEW mstart \in Nat, NEW mrange \in Nat,
         mstart + mrange <= Slots
  PROVE  Block(fstart, frange, mstart, mrange) \in SUBSET TableCell
<1>0. Horizon \in Nat \ {0} /\ Slots \in Nat BY Constants
<1>1. Min({frange, Horizon}) \in Int BY <1>0, MinOfTwo
<1>2. \A f \in 0 .. Min({frange, Horizon}) - 1 : (fstart + f) % Horizon \in 0 .. Horizon - 1
  BY <1>0, <1>1
<1>3. mstart .. mstart + mrange - 1 \subseteq Minislot BY <1>0 DEF Minislot
<1> QED BY <1>2, <1>3 DEF Block, TableCell

LEMMA RowTyped == ASSUME NEW f \in Nat PROVE Row(f) \in SUBSET TableCell
BY Constants DEF Row, TableCell

LEMMA StampTyped ==
  ASSUME NEW V, NEW table \in [TableCell -> V], NEW block, NEW v \in V
  PROVE  Stamp(table, block, v) \in [TableCell -> V]
BY DEF Stamp

\* A level of at least one slot is worth at least a byte, and back.
LEMMA Conversions ==
  /\ \A k \in Int : slots2bytes(k) \in Int
  /\ \A k \in Nat \ {0} : slots2bytes(k) \in Nat \ {0}
  /\ \A b \in Nat : bytes2slots(b) \in Nat
  /\ \A b \in Nat \ {0} : bytes2slots(b) \in Nat \ {0}
<1>0. Preamble \in Nat /\ SymPerSlot \in Nat \ {0} /\ Alpha \in Nat \ {0} /\ SymPerSlot > Preamble
  BY Constants
<1>1. \A k \in Int : slots2bytes(k) \in Int BY <1>0 DEF slots2bytes
<1>2. ASSUME NEW k \in Nat \ {0} PROVE slots2bytes(k) \in Nat \ {0}
  <2>1. k * SymPerSlot >= SymPerSlot /\ k * SymPerSlot \in Nat BY <1>0
  <2>2. k * SymPerSlot - Preamble \in Nat \ {0} BY <1>0, <2>1
  <2>3. \A x \in Nat \ {0} : Alpha * x \in Nat \ {0} BY <1>0
  <2> QED BY <2>2, <2>3 DEF slots2bytes
<1>3. ASSUME NEW b \in Nat \ {0} PROVE bytes2slots(b) \in Nat \ {0}
  <2>1. (b - 1) \div Alpha \in Nat BY <1>0
  <2>2. (Preamble + ((b - 1) \div Alpha)) \div SymPerSlot \in Nat BY <1>0, <2>1
  <2> QED BY <2>2 DEF bytes2slots
<1>4. bytes2slots(0) = 0 BY DEF bytes2slots
<1> QED BY <1>1, <1>2, <1>3, <1>4

-----------------------------------------------------------------------------
(* What the lists and the tables of a bandwidth manager hold. *)

Bitmap == [Plane -> SUBSET TableCell]

Way == {"RX_AVL", "TX_AVL", "UNAVAILABLE"}

\* The services that some node has traffic for, and those that the tables and
\* the availabilities may name: what UGS takes is lent to rtPS.
Used == {s \in Service : \E n \in Node : \E y \in Nbr[n] : Demand[n][y][s] > 0}
User == Used \cup {s \in {"RTPS"} : "UGS" \in Used}

\* Best effort is lent nothing, and what UGS has it has in every row.
Avl == {ie \in [frame : Nat, start : Nat, range : Nat, dir : Way, pers : Nat, serv : User] :
          /\ ie.start + ie.range <= Slots
          /\ ie.dir # "UNAVAILABLE" => ie.serv # "BE"
          /\ ie.serv \in {"UGS", "RTPS"} => ie.pers = Horizon}

\* A grant is for a frame that is not far ahead.
Gnt(n, now) == {g \in [node : Nbr[n], frame : 0 .. now + Handshake + LookAhead,
                       start : Nat, range : Nat, fromRequester : BOOLEAN,
                       pers : Nat, serv : Used] :
                  g.start + g.range <= Slots /\ g.pers = Pers(g.serv)}
Req(n) == [node : Nbr[n], level : 1 .. Slots, pers : Nat, serv : Used]

Desc == [req_in : Int, gnt_in : Int, cnf_in : Int, req_out : Int, gnt_out : Int, level_in : Nat]

Mgr(n, now) ==
    [busy : Bitmap, unconfirmedSlots : Bitmap, self_rx_unavl : Bitmap, self_tx_unavl : Bitmap,
     neigh_tx_unavl : [Nbr[n] -> Bitmap], grants : SUBSET TableCell,
     dst : [TableCell -> Nbr[n] \cup {None}], src : [TableCell -> Nbr[n] \cup {None}],
     service : [TableCell -> User \cup {Unset}],
     unconfirmed : Seq(Gnt(n, now)), grantWaiting : Seq(Gnt(n, now)),
     availabilities : [{1, 2} -> Seq(Avl)],
     neigh : [Nbr[n] -> [Service -> Desc]], activeList : [Service -> Seq(Nbr[n])],
     startHorizon : [Nbr[n] -> [Service -> BOOLEAN]], nextFrame : [Nbr[n] -> [Service -> Nat]]]

\* Flows that may not request wait for a frame at most a horizon away.
Resumes(n, m, now) ==
    \A y \in Nbr[n] : \A s \in Service \ {"UGS"} :
       ~m.startHorizon[y][s] => m.nextFrame[y][s] \in now .. now + Persist

\* The active lists name those with a request to serve, once each.
Waits(m) ==
    \A s \in Service : LET list == m.activeList[s]
                       IN /\ IsInjective(list)
                          /\ \A i \in DOMAIN list : m.neigh[list[i]][s].level_in > 0
                          /\ s \notin Used => list = <<>>

\* With UGS alone the tables are the same in every row: where a minislot is
\* booked in one row it is booked, for UGS and to the same neighbour, in all.
OnlyUgs == Used \subseteq {"UGS"}
Columns(m) ==
    /\ m.grants \subseteq m.busy["UGS"]
    /\ \A c \in m.busy["UGS"] : \A F \in 0 .. Horizon - 1 :
          LET other == <<F, c[2]>>
          IN /\ other \in m.busy["UGS"]
             /\ m.service[other] = "UGS"
             /\ c \in m.grants => other \in m.grants /\ m.dst[other] = m.dst[c]

\* The tables that say what a node has granted and confirmed.
SameTables(m, e) ==
    e.busy = m.busy /\ e.grants = m.grants /\ e.dst = m.dst /\ e.service = m.service

Sane(n, now) ==
    {m \in Mgr(n, now) : /\ Resumes(n, m, now) /\ Waits(m)
                         /\ \A i \in DOMAIN m.unconfirmed : m.unconfirmed[i].fromRequester
                         /\ OnlyUgs => Columns(m)}

LEMMA SameColumns ==
  ASSUME NEW m, NEW e, SameTables(m, e), Columns(m) PROVE Columns(e)
BY DEF SameTables, Columns

LEMMA UsedServices ==
  /\ Used \subseteq Service /\ Used \subseteq User /\ User \subseteq Service \cup {"RTPS"}
  /\ OnlyUgs => User \subseteq {"UGS", "RTPS"}
BY DEF Used, User, OnlyUgs

LEMMA MarkTyped ==
  ASSUME NEW map \in Bitmap, NEW serv \in Service, NEW f \in Nat, NEW fr \in Nat,
         NEW s \in Nat, NEW sr \in Nat, s + sr <= Slots
  PROVE  Mark(map, serv, f, fr, s, sr) \in Bitmap
<1>1. Slots \in Nat /\ NrtpsMin \in Nat BY Constants
<1>2. Min({sr, NrtpsMin}) \in Nat /\ s + Min({sr, NrtpsMin}) <= Slots
  <2>0. sr \in Int /\ NrtpsMin \in Int BY <1>1
  <2>1. Min({sr, NrtpsMin}) \in {sr, NrtpsMin} /\ Min({sr, NrtpsMin}) <= sr BY <2>0, MinOfTwo
  <2> QED BY <1>1, <2>1
<1>3. Block(f, fr, s, sr) \in SUBSET TableCell BY BlockTyped
<1>4. Block(f, fr, s, Min({sr, NrtpsMin})) \in SUBSET TableCell BY <1>2, BlockTyped
<1>5. CASE serv = "UGS" BY <1>3, <1>5 DEF Mark, Bitmap, Plane
<1>6. CASE serv = "NRTPS" BY <1>3, <1>4, <1>6 DEF Mark, Bitmap, Plane
<1>7. CASE serv = "BE" BY <1>3, <1>7 DEF Mark, Bitmap, Plane
<1> QED BY <1>5, <1>6, <1>7 DEF Service

LEMMA MarkPlanes ==
  ASSUME NEW map \in Bitmap, NEW f, NEW fr, NEW s, NEW sr
  PROVE  LET ugs == Mark(map, "UGS", f, fr, s, sr)
             be == Mark(map, "BE", f, fr, s, sr)
         IN /\ ugs["UGS"] = map["UGS"] \cup Block(f, fr, s, sr)
            /\ ugs["plain"] = map["plain"] /\ ugs["NRTPS"] = map["NRTPS"]
            /\ be["plain"] = map["plain"] \cup Block(f, fr, s, sr)
            /\ be["UGS"] = map["UGS"] /\ be["NRTPS"] = map["NRTPS"]
BY DEF Mark, Bitmap, Plane

LEMMA WithTyped ==
  ASSUME NEW map \in Bitmap, NEW planes, NEW block \in SUBSET TableCell
  PROVE  With(map, planes, block) \in Bitmap
BY DEF With, Bitmap

LEMMA WithoutTyped ==
  ASSUME NEW map \in Bitmap, NEW planes, NEW block
  PROVE  Without(map, planes, block) \in Bitmap
BY DEF Without, Bitmap

\* The state of a new bandwidth manager.
LEMMA ManagerTyped ==
  ASSUME NEW n \in Node PROVE Manager(n) \in Sane(n, 0)
<1>1. Clear \in Bitmap BY DEF Clear, Bitmap
<1>2. NeighDesc \in Desc BY DEF NeighDesc, Desc
<1> DEFINE m == Manager(n)
<1>3. <<<<>>, <<>>>> \in [{1, 2} -> Seq(Avl)]
  <2> DEFINE none == <<<<>>, <<>>>>
  <2>1. none \in Seq(Seq(Avl)) /\ Len(none) = 2 OBVIOUS
  <2> HIDE DEF none
  <2>2. DOMAIN none = 1 .. 2 BY <2>1
  <2>3. 1 .. 2 = {1, 2} OBVIOUS
  <2>4. none \in [{1, 2} -> Seq(Avl)] BY <2>1, <2>2, <2>3
  <2> QED BY <2>4 DEF none
<1>4. m \in Mgr(n, 0) BY <1>1, <1>2, <1>3 DEF Manager, Mgr, User
<1>5. Resumes(n, m, 0) BY DEF Resumes, Manager
<1>6. Waits(m)
  <2>1. \A s \in Service : m.activeList[s] = <<>> BY DEF Manager
  <2> QED BY <2>1 DEF Waits, IsInjective
<1>7. m.unconfirmed = <<>> BY DEF Manager
<1>8. Columns(m) BY DEF Columns, Manager, Clear, Plane
<1> QED BY <1>4, <1>5, <1>6, <1>7, <1>8 DEF Sane

-----------------------------------------------------------------------------
(* The end of a frame. *)

LEMMA EndOfFrameSane ==
  ASSUME NEW n \in Node, frame \in Nat, mgr[n] \in Sane(n, frame)
  PROVE  EndOfFrame(n) \in Sane(n, frame + 1)
<1> DEFINE m == mgr[n]
           row == Row(frame)
           e == EndOfFrame(n)
<1>1. m \in Mgr(n, frame) /\ Resumes(n, m, frame) /\ Waits(m) /\ (OnlyUgs => Columns(m))
  BY DEF Sane
<1>2. \A b \in Bitmap : Without(b, {"plain", "NRTPS"}, row) \in Bitmap BY WithoutTyped
<1>3. \A V, b : \A t \in [TableCell -> V], v \in V : Stamp(t, b, v) \in [TableCell -> V]
  BY StampTyped
<1>4. \A y \in Nbr[n], s \in Service : MayRequest(m, y, s) \in BOOLEAN
  BY <1>1 DEF Mgr, MayRequest
<1>5. e \in Mgr(n, frame + 1)
  <2> HIDE DEF m
  <2>1. Stamp(m.service, NotUgs(m, row), Unset) \in [TableCell -> User \cup {Unset}]
    BY <1>1, <1>3 DEF Mgr
  <2>2. Stamp(m.dst, NotUgs(m, row), None) \in [TableCell -> Nbr[n] \cup {None}]
    BY <1>1, <1>3 DEF Mgr
  <2>3. Stamp(m.src, NotUgs(m, row), None) \in [TableCell -> Nbr[n] \cup {None}]
    BY <1>1, <1>3 DEF Mgr
  <2>4. [y \in Nbr[n] |-> [s \in Service |-> MayRequest(m, y, s)]] \in [Nbr[n] -> [Service -> BOOLEAN]]
    BY <1>4
  <2>5. [y \in Nbr[n] |-> Without(m.neigh_tx_unavl[y], {"plain", "NRTPS"}, row)]
          \in [Nbr[n] -> Bitmap]
    BY <1>1, <1>2 DEF Mgr
  <2>6. Gnt(n, frame) \subseteq Gnt(n, frame + 1)
    <3>1. 0 .. frame + Handshake + LookAhead \subseteq 0 .. frame + 1 + Handshake + LookAhead
      BY Constants
    <3> QED BY <3>1 DEF Gnt
  <2>7. m.unconfirmed \in Seq(Gnt(n, frame + 1)) /\ m.grantWaiting \in Seq(Gnt(n, frame + 1))
    BY <1>1, <2>6 DEF Mgr
  <2>8. m \in Mgr(n, frame + 1) BY <1>1, <2>7 DEF Mgr
  <2> DEFINE starts == [y \in Nbr[n] |-> [s \in Service |-> MayRequest(m, y, s)]]
             heard == [y \in Nbr[n] |-> Without(m.neigh_tx_unavl[y], {"plain", "NRTPS"}, row)]
             services == Stamp(m.service, NotUgs(m, row), Unset)
             dsts == Stamp(m.dst, NotUgs(m, row), None)
             srcs == Stamp(m.src, NotUgs(m, row), None)
  <2> DEFINE half == [m EXCEPT
               !.startHorizon = starts,
               !.busy = Without(@, {"plain", "NRTPS"}, row),
               !.unconfirmedSlots = Without(@, {"plain", "NRTPS"}, row),
               !.self_rx_unavl = Without(@, {"plain", "NRTPS"}, row),
               !.self_tx_unavl = Without(@, {"plain", "NRTPS"}, row),
               !.neigh_tx_unavl = heard]
  <2>9. e = [half EXCEPT !.grants = m.grants \ NotUgs(m, row),
                         !.service = services, !.dst = dsts, !.src = srcs]
    BY <1>1 DEF EndOfFrame, m, Mgr
  <2> HIDE DEF e, starts, heard, services, dsts, srcs, row
  <2>10. /\ starts \in [Nbr[n] -> [Service -> BOOLEAN]] /\ heard \in [Nbr[n] -> Bitmap]
         /\ services \in [TableCell -> User \cup {Unset}]
         /\ dsts \in [TableCell -> Nbr[n] \cup {None}]
         /\ srcs \in [TableCell -> Nbr[n] \cup {None}]
    BY <2>1, <2>2, <2>3, <2>4, <2>5 DEF starts, heard, services, dsts, srcs
  <2> DEFINE next == frame + 1
  <2> HIDE DEF next
  <2>11. \A b \in Bitmap : Without(b, {"plain", "NRTPS"}, row) \in Bitmap BY WithoutTyped
  <2>12. m \in Mgr(n, next) => half \in Mgr(n, next) BY <2>10, <2>11 DEF Mgr
  <2>13. m.grants \in SUBSET TableCell BY <1>1 DEF Mgr
  <2> HIDE DEF half
  <2>14. half \in Mgr(n, next) => e \in Mgr(n, next) BY <2>9, <2>10, <2>13 DEF Mgr
  <2> QED BY <2>8, <2>12, <2>14 DEF next
<1>6. /\ e.startHorizon = [y \in Nbr[n] |-> [s \in Service |-> MayRequest(m, y, s)]]
      /\ e.nextFrame = m.nextFrame /\ e.activeList = m.activeList /\ e.neigh = m.neigh
      /\ e.unconfirmed = m.unconfirmed
  BY <1>1 DEF EndOfFrame, Mgr
<1>7. Resumes(n, e, frame + 1)
  <2>1. ASSUME NEW y \in Nbr[n], NEW s \in Service \ {"UGS"}, ~e.startHorizon[y][s]
        PROVE  e.nextFrame[y][s] \in frame + 1 .. frame + 1 + Persist
    <3>1. ~m.startHorizon[y][s] /\ m.nextFrame[y][s] # frame
      <4> HIDE DEF m, e
      <4>1. ~MayRequest(m, y, s) BY <1>6, <2>1
      <4> QED BY <4>1 DEF MayRequest
    <3>2. m.nextFrame[y][s] \in frame .. frame + Persist BY <1>1, <3>1 DEF Resumes
    <3> QED BY <1>6, <3>1, <3>2, Constants
  <2> HIDE DEF e, m
  <2> QED BY <2>1 DEF Resumes
<1>8. Waits(e) /\ \A i \in DOMAIN e.unconfirmed : e.unconfirmed[i].fromRequester
  <2> HIDE DEF e
  <2> QED BY <1>6 DEF Waits, Sane
<1>9. ASSUME OnlyUgs PROVE Columns(e)
  <2>1. Columns(m) BY <1>1, <1>9
  <2>2. /\ e.busy["UGS"] = m.busy["UGS"]
        /\ e.grants = m.grants \ NotUgs(m, row)
        /\ e.service = Stamp(m.service, NotUgs(m, row), Unset)
        /\ e.dst = Stamp(m.dst, NotUgs(m, row), None)
    BY <1>1 DEF EndOfFrame, Mgr, Bitmap, Without, Plane
  <2>3. \A c \in m.busy["UGS"] : c \notin NotUgs(m, row)
    <3>1. \A c \in TableCell : c[1] \in 0 .. Horizon - 1 /\ c = <<c[1], c[2]>>
      BY DEF TableCell
    <3>2. m.busy["UGS"] \subseteq TableCell BY <1>1 DEF Mgr, Bitmap, Plane
    <3>3. \A c \in m.busy["UGS"] : m.service[c] = "UGS" BY <2>1, <3>1, <3>2 DEF Columns
    <3> QED BY <3>3 DEF NotUgs
  <2>4. /\ DOMAIN m.service = TableCell /\ DOMAIN m.dst = TableCell
        /\ m.busy["UGS"] \subseteq TableCell
    BY <1>1 DEF Mgr, Bitmap, Plane
  <2> HIDE DEF e, m, row
  <2>5. \A c \in m.busy["UGS"] : e.service[c] = m.service[c] /\ e.dst[c] = m.dst[c]
    BY <2>2, <2>3, <2>4 DEF Stamp
  <2>6. e.grants = m.grants BY <2>1, <2>2, <2>3 DEF Columns
  <2> QED BY <2>1, <2>2, <2>5, <2>6 DEF Columns
<1> QED BY <1>5, <1>7, <1>8, <1>9 DEF Sane

-----------------------------------------------------------------------------
(* What a message does to those that hear it. *)

\* A change of the tables and of the counters, not of who waits for what.
LEMMA StaysSane ==
  ASSUME NEW n \in Node, NEW now, NEW m \in Sane(n, now), NEW e \in Mgr(n, now),
         e.activeList = m.activeList, e.startHorizon = m.startHorizon,
         e.nextFrame = m.nextFrame, e.unconfirmed = m.unconfirmed,
         \A y \in Nbr[n] : \A s \in Service : e.neigh[y][s].level_in = m.neigh[y][s].level_in,
         SameTables(m, e) \/ (OnlyUgs => Columns(e))
  PROVE  e \in Sane(n, now)
<1>1. m \in Mgr(n, now) /\ Resumes(n, m, now) /\ Waits(m) BY DEF Sane
<1>2. Resumes(n, e, now) BY <1>1 DEF Resumes
<1>3. \A s \in Service : \A i \in DOMAIN m.activeList[s] : m.activeList[s][i] \in Nbr[n]
  BY <1>1 DEF Mgr
<1>4. Waits(e) BY <1>1, <1>3 DEF Waits
<1>5. OnlyUgs => Columns(e) BY SameColumns DEF Sane
<1> QED BY <1>2, <1>4, <1>5 DEF Sane

LEMMA RealTyped ==
  ASSUME frame \in Nat, NEW start \in Nat, NEW pers \in Nat
  PROVE  RealStart(frame, start) \in Nat /\ RealRange(frame, start, pers) \in Nat
BY UintNat DEF RealStart, RealRange

LEMMA AvlBlocks ==
  ASSUME frame \in Nat, NEW ie \in Avl
  PROVE  AllOf(ie) \in SUBSET TableCell /\ RealOf(ie) \in SUBSET TableCell
<1>1. ie.frame \in Nat /\ ie.pers \in Nat /\ ie.start \in Nat /\ ie.range \in Nat
      /\ ie.start + ie.range <= Slots
  BY DEF Avl
<1> QED BY <1>1, RealTyped, BlockTyped DEF AllOf, RealOf

LEMMA WithoutAroundTyped ==
  ASSUME NEW n \in Node, NEW x, NEW m \in Mgr(n, frame), NEW planes, NEW block
  PROVE  WithoutAround(m, n, x, planes, block) \in [Nbr[n] -> Bitmap]
<1>1. \A y \in Nbr[n] : m.neigh_tx_unavl[y] \in Bitmap BY DEF Mgr
<1> QED BY <1>1, WithoutTyped DEF WithoutAround

\* A block of Horizon frames has whole columns.
LEMMA WholeBlock ==
  ASSUME NEW f \in Nat, NEW s \in Nat, NEW sr \in Nat
  PROVE  Block(f, Horizon, s, sr) = (0 .. Horizon - 1) \X (s .. s + sr - 1)
<1>0. Horizon \in Nat /\ Horizon > 0 /\ Horizon \in 0 .. Horizon BY Constants
<1>1. ASSUME NEW r \in 0 .. Horizon - 1
      PROVE  \E h \in f .. f + Horizon - 1 : r = h % Horizon
  <2> DEFINE q == (r - f) \div Horizon
             a == (r - f) % Horizon
             h == f + a
             p == h \div Horizon
             b == h % Horizon
             o == 0 - q
  <2>1. a \in 0 .. Horizon - 1 /\ q \in Int /\ r - f = (Horizon * q) + a BY <1>0
  <2> HIDE DEF a, q
  <2>2. h \in Nat /\ h \in f .. f + Horizon - 1 BY <1>0, <2>1
  <2>3. b \in 0 .. Horizon - 1 /\ p \in Nat /\ h = (Horizon * p) + b BY <2>2, RowOfFrame
  <2> HIDE DEF p, b
  <2>4. o \in Int /\ Horizon * (p - o) = (Horizon * p) + (Horizon * q) BY <1>0, <2>1, <2>3
  <2>5. Horizon * (p - o) = r - b
    <3> DEFINE x == Horizon * p
               y == Horizon * q
    <3>1. x \in Int /\ y \in Int BY <1>0, <2>1, <2>3
    <3>2. f + a = x + b /\ r - f = y + a /\ Horizon * (p - o) = x + y BY <2>1, <2>3, <2>4
    <3> HIDE DEF x, y
    <3>3. r \in Int /\ b \in Int /\ a \in Int BY <2>1, <2>3
    <3> QED BY <3>1, <3>2, <3>3
  <2> HIDE DEF h, o
  <2>6. -Horizon < Horizon * (p - o) /\ Horizon * (p - o) < Horizon BY <1>0, <2>3, <2>5
  <2>7. p = o BY <2>3, <2>4, <2>6, MultiplesApart
  <2>8. r = b
    <3>1. p - o = 0 BY <2>3, <2>7
    <3>2. r - b = 0 BY <1>0, <2>5, <3>1
    <3> QED BY <2>3, <3>2
  <2> QED BY <2>2, <2>8 DEF b
<1>2. {h % Horizon : h \in f .. f + Horizon - 1} = 0 .. Horizon - 1
  <2>1. \A h \in f .. f + Horizon - 1 : h % Horizon \in 0 .. Horizon - 1 BY <1>0
  <2> QED BY <1>1, <2>1
<1> QED BY <1>0, <1>2, BlockCells

\* Whole columns are taken out of the tables of UGS, or added to them.
Whole(all) == \E S : all = (0 .. Horizon - 1) \X S

LEMMA ColumnsCut ==
  ASSUME NEW m, NEW e, NEW all, Whole(all),
         Columns(m), m.busy["UGS"] \subseteq TableCell,
         e.busy["UGS"] = m.busy["UGS"] \ all \/ e.busy["UGS"] = m.busy["UGS"],
         e.grants = m.grants \ all,
         \A c \in e.busy["UGS"] : e.service[c] = "UGS",
         \A c \in m.busy["UGS"] \ all : e.dst[c] = m.dst[c]
  PROVE  Columns(e)
<1>1. \A c \in TableCell : \A F \in 0 .. Horizon - 1 : <<F, c[2]>> \in all <=> c \in all
  BY DEF TableCell, Whole
<1>2. e.grants \subseteq e.busy["UGS"] BY DEF Columns
<1>3. ASSUME NEW c \in e.busy["UGS"], NEW F \in 0 .. Horizon - 1
      PROVE  LET other == <<F, c[2]>>
             IN /\ other \in e.busy["UGS"] /\ e.service[other] = "UGS"
                /\ c \in e.grants => other \in e.grants /\ e.dst[other] = e.dst[c]
  <2> DEFINE other == <<F, c[2]>>
  <2>1. c \in m.busy["UGS"] /\ c \in TableCell OBVIOUS
  <2>2. /\ other \in m.busy["UGS"]
        /\ c \in m.grants => other \in m.grants /\ m.dst[other] = m.dst[c]
    BY <2>1 DEF Columns
  <2>3. other \in all <=> c \in all BY <1>1, <2>1
  <2> QED BY <2>1, <2>2, <2>3
<1> QED BY <1>2, <1>3 DEF Columns

LEMMA ColumnsAdd ==
  ASSUME NEW m, NEW e, NEW all, Whole(all), all \subseteq TableCell,
         Columns(m), m.busy["UGS"] \subseteq TableCell,
         e.busy["UGS"] = m.busy["UGS"] \cup all,
         \A c \in all : e.service[c] = "UGS",
         \A c \in TableCell \ all : e.service[c] = m.service[c],
         NEW v, \/ e.grants = m.grants /\ e.dst = m.dst
                \/ /\ e.grants = m.grants \cup all
                   /\ \A c \in all : e.dst[c] = v
                   /\ \A c \in TableCell \ all : e.dst[c] = m.dst[c]
  PROVE  Columns(e)
<1>1. \A c \in TableCell : \A F \in 0 .. Horizon - 1 : <<F, c[2]>> \in all <=> c \in all
  BY DEF TableCell, Whole
<1>2. e.grants \subseteq e.busy["UGS"] BY DEF Columns
<1>3. ASSUME NEW c \in e.busy["UGS"], NEW F \in 0 .. Horizon - 1
      PROVE  LET other == <<F, c[2]>>
             IN /\ other \in e.busy["UGS"] /\ e.service[other] = "UGS"
                /\ c \in e.grants => other \in e.grants /\ e.dst[other] = e.dst[c]
  <2> DEFINE other == <<F, c[2]>>
  <2>1. c \in TableCell /\ other \in TableCell BY DEF TableCell
  <2>2. other \in all <=> c \in all BY <1>1, <2>1
  <2>3. c \in m.busy["UGS"] => /\ other \in m.busy["UGS"] /\ m.service[other] = "UGS"
                               /\ c \in m.grants => other \in m.grants /\ m.dst[other] = m.dst[c]
    BY DEF Columns
  <2>4. m.grants \subseteq m.busy["UGS"] BY DEF Columns
  <2>5. other \in e.busy["UGS"] /\ e.service[other] = "UGS" BY <2>1, <2>2, <2>3
  <2>6. CASE e.grants = m.grants /\ e.dst = m.dst BY <2>3, <2>4, <2>5, <2>6
  <2>7. CASE /\ e.grants = m.grants \cup all
             /\ \A x \in all : e.dst[x] = v
             /\ \A x \in TableCell \ all : e.dst[x] = m.dst[x]
    BY <2>2, <2>3, <2>4, <2>5, <2>7
  <2> QED BY <2>5, <2>6, <2>7
<1> QED BY <1>2, <1>3 DEF Columns

LEMMA UgsAvailabilitySane ==
  ASSUME NEW n \in Node, NEW x \in Nbr[n], frame \in Nat, NEW m \in Sane(n, frame),
         NEW ie \in Avl, ie.serv = "UGS"
  PROVE  rcvUgsAvailability(n, x, m, ie) \in Sane(n, frame)
<1> DEFINE e == rcvUgsAvailability(n, x, m, ie)
<1>1. m \in Mgr(n, frame) /\ ie.dir \in Way BY DEF Sane, Avl
<1>2. AllOf(ie) \in SUBSET TableCell /\ RealOf(ie) \in SUBSET TableCell BY AvlBlocks
<1>3. \A b \in Bitmap : Without(b, {"UGS"}, AllOf(ie)) \in Bitmap BY WithoutTyped
<1>4. CASE ie.dir = "RX_AVL"
  <2>1. e = [m EXCEPT !.self_rx_unavl = Without(@, {"UGS"}, AllOf(ie)),
                      !.neigh_tx_unavl[x] = Without(@, {"UGS"}, AllOf(ie))]
    BY <1>4 DEF rcvUgsAvailability
  <2> HIDE DEF e
  <2>2. e \in Mgr(n, frame) BY <1>1, <1>3, <2>1 DEF Mgr
  <2>9. e \in Sane(n, frame) BY <1>1, <2>1, <2>2, StaysSane DEF Mgr, SameTables
  <2> QED BY <2>9 DEF e
<1>5. CASE ie.dir = "TX_AVL"
  <2>1. e = [m EXCEPT !.self_tx_unavl = Without(@, {"UGS"}, AllOf(ie)),
                      !.neigh_tx_unavl = WithoutAround(m, n, x, {"UGS"}, AllOf(ie))]
    BY <1>5 DEF rcvUgsAvailability
  <2> HIDE DEF e
  <2>2. WithoutAround(m, n, x, {"UGS"}, AllOf(ie)) \in [Nbr[n] -> Bitmap]
    BY <1>1, WithoutAroundTyped
  <2>3. e \in Mgr(n, frame) BY <1>1, <1>3, <2>1, <2>2 DEF Mgr
  <2>9. e \in Sane(n, frame) BY <1>1, <2>1, <2>3, StaysSane DEF Mgr, SameTables
  <2> QED BY <2>9 DEF e
<1>6. CASE ie.dir = "UNAVAILABLE"
  <2>1. e = [m EXCEPT !.neigh_tx_unavl[x]["UGS"] = @ \cup RealOf(ie),
                      !.service = Stamp(@, RealOf(ie), "UGS")]
    BY <1>6 DEF rcvUgsAvailability
  <2> HIDE DEF e
  <2>0. "UGS" \in User BY DEF Avl
  <2>2. Stamp(m.service, RealOf(ie), "UGS") \in [TableCell -> User \cup {Unset}]
    BY <1>1, <2>0, StampTyped DEF Mgr
  <2>3. m.neigh_tx_unavl \in [Nbr[n] -> Bitmap] BY <1>1 DEF Mgr
  <2>4. [m.neigh_tx_unavl EXCEPT ![x]["UGS"] = @ \cup RealOf(ie)] \in [Nbr[n] -> Bitmap]
    BY <1>2, <2>3 DEF Bitmap, Plane
  <2>5. e \in Mgr(n, frame) BY <1>1, <2>1, <2>2, <2>4 DEF Mgr
  <2>6. ASSUME OnlyUgs PROVE Columns(e)
    <3>1. Columns(m) BY <2>6 DEF Sane
    <3>2. /\ e.busy = m.busy /\ e.grants = m.grants /\ e.dst = m.dst
          /\ e.service = Stamp(m.service, RealOf(ie), "UGS")
      BY <1>1, <2>1 DEF Mgr
    <3>3. m.busy["UGS"] \subseteq TableCell /\ DOMAIN m.service = TableCell
      BY <1>1 DEF Mgr, Bitmap, Plane
    <3>4. \A c \in TableCell : m.service[c] = "UGS" => e.service[c] = "UGS"
      BY <3>2, <3>3 DEF Stamp
    <3> HIDE DEF e
    <3> QED BY <3>1, <3>2, <3>3, <3>4 DEF Columns
  <2>9. e \in Sane(n, frame) BY <1>1, <2>1, <2>5, <2>6, StaysSane DEF Mgr
  <2> QED BY <2>9 DEF e
<1> QED BY <1>1, <1>4, <1>5, <1>6 DEF Way

LEMMA AvailabilitySane ==
  ASSUME NEW n \in Node, NEW x \in Nbr[n], frame \in Nat, NEW ie \in Avl,
         NEW a \in [m : Sane(n, frame), left : Nat]
  PROVE  rcvAvailability(n, x, a, ie) \in [m : Sane(n, frame), left : Nat]
<1> DEFINE m == a.m
           all == AllOf(ie)
           kept == IF ie.serv = "NRTPS" THEN Min({ie.range, a.left}) ELSE 0
           floor == RealOf([ie EXCEPT !.range = kept])
           unused == [m EXCEPT !.grants = @ \ all, !.dst = Stamp(@, all, None),
                               !.src = Stamp(@, all, None)]
           r == rcvAvailability(n, x, a, ie)
<1>1. m \in Sane(n, frame) /\ m \in Mgr(n, frame) /\ ie.dir \in Way /\ ie.serv \in User
  BY DEF Sane, Avl
<1>0. OnlyUgs => Whole(all)
  <2>1. OnlyUgs => ie.pers = Horizon BY UsedServices DEF Avl
  <2>2. ie.frame \in Nat /\ ie.start \in Nat /\ ie.range \in Nat BY DEF Avl
  <2>3. ASSUME ie.pers = Horizon
        PROVE  all = (0 .. Horizon - 1) \X (ie.start .. ie.start + ie.range - 1)
    BY <2>2, <2>3, WholeBlock DEF AllOf
  <2> HIDE DEF all
  <2> QED BY <2>1, <2>3 DEF Whole
<1>2. all \in SUBSET TableCell /\ RealOf(ie) \in SUBSET TableCell BY AvlBlocks
<1>3. kept \in 0 .. ie.range /\ a.left - kept \in Nat
  <2>1. ie.range \in Int /\ a.left \in Int /\ ie.range >= 0 /\ a.left >= 0 BY DEF Avl
  <2>2. Min({ie.range, a.left}) \in {ie.range, a.left} /\ Min({ie.range, a.left}) <= ie.range
        /\ Min({ie.range, a.left}) <= a.left
    BY <2>1, MinOfTwo
  <2> QED BY <2>1, <2>2
<1>4. floor \in SUBSET TableCell
  <2> HIDE DEF kept
  <2>1. [ie EXCEPT !.range = kept] \in Avl BY <1>3, Constants DEF Avl
  <2> QED BY <2>1, AvlBlocks
<1>5. \A p : \A b \in Bitmap : Without(b, p, all) \in Bitmap BY WithoutTyped
<1>6. /\ Stamp(m.dst, all, None) \in [TableCell -> Nbr[n] \cup {None}]
      /\ Stamp(m.src, all, None) \in [TableCell -> Nbr[n] \cup {None}]
      /\ Stamp(m.service, all, ie.serv) \in [TableCell -> User \cup {Unset}]
  BY <1>1, StampTyped DEF Mgr
<1>10. m.busy["UGS"] \subseteq TableCell /\ DOMAIN m.dst = TableCell /\ (OnlyUgs => Columns(m))
  BY <1>1 DEF Mgr, Bitmap, Plane, Sane
<1>11. \A c \in TableCell : c[1] \in 0 .. Horizon - 1 /\ c = <<c[1], c[2]>>
  BY DEF TableCell
<1> HIDE DEF kept, floor, m, all
<1>7. CASE ie.dir = "RX_AVL"
  <2> DEFINE e == [unused EXCEPT !.self_rx_unavl = Without(@, {"plain", "UGS"}, all),
                                 !.neigh_tx_unavl[x] = Without(@, {"plain"}, all)]
  <2>1. r = [a EXCEPT !.m = e] BY <1>7 DEF rcvAvailability, m, all
  <2>2. e \in Mgr(n, frame) BY <1>1, <1>5, <1>6 DEF Mgr
  <2>5. ASSUME OnlyUgs PROVE Columns(e)
    <3>1. /\ e.busy = m.busy /\ e.grants = m.grants \ all /\ e.service = m.service
          /\ e.dst = Stamp(m.dst, all, None)
      BY <1>1 DEF Mgr
    <3> HIDE DEF e
    <3>2. \A c \in m.busy["UGS"] \ all : e.dst[c] = m.dst[c] BY <1>10, <3>1 DEF Stamp
    <3>3. \A c \in e.busy["UGS"] : e.service[c] = "UGS"
      BY <1>10, <1>11, <2>5, <3>1 DEF Columns
    <3>4. Whole(all) BY <1>0, <2>5
    <3>5. Columns(m) /\ m.busy["UGS"] \subseteq TableCell BY <1>10, <2>5
    <3>6. e.busy["UGS"] = m.busy["UGS"] BY <3>1
    <3> QED BY <3>1, <3>2, <3>3, <3>4, <3>5, <3>6, ColumnsCut
  <2>3. e \in Sane(n, frame) BY <1>1, <2>2, <2>5, StaysSane DEF Mgr
  <2> HIDE DEF e, r
  <2>4. r \in [m : Sane(n, frame), left : Nat] BY <2>1, <2>3
  <2> QED BY <2>4 DEF r
<1>8. CASE ie.dir = "TX_AVL"
  <2> DEFINE around == WithoutAround(m, n, x, {"plain"}, all)
             e == [unused EXCEPT !.self_tx_unavl = Without(@, {"plain", "UGS"}, all),
                                 !.busy = Without(@, {"plain", "UGS"}, all),
                                 !.unconfirmedSlots = With(@, {"plain", "UGS"}, all),
                                 !.service = Stamp(@, all, ie.serv),
                                 !.neigh_tx_unavl = around]
  <2>1. r = [a EXCEPT !.m = e] BY <1>8 DEF rcvAvailability, m, all
  <2>2. around \in [Nbr[n] -> Bitmap] BY <1>1, WithoutAroundTyped
  <2>3. \A b \in Bitmap : With(b, {"plain", "UGS"}, all) \in Bitmap BY <1>2, WithTyped
  <2> HIDE DEF around
  <2>4. e \in Mgr(n, frame) BY <1>1, <1>5, <1>6, <2>2, <2>3, ZenonT(40) DEF Mgr
  <2>7. ASSUME OnlyUgs PROVE Columns(e)
    <3>1. /\ e.busy = Without(m.busy, {"plain", "UGS"}, all) /\ e.grants = m.grants \ all
          /\ e.service = Stamp(m.service, all, ie.serv) /\ e.dst = Stamp(m.dst, all, None)
      BY <1>1 DEF Mgr
    <3> HIDE DEF e
    <3>2. DOMAIN m.service = TableCell /\ DOMAIN m.busy = Plane BY <1>1 DEF Mgr, Bitmap
    <3>3. \A c \in m.busy["UGS"] \ all : e.dst[c] = m.dst[c] BY <1>10, <3>1 DEF Stamp
    <3>4. e.busy["UGS"] = m.busy["UGS"] \ all BY <3>1, <3>2 DEF Without, Plane
    <3>5. \A c \in m.busy["UGS"] : m.service[c] = "UGS" BY <1>10, <1>11, <2>7 DEF Columns
    <3>6. \A c \in e.busy["UGS"] : e.service[c] = "UGS"
      BY <1>10, <3>1, <3>2, <3>4, <3>5 DEF Stamp
    <3>7. Whole(all) BY <1>0, <2>7
    <3>8. Columns(m) /\ m.busy["UGS"] \subseteq TableCell BY <1>10, <2>7
    <3> QED BY <3>1, <3>3, <3>4, <3>6, <3>7, <3>8, ColumnsCut
  <2>8. /\ e.activeList = m.activeList /\ e.startHorizon = m.startHorizon
        /\ e.nextFrame = m.nextFrame /\ e.unconfirmed = m.unconfirmed /\ e.neigh = m.neigh
    BY <1>1 DEF Mgr
  <2> HIDE DEF e
  <2>5. e \in Sane(n, frame) BY <1>1, <2>4, <2>7, <2>8, StaysSane
  <2> HIDE DEF e, r
  <2>6. r \in [m : Sane(n, frame), left : Nat] BY <2>1, <2>5
  <2> QED BY <2>6 DEF r
<1>9. CASE ie.dir = "UNAVAILABLE"
  <2> DEFINE map == m.neigh_tx_unavl[x]
             new == [plain |-> map["plain"] \cup RealOf(ie), UGS |-> map["UGS"] \cup RealOf(ie),
                     NRTPS |-> map["NRTPS"] \cup floor]
             e == [m EXCEPT !.neigh_tx_unavl[x] = new]
  <2>1. r = [a EXCEPT !.m = e, !.left = @ - kept]
    BY <1>9 DEF rcvAvailability, m, all, floor, kept
  <2>2. map \in Bitmap BY <1>1 DEF Mgr
  <2>3. new \in Bitmap BY <1>2, <1>4, <2>2 DEF Bitmap, Plane
  <2> HIDE DEF map, new
  <2>4. e \in Mgr(n, frame) BY <1>1, <2>3 DEF Mgr
  <2>5. e \in Sane(n, frame) BY <1>1, <2>4, StaysSane DEF Mgr, SameTables
  <2> HIDE DEF e, r
  <2>6. r \in [m : Sane(n, frame), left : Nat] BY <1>3, <2>1, <2>5
  <2> QED BY <2>6 DEF r
<1> QED BY <1>1, <1>7, <1>8, <1>9 DEF Way

LEMMA GntFields ==
  ASSUME frame \in Nat, NEW x, NEW ie \in Gnt(x, frame)
  PROVE  /\ ie.frame \in Nat /\ ie.pers \in Nat /\ ie.start \in Nat /\ ie.range \in Nat
         /\ ie.start + ie.range <= Slots /\ ie.serv \in Service /\ ie.serv \in Used /\ ie.fromRequester \in BOOLEAN
         /\ ie.pers = Pers(ie.serv) /\ ie.frame <= frame + Handshake + LookAhead
         /\ ie.node \in Nbr[x] /\ Bytes(ie) \in Int
         /\ AllOf(ie) \in SUBSET TableCell
         /\ \A map \in Bitmap : MarkAll(map, ie) \in Bitmap /\ MarkReal(map, ie) \in Bitmap
<1>1. /\ ie.frame \in Nat /\ ie.pers \in Nat /\ ie.start \in Nat /\ ie.range \in Nat
      /\ ie.start + ie.range <= Slots /\ ie.serv \in Service /\ ie.serv \in Used
      /\ ie.pers = Pers(ie.serv) /\ ie.frame <= frame + Handshake + LookAhead
      /\ ie.fromRequester \in BOOLEAN /\ ie.node \in Nbr[x]
  BY Constants, UsedServices DEF Gnt
<1>2. RealStart(frame, ie.frame) \in Nat /\ RealRange(frame, ie.frame, ie.pers) \in Nat
  BY <1>1, RealTyped
<1>3. \A map \in Bitmap : MarkAll(map, ie) \in Bitmap /\ MarkReal(map, ie) \in Bitmap
  BY <1>1, <1>2, MarkTyped DEF MarkAll, MarkReal
<1>4. Bytes(ie) \in Int
  <2>1. slots2bytes(ie.range) \in Int BY <1>1, Conversions
  <2> QED BY <1>1, <2>1 DEF Bytes
<1>5. AllOf(ie) \in SUBSET TableCell BY <1>1, BlockTyped DEF AllOf
<1> QED BY <1>1, <1>3, <1>4, <1>5

\* The counters of a flow change, except for the level it asked for.
LEMMA NeighTyped ==
  ASSUME NEW n, NEW neigh \in [Nbr[n] -> [Service -> Desc]], NEW x \in Nbr[n],
         NEW s \in Service, NEW c \in Desc
  PROVE  LET new == [neigh EXCEPT ![x][s] = c]
         IN /\ new \in [Nbr[n] -> [Service -> Desc]]
            /\ \A y \in Nbr[n] : \A t \in Service :
                  new[y][t] = IF y = x /\ t = s THEN c ELSE neigh[y][t]
OBVIOUS

LEMMA GrantToMeSane ==
  ASSUME NEW n \in Node, NEW x \in Nbr[n], frame \in Nat, NEW m \in Sane(n, frame),
         NEW ie \in Gnt(x, frame)
  PROVE  GrantToMe(x, m, ie) \in Sane(n, frame)
<1> DEFINE e == GrantToMe(x, m, ie)
           s == ie.serv
           c == m.neigh[x][s]
           new == [ie EXCEPT !.node = x, !.fromRequester = TRUE]
           out == Min({c.gnt_out + Bytes(ie), c.req_out})
           neigh == [m.neigh EXCEPT ![x][s] = [c EXCEPT !.gnt_out = out]]
           map == MarkAll(m.unconfirmedSlots, ie)
           list == Append(m.unconfirmed, new)
<1>1. m \in Mgr(n, frame) /\ Resumes(n, m, frame) /\ Waits(m) BY DEF Sane
<1>2. e = [m EXCEPT !.unconfirmed = list, !.unconfirmedSlots = map, !.neigh = neigh]
  BY <1>1 DEF GrantToMe, Mgr
<1>3. s \in Service /\ Bytes(ie) \in Int BY GntFields
<1>4. c \in Desc BY <1>1, <1>3 DEF Mgr
<1>5. [c EXCEPT !.gnt_out = out] \in Desc
  <2>1. c.gnt_out + Bytes(ie) \in Int /\ c.req_out \in Int BY <1>3, <1>4 DEF Desc
  <2>2. out \in Int BY <2>1, MinOfTwo
  <2> HIDE DEF out, c
  <2> QED BY <1>4, <2>2 DEF Desc
<1>6. /\ neigh \in [Nbr[n] -> [Service -> Desc]]
      /\ \A y \in Nbr[n] : \A t \in Service : neigh[y][t].level_in = m.neigh[y][t].level_in
  <2> DEFINE d == [c EXCEPT !.gnt_out = out]
  <2>1. d.level_in = c.level_in BY <1>4 DEF Desc
  <2>2. m.neigh \in [Nbr[n] -> [Service -> Desc]] BY <1>1 DEF Mgr
  <2> HIDE DEF d
  <2> QED BY <1>3, <1>5, <2>1, <2>2, NeighTyped DEF d
<1>7. map \in Bitmap BY <1>1, GntFields DEF Mgr
<1>8. new \in Gnt(n, frame) /\ new.fromRequester BY DEF Gnt
<1>9. /\ m.unconfirmed \in Seq(Gnt(n, frame)) /\ list \in Seq(Gnt(n, frame))
      /\ \A i \in DOMAIN list : list[i] = new \/ (i \in DOMAIN m.unconfirmed /\ list[i] = m.unconfirmed[i])
  BY <1>1, <1>8 DEF Mgr
<1> HIDE DEF e, neigh, map, list, new
<1>10. e \in Mgr(n, frame) BY <1>1, <1>2, <1>6, <1>7, <1>9 DEF Mgr
<1>11. Waits(e)
  <2>1. \A t \in Service : e.activeList[t] = m.activeList[t] BY <1>1, <1>2 DEF Mgr
  <2>2. \A y \in Nbr[n] : \A t \in Service : e.neigh[y][t].level_in = m.neigh[y][t].level_in
    BY <1>1, <1>2, <1>6 DEF Mgr
  <2>3. \A t \in Service : \A i \in DOMAIN m.activeList[t] : m.activeList[t][i] \in Nbr[n]
    BY <1>1 DEF Mgr
  <2>4. \A t \in Service : t \notin Used => m.activeList[t] = <<>> BY <1>1 DEF Waits
  <2> QED BY <1>1, <2>1, <2>2, <2>3, <2>4, SMTT(30) DEF Waits
<1>12. Resumes(n, e, frame) BY <1>1, <1>2 DEF Resumes, Mgr
<1>13. \A i \in DOMAIN e.unconfirmed : e.unconfirmed[i].fromRequester
  BY <1>1, <1>2, <1>8, <1>9 DEF Sane, Mgr
<1>14. SameTables(m, e) BY <1>1, <1>2 DEF Mgr, SameTables
<1>15. OnlyUgs => Columns(e) BY <1>14, SameColumns DEF Sane
<1>16. e \in Sane(n, frame) BY <1>10, <1>11, <1>12, <1>13, <1>15 DEF Sane
<1> QED BY <1>16 DEF e

LEMMA GrantToOtherSane ==
  ASSUME NEW n \in Node, NEW x \in Nbr[n], frame \in Nat, NEW m \in Sane(n, frame),
         NEW ie \in Gnt(x, frame)
  PROVE  GrantToOther(n, x, m, ie) \in Sane(n, frame)
<1> DEFINE e == GrantToOther(n, x, m, ie)
           avl == [frame |-> ie.frame, start |-> ie.start, range |-> ie.range,
                   dir |-> "UNAVAILABLE", pers |-> ie.pers, serv |-> ie.serv]
           around == [y \in Nbr[n] |-> IF y \in Around(n, x) THEN MarkAll(m.neigh_tx_unavl[y], ie)
                                       ELSE m.neigh_tx_unavl[y]]
           table == Stamp(m.service, AllOf(ie), ie.serv)
           lists == [m.availabilities EXCEPT ![1] = Append(@, avl)]
<1>1. m \in Mgr(n, frame) BY DEF Sane
<1>2. e = [m EXCEPT !.availabilities = lists, !.neigh_tx_unavl = around,
                    !.self_tx_unavl = MarkAll(@, ie), !.service = table]
  BY <1>1 DEF GrantToOther, Mgr
<1>3. avl \in Avl
  <2>1. ie.serv \in User /\ (ie.serv = "UGS" => ie.pers = Horizon) /\ ie.serv # "RTPS"
    BY GntFields, UsedServices DEF Pers, Service
  <2> QED BY <2>1, GntFields DEF Avl, Way
<1>4. m.availabilities[1] \in Seq(Avl) BY <1>1 DEF Mgr
<1>5. Append(m.availabilities[1], avl) \in Seq(Avl) BY <1>3, <1>4
<1>6. lists \in [{1, 2} -> Seq(Avl)] BY <1>1, <1>5 DEF Mgr
<1>7. around \in [Nbr[n] -> Bitmap] BY <1>1, GntFields DEF Mgr
<1>8. table \in [TableCell -> User \cup {Unset}] BY <1>1, GntFields, UsedServices, StampTyped DEF Mgr
<1>9. MarkAll(m.self_tx_unavl, ie) \in Bitmap BY <1>1, GntFields DEF Mgr
<1>12. DOMAIN m.service = TableCell /\ m.busy["UGS"] \subseteq TableCell
  BY <1>1 DEF Mgr, Bitmap, Plane
<1>13. OnlyUgs => \A c \in TableCell : m.service[c] = "UGS" => table[c] = "UGS"
  <2>1. OnlyUgs => ie.serv = "UGS" BY GntFields DEF OnlyUgs
  <2> QED BY <1>12, <2>1 DEF Stamp
<1> HIDE DEF e, avl, around, table, lists
<1>10. e \in Mgr(n, frame) BY <1>1, <1>2, <1>6, <1>7, <1>8, <1>9 DEF Mgr
<1>14. e.busy = m.busy /\ e.grants = m.grants /\ e.dst = m.dst /\ e.service = table
  BY <1>1, <1>2 DEF Mgr
<1>15. OnlyUgs => Columns(e) BY <1>12, <1>13, <1>14 DEF Sane, Columns
<1>11. e \in Sane(n, frame) BY <1>1, <1>2, <1>10, <1>15, StaysSane DEF Mgr
<1> QED BY <1>11 DEF e

LEMMA ConfirmationSane ==
  ASSUME NEW n \in Node, NEW x \in Nbr[n], frame \in Nat, NEW m \in Sane(n, frame),
         NEW ie \in Gnt(x, frame)
  PROVE  /\ ConfirmationOutOfReach(x, m, ie) \in Sane(n, frame)
         /\ ConfirmationToMe(x, m, ie) \in Sane(n, frame)
<1> DEFINE o == ConfirmationOutOfReach(x, m, ie)
           e == ConfirmationToMe(x, m, ie)
<1>1. m \in Mgr(n, frame) BY DEF Sane
<1>2. \A map \in Bitmap : MarkReal(map, ie) \in Bitmap BY GntFields
<1>3. o \in Mgr(n, frame) BY <1>1, <1>2 DEF ConfirmationOutOfReach, Mgr
<1>4. o \in Sane(n, frame) BY <1>1, <1>3, StaysSane DEF ConfirmationOutOfReach, Mgr, SameTables
<1> HIDE DEF o
<1> DEFINE s == ie.serv
           c == [o.neigh[x][s] EXCEPT !.cnf_in = @ + Bytes(ie)]
           neigh == [o.neigh EXCEPT ![x][s] = c]
<1>5. e = [o EXCEPT !.src = Stamp(@, AllOf(ie), x), !.neigh = neigh]
  BY <1>3 DEF ConfirmationToMe, o, Mgr
<1>6. s \in Service /\ Bytes(ie) \in Int BY GntFields
<1>7. Stamp(o.src, AllOf(ie), x) \in [TableCell -> Nbr[n] \cup {None}]
  BY <1>3, StampTyped DEF Mgr
<1>8. o.neigh \in [Nbr[n] -> [Service -> Desc]] /\ o.neigh[x][s] \in Desc BY <1>3, <1>6 DEF Mgr
<1>9. c \in Desc /\ c.level_in = o.neigh[x][s].level_in BY <1>6, <1>8 DEF Desc
<1> HIDE DEF c
<1>10. /\ neigh \in [Nbr[n] -> [Service -> Desc]]
       /\ \A y \in Nbr[n] : \A t \in Service : neigh[y][t].level_in = o.neigh[y][t].level_in
  BY <1>6, <1>8, <1>9, NeighTyped
<1> HIDE DEF e, neigh
<1>11. e \in Mgr(n, frame) BY <1>3, <1>5, <1>7, <1>10 DEF Mgr
<1>12. \A y \in Nbr[n] : \A t \in Service : e.neigh[y][t].level_in = o.neigh[y][t].level_in
  BY <1>3, <1>5, <1>10 DEF Mgr
<1>13. e \in Sane(n, frame)
  <2>1. /\ e.activeList = o.activeList /\ e.startHorizon = o.startHorizon
        /\ e.nextFrame = o.nextFrame /\ e.unconfirmed = o.unconfirmed /\ SameTables(o, e)
    BY <1>3, <1>5 DEF Mgr, SameTables
  <2> QED BY <1>4, <1>11, <1>12, <2>1, StaysSane
<1> QED BY <1>4, <1>13 DEF o, e

LEMMA GrantSane ==
  ASSUME NEW n \in Node, NEW x \in Nbr[n], frame \in Nat, NEW m \in Sane(n, frame),
         NEW ie \in Gnt(x, frame)
  PROVE  rcvGrant(n, x, m, ie) \in Sane(n, frame)
<1>1. ie.fromRequester \in BOOLEAN BY GntFields
<1>2. CASE ~ie.fromRequester /\ ie.node = n BY <1>2, GrantToMeSane DEF rcvGrant
<1>3. CASE ~ie.fromRequester /\ ie.node # n BY <1>3, GrantToOtherSane DEF rcvGrant
<1>4. n \notin Nbr[n] BY FairRRAssumption
<1>5. CASE ie.fromRequester /\ ie.node = n BY <1>5, ConfirmationSane DEF rcvGrant
<1>6. CASE ie.fromRequester /\ ie.node \notin Nbr[n] \cup {n}
  BY <1>6, ConfirmationSane DEF rcvGrant
<1>7. CASE ie.fromRequester /\ ie.node \in Nbr[n]
  <2>1. ie.node # n BY <1>4, <1>7
  <2> QED BY <1>7, <2>1 DEF rcvGrant
<1> QED BY <1>1, <1>2, <1>3, <1>5, <1>6, <1>7

LEMMA RequestSane ==
  ASSUME NEW n \in Node, NEW x \in Nbr[n], frame \in Nat, NEW m \in Sane(n, frame),
         NEW ie \in Req(x)
  PROVE  rcvRequest(n, x, m, ie) \in Sane(n, frame)
<1> DEFINE s == ie.serv
           c == m.neigh[x][s]
           req == c.req_in + ie.pers * slots2bytes(ie.level)
           new == [c EXCEPT !.level_in = ie.level, !.req_in = req]
           neigh == [m.neigh EXCEPT ![x][s] = new]
           e == [m EXCEPT !.neigh = neigh]
           list == Append(m.activeList[s], x)
           lists == [m.activeList EXCEPT ![s] = list]
           f == [e EXCEPT !.activeList = lists]
           r == rcvRequest(n, x, m, ie)
<1>1. m \in Mgr(n, frame) /\ Resumes(n, m, frame) /\ Waits(m) BY DEF Sane
<1>2. s \in Service /\ s \in Used /\ ie.level \in Nat \ {0} /\ ie.pers \in Nat
  BY Constants, UsedServices DEF Req
<1>3. c \in Desc BY <1>1, <1>2 DEF Mgr
<1>4. new \in Desc /\ new.level_in > 0
  <2>1. slots2bytes(ie.level) \in Int BY <1>2, Conversions
  <2>2. req \in Int BY <1>2, <1>3, <2>1 DEF Desc
  <2> DEFINE level == ie.level
  <2>3. level \in Nat /\ level > 0 BY <1>2
  <2> HIDE DEF req, c, level
  <2>4. [c EXCEPT !.level_in = level, !.req_in = req] \in Desc BY <1>3, <2>2, <2>3 DEF Desc
  <2>5. [c EXCEPT !.level_in = level, !.req_in = req].level_in = level BY <1>3 DEF Desc
  <2> QED BY <2>3, <2>4, <2>5 DEF level
<1>5. r = m \/ r = e \/ (~Waiting(m, x, s) /\ r = f)
  BY <1>1 DEF rcvRequest, Mgr
<1> HIDE DEF new, r
<1>6. /\ neigh \in [Nbr[n] -> [Service -> Desc]]
      /\ \A y \in Nbr[n] : \A t \in Service :
           neigh[y][t] = IF y = x /\ t = s THEN new ELSE m.neigh[y][t]
  BY <1>1, <1>2, <1>4, NeighTyped DEF Mgr
<1>7. \A y \in Nbr[n] : \A t \in Service :
        m.neigh[y][t].level_in > 0 => neigh[y][t].level_in > 0
  BY <1>4, <1>6
<1> HIDE DEF neigh
<1>8. e \in Mgr(n, frame) BY <1>1, <1>6 DEF Mgr
<1>9. Resumes(n, e, frame) /\ Resumes(n, f, frame) BY <1>1 DEF Resumes, Mgr
<1>10. \A i \in DOMAIN m.unconfirmed : m.unconfirmed[i].fromRequester BY DEF Sane
<1>11. \A t \in Service : \A i \in DOMAIN m.activeList[t] : m.activeList[t][i] \in Nbr[n]
  BY <1>1 DEF Mgr
<1>12. Waits(e)
  <2>1. e.activeList = m.activeList /\ e.neigh = neigh BY <1>1 DEF Mgr
  <2> HIDE DEF e
  <2> QED BY <1>1, <1>7, <1>11, <2>1 DEF Waits
<1>13. e \in Sane(n, frame)
  <2>1. e.unconfirmed = m.unconfirmed /\ SameTables(m, e) BY <1>1 DEF Mgr, SameTables
  <2> HIDE DEF e
  <2>2. OnlyUgs => Columns(e) BY <2>1, SameColumns DEF Sane
  <2> QED BY <1>8, <1>9, <1>10, <1>12, <2>1, <2>2 DEF Sane
<1>14. ASSUME ~Waiting(m, x, s) PROVE f \in Sane(n, frame)
  <2>0. m.activeList[s] \in Seq(Nbr[n]) BY <1>1, <1>2 DEF Mgr
  <2>1. m.activeList[s] \in Seq(Nbr[n]) /\ list \in Seq(Nbr[n])
    <3>1. \A S : \A q \in Seq(S), z \in S : Append(q, z) \in Seq(S) OBVIOUS
    <3> QED BY <2>0, <3>1
  <2>2. /\ DOMAIN m.activeList[s] = 1 .. Len(m.activeList[s])
        /\ DOMAIN list = 1 .. Len(m.activeList[s]) + 1
        /\ list[Len(m.activeList[s]) + 1] = x
        /\ \A i \in 1 .. Len(m.activeList[s]) : list[i] = m.activeList[s][i]
        /\ Len(m.activeList[s]) \in Nat
    BY <2>1
  <2>3. \A i \in DOMAIN m.activeList[s] : m.activeList[s][i] # x
    BY <1>14, <2>2 DEF Waiting, ToSet
  <2>4. IsInjective(m.activeList[s]) BY <1>1, <1>2 DEF Waits
  <2> HIDE DEF list
  <2>5. IsInjective(list)
    <3>1. ASSUME NEW i \in DOMAIN list, NEW j \in DOMAIN list, list[i] = list[j] PROVE i = j
      <4> DEFINE k == Len(m.activeList[s])
      <4>3. k \in Nat /\ \A h \in DOMAIN list : h \in 1 .. k + 1 BY <2>2
      <4> HIDE DEF k
      <4>1. \A h \in DOMAIN list : h = k + 1 \/ h \in 1 .. k BY <4>3
      <4> USE DEF k
      <4>2. CASE i \in 1 .. k /\ j \in 1 .. k BY <2>2, <2>4, <3>1, <4>2 DEF IsInjective
      <4> QED BY <2>2, <2>3, <3>1, <4>1, <4>2
    <3> QED BY <3>1 DEF IsInjective
  <2>6. lists \in [Service -> Seq(Nbr[n])] /\ lists[s] = list
        /\ \A t \in Service : t # s => lists[t] = m.activeList[t]
    BY <1>1, <1>2, <2>1 DEF Mgr
  <2> HIDE DEF lists
  <2>7. /\ f.activeList = lists /\ f.neigh = neigh /\ f.unconfirmed = m.unconfirmed
        /\ f \in Mgr(n, frame) /\ SameTables(m, f)
    BY <1>1, <1>6, <2>6 DEF Mgr, SameTables
  <2>8. neigh[x][s].level_in > 0 BY <1>2, <1>4, <1>6
  <2> HIDE DEF f, e
  <2>9. Waits(f)
    <3>1. \A i \in DOMAIN list : neigh[list[i]][s].level_in > 0
      <4>1. ASSUME NEW i \in DOMAIN list PROVE neigh[list[i]][s].level_in > 0
        <5>1. CASE i = Len(m.activeList[s]) + 1 BY <2>2, <2>8, <5>1
        <5>2. CASE i # Len(m.activeList[s]) + 1
          <6>1. i \in DOMAIN m.activeList[s] /\ list[i] = m.activeList[s][i] BY <2>2, <5>2
          <6> QED BY <1>1, <1>2, <1>7, <1>11, <6>1 DEF Waits
        <5> QED BY <5>1, <5>2
      <4> QED BY <4>1
    <3>2. \A t \in Service : t \notin Used => lists[t] = <<>> BY <1>1, <1>2, <2>6 DEF Waits
    <3> QED BY <1>1, <1>2, <1>7, <1>11, <2>5, <2>6, <2>7, <3>1, <3>2 DEF Waits
  <2>10. OnlyUgs => Columns(f) BY <2>7, SameColumns DEF Sane
  <2> QED BY <1>9, <1>10, <2>7, <2>9, <2>10 DEF Sane
<1> QED BY <1>5, <1>13, <1>14 DEF r

\* A neighbour that hears the availabilities, the grants or the requests of a
\* message stays sane.
LEMMA HearAvlSane ==
  ASSUME NEW n \in Node, NEW x \in Nbr[n], frame \in Nat,
         NEW start \in [m : Sane(n, frame), left : Nat], NEW list \in Seq(Avl)
  PROVE  rcvAllAvailabilities(n, x, start, list) \in [m : Sane(n, frame), left : Nat]
<1> DEFINE A == [m : Sane(n, frame), left : Nat]
<1>1. Len(list) \in Nat /\ \A k \in 1 .. Len(list) : list[k] \in Avl OBVIOUS
<1>2. PICK f : HearAvlRun(f, n, x, start, list) BY HearAvlSteps
<1>3. ASSUME NEW k \in 1 .. Len(list), NEW a \in A
      PROVE  rcvAnyAvailability(n, x, a, list[k]) \in A
  <2>1. list[k] \in Avl /\ a.m \in Sane(n, frame) BY <1>1
  <2>2. rcvAvailability(n, x, a, list[k]) \in A BY <2>1, AvailabilitySane
  <2>3. list[k].serv = "UGS" => [a EXCEPT !.m = rcvUgsAvailability(n, x, @, list[k])] \in A
    BY <2>1, UgsAvailabilitySane
  <2> QED BY <2>2, <2>3 DEF rcvAnyAvailability
<1> HIDE DEF A
<1>4. f[0] \in A BY <1>2 DEF A, HearAvlRun
<1>5. \A k \in 1 .. Len(list) : f[k] = rcvAnyAvailability(n, x, f[k - 1], list[k])
  BY <1>1, <1>2 DEF HearAvlRun
<1>6. \A k \in 1 .. Len(list) : f[k - 1] \in A => f[k] \in A BY <1>3, <1>5
<1>7. f[Len(list)] \in A BY <1>1, <1>4, <1>6, Requests!Stays
<1> QED BY <1>2, <1>7 DEF A, HearAvlRun

LEMMA HearGntSane ==
  ASSUME NEW n \in Node, NEW x \in Nbr[n], frame \in Nat,
         NEW start \in Sane(n, frame), NEW list \in Seq(Gnt(x, frame))
  PROVE  rcvGrants(n, x, start, list) \in Sane(n, frame)
<1>1. Len(list) \in Nat /\ \A k \in 1 .. Len(list) : list[k] \in Gnt(x, frame) OBVIOUS
<1>2. PICK f : HearGntRun(f, n, x, start, list) BY HearGntSteps
<1>3. \A k \in 1 .. Len(list) : \A e \in Sane(n, frame) :
        rcvGrant(n, x, e, list[k]) \in Sane(n, frame)
  BY <1>1, GrantSane
<1>4. \A k \in 1 .. Len(list) : f[k] = rcvGrant(n, x, f[k - 1], list[k])
  BY <1>1, <1>2 DEF HearGntRun
<1>5. \A k \in 1 .. Len(list) : f[k - 1] \in Sane(n, frame) => f[k] \in Sane(n, frame)
  BY <1>3, <1>4
<1>6. f[0] \in Sane(n, frame) BY <1>2 DEF HearGntRun
<1>7. f[Len(list)] \in Sane(n, frame) BY <1>1, <1>5, <1>6, Requests!Stays
<1> QED BY <1>2, <1>7 DEF HearGntRun

LEMMA HearReqSane ==
  ASSUME NEW n \in Node, NEW x \in Nbr[n], frame \in Nat,
         NEW start \in Sane(n, frame), NEW list \in Seq(Req(x))
  PROVE  rcvRequests(n, x, start, list) \in Sane(n, frame)
<1>1. Len(list) \in Nat /\ \A k \in 1 .. Len(list) : list[k] \in Req(x) OBVIOUS
<1>2. PICK f : HearReqRun(f, n, x, start, list) BY HearReqSteps
<1>3. \A k \in 1 .. Len(list) : \A e \in Sane(n, frame) :
        rcvRequest(n, x, e, list[k]) \in Sane(n, frame)
  BY <1>1, RequestSane
<1>4. \A k \in 1 .. Len(list) : f[k] = rcvRequest(n, x, f[k - 1], list[k])
  BY <1>1, <1>2 DEF HearReqRun
<1>5. \A k \in 1 .. Len(list) : f[k - 1] \in Sane(n, frame) => f[k] \in Sane(n, frame)
  BY <1>3, <1>4
<1>6. f[0] \in Sane(n, frame) BY <1>2 DEF HearReqRun
<1>7. f[Len(list)] \in Sane(n, frame) BY <1>1, <1>5, <1>6, Requests!Stays
<1> QED BY <1>2, <1>7 DEF HearReqRun

\* A neighbour that hears a message stays sane.
LEMMA RecvSane ==
  ASSUME NEW n \in Node, NEW x \in Nbr[n], frame \in Nat, mgr[n] \in Sane(n, frame), NEW d,
         d.avl \in Seq(Avl), d.gnt \in Seq(Gnt(x, frame)), d.req \in Seq(Req(x))
  PROVE  recvMshDsch(n, x, d) \in Sane(n, frame)
<1> DEFINE m1 == rcvAvailabilities(n, x, mgr[n], d.avl)
           m2 == rcvGrants(n, x, m1, d.gnt)
<1>1. [m |-> mgr[n], left |-> NrtpsMin] \in [m : Sane(n, frame), left : Nat] BY Constants
<1>2. m1 \in Sane(n, frame)
  <2>1. rcvAllAvailabilities(n, x, [m |-> mgr[n], left |-> NrtpsMin], d.avl)
          \in [m : Sane(n, frame), left : Nat]
    BY <1>1, HearAvlSane
  <2> QED BY <2>1 DEF rcvAvailabilities
<1> HIDE DEF m1
<1>3. m2 \in Sane(n, frame) BY <1>2, HearGntSane
<1> HIDE DEF m2
<1>4. rcvRequests(n, x, m2, d.req) \in Sane(n, frame) BY <1>3, HearReqSane
<1> QED BY <1>4 DEF recvMshDsch, m1, m2

-----------------------------------------------------------------------------
(* The message under construction. *)

\* The minislots n promises to a neighbour.
Promise(n) == {n} \X Nbr[n] \X Nat \X Minislot

\* The loops over the grants to a link end unless nrtPS, which gives back what
\* it took beyond its minimum, is used: a grant covers the look-ahead row.
Terminates == "NRTPS" \notin Used /\ LookAhead < Persist
Passes == IF Terminates THEN 0 .. MaxPasses ELSE Nat

\* With best effort alone, and frames granted that are less than a horizon away,
\* the tables hold what has been granted and confirmed, for frames to come.
OnlyBestEffort == Used \subseteq {"BE"} /\ Handshake + LookAhead + Persist <= Horizon
Ledger(m, given, made, now) ==
    /\ m.busy["plain"] = Rows(given \cup made)
    /\ m.grants = Rows(made)
    /\ \A c \in m.grants : \E t \in made : c \in Rows({t}) /\ m.dst[c] = t[2]
    /\ \A t \in given \cup made : t[3] \in now .. now + Horizon - 1
Kept(n, d) == Ledger(d.m, Of(n, offers) \cup d.offers, Of(n, confs) \cup d.confs, frame)

\* While it has no request a message is not larger than it may be.
Draft(n) == [m : Sane(n, frame), avl : Seq(Avl), gnt : Seq(Gnt(n, frame)), req : Seq(Req(n)),
             size : Nat, offers : SUBSET Promise(n), confs : SUBSET Promise(n), passes : Passes]
Msg(n) == {d \in Draft(n) : /\ d.req = <<>> => d.size <= Room
                            /\ OnlyBestEffort => Kept(n, d)}

\* The message after a step that requests nothing and serves no request.
After(n, d) == {e \in Msg(n) : e.req = d.req /\ e.m.activeList = d.m.activeList}

LEMMA SameLedger ==
  ASSUME NEW m, NEW e, SameTables(m, e), NEW given, NEW made, NEW now,
         Ledger(m, given, made, now)
  PROVE  Ledger(e, given, made, now)
BY DEF SameTables, Ledger

LEMMA SameKept ==
  ASSUME NEW n, NEW d \in Msg(n), NEW e, e.offers = d.offers, e.confs = d.confs,
         OnlyBestEffort => SameTables(d.m, e.m)
  PROVE  OnlyBestEffort => Kept(n, e)
BY SameLedger DEF Msg, Kept

\* More is granted.
LEMMA LedgerGive ==
  ASSUME NEW m, NEW e, NEW given, NEW made, NEW now, Ledger(m, given, made, now), NEW more,
         e.busy["plain"] = m.busy["plain"] \cup Rows(more),
         \A t \in more : t[3] \in now .. now + Horizon - 1,
         e.grants = m.grants, e.dst = m.dst
  PROVE  Ledger(e, given \cup more, made, now)
<1>1. \A A, B : Rows(A \cup B) = Rows(A) \cup Rows(B) BY DEF Rows
<1>2. e.busy["plain"] = Rows((given \cup more) \cup made) BY <1>1 DEF Ledger
<1>3. \A t \in (given \cup more) \cup made : t[3] \in now .. now + Horizon - 1 BY DEF Ledger
<1> QED BY <1>2, <1>3 DEF Ledger

\* More is confirmed to y.
Makes(m, e, more, y, now) ==
    /\ e.busy["plain"] = m.busy["plain"] \cup Rows(more)
    /\ e.grants = m.grants \cup Rows(more)
    /\ \A t \in more : t[2] = y /\ t[3] \in now .. now + Horizon - 1
    /\ \A c \in Rows(more) : e.dst[c] = y
    /\ \A c \in m.grants \ Rows(more) : e.dst[c] = m.dst[c]

LEMMA LedgerMake ==
  ASSUME NEW m, NEW e, NEW given, NEW made, NEW now, NEW more, NEW y,
         Ledger(m, given, made, now), Makes(m, e, more, y, now)
  PROVE  Ledger(e, given, made \cup more, now)
<1>1. \A A, B : Rows(A \cup B) = Rows(A) \cup Rows(B) BY DEF Rows
<1>2. e.busy["plain"] = Rows(given \cup (made \cup more)) BY <1>1 DEF Ledger, Makes
<1>3. \A t \in given \cup (made \cup more) : t[3] \in now .. now + Horizon - 1
  BY DEF Ledger, Makes
<1>4. e.grants = Rows(made \cup more) BY <1>1 DEF Ledger, Makes
<1>5. ASSUME NEW c \in e.grants
      PROVE  \E t \in made \cup more : c \in Rows({t}) /\ e.dst[c] = t[2]
  <2>1. CASE c \in Rows(more)
    <3>1. PICK t \in more : c = <<t[3] % Horizon, t[4]>> BY <2>1 DEF Rows
    <3>2. c \in Rows({t}) /\ e.dst[c] = t[2] BY <2>1, <3>1 DEF Rows, Makes
    <3> QED BY <3>2
  <2>2. CASE c \notin Rows(more)
    <3>1. c \in m.grants /\ e.dst[c] = m.dst[c] BY <2>2 DEF Makes
    <3>2. PICK t \in made : c \in Rows({t}) /\ m.dst[c] = t[2] BY <3>1 DEF Ledger
    <3> QED BY <3>1, <3>2
  <2> QED BY <2>1, <2>2
<1> QED BY <1>2, <1>3, <1>4, <1>5 DEF Ledger

\* The cells of a grant are the rows of what it promises.
LEMMA BlockRows ==
  ASSUME NEW n, NEW y, NEW f \in Nat, NEW fr \in 0 .. Horizon, NEW s \in Nat, NEW sr \in Nat
  PROVE  Block(f, fr, s, sr) = Rows(Promises(n, y, f, fr, s, sr))
<1> DEFINE P == Promises(n, y, f, fr, s, sr)
<1>1. Block(f, fr, s, sr) = {h % Horizon : h \in f .. f + fr - 1} \X (s .. s + sr - 1)
  BY BlockCells
<1>2. \A c \in Rows(P) : c \in {h % Horizon : h \in f .. f + fr - 1} \X (s .. s + sr - 1)
  BY DEF Rows, Promises
<1>3. ASSUME NEW c \in {h % Horizon : h \in f .. f + fr - 1} \X (s .. s + sr - 1)
      PROVE  c \in Rows(P)
  <2>1. PICK h \in f .. f + fr - 1, z \in s .. s + sr - 1 : c = <<h % Horizon, z>> BY <1>3
  <2>2. <<n, y, h, z>> \in P BY DEF Promises
  <2> QED BY <2>1, <2>2 DEF Rows
<1> QED BY <1>1, <1>2, <1>3

LEMMA AfterAfter ==
  ASSUME NEW n, NEW d, NEW e \in After(n, d)
  PROVE  e \in Msg(n) /\ After(n, e) \subseteq After(n, d)
BY DEF After

LEMMA NewMessage ==
  ASSUME NEW n, NEW m \in Sane(n, frame),
         OnlyBestEffort => Ledger(m, Of(n, offers), Of(n, confs), frame)
  PROVE  Message(m) \in Msg(n)
<1>1. 0 \in Passes BY Constants DEF Passes, MaxPasses
<1>2. Message(m) \in Draft(n) /\ Message(m).size <= Room BY <1>1, Constants DEF Message, Draft
<1>3. OnlyBestEffort => Kept(n, Message(m)) BY DEF Message, Kept
<1> QED BY <1>2, <1>3 DEF Msg

\* The sender changes, not its message.
LEMMA NewMgr ==
  ASSUME NEW n, NEW d \in Msg(n), NEW m \in Sane(n, frame), m.activeList = d.m.activeList,
         OnlyBestEffort => SameTables(d.m, m)
  PROVE  [d EXCEPT !.m = m] \in After(n, d) /\ [d EXCEPT !.m = m].m = m
<1> DEFINE e == [d EXCEPT !.m = m]
<1>1. /\ e \in Draft(n) /\ e.m = m /\ e.req = d.req /\ e.size = d.size
      /\ e.offers = d.offers /\ e.confs = d.confs
  BY DEF Msg, Draft
<1> HIDE DEF e
<1>2. OnlyBestEffort => Kept(n, e) BY <1>1, SameKept
<1>3. e \in Msg(n) BY <1>1, <1>2 DEF Msg
<1>4. e \in After(n, d) BY <1>1, <1>3 DEF After
<1> QED BY <1>1, <1>4 DEF e

\* remaining () is what is left of a message that is not full.
LEMMA RoomLeft ==
  ASSUME NEW n, NEW d \in Msg(n), d.req = <<>>
  PROVE  Remaining(d) = Room - d.size
<1>1. d.size \in Nat /\ d.size <= Room BY DEF Msg, Draft
<1>2. Room - d.size \in 0 .. UintMod - 1 BY <1>1, Constants
<1>3. \A x \in 0 .. UintMod - 1 : x % UintMod = x BY Constants
<1> HIDE DEF Uint
<1> QED BY <1>2, <1>3 DEF Remaining, Uint

LEMMA AddAvlKeeps ==
  ASSUME NEW n, NEW d \in Msg(n), NEW ie \in Avl, Remaining(d) >= AvlSize
  PROVE  AddAvl(d, ie) \in After(n, d) /\ AddAvl(d, ie).m = d.m
<1>1. <<ie>> \o d.avl \in Seq(Avl)
  <2>1. <<ie>> \in Seq(Avl) /\ d.avl \in Seq(Avl) BY DEF Msg, Draft
  <2> QED BY <2>1, ConcatProperties
<1>2. d.req = <<>> => d.size + 4 <= Room BY RoomLeft, Constants, SMTT(30) DEF AvlSize, Msg, Draft
<1> DEFINE list == <<ie>> \o d.avl
<1> HIDE DEF list
<1> DEFINE size == d.size + 4
<1>3. AddAvl(d, ie) = [d EXCEPT !.avl = list, !.size = size] BY DEF AddAvl, AvlSize, Msg, Draft, list
<1> DEFINE e == AddAvl(d, ie)
<1> HIDE DEF e
<1>4. /\ e.req = d.req /\ e.m = d.m /\ e.size = d.size + 4
      /\ e.offers = d.offers /\ e.confs = d.confs
  BY <1>3 DEF Msg, Draft, e
<1>5. size \in Nat BY DEF Msg, Draft
<1> HIDE DEF size
<1>6. e \in Draft(n)
  <2>1. list \in Seq(Avl) BY <1>1 DEF list
  <2>2. d \in Draft(n) BY DEF Msg
  <2> QED BY <1>3, <1>5, <2>1, <2>2 DEF Draft, e
<1>9. OnlyBestEffort => Kept(n, e) BY <1>4, SameKept DEF SameTables
<1>7. e \in Msg(n) BY <1>2, <1>4, <1>6, <1>9 DEF Msg
<1>8. e \in After(n, d) BY <1>4, <1>7 DEF After
<1> QED BY <1>4, <1>8 DEF e

LEMMA AddGntKeeps ==
  ASSUME NEW n, NEW d \in Msg(n), NEW ie \in Gnt(n, frame), Remaining(d) >= GntSize
  PROVE  AddGnt(d, ie) \in After(n, d) /\ AddGnt(d, ie).m = d.m
<1>1. <<ie>> \o d.gnt \in Seq(Gnt(n, frame))
  <2>1. <<ie>> \in Seq(Gnt(n, frame)) /\ d.gnt \in Seq(Gnt(n, frame)) BY DEF Msg, Draft
  <2> QED BY <2>1, ConcatProperties
<1>2. d.req = <<>> => d.size + 5 <= Room BY RoomLeft, Constants, SMTT(30) DEF GntSize, Msg, Draft
<1> DEFINE list == <<ie>> \o d.gnt
<1> HIDE DEF list
<1> DEFINE size == d.size + 5
<1>3. AddGnt(d, ie) = [d EXCEPT !.gnt = list, !.size = size] BY DEF AddGnt, GntSize, Msg, Draft, list
<1> DEFINE e == AddGnt(d, ie)
<1> HIDE DEF e
<1>4. /\ e.req = d.req /\ e.m = d.m /\ e.size = d.size + 5
      /\ e.offers = d.offers /\ e.confs = d.confs
  BY <1>3 DEF Msg, Draft, e
<1>5. size \in Nat BY DEF Msg, Draft
<1> HIDE DEF size
<1>6. e \in Draft(n)
  <2>1. list \in Seq(Gnt(n, frame)) BY <1>1 DEF list
  <2>2. d \in Draft(n) BY DEF Msg
  <2> QED BY <1>3, <1>5, <2>1, <2>2 DEF Draft, e
<1>9. OnlyBestEffort => Kept(n, e) BY <1>4, SameKept DEF SameTables
<1>7. e \in Msg(n) BY <1>2, <1>4, <1>6, <1>9 DEF Msg
<1>8. e \in After(n, d) BY <1>4, <1>7 DEF After
<1> QED BY <1>4, <1>8 DEF e

\* Grants and availabilities that wait for another message.
LEMMA WaitingSane ==
  ASSUME NEW n \in Node, NEW now, NEW m \in Sane(n, now), NEW q \in {1, 2},
         NEW grants \in Seq(Gnt(n, now)), NEW avl \in Seq(Avl)
  PROVE  /\ [m EXCEPT !.grantWaiting = grants] \in Sane(n, now)
         /\ SameTables(m, [m EXCEPT !.grantWaiting = grants])
         /\ [m EXCEPT !.availabilities[q] = avl] \in Sane(n, now)
         /\ SameTables(m, [m EXCEPT !.availabilities[q] = avl])
<1>1. m \in Mgr(n, now) BY DEF Sane
<1>2. [m EXCEPT !.grantWaiting = grants] \in Mgr(n, now) BY <1>1 DEF Mgr
<1>3. [m.availabilities EXCEPT ![q] = avl] \in [{1, 2} -> Seq(Avl)] BY <1>1 DEF Mgr
<1>4. [m EXCEPT !.availabilities[q] = avl] \in Mgr(n, now) BY <1>1, <1>3 DEF Mgr
<1> QED BY <1>1, <1>2, <1>4, StaysSane DEF Mgr, SameTables

\* The tables and the maps that say which minislots may be granted.
SameMaps(m, e) ==
    /\ SameTables(m, e) /\ e.unconfirmedSlots = m.unconfirmedSlots
    /\ e.self_rx_unavl = m.self_rx_unavl /\ e.neigh_tx_unavl = m.neigh_tx_unavl

\* What is added to a message, or waits for another, changes none of them.
LEMMA AddSame ==
  ASSUME NEW n \in Node, NEW d \in Msg(n), NEW ie
  PROVE  /\ \A room : LET e == AddOrWait(d, ie, room)
                      IN SameMaps(d.m, e.m) /\ e.offers = d.offers /\ e.confs = d.confs
         /\ \A q : SameMaps(d.m, AddBorrowed(d, ie, q).d.m)
<1>1. d.m \in Mgr(n, frame) BY DEF Msg, Draft, Sane
<1>2. ASSUME NEW room
      PROVE  LET e == AddOrWait(d, ie, room)
             IN SameMaps(d.m, e.m) /\ e.offers = d.offers /\ e.confs = d.confs
  BY <1>1 DEF AddOrWait, AddGnt, SameMaps, SameTables, Msg, Draft, Mgr
<1>3. ASSUME NEW q PROVE SameMaps(d.m, AddBorrowed(d, ie, q).d.m)
  BY <1>1 DEF AddBorrowed, AddAvl, SameMaps, SameTables, Msg, Draft, Mgr
<1> QED BY <1>2, <1>3

LEMMA AddOrWaitKeeps ==
  ASSUME NEW n \in Node, NEW d \in Msg(n), NEW ie \in Gnt(n, frame), NEW room
  PROVE  AddOrWait(d, ie, room) \in After(n, d)
<1>1. CASE Remaining(d) > GntSize /\ room
  <2>1. Remaining(d) >= GntSize
    <3>1. Remaining(d) \in Int BY UintNat, Constants DEF Remaining, Msg, Draft
    <3> QED BY <1>1, <3>1 DEF GntSize
  <2> QED BY <1>1, <2>1, AddGntKeeps DEF AddOrWait
<1>2. CASE ~(Remaining(d) > GntSize /\ room)
  <2> DEFINE list == Append(d.m.grantWaiting, ie)
             m == [d.m EXCEPT !.grantWaiting = list]
  <2>1. d.m \in Sane(n, frame) /\ d.m \in Mgr(n, frame) BY DEF Msg, Draft, Sane
  <2>2. d.m.grantWaiting \in Seq(Gnt(n, frame)) BY <2>1 DEF Mgr
  <2>3. list \in Seq(Gnt(n, frame)) BY <2>2, AppendProperties
  <2> HIDE DEF list
  <2>4. m \in Sane(n, frame) /\ m.activeList = d.m.activeList /\ SameTables(d.m, m)
    BY <2>1, <2>3, WaitingSane DEF Mgr
  <2>5. AddOrWait(d, ie, room) = [d EXCEPT !.m = m] BY <1>2, <2>1 DEF AddOrWait, list, Msg, Draft
  <2> HIDE DEF m
  <2> QED BY <2>4, <2>5, NewMgr
<1> QED BY <1>1, <1>2

LEMMA AddBorrowedKeeps ==
  ASSUME NEW n \in Node, NEW d \in Msg(n), NEW ie \in Avl, NEW q \in {1, 2}
  PROVE  AddBorrowed(d, ie, q).d \in After(n, d)
<1>1. CASE Remaining(d) > AvlSize + GntSize
  <2>1. Remaining(d) >= AvlSize
    <3>1. Remaining(d) \in Int BY UintNat, Constants DEF Remaining, Msg, Draft
    <3> QED BY <1>1, <3>1 DEF GntSize, AvlSize
  <2> QED BY <1>1, <2>1, AddAvlKeeps DEF AddBorrowed
<1>2. CASE ~(Remaining(d) > AvlSize + GntSize)
  <2> DEFINE list == Append(d.m.availabilities[q], ie)
             m == [d.m EXCEPT !.availabilities[q] = list]
  <2>1. d.m \in Sane(n, frame) /\ d.m \in Mgr(n, frame) BY DEF Msg, Draft, Sane
  <2>2. d.m.availabilities[q] \in Seq(Avl) BY <2>1 DEF Mgr
  <2>3. list \in Seq(Avl) BY <2>2, AppendProperties
  <2> HIDE DEF list
  <2>4. m \in Sane(n, frame) /\ m.activeList = d.m.activeList /\ SameTables(d.m, m)
    BY <2>1, <2>3, WaitingSane DEF Mgr
  <2>5. AddBorrowed(d, ie, q).d = [d EXCEPT !.m = m] BY <1>2, <2>1 DEF AddBorrowed, list, Msg, Draft
  <2> HIDE DEF m
  <2> QED BY <2>4, <2>5, NewMgr
<1> QED BY <1>1, <1>2

-----------------------------------------------------------------------------
(* Availabilities and grants left over from earlier messages. *)

LEMMA SendAvailabilityKeeps ==
  ASSUME NEW n \in Node, NEW q \in {1, 2}, NEW d \in Msg(n)
  PROVE  SendAvailability(d, q) \in After(n, d)
<1> DEFINE list == d.m.availabilities[q]
           m == [d.m EXCEPT !.availabilities[q] = Tail(list)]
           rest == [d EXCEPT !.m = m]
<1>0. d \in After(n, d) BY DEF After
<1>1. d.m \in Sane(n, frame) /\ d.m \in Mgr(n, frame) BY DEF Msg, Draft, Sane
<1>2. list \in Seq(Avl) BY <1>1 DEF Mgr
<1>3. ASSUME list # <<>>, Fits(d, AvlSize) PROVE SendAvailability(d, q) \in After(n, d)
  <2>1. Head(list) \in Avl /\ Tail(list) \in Seq(Avl) BY <1>2, <1>3, HeadTailProperties
  <2>2. m \in Sane(n, frame) /\ m.activeList = d.m.activeList /\ SameTables(d.m, m)
    <3> DEFINE tail == Tail(list)
    <3> HIDE DEF tail
    <3>1. [d.m EXCEPT !.availabilities[q] = tail] \in Sane(n, frame)
          /\ SameTables(d.m, [d.m EXCEPT !.availabilities[q] = tail])
      BY <1>1, <2>1, EmptySeq, WaitingSane DEF tail
    <3>2. [d.m EXCEPT !.availabilities[q] = tail].activeList = d.m.activeList BY <1>1 DEF Mgr
    <3> QED BY <3>1, <3>2 DEF tail
  <2>3. [d EXCEPT !.m.availabilities[q] = Tail(@)] = rest BY <1>1 DEF Msg, Draft
  <2> HIDE DEF m
  <2>4. rest \in After(n, d) BY <2>2, NewMgr
  <2>5. rest.size = d.size BY DEF Msg, Draft
  <2>6. SendAvailability(d, q) = IF frame <= Head(list).frame + Head(list).pers
                                 THEN AddAvl(rest, Head(list)) ELSE rest
    BY <1>3, <2>3 DEF SendAvailability
  <2> HIDE DEF rest
  <2>7. Remaining(rest) >= AvlSize BY <1>3, <2>5 DEF Fits, Remaining
  <2>8. AddAvl(rest, Head(list)) \in After(n, d) BY <2>1, <2>4, <2>7, AddAvlKeeps, AfterAfter
  <2> QED BY <2>4, <2>6, <2>8
<1>4. ASSUME ~(list # <<>> /\ Fits(d, AvlSize)) PROVE SendAvailability(d, q) = d
  BY <1>4 DEF SendAvailability
<1> QED BY <1>0, <1>3, <1>4

LEMMA SendWaitingKeeps ==
  ASSUME NEW n \in Node, NEW d \in Msg(n)
  PROVE  SendWaiting(d) \in After(n, d)
<1> DEFINE list == d.m.grantWaiting
           m == [d.m EXCEPT !.grantWaiting = Tail(list)]
           rest == [d EXCEPT !.m = m]
<1>0. d \in After(n, d) BY DEF After
<1>1. d.m \in Sane(n, frame) /\ d.m \in Mgr(n, frame) BY DEF Msg, Draft, Sane
<1>2. list \in Seq(Gnt(n, frame)) BY <1>1 DEF Mgr
<1>3. ASSUME list # <<>>, Fits(d, GntSize) PROVE SendWaiting(d) \in After(n, d)
  <2>1. Head(list) \in Gnt(n, frame) /\ Tail(list) \in Seq(Gnt(n, frame)) BY <1>2, <1>3, HeadTailProperties
  <2>2. m \in Sane(n, frame) /\ m.activeList = d.m.activeList /\ SameTables(d.m, m)
    <3> DEFINE tail == Tail(list)
    <3> HIDE DEF tail
    <3>1. [d.m EXCEPT !.grantWaiting = tail] \in Sane(n, frame)
          /\ SameTables(d.m, [d.m EXCEPT !.grantWaiting = tail])
      BY <1>1, <2>1, EmptySeq, WaitingSane DEF tail
    <3>2. [d.m EXCEPT !.grantWaiting = tail].activeList = d.m.activeList BY <1>1 DEF Mgr
    <3> QED BY <3>1, <3>2 DEF tail
  <2>3. [d EXCEPT !.m.grantWaiting = Tail(@)] = rest BY <1>1 DEF Msg, Draft
  <2> HIDE DEF m
  <2>4. rest \in After(n, d) BY <2>2, NewMgr
  <2>5. rest.size = d.size BY DEF Msg, Draft
  <2>6. SendWaiting(d) = AddGnt(rest, Head(list)) BY <1>3, <2>3 DEF SendWaiting
  <2> HIDE DEF rest
  <2>7. Remaining(rest) >= GntSize BY <1>3, <2>5 DEF Fits, Remaining
  <2> QED BY <2>1, <2>4, <2>6, <2>7, AddGntKeeps, AfterAfter
<1>4. ASSUME ~(list # <<>> /\ Fits(d, GntSize)) PROVE SendWaiting(d) = d
  BY <1>4 DEF SendWaiting
<1> QED BY <1>0, <1>3, <1>4

LEMMA SendAvailabilitiesKeeps ==
  ASSUME NEW n \in Node, NEW q \in {1, 2}, NEW d \in Msg(n)
  PROVE  SendAvailabilities(d, q) \in After(n, d)
<1> DEFINE S == After(n, d)
           len == Len(d.m.availabilities[q])
<1>1. len \in Nat
  <2>1. d.m.availabilities[q] \in Seq(Avl) BY DEF Msg, Draft, Sane, Mgr
  <2> QED BY <2>1, LenProperties
<1>2. PICK f : SendAvlRun(f, d, q) BY SendAvlSteps
<1>3. d \in S BY DEF After
<1>4. \A e \in S : SendAvailability(e, q) \in S BY AfterAfter, SendAvailabilityKeeps
<1> HIDE DEF S, len
<1>5. \A k \in 1 .. len : f[k - 1] \in S => f[k] \in S
  BY <1>1, <1>2, <1>4 DEF SendAvlRun
<1>6. f[len] \in S BY <1>1, <1>2, <1>3, <1>5, Requests!Stays DEF SendAvlRun
<1> QED BY <1>2, <1>6 DEF S, len, SendAvlRun

LEMMA SendAllWaitingKeeps ==
  ASSUME NEW n \in Node, NEW d \in Msg(n)
  PROVE  SendAllWaiting(d) \in After(n, d)
<1> DEFINE S == After(n, d)
           len == Len(d.m.grantWaiting)
<1>1. len \in Nat
  <2>1. d.m.grantWaiting \in Seq(Gnt(n, frame)) BY DEF Msg, Draft, Sane, Mgr
  <2> QED BY <2>1, LenProperties
<1>2. PICK f : SendGntRun(f, d) BY SendGntSteps
<1>3. d \in S BY DEF After
<1>4. \A e \in S : SendWaiting(e) \in S BY AfterAfter, SendWaitingKeeps
<1> HIDE DEF S, len
<1>5. \A k \in 1 .. len : f[k - 1] \in S => f[k] \in S
  BY <1>1, <1>2, <1>4 DEF SendGntRun
<1>6. f[len] \in S BY <1>1, <1>2, <1>3, <1>5, Requests!Stays DEF SendGntRun
<1> QED BY <1>2, <1>6 DEF S, len, SendGntRun

LEMMA AvailabilitiesKeeps ==
  ASSUME NEW n \in Node, NEW d \in Msg(n)
  PROVE  Availabilities(d) \in After(n, d)
<1> DEFINE e == SendAvailabilities(d, 1)
           g == SendAvailabilities(e, 2)
<1>1. e \in After(n, d) BY SendAvailabilitiesKeeps
<1> HIDE DEF e
<1>2. g \in After(n, d) BY <1>1, SendAvailabilitiesKeeps, AfterAfter
<1> HIDE DEF g
<1>3. SendAllWaiting(g) \in After(n, d) BY <1>2, SendAllWaitingKeeps, AfterAfter
<1> QED BY <1>3 DEF Availabilities, e, g

-----------------------------------------------------------------------------
(* confirm () *)

LEMMA PersTyped ==
  ASSUME NEW s \in Service PROVE Pers(s) \in Nat
BY Constants DEF Pers

LEMMA RunTyped ==
  ASSUME NEW free \in SUBSET Minislot, NEW len \in Nat
  PROVE  /\ FirstRun(free, len).start \in Nat /\ FirstRun(free, len).range \in Nat
         /\ FirstRun(free, len).start + FirstRun(free, len).range <= Slots
<1> DEFINE run == FirstRun(free, len)
<1>1. run.start \in Nat /\ run.range \in 0 .. len /\ run.start + run.range <= Slots
  BY FirstRunFree
<1> HIDE DEF run
<1>2. run.start \in Nat /\ run.range \in Nat /\ run.start + run.range <= Slots BY <1>1
<1> QED BY <1>2 DEF run

LEMMA FitTyped ==
  ASSUME NEW n, NEW g \in Gnt(n, frame), NEW f \in 0 .. frame + Handshake + LookAhead,
         NEW s \in Nat, NEW sr \in Nat, NEW p \in Nat, p = Pers(g.serv), s + sr <= Slots
  PROVE  /\ [g EXCEPT !.frame = f, !.start = s, !.range = sr, !.pers = p] \in Gnt(n, frame)
         /\ [g EXCEPT !.range = 0] \in Gnt(n, frame)
<1> DEFINE fit == [g EXCEPT !.frame = f, !.start = s, !.range = sr, !.pers = p]
           none == [g EXCEPT !.range = 0]
<1>1. fit.start = s /\ fit.range = sr /\ fit.pers = p /\ fit.serv = g.serv BY DEF Gnt
<1>2. fit \in Gnt(n, frame) BY <1>1 DEF Gnt
<1>3. g.start \in Nat /\ g.range \in Nat /\ g.start + g.range <= Slots BY DEF Gnt
<1>4. g.start + 0 <= Slots BY <1>3, Constants
<1>5. none.start = g.start /\ none.range = 0 /\ none.pers = g.pers /\ none.serv = g.serv
  BY DEF Gnt
<1>6. none \in Gnt(n, frame) BY <1>4, <1>5 DEF Gnt
<1> QED BY <1>2, <1>6

LEMMA ConfFitKeeps ==
  ASSUME NEW n \in Node, NEW d \in Msg(n), NEW f \in 0 .. frame + Handshake + LookAhead,
         NEW g \in Gnt(n, frame), frame \in Nat
  PROVE  /\ confFit(d, f, g).d \in After(n, d)
         /\ confFit(d, f, g).g \in Gnt(n, frame)
         /\ confFit(d, f, g).g.range # 0 => confFit(d, f, g).g.frame = f
<1> DEFINE row == f + LookAhead
           want == g.start .. g.start + g.range - 1
           taken == UNION {At(d.m.busy[p] \cup d.m.self_tx_unavl[p], row) : p \in {"plain", "UGS"}}
           nrtps == {s \in want : /\ d.m.service[<<row % Horizon, s>>] = "NRTPS"
                                  /\ s \notin At(d.m.busy["NRTPS"] \cup d.m.self_tx_unavl["NRTPS"], row)}
           left == IF g.serv = "NRTPS" THEN nrtps ELSE {}
           free == FirstRun(want \ taken, g.range)
           lent == FirstRun(left, g.range)
           fitF == [g EXCEPT !.frame = f, !.start = free.start, !.range = free.range,
                             !.pers = Pers(g.serv)]
           fitL == [g EXCEPT !.frame = f, !.start = lent.start, !.range = lent.range,
                             !.pers = Pers(g.serv)]
           avl == [frame |-> f, start |-> lent.start, range |-> lent.range,
                   dir |-> "RX_AVL", pers |-> Persist, serv |-> g.serv]
           borrowed == AddBorrowed(d, avl, 1)
           none == [g EXCEPT !.range = 0]
           c == confFit(d, f, g)
<1>1. g.start \in Nat /\ g.range \in Nat /\ g.start + g.range <= Slots /\ g.serv \in Service
      /\ g.serv \in Used /\ f \in Nat
  BY UsedServices, Constants DEF Gnt
<1>2. want \subseteq Minislot BY <1>1, Constants DEF Minislot
<1>3. want \ taken \in SUBSET Minislot /\ left \in SUBSET Minislot BY <1>2
<1>4. d \in After(n, d) BY DEF After
<1>5. Pers(g.serv) \in Nat BY <1>1, PersTyped
<1>6. c = CASE free.range > 0 -> [d |-> d, g |-> fitF, room |-> TRUE]
            [] free.range = 0 /\ lent.range > 0 -> [d |-> borrowed.d, g |-> fitL, room |-> borrowed.room]
            [] free.range = 0 /\ lent.range = 0 -> [d |-> d, g |-> none, room |-> TRUE]
  BY DEF confFit
<1>16. left = {} \/ g.serv = "NRTPS" OBVIOUS
<1> HIDE DEF c, want, taken, left
<1>17. lent.range > 0 => g.serv = "NRTPS" BY <1>16 DEF FirstRun
<1>7. free.start \in Nat /\ free.range \in Nat /\ free.start + free.range <= Slots
  BY <1>1, <1>3, RunTyped
<1>8. lent.start \in Nat /\ lent.range \in Nat /\ lent.start + lent.range <= Slots
  BY <1>1, <1>3, RunTyped
<1> HIDE DEF free, lent
<1>9. fitF \in Gnt(n, frame) /\ fitL \in Gnt(n, frame) /\ none \in Gnt(n, frame)
  BY <1>1, <1>5, <1>7, <1>8, FitTyped
<1>10. lent.range > 0 => avl \in Avl BY <1>1, <1>8, <1>17, UsedServices, Constants DEF Avl, Way
<1> HIDE DEF avl
<1>11. lent.range > 0 => borrowed.d \in After(n, d) BY <1>10, AddBorrowedKeeps
<1>18. fitF.frame = f /\ fitL.frame = f /\ none.range = 0 BY DEF Gnt
<1> HIDE DEF borrowed, fitF, fitL, none
<1> DEFINE Good == /\ c.d \in After(n, d) /\ c.g \in Gnt(n, frame)
                   /\ c.g.range # 0 => c.g.frame = f
<1>12. ASSUME free.range > 0 PROVE Good
  BY <1>4, <1>6, <1>7, <1>9, <1>12, <1>18
<1>13. ASSUME free.range = 0, lent.range > 0 PROVE Good
  BY <1>6, <1>8, <1>9, <1>11, <1>13, <1>18
<1>14. ASSUME free.range = 0, lent.range = 0 PROVE Good
  BY <1>4, <1>6, <1>9, <1>14, <1>18
<1>15. Good BY <1>7, <1>8, <1>12, <1>13, <1>14
<1> QED BY <1>15 DEF c

LEMMA PromisesTyped ==
  ASSUME NEW n, NEW y \in Nbr[n], NEW f \in Nat, NEW fr \in Nat, NEW s \in Nat, NEW sr \in Nat,
         s + sr <= Slots
  PROVE  Promises(n, y, f, fr, s, sr) \in SUBSET Promise(n)
<1>1. s .. s + sr - 1 \subseteq Minislot BY Constants DEF Minislot
<1>2. f .. f + fr - 1 \subseteq Nat OBVIOUS
<1> QED BY <1>1, <1>2 DEF Promise, Promises

LEMMA BookKeeps ==
  ASSUME NEW n \in Node, frame \in Nat, NEW d \in Msg(n), NEW g \in Gnt(n, frame), NEW room,
         OnlyBestEffort => g.frame >= frame
  PROVE  Book(n, d, g, room) \in After(n, d)
<1> DEFINE block == Block(g.frame, g.pers, g.start, g.range)
           new == Promises(n, g.node, g.frame, g.pers, g.start, g.range)
           e == AddOrWait(d, g, room)
           busy == Mark(e.m.busy, g.serv, g.frame, g.pers, g.start, g.range)
           m == [e.m EXCEPT !.busy = busy, !.grants = @ \cup block,
                            !.dst = Stamp(@, block, g.node), !.src = Stamp(@, block, None),
                            !.service = Stamp(@, block, g.serv)]
           confirmed == e.confs \cup new
           b == Book(n, d, g, room)
<1>1. /\ g.frame \in Nat /\ g.pers \in Nat /\ g.start \in Nat /\ g.range \in Nat
      /\ g.start + g.range <= Slots /\ g.serv \in Service /\ g.node \in Nbr[n]
      /\ g.serv \in Used /\ g.pers = Pers(g.serv) /\ g.frame <= frame + Handshake + LookAhead
  BY GntFields
<1>2. block \in SUBSET TableCell BY <1>1, BlockTyped
<1>3. new \in SUBSET Promise(n) BY <1>1, PromisesTyped
<1>4. e \in After(n, d) /\ e \in Msg(n) BY AddOrWaitKeeps, AfterAfter
<1>5. b = [e EXCEPT !.m = m, !.confs = confirmed] BY <1>4, ZenonT(40) DEF Book, Msg, Draft
<1>16. OnlyUgs => g.serv = "UGS" /\ Whole(block)
  <2>1. OnlyUgs => g.serv = "UGS" /\ g.pers = Horizon BY <1>1 DEF OnlyUgs, Pers
  <2>2. Block(g.frame, Horizon, g.start, g.range)
          = (0 .. Horizon - 1) \X (g.start .. g.start + g.range - 1)
    BY <1>1, WholeBlock
  <2>3. Whole(Block(g.frame, Horizon, g.start, g.range)) BY <2>2 DEF Whole
  <2> QED BY <2>1, <2>3
<1>17. OnlyBestEffort => /\ g.serv = "BE" /\ block = Rows(new)
                         /\ \A t \in new : t[2] = g.node /\ t[3] \in frame .. frame + Horizon - 1
  <2> SUFFICES ASSUME OnlyBestEffort
               PROVE  /\ g.serv = "BE" /\ block = Rows(new)
                      /\ \A t \in new : t[2] = g.node /\ t[3] \in frame .. frame + Horizon - 1
    OBVIOUS
  <2>1. g.serv = "BE" /\ g.pers = Persist BY <1>1 DEF OnlyBestEffort, Pers
  <2>2. Persist \in 0 .. Horizon /\ Horizon \in Nat BY FairRRAssumption, Constants
  <2>3. block = Rows(new) BY <1>1, <2>1, <2>2, BlockRows
  <2>4. g.frame + Persist <= frame + Horizon BY <1>1, <2>2, Constants DEF OnlyBestEffort
  <2>5. \A t \in new : t[2] = g.node /\ t[3] \in g.frame .. g.frame + Persist - 1
    BY <2>1 DEF Promises
  <2>6. \A h \in g.frame .. g.frame + Persist - 1 : h \in frame .. frame + Horizon - 1
    BY <1>1, <2>2, <2>4
  <2> QED BY <2>1, <2>3, <2>5, <2>6
<1> HIDE DEF e, block, new
<1>6. e.m \in Sane(n, frame) /\ e.m \in Mgr(n, frame) BY <1>4 DEF Msg, Draft, Sane
<1>7. busy \in Bitmap BY <1>1, <1>6, MarkTyped DEF Mgr
<1>8. /\ Stamp(e.m.dst, block, g.node) \in [TableCell -> Nbr[n] \cup {None}]
      /\ Stamp(e.m.src, block, None) \in [TableCell -> Nbr[n] \cup {None}]
      /\ Stamp(e.m.service, block, g.serv) \in [TableCell -> User \cup {Unset}]
  BY <1>1, <1>6, UsedServices, StampTyped DEF Mgr
<1>18. /\ g.serv = "UGS" => busy["UGS"] = e.m.busy["UGS"] \cup block
       /\ g.serv = "BE" => busy["plain"] = e.m.busy["plain"] \cup block
  BY <1>6, MarkPlanes DEF Mgr, block
<1> HIDE DEF busy
<1>9. m \in Mgr(n, frame) BY <1>2, <1>6, <1>7, <1>8 DEF Mgr
<1>19. /\ m.busy = busy /\ m.grants = e.m.grants \cup block
       /\ m.dst = Stamp(e.m.dst, block, g.node) /\ m.service = Stamp(e.m.service, block, g.serv)
       /\ m.activeList = e.m.activeList /\ m.startHorizon = e.m.startHorizon
       /\ m.nextFrame = e.m.nextFrame /\ m.unconfirmed = e.m.unconfirmed /\ m.neigh = e.m.neigh
  BY <1>6 DEF Mgr
<1>20. /\ DOMAIN e.m.dst = TableCell /\ DOMAIN e.m.service = TableCell
       /\ e.m.busy["UGS"] \subseteq TableCell /\ e.m.grants \subseteq TableCell
  BY <1>6 DEF Mgr, Bitmap, Plane
<1> HIDE DEF m
<1>21. /\ \A c \in block : m.dst[c] = g.node /\ m.service[c] = g.serv
       /\ \A c \in TableCell \ block : m.dst[c] = e.m.dst[c] /\ m.service[c] = e.m.service[c]
  BY <1>2, <1>19, <1>20 DEF Stamp
<1>22. ASSUME OnlyUgs PROVE Columns(m)
  <2>1. Columns(e.m) BY <1>6, <1>22 DEF Sane
  <2> QED BY <1>2, <1>16, <1>18, <1>19, <1>20, <1>21, <1>22, <2>1, ColumnsAdd
<1>10. m \in Sane(n, frame) /\ m.activeList = e.m.activeList
  BY <1>6, <1>9, <1>19, <1>22, StaysSane
<1>11. confirmed \in SUBSET Promise(n) BY <1>3, <1>4 DEF Msg, Draft
<1> HIDE DEF b, confirmed
<1>12. b \in Draft(n) BY <1>4, <1>5, <1>10, <1>11 DEF Msg, Draft
<1>13. /\ b.req = e.req /\ b.size = e.size /\ b.m = m
       /\ b.offers = e.offers /\ b.confs = confirmed
  BY <1>4, <1>5 DEF Msg, Draft
<1>23. ASSUME OnlyBestEffort PROVE Kept(n, b)
  <2> DEFINE given == Of(n, offers) \cup e.offers
             made == Of(n, confs) \cup e.confs
  <2>1. Ledger(e.m, given, made, frame) BY <1>4, <1>23 DEF Msg, Kept
  <2> HIDE DEF given, made
  <2>2. Ledger(m, given, made \cup new, frame)
    <3>1. block \subseteq TableCell /\ e.m.grants \subseteq TableCell BY <1>2, <1>20
    <3> DEFINE f == e.m
               y == g.node
    <3>2. block = Rows(new) BY <1>17, <1>23
    <3>3. m.busy["plain"] = e.m.busy["plain"] \cup block BY <1>17, <1>18, <1>19, <1>23
    <3>4. /\ \A c \in block : m.dst[c] = g.node
          /\ \A c \in e.m.grants \ block : m.dst[c] = e.m.dst[c]
      BY <1>21, <3>1
    <3>5. Makes(e.m, m, new, g.node, frame) BY <1>17, <1>19, <1>23, <3>2, <3>3, <3>4 DEF Makes
    <3> QED BY <2>1, <3>5, LedgerMake
  <2>3. made \cup new = Of(n, confs) \cup confirmed BY DEF made, confirmed
  <2> QED BY <1>13, <2>2, <2>3 DEF Kept, given
<1>14. b \in Msg(n) BY <1>4, <1>12, <1>13, <1>23 DEF Msg
<1>15. b \in After(n, d) BY <1>4, <1>10, <1>13, <1>14 DEF After
<1> QED BY <1>15 DEF b

\* The counters of a flow change, except for the level it asked for.
LEMMA NeighKeeps ==
  ASSUME NEW n \in Node, NEW d \in Msg(n), NEW y \in Nbr[n], NEW s \in Service, NEW c \in Desc,
         c.level_in = d.m.neigh[y][s].level_in
  PROVE  [d EXCEPT !.m.neigh[y][s] = c] \in After(n, d)
<1> DEFINE neigh == [d.m.neigh EXCEPT ![y][s] = c]
           m == [d.m EXCEPT !.neigh = neigh]
<1>1. d.m \in Sane(n, frame) /\ d.m \in Mgr(n, frame) BY DEF Msg, Draft, Sane
<1>2. d.m.neigh \in [Nbr[n] -> [Service -> Desc]] BY <1>1 DEF Mgr
<1>3. /\ neigh \in [Nbr[n] -> [Service -> Desc]]
      /\ \A x \in Nbr[n] : \A t \in Service : neigh[x][t].level_in = d.m.neigh[x][t].level_in
  BY <1>2, NeighTyped
<1>4. [d EXCEPT !.m.neigh[y][s] = c] = [d EXCEPT !.m = m] BY <1>1 DEF Msg, Draft, Mgr
<1> HIDE DEF neigh
<1>5. m \in Mgr(n, frame) BY <1>1, <1>3 DEF Mgr
<1>6. /\ m.activeList = d.m.activeList /\ m.startHorizon = d.m.startHorizon
      /\ m.nextFrame = d.m.nextFrame /\ m.unconfirmed = d.m.unconfirmed /\ m.neigh = neigh
      /\ SameTables(d.m, m)
  BY <1>1 DEF Mgr, SameTables
<1> HIDE DEF m
<1>7. m \in Sane(n, frame) BY <1>1, <1>3, <1>5, <1>6, StaysSane
<1> QED BY <1>4, <1>6, <1>7, NewMgr

LEMMA FrontSane ==
  ASSUME NEW n \in Node, NEW now, NEW m \in Sane(n, now), m.unconfirmed # <<>>
  PROVE  /\ [m EXCEPT !.unconfirmed = Front(@)] \in Sane(n, now)
         /\ SameTables(m, [m EXCEPT !.unconfirmed = Front(@)])
         /\ Last(m.unconfirmed) \in Gnt(n, now)
<1> DEFINE list == m.unconfirmed
           front == Front(list)
           e == [m EXCEPT !.unconfirmed = front]
<1>1. m \in Mgr(n, now) /\ Resumes(n, m, now) /\ Waits(m) BY DEF Sane
<1>2. list \in Seq(Gnt(n, now)) /\ list # <<>> BY <1>1 DEF Mgr
<1>3. Len(list) \in Nat \ {0} /\ \A i \in 1 .. Len(list) : list[i] \in Gnt(n, now)
  BY <1>2, EmptySeq, ElementOfSeq
<1>4. Last(list) \in Gnt(n, now) BY <1>3 DEF Last
<1>5. \A i \in 1 .. Len(list) : list[i].fromRequester
  <2>1. DOMAIN list = 1 .. Len(list) BY <1>2, LenProperties
  <2> QED BY <2>1 DEF Sane
<1>6. /\ front \in Seq(Gnt(n, now))
      /\ Len(front) = Len(list) - 1
      /\ \A i \in 1 .. Len(list) - 1 : front[i] = list[i]
  <2> DEFINE k == Len(list) - 1
  <2>1. k \in Int /\ \A i \in 1 .. k : list[i] \in Gnt(n, now) BY <1>3
  <2>2. front = SubSeq(list, 1, k) BY DEF Front
  <2>3. (IF 1 <= k THEN k - 1 + 1 ELSE 0) = k /\ k - 1 + 1 = k BY <1>3
  <2>4. \A i \in 1 .. k : 1 + i - 1 = i BY <2>1
  <2> HIDE DEF front, k, list
  <2>5. /\ SubSeq(list, 1, k) \in Seq(Gnt(n, now))
        /\ Len(SubSeq(list, 1, k)) = IF 1 <= k THEN k - 1 + 1 ELSE 0
        /\ \A i \in 1 .. k - 1 + 1 : SubSeq(list, 1, k)[i] = list[1 + i - 1]
    BY <2>1, SubSeqProperties
  <2> QED BY <2>2, <2>3, <2>4, <2>5 DEF k
<1>7. \A i \in DOMAIN front : front[i].fromRequester
  <2>1. DOMAIN front = 1 .. Len(list) - 1 BY <1>6, LenProperties
  <2> QED BY <1>3, <1>5, <1>6, <2>1
<1> HIDE DEF front, list
<1>8. e \in Mgr(n, now) BY <1>1, <1>6 DEF Mgr
<1>9. /\ e.activeList = m.activeList /\ e.startHorizon = m.startHorizon /\ e.neigh = m.neigh
      /\ e.nextFrame = m.nextFrame /\ e.unconfirmed = front /\ SameTables(m, e)
  BY <1>1 DEF Mgr, SameTables
<1> HIDE DEF e
<1>10. Resumes(n, e, now) /\ Waits(e) BY <1>1, <1>9 DEF Resumes, Waits
<1>13. OnlyUgs => Columns(e) BY <1>9, SameColumns DEF Sane
<1>11. e \in Sane(n, now) BY <1>7, <1>8, <1>9, <1>10, <1>13 DEF Sane
<1>12. e = [m EXCEPT !.unconfirmed = Front(@)] BY <1>1 DEF e, front, list, Mgr
<1> QED BY <1>4, <1>9, <1>11, <1>12 DEF list

LEMMA ChargeKeeps ==
  ASSUME NEW n \in Node, NEW d \in Msg(n), NEW y \in Nbr[n], NEW serv \in Service,
         NEW bytes \in Int
  PROVE  Charge(d, y, serv, bytes) \in After(n, d)
<1> DEFINE c == d.m.neigh[y][serv]
           out == Min({bytes, c.gnt_out})
           a == c.gnt_out - out
           b == Uint(c.req_out - out)
           new == [c EXCEPT !.gnt_out = a, !.req_out = b]
<1>1. c \in Desc
  <2>1. d.m.neigh \in [Nbr[n] -> [Service -> Desc]] BY DEF Msg, Draft, Sane, Mgr
  <2> QED BY <2>1
<1>2. Charge(d, y, serv, bytes) = [d EXCEPT !.m.neigh[y][serv] = new]
  <2>1. [c EXCEPT !.gnt_out = @ - out, !.req_out = Uint(@ - out)] = new BY <1>1 DEF Desc
  <2> QED BY <2>1 DEF Charge
<1> HIDE DEF c
<1>3. c.gnt_out \in Int /\ c.req_out \in Int BY <1>1 DEF Desc
<1>4. out \in Int BY <1>3, MinOfTwo
<1> HIDE DEF out
<1>5. a \in Int BY <1>3, <1>4
<1>6. b \in Int
  <2>1. c.req_out - out \in Int BY <1>3, <1>4
  <2>2. b \in Nat BY <2>1, UintNat
  <2> QED BY <2>2
<1> HIDE DEF a, b
<1>7. new \in Desc /\ new.level_in = c.level_in BY <1>1, <1>5, <1>6 DEF Desc
<1> HIDE DEF new
<1> QED BY <1>2, <1>7, NeighKeeps DEF c

LEMMA ConfirmGrantKeeps ==
  ASSUME NEW n \in Node, frame \in Nat, NEW serv \in Service, NEW d \in Msg(n), NEW g \in Gnt(n, frame)
  PROVE  ConfirmGrant(n, d, g, serv) \in After(n, d)
<1> DEFINE f == IF g.serv = "UGS" THEN g.frame ELSE RealStart(frame, g.frame)
           fit == confFit(d, f, g)
           booked == Book(n, fit.d, fit.g, fit.room)
<1>1. f \in 0 .. frame + Handshake + LookAhead /\ (OnlyBestEffort => f >= frame)
  <2>1. g.frame \in Nat /\ g.frame <= frame + Handshake + LookAhead /\ g.serv \in Used
    BY GntFields
  <2>2. OnlyBestEffort => g.serv # "UGS" BY <2>1 DEF OnlyBestEffort
  <2> QED BY <2>1, <2>2, Constants DEF RealStart
<1>2. ConfirmGrant(n, d, g, serv) =
        IF fit.g.range = 0 THEN Charge(fit.d, g.node, serv, 0)
        ELSE Charge(booked, g.node, serv, Bytes(fit.g))
  BY DEF ConfirmGrant
<1> HIDE DEF f
<1>3. /\ fit.d \in After(n, d) /\ fit.g \in Gnt(n, frame)
      /\ fit.g.range # 0 => fit.g.frame = f
  BY <1>1, ConfFitKeeps
<1> HIDE DEF fit
<1>4. fit.d \in Msg(n) /\ After(n, fit.d) \subseteq After(n, d) BY <1>3, AfterAfter
<1>5. fit.g.range # 0 => booked \in After(n, fit.d) BY <1>1, <1>3, <1>4, BookKeeps
<1> HIDE DEF booked
<1>6. fit.g.range # 0 => booked \in Msg(n) /\ After(n, booked) \subseteq After(n, fit.d)
  BY <1>5, AfterAfter
<1>7. g.node \in Nbr[n] BY DEF Gnt
<1>8. Bytes(fit.g) \in Int BY <1>3, GntFields
<1>9. Charge(fit.d, g.node, serv, 0) \in After(n, d) BY <1>4, <1>7, ChargeKeeps
<1>10. fit.g.range # 0 => Charge(booked, g.node, serv, Bytes(fit.g)) \in After(n, d)
  BY <1>4, <1>6, <1>7, <1>8, ChargeKeeps
<1> QED BY <1>2, <1>9, <1>10

LEMMA ConfirmLastKeeps ==
  ASSUME NEW n \in Node, frame \in Nat, NEW serv \in Service, NEW d \in Msg(n)
  PROVE  ConfirmLast(n, d, serv) \in After(n, d)
<1> DEFINE g == Last(d.m.unconfirmed)
           m == [d.m EXCEPT !.unconfirmed = Front(@)]
           rest == [d EXCEPT !.m = m]
<1>1. ASSUME d.m.unconfirmed = <<>> \/ ~Fits(d, GntSize)
      PROVE  ConfirmLast(n, d, serv) \in After(n, d)
  <2>1. ConfirmLast(n, d, serv) = d BY <1>1 DEF ConfirmLast
  <2> QED BY <2>1 DEF After
<1>2. ASSUME d.m.unconfirmed # <<>>, Fits(d, GntSize)
      PROVE  ConfirmLast(n, d, serv) \in After(n, d)
  <2>1. d.m \in Sane(n, frame) /\ d.m \in Mgr(n, frame) BY DEF Msg, Draft, Sane
  <2>2. m \in Sane(n, frame) /\ g \in Gnt(n, frame) /\ SameTables(d.m, m)
    BY <1>2, <2>1, FrontSane
  <2>3. m.activeList = d.m.activeList BY <2>1 DEF Mgr
  <2>4. [d EXCEPT !.m.unconfirmed = Front(@)] = rest BY <2>1 DEF Msg, Draft
  <2>5. ConfirmLast(n, d, serv) = ConfirmGrant(n, rest, g, serv)
    BY <1>2, <2>4 DEF ConfirmLast
  <2> HIDE DEF m, g
  <2>6. rest \in After(n, d) BY <2>2, <2>3, NewMgr
  <2> HIDE DEF rest
  <2> QED BY <2>2, <2>5, <2>6, AfterAfter, ConfirmGrantKeeps
<1> QED BY <1>1, <1>2

LEMMA ConfirmKeeps ==
  ASSUME NEW n \in Node, frame \in Nat, NEW serv \in Service, NEW d \in Msg(n)
  PROVE  confirm(n, d, serv) \in After(n, d)
<1> DEFINE S == After(n, d)
           len == Len(d.m.unconfirmed)
<1>1. len \in Nat
  <2>1. d.m.unconfirmed \in Seq(Gnt(n, frame)) BY DEF Msg, Draft, Sane, Mgr
  <2> QED BY <2>1, LenProperties
<1>2. PICK f : ConfirmsRun(f, n, d, serv) BY ConfirmSteps
<1>3. d \in S BY DEF After
<1>4. \A e \in S : ConfirmLast(n, e, serv) \in S BY AfterAfter, ConfirmLastKeeps
<1> HIDE DEF S, len
<1>5. \A k \in 1 .. len : f[k - 1] \in S => f[k] \in S
  BY <1>1, <1>2, <1>4 DEF ConfirmsRun
<1>6. f[len] \in S BY <1>1, <1>2, <1>3, <1>5, Requests!Stays DEF ConfirmsRun
<1> QED BY <1>2, <1>6 DEF S, len, ConfirmsRun

-----------------------------------------------------------------------------
(* requestGrant (): the grants *)

LEMMA ResetTyped ==
  ASSUME NEW c \in Desc PROVE ResetInput(c) \in Desc /\ ResetInput(c).level_in = c.level_in
<1> DEFINE gnt == Min({c.gnt_in, c.req_in})
           cnf == Min({c.cnf_in, gnt})
<1>1. c.gnt_in \in Int /\ c.req_in \in Int /\ c.cnf_in \in Int BY DEF Desc
<1>2. ResetInput(c) = IF c.req_in = cnf THEN [c EXCEPT !.req_in = 0, !.gnt_in = 0, !.cnf_in = 0]
                      ELSE [c EXCEPT !.gnt_in = gnt, !.cnf_in = cnf]
  BY DEF ResetInput
<1>3. gnt \in Int BY <1>1, MinOfTwo
<1> HIDE DEF gnt
<1>4. cnf \in Int BY <1>1, <1>3, MinOfTwo
<1> HIDE DEF cnf
<1>5. /\ [c EXCEPT !.req_in = 0, !.gnt_in = 0, !.cnf_in = 0] \in Desc
      /\ [c EXCEPT !.gnt_in = gnt, !.cnf_in = cnf] \in Desc
  <2>1. [c EXCEPT !.req_in = 0, !.gnt_in = 0, !.cnf_in = 0] \in Desc
    <3> DEFINE zero == 0
    <3>1. zero \in Int OBVIOUS
    <3> HIDE DEF zero
    <3>2. [c EXCEPT !.req_in = zero, !.gnt_in = zero, !.cnf_in = zero] \in Desc
      BY <3>1 DEF Desc
    <3> QED BY <3>2 DEF zero
  <2>2. [c EXCEPT !.gnt_in = gnt, !.cnf_in = cnf] \in Desc BY <1>3, <1>4 DEF Desc
  <2> QED BY <2>1, <2>2
<1>6. [c EXCEPT !.req_in = 0, !.gnt_in = 0, !.cnf_in = 0].level_in = c.level_in
      /\ [c EXCEPT !.gnt_in = gnt, !.cnf_in = cnf].level_in = c.level_in
  BY DEF Desc
<1> QED BY <1>2, <1>5, <1>6

\* A run of minislots.
Run == {r \in [start : Nat, range : Nat] : r.start + r.range <= Slots}
Cells(run) == run.start .. run.start + run.range - 1

LEMMA FirstRunTyped ==
  ASSUME NEW free \in SUBSET Minislot, NEW len \in Nat PROVE FirstRun(free, len) \in Run
<1> DEFINE run == FirstRun(free, len)
<1>1. run = [start |-> run.start, range |-> run.range]
  BY FirstRunFree
<1>2. run.start \in Nat /\ run.range \in Nat /\ run.start + run.range <= Slots BY RunTyped
<1> HIDE DEF run
<1>3. run \in Run BY <1>1, <1>2 DEF Run
<1> QED BY <1>3 DEF run

LEMMA ForgetSane ==
  ASSUME NEW n \in Node, NEW now, NEW m \in Sane(n, now), NEW y \in Nbr[n], NEW all, NEW planes,
         OnlyUgs => Whole(all) /\ planes = {"plain"} /\ \A c \in all : c \notin m.busy["UGS"]
  PROVE  Forget(m, y, all, planes) \in Sane(n, now)
         /\ Forget(m, y, all, planes).activeList = m.activeList
<1> DEFINE hear == [m.neigh_tx_unavl EXCEPT ![y] = Without(@, planes, all)]
           e == [m EXCEPT !.dst = Stamp(@, all, None), !.grants = @ \ all,
                          !.service = Stamp(@, all, Unset),
                          !.unconfirmedSlots = Without(@, planes, all),
                          !.busy = Without(@, planes, all),
                          !.self_rx_unavl = Without(@, planes, all),
                          !.neigh_tx_unavl = hear]
<1>1. m \in Mgr(n, now) BY DEF Sane
<1>2. \A b \in Bitmap : Without(b, planes, all) \in Bitmap BY WithoutTyped
<1>3. /\ Stamp(m.dst, all, None) \in [TableCell -> Nbr[n] \cup {None}]
      /\ Stamp(m.service, all, Unset) \in [TableCell -> User \cup {Unset}]
  BY <1>1, StampTyped DEF Mgr
<1>4. hear \in [Nbr[n] -> Bitmap] BY <1>1, <1>2 DEF Mgr
<1>5. Forget(m, y, all, planes) = e BY <1>1 DEF Forget, Mgr
<1> HIDE DEF hear
<1>6. e \in Mgr(n, now) BY <1>1, <1>2, <1>3, <1>4 DEF Mgr
<1>7. /\ e.activeList = m.activeList /\ e.startHorizon = m.startHorizon /\ e.neigh = m.neigh
      /\ e.nextFrame = m.nextFrame /\ e.unconfirmed = m.unconfirmed
  BY <1>1 DEF Mgr
<1>8. /\ e.grants = m.grants \ all /\ e.busy = Without(m.busy, planes, all)
      /\ e.service = Stamp(m.service, all, Unset) /\ e.dst = Stamp(m.dst, all, None)
  BY <1>1 DEF Mgr
<1> HIDE DEF e
<1>9. ASSUME OnlyUgs PROVE Columns(e)
  <2>1. Columns(m) /\ Whole(all) BY <1>9 DEF Sane
  <2>2. /\ m.busy["UGS"] \subseteq TableCell /\ DOMAIN m.service = TableCell
        /\ DOMAIN m.dst = TableCell /\ m.busy \in Bitmap
    BY <1>1 DEF Mgr, Bitmap, Plane
  <2>3. e.busy["UGS"] = m.busy["UGS"] BY <1>8, <1>9, <2>2 DEF Without, Plane
  <2>4. \A c \in m.busy["UGS"] : m.service[c] = "UGS"
    <3>1. \A c \in TableCell : c[1] \in 0 .. Horizon - 1 /\ c = <<c[1], c[2]>>
      BY DEF TableCell
    <3> QED BY <2>1, <2>2, <3>1 DEF Columns
  <2>5. \A c \in e.busy["UGS"] : e.service[c] = "UGS"
    BY <1>8, <1>9, <2>2, <2>3, <2>4 DEF Stamp
  <2>6. \A c \in m.busy["UGS"] \ all : e.dst[c] = m.dst[c] BY <1>8, <2>2 DEF Stamp
  <2> QED BY <1>8, <2>1, <2>2, <2>3, <2>5, <2>6, ColumnsCut
<1> QED BY <1>5, <1>6, <1>7, <1>9, StaysSane

LEMMA BorrowKeeps ==
  ASSUME NEW n \in Node, NEW d \in Msg(n), NEW y \in Nbr[n], NEW f \in Nat, NEW run \in Run,
         NEW serv \in Used, serv # "BE", NEW planes,
         OnlyUgs => /\ planes = {"plain"}
                    /\ \A F \in 0 .. Horizon - 1 : \A s \in Cells(run) : <<F, s>> \notin d.m.busy["UGS"]
  PROVE  /\ Borrow(d, y, f, run, serv, planes).d \in After(n, d)
         /\ Borrow(d, y, f, run, serv, planes).run = run
         /\ \E m : /\ SameMaps(d.m, m) /\ m \in Mgr(n, frame)
                   /\ Borrow(d, y, f, run, serv, planes).d.m
                        = Forget(m, y, Block(f, Horizon, run.start, run.range), planes)
<1> DEFINE all == Block(f, Horizon, run.start, run.range)
           avl == [frame |-> f, start |-> run.start, range |-> run.range,
                   dir |-> "TX_AVL", pers |-> Horizon,
                   serv |-> IF serv = "UGS" THEN "RTPS" ELSE serv]
           q == IF serv = "NRTPS" THEN 1 ELSE 2
           e == AddBorrowed(d, avl, q)
           m == Forget(e.d.m, y, all, planes)
<1>0. run.start \in Nat /\ run.range \in Nat /\ run.start + run.range <= Slots BY DEF Run
<1>1. avl \in Avl
  <2>1. (IF serv = "UGS" THEN "RTPS" ELSE serv) \in User BY DEF User
  <2>2. (IF serv = "UGS" THEN "RTPS" ELSE serv) \notin {"BE", "UGS"} OBVIOUS
  <2>3. Horizon \in Nat BY Constants
  <2> QED BY <1>0, <2>1, <2>2, <2>3 DEF Avl, Way
<1>2. q \in {1, 2} OBVIOUS
<1>3. Borrow(d, y, f, run, serv, planes) =
        Found([e.d EXCEPT !.m = Forget(@, y, all, planes)], run, e.room, planes = {"plain"})
  BY DEF Borrow
<1>10. all = (0 .. Horizon - 1) \X Cells(run) BY <1>0, WholeBlock DEF Cells
<1> HIDE DEF avl, q
<1>4. e.d \in After(n, d) /\ e.d \in Msg(n) /\ After(n, e.d) \subseteq After(n, d)
  BY <1>1, <1>2, AddBorrowedKeeps, AfterAfter
<1>8. SameMaps(d.m, e.d.m) BY AddSame
<1> HIDE DEF e, all
<1>9. e.d.m \in Sane(n, frame) /\ e.d.m \in Mgr(n, frame) BY <1>4 DEF Msg, Draft, Sane
<1>5. m \in Sane(n, frame) /\ m.activeList = e.d.m.activeList
  <2>1. Whole(all) BY <1>10 DEF Whole
  <2>2. OnlyUgs => planes = {"plain"} /\ \A c \in all : c \notin e.d.m.busy["UGS"]
    BY <1>8, <1>10 DEF SameMaps, SameTables
  <2> QED BY <1>9, <2>1, <2>2, ForgetSane
<1>6. [e.d EXCEPT !.m = Forget(@, y, all, planes)] = [e.d EXCEPT !.m = m]
  BY <1>4 DEF Msg, Draft
<1>11. m = Forget(e.d.m, y, all, planes) OBVIOUS
<1> HIDE DEF m
<1>12. ~OnlyBestEffort BY DEF OnlyBestEffort
<1>7. [e.d EXCEPT !.m = m] \in After(n, d) /\ [e.d EXCEPT !.m = m].m = m
  BY <1>4, <1>5, <1>12, NewMgr
<1>13. /\ Borrow(d, y, f, run, serv, planes).d = [e.d EXCEPT !.m = m]
       /\ Borrow(d, y, f, run, serv, planes).run = run
  BY <1>3, <1>6 DEF Found
<1> QED BY <1>7, <1>8, <1>9, <1>11, <1>13 DEF all

\* What may still be taken for a link in a row: the minislots that are free and,
\* by UGS, those of other services.
Free(m, y, row) == Minislot \ Unavailable(m, y, Plane, row)
Others(m, row) == {s \in Minislot : m.service[<<row % Horizon, s>>] # "UGS"}

\* A run is taken from these, and nothing else becomes free by it.
Takes(m, e, y, row, serv, run) ==
    \A s \in Minislot :
       /\ s \in Cells(run) => s \in Free(m, y, row) \/ (serv = "UGS" /\ s \in Others(m, row))
       /\ s \notin Cells(run) => /\ s \in Free(e, y, row) => s \in Free(m, y, row)
                                 /\ s \in Others(e, row) => s \in Others(m, row)

LEMMA FreeCells ==
  ASSUME NEW m, NEW y, NEW row, NEW s \in Minislot
  PROVE  s \in Free(m, y, row) <=>
           \A p \in Plane : <<row % Horizon, s>> \notin m.unconfirmedSlots[p] \cup m.busy[p]
                              \cup m.self_rx_unavl[p] \cup m.neigh_tx_unavl[y][p]
<1>1. \A p \in Plane : s \in At(m.unconfirmedSlots[p] \cup m.busy[p]
                                  \cup m.self_rx_unavl[p] \cup m.neigh_tx_unavl[y][p], row)
                       <=> <<row % Horizon, s>> \in m.unconfirmedSlots[p] \cup m.busy[p]
                              \cup m.self_rx_unavl[p] \cup m.neigh_tx_unavl[y][p]
  BY DEF At
<1>2. s \in Unavailable(m, y, Plane, row) <=>
         \E p \in Plane : s \in At(m.unconfirmedSlots[p] \cup m.busy[p]
                                     \cup m.self_rx_unavl[p] \cup m.neigh_tx_unavl[y][p], row)
  BY DEF Unavailable
<1> QED BY <1>1, <1>2 DEF Free

\* Nothing is forgotten of the other cells.
LEMMA ForgetElsewhere ==
  ASSUME NEW n \in Node, NEW m \in Mgr(n, frame), NEW y \in Nbr[n], NEW all, NEW planes,
         NEW row \in Nat, NEW s \in Minislot, <<row % Horizon, s>> \notin all
  PROVE  LET e == Forget(m, y, all, planes)
         IN /\ s \in Free(e, y, row) => s \in Free(m, y, row)
            /\ s \in Others(e, row) => s \in Others(m, row)
<1> DEFINE e == Forget(m, y, all, planes)
           c == <<row % Horizon, s>>
<1>1. c \in TableCell BY RowOfFrame DEF TableCell
<1>2. /\ e.service = Stamp(m.service, all, Unset)
      /\ e.unconfirmedSlots = Without(m.unconfirmedSlots, planes, all)
      /\ e.busy = Without(m.busy, planes, all)
      /\ e.self_rx_unavl = Without(m.self_rx_unavl, planes, all)
      /\ e.neigh_tx_unavl[y] = Without(m.neigh_tx_unavl[y], planes, all)
  BY DEF Forget, Mgr
<1> HIDE DEF e
<1>3. e.service[c] = m.service[c] BY <1>1, <1>2 DEF Stamp, Mgr
<1>4. \A b : \A p \in Plane : c \in b[p] => c \in Without(b, planes, all)[p] BY DEF Without
<1>5. s \in Free(e, y, row) => s \in Free(m, y, row) BY <1>2, <1>4, FreeCells
<1>6. s \in Others(e, row) => s \in Others(m, row) BY <1>3 DEF Others
<1> QED BY <1>5, <1>6 DEF e

LEMMA GrantFitKeeps ==
  ASSUME NEW n \in Node, NEW d \in Msg(n), NEW y \in Nbr[n], NEW len \in Nat, NEW f \in Nat,
         NEW serv \in Used
  PROVE  LET r == grantFit(d, y, len, f, serv)
         IN /\ r.d \in After(n, d) /\ r.run \in Run
            /\ serv # "NRTPS" => Takes(d.m, r.d.m, y, f + LookAhead, serv, r.run)
<1> DEFINE m == d.m
           row == f + LookAhead
           service(s) == m.service[<<row % Horizon, s>>]
           free == Minislot \ Unavailable(m, y, Plane, row)
           kept == Unavailable(m, y, {"NRTPS"}, row)
           weak == {s \in Minislot : \/ service(s) \in {Unset, "BE"}
                                     \/ service(s) = "NRTPS" /\ s \notin kept}
           ugs == {s \in Minislot : service(s) = "UGS"}
           nothing == FirstRun({}, 0)
           short == Min({len, NrtpsMin})
           r == grantFit(d, y, len, f, serv)
           Good == /\ r.d \in After(n, d) /\ r.run \in Run
                   /\ serv # "NRTPS" => Takes(d.m, r.d.m, y, row, serv, r.run)
<1>1. d \in After(n, d) BY DEF After
<1>2. short \in Nat
  <2>1. NrtpsMin \in Nat /\ NrtpsMin \in Int /\ len \in Int BY Constants
  <2>2. short \in {len, NrtpsMin} BY <2>1, MinOfTwo
  <2> QED BY <2>1, <2>2
<1>3. free \in SUBSET Minislot /\ weak \in SUBSET Minislot /\ ugs \in SUBSET Minislot OBVIOUS
<1>4. r = CASE free # {} -> Found(d, FirstRun(free, len), TRUE, TRUE)
            [] free = {} /\ serv # "BE" /\ weak # {} ->
                  Borrow(d, y, f, FirstRun(weak, len), serv, {"plain"})
            [] free = {} /\ serv = "NRTPS" /\ weak = {} /\ ugs # {} ->
                  Borrow(d, y, f, FirstRun(ugs, short), serv, {"UGS"})
            [] free = {} /\ serv = "NRTPS" /\ weak = {} /\ ugs = {} ->
                  Found(d, nothing, TRUE, FALSE)
            [] free = {} /\ (serv = "BE" \/ (serv = "UGS" /\ weak = {})) ->
                  Found(d, nothing, TRUE, TRUE)
  BY DEF grantFit
<1>12. serv \in Service BY UsedServices
<1>13. row \in Nat BY Constants
<1>14. free = Free(d.m, y, row) BY DEF Free
<1>15. weak \subseteq Others(d.m, row)
  <2>1. \A s \in weak : service(s) # "UGS" BY DEF Unset
  <2> HIDE DEF weak
  <2> QED BY <1>3, <2>1 DEF Others
<1>16. d.m \in Sane(n, frame) /\ d.m \in Mgr(n, frame) BY DEF Msg, Draft, Sane
<1> HIDE DEF free, weak, ugs, short, r
<1>17. OnlyUgs => \A F \in 0 .. Horizon - 1 : \A s \in weak : <<F, s>> \notin d.m.busy["UGS"]
  <2> SUFFICES ASSUME OnlyUgs, NEW F \in 0 .. Horizon - 1, NEW s \in weak,
                      <<F, s>> \in d.m.busy["UGS"]
               PROVE  FALSE
    BY Zenon
  <2>1. Columns(d.m) BY <1>16 DEF Sane
  <2>2. row % Horizon \in 0 .. Horizon - 1 BY <1>13, RowOfFrame
  <2>3. d.m.service[<<row % Horizon, s>>] = "UGS" BY <2>1, <2>2 DEF Columns
  <2>4. d.m.service[<<row % Horizon, s>>] # "UGS" BY <1>15 DEF Others
  <2> QED BY <2>3, <2>4
<1>5. FirstRun(free, len) \in Run /\ FirstRun(weak, len) \in Run /\ FirstRun(ugs, short) \in Run
      /\ nothing \in Run
  BY <1>2, <1>3, FirstRunTyped
<1>18. /\ Cells(FirstRun(free, len)) \subseteq free /\ Cells(FirstRun(weak, len)) \subseteq weak
       /\ Cells(nothing) = {}
  <2>1. Cells(nothing) = {} BY DEF Cells, FirstRun
  <2> QED BY <1>3, <2>1, FirstRunFree DEF Cells
<1> HIDE DEF nothing
<1>6. \A run, a, b : Found(d, run, a, b).d = d /\ Found(d, run, a, b).run = run BY DEF Found
<1>19. \A run : Cells(run) \subseteq free => Takes(d.m, d.m, y, row, serv, run)
  BY <1>14 DEF Takes
<1> HIDE DEF row
<1>8. ASSUME free # {} PROVE Good
  <2> DEFINE run == FirstRun(free, len)
  <2>1. r = Found(d, run, TRUE, TRUE) BY <1>4, <1>8
  <2>2. run \in Run /\ Cells(run) \subseteq free BY <1>5, <1>18
  <2> HIDE DEF run
  <2>3. r.d = d /\ r.run = run BY <1>6, <2>1
  <2>4. Takes(d.m, d.m, y, row, serv, run) BY <1>19, <2>2
  <2> QED BY <1>1, <2>2, <2>3, <2>4
<1>9. ASSUME free = {}, serv # "BE", weak # {} PROVE Good
  <2> DEFINE run == FirstRun(weak, len)
             all == Block(f, Horizon, run.start, run.range)
  <2>1. r = Borrow(d, y, f, run, serv, {"plain"}) BY <1>4, <1>9
  <2>0. run \in Run /\ Cells(run) \subseteq weak BY <1>5, <1>18
  <2> HIDE DEF run
  <2>2. OnlyUgs => \A F \in 0 .. Horizon - 1 : \A s \in Cells(run) : <<F, s>> \notin d.m.busy["UGS"]
    <3> SUFFICES ASSUME OnlyUgs, NEW F \in 0 .. Horizon - 1, NEW s \in Cells(run)
                 PROVE  <<F, s>> \notin d.m.busy["UGS"]
      BY Zenon
    <3>1. s \in weak BY <2>0
    <3> QED BY <1>17, <3>1
  <2>3. /\ r.d \in After(n, d) /\ r.run = run
        /\ \E e : /\ SameMaps(d.m, e) /\ e \in Mgr(n, frame)
                  /\ r.d.m = Forget(e, y, all, {"plain"})
    BY <1>9, <2>0, <2>1, <2>2, BorrowKeeps
  <2>4. PICK e : /\ SameMaps(d.m, e) /\ e \in Mgr(n, frame)
                 /\ r.d.m = Forget(e, y, all, {"plain"})
    BY <2>3
  <2>5. all = (0 .. Horizon - 1) \X Cells(run) BY <2>0, WholeBlock DEF Run, Cells
  <2> HIDE DEF all
  <2>6. Free(e, y, row) = Free(d.m, y, row) /\ Others(e, row) = Others(d.m, row)
    BY <2>4 DEF SameMaps, SameTables, Free, Unavailable, Others
  <2>7. ASSUME serv # "NRTPS" PROVE Takes(d.m, r.d.m, y, row, serv, run)
    <3>1. serv = "UGS" BY <1>9, <1>12, <2>7 DEF Service
    <3>2. \A s \in Cells(run) : s \in Others(d.m, row) BY <1>15, <2>0
    <3>3. ASSUME NEW s \in Minislot, s \notin Cells(run)
          PROVE  /\ s \in Free(r.d.m, y, row) => s \in Free(d.m, y, row)
                 /\ s \in Others(r.d.m, row) => s \in Others(d.m, row)
      <4>1. <<row % Horizon, s>> \notin all BY <2>5, <3>3
      <4> QED BY <1>13, <2>4, <2>6, <4>1, ForgetElsewhere
    <3> QED BY <3>1, <3>2, <3>3 DEF Takes
  <2> QED BY <2>0, <2>3, <2>7
<1>10. ASSUME free = {}, serv = "NRTPS", weak = {} PROVE Good
  <2>1. CASE ugs = {}
    <3>1. r = Found(d, nothing, TRUE, FALSE) BY <1>4, <1>10, <2>1
    <3> QED BY <1>1, <1>5, <1>10, <3>1 DEF Found
  <2>2. CASE ugs # {}
    <3>1. r = Borrow(d, y, f, FirstRun(ugs, short), serv, {"UGS"}) BY <1>4, <1>10, <2>2
    <3>2. ~OnlyUgs BY <1>10 DEF OnlyUgs
    <3> QED BY <1>5, <1>10, <3>1, <3>2, BorrowKeeps
  <2> QED BY <2>1, <2>2
<1>11. ASSUME free = {}, ~(serv # "BE" /\ weak # {}), ~(serv = "NRTPS" /\ weak = {})
       PROVE  Good
  <2>1. serv = "BE" \/ (serv = "UGS" /\ weak = {}) BY <1>11, <1>12 DEF Service
  <2>2. r = Found(d, nothing, TRUE, TRUE) BY <1>4, <1>11, <2>1
  <2>3. r.d = d /\ r.run = nothing BY <1>6, <2>2
  <2>4. Takes(d.m, d.m, y, row, serv, nothing) BY <1>18, <1>19
  <2> QED BY <1>1, <1>5, <2>3, <2>4
<1>20. Good BY <1>8, <1>9, <1>10, <1>11
<1> QED BY <1>20 DEF r, row

\* A run is granted: nothing of it is left for the link in the row.
Gives(m, e, y, row, serv, run) ==
    \A s \in Minislot :
       /\ s \in Cells(run) => s \notin Free(e, y, row) /\ (serv = "UGS" => s \notin Others(e, row))
       /\ s \notin Cells(run) => /\ s \in Free(e, y, row) => s \in Free(m, y, row)
                                 /\ s \in Others(e, row) => s \in Others(m, row)

\* A grant that covers the row marks it.
LEMMA GivesMarked ==
  ASSUME NEW m, NEW e, NEW y, NEW row \in Nat, NEW serv, NEW run \in Run,
         NEW start \in Nat, NEW pers \in 0 .. Horizon, row \in start .. start + pers - 1,
         NEW q \in Plane,
         e.busy[q] = m.busy[q] \cup Block(start, pers, run.start, run.range),
         \A p \in Plane \ {q} : e.busy[p] = m.busy[p],
         e.unconfirmedSlots = m.unconfirmedSlots, e.self_rx_unavl = m.self_rx_unavl,
         e.neigh_tx_unavl = m.neigh_tx_unavl, DOMAIN m.service = TableCell,
         e.service = Stamp(m.service, Block(start, pers, run.start, run.range), serv)
  PROVE  Gives(m, e, y, row, serv, run)
<1> DEFINE block == Block(start, pers, run.start, run.range)
<1>1. block = {h % Horizon : h \in start .. start + pers - 1} \X Cells(run)
  BY BlockCells DEF Run, Cells
<1>2. ASSUME NEW s \in Minislot, s \in Cells(run)
      PROVE  s \notin Free(e, y, row) /\ (serv = "UGS" => s \notin Others(e, row))
  <2>1. <<row % Horizon, s>> \in block BY <1>1, <1>2
  <2>2. <<row % Horizon, s>> \in TableCell BY RowOfFrame DEF TableCell
  <2> HIDE DEF block
  <2>3. <<row % Horizon, s>> \in e.busy[q] BY <2>1 DEF block
  <2>4. s \notin Free(e, y, row) BY <2>3, FreeCells
  <2>5. e.service[<<row % Horizon, s>>] = serv BY <2>1, <2>2 DEF Stamp, block
  <2> QED BY <2>4, <2>5 DEF Others
<1>3. ASSUME NEW s \in Minislot, s \notin Cells(run)
      PROVE  /\ s \in Free(e, y, row) => s \in Free(m, y, row)
             /\ s \in Others(e, row) => s \in Others(m, row)
  <2>1. <<row % Horizon, s>> \notin block BY <1>1, <1>3
  <2>2. <<row % Horizon, s>> \in TableCell BY RowOfFrame DEF TableCell
  <2> HIDE DEF block
  <2>3. \A p \in Plane : <<row % Horizon, s>> \in m.busy[p] => <<row % Horizon, s>> \in e.busy[p]
    BY DEF block
  <2>4. s \in Free(e, y, row) => s \in Free(m, y, row) BY <2>3, FreeCells
  <2>5. e.service[<<row % Horizon, s>>] = m.service[<<row % Horizon, s>>]
    BY <2>1, <2>2 DEF Stamp, block
  <2> QED BY <2>4, <2>5 DEF Others
<1> QED BY <1>2, <1>3 DEF Gives

LEMMA OfferKeeps ==
  ASSUME NEW n \in Node, frame \in Nat, NEW d \in Msg(n), NEW y \in Nbr[n], NEW f \in Nat,
         f = frame + Handshake, NEW run \in Run, NEW serv \in Used, NEW room, NEW minimum \in Nat
  PROVE  LET o == Offer(n, d, y, f, run, serv, room, minimum)
         IN /\ o \in After(n, d)
            /\ serv # "NRTPS" /\ LookAhead < Persist => Gives(d.m, o.m, y, f + LookAhead, serv, run)
<1> DEFINE start == realGrantStart(d.m, y, f, run)
           g == [node |-> y, frame |-> start, start |-> run.start, range |-> run.range,
                 fromRequester |-> FALSE, pers |-> Pers(serv), serv |-> serv]
           plain == Mark(d.m.busy, IF serv = "UGS" THEN serv ELSE "BE",
                         start, g.pers, run.start, run.range)
           floor == IF serv = "NRTPS"
                    THEN Block(start, g.pers, run.start, Min({run.range, minimum})) ELSE {}
           e == AddOrWait(d, g, room)
           c == e.m.neigh[y][serv]
           new == [c EXCEPT !.gnt_in = @ + g.pers * slots2bytes(run.range)]
           busy == [plain EXCEPT !["NRTPS"] = @ \cup floor]
           e1 == [e EXCEPT !.m.neigh[y][serv] = new]
           m == [e1.m EXCEPT !.busy = busy,
                             !.service = Stamp(@, Block(start, g.pers, run.start, run.range), serv)]
           offered == e.offers \cup Promises(n, y, start, g.pers, run.start, run.range)
           o == Offer(n, d, y, f, run, serv, room, minimum)
<1>1. run.start \in Nat /\ run.range \in Nat /\ run.start + run.range <= Slots BY DEF Run
<1>2. start \in Nat /\ start >= f /\ start <= f + LookAhead
  <2> DEFINE fits == {h \in f .. f + LookAhead - 1 :
                        (run.start .. run.start + run.range - 1)
                          \cap Unavailable(d.m, y, {"plain", "UGS"}, h) = {}}
             S == fits \cup {f + LookAhead}
  <2>1. S \in SUBSET Nat /\ S # {} /\ \A h \in S : h >= f /\ h <= f + LookAhead BY Constants
  <2>2. start = Min(S) BY DEF realGrantStart
  <2> HIDE DEF S, start
  <2>3. Min(S) \in S BY <2>1, MinOfSome
  <2> QED BY <2>1, <2>2, <2>3
<1>26. serv \in Service /\ serv \in User BY UsedServices
<1>3. Pers(serv) \in Nat /\ Pers(serv) \in 0 .. Horizon
  BY <1>26, PersTyped, FairRRAssumption, Constants DEF Pers
<1>4. g \in Gnt(n, frame)
  <2>1. start \in 0 .. frame + Handshake + LookAhead BY <1>2, Constants
  <2> HIDE DEF start
  <2> QED BY <1>1, <1>3, <2>1 DEF Gnt
<1>5. g.pers = Pers(serv) OBVIOUS
<1>6. o = [e EXCEPT !.m.neigh[y][serv].gnt_in = @ + g.pers * slots2bytes(run.range),
                    !.m.busy = busy,
                    !.m.service = Stamp(@, Block(start, g.pers, run.start, run.range), serv),
                    !.offers = offered]
  BY DEF Offer
<1> HIDE DEF start, g
<1>7. e \in After(n, d) /\ e \in Msg(n) /\ After(n, e) \subseteq After(n, d)
  BY <1>4, AddOrWaitKeeps, AfterAfter
<1>27. SameMaps(d.m, e.m) /\ e.offers = d.offers /\ e.confs = d.confs BY AddSame
<1> HIDE DEF e
<1>8. e.m \in Mgr(n, frame) /\ e.m.neigh \in [Nbr[n] -> [Service -> Desc]] /\ c \in Desc
  <2>1. e.m \in Mgr(n, frame) BY <1>7 DEF Msg, Draft, Sane
  <2>2. e.m.neigh \in [Nbr[n] -> [Service -> Desc]] BY <2>1 DEF Mgr
  <2> QED BY <1>26, <2>1, <2>2
<1>9. new \in Desc /\ new.level_in = c.level_in
  <2> DEFINE bytes == c.gnt_in + g.pers * slots2bytes(run.range)
  <2>1. bytes \in Int
    <3>1. slots2bytes(run.range) \in Int BY <1>1, Conversions
    <3>2. c.gnt_in \in Int BY <1>8 DEF Desc
    <3>3. g.pers * slots2bytes(run.range) \in Int BY <1>3, <1>5, <3>1
    <3> QED BY <3>2, <3>3
  <2>2. new = [c EXCEPT !.gnt_in = bytes] BY <1>8 DEF Desc
  <2> HIDE DEF bytes, c, new
  <2> QED BY <1>8, <2>1, <2>2 DEF Desc
<1> DEFINE table == Stamp(e.m.service, Block(start, g.pers, run.start, run.range), serv)
<1>10. e1 \in After(n, d) /\ e1 \in Msg(n)
  <2> HIDE DEF new, e1
  <2>1. e1 \in After(n, e) BY <1>7, <1>9, <1>26, NeighKeeps DEF e1
  <2> QED BY <1>7, <2>1, AfterAfter
<1>11. plain \in Bitmap
  <2>1. d.m.busy \in Bitmap BY DEF Msg, Draft, Sane, Mgr
  <2>2. (IF serv = "UGS" THEN serv ELSE "BE") \in Service BY DEF Service
  <2> QED BY <1>1, <1>2, <1>3, <1>5, <2>1, <2>2, MarkTyped
<1>12. floor \in SUBSET TableCell
  <2>1. CASE serv = "NRTPS"
    <3> DEFINE k == Min({run.range, minimum})
    <3>0. run.range \in Int /\ minimum \in Int BY <1>1
    <3>1. k \in {run.range, minimum} /\ k <= run.range BY <3>0, MinOfTwo
    <3>2. k \in Nat BY <1>1, <3>1
    <3> HIDE DEF k
    <3>3. run.start + k <= Slots BY <1>1, <3>1, <3>2, Constants
    <3>4. Block(start, g.pers, run.start, k) \in SUBSET TableCell
      BY <1>1, <1>2, <1>3, <1>5, <3>2, <3>3, BlockTyped
    <3> QED BY <2>1, <3>4 DEF k
  <2>2. CASE serv # "NRTPS" BY <2>2
  <2> QED BY <2>1, <2>2
<1> HIDE DEF plain, floor
<1>13. busy \in Bitmap BY <1>11, <1>12 DEF Bitmap, Plane
<1>14. table \in [TableCell -> User \cup {Unset}] BY <1>8, <1>26, StampTyped DEF Mgr
<1>15. offered \in SUBSET Promise(n)
  <2>1. Promises(n, y, start, g.pers, run.start, run.range) \in SUBSET Promise(n)
    BY <1>1, <1>2, <1>3, <1>5, PromisesTyped
  <2> QED BY <1>7, <2>1 DEF Msg, Draft
<1>16. e1.m.service = e.m.service /\ e1.offers = e.offers /\ e1.size = e.size /\ e1.req = e.req
  BY <1>7, <1>8 DEF Msg, Draft, Mgr
<1>28. SameMaps(e.m, e1.m) /\ e1.confs = e.confs
  BY <1>7, <1>8 DEF Msg, Draft, Mgr, SameMaps, SameTables
<1> DEFINE block == Block(start, g.pers, run.start, run.range)
           more == Promises(n, y, start, g.pers, run.start, run.range)
<1>29. /\ serv = "UGS" => busy["UGS"] = d.m.busy["UGS"] \cup block /\ busy["plain"] = d.m.busy["plain"]
       /\ serv = "BE" => busy["plain"] = d.m.busy["plain"] \cup block /\ busy["UGS"] = d.m.busy["UGS"]
       /\ serv # "NRTPS" => busy["NRTPS"] = d.m.busy["NRTPS"]
  <2>1. d.m.busy \in Bitmap BY DEF Msg, Draft, Sane, Mgr
  <2>2. /\ serv = "UGS" => plain = Mark(d.m.busy, "UGS", start, g.pers, run.start, run.range)
        /\ serv # "UGS" => plain = Mark(d.m.busy, "BE", start, g.pers, run.start, run.range)
        /\ serv # "NRTPS" => floor = {}
    BY DEF plain, floor
  <2>3. /\ serv = "UGS" => /\ plain["UGS"] = d.m.busy["UGS"] \cup block
                           /\ plain["plain"] = d.m.busy["plain"] /\ plain["NRTPS"] = d.m.busy["NRTPS"]
        /\ serv # "UGS" => /\ plain["plain"] = d.m.busy["plain"] \cup block
                           /\ plain["UGS"] = d.m.busy["UGS"] /\ plain["NRTPS"] = d.m.busy["NRTPS"]
    BY <2>1, <2>2, MarkPlanes
  <2> HIDE DEF block
  <2> QED BY <1>11, <2>2, <2>3 DEF Bitmap, Plane
<1>17. o = [e1 EXCEPT !.m = m, !.offers = offered]
  BY <1>6, <1>7, <1>8 DEF Msg, Draft, Mgr, Desc
<1> HIDE DEF e1, busy, table, offered, o
<1>18. e1.m \in Sane(n, frame) /\ e1.m \in Mgr(n, frame) BY <1>10 DEF Msg, Draft, Sane
<1>19. m = [e1.m EXCEPT !.busy = busy, !.service = table] BY <1>16, <1>18 DEF table, Mgr
<1> HIDE DEF m
<1>20. m \in Mgr(n, frame) BY <1>13, <1>14, <1>18, <1>19 DEF Mgr
<1>30. /\ m.busy = busy /\ m.service = Stamp(d.m.service, block, serv)
       /\ m.grants = d.m.grants /\ m.dst = d.m.dst
       /\ m.unconfirmedSlots = d.m.unconfirmedSlots /\ m.self_rx_unavl = d.m.self_rx_unavl
       /\ m.neigh_tx_unavl = d.m.neigh_tx_unavl
       /\ m.activeList = e1.m.activeList /\ m.startHorizon = e1.m.startHorizon
       /\ m.nextFrame = e1.m.nextFrame /\ m.unconfirmed = e1.m.unconfirmed /\ m.neigh = e1.m.neigh
  BY <1>18, <1>19, <1>27, <1>28 DEF Mgr, table, SameMaps, SameTables
<1>31. /\ d.m \in Sane(n, frame) /\ DOMAIN d.m.service = TableCell
       /\ d.m.busy["UGS"] \subseteq TableCell /\ d.m.grants \subseteq TableCell
  BY DEF Msg, Draft, Sane, Mgr, Bitmap, Plane
<1>32. block \in SUBSET TableCell BY <1>1, <1>2, <1>3, <1>5, BlockTyped
<1>33. ASSUME OnlyUgs PROVE Columns(m)
  <2>1. serv = "UGS" /\ g.pers = Horizon BY <1>5, <1>33 DEF OnlyUgs, Pers
  <2>6. block = (0 .. Horizon - 1) \X (run.start .. run.start + run.range - 1)
    BY <1>1, <1>2, <2>1, WholeBlock
  <2>2. Whole(block)
    <3> HIDE DEF block
    <3> QED BY <2>6 DEF Whole
  <2>3. Columns(d.m) BY <1>31, <1>33 DEF Sane
  <2> HIDE DEF block
  <2>4. /\ \A z \in block : m.service[z] = "UGS"
        /\ \A z \in TableCell \ block : m.service[z] = d.m.service[z]
    BY <1>30, <1>31, <1>32, <2>1 DEF Stamp
  <2>5. m.busy["UGS"] = d.m.busy["UGS"] \cup block BY <1>29, <1>30, <2>1
  <2> QED BY <1>30, <1>31, <1>32, <2>2, <2>3, <2>4, <2>5, ColumnsAdd
<1>34. ASSUME OnlyBestEffort
       PROVE  Ledger(m, Of(n, offers) \cup d.offers \cup more, Of(n, confs) \cup d.confs, frame)
  <2>1. serv = "BE" /\ g.pers = Persist /\ Persist \in 0 .. Horizon
    BY <1>3, <1>5, <1>34 DEF OnlyBestEffort, Pers
  <2>2. block = Rows(more) BY <1>1, <1>2, <2>1, BlockRows
  <2>3. ASSUME NEW t \in more PROVE t[3] \in frame .. frame + Horizon - 1
    <3>1. t[3] \in start .. start + Persist - 1 BY <2>1 DEF Promises
    <3>2. start + Persist <= frame + Horizon /\ start >= frame
      BY <1>2, <1>34, <2>1, Constants DEF OnlyBestEffort
    <3>3. t[3] \in Int /\ Horizon \in Int /\ t[3] >= start /\ t[3] <= start + Persist - 1
      BY <1>2, <2>1, <3>1, Constants
    <3> HIDE DEF more
    <3> QED BY <1>2, <2>1, <3>2, <3>3
  <2>4. Ledger(d.m, Of(n, offers) \cup d.offers, Of(n, confs) \cup d.confs, frame)
    BY <1>34 DEF Msg, Kept
  <2> DEFINE given == Of(n, offers) \cup d.offers
             made == Of(n, confs) \cup d.confs
  <2>5. m.busy["plain"] = d.m.busy["plain"] \cup Rows(more) BY <1>29, <1>30, <2>1, <2>2
  <2> HIDE DEF given, made, more, block
  <2>6. Ledger(d.m, given, made, frame) BY <2>4 DEF given, made
  <2>7. Ledger(m, given \cup more, made, frame) BY <1>30, <2>3, <2>5, <2>6, LedgerGive
  <2> QED BY <2>7 DEF given, made
<1>35. ASSUME serv # "NRTPS", LookAhead < Persist
       PROVE  Gives(d.m, m, y, f + LookAhead, serv, run)
  <2>1. f + LookAhead \in Nat /\ Horizon >= Persist BY Constants, FairRRAssumption
  <2>2. f + LookAhead \in start .. start + g.pers - 1
    <3>1. g.pers >= Persist BY <1>5, <2>1, Constants DEF Pers
    <3> QED BY <1>2, <1>3, <1>5, <1>35, <2>1, <3>1, Constants
  <2> DEFINE q == IF serv = "UGS" THEN "UGS" ELSE "plain"
             row == f + LookAhead
  <2>3. /\ q \in Plane /\ m.busy[q] = d.m.busy[q] \cup block
        /\ \A p \in Plane \ {q} : m.busy[p] = d.m.busy[p]
    BY <1>26, <1>29, <1>30, <1>35 DEF Plane, Service
  <2>4. g.pers \in 0 .. Horizon BY <1>3, <1>5
  <2>5. row \in Nat /\ row \in start .. start + g.pers - 1 BY <2>1, <2>2
  <2> HIDE DEF q, row
  <2>6. Gives(d.m, m, y, row, serv, run)
    BY <1>2, <1>30, <1>31, <2>3, <2>4, <2>5, GivesMarked
  <2> QED BY <2>6 DEF row
<1> HIDE DEF block, more
<1>21. m \in Sane(n, frame) /\ m.activeList = e1.m.activeList
  BY <1>18, <1>20, <1>30, <1>33, StaysSane
<1>22. o \in Draft(n) BY <1>10, <1>15, <1>17, <1>21 DEF Msg, Draft
<1>23. o.req = e1.req /\ o.size = e1.size /\ o.m = m BY <1>10, <1>17 DEF Msg, Draft
<1>36. o.offers = d.offers \cup more /\ o.confs = d.confs
  BY <1>10, <1>16, <1>17, <1>27, <1>28 DEF Msg, Draft, offered, more
<1>37. OnlyBestEffort => Kept(n, o)
  <2>1. Of(n, offers) \cup o.offers = Of(n, offers) \cup d.offers \cup more BY <1>36
  <2> QED BY <1>23, <1>34, <1>36, <2>1 DEF Kept
<1>24. o \in Msg(n) BY <1>10, <1>22, <1>23, <1>37 DEF Msg
<1>25. o \in After(n, d) BY <1>10, <1>21, <1>23, <1>24 DEF After
<1> QED BY <1>23, <1>25, <1>35 DEF o

\* The loop over the grants to a link: as long as it is not over there is a
\* level to meet.
Link(n, d) == {l \in [d : After(n, d), want : Int, room : BOOLEAN, frame_room : BOOLEAN,
                      minimum : Nat, over : BOOLEAN] : l.over \/ l.want >= 1}

\* What is left for a link in the look-ahead row; the minislots that other
\* services lend count beyond Slots.
Todo(m, y, serv) ==
    LET row == frame + Handshake + LookAhead
    IN Free(m, y, row) \cup {Slots + s : s \in IF serv = "UGS" THEN Others(m, row) ELSE {}}
Left(m, y, serv) == Cardinality(Todo(m, y, serv))

LEMMA TodoBounded ==
  ASSUME NEW m, NEW y, NEW serv
  PROVE  IsFiniteSet(Todo(m, y, serv)) /\ Left(m, y, serv) \in 0 .. MaxPasses
<1> DEFINE all == 0 .. MaxPasses - 1
           todo == Todo(m, y, serv)
<1>1. Slots \in Nat \ {0} /\ MaxPasses = Slots + Slots BY Constants DEF MaxPasses
<1>2. \A s \in Minislot : s \in all /\ Slots + s \in all BY <1>1 DEF Minislot
<1>3. todo \in SUBSET all BY <1>2 DEF Todo, Free, Others
<1>4. IsFiniteSet(all) /\ Cardinality(all) = MaxPasses BY <1>1, FS_Interval
<1> HIDE DEF all, todo
<1>5. IsFiniteSet(todo) /\ Cardinality(todo) <= Cardinality(all) BY <1>3, <1>4, FS_Subset
<1>6. Cardinality(todo) \in Nat BY <1>5, FS_CardinalityType
<1> QED BY <1>1, <1>4, <1>5, <1>6 DEF Left, todo

\* A run that is taken and granted leaves less.
LEMMA TodoShrinks ==
  ASSUME NEW m, NEW a, NEW e, NEW y, NEW serv, NEW run \in Run, run.range # 0,
         Takes(m, a, y, frame + Handshake + LookAhead, serv, run),
         Gives(a, e, y, frame + Handshake + LookAhead, serv, run)
  PROVE  Left(e, y, serv) + 1 <= Left(m, y, serv)
<1> DEFINE row == frame + Handshake + LookAhead
           first == run.start
           old == Todo(m, y, serv)
           new == Todo(e, y, serv)
<1>1. Slots \in Nat /\ \A s \in Minislot : s \in Nat /\ s < Slots BY Constants DEF Minislot
<1>2. first \in Cells(run) /\ first \in Minislot BY Constants DEF Run, Cells, Minislot
<1> HIDE DEF first
<1>3. \A s \in Minislot : /\ s \in Free(e, y, row) => s \in Free(m, y, row) /\ s \notin Cells(run)
                          /\ serv = "UGS" /\ s \in Others(e, row)
                                => s \in Others(m, row) /\ s \notin Cells(run)
  BY DEF Takes, Gives
<1>4. \A x \in {m, e} : \A s : s \in Free(x, y, row) \/ s \in Others(x, row) => s \in Minislot
  BY DEF Free, Others
<1> HIDE DEF row
<1>5. \A x \in {m, e} :
        Todo(x, y, serv) =
          Free(x, y, row) \cup {Slots + s : s \in IF serv = "UGS" THEN Others(x, row) ELSE {}}
  BY DEF Todo, row
<1>6. new \subseteq old BY <1>3, <1>4, <1>5
<1>7. PICK z : z \in old /\ z \notin new
  <2>1. CASE first \in Free(m, y, row)
    <3>1. first \in old BY <1>5, <2>1
    <3>2. first \notin Free(e, y, row) BY <1>2, <1>3
    <3>3. \A s \in Others(e, row) : first # Slots + s BY <1>1, <1>2, <1>4
    <3>4. first \notin new BY <1>5, <3>2, <3>3
    <3> QED BY <3>1, <3>4
  <2>2. CASE serv = "UGS" /\ first \in Others(m, row)
    <3>1. Slots + first \in old BY <1>5, <2>2
    <3>2. Slots + first \notin Free(e, y, row) BY <1>1, <1>2, <1>4
    <3>3. \A s \in Others(e, row) : Slots + first # Slots + s
      <4>1. first \notin Others(e, row) BY <1>2, <1>3, <2>2
      <4> QED BY <1>1, <1>2, <1>4, <4>1
    <3>4. Slots + first \notin new BY <1>5, <3>2, <3>3
    <3> QED BY <3>1, <3>4
  <2> QED BY <1>2, <2>1, <2>2 DEF Takes, row
<1>8. IsFiniteSet(old) /\ Cardinality(old) \in Int /\ Cardinality(new) \in Int
  BY TodoBounded DEF Left
<1> HIDE DEF old, new
<1>9. IsFiniteSet(old \ {z}) /\ Cardinality(old \ {z}) = Cardinality(old) - 1
  BY <1>7, <1>8, FS_RemoveElement
<1>10. new \in SUBSET (old \ {z}) BY <1>6, <1>7
<1>11. Cardinality(new) <= Cardinality(old \ {z}) BY <1>9, <1>10, FS_Subset
<1> QED BY <1>8, <1>9, <1>11 DEF Left, old, new

\* After a round that is not the last as much is left as there are rounds to come.
Ends(l, y, serv, rounds) ==
    Terminates => serv # "NRTPS" /\ (l.over \/ Left(l.d.m, y, serv) <= MaxPasses - rounds)

LEMMA GrantRunKeeps ==
  ASSUME NEW n \in Node, frame \in Nat, NEW d \in Msg(n), NEW y \in Nbr[n], NEW serv \in Used,
         NEW l \in Link(n, d), NEW pass \in Nat \ {0}, Ends(l, y, serv, pass - 1)
  PROVE  /\ GrantRun(n, l, y, serv, pass) \in Link(n, d)
         /\ Ends(GrantRun(n, l, y, serv, pass), y, serv, pass)
<1> DEFINE level == l.d.m.neigh[y][serv].level_in
           f == frame + Handshake
           len == bytes2slots(slots2bytes(l.want))
           fit == grantFit(l.d, y, len, f, serv)
           run == fit.run
           room == l.room /\ fit.room
           frame_room == l.frame_room /\ fit.frame_room
           left == l.want - (run.range - 1)
           next == IF serv = "NRTPS" /\ ~frame_room THEN NrtpsMin - (level - left) ELSE left
           rest == IF serv = "NRTPS" /\ l.minimum > 0 THEN Uint(l.minimum - run.range) ELSE l.minimum
           offer == Offer(n, fit.d, y, f, run, serv, room, l.minimum)
           granted == [offer EXCEPT !.passes = Max({@, pass})]
           over == run.range >= level \/ next <= 1
           r == GrantRun(n, l, y, serv, pass)
           Good == r \in Link(n, d) /\ Ends(r, y, serv, pass)
<1>1. r = IF l.over THEN l
          ELSE IF run.range = 0 THEN [l EXCEPT !.d = fit.d, !.over = TRUE]
          ELSE [d |-> granted, want |-> next, room |-> room, frame_room |-> frame_room,
                minimum |-> rest, over |-> over]
  BY DEF GrantRun
<1>0. serv \in Service BY UsedServices
<1>2. ASSUME l.over = TRUE PROVE Good
  <2>1. r = l BY <1>1, <1>2
  <2> HIDE DEF r
  <2>2. Terminates => serv # "NRTPS" BY DEF Ends
  <2>3. Ends(l, y, serv, pass) BY <1>2, <2>2 DEF Ends
  <2> QED BY <2>1, <2>3
<1>3. ASSUME l.over = FALSE PROVE Good
  <2>1. l.d \in After(n, d) /\ l.want \in Nat \ {0} /\ l.minimum \in Nat BY <1>3 DEF Link
  <2>2. l.d \in Msg(n) /\ After(n, l.d) \subseteq After(n, d) BY <2>1, AfterAfter
  <2>3. len \in Nat /\ f \in Nat /\ f = frame + Handshake
    <3>1. slots2bytes(l.want) \in Nat BY <2>1, Conversions
    <3> QED BY <3>1, Conversions, Constants
  <2>4. level \in Int
    <3>1. l.d.m \in Mgr(n, frame) BY <2>2 DEF Msg, Draft, Sane
    <3>2. l.d.m.neigh \in [Nbr[n] -> [Service -> Desc]] BY <3>1 DEF Mgr
    <3>3. l.d.m.neigh[y][serv] \in Desc BY <1>0, <3>2
    <3> QED BY <3>3 DEF Desc
  <2> HIDE DEF len, f, level
  <2>5. /\ fit.d \in After(n, l.d) /\ run \in Run
        /\ serv # "NRTPS" => Takes(l.d.m, fit.d.m, y, f + LookAhead, serv, run)
    BY <2>2, <2>3, GrantFitKeeps
  <2> HIDE DEF fit
  <2>6. fit.d \in Msg(n) /\ fit.d \in After(n, d) /\ After(n, fit.d) \subseteq After(n, d)
    BY <2>2, <2>5, AfterAfter
  <2>7. run.range \in Nat BY <2>5 DEF Run
  <2>8. CASE run.range = 0
    <3>1. r = [l EXCEPT !.d = fit.d, !.over = TRUE] BY <1>1, <1>3, <2>8
    <3> HIDE DEF r
    <3>2. r \in Link(n, d) /\ r.over = TRUE BY <2>6, <3>1 DEF Link
    <3>3. Ends(r, y, serv, pass) BY <3>2 DEF Ends
    <3> QED BY <3>2, <3>3 DEF r
  <2>9. CASE run.range # 0
    <3>1. /\ offer \in After(n, d) /\ offer \in Msg(n)
          /\ serv # "NRTPS" /\ LookAhead < Persist
                => Gives(fit.d.m, offer.m, y, f + LookAhead, serv, run)
      <4>1. /\ offer \in After(n, fit.d)
            /\ serv # "NRTPS" /\ LookAhead < Persist
                  => Gives(fit.d.m, offer.m, y, f + LookAhead, serv, run)
        BY <2>1, <2>3, <2>5, <2>6, OfferKeeps
      <4> QED BY <2>6, <4>1, AfterAfter
    <3> HIDE DEF offer
    <3>10. ASSUME Terminates
           PROVE  pass <= MaxPasses /\ Left(offer.m, y, serv) <= MaxPasses - pass
      <4>1. /\ serv # "NRTPS" /\ LookAhead < Persist
            /\ Left(l.d.m, y, serv) <= MaxPasses - (pass - 1)
        BY <1>3, <3>10 DEF Ends, Terminates
      <4>2. Left(offer.m, y, serv) + 1 <= Left(l.d.m, y, serv)
        BY <2>3, <2>5, <2>9, <3>1, <4>1, TodoShrinks
      <4>3. Left(offer.m, y, serv) \in Nat /\ Left(l.d.m, y, serv) \in Nat /\ MaxPasses \in Nat
        BY TodoBounded, Constants DEF MaxPasses
      <4> QED BY <4>1, <4>2, <4>3
    <3>2. granted \in After(n, d) /\ granted.m = offer.m
      <4> DEFINE p == Max({offer.passes, pass})
      <4>1. offer.passes \in Int /\ pass \in Int /\ offer.passes \in Passes BY <3>1 DEF Msg, Draft, Passes
      <4>2. p \in {offer.passes, pass} BY <4>1, MaxOfTwo
      <4>3. p \in Passes
        <5>1. pass \in Passes
          <6>1. Terminates => pass \in 0 .. MaxPasses
            BY <3>10, <4>1, Constants DEF MaxPasses
          <6> QED BY <6>1 DEF Passes
        <5> HIDE DEF p
        <5> QED BY <4>1, <4>2, <5>1
      <4>4. granted = [offer EXCEPT !.passes = p] BY <3>1 DEF Msg, Draft
      <4> HIDE DEF p, granted
      <4>5. granted \in Draft(n) BY <3>1, <4>3, <4>4 DEF Msg, Draft
      <4>6. /\ granted.req = offer.req /\ granted.size = offer.size /\ granted.m = offer.m
            /\ granted.offers = offer.offers /\ granted.confs = offer.confs
        BY <3>1, <4>4 DEF Msg, Draft
      <4>8. OnlyBestEffort => Kept(n, granted) BY <3>1, <4>6, SameKept DEF SameTables
      <4>7. granted \in Msg(n) BY <3>1, <4>5, <4>6, <4>8 DEF Msg
      <4> QED BY <3>1, <4>6, <4>7 DEF After
    <3>3. left \in Int BY <2>1, <2>7
    <3>4. next \in Int BY <2>4, <3>3, Constants
    <3>5. rest \in Nat
      <4>1. l.minimum - run.range \in Int BY <2>1, <2>7
      <4>2. Uint(l.minimum - run.range) \in Nat BY <4>1, UintNat
      <4> QED BY <2>1, <4>2
    <3> HIDE DEF left, next, rest, granted
    <3>6. over \/ next >= 1 BY <3>4
    <3>7. room \in BOOLEAN /\ frame_room \in BOOLEAN /\ over \in BOOLEAN OBVIOUS
    <3> HIDE DEF room, frame_room, over
    <3>8. r = [d |-> granted, want |-> next, room |-> room, frame_room |-> frame_room,
               minimum |-> rest, over |-> over]
      BY <1>1, <1>3, <2>9
    <3> HIDE DEF r
    <3>9. r \in Link(n, d) BY <3>2, <3>4, <3>5, <3>6, <3>7, <3>8 DEF Link
    <3>11. r.d.m = offer.m BY <3>2, <3>8
    <3>12. Terminates => serv # "NRTPS" BY DEF Ends
    <3>13. Ends(r, y, serv, pass) BY <3>10, <3>11, <3>12 DEF Ends
    <3> QED BY <3>9, <3>13 DEF r
  <2> QED BY <2>8, <2>9
<1>4. l.over \in BOOLEAN BY DEF Link
<1> QED BY <1>2, <1>3, <1>4

LEMMA GrantLinkKeeps ==
  ASSUME NEW n \in Node, frame \in Nat, NEW d \in Msg(n), NEW y \in Nbr[n], NEW serv \in Used,
         d.m.neigh[y][serv].level_in > 0, Terminates => serv # "NRTPS"
  PROVE  GrantLink(n, d, y, serv) \in After(n, d)
<1> DEFINE S == {p \in Link(n, d) \X Nat : Ends(p[1], y, serv, p[2])}
           want == d.m.neigh[y][serv].level_in
           x == [d |-> d, want |-> want, room |-> TRUE, frame_room |-> TRUE,
                 minimum |-> NrtpsMin, over |-> FALSE]
           len == MaxPasses + 1
<1>0. serv \in Service BY UsedServices
<1>1. len \in Nat BY Constants DEF MaxPasses
<1>2. want \in Int
  <2>1. d.m \in Mgr(n, frame) BY DEF Msg, Draft, Sane
  <2>2. d.m.neigh \in [Nbr[n] -> [Service -> Desc]] BY <2>1 DEF Mgr
  <2>3. d.m.neigh[y][serv] \in Desc BY <1>0, <2>2
  <2> QED BY <2>3 DEF Desc
<1>3. d \in After(n, d) BY DEF After
<1>4. GrantLink(n, d, y, serv) = GrantRuns(n, x, y, serv).d BY DEF GrantLink
<1>5. want >= 1 BY <1>2
<1> HIDE DEF want
<1>6. x \in Link(n, d) BY <1>2, <1>3, <1>5, Constants DEF Link
<1>7. Ends(x, y, serv, 0) BY TodoBounded, Constants DEF Ends, MaxPasses
<1> HIDE DEF x
<1>8. PICK f : RunsRun(f, n, x, y, serv) BY GrantRunSteps
<1> DEFINE g == [k \in Nat |-> <<f[k], k>>]
<1> HIDE DEF len
<1>9. ASSUME NEW k \in 1 .. len, g[k - 1] \in S PROVE g[k] \in S
  <2>1. k \in Nat \ {0} /\ k - 1 \in Nat BY <1>1
  <2>2. f[k - 1] \in Link(n, d) /\ Ends(f[k - 1], y, serv, k - 1) BY <1>9, <2>1
  <2>3. f[k] = GrantRun(n, f[k - 1], y, serv, k) BY <1>8, <2>1 DEF RunsRun
  <2>4. f[k] \in Link(n, d) /\ Ends(f[k], y, serv, k) BY <2>1, <2>2, <2>3, GrantRunKeeps
  <2> QED BY <2>1, <2>4
<1>10. g[0] \in S BY <1>6, <1>7, <1>8 DEF RunsRun
<1>11. g[len] = <<f[len], len>> BY <1>1
<1> HIDE DEF g
<1>12. g[len] \in S BY <1>1, <1>9, <1>10, Requests!Stays
<1>13. f[len] \in Link(n, d) BY <1>11, <1>12
<1>14. GrantRuns(n, x, y, serv) = f[len] BY <1>8 DEF RunsRun, len
<1> QED BY <1>4, <1>13, <1>14 DEF Link

\* The head of an active list has been served.
LEMMA ServedSane ==
  ASSUME NEW n \in Node, NEW now, NEW m \in Sane(n, now), NEW s \in Service,
         m.activeList[s] # <<>>
  PROVE  LET e == [m EXCEPT !.activeList[s] = Tail(m.activeList[s])]
         IN e \in Sane(n, now) /\ SameTables(m, e)
<1> DEFINE list == m.activeList[s]
           tail == Tail(list)
           lists == [m.activeList EXCEPT ![s] = tail]
           e == [m EXCEPT !.activeList = lists]
<1>1. m \in Mgr(n, now) /\ Resumes(n, m, now) /\ Waits(m) BY DEF Sane
<1>2. m.activeList \in [Service -> Seq(Nbr[n])] BY <1>1 DEF Mgr
<1>3. list \in Seq(Nbr[n]) /\ list # <<>> BY <1>2
<1>4. /\ tail \in Seq(Nbr[n]) /\ Len(tail) = Len(list) - 1 /\ Len(list) \in Nat
      /\ \A i \in 1 .. Len(tail) : tail[i] = list[i + 1]
      /\ DOMAIN list = 1 .. Len(list) /\ DOMAIN tail = 1 .. Len(tail)
  <2> HIDE DEF list
  <2> QED BY <1>3, HeadTailProperties, LenProperties
<1>5. IsInjective(list) /\ (\A i \in DOMAIN list : m.neigh[list[i]][s].level_in > 0) /\ s \in Used
  BY <1>1, <1>3 DEF Waits
<1> HIDE DEF list, tail
<1>6. \A i \in DOMAIN tail : i + 1 \in DOMAIN list /\ tail[i] = list[i + 1] BY <1>4
<1>7. IsInjective(tail)
  <2>1. ASSUME NEW i \in DOMAIN tail, NEW j \in DOMAIN tail, tail[i] = tail[j] PROVE i = j
    <3>1. i + 1 = j + 1 BY <1>5, <1>6, <2>1 DEF IsInjective
    <3>2. i \in Nat /\ j \in Nat BY <1>4
    <3> QED BY <3>1, <3>2
  <2> QED BY <2>1 DEF IsInjective
<1>8. \A i \in DOMAIN tail : m.neigh[tail[i]][s].level_in > 0 BY <1>5, <1>6
<1>9. /\ lists \in [Service -> Seq(Nbr[n])] /\ lists[s] = tail
      /\ \A t \in Service : t # s => lists[t] = m.activeList[t]
  BY <1>2, <1>4
<1> HIDE DEF lists
<1>10. e \in Mgr(n, now) BY <1>1, <1>9 DEF Mgr
<1>11. /\ e.activeList = lists /\ e.startHorizon = m.startHorizon /\ e.neigh = m.neigh
       /\ e.nextFrame = m.nextFrame /\ e.unconfirmed = m.unconfirmed /\ SameTables(m, e)
  BY <1>1 DEF Mgr, SameTables
<1>12. e = [m EXCEPT !.activeList[s] = Tail(m.activeList[s])]
  BY <1>1 DEF Mgr, e, lists, tail, list
<1> HIDE DEF e
<1>13. Resumes(n, e, now) BY <1>1, <1>11 DEF Resumes
<1>14. Waits(e)
  <2>1. ASSUME NEW t \in Service
        PROVE  /\ IsInjective(lists[t])
               /\ \A i \in DOMAIN lists[t] : m.neigh[lists[t][i]][t].level_in > 0
               /\ t \notin Used => lists[t] = <<>>
    <3>1. CASE t = s BY <1>5, <1>7, <1>8, <1>9, <3>1
    <3>2. CASE t # s BY <1>1, <1>9, <3>2 DEF Waits
    <3> QED BY <3>1, <3>2
  <2> QED BY <1>11, <2>1 DEF Waits
<1>16. OnlyUgs => Columns(e) BY <1>11, SameColumns DEF Sane
<1>15. e \in Sane(n, now) BY <1>10, <1>11, <1>13, <1>14, <1>16 DEF Sane
<1> QED BY <1>11, <1>12, <1>15

\* The message after a step that requests nothing.
Quiet(n, d) == {e \in Msg(n) : e.req = d.req}

LEMMA GrantFirstKeeps ==
  ASSUME NEW n \in Node, frame \in Nat, NEW serv \in Service, NEW d \in Msg(n)
  PROVE  GrantFirst(n, d, serv) \in Quiet(n, d)
<1> DEFINE list == d.m.activeList[serv]
           y == Head(list)
           e == GrantLink(n, d, y, serv)
           m == [e.m EXCEPT !.activeList[serv] = Tail(e.m.activeList[serv])]
           r == [e EXCEPT !.m = m]
<1>1. ASSUME list = <<>> \/ ~Fits(d, GntSize) PROVE GrantFirst(n, d, serv) \in Quiet(n, d)
  <2>1. GrantFirst(n, d, serv) = d BY <1>1 DEF GrantFirst
  <2> QED BY <2>1 DEF Quiet
<1>2. ASSUME list # <<>>, Fits(d, GntSize) PROVE GrantFirst(n, d, serv) \in Quiet(n, d)
  <2>1. d.m \in Mgr(n, frame) /\ Waits(d.m) BY DEF Msg, Draft, Sane
  <2>2. list \in Seq(Nbr[n]) BY <2>1 DEF Mgr
  <2>3. y \in Nbr[n] /\ y = list[1] /\ 1 \in DOMAIN list
    <3> HIDE DEF list
    <3>1. Len(list) \in Nat \ {0} /\ DOMAIN list = 1 .. Len(list)
      BY <1>2, <2>2, EmptySeq, LenProperties
    <3>2. y = list[1] BY <2>2, <3>1
    <3> QED BY <1>2, <2>2, <3>1, <3>2, HeadTailProperties
  <2>4. d.m.neigh[y][serv].level_in > 0 /\ serv \in Used BY <1>2, <2>1, <2>3 DEF Waits
  <2>14. Terminates => serv # "NRTPS" BY <2>4 DEF Terminates
  <2>5. GrantFirst(n, d, serv) = [e EXCEPT !.m.activeList[serv] = Tail(list)]
    BY <1>2 DEF GrantFirst
  <2> HIDE DEF y
  <2>6. e \in After(n, d) BY <2>3, <2>4, <2>14, GrantLinkKeeps
  <2> HIDE DEF e
  <2>7. e \in Msg(n) /\ e.m.activeList = d.m.activeList /\ e.req = d.req BY <2>6 DEF After
  <2>8. e.m \in Sane(n, frame) /\ e.m \in Mgr(n, frame) BY <2>7 DEF Msg, Draft, Sane
  <2>9. m \in Sane(n, frame) /\ SameTables(e.m, m) BY <1>2, <2>7, <2>8, ServedSane
  <2>10. [e EXCEPT !.m.activeList[serv] = Tail(list)] = r BY <2>7, <2>8 DEF Msg, Draft
  <2> HIDE DEF m, list
  <2>11. r \in Draft(n) BY <2>7, <2>9 DEF Msg, Draft
  <2>12. /\ r.req = e.req /\ r.size = e.size /\ r.m = m
         /\ r.offers = e.offers /\ r.confs = e.confs
    BY <2>7 DEF Msg, Draft
  <2> HIDE DEF r
  <2>15. OnlyBestEffort => Kept(n, r) BY <2>7, <2>9, <2>12, SameKept
  <2>13. r \in Quiet(n, d) BY <2>7, <2>11, <2>12, <2>15 DEF Msg, Quiet
  <2> QED BY <2>5, <2>10, <2>13
<1> QED BY <1>1, <1>2

LEMMA GrantAllKeeps ==
  ASSUME NEW n \in Node, frame \in Nat, NEW serv \in Service, NEW d \in Msg(n)
  PROVE  GrantAll(n, d, serv) \in Quiet(n, d)
<1> DEFINE S == Quiet(n, d)
           len == Len(d.m.activeList[serv])
<1>1. len \in Nat
  <2>1. d.m \in Mgr(n, frame) BY DEF Msg, Draft, Sane
  <2>2. d.m.activeList[serv] \in Seq(Nbr[n]) BY <2>1 DEF Mgr
  <2> QED BY <2>2, LenProperties
<1>2. PICK f : GrantsRun(f, n, d, serv) BY GrantSteps
<1>3. d \in S BY DEF Quiet
<1>4. \A e \in S : GrantFirst(n, e, serv) \in S BY GrantFirstKeeps DEF Quiet
<1> HIDE DEF S, len
<1>5. \A k \in 1 .. len : f[k - 1] \in S => f[k] \in S BY <1>1, <1>2, <1>4 DEF GrantsRun
<1>6. f[len] \in S BY <1>1, <1>2, <1>3, <1>5, Requests!Stays DEF GrantsRun
<1> QED BY <1>2, <1>6 DEF S, len, GrantsRun

-----------------------------------------------------------------------------
(* requestGrant (): the requests *)

LEMMA FlowTyped ==
  ASSUME NEW n, NEW V, NEW table \in [Nbr[n] -> [Service -> V]], NEW x \in Nbr[n],
         NEW s \in Service, NEW v \in V
  PROVE  LET new == [table EXCEPT ![x][s] = v]
         IN /\ new \in [Nbr[n] -> [Service -> V]]
            /\ \A y \in Nbr[n] : \A t \in Service :
                  new[y][t] = IF y = x /\ t = s THEN v ELSE table[y][t]
OBVIOUS

Requested(m, y, s, next, out) ==
    [m EXCEPT !.nextFrame[y][s] = next, !.startHorizon[y][s] = FALSE,
              !.neigh[y][s].req_out = out]

\* A flow that has just requested waits for its next frame.
LEMMA RequestedSane ==
  ASSUME NEW n \in Node, frame \in Nat, NEW m \in Sane(n, frame), NEW y \in Nbr[n],
         NEW s \in Service, NEW next \in Nat, s # "UGS" => next \in frame .. frame + Persist,
         NEW out \in Int
  PROVE  /\ Requested(m, y, s, next, out) \in Sane(n, frame)
         /\ SameTables(m, Requested(m, y, s, next, out))
<1> DEFINE no == FALSE
           frames == [m.nextFrame EXCEPT ![y][s] = next]
           starts == [m.startHorizon EXCEPT ![y][s] = no]
           c == m.neigh[y][s]
           new == [c EXCEPT !.req_out = out]
           neigh == [m.neigh EXCEPT ![y][s] = new]
           e == [m EXCEPT !.nextFrame = frames, !.startHorizon = starts, !.neigh = neigh]
<1>1. m \in Mgr(n, frame) /\ Resumes(n, m, frame) /\ Waits(m) BY DEF Sane
<1>2. /\ m.nextFrame \in [Nbr[n] -> [Service -> Nat]]
      /\ m.startHorizon \in [Nbr[n] -> [Service -> BOOLEAN]]
      /\ m.neigh \in [Nbr[n] -> [Service -> Desc]]
  BY <1>1 DEF Mgr
<1>3. c \in Desc BY <1>2
<1>4. new \in Desc /\ new.level_in = c.level_in
  <2> HIDE DEF c
  <2> QED BY <1>3 DEF Desc
<1>5. no \in BOOLEAN OBVIOUS
<1>6. e = Requested(m, y, s, next, out)
  BY <1>1, <1>2, <1>3 DEF Requested, Mgr, Desc
<1> HIDE DEF new, no
<1>7. /\ frames \in [Nbr[n] -> [Service -> Nat]]
      /\ \A x \in Nbr[n] : \A t \in Service :
           frames[x][t] = IF x = y /\ t = s THEN next ELSE m.nextFrame[x][t]
  BY <1>2, FlowTyped
<1>8. /\ starts \in [Nbr[n] -> [Service -> BOOLEAN]]
      /\ \A x \in Nbr[n] : \A t \in Service :
           starts[x][t] = IF x = y /\ t = s THEN no ELSE m.startHorizon[x][t]
  BY <1>2, <1>5, FlowTyped
<1>9. /\ neigh \in [Nbr[n] -> [Service -> Desc]]
      /\ \A x \in Nbr[n] : \A t \in Service : neigh[x][t].level_in = m.neigh[x][t].level_in
  BY <1>2, <1>4, NeighTyped
<1> HIDE DEF frames, starts, neigh
<1>10. e \in Mgr(n, frame) BY <1>1, <1>7, <1>8, <1>9 DEF Mgr
<1>11. /\ e.activeList = m.activeList /\ e.startHorizon = starts /\ e.neigh = neigh
       /\ e.nextFrame = frames /\ e.unconfirmed = m.unconfirmed /\ SameTables(m, e)
  BY <1>1 DEF Mgr, SameTables
<1> HIDE DEF e
<1>12. Resumes(n, e, frame)
  <2>1. ASSUME NEW x \in Nbr[n], NEW t \in Service \ {"UGS"}, ~starts[x][t]
        PROVE  frames[x][t] \in frame .. frame + Persist
    <3>1. CASE x = y /\ t = s BY <1>7, <2>1, <3>1
    <3>2. CASE ~(x = y /\ t = s)
      <4>1. starts[x][t] = m.startHorizon[x][t] /\ frames[x][t] = m.nextFrame[x][t]
        BY <1>7, <1>8, <3>2
      <4>2. ~m.startHorizon[x][t] BY <2>1, <4>1
      <4> QED BY <1>1, <4>1, <4>2 DEF Resumes
    <3> QED BY <3>1, <3>2
  <2> QED BY <1>11, <2>1 DEF Resumes
<1>13. \A t \in Service : \A i \in DOMAIN m.activeList[t] : m.activeList[t][i] \in Nbr[n]
  BY <1>1 DEF Mgr
<1>14. Waits(e) BY <1>1, <1>9, <1>11, <1>13 DEF Waits
<1>15. \A i \in DOMAIN e.unconfirmed : e.unconfirmed[i].fromRequester BY <1>11 DEF Sane
<1>16. OnlyUgs => Columns(e) BY <1>11, SameColumns DEF Sane
<1>17. e \in Sane(n, frame) BY <1>10, <1>12, <1>14, <1>15, <1>16 DEF Sane
<1> QED BY <1>6, <1>11, <1>17

\* A message without a request has room for what is in it; each request may
\* exceed it by its size.
Sized(n) == {e \in Msg(n) : e.size <= Room + ReqSize * Len(e.req)}

LEMMA RequestKeeps ==
  ASSUME NEW n \in Node, frame \in Nat, NEW d \in Msg(n), NEW y \in Nbr[n], NEW serv \in Service
  PROVE  /\ Request(n, d, y, serv) \in Msg(n)
         /\ d \in Sized(n) => Request(n, d, y, serv) \in Sized(n)
         /\ Demand[n][y][serv] = 0 => Request(n, d, y, serv).req = d.req
<1> DEFINE demand == Demand[n][y][serv]
           level == Min({bytes2slots(demand) + Margin, Slots})
           ie == [node |-> y, level |-> level, pers |-> Pers(serv), serv |-> serv]
           next == IF serv = "UGS" THEN Never ELSE frame + Persist
           out == slots2bytes(level) * Pers(serv)
           m == [d.m EXCEPT !.nextFrame[y][serv] = next, !.startHorizon[y][serv] = FALSE,
                            !.neigh[y][serv].req_out = out]
           list == <<ie>> \o d.req
           size == d.size + 3
           e == [d EXCEPT !.m = m, !.req = list, !.size = size]
           c == d.m.neigh[y][serv]
           r == Request(n, d, y, serv)
<1>1. d.m \in Sane(n, frame) /\ d.m \in Mgr(n, frame) /\ d.req \in Seq(Req(n)) /\ d.size \in Nat
  BY DEF Msg, Draft, Sane
<1>2. demand \in Nat BY FairRRAssumption
<1>3. Pers(serv) \in Nat BY PersTyped
<1>4. ASSUME d.m.startHorizon[y][serv], demand > 0
      PROVE  r \in Msg(n) /\ (d \in Sized(n) => r \in Sized(n))
  <2>1. level \in 1 .. Slots
    <3> DEFINE a == bytes2slots(demand) + Margin
    <3>1. a \in Nat \ {0} /\ Slots \in Nat \ {0}
      <4>1. bytes2slots(demand) \in Nat \ {0} BY <1>2, <1>4, Conversions
      <4> QED BY <4>1, Constants
    <3> HIDE DEF a
    <3>2. Min({a, Slots}) \in {a, Slots} /\ Min({a, Slots}) <= Slots BY <3>1, MinOfTwo
    <3>3. Min({a, Slots}) \in 1 .. Slots BY <3>1, <3>2
    <3> QED BY <3>3 DEF a
  <2>13. serv \in Used BY <1>4 DEF Used
  <2>2. ie \in Req(n) BY <1>3, <2>1, <2>13 DEF Req
  <2>3. next \in Nat /\ (serv # "UGS" => next \in frame .. frame + Persist)
    BY Constants DEF Never
  <2>4. out \in Int
    <3>1. level \in Int BY <2>1
    <3> HIDE DEF level
    <3>2. slots2bytes(level) \in Int BY <3>1, Conversions
    <3> QED BY <1>3, <3>2
  <2>5. r = e
    <3> DEFINE x == AddReq(d, ie)
    <3>1. x = [d EXCEPT !.req = list, !.size = size] BY DEF AddReq, ReqSize, Msg, Draft
    <3>2. r = [x EXCEPT !.m.nextFrame[y][serv] = next,
                        !.m.startHorizon[y][serv] = FALSE,
                        !.m.neigh[y][serv].req_out = out]
      BY <1>4 DEF Request
    <3> HIDE DEF x, r, list, size, next, out
    <3>3. x.m = d.m /\ "m" \in DOMAIN x BY <3>1 DEF Msg, Draft
    <3>4. r = [x EXCEPT !.m = m] BY <1>1, <3>2, <3>3 DEF Mgr
    <3> HIDE DEF m
    <3>5. [x EXCEPT !.m = m] = e BY <3>1 DEF Msg, Draft
    <3> QED BY <3>4, <3>5
  <2> HIDE DEF next, out, level
  <2>15. m = Requested(d.m, y, serv, next, out) BY DEF Requested
  <2> HIDE DEF m
  <2>6. m \in Sane(n, frame) /\ SameTables(d.m, m) BY <1>1, <2>3, <2>4, <2>15, RequestedSane
  <2> HIDE DEF ie
  <2>7. list \in Seq(Req(n)) /\ Len(list) = 1 + Len(d.req) /\ list # <<>> /\ Len(d.req) \in Nat
    <3>1. <<ie>> \in Seq(Req(n)) /\ Len(<<ie>>) = 1 BY <2>2
    <3>2. Len(list) = 1 + Len(d.req) /\ list \in Seq(Req(n)) BY <1>1, <3>1, ConcatProperties
    <3>3. Len(d.req) \in Nat BY <1>1, LenProperties
    <3>4. list # <<>>
      <4> HIDE DEF list
      <4> QED BY <3>2, <3>3, EmptySeq
    <3> QED BY <3>2, <3>3, <3>4
  <2>8. size \in Nat /\ size = d.size + 3 BY <1>1
  <2> HIDE DEF list, size, e
  <2>9. e \in Draft(n) BY <2>6, <2>7, <2>8 DEF e, Msg, Draft
  <2>10. /\ e.req = list /\ e.size = size /\ e.m = m
         /\ e.offers = d.offers /\ e.confs = d.confs
    BY DEF e, Msg, Draft
  <2>14. OnlyBestEffort => Kept(n, e) BY <2>6, <2>10, SameKept
  <2>11. e \in Msg(n) BY <2>7, <2>9, <2>10, <2>14 DEF Msg
  <2>12. d \in Sized(n) => e \in Sized(n)
    <3>1. ASSUME d.size <= Room + 3 * Len(d.req) PROVE e.size <= Room + 3 * Len(e.req)
      <4>1. 3 * Len(e.req) = 3 * Len(d.req) + 3 BY <2>7, <2>10
      <4> QED BY <1>1, <2>7, <2>8, <2>10, <3>1, <4>1, Constants
    <3> QED BY <2>11, <3>1 DEF Sized, ReqSize
  <2> QED BY <2>5, <2>11, <2>12
<1>5. ASSUME ~(d.m.startHorizon[y][serv] /\ demand > 0)
      PROVE  r \in Msg(n) /\ r.req = d.req /\ r.size = d.size
  <2> DEFINE zero == 0
             new == [c EXCEPT !.req_out = zero]
  <2>1. c \in Desc
    <3>1. d.m.neigh \in [Nbr[n] -> [Service -> Desc]] BY <1>1 DEF Mgr
    <3> QED BY <3>1
  <2>2. zero \in Int OBVIOUS
  <2>3. r = [d EXCEPT !.m.neigh[y][serv] = new]
    <3>1. r = [d EXCEPT !.m.neigh[y][serv].req_out = zero] BY <1>5 DEF Request
    <3> HIDE DEF zero, r
    <3> QED BY <1>1, <2>1, <3>1 DEF Msg, Draft, Mgr, Desc
  <2> HIDE DEF zero, r
  <2>4. new \in Desc /\ new.level_in = c.level_in
    <3> HIDE DEF c
    <3> QED BY <2>1, <2>2 DEF Desc
  <2> HIDE DEF new
  <2>5. r \in After(n, d) BY <2>3, <2>4, NeighKeeps
  <2>6. r.size = d.size BY <2>3 DEF Msg, Draft
  <2> QED BY <2>5, <2>6 DEF After
<1> HIDE DEF r, demand
<1>6. demand = 0 => ~(demand > 0) BY <1>2
<1>7. r \in Msg(n) BY <1>4, <1>5
<1>8. d \in Sized(n) => r \in Sized(n) BY <1>4, <1>5 DEF Sized
<1>9. demand = 0 => r.req = d.req BY <1>5, <1>6
<1> QED BY <1>7, <1>8, <1>9 DEF r, demand

\* The neighbours in some order.
LEMMA LinksTyped ==
  ASSUME NEW n \in Node PROVE SetToSeq(Nbr[n]) \in Seq(Nbr[n])
<1> DEFINE S == Nbr[n]
           k == Cardinality(S)
           L == SetToSeq(S)
<1>1. IsFiniteSet(S)
  <2>1. S \subseteq Node /\ IsFiniteSet(Node) BY FairRRAssumption
  <2> QED BY <2>1, FS_Subset
<1> HIDE DEF S
<1>2. k \in Nat /\ ExistsBijection(1 .. k, S) BY <1>1, FS_CardinalityType
<1>3. PICK f : f \in Bijection(1 .. k, S) BY <1>2 DEF ExistsBijection
<1>4. f \in [1 .. k -> S] /\ IsInjective(f) BY <1>3 DEF Bijection, Injection
<1>5. L \in [1 .. k -> S] BY <1>4 DEF SetToSeq
<1> HIDE DEF L, k
<1>6. L \in Seq(S) BY <1>2, <1>5
<1> QED BY <1>6 DEF L, S

LEMMA RequestAllKeeps ==
  ASSUME NEW n \in Node, frame \in Nat, NEW d \in Msg(n), NEW links \in Seq(Nbr[n]),
         NEW serv \in Service
  PROVE  /\ RequestAll(n, d, links, serv) \in Msg(n)
         /\ d \in Sized(n) => RequestAll(n, d, links, serv) \in Sized(n)
         /\ (\A y \in Nbr[n] : Demand[n][y][serv] = 0)
               => RequestAll(n, d, links, serv).req = d.req
<1> DEFINE len == Len(links)
           S == Msg(n)
           T == Sized(n)
           Q == Quiet(n, d)
<1>1. len \in Nat /\ \A k \in 1 .. len : links[k] \in Nbr[n] BY LenProperties, ElementOfSeq
<1>2. PICK f : RequestsRun(f, n, d, links, serv) BY RequestSteps
<1> HIDE DEF len
<1>3. \A k \in 1 .. len : f[k] = Request(n, f[k - 1], links[k], serv)
  BY <1>1, <1>2 DEF RequestsRun
<1>4. f[0] = d /\ RequestAll(n, d, links, serv) = f[len] BY <1>2 DEF RequestsRun, len
<1>5. f[len] \in S
  <2>1. \A k \in 1 .. len : f[k - 1] \in S => f[k] \in S BY <1>1, <1>3, RequestKeeps
  <2> HIDE DEF S
  <2>2. f[0] \in S BY <1>4 DEF S
  <2> QED BY <1>1, <2>1, <2>2, Requests!Stays
<1>6. ASSUME d \in T PROVE f[len] \in T
  <2>1. \A e \in T : e \in S BY DEF Sized
  <2>2. \A k \in 1 .. len : f[k - 1] \in T => f[k] \in T BY <1>1, <1>3, <2>1, RequestKeeps
  <2> HIDE DEF T
  <2>3. f[0] \in T BY <1>4, <1>6
  <2> QED BY <1>1, <2>2, <2>3, Requests!Stays
<1>7. ASSUME \A y \in Nbr[n] : Demand[n][y][serv] = 0 PROVE f[len] \in Q
  <2>1. \A e \in Q : e \in S /\ e.req = d.req BY DEF Quiet
  <2>2. \A k \in 1 .. len : f[k - 1] \in Q => f[k] \in Q
    BY <1>1, <1>3, <1>7, <2>1, RequestKeeps DEF Quiet
  <2>3. f[0] \in Q BY <1>4 DEF Quiet
  <2> HIDE DEF Q
  <2> QED BY <1>1, <2>2, <2>3, Requests!Stays
<1>8. ASSUME \A y \in Nbr[n] : Demand[n][y][serv] = 0 PROVE f[len].req = d.req
  BY <1>7, <1>8 DEF Quiet
<1> QED BY <1>4, <1>5, <1>6, <1>8

LEMMA ResetSane ==
  ASSUME NEW n \in Node, NEW d \in Msg(n), NEW serv \in Service
  PROVE  LET reset == [y \in Nbr[n] |-> [d.m.neigh[y] EXCEPT ![serv] = ResetInput(@)]]
         IN [d EXCEPT !.m.neigh = reset] \in After(n, d)
<1> DEFINE neigh == [y \in Nbr[n] |-> [d.m.neigh[y] EXCEPT ![serv] = ResetInput(@)]]
           m == [d.m EXCEPT !.neigh = neigh]
<1>1. d.m \in Sane(n, frame) /\ d.m \in Mgr(n, frame) BY DEF Msg, Draft, Sane
<1>2. d.m.neigh \in [Nbr[n] -> [Service -> Desc]] BY <1>1 DEF Mgr
<1>3. \A y \in Nbr[n] : ResetInput(d.m.neigh[y][serv]) \in Desc
                        /\ ResetInput(d.m.neigh[y][serv]).level_in = d.m.neigh[y][serv].level_in
  BY <1>2, ResetTyped
<1>4. /\ neigh \in [Nbr[n] -> [Service -> Desc]]
      /\ \A y \in Nbr[n] : \A t \in Service : neigh[y][t].level_in = d.m.neigh[y][t].level_in
  BY <1>2, <1>3
<1> HIDE DEF neigh
<1>5. m \in Mgr(n, frame) BY <1>1, <1>4 DEF Mgr
<1>6. /\ m.activeList = d.m.activeList /\ m.startHorizon = d.m.startHorizon
      /\ m.nextFrame = d.m.nextFrame /\ m.unconfirmed = d.m.unconfirmed /\ m.neigh = neigh
      /\ SameTables(d.m, m)
  BY <1>1 DEF Mgr, SameTables
<1>7. [d EXCEPT !.m.neigh = neigh] = [d EXCEPT !.m = m] BY <1>1 DEF Msg, Draft, Mgr
<1> HIDE DEF m
<1>8. m \in Sane(n, frame) BY <1>1, <1>4, <1>5, <1>6, StaysSane
<1>9. [d EXCEPT !.m = m] \in After(n, d) BY <1>6, <1>8, NewMgr
<1> QED BY <1>7, <1>9 DEF neigh

\* While nothing has been requested the message fits.
LEMMA QuietFits ==
  ASSUME NEW n, NEW d \in Msg(n), d.req = <<>> PROVE d \in Sized(n)
<1>1. d.size <= Room + ReqSize * 0 BY Constants DEF Msg, Draft, ReqSize
<1>2. Len(<<>>) = 0 OBVIOUS
<1> QED BY <1>1, <1>2 DEF Sized

LEMMA ServeKeeps ==
  ASSUME NEW n \in Node, frame \in Nat, NEW d \in Msg(n), NEW serv \in Service
  PROVE  /\ Serve(n, d, serv) \in Msg(n)
         /\ d.req = <<>> => Serve(n, d, serv) \in Sized(n)
         /\ (\A y \in Nbr[n] : Demand[n][y][serv] = 0) => Serve(n, d, serv).req = d.req
<1> DEFINE c == confirm(n, d, serv)
           reset == [y \in Nbr[n] |-> [c.m.neigh[y] EXCEPT ![serv] = ResetInput(@)]]
           e == [c EXCEPT !.m.neigh = reset]
           g == GrantAll(n, e, serv)
           links == SetToSeq(Nbr[n])
           r == RequestAll(n, g, links, serv)
<1>1. Serve(n, d, serv) = r BY DEF Serve, requestGrant
<1> HIDE DEF c
<1>2. c \in Msg(n) /\ c.req = d.req
  <2>1. c \in After(n, d) BY ConfirmKeeps DEF c
  <2> QED BY <2>1 DEF After
<1>3. e \in Msg(n) /\ e.req = d.req
  <2>1. e \in After(n, c) BY <1>2, ResetSane
  <2> HIDE DEF e
  <2> QED BY <1>2, <2>1 DEF After
<1> HIDE DEF e
<1>4. g \in Msg(n) /\ g.req = d.req
  <2>1. g \in Quiet(n, e) BY <1>3, GrantAllKeeps
  <2> HIDE DEF g
  <2> QED BY <1>3, <2>1 DEF Quiet
<1>5. links \in Seq(Nbr[n]) BY LinksTyped
<1> HIDE DEF g, links
<1>6. /\ r \in Msg(n)
      /\ g \in Sized(n) => r \in Sized(n)
      /\ (\A y \in Nbr[n] : Demand[n][y][serv] = 0) => r.req = g.req
  BY <1>4, <1>5, RequestAllKeeps
<1> HIDE DEF r
<1>7. d.req = <<>> => g \in Sized(n) BY <1>4, QuietFits
<1> QED BY <1>1, <1>4, <1>6, <1>7

LEMMA ScheduleTyped ==
  ASSUME NEW n \in Node, frame \in Nat, mgr[n] \in Sane(n, frame),
         OnlyBestEffort => Ledger(mgr[n], Of(n, offers), Of(n, confs), frame)
  PROVE  /\ schedule(n) \in Msg(n)
         /\ (\A y \in Nbr[n] : \A s \in {"UGS", "NRTPS"} : Demand[n][y][s] = 0)
               => schedule(n) \in Sized(n)
<1> DEFINE a == Message(mgr[n])
           b == Availabilities(a)
           u == Serve(n, b, "UGS")
           v == Serve(n, u, "NRTPS")
           w == Serve(n, v, "BE")
<1>0. "UGS" \in Service /\ "NRTPS" \in Service /\ "BE" \in Service BY DEF Service
<1>1. schedule(n) = w BY DEF schedule
<1>2. a \in Msg(n) /\ a.req = <<>> BY NewMessage DEF Message
<1> HIDE DEF a
<1>3. b \in Msg(n) /\ b.req = <<>>
  <2>1. b \in After(n, a) BY <1>2, AvailabilitiesKeeps
  <2> HIDE DEF b
  <2> QED BY <1>2, <2>1 DEF After
<1> HIDE DEF b
<1>4. u \in Msg(n) /\ ((\A y \in Nbr[n] : Demand[n][y]["UGS"] = 0) => u.req = <<>>)
  BY <1>0, <1>3, ServeKeeps
<1> HIDE DEF u
<1>5. v \in Msg(n) /\ ((\A y \in Nbr[n] : Demand[n][y]["NRTPS"] = 0) => v.req = u.req)
  BY <1>0, <1>4, ServeKeeps
<1> HIDE DEF v
<1>6. w \in Msg(n) /\ (v.req = <<>> => w \in Sized(n)) BY <1>0, <1>5, ServeKeeps
<1> HIDE DEF w
<1> QED BY <1>1, <1>4, <1>5, <1>6

-----------------------------------------------------------------------------
(* Best effort alone: what a node has booked, over a frame and a message.    *)

Booked(m) == <<m.busy, m.grants, m.dst>>

LEMMA BookedLedger ==
  ASSUME NEW m, NEW e, Booked(e) = Booked(m), NEW given, NEW made, NEW now,
         Ledger(m, given, made, now)
  PROVE  Ledger(e, given, made, now)
BY DEF Booked, Ledger

\* Best effort has nothing to give back: it only says what is not available.
LEMMA AvailabilityBooks ==
  ASSUME NEW n \in Node, NEW x \in Nbr[n], NEW ie \in Avl, Used \subseteq {"BE"},
         NEW a \in [m : Sane(n, frame), left : Nat]
  PROVE  Booked(rcvAnyAvailability(n, x, a, ie).m) = Booked(a.m)
<1> DEFINE m == a.m
           kept == IF ie.serv = "NRTPS" THEN Min({ie.range, a.left}) ELSE 0
           floor == RealOf([ie EXCEPT !.range = kept])
           map == m.neigh_tx_unavl[x]
           new == [plain |-> map["plain"] \cup RealOf(ie), UGS |-> map["UGS"] \cup RealOf(ie),
                   NRTPS |-> map["NRTPS"] \cup floor]
           e == [m EXCEPT !.neigh_tx_unavl[x] = new]
           r == rcvAnyAvailability(n, x, a, ie)
<1>1. m \in Mgr(n, frame) BY DEF Sane
<1>2. ie.serv = "BE" /\ ie.dir = "UNAVAILABLE"
  <2>1. ie.serv = "BE" BY DEF Avl, User
  <2> QED BY <2>1 DEF Avl, Way
<1>3. r = rcvAvailability(n, x, a, ie) BY <1>2 DEF rcvAnyAvailability
<1>4. r = [a EXCEPT !.m = e, !.left = @ - kept] BY <1>2, <1>3 DEF rcvAvailability
<1> HIDE DEF r, kept, new
<1>5. r.m = e BY <1>4
<1>6. Booked(e) = Booked(m) BY <1>1 DEF Mgr, Booked
<1> QED BY <1>5, <1>6 DEF r

LEMMA GrantBooks ==
  ASSUME NEW n \in Node, NEW x \in Nbr[n], NEW m \in Sane(n, frame), NEW ie \in Gnt(x, frame)
  PROVE  Booked(rcvGrant(n, x, m, ie)) = Booked(m)
<1>1. m \in Mgr(n, frame) BY DEF Sane
<1>2. Booked(GrantToMe(x, m, ie)) = Booked(m) BY <1>1 DEF GrantToMe, Booked, Mgr
<1>3. Booked(GrantToOther(n, x, m, ie)) = Booked(m) BY <1>1 DEF GrantToOther, Booked, Mgr
<1>4. Booked(ConfirmationOutOfReach(x, m, ie)) = Booked(m)
  BY <1>1 DEF ConfirmationOutOfReach, Booked, Mgr
<1>5. Booked(ConfirmationToMe(x, m, ie)) = Booked(m)
  BY <1>1 DEF ConfirmationToMe, ConfirmationOutOfReach, Booked, Mgr
<1>6. ie.fromRequester \in BOOLEAN BY DEF Gnt
<1>7. n \notin Nbr[n] BY FairRRAssumption
<1>8. CASE ~ie.fromRequester /\ ie.node = n BY <1>2, <1>8 DEF rcvGrant
<1>9. CASE ~ie.fromRequester /\ ie.node # n BY <1>3, <1>9 DEF rcvGrant
<1>10. CASE ie.fromRequester /\ ie.node = n BY <1>5, <1>10 DEF rcvGrant
<1>11. CASE ie.fromRequester /\ ie.node \notin Nbr[n] \cup {n} BY <1>4, <1>11 DEF rcvGrant
<1>12. CASE ie.fromRequester /\ ie.node \in Nbr[n]
  <2>1. ie.node # n BY <1>7, <1>12
  <2> QED BY <1>12, <2>1 DEF rcvGrant
<1> QED BY <1>6, <1>8, <1>9, <1>10, <1>11, <1>12

LEMMA RequestBooks ==
  ASSUME NEW n \in Node, NEW x \in Nbr[n], NEW m \in Sane(n, frame), NEW ie \in Req(x)
  PROVE  Booked(rcvRequest(n, x, m, ie)) = Booked(m)
<1>1. m \in Mgr(n, frame) BY DEF Sane
<1> QED BY <1>1 DEF rcvRequest, Booked, Mgr

\* The neighbours of the sender book nothing.
LEMMA RecvBooks ==
  ASSUME NEW n \in Node, NEW x \in Nbr[n], frame \in Nat, mgr[n] \in Sane(n, frame), NEW d,
         d.avl \in Seq(Avl), d.gnt \in Seq(Gnt(x, frame)), d.req \in Seq(Req(x)),
         Used \subseteq {"BE"}
  PROVE  Booked(recvMshDsch(n, x, d)) = Booked(mgr[n])
<1> DEFINE was == Booked(mgr[n])
           S == {m \in Sane(n, frame) : Booked(m) = was}
           A == {a \in [m : Sane(n, frame), left : Nat] : Booked(a.m) = was}
           a0 == [m |-> mgr[n], left |-> NrtpsMin]
           a1 == rcvAllAvailabilities(n, x, a0, d.avl)
           m1 == rcvAvailabilities(n, x, mgr[n], d.avl)
           m2 == rcvGrants(n, x, m1, d.gnt)
           m3 == rcvRequests(n, x, m2, d.req)
<1> HIDE DEF was
<1>1. m1 \in S
  <2> DEFINE list == d.avl
  <2>1. Len(list) \in Nat /\ \A k \in 1 .. Len(list) : list[k] \in Avl OBVIOUS
  <2> HIDE DEF list
  <2>2. PICK f : HearAvlRun(f, n, x, a0, list) BY HearAvlSteps
  <2>3. ASSUME NEW k \in 1 .. Len(list), NEW a \in A
        PROVE  rcvAnyAvailability(n, x, a, list[k]) \in A
    <3>1. list[k] \in Avl /\ a.m \in Sane(n, frame) BY <2>1
    <3>2. rcvAvailability(n, x, a, list[k]) \in [m : Sane(n, frame), left : Nat]
      BY <3>1, AvailabilitySane
    <3>3. [a EXCEPT !.m = rcvUgsAvailability(n, x, @, list[k])]
            \in [m : Sane(n, frame), left : Nat]
          \/ list[k].serv # "UGS"
      BY <3>1, UgsAvailabilitySane
    <3>4. rcvAnyAvailability(n, x, a, list[k]) \in [m : Sane(n, frame), left : Nat]
      BY <3>2, <3>3 DEF rcvAnyAvailability
    <3>5. Booked(rcvAnyAvailability(n, x, a, list[k]).m) = Booked(a.m)
      BY <3>1, AvailabilityBooks
    <3> QED BY <3>4, <3>5
  <2>4. a0 \in A BY Constants DEF was
  <2> HIDE DEF A
  <2>5. f[0] \in A BY <2>2, <2>4 DEF HearAvlRun
  <2>6. \A k \in 1 .. Len(list) : f[k] = rcvAnyAvailability(n, x, f[k - 1], list[k])
    BY <2>1, <2>2 DEF HearAvlRun
  <2>7. \A k \in 1 .. Len(list) : f[k - 1] \in A => f[k] \in A BY <2>3, <2>6
  <2>8. f[Len(list)] \in A BY <2>1, <2>5, <2>7, Requests!Stays
  <2>9. a1 \in A BY <2>2, <2>8 DEF HearAvlRun, list
  <2>10. m1 = a1.m BY DEF rcvAvailabilities
  <2> HIDE DEF a1, m1
  <2> QED BY <2>9, <2>10 DEF A
<1> HIDE DEF m1
<1>2. m2 \in S
  <2> DEFINE list == d.gnt
  <2>1. Len(list) \in Nat /\ \A k \in 1 .. Len(list) : list[k] \in Gnt(x, frame) OBVIOUS
  <2> HIDE DEF list
  <2>2. PICK f : HearGntRun(f, n, x, m1, list) BY HearGntSteps
  <2>3. \A k \in 1 .. Len(list) : \A e \in S : rcvGrant(n, x, e, list[k]) \in S
    BY <2>1, GrantSane, GrantBooks
  <2> HIDE DEF S
  <2>4. \A k \in 1 .. Len(list) : f[k] = rcvGrant(n, x, f[k - 1], list[k])
    BY <2>1, <2>2 DEF HearGntRun
  <2>5. \A k \in 1 .. Len(list) : f[k - 1] \in S => f[k] \in S BY <2>3, <2>4
  <2>6. f[0] \in S BY <1>1, <2>2 DEF HearGntRun
  <2>7. f[Len(list)] \in S BY <2>1, <2>5, <2>6, Requests!Stays
  <2> QED BY <2>2, <2>7 DEF HearGntRun, list
<1> HIDE DEF m2
<1>3. m3 \in S
  <2> DEFINE list == d.req
  <2>1. Len(list) \in Nat /\ \A k \in 1 .. Len(list) : list[k] \in Req(x) OBVIOUS
  <2> HIDE DEF list
  <2>2. PICK f : HearReqRun(f, n, x, m2, list) BY HearReqSteps
  <2>3. \A k \in 1 .. Len(list) : \A e \in S : rcvRequest(n, x, e, list[k]) \in S
    BY <2>1, RequestSane, RequestBooks
  <2> HIDE DEF S
  <2>4. \A k \in 1 .. Len(list) : f[k] = rcvRequest(n, x, f[k - 1], list[k])
    BY <2>1, <2>2 DEF HearReqRun
  <2>5. \A k \in 1 .. Len(list) : f[k - 1] \in S => f[k] \in S BY <2>3, <2>4
  <2>6. f[0] \in S BY <1>2, <2>2 DEF HearReqRun
  <2>7. f[Len(list)] \in S BY <2>1, <2>5, <2>6, Requests!Stays
  <2> QED BY <2>2, <2>7 DEF HearReqRun, list
<1>4. recvMshDsch(n, x, d) = m3 BY DEF recvMshDsch, m1, m2
<1> HIDE DEF m3
<1> QED BY <1>3, <1>4 DEF was

Later(S) == {t \in S : t[3] > frame}

\* The end of a frame takes its row, and no other frame has that row.
LEMMA LaterRows ==
  ASSUME frame \in Nat, NEW S,
         \A t \in S : t[3] \in frame .. frame + Horizon - 1 /\ t[4] \in Minislot
  PROVE  Rows(Later(S)) = Rows(S) \ Row(frame)
<1>1. Horizon \in Nat BY Constants
<1>2. ASSUME NEW t \in S PROVE <<t[3] % Horizon, t[4]>> \in Row(frame) <=> t[3] = frame
  <2>1. t[3] \in Nat /\ t[3] - frame < Horizon /\ frame - t[3] < Horizon /\ t[4] \in Minislot
    BY <1>1
  <2>2. t[3] % Horizon = frame % Horizon => t[3] = frame BY <2>1, RowsDistinct
  <2> QED BY <2>1, <2>2 DEF Row
<1>3. \A t \in S : t[3] = frame \/ t[3] > frame BY <1>1
<1>4. \A t \in S : t[3] > frame => t[3] # frame BY <1>1
<1> QED BY <1>2, <1>3, <1>4 DEF Rows, Later

LEMMA EndOfFrameBooks ==
  ASSUME NEW n \in Node, frame \in Nat, mgr[n] \in Sane(n, frame), Used \subseteq {"BE"},
         NEW given, NEW made, \A t \in given \cup made : t[4] \in Minislot,
         Ledger(mgr[n], given, made, frame)
  PROVE  Ledger(EndOfFrame(n), Later(given), Later(made), frame + 1)
<1> DEFINE m == mgr[n]
           e == EndOfFrame(n)
           row == Row(frame)
<1>1. m \in Mgr(n, frame) BY DEF Sane
<1>2. row \subseteq TableCell BY RowTyped
<1>3. NotUgs(m, row) = row
  <2>1. \A c \in TableCell : m.service[c] \in User \cup {Unset} BY <1>1 DEF Mgr
  <2>2. "UGS" \notin User \cup {Unset} BY DEF User, Unset
  <2> QED BY <1>2, <2>1, <2>2 DEF NotUgs
<1>4. /\ e.busy = Without(m.busy, {"plain", "NRTPS"}, row)
      /\ e.grants = m.grants \ row /\ e.dst = Stamp(m.dst, row, None)
  BY <1>1, <1>3 DEF EndOfFrame, Mgr
<1>5. e.busy["plain"] = m.busy["plain"] \ row
  <2>1. m.busy \in Bitmap BY <1>1 DEF Mgr
  <2> QED BY <1>4, <2>1 DEF Without, Plane
<1>6. /\ m.grants \subseteq TableCell /\ DOMAIN m.dst = TableCell BY <1>1 DEF Mgr
<1> HIDE DEF e, m
<1>7. /\ m.busy["plain"] = Rows(given \cup made) /\ m.grants = Rows(made)
      /\ \A c \in m.grants : \E t \in made : c \in Rows({t}) /\ m.dst[c] = t[2]
      /\ \A t \in given \cup made : t[3] \in frame .. frame + Horizon - 1
  BY DEF Ledger, m
<1>8. Rows(Later(made)) = Rows(made) \ row BY <1>7, LaterRows
<1>9. Rows(Later(given \cup made)) = Rows(given \cup made) \ row BY <1>7, LaterRows
<1>10. Later(given \cup made) = Later(given) \cup Later(made) BY DEF Later
<1>11. ASSUME NEW c \in e.grants
       PROVE  \E t \in Later(made) : c \in Rows({t}) /\ e.dst[c] = t[2]
  <2>1. c \in m.grants /\ c \notin row BY <1>4, <1>11
  <2>2. PICK t \in made : c \in Rows({t}) /\ m.dst[c] = t[2] BY <1>7, <2>1
  <2>3. c = <<t[3] % Horizon, t[4]>> /\ t[4] \in Minislot BY <2>2 DEF Rows
  <2>4. t[3] # frame BY <2>1, <2>3 DEF Row
  <2>5. t[3] > frame
    <3>1. t[3] \in frame .. frame + Horizon - 1 BY <1>7
    <3> QED BY <2>4, <3>1, Constants
  <2>6. e.dst[c] = m.dst[c] BY <1>4, <1>6, <2>1 DEF Stamp
  <2> QED BY <2>2, <2>5, <2>6 DEF Later
<1>12. \A t \in Later(given) \cup Later(made) : t[3] \in frame + 1 .. frame + 1 + Horizon - 1
  <2>1. \A k \in frame .. frame + Horizon - 1 :
          k > frame => k \in frame + 1 .. frame + 1 + Horizon - 1
    BY Constants
  <2> QED BY <1>7, <2>1 DEF Later
<1> QED BY <1>4, <1>5, <1>7, <1>8, <1>9, <1>10, <1>11, <1>12 DEF Ledger, e

-----------------------------------------------------------------------------
(* The bandwidth managers, in every reachable state. *)

(* Every manager is sane, that is: its tables, lists and counters hold what   *)
(* they may hold, those waiting for their turn have asked for something and   *)
(* wait once, flows that may not request wait for a frame to come, and with   *)
(* UGS alone the tables are the same in every row; what the handshake records *)
(* is between neighbours, and with best effort alone the tables hold it.      *)
IInv ==
    /\ frame \in 0 .. MaxFrame
    /\ \A n \in Node : mgr[n] \in Sane(n, frame)
    /\ \A t \in offers \cup confs : t \in Slot4 /\ t[2] \in Nbr[t[1]]
    /\ OnlyBestEffort => \A n \in Node : Ledger(mgr[n], Of(n, offers), Of(n, confs), frame)

LEMMA InitIInv == Init => IInv
<1> SUFFICES ASSUME Init PROVE IInv
  OBVIOUS
<1>1. frame \in 0 .. MaxFrame BY FairRRAssumption DEF Init
<1>2. \A n \in Node : mgr[n] \in Sane(n, frame) BY ManagerTyped DEF Init
<1>3. ASSUME NEW n \in Node PROVE Ledger(mgr[n], Of(n, offers), Of(n, confs), frame)
  <2>1. mgr[n] = Manager(n) /\ Of(n, offers) = {} /\ Of(n, confs) = {} BY DEF Init, Of
  <2>2. mgr[n].busy["plain"] = {} /\ mgr[n].grants = {} BY <2>1 DEF Manager, Clear, Plane
  <2>3. Rows({}) = {} BY DEF Rows
  <2> QED BY <2>1, <2>2, <2>3 DEF Ledger
<1> QED BY <1>1, <1>2, <1>3 DEF Init, IInv

LEMMA StutterIInv == IInv /\ UNCHANGED vars => IInv'
<1> SUFFICES ASSUME IInv, UNCHANGED vars PROVE IInv'
  OBVIOUS
<1>1. /\ frame' = frame /\ mgr' = mgr /\ offers' = offers /\ confs' = confs
  BY DEF vars
<1> QED BY <1>1 DEF IInv

LEMMA NextFrameIInv == IInv /\ NextFrame => IInv'
<1> SUFFICES ASSUME IInv, NextFrame PROVE IInv'
  OBVIOUS
<1>1. frame \in Nat /\ frame' = frame + 1 /\ frame' \in 0 .. MaxFrame
  BY FairRRAssumption DEF IInv, NextFrame
<1>2. ASSUME NEW n \in Node PROVE mgr'[n] \in Sane(n, frame')
  <2>1. EndOfFrame(n) \in Sane(n, frame + 1) BY <1>1, EndOfFrameSane DEF IInv
  <2>2. mgr'[n] = EndOfFrame(n) BY DEF NextFrame
  <2> QED BY <1>1, <2>1, <2>2
<1>3. offers' \cup confs' \subseteq offers \cup confs BY DEF NextFrame
<1>4. \A t \in offers' \cup confs' : t \in Slot4 /\ t[2] \in Nbr[t[1]] BY <1>3 DEF IInv
<1>5. ASSUME OnlyBestEffort, NEW n \in Node
      PROVE  Ledger(mgr'[n], Of(n, offers'), Of(n, confs'), frame')
  <2> DEFINE given == Of(n, offers)
             made == Of(n, confs)
  <2>1. \A t \in given \cup made : t[4] \in Minislot BY DEF IInv, Of, Slot4
  <2>2. Ledger(mgr[n], given, made, frame) BY <1>5 DEF IInv
  <2>3. Of(n, offers') = Later(given) /\ Of(n, confs') = Later(made)
    BY DEF NextFrame, Of, Later
  <2>4. mgr[n] \in Sane(n, frame) /\ Used \subseteq {"BE"} BY <1>5 DEF IInv, OnlyBestEffort
  <2> HIDE DEF given, made
  <2>5. Ledger(EndOfFrame(n), Later(given), Later(made), frame + 1)
    BY <1>1, <2>1, <2>2, <2>4, EndOfFrameBooks
  <2>6. mgr'[n] = EndOfFrame(n) BY DEF NextFrame
  <2> QED BY <1>1, <2>3, <2>5, <2>6
<1> QED BY <1>1, <1>2, <1>4, <1>5 DEF IInv

LEMMA DschIInv == ASSUME NEW n \in Node, IInv, Dsch(n) PROVE IInv'
<1> DEFINE d == schedule(n)
<1>1. frame \in Nat /\ frame' = frame /\ \A x \in Node : mgr[x] \in Sane(x, frame)
  BY FairRRAssumption DEF IInv, Dsch
<1>11. OnlyBestEffort => \A x \in Node : Ledger(mgr[x], Of(x, offers), Of(x, confs), frame)
  BY DEF IInv
<1>2. d \in Msg(n) BY <1>1, <1>11, ScheduleTyped
<1> DEFINE heard(lost) == Nbr[n] \ lost
<1>3. PICK lost \in SUBSET (Nbr[n] \cap Lossy) :
        /\ mgr' = [x \in Node |-> IF x = n THEN d.m
                                  ELSE IF x \in heard(lost) THEN recvMshDsch(x, n, d) ELSE mgr[x]]
        /\ offers' = offers \cup d.offers
        /\ confs' = confs \cup d.confs
  BY DEF Dsch
<1> HIDE DEF d
<1>4. heard(lost) \subseteq Nbr[n] OBVIOUS
<1>5. ASSUME NEW x \in Node PROVE mgr'[x] \in Sane(x, frame)
  <2>1. CASE x = n BY <1>2, <1>3, <2>1 DEF Msg, Draft
  <2>2. CASE x # n /\ x \in heard(lost)
    <3>1. n \in Nbr[x] BY <1>4, <2>2, FairRRAssumption
    <3>2. d.avl \in Seq(Avl) /\ d.gnt \in Seq(Gnt(n, frame)) /\ d.req \in Seq(Req(n))
      BY <1>2 DEF Msg, Draft
    <3>3. recvMshDsch(x, n, d) \in Sane(x, frame) BY <1>1, <3>1, <3>2, RecvSane
    <3> QED BY <1>3, <2>2, <3>3
  <2>3. CASE x # n /\ x \notin heard(lost) BY <1>1, <1>3, <2>3
  <2> QED BY <2>1, <2>2, <2>3
<1>6. ASSUME NEW t \in Promise(n) PROVE t \in Slot4 /\ t[2] \in Nbr[t[1]]
  <2>1. Nbr[n] \subseteq Node BY FairRRAssumption
  <2> QED BY <2>1 DEF Promise, Slot4
<1>7. d.offers \subseteq Promise(n) /\ d.confs \subseteq Promise(n) BY <1>2 DEF Msg, Draft
<1>8. \A t \in offers' \cup confs' : t \in Slot4 /\ t[2] \in Nbr[t[1]]
  BY <1>3, <1>6, <1>7 DEF IInv
<1>9. frame' \in 0 .. MaxFrame BY <1>1 DEF IInv
<1>10. \A x \in Node : mgr'[x] \in Sane(x, frame') BY <1>1, <1>5
<1>12. ASSUME OnlyBestEffort, NEW x \in Node
       PROVE  Ledger(mgr'[x], Of(x, offers'), Of(x, confs'), frame)
  <2>1. \A t \in Promise(n) : t[1] = n BY DEF Promise
  <2>2. CASE x = n
    <3>1. Kept(n, d) BY <1>2, <1>12 DEF Msg
    <3>2. Of(n, offers') = Of(n, offers) \cup d.offers /\ Of(n, confs') = Of(n, confs) \cup d.confs
      BY <1>3, <1>7, <2>1 DEF Of
    <3> QED BY <1>3, <2>2, <3>1, <3>2 DEF Kept
  <2>3. CASE x # n
    <3>1. Of(x, offers') = Of(x, offers) /\ Of(x, confs') = Of(x, confs)
      BY <1>3, <1>7, <2>1, <2>3 DEF Of
    <3>2. Booked(mgr'[x]) = Booked(mgr[x])
      <4>1. CASE x \in heard(lost)
        <5>1. n \in Nbr[x] BY <1>4, <4>1, FairRRAssumption
        <5>2. d.avl \in Seq(Avl) /\ d.gnt \in Seq(Gnt(n, frame)) /\ d.req \in Seq(Req(n))
          BY <1>2 DEF Msg, Draft
        <5>3. Used \subseteq {"BE"} BY <1>12 DEF OnlyBestEffort
        <5>4. Booked(recvMshDsch(x, n, d)) = Booked(mgr[x]) BY <1>1, <5>1, <5>2, <5>3, RecvBooks
        <5> QED BY <1>3, <2>3, <4>1, <5>4
      <4>2. CASE x \notin heard(lost) BY <1>3, <2>3, <4>2
      <4> QED BY <4>1, <4>2
    <3>3. Ledger(mgr[x], Of(x, offers), Of(x, confs), frame) BY <1>11, <1>12
    <3> QED BY <3>1, <3>2, <3>3, BookedLedger
  <2> QED BY <2>2, <2>3
<1> QED BY <1>1, <1>8, <1>9, <1>10, <1>12 DEF IInv

THEOREM Invariant == Spec => []IInv
<1>1. IInv /\ [Next]_vars => IInv'
  BY NextFrameIInv, DschIInv, StutterIInv DEF Next
<1> QED BY InitIInv, <1>1, PTL DEF Spec

(* The tables hold cells, and the lists and the history name neighbours.      *)
LEMMA IInvTypeOK == IInv => TypeOK
<1> SUFFICES ASSUME IInv PROVE TypeOK
  OBVIOUS
<1>1. /\ frame \in 0 .. MaxFrame
      /\ offers \cup confs \subseteq Slot4
      /\ \A t \in offers \cup confs : t[2] \in Nbr[t[1]]
  BY DEF IInv
<1>2. ASSUME NEW n \in Node
      PROVE  LET m == mgr[n]
                 maps == {m.busy, m.unconfirmedSlots, m.self_rx_unavl, m.self_tx_unavl}
                           \cup {m.neigh_tx_unavl[y] : y \in Nbr[n]}
             IN /\ \A map \in maps : DOMAIN map = Plane /\ UNION {map[p] : p \in Plane} \subseteq TableCell
                /\ m.grants \subseteq TableCell
                /\ \A c \in TableCell : /\ m.service[c] \in Service \cup {Unset, "RTPS"}
                                        /\ m.dst[c] \in Nbr[n] \cup {None}
                                        /\ m.src[c] \in Nbr[n] \cup {None}
                /\ \A g \in ToSet(m.unconfirmed) : g.fromRequester /\ g.node \in Nbr[n]
                /\ \A s \in Service : ToSet(m.activeList[s]) \subseteq Nbr[n]
  <2> DEFINE m == mgr[n]
             maps == {m.busy, m.unconfirmedSlots, m.self_rx_unavl, m.self_tx_unavl}
                       \cup {m.neigh_tx_unavl[y] : y \in Nbr[n]}
  <2>1. m \in Sane(n, frame) /\ m \in Mgr(n, frame) BY DEF IInv, Sane
  <2> HIDE DEF m
  <2>2. \A map \in maps : map \in Bitmap BY <2>1 DEF Mgr
  <2>3. \A map \in Bitmap : DOMAIN map = Plane /\ UNION {map[p] : p \in Plane} \subseteq TableCell
    BY DEF Bitmap
  <2>4. m.grants \subseteq TableCell BY <2>1 DEF Mgr
  <2>5. \A c \in TableCell : /\ m.service[c] \in Service \cup {Unset, "RTPS"}
                             /\ m.dst[c] \in Nbr[n] \cup {None}
                             /\ m.src[c] \in Nbr[n] \cup {None}
    BY <2>1, UsedServices DEF Mgr
  <2>6. \A g \in ToSet(m.unconfirmed) : g.fromRequester /\ g.node \in Nbr[n]
    <3>1. m.unconfirmed \in Seq(Gnt(n, frame)) BY <2>1 DEF Mgr
    <3>2. \A i \in DOMAIN m.unconfirmed : m.unconfirmed[i] \in Gnt(n, frame) BY <3>1
    <3>3. \A g \in Gnt(n, frame) : g.node \in Nbr[n] BY DEF Gnt
    <3>4. \A i \in DOMAIN m.unconfirmed : m.unconfirmed[i].fromRequester BY <2>1 DEF Sane
    <3> QED BY <3>2, <3>3, <3>4 DEF ToSet
  <2>7. \A s \in Service : ToSet(m.activeList[s]) \subseteq Nbr[n]
    BY <2>1 DEF Mgr, ToSet
  <2> QED BY <2>2, <2>3, <2>4, <2>5, <2>6, <2>7 DEF m
<1> QED BY <1>1, <1>2 DEF TypeOK

THEOREM TypeCorrect == Spec => []TypeOK
BY Invariant, IInvTypeOK, PTL

(* A neighbour waits for its turn at most once, and only if it asked for      *)
(* something: recvMshDsch searches the active list before it appends, and     *)
(* requestGrant serves each entry once.                                       *)
THEOREM WaitsAtMostOnce == Spec => []WaitsOnce
<1>1. IInv => WaitsOnce
  <2> SUFFICES ASSUME IInv, NEW n \in Node, NEW s \in Service
               PROVE  /\ IsInjective(mgr[n].activeList[s])
                      /\ \A y \in ToSet(mgr[n].activeList[s]) : mgr[n].neigh[y][s].level_in > 0
    BY DEF WaitsOnce
  <2>1. Waits(mgr[n]) BY DEF IInv, Sane
  <2> QED BY <2>1 DEF Waits, ToSet
<1> QED BY Invariant, <1>1, PTL

(* A flow that may not request now may do so at the end of a frame that is at *)
(* most the persistence of a grant away: handle compares the number of every  *)
(* frame that ends, and none is skipped.                                      *)
THEOREM RequestsDoResume == Spec => []RequestsResume
<1>1. IInv => RequestsResume
  BY DEF IInv, Sane, Resumes, RequestsResume
<1> QED BY Invariant, <1>1, PTL

(* Without UGS and nrtPS traffic, grants, confirmations and availabilities    *)
(* are added to a message only while there is room: the unsigned remaining () *)
(* wraps around only after best effort, the last service, has requested.      *)
THEOREM BestEffortGrantsFit ==
  ASSUME \A n \in Node : \A y \in Nbr[n] : \A s \in {"UGS", "NRTPS"} : Demand[n][y][s] = 0
  PROVE  Spec => GrantsFit
<1> DEFINE Fit(n) == schedule(n).size <= Room + ReqSize * Len(schedule(n).req)
<1>1. IInv => \A n \in Node : Fit(n)
  <2> SUFFICES ASSUME IInv, NEW n \in Node
               PROVE  schedule(n).size <= Room + ReqSize * Len(schedule(n).req)
    OBVIOUS
  <2>1. /\ frame \in Nat /\ mgr[n] \in Sane(n, frame)
        /\ OnlyBestEffort => Ledger(mgr[n], Of(n, offers), Of(n, confs), frame)
    BY FairRRAssumption DEF IInv
  <2>2. schedule(n) \in Sized(n) BY <2>1, ScheduleTyped
  <2> QED BY <2>2 DEF Sized
<1>2. IInv /\ [Next]_vars =>
        [\A n \in Node : last'[n] # last[n] =>
            LET d == schedule(n) IN d.size <= Room + ReqSize * Len(d.req)]_vars
  BY <1>1
<1> QED BY Invariant, <1>2, PTL DEF Spec, GrantsFit

(* Without nrtPS traffic the loop that grants to a link ends: each of its      *)
(* passes takes a minislot that is free in the look-ahead row, or lent by      *)
(* best effort, and what it grants covers that row, since a grant lasts        *)
(* longer than the look-ahead.  (nrtPS may start anew when its minimum is      *)
(* exceeded.)                                                                 *)
THEOREM GrantsDoEnd ==
  ASSUME \A n \in Node : \A y \in Nbr[n] : Demand[n][y]["NRTPS"] = 0,
         LookAhead < Persist
  PROVE  Spec => []GrantsEnd
<1>1. Terminates
  <2>1. \A n \in Node : \A y \in Nbr[n] : ~(Demand[n][y]["NRTPS"] > 0) OBVIOUS
  <2>2. "NRTPS" \notin Used BY <2>1, Zenon DEF Used
  <2> QED BY <2>2 DEF Terminates
<1>2. IInv => GrantsEnd
  <2> SUFFICES ASSUME IInv, NEW n \in Node PROVE schedule(n).passes <= MaxPasses
    BY DEF GrantsEnd
  <2>1. /\ frame \in Nat /\ mgr[n] \in Sane(n, frame)
        /\ OnlyBestEffort => Ledger(mgr[n], Of(n, offers), Of(n, confs), frame)
    BY FairRRAssumption DEF IInv
  <2>2. schedule(n) \in Msg(n) BY <2>1, ScheduleTyped
  <2>3. schedule(n).passes \in 0 .. MaxPasses BY <1>1, <2>2 DEF Msg, Draft, Passes
  <2> QED BY <2>3
<1> QED BY Invariant, <1>2, PTL

(* With best effort alone, the tables of a node hold what it has granted and   *)
(* confirmed for the frames that are not over, no more and no less: these are  *)
(* less than a horizon away, so no two of them share a row; what a node hears  *)
(* changes none of its bookings; and the end of a frame takes just its row.    *)
THEOREM TablesDoMatchHandshake ==
  ASSUME \A n \in Node : \A y \in Nbr[n] : \A s \in {"UGS", "NRTPS"} : Demand[n][y][s] = 0,
         Handshake + LookAhead + Persist <= Horizon
  PROVE  Spec => []TablesMatchHandshake
<1>1. OnlyBestEffort
  <2>1. \A s \in {"UGS", "NRTPS"} : \A n \in Node : \A y \in Nbr[n] : ~(Demand[n][y][s] > 0)
    OBVIOUS
  <2>2. "UGS" \notin Used /\ "NRTPS" \notin Used BY <2>1, Zenon DEF Used
  <2> QED BY <2>2, UsedServices DEF OnlyBestEffort, Service
<1>2. IInv => TablesMatchHandshake
  <2> SUFFICES ASSUME IInv, NEW n \in Node
               PROVE  /\ mgr[n].busy["plain"] = Rows(Of(n, offers \cup confs))
                      /\ mgr[n].grants = Rows(Of(n, confs))
                      /\ \A c \in mgr[n].grants :
                           \E t \in Of(n, confs) : c \in Rows({t}) /\ mgr[n].dst[c] = t[2]
    BY DEF TablesMatchHandshake
  <2>1. Ledger(mgr[n], Of(n, offers), Of(n, confs), frame) BY <1>1 DEF IInv
  <2>2. Of(n, offers \cup confs) = Of(n, offers) \cup Of(n, confs) BY DEF Of
  <2> QED BY <2>1, <2>2 DEF Ledger
<1> QED BY Invariant, <1>2, PTL

(* With UGS alone, a minislot booked in some row is booked in every row, and   *)
(* transmitted in, if at all, in every row and to the same neighbour: a UGS    *)
(* grant has a horizon of frames wherever it starts, and what is taken from    *)
(* UGS is taken in all of them.  Looking at one row is enough.                 *)
THEOREM UgsIsInEveryRow ==
  ASSUME \A n \in Node : \A y \in Nbr[n] : \A s \in {"NRTPS", "BE"} : Demand[n][y][s] = 0
  PROVE  Spec => []UgsInEveryRow
<1>1. OnlyUgs
  <2>1. \A s \in {"NRTPS", "BE"} : \A n \in Node : \A y \in Nbr[n] : ~(Demand[n][y][s] > 0)
    OBVIOUS
  <2>2. "NRTPS" \notin Used /\ "BE" \notin Used BY <2>1, Zenon DEF Used
  <2> QED BY <2>2, UsedServices DEF OnlyUgs, Service
<1>2. IInv => UgsInEveryRow
  <2> SUFFICES ASSUME IInv, NEW n \in Node, NEW c \in mgr[n].busy["UGS"], NEW F \in 0 .. Horizon - 1
               PROVE  /\ <<F, c[2]>> \in mgr[n].busy["UGS"]
                      /\ c \in mgr[n].grants =>
                            /\ <<F, c[2]>> \in mgr[n].grants
                            /\ mgr[n].dst[<<F, c[2]>>] = mgr[n].dst[c]
    BY Zenon DEF UgsInEveryRow
  <2>1. Columns(mgr[n]) BY <1>1 DEF IInv, Sane
  <2> QED BY <2>1 DEF Columns
<1> QED BY Invariant, <1>2, PTL
=============================================================================
