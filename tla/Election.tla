------------------------------- MODULE Election -------------------------------
(***************************************************************************)
(* The mesh election of IEEE 802.16 as WimshCoordinatorStandard runs it for *)
(* MSH-DSCH messages.  When a node has a control slot it elects its next     *)
(* one, alone: it looks for the first slot after its holdoff time that it    *)
(* wins against every neighbour, up to two hops, that may want it.  What it  *)
(* knows of them is what they announced in the messages it got.              *)
(*                                                                          *)
(* A receiver dates what it is told by the end of the message, which         *)
(* currentCtrlSlotDsch rounds: one that lasts more than half of its slot is  *)
(* dated one slot late.  late and misled are history variables, they record  *)
(* where that happened.  MSH-NCFG is not covered: electionNcfg places what   *)
(* it elects at another slot of the same frame.                              *)
(*                                                                          *)
(* Time is counted from now, in control slots for MSH-DSCH messages: the    *)
(* difference between nextXmtTime_ and the slots elapsed since timeStamp_,   *)
(* which competition computes.  Only the pseudo-random order needs the       *)
(* absolute slot, and that modulo the width of its argument.                 *)
(***************************************************************************)
EXTENDS Naturals, FiniteSets

CONSTANTS Node,           \* node identifiers, natural numbers
          Meshes,         \* the topologies considered
          OneHop(_, _),   \* OneHop(mesh, n): the one-hop neighbours of n
          TwoHop(_, _),   \* TwoHop(mesh, n): those exactly two hops away
          HoldoffExp,     \* HoldoffExp[n]: holdOffExp_
          Base,           \* the holdoff time of exponent 0 (1 << 4)
          First,          \* First[n]: the first slot of n (nextxmttime)
          Types,          \* the coordination types: XMTAWARE, XMTUNAWARE
          MaxAdvertised,  \* maxAdvertisedNeighbors_
          Period,         \* slot numbers repeat, for the order, after these
          Smear1(_, _),   \* Smear1(n, x): what decides slot x for node n
          Smear2(_, _),   \* the value compared when the first ones are equal
          Horizon,        \* bound: the furthest slot ahead that is elected
          Stamps          \* Stamps[n]: slots by which a message of n may be dated late

Near(mesh, n) == OneHop(mesh, n) \cup TwoHop(mesh, n)

computeHoldoffTime(e) == Base * 2^e

ASSUME ElectionAssumption ==
    /\ Node \subseteq Nat
    /\ \A mesh \in Meshes : \A a, b \in Node :
          /\ OneHop(mesh, a) \subseteq Node /\ TwoHop(mesh, a) \subseteq Node
          /\ b \in OneHop(mesh, a) => a \in OneHop(mesh, b)
          /\ b \in TwoHop(mesh, a) => a \in TwoHop(mesh, b)
          /\ b \in Near(mesh, a) => a # b
    /\ HoldoffExp \in [Node -> Nat]
    /\ Base \in Nat \ {0}
    /\ First \in [Node -> Nat]
    /\ \A a, b \in Node : a # b => First[a] # First[b]
    /\ \A a, b \in Node : First[a] < computeHoldoffTime(HoldoffExp[b])
    /\ Period \in Nat \ {0}
    /\ Types \subseteq {"XMTAWARE", "XMTUNAWARE"}
    /\ MaxAdvertised \in Nat
    /\ Horizon \in Nat
    /\ Stamps \in [Node -> SUBSET {0, 1}]

\* Arithmetic of shifts that is evaluated, not proved.
ASSUME PowerAssumption == \A n \in Node : 2^HoldoffExp[n] \in Nat \ {0}

\* The order is strict: smear is one-to-one on the 16 bits it works on.
ASSUME SmearAssumption ==
    \A x \in 0 .. Period - 1 : \A a, b \in Node :
        /\ Smear1(a, x) \in Nat
        /\ Smear1(a, x) = Smear1(b, x) => a = b

VARIABLES mesh,    \* the topology, given at the start
          type,    \* the coordination type of the nodes, given at the start
          phase,   \* the current slot modulo Period
          wait,    \* wait[n]: slots until the next one of n (nextDschSlot_)
          owners,  \* the nodes whose slot the current one is: they do not hear
          ngh,     \* ngh[a][b]: what a believes of b's next one (nextXmtTime_), 0 if nothing
          late,    \* late[a][b]: the slots by which that was dated late
          misled   \* misled[n]: whom n believed late things of when it elected its slot

vars == <<mesh, type, phase, wait, owners, ngh, late, misled>>

Aware == type = "XMTAWARE"

\* initialize and start: nobody knows of anybody.
Init == /\ mesh \in Meshes
        /\ type \in Types
        /\ phase = 0
        /\ wait = First
        /\ owners = {n \in Node : First[n] = 0}
        /\ ngh = [a \in Node |-> [b \in Node |-> 0]]
        /\ late = ngh
        /\ misled = [n \in Node |-> {}]

-----------------------------------------------------------------------------
\* Mutants: a neighbour nothing is known of does not compete; the interval of
\* the next transmission ends one slot before its last one.
CompetesIfKnown(v, e, temp) ==
    \/ temp >= v /\ temp <= v + 2^e
    \/ v + computeHoldoffTime(e) <= temp
CompetesUntilNext(v, e, temp) ==
    \/ v = 0
    \/ Aware /\ v = temp
    \/ ~Aware /\ temp >= v /\ temp <= v + 2^e

\* competingNodes: may a neighbour with holdoff exponent e whose next slot is
\* believed to be v (or, unless it tells exactly, in the 2^e slots from v on)
\* transmit temp slots from now?
Competes(v, e, temp) ==
    \/ v = 0
    \/ Aware /\ v = temp
    \/ ~Aware /\ temp >= v /\ temp <= v + 2^e
    \/ v + computeHoldoffTime(e) <= temp

\* Mutant: the slot is left out of the order, so the same node always wins.
LosesAlways(n, b, x) == Smear1(b, 0) > Smear1(n, 0)

\* Node n loses slot x to node b (the three comparisons of meshElection).
LosesTo(n, b, x) ==
    \/ Smear1(b, x) > Smear1(n, x)
    \/ /\ Smear1(b, x) = Smear1(n, x)
       /\ Smear2(b, x) > Smear2(n, x)
    \/ /\ Smear1(b, x) < Smear1(n, x)
       /\ Smear1(b, x) = Smear2(n, x)
       /\ IF x % 2 = 0 THEN b > n ELSE b < n

\* meshElection: n wins the slot temp slots from now, as far as it knows.
meshElection(n, temp) ==
    \A b \in Near(mesh, n) :
        Competes(ngh[n][b], HoldoffExp[b], temp) => ~LosesTo(n, b, (phase + temp) % Period)

\* competition: t is the first slot after the holdoff time that n wins.
Elects(n, t) ==
    LET holdoff == computeHoldoffTime(HoldoffExp[n])
    IN /\ t >= holdoff
       /\ meshElection(n, t)
       /\ \A u \in holdoff .. t - 1 : ~meshElection(n, u)

\* The slots that competition tries, up to a bound that it never needs.
Candidates(n) == computeHoldoffTime(HoldoffExp[n]) .. Horizon

\* Mutant: the last slot of the interval is kept instead of the first.
UpperBound(e, t) == IF Aware THEN t ELSE 2^e * (1 + (t - 1) \div 2^e)

\* fillSelf and recvMshDsch: what a neighbour notes of the sender's next slot
\* t: t itself or the first slot of the interval, of 2^e slots, that t lies in
\* (computeXmtTimeMx).
LowerBound(e, t) == IF Aware THEN t ELSE 1 + 2^e * ((t - 1) \div 2^e)

\* The neighbours whose next slot n can include in a message.
Known(n) == IF Aware THEN {b \in OneHop(mesh, n) : ngh[n][b] > 0} ELSE {}

\* The places they may have in the list that competition has sorted by slot:
\* those believed to have the same one are in the order they were in before.
Lists(n) ==
    {place \in [Known(n) -> 1 .. Cardinality(Known(n))] :
        \A b, c \in Known(n) : b # c => /\ place[b] # place[c]
                                        /\ ngh[n][b] < ngh[n][c] => place[b] < place[c]}

\* fillNeighbors: the first ones, as many as allowed.
Advertised(n, place) == {b \in Known(n) : place[b] <= MaxAdvertised}

\* recvMshDsch: of the elements about two-hop neighbours of a only the first
\* one found is used, and elements are added in front: it is the last one.
Used(a, n, place) ==
    LET news == Advertised(n, place) \cap TwoHop(mesh, a)
    IN {b \in news : \A c \in news : place[c] <= place[b]}

\* recvMshDsch: what a, which hears n announce slot t and dates the message l
\* slots late, believes then, and by how much that is late.
Heard(a, n, t, place, l) ==
    [b \in Node |-> IF b = n THEN LowerBound(HoldoffExp[n], t) + l
                    ELSE IF b \in Used(a, n, place) THEN ngh[n][b] + l
                    ELSE ngh[a][b]]
Lateness(a, n, place, l) ==
    [b \in Node |-> IF b = n THEN l
                    ELSE IF b \in Used(a, n, place) THEN late[n][b] + l
                    ELSE late[a][b]]

\* The neighbours of n of which it believes something dated late.
Doubtful(n) == {b \in Near(mesh, n) : ngh[n][b] > 0 /\ late[n][b] > 0}

\* Mutant: who hears a message elects anew, after the sender.
TransmitPostpones(n) ==
    /\ wait[n] = 0
    /\ \E t \in Candidates(n) :
          /\ Elects(n, t)
          /\ wait' = [m \in Node |-> IF m = n THEN t
                                     ELSE IF m \in OneHop(mesh, n) THEN t + 1 + m ELSE wait[m]]
    /\ UNCHANGED <<mesh, type, phase, owners, ngh, late, misled>>

\* handle, in a slot of n: elect the next slot, then transmit.  The message
\* may be lost on its way to any neighbour.
Transmit(n) ==
    /\ wait[n] = 0
    /\ \E t \in Candidates(n) :
          /\ Elects(n, t)
          /\ wait' = [wait EXCEPT ![n] = t]
          /\ \E hearers \in SUBSET (OneHop(mesh, n) \ owners), place \in Lists(n), l \in Stamps[n] :
                /\ ngh' = [a \in Node |-> IF a \in hearers THEN Heard(a, n, t, place, l) ELSE ngh[a]]
                /\ late' = [a \in Node |-> IF a \in hearers THEN Lateness(a, n, place, l) ELSE late[a]]
    /\ misled' = [misled EXCEPT ![n] = Doubtful(n)]
    /\ UNCHANGED <<mesh, type, phase, owners>>

\* The slot is over.  What has been announced for it is no longer known.
Tick ==
    /\ \A n \in Node : wait[n] > 0
    /\ wait' = [n \in Node |-> wait[n] - 1]
    /\ owners' = {n \in Node : wait[n] = 1}
    /\ ngh' = [a \in Node |-> [b \in Node |-> IF ngh[a][b] > 0 THEN ngh[a][b] - 1 ELSE 0]]
    /\ late' = [a \in Node |-> [b \in Node |-> IF ngh[a][b] > 1 THEN late[a][b] ELSE 0]]
    /\ phase' = (phase + 1) % Period
    /\ UNCHANGED <<mesh, type, misled>>

Next == Tick \/ \E n \in Node : Transmit(n)

Spec == Init /\ [][Next]_vars

\* The timer of a coordinator always fires, and handle always transmits.
FairSpec == Spec /\ WF_vars(Tick) /\ \A n \in Node : WF_vars(Transmit(n))

-----------------------------------------------------------------------------
(* Properties *)

TypeOK == /\ mesh \in Meshes
          /\ type \in Types
          /\ phase \in 0 .. Period - 1
          /\ wait \in [Node -> Nat]
          /\ owners \in SUBSET Node
          /\ ngh \in [Node -> [Node -> Nat]]
          /\ late \in [Node -> [Node -> Nat]]
          /\ misled \in [Node -> SUBSET Node]

\* Two nodes that a common neighbour could hear have the same slot only if one
\* of them elected it while it believed of the other something dated late.
\* Lost announcements, hidden nodes and elections in between are no reason:
\* nothing else that competition takes for granted lets both win.
NoSharedSlot ==
    \A a \in Node : \A b \in Near(mesh, a) :
        wait[a] = wait[b] => b \in misled[a] \/ a \in misled[b]

\* What a node believes of a neighbour's next slot is true after any number of
\* slots, elections and messages passed on since it was heard, but for the
\* slots by which it was dated late: the slot itself, or an interval of
\* 2^holdOffExp_ slots that holds it.  It is about a slot gone by, if at all,
\* only in the last of those slots.
KnowledgeSound ==
    \A a \in Node : \A b \in Near(mesh, a) :
        ngh[a][b] > late[a][b] =>
            /\ ngh[a][b] <= wait[b] + late[a][b]
            /\ wait[b] + late[a][b] < ngh[a][b] + 2^HoldoffExp[b]
            /\ Aware => wait[b] + late[a][b] = ngh[a][b]

\* Two nodes that a common neighbour could hear never have the same slot: the
\* requests of the election "modified to avoid collision of requests".
NeverShared == \A a \in Node : \A b \in Near(mesh, a) : wait[a] # wait[b]

\* The loop of competition ends: whatever a node knows when its slot comes, it
\* soon wins a slot against those that may want it.
ElectionEnds ==
    \A n \in Node : wait[n] = 0 => \E t \in Candidates(n) : Elects(n, t)

\* Every node transmits again and again.
EveryNodeTransmits == \A n \in Node : []<>(wait[n] = 0)

Holdoff(n) == computeHoldoffTime(HoldoffExp[n])

Access == INSTANCE ControlAccess WITH doubtful <- [n \in Node |-> Doubtful(n)]

\* The elections hand out the control slots as ControlAccess promises: a slot
\* is shared only where somebody elected it on knowledge that had been spread
\* by a message dated late.
ImplementsControlAccess == Access!Spec
=============================================================================
