-------------------------- MODULE ReservationProofs --------------------------
(***************************************************************************)
(* Proofs about Reservation, for every set of nodes, every symmetric         *)
(* neighbourhood and every set of cells.                                     *)
(***************************************************************************)
EXTENDS Reservation, TLAPS

\* Nothing is reserved when the network starts.
LEMMA InitIInv == Init => IInv
BY DEF Init, IInv, TypeOK, GrantsToNeighbours, ConfirmedWasGranted, OneOffer,
       OneRole, OfferProtected, Reserved

(* What the guards of one MSH-DSCH message mean for the elements it adds.    *)
LEMMA NewGrant ==
  ASSUME NEW n \in Node, NEW cnf, NEW gnt, Announce(n, cnf, gnt), NEW t \in gnt
  PROVE  /\ t[1] = n /\ t[2] \in Nbr[n]
         /\ \A x \in Node : <<n, x, t[3]>> \notin granted
         /\ \A x \in Node : <<n, x, t[3]>> \notin confirmed \cup cnf
         /\ \A x \in Nbr[n], y \in Node : <<x, y, t[3]>> \notin confirmed \cup cnf
         /\ \A u \in gnt : t[3] = u[3] => t = u
BY DEF Announce, MayGrant, Idle

LEMMA NewConfirmation ==
  ASSUME NEW n \in Node, NEW cnf, NEW gnt, Announce(n, cnf, gnt), NEW t \in cnf
  PROVE  /\ t[1] = n
         /\ <<t[2], n, t[3]>> \in granted
         /\ \A x \in Node : <<n, x, t[3]>> \notin granted
         /\ \A x \in Node : <<n, x, t[3]>> \notin confirmed
         /\ \A x \in Nbr[n] \ {t[2]} : \A y \in Node \ {n} : <<x, y, t[3]>> \notin granted
         /\ \A u \in cnf : t[3] = u[3] => t = u
BY DEF Announce, MayConfirm, Idle

LEMMA AnnounceIInv ==
  ASSUME IInv, NEW n \in Node, NEW cnf \in SUBSET From(n), NEW gnt \in SUBSET From(n),
         Announce(n, cnf, gnt)
  PROVE  IInv'
<1> USE NbrAssumption DEF Reserved
<1>0. /\ granted' = granted \cup gnt
      /\ confirmed' = confirmed \cup cnf
  BY DEF Announce
<1>1. TypeOK'
  BY <1>0 DEF IInv, TypeOK, From
<1>t. /\ \A t \in granted' : /\ t = <<t[1], t[2], t[3]>>
                             /\ t[1] \in Node /\ t[2] \in Node
      /\ \A t \in confirmed' : /\ t = <<t[1], t[2], t[3]>>
                               /\ t[1] \in Node /\ t[2] \in Node
  BY <1>1 DEF TypeOK
<1>c. \A t \in cnf : /\ t[1] = n
                     /\ \A x \in Node : <<n, x, t[3]>> \notin granted
                     /\ \A x \in Node : <<n, x, t[3]>> \notin confirmed
                     /\ \A u \in cnf : t[3] = u[3] => t = u
  BY DEF Announce, MayConfirm, Idle
<1>2. GrantsToNeighbours'
  BY <1>0, NewGrant DEF IInv, GrantsToNeighbours
<1>3. ConfirmedWasGranted'
  BY <1>0, NewConfirmation DEF IInv, ConfirmedWasGranted
<1>4. OneOffer'
  <2> SUFFICES ASSUME NEW t \in granted', NEW u \in granted', t[1] = u[1], t[3] = u[3]
               PROVE  t = u
    BY DEF OneOffer
  <2>1. CASE t \in granted /\ u \in granted
    BY <2>1 DEF IInv, OneOffer
  <2>2. CASE t \in gnt /\ u \in gnt
    BY <2>2, NewGrant
  <2>3. CASE t \in gnt /\ u \in granted
    BY <2>3, <1>t, NewGrant
  <2>4. CASE t \in granted /\ u \in gnt
    BY <2>4, <1>t, NewGrant
  <2> QED BY <1>0, <2>1, <2>2, <2>3, <2>4
<1>5. OneRole'
  <2> SUFFICES ASSUME NEW t \in confirmed'
               PROVE  /\ \A u \in confirmed' : (t[1] = u[1] /\ t[3] = u[3]) => t = u
                      /\ \A u \in granted' : u[3] = t[3] => u[1] # t[1]
    BY DEF OneRole
  <2>1. ASSUME NEW u \in confirmed', t[1] = u[1], t[3] = u[3] PROVE t = u
    <3>1. CASE t \in confirmed /\ u \in confirmed
      BY <2>1, <3>1 DEF IInv, OneRole
    <3>2. CASE t \in cnf /\ u \in cnf
      BY <2>1, <3>2, <1>c
    <3>3. CASE t \in cnf /\ u \in confirmed
      BY <2>1, <3>3, <1>t, <1>c
    <3>4. CASE t \in confirmed /\ u \in cnf
      BY <2>1, <3>4, <1>t, <1>c
    <3> QED BY <1>0, <2>1, <3>1, <3>2, <3>3, <3>4
  <2>2. ASSUME NEW u \in granted', u[3] = t[3] PROVE u[1] # t[1]
    <3>1. CASE u \in gnt
      BY <1>0, <2>2, <3>1, <1>t, NewGrant
    <3>2. CASE u \in granted /\ t \in confirmed
      BY <2>2, <3>2 DEF IInv, OneRole
    <3>3. CASE u \in granted /\ t \in cnf
      BY <2>2, <3>3, <1>t, <1>c
    <3> QED BY <1>0, <2>2, <3>1, <3>2, <3>3
  <2> QED BY <2>1, <2>2
<1>6. OfferProtected'
  <2> SUFFICES ASSUME NEW t \in granted', NEW u \in confirmed',
                      t[3] = u[3], u[1] \in Nbr[t[1]]
               PROVE  u[1] = t[2]
    BY DEF OfferProtected
  <2>1. CASE t \in granted /\ u \in confirmed
    BY <2>1 DEF IInv, OfferProtected
  <2>2. CASE t \in gnt
    BY <1>0, <2>2, <1>t, NewGrant
  <2>3. CASE t \in granted /\ u \in cnf
    <3>1. /\ u[1] = n /\ <<u[2], n, u[3]>> \in granted
          /\ \A x \in Nbr[n] \ {u[2]} : \A y \in Node \ {n} : <<x, y, u[3]>> \notin granted
      BY <2>3, NewConfirmation
    <3>2. t[1] \in Nbr[n] /\ t = <<t[1], t[2], u[3]>> /\ t[2] \in Node
      BY <3>1, <1>t
    <3>3. CASE t[1] = u[2]
      BY <3>1, <3>3, <2>3 DEF IInv, OneOffer
    <3>4. CASE t[1] # u[2]
      BY <3>1, <3>2, <3>4, <2>3
    <3> QED BY <3>3, <3>4
  <2> QED BY <1>0, <2>1, <2>2, <2>3
<1> QED BY <1>1, <1>2, <1>3, <1>4, <1>5, <1>6 DEF IInv

LEMMA ExpireIInv == ASSUME IInv, NEW E, Expire(E) PROVE IInv'
<1>1. /\ granted' \subseteq granted
      /\ confirmed' \subseteq confirmed
      /\ \A t \in confirmed' : t[3] \notin E
      /\ \A t \in granted : t[3] \notin E => t \in granted'
  BY DEF Expire
<1>2. ConfirmedWasGranted'
  BY <1>1 DEF IInv, ConfirmedWasGranted
<1>3. TypeOK' /\ GrantsToNeighbours' /\ OneOffer'
  BY <1>1 DEF IInv, TypeOK, GrantsToNeighbours, OneOffer
<1>4. OneRole' /\ OfferProtected'
  BY <1>1 DEF IInv, OneRole, OfferProtected
<1> QED BY <1>2, <1>3, <1>4 DEF IInv

(* IInv holds in every reachable state: every step of the handshake keeps it. *)
THEOREM Inductive == Spec => []IInv
<1>1. IInv /\ [Next]_vars => IInv'
  <2> SUFFICES ASSUME IInv, [Next]_vars PROVE IInv'
    OBVIOUS
  <2>1. CASE \E n \in Node : \E cnf, gnt \in SUBSET From(n) : Announce(n, cnf, gnt)
    BY <2>1, AnnounceIInv
  <2>2. CASE \E E \in SUBSET Cell : Expire(E)
    BY <2>2, ExpireIInv
  <2>3. CASE UNCHANGED vars
    BY <2>3 DEF vars, IInv, TypeOK, GrantsToNeighbours, ConfirmedWasGranted,
                OneOffer, OneRole, OfferProtected
  <2> QED BY <2>1, <2>2, <2>3 DEF Next
<1> QED BY InitIInv, <1>1, PTL DEF Spec

(* The reservations are always triples of two nodes and a cell.               *)
THEOREM TypeCorrect == Spec => []TypeOK
BY Inductive, PTL DEF IInv

(* No node that is to receive in a cell is disturbed there, by itself or by   *)
(* one of its neighbours, whatever the topology.                              *)
THEOREM CollisionFree == Spec => []NoCollision
<1>1. IInv => NoCollision
  <2> SUFFICES ASSUME IInv, NEW t \in confirmed, NEW u \in confirmed,
                      t[3] = u[3], t # u
               PROVE  u[1] # t[1] /\ u[1] # t[2] /\ u[1] \notin Nbr[t[2]]
    BY DEF NoCollision
  <2>1. <<t[2], t[1], t[3]>> \in granted
    BY DEF IInv, ConfirmedWasGranted
  <2>2. u[1] # t[1]
    BY DEF IInv, OneRole
  <2>3. u[1] # t[2]
    BY <2>1 DEF IInv, OneRole
  <2>4. u[1] \notin Nbr[t[2]]
    BY <2>1, <2>2 DEF IInv, OfferProtected
  <2> QED BY <2>2, <2>3, <2>4
<1> QED BY Inductive, <1>1, PTL
=============================================================================
