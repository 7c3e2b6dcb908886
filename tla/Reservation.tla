----------------------------- MODULE Reservation -----------------------------
(***************************************************************************)
(* What the three-way handshake of the mesh MAC promises, stated without    *)
(* its tables: a node grants a cell (a minislot of a frame) to a neighbour, *)
(* the neighbour confirms it and then transmits in it.  A grant or a        *)
(* confirmation is one information element of an MSH-DSCH message, and a    *)
(* node puts several of them in the same message: confirmations first       *)
(* (confirm), then grants (requestGrant).  All its neighbours hear it.      *)
(*                                                                          *)
(* The guards are what the bitmaps of WimshBwManagerFairRR are there to     *)
(* decide: grantFit reads busy_, unconfirmedSlots_, self_rx_unavl_ and      *)
(* neigh_tx_unavl_, confFit reads busy_ and self_tx_unavl_.                 *)
(***************************************************************************)
CONSTANTS Node,   \* the nodes of the mesh
          Nbr,    \* Nbr[n]: the one-hop neighbours of node n
          Cell    \* the pairs <frame, minislot> that can be reserved

ASSUME NbrAssumption ==
    /\ Nbr \in [Node -> SUBSET Node]
    /\ \A x, y \in Node : x \in Nbr[y] => y \in Nbr[x]
    /\ \A x \in Node : x \notin Nbr[x]

VARIABLES granted,    \* <<g, r, c>>: g has offered cell c to requester r
          confirmed   \* <<r, g, c>>: r has confirmed c and will transmit to g

vars == <<granted, confirmed>>

Reserved == Node \X Node \X Cell

TypeOK == /\ granted \subseteq Reserved
          /\ confirmed \subseteq Reserved

Init == /\ granted = {}
        /\ confirmed = {}

\* n neither receives nor transmits in cell c, as far as it knows (busy_,
\* which both its grants and its confirmations mark).
Idle(n, c, gnts, cnfs) == \A x \in Node : /\ <<n, x, c>> \notin gnts
                                          /\ <<n, x, c>> \notin cnfs

\* Mutants: a node grants without minding who transmits around it, and confirms
\* without minding whom it disturbs.
GrantsBlindly(g, r, c, cnfs) == /\ r \in Nbr[g]
                                /\ Idle(g, c, granted, cnfs)
ConfirmsBlindly(r, g, c) == /\ <<g, r, c>> \in granted
                            /\ Idle(r, c, granted, confirmed)

\* r may confirm a cell that g has granted it unless another neighbour of r is
\* to receive in it from somebody else (self_tx_unavl_).
MayConfirm(r, g, c) ==
    /\ <<g, r, c>> \in granted
    /\ Idle(r, c, granted, confirmed)
    /\ \A x \in Nbr[r] \ {g} : \A y \in Node \ {r} : <<x, y, c>> \notin granted

\* g may grant a cell to a neighbour unless some neighbour of g already
\* transmits in it (self_rx_unavl_, neigh_tx_unavl_).
MayGrant(g, r, c, cnfs) ==
    /\ r \in Nbr[g]
    /\ Idle(g, c, granted, cnfs)
    /\ \A x \in Nbr[g] : \A y \in Node : <<x, y, c>> \notin cnfs

\* One MSH-DSCH message of node n, with the confirmations cnf and the grants gnt.
Announce(n, cnf, gnt) ==
    /\ \A t \in cnf : t[1] = n /\ MayConfirm(n, t[2], t[3])
    /\ \A t, u \in cnf : t[3] = u[3] => t = u
    /\ \A t \in gnt : t[1] = n /\ MayGrant(n, t[2], t[3], confirmed \cup cnf)
    /\ \A t, u \in gnt : t[3] = u[3] => t = u
    /\ confirmed' = confirmed \cup cnf
    /\ granted' = granted \cup gnt

\* The cells of E are in the past: the end of a frame.
Expire(E) ==
    /\ granted' = {t \in granted : t[3] \notin E}
    /\ confirmed' = {t \in confirmed : t[3] \notin E}

\* Grants and confirmations a message of n may carry.
From(n) == {n} \X Nbr[n] \X Cell

Next == \/ \E n \in Node : \E cnf, gnt \in SUBSET From(n) : Announce(n, cnf, gnt)
        \/ \E E \in SUBSET Cell : Expire(E)

Spec == Init /\ [][Next]_vars

-----------------------------------------------------------------------------
(* The promise of the handshake: nobody who is to receive in a cell is      *)
(* disturbed there.  If r transmits to g in c then g does not transmit in c *)
(* and no other neighbour of g does, and r sends to nobody else.  This is   *)
(* what WimshPhy::handle would see as a collision.                          *)
NoCollision ==
    \A t, u \in confirmed :
        (t[3] = u[3] /\ t # u) => /\ u[1] # t[1]
                                  /\ u[1] # t[2]
                                  /\ u[1] \notin Nbr[t[2]]

(* A cell is confirmed only if it has been granted, and only by the node it *)
(* was granted to ("provided that the slots that have been granted are      *)
(* still available", confirm).                                              *)
ConfirmedWasGranted ==
    \A t \in confirmed : <<t[2], t[1], t[3]>> \in granted

\* A node offers a cell to at most one requester.
OneOffer == \A t, u \in granted : (t[1] = u[1] /\ t[3] = u[3]) => t = u

\* A node confirms a cell at most once, and never one it has offered.
OneRole == \A t \in confirmed :
              /\ \A u \in confirmed : (t[1] = u[1] /\ t[3] = u[3]) => t = u
              /\ \A u \in granted : u[3] = t[3] => u[1] # t[1]

\* While an offer is out, the only neighbour of the granter that may be
\* transmitting in the cell is the requester itself.
OfferProtected ==
    \A t \in granted : \A u \in confirmed :
        (t[3] = u[3] /\ u[1] \in Nbr[t[1]]) => u[1] = t[2]

\* A node grants only to its neighbours (an element names a NodeID that
\* neigh2ndx must find).
GrantsToNeighbours == \A t \in granted : t[2] \in Nbr[t[1]]

\* The inductive invariant: NoCollision follows from it.
IInv == /\ TypeOK
        /\ GrantsToNeighbours
        /\ ConfirmedWasGranted
        /\ OneOffer
        /\ OneRole
        /\ OfferProtected
=============================================================================
