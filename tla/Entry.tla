-------------------------------- MODULE Entry --------------------------------
(***************************************************************************)
(* Network entry in WimshMac: a new node scans its neighbours' MSH-NCFG,     *)
(* opens a sponsor channel with MSH-NENT, or establishes a link with each    *)
(* neighbour with MSH-NCFG.  The simulation ends (exit) when one node has    *)
(* completed its procedure.                                                  *)
(*                                                                          *)
(* A message is received in the slot of its opportunity, which no node       *)
(* within two hops shares (Election): sending and receiving are one step.    *)
(* MSH-NENT opportunities are in the same slots for all nodes                *)
(* (WimshCoordinatorStandard::electionNent): they are one step for all.      *)
(***************************************************************************)
EXTENDS Integers, Sequences, FiniteSets, SequencesExt

CONSTANTS Nodes,
          neighbors,  \* topology: each node's neighbours, in order
          Setups      \* the procedures (procedure) started by Tcl on each node,
                      \* the sponsor given, and whether bursts are lost (lossy)

Hears(n) == ToSet(neighbors[n])
None == "none"
Procedures == {"none", "scan", "sponsor", "link"}

ASSUME EntryAssumption ==
    /\ None \notin Nodes
    /\ neighbors \in [Nodes -> Seq(Nodes)]
    /\ \A n \in Nodes : n \notin Hears(n) /\ \A m \in Hears(n) : n \in Hears(m)
    /\ \A s \in Setups : /\ s.procedure \in [Nodes -> Procedures]
                         /\ \A n \in Nodes : s.procedure[n] = "sponsor" => s.sponsor \in Hears(n)
                         \* opportunity(WimshMshNcfg*) reads neighbors[0] at once.
                         /\ \A n \in Nodes : s.procedure[n] = "link" => neighbors[n] # <<>>

VARIABLES setup,         \* one of Setups, given
          started,       \* nodes whose procedure has been started
          sponsorState,  \* sponsorState_
          sponsorId,     \* sponsorId_
          linkEstState,  \* linkEstState_
          linkEstCurrent,\* linkEstCurrent_
          linkEstId,     \* linkEstId_
          scanSet,       \* scanSet_
          over,          \* the procedure whose end ended the simulation
          answered,      \* ghost: neighbours whose RESPONSE a node received
          asked,         \* ghost: <<new node, sponsor>> of the REQUESTs received
          opened         \* ghost: <<new node, sponsor>> of the OPENs sent

sponsoring == <<sponsorState, sponsorId, asked, opened>>
linking == <<linkEstState, linkEstCurrent, linkEstId, answered>>
vars == <<setup, started, sponsoring, linking, scanSet, over>>

Init ==
    /\ setup \in Setups
    /\ started = {}
    /\ sponsorState = [n \in Nodes |-> "SS_IDLE"]
    /\ sponsorId = [n \in Nodes |-> None]
    /\ linkEstState = [n \in Nodes |-> "LE_IDLE"]
    /\ linkEstCurrent = [n \in Nodes |-> 0]
    /\ linkEstId = [n \in Nodes |-> None]
    /\ scanSet = [n \in Nodes |-> {}]
    /\ over = None
    /\ answered = [n \in Nodes |-> {}]
    /\ asked = {} /\ opened = {}

\* WimshMac::command: scan, open-sponsor, link-establishment.
Start(n) ==
    /\ n \notin started /\ setup.procedure[n] # "none"
    /\ started' = started \cup {n}
    /\ IF setup.procedure[n] = "sponsor"
       THEN /\ sponsorState' = [sponsorState EXCEPT ![n] = "SS_SEND_REQ"]
            /\ sponsorId' = [sponsorId EXCEPT ![n] = setup.sponsor]
       ELSE UNCHANGED <<sponsorState, sponsorId>>
    /\ IF setup.procedure[n] = "link"
       THEN /\ linkEstState' = [linkEstState EXCEPT ![n] = "LE_SEND_CHALLENGE"]
            /\ linkEstCurrent' = [linkEstCurrent EXCEPT ![n] = 0]
       ELSE UNCHANGED <<linkEstState, linkEstCurrent>>
    /\ UNCHANGED <<setup, linkEstId, scanSet, over, answered, asked, opened>>

Scans(n) == n \in started /\ setup.procedure[n] = "scan"

-----------------------------------------------------------------------------
(* MSH-NCFG. *)

Ncfg(type, dst) == [type |-> type, dst |-> dst]

\* linkEstCurrent_ reaches the number of neighbours.
LastNeighbor(n) == linkEstCurrent[n] + 1 >= Len(neighbors[n])

\* opportunity(WimshMshNcfg*): the message, of the default type unless the
\* node has something to send.  The link establishment overwrites an OPEN.
Message(n) ==
    CASE linkEstState[n] = "LE_SEND_CHALLENGE" ->
             Ncfg("CHALLENGE", neighbors[n][linkEstCurrent[n] + 1])
      [] linkEstState[n] = "LE_SEND_RESPONSE" -> Ncfg("RESPONSE", linkEstId[n])
      [] OTHER -> Ncfg("NET_ENTRY_OPEN",
                       IF sponsorState[n] = "SS_SEND_OPEN" THEN sponsorId[n] ELSE None)

\* Mutants: no wait for the RESPONSE; no CHALLENGE to the next neighbour.
AfterNcfgNoWait(n) == [linkEstState EXCEPT ![n] =
    CASE @ = "LE_SEND_CHALLENGE" -> "LE_SEND_ACK"
      [] @ = "LE_SEND_ACK" -> "LE_SEND_CHALLENGE"
      [] @ = "LE_SEND_RESPONSE" -> "LE_IDLE"
      [] OTHER -> @]
AfterNcfgToIdle(n) == [linkEstState EXCEPT ![n] =
    CASE @ = "LE_SEND_CHALLENGE" -> "LE_WAIT_RESPONSE"
      [] @ \in {"LE_SEND_ACK", "LE_SEND_RESPONSE"} -> "LE_IDLE"
      [] OTHER -> @]

\* The state after an opportunity.
AfterNcfg(n) == [linkEstState EXCEPT ![n] =
    CASE @ = "LE_SEND_CHALLENGE" -> "LE_WAIT_RESPONSE"
      [] @ = "LE_SEND_ACK" -> "LE_SEND_CHALLENGE"
      [] @ = "LE_SEND_RESPONSE" -> "LE_IDLE"
      [] OTHER -> @]

\* Mutant: the destination of a CHALLENGE is not looked at.
AddressedToAny(m, r) == m.type = "CHALLENGE" \/ m.dst = r

AddressedTo(m, r) == m.dst = r

\* recvMshNcfg, the link establishment.
Received(m, r, state) ==
    IF ~AddressedTo(m, r) THEN state
    ELSE CASE m.type = "CHALLENGE" -> "LE_SEND_RESPONSE"
           [] m.type = "RESPONSE" -> "LE_SEND_ACK"
           [] OTHER -> state

\* opportunity(WimshMshNcfg*) of n and recvMshNcfg of the nodes in heard.
NcfgOpportunity(n, heard) ==
    LET m == Message(n)
        acks == linkEstState[n] = "LE_SEND_ACK"
        scanned == {r \in heard : Scans(r) /\ n \in scanSet[r]}
    IN /\ over = None
       /\ heard \subseteq Hears(n) /\ (heard # Hears(n) => setup.lossy)
       /\ over' = IF acks /\ LastNeighbor(n) THEN "link"
                  ELSE IF scanned # {} THEN "scan" ELSE None
       /\ linkEstCurrent' = [linkEstCurrent EXCEPT ![n] = IF acks THEN @ + 1 ELSE @]
       /\ linkEstState' = [r \in Nodes |->
              IF r \in heard THEN Received(m, r, linkEstState[r]) ELSE AfterNcfg(n)[r]]
       /\ linkEstId' = [r \in Nodes |->
              IF r \in heard /\ m.type = "CHALLENGE" /\ AddressedTo(m, r) THEN n ELSE linkEstId[r]]
       /\ sponsorState' = [sponsorState EXCEPT ![n] = IF @ = "SS_SEND_OPEN" THEN "SS_IDLE" ELSE @]
       /\ opened' = IF m.type = "NET_ENTRY_OPEN" /\ m.dst # None THEN opened \cup {<<m.dst, n>>}
                    ELSE opened
       /\ answered' = [r \in Nodes |->
              IF r \in heard /\ m = Ncfg("RESPONSE", r) THEN answered[r] \cup {n} ELSE answered[r]]
       /\ scanSet' = [r \in Nodes |->
              IF r \in heard /\ Scans(r) THEN scanSet[r] \cup {n} ELSE scanSet[r]]
       /\ UNCHANGED <<setup, started, sponsorId, asked>>

-----------------------------------------------------------------------------
(* MSH-NENT. *)

\* Mutant: a node about to answer is not turned away (SS_SEND_OPEN).
WantsNentOrOpen(n) == sponsorState[n] \in {"SS_SEND_REQ", "SS_SEND_OPEN"}

\* opportunity(WimshMshNent*): the nodes that send a REQUEST, and those whose
\* next opportunity completes the procedure, whatever they received meanwhile.
WantsNent(n) == sponsorState[n] = "SS_SEND_REQ"
Completes(n) == sponsorState[n] = "SS_SEND_ACK"

\* The opportunity of all nodes and recvMshNent of those that hear exactly one
\* REQUEST, but for the nodes in deaf, whose radio is elsewhere (Frame) or
\* where the channel corrupts the burst.
NentOpportunity(deaf) ==
    LET senders == {n \in Nodes : WantsNent(n)}
        From(r) == senders \cap Hears(r)
        asks == {a \in senders \X (Nodes \ (senders \cup deaf)) :
                    From(a[2]) = {a[1]} /\ sponsorId[a[1]] = a[2]}
    IN /\ over = None
       /\ over' = IF \E n \in Nodes : Completes(n) THEN "sponsor" ELSE None
       /\ asked' = asked \cup asks
       /\ sponsorState' = [r \in Nodes |->
              IF r \in senders THEN "SS_SEND_ACK"
              ELSE IF \E n \in senders : <<n, r>> \in asks THEN "SS_SEND_OPEN"
              ELSE sponsorState[r]]
       /\ sponsorId' = [r \in Nodes |->
              IF \E n \in senders : <<n, r>> \in asks
              THEN CHOOSE n \in senders : <<n, r>> \in asks ELSE sponsorId[r]]
       /\ UNCHANGED <<setup, started, linking, scanSet, opened>>

Next == \/ \E n \in Nodes : over = None /\ Start(n)
        \/ \E n \in Nodes : \E heard \in SUBSET Hears(n) : NcfgOpportunity(n, heard)
        \/ \E deaf \in SUBSET Nodes : NentOpportunity(deaf)

\* Each node has MSH-NCFG opportunities again and again (EveryNodeTransmits of
\* Election), MSH-NENT opportunities come with the configuration frames, and
\* Tcl starts the procedure.
Fairness ==
    /\ \A n \in Nodes : WF_vars(over = None /\ Start(n))
    /\ \A n \in Nodes : WF_vars(\E heard \in SUBSET Hears(n) : NcfgOpportunity(n, heard))
    /\ WF_vars(\E deaf \in SUBSET Nodes : NentOpportunity(deaf))

Spec == Init /\ [][Next]_vars
FairSpec == Spec /\ Fairness

-----------------------------------------------------------------------------
(* Properties. *)

News == {n \in Nodes : setup.procedure[n] # "none"}
OnlyNew(procedure) == \E n \in Nodes : News = {n} /\ setup.procedure[n] = procedure

\* recvMshNcfg counts a RESPONSE whoever sent it and whatever it waits for:
\* still, a node that has passed a neighbour has been answered by it, although
\* other nodes enter at the same time, answer late, or bursts are lost.
NeighborsAnswered ==
    \A n \in Nodes : \A i \in 1 .. linkEstCurrent[n] : neighbors[n][i] \in answered[n]

Turns == {n \in Nodes : linkEstState[n] \in {"LE_SEND_CHALLENGE", "LE_SEND_RESPONSE", "LE_SEND_ACK"}}

\* CHALLENGE, RESPONSE and ACK alternate: while one new node establishes its
\* links at most one node has something to send, and one has unless bursts
\* are lost.
OneTurn ==
    OnlyNew("link") /\ started # {} /\ over = None =>
        /\ Cardinality(Turns) <= 1
        /\ ~setup.lossy => Turns # {}

\* A sponsor that received the REQUEST of the only new node sends it an OPEN,
\* at once or at a later opportunity: its own MSH-NENT opportunities and the
\* MSH-NCFG of others do not make it forget.
RequestKept ==
    OnlyNew("sponsor") =>
        \A a \in asked : a \in opened \/ (sponsorState[a[2]] = "SS_SEND_OPEN"
                                          /\ sponsorId[a[2]] = a[1])

\* The procedure of a new node that enters alone, without losses, is completed.
EntryEnds == (Cardinality(News) = 1 /\ ~setup.lossy) ~> (over # None)

\* A sponsor channel is complete when the sponsor has sent the OPEN.
OpenBeforeAck == over = "sponsor" => \E n \in News : <<n, setup.sponsor>> \in opened
=============================================================================
