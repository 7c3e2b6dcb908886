----------------------------- MODULE EntryProofs -----------------------------
(***************************************************************************)
(* Network entry and link establishment, for every set of nodes, topology    *)
(* and combination of procedures.                                            *)
(***************************************************************************)
EXTENDS Entry, FiniteSetTheorems, TLAPS

LinkStates == {"LE_IDLE", "LE_SEND_CHALLENGE", "LE_WAIT_RESPONSE", "LE_SEND_ACK", "LE_SEND_RESPONSE"}
SponsorStates == {"SS_IDLE", "SS_SEND_REQ", "SS_SEND_OPEN", "SS_SEND_ACK"}

Typed ==
    /\ setup \in Setups /\ started \subseteq Nodes
    /\ sponsorState \in [Nodes -> SponsorStates]
    /\ sponsorId \in [Nodes -> Nodes \cup {None}]
    /\ linkEstState \in [Nodes -> LinkStates]
    /\ linkEstCurrent \in [Nodes -> Nat]
    /\ linkEstId \in [Nodes -> Nodes \cup {None}]
    /\ answered \in [Nodes -> SUBSET Nodes]
    /\ asked \subseteq Nodes \X Nodes

\* The neighbour that n establishes a link with.
Partner(n) == neighbors[n][linkEstCurrent[n] + 1]

\* r has a RESPONSE for n.
Pending(r, n) == linkEstState[r] = "LE_SEND_RESPONSE" /\ linkEstId[r] = n

-----------------------------------------------------------------------------
(* What one opportunity does.                                                *)

LEMMA HearsOthers ==
    ASSUME NEW n \in Nodes
    PROVE  Hears(n) \subseteq Nodes /\ n \notin Hears(n)
  BY EntryAssumption DEF Hears, ToSet

\* A CHALLENGE: the addressee, if it hears it, has a RESPONSE for n.
LEMMA Challenged ==
    ASSUME Typed, NEW n \in Nodes, NEW heard, NcfgOpportunity(n, heard),
           linkEstState[n] = "LE_SEND_CHALLENGE"
    PROVE  /\ linkEstState' = [r \in Nodes |->
                  IF r = n THEN "LE_WAIT_RESPONSE"
                  ELSE IF r \in heard /\ r = Partner(n) THEN "LE_SEND_RESPONSE" ELSE linkEstState[r]]
           /\ linkEstId' = [r \in Nodes |->
                  IF r \in heard /\ r = Partner(n) THEN n ELSE linkEstId[r]]
           /\ linkEstCurrent' = linkEstCurrent /\ answered' = answered
  <1>1. Message(n) = [type |-> "CHALLENGE", dst |-> Partner(n)] BY DEF Message, Ncfg, Partner
  <1>2. heard \subseteq Nodes /\ n \notin heard BY HearsOthers DEF NcfgOpportunity
  <1>3. linkEstState' = [r \in Nodes |->
            IF r \in heard THEN Received(Message(n), r, linkEstState[r]) ELSE AfterNcfg(n)[r]]
    BY DEF NcfgOpportunity
  <1>4. \A r \in Nodes : Received(Message(n), r, linkEstState[r]) =
                             IF r = Partner(n) THEN "LE_SEND_RESPONSE" ELSE linkEstState[r]
    BY <1>1 DEF Received, AddressedTo
  <1>5. \A r \in Nodes : AfterNcfg(n)[r] = IF r = n THEN "LE_WAIT_RESPONSE" ELSE linkEstState[r]
    BY DEF AfterNcfg, Typed
  <1>6. linkEstState' = [r \in Nodes |->
                  IF r = n THEN "LE_WAIT_RESPONSE"
                  ELSE IF r \in heard /\ r = Partner(n) THEN "LE_SEND_RESPONSE" ELSE linkEstState[r]]
    BY <1>2, <1>3, <1>4, <1>5
  <1>7. linkEstId' = [r \in Nodes |-> IF r \in heard /\ r = Partner(n) THEN n ELSE linkEstId[r]]
    BY <1>1 DEF NcfgOpportunity, AddressedTo
  <1>8. linkEstCurrent' = linkEstCurrent
    BY DEF NcfgOpportunity, Typed
  <1>9. answered' = answered
    <2>1. \A r : Message(n) # Ncfg("RESPONSE", r) BY <1>1 DEF Ncfg
    <2> QED BY <2>1 DEF NcfgOpportunity, Typed
  <1> QED BY <1>6, <1>7, <1>8, <1>9

\* A RESPONSE: the addressee, if it hears it, counts it and has an ACK to send.
LEMMA Responded ==
    ASSUME Typed, NEW n \in Nodes, NEW heard, NcfgOpportunity(n, heard),
           linkEstState[n] = "LE_SEND_RESPONSE"
    PROVE  /\ linkEstState' = [r \in Nodes |->
                  IF r = n THEN "LE_IDLE"
                  ELSE IF r \in heard /\ r = linkEstId[n] THEN "LE_SEND_ACK" ELSE linkEstState[r]]
           /\ answered' = [r \in Nodes |->
                  IF r \in heard /\ r = linkEstId[n] THEN answered[r] \cup {n} ELSE answered[r]]
           /\ linkEstCurrent' = linkEstCurrent /\ linkEstId' = linkEstId
  <1>1. Message(n) = [type |-> "RESPONSE", dst |-> linkEstId[n]] BY DEF Message, Ncfg
  <1>2. heard \subseteq Nodes /\ n \notin heard BY HearsOthers DEF NcfgOpportunity
  <1>3. linkEstState' = [r \in Nodes |->
            IF r \in heard THEN Received(Message(n), r, linkEstState[r]) ELSE AfterNcfg(n)[r]]
    BY DEF NcfgOpportunity
  <1>4. \A r \in Nodes : Received(Message(n), r, linkEstState[r]) =
                             IF r = linkEstId[n] THEN "LE_SEND_ACK" ELSE linkEstState[r]
    BY <1>1 DEF Received, AddressedTo
  <1>5. \A r \in Nodes : AfterNcfg(n)[r] = IF r = n THEN "LE_IDLE" ELSE linkEstState[r]
    BY DEF AfterNcfg, Typed
  <1>6. linkEstState' = [r \in Nodes |->
                  IF r = n THEN "LE_IDLE"
                  ELSE IF r \in heard /\ r = linkEstId[n] THEN "LE_SEND_ACK" ELSE linkEstState[r]]
    BY <1>2, <1>3, <1>4, <1>5
  <1>7. linkEstId' = linkEstId
    BY <1>1 DEF NcfgOpportunity, Typed
  <1>8. linkEstCurrent' = linkEstCurrent
    BY DEF NcfgOpportunity, Typed
  <1>9. answered' = [r \in Nodes |->
                  IF r \in heard /\ r = linkEstId[n] THEN answered[r] \cup {n} ELSE answered[r]]
    <2>1. \A r : Message(n) = Ncfg("RESPONSE", r) <=> r = linkEstId[n] BY <1>1 DEF Ncfg
    <2> QED BY <2>1 DEF NcfgOpportunity
  <1> QED BY <1>6, <1>7, <1>8, <1>9

\* Any other message changes nobody's links but those of n, which goes on to the
\* next neighbour after an ACK.
LEMMA Acknowledged ==
    ASSUME Typed, NEW n \in Nodes, NEW heard, NcfgOpportunity(n, heard),
           linkEstState[n] \notin {"LE_SEND_CHALLENGE", "LE_SEND_RESPONSE"}
    PROVE  /\ linkEstState' = [linkEstState EXCEPT ![n] =
                  IF @ = "LE_SEND_ACK" THEN "LE_SEND_CHALLENGE" ELSE @]
           /\ linkEstCurrent' = [linkEstCurrent EXCEPT ![n] =
                  IF linkEstState[n] = "LE_SEND_ACK" THEN @ + 1 ELSE @]
           /\ linkEstId' = linkEstId /\ answered' = answered
  <1>1. Message(n).type = "NET_ENTRY_OPEN" BY DEF Message, Ncfg
  <1>2. heard \subseteq Nodes /\ n \notin heard BY HearsOthers DEF NcfgOpportunity
  <1>3. linkEstState' = [r \in Nodes |->
            IF r \in heard THEN Received(Message(n), r, linkEstState[r]) ELSE AfterNcfg(n)[r]]
    BY DEF NcfgOpportunity
  <1>4. \A r \in Nodes : Received(Message(n), r, linkEstState[r]) = linkEstState[r]
    BY <1>1 DEF Received
  <1>5. AfterNcfg(n) = [linkEstState EXCEPT ![n] =
                  IF @ = "LE_SEND_ACK" THEN "LE_SEND_CHALLENGE" ELSE @]
    BY DEF AfterNcfg, Typed, LinkStates
  <1>6. linkEstState' = [linkEstState EXCEPT ![n] =
                  IF @ = "LE_SEND_ACK" THEN "LE_SEND_CHALLENGE" ELSE @]
    BY <1>2, <1>3, <1>4, <1>5 DEF Typed
  <1>7. linkEstId' = linkEstId
    BY <1>1 DEF NcfgOpportunity, Typed
  <1>8. linkEstCurrent' = [linkEstCurrent EXCEPT ![n] =
                  IF linkEstState[n] = "LE_SEND_ACK" THEN @ + 1 ELSE @]
    BY DEF NcfgOpportunity
  <1>9. answered' = answered
    <2>1. \A r : Message(n) # Ncfg("RESPONSE", r) BY <1>1 DEF Ncfg
    <2> QED BY <2>1 DEF NcfgOpportunity, Typed
  <1> QED BY <1>6, <1>7, <1>8, <1>9

LEMMA InitTyped == Init => Typed
  BY DEF Init, Typed, LinkStates, SponsorStates

LEMMA NcfgTyped ==
    ASSUME Typed, NEW n \in Nodes, NEW heard, NcfgOpportunity(n, heard)
    PROVE  Typed'
  <1>1. setup' = setup /\ started' = started /\ asked' = asked /\ sponsorId' = sponsorId
    BY DEF NcfgOpportunity
  <1>2. sponsorState' \in [Nodes -> SponsorStates]
    BY DEF NcfgOpportunity, Typed, SponsorStates
  <1>3. /\ linkEstState' \in [Nodes -> LinkStates] /\ linkEstCurrent' \in [Nodes -> Nat]
        /\ linkEstId' \in [Nodes -> Nodes \cup {None}] /\ answered' \in [Nodes -> SUBSET Nodes]
    <2>1. CASE linkEstState[n] = "LE_SEND_CHALLENGE" BY <2>1, Challenged DEF Typed, LinkStates
    <2>2. CASE linkEstState[n] = "LE_SEND_RESPONSE" BY <2>2, Responded DEF Typed, LinkStates
    <2>3. CASE linkEstState[n] \notin {"LE_SEND_CHALLENGE", "LE_SEND_RESPONSE"}
      BY <2>3, Acknowledged DEF Typed, LinkStates
    <2> QED BY <2>1, <2>2, <2>3
  <1> QED BY <1>1, <1>2, <1>3 DEF Typed

\* The REQUESTs that are received in a slot.
asks(deaf) ==
    {a \in {n \in Nodes : WantsNent(n)} \X (Nodes \ ({n \in Nodes : WantsNent(n)} \cup deaf)) :
        {n \in Nodes : WantsNent(n)} \cap Hears(a[2]) = {a[1]} /\ sponsorId[a[1]] = a[2]}

LEMMA NentStep ==
    ASSUME NEW deaf, NentOpportunity(deaf)
    PROVE  /\ asked' = asked \cup asks(deaf)
           /\ sponsorState' = [r \in Nodes |->
                  IF WantsNent(r) THEN "SS_SEND_ACK"
                  ELSE IF \E n \in Nodes : <<n, r>> \in asks(deaf) THEN "SS_SEND_OPEN"
                  ELSE sponsorState[r]]
           /\ \A r \in Nodes : \/ /\ \E n \in Nodes : <<n, r>> \in asks(deaf)
                                  /\ sponsorId'[r] \in Nodes
                                  /\ <<sponsorId'[r], r>> \in asks(deaf)
                               \/ /\ ~ \E n \in Nodes : <<n, r>> \in asks(deaf)
                                  /\ sponsorId'[r] = sponsorId[r]
           /\ \A a \in asks(deaf) : /\ a[1] \in Nodes /\ a[2] \in Nodes /\ a = <<a[1], a[2]>>
                                    /\ WantsNent(a[1]) /\ ~WantsNent(a[2])
                                    /\ sponsorId[a[1]] = a[2]
           /\ DOMAIN sponsorId' = Nodes
  <1> DEFINE S == {n \in Nodes : WantsNent(n)}
             A == asks(deaf)
  <1>1. A = {a \in S \X (Nodes \ (S \cup deaf)) : S \cap Hears(a[2]) = {a[1]} /\ sponsorId[a[1]] = a[2]}
    BY DEF asks
  <1>2. /\ asked' = asked \cup A
        /\ sponsorState' = [r \in Nodes |->
                  IF r \in S THEN "SS_SEND_ACK"
                  ELSE IF \E n \in S : <<n, r>> \in A THEN "SS_SEND_OPEN" ELSE sponsorState[r]]
        /\ sponsorId' = [r \in Nodes |-> IF \E n \in S : <<n, r>> \in A
                                         THEN CHOOSE n \in S : <<n, r>> \in A ELSE sponsorId[r]]
    BY <1>1 DEF NentOpportunity
  <1>3. \A a \in A : /\ a[1] \in Nodes /\ a[2] \in Nodes /\ a = <<a[1], a[2]>>
                     /\ WantsNent(a[1]) /\ ~WantsNent(a[2])
                     /\ sponsorId[a[1]] = a[2] /\ a[1] \in S
    BY <1>1
  <1>4. \A r : (\E n \in S : <<n, r>> \in A) <=> (\E n \in Nodes : <<n, r>> \in A) BY <1>3
  <1> HIDE DEF A
  <1>5. \A r \in Nodes : (\E n \in S : <<n, r>> \in A) =>
            (CHOOSE n \in S : <<n, r>> \in A) \in S /\ <<CHOOSE n \in S : <<n, r>> \in A, r>> \in A
    OBVIOUS
  <1>6. \A r \in Nodes : sponsorId'[r] = IF \E n \in S : <<n, r>> \in A
                                         THEN CHOOSE n \in S : <<n, r>> \in A ELSE sponsorId[r]
    BY <1>2
  <1>7. \A r \in Nodes : r \in S <=> WantsNent(r) OBVIOUS
  <1>8. ASSUME NEW r \in Nodes
        PROVE  \/ /\ \E n \in Nodes : <<n, r>> \in A
                  /\ sponsorId'[r] \in Nodes /\ <<sponsorId'[r], r>> \in A
               \/ /\ ~ \E n \in Nodes : <<n, r>> \in A
                  /\ sponsorId'[r] = sponsorId[r]
    <2>1. CASE \E n \in S : <<n, r>> \in A BY <2>1, <1>4, <1>5, <1>6
    <2>2. CASE ~ \E n \in S : <<n, r>> \in A BY <2>2, <1>4, <1>6
    <2> QED BY <2>1, <2>2
  <1>9. sponsorState' = [r \in Nodes |->
                  IF WantsNent(r) THEN "SS_SEND_ACK"
                  ELSE IF \E n \in Nodes : <<n, r>> \in A THEN "SS_SEND_OPEN"
                  ELSE sponsorState[r]]
    BY <1>2, <1>4, <1>7
  <1>10. DOMAIN sponsorId' = Nodes BY <1>2
  <1> QED BY <1>2, <1>3, <1>8, <1>9, <1>10 DEF A

LEMMA NextTyped == Typed /\ [Next]_vars => Typed'
  <1> SUFFICES ASSUME Typed, [Next]_vars PROVE Typed' OBVIOUS
  <1>1. ASSUME NEW n \in Nodes, Start(n) PROVE Typed'
    <2>1. setup.sponsor \in Nodes \/ setup.procedure[n] # "sponsor"
      BY HearsOthers, EntryAssumption DEF Typed
    <2> QED BY <1>1, <2>1 DEF Start, Typed, SponsorStates, LinkStates
  <1>2. ASSUME NEW n \in Nodes, NEW heard \in SUBSET Hears(n), NcfgOpportunity(n, heard) PROVE Typed'
    BY <1>2, NcfgTyped
  <1>3. ASSUME NEW deaf \in SUBSET Nodes, NentOpportunity(deaf) PROVE Typed'
    <2>1. UNCHANGED <<setup, started, linking, scanSet, opened>> BY <1>3 DEF NentOpportunity
    <2>2. asked' \subseteq Nodes \X Nodes BY <1>3, NentStep DEF Typed
    <2>3. sponsorState' \in [Nodes -> SponsorStates] BY <1>3, NentStep DEF Typed, SponsorStates
    <2>4. sponsorId' \in [Nodes -> Nodes \cup {None}]
      <3>1. DOMAIN sponsorId' = Nodes /\ \A r \in Nodes : sponsorId'[r] \in Nodes \cup {None}
        BY <1>3, NentStep DEF Typed
      <3>2. sponsorId' = [r \in Nodes |-> sponsorId'[r]] BY <1>3 DEF NentOpportunity
      <3> QED BY <3>1, <3>2
    <2> QED BY <2>1, <2>2, <2>3, <2>4 DEF Typed, linking
  <1>4. CASE UNCHANGED vars BY <1>4 DEF vars, Typed, sponsoring, linking
  <1> QED BY <1>1, <1>2, <1>3, <1>4 DEF Next

-----------------------------------------------------------------------------
(* A RESPONSE is counted whoever sent it: that it is the one of the partner  *)
(* follows from each CHALLENGE being answered once at most, and from the     *)
(* next one waiting for the RESPONSE.                                        *)

Link(n) ==
    /\ \A i \in 1 .. linkEstCurrent[n] : neighbors[n][i] \in answered[n]
    /\ linkEstState[n] = "LE_SEND_ACK" => Partner(n) \in answered[n]
    /\ \A r \in Nodes : Pending(r, n) =>
          r = Partner(n) /\ linkEstState[n] \notin {"LE_SEND_CHALLENGE", "LE_SEND_ACK"}
    /\ n \notin started =>
          /\ linkEstState[n] \in {"LE_IDLE", "LE_SEND_RESPONSE"}
          /\ linkEstCurrent[n] = 0
          /\ \A r \in Nodes : ~Pending(r, n)

Links == \A n \in Nodes : Link(n)

LEMMA NcfgLinks ==
    ASSUME Typed, Links, NEW n \in Nodes, NEW heard, NcfgOpportunity(n, heard), NEW k \in Nodes
    PROVE  Link(k)'
  <1>1. heard \subseteq Nodes /\ n \notin heard BY HearsOthers DEF NcfgOpportunity
  <1>2. started' = started BY DEF NcfgOpportunity
  <1>3. Link(k) /\ Link(n) BY DEF Links
  <1>4. CASE linkEstState[n] = "LE_SEND_CHALLENGE"
    <2> DEFINE p == Partner(n)
    <2>1. /\ \A r \in Nodes : linkEstState'[r] =
                  IF r = n THEN "LE_WAIT_RESPONSE"
                  ELSE IF r \in heard /\ r = p THEN "LE_SEND_RESPONSE" ELSE linkEstState[r]
          /\ \A r \in Nodes : linkEstId'[r] = IF r \in heard /\ r = p THEN n ELSE linkEstId[r]
          /\ linkEstCurrent' = linkEstCurrent /\ answered' = answered
      BY <1>4, Challenged DEF Typed
    <2>2. Partner(k)' = Partner(k) BY <2>1 DEF Partner
    <2> HIDE DEF p
    <2>3. \A r \in Nodes : Pending(r, k)' => \/ Pending(r, k) /\ r # n
                                             \/ k = n /\ r = p /\ r \in heard
      BY <2>1 DEF Pending
    <2>4. n \in started BY <1>3, <1>4 DEF Link
    <2>5. linkEstState'[k] = "LE_SEND_ACK" => linkEstState[k] = "LE_SEND_ACK" BY <2>1
    <2>6. ASSUME NEW r \in Nodes, Pending(r, k)'
          PROVE  r = Partner(k) /\ linkEstState'[k] \notin {"LE_SEND_CHALLENGE", "LE_SEND_ACK"}
      <3>1. CASE Pending(r, k) /\ r # n BY <1>3, <2>1, <3>1 DEF Link
      <3>2. CASE k = n /\ r = p BY <2>1, <3>2 DEF p
      <3> QED BY <2>3, <2>6, <3>1, <3>2
    <2>7. k \notin started =>
            /\ linkEstState'[k] \in {"LE_IDLE", "LE_SEND_RESPONSE"}
            /\ linkEstCurrent'[k] = 0
            /\ \A r \in Nodes : ~Pending(r, k)'
      BY <1>3, <2>1, <2>3, <2>4 DEF Link
    <2> QED BY <1>2, <1>3, <2>1, <2>2, <2>5, <2>6, <2>7 DEF Link
  <1>5. CASE linkEstState[n] = "LE_SEND_RESPONSE"
    <2> DEFINE d == linkEstId[n]
    <2>1. /\ \A r \in Nodes : linkEstState'[r] =
                  IF r = n THEN "LE_IDLE"
                  ELSE IF r \in heard /\ r = d THEN "LE_SEND_ACK" ELSE linkEstState[r]
          /\ \A r \in Nodes : answered'[r] =
                  IF r \in heard /\ r = d THEN answered[r] \cup {n} ELSE answered[r]
          /\ linkEstCurrent' = linkEstCurrent /\ linkEstId' = linkEstId
      <3>1. /\ linkEstState' = [r \in Nodes |->
                   IF r = n THEN "LE_IDLE"
                   ELSE IF r \in heard /\ r = linkEstId[n] THEN "LE_SEND_ACK" ELSE linkEstState[r]]
            /\ answered' = [r \in Nodes |->
                   IF r \in heard /\ r = linkEstId[n] THEN answered[r] \cup {n} ELSE answered[r]]
            /\ linkEstCurrent' = linkEstCurrent /\ linkEstId' = linkEstId
        BY <1>5, Responded
      <3> QED BY <3>1
    <2>2. Partner(k)' = Partner(k) BY <2>1 DEF Partner
    <2>3. \A r \in Nodes : Pending(r, k)' => Pending(r, k) /\ r # n
      BY <2>1 DEF Pending
    <2>4. CASE k \in heard /\ k = d
      <3>1. Pending(n, k) BY <1>5, <2>4 DEF Pending
      <3>2. n = Partner(k) /\ k \in started BY <1>3, <3>1 DEF Link
      <3>3. answered'[k] = answered[k] \cup {n} /\ linkEstState'[k] = "LE_SEND_ACK"
        BY <1>1, <2>1, <2>4
      <3>4. \A r \in Nodes : ~Pending(r, k)'
        <4>1. \A r \in Nodes : Pending(r, k) => r = n BY <1>3, <3>2 DEF Link
        <4> QED BY <2>3, <4>1
      <3> QED BY <1>2, <1>3, <2>1, <2>2, <3>2, <3>3, <3>4 DEF Link
    <2>5. CASE ~(k \in heard /\ k = d)
      <3>1. answered'[k] = answered[k] /\ linkEstState'[k] = IF k = n THEN "LE_IDLE" ELSE linkEstState[k]
        BY <2>1, <2>5
      <3>2. linkEstState'[k] = linkEstState[k] \/ linkEstState'[k] = "LE_IDLE" BY <3>1
      <3>3. linkEstCurrent' = linkEstCurrent BY <2>1
      <3>4. \A i \in 1 .. linkEstCurrent'[k] : neighbors[k][i] \in answered'[k]
        BY <1>3, <3>1, <3>3 DEF Link
      <3>5. linkEstState'[k] = "LE_SEND_ACK" => Partner(k)' \in answered'[k]
        BY <1>3, <2>2, <3>1, <3>2 DEF Link
      <3>6. \A r \in Nodes : Pending(r, k)' =>
               r = Partner(k)' /\ linkEstState'[k] \notin {"LE_SEND_CHALLENGE", "LE_SEND_ACK"}
        BY <1>3, <2>2, <2>3, <3>2 DEF Link
      <3>7. k \notin started => /\ linkEstState'[k] \in {"LE_IDLE", "LE_SEND_RESPONSE"}
                                /\ linkEstCurrent'[k] = 0
                                /\ \A r \in Nodes : ~Pending(r, k)'
        BY <1>3, <2>3, <3>2, <3>3 DEF Link
      <3> QED BY <1>2, <3>4, <3>5, <3>6, <3>7 DEF Link
    <2> QED BY <2>4, <2>5
  <1>6. CASE linkEstState[n] \notin {"LE_SEND_CHALLENGE", "LE_SEND_RESPONSE"}
    <2> DEFINE acks == linkEstState[n] = "LE_SEND_ACK"
    <2>1. /\ \A r \in Nodes : linkEstState'[r] =
                  IF r = n /\ acks THEN "LE_SEND_CHALLENGE" ELSE linkEstState[r]
          /\ \A r \in Nodes : linkEstCurrent'[r] =
                  IF r = n /\ acks THEN linkEstCurrent[r] + 1 ELSE linkEstCurrent[r]
          /\ linkEstId' = linkEstId /\ answered' = answered
      BY <1>6, Acknowledged DEF Typed
    <2>2. \A r \in Nodes : Pending(r, k)' <=> Pending(r, k) BY <1>6, <2>1 DEF Pending
    <2>3. CASE k = n /\ acks
      <3>1. linkEstCurrent[k] \in Nat /\ linkEstCurrent'[k] = linkEstCurrent[k] + 1
        BY <2>1, <2>3 DEF Typed
      <3>2. \A i \in 1 .. linkEstCurrent'[k] : neighbors[k][i] \in answered[k]
        BY <1>3, <2>3, <3>1 DEF Link, Partner
      <3>3. \A r \in Nodes : ~Pending(r, k) BY <1>3, <2>3 DEF Link
      <3>4. k \in started BY <1>3, <2>3 DEF Link
      <3>5. linkEstState'[k] = "LE_SEND_CHALLENGE" BY <2>1, <2>3
      <3> QED BY <1>2, <2>1, <2>2, <3>2, <3>3, <3>4, <3>5 DEF Link
    <2>4. CASE ~(k = n /\ acks)
      <3>1. linkEstState'[k] = linkEstState[k] /\ linkEstCurrent'[k] = linkEstCurrent[k]
        BY <2>1, <2>4
      <3>2. Partner(k)' = Partner(k) BY <3>1 DEF Partner
      <3> QED BY <1>2, <1>3, <2>1, <2>2, <3>1, <3>2 DEF Link
    <2> QED BY <2>3, <2>4
  <1> QED BY <1>4, <1>5, <1>6

LEMMA NextLinks == Typed /\ Links /\ [Next]_vars => Links'
  <1> SUFFICES ASSUME Typed, Links, [Next]_vars, NEW k \in Nodes PROVE Link(k)' BY DEF Links
  <1>1. ASSUME NEW n \in Nodes, Start(n) PROVE Link(k)'
    <2>1. UNCHANGED <<linkEstId, answered>> /\ started' = started \cup {n} /\ n \notin started
      BY <1>1 DEF Start
    <2>2. Link(k) /\ Link(n) BY DEF Links
    <2>3. CASE setup.procedure[n] = "link"
      <3>1. /\ \A r \in Nodes : linkEstState'[r] = IF r = n THEN "LE_SEND_CHALLENGE" ELSE linkEstState[r]
            /\ linkEstCurrent' = linkEstCurrent
        BY <1>1, <2>1, <2>2, <2>3 DEF Start, Typed, Link
      <3>2. \A r \in Nodes : Pending(r, k)' => Pending(r, k) BY <2>1, <3>1 DEF Pending
      <3>3. Partner(k)' = Partner(k) BY <3>1 DEF Partner
      <3> QED BY <2>1, <2>2, <3>1, <3>2, <3>3 DEF Link
    <2>4. CASE setup.procedure[n] # "link"
      <3>1. linkEstState' = linkEstState /\ linkEstCurrent' = linkEstCurrent BY <1>1, <2>4 DEF Start
      <3> QED BY <2>1, <2>2, <3>1 DEF Link, Pending, Partner
    <2> QED BY <2>3, <2>4
  <1>2. ASSUME NEW n \in Nodes, NEW heard \in SUBSET Hears(n), NcfgOpportunity(n, heard) PROVE Link(k)'
    BY <1>2, NcfgLinks
  <1>3. CASE UNCHANGED <<linking, started>>
    BY <1>3 DEF Links, Link, linking, Pending, Partner
  <1>4. ASSUME NEW deaf \in SUBSET Nodes, NentOpportunity(deaf) PROVE Link(k)'
    BY <1>3, <1>4 DEF NentOpportunity
  <1>5. CASE UNCHANGED vars BY <1>3, <1>5 DEF vars
  <1> QED BY <1>1, <1>2, <1>4, <1>5 DEF Next

\* Whatever nodes enter at a time and whatever messages are lost, a node passes
\* a neighbour only after the RESPONSE of that neighbour.
THEOREM PassedOnesAnswered == Spec => []NeighborsAnswered
  <1>1. Init => Typed /\ Links
    BY InitTyped DEF Init, Links, Link, Pending
  <1>2. Typed /\ Links /\ [Next]_vars => (Typed /\ Links)' BY NextTyped, NextLinks
  <1>3. Links => NeighborsAnswered BY DEF Links, Link, NeighborsAnswered
  <1> QED BY <1>1, <1>2, <1>3, PTL DEF Spec
-----------------------------------------------------------------------------
(* One node establishes its links.                                           *)

Enters(n, procedure) == News = {n} /\ setup.procedure[n] = procedure

\* Nobody but n starts anything, so the others only answer it.
Turn(n) ==
    /\ started \subseteq {n}
    /\ \A r \in Nodes \ {n} : \/ linkEstState[r] = "LE_IDLE"
                              \/ Pending(r, n)
    /\ linkEstState[n] \in IF n \in started
                           THEN {"LE_SEND_CHALLENGE", "LE_WAIT_RESPONSE", "LE_SEND_ACK"}
                           ELSE {"LE_IDLE"}
    /\ over = None => linkEstCurrent[n] < Len(neighbors[n])
    /\ ~setup.lossy /\ over = None /\ linkEstState[n] = "LE_WAIT_RESPONSE" =>
          Pending(Partner(n), n)

LEMMA PartnerIsNeighbor ==
    ASSUME Typed, NEW n \in Nodes, linkEstCurrent[n] < Len(neighbors[n])
    PROVE  Partner(n) \in Hears(n) /\ Partner(n) \in Nodes /\ n \in Hears(Partner(n))
  <1>1. neighbors[n] \in Seq(Nodes) BY EntryAssumption
  <1>2. linkEstCurrent[n] + 1 \in 1 .. Len(neighbors[n]) BY <1>1 DEF Typed
  <1>3. Partner(n) \in Hears(n)
    <2>1. neighbors[n][linkEstCurrent[n] + 1] \in {neighbors[n][i] : i \in DOMAIN neighbors[n]}
      BY <1>1, <1>2
    <2> QED BY <2>1 DEF Partner, Hears, ToSet
  <1> QED BY <1>3, HearsOthers, EntryAssumption

LEMMA NcfgTurn ==
    ASSUME Typed, NEW n \in Nodes, Enters(n, "link"), Link(n), Turn(n),
           NEW k \in Nodes, NEW heard, NcfgOpportunity(k, heard)
    PROVE  Turn(n)'
  <1>1. /\ heard \subseteq Nodes /\ k \notin heard
        /\ heard # Hears(k) => setup.lossy
        /\ over = None /\ started' = started /\ setup' = setup
    BY HearsOthers DEF NcfgOpportunity
  <1>2. linkEstCurrent[n] < Len(neighbors[n]) BY <1>1 DEF Turn
  <1>3. Partner(n) \in Hears(n) /\ Partner(n) \in Nodes /\ n \in Hears(Partner(n)) /\ Partner(n) # n
    BY <1>2, PartnerIsNeighbor, HearsOthers
  <1>4. CASE linkEstState[k] = "LE_SEND_CHALLENGE"
    <2>1. k = n /\ n \in started BY <1>4 DEF Turn, Pending
    <2> DEFINE p == Partner(n)
    <2>2. /\ \A r \in Nodes : linkEstState'[r] =
                  IF r = n THEN "LE_WAIT_RESPONSE"
                  ELSE IF r \in heard /\ r = p THEN "LE_SEND_RESPONSE" ELSE linkEstState[r]
          /\ \A r \in Nodes : linkEstId'[r] = IF r \in heard /\ r = p THEN n ELSE linkEstId[r]
          /\ linkEstCurrent' = linkEstCurrent
      BY <1>4, <2>1, Challenged DEF Typed
    <2>3. p' = p BY <2>2 DEF Partner
    <2>4. p \in Nodes /\ p # n /\ p \in Hears(n) BY <1>3
    <2> HIDE DEF p
    <2>5. \A r \in Nodes \ {n} : linkEstState'[r] = "LE_IDLE" \/ Pending(r, n)'
      <3> SUFFICES ASSUME NEW r \in Nodes \ {n}, linkEstState'[r] # "LE_IDLE" PROVE Pending(r, n)'
        OBVIOUS
      <3>1. linkEstState[r] = "LE_IDLE" \/ (linkEstState[r] = "LE_SEND_RESPONSE" /\ linkEstId[r] = n)
        BY DEF Turn, Pending
      <3>2. linkEstState'[r] = "LE_SEND_RESPONSE" /\ linkEstId'[r] = n BY <2>2, <3>1
      <3> QED BY <3>2 DEF Pending
    <2>6. ~setup.lossy => Pending(p, n)' BY <1>1, <2>1, <2>2, <2>3, <2>4 DEF Pending
    <2>7. linkEstState'[n] = "LE_WAIT_RESPONSE" BY <2>2
    <2>8. ~setup.lossy => Pending(Partner(n), n)' BY <2>3, <2>6 DEF p, Pending
    <2> QED BY <1>1, <1>2, <2>1, <2>2, <2>5, <2>7, <2>8 DEF Turn
  <1>5. CASE linkEstState[k] = "LE_SEND_RESPONSE"
    <2>1. k # n /\ Pending(k, n) BY <1>5 DEF Turn
    <2>2. linkEstId[k] = n /\ k = Partner(n) BY <2>1 DEF Link, Pending
    <2>3. /\ \A r \in Nodes : linkEstState'[r] =
                  IF r = k THEN "LE_IDLE"
                  ELSE IF r \in heard /\ r = n THEN "LE_SEND_ACK" ELSE linkEstState[r]
          /\ linkEstCurrent' = linkEstCurrent /\ linkEstId' = linkEstId
      BY <1>5, <2>2, Responded
    <2>4. \A r \in Nodes \ {n} : linkEstState'[r] = "LE_IDLE" \/ Pending(r, n)'
      BY <2>3 DEF Turn, Pending
    <2>5. linkEstState[n] = "LE_WAIT_RESPONSE" /\ n \in started BY <2>1 DEF Link, Turn
    <2>6. linkEstState'[n] \in {"LE_WAIT_RESPONSE", "LE_SEND_ACK"} BY <2>1, <2>3, <2>5
    <2>7. ~setup.lossy => linkEstState'[n] = "LE_SEND_ACK" BY <1>1, <1>3, <2>1, <2>2, <2>3
    <2> QED BY <1>1, <1>2, <2>3, <2>4, <2>5, <2>6, <2>7 DEF Turn
  <1>6. CASE linkEstState[k] \notin {"LE_SEND_CHALLENGE", "LE_SEND_RESPONSE"}
    <2> DEFINE acks == linkEstState[k] = "LE_SEND_ACK"
    <2>1. /\ \A r \in Nodes : linkEstState'[r] =
                  IF r = k /\ acks THEN "LE_SEND_CHALLENGE" ELSE linkEstState[r]
          /\ \A r \in Nodes : linkEstCurrent'[r] =
                  IF r = k /\ acks THEN linkEstCurrent[r] + 1 ELSE linkEstCurrent[r]
          /\ linkEstId' = linkEstId
      BY <1>6, Acknowledged DEF Typed
    <2>2. acks => k = n /\ n \in started BY DEF Turn, Pending
    <2>3. \A r \in Nodes \ {n} : linkEstState'[r] = "LE_IDLE" \/ Pending(r, n)'
      BY <2>1, <2>2 DEF Turn, Pending
    <2>4. CASE acks
      <3>1. linkEstState'[n] = "LE_SEND_CHALLENGE" /\ linkEstCurrent'[n] = linkEstCurrent[n] + 1
        BY <2>1, <2>2, <2>4
      <3>2. over' = None => ~LastNeighbor(n) BY <2>2, <2>4 DEF NcfgOpportunity, None
      <3>3. linkEstCurrent[n] \in Nat /\ Len(neighbors[n]) \in Nat BY EntryAssumption DEF Typed
      <3>4. over' = None => linkEstCurrent'[n] < Len(neighbors[n])
        BY <3>1, <3>2, <3>3 DEF LastNeighbor
      <3> QED BY <1>1, <2>2, <2>3, <2>4, <3>1, <3>4 DEF Turn
    <2>5. CASE ~acks
      <3>1. linkEstState'[n] = linkEstState[n] /\ linkEstCurrent'[n] = linkEstCurrent[n]
        BY <2>1, <2>5
      <3>2. Partner(n)' = Partner(n) BY <3>1 DEF Partner
      <3>3. \A r \in Nodes : Pending(r, n)' <=> Pending(r, n) BY <2>1, <2>5 DEF Pending
      <3>4. Pending(Partner(n), n)' <=> Pending(Partner(n), n) BY <1>3, <3>2, <3>3
      <3> QED BY <1>1, <2>3, <3>1, <3>4 DEF Turn
    <2> QED BY <2>4, <2>5
  <1> QED BY <1>4, <1>5, <1>6

Turned == \A n \in Nodes : Enters(n, "link") => Turn(n)

LEMMA NextTurned == Typed /\ Links /\ Turned /\ [Next]_vars => Turned'
  <1> SUFFICES ASSUME Typed, Links, Turned, [Next]_vars, NEW n \in Nodes, Enters(n, "link")'
               PROVE  Turn(n)'
    BY DEF Turned
  <1>1. setup' = setup BY DEF Next, Start, NcfgOpportunity, NentOpportunity, vars
  <1>2. Enters(n, "link") /\ Turn(n) /\ Link(n) BY <1>1 DEF Enters, News, Turned, Links
  <1>3. ASSUME NEW k \in Nodes, over = None, Start(k) PROVE Turn(n)'
    <2>1. k \in News BY <1>3 DEF Start, News
    <2>2. k = n /\ setup.procedure[n] = "link" BY <1>2, <2>1 DEF Enters
    <2>3. /\ n \notin started /\ started' = started \cup {n} /\ over' = over /\ linkEstId' = linkEstId
          /\ linkEstState' = [linkEstState EXCEPT ![n] = "LE_SEND_CHALLENGE"]
          /\ linkEstCurrent' = [linkEstCurrent EXCEPT ![n] = 0]
      BY <1>3, <2>2 DEF Start
    <2>4. linkEstCurrent'[n] < Len(neighbors[n])
      <3>1. neighbors[n] # <<>> /\ neighbors[n] \in Seq(Nodes) BY <2>2, EntryAssumption DEF Typed
      <3> QED BY <2>3, <3>1 DEF Typed
    <2>5. \A r \in Nodes \ {n} : linkEstState'[r] = "LE_IDLE" \/ Pending(r, n)'
      BY <1>2, <2>3 DEF Turn, Pending, Typed
    <2>6. linkEstState'[n] = "LE_SEND_CHALLENGE" BY <2>3 DEF Typed
    <2> QED BY <1>2, <2>3, <2>4, <2>5, <2>6 DEF Turn
  <1>4. ASSUME NEW k \in Nodes, NEW heard \in SUBSET Hears(k), NcfgOpportunity(k, heard) PROVE Turn(n)'
    BY <1>2, <1>4, NcfgTurn
  <1>5. ASSUME NEW deaf \in SUBSET Nodes, NentOpportunity(deaf) PROVE Turn(n)'
    <2>1. over = None /\ UNCHANGED <<setup, started, linking>> BY <1>5 DEF NentOpportunity
    <2> QED BY <1>2, <2>1 DEF Turn, linking, Pending, Partner
  <1>6. CASE UNCHANGED vars BY <1>2, <1>6 DEF vars, linking, Turn, Pending, Partner
  <1> QED BY <1>3, <1>4, <1>5, <1>6 DEF Next

LEMMA TurnIsOne ==
    ASSUME Typed, NEW n \in Nodes, Link(n), Turn(n), started # {}, over = None
    PROVE  /\ Cardinality(Turns) <= 1
           /\ ~setup.lossy => Turns # {}
  <1>1. n \in started BY DEF Turn
  <1>2. CASE linkEstState[n] \in {"LE_SEND_CHALLENGE", "LE_SEND_ACK"}
    <2>1. \A r \in Nodes : ~Pending(r, n) BY <1>2 DEF Link
    <2>2. Turns = {n} BY <1>2, <2>1 DEF Turn, Turns
    <2>3. Cardinality({n}) = 1 BY FS_Singleton
    <2> QED BY <2>2, <2>3
  <1>3. CASE linkEstState[n] = "LE_WAIT_RESPONSE"
    <2> DEFINE p == Partner(n)
    <2>1. Turns \subseteq {p}
      <3>1. \A r \in Turns : r # n BY <1>3 DEF Turns
      <3>2. \A r \in Turns : Pending(r, n) BY <3>1 DEF Turns, Turn
      <3> QED BY <3>2 DEF Link, Turns
    <2>2. IsFiniteSet({p}) /\ Cardinality({p}) = 1 BY FS_Singleton
    <2>3. Cardinality(Turns) <= Cardinality({p}) BY <2>1, <2>2, FS_Subset
    <2>4. p \in Nodes BY PartnerIsNeighbor DEF Turn
    <2>5. ~setup.lossy => p \in Turns BY <1>3, <2>4 DEF Turn, Turns, Pending
    <2> QED BY <2>2, <2>3, <2>5
  <1> QED BY <1>1, <1>2, <1>3 DEF Turn

\* While one new node establishes its links, CHALLENGE, RESPONSE and ACK
\* alternate: one node at most has something to send, and unless messages are
\* lost one has.
THEOREM LinkTurnsAlternate == Spec => []OneTurn
  <1>1. Init => Typed /\ Links /\ Turned
    <2>1. Init => Turned
      <3> SUFFICES ASSUME Init, NEW n \in Nodes, Enters(n, "link") PROVE Turn(n) BY DEF Turned
      <3>1. neighbors[n] # <<>> /\ neighbors[n] \in Seq(Nodes)
        BY EntryAssumption DEF Init, Enters
      <3> QED BY <3>1 DEF Init, Turn
    <2> QED BY <2>1, InitTyped DEF Init, Links, Link, Pending
  <1>2. Typed /\ Links /\ Turned /\ [Next]_vars => (Typed /\ Links /\ Turned)'
    BY NextTyped, NextLinks, NextTurned
  <1>3. Typed /\ Links /\ Turned => OneTurn
    BY TurnIsOne DEF Links, Turned, OneTurn, OnlyNew, Enters
  <1> QED BY <1>1, <1>2, <1>3, PTL DEF Spec
-----------------------------------------------------------------------------
(* One node opens a sponsor channel.                                         *)

\* Nobody but n has a REQUEST, so the others are idle or have an OPEN; and the
\* REQUEST is sent once.
Request(n) ==
    /\ started \subseteq {n}
    /\ \A r \in Nodes : linkEstState[r] = "LE_IDLE"
    /\ sponsorState[n] \in IF n \in started THEN {"SS_SEND_REQ", "SS_SEND_ACK"} ELSE {"SS_IDLE"}
    /\ \A r \in Nodes \ {n} : sponsorState[r] \in {"SS_IDLE", "SS_SEND_OPEN"}
    /\ sponsorState[n] # "SS_SEND_ACK" => asked = {}
    /\ \A a \in asked :
          /\ a[1] = n /\ a[2] \in Nodes \ {n} /\ a = <<a[1], a[2]>>
          /\ a \in opened \/ (sponsorState[a[2]] = "SS_SEND_OPEN" /\ sponsorId[a[2]] = n)

LEMMA NcfgRequest ==
    ASSUME Typed, NEW n \in Nodes, Request(n),
           NEW k \in Nodes, NEW heard, NcfgOpportunity(k, heard)
    PROVE  Request(n)'
  <1>1. UNCHANGED <<setup, started, sponsorId, asked>> BY DEF NcfgOpportunity
  <1>2. \A r \in Nodes : linkEstState'[r] = "LE_IDLE"
    <2>1. linkEstState[k] = "LE_IDLE" BY DEF Request
    <2>2. linkEstState' = [linkEstState EXCEPT ![k] =
              IF @ = "LE_SEND_ACK" THEN "LE_SEND_CHALLENGE" ELSE @]
      BY <2>1, Acknowledged
    <2> QED BY <2>1, <2>2 DEF Typed, Request
  <1>3. \A r \in Nodes : sponsorState'[r] =
            IF r = k /\ sponsorState[r] = "SS_SEND_OPEN" THEN "SS_IDLE" ELSE sponsorState[r]
    BY DEF NcfgOpportunity, Typed
  <1>4. Message(k) = Ncfg("NET_ENTRY_OPEN", IF sponsorState[k] = "SS_SEND_OPEN" THEN sponsorId[k] ELSE None)
    BY DEF Message, Request
  <1>5. /\ opened \subseteq opened'
        /\ sponsorState[k] = "SS_SEND_OPEN" /\ sponsorId[k] # None => <<sponsorId[k], k>> \in opened'
    BY <1>4 DEF NcfgOpportunity, Ncfg
  <1>6. ASSUME NEW a \in asked
        PROVE  a \in opened' \/ (sponsorState'[a[2]] = "SS_SEND_OPEN" /\ sponsorId'[a[2]] = n)
    <2>1. a[1] = n /\ a[2] \in Nodes \ {n} /\ a = <<a[1], a[2]>> BY DEF Request
    <2>2. a \in opened \/ (sponsorState[a[2]] = "SS_SEND_OPEN" /\ sponsorId[a[2]] = n) BY DEF Request
    <2>3. CASE a \in opened BY <1>5, <2>3
    <2>4. CASE a \notin opened /\ a[2] = k
      <3>1. sponsorState[k] = "SS_SEND_OPEN" /\ sponsorId[k] = n /\ n # None
        BY <2>2, <2>4, EntryAssumption
      <3> QED BY <1>5, <2>1, <2>4, <3>1
    <2>5. CASE a \notin opened /\ a[2] # k BY <1>1, <1>3, <2>1, <2>2, <2>5
    <2> QED BY <2>3, <2>4, <2>5
  <1>7. sponsorState'[n] = sponsorState[n] BY <1>3 DEF Request
  <1>8. \A r \in Nodes \ {n} : sponsorState'[r] \in {"SS_IDLE", "SS_SEND_OPEN"} BY <1>3 DEF Request
  <1> QED BY <1>1, <1>2, <1>6, <1>7, <1>8 DEF Request

LEMMA NentRequest ==
    ASSUME Typed, NEW n \in Nodes, Request(n), NEW deaf, NentOpportunity(deaf)
    PROVE  Request(n)'
  <1>1. UNCHANGED <<setup, started, linking, opened>> BY DEF NentOpportunity
  <1>2. \A r \in Nodes : WantsNent(r) <=> r = n /\ sponsorState[n] = "SS_SEND_REQ"
    BY DEF WantsNent, Request
  <1>3. \A a \in asks(deaf) : /\ a[1] = n /\ a[2] \in Nodes \ {n} /\ a = <<a[1], a[2]>>
                              /\ sponsorState[n] = "SS_SEND_REQ"
    <2> SUFFICES ASSUME NEW a \in asks(deaf)
                 PROVE  /\ a[1] = n /\ a[2] \in Nodes \ {n} /\ a = <<a[1], a[2]>>
                        /\ sponsorState[n] = "SS_SEND_REQ"
      OBVIOUS
    <2>1. /\ a[1] \in Nodes /\ a[2] \in Nodes /\ a = <<a[1], a[2]>>
          /\ WantsNent(a[1]) /\ ~WantsNent(a[2])
      BY NentStep
    <2> QED BY <1>2, <2>1
  <1>4. \A r \in Nodes : sponsorState'[r] =
            IF WantsNent(r) THEN "SS_SEND_ACK"
            ELSE IF \E m \in Nodes : <<m, r>> \in asks(deaf) THEN "SS_SEND_OPEN"
            ELSE sponsorState[r]
    <2>1. sponsorState' = [r \in Nodes |->
              IF WantsNent(r) THEN "SS_SEND_ACK"
              ELSE IF \E m \in Nodes : <<m, r>> \in asks(deaf) THEN "SS_SEND_OPEN"
              ELSE sponsorState[r]]
      BY NentStep
    <2> QED BY <2>1
  <1>5. CASE sponsorState[n] = "SS_SEND_REQ"
    <2>1. asked = {} /\ n \in started BY <1>5 DEF Request
    <2>2. asked' = asks(deaf) BY <2>1, NentStep
    <2>3. sponsorState'[n] = "SS_SEND_ACK" BY <1>2, <1>4, <1>5
    <2>4. \A r \in Nodes \ {n} : sponsorState'[r] \in {"SS_IDLE", "SS_SEND_OPEN"}
      BY <1>2, <1>4 DEF Request
    <2>5. ASSUME NEW a \in asked'
          PROVE  sponsorState'[a[2]] = "SS_SEND_OPEN" /\ sponsorId'[a[2]] = n
      <3>1. a[1] = n /\ a[2] \in Nodes \ {n} /\ <<n, a[2]>> \in asks(deaf) BY <1>3, <2>2
      <3>2. sponsorState'[a[2]] = "SS_SEND_OPEN" BY <1>2, <1>4, <3>1
      <3>3. <<sponsorId'[a[2]], a[2]>> \in asks(deaf) BY <3>1, NentStep
      <3>4. \A m, r : <<m, r>> \in asks(deaf) => m = n BY <1>3
      <3> QED BY <3>2, <3>3, <3>4
    <2>6. \A a \in asked' : a[1] = n /\ a[2] \in Nodes \ {n} /\ a = <<a[1], a[2]>> BY <1>3, <2>2
    <2> QED BY <1>1, <2>1, <2>3, <2>4, <2>5, <2>6 DEF Request, linking
  <1>6. CASE sponsorState[n] # "SS_SEND_REQ"
    <2>1. asks(deaf) = {} BY <1>3, <1>6
    <2>2. asked' = asked BY <2>1, NentStep
    <2>3. \A r \in Nodes : sponsorState'[r] = sponsorState[r] /\ sponsorId'[r] = sponsorId[r]
      <3>1. \A r \in Nodes : sponsorState'[r] = sponsorState[r] BY <1>2, <1>4, <1>6, <2>1
      <3>2. \A r \in Nodes : sponsorId'[r] = sponsorId[r] BY <2>1, NentStep
      <3> QED BY <3>1, <3>2
    <2> QED BY <1>1, <2>2, <2>3 DEF Request, linking
  <1> QED BY <1>5, <1>6

Requested == \A n \in Nodes : Enters(n, "sponsor") => Request(n)

LEMMA NextRequested == Typed /\ Requested /\ [Next]_vars => Requested'
  <1> SUFFICES ASSUME Typed, Requested, [Next]_vars, NEW n \in Nodes, Enters(n, "sponsor")'
               PROVE  Request(n)'
    BY DEF Requested
  <1>1. setup' = setup BY DEF Next, Start, NcfgOpportunity, NentOpportunity, vars
  <1>2. Enters(n, "sponsor") /\ Request(n) BY <1>1 DEF Enters, News, Requested
  <1>3. ASSUME NEW k \in Nodes, over = None, Start(k) PROVE Request(n)'
    <2>1. k \in News BY <1>3 DEF Start, News
    <2>2. k = n /\ setup.procedure[n] = "sponsor" BY <1>2, <2>1 DEF Enters
    <2>3. /\ n \notin started /\ started' = started \cup {n} /\ linkEstState' = linkEstState
          /\ asked' = asked /\ opened' = opened
          /\ sponsorState' = [sponsorState EXCEPT ![n] = "SS_SEND_REQ"]
          /\ sponsorId' = [sponsorId EXCEPT ![n] = setup.sponsor]
      BY <1>3, <2>2 DEF Start
    <2>4. asked = {} BY <1>2, <2>3 DEF Request
    <2>5. sponsorState'[n] = "SS_SEND_REQ" BY <2>3 DEF Typed
    <2>6. \A r \in Nodes \ {n} : sponsorState'[r] = sponsorState[r] BY <2>3 DEF Typed
    <2> QED BY <1>2, <2>3, <2>4, <2>5, <2>6 DEF Request
  <1>4. ASSUME NEW k \in Nodes, NEW heard \in SUBSET Hears(k), NcfgOpportunity(k, heard) PROVE Request(n)'
    BY <1>2, <1>4, NcfgRequest
  <1>5. ASSUME NEW deaf \in SUBSET Nodes, NentOpportunity(deaf) PROVE Request(n)'
    BY <1>2, <1>5, NentRequest
  <1>6. CASE UNCHANGED vars BY <1>2, <1>6 DEF vars, sponsoring, linking, Request
  <1> QED BY <1>3, <1>4, <1>5, <1>6 DEF Next

\* A sponsor that received the REQUEST of the only new node answers it with an
\* OPEN or has one to send, whatever is lost.
THEOREM RequestsAreAnswered == Spec => []RequestKept
  <1>1. Init => Typed /\ Requested
    <2>1. Init => Requested BY DEF Init, Requested, Request
    <2> QED BY <2>1, InitTyped
  <1>2. Typed /\ Requested /\ [Next]_vars => (Typed /\ Requested)' BY NextTyped, NextRequested
  <1>3. Requested => RequestKept
    BY DEF Requested, RequestKept, OnlyNew, Enters, Request
  <1> QED BY <1>1, <1>2, <1>3, PTL DEF Spec
=============================================================================
