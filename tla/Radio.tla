-------------------------------- MODULE Radio --------------------------------
(***************************************************************************)
(* The radio of one node: bursts of other nodes come over the channels       *)
(* (WimshChannel), are kept while they last and checked for collisions when  *)
(* they end (WimshPhy), and are decoded (WimshMac::recvBurst).  Meanwhile    *)
(* the MAC switches channel and mode (WimshPhy::setMode).                    *)
(*                                                                          *)
(* Times are relative to now.                                                *)
(***************************************************************************)
EXTENDS Integers, FiniteSets, FiniteSetsExt

CONSTANTS Source,     \* nodes that are heard over the channels
          Neighbor,   \* those that are neighbours
          Channel,
          Kinds,      \* of bursts: type and duration
          MaxRun,     \* bound: frames between changes of the quality of a link
          MaxHeld,    \* bound: bursts kept
          OldAge,     \* bound: ages are not told apart beyond this one
          Setups      \* whether the quality of links changes (links) and the
                      \* channel has errors (lossy)

ASSUME RadioAssumption ==
    /\ Neighbor \subseteq Source
    /\ Kinds # {} /\ Kinds \subseteq [type : {"DATA", "DSCH"}, duration : Nat \ {0}]
    /\ MaxRun \in Nat \ {0}
    /\ OldAge \in Nat /\ \A k \in Kinds : k.duration < OldAge
    /\ Setups \subseteq [links : BOOLEAN, lossy : BOOLEAN]

VARIABLES setup,      \* given at the start: links is mshDschAvgError_ > 0, lossy
                      \* errorData_ and errorCtrl_
          channel,    \* channel_
          mode,       \* mode of the PHY on channel_
          rxBursts,   \* descriptors of bursts heard
          link,       \* mshDschLinkQuality_
          decoded     \* ghost: the burst that just ended, and what became of it

vars == <<setup, channel, mode, rxBursts, link, decoded>>

Nothing == [type |-> "none"]

Init == /\ setup \in Setups
        /\ channel \in Channel /\ mode = "RX"
        /\ rxBursts = {}
        /\ link = [n \in Neighbor |-> [good |-> TRUE, frames |-> 1]]
        /\ decoded = Nothing

-----------------------------------------------------------------------------
(* Bursts.  A descriptor holds a burst (burst_) or not; error is the error   *)
(* flag of the burst; garbled (ghost) says that it cannot have been received *)
(* whole: another burst of a neighbour overlapped it, or the radio was not   *)
(* receiving on its channel all the time; lost, that the channel broke it;   *)
(* crossed, that a burst which began on another channel ended meanwhile.     *)

Overlap(d, e) == d.finish > e.start /\ e.finish > d.start

\* Mutant: channels are not told apart.
InterferesAcross(d, cur) ==
    d # cur /\ Overlap(d, cur) /\ d.src \in Neighbor /\ cur.src \in Neighbor

\* Two bursts heard on a channel at once, both from neighbours.
Interferes(d, cur) ==
    /\ d # cur /\ d.channel = cur.channel /\ Overlap(d, cur)
    /\ d.src \in Neighbor /\ cur.src \in Neighbor

\* WimshPhy::recvBurst: the descriptor of a burst that begins, with the burst
\* if it comes from a neighbour.
Desc(n, kind, lost) ==
    [src |-> n, channel |-> channel, type |-> kind.type, start |-> 0, finish |-> kind.duration,
     burst |-> n \in Neighbor, error |-> lost /\ n \in Neighbor,
     lost |-> lost /\ n \in Neighbor, garbled |-> FALSE, crossed |-> FALSE]

\* Ghost: bursts of two neighbours that are on the air together garble each
\* other.
Garble(descs) ==
    LET OnAir == {d \in descs : d.channel = channel /\ d.finish > 0 /\ d.src \in Neighbor}
    IN {[d EXCEPT !.garbled = @ \/ (d \in OnAir /\ d.burst /\ OnAir # {d})] : d \in descs}

\* WimshPhy::sendBurst of another node, WimshChannel::recvBurst, which may
\* corrupt the burst, and, after the same propagation time for all bursts,
\* WimshChannel::handle: the burst reaches this node if it listens to that
\* channel.  A node sends one burst at a time.
Send(n, c, kind, lost) ==
    /\ lost => setup.lossy
    /\ Cardinality(rxBursts) < MaxHeld
    /\ \A d \in rxBursts : d.src = n => d.finish <= 0
    /\ c = channel /\ mode = "RX"
    /\ rxBursts' = Garble(rxBursts \cup {Desc(n, kind, lost)})
    /\ decoded' = Nothing
    /\ UNCHANGED <<setup, channel, mode, link>>

-----------------------------------------------------------------------------
(* setMode. *)

\* Mutant: a switch to transmission leaves the bursts under way alone.
SpoilsOnChannelOnly(s, c) == c # channel

\* A switch of channel, or from reception to transmission, spoils the bursts
\* that have not ended.
Spoils(s, c) == c # channel \/ (mode = "RX" /\ s = "TX")

setMode(s, c) ==
    /\ <<s, c>> # <<mode, channel>>
    /\ mode' = s /\ channel' = c
    /\ rxBursts' = {[d EXCEPT !.error = @ \/ (Spoils(s, c) /\ d.finish > 0 /\ d.burst),
                              !.garbled = @ \/ (d.finish > 0 /\ d.burst /\ (s # "RX" \/ d.channel # c))] :
                       d \in rxBursts}
    /\ decoded' = Nothing
    /\ UNCHANGED <<setup, link>>

-----------------------------------------------------------------------------
(* WimshPhy::handle and WimshMac::recvBurst: the burst of cur ends. *)

Error(cur) == cur.error \/ \E d \in rxBursts : Interferes(d, cur)

\* Mutant: everything older than the latest burst is dropped.
CleanedByStart(descs) ==
    LET undispatched == {d \in descs : d.finish >= 0}
    IN IF undispatched = {} THEN {}
       ELSE {d \in descs : d.start >= Max({e.start : e \in undispatched})}

\* Descriptors that ended before the latest burst under way began are dropped.
Cleaned(descs) ==
    LET undispatched == {d \in descs : d.finish >= 0}
    IN IF undispatched = {} THEN {}
       ELSE {d \in descs : d.finish >= Max({e.start : e \in undispatched})}

\* recvBurst: an MSH-DSCH is decoded by the quality of the link when that is
\* modelled, and whatever happened to it when it is not.
Decodes(cur) ==
    IF cur.type # "DSCH" THEN ~Error(cur)
    ELSE setup.links => ~Error(cur) /\ link[cur.src].good

\* The link keeps its quality for some frames, then flips.
Age(q) == IF q.frames > 1 THEN {[q EXCEPT !.frames = @ - 1]}
          ELSE {[good |-> ~q.good, frames |-> n] : n \in 1 .. MaxRun}

\* What is left of a burst that went to the MAC.
Dispatched(d) == [d EXCEPT !.burst = FALSE, !.error = FALSE, !.lost = FALSE, !.garbled = FALSE,
                           !.crossed = FALSE]

\* Ghost: bursts of other channels are cleaned up with the end of cur.
Cross(descs, cur) ==
    {[d EXCEPT !.crossed = @ \/ (d.burst /\ d.channel # cur.channel)] : d \in descs}

End(cur) ==
    /\ cur.burst /\ cur.finish = 0
    /\ decoded' = [type |-> cur.type, ok |-> Decodes(cur),
                   garbled |-> cur.garbled, lost |-> cur.lost, crossed |-> cur.crossed,
                   good |-> link[cur.src].good]
    /\ IF cur.type = "DSCH" /\ setup.links
       THEN \E q \in Age(link[cur.src]) : link' = [link EXCEPT ![cur.src] = q]
       ELSE UNCHANGED link
    /\ rxBursts' = Cleaned(Cross(rxBursts \ {cur}, cur) \cup {Dispatched(cur)})
    /\ UNCHANGED <<setup, channel, mode>>

\* A unit of time, if nothing is due.
Older(t) == IF t > -OldAge THEN t - 1 ELSE t

Tick == /\ \A d \in rxBursts : d.burst => d.finish > 0
        /\ rxBursts' = {[d EXCEPT !.start = Older(@), !.finish = Older(@)] : d \in rxBursts}
        /\ decoded' = Nothing
        /\ UNCHANGED <<setup, channel, mode, link>>

Next == \/ \E n \in Source, c \in Channel, kind \in Kinds, lost \in BOOLEAN :
              Send(n, c, kind, lost)
        \/ \E s \in {"RX", "TX"}, c \in Channel : setMode(s, c)
        \/ \E d \in rxBursts : End(d)
        \/ Tick

Spec == Init /\ [][Next]_vars

-----------------------------------------------------------------------------
(* Properties. *)

Ended == decoded # Nothing

\* The error flag of an MSH-DSCH counts only when the quality of links is
\* modelled (recvBurst resets it otherwise).
FlagCounts == decoded.type = "DATA" \/ setup.links

\* Nothing is decoded of a burst that overlapped another one, even one that
\* ended and was dispatched long before, nor of a burst during which the radio
\* was elsewhere: handle drops no descriptor that is still needed, but at the
\* end of a burst that a switch of channel has spoiled.
GarbledIsDropped ==
    Ended /\ FlagCounts /\ decoded.garbled /\ ~decoded.crossed => ~decoded.ok

\* "check whether there are ongoing communications which interfere with this
\* one. If so, then set the error flag into the burst" (wimsh_phy.h): whatever
\* else is going on.
InterferenceFlagged == Ended /\ FlagCounts /\ decoded.garbled => ~decoded.ok

\* What nothing interfered with is decoded: no burst of another channel, of a
\* node out of reach or of another time spoils it.
WholeIsDecoded ==
    Ended /\ ~decoded.garbled /\ ~decoded.lost /\ (decoded.type = "DSCH" => decoded.good) =>
        decoded.ok

\* The burst whose end the timer announces is in the list ("assert ( cur !=
\* rxBursts_.end() )"): each node that is sending has its descriptor.
PendingKept ==
    [][\A d \in rxBursts : d.burst /\ d.finish > 0 =>
          \E e \in rxBursts' : e.src = d.src /\ e.burst]_rxBursts

\* An MSH-DSCH that collided is not decoded.
CollidedDschDropped == Ended /\ decoded.garbled => ~decoded.ok
=============================================================================
