------------------------------- MODULE FairRR -------------------------------
(***************************************************************************)
(* WimshBwManagerFairRR: the bandwidth managers of the nodes of a mesh with  *)
(* one data channel and the coordinated services UGS, nrtPS and BE.  In the  *)
(* control subframe of a frame some nodes send an MSH-DSCH message, which    *)
(* schedule fills and recvMshDsch of every neighbour interprets before the   *)
(* next control slot; at the end of the data subframe handle of every node   *)
(* forgets the row of the frame that ends.                                   *)
(*                                                                           *)
(* Left out: the uncoordinated (rtPS) messages, reservations cancelled on    *)
(* behalf of forwarded traffic (all traffic is one-hop here), more than one  *)
(* channel, and the merging of contiguous elements in a message.             *)
(***************************************************************************)
EXTENDS SlotTables, SequencesExt

CONSTANTS Node, Nbr,      \* the topology: Nbr[n] are the neighbours of n
          None,           \* no node: UINT_MAX, 999
          Demand,         \* Demand[n][y][s]: bytes per frame n estimates for y
          Margin,         \* slots a request adds to the estimate (3)
          Persist,        \* frames of a FRAME32 grant (HORIZON / 4)
          LookAhead,      \* the frames grantFit and confFit look ahead (10)
          NrtpsMin,       \* nrtpsMinSlots_
          Room,           \* bytes left in a message for requests and grants
          Handshake,      \* handshake (dst), frames
          SymPerSlot, Preamble, Alpha,   \* the PHY: slots2bytes, bytes2slots
          MinGap, MaxGap, \* frames between two messages of the same node
          Lossy,          \* nodes that may get control bursts corrupted
          MaxFrame        \* bound on the number of frames

Service == {"UGS", "NRTPS", "BE"}   \* in the order schedule serves them

ASSUME FairRRAssumption ==
    /\ IsFiniteSet(Node) /\ None \notin Node
    /\ Nbr \in [Node -> SUBSET Node]
    /\ \A n \in Node : n \notin Nbr[n] /\ \A y \in Nbr[n] : n \in Nbr[y]
    /\ \A n \in Node : \A y \in Nbr[n] : \A s \in Service : Demand[n][y][s] \in Nat
    /\ Persist \in 1 .. Horizon /\ LookAhead \in Nat /\ Handshake \in Nat
    /\ Margin \in Nat /\ NrtpsMin \in Nat /\ Room \in 0 .. UintMod - 1
    /\ Preamble \in Nat /\ SymPerSlot \in Nat /\ SymPerSlot > Preamble
    /\ Alpha \in Nat \ {0}
    /\ MaxGap \in Nat /\ MinGap \in 1 .. MaxGap /\ MaxFrame \in Nat

VARIABLES frame,    \* the frame number, the same for all nodes
          mgr,      \* mgr[n]: the bandwidth manager of node n
          last,     \* last[n]: the frame of the last control slot of n
          offers,   \* history: <<g, r, f, s>>, g granted slot s of frame f to r
          confs     \* history: <<r, g, f, s>>, r confirmed it to g

vars == <<frame, mgr, last, offers, confs>>

Plane == {"plain", "UGS", "NRTPS"}        \* the maps busy_, busy_UGS_, busy_NRTPS_, ...
Unset == "9"                              \* a minislot no service uses
Never == UintMod - 1

AvlSize == 4
GntSize == 5
ReqSize == 3

Pers(serv) == IF serv = "UGS" THEN Horizon ELSE Persist

slots2bytes(k) == Alpha * (k * SymPerSlot - Preamble)
bytes2slots(b) ==
    IF b = 0 THEN 0 ELSE 1 + (Preamble + (b - 1) \div Alpha) \div SymPerSlot

Bytes(ie) == ie.pers * slots2bytes(ie.range)   \* what a grant is worth

\* A loop: what n rounds make of x, step(k, y) being the k-th round.
Rounds(step(_, _), x, n) ==
    LET after[k \in Nat] == IF k = 0 THEN x ELSE step(k, after[k - 1]) IN after[n]

Clear == [p \in Plane |-> {}]

NeighDesc == [req_in |-> 0, gnt_in |-> 0, cnf_in |-> 0,
              req_out |-> 0, gnt_out |-> 0, level_in |-> 0]

Manager(n) ==
    LET perFlow(v) == [y \in Nbr[n] |-> [s \in Service |-> v]]
        perCell(v) == [c \in TableCell |-> v]
    IN [busy |-> Clear, unconfirmedSlots |-> Clear, self_rx_unavl |-> Clear,
        self_tx_unavl |-> Clear, neigh_tx_unavl |-> [y \in Nbr[n] |-> Clear],
        grants |-> {}, dst |-> perCell(None), src |-> perCell(None),
        service |-> perCell(Unset),
        unconfirmed |-> <<>>, grantWaiting |-> <<>>, availabilities |-> <<<<>>, <<>>>>,
        neigh |-> perFlow(NeighDesc), activeList |-> [s \in Service |-> <<>>],
        startHorizon |-> perFlow(TRUE), nextFrame |-> perFlow(0)]

Init == /\ frame = 0
        /\ mgr = [n \in Node |-> Manager(n)]
        /\ last \in [Node -> {0 - k : k \in 1 .. MaxGap}]
        /\ offers = {}
        /\ confs = {}

\* Marking the cells of a grant: UGS in its own map, nrtPS also in the map of
\* the minimum it may not be deprived of.
Mark(map, serv, f, fr, s, sr) ==
    CASE serv = "UGS" -> [map EXCEPT !["UGS"] = @ \cup Block(f, fr, s, sr)]
      [] serv = "NRTPS" -> [map EXCEPT
            !["plain"] = @ \cup Block(f, fr, s, sr),
            !["NRTPS"] = @ \cup Block(f, fr, s, Min({sr, NrtpsMin}))]
      [] serv = "BE" -> [map EXCEPT !["plain"] = @ \cup Block(f, fr, s, sr)]

With(map, planes, block) ==
    [p \in Plane |-> IF p \in planes THEN map[p] \cup block ELSE map[p]]

Without(map, planes, block) ==
    [p \in Plane |-> IF p \in planes THEN map[p] \ block ELSE map[p]]

-----------------------------------------------------------------------------
(* A message under construction: m is the manager of the sender, the lists   *)
(* have the last element added in front.  remaining() is unsigned.           *)
Message(m) == [m |-> m, avl |-> <<>>, gnt |-> <<>>, req |-> <<>>, size |-> 0,
               offers |-> {}, confs |-> {}, passes |-> 0]

Remaining(d) == Uint(Room - d.size)

\* Mutant of Fits: a message that is not full takes one more element.
NotFull(d, size) == Remaining(d) > 0

Fits(d, size) == Remaining(d) >= size

AddAvl(d, ie) == [d EXCEPT !.avl = <<ie>> \o @, !.size = @ + AvlSize]
AddGnt(d, ie) == [d EXCEPT !.gnt = <<ie>> \o @, !.size = @ + GntSize]
AddReq(d, ie) == [d EXCEPT !.req = <<ie>> \o @, !.size = @ + ReqSize]

\* What the history records: n promised y minislots of a block of frames.
Promises(n, y, fstart, frange, mstart, mrange) ==
    {<<n, y, f, s>> : f \in fstart .. fstart + frange - 1, s \in mstart .. mstart + mrange - 1}

\* A grant or confirmation just decided: in the message, else in grantWaiting_.
AddOrWait(d, ie, room) ==
    IF Remaining(d) > GntSize /\ room THEN AddGnt(d, ie)
    ELSE [d EXCEPT !.m.grantWaiting = Append(@, ie)]

\* The minislots borrowed by grantFit or confFit are advertised as available.
AddBorrowed(d, ie, q) ==
    IF Remaining(d) > AvlSize + GntSize
    THEN [d |-> AddAvl(d, ie), room |-> TRUE]
    ELSE [d |-> [d EXCEPT !.m.availabilities[q] = Append(@, ie)], room |-> FALSE]

\* One that is over is dropped.
SendAvailability(d, q) ==
    LET ie == Head(d.m.availabilities[q])
        rest == [d EXCEPT !.m.availabilities[q] = Tail(@)]
    IN IF d.m.availabilities[q] = <<>> \/ ~Fits(d, AvlSize) THEN d
       ELSE IF frame <= ie.frame + ie.pers THEN AddAvl(rest, ie)
       ELSE rest

SendWaiting(d) ==
    IF d.m.grantWaiting = <<>> \/ ~Fits(d, GntSize) THEN d
    ELSE AddGnt([d EXCEPT !.m.grantWaiting = Tail(@)], Head(d.m.grantWaiting))

SendAvailabilities(d, q) ==
    Rounds(LAMBDA k, e : SendAvailability(e, q), d, Len(d.m.availabilities[q]))

SendAllWaiting(d) == Rounds(LAMBDA k, e : SendWaiting(e), d, Len(d.m.grantWaiting))

\* availabilities_[0] first, then availabilities_[1], then grantWaiting_[0].
Availabilities(d) == SendAllWaiting(SendAvailabilities(SendAvailabilities(d, 1), 2))

-----------------------------------------------------------------------------
(* confirm ()                                                                *)

\* The minislots of the grant g that the look-ahead row shows as free at the
\* requester; for nrtPS, failing these, minislots borrowed from other nrtPS.
confFit(d, f, g) ==
    LET m == d.m
        row == f + LookAhead
        want == g.start .. g.start + g.range - 1
        taken == UNION {At(m.busy[p] \cup m.self_tx_unavl[p], row) : p \in {"plain", "UGS"}}
        nrtps == {s \in want : /\ m.service[<<row % Horizon, s>>] = "NRTPS"
                               /\ s \notin At(m.busy["NRTPS"] \cup m.self_tx_unavl["NRTPS"], row)}
        fit(run) == [g EXCEPT !.frame = f, !.start = run.start,
                              !.range = run.range, !.pers = Pers(g.serv)]
        free == FirstRun(want \ taken, g.range)
        lent == FirstRun(IF g.serv = "NRTPS" THEN nrtps ELSE {}, g.range)
        avl == [frame |-> f, start |-> lent.start, range |-> lent.range,
                dir |-> "RX_AVL", pers |-> Persist, serv |-> g.serv]
        borrowed == AddBorrowed(d, avl, 1)
    IN CASE free.range > 0 -> [d |-> d, g |-> fit(free), room |-> TRUE]
         [] free.range = 0 /\ lent.range > 0 ->
                [d |-> borrowed.d, g |-> fit(lent), room |-> borrowed.room]
         [] free.range = 0 /\ lent.range = 0 ->
                [d |-> d, g |-> [g EXCEPT !.range = 0], room |-> TRUE]

\* The confirmation g leaves (or waits) and n will transmit in its cells.
Book(n, d, g, room) ==
    LET block == Block(g.frame, g.pers, g.start, g.range)
        e == AddOrWait(d, g, room)
    IN [e EXCEPT
          !.m.busy = Mark(@, g.serv, g.frame, g.pers, g.start, g.range),
          !.m.grants = @ \cup block,
          !.m.dst = Stamp(@, block, g.node),
          !.m.src = Stamp(@, block, None),
          !.m.service = Stamp(@, block, g.serv),
          !.confs = @ \cup Promises(n, g.node, g.frame, g.pers, g.start, g.range)]

\* What is confirmed is deducted from the grants and requests pending with y.
Charge(d, y, serv, bytes) ==
    LET c == d.m.neigh[y][serv]
        cnf_out == Min({bytes, c.gnt_out})
    IN [d EXCEPT !.m.neigh[y][serv] =
          [c EXCEPT !.gnt_out = @ - cnf_out, !.req_out = Uint(@ - cnf_out)]]

\* The grant g is confirmed, as far as it fits.
ConfirmGrant(n, d, g, serv) ==
    LET f == IF g.serv = "UGS" THEN g.frame ELSE RealStart(frame, g.frame)
        fit == confFit(d, f, g)
    IN IF fit.g.range = 0 THEN Charge(fit.d, g.node, serv, 0)
       ELSE Charge(Book(n, fit.d, fit.g, fit.room), g.node, serv, Bytes(fit.g))

\* All grants received in coordinated messages share one list, served from the
\* back; the counters charged are those of the service of the current pass.
ConfirmLast(n, d, serv) ==
    IF d.m.unconfirmed = <<>> \/ ~Fits(d, GntSize) THEN d
    ELSE ConfirmGrant(n, [d EXCEPT !.m.unconfirmed = Front(@)], Last(d.m.unconfirmed), serv)

confirm(n, d, serv) ==
    Rounds(LAMBDA k, e : ConfirmLast(n, e, serv), d, Len(d.m.unconfirmed))

-----------------------------------------------------------------------------
(* requestGrant ()                                                           *)

ResetInput(c) ==
    LET gnt == Min({c.gnt_in, c.req_in})
        cnf == Min({c.cnf_in, gnt})
    IN IF c.req_in = cnf
       THEN [c EXCEPT !.req_in = 0, !.gnt_in = 0, !.cnf_in = 0]
       ELSE [c EXCEPT !.gnt_in = gnt, !.cnf_in = cnf]

\* Mutants of Unavailable: the confirmations of other nodes, or what the node has
\* already promised, are forgotten.
UnavailableNoRx(m, y, planes, f) ==
    UNION {At(m.unconfirmedSlots[p] \cup m.busy[p] \cup m.neigh_tx_unavl[y][p], f) : p \in planes}
UnavailableNoBusy(m, y, planes, f) ==
    UNION {At(m.unconfirmedSlots[p] \cup m.self_rx_unavl[p] \cup m.neigh_tx_unavl[y][p], f) : p \in planes}

\* The minislots of frame f in which the manager m may not grant to y.
Unavailable(m, y, planes, f) ==
    UNION {At(m.unconfirmedSlots[p] \cup m.busy[p] \cup m.self_rx_unavl[p]
                \cup m.neigh_tx_unavl[y][p], f) : p \in planes}

\* What a fit returns: the sender, the run, and the flags room and frame_room.
Found(d, run, room, frame_room) ==
    [d |-> d, run |-> run, room |-> room, frame_room |-> frame_room]

\* Whatever used the cells is forgotten, in the maps of the planes.
Forget(m, y, all, planes) ==
    [m EXCEPT !.dst = Stamp(@, all, None),
              !.grants = @ \ all,
              !.service = Stamp(@, all, Unset),
              !.unconfirmedSlots = Without(@, planes, all),
              !.busy = Without(@, planes, all),
              !.self_rx_unavl = Without(@, planes, all),
              !.neigh_tx_unavl[y] = Without(@, planes, all)]

\* The run is taken from weaker services, or from UGS, in every row, and the
\* others are told that it is available.
Borrow(d, y, f, run, serv, planes) ==
    LET all == Block(f, Horizon, run.start, run.range)
        avl == [frame |-> f, start |-> run.start, range |-> run.range,
                dir |-> "TX_AVL", pers |-> Horizon,
                serv |-> IF serv = "UGS" THEN "RTPS" ELSE serv]
        e == AddBorrowed(d, avl, IF serv = "NRTPS" THEN 1 ELSE 2)
    IN Found([e.d EXCEPT !.m = Forget(@, y, all, planes)], run, e.room, planes = {"plain"})

\* Up to len minislots for y in the look-ahead row of frame f: free ones; if
\* there are none, for UGS and nrtPS those lent by weaker services and then,
\* for nrtPS only, those of UGS.
grantFit(d, y, len, f, serv) ==
    LET m == d.m
        row == f + LookAhead
        service(s) == m.service[<<row % Horizon, s>>]
        free == Minislot \ Unavailable(m, y, Plane, row)
        kept == Unavailable(m, y, {"NRTPS"}, row)
        weak == {s \in Minislot : \/ service(s) \in {Unset, "BE"}
                                  \/ service(s) = "NRTPS" /\ s \notin kept}
        ugs == {s \in Minislot : service(s) = "UGS"}
        nothing == FirstRun({}, 0)
    IN CASE free # {} -> Found(d, FirstRun(free, len), TRUE, TRUE)
         [] free = {} /\ serv # "BE" /\ weak # {} ->
                Borrow(d, y, f, FirstRun(weak, len), serv, {"plain"})
         [] free = {} /\ serv = "NRTPS" /\ weak = {} /\ ugs # {} ->
                Borrow(d, y, f, FirstRun(ugs, Min({len, NrtpsMin})), serv, {"UGS"})
         [] free = {} /\ serv = "NRTPS" /\ weak = {} /\ ugs = {} ->
                Found(d, nothing, TRUE, FALSE)
         [] free = {} /\ (serv = "BE" \/ (serv = "UGS" /\ weak = {})) ->
                Found(d, nothing, TRUE, TRUE)

\* The first of LookAhead frames from f on in which all minislots of the run
\* are available, else the one after these.
realGrantStart(m, y, f, run) ==
    LET slots == run.start .. run.start + run.range - 1
        fits == {h \in f .. f + LookAhead - 1 :
                    slots \cap Unavailable(m, y, {"plain", "UGS"}, h) = {}}
    IN Min(fits \cup {f + LookAhead})

\* n grants the run to y from frame f on; minimum is what is left of nrtpsMinSlots_.
Offer(n, d, y, f, run, serv, room, minimum) ==
    LET start == realGrantStart(d.m, y, f, run)
        g == [node |-> y, frame |-> start, start |-> run.start, range |-> run.range,
              fromRequester |-> FALSE, pers |-> Pers(serv), serv |-> serv]
        plain == Mark(d.m.busy, IF serv = "UGS" THEN serv ELSE "BE",
                      start, g.pers, run.start, run.range)
        floor == IF serv = "NRTPS"
                 THEN Block(start, g.pers, run.start, Min({run.range, minimum})) ELSE {}
        e == AddOrWait(d, g, room)
    IN [e EXCEPT
          !.m.neigh[y][serv].gnt_in = @ + g.pers * slots2bytes(run.range),
          !.m.busy = [plain EXCEPT !["NRTPS"] = @ \cup floor],
          !.m.service = Stamp(@, Block(start, g.pers, run.start, run.range), serv),
          !.offers = @ \cup Promises(n, y, start, g.pers, run.start, run.range)]

\* A pass that does not deduct slots takes a minislot that is free or lent, so
\* more passes than these mean that the loop of requestGrant never ends.
MaxPasses == 2 * Slots

\* The grants to y, until the level it asked for is met or nothing is left.
\* After a run shorter than the level all but one of its slots are deducted.
GrantRun(n, l, y, serv, pass) ==
    LET level == l.d.m.neigh[y][serv].level_in
        f == frame + Handshake
        fit == grantFit(l.d, y, bytes2slots(slots2bytes(l.want)), f, serv)
        run == fit.run
        room == l.room /\ fit.room
        frame_room == l.frame_room /\ fit.frame_room
        left == l.want - (run.range - 1)
        next == IF serv = "NRTPS" /\ ~frame_room THEN NrtpsMin - (level - left) ELSE left
        rest == IF serv = "NRTPS" /\ l.minimum > 0 THEN Uint(l.minimum - run.range) ELSE l.minimum
        granted == [Offer(n, fit.d, y, f, run, serv, room, l.minimum)
                      EXCEPT !.passes = Max({@, pass})]
    IN IF l.over THEN l
       ELSE IF run.range = 0 THEN [l EXCEPT !.d = fit.d, !.over = TRUE]
       ELSE [d |-> granted, want |-> next, room |-> room, frame_room |-> frame_room,
             minimum |-> rest, over |-> run.range >= level \/ next <= 1]

GrantRuns(n, l, y, serv) ==
    Rounds(LAMBDA pass, r : GrantRun(n, r, y, serv, pass), l, MaxPasses + 1)

GrantLink(n, d, y, serv) ==
    GrantRuns(n, [d |-> d, want |-> d.m.neigh[y][serv].level_in, room |-> TRUE,
                  frame_room |-> TRUE, minimum |-> NrtpsMin, over |-> FALSE], y, serv).d

GrantFirst(n, d, serv) ==
    LET list == d.m.activeList[serv]
    IN IF list = <<>> \/ ~Fits(d, GntSize) THEN d
       ELSE [GrantLink(n, d, Head(list), serv) EXCEPT !.m.activeList[serv] = Tail(list)]

GrantAll(n, d, serv) ==
    Rounds(LAMBDA k, e : GrantFirst(n, e, serv), d, Len(d.m.activeList[serv]))

\* Ask y for what the scheduler estimates, once per horizon; room is not checked.
Request(n, d, y, serv) ==
    LET level == Min({bytes2slots(Demand[n][y][serv]) + Margin, Slots})
        ie == [node |-> y, level |-> level, pers |-> Pers(serv), serv |-> serv]
        e == AddReq(d, ie)
    IN IF d.m.startHorizon[y][serv] /\ Demand[n][y][serv] > 0
       THEN [e EXCEPT
               !.m.nextFrame[y][serv] = IF serv = "UGS" THEN Never ELSE frame + Persist,
               !.m.startHorizon[y][serv] = FALSE,
               !.m.neigh[y][serv].req_out = slots2bytes(level) * ie.pers]
       ELSE [d EXCEPT !.m.neigh[y][serv].req_out = 0]

RequestAll(n, d, links, serv) ==
    Rounds(LAMBDA k, e : Request(n, e, links[k], serv), d, Len(links))

requestGrant(n, d, serv) ==
    LET reset == [y \in Nbr[n] |-> [d.m.neigh[y] EXCEPT ![serv] = ResetInput(@)]]
        granted == GrantAll(n, [d EXCEPT !.m.neigh = reset], serv)
    IN RequestAll(n, granted, SetToSeq(Nbr[n]), serv)

Serve(n, d, serv) == requestGrant(n, confirm(n, d, serv), serv)

\* The MSH-DSCH message of node n.
schedule(n) ==
    Serve(n, Serve(n, Serve(n, Availabilities(Message(mgr[n])), "UGS"), "NRTPS"), "BE")

-----------------------------------------------------------------------------
(* recvMshDsch (): n interprets a message of its neighbour x.                *)

\* The neighbours that x disturbs or is disturbed by, as n sees them.
Around(n, x) == {x} \cup (Nbr[x] \cap Nbr[n])

WithoutAround(m, n, x, planes, block) ==
    [y \in Nbr[n] |-> IF y \in Around(n, x)
                      THEN Without(m.neigh_tx_unavl[y], planes, block)
                      ELSE m.neigh_tx_unavl[y]]

\* The cells an availability is about, and those of them that are still to come.
AllOf(ie) == Block(ie.frame, ie.pers, ie.start, ie.range)
RealOf(ie) == Block(RealStart(frame, ie.frame), RealRange(frame, ie.frame, ie.pers),
                    ie.start, ie.range)

\* An availability of UGS: its cells are taken, or given back by the transmitter
\* or by the receiver.
rcvUgsAvailability(n, x, m, ie) ==
    CASE ie.dir = "RX_AVL" ->
            [m EXCEPT !.self_rx_unavl = Without(@, {"UGS"}, AllOf(ie)),
                      !.neigh_tx_unavl[x] = Without(@, {"UGS"}, AllOf(ie))]
      [] ie.dir = "TX_AVL" ->
            [m EXCEPT !.self_tx_unavl = Without(@, {"UGS"}, AllOf(ie)),
                      !.neigh_tx_unavl = WithoutAround(m, n, x, {"UGS"}, AllOf(ie))]
      [] ie.dir = "UNAVAILABLE" ->
            [m EXCEPT !.neigh_tx_unavl[x]["UGS"] = @ \cup RealOf(ie),
                      !.service = Stamp(@, RealOf(ie), "UGS")]

\* An availability of another service; a.left is what the message may still
\* mark of the nrtPS minimum of x.
rcvAvailability(n, x, a, ie) ==
    LET m == a.m
        all == AllOf(ie)
        both == {"plain", "UGS"}
        kept == IF ie.serv = "NRTPS" THEN Min({ie.range, a.left}) ELSE 0
        floor == RealOf([ie EXCEPT !.range = kept])
        unused == [m EXCEPT !.grants = @ \ all, !.dst = Stamp(@, all, None),
                            !.src = Stamp(@, all, None)]
    IN CASE ie.dir = "RX_AVL" ->
              [a EXCEPT !.m =
                [unused EXCEPT
                   !.self_rx_unavl = Without(@, both, all),
                   !.neigh_tx_unavl[x] = Without(@, {"plain"}, all)]]
         [] ie.dir = "TX_AVL" ->
              [a EXCEPT !.m =
                [unused EXCEPT
                   !.self_tx_unavl = Without(@, both, all),
                   !.busy = Without(@, both, all),
                   !.unconfirmedSlots = With(@, both, all),
                   !.service = Stamp(@, all, ie.serv),
                   !.neigh_tx_unavl = WithoutAround(m, n, x, {"plain"}, all)]]
         [] ie.dir = "UNAVAILABLE" ->
              [a EXCEPT
                 !.m.neigh_tx_unavl[x] = [plain |-> @["plain"] \cup RealOf(ie),
                                          UGS |-> @["UGS"] \cup RealOf(ie),
                                          NRTPS |-> @["NRTPS"] \cup floor],
                 !.left = @ - kept]

rcvAnyAvailability(n, x, a, ie) ==
    IF ie.serv = "UGS" THEN [a EXCEPT !.m = rcvUgsAvailability(n, x, @, ie)]
    ELSE rcvAvailability(n, x, a, ie)

rcvAllAvailabilities(n, x, a, avl) ==
    Rounds(LAMBDA k, b : rcvAnyAvailability(n, x, b, avl[k]), a, Len(avl))

rcvAvailabilities(n, x, m, avl) ==
    rcvAllAvailabilities(n, x, [m |-> m, left |-> NrtpsMin], avl).m

MarkAll(map, ie) == Mark(map, ie.serv, ie.frame, ie.pers, ie.start, ie.range)
MarkReal(map, ie) == Mark(map, ie.serv, RealStart(frame, ie.frame),
                          RealRange(frame, ie.frame, ie.pers), ie.start, ie.range)

\* A grant to n: to be confirmed.
GrantToMe(x, m, ie) ==
    [m EXCEPT
       !.unconfirmed = Append(@, [ie EXCEPT !.node = x, !.fromRequester = TRUE]),
       !.unconfirmedSlots = MarkAll(@, ie),
       !.neigh[x][ie.serv].gnt_out = Min({@ + Bytes(ie), m.neigh[x][ie.serv].req_out})]

\* A grant of x to another node: n may not transmit in its cells, nor grant them
\* to x and to the common neighbours, and tells so.
GrantToOther(n, x, m, ie) ==
    [m EXCEPT
       !.availabilities[1] = Append(@,
           [frame |-> ie.frame, start |-> ie.start, range |-> ie.range,
            dir |-> "UNAVAILABLE", pers |-> ie.pers, serv |-> ie.serv]),
       !.neigh_tx_unavl = [y \in Nbr[n] |-> IF y \in Around(n, x) THEN MarkAll(@[y], ie) ELSE @[y]],
       !.self_tx_unavl = MarkAll(@, ie),
       !.service = Stamp(@, AllOf(ie), ie.serv)]

\* A confirmation for a node out of reach: x transmits, and n cannot receive.
ConfirmationOutOfReach(x, m, ie) ==
    [m EXCEPT !.neigh_tx_unavl[x] = MarkReal(@, ie), !.self_rx_unavl = MarkReal(@, ie)]

\* A confirmation for n, which is not a neighbour of itself: as if out of reach,
\* and n expects to receive.
ConfirmationToMe(x, m, ie) ==
    [ConfirmationOutOfReach(x, m, ie) EXCEPT
       !.src = Stamp(@, AllOf(ie), x),
       !.neigh[x][ie.serv].cnf_in = @ + Bytes(ie)]

rcvGrant(n, x, m, ie) ==
    CASE ~ie.fromRequester /\ ie.node = n -> GrantToMe(x, m, ie)
      [] ~ie.fromRequester /\ ie.node # n -> GrantToOther(n, x, m, ie)
      [] ie.fromRequester /\ ie.node = n -> ConfirmationToMe(x, m, ie)
      [] ie.fromRequester /\ ie.node \notin Nbr[n] \cup {n} -> ConfirmationOutOfReach(x, m, ie)
      [] ie.fromRequester /\ ie.node \in Nbr[n] -> m

\* Mutant of Waiting: the active list is not searched.
NeverWaiting(m, x, serv) == FALSE

Waiting(m, x, serv) == x \in ToSet(m.activeList[serv])

\* A request to n: x waits for its turn in the active list.
rcvRequest(n, x, m, ie) ==
    LET c == m.neigh[x][ie.serv]
        req == c.req_in + ie.pers * slots2bytes(ie.level)
        e == [m EXCEPT !.neigh[x][ie.serv] =
                [@ EXCEPT !.level_in = ie.level, !.req_in = req]]
    IN IF ie.node # n THEN m
       ELSE IF req > c.gnt_in /\ ~Waiting(m, x, ie.serv)
       THEN [e EXCEPT !.activeList[ie.serv] = Append(@, x)]
       ELSE e

rcvGrants(n, x, m, gnt) ==
    Rounds(LAMBDA k, e : rcvGrant(n, x, e, gnt[k]), m, Len(gnt))

rcvRequests(n, x, m, req) ==
    Rounds(LAMBDA k, e : rcvRequest(n, x, e, req[k]), m, Len(req))

recvMshDsch(n, x, d) ==
    rcvRequests(n, x, rcvGrants(n, x, rcvAvailabilities(n, x, mgr[n], d.avl), d.gnt), d.req)

-----------------------------------------------------------------------------
\* Mutants: the frame to request again is looked up one frame late, and the end
\* of a frame takes the minislots of UGS as well.
ResumesLate(m, y, s) == m.startHorizon[y][s] \/ m.nextFrame[y][s] = frame - 1
NothingKept(m, row) == row

MayRequest(m, y, s) == m.startHorizon[y][s] \/ m.nextFrame[y][s] = frame
NotUgs(m, row) == {c \in row : m.service[c] # "UGS"}

\* handle () during the data subframe of the frame: flows whose next frame has
\* come may request again; at its end the row of the frame is forgotten, except
\* what UGS reserved.
EndOfFrame(n) ==
    LET m == mgr[n]
        row == Row(frame)
        old == NotUgs(m, row)
        soft == {"plain", "NRTPS"}
    IN [m EXCEPT
          !.startHorizon = [y \in Nbr[n] |-> [s \in Service |-> MayRequest(m, y, s)]],
          !.busy = Without(@, soft, row),
          !.unconfirmedSlots = Without(@, soft, row),
          !.self_rx_unavl = Without(@, soft, row),
          !.self_tx_unavl = Without(@, soft, row),
          !.neigh_tx_unavl = [y \in Nbr[n] |-> Without(@[y], soft, row)],
          !.grants = @ \ old,
          !.service = Stamp(@, old, Unset),
          !.dst = Stamp(@, old, None),
          !.src = Stamp(@, old, None)]

\* n wins a control slot: it sends its message, which its neighbours hear but for
\* those whose copy is corrupted: the error model is one of each receiver.
Dsch(n) ==
    /\ frame < MaxFrame
    /\ frame - last[n] >= MinGap
    /\ \E lost \in SUBSET (Nbr[n] \cap Lossy) :
         LET d == schedule(n)
         IN /\ mgr' = [x \in Node |-> IF x = n THEN d.m
                                      ELSE IF x \in Nbr[n] \ lost THEN recvMshDsch(x, n, d)
                                      ELSE mgr[x]]
            /\ offers' = offers \cup d.offers
            /\ confs' = confs \cup d.confs
    /\ last' = [last EXCEPT ![n] = frame]
    /\ UNCHANGED frame

\* The frame ends; a node must have sent a message in the last MaxGap frames.
NextFrame ==
    /\ frame < MaxFrame
    /\ \A n \in Node : frame - last[n] < MaxGap
    /\ frame' = frame + 1
    /\ mgr' = [n \in Node |-> EndOfFrame(n)]
    /\ offers' = {t \in offers : t[3] > frame}
    /\ confs' = {t \in confs : t[3] > frame}
    /\ UNCHANGED last

Next == NextFrame \/ \E n \in Node : Dsch(n)

Spec == Init /\ [][Next]_vars

-----------------------------------------------------------------------------
Slot4 == Node \X Node \X Nat \X Minislot

(* The tables hold cells, and all they, the lists and the history name as     *)
(* the other end of a link is a neighbour.                                   *)
TypeOK ==
    /\ frame \in 0 .. MaxFrame
    /\ offers \cup confs \subseteq Slot4
    /\ \A t \in offers \cup confs : t[2] \in Nbr[t[1]]
    /\ \A n \in Node :
         LET m == mgr[n]
             maps == {m.busy, m.unconfirmedSlots, m.self_rx_unavl, m.self_tx_unavl}
                       \cup {m.neigh_tx_unavl[y] : y \in Nbr[n]}
         IN /\ \A map \in maps : DOMAIN map = Plane /\ UNION {map[p] : p \in Plane} \subseteq TableCell
            /\ m.grants \subseteq TableCell
            /\ \A c \in TableCell : /\ m.service[c] \in Service \cup {Unset, "RTPS"}
                                    /\ m.dst[c] \in Nbr[n] \cup {None}
                                    /\ m.src[c] \in Nbr[n] \cup {None}
            /\ \A g \in ToSet(m.unconfirmed) : g.fromRequester /\ g.node \in Nbr[n]
            /\ \A s \in Service : ToSet(m.activeList[s]) \subseteq Nbr[n]

(* Nobody transmits in a minislot in which it, or another neighbour of it,   *)
(* is to receive: the collision of WimshPhy::handle never happens to data.   *)
NoCollision ==
    \A t, u \in confs :
        (t[3] = u[3] /\ t[4] = u[4] /\ t # u) => /\ u[1] # t[1]
                                                /\ u[1] # t[2]
                                                /\ u[1] \notin Nbr[t[2]]

\* The handshake seen as reservations of cells.
AsCells(S) == {<<t[1], t[2], <<t[3], t[4]>>>> : t \in S}
R == INSTANCE Reservation WITH Cell <- Nat \X Minislot,
                               granted <- AsCells(offers), confirmed <- AsCells(confs)

(* Every message and every end of frame is a step of Reservation: the bitmaps *)
(* let a node grant and confirm only what the reservations allow.             *)
ImplementsReservation ==
    /\ R!Init
    /\ [][\/ \E n \in Node : R!Announce(n, AsCells(confs' \ confs), AsCells(offers' \ offers))
          \/ R!Expire({c \in {t[3] : t \in AsCells(offers \cup confs)} : c[1] = frame})
         ]_<<offers, confs>>

Rows(S) == {<<t[3] % Horizon, t[4]>> : t \in S}
Of(n, S) == {t \in S : t[1] = n}

(* The tables say what the handshake has agreed on, for every frame that is  *)
(* not over: busy_ the cells a node has granted or confirmed, grants_ those  *)
(* it has confirmed, dst_ to whom.  Two frames of the same row never meet.   *)
(* (Best effort only: it is the only service that borrows nothing.)          *)
TablesMatchHandshake ==
    \A n \in Node :
       /\ mgr[n].busy["plain"] = Rows(Of(n, offers \cup confs))
       /\ mgr[n].grants = Rows(Of(n, confs))
       /\ \A c \in mgr[n].grants :
             \E t \in Of(n, confs) : c \in Rows({t}) /\ mgr[n].dst[c] = t[2]

(* A node confirms, for a frame that is not over, only what it was granted.  *)
ConfirmedWasGranted == \A t \in confs : <<t[2], t[1], t[3], t[4]>> \in offers

(* A flow that may not request now is waiting for a frame to come at most a  *)
(* horizon away: the end of that frame is never missed.                      *)
RequestsResume ==
    \A n \in Node : \A y \in Nbr[n] : \A s \in Service \ {"UGS"} :
       ~mgr[n].startHorizon[y][s] => mgr[n].nextFrame[y][s] \in frame .. frame + Persist

(* A message marks only frames that are still relevant: a frame in the past   *)
(* shares its row with one to come (realPersistence).                        *)
OnlyLiveFramesMarked ==
    \A n \in Node :
       mgr[n].self_rx_unavl["plain"] \subseteq Rows({t \in confs : t[1] \in Nbr[n]})

(* Whatever else a message that is sent carries, grants, confirmations and   *)
(* availabilities are added to it only while there is room (best effort, the *)
(* last service).                                                            *)
GrantsFit ==
    [][\A n \in Node :
          last'[n] # last[n] =>
             LET d == schedule(n) IN d.size <= Room + ReqSize * Len(d.req)]_vars

(* The loop that grants to a link ends: what it grants is marked as           *)
(* unavailable for reception, and so is not granted again.                   *)
GrantsEnd == \A n \in Node : schedule(n).passes <= MaxPasses

(* A neighbour waits for its turn at most once, and only if it asked for     *)
(* something: however many requests it sends, one pass of grants serves them. *)
WaitsOnce ==
    \A n \in Node : \A s \in Service :
       LET list == mgr[n].activeList[s]
       IN /\ IsInjective(list)
          /\ \A y \in ToSet(list) : mgr[n].neigh[y][s].level_in > 0

(* The same slot can never be confirmed twice (wimsh_bwmanager_frr.h).       *)
ConfirmedOnce ==
    \A t, u \in confs : (t[1] = u[1] /\ t[3] = u[3] /\ t[4] = u[4]) => t = u

(* The message a node could send now is not larger than a message may be.    *)
MessageFits == \A n \in Node : schedule(n).size <= Room

(* The slots of the frame that ends are reset in the neighbours' maps.       *)
RowReset ==
    [][frame' = frame + 1 =>
         \A n \in Node : \A y \in Nbr[n] : \A p \in Plane :
            mgr'[n].neigh_tx_unavl[y][p] \cap Row(frame) = {}]_vars

(* What UGS reserves it reserves in every row, which is why looking at one   *)
(* row ahead is enough for it: a minislot booked for UGS in some row is      *)
(* booked in all of them, and if the node transmits in it, it does so in     *)
(* every row and to the same neighbour.  UGS may be granted in all rows where *)
(* another service is confirmed in some; it then must find what it needs in  *)
(* rows that are free.                                                       *)
UgsInEveryRow ==
    \A n \in Node : \A c \in mgr[n].busy["UGS"] : \A F \in 0 .. Horizon - 1 :
       LET other == <<F, c[2]>>
       IN /\ other \in mgr[n].busy["UGS"]
          /\ c \in mgr[n].grants => other \in mgr[n].grants /\ mgr[n].dst[other] = mgr[n].dst[c]

(* In no row of the tables does a node transmit UGS to another that transmits *)
(* UGS, or has another neighbour doing so, in the same minislot, whatever the *)
(* other services reserve, borrow and confirm beside it.                     *)
NoTableCollision ==
    LET ugs(n) == mgr[n].grants \cap mgr[n].busy["UGS"]
    IN \A n, x \in Node : \A c \in ugs(n) \cap ugs(x) :
          n # x => x \notin {mgr[n].dst[c]} \cup Nbr[mgr[n].dst[c]]
=============================================================================
