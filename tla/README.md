# A verification project for meshqos

meshqos is a set of ns-2 modules for the mesh mode of IEEE 802.16 with service
classes. Nodes share a radio channel that is divided in frames; a frame has a
control subframe, in which nodes take turns to broadcast an MSH-DSCH message, and a
data subframe of minislots. Bandwidth is reserved with a three-way handshake
(request, grant, confirmation) carried by those messages, by nodes that know only what
they have heard. Paths below are relative to `src/ns-2.31/wimax`.

## The system

| component | state | operations | talks to |
|---|---|---|---|
| Bandwidth manager (`mesh/wimsh_bwmanager.*`, `mesh/wimsh_bwmanager_frr.*`) | tables of HORIZON = 128 rows (frame modulo 128) by minislot: who transmits (`grants_`, `dst_`, `src_`, `service_`), what is unavailable to whom (`busy_`, `unconfirmedSlots_`, `self_rx_unavl_`, `self_tx_unavl_`, `neigh_tx_unavl_`, each also for UGS and for the nrtPS minimum); queues `unconfirmed_`, `grantWaiting_`, `availabilities_`, `activeList_`; byte counters per neighbour and service | `schedule` fills a message (`availabilities`, `confirm`, `requestGrant`), `recvMshDsch` interprets one (`rcvAvailabilities`, `rcvGrants`, `rcvRequests`), `handle` serves the data subframe and resets the row (`invalidate`) | MAC, scheduler (estimates), topology |
| MAC (`mesh/wimsh_mac.*`) | frame counter, H estimates, sponsor and link-establishment states, neighbour indices | `opportunity`, `recvMshDsch/Ncfg/Nent`, `transmit`, `recvSdu`, `recvPdu` | everything |
| Coordinator (`mesh/wimsh_coordinator*`) | per neighbour the next transmission slot, or the interval it lies in | `competition`, `meshElection`, `eligible`, `handle` | MAC |
| Packet scheduler (`mesh/wimsh_scheduler*`) | queues per link, service and flow; deficits; bandwidth estimates | `addPdu`, `schedule`, `serve` | fragmentation, weight manager |
| Fragmentation and reassembly (`mesh/wimsh_buffers.*`, `common/wimax_buffers.*`) | the SDU being cut; per sequence number the last fragment | `addPdu`, `getPdu` | scheduler, MAC |
| PHY and channel (`mesh/wimsh_phy.*`, `mesh/wimsh_channel.*`) | bursts on the air, mode of each radio | `sendBurst`, `recvBurst`, `handle` | MAC |
| Topology and forwarding (`mesh/wimsh_topology.*`, `mesh/wimsh_forwarding.*`) | connectivity, next hops | `neighbors`, `nextHop` | all |
| Weight manager, UDP tunnel, video traces, packetizer, debug output, Tcl scripts | | | |

How they meet: the coordinator of a node elects its control slots and calls the MAC in
each (`opportunity`), which asks the bandwidth manager for the message; receivers pass
it to their coordinator and bandwidth manager. The bandwidth manager of each node walks
through the data subframe and calls the MAC (`transmit`, `receive`,
`uncoordinated_opportunity`), which asks the scheduler to fill a burst and sets the
radio. The PHY decides at the end of a burst whether it collided. ns-2 runs one event at
a time, so a handler is a step; the interleaving is that of the events of all nodes.

Hard to test are: nodes deciding alone, from what they happen to have heard, about
the same minislot or control slot; tables whose rows are reused; messages lost or heard
when their frames have begun or are over; two timers that share a frame and a radio; a
round or an SDU that is cut short and goes on later; elements that do not fit and wait;
counters without sign. `PROJECT.json` lists these hazards line by line, with the
properties about them.

## The modules

| module | models | interacts with |
|---|---|---|
| `Reservation` | the handshake, abstractly | refined by `FairRR`; proofs in `ReservationProofs` |
| `SlotTables` | circular tables, `realPersistence` | used by `FairRR` |
| `FairRR` | the bandwidth managers of all nodes | takes the pace of control slots from `ControlAccess`, a slot that two nodes share being a message lost; proofs, those about `SlotTables` too, in `FairRRProofs` |
| `ControlAccess` | what the coordinators promise, abstractly | refined by `Election` |
| `Election` | the mesh election of all nodes | uses `Topology` (neighbourhoods) and `Smear` (order) in `MCElection`; proofs in `ElectionProofs` |
| `Topology` | distances, neighbourhoods, next hops | |
| `Smear` | the pseudo-random function, on 16 bits | |
| `Frame` | the timers of one node: coordinator, bandwidth manager, radio | takes the outcome of elections and of the handshake as inputs; proofs in `FrameProofs` |
| `DataPlane` | one link: scheduler, fragmentation, channel, reassembly | takes grants as inputs; proofs in `DataPlaneProofs` |
| `Iteration` | loops as recursive functions | used by `DataPlaneProofs` and `FairRRProofs` |
| `Radio` | the receiving side of one PHY, and what the MAC decodes | takes switches of the radio as inputs; proofs in `RadioProofs` |
| `Entry` | network entry in the MACs of all nodes | assumes opportunities as `Election` and `Frame` give them; proofs in `EntryProofs` |

The `MC` modules give the constants of the small instances.

### Bandwidth manager

`Reservation` is the abstract handshake. Its state is two sets: `granted` (g has offered
cell c to r) and `confirmed` (r will transmit to g in c), a cell being a minislot of a
frame. One action is a whole message (`Announce`: the confirmations first, then the
grants), the other the end of frames (`Expire`). The guards `MayConfirm` and `MayGrant`
say what `confFit` and `grantFit` are there to decide.

`SlotTables` holds what is done with the circular tables: `Block` (the cells that
`setSlots` writes), `Row`, `At`, `FirstRun` (first fit), `RealStart` and `RealRange`
(`realPersistence`, in unsigned arithmetic). A bitmap is the set of its true cells.

`FairRR` models the bandwidth managers of all nodes. `mgr[n]` is a record with the
members of `WimshBwManagerFairRR` under their names; the three maps `x_`, `x_UGS_` and
`x_NRTPS_` are one function on `Plane`. There are two actions:

* `Dsch(n)`: node n has a control slot. `schedule(n)` builds the message, pass by pass
  as the code does, and every neighbour interprets it with `recvMshDsch` before anything
  else happens: a control slot is longer than the propagation of its burst, and the
  receivers get a copy each. Those in `Lossy` may lose it: the MAC of
  each receiver draws on its own whether its copy is corrupted (`WimshMac::recvBurst`), so a
  message may reach some neighbours and not others.
* `NextFrame`: the data subframe ends. `handle` of every node reopens the flows whose
  `nextFrame_` has come, and `invalidate` resets the row of the frame.

The loops that fill and interpret a message (over the lists of the manager, the elements of
the message, the runs granted to a link) are `Rounds` of a step, one per element or, for the runs
(`GrantRun`), `MaxPasses` and one more: a run that takes something leaves fewer minislots, and
`GrantsEnd` checks that the code's loop is over by then. A round past the end of a
loop changes nothing.

Each node has a message every `MinGap` to `MaxGap` frames; which nodes come first in a
frame is left open. This is what the coordinator guarantees, and all it guarantees.
`offers` and `confs` are history variables: the grants and confirmations decided so far
for frames that are not over. They are what the properties compare the tables with.

Left out of `FairRR`: rtPS and its uncoordinated messages (`searchTXslot`), cancellation
of reservations on behalf of forwarded traffic (`cancel_Requester`, `cancel_Granter`,
lines 1439-1591 of `requestGrant`; traffic is one-hop), grants on more than one channel,
contiguous allocation (`addContiguous`), statistics.

### Coordinator

`Election` is about MSH-DSCH messages and counts time in their slots. `wait[n]` is how far the next slot of n is
(`nextDschSlot_` and `nextDschFrame_`), `ngh[a][b]` what a believes of b's
(`nextXmtTime_` against `timeStamp_`). `Transmit(n)` is `handle` in a slot of n: it
elects (`competition`, `meshElection`, `competingNodes`), tells what `fillSelf` and
`fillNeighbors` put in the message, and each neighbour that hears it notes what
`recvMshDsch` does. Which neighbours hear it is left open, so losses are covered; a node whose own slot it is
(`owners`) does not hear. In which order the sorted list of a node has neighbours of the same slot, which
decides whom it advertises, is left open too (`Lists`).

A receiver dates what it hears with `currentCtrlSlotDsch`, which rounds the time at the end of the
burst to a slot and ignores how long the burst was. A slot is seven symbols, an MSH-DSCH takes
2 + (size - 1) / 24: one of more than 48 bytes is dated one slot late, always and for all who hear it.
`Stamps[n]` is by how much the messages of n may be late: {0}, or {0, 1} if it has long ones.
Two history variables keep track of this: `late[a][b]`, the slots by which what a believes of b
has been dated late on its way, and `misled[n]`, of whom n believed late things when it elected its slot. They guard
no action; they say in the properties where the election may go wrong.

Only the order of nodes in a slot needs the absolute slot; it repeats after `Period` slots.
`ControlAccess` is the abstraction: a node that uses its slot
takes a later one, after its holdoff, that nobody within two hops holds, unless one of the two
was `misled` about the other; doubts begin with a message dated late and spread with the messages of those who have them.

MSH-NCFG slots are won by a copy of the same procedure, but `electionNcfg` places the slot won at another slot of the
same frame, so what is promised for MSH-DSCH does not carry over; `Election` says nothing of them.

`Frame` is where the elected slots lie in frames (`electionDsch`, `electionNcfg`,
`electionNent`, `currentCtrlSlotDsch`) and the timer of `WimshCoordinator::handle`,
beside that of `WimshBwManager::handle`. `pos` is the slot or minislot, `ctl` and
`dat` are what is left of the two timers; time (`Tick`) passes when neither has expired.
At the end of the control subframe both expire together. That of the bandwidth manager was set
in the frame before and would fire first (ns-2 keeps the order of equal times), but the times are sums
of different terms and rounded: the model leaves open which comes first. `Mark` is
what messages write in the tables: the confirmation of a transmission (`confirm`), the channel to listen
to, the service of what others were granted, a cancellation, room for an uncoordinated
message. Messages come in the control subframe and, uncoordinated ones, in the data subframe, so a
minislot of the frame itself may be marked when its run is over (`late`), and the row of the frame
when `invalidate` has been there already: the mark then is for the frame `H` later. `plan[i]` is a history variable:
what each minislot of the frame i frames from now was marked for.

### Data plane

In `DataPlane` `rr[s]` is the circular list of a service, its first element the current
one; a burst is filled in one step (`Transmit`), pass by pass as `newBurst`, `schedule`,
`serve` and `addPdu` do, on a record that holds what changes on the way. The loops are
recursive functions of the number of rounds, up to a number that the loop cannot exceed:
the PDUs of a queue in a turn (`SendTurn`), the bytes queued in turns (`Rounds`: a turn adds
at least one byte to a deficit or empties a flow), the elements of a list in a sweep. Rounds
past the end of a loop change nothing. Fragment
numbers are those of the node, shared by its services. `RemoveStale` is the timer of
`weight-timeout`: `last_` is never set, so every flow without queued PDUs is stale.
Two SDUs of one flow are marked; since the others are treated alike, what holds of two
marked SDUs holds of any two of a flow.

### Radio

`rxBursts` holds the descriptors of `WimshPhy`, with times relative to now. `Send` is a
burst that begins (the propagation is the same for all), `setMode` a switch of channel or
mode, `End` the timer of `handle` with `recvBurst` of the MAC. `garbled` is ghost: what
physically happened to a burst, kept by `Send` and `setMode` on their own, and compared
with the decision of the code at the end. `crossed` is ghost too: a burst of another channel
ended, and `handle` cleaned the list up, while this one was coming in. A burst that begins while the radio is
elsewhere or transmits is never in the list, as in the code: interference from it is not
seen.

### Network entry

`Entry` has one action for the start of a procedure by Tcl, one for an MSH-NCFG
opportunity with its reception, and one for the MSH-NENT slot, which all nodes share
(`electionNent` has no election): two new nodes always collide there. The code ends the
simulation (`exit`) when a procedure is complete: `over`.

## What is checked

| run | instance | shows |
|---|---|---|
| `reservation` | five nodes, one cell | `IInv` is invariant and implies `NoCollision`. Cells do not interact, so one is enough. |
| `frr_frame` | best effort, grants of one frame, `LookAhead` 0 | `NoCollision`; and `ImplementsReservation`: each message is an `Announce` of the handshake, each end of frame an `Expire` |
| `frr_window` | best effort, grants of four frames, messages with room for two or three elements; n3 may lose any message, of n2 also where n1 hears it | `TablesMatchHandshake`, `ConfirmedWasGranted`, `RequestsResume`; `OnlyLiveFramesMarked` and, of every message sent, `GrantsFit` while elements wait in `grantWaiting_` |
| `frr_mixed` | UGS with a minislot for each of its three flows, two nrtPS flows and one of best effort on the same links, messages with room for few elements | `TypeOK`, `WaitsOnce`, `GrantsEnd` while services borrow from one another; `UgsInEveryRow`, which is why looking at one row is enough for UGS, and `NoTableCollision` of UGS, with the other services beside it |
| `election` | four nodes, a chain and a triangle with a tail, both coordination types; any message may be lost, those of node 1 may be dated late | `NoSharedSlot`, `KnowledgeSound`, `ElectionEnds`, `EveryNodeTransmits`, `ImplementsControlAccess`; `RoutesLead` on every connected graph of four nodes |
| `frame` | three control slots, three minislots, two rows, eight frames; standard, fixed and moving coordinators; marks in both subframes | `CallsFollowGrants`, `ListensWhereTold`, `QuietOutsideOpportunities`, `OpportunitiesAhead`, `DschCounted` |
| `data` | three flows of two services, SDUs longer and shorter than a burst, three ways to share the buffer, with and without losses and flow timeouts | `BuffersAgree`, `DeficitCovered`, `BurstFits`, `InOrder`, `NothingMissing`, `DeliveredWhole`, `NothingLeftOver`, `QueuedLeaves` |
| `radio` | two neighbours and a hidden node, two channels, bursts of one and three units | `GarbledIsDropped`, `WholeIsDecoded`, `PendingKept` |
| `entry` | a triangle with a fourth node; each procedure alone, and two at once | `NeighborsAnswered`, `OneTurn`, `RequestKept`, `EntryEnds` |
| `election_shared` | as `election` | `NeverShared` is violated, see below |
| `frame_first` | as `frame` | `ListensOnChannel` is violated, see below |
| `data_stale` | as `data` | `UnfinishedPointsToFlow` is violated, see below |

### Bounds

*Bandwidth manager.* Numbers are scaled: in the code a non-UGS grant lasts HORIZON/4 =
32 frames and the row looked at lies 10 frames after its first; here `Horizon` is 4 or 11,
`Persist` 1, 2 or 4 and `LookAhead` 0, 1 or 3: in `frr_window` a handshake (`Handshake` 4), look-ahead and grant just make
a horizon, as `TablesDoMatchHandshake` needs. Two to four minislots make every conflict
reachable. The mesh is a chain of four nodes, which has a hidden and an exposed terminal
for every link; the traffic has one flow out of n3 and two into n2 from both sides. In `frr_window` n3, in the middle
of the chain, may lose every message that it is sent: requests and confirmations as a granter, grants as a requester; what n2
sends n1 still hears.
`MaxFrame` bounds the number of frames (6 or 7, more than one turn of the tables where
`Horizon` is 4), and is why `CHECK_DEADLOCK` is off: at the bound the model stops, the
program does not. With `Horizon` 11 no row is used twice within the bound: the reuse of rows is in
`frr_frame` and `frr_mixed`, and in the theorems. `UintMod` (1024) exceeds every counter that does not wrap around in the
code.

*Election.* The code's holdoff is 16 * 2^exponent slots; here 5 * 2^exponent, with
exponents 0 and 1, more than the four nodes and first slots: as in the code, networks
whose identifiers reach the holdoff (more than 16 nodes) are outside `ElectionAssumption`,
because two nodes may then elect before they know of each other. `Period` 7 keeps the
state space finite and has no factor in common with the holdoffs, so that elections do not come back to the same few slots; the
proofs hold for every period. `Horizon` (36) bounds the slots
that an election tries; `ElectionEnds` checks that it is never the reason to fail. One
node with long messages (`LongMessages`) is enough for late dates to spread: others pass on what it told.

*Frame.* A configuration frame every third frame; eight frames are more than two turns of
both the configuration period and the two rows. At most two marks, in any minislots of any
frame of the horizon and at any time; the first opportunities include slot 0. The model ends with
`Stop`, so deadlock is checked.

*Data.* Sequence numbers are modulo 2 (modulo `FsnSize` in `fsn`), less than the fragments
in flight could tell apart: the code relies on order, not on numbers. SDUs of 5 bytes need
up to three bursts of 5. Buffers hold two to four SDUs, so overflow happens in each way to
share them.

*Radio.* At most three descriptors (`MaxHeld`), one of each source; ages are told apart up
to `OldAge`, which exceeds the longest burst. Neighbours and channels are symmetric.

*Entry.* Two nodes at a time is what makes messages cross; deadlock is off because the
simulation ends.

### Fairness

* `election`: weak fairness of `Tick` and of each `Transmit`: the coordinator's timer is always
  set, and `handle` always transmits when it is the node's slot.
* `data`: a service with PDUs gets, again and again, a burst that holds a byte
  (`[]<>Served(s)`, the promise of the bandwidth manager), and bursts end (weak fairness of
  `Receive \/ Lose`). `QueuedLeaves` says nothing where flows time out: `RemoveStale` may move
  the current flow of an unfinished round on, and another one is passed over again and again.
* `entry`: weak fairness of the opportunities of each node (`EveryNodeTransmits`), of
  the MSH-NENT slot, and of the Tcl script. `EntryEnds` is about one new node without losses: the code
  repeats nothing.

## Known deviations

Where the code does not do what its comments say. The first three are runs; the others are
violations of properties that stay in the modules, found with the constants given and
otherwise those of the run named.

| property | constants | what happens |
|---|---|---|
| `UnfinishedPointsToFlow` (`data_stale`) | | a flow that was cut short with its last PDU is removed as stale; `unfinishedRound_` stays set and `schedule` asks for the current element of an empty list, or serves another flow (`mesh/wimsh_scheduler_frr.cc:476`, against `mesh/wimsh_scheduler_frr.h:118-121`) |
| `NeverShared` (`election_shared`) | | a long message is dated one slot late; who heard it or heard of it elects the slot that its sender has (`mesh/wimsh_coordinator_std.cc:577`, against `mesh/wimsh_coordinator_std.h:37-38`) |
| `ListensOnChannel` (`frame_first`) | | the coordinator's `setControlChannel` comes after the bandwidth manager's first call of the data subframe and leaves the radio on the control channel for the first run (`mesh/wimsh_coordinator.cc:139`, against `mesh/wimsh_bwmanager.h:56-58`) |
| `ConfirmedWasGranted` | `frr_window`, `Handshake` 3 | the granted node answers later than the average handshake; the confirmation starts later but lasts as long as the grant (`wimsh_bwmanager_frr.cc:1694`) |
| `ConfirmedOnce` | `frr_window` | the row looked at is free, other frames of the window are not (`:2229`) |
| `MessageFits` | `frr_window` | requests are added without looking at the room (`:1610`) |
| `OnlyLiveFramesMarked` | `frr_window`, `Persist` 2, `LookAhead` 1, `Handshake` 2, `Lossy` {} | a confirmation leaves the queue when its frames are over, and `realPersistence` wraps around (`:1915`) |
| `GrantsEnd` | `frr_mixed`, `NrtpsMin` 2 or 3 | where a link asks for more nrtPS minislots than the minimum the same minislot is borrowed again and again (`:1316`) |
| `UgsInEveryRow` | `frr_mixed`, `Demand <- BothWays` | a node grants UGS in every row of a minislot in some rows of which it transmits best effort: `grantFit` looks at one row only (`:1954`, `:2229`) |
| `NoTableCollision` | `frr_mixed`, `Slots` 3 | with fewer minislots nrtPS borrows some of UGS and announces them as available; a node that may not transmit UGS there, because its neighbour receives UGS from another, forgets it and confirms (`:842`) |
| `RowReset` | `frr_frame` | `neigh_tx_unavl_UGS_` is marked by nrtPS and BE and never reset (`:895`) |
| `ListensForEntry` | `frame` | in the MSH-NENT slot the radio stays as the last frame left it (`wimsh_coordinator.cc:116`) |
| `InterferenceFlagged` | `radio`, a third neighbour `x`, `MaxHeld` 4, `Setups <- PlainSetups` | after a switch of channel a burst of the old channel, spoiled by the switch, ends while a burst of the new one comes in; `handle` then removes descriptors that ended before the latest start of an undispatched burst, on whatever channel, and with them a burst that collided with one still coming in, which is then decoded (`mesh/wimsh_phy.cc:299`, against `mesh/wimsh_phy.h:182-184`) |
| `CollidedDschDropped` | `radio` | without modelled links the error flag of an MSH-DSCH is reset before it is looked at (`wimsh_mac.cc:972`, with a TODO) |
| `OpenBeforeAck` | `entry` | the new node's next MSH-NENT opportunity completes the procedure, answered or not (`wimsh_mac.cc:901`) |
| `DeliveredWhole`, without its condition `~conf.lossy` | `data` | the last fragment delivers the SDU although fragments before it were lost (`common/wimax_buffers.cc:64`) |

`ConfirmedWasGranted`, `OnlyLiveFramesMarked`, `GrantsEnd`, `UgsInEveryRow` and `NoTableCollision` therefore hold
under conditions, which the passing runs state through their constants: the granted node
answers within `Handshake` frames, a confirmation waits for less than it lasts, no link asks for more
nrtPS minislots than the minimum, UGS has a minislot for each of its flows and none against it. `NoCollision` needs that the window of a grant is no longer
than what is looked at: with the windows of the code it fails as `ConfirmedOnce` does. `NoSharedSlot` and `ListensWhereTold` need no such condition:
they say that a late date, or the first run of a frame, is all that can make `NeverShared` and `ListensOnChannel` fail.

## What is proved

`ReservationProofs` proves, with TLAPS, for all nodes, cells and all symmetric
neighbourhoods without loops (`NbrAssumption`, which `WimshTopologySimple` ensures):

* `Inductive`: `IInv` holds in every reachable state of `Reservation`;
* `TypeCorrect`: `TypeOK` does;
* `CollisionFree`: `NoCollision` does.

`NoCollision` alone is not inductive: that r may confirm what g granted depends on what
happened around g since. `IInv` adds that a cell is offered once (`OneOffer`), confirmed
once and not by a node that offered it (`OneRole`), only if granted
(`ConfirmedWasGranted`), and that while an offer is out nobody but the requester
transmits next to the granter (`OfferProtected`). The last one is kept by `MayGrant`,
which looks for transmitters around the granter, and by `MayConfirm`, which looks for
offers around the requester; `OneOffer` joins the two when both meet at the granter.
The lemmas `NewGrant` and `NewConfirmation` say what the guards of a message give for
each of its elements; `AnnounceIInv` has a step for each conjunct of `IInv`, split on
whether each element is old or new.

`FairRRProofs` proves, for every number of rows and minislots, what the properties of
`FairRR` rest on where they go from frames to rows:

* `RealPersistenceLive`: of a reservation that is not over, `realPersistence` keeps just the
  frames that are not over, and does not wrap around;
* `LateMarkingIsExact`: so a confirmation heard late marks, of all frames the tables can
  tell apart, exactly those it is for. It joins the first with two lemmas: `RowsDistinct` (frames less than
  `Horizon` apart have different rows) and `BlockCells` (what `setSlots` writes).

Both suppose that the reservation is not over; the code does not always see to it, as
`OnlyLiveFramesMarked` shows under the constants of the table above.

It also proves of the bandwidth managers, for every set of nodes and symmetric neighbourhood,
demand, horizon, persistence, look-ahead, room, PHY and pace of messages (`FairRRAssumption`:
grants last one frame to a horizon, a minislot holds more than the preamble, the room of a message
is less than the unsigned integers), with losses and the three services:

* `Invariant`: the inductive invariant `IInv`;
* `TypeCorrect`: `TypeOK`;
* `WaitsAtMostOnce`: `WaitsOnce`;
* `RequestsDoResume`: `RequestsResume`;
* `BestEffortGrantsFit`: `GrantsFit`, if no node has demand of UGS or nrtPS. With them it is not
  true: the requests of one service may overfill the message, and `remaining()` then wraps around
  for the next;
* `TablesDoMatchHandshake`: `TablesMatchHandshake`, again for best effort alone, if
  `Handshake + LookAhead + Persist <= Horizon`: with the code's look-ahead of 10 frames, persistence of
  32 and horizon of 128, if a handshake takes at most 86. UGS stays in the tables when the
  frames of its promises are over, so with it the two would differ;
* `GrantsDoEnd`: `GrantsEnd`, if no node has demand of nrtPS and `LookAhead < Persist` (10 and 32 in the
  code). With nrtPS it depends on its minimum, see the table above;
* `UgsIsInEveryRow`: `UgsInEveryRow`, for UGS alone. Best effort breaks it, see the table above.

`IInv` says that every manager is `Sane(n, frame)`: its tables, lists and counters are as `Mgr(n)`
says, grants to confirm are from neighbours, those in an active list are there once and asked
for at least a minislot (`Waits`), and a flow that may not request waits for a frame at most
`Persist` ahead (`Resumes`); that no service is in tables and lists but those with demand (`Used`);
that the history is about neighbours; and, for the services the theorems name, that the tables of UGS are
the same in every row (`Columns`) and those of best effort hold the history and nothing else (`Ledger`). The properties do not carry
themselves: an element of a wrong kind in `grantWaiting_`, `unconfirmed_` or `availabilities_` is
harmless until a later message sends it, so `Mgr(n)` types all three; the runs of `grantFit` must lie
in the table (`FirstRunTyped`) for the cells marked to be cells; and `Waits` needs that
levels only come from requests (`Req`, at least one minislot, which is what the code's three extra
slots give as long as there is demand).

A step of the model is a whole message, so most of the argument is about its parts. A message under
construction is a `Msg(n)`: a sane manager, well-formed elements and, as long as it has no requests,
a size within the room. What the first part adds (availabilities, waiting grants, confirmations,
one grant) leaves requests and active lists alone: it stays in `After(n, d)`. Serving the head of an active
list, `GrantFirstKeeps`, stays in `Quiet(n, d)`: no requests yet. A request overfills a message by no more than
itself: the result is in `Sized(n)`, which `BestEffortGrantsFit` reads off. On the
other side `HearAvlSane`, `HearGntSane` and `HearReqSane` say that a neighbour that interprets any
well-formed message stays sane; `RecvSane` joins them, and `EndOfFrameSane` is `invalidate` and the
reopening of flows, where `Resumes` could be missed by a frame.

The last parts of `IInv` follow a message in the same way. For `Ledger`, a message under construction
keeps its own share of the history (`Kept`), and what it grants or confirms goes to tables and history
together (`LedgerGive`, `LedgerMake`). When a frame ends its row is cleared, and the row may hold only
that frame of the history: elements, those that wait included, are for frames less than a horizon ahead
(`Gnt(n, now)` bounds them), so `RowsDistinct` separates them (`LaterRows`, `EndOfFrameBooks`). What is heard changes
none of the bookings (`RecvBooks`). For `GrantsEnd`, each pass of the loop that goes on takes a minislot that is
free in the look-ahead row or lent, and as a grant starts no later than that row and outlasts it, the
next pass finds it neither free nor lent (`GivesMarked`, `TodoShrinks`); passes made and minislots left are
together at most `MaxPasses`. For `Columns`, a horizon of frames is whole columns of the tables wherever it
starts (`WholeBlock`), and whole columns are added and taken (`ColumnsAdd`, `ColumnsCut`).

Each loop has an
`INSTANCE` of `Iteration` that gives its rounds one by one (`ConfirmSteps` and the like), and its
invariant is proved by induction on them.

`ElectionProofs` proves, for every set of nodes, mesh with the symmetric neighbourhoods of
`ElectionAssumption`, holdoff, period and strict order, whatever messages are lost, whichever nodes have long
messages (`Stamps`) and however late dates spread:

* `Invariant`: `IInv`, that is `TypeOK`, `NoSharedSlot`, `KnowledgeSound` and what links them;
* `SlotsExclusive` and `KnowledgeStaysSound`: the two properties of the run;
* `Refines`: `Spec => ImplementsControlAccess`;
* `ShortMessagesExclusive`: where no message is longer than 48 bytes (`Stamps[n]` is {0} for all), `NeverShared`,
  which the run `election_shared` violates otherwise.

`NoSharedSlot` is not inductive: n elects a slot from what it believes of the others, and
another node elects it later from other beliefs. `IInv` adds `Guarded(a, b)`, unless a was misled about b: the slot that
a holds is one that b has lost to a in the order, or that comes before b, after its own
next slot and its holdoff, can be ready again. When n elects t, `WouldCompete` says that
n takes into account every neighbour that holds t or can be ready for t again and of which it believes nothing
late (from `KnowledgeSound`, or because nothing is known of it); so n does not lose t to these
(`Elected`), which gives `Guarded(n, b)` for all b but those it is now misled about. If b held t and neither was misled about the other, `Guarded(b, n)`, with the present
slot of n and its holdoff behind, would say that b does not lose t to n either, but one of two
nodes always loses (`OneLoses`, the order is strict). The other conjuncts follow from
the holdoff being positive and, for `KnowledgeSound`, from `LowerBound` opening the interval
of its slot (`InInterval`) and `Lateness` being added to what is passed on as to its date. `DivMod` to `NextPhase` are the arithmetic of slots modulo
`Period`. For `Refines`, what a node that is told something has late in it is late already at the teller, or the message
itself is: the doubts `told` of `ControlAccess`.

`FrameProofs` proves, for every number of control slots and minislots and every period of
configuration frames (`FrameAssumption`), whatever the elections return:

* `SlotsCounted`: `DschCounted`, so a slot that one node announces is the slot that its
  neighbours understand;
* `NoneMissed`: a standard coordinator (`Standard`) satisfies `OpportunitiesAhead`.

`ConfigAssumption` says of the elections that a slot is won after a positive time, and for
MSH-NCFG no sooner than after the C - 1 slots of a frame. The shortest holdoff, 16 slots
(`computeHoldoffTime`), gives that for up to 17 control slots; with more, two MSH-NCFG
opportunities could fall in one frame, and nothing is proved. The strengthening is
`Placed`, which says where the elections put the three opportunities (that of MSH-DSCH is
`DschAt(index)`), and `Timed`, which says that the timer of the coordinator ends no later
than at the first of them. `DschPlaced` shows that placing a slot (`electionDsch`) and
counting it (`currentCtrlSlotDsch`) are inverse, and never in a configuration frame;
`DschLater` and `NcfgLater` that a new opportunity lies after the one taken. Each handler of
the coordinator has a lemma; `Apart` gives them that the other kinds are in other frames,
so that nothing is due before the next slot. All rests on `Division` and `Quotient`.

* `MinislotsCalled`: `CallsFollowGrants`, for every number of rows and whatever is granted;
* `QuietElsewhere`: `QuietOutsideOpportunities`;
* `ListensOnItsChannel`: `ListensWhereTold`, with the standard coordinator and either order of the
  two timers where both expire.

`CallsFollowGrants` needs `DataInv`: where in the data subframe the timer can be (`Working`,
`Done`), that the row of every frame of the horizon holds just what was marked for that frame,
but that the row of this frame, once its last run has begun, is that of the frame `H` later (`Rowed`), and that the minislots up to
the next call, but for those marked since, are part of the run that was called (`Called`; `RunEnd` is shown to end a
run where the cell changes). `MarkData` goes through a mark in each subframe, before and after the row was invalidated
(`MarkedLate`, `OverIsDone`). The other two need `Tuning`, which says that a slot in which the node
transmits is one it took and that the radio is restored after it, and `Listening`, which is
`Called` for the radio: it is tuned as called, or still runs the first call and has been put back by the coordinator, whose timer
can expire in the data subframe only where that call is made (`FirstRun`). `GrantAssumption` types what minislots are marked with.

`RadioProofs` proves, for all sources, neighbours, channels, kinds of bursts and qualities of
links (`RadioAssumption`):

* `DropsGarbled`: `GarbledIsDropped`;
* `DecodesWhole`: `WholeIsDecoded`;
* `KeepsPending`: `PendingKept`, an action property.

`garbled` is kept from what happens in the air, the error flag from the list of
descriptors, so the invariant `RInv` says why the list still tells at the end what happened:
a garbled burst that nobody crossed has its error flag set already or still finds a descriptor it
clashed with (`Told`), a burst is spoiled if the radio is elsewhere (`Spoiled`), an error flag
has a cause (`Founded`), two bursts that clash are garbled both and those of one source never
overlap (`Pairs`). `Cleaned` keeps `Told` because what it drops has ended before the latest start
of those that are not dispatched: `Latest` gives that start, `OnAirClash` says that two bursts
on the air on one channel clash, so that after the drop of a descriptor no burst
which clashed with it alone is still to be judged. A burst on another channel breaks that
argument, and the code (`InterferenceFlagged`): `crossed` is the hypothesis that it needs.

`EntryProofs` proves, for all nodes, symmetric neighbourhoods, orders of neighbours and
combinations of procedures (`EntryAssumption`; a node that establishes links has a neighbour):

* `PassedOnesAnswered`: `NeighborsAnswered`, whatever enters at a time and whatever is lost;
* `LinkTurnsAlternate`: `OneTurn`;
* `RequestsAreAnswered`: `RequestKept`.

The code counts a RESPONSE whoever sent it. `Link(n)` is what makes it the right one: only the
present partner of n can have a RESPONSE for n, and only while n waits for it. `Turn(n)`
says, when n alone enters, what all others can be in; `Request(n)` that nobody else has a
REQUEST, and that a sponsor which was asked answered or is about to.

`DataPlaneProofs` proves, for all flows, services, weights, headers, SDU sizes, grants and
configurations (`DataPlaneAssumption`: headers and weights are positive, the other numbers natural):

* `BurstsFit`, `CountsAgree`, `DeficitsCovered`: `BurstFits`, `BuffersAgree`, `DeficitCovered`;
* `OrderIsKept`: `InOrder`, with losses and the removal of flows;
* `NothingIsMissing`, `SdusAreWhole`, `NothingIsLeftOver`: `NothingMissing`, `DeliveredWhole`,
  `NothingLeftOver`, which speak of channels without losses;
* `Invariant`: all rest on `DInv`.

`DInv` has the types, `Counted` (each list is a `Ring`: distinct flows of its service, with
sizes and deficits that agree with the queues; and the sums), `Lines` and `Buffered`. A `Line` is the
way of the SDUs of a service, burst, pending PDU and queues: marks belong to the watched flow and are
not delivered yet (`Owned`), go up along the way (`Sorted`), only the first PDU of a burst
goes on with an SDU and only the last leaves a rest, which is what is pending (`Pieces`), and
without losses the receiver has what comes before that rest, and no mark is missing
(`Complete`). The properties alone are not inductive: that the rest of an SDU goes first
needs to know that it is the rest of what the receiver has. `Buffered` says whose
fragment numbers the receiver can hold (`Opens`).
A burst is filled by loops inside one step, so `Burst` is the invariant of the
loops: room and bytes make up the grant, bytes taken and bytes queued make up what was queued, the
burst so far is a `Line` with what is pending and queued. Each operation on a burst has a lemma that it
keeps `Burst` (`Begun` and `OpenedKeeps` for `newBurst`; `SendHeadKeeps`, `SendTurnKeeps`, `serveKeeps`,
`RoundsKeep`, `scheduleKeeps`); `LinePull`, `LineClose` and `LineSplit` say what taking a head,
adding a whole PDU and cutting one do to a `Line`. On the other side `OneTaken` and `AllTaken` go
through the PDUs of a burst that is received.

`Iteration` justifies the recursive functions: its lemma `Runs` shows that a recursion over the
natural numbers has a solution (the provers know a recursive definition only as a `CHOOSE`);
`Descent`, that a set of counterexamples that has the predecessor of each of its members is empty,
is the induction of every loop: it is about sets, where the library's rule is about an operator.
`Stays` is the form in which it is used most: a loop whose rounds keep a set ends in it.

What is only model-checked: of `FairRR`, what holds for the constants of its runs and not for all
that `FairRRAssumption` admits. `NoCollision`, `NoTableCollision` and `ImplementsReservation` need that the row
looked at tells of all frames of a grant, and a mesh without triangles (a triangle loses
confirmations); `ConfirmedWasGranted` and `OnlyLiveFramesMarked`, that answers come in time;
`GrantsEnd` with nrtPS, a minimum of two minislots. So the
refinement links the proved handshake to the code's tables on small instances. Then `Topology`, whose
path finding uses recursive operators; `Frame` with the dummy coordinators as far
as `NoneMissed`, `QuietElsewhere` and `ListensOnItsChannel` go; `ElectionEnds`, which depends on how
far an election looks; and all liveness, which is beyond the prover. That the code's
smear function is a strict order is an assumption of the proofs, which TLC evaluates for the nodes
and slots of `election`.

## Not modelled

* rtPS: the uncoordinated handshake (`searchTXslot`, `rcvGrants` with `uncoordsch_`). `Frame` has the
  minislots in which it is sent, `FairRR` not its content.
* `recomputeCBR`, the rate estimates: floating point; `FairRR` takes the demand as input (`Demand`).
* Cancellations for forwarded traffic, grants on several channels, contiguous allocation.
* The FIFO scheduler, the weight manager (floating point), the graph colouring (only printed).
* UDP tunnel, video traces, packetizer, Tcl configuration, statistics, printing: input and output.
* A composition of `Frame` with `FairRR`, and of `DataPlane` with both: the state spaces multiply; each
  module names as an input what it takes from the other.
