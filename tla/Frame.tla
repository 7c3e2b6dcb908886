-------------------------------- MODULE Frame --------------------------------
(***************************************************************************)
(* The timers of one node in a frame: C control slots, where the coordinator *)
(* gives MSH-DSCH, MSH-NCFG and MSH-NENT opportunities (WimshCoordinator),   *)
(* then N minislots, which the bandwidth manager cuts into runs and turns    *)
(* into calls of the MAC (WimshBwManager::handle).  Both set the one radio.  *)
(* Time is a position: 0 .. C-1 in the control slots, C .. C+N-1 in the      *)
(* minislots.                                                                *)
(***************************************************************************)
EXTENDS Integers, FiniteSets

CONSTANTS C,          \* controlSlots()
          N,          \* slotPerFrame()
          T,          \* cfgInterval(): every (T+1)-th frame is for configuration
          H,          \* HORIZON
          Neighbors,  \* the nodes that minislots may be for
          Grants,     \* what minislots may be marked with (see Grant)
          Configs,    \* coordinators considered (see conf)
          MaxFrame    \* bound: the simulation stops after that frame

ASSUME FrameAssumption ==
    /\ C \in Nat \ {0, 1} /\ N \in Nat \ {0} /\ T \in Nat \ {0} /\ H \in Nat \ {0}
    /\ MaxFrame \in Nat

\* The first opportunities are given to start.  An election wins a slot after the
\* holdoff time (computeHoldoffTime), of 16 slots at least: no less than the
\* MSH-NCFG slots of a frame while C <= 17.
ASSUME ConfigAssumption ==
    \A c \in Configs : c.type = "STANDARD" =>
        /\ c.dsch0 \subseteq Nat /\ c.ncfg0 \subseteq Nat
        /\ c.dsch \subseteq Nat \ {0}
        /\ c.ncfg \subseteq Nat \ 0 .. C - 2

Never == MaxFrame + 100

VARIABLES conf,     \* the coordinator: its type, first opportunities, outcomes of elections
          frame, pos,
          ctl, dat, \* positions until the timers of coordinator and bandwidth manager
          next,     \* next[k]: slot and frame of the next opportunity of kind k
          index,    \* ghost: opportunities from the start to the next MSH-DSCH one
          last,     \* frame and slot of the last message sent
          lastSlot,
          table,    \* table[F][s]: grants_, dst_, channel_, service_, uncoordsch_
          plan,     \* ghost: plan[i][s], what minislot s is marked for in i frames
          late,     \* ghost: minislots of this frame marked after their run was cut
          marks,    \* grants so far
          radio,    \* mode and channel of the PHY
          call,     \* what the bandwidth manager last asked of the MAC
          start     \* the first minislot of that call

rows == <<lastSlot, table, plan, late>>
vars == <<conf, frame, pos, ctl, dat, next, index, last, rows, marks, radio, call, start>>

Kinds == {"DSCH", "NCFG", "NENT"}

Services == {"BE", "nrtPS", "rtPS", "UGS"}

\* What a message marks minislots with: those that the node confirms, the channel
\* to listen to, the service of what others were granted, nothing any more, and
\* room for a message outside of the control subframe.
Grant == [kind : {"confirm"}, dst : Neighbors, channel : Nat, service : Services]
         \cup [kind : {"listen"}, channel : Nat]
         \cup [kind : {"serve"}, service : Services]
         \cup [kind : {"cancel"}]
         \cup [kind : {"undsch"}, dst : Neighbors]

ASSUME GrantAssumption == Grants \subseteq Grant

Dests == {"none"} \cup Neighbors

Cell == [grant : BOOLEAN, dst : Dests, channel : Nat,
         service : {"none"} \cup Services, undsch : Dests]

\* A minislot that nobody marked: reception on the control channel.
Free == [grant |-> FALSE, dst |-> "none", channel |-> 0, service |-> "none", undsch |-> "none"]

FreeRow == [s \in 0 .. N - 1 |-> Free]

Tuned(mode, channel) == [mode |-> mode, channel |-> channel]

-----------------------------------------------------------------------------
(* Opportunities.  The standard coordinator counts MSH-DSCH slots without    *)
(* those of configuration frames, and MSH-NCFG slots without all others.     *)

At(slot, f) == [slot |-> slot, frame |-> f]

\* Mutant: only the configuration frame at the start is left out.
DschAtOnce(x) == At(x % C, x \div C + 1)

\* electionDsch: the x-th MSH-DSCH slot.
DschAt(x) ==
    LET slot == x + (1 + (x \div C) \div T) * C
    IN At(slot % C, slot \div C)

\* Mutant: the period is taken for the frames between configuration frames.
currentCtrlSlotShort(slot, f) == (C * f + slot) - C * (1 + (f - 1) \div T)

currentCtrlSlotDsch(slot, f) == (C * f + slot) - C * (1 + (f - 1) \div (T + 1))

\* electionNcfg: the x-th MSH-NCFG slot.
NcfgAt(x) ==
    LET slot == x + (1 + T * C) * (x \div (C - 1))
    IN At(1 + (slot % (C - 1)), slot \div C)

currentCtrlSlotNcfg(slot, f) == (C * f + slot) - (1 + T * C) * (f \div (T + 1))

\* start: the first opportunities.
DschStart(x) == At(x % C, x \div C + 1 + (x \div C) \div T)

NcfgStart(x) == At(1 + (x % (C - 1)), (x \div (C - 1)) * (T + 1))

\* WimshCoordinatorDummy::start; first is the frame or the slot it is given.
DummyStart == IF conf.type = "FIXED" THEN At(conf.slot, conf.first)
              ELSE At(conf.slot % C, conf.slot \div C)

\* WimshCoordinatorDummy::election; index is periodNumber_ * period_ + slot_.
DummyIndex == (index \div conf.period + 1) * conf.period + (((index % conf.period) + 1) % conf.period)

DummyNext == IF conf.type = "FIXED" THEN At(conf.slot, frame + conf.frames)
             ELSE At(DummyIndex % C, DummyIndex \div C)

Init ==
    /\ conf \in Configs
    /\ frame = 0 /\ pos = 0
    /\ \E d \in conf.dsch0, n \in conf.ncfg0 :
          /\ index = d
          /\ next = IF conf.type = "STANDARD"
                    THEN [DSCH |-> DschStart(d), NCFG |-> NcfgStart(n), NENT |-> At(0, 0)]
                    ELSE [DSCH |-> DummyStart, NCFG |-> At(0, Never), NENT |-> At(0, Never)]
    /\ ctl = IF conf.type = "STANDARD" THEN 0 ELSE next.DSCH.slot + (C + N) * next.DSCH.frame
    /\ dat = C
    /\ last = At(0, Never)
    /\ lastSlot = 0
    /\ table = [F \in 0 .. H - 1 |-> FreeRow]
    /\ plan = [i \in 0 .. H |-> FreeRow]
    /\ late = {}
    /\ marks = 0
    /\ radio = Tuned("RX", 0)
    /\ call = Free /\ start = 0

-----------------------------------------------------------------------------
(* WimshCoordinator::handle. *)

Now == At(pos, frame)

\* Mutant: the coordinator is back only after the next slot.
AfterTwoSlots ==
    /\ ctl' = IF pos = C - 1 THEN 1 ELSE 2
    /\ UNCHANGED <<conf, frame, pos, dat, rows, marks, call, start>>

\* The end of the opportunity, where the coordinator goes back to reception.
AfterOpportunity ==
    /\ ctl' = 1
    /\ UNCHANGED <<conf, frame, pos, dat, rows, marks, call, start>>

\* 1. electionDsch and the MSH-DSCH message.
Dsch ==
    /\ next.DSCH = Now
    /\ \E w \in conf.dsch :
          IF conf.type = "STANDARD"
          THEN /\ next' = [next EXCEPT !.DSCH = DschAt(currentCtrlSlotDsch(pos, frame) + w)]
               /\ index' = index + w
          ELSE /\ next' = [next EXCEPT !.DSCH = DummyNext]
               /\ index' = DummyIndex
    /\ radio' = Tuned("TX", 0)
    /\ last' = Now
    /\ AfterOpportunity

\* 2. electionNcfg and the MSH-NCFG message.
Ncfg ==
    /\ next.NCFG = Now /\ next.DSCH # Now
    /\ \E w \in conf.ncfg :
          next' = [next EXCEPT !.NCFG = NcfgAt(currentCtrlSlotNcfg(pos, frame) + w)]
    /\ radio' = Tuned("TX", 0)
    /\ last' = Now
    /\ UNCHANGED index
    /\ AfterOpportunity

\* 3. electionNent; the MAC has a message to send only while a new node enters.
Nent ==
    /\ next.NENT = Now /\ next.DSCH # Now /\ next.NCFG # Now
    /\ next' = [next EXCEPT !.NENT.frame = @ + T + 1]
    /\ \/ radio' = Tuned("TX", 0) /\ last' = Now
       \/ UNCHANGED <<radio, last>>
    /\ UNCHANGED index
    /\ AfterOpportunity

\* 5. The slot of the next event: an opportunity or the end of the subframe.
NextInFrame ==
    IF next.DSCH.frame = frame THEN next.DSCH.slot
    ELSE IF next.NENT.frame = frame THEN next.NENT.slot
    ELSE IF next.NCFG.frame = frame THEN next.NCFG.slot ELSE C

\* 4. and 5.: reception on the control channel until the next event.
Listen ==
    /\ \A k \in Kinds : next[k] # Now
    /\ ctl' = IF pos = C THEN N ELSE NextInFrame - pos
    /\ radio' = Tuned("RX", 0)
    /\ UNCHANGED <<conf, frame, pos, dat, next, index, last, rows, marks, call, start>>

\* At the end of the control subframe the timer of the bandwidth manager expires
\* too.  It was set first, but sums of times are rounded: either may come first.
CoordinatorHandle ==
    /\ ctl = 0
    /\ Dsch \/ Ncfg \/ Nent \/ Listen

-----------------------------------------------------------------------------
(* WimshBwManager::handle. *)

\* Mutant: a run goes on over a change of channel.
SameRunAnyChannel(c, d) ==
    /\ c.undsch = d.undsch /\ c.grant = d.grant
    /\ c.grant => c.dst = d.dst /\ c.service = d.service

\* Minislots of one run: same channel and direction, and destination and
\* service when it is for transmission.
SameRun(c, d) ==
    /\ c.channel = d.channel /\ c.undsch = d.undsch /\ c.grant = d.grant
    /\ c.grant => c.dst = d.dst /\ c.service = d.service

\* The first minislot after the run that starts at s.
RunEnd(row, s) ==
    CHOOSE e \in s + 1 .. N :
       /\ \A i \in s .. e - 1 : SameRun(row[s], row[i])
       /\ e = N \/ ~SameRun(row[s], row[e])

\* Mutant: the row of the frame keeps its grants.
invalidateNothing(row) == [s \in DOMAIN row |-> [row[s] EXCEPT !.undsch = "none"]]

\* UGS minislots stay for the frame that uses the row next.
invalidate(row) ==
    [s \in DOMAIN row |-> IF row[s].service = "UGS" THEN [row[s] EXCEPT !.undsch = "none"] ELSE Free]

\* The call of the MAC for a minislot: what distinguishes runs.
CallFor(c) ==
    IF c.undsch # "none" THEN [Free EXCEPT !.undsch = c.undsch]
    ELSE IF c.grant THEN c
    ELSE [Free EXCEPT !.channel = c.channel]

\* uncoordinated_opportunity, transmit (which leaves the radio alone when the
\* scheduler has nothing to send) and receive.
SetRadio(c) ==
    CASE c.undsch # "none" -> radio' = Tuned("TX", 0)
      [] c.undsch = "none" /\ c.grant -> radio' \in {Tuned("TX", c.channel), radio}
      [] OTHER -> radio' = Tuned("RX", c.channel)

\* What the minislots of a frame that is over are marked for H frames later.
Renewed(row) ==
    [s \in DOMAIN row |-> IF row[s].service = "UGS" THEN [row[s] EXCEPT !.undsch = "none"] ELSE Free]

BwManagerHandle ==
    /\ dat = 0
    /\ LET F   == frame % H
           end == RunEnd(table[F], lastSlot)
       IN /\ call' = CallFor(table[F][lastSlot])
          /\ SetRadio(table[F][lastSlot])
          /\ IF end = N
             THEN /\ dat' = (C + N - pos) + C
                  /\ table' = [table EXCEPT ![F] = invalidate(@)]
                  /\ plan' = [plan EXCEPT ![H] = Renewed(plan[0])]
                  /\ lastSlot' = 0
             ELSE /\ dat' = end - lastSlot
                  /\ lastSlot' = end
                  /\ UNCHANGED <<table, plan>>
    /\ start' = lastSlot
    /\ UNCHANGED <<conf, frame, pos, ctl, next, index, last, late, marks>>

-----------------------------------------------------------------------------
(* The environment: messages that mark minislots (setSlots of a bandwidth    *)
(* manager), in the control subframe and, with uncoordinated MSH-DSCH, in    *)
(* the data subframe; and time.                                              *)

\* No handler is due.
Settled == ctl > 0 /\ dat > 0

\* The last run of the frame was cut and its row invalidated: from now on the
\* row is that of the frame in H frames, whatever it is marked for.
Over == pos >= C /\ lastSlot = 0 /\ dat > 0

\* A message that a node sends in the data subframe is written in handle, before
\* invalidate: of what it marks in the last run of the frame only UGS stays.
Confirms(g, i) ==
    \/ pos < C
    \/ call.undsch # "none" /\ (i = H => g.service = "UGS")

\* searchTXslot looks at later frames only.
Allowed(g, i) ==
    /\ g.kind = "confirm" => Confirms(g, i)
    /\ g.kind = "undsch" => i \in 1 .. H - 1

\* Each of them sets some of the arrays.
Marked(g, c) ==
    CASE g.kind = "confirm" -> [c EXCEPT !.grant = TRUE, !.dst = g.dst, !.channel = g.channel,
                                         !.service = g.service]
      [] g.kind = "listen" -> [c EXCEPT !.channel = g.channel]
      [] g.kind = "serve"  -> [c EXCEPT !.service = g.service]
      [] g.kind = "cancel" -> [c EXCEPT !.grant = FALSE, !.dst = "none", !.service = "none"]
      [] g.kind = "undsch" -> [c EXCEPT !.undsch = g.dst]

MarkedRow(row, s, range, g) ==
    [m \in DOMAIN row |-> IF m \in s .. s + range - 1 THEN Marked(g, row[m]) ELSE row[m]]

Mark(i, s, range, g) ==
    /\ Settled
    /\ IF Over THEN i # 0 ELSE i # H
    /\ Allowed(g, i)
    /\ marks < conf.marks
    /\ marks' = marks + 1
    /\ table' = [table EXCEPT ![(frame + i) % H] = MarkedRow(@, s, range, g)]
    /\ plan' = [plan EXCEPT ![i] = MarkedRow(@, s, range, g)]
    /\ late' = IF i = 0 THEN late \cup (s .. s + range - 1 \cap 0 .. lastSlot - 1) ELSE late
    /\ UNCHANGED <<conf, frame, pos, ctl, dat, next, index, last, lastSlot, radio, call, start>>

\* WimshMacMib::nextFrame at the end of a frame.
Tick ==
    /\ Settled
    /\ ctl' = ctl - 1 /\ dat' = dat - 1
    /\ IF pos < C + N - 1
       THEN pos' = pos + 1 /\ UNCHANGED <<frame, plan, late>>
       ELSE /\ frame < MaxFrame
            /\ pos' = 0
            /\ frame' = frame + 1
            /\ plan' = [i \in DOMAIN plan |-> IF i < H THEN plan[i + 1] ELSE FreeRow]
            /\ late' = {}
    /\ UNCHANGED <<conf, next, index, last, lastSlot, table, marks, radio, call, start>>

\* The simulation stops.
Stop == /\ frame = MaxFrame /\ pos = C + N - 1
        /\ Settled
        /\ UNCHANGED vars

Next == \/ CoordinatorHandle
        \/ BwManagerHandle
        \/ \E i \in 0 .. H, s \in 0 .. N - 1, g \in Grants :
              \E range \in 1 .. N - s : Mark(i, s, range, g)
        \/ Tick
        \/ Stop

Spec == Init /\ [][Next]_vars

-----------------------------------------------------------------------------
(* Properties. *)

Minislot == pos - C

\* In every minislot the MAC has been asked for what that minislot of that
\* frame was marked for, with every change of direction, destination, channel
\* and service: runs end where they should (handle), and a row of the circular
\* table never executes grants of another frame (invalidate).  What is marked
\* after the run was cut comes too late; what is marked for a frame that is over
\* is carried out H frames later.
CallsFollowGrants ==
    Settled /\ pos >= C /\ Minislot \notin late => call = CallFor(plan[0][Minislot])

\* The minislot is not for transmission.
Reception == Settled /\ pos >= C /\ Minislot \notin late
             /\ ~plan[0][Minislot].grant /\ plan[0][Minislot].undsch = "none"

\* "When the minislot is not granted for transmission, the node moves to
\* receive mode. The channel used for both reception and transmission is
\* specified in the channel_ array" (wimsh_bwmanager.h).
ListensOnChannel == Reception => radio = Tuned("RX", plan[0][Minislot].channel)

\* A node that does not transmit listens where the table says; but in the first
\* run of a frame, for all of it, it may be left on the control channel, when
\* the coordinator restores reception after the bandwidth manager set the radio.
ListensWhereTold ==
    Reception => \/ radio = Tuned("RX", plan[0][Minislot].channel)
                 \/ start = 0 /\ radio = Tuned("RX", 0)

\* In the control subframe the radio is on the control channel, and transmits
\* in this node's own opportunities only (the coordinator restores reception);
\* but see ListensForEntry for slot 0 of configuration frames.
QuietOutsideOpportunities ==
    Settled /\ pos < C /\ conf.type = "STANDARD" =>
        \/ radio.channel = 0 /\ (radio.mode = "TX" <=> last = Now)
        \/ pos = 0 /\ frame % (T + 1) = 0 /\ last # Now

\* "in any case, tell the MAC to listen for control messages"
\* (wimsh_coordinator.cc): a node that has no MSH-NENT to send in slot 0 of a
\* configuration frame listens to those of new nodes.
ListensForEntry ==
    Settled /\ pos = 0 /\ conf.type = "STANDARD" /\ frame % (T + 1) = 0 /\ last # Now =>
        radio = Tuned("RX", 0)

\* MSH-NCFG and MSH-NENT use the configuration frames, MSH-DSCH the others:
\* no two of them meet in a slot.
FramesApart ==
    /\ next.DSCH.frame % (T + 1) # 0
    /\ next.NCFG.frame % (T + 1) = 0 /\ next.NCFG.slot > 0
    /\ next.NENT.frame % (T + 1) = 0

\* No opportunity goes by: the timers stop at every one that elections give,
\* and only one is due at a time.
OpportunitiesAhead ==
    /\ conf.type = "STANDARD" => FramesApart
    /\ \A k \in Kinds : \/ next[k].frame > frame
                        \/ next[k].frame = frame /\ next[k].slot >= (IF ctl = 0 THEN pos ELSE pos + 1)

\* Slots are counted the same way when an opportunity is placed (electionDsch)
\* and when it is taken or heard of (currentCtrlSlotDsch): nodes that differ
\* would elect different slots.
DschCounted ==
    conf.type = "STANDARD" => currentCtrlSlotDsch(next.DSCH.slot, next.DSCH.frame) = index
=============================================================================
