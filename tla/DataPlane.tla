------------------------------ MODULE DataPlane ------------------------------
(***************************************************************************)
(* SDUs on one link: the packet scheduler of the sender (deficit round       *)
(* robin over its flows, WimshSchedulerFairRR), the fragmentation buffer     *)
(* that fills a granted burst, the channel, and the reassembly buffer of the *)
(* receiver.  Each service of the link has its own queues and its own        *)
(* pending fragment; the services share the sequence numbers of fragments.   *)
(*                                                                          *)
(* Two SDUs of one flow are marked, 1 and then 2, when they are sent: what   *)
(* holds of them, whatever the others are, holds of any two SDUs of a flow.  *)
(***************************************************************************)
EXTENDS Integers, SequencesExt

CONSTANTS Flow,          \* end-to-end flows that share the link
          Serv,          \* Serv[f]: the service of f (prio2serv)
          Weight,        \* Weight[f]: prioWeights_ of the priority of f
          Header,        \* Header[f]: MAC header, CRC if f has one, mesh subheader
          Fsh,           \* fragmentation subheader
          MinSize,       \* WimaxPdu::minSize()
          FsnSize,       \* sequence numbers of fragments
          roundDuration, \* bytes of a round, shared out as quanta
          Sizes,         \* Sizes[f]: payload sizes of the SDUs of f
          Grants,        \* bytes of the bursts that are granted
          Configs        \* configurations considered: the buffer size and the way it is
                         \* shared, the flows with traffic, the one that is watched,
                         \* whether bursts may be lost, and whether flows time out

ASSUME DataPlaneAssumption ==
    /\ IsFiniteSet(Flow)
    /\ Weight \in [Flow -> Nat \ {0}] /\ Header \in [Flow -> Nat \ {0}]
    /\ Fsh \in Nat /\ MinSize \in Nat /\ FsnSize \in Nat \ {0} /\ roundDuration \in Nat
    /\ Sizes \in [Flow -> SUBSET Nat] /\ Grants \subseteq Nat
    /\ Configs \subseteq [sharing : {"SHARED", "PER_LINK", "PER_FLOW"}, maxBufSize : Nat,
                          flows : SUBSET Flow, watched : Flow,
                          lossy : BOOLEAN, timeout : BOOLEAN]

Service == {Serv[f] : f \in Flow}

VARIABLES conf,       \* the configuration, given at the start
          marked,     \* the last mark given to an SDU of the watched flow
          rr,         \* rr[s]: flow descriptors of a service, the current one first
          linkSize,   \* linkSize[s]: bytes queued for a service
          bufSize,    \* bytes queued
          unfinished, \* unfinishedRound_
          lastPdu,    \* lastPdu[s]: what did not fit into the last burst, or <<>>
          fsn,        \* next fragment sequence number
          air,        \* PDUs of the burst on the channel
          limit,      \* bytes that were granted to it
          reas,       \* sequence numbers under which a fragment is kept
          got,        \* the last mark delivered
          upto,       \* upto[s]: bytes received without a gap of the current SDU
          whole       \* every SDU that was delivered had all its bytes

sender   == <<rr, linkSize, bufSize, unfinished, lastPdu, fsn>>
receiver == <<reas, got, upto, whole>>
vars     == <<conf, marked, sender, air, limit, receiver>>

Init == /\ conf \in Configs
        /\ marked = 0
        /\ rr = [s \in Service |-> <<>>]
        /\ linkSize = [s \in Service |-> 0]
        /\ bufSize = 0
        /\ unfinished = [s \in Service |-> FALSE]
        /\ lastPdu = [s \in Service |-> <<>>]
        /\ fsn = 0
        /\ air = <<>>
        /\ limit = 0
        /\ reas = {}
        /\ got = 0
        /\ upto = [s \in Service |-> 0]
        /\ whole = TRUE

-----------------------------------------------------------------------------
(* PDUs.  data is the payload; off, how much of the SDU went before it.      *)

Pdu(f, n, m) == [flow |-> f, mark |-> m, data |-> n, off |-> 0, state |-> "NO_FRAG", fsn |-> 0]

isFrag(p) == p.state # "NO_FRAG"

size(p) == p.data + Header[p.flow] + (IF isFrag(p) THEN Fsh ELSE 0)

\* The sum of a sequence of numbers.
Total(v) == LET sum[k \in Nat] == IF k = 0 THEN 0 ELSE sum[k - 1] + v[k] IN sum[Len(v)]

Bytes(pdus) == Total([i \in DOMAIN pdus |-> size(pdus[i])])

-----------------------------------------------------------------------------
(* addPdu: a PDU for the link. *)

\* Quanta in proportion to the weights, at least one byte.
recompute(list) ==
    LET sum == Total([i \in DOMAIN list |-> Weight[list[i].flow]])
        quantum(f) == (roundDuration * Weight[f]) \div sum
    IN [i \in DOMAIN list |->
          [list[i] EXCEPT !.quantum = IF quantum(list[i].flow) > 0
                                    THEN quantum(list[i].flow) ELSE 1]]

\* The descriptor of a flow (find).
known(list, f) == {i \in DOMAIN list : list[i].flow = f}

flowSize(s, f) == LET k == known(rr[s], f) IN IF k = {} THEN 0 ELSE rr[s][CHOOSE i \in k : TRUE].size

\* The PDU overflows the buffer and is dropped.
Overflows(s, p) ==
    \/ conf.sharing = "SHARED" /\ bufSize + size(p) > conf.maxBufSize
    \/ conf.sharing = "PER_LINK" /\ linkSize[s] + size(p) > conf.maxBufSize
    \/ conf.sharing = "PER_FLOW" /\ flowSize(s, p.flow) + size(p) > conf.maxBufSize

\* Mutant: only the payload is counted.
EnqueueSized(s, p) ==
    LET k == known(rr[s], p.flow)
    IN IF k # {}
       THEN [i \in DOMAIN rr[s] |->
               IF i \in k THEN [rr[s][i] EXCEPT !.queue = Append(@, p), !.size = @ + p.data]
               ELSE rr[s][i]]
       ELSE recompute(Append(rr[s], [flow |-> p.flow, quantum |-> 0, deficit |-> 0,
                                     size |-> size(p), queue |-> <<p>>]))

\* The descriptor of the flow gets the PDU; a new one goes to the end of the
\* round (insert puts it before the current one) and changes the quanta.
Enqueue(s, p) ==
    LET k == known(rr[s], p.flow)
    IN IF k # {}
       THEN [i \in DOMAIN rr[s] |->
               IF i \in k THEN [rr[s][i] EXCEPT !.queue = Append(@, p), !.size = @ + size(p)]
               ELSE rr[s][i]]
       ELSE recompute(Append(rr[s], [flow |-> p.flow, quantum |-> 0, deficit |-> 0,
                                     size |-> size(p), queue |-> <<p>>]))

\* recvSdu: an SDU of f comes from the node itself or from the hop before it.
\* One that overflows changes nothing.
Arrive(f, n) ==
    LET s == Serv[f]
    IN /\ \E m \in {0} \cup {k \in {marked + 1} : f = conf.watched /\ k <= 2} :
             LET p == Pdu(f, n, m)
             IN /\ ~Overflows(s, p)
                /\ rr' = [rr EXCEPT ![s] = Enqueue(s, p)]
                /\ linkSize' = [linkSize EXCEPT ![s] = @ + size(p)]
                /\ bufSize' = bufSize + size(p)
                /\ marked' = IF m > 0 THEN m ELSE marked
       /\ UNCHANGED <<conf, unfinished, lastPdu, fsn, air, limit, receiver>>

-----------------------------------------------------------------------------
(* transmit: a burst of a service.  The burst being filled is a record: pdus *)
(* so far, room left, spare if more may be added, and the state of the       *)
(* service that changes on the way (last, fsn, rr, unfinished; sent counts   *)
(* the bytes taken from the queues).                                         *)

NextFsn(b) == [b EXCEPT !.fsn = (@ + 1) % FsnSize]

\* Mutant: what was sent is not taken off the pending SDU.
FragmentAgain(b, p, n) ==
    LET first == ~isFrag(p)
        piece == [p EXCEPT !.data = n, !.fsn = IF first THEN b.fsn ELSE @,
                           !.state = IF first THEN "FIRST_FRAG" ELSE "CONT_FRAG"]
    IN [(IF first THEN NextFsn(b) ELSE b) EXCEPT
          !.pdus = Append(@, piece), !.room = 0, !.spare = FALSE,
          !.last = [piece EXCEPT !.data = p.data, !.state = "CONT_FRAG"]]

\* The first n bytes of p fill the burst, the rest stays pending.
Fragment(b, p, n) ==
    LET first == ~isFrag(p)
        piece == [p EXCEPT !.data = n, !.fsn = IF first THEN b.fsn ELSE @,
                           !.state = IF first THEN "FIRST_FRAG" ELSE "CONT_FRAG"]
        rest  == [piece EXCEPT !.data = p.data - n, !.off = @ + n, !.state = "CONT_FRAG"]
    IN [(IF first THEN NextFsn(b) ELSE b) EXCEPT
          !.pdus = Append(@, piece), !.room = 0, !.last = rest, !.spare = FALSE]

\* Mutant: the room for the fragmentation subheader is forgotten.
fragsizeBare(b, p) == b.room - Header[p.flow]

\* Bytes of p that fit into the burst as a fragment.
fragsize(b, p) == b.room - Header[p.flow] - Fsh

Whole(b, p) == [b EXCEPT !.pdus = Append(@, p), !.room = @ - size(p),
                         !.spare = b.room - size(p) > MinSize]

\* Mutant: what is pending waits when the whole of it does not fit.
newBurstLater(b) ==
    IF b.last = <<>> THEN b
    ELSE IF size(b.last) <= b.room
    THEN [Whole(b, IF isFrag(b.last) THEN [b.last EXCEPT !.state = "LAST_FRAG"] ELSE b.last)
            EXCEPT !.last = <<>>]
    ELSE b

\* What is pending goes first; the rest of an SDU is its last fragment.
newBurst(b) ==
    IF b.last = <<>> THEN b
    ELSE IF size(b.last) <= b.room
    THEN [Whole(b, IF isFrag(b.last) THEN [b.last EXCEPT !.state = "LAST_FRAG"] ELSE b.last)
            EXCEPT !.last = <<>>]
    ELSE IF fragsize(b, b.last) < 1 THEN [b EXCEPT !.spare = FALSE]
    ELSE Fragment(b, b.last, fragsize(b, b.last))

\* Mutant: a PDU of which not even a byte fits is not kept.
addPduOrDrop(b, p) ==
    IF b.room >= size(p) THEN NextFsn(Whole(b, p))
    ELSE IF fragsize(b, p) > 0 THEN Fragment(b, p, fragsize(b, p))
    ELSE [b EXCEPT !.spare = FALSE]

\* WimshFragmentationBuffer::addPdu.
addPdu(b, p) ==
    IF b.room >= size(p) THEN NextFsn(Whole(b, p))
    ELSE IF fragsize(b, p) > 0 THEN Fragment(b, p, fragsize(b, p))
    ELSE [b EXCEPT !.last = p, !.spare = FALSE]

\* Mutant: the deficit is not limited by what the flow has queued.
Uncapped(flow) == [flow EXCEPT !.deficit = @ + flow.quantum]

\* The deficit of a flow whose turn it is.
Replenish(flow) ==
    [flow EXCEPT !.deficit = IF @ + flow.quantum > flow.size THEN flow.size ELSE @ + flow.quantum]

\* The head of the queue of the current flow goes into the burst.
SendHead(b) ==
    LET flow == Head(b.rr)
        p    == Head(flow.queue)
        rest == [flow EXCEPT !.queue = Tail(@), !.size = @ - size(p), !.deficit = @ - size(p)]
    IN addPdu([b EXCEPT !.rr[1] = rest, !.sent = @ + size(p)], p)

\* One more, if the deficit and the burst allow it.
SendOne(b) ==
    LET flow == Head(b.rr)
    IN IF b.spare /\ flow.deficit > 0 /\ size(Head(flow.queue)) <= flow.deficit
       THEN SendHead(b) ELSE b

\* As long as they do: no more than there are in the queue.
SendTurn(b) ==
    LET turn[k \in Nat] == IF k = 0 THEN b ELSE SendOne(turn[k - 1])
    IN turn[Len(Head(b.rr).queue)]

\* Mutant: a flow that has sent stays the current one until it is empty.
Monopolise(b) ==
    IF ~b.spare THEN [b EXCEPT !.unfinished = TRUE]
    ELSE [b EXCEPT !.unfinished = FALSE, !.rr = IF Head(@).size = 0 THEN Tail(@) ELSE @]

\* Without room the round is unfinished and the flow stays the current one;
\* else it goes to the end, or out of the list when it has no more PDUs.
EndTurn(b) ==
    IF ~b.spare THEN [b EXCEPT !.unfinished = TRUE]
    ELSE [b EXCEPT !.unfinished = FALSE,
                   !.rr = IF Head(@).size = 0 THEN Tail(@) ELSE Append(Tail(@), Head(@))]

serve(b, resumed) ==
    EndTurn(SendTurn(IF resumed THEN b ELSE [b EXCEPT !.rr[1] = Replenish(@)]))

serveNext(b) == IF b.rr = <<>> \/ ~b.spare THEN b ELSE serve(b, FALSE)

\* One turn after the other while there is something to send and room for it: no
\* more than there are bytes in the queues, as each turn adds one to a deficit.
Rounds(b) ==
    LET round[k \in Nat] == IF k = 0 THEN b ELSE serveNext(round[k - 1])
    IN round[Total([i \in DOMAIN b.rr |-> b.rr[i].size])]

\* An unfinished round goes on, without a new quantum, before a new one.
schedule(b) == Rounds(IF b.unfinished THEN serve(b, TRUE) ELSE b)

\* The burst of service s for a grant, with what is pending in it.
Opened(s, bytes) ==
    newBurst([pdus |-> <<>>, room |-> bytes, spare |-> TRUE, last |-> lastPdu[s], fsn |-> fsn,
              rr |-> rr[s], unfinished |-> unfinished[s], sent |-> 0])

\* The round-robin list that schedule goes on with has a current element
\* (current() asserts it).
Proceeds(b) == b.spare /\ b.unfinished => b.rr # <<>>

Transmit(s, bytes) ==
    /\ air = <<>>
    /\ Proceeds(Opened(s, bytes))
    /\ LET opened == Opened(s, bytes)
           b == IF opened.spare THEN schedule(opened) ELSE opened
       IN /\ rr' = [rr EXCEPT ![s] = b.rr]
          /\ linkSize' = [linkSize EXCEPT ![s] = @ - b.sent]
          /\ bufSize' = bufSize - b.sent
          /\ unfinished' = [unfinished EXCEPT ![s] = b.unfinished]
          /\ lastPdu' = [lastPdu EXCEPT ![s] = b.last]
          /\ fsn' = b.fsn
          /\ air' = b.pdus
          /\ limit' = IF b.pdus = <<>> THEN 0 ELSE bytes
    /\ UNCHANGED <<conf, marked, receiver>>

\* handle looks at the k-th element, which is the head: it is erased without PDUs
\* (last_ is never set, so all of these are stale), else the next is the head.
LookAt(k, list) ==
    IF k > Len(list) THEN list
    ELSE IF Head(list).queue = <<>> THEN Tail(list)
    ELSE Append(Tail(list), Head(list))

\* One pass over a list; each erasure shortens the list and the pass with it.
Sweep(list) ==
    LET pass[k \in Nat] == IF k = 0 THEN list ELSE LookAt(k, pass[k - 1]) IN pass[Len(list)]

\* The weights of a list are computed again if a flow was removed from it.
Swept(list) ==
    LET left == Sweep(list) IN IF Len(left) < Len(list) THEN recompute(left) ELSE left

\* WimshSchedulerFairRR::handle, the timer of weight-timeout.
RemoveStale ==
    /\ conf.timeout
    /\ rr' = [s \in Service |-> Swept(rr[s])]
    /\ UNCHANGED <<conf, marked, linkSize, bufSize, unfinished, lastPdu, fsn,
                   air, limit, receiver>>

-----------------------------------------------------------------------------
(* recvBurst: the PDUs of a burst, one by one. *)

\* An SDU is complete with an unfragmented PDU or a last fragment.
Delivers(p) == p.state \in {"NO_FRAG", "LAST_FRAG"}

\* Mutant: a last fragment leaves the one before it in the buffer.
KeptForever(r, p) == IF isFrag(p) THEN r \cup {p.fsn} ELSE r

\* WimaxReassemblyBuffer::addPdu: a fragment replaces what is kept under its
\* number, a last one removes it.
Kept(r, p) ==
    CASE p.state = "NO_FRAG"   -> r
      [] p.state = "LAST_FRAG" -> r \ {p.fsn}
      [] OTHER                 -> r \cup {p.fsn}

\* Bytes received in sequence: a first fragment starts anew, a gap leaves 0.
Follows(u, p) == IF p.state = "FIRST_FRAG" THEN p.data
                 ELSE IF u = p.off THEN u + p.data ELSE 0

\* What the receiver keeps after one more PDU.
Taken(r, p) ==
    [reas |-> Kept(r.reas, p),
     got |-> IF Delivers(p) /\ p.mark > 0 THEN p.mark ELSE r.got,
     upto |-> IF Delivers(p) THEN 0 ELSE Follows(r.upto, p)]

Receive ==
    /\ air # <<>>
    /\ LET s == Serv[Head(air).flow]
           after[k \in Nat] == IF k = 0 THEN [reas |-> reas, got |-> got, upto |-> upto[s]]
                              ELSE Taken(after[k - 1], air[k])
           end == after[Len(air)]
       IN /\ reas' = end.reas
          /\ got' = end.got
          /\ upto' = [upto EXCEPT ![s] = end.upto]
          /\ whole' = (whole /\ (Head(air).state = "LAST_FRAG" => Head(air).off = upto[s]))
    /\ air' = <<>>
    /\ limit' = 0
    /\ UNCHANGED <<conf, marked, sender>>

\* The burst is corrupted: all its PDUs are dropped.
Lose ==
    /\ conf.lossy
    /\ air # <<>>
    /\ air' = <<>>
    /\ limit' = 0
    /\ upto' = [upto EXCEPT ![Serv[Head(air).flow]] = 0]
    /\ UNCHANGED <<conf, marked, sender, reas, got, whole>>

Next == \/ \E f \in conf.flows : \E n \in Sizes[f] : Arrive(f, n)
        \/ \E s \in Service, bytes \in Grants : Transmit(s, bytes)
        \/ RemoveStale
        \/ Receive
        \/ Lose

Spec == Init /\ [][Next]_vars

\* Nothing to send for a service, or a burst of it on the channel.
Served(s) == \/ rr[s] = <<>> /\ lastPdu[s] = <<>>
             \/ air # <<>> /\ Serv[Head(air).flow] = s

\* A service with PDUs is granted, again and again, a burst that holds a byte;
\* and a burst ends.
Fairness == /\ \A s \in Service : []<>Served(s)
            /\ WF_vars(Receive \/ Lose)

FairSpec == Spec /\ Fairness

-----------------------------------------------------------------------------
(* Properties. *)

\* The three counts of a queue (flow, link and node: addPdu, serve) stay those
\* of the PDUs that are queued, each flow has one descriptor (find), and no count
\* passes the maximum of its way to share the buffer.
BuffersAgree ==
    /\ \A s \in Service :
          /\ \A i \in DOMAIN rr[s] : rr[s][i].size = Bytes(rr[s][i].queue)
          /\ linkSize[s] = Total([i \in DOMAIN rr[s] |-> rr[s][i].size])
          /\ \A i, j \in DOMAIN rr[s] : rr[s][i].flow = rr[s][j].flow => i = j
          /\ conf.sharing = "PER_LINK" => linkSize[s] <= conf.maxBufSize
          /\ conf.sharing = "PER_FLOW" => \A i \in DOMAIN rr[s] : rr[s][i].size <= conf.maxBufSize
    /\ LET all == SetToSeq(Service) IN bufSize = Total([i \in DOMAIN all |-> linkSize[all[i]]])
    /\ conf.sharing = "SHARED" => bufSize <= conf.maxBufSize

\* serve takes the head of a queue without asking whether there is one: a
\* deficit is never left that the queue does not cover, however many rounds
\* are cut short and resumed.
DeficitCovered ==
    \A s \in Service : \A i \in DOMAIN rr[s] : rr[s][i].deficit <= Bytes(rr[s][i].queue)

\* The PDUs of a burst fit into the minislots that were granted to it,
\* with every header that fragmentation adds (newBurst, addPdu).
BurstFits == Bytes(air) <= limit

\* What there is still to deliver of the watched flow, first to last; PDUs of
\* other flows have no mark.
Ahead ==
    LET s == Serv[conf.watched]
        k == known(rr[s], conf.watched)
    IN air \o (IF lastPdu[s] = <<>> THEN <<>> ELSE <<lastPdu[s]>>)
         \o (IF k = {} THEN <<>> ELSE rr[s][CHOOSE i \in k : TRUE].queue)

\* A flow is delivered in the order it was sent: no SDU overtakes another in
\* the queues, as a pending fragment or after it (serve's comment: pending
\* fragments go before other PDUs).
InOrder ==
    \A i \in DOMAIN Ahead : Ahead[i].mark > 0 =>
        /\ Ahead[i].mark > got
        /\ \A j \in DOMAIN Ahead : i < j /\ Ahead[j].mark > 0 => Ahead[i].mark <= Ahead[j].mark

\* An SDU that was accepted is somewhere until it is delivered: in a queue,
\* pending or on the channel.
NothingMissing ==
    ~conf.lossy => \A m \in got + 1 .. marked : \E i \in DOMAIN Ahead : Ahead[i].mark = m

\* Without losses the reassembly buffer delivers whole SDUs, though the last
\* fragment delivers whatever came before it, and services share the numbers.
DeliveredWhole == ~conf.lossy => whole

\* The reassembly buffer keeps no fragment of an SDU that is over.
NothingLeftOver ==
    ~conf.lossy /\ air = <<>> =>
        reas \subseteq {lastPdu[s].fsn : s \in {t \in Service : lastPdu[t] # <<>>}}

\* A queued SDU leaves its queue, however the other flows keep the link busy;
\* unless flows time out: handle may move the pointer of an unfinished round on
\* to a flow that is then passed over, again and again.
QueuedLeaves ==
    LET s == Serv[conf.watched]
        Queued(m) == \E i \in DOMAIN rr[s] : \E j \in DOMAIN rr[s][i].queue :
                        rr[s][i].queue[j].mark = m
    IN \A m \in 1 .. 2 : (Queued(m) /\ ~conf.timeout) ~> ~Queued(m)

\* "if unfinishedRound_ is true, and the current flow is pointed by the
\* current round-robin pointer in the active list" (scheduler_frr.h).
UnfinishedPointsToFlow == \A s \in Service : unfinished[s] => rr[s] # <<>>
=============================================================================
