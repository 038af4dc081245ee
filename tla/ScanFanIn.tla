------------------------------ MODULE ScanFanIn ------------------------------
(***************************************************************************)
(* One logical table scan, from its producers to the DataFusion stream.    *)
(*                                                                         *)
(* Producer 0 is the leader backend, driven by the executor loop of the    *)
(* custom scan; producers 1 .. Standalone are dynamic background workers.  *)
(* Each owns a scan slot: a ring of frames to the worker, a ring of        *)
(* control messages back, and a lease with a backend owner and a worker    *)
(* owner.  A scan thread of the worker attaches to every slot, sends       *)
(* OpenScan, merges the producers' frames through the scan_flow role and   *)
(* forwards Arrow batches to a bounded channel that DataFusion polls.      *)
(*                                                                         *)
(* A page and its permit live and die together here (the issuance pool is  *)
(* sized from the page count), so one counter, free, stands for both.      *)
(***************************************************************************)
EXTENDS Integers, Sequences, FiniteSets, SequencesExt

CONSTANTS
  Standalone,   \* number of background-worker producers
  MaxPages,     \* most pages one producer's block range encodes to
  RingCap,      \* frames a backend-to-worker scan ring holds
  InboxCap,     \* messages a worker-to-backend scan ring holds
  ChanCap,      \* batches the DataFusion channel holds
  Permits       \* pages (and permits) of the shared pool

Producers == 0..Standalone
Leader == 0

VARIABLES
  total,    \* pages in each producer's range
  filled,   \* pages each producer has encoded so far
  prod,     \* control state of each producer
  ring,     \* frames published to the worker and not read yet
  inbox,    \* control messages published to the producer and not read yet
  own,      \* owners of each slot's lease: "B" the backend, "W" the worker
  free,     \* pages in the pool
  wpc,      \* control state of the worker's scan thread
  cur,      \* producer the thread's current pass has come to
  hand,     \* batch the thread is about to put on the channel
  seen,     \* terminal state of each producer in the worker's scan role
  chan,     \* the channel between scan thread and DataFusion
  stop,     \* the stream's stop flag
  consumer, \* what the DataFusion side of the stream has come to
  taken,    \* per producer, the pages DataFusion has received, in order
  failed    \* history: what has gone wrong so far

producerVars == <<total, filled, prod>>
slotVars == <<ring, inbox, own>>
threadVars == <<wpc, cur, hand, seen>>
streamVars == <<chan, stop, consumer, taken>>
vars == <<producerVars, slotVars, free, threadVars, streamVars, failed>>

PageFrame(n) == [kind |-> "page", n |-> n]
ScanFinished == [kind |-> "finished", n |-> 0]
ScanFailed == [kind |-> "failed", n |-> 0]
Frames == {PageFrame(n) : n \in 1..MaxPages} \cup {ScanFinished, ScanFailed}

Batch(p, n) == [from |-> p, n |-> n]
ErrorItem == [from |-> 0, n |-> 0]
Items == {Batch(p, n) : p \in Producers, n \in 1..MaxPages} \cup {ErrorItem}

ProducerStates == {"wait", "stream", "pending", "finishing", "failing", "drain", "done", "gone"}
ThreadStates == {"idle", "attach", "open", "top", "recv", "push", "logical", "cancel", "raise", "ended"}
ConsumerStates == {"reading", "holding", "eof", "error", "dropped"}
Faults == {"source", "import", "timer", "query"}

(***************************************************************************)
(* The type invariant; it also bounds the rings, the channel and the pool. *)
(***************************************************************************)
TypeOK ==
  /\ total \in [Producers -> 0..MaxPages]
  /\ filled \in [Producers -> 0..MaxPages]
  /\ prod \in [Producers -> ProducerStates]
  /\ \A p \in Producers : ring[p] \in Seq(Frames) /\ Len(ring[p]) <= RingCap
  /\ \A p \in Producers : inbox[p] \in Seq({"OpenScan", "CancelScan"}) /\ Len(inbox[p]) <= InboxCap
  /\ own \in [Producers -> SUBSET {"B", "W"}]
  /\ free \in 0..Permits
  /\ wpc \in ThreadStates
  /\ cur \in 0..Standalone + 1
  /\ hand \in Items
  /\ seen \in [Producers -> {"Active", "Eof", "Failed"}]
  /\ chan \in Seq(Items) /\ Len(chan) <= ChanCap
  /\ stop \in BOOLEAN
  /\ consumer \in ConsumerStates
  /\ \A p \in Producers : taken[p] \in Seq(1..MaxPages)
  /\ failed \in SUBSET Faults

Init ==
  /\ total \in [Producers -> 0..MaxPages]
  /\ filled = [p \in Producers |-> 0]
  /\ prod = [p \in Producers |-> "wait"]
  /\ ring = [p \in Producers |-> <<>>]
  /\ inbox = [p \in Producers |-> <<>>]
  /\ own = [p \in Producers |-> {"B"}]
  /\ free = Permits
  /\ wpc = "idle" /\ cur = 0 /\ hand = ErrorItem
  /\ seen = [p \in Producers |-> "Active"]
  /\ chan = <<>> /\ stop = FALSE /\ consumer = "reading"
  /\ taken = [p \in Producers |-> <<>>]
  /\ failed = {}

-----------------------------------------------------------------------------
(***************************************************************************)
(* Slots.  A side releases its ownership of a lease; when nobody owns it   *)
(* any more the slot goes back to the freelist with its rings cleared, and *)
(* whatever frames they still held are gone.                               *)
(***************************************************************************)
Disown(o, side, ps) == [p \in Producers |-> IF p \in ps THEN o[p] \ {side} ELSE o[p]]

ReleaseAfter(rings, side, ps) ==
  LET left == Disown(own, side, ps)
  IN  /\ own' = left
      /\ ring' = [p \in Producers |-> IF left[p] = {} THEN <<>> ELSE rings[p]]
      /\ inbox' = [p \in Producers |-> IF left[p] = {} THEN <<>> ELSE inbox[p]]

Release(side, ps) == ReleaseAfter(ring, side, ps)

(***************************************************************************)
(* Producers                                                               *)
(***************************************************************************)
\* A producer receives OpenScan and starts to stream.
AcceptOpenScan(p) ==
  /\ prod[p] = "wait"
  /\ inbox[p] # <<>> /\ Head(inbox[p]) = "OpenScan"
  /\ inbox' = [inbox EXCEPT ![p] = Tail(@)]
  /\ prod' = [prod EXCEPT ![p] = "stream"]
  /\ UNCHANGED <<total, filled, ring, own, free, threadVars, streamVars, failed>>

\* Its page source cannot be opened: the failure is reported like any other.
OpenSourceFails(p) ==
  /\ prod[p] = "wait" /\ p # Leader
  /\ inbox[p] # <<>> /\ Head(inbox[p]) = "OpenScan"
  /\ inbox' = [inbox EXCEPT ![p] = Tail(@)]
  /\ prod' = [prod EXCEPT ![p] = "failing"]
  /\ failed' = failed \cup {"source"}
  /\ UNCHANGED <<total, filled, ring, own, free, threadVars, streamVars>>

\* A standalone producer that never hears OpenScan gives up at its deadline.
OpenScanTimeout(p) ==
  /\ p # Leader /\ prod[p] = "wait" /\ inbox[p] = <<>>
  /\ prod' = [prod EXCEPT ![p] = "gone"]
  /\ Release("B", {p})
  /\ failed' = failed \cup {"timer"}
  /\ UNCHANGED <<total, filled, free, threadVars, streamVars>>

\* The leader polls its scan peers: CancelScan drops a streaming driver with
\* the page it may hold; a driver that has reported its end is not there any
\* more; one whose terminal frame is still deferred refuses to be cancelled,
\* which fails the query.
LeaderCancelScan ==
  /\ prod[Leader] \in {"stream", "pending", "finishing", "failing", "done"}
  /\ inbox[Leader] # <<>> /\ Head(inbox[Leader]) = "CancelScan"
  /\ \/ /\ prod[Leader] \in {"stream", "pending", "done"}
        /\ prod' = [prod EXCEPT ![Leader] = "done"]
        /\ free' = IF prod[Leader] = "pending" THEN free + 1 ELSE free
        /\ inbox' = [inbox EXCEPT ![Leader] = Tail(@)]
        /\ UNCHANGED <<ring, own, failed>>
     \/ /\ prod[Leader] \in {"finishing", "failing"}
        /\ prod' = [prod EXCEPT ![Leader] = "gone"]
        /\ Release("B", {Leader})
        /\ failed' = failed \cup {"query"}
        /\ UNCHANGED free
  /\ UNCHANGED <<total, filled, threadVars, streamVars>>

\* BackendProducerRole::step with a permit and a page in hand: the source
\* fills the page, or is at its end, or fails.  Without a permit the step is
\* Blocked and the producer waits.
FillPage(p) ==
  /\ prod[p] = "stream" /\ free > 0 /\ filled[p] < total[p]
  /\ free' = free - 1
  /\ filled' = [filled EXCEPT ![p] = @ + 1]
  /\ prod' = [prod EXCEPT ![p] = "pending"]
  /\ UNCHANGED <<total, slotVars, threadVars, streamVars, failed>>

ProducerEof(p) ==
  /\ prod[p] = "stream" /\ free > 0 /\ filled[p] = total[p]
  /\ prod' = [prod EXCEPT ![p] = "finishing"]
  /\ UNCHANGED <<total, filled, slotVars, free, threadVars, streamVars, failed>>

ProducerError(p) ==
  /\ prod[p] = "stream" /\ free > 0
  /\ prod' = [prod EXCEPT ![p] = "failing"]
  /\ failed' = failed \cup {"source"}
  /\ UNCHANGED <<total, filled, slotVars, free, threadVars, streamVars>>

\* The page frame is published.  A full ring keeps the same page pending; it
\* is offered again until it fits, and only then marked sent.
SendPage(p) ==
  /\ prod[p] = "pending" /\ Len(ring[p]) < RingCap
  /\ ring' = [ring EXCEPT ![p] = Append(@, PageFrame(filled[p]))]
  /\ prod' = [prod EXCEPT ![p] = "stream"]
  /\ UNCHANGED <<total, filled, inbox, own, free, threadVars, streamVars, failed>>

Terminal(p) == IF prod[p] = "finishing" THEN ScanFinished ELSE ScanFailed

\* The terminal frame is published, with the same patience.  A standalone
\* producer then waits for the worker to let go of the slot.
SendTerminal(p) ==
  /\ prod[p] \in {"finishing", "failing"} /\ Len(ring[p]) < RingCap
  /\ ring' = [ring EXCEPT ![p] = Append(@, Terminal(p))]
  /\ prod' = [prod EXCEPT ![p] = IF p = Leader THEN "done" ELSE "drain"]
  /\ UNCHANGED <<total, filled, inbox, own, free, threadVars, streamVars, failed>>

WorkerDetached(p) ==
  /\ prod[p] = "drain" /\ "W" \notin own[p]
  /\ prod' = [prod EXCEPT ![p] = "gone"]
  /\ Release("B", {p})
  /\ UNCHANGED <<total, filled, free, threadVars, streamVars, failed>>

DrainTimeout(p) ==
  /\ prod[p] = "drain" /\ "W" \in own[p]
  /\ prod' = [prod EXCEPT ![p] = "gone"]
  /\ Release("B", {p})
  /\ failed' = failed \cup {"timer"}
  /\ UNCHANGED <<total, filled, free, threadVars, streamVars>>

\* The query ends at the leader: the worker has reported completion or
\* failure, or the user cancels.  The drivers are dropped and the leader's
\* scan leases released.  Nothing reaches the standalone producers.
LeaderEnds ==
  /\ prod[Leader] # "gone"
  /\ prod' = [prod EXCEPT ![Leader] = "gone"]
  /\ free' = IF prod[Leader] = "pending" THEN free + 1 ELSE free
  /\ Release("B", {Leader})
  /\ failed' = IF consumer \in {"reading", "holding"} THEN failed \cup {"query"} ELSE failed
  /\ UNCHANGED <<total, filled, threadVars, streamVars>>

-----------------------------------------------------------------------------
(***************************************************************************)
(* The worker's scan thread                                                *)
(***************************************************************************)
\* DataFusion executes the scan node: a thread and a stream come to life.
OpenScanStream ==
  /\ wpc = "idle"
  /\ wpc' = "attach" /\ cur' = 0
  /\ UNCHANGED <<producerVars, slotVars, free, hand, seen, streamVars, failed>>

\* An error inside the thread: the slots are dropped, then the error is sent.
ThreadFails(why) ==
  /\ wpc' = "raise"
  /\ Release("W", Producers)
  /\ failed' = failed \cup why

\* A slot is claimed through its producer's lease, which must still be live.
AttachSlot ==
  /\ wpc = "attach" /\ cur <= Standalone
  /\ IF "B" \in own[cur]
     THEN /\ own' = [own EXCEPT ![cur] = @ \cup {"W"}]
          /\ cur' = (cur + 1) % (Standalone + 1)
          /\ wpc' = IF cur = Standalone THEN "open" ELSE "attach"
          /\ UNCHANGED <<ring, inbox, failed>>
     ELSE ThreadFails({}) /\ UNCHANGED cur
  /\ UNCHANGED <<producerVars, free, hand, seen, streamVars>>

SendOpenScan ==
  /\ wpc = "open"
  /\ IF "B" \in own[cur] /\ Len(inbox[cur]) < InboxCap
     THEN /\ inbox' = [inbox EXCEPT ![cur] = Append(@, "OpenScan")]
          /\ cur' = cur + 1
          /\ wpc' = IF cur = Standalone THEN "top" ELSE "open"
          /\ UNCHANGED <<ring, own, failed>>
     ELSE ThreadFails({}) /\ UNCHANGED cur
  /\ UNCHANGED <<producerVars, free, hand, seen, streamVars>>

\* Head of the receive loop: the stop flag, then a new pass over the slots.
BeginPass ==
  /\ wpc = "top"
  /\ cur' = 0
  /\ wpc' = IF stop THEN "cancel" ELSE "recv"
  /\ UNCHANGED <<producerVars, slotVars, free, hand, seen, streamVars, failed>>

NextSlot ==
  /\ cur' = cur + 1
  /\ wpc' = IF cur = Standalone THEN "top" ELSE "recv"

RecvNothing ==
  /\ wpc = "recv" /\ "B" \in own[cur] /\ ring[cur] = <<>>
  /\ NextSlot
  /\ UNCHANGED <<producerVars, slotVars, free, hand, seen, streamVars, failed>>

\* Reading is refused once the producer has released its side of the lease.
RecvRefused ==
  /\ wpc = "recv" /\ "B" \notin own[cur]
  /\ ThreadFails({})
  /\ UNCHANGED <<producerVars, free, cur, hand, seen, streamVars>>

\* The next frame of the producer the pass has come to.  A producer publishes
\* one terminal frame and nothing after it, so that a frame of a producer the
\* role holds for terminal does not occur.
Received(kind) ==
  /\ wpc = "recv" /\ "B" \in own[cur]
  /\ ring[cur] # <<>> /\ Head(ring[cur]).kind = kind

Consumed == [ring EXCEPT ![cur] = Tail(@)]

\* accept_page_frame: a page of an active producer becomes an Arrow batch.
AcceptPageFrame ==
  /\ Received("page") /\ seen[cur] = "Active"
  /\ ring' = Consumed
  /\ hand' = Batch(cur, Head(ring[cur]).n)
  /\ wpc' = "push"
  /\ UNCHANGED <<producerVars, inbox, own, free, cur, seen, streamVars, failed>>

\* A page that cannot be accepted (its producer is already terminal) or
\* imported is released and ends the thread.
RejectPageFrame ==
  /\ Received("page")
  /\ free' = free + 1
  /\ ReleaseAfter(Consumed, "W", Producers)
  /\ wpc' = "raise" /\ failed' = failed \cup {"import"}
  /\ UNCHANGED <<producerVars, cur, hand, seen, streamVars>>

EofSeen == [seen EXCEPT ![cur] = "Eof"]

\* A fan-in that takes the first producer's end for the end of the scan.
AcceptProducerEofFirst ==
  /\ Received("finished") /\ seen[cur] = "Active"
  /\ seen' = [p \in Producers |-> "Eof"]
  /\ wpc' = "ended"
  /\ ReleaseAfter(Consumed, "W", Producers)
  /\ UNCHANGED <<producerVars, free, cur, hand, streamVars, failed>>

\* accept_producer_eof: the logical end of the scan is the end of every
\* declared producer; the thread then closes the role and detaches.
AcceptProducerEof ==
  /\ Received("finished") /\ seen[cur] = "Active"
  /\ seen' = EofSeen
  /\ \/ /\ \A p \in Producers : EofSeen[p] = "Eof"
        /\ wpc' = "ended"
        /\ ReleaseAfter(Consumed, "W", Producers)
        /\ UNCHANGED cur
     \/ /\ \E p \in Producers : EofSeen[p] # "Eof"
        /\ NextSlot
        /\ ring' = Consumed
        /\ UNCHANGED <<inbox, own>>
  /\ UNCHANGED <<producerVars, free, hand, streamVars, failed>>

\* accept_producer_error: the first error fails the whole scan.
AcceptProducerError ==
  /\ Received("failed") /\ seen[cur] = "Active"
  /\ seen' = [seen EXCEPT ![cur] = "Failed"]
  /\ wpc' = "logical"
  /\ ring' = Consumed
  /\ UNCHANGED <<producerVars, inbox, own, free, cur, hand, streamVars, failed>>

StreamAlive == consumer \in {"reading", "holding"}

\* forward_driver_step with a batch: it waits for room on the channel; a
\* stream that is gone refuses the batch, which raises the stop flag.
PushBatch ==
  /\ wpc = "push"
  /\ \/ /\ StreamAlive /\ Len(chan) < ChanCap
        /\ chan' = Append(chan, hand)
        /\ UNCHANGED <<free, stop>>
     \/ /\ ~StreamAlive
        /\ free' = free + 1 /\ stop' = TRUE
        /\ UNCHANGED chan
  /\ hand' = ErrorItem
  /\ NextSlot
  /\ UNCHANGED <<producerVars, slotVars, seen, consumer, taken, failed>>

\* ... and with a logical error, sent before the slots are dropped.
PushLogicalError ==
  /\ wpc = "logical"
  /\ \/ StreamAlive /\ Len(chan) < ChanCap /\ chan' = Append(chan, ErrorItem)
     \/ ~StreamAlive /\ UNCHANGED chan
  /\ wpc' = "ended"
  /\ Release("W", Producers)
  /\ UNCHANGED <<producerVars, free, cur, hand, seen, stop, consumer, taken, failed>>

RaiseError ==
  /\ wpc = "raise"
  /\ \/ StreamAlive /\ Len(chan) < ChanCap /\ chan' = Append(chan, ErrorItem)
     \/ ~StreamAlive /\ UNCHANGED chan
  /\ wpc' = "ended"
  /\ UNCHANGED <<producerVars, slotVars, free, cur, hand, seen, stop, consumer, taken, failed>>

\* Teardown without a terminal outcome: CancelScan to every producer, errors
\* ignored, then the role is aborted and the slots dropped.
SendCancelScan ==
  /\ wpc = "cancel" /\ cur <= Standalone
  /\ IF "B" \in own[cur] /\ Len(inbox[cur]) < InboxCap
     THEN inbox' = [inbox EXCEPT ![cur] = Append(@, "CancelScan")]
     ELSE UNCHANGED inbox
  /\ cur' = cur + 1
  /\ UNCHANGED <<producerVars, ring, own, free, wpc, hand, seen, streamVars, failed>>

Teardown ==
  /\ wpc = "cancel" /\ cur = Standalone + 1
  /\ wpc' = "ended"
  /\ Release("W", Producers)
  /\ UNCHANGED <<producerVars, free, cur, hand, seen, streamVars, failed>>

-----------------------------------------------------------------------------
(***************************************************************************)
(* DataFusion's side of the stream                                         *)
(***************************************************************************)
BatchesIn(s) == Len(SelectSeq(s, LAMBDA i : i # ErrorItem))

\* The stream is dropped: its channel with everything on it, and the stop
\* flag is raised for the thread.
DropStream(result) ==
  /\ consumer' = result
  /\ stop' = TRUE
  /\ free' = free + BatchesIn(chan)
  /\ chan' = <<>>
  /\ UNCHANGED <<producerVars, slotVars, threadVars, taken, failed>>

PollBatch ==
  /\ consumer = "reading" /\ chan # <<>> /\ Head(chan) # ErrorItem
  /\ chan' = Tail(chan)
  /\ taken' = [taken EXCEPT ![Head(chan).from] = Append(@, Head(chan).n)]
  /\ consumer' = "holding"
  /\ UNCHANGED <<producerVars, slotVars, free, threadVars, stop, failed>>

\* The last Arrow owner of the batch drops it and its page goes back.
DropBatch ==
  /\ consumer = "holding"
  /\ consumer' = "reading" /\ free' = free + 1
  /\ UNCHANGED <<producerVars, slotVars, threadVars, chan, stop, taken, failed>>

PollError ==
  /\ consumer = "reading" /\ chan # <<>> /\ Head(chan) = ErrorItem
  /\ DropStream("error")

PollEnd ==
  /\ consumer = "reading" /\ chan = <<>> /\ wpc = "ended"
  /\ DropStream("eof")

\* A LIMIT is satisfied, or the query fails elsewhere.
Abandon ==
  /\ consumer = "reading" /\ wpc # "idle"
  /\ DropStream("dropped")

-----------------------------------------------------------------------------
ProducerStep(p) ==
  \/ AcceptOpenScan(p) \/ OpenSourceFails(p)
  \/ FillPage(p) \/ ProducerEof(p) \/ ProducerError(p)
  \/ SendPage(p) \/ SendTerminal(p) \/ WorkerDetached(p)

Deadline(p) == OpenScanTimeout(p) \/ DrainTimeout(p)

ThreadStep ==
  \/ AttachSlot \/ SendOpenScan \/ BeginPass \/ RecvNothing \/ RecvRefused
  \/ AcceptPageFrame \/ RejectPageFrame \/ AcceptProducerEof \/ AcceptProducerError
  \/ PushBatch \/ PushLogicalError \/ RaiseError \/ SendCancelScan \/ Teardown

StreamStep == PollBatch \/ DropBatch \/ PollError \/ PollEnd

Next ==
  \/ \E p \in Producers : ProducerStep(p) \/ Deadline(p)
  \/ LeaderCancelScan \/ LeaderEnds
  \/ OpenScanStream \/ ThreadStep
  \/ StreamStep \/ Abandon

Spec == Init /\ [][Next]_vars

(***************************************************************************)
(* Fairness: every producer is a scheduled process whose loop keeps        *)
(* turning, the leader keeps polling because PostgreSQL keeps calling its  *)
(* executor node until the query is over and ends the node afterwards, the *)
(* scan thread runs, and DataFusion keeps polling a stream it has not      *)
(* dropped.  Opening the scan, cancelling the query and dropping the       *)
(* stream are choices nobody is obliged to make.  Deadlines may expire at  *)
(* any time, and need not: progress must not come from giving up.          *)
(***************************************************************************)
Fairness ==
  /\ \A p \in Producers : WF_vars(ProducerStep(p))
  /\ WF_vars(LeaderCancelScan)
  /\ WF_vars(LeaderEnds /\ ~StreamAlive)
  /\ WF_vars(ThreadStep)
  /\ WF_vars(StreamStep)

FairSpec == Spec /\ Fairness

-----------------------------------------------------------------------------
(***************************************************************************)
(* Properties                                                              *)
(***************************************************************************)
\* Each producer's pages arrive in the order it encoded them, without gaps or
\* repetitions, also when a full ring made it offer a page several times; and
\* the stream ends without an error only when every declared producer has
\* finished and DataFusion has received every page of every block range: a
\* scan is never silently cut short, whatever the producers, the full rings
\* and the exhausted pool do.
StreamIsTheWholeScan ==
  /\ \A p \in Producers : taken[p] = [i \in 1..Len(taken[p]) |-> i]
  /\ consumer = "eof" =>
       \A p \in Producers : seen[p] = "Eof" /\ Len(taken[p]) = total[p]

\* DataFusion sees an error only if something failed: a source, an import, a
\* deadline or the query itself.  In particular a producer that finishes does
\* not pull its slot from under the worker before its last frame is read.
ErrorsHaveACause ==
  consumer = "error" => failed # {}

\* Every page out of the pool is in exactly one place, or was in a ring that
\* has been cleared; none is given back twice.
Held(p) == IF prod[p] = "pending" THEN 1 ELSE 0
PagesIn(s) == Len(SelectSeq(s, LAMBDA f : f.kind = "page"))
LivePages ==
  FoldFunction(LAMBDA n, acc : n + acc, 0, [p \in Producers |-> Held(p) + PagesIn(ring[p])])
    + BatchesIn(chan)
    + (IF hand # ErrorItem THEN 1 ELSE 0)
    + (IF consumer = "holding" THEN 1 ELSE 0)
PagesAccounted == free + LivePages <= Permits

\* A scan that was opened comes to an end for DataFusion, and its thread to
\* its own end: nobody waits for a page, a permit, a ring or a channel that
\* the others will never free.
Closed == wpc = "idle" \/ (~StreamAlive /\ wpc = "ended")

======================================================================
