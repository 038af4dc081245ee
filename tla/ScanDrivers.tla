---------------------------- MODULE ScanDrivers ----------------------------
(***************************************************************************)
(* The scans of one query at its backend: src/pg/backend_service/src/lib.rs*)
(* (ActiveScanDriver, open_scan, step_scan_with_driver, cleanup_execution) *)
(* under the executor loop of src/pg/extension/src/custom_scan.rs.         *)
(*                                                                         *)
(* The loop polls the primary peer, every scan peer and every driver in    *)
(* turn.  A driver is a handle to a stream of ACTIVE_EXECUTION; dropping   *)
(* one that still streams cancels the whole execution.  A full ring makes  *)
(* a driver keep its page or its terminal step for the next turn.  The     *)
(* worker answers on three kinds of rings that nothing orders: the primary *)
(* slot, and one slot for each scan.                                       *)
(*                                                                         *)
(* The module starts when the plan has been published, with every scan     *)
(* prepared and the worker about to execute it.  Fan-in of several         *)
(* producers is in ScanFanIn, result pages are in ExecutionControl.        *)
(***************************************************************************)
EXTENDS Integers, Sequences, FiniteSetsExt, SequencesExt

CONSTANTS
    Scans,      \* scan ids, in the order of the BTreeMap: 1..n
    Permits,    \* issuance permits the scans share
    MaxPages,   \* bound: pages of a scan
    RingFrames, \* frames a ring holds
    ChanCap     \* batches the channel of a scan stream holds

VARIABLES
    exec,       \* ACTIVE_EXECUTION: "Running" or "none"
    entry,      \* ScanEntryState of each prepared scan
    streams,    \* keys of active_scans
    filled,     \* pages each scan has produced
    driver,     \* active_drivers of the host, with their deferred steps
    pc,         \* where exec_pg_fusion_scan's loop is
    todo,       \* the scans its pass has still to visit
    pending,    \* pending_complete_session_epoch, and ResultIngress::is_complete
    toWorker, toBackend,    \* the rings of each scan's slot
    leased,     \* scans whose leader_lease is alive
    primary,    \* frames for the backend on the primary slot
    free,       \* free permits
    thread,     \* the worker's scan threads
    chan,       \* pages on the channels from the threads to DataFusion
    query,      \* the worker's execution
    ended,      \* history: how ACTIVE_EXECUTION ended
    broke,      \* history: scans whose source failed
    why         \* history: what made the loop raise an error

hostVars == <<driver, pc, todo, pending>>
serviceVars == <<exec, entry, streams, filled, leased, free, ended, broke>>
ringVars == <<toWorker, toBackend, primary>>
workerVars == <<thread, chan, query>>
vars == <<hostVars, serviceVars, ringVars, workerVars, why>>

NoDriver == [state |-> "none", step |-> "none"]
Streaming == [state |-> "Streaming", step |-> "none"]
Drivers == {s \in Scans : driver[s] # NoDriver}

TypeOK ==
    /\ exec \in {"Running", "none"}
    /\ entry \in [Scans -> {"Prepared", "Streaming", "Finished", "Cancelled"}]
    /\ streams \subseteq Scans /\ leased \subseteq Scans /\ broke \subseteq Scans
    /\ filled \in [Scans -> 0..MaxPages]
    /\ driver \in [Scans -> [state : {"none", "Streaming", "AwaitingExecutionTerminal", "Released"},
                             step : {"none", "page", "finished", "failed"}]]
    /\ pc \in {"primary", "peers", "drive", "settle", "eof", "error", "ended"}
    /\ todo \in [1..Len(todo) -> Scans]
    /\ pending \in {"none", "complete", "flushed"}
    /\ \A s \in Scans : /\ toWorker[s] \in Seq({"page", "finished", "failed"})
                        /\ toBackend[s] \in Seq({"OpenScan", "CancelScan"})
                        /\ Len(toWorker[s]) <= RingFrames
    /\ primary \in Seq({"CompleteExecution", "FailExecution"})
    /\ free \in 0..Permits
    /\ thread \in [Scans -> {"start", "recv", "eof", "failed", "lost", "cancelled"}]
    /\ chan \in [Scans -> 0..ChanCap]
    /\ query \in {"running", "completed", "failed"}
    /\ ended \in {"no", "CompleteExecution", "FailExecution", "CancelExecution"}
    /\ why \in {"none", "worker", "interrupt", "late_open", "late_cancel", "no_execution"}

InOrder(S) == [i \in 1..Cardinality(S) |-> CHOOSE s \in S : Cardinality({t \in S : t <= s}) = i]

\* begin_prepared_execution has installed the execution with one prepared scan
\* and one leased slot for each spec, and the plan has been published.
Init ==
    /\ exec = "Running" /\ ended = "no" /\ broke = {}
    /\ entry = [s \in Scans |-> "Prepared"]
    /\ streams = {} /\ leased = Scans
    /\ filled = [s \in Scans |-> 0]
    /\ driver = [s \in Scans |-> NoDriver]
    /\ pc = "primary" /\ todo = <<>> /\ pending = "none"
    /\ toWorker = [s \in Scans |-> <<>>] /\ toBackend = [s \in Scans |-> <<>>]
    /\ primary = <<>> /\ free = Permits
    /\ thread = [s \in Scans |-> "start"] /\ query = "running"
    /\ chan = [s \in Scans |-> 0]
    /\ why = "none"

-----------------------------------------------------------------------------
(***************************************************************************)
(* The execution                                                           *)
(***************************************************************************)
IsTerminal(state) == state \in {"Finished", "Cancelled"}
UnfinishedScans == {s \in Scans : ~IsTerminal(entry[s])}

\* mark_scan_terminal keeps the lease, for the terminal frame still to be sent.
MarkScanTerminal(s, state) == entry' = [entry EXCEPT ![s] = state]

\* finalize_detached_scan: producer and coordinator are closed.
FinalizeScan(s) == streams' = streams \ {s} /\ MarkScanTerminal(s, "Finished")

\* cancel_detached_scan: they are aborted.
CancelStream(s) == streams' = streams \ {s} /\ MarkScanTerminal(s, "Cancelled")

DeferredPages(S) == Cardinality({s \in S : driver[s].step = "page"})

\* cleanup_execution: the streams are aborted and their scans cancelled, the
\* scan leases released, and ACTIVE_EXECUTION is empty.  A page that waits in
\* a driver stays with the driver.
CleanupExecution(event) ==
    /\ exec' = "none" /\ ended' = event
    /\ entry' = [s \in Scans |-> IF s \in streams THEN "Cancelled" ELSE entry[s]]
    /\ streams' = {} /\ leased' = {}

StillStreams(s) == driver[s].state = "Streaming"

\* Drop for ActiveScanDriver: does dropping the drivers of S end the execution?
\* The first one that still streams cancels it, the others find none.
DropTearsDownNothing(S) == FALSE

DropTearsDown(S) == exec = "Running" /\ \E s \in S : StillStreams(s)

\* The host raises an error: the executor node is left as it is.
Raise(cause) == pc' = "error" /\ why' = cause

-----------------------------------------------------------------------------
(***************************************************************************)
(* poll_primary_peer                                                       *)
(***************************************************************************)
HandleComplete ==
    /\ pc = "primary" /\ primary # <<>> /\ Head(primary) = "CompleteExecution"
    /\ primary' = Tail(primary)
    /\ pending' = "complete"
    /\ UNCHANGED <<driver, pc, todo, serviceVars, toWorker, toBackend, workerVars, why>>

\* FailExecution ends the execution if there still is one, drops the drivers
\* and leaves the message for exec_pg_fusion_scan to raise.
HandleFail ==
    /\ pc = "primary" /\ primary # <<>> /\ Head(primary) = "FailExecution"
    /\ primary' = Tail(primary)
    /\ IF exec = "Running" THEN CleanupExecution("FailExecution")
                           ELSE UNCHANGED <<exec, ended, entry, streams, leased>>
    /\ free' = free + DeferredPages(Scans)
    /\ driver' = [s \in Scans |-> NoDriver]
    /\ pending' = "none"
    /\ Raise("worker")
    /\ UNCHANGED <<todo, filled, broke, toWorker, toBackend, workerVars>>

PrimaryDrained ==
    /\ pc = "primary" /\ primary = <<>>
    /\ pc' = "peers"
    /\ todo' = IF exec = "Running" THEN InOrder(Scans) ELSE <<>>
    /\ UNCHANGED <<driver, pending, serviceVars, ringVars, workerVars, why>>

-----------------------------------------------------------------------------
(***************************************************************************)
(* poll_scan_peers                                                         *)
(***************************************************************************)
Peer == Head(todo)
PeerFrame(f) == pc = "peers" /\ todo # <<>> /\ toBackend[Peer] # <<>> /\ Head(toBackend[Peer]) = f
TakePeerFrame == toBackend' = [toBackend EXCEPT ![Peer] = Tail(@)]

PeerDrained ==
    /\ pc = "peers" /\ todo # <<>> /\ toBackend[Peer] = <<>>
    /\ todo' = Tail(todo)
    /\ UNCHANGED <<driver, pc, pending, serviceVars, ringVars, workerVars, why>>

\* open_scan of a prepared scan: the stream and its driver.  The descriptor
\* the worker sends is the one the backend published with StartExecution, and
\* a thread opens its scan once.
OpenScan ==
    /\ PeerFrame("OpenScan") /\ entry[Peer] = "Prepared"
    /\ TakePeerFrame
    /\ entry' = [entry EXCEPT ![Peer] = "Streaming"]
    /\ streams' = streams \cup {Peer}
    /\ driver' = [driver EXCEPT ![Peer] = Streaming]
    /\ UNCHANGED <<pc, todo, pending, exec, filled, leased, free, ended, broke, toWorker, primary, workerVars, why>>

\* CancelScan removes the driver.  A streaming one aborts its stream; one that
\* waits to publish its terminal step refuses, which fails the query; and a
\* scan without a driver is not looked at.
CancelScan ==
    /\ PeerFrame("CancelScan")
    /\ TakePeerFrame
    /\ driver' = [driver EXCEPT ![Peer] = NoDriver]
    /\ free' = free + DeferredPages({Peer})
    /\ \/ /\ StillStreams(Peer)
          /\ CancelStream(Peer)
          /\ UNCHANGED <<pc, why>>
       \/ /\ driver[Peer].state \in {"AwaitingExecutionTerminal", "Released"}
          /\ Raise("late_cancel")
          /\ UNCHANGED <<entry, streams>>
       \/ /\ driver[Peer] = NoDriver
          /\ UNCHANGED <<pc, entry, streams, why>>
    /\ UNCHANGED <<todo, pending, exec, filled, leased, ended, broke, toWorker, primary, workerVars>>

PeersDrained ==
    /\ pc = "peers" /\ todo = <<>>
    /\ pc' = "drive" /\ todo' = InOrder(Drivers)
    /\ UNCHANGED <<driver, pending, serviceVars, ringVars, workerVars, why>>

-----------------------------------------------------------------------------
(***************************************************************************)
(* drive_active_scans                                                      *)
(***************************************************************************)
Driven == Head(todo)
Driving == pc = "drive" /\ todo # <<>>
RingFull(s) == Len(toWorker[s]) >= RingFrames
Send(s, f) == toWorker' = [toWorker EXCEPT ![s] = Append(@, f)]

\* A scan whose driver went with another one's failure.
DriverGone ==
    /\ Driving /\ driver[Driven] = NoDriver
    /\ todo' = Tail(todo)
    /\ UNCHANGED <<driver, pc, pending, serviceVars, ringVars, workerVars, why>>

\* The step that waits in the driver is returned before any other.
Deferred(f) == driver[Driven].step = f

\* Nothing is deferred: the stream is detached and its producer stepped.
Steps == driver[Driven] = Streaming

\* Every outcome but a yield takes a permit; none is used up without a page.
Stepped == Steps /\ free > 0

\* defer_outbound_step and defer_terminal_step
DeferOutbound == driver' = [driver EXCEPT ![Driven].step = "page"]
DeferTerminal(state, f) == [state |-> state, step |-> f]

\* A page: from the source with a permit, or the deferred one.  It is sent and
\* marked sent, or kept for the next turn; the driver is put back either way.
StepPage ==
    /\ Driving
    /\ \/ Deferred("page") /\ UNCHANGED <<filled, free>>
       \/ /\ Stepped /\ filled[Driven] < MaxPages
          /\ filled' = [filled EXCEPT ![Driven] = @ + 1] /\ free' = free - 1
    /\ IF RingFull(Driven)
       THEN DeferOutbound /\ UNCHANGED toWorker
       ELSE /\ driver' = [driver EXCEPT ![Driven].step = "none"]
            /\ Send(Driven, "page")
    /\ todo' = Tail(todo)
    /\ UNCHANGED <<pc, pending, exec, entry, streams, leased, ended, broke, toBackend, primary, workerVars, why>>

\* No permit, and the bounded wait is over: YieldForControl.
StepYield ==
    /\ Driving /\ Steps /\ free = 0
    /\ todo' = Tail(todo)
    /\ UNCHANGED <<driver, pc, pending, serviceVars, ringVars, workerVars, why>>

\* The wait is interrupted, or the producer breaks its protocol: the execution
\* fails with every stream it has, and the error is raised.
StepRaises ==
    /\ Driving /\ Steps
    /\ CleanupExecution("FailExecution")
    /\ driver' = [driver EXCEPT ![Driven] = NoDriver]
    /\ Raise("interrupt")
    /\ UNCHANGED <<todo, pending, filled, free, broke, ringVars, workerVars>>

\* The state a driver keeps after ScanStreamStep::Finished.
AfterFinished(s) ==
    IF streams \ {s} = {} /\ UnfinishedScans \ {s} = {}
    THEN "AwaitingExecutionTerminal" ELSE "Released"

\* ScanFinished that does not fit is dropped with its driver.
StepFinishedUndeferred ==
    /\ Driving /\ Stepped
    /\ FinalizeScan(Driven)
    /\ driver' = [driver EXCEPT ![Driven] = NoDriver]
    /\ IF RingFull(Driven) THEN UNCHANGED toWorker ELSE Send(Driven, "finished")
    /\ todo' = Tail(todo)
    /\ UNCHANGED <<pc, pending, exec, leased, ended, broke, filled, free, toBackend, primary, workerVars, why>>

\* The source is at its end: the scan is finished, its stream gone, and
\* ScanFinished sent or kept for the next turn.
StepFinished ==
    /\ Driving
    /\ \/ Stepped /\ FinalizeScan(Driven)
       \/ Deferred("finished") /\ exec = "Running" /\ UNCHANGED <<entry, streams>>
    /\ IF RingFull(Driven)
       THEN /\ driver' = [driver EXCEPT ![Driven] =
                            DeferTerminal(IF Steps THEN AfterFinished(Driven) ELSE @.state, "finished")]
            /\ UNCHANGED toWorker
       ELSE /\ driver' = [driver EXCEPT ![Driven] = NoDriver]
            /\ Send(Driven, "finished")
    /\ todo' = Tail(todo)
    /\ UNCHANGED <<pc, pending, exec, leased, ended, broke, filled, free, toBackend, primary, workerVars, why>>

\* The source fails: its stream is aborted and ScanFailed sent or kept for the
\* next turn, and then every other driver is dropped.
StepFailed ==
    /\ Driving
    /\ \/ Stepped
       \/ Deferred("failed") /\ exec = "Running"
    /\ LET others == Drivers \ {Driven}
           torn == DropTearsDown(others)
           keeps == DeferTerminal("Released", "failed")
       IN /\ free' = free + DeferredPages(others)
          /\ IF torn
             THEN /\ exec' = "none" /\ ended' = "CancelExecution"
                  /\ streams' = {} /\ leased' = {}
             ELSE streams' = streams \ {Driven} /\ UNCHANGED <<exec, ended, leased>>
          /\ entry' = [s \in Scans |-> IF s = Driven \/ (torn /\ s \in streams)
                                       THEN "Cancelled" ELSE entry[s]]
          /\ driver' = [s \in Scans |-> IF s = Driven /\ RingFull(s) THEN keeps ELSE NoDriver]
    /\ IF RingFull(Driven) THEN UNCHANGED toWorker ELSE Send(Driven, "failed")
    /\ broke' = broke \cup {Driven}
    /\ todo' = Tail(todo)
    /\ UNCHANGED <<pc, pending, filled, toBackend, primary, workerVars, why>>

\* A deferred step whose execution has been torn down cannot be sent.
StepWithoutExecution ==
    /\ Driving /\ driver[Driven].step \in {"finished", "failed"} /\ exec = "none"
    /\ driver' = [driver EXCEPT ![Driven] = NoDriver]
    /\ Raise("no_execution")
    /\ UNCHANGED <<todo, pending, serviceVars, ringVars, workerVars>>

Drive ==
    \/ DriverGone \/ StepPage \/ StepYield \/ StepRaises
    \/ StepFinished \/ StepFailed \/ StepWithoutExecution

\* flush_pending_complete, when no driver is left: accept_complete_execution
\* insists on scans that are all finished or cancelled.
FlushPendingComplete ==
    /\ pc = "drive" /\ todo = <<>> /\ Drivers = {} /\ pending = "complete"
    /\ pending' = "flushed"
    /\ \/ /\ exec = "none"
          /\ pc' = "settle"
          /\ UNCHANGED <<exec, ended, entry, streams, leased, why>>
       \/ /\ exec = "Running" /\ UnfinishedScans # {}
          /\ Raise("late_open")
          /\ UNCHANGED <<exec, ended, entry, streams, leased>>
       \/ /\ exec = "Running" /\ UnfinishedScans = {}
          /\ pc' = "settle"
          /\ CleanupExecution("CompleteExecution")
          /\ UNCHANGED why
    /\ UNCHANGED <<driver, todo, filled, free, broke, ringVars, workerVars>>

\* EOF when the result is complete, drivers or not; otherwise the next turn.
TurnOver ==
    /\ \/ pc = "settle"
       \/ pc = "drive" /\ todo = <<>> /\ ~(Drivers = {} /\ pending = "complete")
    /\ pc' = IF pending = "none" THEN "primary" ELSE "eof"
    /\ UNCHANGED <<driver, todo, pending, serviceVars, ringVars, workerVars, why>>

\* end_pg_fusion_scan, after EOF or when the executor wants no more rows: the
\* execution is cancelled first, then the drivers are dropped.
EndScan ==
    /\ pc \in {"eof", "primary"}
    /\ pc' = "ended"
    /\ driver' = [s \in Scans |-> NoDriver]
    /\ free' = free + DeferredPages(Scans)
    /\ IF exec = "Running" THEN CleanupExecution("CancelExecution")
                           ELSE UNCHANGED <<exec, ended, entry, streams, leased>>
    /\ UNCHANGED <<todo, pending, filled, broke, ringVars, workerVars, why>>

-----------------------------------------------------------------------------
(***************************************************************************)
(* The worker: one thread for each scan, and the plan they feed            *)
(***************************************************************************)
ThreadOpens(s) ==
    /\ thread[s] = "start"
    /\ IF s \in leased
       THEN /\ toBackend' = [toBackend EXCEPT ![s] = Append(@, "OpenScan")]
            /\ thread' = [thread EXCEPT ![s] = "recv"]
       ELSE /\ thread' = [thread EXCEPT ![s] = "lost"]
            /\ UNCHANGED toBackend
    /\ UNCHANGED <<hostVars, serviceVars, toWorker, primary, chan, query, why>>

\* A frame of the scan.  The thread reads none while its channel is full; a
\* page stays leased for as long as its batch is on the channel.
ThreadReceives(s) ==
    /\ thread[s] = "recv" /\ query = "running" /\ s \in leased /\ toWorker[s] # <<>>
    /\ toWorker' = [toWorker EXCEPT ![s] = Tail(@)]
    /\ \/ /\ Head(toWorker[s]) = "page" /\ chan[s] < ChanCap
          /\ chan' = [chan EXCEPT ![s] = @ + 1] /\ UNCHANGED thread
       \/ /\ Head(toWorker[s]) = "finished"
          /\ thread' = [thread EXCEPT ![s] = "eof"] /\ UNCHANGED chan
       \/ /\ Head(toWorker[s]) = "failed"
          /\ thread' = [thread EXCEPT ![s] = "failed"] /\ UNCHANGED chan
    /\ UNCHANGED <<hostVars, serviceVars, toBackend, primary, query, why>>

Exhausted(s) == thread[s] = "eof" /\ chan[s] = 0

\* DataFusion polls the scans of a chain of hash joins: the build side to its
\* end before the probe side.  The batch is copied or streamed on, and its
\* page released.
PollBatch(s) ==
    /\ query = "running" /\ chan[s] > 0
    /\ \A t \in Scans : t < s => Exhausted(t)
    /\ chan' = [chan EXCEPT ![s] = @ - 1]
    /\ free' = free + 1
    /\ UNCHANGED <<hostVars, exec, entry, streams, filled, leased, ended, broke, ringVars, thread, query, why>>

\* The backend has released the slot: reading it is an error.
ThreadLosesPeer(s) ==
    /\ thread[s] = "recv" /\ s \notin leased
    /\ thread' = [thread EXCEPT ![s] = "lost"]
    /\ UNCHANGED <<hostVars, serviceVars, ringVars, chan, query, why>>

\* The stream has been dropped: CancelScan, if the backend still listens.
ThreadStops(s) ==
    /\ thread[s] = "recv" /\ query # "running"
    /\ thread' = [thread EXCEPT ![s] = "cancelled"]
    /\ toBackend' = IF s \in leased THEN [toBackend EXCEPT ![s] = Append(@, "CancelScan")]
                                    ELSE toBackend
    /\ UNCHANGED <<hostVars, serviceVars, toWorker, primary, chan, query, why>>

\* The streams of a plan that is over are dropped with what is on them.
DropStreams ==
    /\ free' = free + MapThenSumSet(LAMBDA s : chan[s], Scans)
    /\ chan' = [s \in Scans |-> 0]

\* The plan has all it needs, which may be less than its scans have to give.
QueryCompletes ==
    /\ query = "running" /\ \A s \in Scans : thread[s] \notin {"failed", "lost"}
    /\ query' = "completed"
    /\ primary' = Append(primary, "CompleteExecution")
    /\ DropStreams
    /\ UNCHANGED <<hostVars, exec, entry, streams, filled, leased, ended, broke, toWorker, toBackend, thread, why>>

QueryFails ==
    /\ query = "running"
    /\ query' = "failed"
    /\ primary' = Append(primary, "FailExecution")
    /\ DropStreams
    /\ UNCHANGED <<hostVars, exec, entry, streams, filled, leased, ended, broke, toWorker, toBackend, thread, why>>

-----------------------------------------------------------------------------
Turn ==
    \/ HandleComplete \/ HandleFail \/ PrimaryDrained
    \/ PeerDrained \/ OpenScan \/ CancelScan \/ PeersDrained
    \/ Drive \/ FlushPendingComplete \/ TurnOver

ThreadStep(s) == ThreadOpens(s) \/ ThreadReceives(s) \/ ThreadLosesPeer(s) \/ ThreadStops(s)

Next ==
    \/ Turn \/ EndScan
    \/ \E s \in Scans : ThreadStep(s) \/ PollBatch(s)
    \/ QueryCompletes \/ QueryFails

Spec == Init /\ [][Next]_vars

(***************************************************************************)
(* Fairness: PostgreSQL calls the executor node until it returns EOF, the  *)
(* scan threads run, and DataFusion polls a plan until it is complete or   *)
(* one of its inputs has failed.  A source has finitely many pages, so a   *)
(* driver with a permit comes to a terminal step.                          *)
(***************************************************************************)
Fairness ==
    /\ WF_vars(Turn)
    /\ \A s \in Scans : WF_vars(ThreadStep(s))
    /\ \A s \in Scans : WF_vars(PollBatch(s))
    /\ WF_vars(QueryCompletes /\ \A s \in Scans : Exhausted(s))
    /\ WF_vars(QueryFails /\ \E s \in Scans : thread[s] \in {"failed", "lost"})

FairSpec == Spec /\ Fairness

-----------------------------------------------------------------------------
(***************************************************************************)
(* Properties                                                              *)
(***************************************************************************)
\* Until an error leaves the node behind, a driver in the Streaming state has
\* its stream in the installed execution and every stream has its driver, so
\* that ActiveScanDriver::step never meets a missing execution or scan; a
\* driver past its stream is kept only for the terminal step it has still to
\* publish; and every permit is free, on a page in a ring or a channel or on a
\* page some driver has deferred, in whatever order drivers are dropped.
PagesIn(s) == Cardinality({i \in 1..Len(toWorker[s]) : toWorker[s][i] = "page"})
DriversDriveStreams ==
    /\ TypeOK
    /\ pc # "error" =>
         /\ streams = {s \in Scans : driver[s].state = "Streaming"}
         /\ streams = {s \in Scans : entry[s] = "Streaming"}
         /\ streams # {} => exec = "Running"
         /\ \A s \in Drivers \ streams : driver[s].step \in {"finished", "failed"}
         /\ free + DeferredPages(Scans) + MapThenSumSet(LAMBDA s : PagesIn(s) + chan[s], Scans) = Permits

\* accept_complete_execution ends an execution only when all its scans are over
\* and, unless one of them failed and took the other drivers with it, each was
\* cancelled by the worker or has its ScanFinished published: a terminal step
\* that did not fit its ring is not dropped with the execution.
CompletionKeepsItsScans ==
    ended = "CompleteExecution" =>
        \A s \in Scans :
            /\ IsTerminal(entry[s])
            /\ broke = {} =>
                 IF entry[s] = "Cancelled" THEN thread[s] = "cancelled"
                 ELSE thread[s] \in {"eof", "cancelled"} \/ "finished" \in Range(toWorker[s])

\* The executor node returns: whatever is deferred, cancelled or torn down, the
\* loop of exec_pg_fusion_scan comes to EOF or to an error.  There are two
\* exceptions.  A scan's deferred ScanFinished goes with its driver when another
\* scan fails: DataFusion may wait for its end and never read the failure.  And
\* the scans DataFusion does not poll yet may hold every permit, down to the
\* last: the one it polls then yields for ever, even if only its end is left.
EndForgotten == \E s \in Scans : /\ broke \ {s} # {} /\ entry[s] = "Finished" /\ driver[s] = NoDriver
                               /\ thread[s] = "recv" /\ "finished" \notin Range(toWorker[s])
Held(s) == PagesIn(s) + chan[s] + DeferredPages({s})
Starved == \E s \in streams : MapThenSumSet(Held, {t \in Scans : t > s}) = Permits
Returned == pc \in {"eof", "error", "ended"} \/ EndForgotten \/ Starved

======================================================================
