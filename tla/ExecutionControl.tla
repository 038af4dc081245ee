------------------------- MODULE ExecutionControl -------------------------
(***************************************************************************)
(* How a query runs between its backend and the one worker process, on the *)
(* primary control slots: src/pg/extension/src/custom_scan.rs and          *)
(* worker.rs, src/pg/backend_service, src/runtime/worker/src/runtime.rs.   *)
(*                                                                         *)
(* A backend leases a slot, installs its ACTIVE_EXECUTION, sends           *)
(* StartExecution and the pages of the plan, and then polls the slot for   *)
(* result pages and the terminal message.  The worker drains one ready     *)
(* slot at a time, and plans and executes a decoded plan before it polls   *)
(* again.  Every `?` of the worker's loop ends the process: its transport  *)
(* generation goes offline and is not started again.                       *)
(*                                                                         *)
(* The slots are those of control_transport, of which this module keeps    *)
(* what its users see: a lease is a slot with a fresh lease epoch, rings   *)
(* are emptied when a lease is granted, and an access through a lease that *)
(* is gone is an error.  The scans of a query have slots of their own and  *)
(* are modelled in ScanFanIn; here they are a cause of failures.           *)
(***************************************************************************)
EXTENDS Integers, Sequences, FiniteSetsExt

CONSTANTS
    Backends,       \* sessions
    Slots,          \* primary control slots
    Permits,        \* issuance permits, one for each page in flight
    RingFrames,     \* frames a ring holds
    PlanPages,      \* pages of an encoded plan
    ResultPages,    \* bound: result pages of a query
    MaxQueries      \* bound: queries of all sessions

VARIABLES
    host,       \* where each backend's custom scan node is
    epoch,      \* CURRENT_SESSION_EPOCH of each backend
    active,     \* state of its ACTIVE_EXECUTION
    toPublish,  \* frames begin_pg_fusion_scan has still to send
    ingress,    \* ResultIngress and pending_complete_session_epoch
    holder,     \* the backend that holds the lease of each slot
    lease,      \* its lease epoch
    toWorker, toBackend,    \* its rings
    permits,    \* free issuance permits
    wpc,        \* where the worker's loop is
    wstate,     \* WorkerExecutionState
    cur,        \* the peer whose ring the worker drains
    peer,       \* active_peer, with the session epoch it started
    latest,     \* latest_session
    planRx,     \* is plan ingress open?
    plan,       \* history: the queries the accepted plan frames came from
    sent,       \* result pages the running plan has sent
    outcome,    \* history: what became of each backend's latest query
    left        \* history: a backend gave up a query (error, closed cursor)

backend == <<host, epoch, active, toPublish, ingress>>
transport == <<holder, lease, toWorker, toBackend>>
worker == <<wpc, wstate, cur, peer, latest, planRx, plan, sent>>
history == <<outcome, left>>
vars == <<backend, transport, permits, worker, history>>

NoBackend == "none"
NoPeer == [slot |-> "none", lease |-> 0, epoch |-> 0]
Peers == [slot : Slots \cup {"none"}, lease : Nat, epoch : Nat]
NoPage == [query |-> <<>>, n |-> 0]
NewIngress ==
    [page |-> NoPage, closed |-> FALSE, completed |-> FALSE, got |-> <<>>]

\* A query is known by its session and epoch.  Result and plan frames carry no
\* epoch in the code: the query in them is history.
Query(b) == <<b, epoch[b]>>
Frame(kind, query, n) == [kind |-> kind, query |-> query, n |-> n]

PlanFrames(q) ==
    <<Frame("Start", q, 0)>>
    \o [i \in 1..PlanPages |-> Frame("PlanPage", q, i)]
    \o <<Frame("PlanClose", q, 0)>>

HeldBy(b) == {s \in Slots : holder[s] = b}

\* A slot returns to the freelist when both its owners have detached.
Free(s) == holder[s] = NoBackend /\ ~(wpc = "drain" /\ cur.slot = s)

Online == wpc # "exited"

\* validate_worker_slot_access, claim_worker_slot_for_backend_lease
LeaseIsLive(p) == holder[p.slot] # NoBackend /\ lease[p.slot] = p.lease

\* The slot of the query that backend b is executing: its newest lease.  A
\* backend whose earlier query failed may hold older ones.
ControlLease(b) ==
    CHOOSE s \in HeldBy(b) : \A t \in HeldBy(b) : lease[t] <= lease[s]

TypeOK ==
    /\ host \in [Backends -> {"idle", "starting", "exec", "eof"}]
    /\ epoch \in [Backends -> 0..MaxQueries]
    /\ active \in [Backends -> {"none", "Starting", "Running"}]
    /\ \A b \in Backends :
        /\ toPublish[b] # <<>> => host[b] = "starting"
        /\ host[b] # "idle" => HeldBy(b) # {}
        /\ ingress[b].page # NoPage => ingress[b].page.n \in 1..ResultPages
    /\ holder \in [Slots -> Backends \cup {NoBackend}]
    /\ \A s \in Slots :
        Len(toWorker[s]) <= RingFrames /\ Len(toBackend[s]) <= RingFrames
    /\ permits \in 0..Permits
    /\ wpc \in {"poll", "claim", "drain", "plan", "exec", "fail", "closed",
                "exited"}
    /\ wstate \in {"Idle", "ReceivingPlan", "Planning", "Running", "Terminal"}
    /\ cur \in Peers /\ peer \in Peers /\ latest \in Peers
    /\ Online => (peer # NoPeer <=>
                    wstate \in {"ReceivingPlan", "Planning", "Running"})
    /\ planRx \in BOOLEAN /\ sent \in 0..ResultPages
    /\ outcome \in [Backends -> {"none", "failed", "reported", "completed"}]
    /\ left \in BOOLEAN

Init ==
    /\ host = [b \in Backends |-> "idle"]
    /\ epoch = [b \in Backends |-> 0]
    /\ active = [b \in Backends |-> "none"]
    /\ toPublish = [b \in Backends |-> <<>>]
    /\ ingress = [b \in Backends |-> NewIngress]
    /\ holder = [s \in Slots |-> NoBackend]
    /\ lease = [s \in Slots |-> 0]
    /\ toWorker = [s \in Slots |-> <<>>]
    /\ toBackend = [s \in Slots |-> <<>>]
    /\ permits = Permits
    /\ wpc = "poll" /\ wstate = "Idle"
    /\ cur = NoPeer /\ peer = NoPeer /\ latest = NoPeer
    /\ planRx = FALSE /\ plan = <<>> /\ sent = 0
    /\ outcome = [b \in Backends |-> "none"] /\ left = FALSE

-----------------------------------------------------------------------------
(* The backend: begin_pg_fusion_scan.                                      *)

\* next_lease_epoch
NextLease == 1 + Max({lease[t] : t \in Slots})

\* publish_backend_lease: a lease epoch no lease had before, and empty rings.
GrantUncleared(b, s) ==
    /\ Online /\ Free(s)
    /\ holder' = [holder EXCEPT ![s] = b]
    /\ lease' = [lease EXCEPT ![s] = NextLease]
    /\ UNCHANGED <<toWorker, toBackend>>
Grant(b, s) ==
    /\ Online /\ Free(s)
    /\ holder' = [holder EXCEPT ![s] = b]
    /\ lease' = [lease EXCEPT ![s] = NextLease]
    /\ toWorker' = [toWorker EXCEPT ![s] = <<>>]
    /\ toBackend' = [toBackend EXCEPT ![s] = <<>>]

\* The lease of the query goes back; frames in its rings are lost.
Release(b) ==
    /\ holder' = [holder EXCEPT ![ControlLease(b)] = NoBackend]
    /\ UNCHANGED <<lease, toWorker, toBackend>>

\* begin_prepared_execution; with an execution already active it is refused and
\* the lease it had taken is dropped again.
BeginQuery(b, s) ==
    /\ host[b] = "idle" /\ active[b] = "none" /\ NextLease <= MaxQueries
    /\ Grant(b, s)
    /\ epoch' = [epoch EXCEPT ![b] = @ + 1]
    /\ active' = [active EXCEPT ![b] = "Starting"]
    /\ toPublish' = [toPublish EXCEPT ![b] = PlanFrames(<<b, epoch[b] + 1>>)]
    /\ ingress' = [ingress EXCEPT ![b] = NewIngress]
    /\ outcome' = [outcome EXCEPT ![b] = "none"] /\ UNCHANGED left
    /\ host' = [host EXCEPT ![b] = "starting"]
    /\ UNCHANGED <<permits, worker>>

\* step_execution_start encodes the next page; without a permit it is Blocked.
HasNextFrame(b) ==
    /\ host[b] = "starting"
    /\ Head(toPublish[b]).kind = "PlanPage" => permits > 0

\* send_backend_execution, publish_plan_to_worker.  After the close frame comes
\* finalize_execution_start, and the node is ready to be executed.
PublishFrame(b) ==
    LET s == ControlLease(b)
        f == Head(toPublish[b])
    IN  /\ HasNextFrame(b) /\ Online /\ Len(toWorker[s]) < RingFrames
        /\ toWorker' = [toWorker EXCEPT ![s] = Append(@, f)]
        /\ toPublish' = [toPublish EXCEPT ![b] = Tail(@)]
        /\ permits' = IF f.kind = "PlanPage" THEN permits - 1 ELSE permits
        /\ IF f.kind = "PlanClose"
           THEN /\ active' = [active EXCEPT ![b] = "Running"]
                /\ host' = [host EXCEPT ![b] = "exec"]
           ELSE UNCHANGED <<active, host>>
        /\ UNCHANGED <<epoch, ingress, holder, lease, toBackend, worker,
                       history>>

\* A full ring, a worker that is gone or a plan that cannot be encoded:
\* abort_execution_start, and the error unwinds the lease.
AbortStart(b) ==
    /\ HasNextFrame(b)
    /\ \/ ~Online \/ Len(toWorker[ControlLease(b)]) = RingFrames
       \/ Head(toPublish[b]).kind # "Start"
    /\ active' = [active EXCEPT ![b] = "none"]
    /\ toPublish' = [toPublish EXCEPT ![b] = <<>>]
    /\ host' = [host EXCEPT ![b] = "idle"]
    /\ Release(b)
    /\ left' = (left \/ Online)
    /\ UNCHANGED <<epoch, ingress, permits, worker, outcome>>

\* An interrupt in the wait of a Blocked publication unwinds the lease but
\* leaves ACTIVE_EXECUTION.
InterruptStart(b) ==
    /\ host[b] = "starting" /\ ~HasNextFrame(b)
    /\ toPublish' = [toPublish EXCEPT ![b] = <<>>]
    /\ host' = [host EXCEPT ![b] = "idle"]
    /\ Release(b)
    /\ left' = TRUE
    /\ UNCHANGED <<epoch, active, ingress, permits, worker, outcome>>

-----------------------------------------------------------------------------
(* The backend: exec_pg_fusion_scan and end_pg_fusion_scan.                *)

\* poll_primary_peer takes the next frame; it runs only when store_next_into
\* has used up the page before.
Polls(b) == host[b] = "exec" /\ ingress[b].page = NoPage
NextFrame(b) == Head(toBackend[ControlLease(b)])
Inbound(b, kind) ==
    /\ Polls(b) /\ Online /\ toBackend[ControlLease(b)] # <<>>
    /\ NextFrame(b).kind = kind
    /\ toBackend' = [toBackend EXCEPT ![ControlLease(b)] = Tail(@)]

AcceptResultPage(b) ==
    /\ Inbound(b, "Page")
    /\ ingress' = [ingress EXCEPT
                    ![b].page = [query |-> NextFrame(b).query,
                                 n |-> NextFrame(b).n],
                    ![b].got = Append(@, <<NextFrame(b).query, NextFrame(b).n>>)]
    /\ UNCHANGED <<host, epoch, active, toPublish, holder, lease, toWorker,
                   permits, worker, history>>

\* store_next_into returns the last row of the page and releases it.
FinishPage(b) ==
    /\ host[b] = "exec" /\ ingress[b].page # NoPage
    /\ ingress' = [ingress EXCEPT ![b].page = NoPage]
    /\ permits' = permits + 1
    /\ UNCHANGED <<host, epoch, active, toPublish, transport, worker, history>>

AcceptResultClose(b) ==
    /\ Inbound(b, "Close")
    /\ ingress' = [ingress EXCEPT ![b].closed = TRUE]
    /\ UNCHANGED <<host, epoch, active, toPublish, holder, lease, toWorker,
                   permits, worker, history>>

\* handle_primary_control: the ingress is marked whatever epoch the message has.
HandleComplete(b) ==
    /\ Inbound(b, "Complete")
    /\ ingress' = [ingress EXCEPT ![b].completed = TRUE]
    /\ UNCHANGED <<host, epoch, active, toPublish, holder, lease, toWorker,
                   permits, worker, history>>

\* An error raised out of the node ends the query; its ingress is not dropped
\* but out of reach, and a page in it keeps its permit.
RaiseError(b) ==
    /\ host' = [host EXCEPT ![b] = "idle"]
    /\ ingress' = [ingress EXCEPT ![b] = NewIngress]

\* accept_fail_execution (should_ignore_message, classify_missing_execution);
\* the error is raised out of the node, which is not ended: the lease stays.
HandleFail(b) ==
    /\ Inbound(b, "Fail")
    /\ active' = [active EXCEPT ![b] =
                    IF NextFrame(b).query[2] = epoch[b] THEN "none" ELSE @]
    /\ RaiseError(b)
    /\ UNCHANGED <<epoch, toPublish, holder, lease, toWorker, permits, worker,
                   history>>

\* validate_lease fails under a worker that is gone.
PollFails(b) ==
    /\ Polls(b) /\ ~Online
    /\ RaiseError(b)
    /\ UNCHANGED <<epoch, active, toPublish, transport, permits, worker,
                   history>>

\* An error out of the node for any other reason, such as an interrupt.
QueryCancelled(b) ==
    /\ host[b] = "exec"
    /\ RaiseError(b)
    /\ left' = TRUE
    /\ UNCHANGED <<epoch, active, toPublish, transport, permits, worker,
                   outcome>>

\* ResultIngress::is_complete
IsComplete(b) ==
    ingress[b].closed /\ ingress[b].completed /\ ingress[b].page = NoPage

\* flush_pending_complete, or, when a scan driver is still active, the cancel in
\* end_pg_fusion_scan: both end the execution.
ReturnEof(b) ==
    /\ host[b] = "exec" /\ IsComplete(b)
    /\ active' = [active EXCEPT ![b] = "none"]
    /\ host' = [host EXCEPT ![b] = "eof"]
    /\ UNCHANGED <<epoch, toPublish, ingress, transport, permits, worker,
                   history>>

\* end_pg_fusion_scan, at the end of the query ...
EndNode(b) ==
    /\ active' = [active EXCEPT ![b] = "none"]
    /\ ingress' = [ingress EXCEPT ![b] = NewIngress]
    /\ permits' = IF ingress[b].page # NoPage THEN permits + 1 ELSE permits
    /\ host' = [host EXCEPT ![b] = "idle"]
    /\ Release(b)
    /\ UNCHANGED <<epoch, toPublish, worker, outcome>>
EndScan(b) == host[b] = "eof" /\ EndNode(b) /\ UNCHANGED left

\* ... or before, when the portal is closed early.
CloseCursor(b) == host[b] = "exec" /\ EndNode(b) /\ left' = TRUE

-----------------------------------------------------------------------------
(* The worker: its poll loop, recv_peer_frames and WorkerRuntimeCore.      *)

SamePeer(p, q) == p.slot = q.slot /\ p.lease = q.lease

\* The query of the execution the worker works on, and what becomes of it.
WorkedOn == Head(plan)
RecordOutcome(result) ==
    /\ outcome' = [outcome EXCEPT ![WorkedOn[1]] =
                    IF epoch[WorkedOn[1]] = WorkedOn[2] THEN result ELSE @]
    /\ UNCHANGED left

\* clear_active_execution_state
ClearActive == peer' = NoPeer

\* Any Err out of the loop: the generation is deactivated, and the process and
\* its memory are gone.
ExitWorker ==
    /\ wpc' = "exited" /\ wstate' = "Idle"
    /\ cur' = NoPeer /\ peer' = NoPeer /\ latest' = NoPeer
    /\ planRx' = FALSE /\ plan' = <<>> /\ sent' = 0

\* The end of an execution: cleanup, and the loop polls again.
CleanUp ==
    /\ wstate' = "Idle" /\ ClearActive /\ planRx' = FALSE
    /\ wpc' = "poll" /\ cur' = NoPeer /\ plan' = <<>> /\ sent' = 0
    /\ UNCHANGED latest

\* next_ready_backend_lease; the lease is claimed in a later step.
NextReadyBackendLease(s) ==
    /\ wpc = "poll" /\ holder[s] # NoBackend /\ toWorker[s] # <<>>
    /\ cur' = [slot |-> s, lease |-> lease[s], epoch |-> 0]
    /\ wpc' = "claim"
    /\ UNCHANGED <<backend, transport, permits, wstate, peer, latest, planRx,
                   plan, sent, history>>

\* slot_for_backend_lease
ClaimPeer ==
    /\ wpc = "claim"
    /\ IF LeaseIsLive(cur)
       THEN /\ wpc' = "drain"
            /\ UNCHANGED <<wstate, cur, peer, latest, planRx, plan, sent>>
       ELSE ExitWorker
    /\ UNCHANGED <<backend, transport, permits, history>>

\* recv_frame_into: the lease is validated, the next frame of the slot taken,
\* and the lease validated again.
Inbox == toWorker[cur.slot]
Drains == wpc = "drain" /\ LeaseIsLive(cur)
TakeFrame ==
    /\ Drains /\ Inbox # <<>>
    /\ toWorker' = [toWorker EXCEPT ![cur.slot] = Tail(@)]
    /\ UNCHANGED <<backend, holder, lease, toBackend>>

\* The backend left while its slot is drained: the steps so far and the frame
\* just taken, if any, are lost with the worker.
DrainFails ==
    /\ wpc = "drain" /\ ~LeaseIsLive(cur)
    /\ ExitWorker
    /\ UNCHANGED <<backend, transport, permits, history>>

\* start_execution
StartExecution ==
    LET f == Head(Inbox)
        stale == SamePeer(latest, cur) /\ f.query[2] <= latest.epoch
        incoming == [cur EXCEPT !.epoch = f.query[2]]
    IN  /\ TakeFrame /\ f.kind = "Start"
        /\ IF wstate # "Idle"
           THEN ExitWorker
           ELSE IF stale
           THEN UNCHANGED worker
           ELSE /\ wstate' = "ReceivingPlan"
                /\ peer' = incoming /\ latest' = incoming
                /\ planRx' = TRUE /\ plan' = <<f.query>>
                /\ UNCHANGED <<wpc, cur, sent>>
        /\ UNCHANGED <<permits, history>>

\* The checks before accept_issued_plan_frame takes the frame.
PlanFrameExpected ==
    planRx /\ wstate = "ReceivingPlan" /\ SamePeer(peer, cur)

RejectPlanFrame ==
    /\ TakeFrame /\ Head(Inbox).kind # "Start" /\ ~PlanFrameExpected
    /\ ExitWorker
    /\ UNCHANGED <<permits, history>>

\* A page of the plan is read and given back; the close frame ends the plan.
\* PlanFrame and PlanDecoded; the planning starts when the slot is drained.
AcceptPlanPage ==
    /\ TakeFrame /\ Head(Inbox).kind = "PlanPage" /\ PlanFrameExpected
    /\ plan' = Append(plan, Head(Inbox).query)
    /\ permits' = permits + 1
    /\ UNCHANGED <<wpc, wstate, cur, peer, latest, planRx, sent, history>>

AcceptPlanClose ==
    /\ TakeFrame /\ Head(Inbox).kind = "PlanClose" /\ PlanFrameExpected
    /\ wstate' = "Planning"
    /\ UNCHANGED <<permits, wpc, cur, peer, latest, planRx, plan, sent,
                   history>>

\* fail_logical_plan_decode
FailLogicalPlanDecode ==
    /\ TakeFrame /\ Head(Inbox).kind # "Start" /\ PlanFrameExpected
    /\ permits' = IF Head(Inbox).kind = "PlanPage" THEN permits + 1 ELSE permits
    /\ wstate' = "Terminal" /\ ClearActive
    /\ RecordOutcome("failed")
    /\ UNCHANGED <<wpc, cur, latest, planRx, plan, sent>>

\* The ring is empty: handle_steps.  PlanningStarted goes on to plan; a terminal
\* step closes the plan ingress and cleans up.
HandleSteps ==
    /\ Drains /\ Inbox = <<>>
    /\ IF wstate = "Terminal"
       THEN CleanUp
       ELSE /\ wpc' = IF wstate = "Planning" THEN "plan" ELSE "poll"
            /\ cur' = NoPeer
            /\ UNCHANGED <<wstate, peer, latest, planRx, plan, sent>>
    /\ UNCHANGED <<backend, transport, permits, history>>

\* finish_physical_planning
FinishPhysicalPlanning ==
    /\ wpc = "plan"
    /\ wstate' = "Running" /\ wpc' = "exec" /\ sent' = 0
    /\ UNCHANGED <<backend, transport, permits, cur, peer, latest, planRx,
                   plan, history>>

\* fail_planning_stage returns the error, which the loop passes on.
FailPlanningStage ==
    /\ wpc = "plan"
    /\ ExitWorker
    /\ RecordOutcome("failed")
    /\ UNCHANGED <<backend, transport, permits>>

\* send_peer_bytes, send_peer_message: can a frame be sent to the active peer?
CanSend == LeaseIsLive(peer) /\ Len(toBackend[peer.slot]) < RingFrames
Send(f) ==
    /\ CanSend
    /\ toBackend' = [toBackend EXCEPT ![peer.slot] = Append(@, f)]
    /\ UNCHANGED <<holder, lease, toWorker>>

\* execute_physical_plan: the next result page.
SendResultPage ==
    /\ wpc = "exec" /\ sent < ResultPages /\ permits > 0
    /\ Send(Frame("Page", WorkedOn, sent + 1))
    /\ sent' = sent + 1 /\ permits' = permits - 1
    /\ UNCHANGED <<backend, wpc, wstate, cur, peer, latest, planRx, plan,
                   history>>

SendResultClose ==
    /\ wpc = "exec" /\ Send(Frame("Close", WorkedOn, sent))
    /\ wpc' = "closed"
    /\ UNCHANGED <<backend, permits, wstate, cur, peer, latest, planRx, plan,
                   sent, history>>

\* The plan fails: no permit for a page, a ring that takes no frame (the page is
\* dropped again), an error of the plan or, after the close, of the spill files.
CannotGoOn == ~CanSend \/ (permits = 0 /\ sent < ResultPages)
ExecutionFails ==
    /\ \/ wpc = "exec" /\ CannotGoOn
       \/ wpc \in {"exec", "closed"}
    /\ wpc' = "fail"
    /\ RecordOutcome("failed")
    /\ UNCHANGED <<backend, transport, permits, wstate, cur, peer, latest,
                   planRx, plan, sent>>

\* CompleteExecution is sent, mark_execution_complete, cleanup; the peer may be
\* gone, or its ring full.
CompleteExecutionUnsent ==
    /\ wpc = "closed"
    /\ IF CanSend THEN Send(Frame("Complete", WorkedOn, sent)) ELSE UNCHANGED transport
    /\ RecordOutcome("completed")
    /\ CleanUp
    /\ UNCHANGED <<backend, permits>>
CompleteExecution ==
    /\ wpc = "closed"
    /\ IF CanSend
       THEN /\ Send(Frame("Complete", WorkedOn, sent))
            /\ RecordOutcome("completed")
            /\ CleanUp
       ELSE ExitWorker /\ UNCHANGED <<transport, history>>
    /\ UNCHANGED <<backend, permits>>

\* FailExecution is sent, fail_execution_locally, cleanup.
FailExecution ==
    /\ wpc = "fail"
    /\ IF CanSend
       THEN /\ Send(Frame("Fail", WorkedOn, 0))
            /\ RecordOutcome("reported")
            /\ CleanUp
       ELSE ExitWorker /\ UNCHANGED <<transport, history>>
    /\ UNCHANGED <<backend, permits>>

-----------------------------------------------------------------------------
Execute(b) ==
    \/ AcceptResultPage(b) \/ FinishPage(b) \/ AcceptResultClose(b)
    \/ HandleComplete(b) \/ HandleFail(b) \/ PollFails(b)
    \/ ReturnEof(b) \/ EndScan(b)

BackendStep(b) ==
    \/ \E s \in Slots : BeginQuery(b, s)
    \/ PublishFrame(b) \/ AbortStart(b) \/ InterruptStart(b)
    \/ Execute(b) \/ QueryCancelled(b) \/ CloseCursor(b)

WorkerStep ==
    \/ \E s \in Slots : NextReadyBackendLease(s)
    \/ ClaimPeer \/ DrainFails \/ StartExecution \/ RejectPlanFrame
    \/ AcceptPlanPage \/ AcceptPlanClose \/ FailLogicalPlanDecode \/ HandleSteps
    \/ FinishPhysicalPlanning \/ FailPlanningStage
    \/ SendResultPage \/ SendResultClose \/ ExecutionFails
    \/ CompleteExecution \/ FailExecution

Next == (\E b \in Backends : BackendStep(b)) \/ WorkerStep

Spec == Init /\ [][Next]_vars

-----------------------------------------------------------------------------
\* What a backend takes from its slot are the pages of its own query, in the
\* order the worker produced them and without a gap.  Result frames carry no
\* session epoch: this rests on the rings emptied by publish_backend_lease and
\* on the worker's active_peer.
ResultsBelongToTheQuery ==
    \A b \in Backends : host[b] \in {"exec", "eof"} =>
        ingress[b].got =
            [i \in 1..Len(ingress[b].got) |-> <<Query(b), i>>]

\* A backend returns EOF only for a query the worker completed, never for one
\* that failed after its last page or after its close frame.
EofMeansCompleted ==
    \A b \in Backends : host[b] = "eof" =>
        outcome[b] = "completed" /\ ingress[b].page = NoPage

\* Every permit is free, or with a page in a ring or with a page being read, as
\* long as no backend gives up a query and the worker runs: results that do not
\* fit the ring, failing executions and refused plans lose none.  The exception
\* is a start that is aborted: the plan pages in its ring are lost with it.
PagesIn(ring) ==
    Cardinality({e \in Slots \X (1..RingFrames) :
                    /\ e[2] <= Len(ring[e[1]])
                    /\ ring[e[1]][e[2]].kind \in {"PlanPage", "Page"}})
PermitsAreConserved ==
    Online /\ ~left =>
        Permits = permits + PagesIn(toWorker) + PagesIn(toBackend)
                  + Cardinality({b \in Backends : ingress[b].page # NoPage})

\* A backend that waits for its result is not forgotten: as long as the worker
\* lives there is a frame for it on the way, or the worker works on its plan, or
\* has yet to find its frames.  The exception is a plan that fails to decode.
NoQueryIsForgotten ==
    Online => \A b \in Backends :
        (host[b] = "exec" /\ ~(ingress[b].closed /\ ingress[b].completed)) =>
            LET s == ControlLease(b) IN
            \/ toBackend[s] # <<>> \/ toWorker[s] # <<>>
            \/ SamePeer(peer, [slot |-> s, lease |-> lease[s]])
            \/ outcome[b] = "failed"

\* src/docs/architecture.md: many backends can feed work into the same worker.
\* So as long as every plan decodes, lowers and executes, and no query is
\* abandoned, the worker lives.
WorkerServesManyBackends ==
    Online \/ left \/ \E b \in Backends : outcome[b] \in {"failed", "reported"}
=============================================================================
