------------------------------- MODULE PlanFlow -------------------------------
(***************************************************************************)
(* The transfer of a logical plan (src/page/plan_flow): the backend role   *)
(* writes the encoded plan into issued pages, the worker role feeds the    *)
(* pages to the decoder and has the plan when the close frame comes.       *)
(*                                                                         *)
(* A flow may be aborted at either end at any time, while its frames are   *)
(* on their way; frames arrive in the order sent, StartExecution first.    *)
(* Each flow has a sender and a receiver (IssuedTx, IssuedRx) of its own,  *)
(* which number its frames.  The pages and their permits are those of      *)
(* PageStream: one permit is one page here.  StartExecution carries the    *)
(* page kind and flags, so that both roles have the same ones and a page   *)
(* of another kind (accept_page) does not occur.                           *)
(***************************************************************************)
EXTENDS PlanCodec

CONSTANTS
    Plans,          \* logical plans, sequences of nodes
    PagePayloads,   \* payload capacities of a page, in bytes
    Permits,        \* issuance permits
    MaxFlows,       \* flows, one after the other
    SmallPage       \* with pages smaller than this, only one flow

ASSUME FlowAssumption ==
    PagePayloads \subseteq Nat \ {0} /\ Permits \in Nat \ {0} /\ MaxFlows \in Nat
    /\ SmallPage \in Nat

VARIABLES
    flow,       \* the flow the backend last opened
    plan,       \* the plans of the flows
    room,       \* payload capacity of the pages
    bstate,     \* BackendPlanState
    items,      \* the envelope PlanEncodeSession::new collected
    encoder,    \* how far the session is with it
    txId,       \* transfer id of the sender's next frame
    frames,     \* on their way to the worker
    wstate,     \* WorkerPlanState
    wflow,      \* the flow the worker last opened
    decoder,    \* PlanDecodeSession of it
    rxId,       \* transfer id its receiver expects, 0 once closed
    free,       \* permits
    outcome     \* history: what the worker's flows came to

backend == <<flow, plan, bstate, items, encoder, txId>>
worker  == <<wstate, wflow, decoder, rxId, outcome>>
vars    == <<backend, worker, room, frames, free>>

Page(bytes) == [kind |-> "page", flow |-> flow, id |-> txId, bytes |-> bytes]
Close       == [kind |-> "close", flow |-> flow, id |-> txId, bytes |-> <<>>]
Start(f)    == [kind |-> "start", flow |-> f, id |-> 0, bytes |-> <<>>]

TypeOK ==
    /\ flow \in 0..MaxFlows /\ wflow \in 0..flow /\ free \in 0..Permits
    /\ {txId, rxId} \subseteq Nat
    /\ plan \in [1..flow -> Plans] /\ room \in PagePayloads
    /\ bstate \in {"Closed", "Opened", "Streaming", "SuccessTerminal",
                   "Failed", "Exhausted"}
    /\ wstate \in {"Closed", "Opened", "Receiving", "SuccessTerminal", "Failed"}
    /\ outcome \in [1..MaxFlows -> {"none", "plan", "error", "told", "aborted"}]

Init ==
    /\ flow = 0 /\ plan = <<>> /\ room \in PagePayloads
    /\ bstate = "Closed" /\ items = <<>> /\ encoder = NewEncoder /\ frames = <<>>
    /\ txId = 0 /\ rxId = 0
    /\ wstate = "Closed" /\ wflow = 0 /\ decoder = NewDecoder
    /\ free = Permits /\ outcome = [f \in 1..MaxFlows |-> "none"]

-----------------------------------------------------------------------------
(* The backend.                                                            *)

Open ==
    /\ bstate \in {"Closed", "Exhausted"}
    /\ flow < (IF room < SmallPage THEN 1 ELSE MaxFlows)
    /\ \E p \in Plans : plan' = Append(plan, p) /\ items' \in {Items(p)}
    /\ flow' = flow + 1 /\ bstate' = "Opened" /\ encoder' = NewEncoder
    /\ txId' = 1
    /\ frames' = Append(frames, Start(flow + 1))
    /\ UNCHANGED <<worker, room, free>>

Steps == bstate \in {"Opened", "Streaming"}

\* step with bytes left: a page is issued, filled and handed out.  Without a
\* permit the step is Blocked.
StepPage ==
    /\ Steps /\ ~encoder.finished /\ free > 0
    /\ \E c \in {WriteChunk(items, encoder, room, <<>>)} :
        /\ encoder' = c.e
        /\ frames' = Append(frames, Page(c.out))
    /\ free' = free - 1 /\ txId' = txId + 1
    /\ bstate' = "Streaming"
    /\ UNCHANGED <<flow, plan, items, worker, room>>

\* step after the last byte
StepClose ==
    /\ Steps /\ encoder.finished
    /\ frames' = Append(frames, Close)
    /\ bstate' = "SuccessTerminal" /\ txId' = txId + 1
    /\ UNCHANGED <<flow, plan, items, encoder, worker, room, free>>

\* A page that cannot be begun, encoded or finished, whose writer is dropped,
\* or a close frame that cannot be emitted.
StepError ==
    /\ Steps
    /\ bstate' = "Failed"
    /\ UNCHANGED <<flow, plan, items, encoder, txId, worker, room, frames, free>>

CloseBackend ==
    /\ bstate \in {"SuccessTerminal", "Failed"}
    /\ bstate' = IF bstate = "Failed" THEN "Closed" ELSE "Exhausted"
    /\ UNCHANGED <<flow, plan, items, encoder, txId, worker, room, frames, free>>

AbortBackend ==
    /\ bstate # "Closed" /\ bstate # "Exhausted"
    /\ bstate' = IF bstate = "SuccessTerminal" THEN "Exhausted" ELSE "Closed"
    /\ UNCHANGED <<flow, plan, items, encoder, txId, worker, room, frames, free>>

-----------------------------------------------------------------------------
(* The worker.                                                             *)

TakeFrame == frames # <<>> /\ frames' = Tail(frames)
StartIsNext == frames # <<>> /\ Head(frames).kind = "start"

\* The execution before is over when start_execution opens the role.
OpenWorker ==
    /\ TakeFrame /\ StartIsNext /\ wstate = "Closed"
    /\ wflow' = Head(frames).flow
    /\ wstate' = "Opened" /\ decoder' = NewDecoder /\ rxId' = 1
    /\ UNCHANGED <<backend, room, free, outcome>>

\* IssuedRx::accept: the frame the receiver expects is taken, and its page is
\* back in the pool before accept_frame returns, whatever became of the frame.
\* Any other frame is an ingress error and keeps its page.
FlowOpen == wstate \in {"Opened", "Receiving"}
Expected == FlowOpen /\ Head(frames).flow = wflow
RxTakes  == Head(frames).id = rxId

RxAcceptKeepsPage ==
    /\ rxId' = IF ~RxTakes THEN rxId
               ELSE IF Head(frames).kind = "page" THEN rxId + 1 ELSE 0
    /\ UNCHANGED free
RxAccept ==
    /\ rxId' = IF ~RxTakes THEN rxId
               ELSE IF Head(frames).kind = "page" THEN rxId + 1 ELSE 0
    /\ free' = IF RxTakes /\ Head(frames).kind = "page" THEN free + 1 ELSE free

\* InvalidState and UnexpectedFlow: maybe_drain_rejected_page_frame, which
\* leaves a close frame alone; and an ingress error of the open flow.
RejectFrame ==
    /\ TakeFrame /\ ~StartIsNext /\ ~(Expected /\ RxTakes)
    /\ IF Head(frames).kind = "page" THEN RxAccept ELSE UNCHANGED <<rxId, free>>
    /\ UNCHANGED <<backend, room, wstate, wflow, decoder, outcome>>

\* accept_page, accept_close
AcceptFrame ==
    /\ TakeFrame /\ ~StartIsNext /\ Expected /\ RxTakes
    /\ \E r \in {IF Head(frames).kind = "page"
                 THEN PushChunk(decoder, Head(frames).bytes)
                 ELSE FinishInput(decoder)} :
        /\ decoder' = r.d
        /\ wstate' = CASE r.progress = "more" /\ Head(frames).kind = "page" ->
                              "Receiving"
                       [] r.progress = "done" /\ Head(frames).kind = "close" ->
                              "SuccessTerminal"
                       [] OTHER -> "Failed"
        /\ outcome' = CASE wstate' = "Receiving" -> outcome
                        [] wstate' = "SuccessTerminal" ->
                               [outcome EXCEPT ![wflow] = "plan"]
                        [] OTHER -> [outcome EXCEPT ![wflow] = "error"]
    /\ RxAccept
    /\ UNCHANGED <<backend, room, wflow>>

\* accept_sender_error: the backend's failure is told out of band.
AcceptSenderError ==
    /\ FlowOpen /\ bstate = "Failed" /\ wflow = flow
    /\ wstate' = "Failed" /\ outcome' = [outcome EXCEPT ![wflow] = "told"]
    /\ UNCHANGED <<backend, room, frames, free, wflow, rxId, decoder>>

CloseWorker ==
    /\ wstate \in {"SuccessTerminal", "Failed"}
    /\ wstate' = "Closed"
    /\ UNCHANGED <<backend, room, frames, free, wflow, rxId, decoder, outcome>>

AbortWorker ==
    /\ FlowOpen
    /\ wstate' = "Closed" /\ outcome' = [outcome EXCEPT ![wflow] = "aborted"]
    /\ UNCHANGED <<backend, room, frames, free, wflow, rxId, decoder>>

Next ==
    \/ Open \/ StepPage \/ StepClose \/ StepError \/ CloseBackend
    \/ AbortBackend \/ OpenWorker \/ RejectFrame \/ AcceptFrame
    \/ AcceptSenderError \/ CloseWorker \/ AbortWorker

\* The executor steps an open plan until it ends; the worker takes the frames
\* of its slot, and is done with an execution before it starts the next.
Fairness ==
    /\ WF_vars(StepPage) /\ WF_vars(StepClose)
    /\ WF_vars(OpenWorker) /\ WF_vars(RejectFrame) /\ WF_vars(AcceptFrame)
    /\ WF_vars(CloseWorker) /\ WF_vars(StartIsNext /\ AbortWorker)

Spec == Init /\ [][Next]_vars /\ Fairness

-----------------------------------------------------------------------------
(* Properties.                                                             *)

\* Can the worker resolve every function the plan calls?
Understood(p) ==
    \A i \in DOMAIN p : p[i].op = "call" => Resolves(p[i].what[1], p[i].what[2])

PagesOnTheirWay == SelectSeq(frames, LAMBDA f : f.kind = "page")

\* The plan the worker ends up with is the plan the backend encoded for that
\* flow, wherever the pages cut it and whatever was on its way before; a plan
\* is refused only for a function the worker does not know, which none that
\* the frontend compiles is; and every page comes back.
PlanArrives ==
    /\ TypeOK
    /\ wstate = "SuccessTerminal" => decoder.plan = plan[wflow]
    /\ \A f \in 1..wflow :
        /\ outcome[f] = "plan" => Understood(plan[f])
        /\ outcome[f] = "error" => ~Understood(plan[f])
    /\ \A name \in CompiledScalarFunctions \cup CompiledHelperFunctions :
        Resolves("udf", name)
    /\ free + Len(PagesOnTheirWay) = Permits

\* A plan that is being sent ends at the worker, which has it, refuses it or
\* gave it up, unless the backend failed or aborted the flow: two permits are
\* enough for a plan of any length.
PlanFlowEnds ==
    \A f \in 1..MaxFlows :
        (flow = f /\ Steps) ~>
            (outcome[f] # "none" \/ (flow = f /\ bstate \in {"Failed", "Closed"}))
=============================================================================
