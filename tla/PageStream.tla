----------------------------- MODULE PageStream -----------------------------
(***************************************************************************)
(* Page streams: src/page/transfer (PageTx, PageRx) wrapped with permits   *)
(* by src/page/issuance (IssuancePool, IssuedTx, IssuedRx).                *)
(*                                                                         *)
(* A stream has one sender and one receiver state, each shared by the      *)
(* threads that hold a clone of its handle, and a reliable FIFO carrier.   *)
(* All streams share the page pool, seen through PageOwnership, and the    *)
(* permit pool.  A handle is the page, its generation, the permit that     *)
(* came with it and the transfer id of its frame.                          *)
(***************************************************************************)
EXTENDS Integers, FiniteSets, Sequences

CONSTANTS
    Streams, Senders, Receivers,
    TxOf, RxOf,         \* the stream each sender and receiver thread serves
    Pages, Permits, MaxGeneration,
    MaxBegins           \* bound: begin() calls

ASSUME StreamAssumption ==
    /\ TxOf \in [Senders -> Streams]
    /\ RxOf \in [Receivers -> Streams]
    /\ IsFiniteSet(Pages) /\ IsFiniteSet(Permits)
    /\ MaxBegins \in Nat /\ MaxGeneration \in Nat

VARIABLES
    gen, st,    \* the page pool
    leased,     \* permits whose state byte is STATE_LEASED
    tx, rx,     \* TxInner and RxInner of each stream: phase, next_transfer_id
    wire,       \* frames delivered by the sender and not taken yet
    pc, h,      \* each sender thread's place and handle
    rpc, frame, \* each receiver thread's place and frame
    received,   \* handles of live IssuedReceivedPages
    halfway,    \* received pages whose page is released, the permit not yet
    budget,     \* begin() calls left
    sent, got,  \* history: pages put on the wire and accepted, per stream
    broken      \* history: streams that lost a transfer id or met a bad page

pool == <<gen, st>>
sender == <<tx, pc, h, budget>>
receiver == <<rx, rpc, frame, received, halfway, got>>
vars == <<pool, leased, wire, sender, receiver, sent, broken>>

Pool == INSTANCE PageOwnership

NoPage == [page |-> "none", gen |-> 0]
NoHandle == [kind |-> "None", id |-> 0, desc |-> NoPage, permit |-> "none"]

Init ==
    /\ Pool!Init
    /\ leased = {}
    /\ tx = [s \in Streams |-> [phase |-> "Idle", next |-> 1]]
    /\ rx = [s \in Streams |-> [phase |-> "Idle", next |-> 1]]
    /\ wire = [s \in Streams |-> <<>>]
    /\ pc = [t \in Senders |-> "idle"] /\ h = [t \in Senders |-> NoHandle]
    /\ rpc = [r \in Receivers |-> "idle"] /\ frame = [r \in Receivers |-> NoHandle]
    /\ received = {} /\ halfway = {}
    /\ budget = MaxBegins
    /\ sent = [s \in Streams |-> <<>>] /\ got = [s \in Streams |-> <<>>]
    /\ broken = {}

Phase(t) == tx[TxOf[t]].phase
SetPhase(t, phase) == tx' = [tx EXCEPT ![TxOf[t]].phase = phase]
Goto(t, label) == pc' = [pc EXCEPT ![t] = label]
ReleasePage(d) == gen[d.page] = d.gen /\ Pool!Release(d.page)

-----------------------------------------------------------------------------
(* IssuancePool: a permit is taken, or given back by its id alone.         *)
TryAcquire(k) == k \notin leased /\ leased' = leased \cup {k}
ReleasePermit(k) == leased' = leased \ {k}

(* IssuedTx::begin() takes a permit first; with none left (NoPermits) the  *)
(* sender is not touched.                                                  *)
BeginPermit(t) ==
    /\ pc[t] = "idle" /\ budget > 0
    /\ \E k \in Permits :
          /\ TryAcquire(k)
          /\ h' = [h EXCEPT ![t].permit = k]
    /\ budget' = budget - 1
    /\ Goto(t, "enter")
    /\ UNCHANGED <<pool, tx, wire, receiver, sent, broken>>

(* enter_writing(): Idle becomes Writing ...                               *)
EnterWriting(t) ==
    /\ pc[t] = "enter"
    /\ Phase(t) = "Idle"
    /\ SetPhase(t, "Writing")
    /\ Goto(t, "acquire")
    /\ UNCHANGED <<pool, leased, wire, h, budget, receiver, sent, broken>>

(* ... anything else is Busy or Closed, and the permit lease is dropped.   *)
EnterRefused(t) ==
    /\ pc[t] = "enter"
    /\ Phase(t) # "Idle"
    /\ Goto(t, "permit")
    /\ UNCHANGED <<pool, leased, tx, wire, h, budget, receiver, sent, broken>>

AcquirePage(t) ==
    /\ pc[t] = "acquire"
    /\ \E i \in Pages :
          /\ Pool!Acquire(i)
          /\ h' = [h EXCEPT ![t].desc = [page |-> i, gen |-> gen[i] + 1]]
    /\ Goto(t, "writing")
    /\ UNCHANGED <<leased, tx, wire, budget, receiver, sent, broken>>

(* TxError::Acquire: cancel_writer(), then the permit is dropped.          *)
AcquireEmpty(t) ==
    /\ pc[t] = "acquire"
    /\ \A i \in Pages : st[i] # "Free"
    /\ Goto(t, "cancel")
    /\ UNCHANGED <<pool, leased, tx, wire, h, budget, receiver, sent, broken>>

-----------------------------------------------------------------------------
(* The writer is dropped, or finish_with_payload_len() finds the payload   *)
(* too long: lease, phase and permit are given back in this order.         *)
DropWriter(t) ==
    /\ pc[t] = "writing"
    /\ ReleasePage(h[t].desc)
    /\ h' = [h EXCEPT ![t].desc = NoPage]
    /\ Goto(t, "cancel")
    /\ UNCHANGED <<leased, tx, wire, budget, receiver, sent, broken>>

CancelWriter(t) ==
    /\ pc[t] = "cancel"
    /\ SetPhase(t, "Idle")
    /\ Goto(t, "permit")
    /\ UNCHANGED <<pool, leased, wire, h, budget, receiver, sent, broken>>

(* Drop of the PermitLease, or the permit release of a dropped outbound.   *)
DropPermit(t) ==
    /\ pc[t] = "permit"
    /\ ReleasePermit(h[t].permit)
    /\ h' = [h EXCEPT ![t] = NoHandle]
    /\ Goto(t, "idle")
    /\ UNCHANGED <<pool, tx, wire, budget, receiver, sent, broken>>

(* finish_with_payload_len(): the lease becomes a descriptor, then         *)
(* finish_writer() reserves the transfer id and only then leaves Writing.  *)
FinishDetach(t) ==
    /\ pc[t] = "writing"
    /\ Pool!Detach(h[t].desc.page)
    /\ Goto(t, "reserve")
    /\ UNCHANGED <<leased, tx, wire, h, budget, receiver, sent, broken>>

(* reserve_transfer_id() returns the id it advances past.                  *)
ReserveTransferId(t, kind, label) ==
    LET s == TxOf[t] IN
    /\ h' = [h EXCEPT ![t].id = tx[s].next, ![t].kind = kind]
    /\ tx' = [tx EXCEPT ![s].next = @ + 1]
    /\ Goto(t, label)

FinishReserve(t) ==
    /\ pc[t] = "reserve"
    /\ ReserveTransferId(t, "Page", "pending")
    /\ UNCHANGED <<pool, leased, wire, budget, receiver, sent, broken>>

FinishPending(t) ==
    /\ pc[t] = "pending"
    /\ SetPhase(t, "OutboundPending")
    /\ Goto(t, "outbound")
    /\ UNCHANGED <<pool, leased, wire, h, budget, receiver, sent, broken>>

-----------------------------------------------------------------------------
(* The caller puts the frame on the carrier and, once it is delivered,     *)
(* calls mark_sent(); from delivery on the receiver owns page and permit.  *)
SendFrame(t) ==
    LET s == TxOf[t] IN
    /\ pc[t] \in {"outbound", "close"}
    /\ wire' = [wire EXCEPT ![s] = Append(@, h[t])]
    /\ sent' = IF h[t].kind = "Page" THEN [sent EXCEPT ![s] = Append(@, h[t].desc)] ELSE sent
    /\ h' = [h EXCEPT ![t] = NoHandle]
    /\ Goto(t, IF h[t].kind = "Page" THEN "mark" ELSE "idle")
    /\ UNCHANGED <<pool, leased, tx, budget, receiver, broken>>

MarkSent(t) ==
    /\ pc[t] = "mark"
    /\ SetPhase(t, "Idle")
    /\ Goto(t, "idle")
    /\ UNCHANGED <<pool, leased, wire, h, budget, receiver, sent, broken>>

(* The outbound page is dropped unsent: the page is released, the sender   *)
(* is Idle again, the permit follows.  Its transfer id is gone.            *)
DropOutbound(t) ==
    /\ pc[t] = "outbound"
    /\ ReleasePage(h[t].desc)
    /\ h' = [h EXCEPT ![t].desc = NoPage]
    /\ broken' = broken \cup {TxOf[t]}
    /\ Goto(t, "finish")
    /\ UNCHANGED <<leased, tx, wire, budget, receiver, sent>>

FinishOutbound(t) ==
    /\ pc[t] = "finish"
    /\ SetPhase(t, "Idle")
    /\ Goto(t, "permit")
    /\ UNCHANGED <<pool, leased, wire, h, budget, receiver, sent, broken>>

(* PageTx::close(): Idle becomes Closed, then the id is reserved.  It      *)
(* fails as Busy or Closed otherwise.                                      *)
CloseExchange(t) ==
    /\ pc[t] = "idle"
    /\ Phase(t) = "Idle"
    /\ SetPhase(t, "Closed")
    /\ Goto(t, "closeid")
    /\ UNCHANGED <<pool, leased, wire, h, budget, receiver, sent, broken>>

CloseReserve(t) ==
    /\ pc[t] = "closeid"
    /\ ReserveTransferId(t, "Close", "close")
    /\ UNCHANGED <<pool, leased, wire, budget, receiver, sent, broken>>

-----------------------------------------------------------------------------
(* A receiver thread takes the next frame off the carrier; accept()        *)
(* borrows it, so a refused frame stays with the caller to be retried.     *)
RxGoto(r, label) == rpc' = [rpc EXCEPT ![r] = label]
SetRxPhase(r, phase) == rx' = [rx EXCEPT ![RxOf[r]].phase = phase]
quiet == <<sender, sent>>

Take(r) ==
    /\ rpc[r] = "idle" /\ wire[RxOf[r]] # <<>>
    /\ frame' = [frame EXCEPT ![r] = Head(wire[RxOf[r]])]
    /\ wire' = [wire EXCEPT ![RxOf[r]] = Tail(@)]
    /\ RxGoto(r, "have")
    /\ UNCHANGED <<pool, leased, rx, received, halfway, got, broken, quiet>>

(* begin_accept(): Idle becomes Accepting; Busy and Closed change nothing. *)
BeginAccept(r) ==
    /\ rpc[r] = "have"
    /\ rx[RxOf[r]].phase = "Idle"
    /\ SetRxPhase(r, "Accepting")
    /\ RxGoto(r, "check")
    /\ UNCHANGED <<pool, leased, wire, frame, received, halfway, got, broken, quiet>>

Expected(r) == frame[r].id = rx[RxOf[r]].next

UnexpectedIdReleasesPermit(r) ==
    /\ rpc[r] = "check"
    /\ ~ Expected(r)
    /\ SetRxPhase(r, "Idle")
    /\ ReleasePermit(frame[r].permit)
    /\ RxGoto(r, "have")
    /\ UNCHANGED <<pool, wire, frame, received, halfway, got, broken, quiet>>

UnexpectedId(r) ==
    /\ rpc[r] = "check"
    /\ ~ Expected(r)
    /\ SetRxPhase(r, "Idle")
    /\ RxGoto(r, "have")
    /\ UNCHANGED <<pool, leased, wire, frame, received, halfway, got, broken, quiet>>

AcceptClose(r) ==
    /\ rpc[r] = "check" /\ Expected(r) /\ frame[r].kind = "Close"
    /\ rx' = [rx EXCEPT ![RxOf[r]] = [phase |-> "Closed", next |-> @.next + 1]]
    /\ frame' = [frame EXCEPT ![r] = NoHandle]
    /\ RxGoto(r, "idle")
    /\ UNCHANGED <<pool, leased, wire, received, halfway, got, broken, quiet>>

(* validate_detached_descriptor() of the pool.                             *)
Detached(d) == d.page \in Pages /\ gen[d.page] = d.gen /\ st[d.page] = "Detached"

AcceptPageAnyId(r) ==
    /\ rpc[r] = "check" /\ frame[r].kind = "Page"
    /\ Detached(frame[r].desc)
    /\ rx' = [rx EXCEPT ![RxOf[r]] = [phase |-> "Idle", next |-> frame[r].id + 1]]
    /\ received' = received \cup {frame[r]}
    /\ got' = [got EXCEPT ![RxOf[r]] = Append(@, frame[r].desc)]
    /\ frame' = [frame EXCEPT ![r] = NoHandle]
    /\ RxGoto(r, "idle")
    /\ UNCHANGED <<pool, leased, wire, halfway, broken, quiet>>

(* The header is valid: advance_transfer_id(), Idle, and the page belongs  *)
(* to the caller; no other thread reads the id while the phase is          *)
(* Accepting.                                                              *)
AcceptPage(r) ==
    /\ rpc[r] = "check" /\ Expected(r) /\ frame[r].kind = "Page"
    /\ Detached(frame[r].desc)
    /\ rx' = [rx EXCEPT ![RxOf[r]] = [phase |-> "Idle", next |-> @.next + 1]]
    /\ received' = received \cup {frame[r]}
    /\ got' = [got EXCEPT ![RxOf[r]] = Append(@, frame[r].desc)]
    /\ frame' = [frame EXCEPT ![r] = NoHandle]
    /\ RxGoto(r, "idle")
    /\ UNCHANGED <<pool, leased, wire, halfway, broken, quiet>>

(* The header is malformed (InvalidPage): the pending guard releases the   *)
(* page, then cancel_accept(), then should_release_permit() holds.  The    *)
(* expected transfer id does not advance.                                  *)
InvalidPage(r) ==
    /\ rpc[r] = "check" /\ Expected(r) /\ frame[r].kind = "Page"
    /\ Detached(frame[r].desc)
    /\ ReleasePage(frame[r].desc)
    /\ broken' = broken \cup {RxOf[r]}
    /\ RxGoto(r, "invalid")
    /\ UNCHANGED <<leased, wire, rx, frame, received, halfway, got, quiet>>

InvalidCancel(r) ==
    /\ rpc[r] = "invalid"
    /\ SetRxPhase(r, "Idle")
    /\ RxGoto(r, "reject")
    /\ UNCHANGED <<pool, leased, wire, frame, received, halfway, got, broken, quiet>>

InvalidPermit(r) ==
    /\ rpc[r] = "reject"
    /\ ReleasePermit(frame[r].permit)
    /\ RxGoto(r, "bad")
    /\ UNCHANGED <<pool, wire, rx, frame, received, halfway, got, broken, quiet>>

(* The caller drops the refused frame, or hands it in once more.           *)
DiscardBad(r) ==
    /\ rpc[r] = "bad"
    /\ frame' = [frame EXCEPT ![r] = NoHandle]
    /\ RxGoto(r, "idle")
    /\ UNCHANGED <<pool, leased, wire, rx, received, halfway, got, broken, quiet>>

RetryBad(r) ==
    /\ rpc[r] = "bad"
    /\ RxGoto(r, "have")
    /\ UNCHANGED <<pool, leased, wire, rx, frame, received, halfway, got, broken, quiet>>

(* RxError::Access: the guard's release is refused by the pool as well,    *)
(* and the permit is left alone.                                           *)
StaleAccess(r) ==
    /\ rpc[r] = "check" /\ Expected(r) /\ frame[r].kind = "Page"
    /\ ~ Detached(frame[r].desc)
    /\ SetRxPhase(r, "Idle")
    /\ RxGoto(r, "bad")
    /\ UNCHANGED <<pool, leased, wire, frame, received, halfway, got, broken, quiet>>

(* release() or Drop of an IssuedReceivedPage, in any order and thread:    *)
(* first the page, then its permit.                                        *)
ReleaseReceived(x) ==
    /\ x \in received
    /\ ReleasePage(x.desc)
    /\ received' = received \ {x} /\ halfway' = halfway \cup {x}
    /\ UNCHANGED <<leased, wire, rx, rpc, frame, got, broken, quiet>>

ReleaseReceivedPermit(x) ==
    /\ x \in halfway
    /\ ReleasePermit(x.permit)
    /\ halfway' = halfway \ {x}
    /\ UNCHANGED <<pool, wire, rx, rpc, frame, received, got, broken, quiet>>

-----------------------------------------------------------------------------
SenderStep(t) ==
    \/ EnterWriting(t) \/ EnterRefused(t) \/ AcquirePage(t) \/ AcquireEmpty(t)
    \/ DropWriter(t) \/ CancelWriter(t) \/ DropPermit(t)
    \/ FinishDetach(t) \/ FinishReserve(t) \/ FinishPending(t)
    \/ SendFrame(t) \/ MarkSent(t) \/ DropOutbound(t) \/ FinishOutbound(t)
    \/ CloseReserve(t)

ReceiverStep(r) ==
    \/ Take(r) \/ BeginAccept(r) \/ UnexpectedId(r) \/ AcceptClose(r) \/ AcceptPage(r)
    \/ InvalidPage(r) \/ InvalidCancel(r) \/ InvalidPermit(r) \/ StaleAccess(r)

Reclaim == \E x \in received \cup halfway : ReleaseReceived(x) \/ ReleaseReceivedPermit(x)

Next ==
    \/ \E t \in Senders : BeginPermit(t) \/ CloseExchange(t) \/ SenderStep(t)
    \/ \E r \in Receivers : ReceiverStep(r) \/ DiscardBad(r) \/ RetryBad(r)
    \/ Reclaim

Spec == Init /\ [][Next]_vars

(* A thread inside an operation goes on, the receiving side polls its      *)
(* carrier, and received pages are dropped some time.  A thread that       *)
(* retries a frame does not find the receiver busy for ever: another       *)
(* thread's accept is a few instructions.  Nobody has to call begin() or   *)
(* close().                                                                *)
Fairness ==
    /\ \A t \in Senders : WF_vars(SenderStep(t))
    /\ \A r \in Receivers : WF_vars(ReceiverStep(r)) /\ SF_vars(BeginAccept(r))
    /\ WF_vars(Reclaim)

FairSpec == Spec /\ Fairness

-----------------------------------------------------------------------------
SenderLabels == {"idle", "enter", "acquire", "writing", "cancel", "permit", "reserve",
                 "pending", "outbound", "mark", "finish", "closeid", "close"}
ReceiverLabels == {"idle", "have", "check", "invalid", "reject", "bad"}

Descriptors == [page : Pages, gen : Nat]
Handles ==
    [kind : {"None", "Page", "Close"}, id : Nat,
     desc : Descriptors \cup {NoPage}, permit : Permits \cup {"none"}]

TxStates == [phase : {"Idle", "Writing", "OutboundPending", "Closed"}, next : Nat]
RxStates == [phase : {"Idle", "Accepting", "Closed"}, next : Nat]

TypeOK ==
    /\ gen \in [Pages -> Nat]
    /\ st \in [Pages -> {"Free", "Attached", "Detached", "Exhausted"}]
    /\ leased \subseteq Permits
    /\ tx \in [Streams -> TxStates] /\ rx \in [Streams -> RxStates]
    /\ wire \in [Streams -> Seq(Handles)]
    /\ pc \in [Senders -> SenderLabels] /\ h \in [Senders -> Handles]
    /\ rpc \in [Receivers -> ReceiverLabels] /\ frame \in [Receivers -> Handles]
    /\ received \subseteq Handles /\ halfway \subseteq Handles
    /\ budget \in 0 .. MaxBegins
    /\ sent \in [Streams -> Seq(Descriptors)] /\ got \in [Streams -> Seq(Descriptors)]

(* "One PageTx allows at most one active writer or unsent outbound page":  *)
(* the shared phase excludes the threads that hold a clone of one sender,  *)
(* from enter_writing() to mark_sent().                                    *)
Working(t) == pc[t] \notin {"idle", "enter", "permit", "closeid", "close"}

SingleHandle ==
    \A t, u \in Senders :
        Working(t) /\ Working(u) /\ TxOf[t] = TxOf[u] => t = u

(* A frame whose page the receiver has already reclaimed: a retry of it    *)
(* answers for nothing.                                                    *)
Spent(r) ==
    rpc[r] = "bad" \/ (rpc[r] \in {"have", "check"} /\ ~ Detached(frame[r].desc))

(* Everybody who answers for a permit, and for the page that goes with it  *)
(* if the handle has one: a sender's handle, a frame on the carrier or in  *)
(* a receiver's hands, a received page.                                    *)
TxHeld == {<<"tx", t, h[t]>> : t \in {u \in Senders : h[u].permit # "none"}}
WireHeld ==
    UNION {{<<"wire", s, wire[s][i]>> : i \in {j \in DOMAIN wire[s] : wire[s][j].kind = "Page"}}
           : s \in Streams}
RxHeld == {<<"rx", r, frame[r]>> : r \in {q \in Receivers : frame[q].kind = "Page" /\ ~ Spent(q)}}
GotHeld == {<<"got", 0, x>> : x \in received}
HalfHeld == {<<"half", 0, x>> : x \in halfway}
Holdings == TxHeld \cup WireHeld \cup RxHeld \cup GotHeld \cup HalfHeld

(* Permits are never lost and never given back twice, through every error, *)
(* retry and drop path: the leased ones are exactly those somebody answers *)
(* for, and each has one holder.  A permit has no generation, so a second  *)
(* release would free somebody else's.                                     *)
PermitsConserved ==
    /\ leased = {x[3].permit : x \in Holdings}
    /\ \A x, y \in Holdings : x[3].permit = y[3].permit => x = y

(* A sender that got a permit finds a page, unless more permits are out    *)
(* than there are pages left: never with the sizes of pg_fusion, which     *)
(* gives both pools page_count entries, until a page is out of             *)
(* generations.                                                            *)
PermitGuaranteesPage ==
    \A t \in Senders : pc[t] = "acquire" =>
        \/ \E i \in Pages : st[i] = "Free"
        \/ Cardinality(leased) > Cardinality({i \in Pages : st[i] # "Exhausted"})

(* A page has one handle, permits are conserved, and whoever holds one     *)
(* finds a page in the pool.                                               *)
PermitsStandForPages == TypeOK /\ SingleHandle /\ PermitsConserved /\ PermitGuaranteesPage

(* The receiver sees the sent pages in order, none twice and none skipped, *)
(* whatever threads share the two handles.                                 *)
InOrder ==
    \A s \in Streams : Len(got[s]) <= Len(sent[s]) /\ got[s] = SubSeq(sent[s], 1, Len(got[s]))

(* Once nobody begins another page, every page put on the wire has been    *)
(* received, and all pages and permits are home: unless an outbound page   *)
(* was dropped, which consumes a transfer id, or a malformed one was met.  *)
Settled ==
    /\ \A s \in Streams \ broken : got[s] = sent[s]
    /\ broken = {} => leased = {} /\ \A i \in Pages : st[i] = "Free"

=============================================================================
