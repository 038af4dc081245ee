-------------------------- MODULE PageStream_proof --------------------------
(***************************************************************************)
(* Proofs about page streams, for any number of streams, of threads that   *)
(* share a sender or a receiver, of pages and of permits.                  *)
(*                                                                         *)
(* OrderInv is the invariant behind InOrder.  A stream either has no gap:  *)
(* the n-th page sent has transfer id n and is what the frame with this id *)
(* carries; or an outbound page was dropped and nobody carries its id k    *)
(* any more, so that the receiver never gets past k.                       *)
(***************************************************************************)
EXTENDS PageStream, TLAPS

(* What a thread's handle holds at each place of begin(), finish(), the    *)
(* drops and close().                                                      *)
SenderOK ==
    \A t \in Senders :
        /\ pc[t] \in {"idle", "mark", "closeid"} => h[t] = NoHandle
        /\ pc[t] \in {"enter", "acquire", "writing", "cancel", "reserve", "pending", "outbound",
                      "finish", "permit"} => h[t].permit \in Permits
        /\ pc[t] \in {"writing", "reserve", "pending", "outbound"} => h[t].desc \in Descriptors
        /\ pc[t] \in {"enter", "acquire", "cancel", "finish", "permit"} => h[t].desc = NoPage
        /\ pc[t] \in {"pending", "outbound"} => h[t].kind = "Page"
        /\ pc[t] = "close" => h[t].kind = "Close" /\ h[t].permit = "none"

(* The shared phase says what the thread that owns it is doing.            *)
PhasesOK ==
    \A t \in Senders :
        /\ pc[t] \in {"acquire", "writing", "cancel", "reserve", "pending"} => Phase(t) = "Writing"
        /\ pc[t] \in {"outbound", "mark", "finish"} => Phase(t) = "OutboundPending"
        /\ pc[t] \in {"closeid", "close"} => Phase(t) = "Closed"

(* What a receiver thread's frame is, and that one at most is accepting.   *)
ReceiverOK ==
    \A r \in Receivers :
        /\ rpc[r] = "idle" => frame[r] = NoHandle
        /\ rpc[r] \in {"invalid", "reject", "bad"} => frame[r].kind = "Page"
        /\ rpc[r] \in {"check", "invalid"} =>
              /\ rx[RxOf[r]].phase = "Accepting"
              /\ \A q \in Receivers : rpc[q] \in {"check", "invalid"} /\ RxOf[q] = RxOf[r] => q = r

FramesOn(w) == {w[i] : i \in DOMAIN w}

(* The frames under way to the receiver of a stream: on the carrier, or in *)
(* the hands of one of its threads.                                        *)
InFlight(s) ==
    FramesOn(wire[s])
    \cup {frame[r] : r \in {q \in Receivers : RxOf[q] = s /\ rpc[q] # "idle"}}

(* A frame under way is a page with its permit, or the close of a stream   *)
(* that takes no more pages.                                               *)
FramesOK ==
    \A s \in Streams : \A f \in InFlight(s) :
        \/ f.kind = "Page" /\ f.desc \in Descriptors /\ f.permit \in Permits
        \/ f.kind = "Close" /\ f.permit = "none" /\ tx[s].phase = "Closed"

Carrying(t, s) == TxOf[t] = s /\ pc[t] \in {"pending", "outbound"}

(* A frame below k carries the page sent under its id.                     *)
Matches(s, f, k) ==
    f.kind = "Page" /\ f.id < k => f.id \in 1 .. Len(sent[s]) /\ sent[s][f.id] = f.desc

(* Every id up to the number of pages sent has been sent, and the next id  *)
(* is the next page's.                                                     *)
NoGap(s) ==
    /\ \A f \in InFlight(s) : f.kind = "Page" => f.id <= Len(sent[s])
    /\ \A f \in InFlight(s) : Matches(s, f, Len(sent[s]) + 1)
    /\ \A t \in Senders : Carrying(t, s) => h[t].id = Len(sent[s]) + 1
    /\ tx[s].phase # "Closed" =>
          tx[s].next = Len(sent[s]) + IF \E t \in Senders : Carrying(t, s) THEN 2 ELSE 1

(* An outbound page was dropped: the receiver still waits for its id k,    *)
(* which nobody carries.                                                   *)
GapAt(s, k) ==
    /\ rx[s].next <= k /\ k < tx[s].next
    /\ \A f \in InFlight(s) : f.id # k /\ Matches(s, f, k) /\ (f.kind = "Close" => f.id > k)
    /\ \A t \in Senders : TxOf[t] = s /\ pc[t] \in {"pending", "outbound", "close"} => h[t].id > k

(* What was accepted is what was sent so far, in order.                    *)
Progress(s) ==
    /\ rx[s].phase = "Closed" => tx[s].phase = "Closed"
    /\ rx[s].phase # "Closed" => rx[s].next = Len(got[s]) + 1
    /\ Len(got[s]) <= Len(sent[s])
    /\ \A i \in 1 .. Len(got[s]) : got[s][i] = sent[s][i]

InOrderOn(s) == Progress(s) /\ (NoGap(s) \/ \E k \in Nat : GapAt(s, k))
OrderOK == \A s \in Streams : InOrderOn(s)

OrderInv == TypeOK /\ SenderOK /\ PhasesOK /\ SingleHandle /\ ReceiverOK /\ FramesOK /\ OrderOK

-----------------------------------------------------------------------------
(* Storing one field of a handle leaves a handle.                          *)
LEMMA HandleStores ==
    ASSUME NEW x \in Handles
    PROVE  /\ \A k \in Permits \cup {"none"} : [x EXCEPT !.permit = k] \in Handles
           /\ \A d \in Descriptors \cup {NoPage} : [x EXCEPT !.desc = d] \in Handles
           /\ \A n \in Nat, c \in {"None", "Page", "Close"} :
                 [x EXCEPT !.id = n, !.kind = c] \in Handles
           /\ NoHandle \in Handles
BY Zenon DEF Handles, NoHandle

(* Storing a phase leaves the other streams and the transfer ids alone.    *)
LEMMA PhaseStores ==
    ASSUME NEW s \in Streams
    PROVE  /\ tx \in [Streams -> TxStates] =>
                 \A c \in {"Idle", "Writing", "OutboundPending", "Closed"} :
                     LET x == [tx EXCEPT ![s].phase = c] IN
                     /\ x \in [Streams -> TxStates]
                     /\ \A z \in Streams : /\ x[z].next = tx[z].next
                                           /\ x[z].phase = IF z = s THEN c ELSE tx[z].phase
           /\ rx \in [Streams -> RxStates] =>
                 \A c \in {"Idle", "Accepting", "Closed"} :
                     LET x == [rx EXCEPT ![s].phase = c] IN
                     /\ x \in [Streams -> RxStates]
                     /\ \A z \in Streams : /\ x[z].next = rx[z].next
                                           /\ x[z].phase = IF z = s THEN c ELSE rx[z].phase
BY Zenon DEF TxStates, RxStates

(* The frames under way stay sound when none is added and no sender        *)
(* reopens.                                                                *)
LEMMA FramesKept ==
    ASSUME FramesOK, \A s \in Streams : InFlight(s)' \subseteq InFlight(s),
           \A s \in Streams : tx[s].phase = "Closed" => tx'[s].phase = "Closed"
    PROVE  FramesOK'
BY Zenon DEF FramesOK

(* A step that sends and accepts nothing on a stream keeps its order ...   *)
LEMMA StreamKept ==
    ASSUME NEW s \in Streams, InOrderOn(s), InFlight(s)' \subseteq InFlight(s),
           sent'[s] = sent[s], got'[s] = got[s],
           tx'[s].next = tx[s].next, rx'[s].next = rx[s].next,
           tx[s].phase = "Closed" => tx'[s].phase = "Closed",
           rx'[s].phase = "Closed" <=> rx[s].phase = "Closed",
           \A t \in Senders : TxOf[t] = s =>
               /\ Carrying(t, s)' <=> Carrying(t, s)
               /\ pc'[t] = "close" => pc[t] = "close"
               /\ pc'[t] \in {"pending", "outbound", "close"} => h'[t].id = h[t].id
    PROVE  InOrderOn(s)'
<1>1. Progress(s) /\ (NoGap(s) \/ \E k \in Nat : GapAt(s, k))  BY Zenon DEF InOrderOn
<1>2. Progress(s)'  BY Zenon, <1>1 DEF Progress
<1>3. ASSUME NoGap(s) PROVE NoGap(s)'
  BY Zenon, <1>3 DEF NoGap, Matches, Carrying
<1>4. ASSUME NEW k \in Nat, GapAt(s, k) PROVE GapAt(s, k)'
  BY Zenon, <1>4 DEF GapAt, Matches, Carrying
<1> QED  BY Zenon, <1>1, <1>2, <1>3, <1>4 DEF InOrderOn

(* ... and one that does so on none keeps OrderOK.                         *)
LEMMA OrderKept ==
    ASSUME OrderOK, \A s \in Streams : InFlight(s)' \subseteq InFlight(s),
           sent' = sent, got' = got,
           \A s \in Streams :
               /\ tx'[s].next = tx[s].next /\ rx'[s].next = rx[s].next
               /\ tx[s].phase = "Closed" => tx'[s].phase = "Closed"
               /\ rx'[s].phase = "Closed" <=> rx[s].phase = "Closed",
           \A t \in Senders :
               /\ \A s \in Streams : Carrying(t, s)' <=> Carrying(t, s)
               /\ pc'[t] = "close" => pc[t] = "close"
               /\ pc'[t] \in {"pending", "outbound", "close"} => h'[t].id = h[t].id
    PROVE  OrderOK'
BY Zenon, StreamKept DEF OrderOK

(* BeginPermit: IssuedTx::begin() takes a permit.                          *)
LEMMA BeginPermitOrders ==
    ASSUME OrderInv, NEW t \in Senders, BeginPermit(t) PROVE OrderInv'
<1>t. /\ TxOf[t] \in Streams /\ h[t] \in Handles /\ tx[TxOf[t]].next \in Nat
      /\ tx[TxOf[t]].phase \in {"Idle", "Writing", "OutboundPending", "Closed"}
  BY Zenon, StreamAssumption DEF OrderInv, TypeOK, TxStates
<1>c. /\ pc[t] = "idle" /\ pc' \in [Senders -> SenderLabels]
      /\ \A u \in Senders : pc'[u] = IF u = t THEN "enter" ELSE pc[u]
  BY Zenon DEF OrderInv, TypeOK, SenderLabels, BeginPermit, Goto
<1>b. leased' \subseteq Permits /\ budget' \in 0 .. MaxBegins
  BY StreamAssumption DEF OrderInv, TypeOK, BeginPermit, TryAcquire
<1>k. PICK k \in Permits : h' = [h EXCEPT ![t].permit = k]
  BY Zenon DEF BeginPermit
<1>h. h' \in [Senders -> Handles] /\ \A u \in Senders \ {t} : h'[u] = h[u]
  BY Zenon, <1>t, <1>k, HandleStores DEF OrderInv, TypeOK
<1>1. TypeOK'
  BY Zenon, <1>c, <1>b, <1>h DEF OrderInv, TypeOK, BeginPermit, Goto, TryAcquire, sender, receiver,
     pool
<1>2. SenderOK'
  BY <1>t, <1>c, <1>h, <1>k DEF OrderInv, TypeOK, SenderOK, Handles, NoHandle, BeginPermit,
     Goto, TryAcquire, sender, receiver, pool
<1>3. PhasesOK' /\ SingleHandle'
  BY Zenon, <1>t, <1>c, StreamAssumption DEF OrderInv, PhasesOK, Phase, SingleHandle, Working,
     BeginPermit, Goto, TryAcquire, sender, receiver, pool
<1>4. ReceiverOK' /\ \A s \in Streams : InFlight(s)' = InFlight(s)
  BY DEF OrderInv, ReceiverOK, InFlight, BeginPermit, Goto, TryAcquire, sender, receiver,
     pool
<1>5. FramesOK' /\ OrderOK'
  <2>1. \A s \in Streams : tx'[s].next = tx[s].next /\ (tx[s].phase = "Closed" => tx'[s].phase = "Closed")
    BY Zenon, <1>t, <1>c DEF OrderInv, PhasesOK, Phase, BeginPermit, Goto, TryAcquire, sender,
       receiver, pool
  <2>2. ASSUME NEW u \in Senders
        PROVE  /\ \A s \in Streams : Carrying(u, s)' <=> Carrying(u, s)
               /\ pc'[u] = "close" => pc[u] = "close"
               /\ pc'[u] \in {"pending", "outbound", "close"} => h'[u].id = h[u].id
    BY Zenon, <1>c, <1>h DEF Carrying
  <2>3. UNCHANGED <<rx, sent, got>>
    BY Zenon DEF BeginPermit, Goto, TryAcquire, sender, receiver, pool
  <2> QED
    BY Zenon, <1>4, <2>1, <2>2, <2>3, FramesKept, OrderKept DEF OrderInv
<1> QED  BY Zenon, <1>1, <1>2, <1>3, <1>4, <1>5 DEF OrderInv

(* EnterWriting: enter_writing() takes the phase.                          *)
LEMMA EnterWritingOrders ==
    ASSUME OrderInv, NEW t \in Senders, EnterWriting(t) PROVE OrderInv'
<1>t. /\ TxOf[t] \in Streams /\ h[t] \in Handles /\ tx[TxOf[t]].next \in Nat
      /\ tx[TxOf[t]].phase \in {"Idle", "Writing", "OutboundPending", "Closed"}
  BY Zenon, StreamAssumption DEF OrderInv, TypeOK, TxStates
<1>c. /\ pc[t] = "enter" /\ pc' \in [Senders -> SenderLabels]
      /\ \A u \in Senders : pc'[u] = IF u = t THEN "acquire" ELSE pc[u]
  BY Zenon DEF OrderInv, TypeOK, SenderLabels, EnterWriting, Goto
<1>i. tx[TxOf[t]].phase = "Idle"
  BY Zenon DEF EnterWriting, Phase
<1>x. /\ tx' \in [Streams -> TxStates] /\ h' = h
      /\ \A z \in Streams : /\ tx'[z].next = tx[z].next
                            /\ tx'[z].phase = IF z = TxOf[t] THEN "Writing" ELSE tx[z].phase
  BY Zenon, <1>t, PhaseStores DEF OrderInv, TypeOK, EnterWriting, SetPhase
<1>1. TypeOK'
  BY Zenon, <1>c, <1>x DEF OrderInv, TypeOK, EnterWriting, Goto, SetPhase, Phase, sender, receiver,
     pool
<1>2. SenderOK'
  BY <1>t, <1>c, <1>x DEF OrderInv, TypeOK, SenderOK, Handles, NoHandle
<1>n. \A u \in Senders : TxOf[u] = TxOf[t] => ~ Working(u) /\ pc[u] \notin {"closeid", "close"}
  BY Zenon, <1>i DEF OrderInv, TypeOK, SenderLabels, PhasesOK, Phase, Working
<1>3. PhasesOK' /\ SingleHandle'
  <2>1. PhasesOK'
    BY Zenon, <1>t, <1>c, <1>n, <1>x, StreamAssumption DEF OrderInv, PhasesOK, Phase, Working
  <2>2. SingleHandle'
    BY Zenon, <1>t, <1>c, <1>n, <1>x DEF OrderInv, SingleHandle, Working
  <2> QED  BY Zenon, <2>1, <2>2
<1>4. ReceiverOK' /\ \A s \in Streams : InFlight(s)' = InFlight(s)
  BY Zenon DEF OrderInv, ReceiverOK, InFlight, EnterWriting, Goto, SetPhase, Phase, sender,
     receiver, pool
<1>5. FramesOK' /\ OrderOK'
  <2>1. \A s \in Streams : tx'[s].next = tx[s].next /\ (tx[s].phase = "Closed" => tx'[s].phase = "Closed")
    BY Zenon, <1>t, <1>c, <1>x DEF OrderInv, PhasesOK, Phase, EnterWriting, Goto, SetPhase, sender,
       receiver, pool
  <2>2. ASSUME NEW u \in Senders
        PROVE  /\ \A s \in Streams : Carrying(u, s)' <=> Carrying(u, s)
               /\ pc'[u] = "close" => pc[u] = "close"
               /\ pc'[u] \in {"pending", "outbound", "close"} => h'[u].id = h[u].id
    BY Zenon, <1>c, <1>x DEF Carrying
  <2>3. UNCHANGED <<rx, sent, got>>
    BY Zenon DEF EnterWriting, Goto, SetPhase, Phase, sender, receiver, pool
  <2> QED
    BY Zenon, <1>4, <2>1, <2>2, <2>3, FramesKept, OrderKept DEF OrderInv
<1> QED  BY Zenon, <1>1, <1>2, <1>3, <1>4, <1>5 DEF OrderInv

(* EnterRefused: enter_writing() is Busy or Closed.                        *)
LEMMA EnterRefusedOrders ==
    ASSUME OrderInv, NEW t \in Senders, EnterRefused(t) PROVE OrderInv'
<1>t. /\ TxOf[t] \in Streams /\ h[t] \in Handles /\ tx[TxOf[t]].next \in Nat
      /\ tx[TxOf[t]].phase \in {"Idle", "Writing", "OutboundPending", "Closed"}
  BY Zenon, StreamAssumption DEF OrderInv, TypeOK, TxStates
<1>c. /\ pc[t] = "enter" /\ pc' \in [Senders -> SenderLabels]
      /\ \A u \in Senders : pc'[u] = IF u = t THEN "permit" ELSE pc[u]
  BY Zenon DEF OrderInv, TypeOK, SenderLabels, EnterRefused, Goto
<1>1. TypeOK'
  BY Zenon, <1>c DEF OrderInv, TypeOK, EnterRefused, Goto, sender, receiver, pool
<1>2. SenderOK'
  BY <1>t, <1>c DEF OrderInv, TypeOK, SenderOK, Handles, NoHandle, EnterRefused, Goto,
     sender, receiver, pool
<1>3. PhasesOK' /\ SingleHandle'
  BY Zenon, <1>t, <1>c, StreamAssumption DEF OrderInv, PhasesOK, Phase, SingleHandle, Working,
     EnterRefused, Goto, sender, receiver, pool
<1>4. ReceiverOK' /\ \A s \in Streams : InFlight(s)' = InFlight(s)
  BY Zenon DEF OrderInv, ReceiverOK, InFlight, EnterRefused, Goto, sender, receiver, pool
<1>5. FramesOK' /\ OrderOK'
  <2>1. \A s \in Streams : tx'[s].next = tx[s].next /\ (tx[s].phase = "Closed" => tx'[s].phase = "Closed")
    BY Zenon, <1>t, <1>c DEF OrderInv, PhasesOK, Phase, EnterRefused, Goto, sender, receiver, pool
  <2>2. ASSUME NEW u \in Senders
        PROVE  /\ \A s \in Streams : Carrying(u, s)' <=> Carrying(u, s)
               /\ pc'[u] = "close" => pc[u] = "close"
               /\ pc'[u] \in {"pending", "outbound", "close"} => h'[u].id = h[u].id
    BY Zenon, <1>c DEF Carrying, EnterRefused, Goto, sender, receiver, pool
  <2>3. UNCHANGED <<rx, sent, got>>
    BY Zenon DEF EnterRefused, Goto, sender, receiver, pool
  <2> QED
    BY Zenon, <1>4, <2>1, <2>2, <2>3, FramesKept, OrderKept DEF OrderInv
<1> QED  BY Zenon, <1>1, <1>2, <1>3, <1>4, <1>5 DEF OrderInv

(* AcquirePage: the writer gets a page.                                    *)
LEMMA AcquirePageOrders ==
    ASSUME OrderInv, NEW t \in Senders, AcquirePage(t) PROVE OrderInv'
<1>t. /\ TxOf[t] \in Streams /\ h[t] \in Handles /\ tx[TxOf[t]].next \in Nat
      /\ tx[TxOf[t]].phase \in {"Idle", "Writing", "OutboundPending", "Closed"}
  BY Zenon, StreamAssumption DEF OrderInv, TypeOK, TxStates
<1>c. /\ pc[t] = "acquire" /\ pc' \in [Senders -> SenderLabels]
      /\ \A u \in Senders : pc'[u] = IF u = t THEN "writing" ELSE pc[u]
  BY Zenon DEF OrderInv, TypeOK, SenderLabels, AcquirePage, Goto
<1>k. PICK i \in Pages : h' = [h EXCEPT ![t].desc = [page |-> i, gen |-> gen[i] + 1]]
  BY Zenon DEF AcquirePage
<1>d. [page |-> i, gen |-> gen[i] + 1] \in Descriptors
  BY DEF OrderInv, TypeOK, Descriptors
<1>h. h' \in [Senders -> Handles] /\ \A u \in Senders \ {t} : h'[u] = h[u]
  BY Zenon, <1>t, <1>k, <1>d, HandleStores DEF OrderInv, TypeOK
<1>p. gen' \in [Pages -> Nat] /\ st' \in [Pages -> {"Free", "Attached", "Detached", "Exhausted"}]
  BY DEF OrderInv, TypeOK, AcquirePage, Goto, Pool!Acquire, sender, receiver, pool
<1>1. TypeOK'
  BY Zenon, <1>c, <1>h, <1>p DEF OrderInv, TypeOK, AcquirePage, Goto, Pool!Acquire, sender,
     receiver, pool
<1>2. SenderOK'
  BY <1>t, <1>c, <1>h, <1>k, <1>d DEF OrderInv, TypeOK, SenderOK, Handles, NoHandle,
     AcquirePage, Goto, Pool!Acquire, sender, receiver, pool
<1>3. PhasesOK' /\ SingleHandle'
  BY <1>t, <1>c, StreamAssumption DEF OrderInv, PhasesOK, Phase, SingleHandle, Working,
     AcquirePage, Goto, Pool!Acquire, sender, receiver, pool
<1>4. ReceiverOK' /\ \A s \in Streams : InFlight(s)' = InFlight(s)
  BY DEF OrderInv, ReceiverOK, InFlight, AcquirePage, Goto, Pool!Acquire, sender, receiver,
     pool
<1>5. FramesOK' /\ OrderOK'
  <2>1. \A s \in Streams : tx'[s].next = tx[s].next /\ (tx[s].phase = "Closed" => tx'[s].phase = "Closed")
    BY Zenon, <1>t, <1>c DEF OrderInv, PhasesOK, Phase, AcquirePage, Goto, Pool!Acquire, sender,
       receiver, pool
  <2>2. ASSUME NEW u \in Senders
        PROVE  /\ \A s \in Streams : Carrying(u, s)' <=> Carrying(u, s)
               /\ pc'[u] = "close" => pc[u] = "close"
               /\ pc'[u] \in {"pending", "outbound", "close"} => h'[u].id = h[u].id
    BY Zenon, <1>c, <1>h DEF Carrying
  <2>3. UNCHANGED <<rx, sent, got>>
    BY Zenon DEF AcquirePage, Goto, Pool!Acquire, sender, receiver, pool
  <2> QED
    BY Zenon, <1>4, <2>1, <2>2, <2>3, FramesKept, OrderKept DEF OrderInv
<1> QED  BY Zenon, <1>1, <1>2, <1>3, <1>4, <1>5 DEF OrderInv

(* AcquireEmpty: the pool is empty.                                        *)
LEMMA AcquireEmptyOrders ==
    ASSUME OrderInv, NEW t \in Senders, AcquireEmpty(t) PROVE OrderInv'
<1>t. /\ TxOf[t] \in Streams /\ h[t] \in Handles /\ tx[TxOf[t]].next \in Nat
      /\ tx[TxOf[t]].phase \in {"Idle", "Writing", "OutboundPending", "Closed"}
  BY Zenon, StreamAssumption DEF OrderInv, TypeOK, TxStates
<1>c. /\ pc[t] = "acquire" /\ pc' \in [Senders -> SenderLabels]
      /\ \A u \in Senders : pc'[u] = IF u = t THEN "cancel" ELSE pc[u]
  BY Zenon DEF OrderInv, TypeOK, SenderLabels, AcquireEmpty, Goto
<1>1. TypeOK'
  BY Zenon, <1>c DEF OrderInv, TypeOK, AcquireEmpty, Goto, sender, receiver, pool
<1>2. SenderOK'
  BY <1>t, <1>c DEF OrderInv, TypeOK, SenderOK, Handles, NoHandle, AcquireEmpty, Goto,
     sender, receiver, pool
<1>3. PhasesOK' /\ SingleHandle'
  BY Zenon, <1>t, <1>c, StreamAssumption DEF OrderInv, PhasesOK, Phase, SingleHandle, Working,
     AcquireEmpty, Goto, sender, receiver, pool
<1>4. ReceiverOK' /\ \A s \in Streams : InFlight(s)' = InFlight(s)
  BY Zenon DEF OrderInv, ReceiverOK, InFlight, AcquireEmpty, Goto, sender, receiver, pool
<1>5. FramesOK' /\ OrderOK'
  <2>1. \A s \in Streams : tx'[s].next = tx[s].next /\ (tx[s].phase = "Closed" => tx'[s].phase = "Closed")
    BY Zenon, <1>t, <1>c DEF OrderInv, PhasesOK, Phase, AcquireEmpty, Goto, sender, receiver, pool
  <2>2. ASSUME NEW u \in Senders
        PROVE  /\ \A s \in Streams : Carrying(u, s)' <=> Carrying(u, s)
               /\ pc'[u] = "close" => pc[u] = "close"
               /\ pc'[u] \in {"pending", "outbound", "close"} => h'[u].id = h[u].id
    BY Zenon, <1>c DEF Carrying, AcquireEmpty, Goto, sender, receiver, pool
  <2>3. UNCHANGED <<rx, sent, got>>
    BY Zenon DEF AcquireEmpty, Goto, sender, receiver, pool
  <2> QED
    BY Zenon, <1>4, <2>1, <2>2, <2>3, FramesKept, OrderKept DEF OrderInv
<1> QED  BY Zenon, <1>1, <1>2, <1>3, <1>4, <1>5 DEF OrderInv

(* DropWriter: the writer is dropped.                                      *)
LEMMA DropWriterOrders ==
    ASSUME OrderInv, NEW t \in Senders, DropWriter(t) PROVE OrderInv'
<1>t. /\ TxOf[t] \in Streams /\ h[t] \in Handles /\ tx[TxOf[t]].next \in Nat
      /\ tx[TxOf[t]].phase \in {"Idle", "Writing", "OutboundPending", "Closed"}
  BY Zenon, StreamAssumption DEF OrderInv, TypeOK, TxStates
<1>c. /\ pc[t] = "writing" /\ pc' \in [Senders -> SenderLabels]
      /\ \A u \in Senders : pc'[u] = IF u = t THEN "cancel" ELSE pc[u]
  BY Zenon DEF OrderInv, TypeOK, SenderLabels, DropWriter, Goto
<1>h. h' \in [Senders -> Handles] /\ \A u \in Senders \ {t} : h'[u] = h[u]
  BY Zenon, <1>t, HandleStores DEF OrderInv, TypeOK, DropWriter
<1>p. gen' \in [Pages -> Nat] /\ st' \in [Pages -> {"Free", "Attached", "Detached", "Exhausted"}]
  BY Zenon DEF OrderInv, TypeOK, DropWriter, Goto, ReleasePage, Pool!Release, sender, receiver,
     pool
<1>1. TypeOK'
  BY Zenon, <1>c, <1>h, <1>p DEF OrderInv, TypeOK, DropWriter, Goto, ReleasePage, Pool!Release,
     sender, receiver, pool
<1>2. SenderOK'
  BY <1>t, <1>c, <1>h DEF OrderInv, TypeOK, SenderOK, Handles, NoHandle, DropWriter, Goto,
     ReleasePage, Pool!Release, sender, receiver, pool
<1>3. PhasesOK' /\ SingleHandle'
  BY Zenon, <1>t, <1>c, StreamAssumption DEF OrderInv, PhasesOK, Phase, SingleHandle, Working,
     DropWriter, Goto, ReleasePage, Pool!Release, sender, receiver, pool
<1>4. ReceiverOK' /\ \A s \in Streams : InFlight(s)' = InFlight(s)
  BY Zenon DEF OrderInv, ReceiverOK, InFlight, DropWriter, Goto, ReleasePage, Pool!Release,
     sender, receiver, pool
<1>5. FramesOK' /\ OrderOK'
  <2>1. \A s \in Streams : tx'[s].next = tx[s].next /\ (tx[s].phase = "Closed" => tx'[s].phase = "Closed")
    BY Zenon, <1>t, <1>c DEF OrderInv, PhasesOK, Phase, DropWriter, Goto, ReleasePage,
       Pool!Release, sender, receiver, pool
  <2>2. ASSUME NEW u \in Senders
        PROVE  /\ \A s \in Streams : Carrying(u, s)' <=> Carrying(u, s)
               /\ pc'[u] = "close" => pc[u] = "close"
               /\ pc'[u] \in {"pending", "outbound", "close"} => h'[u].id = h[u].id
    BY Zenon, <1>c, <1>h DEF Carrying
  <2>3. UNCHANGED <<rx, sent, got>>
    BY Zenon DEF DropWriter, Goto, ReleasePage, Pool!Release, sender, receiver, pool
  <2> QED
    BY Zenon, <1>4, <2>1, <2>2, <2>3, FramesKept, OrderKept DEF OrderInv
<1> QED  BY Zenon, <1>1, <1>2, <1>3, <1>4, <1>5 DEF OrderInv

(* CancelWriter: cancel_writer() gives the phase back.                     *)
LEMMA CancelWriterOrders ==
    ASSUME OrderInv, NEW t \in Senders, CancelWriter(t) PROVE OrderInv'
<1>t. /\ TxOf[t] \in Streams /\ h[t] \in Handles /\ tx[TxOf[t]].next \in Nat
      /\ tx[TxOf[t]].phase \in {"Idle", "Writing", "OutboundPending", "Closed"}
  BY Zenon, StreamAssumption DEF OrderInv, TypeOK, TxStates
<1>c. /\ pc[t] = "cancel" /\ pc' \in [Senders -> SenderLabels]
      /\ \A u \in Senders : pc'[u] = IF u = t THEN "permit" ELSE pc[u]
  BY Zenon DEF OrderInv, TypeOK, SenderLabels, CancelWriter, Goto
<1>x. /\ tx' \in [Streams -> TxStates] /\ h' = h
      /\ \A z \in Streams : /\ tx'[z].next = tx[z].next
                            /\ tx'[z].phase = IF z = TxOf[t] THEN "Idle" ELSE tx[z].phase
  BY Zenon, <1>t, PhaseStores DEF OrderInv, TypeOK, CancelWriter, SetPhase
<1>1. TypeOK'
  BY Zenon, <1>c, <1>x DEF OrderInv, TypeOK, CancelWriter, Goto, SetPhase, sender, receiver, pool
<1>2. SenderOK'
  BY <1>t, <1>c, <1>x DEF OrderInv, TypeOK, SenderOK, Handles, NoHandle
<1>3. PhasesOK' /\ SingleHandle'
  BY <1>t, <1>c, <1>x, StreamAssumption DEF OrderInv, PhasesOK, Phase, SingleHandle, Working
<1>4. ReceiverOK' /\ \A s \in Streams : InFlight(s)' = InFlight(s)
  BY Zenon DEF OrderInv, ReceiverOK, InFlight, CancelWriter, Goto, SetPhase, sender, receiver,
     pool
<1>5. FramesOK' /\ OrderOK'
  <2>1. \A s \in Streams : tx'[s].next = tx[s].next /\ (tx[s].phase = "Closed" => tx'[s].phase = "Closed")
    BY Zenon, <1>t, <1>c, <1>x DEF OrderInv, PhasesOK, Phase, CancelWriter, Goto, SetPhase, sender,
       receiver, pool
  <2>2. ASSUME NEW u \in Senders
        PROVE  /\ \A s \in Streams : Carrying(u, s)' <=> Carrying(u, s)
               /\ pc'[u] = "close" => pc[u] = "close"
               /\ pc'[u] \in {"pending", "outbound", "close"} => h'[u].id = h[u].id
    BY Zenon, <1>c, <1>x DEF Carrying
  <2>3. UNCHANGED <<rx, sent, got>>
    BY Zenon DEF CancelWriter, Goto, SetPhase, sender, receiver, pool
  <2> QED
    BY Zenon, <1>4, <2>1, <2>2, <2>3, FramesKept, OrderKept DEF OrderInv
<1> QED  BY Zenon, <1>1, <1>2, <1>3, <1>4, <1>5 DEF OrderInv

(* DropPermit: the permit lease is dropped.                                *)
LEMMA DropPermitOrders ==
    ASSUME OrderInv, NEW t \in Senders, DropPermit(t) PROVE OrderInv'
<1>t. /\ TxOf[t] \in Streams /\ h[t] \in Handles /\ tx[TxOf[t]].next \in Nat
      /\ tx[TxOf[t]].phase \in {"Idle", "Writing", "OutboundPending", "Closed"}
  BY Zenon, StreamAssumption DEF OrderInv, TypeOK, TxStates
<1>c. /\ pc[t] = "permit" /\ pc' \in [Senders -> SenderLabels]
      /\ \A u \in Senders : pc'[u] = IF u = t THEN "idle" ELSE pc[u]
  BY Zenon DEF OrderInv, TypeOK, SenderLabels, DropPermit, Goto
<1>h. h' \in [Senders -> Handles] /\ \A u \in Senders \ {t} : h'[u] = h[u]
  BY Zenon, <1>t, HandleStores DEF OrderInv, TypeOK, DropPermit
<1>1. TypeOK'
  BY Zenon, <1>c, <1>h DEF OrderInv, TypeOK, DropPermit, Goto, ReleasePermit, sender, receiver,
     pool
<1>2. SenderOK'
  BY <1>t, <1>c, <1>h DEF OrderInv, TypeOK, SenderOK, Handles, NoHandle, DropPermit, Goto,
     ReleasePermit, sender, receiver, pool
<1>3. PhasesOK' /\ SingleHandle'
  BY Zenon, <1>t, <1>c, StreamAssumption DEF OrderInv, PhasesOK, Phase, SingleHandle, Working,
     DropPermit, Goto, ReleasePermit, sender, receiver, pool
<1>4. ReceiverOK' /\ \A s \in Streams : InFlight(s)' = InFlight(s)
  BY Zenon DEF OrderInv, ReceiverOK, InFlight, DropPermit, Goto, ReleasePermit, sender, receiver,
     pool
<1>5. FramesOK' /\ OrderOK'
  <2>1. \A s \in Streams : tx'[s].next = tx[s].next /\ (tx[s].phase = "Closed" => tx'[s].phase = "Closed")
    BY Zenon, <1>t, <1>c DEF OrderInv, PhasesOK, Phase, DropPermit, Goto, ReleasePermit, sender,
       receiver, pool
  <2>2. ASSUME NEW u \in Senders
        PROVE  /\ \A s \in Streams : Carrying(u, s)' <=> Carrying(u, s)
               /\ pc'[u] = "close" => pc[u] = "close"
               /\ pc'[u] \in {"pending", "outbound", "close"} => h'[u].id = h[u].id
    BY Zenon, <1>c, <1>h DEF Carrying
  <2>3. UNCHANGED <<rx, sent, got>>
    BY Zenon DEF DropPermit, Goto, ReleasePermit, sender, receiver, pool
  <2> QED
    BY Zenon, <1>4, <2>1, <2>2, <2>3, FramesKept, OrderKept DEF OrderInv
<1> QED  BY Zenon, <1>1, <1>2, <1>3, <1>4, <1>5 DEF OrderInv

(* FinishDetach: the lease becomes a descriptor.                           *)
LEMMA FinishDetachOrders ==
    ASSUME OrderInv, NEW t \in Senders, FinishDetach(t) PROVE OrderInv'
<1>t. /\ TxOf[t] \in Streams /\ h[t] \in Handles /\ tx[TxOf[t]].next \in Nat
      /\ tx[TxOf[t]].phase \in {"Idle", "Writing", "OutboundPending", "Closed"}
  BY Zenon, StreamAssumption DEF OrderInv, TypeOK, TxStates
<1>c. /\ pc[t] = "writing" /\ pc' \in [Senders -> SenderLabels]
      /\ \A u \in Senders : pc'[u] = IF u = t THEN "reserve" ELSE pc[u]
  BY Zenon DEF OrderInv, TypeOK, SenderLabels, FinishDetach, Goto
<1>p. gen' \in [Pages -> Nat] /\ st' \in [Pages -> {"Free", "Attached", "Detached", "Exhausted"}]
  BY Zenon DEF OrderInv, TypeOK, FinishDetach, Goto, Pool!Detach, sender, receiver, pool
<1>1. TypeOK'
  BY Zenon, <1>c, <1>p DEF OrderInv, TypeOK, FinishDetach, Goto, Pool!Detach, sender, receiver,
     pool
<1>2. SenderOK'
  BY Zenon, <1>t, <1>c DEF OrderInv, TypeOK, SenderOK, Handles, NoHandle, FinishDetach, Goto,
     Pool!Detach, sender, receiver, pool
<1>3. PhasesOK' /\ SingleHandle'
  BY Zenon, <1>t, <1>c, StreamAssumption DEF OrderInv, PhasesOK, Phase, SingleHandle, Working,
     FinishDetach, Goto, Pool!Detach, sender, receiver, pool
<1>4. ReceiverOK' /\ \A s \in Streams : InFlight(s)' = InFlight(s)
  BY Zenon DEF OrderInv, ReceiverOK, InFlight, FinishDetach, Goto, Pool!Detach, sender, receiver,
     pool
<1>5. FramesOK' /\ OrderOK'
  <2>1. \A s \in Streams : tx'[s].next = tx[s].next /\ (tx[s].phase = "Closed" => tx'[s].phase = "Closed")
    BY Zenon, <1>t, <1>c DEF OrderInv, PhasesOK, Phase, FinishDetach, Goto, Pool!Detach, sender,
       receiver, pool
  <2>2. ASSUME NEW u \in Senders
        PROVE  /\ \A s \in Streams : Carrying(u, s)' <=> Carrying(u, s)
               /\ pc'[u] = "close" => pc[u] = "close"
               /\ pc'[u] \in {"pending", "outbound", "close"} => h'[u].id = h[u].id
    BY Zenon, <1>c DEF Carrying, FinishDetach, Goto, Pool!Detach, sender, receiver, pool
  <2>3. UNCHANGED <<rx, sent, got>>
    BY Zenon DEF FinishDetach, Goto, Pool!Detach, sender, receiver, pool
  <2> QED
    BY Zenon, <1>4, <2>1, <2>2, <2>3, FramesKept, OrderKept DEF OrderInv
<1> QED  BY Zenon, <1>1, <1>2, <1>3, <1>4, <1>5 DEF OrderInv

(* FinishPending: finish_writer() leaves Writing.                          *)
LEMMA FinishPendingOrders ==
    ASSUME OrderInv, NEW t \in Senders, FinishPending(t) PROVE OrderInv'
<1>t. /\ TxOf[t] \in Streams /\ h[t] \in Handles /\ tx[TxOf[t]].next \in Nat
      /\ tx[TxOf[t]].phase \in {"Idle", "Writing", "OutboundPending", "Closed"}
  BY Zenon, StreamAssumption DEF OrderInv, TypeOK, TxStates
<1>c. /\ pc[t] = "pending" /\ pc' \in [Senders -> SenderLabels]
      /\ \A u \in Senders : pc'[u] = IF u = t THEN "outbound" ELSE pc[u]
  BY Zenon DEF OrderInv, TypeOK, SenderLabels, FinishPending, Goto
<1>x. /\ tx' \in [Streams -> TxStates] /\ h' = h
      /\ \A z \in Streams : /\ tx'[z].next = tx[z].next
                            /\ tx'[z].phase = IF z = TxOf[t] THEN "OutboundPending" ELSE tx[z].phase
  BY Zenon, <1>t, PhaseStores DEF OrderInv, TypeOK, FinishPending, SetPhase
<1>1. TypeOK'
  BY Zenon, <1>c, <1>x DEF OrderInv, TypeOK, FinishPending, Goto, SetPhase, sender, receiver, pool
<1>2. SenderOK'
  BY <1>t, <1>c, <1>x DEF OrderInv, TypeOK, SenderOK, Handles, NoHandle
<1>3. PhasesOK' /\ SingleHandle'
  BY <1>t, <1>c, <1>x, StreamAssumption DEF OrderInv, PhasesOK, Phase, SingleHandle, Working
<1>4. ReceiverOK' /\ \A s \in Streams : InFlight(s)' = InFlight(s)
  BY Zenon DEF OrderInv, ReceiverOK, InFlight, FinishPending, Goto, SetPhase, sender, receiver,
     pool
<1>5. FramesOK' /\ OrderOK'
  <2>1. \A s \in Streams : tx'[s].next = tx[s].next /\ (tx[s].phase = "Closed" => tx'[s].phase = "Closed")
    BY Zenon, <1>t, <1>c, <1>x DEF OrderInv, PhasesOK, Phase, FinishPending, Goto, SetPhase,
       sender, receiver, pool
  <2>2. ASSUME NEW u \in Senders
        PROVE  /\ \A s \in Streams : Carrying(u, s)' <=> Carrying(u, s)
               /\ pc'[u] = "close" => pc[u] = "close"
               /\ pc'[u] \in {"pending", "outbound", "close"} => h'[u].id = h[u].id
    BY Zenon, <1>c, <1>x DEF Carrying
  <2>3. UNCHANGED <<rx, sent, got>>
    BY Zenon DEF FinishPending, Goto, SetPhase, sender, receiver, pool
  <2> QED
    BY Zenon, <1>4, <2>1, <2>2, <2>3, FramesKept, OrderKept DEF OrderInv
<1> QED  BY Zenon, <1>1, <1>2, <1>3, <1>4, <1>5 DEF OrderInv

(* MarkSent: mark_sent().                                                  *)
LEMMA MarkSentOrders ==
    ASSUME OrderInv, NEW t \in Senders, MarkSent(t) PROVE OrderInv'
<1>t. /\ TxOf[t] \in Streams /\ h[t] \in Handles /\ tx[TxOf[t]].next \in Nat
      /\ tx[TxOf[t]].phase \in {"Idle", "Writing", "OutboundPending", "Closed"}
  BY Zenon, StreamAssumption DEF OrderInv, TypeOK, TxStates
<1>c. /\ pc[t] = "mark" /\ pc' \in [Senders -> SenderLabels]
      /\ \A u \in Senders : pc'[u] = IF u = t THEN "idle" ELSE pc[u]
  BY Zenon DEF OrderInv, TypeOK, SenderLabels, MarkSent, Goto
<1>x. /\ tx' \in [Streams -> TxStates] /\ h' = h
      /\ \A z \in Streams : /\ tx'[z].next = tx[z].next
                            /\ tx'[z].phase = IF z = TxOf[t] THEN "Idle" ELSE tx[z].phase
  BY Zenon, <1>t, PhaseStores DEF OrderInv, TypeOK, MarkSent, SetPhase
<1>1. TypeOK'
  BY Zenon, <1>c, <1>x DEF OrderInv, TypeOK, MarkSent, Goto, SetPhase, sender, receiver, pool
<1>2. SenderOK'
  BY <1>t, <1>c, <1>x DEF OrderInv, TypeOK, SenderOK, Handles, NoHandle
<1>3. PhasesOK' /\ SingleHandle'
  BY <1>t, <1>c, <1>x, StreamAssumption DEF OrderInv, PhasesOK, Phase, SingleHandle, Working
<1>4. ReceiverOK' /\ \A s \in Streams : InFlight(s)' = InFlight(s)
  BY Zenon DEF OrderInv, ReceiverOK, InFlight, MarkSent, Goto, SetPhase, sender, receiver, pool
<1>5. FramesOK' /\ OrderOK'
  <2>1. \A s \in Streams : tx'[s].next = tx[s].next /\ (tx[s].phase = "Closed" => tx'[s].phase = "Closed")
    BY Zenon, <1>t, <1>c, <1>x DEF OrderInv, PhasesOK, Phase, MarkSent, Goto, SetPhase, sender,
       receiver, pool
  <2>2. ASSUME NEW u \in Senders
        PROVE  /\ \A s \in Streams : Carrying(u, s)' <=> Carrying(u, s)
               /\ pc'[u] = "close" => pc[u] = "close"
               /\ pc'[u] \in {"pending", "outbound", "close"} => h'[u].id = h[u].id
    BY Zenon, <1>c, <1>x DEF Carrying
  <2>3. UNCHANGED <<rx, sent, got>>
    BY Zenon DEF MarkSent, Goto, SetPhase, sender, receiver, pool
  <2> QED
    BY Zenon, <1>4, <2>1, <2>2, <2>3, FramesKept, OrderKept DEF OrderInv
<1> QED  BY Zenon, <1>1, <1>2, <1>3, <1>4, <1>5 DEF OrderInv

(* FinishOutbound: a dropped outbound page gives the phase back.           *)
LEMMA FinishOutboundOrders ==
    ASSUME OrderInv, NEW t \in Senders, FinishOutbound(t) PROVE OrderInv'
<1>t. /\ TxOf[t] \in Streams /\ h[t] \in Handles /\ tx[TxOf[t]].next \in Nat
      /\ tx[TxOf[t]].phase \in {"Idle", "Writing", "OutboundPending", "Closed"}
  BY Zenon, StreamAssumption DEF OrderInv, TypeOK, TxStates
<1>c. /\ pc[t] = "finish" /\ pc' \in [Senders -> SenderLabels]
      /\ \A u \in Senders : pc'[u] = IF u = t THEN "permit" ELSE pc[u]
  BY Zenon DEF OrderInv, TypeOK, SenderLabels, FinishOutbound, Goto
<1>x. /\ tx' \in [Streams -> TxStates] /\ h' = h
      /\ \A z \in Streams : /\ tx'[z].next = tx[z].next
                            /\ tx'[z].phase = IF z = TxOf[t] THEN "Idle" ELSE tx[z].phase
  BY Zenon, <1>t, PhaseStores DEF OrderInv, TypeOK, FinishOutbound, SetPhase
<1>1. TypeOK'
  BY Zenon, <1>c, <1>x DEF OrderInv, TypeOK, FinishOutbound, Goto, SetPhase, sender, receiver, pool
<1>2. SenderOK'
  BY <1>t, <1>c, <1>x DEF OrderInv, TypeOK, SenderOK, Handles, NoHandle
<1>3. PhasesOK' /\ SingleHandle'
  BY <1>t, <1>c, <1>x, StreamAssumption DEF OrderInv, PhasesOK, Phase, SingleHandle, Working
<1>4. ReceiverOK' /\ \A s \in Streams : InFlight(s)' = InFlight(s)
  BY Zenon DEF OrderInv, ReceiverOK, InFlight, FinishOutbound, Goto, SetPhase, sender, receiver,
     pool
<1>5. FramesOK' /\ OrderOK'
  <2>1. \A s \in Streams : tx'[s].next = tx[s].next /\ (tx[s].phase = "Closed" => tx'[s].phase = "Closed")
    BY Zenon, <1>t, <1>c, <1>x DEF OrderInv, PhasesOK, Phase, FinishOutbound, Goto, SetPhase,
       sender, receiver, pool
  <2>2. ASSUME NEW u \in Senders
        PROVE  /\ \A s \in Streams : Carrying(u, s)' <=> Carrying(u, s)
               /\ pc'[u] = "close" => pc[u] = "close"
               /\ pc'[u] \in {"pending", "outbound", "close"} => h'[u].id = h[u].id
    BY Zenon, <1>c, <1>x DEF Carrying
  <2>3. UNCHANGED <<rx, sent, got>>
    BY Zenon DEF FinishOutbound, Goto, SetPhase, sender, receiver, pool
  <2> QED
    BY Zenon, <1>4, <2>1, <2>2, <2>3, FramesKept, OrderKept DEF OrderInv
<1> QED  BY Zenon, <1>1, <1>2, <1>3, <1>4, <1>5 DEF OrderInv

(* CloseExchange: close() takes the phase for good.                        *)
LEMMA CloseExchangeOrders ==
    ASSUME OrderInv, NEW t \in Senders, CloseExchange(t) PROVE OrderInv'
<1>t. /\ TxOf[t] \in Streams /\ h[t] \in Handles /\ tx[TxOf[t]].next \in Nat
      /\ tx[TxOf[t]].phase \in {"Idle", "Writing", "OutboundPending", "Closed"}
  BY Zenon, StreamAssumption DEF OrderInv, TypeOK, TxStates
<1>c. /\ pc[t] = "idle" /\ pc' \in [Senders -> SenderLabels]
      /\ \A u \in Senders : pc'[u] = IF u = t THEN "closeid" ELSE pc[u]
  BY Zenon DEF OrderInv, TypeOK, SenderLabels, CloseExchange, Goto
<1>i. tx[TxOf[t]].phase = "Idle"
  BY Zenon DEF CloseExchange, Phase
<1>x. /\ tx' \in [Streams -> TxStates] /\ h' = h
      /\ \A z \in Streams : /\ tx'[z].next = tx[z].next
                            /\ tx'[z].phase = IF z = TxOf[t] THEN "Closed" ELSE tx[z].phase
  BY Zenon, <1>t, PhaseStores DEF OrderInv, TypeOK, CloseExchange, SetPhase
<1>1. TypeOK'
  BY Zenon, <1>c, <1>x DEF OrderInv, TypeOK, CloseExchange, Goto, SetPhase, Phase, sender,
     receiver, pool
<1>2. SenderOK'
  BY <1>t, <1>c, <1>x DEF OrderInv, TypeOK, SenderOK, Handles, NoHandle
<1>n. \A u \in Senders : TxOf[u] = TxOf[t] => ~ Working(u) /\ pc[u] \notin {"closeid", "close"}
  BY Zenon, <1>i DEF OrderInv, TypeOK, SenderLabels, PhasesOK, Phase, Working
<1>3. PhasesOK' /\ SingleHandle'
  <2>1. PhasesOK'
    BY Zenon, <1>t, <1>c, <1>n, <1>x, StreamAssumption DEF OrderInv, PhasesOK, Phase, Working
  <2>2. SingleHandle'
    BY Zenon, <1>t, <1>c, <1>n, <1>x DEF OrderInv, SingleHandle, Working
  <2> QED  BY Zenon, <2>1, <2>2
<1>4. ReceiverOK' /\ \A s \in Streams : InFlight(s)' = InFlight(s)
  BY Zenon DEF OrderInv, ReceiverOK, InFlight, CloseExchange, Goto, SetPhase, Phase, sender,
     receiver, pool
<1>5. FramesOK' /\ OrderOK'
  <2>1. \A s \in Streams : tx'[s].next = tx[s].next /\ (tx[s].phase = "Closed" => tx'[s].phase = "Closed")
    BY Zenon, <1>t, <1>c, <1>x DEF OrderInv, PhasesOK, Phase, CloseExchange, Goto, SetPhase,
       sender, receiver, pool
  <2>2. ASSUME NEW u \in Senders
        PROVE  /\ \A s \in Streams : Carrying(u, s)' <=> Carrying(u, s)
               /\ pc'[u] = "close" => pc[u] = "close"
               /\ pc'[u] \in {"pending", "outbound", "close"} => h'[u].id = h[u].id
    BY Zenon, <1>c, <1>x DEF Carrying
  <2>3. UNCHANGED <<rx, sent, got>>
    BY Zenon DEF CloseExchange, Goto, SetPhase, Phase, sender, receiver, pool
  <2> QED
    BY Zenon, <1>4, <2>1, <2>2, <2>3, FramesKept, OrderKept DEF OrderInv
<1> QED  BY Zenon, <1>1, <1>2, <1>3, <1>4, <1>5 DEF OrderInv

(* BeginAccept: begin_accept() takes the receiver.                         *)
LEMMA BeginAcceptOrders ==
    ASSUME OrderInv, NEW r \in Receivers, BeginAccept(r) PROVE OrderInv'
<1>t. /\ RxOf[r] \in Streams /\ frame[r] \in Handles /\ rx[RxOf[r]] \in RxStates
      /\ rx[RxOf[r]].next \in Nat
  BY Zenon, StreamAssumption DEF OrderInv, TypeOK, RxStates
<1>c. /\ rpc[r] = "have" /\ rpc' \in [Receivers -> ReceiverLabels]
      /\ \A q \in Receivers : rpc'[q] = IF q = r THEN "check" ELSE rpc[q]
  BY Zenon DEF OrderInv, TypeOK, ReceiverLabels, BeginAccept, RxGoto
<1>x. /\ rx' \in [Streams -> RxStates]
      /\ \A z \in Streams : /\ rx'[z].next = rx[z].next
                            /\ rx'[z].phase = IF z = RxOf[r] THEN "Accepting" ELSE rx[z].phase
  BY Zenon, <1>t, PhaseStores DEF OrderInv, TypeOK, BeginAccept, SetRxPhase
<1>i. rx[RxOf[r]].phase = "Idle"  BY Zenon DEF BeginAccept
<1>f. frame' = frame  BY Zenon DEF BeginAccept
<1>1. TypeOK'
  BY Zenon, <1>c, <1>x, <1>f DEF OrderInv, TypeOK, BeginAccept, quiet, sender, receiver, pool
<1>2. SenderOK' /\ PhasesOK' /\ SingleHandle'
  BY Zenon DEF OrderInv, SenderOK, PhasesOK, Phase, SingleHandle, Working, BeginAccept, quiet,
     sender
<1>3. ReceiverOK'
  BY <1>t, <1>c, <1>x, <1>i, <1>f, StreamAssumption DEF OrderInv, ReceiverOK
<1>4. \A s \in Streams : InFlight(s)' \subseteq InFlight(s)
  BY Zenon, <1>c, <1>f DEF InFlight, BeginAccept
<1>5. \A s \in Streams : rx'[s].next = rx[s].next /\ (rx'[s].phase = "Closed" <=> rx[s].phase = "Closed")
  BY Zenon, <1>t, <1>c, <1>x, <1>i DEF OrderInv, ReceiverOK
<1>6. FramesOK' /\ OrderOK'
  <2>1. UNCHANGED <<tx, pc, h, sent, got>>
    BY Zenon DEF BeginAccept, quiet, sender
  <2> QED
    BY Zenon, <1>4, <1>5, <2>1, FramesKept, OrderKept DEF OrderInv, Carrying
<1> QED  BY Zenon, <1>1, <1>2, <1>3, <1>6 DEF OrderInv

(* UnexpectedId: accept() refuses a transfer id.                           *)
LEMMA UnexpectedIdOrders ==
    ASSUME OrderInv, NEW r \in Receivers, UnexpectedId(r) PROVE OrderInv'
<1>t. /\ RxOf[r] \in Streams /\ frame[r] \in Handles /\ rx[RxOf[r]] \in RxStates
      /\ rx[RxOf[r]].next \in Nat
  BY Zenon, StreamAssumption DEF OrderInv, TypeOK, RxStates
<1>c. /\ rpc[r] = "check" /\ rpc' \in [Receivers -> ReceiverLabels]
      /\ \A q \in Receivers : rpc'[q] = IF q = r THEN "have" ELSE rpc[q]
  BY Zenon DEF OrderInv, TypeOK, ReceiverLabels, UnexpectedId, RxGoto
<1>x. /\ rx' \in [Streams -> RxStates]
      /\ \A z \in Streams : /\ rx'[z].next = rx[z].next
                            /\ rx'[z].phase = IF z = RxOf[r] THEN "Idle" ELSE rx[z].phase
  BY Zenon, <1>t, PhaseStores DEF OrderInv, TypeOK, UnexpectedId, SetRxPhase
<1>f. frame' = frame  BY Zenon DEF UnexpectedId
<1>1. TypeOK'
  BY Zenon, <1>c, <1>x, <1>f DEF OrderInv, TypeOK, UnexpectedId, quiet, sender, receiver, pool
<1>2. SenderOK' /\ PhasesOK' /\ SingleHandle'
  BY Zenon DEF OrderInv, SenderOK, PhasesOK, Phase, SingleHandle, Working, UnexpectedId, quiet,
     sender
<1>3. ReceiverOK'
  BY <1>t, <1>c, <1>x, <1>f, StreamAssumption DEF OrderInv, ReceiverOK
<1>4. \A s \in Streams : InFlight(s)' \subseteq InFlight(s)
  BY Zenon, <1>c, <1>f DEF InFlight, UnexpectedId
<1>5. \A s \in Streams : rx'[s].next = rx[s].next /\ (rx'[s].phase = "Closed" <=> rx[s].phase = "Closed")
  BY Zenon, <1>t, <1>c, <1>x DEF OrderInv, ReceiverOK
<1>6. FramesOK' /\ OrderOK'
  <2>1. UNCHANGED <<tx, pc, h, sent, got>>
    BY Zenon DEF UnexpectedId, quiet, sender
  <2> QED
    BY Zenon, <1>4, <1>5, <2>1, FramesKept, OrderKept DEF OrderInv, Carrying
<1> QED  BY Zenon, <1>1, <1>2, <1>3, <1>6 DEF OrderInv

(* InvalidPage: the header is malformed and the page released.             *)
LEMMA InvalidPageOrders ==
    ASSUME OrderInv, NEW r \in Receivers, InvalidPage(r) PROVE OrderInv'
<1>t. /\ RxOf[r] \in Streams /\ frame[r] \in Handles /\ rx[RxOf[r]] \in RxStates
      /\ rx[RxOf[r]].next \in Nat
  BY Zenon, StreamAssumption DEF OrderInv, TypeOK, RxStates
<1>c. /\ rpc[r] = "check" /\ rpc' \in [Receivers -> ReceiverLabels]
      /\ \A q \in Receivers : rpc'[q] = IF q = r THEN "invalid" ELSE rpc[q]
  BY Zenon DEF OrderInv, TypeOK, ReceiverLabels, InvalidPage, RxGoto
<1>f. frame' = frame  BY Zenon DEF InvalidPage
<1>p. gen' \in [Pages -> Nat] /\ st' \in [Pages -> {"Free", "Attached", "Detached", "Exhausted"}]
  BY Zenon DEF OrderInv, TypeOK, InvalidPage, quiet, sender, receiver, pool, RxGoto, ReleasePage,
     Pool!Release
<1>1. TypeOK'
  BY Zenon, <1>c, <1>f, <1>p DEF OrderInv, TypeOK, InvalidPage, quiet, sender, receiver, pool,
     ReleasePage, Pool!Release
<1>2. SenderOK' /\ PhasesOK' /\ SingleHandle'
  BY Zenon DEF OrderInv, SenderOK, PhasesOK, Phase, SingleHandle, Working, InvalidPage, quiet,
     sender
<1>3. ReceiverOK'
  BY Zenon, <1>t, <1>c, <1>f, StreamAssumption DEF OrderInv, ReceiverOK, InvalidPage
<1>4. \A s \in Streams : InFlight(s)' \subseteq InFlight(s)
  BY Zenon, <1>c, <1>f DEF InFlight, InvalidPage
<1>5. \A s \in Streams : rx'[s].next = rx[s].next /\ (rx'[s].phase = "Closed" <=> rx[s].phase = "Closed")
  BY Zenon, <1>t, <1>c DEF OrderInv, ReceiverOK, InvalidPage
<1>6. FramesOK' /\ OrderOK'
  <2>1. UNCHANGED <<tx, pc, h, sent, got>>
    BY Zenon DEF InvalidPage, quiet, sender
  <2> QED
    BY Zenon, <1>4, <1>5, <2>1, FramesKept, OrderKept DEF OrderInv, Carrying
<1> QED  BY Zenon, <1>1, <1>2, <1>3, <1>6 DEF OrderInv

(* InvalidCancel: cancel_accept().                                         *)
LEMMA InvalidCancelOrders ==
    ASSUME OrderInv, NEW r \in Receivers, InvalidCancel(r) PROVE OrderInv'
<1>t. /\ RxOf[r] \in Streams /\ frame[r] \in Handles /\ rx[RxOf[r]] \in RxStates
      /\ rx[RxOf[r]].next \in Nat
  BY Zenon, StreamAssumption DEF OrderInv, TypeOK, RxStates
<1>c. /\ rpc[r] = "invalid" /\ rpc' \in [Receivers -> ReceiverLabels]
      /\ \A q \in Receivers : rpc'[q] = IF q = r THEN "reject" ELSE rpc[q]
  BY Zenon DEF OrderInv, TypeOK, ReceiverLabels, InvalidCancel, RxGoto
<1>x. /\ rx' \in [Streams -> RxStates]
      /\ \A z \in Streams : /\ rx'[z].next = rx[z].next
                            /\ rx'[z].phase = IF z = RxOf[r] THEN "Idle" ELSE rx[z].phase
  BY Zenon, <1>t, PhaseStores DEF OrderInv, TypeOK, InvalidCancel, SetRxPhase
<1>f. frame' = frame  BY Zenon DEF InvalidCancel
<1>1. TypeOK'
  BY Zenon, <1>c, <1>x, <1>f DEF OrderInv, TypeOK, InvalidCancel, quiet, sender, receiver, pool
<1>2. SenderOK' /\ PhasesOK' /\ SingleHandle'
  BY Zenon DEF OrderInv, SenderOK, PhasesOK, Phase, SingleHandle, Working, InvalidCancel, quiet,
     sender
<1>3. ReceiverOK'
  BY <1>t, <1>c, <1>x, <1>f, StreamAssumption DEF OrderInv, ReceiverOK
<1>4. \A s \in Streams : InFlight(s)' \subseteq InFlight(s)
  BY Zenon, <1>c, <1>f DEF InFlight, InvalidCancel
<1>5. \A s \in Streams : rx'[s].next = rx[s].next /\ (rx'[s].phase = "Closed" <=> rx[s].phase = "Closed")
  BY Zenon, <1>t, <1>c, <1>x DEF OrderInv, ReceiverOK
<1>6. FramesOK' /\ OrderOK'
  <2>1. UNCHANGED <<tx, pc, h, sent, got>>
    BY Zenon DEF InvalidCancel, quiet, sender
  <2> QED
    BY Zenon, <1>4, <1>5, <2>1, FramesKept, OrderKept DEF OrderInv, Carrying
<1> QED  BY Zenon, <1>1, <1>2, <1>3, <1>6 DEF OrderInv

(* InvalidPermit: the permit of a malformed page is released.              *)
LEMMA InvalidPermitOrders ==
    ASSUME OrderInv, NEW r \in Receivers, InvalidPermit(r) PROVE OrderInv'
<1>t. /\ RxOf[r] \in Streams /\ frame[r] \in Handles /\ rx[RxOf[r]] \in RxStates
      /\ rx[RxOf[r]].next \in Nat
  BY Zenon, StreamAssumption DEF OrderInv, TypeOK, RxStates
<1>c. /\ rpc[r] = "reject" /\ rpc' \in [Receivers -> ReceiverLabels]
      /\ \A q \in Receivers : rpc'[q] = IF q = r THEN "bad" ELSE rpc[q]
  BY Zenon DEF OrderInv, TypeOK, ReceiverLabels, InvalidPermit, RxGoto
<1>f. frame' = frame  BY Zenon DEF InvalidPermit
<1>1. TypeOK'
  BY Zenon, <1>c, <1>f DEF OrderInv, TypeOK, InvalidPermit, quiet, sender, receiver, pool,
     ReleasePermit
<1>2. SenderOK' /\ PhasesOK' /\ SingleHandle'
  BY Zenon DEF OrderInv, SenderOK, PhasesOK, Phase, SingleHandle, Working, InvalidPermit, quiet,
     sender
<1>3. ReceiverOK'
  BY Zenon, <1>t, <1>c, <1>f, StreamAssumption DEF OrderInv, ReceiverOK, InvalidPermit
<1>4. \A s \in Streams : InFlight(s)' \subseteq InFlight(s)
  BY Zenon, <1>c, <1>f DEF InFlight, InvalidPermit
<1>5. \A s \in Streams : rx'[s].next = rx[s].next /\ (rx'[s].phase = "Closed" <=> rx[s].phase = "Closed")
  BY Zenon, <1>t, <1>c DEF OrderInv, ReceiverOK, InvalidPermit
<1>6. FramesOK' /\ OrderOK'
  <2>1. UNCHANGED <<tx, pc, h, sent, got>>
    BY Zenon DEF InvalidPermit, quiet, sender
  <2> QED
    BY Zenon, <1>4, <1>5, <2>1, FramesKept, OrderKept DEF OrderInv, Carrying
<1> QED  BY Zenon, <1>1, <1>2, <1>3, <1>6 DEF OrderInv

(* StaleAccess: the pool refuses the descriptor.                           *)
LEMMA StaleAccessOrders ==
    ASSUME OrderInv, NEW r \in Receivers, StaleAccess(r) PROVE OrderInv'
<1>t. /\ RxOf[r] \in Streams /\ frame[r] \in Handles /\ rx[RxOf[r]] \in RxStates
      /\ rx[RxOf[r]].next \in Nat
  BY Zenon, StreamAssumption DEF OrderInv, TypeOK, RxStates
<1>c. /\ rpc[r] = "check" /\ rpc' \in [Receivers -> ReceiverLabels]
      /\ \A q \in Receivers : rpc'[q] = IF q = r THEN "bad" ELSE rpc[q]
  BY Zenon DEF OrderInv, TypeOK, ReceiverLabels, StaleAccess, RxGoto
<1>x. /\ rx' \in [Streams -> RxStates]
      /\ \A z \in Streams : /\ rx'[z].next = rx[z].next
                            /\ rx'[z].phase = IF z = RxOf[r] THEN "Idle" ELSE rx[z].phase
  BY Zenon, <1>t, PhaseStores DEF OrderInv, TypeOK, StaleAccess, SetRxPhase
<1>i. frame[r].kind = "Page"  BY Zenon DEF StaleAccess
<1>f. frame' = frame  BY Zenon DEF StaleAccess
<1>1. TypeOK'
  BY Zenon, <1>c, <1>x, <1>f DEF OrderInv, TypeOK, StaleAccess, quiet, sender, receiver, pool
<1>2. SenderOK' /\ PhasesOK' /\ SingleHandle'
  BY Zenon DEF OrderInv, SenderOK, PhasesOK, Phase, SingleHandle, Working, StaleAccess, quiet,
     sender
<1>3. ReceiverOK'
  BY Zenon, <1>t, <1>c, <1>x, <1>i, <1>f, StreamAssumption DEF OrderInv, ReceiverOK
<1>4. \A s \in Streams : InFlight(s)' \subseteq InFlight(s)
  BY Zenon, <1>c, <1>f DEF InFlight, StaleAccess
<1>5. \A s \in Streams : rx'[s].next = rx[s].next /\ (rx'[s].phase = "Closed" <=> rx[s].phase = "Closed")
  BY Zenon, <1>t, <1>c, <1>x, <1>i DEF OrderInv, ReceiverOK
<1>6. FramesOK' /\ OrderOK'
  <2>1. UNCHANGED <<tx, pc, h, sent, got>>
    BY Zenon DEF StaleAccess, quiet, sender
  <2> QED
    BY Zenon, <1>4, <1>5, <2>1, FramesKept, OrderKept DEF OrderInv, Carrying
<1> QED  BY Zenon, <1>1, <1>2, <1>3, <1>6 DEF OrderInv

(* DiscardBad: the caller drops a refused frame.                           *)
LEMMA DiscardBadOrders ==
    ASSUME OrderInv, NEW r \in Receivers, DiscardBad(r) PROVE OrderInv'
<1>t. /\ RxOf[r] \in Streams /\ frame[r] \in Handles /\ rx[RxOf[r]] \in RxStates
      /\ rx[RxOf[r]].next \in Nat
  BY Zenon, StreamAssumption DEF OrderInv, TypeOK, RxStates
<1>c. /\ rpc[r] = "bad" /\ rpc' \in [Receivers -> ReceiverLabels]
      /\ \A q \in Receivers : rpc'[q] = IF q = r THEN "idle" ELSE rpc[q]
  BY Zenon DEF OrderInv, TypeOK, ReceiverLabels, DiscardBad, RxGoto
<1>f. frame' \in [Receivers -> Handles] /\ \A q \in Receivers : frame'[q] = IF q = r THEN NoHandle ELSE frame[q]
  BY Zenon, <1>t, HandleStores DEF OrderInv, TypeOK, DiscardBad
<1>1. TypeOK'
  BY Zenon, <1>c, <1>f DEF OrderInv, TypeOK, DiscardBad, quiet, sender, receiver, pool
<1>2. SenderOK' /\ PhasesOK' /\ SingleHandle'
  BY Zenon DEF OrderInv, SenderOK, PhasesOK, Phase, SingleHandle, Working, DiscardBad, quiet,
     sender
<1>3. ReceiverOK'
  BY Zenon, <1>t, <1>c, <1>f, StreamAssumption DEF OrderInv, ReceiverOK, DiscardBad
<1>4. \A s \in Streams : InFlight(s)' \subseteq InFlight(s)
  BY Zenon, <1>c, <1>f DEF InFlight, DiscardBad
<1>5. \A s \in Streams : rx'[s].next = rx[s].next /\ (rx'[s].phase = "Closed" <=> rx[s].phase = "Closed")
  BY Zenon, <1>t, <1>c DEF OrderInv, ReceiverOK, DiscardBad
<1>6. FramesOK' /\ OrderOK'
  <2>1. UNCHANGED <<tx, pc, h, sent, got>>
    BY Zenon DEF DiscardBad, quiet, sender
  <2> QED
    BY Zenon, <1>4, <1>5, <2>1, FramesKept, OrderKept DEF OrderInv, Carrying
<1> QED  BY Zenon, <1>1, <1>2, <1>3, <1>6 DEF OrderInv

(* RetryBad: the caller retries a refused frame.                           *)
LEMMA RetryBadOrders ==
    ASSUME OrderInv, NEW r \in Receivers, RetryBad(r) PROVE OrderInv'
<1>t. /\ RxOf[r] \in Streams /\ frame[r] \in Handles /\ rx[RxOf[r]] \in RxStates
      /\ rx[RxOf[r]].next \in Nat
  BY Zenon, StreamAssumption DEF OrderInv, TypeOK, RxStates
<1>c. /\ rpc[r] = "bad" /\ rpc' \in [Receivers -> ReceiverLabels]
      /\ \A q \in Receivers : rpc'[q] = IF q = r THEN "have" ELSE rpc[q]
  BY Zenon DEF OrderInv, TypeOK, ReceiverLabels, RetryBad, RxGoto
<1>f. frame' = frame  BY Zenon DEF RetryBad
<1>1. TypeOK'
  BY Zenon, <1>c, <1>f DEF OrderInv, TypeOK, RetryBad, quiet, sender, receiver, pool
<1>2. SenderOK' /\ PhasesOK' /\ SingleHandle'
  BY Zenon DEF OrderInv, SenderOK, PhasesOK, Phase, SingleHandle, Working, RetryBad, quiet, sender
<1>3. ReceiverOK'
  BY Zenon, <1>t, <1>c, <1>f, StreamAssumption DEF OrderInv, ReceiverOK, RetryBad
<1>4. \A s \in Streams : InFlight(s)' \subseteq InFlight(s)
  BY Zenon, <1>c, <1>f DEF InFlight, RetryBad
<1>5. \A s \in Streams : rx'[s].next = rx[s].next /\ (rx'[s].phase = "Closed" <=> rx[s].phase = "Closed")
  BY Zenon, <1>t, <1>c DEF OrderInv, ReceiverOK, RetryBad
<1>6. FramesOK' /\ OrderOK'
  <2>1. UNCHANGED <<tx, pc, h, sent, got>>
    BY Zenon DEF RetryBad, quiet, sender
  <2> QED
    BY Zenon, <1>4, <1>5, <2>1, FramesKept, OrderKept DEF OrderInv, Carrying
<1> QED  BY Zenon, <1>1, <1>2, <1>3, <1>6 DEF OrderInv

(* ReleaseReceived: a received page is released.                           *)
LEMMA ReleaseReceivedOrders ==
    ASSUME OrderInv, NEW x, ReleaseReceived(x) PROVE OrderInv'
<1>p. gen' \in [Pages -> Nat] /\ st' \in [Pages -> {"Free", "Attached", "Detached", "Exhausted"}]
  BY Zenon DEF OrderInv, TypeOK, ReleaseReceived, quiet, sender, receiver, pool, ReleasePage,
     Pool!Release
<1>1. TypeOK'
  BY Zenon, <1>p DEF OrderInv, TypeOK, ReleaseReceived, quiet, sender, receiver, pool, ReleasePage,
     Pool!Release
<1>2. SenderOK' /\ PhasesOK' /\ SingleHandle' /\ ReceiverOK'
  BY Zenon DEF OrderInv, SenderOK, PhasesOK, Phase, SingleHandle, Working, ReceiverOK,
     ReleaseReceived, quiet, sender
<1>3. (\A s \in Streams : InFlight(s)' = InFlight(s)) /\ UNCHANGED <<tx, pc, h, sent, got, rx>>
  BY Zenon DEF InFlight, ReleaseReceived, quiet, sender
<1>4. FramesOK' /\ OrderOK'
  BY Zenon, <1>3, FramesKept, OrderKept DEF OrderInv, Carrying
<1> QED  BY Zenon, <1>1, <1>2, <1>4 DEF OrderInv

(* ReleaseReceivedPermit: its permit follows.                              *)
LEMMA ReleaseReceivedPermitOrders ==
    ASSUME OrderInv, NEW x, ReleaseReceivedPermit(x) PROVE OrderInv'
<1>1. TypeOK'
  BY Zenon DEF OrderInv, TypeOK, ReleaseReceivedPermit, quiet, sender, receiver, pool,
     ReleasePermit
<1>2. SenderOK' /\ PhasesOK' /\ SingleHandle' /\ ReceiverOK'
  BY Zenon DEF OrderInv, SenderOK, PhasesOK, Phase, SingleHandle, Working, ReceiverOK,
     ReleaseReceivedPermit, quiet, sender
<1>3. (\A s \in Streams : InFlight(s)' = InFlight(s)) /\ UNCHANGED <<tx, pc, h, sent, got, rx>>
  BY Zenon DEF InFlight, ReleaseReceivedPermit, quiet, sender
<1>4. FramesOK' /\ OrderOK'
  BY Zenon, <1>3, FramesKept, OrderKept DEF OrderInv, Carrying
<1> QED  BY Zenon, <1>1, <1>2, <1>4 DEF OrderInv

(* ReserveTransferId gives the thread the next id of its stream.           *)
LEMMA IdReserved ==
    ASSUME OrderInv, NEW t \in Senders, NEW s \in Streams, s = TxOf[t],
           NEW c \in {"Page", "Close"}, NEW label \in SenderLabels,
           ReserveTransferId(t, c, label)
    PROVE  /\ h' \in [Senders -> Handles] /\ \A u \in Senders \ {t} : h'[u] = h[u]
           /\ h'[t].id = tx[s].next /\ h'[t].kind = c
           /\ h'[t].desc = h[t].desc /\ h'[t].permit = h[t].permit
           /\ tx' \in [Streams -> TxStates] /\ \A z \in Streams \ {s} : tx'[z] = tx[z]
           /\ tx'[s].phase = tx[s].phase /\ tx'[s].next = tx[s].next + 1
           /\ pc' \in [Senders -> SenderLabels]
           /\ \A u \in Senders : pc'[u] = IF u = t THEN label ELSE pc[u]
<1>1. h[t] \in Handles /\ tx[s] \in TxStates /\ tx[s].next \in Nat
  BY Zenon DEF OrderInv, TypeOK, TxStates
<1>2. /\ h' \in [Senders -> Handles] /\ \A u \in Senders \ {t} : h'[u] = h[u]
      /\ h'[t] = [h[t] EXCEPT !.id = tx[s].next, !.kind = c]
  BY Zenon, <1>1, HandleStores DEF OrderInv, TypeOK, ReserveTransferId
<1>3. /\ h'[t].id = tx[s].next /\ h'[t].kind = c
      /\ h'[t].desc = h[t].desc /\ h'[t].permit = h[t].permit
  BY Zenon, <1>1, <1>2 DEF Handles
<1>4. tx'[s] = [tx[s] EXCEPT !.next = tx[s].next + 1] /\ \A z \in Streams \ {s} : tx'[z] = tx[z]
  BY Zenon, <1>1 DEF OrderInv, TypeOK, ReserveTransferId
<1>5. tx'[s] \in TxStates /\ tx'[s].phase = tx[s].phase /\ tx'[s].next = tx[s].next + 1
  BY <1>1, <1>4 DEF TxStates
<1>6. tx' \in [Streams -> TxStates]
  BY Zenon, <1>4, <1>5 DEF OrderInv, TypeOK, ReserveTransferId
<1>7. pc' \in [Senders -> SenderLabels] /\ \A u \in Senders : pc'[u] = IF u = t THEN label ELSE pc[u]
  BY Zenon DEF OrderInv, TypeOK, ReserveTransferId, Goto
<1> QED  BY Zenon, <1>2, <1>3, <1>4, <1>5, <1>6, <1>7

(* FinishReserve: the page gets the id behind the last one sent.           *)
LEMMA FinishReserveOrders ==
    ASSUME OrderInv, NEW t \in Senders, FinishReserve(t) PROVE OrderInv'
<1>s. PICK s \in Streams : s = TxOf[t]  BY Zenon, StreamAssumption
<1>c. pc[t] = "reserve"  BY Zenon DEF FinishReserve
<1>r. /\ h' \in [Senders -> Handles] /\ \A u \in Senders \ {t} : h'[u] = h[u]
      /\ h'[t].id = tx[s].next /\ h'[t].kind = "Page"
      /\ h'[t].desc = h[t].desc /\ h'[t].permit = h[t].permit
      /\ tx' \in [Streams -> TxStates] /\ \A z \in Streams \ {s} : tx'[z] = tx[z]
      /\ tx'[s].phase = tx[s].phase /\ tx'[s].next = tx[s].next + 1
      /\ pc' \in [Senders -> SenderLabels]
      /\ \A u \in Senders : pc'[u] = IF u = t THEN "pending" ELSE pc[u]
  BY <1>s, IdReserved DEF FinishReserve, SenderLabels
<1>u. UNCHANGED <<gen, st, leased, wire, rx, rpc, frame, received, halfway, budget, got, sent>>
  BY Zenon DEF FinishReserve, pool, receiver
<1>n. tx[s].next \in Nat /\ rx[s].next \in Nat /\ Len(sent[s]) \in Nat /\ tx[s].phase = "Writing"
  BY <1>s, <1>c DEF OrderInv, TypeOK, TxStates, RxStates, PhasesOK, Phase
<1>1. TypeOK'
  BY Zenon, <1>r, <1>u DEF OrderInv, TypeOK
<1>2. SenderOK' /\ PhasesOK' /\ SingleHandle'
  BY <1>s, <1>c, <1>r, StreamAssumption DEF OrderInv, SenderOK, PhasesOK, Phase, SingleHandle, Working
<1>3. ReceiverOK' /\ \A z \in Streams : InFlight(z)' = InFlight(z)
  BY Zenon, <1>u DEF OrderInv, ReceiverOK, InFlight
<1>4. FramesOK'
  BY Zenon, <1>3, <1>r, FramesKept DEF OrderInv
<1>5. ASSUME NEW z \in Streams PROVE InOrderOn(z)'
  <2>1. CASE z # s
    BY Zenon, <2>1, <1>s, <1>c, <1>r, <1>u, <1>3, StreamKept DEF OrderInv, OrderOK, Carrying
  <2>2. CASE z = s
    <3>1. InOrderOn(s)  BY Zenon DEF OrderInv, OrderOK
    <3>2. Progress(s)'  BY Zenon, <3>1, <1>r, <1>u DEF InOrderOn, Progress
    <3>3. \A u \in Senders : ~ Carrying(u, s) /\ (Carrying(u, s)' <=> u = t)
      BY Zenon, <1>s, <1>c, <1>r DEF OrderInv, SingleHandle, Working, Carrying
    <3>4. ASSUME NoGap(s) PROVE NoGap(s)'
      <4>1. tx[s].next = Len(sent[s]) + 1  BY Zenon, <3>3, <3>4, <1>n DEF NoGap
      <4>2. \A u \in Senders : Carrying(u, s)' => h'[u].id = Len(sent[s]) + 1
        BY Zenon, <3>3, <4>1, <1>r
      <4>3. (\E u \in Senders : Carrying(u, s)') /\ tx'[s].next = Len(sent[s]) + 2
        BY <3>3, <4>1, <1>n, <1>r
      <4> QED  BY Zenon, <3>4, <4>2, <4>3, <1>u, <1>3 DEF NoGap, Matches
    <3>5. ASSUME NEW k \in Nat, GapAt(s, k) PROVE GapAt(s, k)'
      BY <3>5, <1>n, <1>r, <1>u, <1>3 DEF GapAt, Matches
    <3> QED  BY Zenon, <2>2, <3>1, <3>2, <3>4, <3>5 DEF InOrderOn
  <2> QED  BY Zenon, <2>1, <2>2
<1> QED  BY Zenon, <1>1, <1>2, <1>3, <1>4, <1>5 DEF OrderInv, OrderOK

(* CloseReserve: the closing frame gets the id behind everything.          *)
LEMMA CloseReserveOrders ==
    ASSUME OrderInv, NEW t \in Senders, CloseReserve(t) PROVE OrderInv'
<1>s. PICK s \in Streams : s = TxOf[t]  BY Zenon, StreamAssumption
<1>c. pc[t] = "closeid" /\ h[t] = NoHandle  BY Zenon DEF CloseReserve, OrderInv, SenderOK
<1>r. /\ h' \in [Senders -> Handles] /\ \A u \in Senders \ {t} : h'[u] = h[u]
      /\ h'[t].id = tx[s].next /\ h'[t].kind = "Close"
      /\ h'[t].desc = h[t].desc /\ h'[t].permit = h[t].permit
      /\ tx' \in [Streams -> TxStates] /\ \A z \in Streams \ {s} : tx'[z] = tx[z]
      /\ tx'[s].phase = tx[s].phase /\ tx'[s].next = tx[s].next + 1
      /\ pc' \in [Senders -> SenderLabels]
      /\ \A u \in Senders : pc'[u] = IF u = t THEN "close" ELSE pc[u]
  BY <1>s, IdReserved DEF CloseReserve, SenderLabels
<1>u. UNCHANGED <<gen, st, leased, wire, rx, rpc, frame, received, halfway, budget, got, sent>>
  BY Zenon DEF CloseReserve, pool, receiver
<1>n. tx[s].next \in Nat /\ rx[s].next \in Nat /\ Len(sent[s]) \in Nat /\ tx[s].phase = "Closed"
  BY <1>s, <1>c DEF OrderInv, TypeOK, TxStates, RxStates, PhasesOK, Phase
<1>1. TypeOK'
  BY Zenon, <1>r, <1>u DEF OrderInv, TypeOK
<1>2. SenderOK' /\ PhasesOK' /\ SingleHandle'
  BY <1>s, <1>c, <1>r, StreamAssumption
     DEF OrderInv, SenderOK, PhasesOK, Phase, SingleHandle, Working, NoHandle
<1>3. ReceiverOK' /\ \A z \in Streams : InFlight(z)' = InFlight(z)
  BY Zenon, <1>u DEF OrderInv, ReceiverOK, InFlight
<1>4. FramesOK'
  BY Zenon, <1>3, <1>r, FramesKept DEF OrderInv
<1>5. ASSUME NEW z \in Streams PROVE InOrderOn(z)'
  <2>1. CASE z # s
    BY Zenon, <2>1, <1>s, <1>c, <1>r, <1>u, <1>3, StreamKept DEF OrderInv, OrderOK, Carrying
  <2>2. CASE z = s
    <3>1. InOrderOn(s)  BY Zenon DEF OrderInv, OrderOK
    <3>2. Progress(s)'  BY Zenon, <3>1, <1>r, <1>u DEF InOrderOn, Progress
    <3>3. \A u \in Senders : Carrying(u, s)' <=> Carrying(u, s)
      BY Zenon, <1>c, <1>r DEF Carrying
    <3>4. ASSUME NoGap(s) PROVE NoGap(s)'
      BY Zenon, <3>3, <3>4, <1>n, <1>c, <1>r, <1>u, <1>3 DEF NoGap, Matches, Carrying
    <3>5. ASSUME NEW k \in Nat, GapAt(s, k) PROVE GapAt(s, k)'
      BY <3>5, <1>n, <1>r, <1>u, <1>3 DEF GapAt, Matches
    <3> QED  BY Zenon, <2>2, <3>1, <3>2, <3>4, <3>5 DEF InOrderOn
  <2> QED  BY Zenon, <2>1, <2>2
<1> QED  BY Zenon, <1>1, <1>2, <1>3, <1>4, <1>5 DEF OrderInv, OrderOK

(* Frames under way are frames, with a number as their id.                 *)
LEMMA FlightTyped ==
    ASSUME TypeOK, NEW s \in Streams
    PROVE  \A f \in InFlight(s) : f \in Handles /\ f.id \in Nat
<1>1. wire[s] \in Seq(Handles) /\ \A r \in Receivers : frame[r] \in Handles  BY Zenon DEF TypeOK
<1>2. \A f \in FramesOn(wire[s]) : f \in Handles  BY <1>1 DEF FramesOn
<1>3. \A f \in Handles : f.id \in Nat  BY Zenon DEF Handles
<1> QED  BY Zenon, <1>1, <1>2, <1>3 DEF InFlight

(* DropOutbound: the id of the dropped page is the gap.                    *)
LEMMA DropOutboundOrders ==
    ASSUME OrderInv, NEW t \in Senders, DropOutbound(t) PROVE OrderInv'
<1>s. PICK s \in Streams : s = TxOf[t]  BY Zenon, StreamAssumption
<1>c. /\ pc[t] = "outbound" /\ pc' \in [Senders -> SenderLabels]
      /\ \A u \in Senders : pc'[u] = IF u = t THEN "finish" ELSE pc[u]
  BY Zenon DEF OrderInv, TypeOK, SenderLabels, DropOutbound, Goto
<1>h. /\ h' \in [Senders -> Handles] /\ \A u \in Senders \ {t} : h'[u] = h[u]
      /\ h'[t].id = h[t].id /\ h'[t].desc = NoPage /\ h'[t].permit = h[t].permit
  <2>1. h[t] \in Handles  BY Zenon DEF OrderInv, TypeOK
  <2>2. /\ h' \in [Senders -> Handles] /\ \A u \in Senders \ {t} : h'[u] = h[u]
        /\ h'[t] = [h[t] EXCEPT !.desc = NoPage]
    BY Zenon, <2>1, HandleStores DEF OrderInv, TypeOK, DropOutbound
  <2> QED  BY Zenon, <2>1, <2>2 DEF Handles
<1>p. gen' \in [Pages -> Nat] /\ st' \in [Pages -> {"Free", "Attached", "Detached", "Exhausted"}]
  BY Zenon DEF OrderInv, TypeOK, DropOutbound, ReleasePage, Pool!Release
<1>u. UNCHANGED <<leased, tx, wire, budget, rx, rpc, frame, received, halfway, got, sent>>
  BY Zenon DEF DropOutbound, receiver
<1>n. /\ tx[s].next \in Nat /\ rx[s].next \in Nat /\ Len(sent[s]) \in Nat /\ Len(got[s]) \in Nat
      /\ h[t].id \in Nat /\ tx[s].phase = "OutboundPending"
  BY <1>s, <1>c DEF OrderInv, TypeOK, TxStates, RxStates, Handles, PhasesOK, Phase
<1>1. TypeOK'
  BY Zenon, <1>c, <1>h, <1>p, <1>u DEF OrderInv, TypeOK
<1>2. SenderOK' /\ PhasesOK' /\ SingleHandle'
  BY <1>s, <1>c, <1>h, <1>u, StreamAssumption
     DEF OrderInv, SenderOK, PhasesOK, Phase, SingleHandle, Working
<1>3. ReceiverOK' /\ \A z \in Streams : InFlight(z)' = InFlight(z)
  BY Zenon, <1>u DEF OrderInv, ReceiverOK, InFlight
<1>4. FramesOK'
  BY Zenon, <1>3, <1>u, FramesKept DEF OrderInv
<1>5. ASSUME NEW z \in Streams PROVE InOrderOn(z)'
  <2>1. CASE z # s
    BY Zenon, <2>1, <1>s, <1>c, <1>h, <1>u, <1>3, StreamKept DEF OrderInv, OrderOK, Carrying
  <2>2. CASE z = s
    <3>1. InOrderOn(s)  BY Zenon DEF OrderInv, OrderOK
    <3>2. Progress(s)'  BY Zenon, <3>1, <1>u DEF InOrderOn, Progress
    <3>3. Carrying(t, s)  BY Zenon, <1>s, <1>c DEF Carrying
    <3>4. \A u \in Senders : TxOf[u] = s => pc'[u] \notin {"pending", "outbound", "close"}
      BY Zenon, <1>s, <1>c, <1>n DEF OrderInv, SingleHandle, Working, PhasesOK, Phase
    <3>5. \A f \in InFlight(s) : f.kind # "Close"
      BY Zenon, <1>n DEF OrderInv, FramesOK
    <3>6. \A f \in InFlight(s) : f \in Handles
      BY Zenon, FlightTyped DEF OrderInv
    <3>7. ASSUME NoGap(s) PROVE GapAt(s, h[t].id)'
      <4>1. h[t].id = Len(sent[s]) + 1 /\ tx[s].next = Len(sent[s]) + 2
        BY Zenon, <3>3, <3>7, <1>n DEF NoGap
      <4>2. rx[s].next <= Len(sent[s]) + 1
        BY <3>1, <1>n DEF InOrderOn, Progress
      <4>3. h'[t].id = Len(sent[s]) + 1  BY Zenon, <4>1, <1>h
      <4>4. \A f \in InFlight(s) : f.id # Len(sent[s]) + 1 /\ Matches(s, f, Len(sent[s]) + 1)
        BY <3>7, <3>5, <3>6, <1>n DEF NoGap, Handles, FramesOK, OrderInv
      <4> QED  BY <4>1, <4>2, <4>3, <4>4, <3>4, <3>5, <1>3, <1>u, <1>n DEF GapAt, Matches
    <3>8. ASSUME NEW k \in Nat, GapAt(s, k) PROVE GapAt(s, k)'
      BY Zenon, <3>8, <3>4, <1>u, <1>3 DEF GapAt, Matches
    <3>9. h'[t].id \in Nat  BY Zenon, <1>h, <1>n
    <3> QED  BY Zenon, <2>2, <3>1, <3>2, <3>7, <3>8, <1>h, <1>n DEF InOrderOn
  <2> QED  BY Zenon, <2>1, <2>2
<1> QED  BY Zenon, <1>1, <1>2, <1>3, <1>4, <1>5 DEF OrderInv, OrderOK

(* A frame that is appended is under way with the ones that were.          *)
LEMMA WireAppend ==
    ASSUME NEW S, NEW w \in Seq(S), NEW x \in S
    PROVE  /\ Append(w, x) \in Seq(S)
           /\ FramesOn(Append(w, x)) = FramesOn(w) \cup {x}
<1>1. /\ Append(w, x) \in Seq(S) /\ Len(w) \in Nat /\ Len(Append(w, x)) = Len(w) + 1
      /\ DOMAIN w = 1 .. Len(w) /\ DOMAIN Append(w, x) = 1 .. Len(w) + 1
  OBVIOUS
<1>2. \A i \in 1 .. Len(w) : Append(w, x)[i] = w[i]  OBVIOUS
<1>3. Append(w, x)[Len(w) + 1] = x  OBVIOUS
<1>4. \A i \in 1 .. Len(w) + 1 : i \in 1 .. Len(w) \/ i = Len(w) + 1  BY <1>1
<1>5. 1 .. Len(w) \subseteq 1 .. Len(w) + 1 /\ Len(w) + 1 \in 1 .. Len(w) + 1  BY <1>1
<1>6. {Append(w, x)[i] : i \in 1 .. Len(w) + 1} = {w[i] : i \in 1 .. Len(w)} \cup {x}
  BY Zenon, <1>2, <1>3, <1>4, <1>5
<1> QED  BY Zenon, <1>1, <1>6 DEF FramesOn

(* What is left on the carrier was on it.                                  *)
LEMMA WireTail ==
    ASSUME NEW S, NEW w \in Seq(S), w # <<>>
    PROVE  /\ Tail(w) \in Seq(S) /\ Head(w) \in S /\ Head(w) \in FramesOn(w)
           /\ FramesOn(Tail(w)) \subseteq FramesOn(w)
<1>1. /\ Tail(w) \in Seq(S) /\ Len(w) \in Nat /\ Len(w) > 0 /\ Len(Tail(w)) = Len(w) - 1
      /\ DOMAIN w = 1 .. Len(w) /\ DOMAIN Tail(w) = 1 .. Len(w) - 1
  OBVIOUS
<1>2. Head(w) = w[1] /\ 1 \in 1 .. Len(w) /\ Head(w) \in S  BY <1>1
<1>3. \A i \in 1 .. Len(w) - 1 : Tail(w)[i] = w[i + 1] /\ i + 1 \in 1 .. Len(w)
  BY <1>1
<1> QED  BY <1>1, <1>2, <1>3 DEF FramesOn

(* SendFrame: the frame joins those under way; a page is the next of the   *)
(* pages sent, under its id if the stream has no gap.                      *)
LEMMA SendFrameOrders ==
    ASSUME OrderInv, NEW t \in Senders, SendFrame(t) PROVE OrderInv'
<1>s. PICK s \in Streams : s = TxOf[t]  BY Zenon, StreamAssumption
<1>k. /\ h[t] \in Handles /\ h[t].id \in Nat /\ pc[t] \in {"outbound", "close"}
      /\ \/ pc[t] = "outbound" /\ h[t].kind = "Page" /\ h[t].desc \in Descriptors /\ h[t].permit \in Permits
            /\ tx[s].phase = "OutboundPending"
         \/ pc[t] = "close" /\ h[t].kind = "Close" /\ h[t].permit = "none" /\ tx[s].phase = "Closed"
  BY Zenon, <1>s DEF OrderInv, TypeOK, Handles, SenderOK, PhasesOK, Phase, SendFrame
<1>c. /\ pc' \in [Senders -> SenderLabels]
      /\ \A u \in Senders : pc'[u] = IF u = t THEN IF h[t].kind = "Page" THEN "mark" ELSE "idle" ELSE pc[u]
  BY Zenon DEF OrderInv, TypeOK, SenderLabels, SendFrame, Goto
<1>h. /\ h' \in [Senders -> Handles] /\ \A u \in Senders \ {t} : h'[u] = h[u]
      /\ h'[t] = NoHandle
  BY Zenon, <1>k, HandleStores DEF OrderInv, TypeOK, SendFrame
<1>u. UNCHANGED <<gen, st, leased, tx, budget, rx, rpc, frame, received, halfway, got>>
  BY Zenon DEF SendFrame, pool, receiver
<1>w. /\ wire' \in [Streams -> Seq(Handles)] /\ wire[s] \in Seq(Handles)
      /\ wire'[s] = Append(wire[s], h[t]) /\ \A z \in Streams \ {s} : wire'[z] = wire[z]
  BY <1>s, <1>k DEF OrderInv, TypeOK, SendFrame
<1>e. /\ sent' \in [Streams -> Seq(Descriptors)] /\ sent[s] \in Seq(Descriptors)
      /\ \A z \in Streams \ {s} : sent'[z] = sent[z]
      /\ sent'[s] = IF h[t].kind = "Page" THEN Append(sent[s], h[t].desc) ELSE sent[s]
  BY <1>s, <1>k DEF OrderInv, TypeOK, SendFrame
<1>1. TypeOK'
  BY Zenon, <1>c, <1>h, <1>u, <1>w, <1>e DEF OrderInv, TypeOK
<1>2. SenderOK' /\ PhasesOK' /\ SingleHandle'
  BY <1>s, <1>k, <1>c, <1>h, <1>u, StreamAssumption
     DEF OrderInv, SenderOK, PhasesOK, Phase, SingleHandle, Working, NoHandle
<1>3. ReceiverOK'
  BY Zenon, <1>u DEF OrderInv, ReceiverOK
<1>4. InFlight(s)' = InFlight(s) \cup {h[t]} /\ \A z \in Streams \ {s} : InFlight(z)' = InFlight(z)
  <2>1. FramesOn(wire'[s]) = FramesOn(wire[s]) \cup {h[t]}
    BY <1>w, <1>k, WireAppend
  <2> QED  BY Zenon, <2>1, <1>u, <1>w DEF InFlight
<1>5. FramesOK'
  BY Zenon, <1>4, <1>k, <1>u DEF OrderInv, FramesOK
<1>6. ASSUME NEW z \in Streams PROVE InOrderOn(z)'
  <2>1. CASE z # s
    BY Zenon, <2>1, <1>s, <1>c, <1>h, <1>u, <1>e, <1>4, StreamKept DEF OrderInv, OrderOK, Carrying
  <2>2. CASE z = s
    <3>1. InOrderOn(s)  BY Zenon DEF OrderInv, OrderOK
    <3>2. /\ Len(sent[s]) \in Nat /\ Len(got[s]) \in Nat /\ tx[s].next \in Nat /\ rx[s].next \in Nat
          /\ \A f \in InFlight(s) : f \in Handles /\ f.id \in Nat
      <4>1. \A f \in InFlight(s) : f \in Handles /\ f.id \in Nat  BY Zenon, FlightTyped DEF OrderInv
      <4> QED  BY <4>1 DEF OrderInv, TypeOK, TxStates, RxStates
    <3>3. /\ \A i \in 1 .. Len(sent[s]) : i \in 1 .. Len(sent'[s]) /\ sent'[s][i] = sent[s][i]
          /\ Len(sent'[s]) = IF h[t].kind = "Page" THEN Len(sent[s]) + 1 ELSE Len(sent[s])
          /\ h[t].kind = "Page" => sent'[s][Len(sent[s]) + 1] = h[t].desc
      BY <1>k, <1>e, <3>2
    <3>4. Progress(s)'
      BY <3>1, <3>2, <3>3, <1>u DEF InOrderOn, Progress
    <3>5. \A u \in Senders : ~ (Carrying(u, s)') /\ (Carrying(u, s) <=> u = t /\ h[t].kind = "Page")
      BY Zenon, <1>s, <1>k, <1>c DEF OrderInv, SingleHandle, Working, PhasesOK, Phase, Carrying
    <3>6. ASSUME NoGap(s) PROVE NoGap(s)'
      <4>1. CASE h[t].kind = "Page"
        <5>1. h[t].id = Len(sent[s]) + 1 /\ tx[s].next = Len(sent[s]) + 2
          BY Zenon, <3>6, <3>5, <4>1, <1>k DEF NoGap
        <5>2. \A f \in InFlight(s)' : f.kind = "Page" => f.id <= Len(sent'[s])
          BY <3>6, <3>2, <3>3, <4>1, <5>1, <1>4 DEF NoGap
        <5>3. \A f \in InFlight(s)' : Matches(s, f, Len(sent[s]) + 1)'
          BY <3>6, <3>2, <3>3, <4>1, <5>1, <1>4 DEF NoGap, Matches
        <5>4. tx'[s].next = Len(sent'[s]) + 1 /\ ~ \E u \in Senders : Carrying(u, s)'
          BY <5>1, <3>2, <3>3, <3>5, <4>1, <1>u
        <5> QED  BY Zenon, <5>2, <5>3, <5>4 DEF NoGap
      <4>2. CASE h[t].kind # "Page"
        BY Zenon, <4>2, <3>6, <3>5, <1>e, <1>k, <1>u, <1>4 DEF NoGap, Matches
      <4> QED  BY Zenon, <4>1, <4>2
    <3>7. ASSUME NEW k \in Nat, GapAt(s, k) PROVE GapAt(s, k)'
      <4>1. h[t].id > k  BY Zenon, <3>7, <1>s, <1>k DEF GapAt
      <4>2. \A f \in InFlight(s)' : f.id # k /\ Matches(s, f, k)' /\ (f.kind = "Close" => f.id > k)
        BY <4>1, <3>7, <3>2, <3>3, <1>k, <1>4 DEF GapAt, Matches
      <4> QED  BY Zenon, <4>2, <3>7, <1>c, <1>h, <1>u DEF GapAt
    <3> QED  BY Zenon, <2>2, <3>1, <3>4, <3>6, <3>7 DEF InOrderOn
  <2> QED  BY Zenon, <2>1, <2>2
<1> QED  BY Zenon, <1>1, <1>2, <1>3, <1>5, <1>6 DEF OrderInv, OrderOK

(* Take: a frame moves from the carrier into a receiver's hands.           *)
LEMMA TakeOrders ==
    ASSUME OrderInv, NEW r \in Receivers, Take(r) PROVE OrderInv'
<1>s. PICK s \in Streams : s = RxOf[r]  BY Zenon, StreamAssumption
<1>c. /\ rpc[r] = "idle" /\ rpc' \in [Receivers -> ReceiverLabels]
      /\ \A q \in Receivers : rpc'[q] = IF q = r THEN "have" ELSE rpc[q]
  BY Zenon DEF OrderInv, TypeOK, ReceiverLabels, Take, RxGoto
<1>h. wire[s] \in Seq(Handles) /\ wire[s] # <<>>
  BY Zenon, <1>s DEF OrderInv, TypeOK, Take
<1>w. /\ Tail(wire[s]) \in Seq(Handles) /\ Head(wire[s]) \in Handles
      /\ Head(wire[s]) \in FramesOn(wire[s])
      /\ FramesOn(Tail(wire[s])) \subseteq FramesOn(wire[s])
  BY Zenon, <1>h, WireTail
<1>f. /\ frame' \in [Receivers -> Handles] /\ wire' \in [Streams -> Seq(Handles)]
      /\ \A q \in Receivers : frame'[q] = IF q = r THEN Head(wire[s]) ELSE frame[q]
      /\ \A z \in Streams : wire'[z] = IF z = s THEN Tail(wire[s]) ELSE wire[z]
  BY Zenon, <1>s, <1>w DEF OrderInv, TypeOK, Take
<1>u. UNCHANGED <<gen, st, leased, tx, pc, h, budget, sent, rx, received, halfway, got>>
  BY Zenon DEF Take, pool, quiet, sender
<1>1. TypeOK'
  BY Zenon, <1>c, <1>f, <1>u DEF OrderInv, TypeOK
<1>2. SenderOK' /\ PhasesOK' /\ SingleHandle'
  BY Zenon, <1>u DEF OrderInv, SenderOK, PhasesOK, Phase, SingleHandle, Working
<1>3. ReceiverOK'
  BY Zenon, <1>c, <1>f, <1>u DEF OrderInv, ReceiverOK
<1>4. \A z \in Streams : InFlight(z)' \subseteq InFlight(z)
  <2> SUFFICES ASSUME NEW z \in Streams, NEW f \in InFlight(z)' PROVE f \in InFlight(z)
    OBVIOUS
  <2>1. CASE f \in FramesOn(wire'[z])
    BY Zenon, <2>1, <1>f, <1>w DEF InFlight
  <2>2. ASSUME NEW q \in Receivers, RxOf[q] = z, rpc'[q] # "idle", f = frame'[q]
        PROVE  f \in InFlight(z)
    BY Zenon, <2>2, <1>s, <1>c, <1>w, <1>f DEF InFlight
  <2> QED  BY Zenon, <2>1, <2>2 DEF InFlight
<1>5. FramesOK' /\ OrderOK'
  BY Zenon, <1>4, <1>u, FramesKept, OrderKept DEF OrderInv, Carrying
<1> QED  BY Zenon, <1>1, <1>2, <1>3, <1>5 DEF OrderInv

(* AcceptClose: the closing frame is never reached past a gap.             *)
LEMMA AcceptCloseOrders ==
    ASSUME OrderInv, NEW r \in Receivers, AcceptClose(r) PROVE OrderInv'
<1>s. PICK s \in Streams : s = RxOf[r]  BY Zenon, StreamAssumption
<1>c. /\ rpc[r] = "check" /\ rpc' \in [Receivers -> ReceiverLabels]
      /\ \A q \in Receivers : rpc'[q] = IF q = r THEN "idle" ELSE rpc[q]
  BY Zenon DEF OrderInv, TypeOK, ReceiverLabels, AcceptClose, RxGoto
<1>f. /\ frame' \in [Receivers -> Handles] /\ frame[r] \in Handles
      /\ \A q \in Receivers : frame'[q] = IF q = r THEN NoHandle ELSE frame[q]
      /\ frame[r].kind = "Close" /\ frame[r].id = rx[s].next
  BY Zenon, <1>s, HandleStores DEF OrderInv, TypeOK, AcceptClose, Expected
<1>x. /\ rx' \in [Streams -> RxStates] /\ rx[s].next \in Nat
      /\ \A z \in Streams : rx'[z] = IF z = s THEN [phase |-> "Closed", next |-> rx[s].next + 1] ELSE rx[z]
  BY <1>s DEF OrderInv, TypeOK, RxStates, AcceptClose
<1>u. UNCHANGED <<gen, st, leased, wire, tx, pc, h, budget, sent, received, halfway, got>>
  BY Zenon DEF AcceptClose, pool, quiet, sender
<1>1. TypeOK'
  BY Zenon, <1>c, <1>f, <1>x, <1>u DEF OrderInv, TypeOK
<1>2. SenderOK' /\ PhasesOK' /\ SingleHandle'
  BY Zenon, <1>u DEF OrderInv, SenderOK, PhasesOK, Phase, SingleHandle, Working
<1>3. ReceiverOK'
  BY <1>s, <1>c, <1>f, <1>x, StreamAssumption DEF OrderInv, ReceiverOK
<1>4. (\A z \in Streams : InFlight(z)' \subseteq InFlight(z)) /\ frame[r] \in InFlight(s)
  BY Zenon, <1>s, <1>c, <1>f, <1>u DEF InFlight
<1>5. FramesOK'
  BY Zenon, <1>4, <1>u, FramesKept DEF OrderInv
<1>6. ASSUME NEW z \in Streams PROVE InOrderOn(z)'
  <2>1. CASE z # s
    BY Zenon, <2>1, <1>u, <1>x, <1>4, StreamKept DEF OrderInv, OrderOK, Carrying
  <2>2. CASE z = s
    <3>1. InOrderOn(s)  BY Zenon DEF OrderInv, OrderOK
    <3>2. tx[s].phase = "Closed"  BY Zenon, <1>4, <1>f DEF OrderInv, FramesOK
    <3>3. rx'[s].phase = "Closed"  BY <1>x
    <3>4. Progress(s)'  BY Zenon, <3>1, <3>2, <3>3, <1>u DEF InOrderOn, Progress
    <3>5. \A k \in Nat : ~ GapAt(s, k)  BY <1>4, <1>f, <1>x DEF GapAt
    <3>6. NoGap(s)'  BY Zenon, <3>1, <3>5, <1>u, <1>4 DEF InOrderOn, NoGap, Matches, Carrying
    <3> QED  BY Zenon, <2>2, <3>4, <3>6 DEF InOrderOn
  <2> QED  BY Zenon, <2>1, <2>2
<1> QED  BY Zenon, <1>1, <1>2, <1>3, <1>5, <1>6 DEF OrderInv, OrderOK

(* AcceptPage: the page is the one sent behind those received before.      *)
LEMMA AcceptPageOrders ==
    ASSUME OrderInv, NEW r \in Receivers, AcceptPage(r) PROVE OrderInv'
<1>s. PICK s \in Streams : s = RxOf[r]  BY Zenon, StreamAssumption
<1>c. /\ rpc[r] = "check" /\ rpc' \in [Receivers -> ReceiverLabels]
      /\ \A q \in Receivers : rpc'[q] = IF q = r THEN "idle" ELSE rpc[q]
  BY Zenon DEF OrderInv, TypeOK, ReceiverLabels, AcceptPage, RxGoto
<1>f. /\ frame' \in [Receivers -> Handles] /\ frame[r] \in Handles
      /\ \A q \in Receivers : frame'[q] = IF q = r THEN NoHandle ELSE frame[q]
      /\ frame[r].kind = "Page" /\ frame[r].id = rx[s].next
  BY Zenon, <1>s, HandleStores DEF OrderInv, TypeOK, AcceptPage, Expected
<1>x. /\ rx' \in [Streams -> RxStates] /\ rx[s].next \in Nat
      /\ \A z \in Streams : rx'[z] = IF z = s THEN [phase |-> "Idle", next |-> rx[s].next + 1] ELSE rx[z]
  BY <1>s DEF OrderInv, TypeOK, RxStates, AcceptPage
<1>u. UNCHANGED <<gen, st, leased, wire, tx, pc, h, budget, sent, halfway>>
  BY Zenon DEF AcceptPage, pool, quiet, sender
<1>4. (\A z \in Streams : InFlight(z)' \subseteq InFlight(z)) /\ frame[r] \in InFlight(s)
  BY Zenon, <1>s, <1>c, <1>f, <1>u DEF InFlight
<1>d. frame[r].desc \in Descriptors
  BY Zenon, <1>4, <1>f DEF OrderInv, FramesOK
<1>g. /\ got' \in [Streams -> Seq(Descriptors)] /\ got[s] \in Seq(Descriptors)
      /\ \A z \in Streams : got'[z] = IF z = s THEN Append(got[s], frame[r].desc) ELSE got[z]
  BY <1>s, <1>d DEF OrderInv, TypeOK, AcceptPage
<1>1. TypeOK'
  BY Zenon, <1>c, <1>f, <1>x, <1>u, <1>g DEF OrderInv, TypeOK, AcceptPage
<1>2. SenderOK' /\ PhasesOK' /\ SingleHandle'
  BY Zenon, <1>u DEF OrderInv, SenderOK, PhasesOK, Phase, SingleHandle, Working
<1>3. ReceiverOK'
  BY <1>s, <1>c, <1>f, <1>x, StreamAssumption DEF OrderInv, ReceiverOK
<1>5. FramesOK'
  BY Zenon, <1>4, <1>u, FramesKept DEF OrderInv
<1>6. ASSUME NEW z \in Streams PROVE InOrderOn(z)'
  <2>1. CASE z # s
    BY Zenon, <2>1, <1>u, <1>x, <1>g, <1>4, StreamKept DEF OrderInv, OrderOK, Carrying
  <2>2. CASE z = s
    <3>1. InOrderOn(s) /\ rx[s].phase = "Accepting"
      BY Zenon, <1>s, <1>c DEF OrderInv, OrderOK, ReceiverOK
    <3>2. Len(got[s]) \in Nat /\ Len(sent[s]) \in Nat  BY DEF OrderInv, TypeOK
    <3>3. rx[s].next = Len(got[s]) + 1  BY Zenon, <3>1 DEF InOrderOn, Progress
    <3>4. \A k \in Nat : GapAt(s, k) => rx[s].next < k
      BY <1>4, <1>f, <1>x DEF GapAt
    <3>5. rx[s].next \in 1 .. Len(sent[s]) /\ sent[s][rx[s].next] = frame[r].desc
      <4>1. CASE NoGap(s)
        BY <4>1, <3>2, <1>4, <1>f, <1>x DEF NoGap, Matches
      <4>2. ASSUME NEW k \in Nat, GapAt(s, k)
            PROVE  rx[s].next \in 1 .. Len(sent[s]) /\ sent[s][rx[s].next] = frame[r].desc
        <5>1. rx[s].next < k /\ Matches(s, frame[r], k)  BY Zenon, <4>2, <3>4, <1>4 DEF GapAt
        <5> QED  BY Zenon, <5>1, <1>f DEF Matches
      <4> QED  BY Zenon, <4>1, <4>2, <3>1 DEF InOrderOn
    <3>6. /\ Len(got'[s]) = Len(got[s]) + 1 /\ got'[s][Len(got[s]) + 1] = frame[r].desc
          /\ \A i \in 1 .. Len(got[s]) : got'[s][i] = got[s][i]
      <4>1. got'[s] = Append(got[s], frame[r].desc)  BY Zenon, <1>g
      <4> QED  BY <4>1, <1>g, <1>d
    <3>7. rx'[s].phase = "Idle" /\ rx'[s].next = rx[s].next + 1  BY <1>x
    <3>8. \A i \in 1 .. Len(got'[s]) : got'[s][i] = sent[s][i]
      BY <3>1, <3>2, <3>3, <3>5, <3>6 DEF InOrderOn, Progress
    <3>9. Progress(s)'  BY <3>2, <3>3, <3>5, <3>6, <3>7, <3>8, <1>u DEF Progress
    <3>10. ASSUME NoGap(s) PROVE NoGap(s)'
      BY Zenon, <3>10, <1>u, <1>4 DEF NoGap, Matches, Carrying
    <3>11. ASSUME NEW k \in Nat, GapAt(s, k) PROVE GapAt(s, k)'
      BY <3>11, <3>4, <3>7, <1>u, <1>x, <1>4 DEF GapAt, Matches
    <3> QED  BY Zenon, <2>2, <3>1, <3>9, <3>10, <3>11 DEF InOrderOn
  <2> QED  BY Zenon, <2>1, <2>2
<1> QED  BY Zenon, <1>1, <1>2, <1>3, <1>5, <1>6 DEF OrderInv, OrderOK

-----------------------------------------------------------------------------
(* Nothing has been sent: no frame, no gap.                                *)
LEMMA OrderInit == Init => OrderInv
<1> SUFFICES ASSUME Init PROVE OrderInv
  OBVIOUS
<1>1. TypeOK
  BY StreamAssumption DEF Init, Pool!Init, TypeOK, TxStates, RxStates, Handles, NoHandle, SenderLabels, ReceiverLabels
<1>2. SenderOK /\ PhasesOK /\ SingleHandle /\ ReceiverOK
  BY Zenon DEF Init, SenderOK, PhasesOK, SingleHandle, Working, ReceiverOK
<1>3. \A s \in Streams : InFlight(s) = {}
  BY DEF Init, InFlight, FramesOn
<1>4. FramesOK  BY Zenon, <1>3 DEF FramesOK
<1>5. OrderOK
  BY <1>3 DEF Init, OrderOK, InOrderOn, Progress, NoGap, Carrying
<1> QED  BY Zenon, <1>1, <1>2, <1>4, <1>5 DEF OrderInv

(* Every step of every thread keeps the invariant.                         *)
LEMMA OrderStep == OrderInv /\ [Next]_vars => OrderInv'
<1> SUFFICES ASSUME OrderInv, [Next]_vars PROVE OrderInv'
  OBVIOUS
<1>1. CASE UNCHANGED vars
  <2>1. UNCHANGED <<gen, st, leased, tx, rx, wire, pc, h, rpc, frame, received, halfway, budget, sent, got>>
    BY Zenon, <1>1 DEF vars, pool, sender, receiver
  <2>2. TypeOK' /\ SenderOK' /\ PhasesOK' /\ SingleHandle' /\ ReceiverOK'
    BY Zenon, <2>1 DEF OrderInv, TypeOK, SenderOK, PhasesOK, Phase, SingleHandle, Working, ReceiverOK
  <2>3. \A s \in Streams : InFlight(s)' = InFlight(s)  BY Zenon, <2>1 DEF InFlight
  <2>4. FramesOK' /\ OrderOK'
    BY Zenon, <2>1, <2>3, FramesKept, OrderKept DEF OrderInv, Carrying
  <2> QED  BY Zenon, <2>2, <2>4 DEF OrderInv
<1>2. ASSUME NEW t \in Senders, BeginPermit(t) \/ CloseExchange(t) \/ SenderStep(t) PROVE OrderInv'
  BY Zenon, <1>2, BeginPermitOrders, CloseExchangeOrders, EnterWritingOrders, EnterRefusedOrders,
     AcquirePageOrders, AcquireEmptyOrders, DropWriterOrders, CancelWriterOrders,
     DropPermitOrders, FinishDetachOrders, FinishReserveOrders, FinishPendingOrders,
     SendFrameOrders, MarkSentOrders, DropOutboundOrders, FinishOutboundOrders,
     CloseReserveOrders DEF SenderStep
<1>3. ASSUME NEW r \in Receivers, ReceiverStep(r) \/ DiscardBad(r) \/ RetryBad(r) PROVE OrderInv'
  BY Zenon, <1>3, TakeOrders, BeginAcceptOrders, UnexpectedIdOrders, AcceptCloseOrders,
     AcceptPageOrders, InvalidPageOrders, InvalidCancelOrders, InvalidPermitOrders,
     StaleAccessOrders, DiscardBadOrders, RetryBadOrders DEF ReceiverStep
<1>4. ASSUME Reclaim PROVE OrderInv'
  BY Zenon, <1>4, ReleaseReceivedOrders, ReleaseReceivedPermitOrders DEF Reclaim
<1> QED  BY Zenon, <1>1, <1>2, <1>3, <1>4 DEF Next

(* What the receiver has accepted is a prefix of what was sent.            *)
LEMMA OrderImpliesInOrder == OrderInv => InOrder
<1> SUFFICES ASSUME OrderInv, NEW s \in Streams
             PROVE  Len(got[s]) <= Len(sent[s]) /\ got[s] = SubSeq(sent[s], 1, Len(got[s]))
  BY Zenon DEF InOrder
<1>1. /\ got[s] \in Seq(Descriptors) /\ sent[s] \in Seq(Descriptors)
      /\ Len(got[s]) \in Nat /\ Len(sent[s]) \in Nat
  BY DEF OrderInv, TypeOK
<1>2. Len(got[s]) <= Len(sent[s]) /\ \A i \in 1 .. Len(got[s]) : got[s][i] = sent[s][i]
  BY Zenon DEF OrderInv, OrderOK, InOrderOn, Progress
<1>3. SubSeq(sent[s], 1, Len(got[s])) = [i \in 1 .. Len(got[s]) |-> sent[s][i]]
  BY <1>1, <1>2
<1>4. got[s] = [i \in 1 .. Len(got[s]) |-> got[s][i]]
  BY <1>1
<1> QED  BY Zenon, <1>2, <1>3, <1>4

(* However many threads share the two ends of a stream, and whatever pages *)
(* are dropped unsent or refused, accept() hands out the sent pages in the *)
(* order in which they were sent, none twice and none skipped.             *)
THEOREM PagesArriveInOrder == Spec => []InOrder
<1>1. Spec => []OrderInv
  BY OrderInit, OrderStep, PTL DEF Spec
<1> QED  BY <1>1, OrderImpliesInOrder, PTL

=============================================================================
