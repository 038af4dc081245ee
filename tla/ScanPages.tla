----------------------------- MODULE ScanPages -----------------------------
(***************************************************************************)
(* Rows through pages.  On the scan side a backend drains PostgreSQL slots *)
(* into pages (`SlotScanPageSource` over a `slot_scan` cursor) for the     *)
(* worker to import; on the result side the worker encodes the batches of  *)
(* the physical plan into pages (`ResultPageProducer`) for the backend to  *)
(* project row by row into a slot (`slot_import`).  Both size each page by *)
(* the estimator, retry a page no row fits in with fewer reserved rows,    *)
(* and must neither lose nor repeat the row that did not fit.              *)
(*                                                                         *)
(* A page is handed over when the reader has taken the previous one: a     *)
(* bound of one page in flight, the transfer being PageStream's subject.   *)
(***************************************************************************)
EXTENDS PageBlock

CONSTANTS
  Jobs,           \* the scans and results explored: records side, specs, table,
                  \* cap; a row of a table is its cells and whether a runtime
                  \* filter rejects it
  BlockSize,      \* payload bytes of a page
  Priors,         \* initial_tail_bytes_per_row settings explored
  FetchBatchRows  \* rows one PortalRunFetch asks for at most

VARIABLES
  job,       \* the scan or result, fixed at Init
  est,       \* PageRowEstimator
  block,     \* the page being filled
  next,      \* source rows consumed so far
  overflow,  \* the source row copied because it did not fit, or 0
  batch,     \* result: the last row of the pending batch
  pc,        \* what the producer does next
  why,       \* why it failed
  inbox,     \* pages sent and not yet imported
  cursor,    \* rows of the imported page not yet projected
  out        \* rows delivered to the consumer

vars == <<job, est, block, next, overflow, batch, pc, why, inbox, cursor, out>>

Source == job.table
Specs == job.specs

\* SessionParams: the local row cap stops the cursor, whatever the filter drops.
Total == Min({job.cap, Len(Source)})

NoColumns == Specs = <<>>

\* dummy-projection scans have no estimator and reserve a fetch batch per page
RowsPerPage == IF NoColumns THEN Max({FetchBatchRows, 1}) ELSE Estimate(est)

PagePlan == With(RowsPerPage, LAMBDA n : LayoutPlan(Specs, n, BlockSize))

Init ==
  /\ job \in Jobs
  /\ \E p \in Priors : est = NewEstimator(job.specs, BlockSize, p)
  /\ block = InitBlock(LayoutPlan(job.specs, 0, BlockSize))
  /\ next = 0 /\ overflow = 0 /\ batch = 0
  /\ pc = IF job.side = "scan" THEN "prepare" ELSE "stream"
  /\ why = "none"
  /\ inbox = <<>> /\ cursor = <<>> /\ out = <<>>

Fail(reason) == pc' = "failed" /\ why' = reason

-----------------------------------------------------------------------------
(* SlotScanPageSource::fill_next_page_with_snapshot                        *)

\* observe_empty_full_page, then the fill loop starts over on the same page.
RetrySmaller(attempted) ==
  IF ~NoColumns /\ CanBackOff(est, attempted)
  THEN /\ est' = ObserveEmptyFullPage(est, attempted)
       /\ pc' = IF job.side = "scan" THEN "prepare" ELSE "encode"
       /\ UNCHANGED why
  ELSE Fail("single_row") /\ UNCHANGED est

\* the encoder's finish, observe_encoded_block, and the page is sent
FinishPage(b) ==
  /\ est' = IF NoColumns THEN est ELSE ObservePage(est, b)
  /\ inbox' = Append(inbox, b)

\* a fresh page: plan, init_block, and the row left over from the last one;
\* the plan fits because the estimate is at most the fixed row cap
PreparePage ==
  /\ pc = "prepare" /\ inbox = <<>>
  /\ UNCHANGED <<job, next, batch, inbox, cursor, out>>
  /\ \E plan \in {PagePlan} : \E fresh \in {InitBlock(plan)} :
       \/ /\ overflow = 0
          /\ block' = fresh /\ pc' = "drain" /\ UNCHANGED <<est, overflow, why>>
       \/ /\ overflow # 0
          /\ \E a \in {AppendSlot(fresh, overflow, Source[overflow].cells)} :
               /\ block' = a.b
               /\ \/ /\ a.st = "appended"
                     /\ overflow' = 0 /\ pc' = "drain" /\ UNCHANGED <<est, why>>
                  \/ /\ a.st = "full"
                     /\ RetrySmaller(plan.max_rows) /\ UNCHANGED overflow
                  \/ /\ a.st = "error"
                     /\ Fail("encoder") /\ UNCHANGED <<est, overflow>>

\* drain_slots: the portal hands `fetch` rows to the sink, fewer at its end;
\* the sink stops it by an error only.
Budget == IF HasVariableWidth(Specs) THEN 1 ELSE block.max_rows - block.row_count

CursorFetchRows == Min({FetchBatchRows, Budget, job.cap - next})

Sink(acc, r) ==
  IF acc.why # "none" THEN acc
  ELSE IF Source[r].rejected THEN [acc EXCEPT !.consumed = @ + 1]
  ELSE With(AppendSlot(acc.b, r, Source[r].cells), LAMBDA a :
         CASE a.st = "appended" -> [acc EXCEPT !.consumed = @ + 1, !.b = a.b]
           [] a.st = "full" /\ Budget = 1 ->
                [acc EXCEPT !.consumed = @ + 1, !.b = a.b, !.overflow = r]
           [] a.st = "full" /\ Budget # 1 -> [acc EXCEPT !.why = "budget"]
           [] a.st = "error" -> [acc EXCEPT !.why = "encoder"])

DrainSlots ==
  LET nothing == [b |-> block, consumed |-> 0, overflow |-> 0, why |-> "none", eof |-> TRUE]
      given == Min({CursorFetchRows, Len(Source) - next})
  IN  IF job.cap = next THEN nothing
      ELSE With(FoldSteps(Sink, nothing, [k \in 1 .. given |-> next + k]), LAMBDA done :
             [done EXCEPT !.eof = job.cap - next = done.consumed \/ given < CursorFetchRows])

\* One round of the inner loop: send a full page, or drain and look at what
\* the drain left.
DrainPage ==
  /\ pc = "drain"
  /\ UNCHANGED <<job, batch, cursor, out>>
  /\ IF block.row_count >= block.max_rows
     THEN /\ FinishPage(block) /\ pc' = "prepare"
          /\ UNCHANGED <<block, next, overflow, why>>
     ELSE \E d \in {DrainSlots} :
              /\ next' = next + d.consumed
              /\ block' = d.b
              /\ overflow' = d.overflow
              /\ \/ /\ d.why # "none"
                    /\ Fail(d.why) /\ UNCHANGED <<est, inbox>>
                 \/ /\ d.why = "none" /\ d.overflow # 0 /\ d.b.row_count > 0
                    /\ FinishPage(d.b) /\ pc' = "prepare" /\ UNCHANGED why
                 \/ /\ d.why = "none" /\ d.overflow # 0 /\ d.b.row_count = 0
                    /\ RetrySmaller(d.b.max_rows) /\ UNCHANGED inbox
                 \/ /\ d.why = "none" /\ d.overflow = 0 /\ d.eof /\ d.b.row_count = 0
                    /\ pc' = "done" /\ UNCHANGED <<est, inbox, why>>
                 \/ /\ d.why = "none" /\ d.overflow = 0 /\ d.eof /\ d.b.row_count > 0
                    /\ FinishPage(d.b) /\ pc' = "prepare" /\ UNCHANGED why
                 \/ /\ d.why = "none" /\ d.overflow = 0 /\ ~d.eof
                    /\ IF d.consumed = 0 THEN Fail("no_progress")
                       ELSE pc' = "drain" /\ UNCHANGED why
                    /\ UNCHANGED <<est, inbox>>

-----------------------------------------------------------------------------
(* ResultPageProducer::next_step_async                                     *)

\* The stream yields a batch of any size, an error, or its end.
NextBatch ==
  /\ pc = "stream" /\ ~NoColumns
  /\ \/ /\ \E n \in next + 1 .. Len(Source) : batch' = n
        /\ pc' = "encode" /\ UNCHANGED why
     \/ /\ next < Len(Source)
        /\ Fail("stream") /\ UNCHANGED batch
     \/ /\ next = Len(Source)
        /\ pc' = "done" /\ UNCHANGED <<batch, why>>
  /\ UNCHANGED <<job, est, block, next, overflow, inbox, cursor, out>>

\* CloseOnlyResultProducer: a result without columns can only be empty.
CloseOnly ==
  /\ pc = "stream" /\ NoColumns
  /\ \/ /\ next < Len(Source)
        /\ \E reason \in {"stream", "rows_without_columns"} : Fail(reason)
     \/ /\ next = Len(Source)
        /\ pc' = "done" /\ UNCHANGED why
  /\ UNCHANGED <<job, est, block, next, overflow, batch, inbox, cursor, out>>

PendingBatch == [r \in 1 .. batch |-> [src |-> r, cells |-> Source[r].cells]]

\* encode_pending_page, one turn of its loop.
EncodePage ==
  /\ pc = "encode" /\ inbox = <<>>
  /\ UNCHANGED <<job, overflow, batch, cursor, out>>
  /\ \E plan \in {PagePlan} : \E fresh \in {InitBlock(plan)} : \E a \in {AppendBatch(fresh, PendingBatch, next)} :
       /\ block' = a.b
       /\ \/ /\ a.st = "error"
             /\ Fail("row_too_large") /\ UNCHANGED <<est, next, inbox>>
          \/ /\ a.st = "full"
             /\ RetrySmaller(fresh.max_rows) /\ UNCHANGED <<next, inbox>>
          \/ /\ a.st = "appended"
             /\ FinishPage(a.b)
             /\ next' = next + a.rows
             /\ pc' = IF next' = batch THEN "stream" ELSE "encode"
             /\ UNCHANGED why

-----------------------------------------------------------------------------
(* The readers.                                                            *)

\* import_owned: the worker takes the page as a batch, the backend opens a
\* cursor on it.  A page the importer refuses ends the query.
ImportPage ==
  /\ inbox # <<>> /\ cursor = <<>>
  /\ UNCHANGED <<job, est, block, next, overflow, batch>>
  /\ LET page == Head(inbox)
         rows == ImportRows(page)
     IN  IF ~ImportOk(page, Specs)
         THEN Fail("import") /\ inbox' = <<>> /\ UNCHANGED <<cursor, out>>
         ELSE /\ inbox' = Tail(inbox)
              /\ IF job.side = "scan" THEN out' = out \o rows /\ UNCHANGED cursor
                 ELSE cursor' = rows /\ UNCHANGED out
              /\ UNCHANGED <<pc, why>>

\* next_page_row_into_slot
ProjectRow ==
  /\ cursor # <<>>
  /\ out' = Append(out, Head(cursor))
  /\ cursor' = Tail(cursor)
  /\ UNCHANGED <<job, est, block, next, overflow, batch, pc, why, inbox>>

Next == PreparePage \/ DrainPage \/ NextBatch \/ CloseOnly \/ EncodePage \/ ImportPage \/ ProjectRow

Spec == Init /\ [][Next]_vars

\* Every step is one the backend or the worker takes in a loop without waiting
\* for anything but a page, which the reader frees.
Fairness == WF_vars(Next)

FairSpec == Spec /\ Fairness

-----------------------------------------------------------------------------

ValuesOf(r) ==
  [c \in DOMAIN Specs |-> IF Source[r].cells[c] = NullCell THEN Null ELSE <<r, c>>]

\* The rows a consumer must see: the source's, without the ones the runtime
\* filter rejects, up to the cursor's row cap.
Expected ==
  LET kept == SelectSeq([r \in 1 .. Total |-> r], LAMBDA r : ~Source[r].rejected)
  IN  [k \in DOMAIN kept |-> ValuesOf(kept[k])]

TypeOK ==
  /\ pc \in {"prepare", "drain", "stream", "encode", "done", "failed"}
  /\ next \in 0 .. Len(Source) /\ overflow \in 0 .. next /\ batch \in 0 .. Len(Source)
  /\ Len(inbox) <= 1

(***************************************************************************)
(* What is read out of pages is the source, in order: no row lost when a   *)
(* page is full, none repeated by a retry, no value taken from another     *)
(* row's bytes, and no page the importer would refuse; and once the        *)
(* producer is done and its pages read, it is all of the source            *)
(* (`fill_next_page_with_snapshot`, `encode_pending_page`, `import_owned`).*)
(***************************************************************************)
RowsArriveInOrder ==
  /\ TypeOK
  /\ IsPrefix(out, Expected)
  /\ why # "import"
  /\ \A i \in DOMAIN inbox : ImportOk(inbox[i], Specs)
  /\ pc = "done" /\ inbox = <<>> /\ cursor = <<>> => out = Expected

\* The row the producer stopped at does not fit an empty page of one row.
FitsAlone(r) ==
  LET plan == LayoutPlan(Specs, 1, BlockSize)
  IN  plan.fits /\ RowTailNeed(plan.columns, Source[r].cells) <= SharedPoolCapacity(plan)

StoppedAt == IF overflow # 0 THEN overflow ELSE next + 1

\* What tail_alloc makes an error of: on a page that holds rows, a value longer
\* than the offset of the lowest value in the tail, the row's own included.
LongerThanCursor(r) ==
  /\ block.row_count > 0
  /\ \E c \in DOMAIN Specs :
       TailNeed(Specs[c], Source[r].cells[c])
         > block.tail_cursor - RowTailNeed(SubSeq(Specs, 1, c - 1), Source[r].cells)

(***************************************************************************)
(* A query fails for a row that no page can hold, and for no other: the    *)
(* back-off reaches one row per page before it gives up, and a page that   *)
(* is merely full is sent.  The exception is the scan encoder's, for a     *)
(* value longer than the page offset it would have to start below          *)
(* (`tail_alloc` subtracts before it compares).  The estimate that sizes   *)
(* pages is the largest count whose expected tail fits, and never above    *)
(* what the front region holds.                                            *)
(***************************************************************************)
FailsOnlyOnOversizedRow ==
  /\ pc = "failed" /\ why # "stream" =>
       \/ ~FitsAlone(StoppedAt)
       \/ why = "rows_without_columns" /\ NoColumns
       \/ why = "encoder" /\ LongerThanCursor(StoppedAt)
  /\ pc \in {"prepare", "encode"} /\ ~NoColumns =>
       /\ LayoutPlan(Specs, est.cap, BlockSize).fits
       /\ ~LayoutPlan(Specs, est.cap + 1, BlockSize).fits
       /\ \E n \in {RowsPerPage} :
            /\ n \in 1 .. est.cap
            /\ HasVariableWidth(Specs) /\ est.backoff = NoBackoff /\ n < est.cap
                 => ~TailFits(est, n + 1)

(***************************************************************************)
(* Every scan and every result ends, in completion or in an error: the     *)
(* loop that starts a page over with fewer rows does not start over for    *)
(* ever (`observe_empty_full_page` halves the reservation).                *)
(***************************************************************************)
Ended == pc \in {"done", "failed"}

=============================================================================
