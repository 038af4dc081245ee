----------------------------- MODULE PageBlock -----------------------------
(***************************************************************************)
(* The raw page format every row of pg_fusion travels in (`arrow_layout`), *)
(* the two encoders that write it (`row_encoder` under `slot_encoder` for  *)
(* PostgreSQL slots, `batch_encoder` for Arrow batches), the reader        *)
(* (`import`) and the adaptive estimate of how many rows a page should     *)
(* reserve (`row_estimator`).  All are sequential; this module states them *)
(* as operators on a block, and ScanPages drives them.                     *)
(*                                                                         *)
(* A block is a front region of per-column validity bitmaps and value      *)
(* slots, sized by max_rows, and a tail arena that long text and binary    *)
(* values fill from the end of the block downwards.  Offsets and lengths   *)
(* are the code's byte counts.  A value is abstract: the pair of the       *)
(* source row and column it was read from.                                 *)
(***************************************************************************)
EXTENDS Integers, Sequences, FiniteSets, FiniteSetsExt, SequencesExt

BUFFER_ALIGNMENT == 16
BUFFER_ALIGNMENT_BIAS == 12
VIEW_INLINE_LEN == 12
HeaderSize == 40
DescSize == 20

Null == <<0, 0>>        \* what a reader sees in an invalid row
Zeroed == <<0, -1>>     \* a slot nothing has written since the block was zeroed
Garbage == <<0, -2>>    \* bytes of the tail that are not one written value

NullCell == -1          \* a source cell is its byte length, or NullCell

\* Body(x) with x evaluated once: the set binds its value.
With(x, Body(_)) == CHOOSE r \in {Body(v) : v \in {x}} : TRUE

RECURSIVE FoldSteps(_, _, _)
\* FoldLeft, each accumulator evaluated once.
FoldSteps(Step(_, _), acc, seq) ==
  IF seq = <<>> THEN acc
  ELSE With(Step(acc, Head(seq)), LAMBDA a : FoldSteps(Step, a, Tail(seq)))

-----------------------------------------------------------------------------
(* arrow_layout: types, planning, initialisation, validation.              *)

IsView(tag) == tag \in {"Utf8View", "BinaryView"}

AlignUp(value, alignment) == ((value + alignment - 1) \div alignment) * alignment

AlignUpWithBias(value) ==
  LET delta == BUFFER_ALIGNMENT - BUFFER_ALIGNMENT_BIAS
  IN  AlignUp(value + delta, BUFFER_ALIGNMENT) - delta

BitmapBytes(rows) == (rows + 7) \div 8

ValuesRowWidth(tag) ==
  CASE tag = "Int16" -> 2
    [] tag \in {"Int32", "Float32", "Date32"} -> 4
    [] tag \in {"Int64", "Float64", "Time64Microsecond", "TimestampMicrosecond"} -> 8
    [] OTHER -> 16

ValuesUsedLen(tag, rows) ==
  IF tag = "Boolean" THEN BitmapBytes(rows) ELSE rows * ValuesRowWidth(tag)

ValuesReservedLen(tag, rows) == AlignUp(ValuesUsedLen(tag, rows), BUFFER_ALIGNMENT)

FrontBase(columns) == AlignUpWithBias(HeaderSize + columns * DescSize)

\* LayoutPlan::new; `fits` is FALSE where it returns LayoutDoesNotFit.
LayoutPlan(specs, maxRows, blockSize) ==
  LET validityLen == AlignUp(BitmapBytes(maxRows), BUFFER_ALIGNMENT)
      Place(plan, spec) ==
        [cursor  |-> plan.cursor + validityLen + ValuesReservedLen(spec.tag, maxRows),
         columns |-> Append(plan.columns,
                       [tag |-> spec.tag, nullable |-> spec.nullable, nulls |-> 0,
                        validity_off |-> plan.cursor,
                        values_off |-> plan.cursor + validityLen])]
      front == FrontBase(Len(specs))
  IN  With(FoldSteps(Place, [cursor |-> front, columns |-> <<>>], specs), LAMBDA laid :
        [fits |-> laid.cursor <= blockSize, block_size |-> blockSize, max_rows |-> maxRows,
         front_base |-> front, pool_base |-> laid.cursor, columns |-> laid.columns])

SharedPoolCapacity(plan) == plan.block_size - plan.pool_base

\* init_block: every byte zero, then the header and the descriptors.
InitBlock(plan) ==
  [block_size |-> plan.block_size, max_rows |-> plan.max_rows, row_count |-> 0,
   front_base |-> plan.front_base, pool_base |-> plan.pool_base,
   tail_cursor |-> plan.block_size, descs |-> plan.columns,
   valid |-> [c \in DOMAIN plan.columns |-> [r \in 0 .. plan.max_rows - 1 |-> FALSE]],
   slots |-> [c \in DOMAIN plan.columns |->
                [r \in 0 .. plan.max_rows - 1 |-> [kind |-> "fixed", val |-> Zeroed]]],
   tail |-> {}]

ValidHeader(b) ==
  /\ b.row_count <= b.max_rows
  /\ b.front_base = FrontBase(Len(b.descs))
  /\ b.front_base <= b.pool_base
  /\ b.pool_base <= b.tail_cursor
  /\ b.tail_cursor <= b.block_size
  /\ b.front_base % BUFFER_ALIGNMENT = BUFFER_ALIGNMENT_BIAS
  /\ b.pool_base % BUFFER_ALIGNMENT = BUFFER_ALIGNMENT_BIAS

ValidDescLayout(b) ==
  LET validityLen == AlignUp(BitmapBytes(b.max_rows), BUFFER_ALIGNMENT)
      End(c) == b.descs[c].values_off + ValuesReservedLen(b.descs[c].tag, b.max_rows)
      n == Len(b.descs)
  IN  /\ \A c \in 1 .. n :
           /\ b.descs[c].validity_off = IF c = 1 THEN b.front_base ELSE End(c - 1)
           /\ b.descs[c].values_off = b.descs[c].validity_off + validityLen
      /\ b.pool_base = IF n = 0 THEN b.front_base ELSE End(n)

\* BlockRef::open and BlockMut::validate.
ValidBlock(b) == ValidHeader(b) /\ ValidDescLayout(b)

-----------------------------------------------------------------------------
(* row_encoder: one row at a time, undone when it does not fit.            *)

WriteValidity(b, c, r, valid) ==
  IF b.descs[c].nullable THEN [b EXCEPT !.valid[c][r] = valid] ELSE b

WriteSlot(b, c, r, slot) == [b EXCEPT !.slots[c][r] = slot]

WriteTail(b, start, len, val) ==
  [b EXCEPT !.tail = {e \in @ : e.start + e.len <= start \/ start + len <= e.start}
                        \cup {[start |-> start, len |-> len, val |-> val]}]

\* tail_alloc: subtracting from the block offset, so a value longer than the
\* cursor is an error of its own, not a full page.
TailAlloc(b, len) ==
  IF len > b.tail_cursor THEN [st |-> "error", b |-> b]
  ELSE IF b.tail_cursor - len < b.pool_base THEN [st |-> "full", b |-> b]
  ELSE [st |-> "written", b |-> [b EXCEPT !.tail_cursor = @ - len]]

OutlineView(b, start, len) == [kind |-> "outline", len |-> len, off |-> start - b.pool_base]

WriteNull(b, c, r) ==
  IF ~b.descs[c].nullable THEN [st |-> "error", b |-> b]
  ELSE [st |-> "written",
        b  |-> [WriteSlot(WriteValidity(b, c, r, FALSE), c, r,
                          [kind |-> "fixed", val |-> Zeroed])
                  EXCEPT !.descs[c].nulls = @ + 1]]

WriteFixed(b, c, r, val) ==
  [st |-> "written",
   b  |-> WriteSlot(WriteValidity(b, c, r, TRUE), c, r, [kind |-> "fixed", val |-> val])]

WriteView(b, c, r, len, val) ==
  IF len <= VIEW_INLINE_LEN
  THEN [st |-> "written",
        b  |-> WriteSlot(WriteValidity(b, c, r, TRUE), c, r, [kind |-> "inline", val |-> val])]
  ELSE With(TailAlloc(b, len), LAMBDA a :
         IF a.st # "written" THEN a
         ELSE [st |-> "written",
               b  |-> WriteSlot(WriteTail(WriteValidity(a.b, c, r, TRUE), a.b.tail_cursor, len, val),
                                c, r, OutlineView(a.b, a.b.tail_cursor, len))])

WriteCell(b, c, r, cell, val) ==
  IF cell = NullCell THEN WriteNull(b, c, r)
  ELSE IF IsView(b.descs[c].tag) THEN WriteView(b, c, r, cell, val)
  ELSE WriteFixed(b, c, r, val)

\* rollback_row without giving back the nulls the row had counted.
RollbackKeepsNulls(b, r, processed, tailBefore) == [b EXCEPT !.tail_cursor = tailBefore]

RollbackRow(b, r, processed, tailBefore) ==
  [b EXCEPT !.tail_cursor = tailBefore,
            !.descs = [c \in DOMAIN @ |->
                         IF c <= processed /\ @[c].nullable /\ ~b.valid[c][r]
                         THEN [@[c] EXCEPT !.nulls = @ - 1] ELSE @[c]]]

SingleFixedWidth(descs) ==
  Len(descs) = 1 /\ ~IsView(descs[1].tag) /\ descs[1].tag # "Uuid"

\* try_append_single_fixed_width_row: no rollback to prepare for
AppendSingleFixedWidthRow(b, src, cell) ==
  LET w == IF cell = NullCell THEN WriteNull(b, 1, b.row_count)
           ELSE WriteFixed(b, 1, b.row_count, <<src, 1>>)
  IN  IF w.st = "error" THEN w
      ELSE [st |-> "appended", b |-> [w.b EXCEPT !.row_count = @ + 1]]

\* append_row: `src` is the source row's number, `cells` its cells.
AppendRow(b, src, cells) ==
  IF b.row_count >= b.max_rows THEN [st |-> "full", b |-> b]
  ELSE IF SingleFixedWidth(b.descs) THEN AppendSingleFixedWidthRow(b, src, cells[1])
  ELSE LET row == b.row_count
           Step(acc, c) ==
             IF acc.st # "written" THEN acc
             ELSE With(WriteCell(acc.b, c, row, cells[c], <<src, c>>), LAMBDA w :
                    IF w.st = "full"
                    THEN [st |-> "full", b |-> RollbackRow(acc.b, row, c - 1, b.tail_cursor)]
                    ELSE w)
       IN  With(FoldSteps(Step, [st |-> "written", b |-> b], [c \in DOMAIN b.descs |-> c]),
                LAMBDA done :
                  IF done.st # "written" THEN done
                  ELSE [st |-> "appended", b |-> [done.b EXCEPT !.row_count = row + 1]])

\* slot_encoder takes the unchecked path only when every column is fixed
\* width and cannot be null.
FixedWidthFastPath(descs) ==
  /\ descs # <<>>
  /\ \A c \in DOMAIN descs :
       /\ ~descs[c].nullable
       /\ ~IsView(descs[c].tag)
       /\ descs[c].tag \notin {"Boolean", "Uuid", "Decimal128"}

AppendFixedWidthRow(b, src, cells) ==
  IF b.row_count >= b.max_rows THEN [st |-> "full", b |-> b]
  ELSE IF \E c \in DOMAIN b.descs : cells[c] = NullCell THEN [st |-> "error", b |-> b]
  ELSE LET Step(acc, c) == WriteFixed(acc, c, acc.row_count, <<src, c>>).b
       IN  [st |-> "appended",
            b  |-> [FoldSteps(Step, b, [c \in DOMAIN b.descs |-> c])
                      EXCEPT !.row_count = @ + 1]]

AppendSlot(b, src, cells) ==
  IF FixedWidthFastPath(b.descs) THEN AppendFixedWidthRow(b, src, cells)
  ELSE AppendRow(b, src, cells)

-----------------------------------------------------------------------------
(* batch_encoder: the rows that fit are counted first, then written column *)
(* by column.                                                              *)

TailNeed(desc, cell) == IF IsView(desc.tag) /\ cell > VIEW_INLINE_LEN THEN cell ELSE 0

RowTailNeed(descs, cells) ==
  FoldSteps(LAMBDA sum, c : sum + TailNeed(descs[c], cells[c]), 0, [c \in DOMAIN descs |-> c])

RowsThatFit(b, batch, start, rowCap) ==
  LET Step(acc, i) ==
        LET need == RowTailNeed(b.descs, batch[i].cells)
        IN  IF acc.stop \/ need > acc.left THEN [acc EXCEPT !.stop = TRUE]
            ELSE [acc EXCEPT !.rows = @ + 1, !.left = @ - need]
  IN  FoldSteps(Step, [rows |-> 0, stop |-> FALSE, left |-> b.tail_cursor - b.pool_base],
               [k \in 1 .. rowCap |-> start + k]).rows

\* copy_validity_bitmap and the null count
CopyValidity(b, c, batch, start, rows) ==
  LET Null_(k) == batch[start + k].cells[c] = NullCell
      first == b.row_count
  IN  IF ~b.descs[c].nullable THEN b
      ELSE [b EXCEPT !.valid[c] = [r \in DOMAIN @ |->
                         IF r \in first .. first + rows - 1 THEN ~Null_(r - first + 1) ELSE @[r]],
                     !.descs[c].nulls = @ + Cardinality({k \in 1 .. rows : Null_(k)})]

\* write_boolean_column, write_primitive_column, write_uuid_column: a null
\* row's slot is copied with the rest and never read.
WriteFixedColumn(b, c, batch, start, rows) ==
  LET Slot(r) == [kind |-> "fixed", val |-> <<batch[start + r - b.row_count + 1].src, c>>]
  IN  [st |-> "written",
       b  |-> [b EXCEPT !.slots[c] = [r \in DOMAIN @ |->
                  IF r \in b.row_count .. b.row_count + rows - 1 THEN Slot(r) ELSE @[r]]]]

\* write_plain_bytes_column, write_view_bytes_column: a null row's slot is left.
WriteViewColumn(b, c, batch, start, rows) ==
  LET Step(acc, k) ==
        LET row == batch[start + k]
        IN  IF acc.st # "written" \/ row.cells[c] = NullCell THEN acc
            ELSE WriteView(acc.b, c, b.row_count + k - 1, row.cells[c], <<row.src, c>>)
  IN  FoldSteps(Step, [st |-> "written", b |-> b], [k \in 1 .. rows |-> k])

WriteColumns(b, batch, start, rows) ==
  LET Step(acc, c) ==
        IF acc.st # "written" THEN acc
        ELSE With(CopyValidity(acc.b, c, batch, start, rows), LAMBDA v :
               IF IsView(b.descs[c].tag) THEN WriteViewColumn(v, c, batch, start, rows)
               ELSE WriteFixedColumn(v, c, batch, start, rows))
  IN  FoldSteps(Step, [st |-> "written", b |-> b], [c \in DOMAIN b.descs |-> c])

\* append_batch: rows start+1, start+2, ... of the batch.
AppendBatch(b, batch, start) ==
  LET remaining == Len(batch) - start
      rowCap == Min({remaining, b.max_rows - b.row_count})
      tooLarge == /\ rowCap # 0 /\ b.row_count = 0 /\ b.max_rows = 1
                  /\ RowTailNeed(b.descs, batch[start + 1].cells) > b.block_size - b.pool_base
      Commit(rows) ==
        With(WriteColumns(b, batch, start, rows), LAMBDA done :
          IF done.st # "written" THEN [st |-> "error", b |-> done.b, rows |-> 0]
          ELSE [st |-> "appended", b |-> [done.b EXCEPT !.row_count = @ + rows], rows |-> rows])
  IN  With(IF rowCap = 0 THEN 0 ELSE RowsThatFit(b, batch, start, rowCap), LAMBDA rows :
        IF rows = 0
        THEN [st |-> IF tooLarge THEN "error" ELSE "full", b |-> b, rows |-> 0]
        ELSE Commit(rows))

-----------------------------------------------------------------------------
(* import: the rows a reader of the page sees.                             *)

NullsOf(b, c) == Cardinality({r \in 0 .. b.row_count - 1 : ~b.valid[c][r]})

ImportNullsOk(b, c) ==
  IF b.descs[c].nullable THEN b.descs[c].nulls = NullsOf(b, c) ELSE b.descs[c].nulls = 0

ReadsNull(b, c, r) == b.descs[c].nullable /\ ~b.valid[c][r]

\* validate_view_tail with ByteView::validate.
ViewTailOk(b, c) ==
  \A r \in 0 .. b.row_count - 1 :
    LET s == b.slots[c][r]
    IN  s.kind = "outline" /\ ~ReadsNull(b, c, r) =>
          /\ s.off + s.len <= b.block_size - b.pool_base
          /\ s.off >= b.tail_cursor - b.pool_base

ImportOk(b, specs) ==
  /\ ValidBlock(b)
  /\ Len(b.descs) = Len(specs)
  /\ \A c \in DOMAIN specs :
       /\ b.descs[c].tag = specs[c].tag
       /\ b.descs[c].nullable = specs[c].nullable
       /\ ImportNullsOk(b, c)
       /\ IsView(specs[c].tag) => ViewTailOk(b, c)

ReadValue(b, c, r) ==
  LET s == b.slots[c][r]
      at == {e \in b.tail : e.start = b.pool_base + s.off /\ e.len = s.len}
  IN  IF ReadsNull(b, c, r) THEN Null
      ELSE IF s.kind # "outline" THEN s.val
      ELSE IF at = {} THEN Garbage ELSE (CHOOSE e \in at : TRUE).val

ImportRows(b) ==
  [i \in 1 .. b.row_count |-> [c \in DOMAIN b.descs |-> ReadValue(b, c, i - 1)]]

-----------------------------------------------------------------------------
(* row_estimator: how many rows the next page reserves.                    *)

CeilDiv(num, den) == (num + den - 1) \div den

RECURSIVE LargestRows(_, _, _)
\* The estimator's binary search: Ok holds of every count up to some bound.
LargestRows(Ok(_), low, high) ==
  IF low >= high THEN low
  ELSE With(low + CeilDiv(high - low, 2), LAMBDA mid :
         IF Ok(mid) THEN LargestRows(Ok, mid, high) ELSE LargestRows(Ok, low, mid - 1))

FixedRowCap(specs, blockSize) ==
  LargestRows(LAMBDA n : LayoutPlan(specs, n, blockSize).fits, 0, blockSize * 8)

NoBackoff == 0

NewEstimator(specs, blockSize, prior) ==
  [specs |-> specs, block_size |-> blockSize, cap |-> FixedRowCap(specs, blockSize),
   prior |-> prior, rows |-> 0, tail |-> 0, backoff |-> NoBackoff]

HasVariableWidth(specs) == \E c \in DOMAIN specs : IsView(specs[c].tag)

TailFits(est, n) ==
  LET num == IF est.rows = 0 THEN est.prior ELSE est.tail
      den == IF est.rows = 0 THEN 1 ELSE est.rows
  IN  CeilDiv(n * num, den) <= SharedPoolCapacity(LayoutPlan(est.specs, n, est.block_size))

Estimate(est) ==
  IF ~HasVariableWidth(est.specs) THEN est.cap
  ELSE Max({1, LargestRows(LAMBDA n : TailFits(est, n), 0,
                           IF est.backoff = NoBackoff THEN est.cap ELSE est.backoff)})

\* observe_encoded_block: a finished page teaches the ratio, and ends a back-off.
ObservePage(est, b) ==
  IF b.row_count = 0 \/ ~HasVariableWidth(est.specs) THEN est
  ELSE [est EXCEPT !.rows = @ + b.row_count,
                   !.tail = @ + (b.block_size - b.tail_cursor),
                   !.backoff = NoBackoff]

CanBackOff(est, attempted) == HasVariableWidth(est.specs) /\ attempted > 1

\* the reservation that failed is kept
ObserveEmptyFullStuck(est, attempted) ==
  [est EXCEPT !.backoff = IF @ = NoBackoff THEN attempted ELSE @]

ObserveEmptyFullPage(est, attempted) ==
  LET next == CeilDiv(attempted, 2)
  IN  [est EXCEPT !.backoff = IF @ = NoBackoff THEN next ELSE Min({@, next})]
=============================================================================
