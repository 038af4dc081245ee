------------------------------ MODULE CteReads ------------------------------
(***************************************************************************)
(* Materialized CTEs (src/pg/scan_node/src/cte.rs).  Every read of a CTE   *)
(* shares one MaterializedCteState: an async mutex around an optional      *)
(* result.  futures::lock::Mutex promises no order, so that any waiting    *)
(* reader may get it, and passes the wake-up on when the woken reader is   *)
(* dropped.  The first reader to hold it executes the input and copies its *)
(* batches; a reader can be dropped at any await, and a reader             *)
(* dropped while it computes leaves no result, so that the next one        *)
(* executes the input again.  A read may stand inside the input of another *)
(* CTE; it is started anew with each execution of that input.              *)
(***************************************************************************)
EXTENDS Integers, Sequences, FiniteSets, SequencesExt

CONSTANTS
  Readers, Ctes,
  CteOf,        \* reader -> the CTE it reads
  Inside,       \* reader -> the CTE whose input it is part of, or Top
  Top,
  Batches,      \* CTE -> the batches of its input, each a sequence of rows
  Fetch,        \* reader -> row limit, or NoFetch
  NoFetch, Nobody,
  MaxDrops      \* bound on dropped readers

VARIABLES
  pc,       \* reader -> idle, waiting, holding, computing, emit, done, failed, dropped
  holder,   \* CTE -> the reader holding the mutex
  result,   \* CTE -> "none", "ready", "failed"
  index,    \* reader -> next batch to collect or to emit
  left,     \* reader -> rows still wanted, or NoFetch
  out,      \* reader -> rows emitted
  runs,     \* CTE -> executions of its input
  lost      \* CTE -> executions abandoned by a dropped reader

vars == <<pc, holder, result, index, left, out, runs, lost>>

InnerOf(c) == {r \in Readers : Inside[r] = c}
Over == {"done", "failed", "dropped"}
Drops == Cardinality({r \in Readers : Inside[r] = Top /\ pc[r] = "dropped"})

(* A reader is polled while the plan around it runs.                       *)
Polled(r) == IF Inside[r] = Top THEN TRUE ELSE holder[Inside[r]] # Nobody

Init ==
  /\ pc = [r \in Readers |-> "idle"] /\ holder = [c \in Ctes |-> Nobody]
  /\ result = [c \in Ctes |-> "none"] /\ index = [r \in Readers |-> 1] /\ left = Fetch
  /\ out = [r \in Readers |-> <<>>] /\ runs = [c \in Ctes |-> 0] /\ lost = [c \in Ctes |-> 0]

(* NeedBatches: lock().await.                                              *)
Read(r) ==
  /\ pc[r] = "idle" /\ Polled(r)
  /\ pc' = [pc EXCEPT ![r] = "waiting"]
  /\ UNCHANGED <<holder, result, index, left, out, runs, lost>>

(* A free mutex goes to any reader that waits and is polled.               *)
Locked(r) ==
  pc[r] = "waiting" /\ holder[CteOf[r]] = Nobody /\ Polled(r)

GetReady(r) ==
  /\ Locked(r) /\ result[CteOf[r]] = "ready"
  /\ pc' = [pc EXCEPT ![r] = "emit"] /\ UNCHANGED <<holder, result, index, left, out, runs, lost>>

GetFailed(r) ==
  /\ Locked(r) /\ result[CteOf[r]] = "failed"
  /\ pc' = [pc EXCEPT ![r] = "failed"] /\ UNCHANGED <<holder, result, index, left, out, runs, lost>>

(* No result yet: execute the input, its inner reads fresh.                *)
Compute(r) ==
  LET c == CteOf[r] IN
  /\ Locked(r) /\ result[c] = "none"
  /\ holder' = [holder EXCEPT ![c] = r] /\ runs' = [runs EXCEPT ![c] = @ + 1]
  /\ pc' = [q \in Readers |-> IF q = r THEN "computing" ELSE IF q \in InnerOf(c) THEN "idle" ELSE pc[q]]
  /\ index' = [q \in Readers |-> IF q \in InnerOf(c) \cup {r} THEN 1 ELSE index[q]]
  /\ left' = [q \in Readers |-> IF q \in InnerOf(c) THEN Fetch[q] ELSE left[q]]
  /\ out' = [q \in Readers |-> IF q \in InnerOf(c) THEN <<>> ELSE out[q]]
  /\ UNCHANGED <<result, lost>>

(* One more batch copied, once the inner reads it needs have ended.        *)
Collect(r) ==
  LET c == CteOf[r] IN
  /\ pc[r] = "computing" /\ index[r] <= Len(Batches[c]) /\ \A q \in InnerOf(c) : pc[q] = "done"
  /\ index' = [index EXCEPT ![r] = @ + 1]
  /\ UNCHANGED <<pc, holder, result, left, out, runs, lost>>

Computed(r) ==
  /\ pc[r] = "computing" /\ index[r] > Len(Batches[CteOf[r]]) /\ \A q \in InnerOf(CteOf[r]) : pc[q] = "done"
  /\ pc' = [pc EXCEPT ![r] = "emit"] /\ index' = [index EXCEPT ![r] = 1]
  /\ result' = [result EXCEPT ![CteOf[r]] = "ready"] /\ holder' = [holder EXCEPT ![CteOf[r]] = Nobody]
  /\ UNCHANGED <<left, out, runs, lost>>

(* The streams under a computing reader, its own input's first.            *)
RECURSIVE Dependents(_)
Dependents(rs) ==
  LET more == UNION {InnerOf(CteOf[r]) : r \in {q \in rs : pc[q] = "computing"}} \ rs
  IN  IF more = {} THEN rs ELSE Dependents(rs \cup more)

(* A mutex that dropped streams hold is released without a result.         *)
Release(gone, finished) ==
  LET freed == {c \in Ctes : holder[c] \in gone} IN
  /\ holder' = [c \in Ctes |-> IF c \in freed \cup finished THEN Nobody ELSE holder[c]]
  /\ lost' = [c \in Ctes |-> IF c \in freed THEN lost[c] + 1 ELSE lost[c]]

(* An error of the input, its own or an inner read's, is kept; the other   *)
(* streams of the input are dropped.                                       *)
InputFails(r) ==
  LET gone == {q \in Dependents({r}) \ {r} : pc[q] \notin Over} IN
  /\ pc[r] = "computing"
  /\ pc' = [q \in Readers |-> IF q = r THEN "failed" ELSE IF q \in gone THEN "dropped" ELSE pc[q]]
  /\ result' = [result EXCEPT ![CteOf[r]] = "failed"]
  /\ Release(gone, {CteOf[r]}) /\ UNCHANGED <<index, left, out, runs>>

(* emit_next_batch: empty batches are skipped, the last one is cut at the  *)
(* rows still wanted.                                                      *)
NextBatch(r) ==
  LET b == Batches[CteOf[r]]
      at == {i \in index[r] .. Len(b) : b[i] # <<>>}
  IN  IF left[r] = 0 \/ at = {} THEN 0 ELSE CHOOSE i \in at : \A j \in at : i <= j

EmitWhole(r) ==
  LET b == Batches[CteOf[r]][NextBatch(r)] IN
  /\ out' = [out EXCEPT ![r] = @ \o b]
  /\ left' = [left EXCEPT ![r] = IF @ = NoFetch THEN @ ELSE IF Len(b) > @ THEN 0 ELSE @ - Len(b)]

ProjectAndSlice(r) ==
  LET b == Batches[CteOf[r]][NextBatch(r)]
      n == IF left[r] = NoFetch \/ Len(b) <= left[r] THEN Len(b) ELSE left[r]
  IN
  /\ out' = [out EXCEPT ![r] = @ \o SubSeq(b, 1, n)]
  /\ left' = [left EXCEPT ![r] = IF @ = NoFetch THEN @ ELSE @ - n]

Emit(r) ==
  /\ pc[r] = "emit" /\ NextBatch(r) # 0 /\ Polled(r)
  /\ ProjectAndSlice(r)
  /\ index' = [index EXCEPT ![r] = NextBatch(r) + 1]
  /\ UNCHANGED <<pc, holder, result, runs, lost>>

EmitEnd(r) ==
  /\ pc[r] = "emit" /\ NextBatch(r) = 0 /\ Polled(r)
  /\ pc' = [pc EXCEPT ![r] = "done"]
  /\ UNCHANGED <<holder, result, index, left, out, runs, lost>>

(* A reader outside any CTE is dropped, with the streams under it.         *)
Drop(r) ==
  LET gone == {q \in Dependents({r}) : pc[q] \notin Over} IN
  /\ Inside[r] = Top /\ pc[r] \notin Over /\ Drops < MaxDrops
  /\ pc' = [q \in Readers |-> IF q \in gone THEN "dropped" ELSE pc[q]]
  /\ Release(gone, {}) /\ UNCHANGED <<result, index, left, out, runs>>

Step(r) ==
  \/ Read(r) \/ GetReady(r) \/ GetFailed(r) \/ Compute(r) \/ Collect(r) \/ Computed(r) \/ InputFails(r) \/ Emit(r) \/ EmitEnd(r)

Next == \E r \in Readers : Step(r) \/ Drop(r)

(* The runtime polls every stream that is not waiting; an error of the     *)
(* input and a drop are never forced.                                      *)
Polls(r) ==
  \/ Read(r) \/ GetReady(r) \/ GetFailed(r) \/ Compute(r) \/ Collect(r) \/ Computed(r)
  \/ Emit(r) \/ EmitEnd(r)
  \/ InputFails(r) /\ \E q \in InnerOf(CteOf[r]) : pc[q] = "failed"

Fairness == \A r \in Readers : WF_vars(Polls(r))

Spec == Init /\ [][Next]_vars /\ Fairness

-----------------------------------------------------------------------------
Wanted(r) ==
  LET rows == FlattenSeq(Batches[CteOf[r]])
  IN  IF Fetch[r] = NoFetch \/ Fetch[r] >= Len(rows) THEN rows ELSE SubSeq(rows, 1, Fetch[r])

(* Reads of one CTE agree: what a read has emitted is a prefix of the rows *)
(* of its input, a read that ends has emitted all it wants, a result is    *)
(* only published by one whole execution, and the input is executed again  *)
(* only when a reader was dropped while it computed (get_or_compute).      *)
CteReadersAgree ==
  /\ \A r \in Readers : IsPrefix(out[r], Wanted(r)) /\ (pc[r] = "done" => out[r] = Wanted(r))
  /\ \A c \in Ctes :
       /\ runs[c] = lost[c] + (IF result[c] # "none" THEN 1 ELSE 0) + (IF holder[c] # Nobody THEN 1 ELSE 0)
       /\ \A r \in Readers : pc[r] \in {"emit", "done"} /\ CteOf[r] = c => result[c] = "ready"
       /\ holder[c] # Nobody => pc[holder[c]] = "computing"

(* No read waits forever, nested CTEs included: every read outside a CTE   *)
(* ends, whatever reads are dropped (the mutex is held across the await of *)
(* the input's execution).                                                 *)
AllRead == \A r \in Readers : Inside[r] = Top => pc[r] \in Over

=============================================================================
