--------------------------- MODULE ScanWorkerJobs ---------------------------
(***************************************************************************)
(* How a backend starts dynamic background workers for its scans.          *)
(*                                                                         *)
(* The leader splits the blocks of each table between itself and the       *)
(* workers its budget allows, describes every share in a job of a shared   *)
(* registry, asks the postmaster for a process whose only argument is the  *)
(* index of the job, and waits for that process to publish the scan slot   *)
(* it serves.  Jobs are reused as soon as they are done or failed, and a   *)
(* process that starts late may find its index given to another scan.      *)
(*                                                                         *)
(* The address of a peer (slot, generation, lease epoch) is one value: its *)
(* three relaxed stores are one step, and so are its three loads.  Two     *)
(* processes that publish themselves in one job at the same time could mix *)
(* them; the mixture names a lease nobody holds, so that nothing is sent.  *)
(***************************************************************************)
EXTENDS Integers, Sequences, FiniteSets, SequencesExt, FiniteSetsExt

CONSTANTS
  Blocks,       \* per leader, the block counts of the tables its query scans
  QueryBudget,  \* dynamic workers one query may ask for
  Capacity,     \* jobs in the registry
  MaxProcs,     \* background workers the postmaster ever starts
  EpochGap      \* distance between the session epochs of two leaders

ASSUME ScanWorkerJobsAssumption ==
  /\ Blocks \in Seq(Seq(Nat))
  /\ QueryBudget \in Nat
  /\ {Capacity, MaxProcs, EpochGap} \subseteq Nat \ {0}

Leaders == DOMAIN Blocks
Jobs == 1..Capacity
Procs == 1..MaxProcs

-----------------------------------------------------------------------------
(***************************************************************************)
(* Budgets and block ranges                                                *)
(***************************************************************************)
\* Why a table is read by its leader alone; "" when workers may take part.
scan_worker_eligibility(t) ==
  CASE t.dummy -> "dummy_projection"
    [] t.columns = 0 -> "empty_output_projection"
    [] t.temp -> "relation_not_cross_backend_visible"
    [] t.dropped -> "relation_has_dropped_attributes"
    [] t.blocks = 0 -> "empty_relation"
    [] t.blocks = 1 -> "single_block_relation"
    [] OTHER -> ""

Plain(blocks) == [dummy |-> FALSE, columns |-> 1, temp |-> FALSE, dropped |-> FALSE, blocks |-> blocks]

MaxWorkers(t) == t.blocks - 1

\* The scans of a query that may have workers, largest table first.
scan_worker_budget_candidates(tables) ==
  SetToSortSeq({s \in DOMAIN tables : scan_worker_eligibility(tables[s]) = ""},
               LAMBDA a, b : \/ tables[a].blocks > tables[b].blocks
                             \/ tables[a].blocks = tables[b].blocks /\ a < b)

\* One round over the candidates: each that has room takes one worker while any is left.
BudgetRound(tables, cand, st) ==
  FoldLeft(LAMBDA acc, s : IF acc.left > 0 /\ acc.got[s] < MaxWorkers(tables[s])
                           THEN [left |-> acc.left - 1, got |-> [acc.got EXCEPT ![s] = @ + 1]]
                           ELSE acc,
           st, cand)

\* Rounds are repeated until the budget is spent or a round assigns nothing.
assign_scan_worker_budgets(tables, budget) ==
  LET cand == scan_worker_budget_candidates(tables)
      none == [left |-> budget, got |-> [s \in DOMAIN tables |-> 0]]
      \* budget rounds are enough: every round but the last assigns a worker
      rounds[n \in 0..budget] ==
        IF n = 0 THEN none ELSE BudgetRound(tables, cand, rounds[n - 1])
  IN  rounds[budget].got

total_producers(blocks, workers) == Min({workers + 1, blocks})

\* The blocks producer id of total reads: from (inclusive) and to (exclusive).
producer_block_range(blocks, total, id) ==
  [from |-> (blocks * id) \div total, to |-> (blocks * (id + 1)) \div total]

WholeTable(blocks) == [from |-> 0, to |-> blocks]

\* What EXPLAIN announces for a scan: the ranges of its producers, by producer id.
explain_scan_worker_parallelism(tables, s) ==
  LET workers == assign_scan_worker_budgets(tables, QueryBudget)[s]
      total == total_producers(tables[s].blocks, workers)
  IN  IF workers = 0 THEN <<WholeTable(tables[s].blocks)>>
      ELSE [i \in 1..total |-> producer_block_range(tables[s].blocks, total, i - 1)]

-----------------------------------------------------------------------------
VARIABLES
  job,      \* the registry: state, key, payload and peer of every job
  led,      \* the leaders' launches
  handed,   \* per leader, the workers its finished launches hand to the query
  proc,     \* the background worker processes
  inbox,    \* messages published to a process's scan slot and not read yet
  foreign   \* history: jobs whose index somebody used for another job while they lived

vars == <<job, led, handed, proc, inbox, foreign>>

NoSpec == <<0, 0, 0>>                   \* leader, scan, producer
Tables(l) == [s \in DOMAIN Blocks[l] |-> Plain(Blocks[l][s])]
\* prepare_query computes the budgets of all scans of a query at once.
prepare_query == [l \in Leaders |-> assign_scan_worker_budgets(Tables(l), QueryBudget)]
Totals == [l \in Leaders |-> [s \in DOMAIN Blocks[l] |-> total_producers(Blocks[l][s], prepare_query[l][s])]]
WorkersOf(l, s) == prepare_query[l][s]
TotalOf(l, s) == Totals[l][s]

\* The key of a job: what the worker compares an OpenScan message with.
Key(sp) == [epoch |-> EpochGap * sp[1], scan |-> sp[2]]
\* Its payload: the statement the worker will run, with the range of blocks it is limited to.
Payload(sp) == [table |-> <<sp[1], sp[2]>>,
                range |-> producer_block_range(Blocks[sp[1]][sp[2]], TotalOf(sp[1], sp[2]), sp[3])]

Reservable == {"FREE", "DONE", "FAILED"}
Live == {"STARTING", "READY", "RUNNING"}

LeaderStates == {"scan", "alloc", "write", "start", "wait", "peer", "mark", "failing",
                 "begun", "opened", "error"}
ProcStates == {"none", "boot", "key", "lease", "publish", "run", "open", "serve", "mark", "failing", "exit", "dead"}
\* States in which the process holds a lease of a scan slot.
Leased == {"publish", "run", "open", "serve", "mark", "failing"}

Init ==
  /\ job = [j \in Jobs |-> [state |-> "FREE", spec |-> NoSpec, peer |-> 0]]
  /\ led = [l \in Leaders |-> [pc |-> "scan", scan |-> 1, prod |-> 1, at |-> 1, then |-> "",
                               workers |-> <<>>, exhausted |-> FALSE]]
  /\ handed = [l \in Leaders |-> <<>>]
  /\ proc = [w \in Procs |-> [pc |-> "none", job |-> 0, for |-> NoSpec, body |-> NoSpec,
                              key |-> NoSpec, asked |-> NoSpec, eof |-> 0]]
  /\ inbox = [w \in Procs |-> <<>>]
  /\ foreign = {}

Spec0(l) == <<l, led[l].scan, led[l].prod>>

\* A job written to by somebody who does not know it has been given away.
Touch(j, sp) == foreign' = IF job[j].spec # sp THEN foreign \cup {job[j].spec} ELSE foreign

-----------------------------------------------------------------------------
(***************************************************************************)
(* The leader                                                              *)
(***************************************************************************)
LeaderOnly(l) == [scan |-> led[l].scan, own |-> WholeTable(Blocks[l][led[l].scan]), workers |-> <<>>]

NextScan(l) == [led[l] EXCEPT !.pc = "scan", !.scan = @ + 1, !.workers = <<>>]

\* CancelScan goes to the workers of this scan whose slot is still leased to them.
cancel_launched_scan_workers(l) ==
  inbox' = [w \in Procs |->
              IF \E i \in DOMAIN led[l].workers :
                   led[l].workers[i].peer = w /\ proc[w].pc \in Leased
              THEN Append(inbox[w], [kind |-> "CancelScan", spec |-> NoSpec]) ELSE inbox[w]]

\* The launch gives up on workers for this scan and all later ones: leader only.
handle_capacity_exhausted(l) ==
  /\ led' = [led EXCEPT ![l] = [NextScan(l) EXCEPT !.exhausted = TRUE]]
  /\ handed' = [handed EXCEPT ![l] = Append(@, LeaderOnly(l))]
  /\ cancel_launched_scan_workers(l)

\* The launch, and with it the query, fails.
LaunchError(l) ==
  /\ led' = [led EXCEPT ![l].pc = "error"]
  /\ cancel_launched_scan_workers(l)
  /\ UNCHANGED handed

StartScan(l) ==
  LET s == led[l].scan
  IN  /\ led[l].pc = "scan"
      /\ \/ /\ s > Len(Blocks[l])
            /\ led' = [led EXCEPT ![l].pc = "begun", ![l].scan = 1]
            /\ UNCHANGED handed
         \/ /\ s <= Len(Blocks[l])
            /\ led[l].exhausted \/ WorkersOf(l, s) = 0 \/ TotalOf(l, s) <= 1
            /\ led' = [led EXCEPT ![l] = NextScan(l)]
            /\ handed' = [handed EXCEPT ![l] = Append(@, LeaderOnly(l))]
         \/ /\ s <= Len(Blocks[l])
            /\ ~led[l].exhausted /\ WorkersOf(l, s) > 0 /\ TotalOf(l, s) > 1
            /\ led' = [led EXCEPT ![l].pc = "alloc", ![l].prod = 1, ![l].at = 1]
            /\ UNCHANGED handed
      /\ UNCHANGED <<job, proc, inbox, foreign>>

\* allocate looks at one job after the other and reserves the first one it can.
TryReserve(l) ==
  LET j == led[l].at
  IN  /\ led[l].pc = "alloc" /\ j \in Jobs
      /\ IF job[j].state \in Reservable
         THEN /\ job' = [job EXCEPT ![j].state = "RESERVED"]
              /\ led' = [led EXCEPT ![l].pc = "write"]
         ELSE /\ led' = [led EXCEPT ![l].at = @ + 1]
              /\ UNCHANGED job
      /\ UNCHANGED <<handed, proc, inbox, foreign>>

NoFreeJobSlots(l) ==
  /\ led[l].pc = "alloc" /\ led[l].at > Capacity
  /\ handle_capacity_exhausted(l)
  /\ UNCHANGED <<job, proc, foreign>>

\* The reserved job is filled in and published for the worker to come.
WriteJob(l) ==
  /\ led[l].pc = "write"
  /\ job' = [job EXCEPT ![led[l].at] = [state |-> "STARTING", spec |-> Spec0(l), peer |-> 0]]
  /\ led' = [led EXCEPT ![l].pc = "start"]
  /\ UNCHANGED <<handed, proc, inbox, foreign>>

load_dynamic(l) ==
  /\ led[l].pc = "start"
  /\ \E w \in Procs :
       /\ proc[w].pc = "none" /\ \A v \in 1..w - 1 : proc[v].pc # "none"
       /\ proc' = [proc EXCEPT ![w].pc = "boot", ![w].job = led[l].at, ![w].for = Spec0(l)]
  /\ led' = [led EXCEPT ![l].pc = "wait"]
  /\ UNCHANGED <<job, handed, inbox, foreign>>

\* The postmaster has no process to spare: the job is failed, the scan is left to the leader.
LoadDynamicFails(l) ==
  /\ led[l].pc = "start"
  /\ led' = [led EXCEPT ![l].pc = "mark", ![l].then = "exhausted"]
  /\ UNCHANGED <<job, handed, proc, inbox, foreign>>

SeeReadyEarly(l) ==
  /\ led[l].pc = "wait" /\ job[led[l].at].state \in Live
  /\ led' = [led EXCEPT ![l].pc = "peer"]
  /\ UNCHANGED <<job, handed, proc, inbox, foreign>>

\* wait_ready sees the job taken up; the peer is read in a step of its own.
SeeReady(l) ==
  /\ led[l].pc = "wait" /\ job[led[l].at].state \in {"READY", "RUNNING", "DONE"}
  /\ led' = [led EXCEPT ![l].pc = "peer"]
  /\ UNCHANGED <<job, handed, proc, inbox, foreign>>

ReadPeer(l) ==
  LET s == led[l].scan
      ws == Append(led[l].workers, [prod |-> led[l].prod, peer |-> job[led[l].at].peer])
  IN  /\ led[l].pc = "peer"
      /\ IF led[l].prod + 1 < TotalOf(l, s)
         THEN /\ led' = [led EXCEPT ![l].pc = "alloc", ![l].at = 1, ![l].prod = @ + 1,
                                    ![l].workers = ws]
              /\ UNCHANGED handed
         ELSE /\ led' = [led EXCEPT ![l] = NextScan(l)]
              /\ handed' = [handed EXCEPT ![l] = Append(@,
                     [scan |-> s, workers |-> ws,
                      own |-> producer_block_range(Blocks[l][s], TotalOf(l, s), 0)])]
      /\ foreign' = IF job[led[l].at].spec # Spec0(l) THEN foreign \cup {Spec0(l)} ELSE foreign
      /\ UNCHANGED <<job, proc, inbox>>

\* wait_ready sees the job failed, or its five seconds are over.
WaitReadyFails(l) ==
  /\ led[l].pc = "wait" /\ job[led[l].at].state \notin {"READY", "RUNNING", "DONE"}
  /\ led' = [led EXCEPT ![l].pc = "mark", ![l].then = "error"]
  /\ UNCHANGED <<job, handed, proc, inbox, foreign>>

AfterMark(l) == IF led[l].then = "error" THEN LaunchError(l) ELSE handle_capacity_exhausted(l)

\* mark_failed by the leader: a live job is taken to FAILING, any other is left alone.
LeaderMarksFailed(l) ==
  LET j == led[l].at
  IN  /\ led[l].pc = "mark"
      /\ \/ /\ job[j].state \in Live
            /\ job' = [job EXCEPT ![j].state = "FAILING"]
            /\ led' = [led EXCEPT ![l].pc = "failing"]
            /\ Touch(j, Spec0(l))
            /\ UNCHANGED <<handed, inbox>>
         \/ /\ job[j].state \notin Live \cup {"FAILING"}
            /\ AfterMark(l)
            /\ UNCHANGED <<job, foreign>>
      /\ UNCHANGED proc

LeaderWritesFailed(l) ==
  /\ led[l].pc = "failing"
  /\ job' = [job EXCEPT ![led[l].at].state = "FAILED"]
  /\ AfterMark(l)
  /\ UNCHANGED <<proc, foreign>>

\* The DataFusion worker opens the scans of the query, one after the other.
OpenScan(l) ==
  LET s == led[l].scan
  IN  /\ led[l].pc = "begun"
      /\ IF s > Len(handed[l])
         THEN /\ led' = [led EXCEPT ![l].pc = "opened"]
              /\ UNCHANGED inbox
         ELSE /\ led' = [led EXCEPT ![l].scan = @ + 1]
              /\ inbox' = [w \in Procs |->
                   LET to == SelectSeq(handed[l][s].workers,
                                       LAMBDA r : r.peer = w /\ proc[w].pc \in Leased)
                   IN  inbox[w] \o [i \in DOMAIN to |->
                         [kind |-> "OpenScan", spec |-> <<l, s, to[i].prod>>]]]
      /\ UNCHANGED <<job, handed, proc, foreign>>

\* The query ends before its scans are opened; nobody tells the workers.
QueryEnds(l) ==
  /\ led[l].pc = "begun"
  /\ led' = [led EXCEPT ![l].pc = "error"]
  /\ UNCHANGED <<job, handed, proc, inbox, foreign>>

-----------------------------------------------------------------------------
(***************************************************************************)
(* The background worker                                                   *)
(***************************************************************************)
Goto(w, pc) == proc' = [proc EXCEPT ![w].pc = pc]

\* snapshot, first half: a job that can be started has its payload decoded.
SnapshotPayload(w) ==
  LET j == job[proc[w].job]
  IN  /\ proc[w].pc = "boot"
      /\ IF j.state \in Live
         THEN proc' = [proc EXCEPT ![w].pc = "key", ![w].body = j.spec]
         ELSE Goto(w, "exit")
      /\ UNCHANGED <<job, led, handed, inbox, foreign>>

\* snapshot, second half: the other fields are loaded one by one.
SnapshotKey(w) ==
  /\ proc[w].pc = "key"
  /\ proc' = [proc EXCEPT ![w].pc = "lease", ![w].key = job[proc[w].job].spec]
  /\ UNCHANGED <<job, led, handed, inbox, foreign>>

\* The process connects to the database and leases a scan slot, or ends without one.
AcquireFails(w) ==
  /\ proc[w].pc = "lease"
  /\ Goto(w, "exit")
  /\ UNCHANGED <<job, led, handed, inbox, foreign>>

\* publish_ready stores the peer before it knows whether the job is still its own.
StorePeer(w) ==
  /\ proc[w].pc = "lease"
  /\ job' = [job EXCEPT ![proc[w].job].peer = w]
  /\ Goto(w, "publish")
  /\ Touch(proc[w].job, proc[w].for)
  /\ UNCHANGED <<led, handed, inbox>>

\* A transition of the job's state, or the end of the process when the state is another.
Transition(w, expected, next, pc) ==
  IF job[proc[w].job].state = expected
  THEN /\ job' = [job EXCEPT ![proc[w].job].state = next]
       /\ Goto(w, pc)
       /\ Touch(proc[w].job, proc[w].for)
  ELSE /\ Goto(w, "exit")
       /\ UNCHANGED <<job, foreign>>

PublishReady(w) ==
  /\ proc[w].pc = "publish"
  /\ Transition(w, "STARTING", "READY", "run")
  /\ UNCHANGED <<led, handed, inbox>>

MarkRunning(w) ==
  /\ proc[w].pc = "run"
  /\ Transition(w, "READY", "RUNNING", "open")
  /\ UNCHANGED <<led, handed, inbox>>

ReceiveOpenUnchecked(w) ==
  /\ proc[w].pc = "open" /\ inbox[w] # <<>>
  /\ IF Head(inbox[w]).kind = "OpenScan"
     THEN proc' = [proc EXCEPT ![w].pc = "serve", ![w].asked = Head(inbox[w]).spec]
     ELSE Goto(w, "mark")
  /\ inbox' = [inbox EXCEPT ![w] = Tail(@)]
  /\ UNCHANGED <<job, led, handed, foreign>>

\* The worker serves an OpenScan for its session epoch, its scan and its number of producers;
\* anything else, and CancelScan, is an error.
ReceiveOpen(w) ==
  LET msg == Head(inbox[w])
      own == proc[w].key
  IN  /\ proc[w].pc = "open" /\ inbox[w] # <<>>
      /\ IF /\ msg.kind = "OpenScan" /\ Key(msg.spec) = Key(own)
            /\ TotalOf(msg.spec[1], msg.spec[2]) = TotalOf(own[1], own[2])
         THEN proc' = [proc EXCEPT ![w].pc = "serve", ![w].asked = msg.spec]
         ELSE Goto(w, "mark")
      /\ inbox' = [inbox EXCEPT ![w] = Tail(@)]
      /\ UNCHANGED <<job, led, handed, foreign>>

\* No message for thirty seconds.
OpenTimeout(w) ==
  /\ proc[w].pc = "open" /\ inbox[w] = <<>>
  /\ Goto(w, "mark")
  /\ UNCHANGED <<job, led, handed, inbox, foreign>>

\* The producer has sent its pages and ScanFinished, with the producer id of the snapshot:
\* mark_done, after which the process ends whether the job was still its own or not.
MarkDone(w) ==
  LET j == proc[w].job
  IN  /\ proc[w].pc = "serve"
      /\ proc' = [proc EXCEPT ![w].pc = "exit", ![w].eof = proc[w].key[3]]
      /\ IF job[j].state = "RUNNING"
         THEN job' = [job EXCEPT ![j].state = "DONE"] /\ Touch(j, proc[w].for)
         ELSE UNCHANGED <<job, foreign>>
      /\ UNCHANGED <<led, handed, inbox>>

ServeFails(w) ==
  /\ proc[w].pc = "serve"
  /\ Goto(w, "mark")
  /\ UNCHANGED <<job, led, handed, inbox, foreign>>

\* mark_failed by the worker.
WorkerMarksFailed(w) ==
  LET j == proc[w].job
  IN  /\ proc[w].pc = "mark"
      /\ \/ /\ job[j].state \in Live
            /\ job' = [job EXCEPT ![j].state = "FAILING"]
            /\ Goto(w, "failing")
            /\ Touch(j, proc[w].for)
         \/ /\ job[j].state \notin Live \cup {"FAILING"}
            /\ Goto(w, "exit")
            /\ UNCHANGED <<job, foreign>>
      /\ UNCHANGED <<led, handed, inbox>>

WorkerWritesFailed(w) ==
  /\ proc[w].pc = "failing"
  /\ job' = [job EXCEPT ![proc[w].job].state = "FAILED"]
  /\ Goto(w, "exit")
  /\ UNCHANGED <<led, handed, inbox, foreign>>

\* An error raised by PostgreSQL, or a termination request, ends the process where it
\* connects, waits or runs its statement; the job is left as it is.
Die(w) ==
  /\ proc[w].pc \in {"lease", "open", "serve"}
  /\ Goto(w, "dead")
  /\ UNCHANGED <<job, led, handed, inbox, foreign>>

-----------------------------------------------------------------------------
LeaderStep(l) ==
  \/ StartScan(l) \/ TryReserve(l) \/ NoFreeJobSlots(l) \/ WriteJob(l)
  \/ load_dynamic(l) \/ LoadDynamicFails(l)
  \/ SeeReady(l) \/ ReadPeer(l) \/ WaitReadyFails(l)
  \/ LeaderMarksFailed(l) \/ LeaderWritesFailed(l)
  \/ OpenScan(l) \/ QueryEnds(l)

WorkerStep(w) ==
  \/ SnapshotPayload(w) \/ SnapshotKey(w)
  \/ AcquireFails(w) \/ StorePeer(w) \/ PublishReady(w) \/ MarkRunning(w)
  \/ ReceiveOpen(w) \/ OpenTimeout(w) \/ MarkDone(w) \/ ServeFails(w)
  \/ WorkerMarksFailed(w) \/ WorkerWritesFailed(w)

Next ==
  \/ \E l \in Leaders : LeaderStep(l)
  \/ \E w \in Procs : WorkerStep(w) \/ Die(w)

Spec == Init /\ [][Next]_vars

\* Both sides run until they are done; the timeouts of wait_ready and of the wait for OpenScan
\* are among their steps and do expire.  Nothing obliges a process to die.
Fairness ==
  /\ \A l \in Leaders : WF_vars(LeaderStep(l))
  /\ \A w \in Procs : WF_vars(WorkerStep(w))

FairSpec == Spec /\ Fairness

-----------------------------------------------------------------------------
JobStates == {"FREE", "RESERVED", "STARTING", "READY", "RUNNING", "DONE", "FAILED", "FAILING"}

\* The types of the variables.
TypeOK ==
  /\ \A j \in Jobs : job[j].state \in JobStates /\ job[j].peer \in 0..MaxProcs
  /\ \A l \in Leaders : led[l].pc \in LeaderStates /\ led[l].at \in 1..Capacity + 1
  /\ \A w \in Procs : proc[w].pc \in ProcStates /\ proc[w].job \in 0..Capacity

(***************************************************************************)
(* The peer that wait_ready returns is the process started for this job,   *)
(* which has leased its slot by then.  The exceptions are the jobs that    *)
(* somebody with the same index but another job in mind has written to,    *)
(* and those given away between the two loads of wait_ready.               *)
(***************************************************************************)
PeersAreTheJobsWorkers ==
  TypeOK /\ \A l \in Leaders : \A e \in ToSet(handed[l]) : \A r \in ToSet(e.workers) :
    \/ r.peer # 0 /\ proc[r.peer].for = <<l, e.scan, r.prod>>
    \/ <<l, e.scan, r.prod>> \in foreign

Once(blocks, ranges) ==
  \A b \in 0..blocks - 1 :
    Cardinality({i \in DOMAIN ranges : ranges[i].from <= b /\ b < ranges[i].to}) = 1

\* The ranges the launch has planned for the producers of a scan, leader first.
Planned(l, e) ==
  <<e.own>> \o [i \in DOMAIN e.workers |-> Payload(<<l, e.scan, e.workers[i].prod>>).range]

\* The scan role of the worker has the end of every producer, each under its own id.
Completed(l, e) ==
  /\ \A r \in ToSet(e.workers) : r.peer # 0 /\ proc[r.peer].asked = <<l, e.scan, r.prod>>
  /\ {proc[r.peer].eof : r \in ToSet(e.workers)} = {r.prod : r \in ToSet(e.workers)}

\* What its workers have really read.
ReadByWorkers(e) == [i \in DOMAIN e.workers |-> Payload(proc[e.workers[i].peer].body)]

Explained == [l \in Leaders |-> [s \in DOMAIN Blocks[l] |-> explain_scan_worker_parallelism(Tables(l), s)]]

(***************************************************************************)
(* Whatever the launch comes to - all workers, none, or a retreat to the   *)
(* leader after some had been started - every block of the table belongs   *)
(* to exactly one of the producers handed to the query, and when no        *)
(* capacity ran out they are those EXPLAIN announces.  A scan that         *)
(* completes has read just these blocks: the index of a job does not       *)
(* identify it, so a worker may serve a leader or a share it was not       *)
(* started for, but then the check of OpenScan against its snapshot or the *)
(* producer id in its ScanFinished makes the scan fail.  The exception is  *)
(* a worker whose snapshot is torn, its job given away between two loads   *)
(* of snapshot(); two leaders in the same session epoch would be another.  *)
(***************************************************************************)
ScansReadEachBlockOnce ==
  \A l \in Leaders : \A e \in ToSet(handed[l]) :
    /\ Once(Blocks[l][e.scan], Planned(l, e))
    /\ ~led[l].exhausted => Planned(l, e) = Explained[l][e.scan]
    /\ Completed(l, e) =>
         \/ \E r \in ToSet(e.workers) : proc[r.peer].body # proc[r.peer].key
         \/ LET read == ReadByWorkers(e)
            IN  /\ \A i \in DOMAIN read : read[i].table = <<l, e.scan>>
                /\ Once(Blocks[l][e.scan], <<e.own>> \o [i \in DOMAIN read |-> read[i].range])

(***************************************************************************)
(* Every launch ends: with its producers, leader-only, or with an error.   *)
(* And every job becomes reservable again, except when a process died on   *)
(* it after it had been published: nothing takes such a job back.          *)
(***************************************************************************)
Settled ==
  /\ \A l \in Leaders : led[l].pc \in {"opened", "error"}
  /\ \A j \in Jobs : \/ job[j].state \in Reservable
                     \/ \E w \in Procs : proc[w].pc = "dead" /\ proc[w].job = j

======================================================================
