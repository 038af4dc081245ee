------------------------------ MODULE MCScans ------------------------------
(***************************************************************************)
(* The life of a scan in three parts that meet only at their ends, so that *)
(* a behaviour is one of one of them, as `mode` says, and the others stand *)
(* still:                                                                  *)
(*   launch   two leaders take background workers for their scans: one has *)
(*            a table of three blocks and two workers, the other a table   *)
(*            of two blocks and one, and the registry holds a single job;  *)
(*   drive    one backend drives the streams of two scans of a query from  *)
(*            its executor node, two pages each, with three permits;       *)
(*   fan_in   the worker's scan thread merges a leader's and a standalone  *)
(*            producer's pages, up to two each, with two permits.          *)
(* All rings and channels hold one entry, so that every one of them fills. *)
(***************************************************************************)
EXTENDS ScanWorkerJobs

CONSTANTS Scans, DriverPermits, RingFrames, MaxPages, ChanCap,
          Standalone, RingCap, InboxCap, Permits

VARIABLES mode,
          exec, entry, streams, dfilled, driver, pc, todo, pending, toWorker, toBackend,
          leased, primary, dfree, thread, dchan, query, ended, broke, why,
          total, filled, prod, ring, pinbox, own, free, wpc, cur, hand, seen, chan, stop,
          consumer, taken, failed

MCBlocks == << <<3>>, <<2>> >>
MCScanSet == 1..2

ASSUME DriveAssumption ==
  /\ Scans \in {1..n : n \in 1..3}
  /\ {DriverPermits, RingFrames, ChanCap} \subseteq Nat \ {0}

ASSUME FanInAssumption ==
  /\ Standalone \in Nat /\ MaxPages \in Nat
  /\ {RingCap, InboxCap, Permits} \subseteq Nat \ {0}

Drive == INSTANCE ScanDrivers WITH Permits <- DriverPermits, filled <- dfilled,
                                   free <- dfree, chan <- dchan
FanIn == INSTANCE ScanFanIn WITH inbox <- pinbox

driveVars == <<exec, entry, streams, dfilled, driver, pc, todo, pending, toWorker, toBackend,
               leased, primary, dfree, thread, dchan, query, ended, broke, why>>
fanInVars == <<total, filled, prod, ring, pinbox, own, free, wpc, cur, hand, seen, chan, stop,
               consumer, taken, failed>>
all == <<mode, vars, driveVars, fanInVars>>

MCInit ==
  /\ mode \in {"launch", "drive", "fan_in"}
  /\ Init /\ Drive!Init /\ FanIn!Init
  /\ mode # "fan_in" => \A p \in DOMAIN total : total[p] = 0

MCNext ==
  /\ UNCHANGED mode
  /\ \/ mode = "launch" /\ Next /\ UNCHANGED <<driveVars, fanInVars>>
     \/ mode = "drive" /\ Drive!Next /\ UNCHANGED <<vars, fanInVars>>
     \/ mode = "fan_in" /\ FanIn!Next /\ UNCHANGED <<vars, driveVars>>

MCSpec ==
  /\ MCInit /\ [][MCNext]_all
  /\ \A l \in Leaders : WF_vars(mode = "launch" /\ LeaderStep(l))
  /\ \A w \in Procs : WF_vars(mode = "launch" /\ WorkerStep(w))
  /\ WF_driveVars(mode = "drive" /\ Drive!Turn)
  /\ \A s \in Scans : WF_driveVars(mode = "drive" /\ Drive!ThreadStep(s))
  /\ \A s \in Scans : WF_driveVars(mode = "drive" /\ Drive!PollBatch(s))
  /\ WF_driveVars(mode = "drive" /\ Drive!QueryCompletes /\ \A s \in Scans : Drive!Exhausted(s))
  /\ WF_driveVars(mode = "drive" /\ Drive!QueryFails /\ \E s \in Scans : thread[s] \in {"failed", "lost"})
  /\ \A p \in FanIn!Producers : WF_fanInVars(mode = "fan_in" /\ FanIn!ProducerStep(p))
  /\ WF_fanInVars(mode = "fan_in" /\ FanIn!LeaderCancelScan)
  /\ WF_fanInVars(mode = "fan_in" /\ FanIn!LeaderEnds /\ ~FanIn!StreamAlive)
  /\ WF_fanInVars(mode = "fan_in" /\ FanIn!ThreadStep)
  /\ WF_fanInVars(mode = "fan_in" /\ FanIn!StreamStep)

(* Drivers and streams correspond, and completion does not drop the end of *)
(* a scan.                                                                 *)
DriversDriveStreams == Drive!DriversDriveStreams /\ Drive!CompletionKeepsItsScans

(* A stream that ends without an error has delivered every page of every   *)
(* producer in order, pages are accounted for and errors have a cause.     *)
StreamIsTheWholeScan ==
  /\ FanIn!TypeOK /\ FanIn!StreamIsTheWholeScan
  /\ FanIn!ErrorsHaveACause /\ FanIn!PagesAccounted

(* A launch ends and its jobs come back, the executor node returns but for *)
(* the two exceptions of Returned, and an opened scan comes to its end with *)
(* its thread.                                                             *)
ScansEnd ==
  <>[] /\ mode = "launch" => Settled
       /\ mode = "drive" => Drive!Returned
       /\ mode = "fan_in" => FanIn!Closed
=============================================================================
