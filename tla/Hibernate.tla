----------------------------- MODULE Hibernate -----------------------------
(***************************************************************************)
(* The hibernation of a bucket (hibernate/hibernate.go): a pause archives  *)
(* the bucket's indexes in an object store and marks their definitions     *)
(* with the archive's location, a resume brings archived ones back.        *)
(* Four goroutines share a hibernation manager: the worker that edits the  *)
(* definitions and waits for the transfers, the monitor that gathers the   *)
(* nodes' statistics, the tracker that waits for the fate of the bucket,   *)
(* and the reporter that drains the progress channel for Ctl.  Other       *)
(* clients write the index definitions at the same time.                   *)
(***************************************************************************)
EXTENDS Integers, FiniteSets

CONSTANTS Indexes, Nodes, Scenarios

(* A scenario is a pause or a resume; only a resume can be a dry run.      *)
ASSUME HibernateAssumption ==
    \A s \in Scenarios :
        /\ s.op \in {"pause", "resume"} /\ {s.dryRun, s.planned} \subseteq BOOLEAN
        /\ s.op = "pause" => ~s.dryRun
        /\ s.mine \cup s.others \subseteq Indexes /\ s.mine \cap s.others = {}
        /\ s.faults \in Nat /\ s.clients \subseteq {"edit", "create", "delete"}

VARIABLES limits,     \* the scenario: kind of operation, faults and bounds
          defs,       \* the index definitions in Cfg: name -> [path, ver]
          cas,        \* ... and their CAS
          archive,    \* the archived index definitions and source partitions
          moved,      \* the <<node, index>> that have transferred their files
          local,      \* hm.indexDefsToHibernate, shared by worker and tracker
          location,   \* hm.options.ArchiveLocation, shared too
          locked,     \* hm.m is held by a goroutine that has gone on
          stopCh,     \* hm.stopCh is closed
          progressCh, \* "open" or "closed"
          progress,   \* hm.transferProgress
          worker, monitor, reporter, tracker,
          ctl,        \* Ctl's goroutine: has it been told to stop?
          spent,      \* edits of other clients and faults so far
          panicked    \* a goroutine has panicked
cfgVars == <<defs, cas>>
hmVars == <<local, location, locked, stopCh, progressCh, progress>>
vars == <<limits, defs, cas, archive, moved, local, location, locked, stopCh, progressCh,
          progress, worker, monitor, reporter, tracker, ctl, spent, panicked>>

Def(path, ver) == [path |-> path, ver |-> ver]     \* an empty path is "none"
Verdicts == {1, 0, -1, 2}     \* what the bucket tracker hook returns; 2 is an error

(* The scenario's indexes of the bucket: those it has (pause), or those    *)
(* its archive has (resume).  An empty archive leaves a resume without an  *)
(* IndexDefs at all.                                                       *)
Pausing == limits.op = "pause"
getIndexesForHibernation == [i \in limits.mine |-> Def("none", 0)]
NoLocal == ~Pausing /\ limits.mine = {}

(* Copies whose transfer the monitor counts: a pause uploads from the      *)
(* active copy only, a resume downloads to all.                            *)
getPIndexActiveNodeMap == {<<limits.active[i], i>> : i \in limits.mine}
Copies == getPIndexActiveNodeMap \cup {c \in Nodes \X limits.mine : c[1] \in limits.replicas[c[2]]}
MonitoredAll == Copies    (* Mutant: a pause counts the replicas, which never upload. *)
Monitored == IF Pausing THEN getPIndexActiveNodeMap ELSE Copies

(* Start: the hibernation manager of an operation that has been prepared,  *)
(* its metadata read, its goroutines about to run.                         *)
Init ==
    /\ limits \in Scenarios
    /\ defs = [i \in limits.others \cup (IF Pausing THEN limits.mine ELSE {}) |-> Def("none", 0)]
    /\ cas = 1
    /\ archive = [defs |-> IF Pausing THEN {} ELSE limits.mine, parts |-> ~Pausing]
    /\ moved = {}
    /\ local = getIndexesForHibernation
    /\ location = limits.op
    /\ locked = FALSE /\ stopCh = FALSE /\ progressCh = "open" /\ progress = <<>>
    /\ worker = [pc |-> "begin", seen |-> 0, read |-> <<>>, caughtUp |-> FALSE, err |-> FALSE]
    /\ monitor = [pc |-> "begin", misses |-> [n \in Nodes |-> 0], names |-> FALSE,
                  then |-> "select"]
    /\ reporter = [pc |-> "recv", failed |-> FALSE]
    /\ tracker = [pc |-> "off", seen |-> 0, read |-> <<>>, marks |-> {}, verdict |-> 0]
    /\ ctl = "running"
    /\ spent = [edits |-> 0, faults |-> 0, deleted |-> {}]
    /\ panicked = FALSE

(* An outcome "error" is one of the scenario's faults; calls to the object *)
(* store fail too once Ctl has cancelled the hibernation's context.        *)
Outcome(out) ==
    \/ out = "ok" /\ UNCHANGED spent
    \/ /\ out = "error" /\ spent.faults < limits.faults
       /\ spent' = [spent EXCEPT !.faults = @ + 1]
StoreOutcome(out) == Outcome(out) \/ (out = "error" /\ ctl # "running" /\ UNCHANGED spent)

-----------------------------------------------------------------------------
(* The worker. *)

WorkerGoes(pc) == worker' = [worker EXCEPT !.pc = pc, !.seen = 0, !.read = <<>>]
WorkerFails == worker' = [worker EXCEPT !.pc = "end", !.err = TRUE, !.seen = 0, !.read = <<>>]

(* hibernateIndexes: the tracker is started first; without indexes that is *)
(* all.  A resume downloads the source partitions, a dry run only asks     *)
(* whether the indexes fit.                                                *)
hibernateIndexes(out) ==
    /\ worker.pc = "begin"
    /\ IF limits.mine = {} \/ Pausing THEN out = "ok" /\ UNCHANGED spent ELSE StoreOutcome(out)
    /\ tracker' = [tracker EXCEPT !.pc = IF Pausing \/ ~limits.dryRun THEN "hook" ELSE @]
    /\ IF out = "error" THEN WorkerFails
       ELSE WorkerGoes(IF limits.mine = {} \/ limits.dryRun THEN "end" ELSE "get")
    /\ UNCHANGED <<limits, cfgVars, archive, moved, hmVars, monitor, reporter, ctl, panicked>>

(* pauseFunc and indexResumeFunc, which RetryOnCASMismatch calls: the      *)
(* definitions are read,                                                   *)
WorkerGet(out) ==
    /\ worker.pc = "get"
    /\ Outcome(out)
    /\ IF out = "error" THEN WorkerFails
       ELSE worker' = [worker EXCEPT !.pc = "mark", !.seen = cas, !.read = defs]
    /\ UNCHANGED <<limits, cfgVars, archive, moved, hmVars, monitor, reporter, tracker, ctl, panicked>>

(* the manager's own copies are given the location, those that a pause     *)
(* finds and those that a resume does not,                                 *)
Marks == IF Pausing THEN limits.mine \cap DOMAIN worker.read ELSE limits.mine \ DOMAIN worker.read
AfterMark == IF Pausing THEN "upload" ELSE "set"
WorkerMark ==
    /\ worker.pc = "mark"
    /\ local' = [i \in limits.mine |-> IF i \in Marks THEN [local[i] EXCEPT !.path = location]
                                                      ELSE local[i]]
    /\ worker' = [worker EXCEPT !.pc = AfterMark]
    /\ UNCHANGED <<limits, cfgVars, archive, moved, location, locked, stopCh, progressCh, progress,
                   monitor, reporter, tracker, ctl, spent, panicked>>

(* a pause uploads them, then the source partitions of one of them, which  *)
(* it looks up in a plan that has to have some,                            *)
UploadDefs(out) ==
    /\ worker.pc = "upload"
    /\ StoreOutcome(out)
    /\ IF out = "error" \/ location = "none" THEN WorkerFails /\ UNCHANGED archive
       ELSE /\ archive' = [archive EXCEPT !.defs = limits.mine]
            /\ worker' = [worker EXCEPT !.pc = "parts"]
    /\ UNCHANGED <<limits, cfgVars, moved, hmVars, monitor, reporter, tracker, ctl, panicked>>
UploadPartitions(out) ==
    /\ worker.pc = "parts"
    /\ StoreOutcome(out)
    /\ panicked' = (out = "ok" /\ ~limits.planned)
    /\ IF out = "error" THEN WorkerFails /\ UNCHANGED archive
       ELSE /\ archive' = [archive EXCEPT !.parts = limits.planned]
            /\ worker' = [worker EXCEPT !.pc = "set"]
    /\ UNCHANGED <<limits, cfgVars, moved, hmVars, monitor, reporter, tracker, ctl>>

(* and they replace the definitions that were read, if the CAS is still    *)
(* the one that was read with them.                                        *)
With(read, marks, new) ==
    [i \in DOMAIN read \cup marks |-> IF i \in marks THEN new[i] ELSE read[i]]
CfgAccepts(seen) == seen = cas
WorkerSet(out) ==
    /\ worker.pc = "set"
    /\ Outcome(out)
    /\ \/ out = "error" /\ WorkerFails /\ UNCHANGED cfgVars
       \/ out = "ok" /\ ~CfgAccepts(worker.seen) /\ WorkerGoes("get") /\ UNCHANGED cfgVars
       \/ /\ out = "ok" /\ CfgAccepts(worker.seen)
          /\ defs' = With(worker.read, Marks, local)
          /\ cas' = cas + 1
          /\ WorkerGoes("loop")
    /\ UNCHANGED <<limits, archive, moved, hmVars, monitor, reporter, tracker, ctl, panicked>>

(* waitUntilFileTransferDone: the worker wants a sample or a stop,         *)
WorkerWants ==
    /\ worker.pc = "loop"
    /\ WorkerGoes("want")
    /\ UNCHANGED <<limits, cfgVars, archive, moved, hmVars, monitor, reporter, tracker, ctl, spent, panicked>>
WorkerStopped ==
    /\ worker.pc = "want" /\ stopCh
    /\ WorkerFails
    /\ UNCHANGED <<limits, cfgVars, archive, moved, hmVars, monitor, reporter, tracker, ctl, spent, panicked>>

(* sums up the transfers of each index that still has a plan, under a lock *)
(* that it leaves locked when the plan cannot be read,                     *)
Counted == {c \in DOMAIN progress : c[2] \in DOMAIN defs}
CaughtUpSome == \E c \in Counted : progress[c] = 1    (* Mutant: one transfer is enough. *)
CaughtUp == \A i \in limits.mine : /\ \E c \in Counted : c[2] = i
                                   /\ \A c \in Counted : c[2] = i => progress[c] = 1
WorkerSums(out) ==
    /\ worker.pc = "sum" /\ ~locked
    /\ \/ out = "ok" /\ UNCHANGED spent
       \/ out = "error" /\ limits.cfgDown /\ DOMAIN progress # {} /\ Outcome(out)
    /\ locked' = (out = "error")
    /\ IF out = "error" \/ Counted = {} THEN WorkerGoes("loop")
       ELSE worker' = [worker EXCEPT !.pc = "send", !.caughtUp = CaughtUp]
    /\ UNCHANGED <<limits, cfgVars, archive, moved, local, location, stopCh, progressCh, progress,
                   monitor, reporter, tracker, ctl, panicked>>

(* sends that to the reporter, and goes on unless all have finished.       *)
WorkerReports ==
    /\ worker.pc = "send" /\ reporter.pc = "recv"
    /\ WorkerGoes(IF worker.caughtUp THEN "end" ELSE "loop")
    /\ UNCHANGED <<limits, cfgVars, archive, moved, hmVars, monitor, reporter, tracker, ctl, spent, panicked>>

(* The deferred end of runHibernateIndexes: Stop, wait for the monitor,    *)
(* send the error if there is one, and close the progress channel.         *)
WorkerEnds ==
    /\ worker.pc = "end" /\ ~locked
    /\ stopCh' = TRUE
    /\ WorkerGoes("drain")
    /\ UNCHANGED <<limits, cfgVars, archive, moved, local, location, locked, progressCh, progress,
                   monitor, reporter, tracker, ctl, spent, panicked>>
MonitorDone == monitor.pc = "done"
DropsError == "close"     (* Mutant: the error is not sent. *)
AfterDrain == IF worker.err THEN "senderr" ELSE "close"
WorkerDrains ==
    /\ worker.pc = "drain" /\ MonitorDone
    /\ WorkerGoes(AfterDrain)
    /\ UNCHANGED <<limits, cfgVars, archive, moved, hmVars, monitor, reporter, tracker, ctl, spent, panicked>>
WorkerSendsError ==
    /\ worker.pc = "senderr" /\ reporter.pc = "recv"
    /\ WorkerGoes("close")
    /\ reporter' = [reporter EXCEPT !.pc = "stop", !.failed = TRUE]
    /\ UNCHANGED <<limits, cfgVars, archive, moved, hmVars, monitor, tracker, ctl, spent, panicked>>
WorkerCloses ==
    /\ worker.pc = "close"
    /\ WorkerGoes("done")
    /\ progressCh' = "closed"
    /\ UNCHANGED <<limits, cfgVars, archive, moved, local, location, locked, stopCh, progress,
                   monitor, reporter, tracker, ctl, spent, panicked>>

-----------------------------------------------------------------------------
(* The monitor. *)

MonitorGoes(pc) == monitor' = [monitor EXCEPT !.pc = pc]

(* A pause needs to know the active copies: a monitor that cannot find out *)
(* ends at once, and nothing answers the worker any more.                  *)
MonitorBegins(out) ==
    /\ monitor.pc = "begin"
    /\ \/ out = "ok" /\ UNCHANGED spent
       \/ out = "error" /\ Pausing /\ limits.cfgDown /\ Outcome(out)
    /\ MonitorGoes(IF out = "ok" THEN "select" ELSE "done")
    /\ UNCHANGED <<limits, cfgVars, archive, moved, hmVars, worker, reporter, tracker, ctl, panicked>>
MonitorStops ==
    /\ monitor.pc = "select" /\ stopCh
    /\ MonitorGoes("done")
    /\ UNCHANGED <<limits, cfgVars, archive, moved, hmVars, worker, reporter, tracker, ctl, spent, panicked>>

(* A sample that failed or cannot be decoded stops the hibernation, and so *)
(* does one empty sample too many of a node.                               *)
StatsSampleErrorThreshold == 3
SampleFails(n, kind) ==
    /\ monitor.pc = "select" /\ Outcome("error")
    /\ LET misses == IF kind = "garbage" THEN 0 ELSE monitor.misses[n] + 1
           skipped == kind = "empty" /\ misses < StatsSampleErrorThreshold
       IN monitor' = [monitor EXCEPT !.pc = IF skipped THEN "select" ELSE "send",
                                     !.misses[n] = IF kind = "empty" /\ ~skipped THEN 0 ELSE misses,
                                     !.then = "select"]
    /\ UNCHANGED <<limits, cfgVars, archive, moved, hmVars, worker, reporter, tracker, ctl, panicked>>

(* Others give the progress of the node's copies that count, under the     *)
(* lock, or tell that the transfer of one has failed.  Without an          *)
(* IndexDefs the first pindex that a sample names is the end.              *)
StatsOf(n) == {c \in Monitored : c[1] = n /\ c[2] \in DOMAIN defs /\ defs[c[2]].path = limits.op}
Updated(copies) == [c \in DOMAIN progress \cup copies |->
                       IF c \in copies THEN IF c \in moved THEN 1 ELSE 0 ELSE progress[c]]
SampleArrives(n) ==
    /\ monitor.pc = "select" /\ ~locked
    /\ panicked' = (NoLocal /\ limits.others # {})
    /\ progress' = Updated(StatsOf(n))
    /\ monitor' = [monitor EXCEPT !.pc = "notify", !.misses[n] = 0,
                                  !.names = limits.others # {} \/ \E c \in Copies : c[1] = n]
    /\ UNCHANGED <<limits, cfgVars, archive, moved, local, location, locked, stopCh, progressCh,
                   worker, reporter, tracker, ctl, spent>>
TransferFails(n, i) ==
    /\ monitor.pc = "select" /\ ~locked /\ <<n, i>> \in StatsOf(n)
    /\ StoreOutcome("error")
    /\ progress' = Updated(StatsOf(n) \ {<<n, i>>})
    /\ monitor' = [monitor EXCEPT !.pc = "send", !.misses[n] = 1, !.names = TRUE, !.then = "notify"]
    /\ UNCHANGED <<limits, cfgVars, archive, moved, local, location, locked, stopCh, progressCh,
                   worker, reporter, tracker, ctl, panicked>>
MonitorSendsError ==
    /\ monitor.pc = "send" /\ reporter.pc = "recv"
    /\ MonitorGoes("stop")
    /\ reporter' = [reporter EXCEPT !.pc = "stop", !.failed = TRUE]
    /\ UNCHANGED <<limits, cfgVars, archive, moved, hmVars, worker, tracker, ctl, spent, panicked>>
MonitorStopsAll ==
    /\ monitor.pc = "stop" /\ ~locked
    /\ stopCh' = TRUE
    /\ MonitorGoes(monitor.then)
    /\ UNCHANGED <<limits, cfgVars, archive, moved, local, location, locked, progressCh, progress,
                   worker, reporter, tracker, ctl, spent, panicked>>

(* The sample then goes to the worker as often as it is found waiting; one *)
(* that names no pindex makes it wait for the next.                        *)
Notify ==
    /\ monitor.pc = "notify" /\ worker.pc = "want"
    /\ WorkerGoes(IF monitor.names THEN "sum" ELSE "loop")
    /\ UNCHANGED <<limits, cfgVars, archive, moved, hmVars, monitor, reporter, tracker, ctl, spent, panicked>>
NobodyWants ==
    /\ monitor.pc = "notify" /\ worker.pc # "want"
    /\ MonitorGoes("select")
    /\ UNCHANGED <<limits, cfgVars, archive, moved, hmVars, worker, reporter, tracker, ctl, spent, panicked>>

-----------------------------------------------------------------------------
(* The reporter, ReportProgress, and Ctl, which is told to stop: it        *)
(* cancels the transfers, then stops the hibernation manager.              *)

ReporterStops ==
    /\ reporter.pc = "stop" /\ ~locked
    /\ stopCh' = TRUE
    /\ reporter' = [reporter EXCEPT !.pc = "recv"]
    /\ UNCHANGED <<limits, cfgVars, archive, moved, local, location, locked, progressCh, progress,
                   worker, monitor, tracker, ctl, spent, panicked>>
ReporterEnds ==
    /\ reporter.pc = "recv" /\ progressCh = "closed"
    /\ reporter' = [reporter EXCEPT !.pc = "done"]
    /\ UNCHANGED <<limits, cfgVars, archive, moved, hmVars, worker, monitor, tracker, ctl, spent, panicked>>

StopHibernationTask ==
    /\ limits.stops /\ ctl = "running"
    /\ ctl' = "stopping"
    /\ UNCHANGED <<limits, cfgVars, archive, moved, hmVars, worker, monitor, reporter, tracker, spent, panicked>>
Stop ==
    /\ ctl = "stopping" /\ ~locked
    /\ ctl' = "stopped"
    /\ stopCh' = TRUE
    /\ UNCHANGED <<limits, cfgVars, archive, moved, local, location, locked, progressCh, progress,
                   worker, monitor, reporter, tracker, spent, panicked>>

-----------------------------------------------------------------------------
(* The tracker.  Its hook tells the fate of the bucket; a success only     *)
(* once the operation has ended well.                                      *)

Fate == IF tracker.verdict = (IF Pausing THEN 1 ELSE -1) THEN "delete"
        ELSE IF tracker.verdict = (IF Pausing THEN -1 ELSE 1) THEN IF Pausing THEN "drop" ELSE "free"
        ELSE "nothing"
TrackerGoes(pc) == tracker' = [tracker EXCEPT !.pc = pc, !.seen = 0, !.read = <<>>, !.marks = {}]

BucketStateTrackerHook(v) ==
    /\ tracker.pc = "hook" /\ v \in limits.verdicts
    /\ v = 1 => worker.pc = "done" /\ ~worker.err /\ ~reporter.failed
    /\ tracker' = [tracker EXCEPT !.pc = "decide", !.verdict = v]
    /\ UNCHANGED <<limits, cfgVars, archive, moved, hmVars, worker, monitor, reporter, ctl, spent, panicked>>
TrackerDecides ==
    /\ tracker.pc = "decide"
    /\ location' = IF Fate \in {"drop", "free"} THEN "none" ELSE location
    /\ TrackerGoes(IF Fate = "nothing" \/ (Fate = "free" /\ limits.mine = {}) THEN "done" ELSE "get")
    /\ UNCHANGED <<limits, cfgVars, archive, moved, local, locked, stopCh, progressCh, progress,
                   worker, monitor, reporter, ctl, spent, panicked>>

(* DeleteAllIndexFromSource, DropRemotePaths and removeHibernationPath     *)
(* read the definitions, the last giving up on one that is not there;      *)
TrackerGet(out) ==
    /\ tracker.pc = "get"
    /\ Outcome(out)
    /\ LET found == limits.mine \cap DOMAIN defs
           over == \/ out = "error"
                   \/ Fate = "delete" /\ found = {}
                   \/ Fate = "free" /\ found # limits.mine
       IN IF over THEN TrackerGoes("done")
          ELSE tracker' = [tracker EXCEPT !.pc = IF Fate = "drop" THEN "mark" ELSE "set",
                                          !.seen = cas, !.read = defs, !.marks = found]
    /\ UNCHANGED <<limits, cfgVars, archive, moved, hmVars, worker, monitor, reporter, ctl, panicked>>

(* the second takes the paths out of the manager's own copies, and is done *)
(* if it finds none there;                                                 *)
TrackerMark ==
    /\ tracker.pc = "mark"
    /\ LET marks == {i \in tracker.marks : local[i].path # "none"}
       IN /\ local' = [i \in limits.mine |-> IF i \in marks THEN [local[i] EXCEPT !.path = "none"] ELSE local[i]]
          /\ IF marks = {} THEN TrackerGoes("done")
             ELSE tracker' = [tracker EXCEPT !.pc = "set", !.marks = marks]
    /\ UNCHANGED <<limits, cfgVars, archive, moved, location, locked, stopCh, progressCh, progress,
                   worker, monitor, reporter, ctl, spent, panicked>>

(* and all write what they have made of them, and start over if the CAS is *)
(* not what it was.                                                        *)
Freed(read) == [i \in DOMAIN read |-> IF i \in limits.mine THEN [read[i] EXCEPT !.path = location]
                                                          ELSE read[i]]
Kept(read) == [i \in DOMAIN read \ limits.mine |-> read[i]]
TrackerWrites == IF Fate = "delete" THEN Kept(tracker.read)
                 ELSE IF Fate = "drop" THEN With(tracker.read, tracker.marks, local)
                 ELSE Freed(tracker.read)
TrackerSet(out) ==
    /\ tracker.pc = "set"
    /\ Outcome(out)
    /\ IF out = "ok" /\ CfgAccepts(tracker.seen)
       THEN defs' = TrackerWrites /\ cas' = cas + 1 /\ TrackerGoes("done")
       ELSE UNCHANGED cfgVars /\ TrackerGoes(IF out = "ok" THEN "get" ELSE "done")
    /\ UNCHANGED <<limits, archive, moved, hmVars, worker, monitor, reporter, ctl, panicked>>

-----------------------------------------------------------------------------
(* Other clients create, edit and delete indexes, and the janitors of the  *)
(* nodes transfer the files of those whose definitions say so.             *)

ClientWrites(kind, i) ==
    /\ kind \in limits.clients /\ spent.edits < limits.edits
    /\ \/ kind = "edit" /\ i \in DOMAIN defs \ limits.mine
          /\ defs' = [defs EXCEPT ![i].ver = @ + 1]
       \/ kind = "create" /\ i \in limits.mine \ DOMAIN defs
          /\ defs' = [k \in DOMAIN defs \cup {i} |-> IF k = i THEN Def("none", 1) ELSE defs[k]]
       \/ kind = "delete" /\ i \in limits.mine \cap DOMAIN defs
          /\ defs' = [k \in DOMAIN defs \ {i} |-> defs[k]]
    /\ cas' = cas + 1
    /\ spent' = [spent EXCEPT !.edits = @ + 1,
                              !.deleted = IF kind = "delete" THEN @ \cup {i} ELSE @]
    /\ UNCHANGED <<limits, archive, moved, hmVars, worker, monitor, reporter, tracker, ctl, panicked>>

hibernatePIndex(n, i) ==
    /\ <<n, i>> \in (IF Pausing THEN getPIndexActiveNodeMap ELSE Copies) \ moved
    /\ i \in DOMAIN defs /\ defs[i].path = limits.op /\ ctl = "running"
    /\ moved' = moved \cup {<<n, i>>}
    /\ UNCHANGED <<limits, cfgVars, archive, hmVars, worker, monitor, reporter, tracker, ctl, spent, panicked>>

-----------------------------------------------------------------------------
Outs == {"ok", "error"}
WorkerStep ==
    \/ \E out \in Outs : \/ hibernateIndexes(out) \/ WorkerGet(out) \/ UploadDefs(out)
                         \/ UploadPartitions(out) \/ WorkerSet(out) \/ WorkerSums(out)
    \/ WorkerMark \/ WorkerWants \/ WorkerStopped \/ WorkerReports
    \/ WorkerEnds \/ WorkerDrains \/ WorkerSendsError \/ WorkerCloses
MonitorStep ==
    \/ \E out \in Outs : MonitorBegins(out)
    \/ MonitorStops \/ MonitorSendsError \/ MonitorStopsAll \/ Notify \/ NobodyWants
TrackerStep ==
    \/ \E out \in Outs : TrackerGet(out) \/ TrackerSet(out)
    \/ TrackerDecides \/ TrackerMark

Next ==
    /\ ~panicked
    /\ \/ WorkerStep \/ MonitorStep \/ TrackerStep
       \/ ReporterStops \/ ReporterEnds
       \/ StopHibernationTask \/ Stop
       \/ \E v \in Verdicts : BucketStateTrackerHook(v)
       \/ \E n \in Nodes : \/ SampleArrives(n)
                           \/ \E kind \in limits.bad : SampleFails(n, kind)
                           \/ \E i \in Indexes : TransferFails(n, i) \/ hibernatePIndex(n, i)
       \/ \E kind \in limits.clients, i \in Indexes : ClientWrites(kind, i)

(* Goroutines run, a select does not pass over the closed stopCh forever,  *)
(* the worker, which reads the plan for every sample, is not back in time  *)
(* forever when the monitor looks for someone who wants one, each node's   *)
(* sampler gets its turn at the channel, and the janitors get on with the  *)
(* transfers.  Whether the cluster manager decides, Ctl is told to stop or *)
(* a call fails is left open.                                              *)
ReporterStep == ReporterStops \/ ReporterEnds
Fairness ==
    /\ WF_vars(~panicked /\ WorkerStep) /\ WF_vars(~panicked /\ MonitorStep)
    /\ WF_vars(~panicked /\ TrackerStep) /\ WF_vars(~panicked /\ ReporterStep)
    /\ WF_vars(~panicked /\ Stop)
    /\ SF_vars(~panicked /\ MonitorStops) /\ SF_vars(~panicked /\ NobodyWants)
    /\ \A n \in Nodes : SF_vars(~panicked /\ SampleArrives(n))
    /\ WF_vars(~panicked /\ \E n \in Nodes, i \in Indexes : hibernatePIndex(n, i))
Spec == Init /\ [][Next]_vars /\ Fairness

-----------------------------------------------------------------------------
(* The definitions and the manager's copies are what they should be. *)
Paths == {"none", "pause", "resume"}
TypeOK ==
    /\ DOMAIN defs \subseteq Indexes /\ \A i \in DOMAIN defs : defs[i].path \in Paths
    /\ cas \in Nat /\ moved \subseteq Nodes \X Indexes
    /\ local \in [limits.mine -> [path : Paths, ver : {0}]] /\ location \in Paths
    /\ progressCh \in {"open", "closed"} /\ DOMAIN progress \subseteq Monitored
    /\ tracker.verdict \in Verdicts /\ spent.deleted \subseteq limits.mine

(* What a pause takes away can be resumed, whatever failed, was stopped or *)
(* was written by others on the way.  Definitions are marked as paused,    *)
(* which makes the nodes upload and later lose their files, only once the  *)
(* archive has what a resume reads first: pauseIndexes uploads the         *)
(* metadata before it writes the marks.  One that the pause, rather than a *)
(* client, has removed has its files there too.  And what a hibernation    *)
(* writes leaves alone the definitions of others and the absence of        *)
(* indexes that were deleted meanwhile; a resume does not replace an index *)
(* that was created in its place.                                          *)
NothingIsLost ==
    /\ [](Pausing =>
            /\ \A i \in limits.mine \cap DOMAIN defs :
                  defs[i].path = "pause" => i \in archive.defs /\ archive.parts
            /\ \A i \in limits.mine \ (DOMAIN defs \cup spent.deleted) :
                  i \in archive.defs /\ archive.parts /\ <<limits.active[i], i>> \in moved)
    /\ [][(worker' # worker \/ tracker' # tracker) =>
             /\ \A i \in Indexes \ limits.mine :
                   /\ i \in DOMAIN defs <=> i \in DOMAIN defs'
                   /\ i \in DOMAIN defs => defs'[i] = defs[i]
             /\ Pausing => DOMAIN defs' \subseteq DOMAIN defs
             /\ \A i \in DOMAIN defs \cap DOMAIN defs' : ~Pausing => defs'[i].ver = defs[i].ver]_vars

(* Ctl hears the truth, whoever noticed first.  A hibernation that did not *)
(* go through is reported as an error; and a resume that the bucket        *)
(* survives leaves no definition pointing at the archive, since            *)
(* removeHibernationPath starts over, from the definitions as they are, as *)
(* often as others write them in between.                                  *)
OutcomeIsReported ==
    /\ reporter.pc = "done" /\ (worker.err \/ (~worker.caughtUp /\ ~limits.dryRun /\ limits.mine # {}))
          => reporter.failed
    /\ ~Pausing /\ tracker.pc = "done" /\ tracker.verdict = 1 /\ limits.faults = 0
          /\ spent.deleted = {} =>
             \A i \in limits.mine \cap DOMAIN defs : defs[i].path = "none"

(* Nothing is sent on the progress channel once it is closed, which would  *)
(* be a panic: runHibernateIndexes waits for the monitor, "as it may have  *)
(* more sends to progressCh".                                              *)
NoSendAfterClose ==
    progressCh = "closed" => monitor.pc # "send" /\ worker.pc \notin {"send", "senderr"}

(* Unless the Cfg fails at a bad moment, a hibernation that is stopped     *)
(* ends, "look for the closing of the ProgressCh()", and so does one that  *)
(* nobody disturbs; and it does not send on that channel any more.         *)
Undisturbed == limits.clients \subseteq {"edit"} /\ -1 \notin limits.verdicts
Ended == (worker.pc = "done" /\ reporter.pc = "done") \/ panicked
OperationEnds ==
    /\ (~limits.cfgDown /\ (ctl # "running" \/ Undisturbed)) ~> Ended
    /\ []NoSendAfterClose
=============================================================================
