--------------------------- MODULE HibernateProofs ---------------------------
(***************************************************************************)
(* Proofs about Hibernate for every set of indexes and nodes and every     *)
(* scenario: a pause loses nothing, Ctl hears of every failure, a resume   *)
(* that succeeds leaves no index pointing at the archive, and nothing is   *)
(* sent on a closed progress channel.                                      *)
(***************************************************************************)
EXTENDS Hibernate, TLAPS

(* What the proofs use of the types of the variables. *)
Shapes ==
    /\ limits \in Scenarios /\ cas \in Nat
    /\ DOMAIN worker = {"pc", "seen", "read", "caughtUp", "err"}
    /\ DOMAIN tracker = {"pc", "seen", "read", "marks", "verdict"}
    /\ DOMAIN reporter = {"pc", "failed"} /\ reporter.failed \in BOOLEAN
    /\ DOMAIN monitor = {"pc", "misses", "names", "then"} /\ monitor.then \in {"select", "notify"}
    /\ DOMAIN archive = {"defs", "parts"} /\ DOMAIN spent = {"edits", "faults", "deleted"}
    /\ worker.seen \in Nat /\ worker.err \in BOOLEAN /\ worker.caughtUp \in BOOLEAN
    /\ tracker.seen \in Nat /\ spent.faults \in Nat
    /\ DOMAIN defs \subseteq Indexes /\ \A i \in DOMAIN defs : DOMAIN defs[i] = {"path", "ver"}
    /\ local \in [limits.mine -> [path : Paths, ver : {0}]] /\ location \in Paths

(* What was read with a CAS is what there is, if the CAS is still that one. *)
ReadsAreCurrent ==
    /\ worker.seen <= cas /\ tracker.seen <= cas
    /\ worker.pc \in {"mark", "upload", "parts", "set"} /\ worker.seen = cas => worker.read = defs
    /\ tracker.pc \in {"mark", "set"} /\ tracker.seen = cas => tracker.read = defs

Waiting == {"loop", "want", "sum", "send"}
Ending == {"end", "drain", "senderr", "close", "done"}

(* What the worker has achieved by the time it is where it is. *)
Stored == limits.mine \subseteq archive.defs /\ archive.parts
Moved == \A i \in limits.mine : <<limits.active[i], i>> \in moved
WorkerIsTrue ==
    /\ Pausing /\ archive.parts => limits.planned
    /\ Pausing /\ worker.pc = "parts" => limits.mine \subseteq archive.defs
    /\ Pausing /\ ~panicked /\ worker.pc \in {"set"} \cup Waiting => Stored
    /\ worker.pc \in Ending /\ ~worker.err =>
          \/ limits.mine = {} \/ limits.dryRun
          \/ worker.caughtUp /\ (Pausing /\ ~panicked => Stored)
    /\ Pausing /\ worker.caughtUp => Moved

(* A copy that counts as transferred is. *)
ProgressIsTrue == \A c \in DOMAIN progress : c \in Monitored /\ (progress[c] = 1 => c \in moved)

(* Where the tracker is, and what it knows there. *)
TrackerIsTrue ==
    /\ tracker.pc \in {"off", "hook", "decide", "get", "mark", "set", "done"}
    /\ tracker.pc \in {"off", "hook"} => tracker.verdict = 0
    /\ tracker.pc # "off" => Pausing \/ ~limits.dryRun
    /\ worker.pc = "begin" => tracker.pc = "off"
    /\ tracker.verdict = 1 => worker.pc = "done" /\ ~worker.err
    /\ tracker.pc \in {"get", "mark", "set"} => Fate # "nothing"
    /\ tracker.pc \in {"get", "mark", "set"} /\ Fate # "delete" => location = "none"
    /\ tracker.pc = "mark" => Fate = "drop"
    /\ tracker.pc \in {"mark", "set"} => tracker.marks \subseteq limits.mine \cap DOMAIN tracker.read
    /\ tracker.pc = "set" /\ Fate = "drop" => \A i \in tracker.marks : local[i].path = "none"

(* The archive has what a pause has marked, and what it has removed.       *)
PauseIsSafe ==
    Pausing =>
        /\ \A i \in limits.mine \cap DOMAIN defs :
              defs[i].path = "pause" => i \in archive.defs /\ archive.parts
        /\ \A i \in limits.mine \ (DOMAIN defs \cup spent.deleted) :
              i \in archive.defs /\ archive.parts /\ <<limits.active[i], i>> \in moved

(* A resume has all indexes defined once it waits for their transfer.      *)
ResumeDefines ==
    /\ ~Pausing /\ tracker.verdict # -1 /\ ~limits.dryRun /\ ~worker.err /\ worker.pc \in Waiting \cup Ending =>
          limits.mine \ spent.deleted \subseteq DOMAIN defs
    /\ ~Pausing /\ tracker.pc = "done" /\ tracker.verdict = 1 /\ limits.faults = 0
          /\ spent.deleted = {} =>
             \A i \in limits.mine \cap DOMAIN defs : defs[i].path = "none"

(* The end of the operation: what is closed, and who has been told. *)
EndIsTrue ==
    /\ worker.pc \in {"begin", "get", "mark", "upload", "parts", "set"} \cup Waiting \cup Ending
    /\ worker.pc \in {"senderr", "close", "done"} => monitor.pc = "done"
    /\ worker.pc \in {"close", "done"} /\ worker.err => reporter.failed
    /\ progressCh = "closed" => worker.pc = "done"
    /\ reporter.pc = "done" => progressCh = "closed"

(* The inductive invariant of Hibernate. *)
IInv ==
    /\ Shapes /\ ReadsAreCurrent /\ WorkerIsTrue /\ ProgressIsTrue /\ TrackerIsTrue
    /\ PauseIsSafe /\ ResumeDefines /\ EndIsTrue
-----------------------------------------------------------------------------
(* Every initial state satisfies the invariant. *)
LEMMA InitIInv == Init => IInv
<1> SUFFICES ASSUME Init PROVE IInv
    BY Zenon
<1>0. /\ limits \in Scenarios /\ limits.mine \cup limits.others \subseteq Indexes
      /\ limits.op \in {"pause", "resume"} /\ limits.mine \cap limits.others = {}
    BY Zenon, HibernateAssumption DEF Init
<1>1. Shapes
    BY Zenon, <1>0 DEF Init, Shapes, Def, getIndexesForHibernation, Paths
<1>2. ReadsAreCurrent /\ TrackerIsTrue
    BY DEF Init, ReadsAreCurrent, TrackerIsTrue
<1>3. WorkerIsTrue /\ EndIsTrue
    BY Zenon DEF Init, WorkerIsTrue, EndIsTrue, Waiting, Ending
<1>4. ProgressIsTrue
    BY DEF Init, ProgressIsTrue
<1>5. PauseIsSafe
    BY Zenon DEF Init, PauseIsSafe, Def, Pausing
<1>6. ResumeDefines
    BY Zenon DEF Init, ResumeDefines, Waiting, Ending
<1> QED
    BY Zenon, <1>1, <1>2, <1>3, <1>4, <1>5, <1>6 DEF IInv

(* What an outcome does to the count of faults. *)
LEMMA OutcomeMeans ==
    ASSUME Shapes, NEW out, Outcome(out) \/ StoreOutcome(out) \/ spent' = spent
    PROVE  /\ spent'.deleted = spent.deleted /\ spent'.faults \in Nat
           /\ DOMAIN spent' = {"edits", "faults", "deleted"}
<1>1. spent' = spent \/ spent' = [spent EXCEPT !.faults = spent.faults + 1]
    BY Zenon DEF Outcome, StoreOutcome
<1>2. CASE spent' = spent
    BY Zenon, <1>2 DEF Shapes
<1>3. CASE spent' = [spent EXCEPT !.faults = spent.faults + 1]
    <2>1. /\ spent'.deleted = spent.deleted /\ spent'.faults = spent.faults + 1
          /\ DOMAIN spent' = {"edits", "faults", "deleted"}
        BY Zenon, <1>3 DEF Shapes
    <2> QED
        BY <2>1 DEF Shapes
<1> QED
    BY Zenon, <1>1, <1>2, <1>3

(* The worker goes on, or fails. *)
LEMMA WorkerGoesMeans ==
    ASSUME Shapes, NEW p, WorkerGoes(p)
    PROVE  /\ DOMAIN worker' = {"pc", "seen", "read", "caughtUp", "err"}
           /\ worker'.pc = p /\ worker'.seen = 0 /\ worker'.err = worker.err
           /\ worker'.caughtUp = worker.caughtUp
BY Zenon DEF Shapes, WorkerGoes
LEMMA WorkerFailsMeans ==
    ASSUME Shapes, WorkerFails
    PROVE  /\ DOMAIN worker' = {"pc", "seen", "read", "caughtUp", "err"}
           /\ worker'.pc = "end" /\ worker'.seen = 0 /\ worker'.err = TRUE
           /\ worker'.caughtUp = worker.caughtUp
BY Zenon DEF Shapes, WorkerFails

(* The tracker goes on. *)
LEMMA TrackerGoesMeans ==
    ASSUME Shapes, NEW p, TrackerGoes(p)
    PROVE  /\ DOMAIN tracker' = {"pc", "seen", "read", "marks", "verdict"}
           /\ tracker'.pc = p /\ tracker'.seen = 0 /\ tracker'.marks = {}
           /\ tracker'.verdict = tracker.verdict
BY Zenon DEF Shapes, TrackerGoes

(* The progress is true as long as it does not change. *)
LEMMA ProgressStays ==
    ASSUME ProgressIsTrue, limits' = limits, progress' = progress, moved' = moved
    PROVE  ProgressIsTrue'
<1>1. Monitored' = Monitored
    BY Zenon DEF Monitored, Pausing, Copies, getPIndexActiveNodeMap
<1> QED
    BY Zenon, <1>1 DEF ProgressIsTrue

(* The fate depends on the verdict only. *)
LEMMA FateStays ==
    ASSUME limits' = limits, tracker'.verdict = tracker.verdict
    PROVE  Fate' = Fate /\ Pausing' = Pausing
BY Zenon DEF Fate, Pausing

(* The steps of the worker that change only where it is, and whether it    *)
(* has failed.                                                             *)
LEMMA WorkerControl ==
    ASSUME IInv, ~panicked, ~panicked', NEW out, Outcome(out) \/ StoreOutcome(out) \/ spent' = spent,
           UNCHANGED <<limits, defs, cas, archive, moved, local, location, progress, progressCh,
                       monitor, reporter, tracker>>,
           DOMAIN worker' = {"pc", "seen", "read", "caughtUp", "err"},
           worker'.seen \in Nat, worker'.seen <= cas, worker'.caughtUp \in BOOLEAN,
           worker'.err \in BOOLEAN, worker.err => worker'.err,
           Pausing /\ worker'.caughtUp => Moved,
           worker.pc \notin {"begin", "senderr", "close", "done"},
           \/ worker'.pc \in Waiting /\ worker.pc \in Waiting
           \/ worker'.pc = "end" /\ (worker'.err \/ (worker.pc \in Waiting /\ worker'.caughtUp))
           \/ worker'.pc = "mark" /\ worker'.read = defs
           \/ worker'.pc = "get"
           \/ worker.pc = "end" /\ worker'.pc = "drain" /\ worker'.caughtUp = worker.caughtUp
              /\ worker'.err = worker.err
           \/ /\ worker.pc = "drain" /\ monitor.pc = "done" /\ worker'.caughtUp = worker.caughtUp
              /\ worker'.err = worker.err /\ worker'.pc \in {"senderr", "close"}
              /\ worker.err => worker'.pc = "senderr"
    PROVE  IInv'
<1>0. Fate' = Fate /\ Pausing' = Pausing /\ Stored' = Stored /\ Moved' = Moved
    BY Zenon, FateStays DEF Stored, Moved
<1>1. Shapes'
    BY Zenon, OutcomeMeans DEF IInv, Shapes
<1>2. ReadsAreCurrent'
    BY Zenon DEF IInv, ReadsAreCurrent, Waiting
<1>3. WorkerIsTrue'
    BY Zenon, <1>0 DEF IInv, WorkerIsTrue, EndIsTrue, Waiting, Ending
<1>4. ProgressIsTrue'
    BY Zenon, ProgressStays DEF IInv
<1>5. TrackerIsTrue'
    BY <1>0 DEF IInv, TrackerIsTrue, Waiting
<1>6. PauseIsSafe'
    BY Zenon, <1>0, OutcomeMeans DEF IInv, PauseIsSafe
<1>7. ResumeDefines'
    BY Zenon, <1>0, OutcomeMeans DEF IInv, ResumeDefines, Waiting, Ending
<1>8. EndIsTrue'
    BY Zenon DEF IInv, EndIsTrue, Waiting, Ending
<1> QED
    BY Zenon, <1>1, <1>2, <1>3, <1>4, <1>5, <1>6, <1>7, <1>8 DEF IInv

(* The worker fails wherever it is after its start. *)
LEMMA WorkerFailsInv ==
    ASSUME IInv, ~panicked, ~panicked', NEW out, Outcome(out) \/ StoreOutcome(out) \/ spent' = spent,
           WorkerFails, worker.pc \notin {"begin", "senderr", "close", "done"},
           UNCHANGED <<limits, defs, cas, archive, moved, local, location, progress, progressCh,
                       monitor, reporter, tracker>>
    PROVE  IInv'
<1>1. Shapes /\ 0 <= cas /\ (Pausing /\ worker.caughtUp => Moved)
    BY DEF IInv, Shapes, WorkerIsTrue
<1>2. worker.caughtUp \in BOOLEAN
    BY Zenon, <1>1 DEF Shapes
<1>3. worker'.pc = "end" /\ worker'.err = TRUE /\ worker'.caughtUp = worker.caughtUp
    BY Zenon, <1>1, WorkerFailsMeans
<1>4. /\ worker'.err \in BOOLEAN /\ worker'.err
      /\ worker'.caughtUp \in BOOLEAN /\ (Pausing /\ worker'.caughtUp => Moved)
    BY Zenon, <1>1, <1>2, <1>3
<1>5. DOMAIN worker' = {"pc", "seen", "read", "caughtUp", "err"} /\ worker'.seen = 0
    BY Zenon, <1>1, WorkerFailsMeans
<1> QED
    BY <1>1, <1>3, <1>4, <1>5, WorkerControl

(* The worker goes on to a place it may go to from where it is. *)
LEMMA WorkerGoesInv ==
    ASSUME IInv, ~panicked, ~panicked', NEW out, Outcome(out) \/ StoreOutcome(out) \/ spent' = spent,
           NEW p, WorkerGoes(p), worker.pc \notin {"begin", "senderr", "close", "done"},
           UNCHANGED <<limits, defs, cas, archive, moved, local, location, progress, progressCh,
                       monitor, reporter, tracker>>,
           \/ p \in Waiting /\ worker.pc \in Waiting
           \/ p = "end" /\ worker.pc \in Waiting /\ worker.caughtUp
           \/ p = "get"
           \/ worker.pc = "end" /\ p = "drain"
           \/ worker.pc = "drain" /\ monitor.pc = "done" /\ p = AfterDrain
    PROVE  IInv'
<1>1. Shapes /\ 0 <= cas /\ (Pausing /\ worker.caughtUp => Moved)
    BY DEF IInv, Shapes, WorkerIsTrue
<1>2. worker.caughtUp \in BOOLEAN /\ worker.err \in BOOLEAN
    BY Zenon, <1>1 DEF Shapes
<1>3. AfterDrain \in {"senderr", "close"} /\ (worker.err => AfterDrain = "senderr")
    BY Zenon DEF AfterDrain
<1> QED
    BY <1>1, <1>2, <1>3, WorkerGoesMeans, WorkerControl

(* WorkerGet reads the definitions, or fails. *)
LEMMA WorkerGetInv ==
    ASSUME IInv, ~panicked, NEW out, WorkerGet(out)
    PROVE  IInv'
<1>1. /\ Outcome(out) /\ worker.pc = "get"
      /\ UNCHANGED <<limits, defs, cas, archive, moved, local, location, progress, progressCh,
                     monitor, reporter, tracker, panicked>>
      /\ \/ WorkerFails
         \/ worker' = [worker EXCEPT !.pc = "mark", !.seen = cas, !.read = defs]
    BY Zenon DEF WorkerGet, cfgVars, hmVars
<1>2. CASE WorkerFails
    BY Zenon, <1>1, <1>2, WorkerFailsInv
<1>3. CASE worker' = [worker EXCEPT !.pc = "mark", !.seen = cas, !.read = defs]
    <2>1. Shapes /\ cas <= cas /\ (Pausing /\ worker.caughtUp => Moved)
        BY DEF IInv, Shapes, WorkerIsTrue
    <2>2. /\ DOMAIN worker' = {"pc", "seen", "read", "caughtUp", "err"}
          /\ worker'.pc = "mark" /\ worker'.seen = cas /\ worker'.read = defs
          /\ worker'.caughtUp = worker.caughtUp /\ worker'.err = worker.err
        BY Zenon, <1>3, <2>1 DEF Shapes
    <2>3. cas \in Nat /\ worker.caughtUp \in BOOLEAN /\ worker.err \in BOOLEAN
        BY Zenon, <2>1 DEF Shapes
    <2> QED
        BY Zenon, <1>1, <2>1, <2>2, <2>3, WorkerControl
<1> QED
    BY Zenon, <1>1, <1>2, <1>3

(* The worker waits for samples, is stopped, reports, ends and drains. *)
LEMMA WorkerWaitsInv ==
    ASSUME IInv, ~panicked,
           \/ WorkerWants \/ WorkerStopped \/ WorkerReports
           \/ WorkerEnds \/ WorkerDrains \/ Notify
    PROVE  IInv'
<1>0. spent' = spent
    BY Zenon DEF WorkerWants, WorkerStopped, WorkerReports, WorkerEnds, WorkerDrains, Notify
<1>1. UNCHANGED <<limits, defs, cas, archive, moved, local, location, progress, progressCh,
                  monitor, reporter, tracker, panicked>>
    BY Zenon DEF WorkerWants, WorkerStopped, WorkerReports, WorkerEnds, WorkerDrains, Notify, cfgVars, hmVars
<1>2. \/ worker.pc = "want" /\ WorkerFails
      \/ worker.pc = "loop" /\ WorkerGoes("want")
      \/ worker.pc = "want" /\ WorkerGoes("sum")
      \/ worker.pc = "want" /\ WorkerGoes("loop")
      \/ worker.pc = "send" /\ worker.caughtUp /\ WorkerGoes("end")
      \/ worker.pc = "send" /\ WorkerGoes("loop")
      \/ worker.pc = "end" /\ WorkerGoes("drain")
      \/ worker.pc = "drain" /\ monitor.pc = "done" /\ WorkerGoes(AfterDrain)
    BY Zenon DEF WorkerWants, WorkerStopped, WorkerReports, WorkerEnds, WorkerDrains, Notify, MonitorDone
<1>3. CASE worker.pc = "want" /\ WorkerFails
    BY Zenon, <1>0, <1>1, <1>3, WorkerFailsInv
<1>4. CASE ~(worker.pc = "want" /\ WorkerFails)
    BY Zenon, <1>0, <1>1, <1>2, <1>4, WorkerGoesInv DEF Waiting
<1> QED
    BY Zenon, <1>3, <1>4

(* A sum that finds everything transferred is right.  For a pause that is  *)
(* the active copy of every index.                                         *)
LEMMA CaughtUpMoved ==
    ASSUME IInv, Pausing, CaughtUp
    PROVE  Moved
<1> SUFFICES ASSUME NEW i \in limits.mine PROVE <<limits.active[i], i>> \in moved
    BY Zenon DEF Moved
<1>1. PICK c \in Counted : c[2] = i
    BY Zenon DEF CaughtUp
<1>2. progress[c] = 1 /\ c \in DOMAIN progress
    BY Zenon, <1>1 DEF CaughtUp, Counted
<1>3. c \in getPIndexActiveNodeMap /\ c \in moved
    BY Zenon, <1>2 DEF IInv, ProgressIsTrue, Monitored
<1>4. PICK j \in limits.mine : c = <<limits.active[j], j>>
    BY Zenon, <1>3 DEF getPIndexActiveNodeMap
<1>5. c[2] = j
    BY Zenon, <1>4
<1> QED
    BY Zenon, <1>1, <1>3, <1>4, <1>5

LEMMA WorkerSumsInv ==
    ASSUME IInv, ~panicked, NEW out, WorkerSums(out)
    PROVE  IInv'
<1>1. /\ Outcome(out) \/ spent' = spent
      /\ UNCHANGED <<limits, defs, cas, archive, moved, local, location, progress, progressCh,
                     monitor, reporter, tracker, panicked>>
      /\ worker.pc = "sum"
      /\ \/ WorkerGoes("loop")
         \/ worker' = [worker EXCEPT !.pc = "send", !.caughtUp = CaughtUp]
    BY Zenon DEF WorkerSums, cfgVars
<1>2. CASE WorkerGoes("loop")
    BY Zenon, <1>1, <1>2, WorkerGoesInv DEF Waiting
<1>3. CASE worker' = [worker EXCEPT !.pc = "send", !.caughtUp = CaughtUp]
    <2>1. Shapes /\ worker.seen <= cas
        BY Zenon DEF IInv, ReadsAreCurrent
    <2>2. /\ DOMAIN worker' = {"pc", "seen", "read", "caughtUp", "err"}
          /\ worker'.pc = "send" /\ worker'.seen = worker.seen /\ worker'.err = worker.err
          /\ worker'.caughtUp = CaughtUp
        BY Zenon, <1>3, <2>1 DEF Shapes
    <2>3. worker.seen \in Nat /\ CaughtUp \in BOOLEAN /\ worker.err \in BOOLEAN
        BY Zenon, <2>1 DEF Shapes, CaughtUp
    <2> QED
        BY Zenon, <1>1, <2>1, <2>2, <2>3, CaughtUpMoved, WorkerControl DEF Waiting
<1> QED
    BY Zenon, <1>1, <1>2, <1>3

(* hibernateIndexes starts the tracker before it does anything else. *)
LEMMA hibernateIndexesInv ==
    ASSUME IInv, ~panicked, NEW out, hibernateIndexes(out)
    PROVE  IInv'
<1>1. /\ StoreOutcome(out) \/ spent' = spent
      /\ worker.pc = "begin" /\ panicked' = panicked
      /\ UNCHANGED <<limits, defs, cas, archive, moved, local, location, progress, progressCh>>
      /\ monitor' = monitor /\ reporter' = reporter
      /\ \/ WorkerFails
         \/ WorkerGoes("end") /\ (limits.mine = {} \/ limits.dryRun)
         \/ WorkerGoes("get")
      /\ tracker' = [tracker EXCEPT !.pc = IF Pausing \/ ~limits.dryRun THEN "hook" ELSE tracker.pc]
    BY Zenon DEF hibernateIndexes, cfgVars, hmVars
<1>2. Shapes /\ tracker.pc = "off" /\ tracker.verdict = 0
    BY Zenon, <1>1 DEF IInv, TrackerIsTrue
<1>3. /\ DOMAIN tracker' = {"pc", "seen", "read", "marks", "verdict"}
      /\ tracker'.pc \in {"off", "hook"} /\ (tracker'.pc = "hook" => Pausing \/ ~limits.dryRun)
      /\ tracker'.verdict = 0 /\ tracker'.seen = tracker.seen
    BY Zenon, <1>1, <1>2 DEF Shapes
<1>4. /\ DOMAIN worker' = {"pc", "seen", "read", "caughtUp", "err"} /\ worker'.seen = 0
      /\ worker'.caughtUp = worker.caughtUp /\ worker'.err \in BOOLEAN
      /\ \/ worker'.pc = "end" /\ (worker'.err \/ limits.mine = {} \/ limits.dryRun)
         \/ worker'.pc = "get"
    <2>1. CASE WorkerFails
        BY Zenon, <1>2, <2>1, WorkerFailsMeans
    <2>2. CASE ~WorkerFails
        BY Zenon, <1>1, <1>2, <2>2, WorkerGoesMeans DEF Shapes
    <2> QED
        BY Zenon, <2>1, <2>2
<1>5. Fate' = Fate /\ Pausing' = Pausing /\ Stored' = Stored /\ Moved' = Moved
    BY Zenon, <1>1, <1>2, <1>3, FateStays DEF Stored, Moved
<1>6. Shapes'
    BY <1>1, <1>2, <1>3, <1>4, OutcomeMeans DEF IInv, Shapes
<1>7. ReadsAreCurrent'
    BY <1>1, <1>2, <1>3, <1>4 DEF IInv, ReadsAreCurrent, Shapes
<1>8. WorkerIsTrue'
    BY Zenon, <1>1, <1>4, <1>5 DEF IInv, WorkerIsTrue, Waiting, Ending
<1>9. ProgressIsTrue'
    BY Zenon, <1>1, ProgressStays DEF IInv
<1>10. TrackerIsTrue'
    BY Zenon, <1>1, <1>3, <1>4, <1>5 DEF IInv, TrackerIsTrue
<1>11. PauseIsSafe'
    BY Zenon, <1>1, <1>2, <1>5, OutcomeMeans DEF IInv, PauseIsSafe
<1>12. ResumeDefines'
    BY Zenon, <1>1, <1>2, <1>3, <1>4, <1>5, OutcomeMeans DEF IInv, ResumeDefines, Waiting, Ending
<1>13. EndIsTrue'
    BY Zenon, <1>1, <1>4 DEF IInv, EndIsTrue, Waiting, Ending
<1> QED
    BY Zenon, <1>6, <1>7, <1>8, <1>9, <1>10, <1>11, <1>12, <1>13 DEF IInv

(* The uploads fill the archive. *)
LEMMA UploadInv ==
    ASSUME IInv, ~panicked, NEW out \in Outs, UploadDefs(out) \/ UploadPartitions(out)
    PROVE  IInv'
<1>1. /\ StoreOutcome(out)
      /\ UNCHANGED <<limits, defs, cas, moved, local, location, progress, progressCh,
                     monitor, reporter, tracker>>
      /\ \/ WorkerFails /\ archive' = archive /\ ~panicked' /\ worker.pc \in {"upload", "parts"}
         \/ /\ worker.pc = "upload" /\ worker' = [worker EXCEPT !.pc = "parts"]
            /\ archive' = [archive EXCEPT !.defs = limits.mine] /\ ~panicked'
         \/ /\ worker.pc = "parts" /\ worker' = [worker EXCEPT !.pc = "set"]
            /\ archive' = [archive EXCEPT !.parts = limits.planned]
            /\ panicked' <=> ~limits.planned
  <2>1. CASE UploadDefs(out)
      BY <2>1, Zenon DEF UploadDefs, cfgVars, hmVars, Outs
  <2>2. CASE UploadPartitions(out)
      BY <2>2, Zenon DEF UploadPartitions, cfgVars, hmVars, Outs
  <2> QED
      BY Zenon, <2>1, <2>2
<1>2. CASE WorkerFails /\ archive' = archive /\ ~panicked' /\ worker.pc \in {"upload", "parts"}
    BY Zenon, <1>1, <1>2, WorkerFailsInv
<1>3. CASE ~(WorkerFails /\ archive' = archive /\ ~panicked' /\ worker.pc \in {"upload", "parts"})
  <2>1. /\ DOMAIN worker' = {"pc", "seen", "read", "caughtUp", "err"} /\ worker'.seen = worker.seen
        /\ worker'.caughtUp = worker.caughtUp /\ worker'.err = worker.err /\ worker'.read = worker.read
        /\ DOMAIN archive' = {"defs", "parts"}
        /\ \/ /\ worker.pc = "upload" /\ worker'.pc = "parts" /\ archive'.defs = limits.mine
              /\ archive'.parts = archive.parts /\ ~panicked'
           \/ /\ worker.pc = "parts" /\ worker'.pc = "set" /\ archive'.defs = archive.defs
              /\ archive'.parts = limits.planned /\ (panicked' <=> ~limits.planned)
      BY <1>1, <1>3 DEF IInv, Shapes
  <2>2. Fate' = Fate /\ Pausing' = Pausing /\ Moved' = Moved /\ Shapes /\ limits.planned \in BOOLEAN
      BY Zenon, <1>1, FateStays, HibernateAssumption DEF Moved, IInv, Shapes
  <2>3. Shapes'
      BY Zenon, <1>1, <2>1, <2>2, OutcomeMeans DEF Shapes
  <2>4. ReadsAreCurrent'
      BY Zenon, <1>1, <2>1 DEF IInv, ReadsAreCurrent
  <2>5. WorkerIsTrue'
      BY Zenon, <1>1, <2>1, <2>2 DEF IInv, WorkerIsTrue, Waiting, Ending, Stored
  <2>6. ProgressIsTrue'
      BY Zenon, <1>1, ProgressStays DEF IInv
  <2>7. TrackerIsTrue'
      BY Zenon, <1>1, <2>1, <2>2 DEF IInv, TrackerIsTrue
  <2>8. PauseIsSafe'
      BY Zenon, <1>1, <2>1, <2>2, OutcomeMeans DEF IInv, PauseIsSafe, WorkerIsTrue
  <2>9. ResumeDefines'
      BY Zenon, <1>1, <2>1, <2>2, OutcomeMeans DEF IInv, ResumeDefines, Waiting, Ending
  <2>10. EndIsTrue'
      BY Zenon, <1>1, <2>1 DEF IInv, EndIsTrue, Waiting, Ending
  <2> QED
      BY Zenon, <2>3, <2>4, <2>5, <2>6, <2>7, <2>8, <2>9, <2>10 DEF IInv
<1> QED
    BY Zenon, <1>2, <1>3

(* The worker marks the manager's copies.  If the tracker is dropping the  *)
(* paths meanwhile, it marks them with no path.                            *)
LEMMA WorkerMarkInv ==
    ASSUME IInv, ~panicked, WorkerMark
    PROVE  IInv'
<1>1. /\ UNCHANGED <<limits, defs, cas, archive, moved, location, progress, progressCh,
                     monitor, reporter, tracker, spent, panicked>>
      /\ worker.pc = "mark"
      /\ local' = [i \in limits.mine |-> IF i \in Marks THEN [local[i] EXCEPT !.path = location]
                                                        ELSE local[i]]
      /\ worker' = [worker EXCEPT !.pc = IF Pausing THEN "upload" ELSE "set"]
    BY Zenon DEF WorkerMark, cfgVars, AfterMark
<1>2. /\ DOMAIN worker' = {"pc", "seen", "read", "caughtUp", "err"} /\ worker'.seen = worker.seen
      /\ worker'.caughtUp = worker.caughtUp /\ worker'.err = worker.err /\ worker'.read = worker.read
      /\ worker'.pc = IF Pausing THEN "upload" ELSE "set"
    BY Zenon, <1>1 DEF IInv, Shapes
<1>3. Fate' = Fate /\ Pausing' = Pausing /\ Moved' = Moved /\ Stored' = Stored
    BY Zenon, <1>1, FateStays DEF Moved, Stored
<1>4. /\ local' \in [limits.mine -> [path : Paths, ver : {0}]]
      /\ \A i \in limits.mine : local'[i].path \in {local[i].path, location}
    BY <1>1 DEF IInv, Shapes
<1>5. Shapes'
    BY Zenon, <1>1, <1>2, <1>4 DEF IInv, Shapes
<1>6. ReadsAreCurrent'
    BY Zenon, <1>1, <1>2 DEF IInv, ReadsAreCurrent
<1>7. WorkerIsTrue'
    BY Zenon, <1>1, <1>2, <1>3 DEF IInv, WorkerIsTrue, Waiting, Ending
<1>8. ProgressIsTrue'
    BY Zenon, <1>1, ProgressStays DEF IInv
<1>9. TrackerIsTrue'
    BY <1>1, <1>2, <1>3, <1>4 DEF IInv, TrackerIsTrue
<1>10. PauseIsSafe'
    BY Zenon, <1>1, <1>3 DEF IInv, PauseIsSafe
<1>11. ResumeDefines'
    BY Zenon, <1>1, <1>2, <1>3 DEF IInv, ResumeDefines, Waiting, Ending
<1>12. EndIsTrue'
    BY Zenon, <1>1, <1>2 DEF IInv, EndIsTrue, Waiting, Ending
<1> QED
    BY Zenon, <1>5, <1>6, <1>7, <1>8, <1>9, <1>10, <1>11, <1>12 DEF IInv

(* What the worker writes over the definitions it has read: those of its   *)
(* indexes that a pause finds, or that a resume does not.                  *)
LEMMA WorkerWrites ==
    ASSUME IInv, NEW out, WorkerSet(out), defs' # defs
    PROVE  /\ WorkerGoes("loop") /\ cas' = cas + 1
           /\ DOMAIN defs' = IF Pausing THEN DOMAIN defs ELSE DOMAIN defs \cup limits.mine
           /\ \A i \in DOMAIN defs' :
                 defs'[i] = IF i \in limits.mine /\ (Pausing <=> i \in DOMAIN defs)
                            THEN local[i] ELSE defs[i]
<1>1. /\ worker.pc = "set" /\ worker.seen = cas /\ cas' = cas + 1 /\ WorkerGoes("loop")
      /\ defs' = With(worker.read, Marks, local)
    BY Zenon DEF WorkerSet, CfgAccepts, cfgVars
<1>2. worker.read = defs
    BY Zenon, <1>1 DEF IInv, ReadsAreCurrent
<1>3. Marks = IF Pausing THEN limits.mine \cap DOMAIN defs ELSE limits.mine \ DOMAIN defs
    BY Zenon, <1>2 DEF Marks
<1>4. /\ DOMAIN defs' = DOMAIN defs \cup Marks
      /\ \A i \in DOMAIN defs' : defs'[i] = IF i \in Marks THEN local[i] ELSE defs[i]
    BY Zenon, <1>1, <1>2 DEF With
<1> QED
    BY Zenon, <1>1, <1>3, <1>4

LEMMA WorkerSetInv ==
    ASSUME IInv, ~panicked, NEW out, WorkerSet(out)
    PROVE  IInv'
<1>1. /\ worker.pc = "set" /\ Outcome(out)
      /\ UNCHANGED <<limits, archive, moved, local, location, progress, progressCh,
                     monitor, reporter, tracker, panicked>>
      /\ \/ WorkerFails /\ UNCHANGED <<defs, cas>>
         \/ WorkerGoes("get") /\ UNCHANGED <<defs, cas>>
         \/ WorkerGoes("loop") /\ cas' = cas + 1
    BY Zenon DEF WorkerSet, cfgVars, hmVars
<1>2. CASE WorkerFails /\ UNCHANGED <<defs, cas>>
    BY Zenon, <1>1, <1>2, WorkerFailsInv
<1>3. CASE WorkerGoes("get") /\ UNCHANGED <<defs, cas>>
    BY Zenon, <1>1, <1>3, WorkerGoesInv
<1>4. CASE /\ WorkerGoes("loop") /\ cas' = cas + 1
           /\ ~(WorkerGoes("get") /\ UNCHANGED <<defs, cas>>)
           /\ ~(WorkerFails /\ UNCHANGED <<defs, cas>>)
  <2>1. /\ worker.seen = cas /\ defs' = With(worker.read, Marks, local)
        /\ worker.read = defs
      BY Zenon, <1>1, <1>4 DEF WorkerSet, CfgAccepts, cfgVars, IInv, ReadsAreCurrent
  <2>2. /\ DOMAIN defs' = IF Pausing THEN DOMAIN defs ELSE DOMAIN defs \cup limits.mine
        /\ \A i \in DOMAIN defs' :
              defs'[i] = IF i \in limits.mine /\ (Pausing <=> i \in DOMAIN defs)
                         THEN local[i] ELSE defs[i]
      BY Zenon, <2>1 DEF With, Marks
  <2>3. /\ DOMAIN worker' = {"pc", "seen", "read", "caughtUp", "err"} /\ worker'.seen = 0
        /\ worker'.caughtUp = worker.caughtUp /\ worker'.err = worker.err /\ worker'.pc = "loop"
      BY Zenon, <1>4, WorkerGoesMeans DEF IInv
  <2>4. /\ Fate' = Fate /\ Pausing' = Pausing /\ Moved' = Moved /\ Stored' = Stored
        /\ Shapes /\ limits.mine \subseteq Indexes /\ cas \in Nat
      BY Zenon, <1>1, FateStays, HibernateAssumption DEF Moved, Stored, IInv, Shapes
  <2>5. Shapes'
    <3>1. DOMAIN defs' \subseteq Indexes /\ \A i \in DOMAIN defs' : DOMAIN defs'[i] = {"path", "ver"}
        BY <2>2, <2>4 DEF Shapes
    <3> QED
        BY <1>1, <1>4, <2>3, <2>4, <3>1, OutcomeMeans DEF Shapes
  <2>6. ReadsAreCurrent'
      BY <1>1, <1>4, <2>3, <2>4 DEF IInv, ReadsAreCurrent, Shapes
  <2>7. WorkerIsTrue'
      BY Zenon, <1>1, <2>3, <2>4 DEF IInv, WorkerIsTrue, Waiting, Ending
  <2>8. ProgressIsTrue'
      BY Zenon, <1>1, ProgressStays DEF IInv
  <2>9. TrackerIsTrue'
      BY Zenon, <1>1, <2>3, <2>4 DEF IInv, TrackerIsTrue
  <2>10. PauseIsSafe'
      BY Zenon, <1>1, <2>2, <2>4, OutcomeMeans DEF IInv, PauseIsSafe, WorkerIsTrue, Stored
  <2>11. ResumeDefines'
      BY Zenon, <1>1, <2>2, <2>3, <2>4, OutcomeMeans DEF IInv, ResumeDefines, TrackerIsTrue
  <2>12. EndIsTrue'
      BY Zenon, <1>1, <2>3 DEF IInv, EndIsTrue, Waiting, Ending
  <2> QED
      BY <2>5, <2>6, <2>7, <2>8, <2>9, <2>10, <2>11, <2>12 DEF IInv
<1> QED
    BY Zenon, <1>1, <1>2, <1>3, <1>4

(* The worker tells the reporter of its error and closes the channel. *)
LEMMA WorkerClosesInv ==
    ASSUME IInv, ~panicked, WorkerSendsError \/ WorkerCloses
    PROVE  IInv'
<1>1. /\ UNCHANGED <<limits, defs, cas, archive, moved, local, location, progress,
                     monitor, tracker, spent, panicked>>
      /\ \/ /\ worker.pc = "senderr" /\ WorkerGoes("close") /\ progressCh' = progressCh
            /\ reporter' = [reporter EXCEPT !.pc = "stop", !.failed = TRUE]
         \/ /\ worker.pc = "close" /\ WorkerGoes("done") /\ progressCh' = "closed"
            /\ reporter' = reporter
    BY Zenon DEF WorkerSendsError, WorkerCloses, cfgVars, hmVars
<1>2. /\ DOMAIN worker' = {"pc", "seen", "read", "caughtUp", "err"} /\ worker'.seen = 0
      /\ worker'.caughtUp = worker.caughtUp /\ worker'.err = worker.err
      /\ DOMAIN reporter' = {"pc", "failed"}
      /\ \/ /\ worker.pc = "senderr" /\ worker'.pc = "close" /\ progressCh' = progressCh
            /\ reporter'.pc = "stop" /\ reporter'.failed = TRUE
         \/ /\ worker.pc = "close" /\ worker'.pc = "done" /\ progressCh' = "closed"
            /\ reporter' = reporter
    BY Zenon, <1>1, WorkerGoesMeans DEF IInv, Shapes
<1>3. Fate' = Fate /\ Pausing' = Pausing /\ Moved' = Moved /\ Stored' = Stored /\ Shapes
    BY Zenon, <1>1, FateStays DEF Moved, Stored, IInv
<1>4. Shapes'
  <2>1. reporter'.failed \in BOOLEAN
      BY Zenon, <1>2, <1>3 DEF Shapes
  <2> QED
      BY <1>1, <1>2, <1>3, <2>1 DEF Shapes
<1>5. ReadsAreCurrent'
    BY <1>1, <1>2 DEF IInv, ReadsAreCurrent, Shapes
<1>6. WorkerIsTrue'
    BY Zenon, <1>1, <1>2, <1>3 DEF IInv, WorkerIsTrue, Waiting, Ending
<1>7. ProgressIsTrue'
    BY Zenon, <1>1, ProgressStays DEF IInv
<1>8. TrackerIsTrue'
    BY Zenon, <1>1, <1>2, <1>3 DEF IInv, TrackerIsTrue
<1>9. PauseIsSafe'
    BY Zenon, <1>1, <1>3 DEF IInv, PauseIsSafe
<1>10. ResumeDefines'
    BY Zenon, <1>1, <1>2, <1>3 DEF IInv, ResumeDefines, Waiting, Ending
<1>11. EndIsTrue'
    BY Zenon, <1>1, <1>2 DEF IInv, EndIsTrue, Waiting, Ending
<1> QED
    BY Zenon, <1>4, <1>5, <1>6, <1>7, <1>8, <1>9, <1>10, <1>11 DEF IInv

(* Steps of the monitor, the reporter, Ctl and the nodes: they change      *)
(* neither the definitions nor the worker nor the tracker.                 *)
LEMMA OthersFrame ==
    ASSUME IInv, ~panicked, NEW out, Outcome(out) \/ StoreOutcome(out) \/ spent' = spent,
           UNCHANGED <<limits, defs, cas, archive, local, location, progressCh, worker, tracker>>,
           moved \subseteq moved', ProgressIsTrue',
           DOMAIN reporter' = {"pc", "failed"}, reporter'.failed \in BOOLEAN,
           reporter.failed => reporter'.failed,
           reporter'.pc = "done" => progressCh = "closed",
           DOMAIN monitor' = {"pc", "misses", "names", "then"}, monitor'.then \in {"select", "notify"},
           monitor.pc = "done" => monitor'.pc = "done"
    PROVE  IInv'
<1>1. Fate' = Fate /\ Pausing' = Pausing /\ Stored' = Stored /\ (Moved => Moved') /\ Shapes
    BY Zenon, FateStays DEF Moved, Stored, IInv
<1>2. Shapes'
    BY Zenon, <1>1, OutcomeMeans DEF Shapes
<1>3. ReadsAreCurrent'
    BY Zenon DEF IInv, ReadsAreCurrent
<1>4. WorkerIsTrue'
    BY Zenon, <1>1 DEF IInv, WorkerIsTrue
<1>5. TrackerIsTrue'
    BY Zenon, <1>1 DEF IInv, TrackerIsTrue
<1>6. PauseIsSafe'
    BY Zenon, <1>1, OutcomeMeans DEF IInv, PauseIsSafe
<1>7. ResumeDefines'
    BY Zenon, <1>1, OutcomeMeans DEF IInv, ResumeDefines
<1>8. EndIsTrue'
    BY Zenon DEF IInv, EndIsTrue
<1> QED
    BY Zenon, <1>2, <1>3, <1>4, <1>5, <1>6, <1>7, <1>8 DEF IInv

(* The monitor's steps that take no sample. *)
LEMMA MonitorInv ==
    ASSUME IInv, ~panicked, NEW out,
           \/ MonitorBegins(out) \/ MonitorStops \/ MonitorStopsAll \/ NobodyWants
    PROVE  IInv'
<1>1. /\ Outcome(out) \/ spent' = spent
      /\ UNCHANGED <<limits, defs, cas, archive, moved, local, location, progress, progressCh,
                     worker, reporter, tracker>>
    BY Zenon DEF MonitorBegins, MonitorStops, MonitorStopsAll, NobodyWants, cfgVars, hmVars
<1>2. \E p : MonitorGoes(p) /\ monitor.pc # "done"
    BY Zenon DEF MonitorBegins, MonitorStops, MonitorStopsAll, NobodyWants
<1>3. /\ DOMAIN monitor' = {"pc", "misses", "names", "then"} /\ monitor'.then = monitor.then
      /\ monitor.pc # "done"
    BY Zenon, <1>2 DEF MonitorGoes, IInv, Shapes
<1>4. /\ DOMAIN reporter = {"pc", "failed"} /\ reporter.failed \in BOOLEAN
      /\ monitor.then \in {"select", "notify"}
      /\ reporter.pc = "done" => progressCh = "closed"
    BY Zenon DEF IInv, Shapes, EndIsTrue
<1> QED
    BY Zenon, <1>1, <1>3, <1>4, OthersFrame, ProgressStays DEF IInv

(* The monitor tells the reporter of a failure, and the reporter stops. *)
LEMMA ReporterInv ==
    ASSUME IInv, ~panicked, MonitorSendsError \/ ReporterStops \/ ReporterEnds
    PROVE  IInv'
<1>1. UNCHANGED <<limits, defs, cas, archive, moved, local, location, progress, progressCh,
                  worker, tracker, spent>>
    BY Zenon DEF MonitorSendsError, ReporterStops, ReporterEnds, cfgVars, hmVars
<1>2. \/ /\ monitor.pc = "send" /\ MonitorGoes("stop")
         /\ reporter' = [reporter EXCEPT !.pc = "stop", !.failed = TRUE]
      \/ monitor' = monitor /\ reporter' = [reporter EXCEPT !.pc = "recv"]
      \/ monitor' = monitor /\ reporter' = [reporter EXCEPT !.pc = "done"] /\ progressCh = "closed"
    BY Zenon DEF MonitorSendsError, ReporterStops, ReporterEnds
<1>3. /\ DOMAIN reporter = {"pc", "failed"} /\ reporter.failed \in BOOLEAN
      /\ DOMAIN monitor = {"pc", "misses", "names", "then"} /\ monitor.then \in {"select", "notify"}
    BY Zenon DEF IInv, Shapes
<1>4. /\ DOMAIN reporter' = {"pc", "failed"} /\ reporter'.failed \in {reporter.failed, TRUE}
      /\ reporter'.pc = "done" => progressCh = "closed"
    BY Zenon, <1>2, <1>3
<1>5. reporter'.failed \in BOOLEAN /\ (reporter.failed => reporter'.failed)
    BY Zenon, <1>3, <1>4
<1>6. /\ DOMAIN monitor' = {"pc", "misses", "names", "then"} /\ monitor'.then = monitor.then
      /\ monitor.pc = "done" => monitor'.pc = "done"
    BY Zenon, <1>2, <1>3 DEF MonitorGoes
<1> QED
    BY Zenon, <1>1, <1>3, <1>4, <1>5, <1>6, OthersFrame, ProgressStays DEF IInv

(* Ctl is told to stop, and stops. *)
LEMMA CtlInv ==
    ASSUME IInv, ~panicked, StopHibernationTask \/ Stop
    PROVE  IInv'
<1>1. UNCHANGED <<limits, defs, cas, archive, moved, local, location, progress, progressCh,
                  worker, tracker, spent, monitor, reporter>>
    BY Zenon DEF StopHibernationTask, Stop, cfgVars, hmVars
<1>2. /\ DOMAIN reporter = {"pc", "failed"} /\ reporter.failed \in BOOLEAN
      /\ DOMAIN monitor = {"pc", "misses", "names", "then"} /\ monitor.then \in {"select", "notify"}
      /\ reporter.pc = "done" => progressCh = "closed"
    BY Zenon DEF IInv, Shapes, EndIsTrue
<1> QED
    BY Zenon, <1>1, <1>2, OthersFrame, ProgressStays DEF IInv

(* A copy is counted by what it has transferred. *)
LEMMA UpdatedIsTrue ==
    ASSUME ProgressIsTrue, limits' = limits, moved' = moved,
           NEW C \in SUBSET Monitored, progress' = Updated(C)
    PROVE  ProgressIsTrue'
<1>1. Monitored' = Monitored
    BY Zenon DEF Monitored, Pausing, Copies, getPIndexActiveNodeMap
<1>2. /\ DOMAIN progress' = DOMAIN progress \cup C
      /\ \A c \in DOMAIN progress' : progress'[c] =
            IF c \in C THEN IF c \in moved THEN 1 ELSE 0 ELSE progress[c]
    BY Zenon DEF Updated
<1> QED
    BY <1>1, <1>2 DEF ProgressIsTrue

(* Samples arrive, good or bad, and files are transferred. *)
LEMMA SampleInv ==
    ASSUME IInv, ~panicked, NEW n,
           \/ SampleArrives(n)
           \/ \E kind \in limits.bad : SampleFails(n, kind)
           \/ \E i \in Indexes : TransferFails(n, i)
    PROVE  IInv'
<1>1. PICK out : Outcome(out) \/ StoreOutcome(out) \/ spent' = spent
    BY Zenon DEF SampleArrives, SampleFails, TransferFails
<1>2. /\ UNCHANGED <<limits, defs, cas, archive, moved, local, location, progressCh,
                     worker, tracker, reporter>>
      /\ monitor.pc = "select"
    BY Zenon DEF SampleArrives, SampleFails, TransferFails, cfgVars, hmVars
<1>3. \/ \E p, m : monitor' = [monitor EXCEPT !.pc = p, !.misses[n] = m, !.then = "select"]
      \/ \E p, m, b : monitor' = [monitor EXCEPT !.pc = p, !.misses[n] = m, !.names = b]
      \/ \E p, m, b : monitor' = [monitor EXCEPT !.pc = p, !.misses[n] = m, !.names = b,
                                               !.then = "notify"]
    BY Zenon DEF SampleArrives, SampleFails, TransferFails
<1>4. DOMAIN monitor' = {"pc", "misses", "names", "then"} /\ monitor'.then \in {"select", "notify"}
    BY Zenon, <1>3 DEF IInv, Shapes
<1>5. ProgressIsTrue'
    <2>1. CASE progress' = progress
        BY Zenon, <1>2, <2>1, ProgressStays DEF IInv
    <2>2. CASE progress' # progress
        <3>1. \E C \in SUBSET StatsOf(n) : progress' = Updated(C)
            BY Zenon, <2>2 DEF SampleArrives, SampleFails, TransferFails, hmVars
        <3>2. StatsOf(n) \subseteq Monitored
            BY Zenon DEF StatsOf
        <3> QED
            BY Zenon, <1>2, <3>1, <3>2, UpdatedIsTrue DEF IInv
    <2> QED
        BY Zenon, <2>1, <2>2
<1>6. /\ DOMAIN reporter = {"pc", "failed"} /\ reporter.failed \in BOOLEAN
      /\ reporter.pc = "done" => progressCh = "closed"
    BY Zenon DEF IInv, Shapes, EndIsTrue
<1> QED
    BY Zenon, <1>1, <1>2, <1>4, <1>5, <1>6, OthersFrame

LEMMA hibernatePIndexInv ==
    ASSUME IInv, ~panicked, NEW n, NEW i, hibernatePIndex(n, i)
    PROVE  IInv'
<1>1. /\ UNCHANGED <<limits, defs, cas, archive, local, location, progress, progressCh,
                     worker, tracker, spent, monitor, reporter>>
      /\ moved \subseteq moved'
    BY Zenon DEF hibernatePIndex, cfgVars, hmVars
<1>2. ProgressIsTrue'
    <2>1. Monitored' = Monitored
        BY <1>1, Zenon DEF Monitored, Pausing, Copies, getPIndexActiveNodeMap
    <2> QED
        BY Zenon, <1>1, <2>1 DEF IInv, ProgressIsTrue
<1>3. /\ DOMAIN reporter = {"pc", "failed"} /\ reporter.failed \in BOOLEAN
      /\ DOMAIN monitor = {"pc", "misses", "names", "then"} /\ monitor.then \in {"select", "notify"}
      /\ reporter.pc = "done" => progressCh = "closed"
    BY Zenon DEF IInv, Shapes, EndIsTrue
<1> QED
    BY Zenon, <1>1, <1>2, <1>3, OthersFrame

(* The hook tells the fate of the bucket: a success only when the worker   *)
(* has ended well.                                                         *)
LEMMA HookInv ==
    ASSUME IInv, ~panicked, NEW v \in Verdicts, BucketStateTrackerHook(v)
    PROVE  IInv'
<1>1. /\ UNCHANGED <<limits, defs, cas, archive, moved, local, location, progress, progressCh,
                     worker, monitor, reporter, spent, panicked>>
      /\ tracker.pc = "hook" /\ (v = 1 => worker.pc = "done" /\ ~worker.err)
      /\ tracker' = [tracker EXCEPT !.pc = "decide", !.verdict = v]
    BY Zenon DEF BucketStateTrackerHook, cfgVars, hmVars
<1>2. /\ DOMAIN tracker' = {"pc", "seen", "read", "marks", "verdict"}
      /\ tracker'.pc = "decide" /\ tracker'.verdict = v /\ tracker'.seen = tracker.seen
    BY Zenon, <1>1 DEF IInv, Shapes
<1>3. Pausing' = Pausing /\ Stored' = Stored /\ Moved' = Moved
    BY Zenon, <1>1 DEF Pausing, Stored, Moved
<1>4. Shapes'
    BY Zenon, <1>1, <1>2 DEF IInv, Shapes
<1>5. ReadsAreCurrent'
    BY Zenon, <1>1, <1>2 DEF IInv, ReadsAreCurrent
<1>6. WorkerIsTrue'
    BY Zenon, <1>1, <1>3 DEF IInv, WorkerIsTrue
<1>7. ProgressIsTrue'
    BY Zenon, <1>1, ProgressStays DEF IInv
<1>8. TrackerIsTrue'
    BY Zenon, <1>1, <1>2, <1>3 DEF IInv, TrackerIsTrue
<1>9. PauseIsSafe'
    BY Zenon, <1>1, <1>3 DEF IInv, PauseIsSafe
<1>10. ResumeDefines'
    BY <1>1, <1>2, <1>3 DEF IInv, ResumeDefines, TrackerIsTrue
<1>11. EndIsTrue'
    BY Zenon, <1>1 DEF IInv, EndIsTrue
<1> QED
    BY Zenon, <1>4, <1>5, <1>6, <1>7, <1>8, <1>9, <1>10, <1>11 DEF IInv

(* Steps of the tracker that write no definitions. *)
LEMMA TrackerControl ==
    ASSUME IInv, ~panicked, NEW out, Outcome(out) \/ spent' = spent,
           UNCHANGED <<limits, defs, cas, archive, moved, progress, progressCh,
                       worker, monitor, reporter, panicked>>,
           local' \in [limits.mine -> [path : Paths, ver : {0}]], location' \in Paths,
           DOMAIN tracker' = {"pc", "seen", "read", "marks", "verdict"},
           tracker'.verdict = tracker.verdict, tracker'.seen \in Nat, tracker'.seen <= cas,
           tracker'.pc \in {"mark", "set"} /\ tracker'.seen = cas => tracker'.read = defs,
           tracker'.pc \in {"mark", "set"} => tracker'.marks \subseteq limits.mine \cap DOMAIN tracker'.read,
           tracker'.pc \in {"get", "mark", "set", "done"}, tracker.pc \notin {"off", "hook"},
           tracker'.pc \in {"get", "mark", "set"} => Fate # "nothing",
           tracker'.pc \in {"get", "mark", "set"} /\ Fate # "delete" => location' = "none",
           tracker'.pc = "mark" => Fate = "drop",
           tracker'.pc = "set" /\ Fate = "drop" => \A i \in tracker'.marks : local'[i].path = "none",
           ~Pausing /\ tracker'.pc = "done" /\ tracker.verdict = 1 /\ limits.faults = 0
              /\ spent.deleted = {} => \A i \in limits.mine \cap DOMAIN defs : defs[i].path = "none"
    PROVE  IInv'
<1>1. Fate' = Fate /\ Pausing' = Pausing /\ Stored' = Stored /\ Moved' = Moved /\ Shapes
    BY Zenon, FateStays DEF Moved, Stored, IInv
<1>2. Shapes'
    BY Zenon, <1>1, OutcomeMeans DEF Shapes
<1>3. ReadsAreCurrent'
    BY Zenon DEF IInv, ReadsAreCurrent
<1>4. WorkerIsTrue'
    BY Zenon, <1>1 DEF IInv, WorkerIsTrue
<1>5. ProgressIsTrue'
    BY Zenon, ProgressStays DEF IInv
<1>6. TrackerIsTrue'
    BY Zenon, <1>1 DEF IInv, TrackerIsTrue
<1>7. PauseIsSafe'
    BY Zenon, <1>1, OutcomeMeans DEF IInv, PauseIsSafe
<1>8. ResumeDefines'
    BY Zenon, <1>1, OutcomeMeans DEF IInv, ResumeDefines
<1>9. EndIsTrue'
    BY Zenon DEF IInv, EndIsTrue
<1> QED
    BY Zenon, <1>2, <1>3, <1>4, <1>5, <1>6, <1>7, <1>8, <1>9 DEF IInv

(* The tracker decides what the fate of the bucket asks for. *)
LEMMA TrackerDecidesInv ==
    ASSUME IInv, ~panicked, TrackerDecides
    PROVE  IInv'
<1>1. /\ UNCHANGED <<limits, defs, cas, archive, moved, local, progress, progressCh,
                     worker, monitor, reporter, spent, panicked>>
      /\ tracker.pc = "decide"
      /\ location' = IF Fate \in {"drop", "free"} THEN "none" ELSE location
      /\ TrackerGoes(IF Fate = "nothing" \/ (Fate = "free" /\ limits.mine = {}) THEN "done" ELSE "get")
    BY Zenon DEF TrackerDecides, cfgVars
<1>2. /\ DOMAIN tracker' = {"pc", "seen", "read", "marks", "verdict"} /\ tracker'.seen = 0
      /\ tracker'.verdict = tracker.verdict
      /\ tracker'.pc = IF Fate = "nothing" \/ (Fate = "free" /\ limits.mine = {}) THEN "done" ELSE "get"
    BY Zenon, <1>1, TrackerGoesMeans DEF IInv
<1>3. Fate \in {"nothing", "delete", "drop", "free"} /\ (~Pausing /\ tracker.verdict = 1 => Fate = "free")
    BY DEF Fate
<1>4. cas \in Nat /\ local \in [limits.mine -> [path : Paths, ver : {0}]] /\ location' \in Paths
    BY Zenon, <1>1 DEF IInv, Shapes, Paths
<1> QED
    BY <1>1, <1>2, <1>3, <1>4, TrackerControl

(* The tracker reads the definitions, and gives up if there is nothing to  *)
(* do.  A resume that has succeeded has all its indexes defined.           *)
LEMMA TrackerGetInv ==
    ASSUME IInv, ~panicked, NEW out \in Outs, TrackerGet(out)
    PROVE  IInv'
<1> DEFINE found == limits.mine \cap DOMAIN defs
<1>1. /\ UNCHANGED <<limits, defs, cas, archive, moved, local, location, progress, progressCh,
                     worker, monitor, reporter, panicked>>
      /\ tracker.pc = "get" /\ Outcome(out)
      /\ \/ /\ out = "error" \/ (Fate = "delete" /\ found = {}) \/ (Fate = "free" /\ found # limits.mine)
            /\ TrackerGoes("done")
         \/ tracker' = [tracker EXCEPT !.pc = IF Fate = "drop" THEN "mark" ELSE "set",
                                       !.seen = cas, !.read = defs, !.marks = found]
    BY Zenon DEF TrackerGet, cfgVars, hmVars
<1>2. /\ DOMAIN tracker' = {"pc", "seen", "read", "marks", "verdict"}
      /\ tracker'.verdict = tracker.verdict
      /\ \/ /\ out = "error" \/ (Fate = "delete" /\ found = {}) \/ (Fate = "free" /\ found # limits.mine)
            /\ tracker'.pc = "done" /\ tracker'.seen = 0
         \/ /\ tracker'.pc = IF Fate = "drop" THEN "mark" ELSE "set"
            /\ tracker'.seen = cas /\ tracker'.read = defs /\ tracker'.marks = found
    BY Zenon, <1>1, TrackerGoesMeans DEF IInv, Shapes
<1>3. /\ Fate # "nothing" /\ (Fate # "delete" => location = "none")
      /\ ~Pausing /\ tracker.verdict = 1 => Fate = "free"
    BY <1>1 DEF IInv, TrackerIsTrue, Fate
<1>4. /\ cas \in Nat /\ local \in [limits.mine -> [path : Paths, ver : {0}]] /\ location' \in Paths
      /\ limits \in Scenarios /\ spent.faults \in Nat
    BY Zenon, <1>1 DEF IInv, Shapes
<1>5. limits.faults = 0 => out # "error"
    <2>1. out = "error" => spent.faults < limits.faults
        BY <1>1, Zenon DEF Outcome
    <2> QED
        BY <1>4, <2>1
<1>6. ~Pausing /\ tracker.verdict = 1 /\ spent.deleted = {} => found = limits.mine
    <2> SUFFICES ASSUME ~Pausing, tracker.verdict = 1, spent.deleted = {}
                 PROVE  limits.mine \subseteq DOMAIN defs
        BY Zenon
    <2>1. worker.pc = "done" /\ ~worker.err /\ ~limits.dryRun
        BY Zenon, <1>1 DEF IInv, TrackerIsTrue
    <2> QED
        BY <2>1 DEF IInv, ResumeDefines, Ending
<1> QED
    BY <1>1, <1>2, <1>3, <1>4, <1>5, <1>6, TrackerControl

(* A bucket that will not be paused: the tracker takes out the paths. *)
LEMMA TrackerMarkInv ==
    ASSUME IInv, ~panicked, TrackerMark
    PROVE  IInv'
<1>1. PICK marks : marks = {i \in tracker.marks : local[i].path # "none"}
    BY Zenon
<1>2. /\ UNCHANGED <<limits, defs, cas, archive, moved, location, progress, progressCh,
                     worker, monitor, reporter, spent, panicked>>
      /\ tracker.pc = "mark"
      /\ local' = [i \in limits.mine |-> IF i \in marks THEN [local[i] EXCEPT !.path = "none"] ELSE local[i]]
      /\ \/ TrackerGoes("done")
         \/ tracker' = [tracker EXCEPT !.pc = "set", !.marks = marks]
    BY <1>1, Zenon DEF TrackerMark, cfgVars
<1>3. /\ DOMAIN tracker' = {"pc", "seen", "read", "marks", "verdict"}
      /\ tracker'.verdict = tracker.verdict
      /\ \/ tracker'.pc = "done" /\ tracker'.seen = 0
         \/ /\ tracker'.pc = "set" /\ tracker'.seen = tracker.seen /\ tracker'.read = tracker.read
            /\ tracker'.marks = marks
    BY Zenon, <1>2, TrackerGoesMeans DEF IInv, Shapes
<1>4. /\ Fate = "drop" /\ location = "none" /\ Pausing
      /\ tracker.marks \subseteq limits.mine \cap DOMAIN tracker.read
      /\ tracker.seen = cas => tracker.read = defs
    BY Zenon, <1>2 DEF IInv, TrackerIsTrue, ReadsAreCurrent, Fate
<1>5. /\ cas \in Nat /\ local' \in [limits.mine -> [path : Paths, ver : {0}]] /\ location' \in Paths
      /\ tracker.seen \in Nat /\ tracker.seen <= cas
      /\ \A i \in limits.mine : i \in marks => local'[i].path = "none"
    BY <1>2 DEF IInv, Shapes, ReadsAreCurrent, Paths
<1>6. marks \subseteq tracker.marks
    BY Zenon, <1>1
<1> QED
    BY <1>2, <1>3, <1>4, <1>5, <1>6, TrackerControl

(* What the tracker writes over the definitions it has read. *)
LEMMA TrackerWritesMeans ==
    ASSUME IInv, NEW out, TrackerSet(out)
    PROVE  \/ UNCHANGED <<defs, cas>>
           \/ /\ cas' = cas + 1 /\ TrackerGoes("done")
              /\ \/ Fate = "delete" /\ DOMAIN defs' = DOMAIN defs \ limits.mine
                 \/ Fate # "delete" /\ DOMAIN defs' = DOMAIN defs
              /\ \A i \in DOMAIN defs' :
                    \/ defs'[i] = defs[i] /\ (i \in limits.mine => Fate # "free")
                    \/ i \in limits.mine /\ Fate = "drop" /\ defs'[i] = local[i] /\ local[i].path = "none"
                    \/ i \in limits.mine /\ Fate = "free" /\ defs'[i] = [defs[i] EXCEPT !.path = "none"]
<1> SUFFICES ASSUME ~UNCHANGED <<defs, cas>>
             PROVE  /\ cas' = cas + 1 /\ TrackerGoes("done")
                    /\ \/ Fate = "delete" /\ DOMAIN defs' = DOMAIN defs \ limits.mine
                       \/ Fate # "delete" /\ DOMAIN defs' = DOMAIN defs
                    /\ \A i \in DOMAIN defs' :
                          \/ defs'[i] = defs[i] /\ (i \in limits.mine => Fate # "free")
                          \/ i \in limits.mine /\ Fate = "drop" /\ defs'[i] = local[i] /\ local[i].path = "none"
                          \/ i \in limits.mine /\ Fate = "free" /\ defs'[i] = [defs[i] EXCEPT !.path = "none"]
    BY Zenon
<1>1. /\ tracker.pc = "set" /\ cas' = cas + 1 /\ TrackerGoes("done") /\ tracker.seen = cas
      /\ defs' = TrackerWrites
    BY Zenon DEF TrackerSet, CfgAccepts, cfgVars
<1>2. /\ tracker.read = defs /\ Fate # "nothing" /\ (Fate # "delete" => location = "none")
      /\ tracker.marks \subseteq limits.mine \cap DOMAIN defs
      /\ Fate = "drop" => \A i \in tracker.marks : local[i].path = "none"
    BY Zenon, <1>1 DEF IInv, ReadsAreCurrent, TrackerIsTrue
<1>3. Fate \in {"delete", "drop", "free"}
    BY Zenon, <1>2 DEF Fate
<1>4. CASE Fate = "delete"
    <2>1. defs' = [i \in DOMAIN defs \ limits.mine |-> defs[i]]
        BY Zenon, <1>1, <1>2, <1>4 DEF TrackerWrites, Kept
    <2> QED
        BY Zenon, <1>1, <1>4, <2>1
<1>5. CASE Fate = "drop"
    <2>1. defs' = [i \in DOMAIN defs \cup tracker.marks |->
                     IF i \in tracker.marks THEN local[i] ELSE defs[i]]
        BY Zenon, <1>1, <1>2, <1>5 DEF TrackerWrites, With
    <2> QED
        BY Zenon, <1>1, <1>2, <1>5, <2>1
<1>6. CASE Fate = "free"
    <2>1. defs' = [i \in DOMAIN defs |-> IF i \in limits.mine THEN [defs[i] EXCEPT !.path = "none"]
                                                              ELSE defs[i]]
        BY Zenon, <1>1, <1>2, <1>6 DEF TrackerWrites, Freed
    <2> QED
        BY Zenon, <1>1, <1>6, <2>1
<1> QED
    BY Zenon, <1>3, <1>4, <1>5, <1>6

(* The tracker writes.  What it deletes of a paused bucket is in the       *)
(* archive, since the worker has ended well.                               *)
LEMMA TrackerSetInv ==
    ASSUME IInv, ~panicked, NEW out \in Outs, TrackerSet(out)
    PROVE  IInv'
<1>1. /\ UNCHANGED <<limits, archive, moved, local, location, progress, progressCh,
                     worker, monitor, reporter, panicked>>
      /\ tracker.pc = "set" /\ Outcome(out)
      /\ TrackerGoes("done") \/ (out = "ok" /\ TrackerGoes("get"))
      /\ ~UNCHANGED <<defs, cas>> \/ out = "error" \/ TrackerGoes("get") \/ cas' = cas + 1
    BY Zenon DEF TrackerSet, cfgVars, hmVars, Outs
<1>2. /\ DOMAIN tracker' = {"pc", "seen", "read", "marks", "verdict"} /\ tracker'.seen = 0
      /\ tracker'.verdict = tracker.verdict /\ tracker'.pc \in {"get", "done"}
    BY Zenon, <1>1, TrackerGoesMeans DEF IInv
<1>3. /\ Fate # "nothing" /\ (Fate # "delete" => location = "none")
      /\ Fate = "drop" => Pausing
      /\ Fate = "free" => ~Pausing /\ tracker.verdict = 1
      /\ Fate = "delete" => tracker.verdict = IF Pausing THEN 1 ELSE -1
      /\ tracker.verdict = 1 => worker.pc = "done" /\ ~worker.err
    BY Zenon, <1>1 DEF IInv, TrackerIsTrue, Fate
<1>4. /\ cas \in Nat /\ limits \in Scenarios /\ spent.faults \in Nat /\ Shapes
      /\ local \in [limits.mine -> [path : Paths, ver : {0}]] /\ location \in Paths
      /\ Pausing => ~limits.dryRun
    BY Zenon, HibernateAssumption DEF IInv, Shapes, Pausing
<1>5. limits.faults = 0 => out # "error"
    <2>1. out = "error" => spent.faults < limits.faults
        BY <1>1, Zenon DEF Outcome
    <2> QED
        BY <1>4, <2>1
<1>6. CASE UNCHANGED <<defs, cas>>
    <2>1. out = "error" \/ tracker'.pc = "get"
        <3>1. cas + 1 # cas
            BY <1>4
        <3>2. out = "error" \/ TrackerGoes("get")
            BY Zenon, <1>1, <1>6, <3>1
        <3> QED
            BY Zenon, <1>4, <3>2, TrackerGoesMeans
    <2> QED
        BY <1>1, <1>2, <1>3, <1>4, <1>5, <1>6, <2>1, TrackerControl
<1>7. CASE ~UNCHANGED <<defs, cas>>
  <2>1. /\ cas' = cas + 1 /\ TrackerGoes("done")
        /\ \/ Fate = "delete" /\ DOMAIN defs' = DOMAIN defs \ limits.mine
           \/ Fate # "delete" /\ DOMAIN defs' = DOMAIN defs
        /\ \A i \in DOMAIN defs' :
              \/ defs'[i] = defs[i] /\ (i \in limits.mine => Fate # "free")
              \/ i \in limits.mine /\ Fate = "drop" /\ defs'[i] = local[i] /\ local[i].path = "none"
              \/ i \in limits.mine /\ Fate = "free" /\ defs'[i] = [defs[i] EXCEPT !.path = "none"]
      BY Zenon, <1>7, TrackerWritesMeans
  <2>2. tracker'.pc = "done"
      BY Zenon, <1>4, <2>1, TrackerGoesMeans
  <2>3. /\ DOMAIN defs' \subseteq DOMAIN defs
        /\ \A i \in DOMAIN defs' : DOMAIN defs'[i] = {"path", "ver"}
        /\ \A i \in DOMAIN defs' : defs'[i].path = defs[i].path \/ defs'[i].path = "none"
        /\ \A i \in DOMAIN defs' : i \in limits.mine /\ Fate = "free" => defs'[i].path = "none"
      BY <1>4, <2>1 DEF Shapes
  <2>4. Fate' = Fate /\ Pausing' = Pausing /\ Stored' = Stored /\ Moved' = Moved
      BY Zenon, <1>1, <1>2, FateStays DEF Moved, Stored
  <2>5. Pausing /\ Fate = "delete" => limits.mine = {} \/ (Stored /\ Moved)
      BY Zenon, <1>3, <1>4 DEF IInv, WorkerIsTrue, Ending
  <2>6. Shapes'
      BY <1>1, <1>2, <1>4, <2>1, <2>3, OutcomeMeans DEF Shapes
  <2>7. ReadsAreCurrent'
      BY <1>1, <1>2, <1>4, <2>1, <2>2 DEF IInv, ReadsAreCurrent, Shapes
  <2>8. WorkerIsTrue'
      BY Zenon, <1>1, <2>4 DEF IInv, WorkerIsTrue
  <2>9. ProgressIsTrue'
      BY Zenon, <1>1, ProgressStays DEF IInv
  <2>10. TrackerIsTrue'
      BY Zenon, <1>1, <1>2, <2>2, <2>4 DEF IInv, TrackerIsTrue
  <2>11. PauseIsSafe'
    <3>1. spent'.deleted = spent.deleted
        BY Zenon, <1>1, <1>4, OutcomeMeans
    <3> SUFFICES ASSUME Pausing
                 PROVE  /\ \A i \in limits.mine \cap DOMAIN defs' :
                              defs'[i].path = "pause" => i \in archive.defs /\ archive.parts
                        /\ \A i \in limits.mine \ (DOMAIN defs' \cup spent.deleted) :
                              i \in archive.defs /\ archive.parts /\ <<limits.active[i], i>> \in moved
        BY Zenon, <1>1, <2>4, <3>1 DEF PauseIsSafe
    <3>2. \A i \in limits.mine \cap DOMAIN defs' :
             defs'[i].path = "pause" => i \in archive.defs /\ archive.parts
        <4> TAKE i \in limits.mine \cap DOMAIN defs'
        <4> HAVE defs'[i].path = "pause"
        <4>1. i \in DOMAIN defs /\ defs[i].path = "pause"
            BY Zenon, <2>3
        <4> QED
            BY Zenon, <4>1 DEF IInv, PauseIsSafe
    <3>3. \A i \in limits.mine \ (DOMAIN defs' \cup spent.deleted) :
             i \in archive.defs /\ archive.parts /\ <<limits.active[i], i>> \in moved
        <4>1. CASE Fate = "delete"
            BY Zenon, <2>5, <4>1 DEF Stored, Moved
        <4>2. CASE Fate # "delete"
            BY Zenon, <2>1, <4>2 DEF IInv, PauseIsSafe
        <4> QED
            BY Zenon, <4>1, <4>2
    <3> QED
        BY Zenon, <3>2, <3>3
  <2>12. ResumeDefines'
    <3>1. spent'.deleted = spent.deleted
        BY <1>1, <1>4, OutcomeMeans
    <3>2. ~Pausing /\ tracker.verdict # -1 => DOMAIN defs' = DOMAIN defs
        BY Zenon, <1>3, <2>1
    <3>3. ~Pausing /\ tracker.verdict = 1 => Fate = "free"
        BY DEF Fate
    <3>4. ~Pausing /\ tracker.verdict = 1 => \A i \in limits.mine \cap DOMAIN defs' : defs'[i].path = "none"
        BY Zenon, <2>3, <3>3
    <3> QED
        BY Zenon, <1>1, <1>2, <2>4, <3>1, <3>2, <3>4 DEF IInv, ResumeDefines
  <2>13. EndIsTrue'
      BY Zenon, <1>1 DEF IInv, EndIsTrue
  <2> QED
      BY Zenon, <2>6, <2>7, <2>8, <2>9, <2>10, <2>11, <2>12, <2>13 DEF IInv
<1> QED
    BY Zenon, <1>6, <1>7

(* Other clients create, edit and delete indexes. *)
LEMMA ClientInv ==
    ASSUME IInv, ~panicked, NEW kind, NEW i \in Indexes, ClientWrites(kind, i)
    PROVE  IInv'
<1>1. /\ UNCHANGED <<limits, archive, moved, local, location, progress, progressCh,
                     worker, monitor, reporter, tracker, panicked>>
      /\ cas' = cas + 1
      /\ \E e : spent' = [spent EXCEPT !.edits = e,
                          !.deleted = IF kind = "delete" THEN spent.deleted \cup {i} ELSE spent.deleted]
    BY Zenon DEF ClientWrites, cfgVars, hmVars
<1>2. /\ DOMAIN spent' = {"edits", "faults", "deleted"} /\ spent'.faults = spent.faults
      /\ spent'.deleted = IF kind = "delete" THEN spent.deleted \cup {i} ELSE spent.deleted
    BY <1>1 DEF IInv, Shapes
<1>3. \/ /\ i \in DOMAIN defs \ limits.mine
         /\ \E v : defs' = [defs EXCEPT ![i] = [defs[i] EXCEPT !.ver = v]]
      \/ /\ i \in limits.mine \ DOMAIN defs
         /\ defs' = [k \in DOMAIN defs \cup {i} |-> IF k = i THEN Def("none", 1) ELSE defs[k]]
      \/ /\ kind = "delete" /\ i \in limits.mine \cap DOMAIN defs
         /\ defs' = [k \in DOMAIN defs \ {i} |-> defs[k]]
    BY Zenon DEF ClientWrites
<1>4. Shapes /\ cas \in Nat
    BY Zenon DEF IInv, Shapes
<1>5. /\ \A k \in DOMAIN defs' : DOMAIN defs'[k] = {"path", "ver"}
      /\ DOMAIN defs' \subseteq Indexes
      /\ limits.mine \cap DOMAIN defs \subseteq DOMAIN defs' \cup spent'.deleted
      /\ \A k \in limits.mine \cap DOMAIN defs' :
            \/ k \in DOMAIN defs /\ defs'[k] = defs[k]
            \/ k \notin DOMAIN defs /\ defs'[k].path = "none"
  <2>1. CASE /\ i \in DOMAIN defs \ limits.mine
             /\ \E v : defs' = [defs EXCEPT ![i] = [defs[i] EXCEPT !.ver = v]]
      BY <1>4, <2>1 DEF Shapes
  <2>2. CASE /\ i \in limits.mine \ DOMAIN defs
             /\ defs' = [k \in DOMAIN defs \cup {i} |-> IF k = i THEN Def("none", 1) ELSE defs[k]]
      BY <1>4, <2>2 DEF Shapes, Def
  <2>3. CASE /\ kind = "delete" /\ i \in limits.mine \cap DOMAIN defs
             /\ defs' = [k \in DOMAIN defs \ {i} |-> defs[k]]
      BY <1>2, <1>4, <2>3 DEF Shapes
  <2> QED
      BY Zenon, <1>3, <2>1, <2>2, <2>3
<1>6. Fate' = Fate /\ Pausing' = Pausing /\ Stored' = Stored /\ Moved' = Moved
    BY Zenon, <1>1, FateStays DEF Moved, Stored
<1>7. Shapes'
    BY <1>1, <1>2, <1>4, <1>5 DEF Shapes
<1>8. ReadsAreCurrent'
    BY <1>1, <1>4 DEF IInv, ReadsAreCurrent, Shapes
<1>9. WorkerIsTrue'
    BY Zenon, <1>1, <1>6 DEF IInv, WorkerIsTrue
<1>10. ProgressIsTrue'
    BY Zenon, <1>1, ProgressStays DEF IInv
<1>11. TrackerIsTrue'
    BY Zenon, <1>1, <1>6 DEF IInv, TrackerIsTrue
<1>12. spent.deleted \subseteq spent'.deleted
    BY Zenon, <1>2
<1>13. PauseIsSafe'
    BY Zenon, <1>1, <1>5, <1>6, <1>12 DEF IInv, PauseIsSafe
<1>14. ResumeDefines'
    BY <1>1, <1>5, <1>6, <1>12 DEF IInv, ResumeDefines
<1>15. EndIsTrue'
    BY Zenon, <1>1 DEF IInv, EndIsTrue
<1> QED
    BY Zenon, <1>7, <1>8, <1>9, <1>10, <1>11, <1>13, <1>14, <1>15 DEF IInv

(* The steps of Next, by who takes them. *)
LEMMA NextSplits ==
    ASSUME Next
    PROVE  /\ ~panicked
           /\ \/ WorkerStep \/ MonitorStep \/ TrackerStep
              \/ ReporterStops \/ ReporterEnds \/ StopHibernationTask \/ Stop
              \/ \E v \in Verdicts : BucketStateTrackerHook(v)
              \/ \E n \in Nodes : SampleArrives(n)
              \/ \E n \in Nodes : \E kind \in limits.bad : SampleFails(n, kind)
              \/ \E n \in Nodes : \E i \in Indexes : TransferFails(n, i)
              \/ \E n \in Nodes : \E i \in Indexes : hibernatePIndex(n, i)
              \/ \E kind \in limits.clients, i \in Indexes : ClientWrites(kind, i)
BY Zenon DEF Next

(* The inductive step. *)
LEMMA NextIInv == IInv /\ [Next]_vars => IInv'
<1> SUFFICES ASSUME IInv, [Next]_vars PROVE IInv'
    BY Zenon
<1>1. CASE UNCHANGED vars
    <2>1. Fate' = Fate /\ Pausing' = Pausing /\ Stored' = Stored /\ Moved' = Moved
        BY Zenon, <1>1, FateStays DEF Moved, Stored, vars
    <2>2. ProgressIsTrue'
        BY Zenon, <1>1, ProgressStays DEF IInv, vars
    <2>3. Shapes' /\ ReadsAreCurrent' /\ EndIsTrue'
        BY <1>1 DEF IInv, vars, Shapes, ReadsAreCurrent, EndIsTrue
    <2>4. WorkerIsTrue' /\ TrackerIsTrue'
        BY <1>1, <2>1 DEF IInv, vars, WorkerIsTrue, TrackerIsTrue
    <2>5. PauseIsSafe' /\ ResumeDefines'
        BY Zenon, <1>1, <2>1 DEF IInv, vars, PauseIsSafe, ResumeDefines
    <2> QED
        BY Zenon, <2>2, <2>3, <2>4, <2>5 DEF IInv
<1>2. CASE ~panicked /\ WorkerStep
    BY Zenon, <1>2, hibernateIndexesInv, WorkerGetInv, UploadInv, WorkerSetInv, WorkerSumsInv,
       WorkerMarkInv, WorkerWaitsInv, WorkerClosesInv DEF WorkerStep
<1>3. CASE ~panicked /\ MonitorStep
    BY Zenon, <1>3, MonitorInv, ReporterInv, WorkerWaitsInv DEF MonitorStep
<1>4. CASE ~panicked /\ TrackerStep
    BY Zenon, <1>4, TrackerGetInv, TrackerSetInv, TrackerDecidesInv, TrackerMarkInv DEF TrackerStep
<1>5. CASE ~panicked /\ (ReporterStops \/ ReporterEnds \/ StopHibernationTask \/ Stop)
    BY Zenon, <1>5, ReporterInv, CtlInv
<1>6. CASE ~panicked /\ \E v \in Verdicts : BucketStateTrackerHook(v)
    BY Zenon, <1>6, HookInv
<1>7. CASE ~panicked /\ \E n \in Nodes : SampleArrives(n)
    BY Zenon, <1>7, SampleInv
<1>8. CASE ~panicked /\ \E n \in Nodes : \E kind \in limits.bad : SampleFails(n, kind)
    BY Zenon, <1>8, SampleInv
<1>9. CASE ~panicked /\ \E n \in Nodes : \E i \in Indexes : TransferFails(n, i)
    BY Zenon, <1>9, SampleInv
<1>10. CASE ~panicked /\ \E n \in Nodes : \E i \in Indexes : hibernatePIndex(n, i)
    BY Zenon, <1>10, hibernatePIndexInv
<1>11. CASE ~panicked /\ \E kind \in limits.clients, i \in Indexes : ClientWrites(kind, i)
    BY Zenon, <1>11, ClientInv
<1> QED
    BY Zenon, <1>1, <1>2, <1>3, <1>4, <1>5, <1>6, <1>7, <1>8, <1>9, <1>10, <1>11, NextSplits

(* The invariant holds in every reachable state. *)
THEOREM HibernateInvariant == Spec => []IInv
BY InitIInv, NextIInv, PTL DEF Spec
-----------------------------------------------------------------------------
(* What a step of the worker or the tracker does to the definitions: it    *)
(* leaves those of others alone, a pause adds none, and a resume replaces  *)
(* none.                                                                   *)
LEMMA StepKeepsOthers ==
    ASSUME IInv, Next, worker' # worker \/ tracker' # tracker
    PROVE  /\ \A i \in Indexes \ limits.mine :
                 /\ i \in DOMAIN defs <=> i \in DOMAIN defs'
                 /\ i \in DOMAIN defs => defs'[i] = defs[i]
           /\ Pausing => DOMAIN defs' \subseteq DOMAIN defs
           /\ \A i \in DOMAIN defs \cap DOMAIN defs' : ~Pausing => defs'[i].ver = defs[i].ver
<1>1. CASE defs' = defs
    BY Zenon, <1>1
<1>2. CASE defs' # defs
  <2>1. (\E out \in Outs : WorkerSet(out)) \/ (\E out \in Outs : TrackerSet(out))
    <3>1. ~(\E kind \in limits.clients, i \in Indexes : ClientWrites(kind, i))
        BY Zenon DEF ClientWrites
    <3>2. CASE WorkerStep
        BY Zenon, <1>2, <3>2 DEF WorkerStep, hibernateIndexes, WorkerGet, UploadDefs, UploadPartitions, WorkerSums,
           WorkerMark, WorkerWants, WorkerStopped, WorkerReports, WorkerEnds, WorkerDrains,
           WorkerSendsError, WorkerCloses, cfgVars
    <3>3. ~MonitorStep
        BY Zenon, <1>2 DEF MonitorStep, MonitorBegins, MonitorStops, MonitorSendsError, MonitorStopsAll,
           Notify, NobodyWants, cfgVars
    <3>4. CASE TrackerStep
        BY Zenon, <1>2, <3>4 DEF TrackerStep, TrackerGet, TrackerDecides, TrackerMark, cfgVars
    <3>5. ~(ReporterStops \/ ReporterEnds \/ StopHibernationTask \/ Stop)
        BY Zenon, <1>2 DEF ReporterStops, ReporterEnds, StopHibernationTask, Stop, cfgVars
    <3>6. ~(\E v \in Verdicts : BucketStateTrackerHook(v))
        BY Zenon, <1>2 DEF BucketStateTrackerHook, cfgVars
    <3>7. /\ ~(\E n \in Nodes : SampleArrives(n))
          /\ ~(\E n \in Nodes : \E kind \in limits.bad : SampleFails(n, kind))
          /\ ~(\E n \in Nodes : \E i \in Indexes : TransferFails(n, i))
          /\ ~(\E n \in Nodes : \E i \in Indexes : hibernatePIndex(n, i))
        BY Zenon, <1>2 DEF SampleArrives, SampleFails, TransferFails, hibernatePIndex, cfgVars
    <3> QED
        BY Zenon, <3>1, <3>2, <3>3, <3>4, <3>5, <3>6, <3>7, NextSplits
  <2>2. CASE \E out \in Outs : WorkerSet(out)
      BY Zenon, <1>2, <2>2, WorkerWrites
  <2>3. CASE \E out \in Outs : TrackerSet(out)
    <3>1. /\ \/ Fate = "delete" /\ DOMAIN defs' = DOMAIN defs \ limits.mine
             \/ Fate # "delete" /\ DOMAIN defs' = DOMAIN defs
          /\ \A i \in DOMAIN defs' :
                \/ defs'[i] = defs[i]
                \/ i \in limits.mine /\ Fate = "drop"
                \/ i \in limits.mine /\ defs'[i] = [defs[i] EXCEPT !.path = "none"]
        BY Zenon, <1>2, <2>3, TrackerWritesMeans
    <3>2. Fate = "drop" => Pausing
        BY Zenon DEF Fate
    <3>3. \A i \in DOMAIN defs : DOMAIN defs[i] = {"path", "ver"}
        BY Zenon DEF IInv, Shapes
    <3> QED
        BY Zenon, <3>1, <3>2, <3>3
  <2> QED
      BY Zenon, <2>1, <2>2, <2>3
<1> QED
    BY Zenon, <1>1, <1>2

(* A hibernation loses nothing: what a pause has marked or removed is in   *)
(* the archive, its files too, and what a hibernation writes leaves the    *)
(* definitions of others alone (hibernate.go:325-428, 460-562, 612-734).   *)
THEOREM HibernateNothingIsLost == Spec => NothingIsLost
<1>1. IInv => (Pausing =>
            /\ \A i \in limits.mine \cap DOMAIN defs :
                  defs[i].path = "pause" => i \in archive.defs /\ archive.parts
            /\ \A i \in limits.mine \ (DOMAIN defs \cup spent.deleted) :
                  i \in archive.defs /\ archive.parts /\ <<limits.active[i], i>> \in moved)
    BY Zenon DEF IInv, PauseIsSafe
<1>2. IInv /\ [Next]_vars =>
          [(worker' # worker \/ tracker' # tracker) =>
             /\ \A i \in Indexes \ limits.mine :
                   /\ i \in DOMAIN defs <=> i \in DOMAIN defs'
                   /\ i \in DOMAIN defs => defs'[i] = defs[i]
             /\ Pausing => DOMAIN defs' \subseteq DOMAIN defs
             /\ \A i \in DOMAIN defs \cap DOMAIN defs' : ~Pausing => defs'[i].ver = defs[i].ver]_vars
    BY Zenon, StepKeepsOthers
<1> QED
    BY <1>1, <1>2, HibernateInvariant, PTL DEF Spec, NothingIsLost

(* Ctl hears of every hibernation that did not go through, and a resume    *)
(* that the bucket survives leaves no definition pointing at the archive   *)
(* (hibernate.go:430-458, 695-734).                                        *)
THEOREM HibernateOutcomeIsReported == Spec => []OutcomeIsReported
<1>1. IInv => OutcomeIsReported
    BY Zenon DEF IInv, EndIsTrue, WorkerIsTrue, ResumeDefines, OutcomeIsReported, Ending, Shapes
<1> QED
    BY <1>1, HibernateInvariant, PTL

(* Nothing is sent on the progress channel once it is closed               *)
(* (hibernate.go:430-458): the safety half of OperationEnds.               *)
THEOREM HibernateNoSendAfterClose == Spec => []NoSendAfterClose
<1>1. IInv => NoSendAfterClose
    BY Zenon DEF IInv, EndIsTrue, NoSendAfterClose
<1> QED
    BY <1>1, HibernateInvariant, PTL
=============================================================================
