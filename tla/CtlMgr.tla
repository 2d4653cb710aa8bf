-------------------------------- MODULE CtlMgr --------------------------------
(***************************************************************************)
(* ctl/manager.go: CtlMgr, which offers the service API of the cluster     *)
(* manager on top of Ctl.  It keeps a list of tasks under a mutex that     *)
(* StartTopologyChange and CancelTask hold while they wait for Ctl, and    *)
(* updates the list with the progress that the operations report through a *)
(* channel.                                                                *)
(***************************************************************************)
EXTENDS Ctl, Sequences

CONSTANT ProgCap   \* the capacity of taskProgressCh

ASSUME CtlMgrAssumption == ProgCap \in Nat \ {0}

VARIABLES tasks,        \* m.tasks.taskHandles
          progressCh,   \* taskProgressCh
          api,          \* the call that holds the mutex across several steps
          preparing,    \* calls that have yet to do onSuccessfulPrepare
          prepares,
          lost          \* operations whose last report was dropped

mgrVars == <<tasks, progressCh, api, preparing, prepares, lost>>
vars == <<ctlVars, mgrVars>>

NoCall == [call |-> "none", pc |-> "none", kind |-> "none", keep |-> {}, cas |-> FALSE,
           on |-> 0, task |-> 0]

MgrInit ==
    /\ Init
    /\ tasks = {}
    /\ progressCh = <<>> /\ api = NoCall
    /\ preparing = [t \in BOOLEAN |-> 0] /\ prepares = 0 /\ lost = {}

Idle == api = NoCall

(* A task: its type, the operation it is about, whether it has failed, and *)
(* what its stop is: none, StopHibernationTask, or StopChangeTopology with *)
(* the rev that the operation was given.                                   *)
Task(o, type, stop) == [id |-> o, type |-> type, stop |-> stop, failed |-> FALSE]

HasType(types) == \E t \in tasks : t.type \in types

Busy == {"prepared"} \cup Kinds
-----------------------------------------------------------------------------
(* updateTasksLOCKED: the list is replaced, under a new rev, and those who *)
(* wait in GetTaskList are woken.                                          *)
updateTasksLOCKED(ts) == tasks' = ts
-----------------------------------------------------------------------------
(* Mutant: the send waits for room in the channel. *)
updateProgressWaits(o, exists, errs) ==
    /\ Len(progressCh) < ProgCap
    /\ progressCh' = Append(progressCh, [task |-> o, exists |-> exists, errs |-> errs])
    /\ UNCHANGED lost

(* updateProgress and updateHibernationProgress: what does not fit is      *)
(* dropped.  A report without progress entries is the last one.            *)
updateProgress(o, exists, errs) ==
    IF Len(progressCh) < ProgCap
    THEN /\ progressCh' =
              Append(progressCh, [task |-> o, exists |-> exists, errs |-> errs])
         /\ UNCHANGED lost
    ELSE /\ UNCHANGED progressCh
         /\ lost' = IF exists THEN lost ELSE lost \cup {o}

(* Mutant: a task that is over stays in the list. *)
ReportedForever(t, p) == {[t EXCEPT !.failed = @ \/ p.errs]}

(* What is left of a task that a report is about. *)
Reported(t, p) ==
    IF p.exists \/ p.errs THEN {[t EXCEPT !.failed = @ \/ p.errs]} ELSE {}

handleTaskProgress ==
    /\ Idle /\ progressCh # <<>>
    /\ progressCh' = Tail(progressCh)
    /\ LET p == Head(progressCh)
           about == {t \in tasks : t.type # "prepared" /\ t.id = p.task}
           left == UNION {Reported(t, p) : t \in about}
       IN IF about = {} THEN UNCHANGED tasks
                        ELSE updateTasksLOCKED((tasks \ about) \cup left)
    /\ UNCHANGED <<ctlVars, api, preparing, prepares, lost>>
-----------------------------------------------------------------------------
(* PrepareTopologyChange, of a caller with the current rev or none: the    *)
(* node registers again if it is to be kept and is not wanted.  The mutex  *)
(* is released before onSuccessfulPrepare.                                 *)
PrepareTopologyChange(keep) ==
    /\ Idle /\ ~HasType({"prepared"} \cup TopologyKinds)
    /\ prepares < limits.prepares /\ prepares' = prepares + 1
    /\ updateTasksLOCKED(tasks \cup {Task(0, "prepared", "none")})
    /\ IF Self \in keep \ wanted
       THEN wanted' = wanted \cup {Self} /\ events' = events \cup {"nodeDefs"}
       ELSE UNCHANGED <<wanted, events>>
    /\ preparing' = [preparing EXCEPT ![TRUE] = @ + 1]
    /\ UNCHANGED <<defs, plan, bounds, revVars, memberNodes, chans, orchestrator, loopVars, ops, progressCh, api, lost>>

(* PreparePause and PrepareResume *)
PrepareHibernation ==
    /\ Idle /\ ~HasType(Busy)
    /\ prepares < limits.prepares /\ prepares' = prepares + 1
    /\ updateTasksLOCKED(tasks \cup {Task(0, "prepared", "hibernation")})
    /\ preparing' = [preparing EXCEPT ![FALSE] = @ + 1]
    /\ UNCHANGED <<ctlVars, progressCh, api, lost>>

PrepareReturns(affectsTopology) ==
    /\ preparing[affectsTopology] > 0
    /\ preparing' = [preparing EXCEPT ![affectsTopology] = @ - 1]
    /\ onSuccessfulPrepare(affectsTopology)
    /\ UNCHANGED <<tasks, progressCh, api, prepares, lost>>
-----------------------------------------------------------------------------
(* StartTopologyChange takes the mutex: with a task prepared, and the rev  *)
(* it was called with, or any.  From here on this node is the orchestrator.*)
StartTopologyChange(kind, keep, eject, cas) ==
    /\ Idle /\ HasType({"prepared"}) /\ ~HasType(TopologyKinds)
    /\ NewOp <= limits.ops
    /\ orchestrator' = TRUE
    /\ purgeStale(kind, keep, eject)
    /\ api' = [NoCall EXCEPT !.call = "start", !.pc = "moving", !.kind = kind,
                             !.keep = keep, !.cas = cas]
    /\ atRev' = [atRev EXCEPT !.call = cas]
    /\ UNCHANGED <<defs, bounds, asleep, memberNodes, chans, loopVars, ops, tasks, progressCh, preparing,
                   prepares, lost>>

(* Mutant: Ctl does not wait for what is running. *)
MustWaitNever == FALSE

(* Whether Ctl has an operation that is not over. *)
MustWait == doneCh # 0

(* The operation starts, if there is no other, and the prepared task gives *)
(* way to the operation's.                                                 *)
StartsCtl ==
    /\ IF ~MustWait THEN startCtlLOCKED(api.kind, api.keep)
                    ELSE UNCHANGED <<revVars, doneCh, stopCh, change, ops>>
    /\ updateTasksLOCKED({t \in tasks : t.type # "prepared"}
                            \cup {Task(NewOp, api.kind, "topology")})
    /\ api' = NoCall

(* dispatchCtl counts the partitions to move, which takes time and may     *)
(* fail; then, under Ctl's lock, it checks the rev again and stops the     *)
(* operation that is running.                                              *)
StartDispatches(out) ==
    /\ api.call = "start" /\ api.pc = "moving"
    /\ Outcome(out)
    /\ IF out # "ok" \/ (api.cas /\ ~atRev.call)
       THEN /\ api' = NoCall
            /\ UNCHANGED <<revVars, chans, ops, tasks>>
       ELSE /\ panicked' = (stopCh \in closed)
            /\ closed' = closed \cup ({stopCh} \ {0})
            /\ IF ~MustWait THEN StartsCtl
               ELSE /\ stopCh' = 0
                    /\ api' = [api EXCEPT !.pc = "waiting", !.on = doneCh]
                    /\ UNCHANGED <<revVars, doneCh, change, ops, tasks>>
    /\ UNCHANGED <<cfgVars, limits, joins, memberNodes, orchestrator,
                   loopVars, progressCh, preparing, prepares, lost>>

StartWaited ==
    /\ api.call = "start" /\ api.pc = "waiting" /\ Done(api.on)
    /\ StartsCtl
    /\ UNCHANGED <<cfgVars, bounds, memberNodes, closed, panicked, 
                   orchestrator, loopVars, progressCh, preparing, prepares, lost>>
-----------------------------------------------------------------------------
(* Pause and Resume: theirs is then the only task. *)
Hibernate(kind) ==
    /\ Idle /\ ~HasType(Kinds)
    /\ NewOp <= limits.ops
    /\ startHibernation(kind)
    /\ updateTasksLOCKED({Task(NewOp, kind, "hibernation")})
    /\ UNCHANGED <<progressCh, api, preparing, prepares, lost>>
-----------------------------------------------------------------------------
Drop(t) == updateTasksLOCKED(tasks \ {t})

(* CancelTask of a task without a stop. *)
CancelPrepared(t) ==
    /\ Idle /\ t.stop = "none"
    /\ Drop(t)
    /\ UNCHANGED <<ctlVars, progressCh, api, preparing, prepares, lost>>

(* CancelTask of one whose stop is StopHibernationTask. *)
CancelHibernation(t) ==
    /\ Idle /\ t.stop = "hibernation"
    /\ StopHibernationTask
    /\ Drop(t)
    /\ UNCHANGED <<progressCh, api, preparing, prepares, lost>>

(* CancelTask of one whose stop is StopChangeTopology, which may fail, and *)
(* does when its rev is not the current one; nobody hears of it.           *)
CancelTopologyChange(t, out) ==
    /\ Idle /\ t.stop = "topology"
    /\ Outcome(out)
    /\ IF out # "ok" \/ t.id \notin atRev.ops
       THEN Drop(t) /\ UNCHANGED <<chans, api>>
       ELSE /\ CloseStopCh
            /\ IF ~MustWait THEN Drop(t) /\ UNCHANGED api
               ELSE /\ api' = [NoCall EXCEPT !.call = "cancel", !.pc = "waiting",
                                             !.on = doneCh, !.task = t.id]
                    /\ UNCHANGED tasks
            /\ UNCHANGED <<doneCh, change>>
    /\ UNCHANGED <<cfgVars, limits, joins, revVars, memberNodes, 
                   orchestrator, loopVars, ops, progressCh, preparing, prepares, lost>>

CancelWaited ==
    /\ api.call = "cancel" /\ Done(api.on)
    /\ api' = NoCall
    /\ \E t \in tasks : t.id = api.task /\ t.type # "prepared" /\ Drop(t)
    /\ UNCHANGED <<ctlVars, progressCh, preparing, prepares, lost>>
-----------------------------------------------------------------------------
(* The steps of operation o's goroutine that are not up to others. *)
OpStep(o) ==
    \/ /\ \/ \E out \in {"ok", "error"} : Begin(o, out) \/ HibernateStart(o, out)
          \/ \E out \in {"attained", "timeout", "canceled", "error"} :
                WaitForWantedNodes(o, out)
          \/ \E out \in {"ok", "skip", "read", "start"} : StartRebalance(o, out)
          \/ \E out \in {"ok", "error", "read", "concurrent"} : RebalanceEnds(o, out)
          \/ StopsRunning(o) \/ ReportingEnds(o)
          \/ \E out \in {"ok", "unregister", "plan"} : PlannerSteps(o, out)
          \/ CleanupDone(o)
          \/ \E out \in {"ok", "error"} : HibernateEnds(o, out)
       /\ UNCHANGED mgrVars
    \/ /\ \/ \E out \in {"ok", "plan", "members"} : Cleanup(o, out)
          \/ HibernateCleanup(o)
       /\ updateProgress(o, FALSE, ops'[o].errs)
       /\ UNCHANGED <<tasks, api, preparing, prepares>>

ReportStep(o) ==
    /\ Reports(o)
    /\ updateProgress(o, TRUE, FALSE)
    /\ UNCHANGED <<tasks, api, preparing, prepares>>

ApiStep ==
    \/ \E out \in {"ok", "error"} : StartDispatches(out)
    \/ StartWaited \/ CancelWaited
    \/ \E t \in BOOLEAN : PrepareReturns(t)

Next ==
    /\ ~panicked
    /\ \/ /\ \/ ChangeDefs
             \/ \E n \in Nodes : Join(n)
             \/ \E key \in {"indexDefs", "nodeDefs"}, ns \in BOOLEAN,
                   out \in {"ok", "error"} : CfgEvent(key, ns, out)
             \/ \E out \in {"ok", "planner", "options"} : IndexDefsChanged(out)
             \/ \E w \in limits.watchers : WaitGetTopology(w)
             \/ \E o \in OpIds : HibernateDefs(o)
          /\ UNCHANGED mgrVars
       \/ \E o \in OpIds : OpStep(o) \/ ReportStep(o)
       \/ handleTaskProgress
       \/ ApiStep
       \/ \E keep \in limits.keeps : PrepareTopologyChange(keep)
       \/ limits.kinds \cap {"pause", "resume"} # {} /\ PrepareHibernation
       \/ \E kind \in limits.kinds \cap TopologyKinds, keep \in limits.keeps,
             eject \in {{}, Nodes}, cas \in BOOLEAN :
                StartTopologyChange(kind, keep, eject \ keep, cas)
       \/ \E kind \in limits.kinds \cap {"pause", "resume"} : Hibernate(kind)
       \/ \E t \in tasks :
             \/ CancelPrepared(t) \/ CancelHibernation(t)
             \/ \E out \in {"ok", "error"} : CancelTopologyChange(t, out)

(* Goroutines run, the mutex is granted, and a rebalance or a hibernation  *)
(* comes to its end.                                                       *)
Fairness ==
    /\ \A o \in OpIds : WF_vars(~panicked /\ OpStep(o))
    /\ WF_vars(~panicked /\ handleTaskProgress)
    /\ WF_vars(~panicked /\ ApiStep)

Spec == MgrInit /\ [][Next]_vars /\ Fairness
-----------------------------------------------------------------------------
(* The variables have their types. *)
TypeOK ==
    /\ wanted \subseteq Nodes /\ memberNodes \subseteq Nodes
    /\ {defs, plan, lastDefs} \subseteq 0..limits.defs
    /\ {doneCh, stopCh, change} \subseteq 0..MaxOps /\ closed \subseteq OpIds
    /\ \A o \in OpIds : /\ ops[o].kind \in Kinds \cup {"none"}
                        /\ ops[o].kind = "none" <=> o > Cardinality(Started)
    /\ Len(progressCh) <= ProgCap
    /\ api # NoCall => api.call \in {"start", "cancel"}

(* A change of the topology reaches whoever waits for it: WaitGetTopology  *)
(* sleeps only with the current rev, and when the members or the change in *)
(* progress become others, the rev that a caller has is not the current    *)
(* one any more.                                                           *)
WatchersSeeChanges ==
    /\ [](asleep \subseteq atRev.watchers)
    /\ [][<<memberNodes, change>>' # <<memberNodes, change>>
             => ~ \E w \in Watchers : w \in atRev.watchers \cap atRev'.watchers]_vars

(* As long as hibernation has not replaced Ctl's channels, no topology     *)
(* change begins before the last one is over, whatever calls, cancels and  *)
(* stops went on in between.                                               *)
TopologyChangesAlone ==
    (\A o \in Started : ops[o].kind \in TopologyKinds) => Cardinality(AtWork) <= 1

(* A call of the service API that waits for Ctl returns: the operation it  *)
(* waits for can always finish, although it reports its end through a      *)
(* channel whose reader waits for the mutex that the call holds.           *)
ApiCallsReturn == []<>(api = NoCall \/ panicked)

(* A topology change that fails does not go unnoticed: a report takes its  *)
(* task off the list only if the operation was over without an error; else *)
(* it stays there, as a failed one, until it is cancelled.                 *)
FailuresStay ==
    [][\A t \in tasks :
          (t.type \in TopologyKinds /\ ~ \E u \in tasks' : u.id = t.id /\ u.type = t.type)
             => \/ ops[t.id].pc \in {"unlocked", "gone"} /\ ~ops[t.id].errs
                \/ progressCh' = progressCh]_vars

(* The list of tasks follows the operations.  A topology change that fails *)
(* stays in it, and once an operation is over its task does not stay as a  *)
(* running one, unless the last report found the channel full.             *)
TasksFollowOperations ==
    /\ FailuresStay
    /\ \A o \in OpIds :
          (Done(o) /\ \E t \in tasks : t.id = o /\ t.type # "prepared")
             ~> \/ \A t \in tasks : t.id = o => t.failed
                \/ o \in lost \/ panicked
=============================================================================
