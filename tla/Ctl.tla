--------------------------------- MODULE Ctl ---------------------------------
(***************************************************************************)
(* ctl/ctl.go: the Ctl of one node, which carries out topology changes     *)
(* (rebalance, failover) and hibernation for the cluster manager.  Each    *)
(* operation is a goroutine with a stop channel and a done channel; the    *)
(* Ctl keeps those of the last one that was started.  A loop of its own    *)
(* follows the Cfg and has new indexes planned.  The operations, and with  *)
(* them their channels, are called 1, 2, 3...                              *)
(***************************************************************************)
EXTENDS Integers, FiniteSets

CONSTANTS Nodes, Self,   \* the nodes, and the one this Ctl runs on
          Watchers,      \* callers of WaitGetTopology
          MaxOps,        \* bound: operations started
          Scenarios      \* what may happen, one of

Kinds == {"rebalance", "failover", "pause", "resume"}
TopologyKinds == {"rebalance", "failover"}

OpIds == 1..MaxOps

(* A scenario has the nodes and the definitions to begin with, the callers *)
(* of WaitGetTopology, the kinds of operations and the nodes to keep that  *)
(* are asked for, and the bounds of operations, changes of the             *)
(* definitions, registrations, reports of an operation, prepare calls, and *)
(* calls that fail.                                                        *)
ASSUME CtlAssumption ==
    /\ Self \in Nodes /\ MaxOps \in Nat \ {0}
    /\ \A s \in Scenarios :
          /\ s.watchers \subseteq Watchers /\ s.ops \in OpIds
          /\ s.wanted \subseteq Nodes /\ s.keeps \subseteq SUBSET Nodes
          /\ s.kinds \subseteq Kinds
          /\ {s.initDefs, s.defs, s.joins, s.reports, s.prepares, s.troubles} \subseteq Nat

VARIABLES limits,       \* the scenario
          wanted,       \* the Cfg's wanted (and known) nodes
          defs,         \* the version of the Cfg's index definitions, 0: none
          plan,         \* the version of the definitions that the plan covers
          events,       \* the keys with an event waiting in cfgEventCh
          joins, troubles,
          atRev,        \* whose rev is ctl.revNum: operations, the call, watchers
          asleep,       \* the watchers that wait for a channel that is open
          memberNodes,
          doneCh, stopCh, change, \* ctlDoneCh, ctlStopCh, ctlChangeTopology
          closed,       \* the stop channels that are closed
          orchestrator,
          lastDefs,     \* ctl.lastIndexDefs
          bg,           \* goroutines that IndexDefsChanged has started
          ops,          \* ops[o]: the goroutine of operation o
          panicked      \* whether a closed channel has been closed

cfgVars == <<wanted, defs, plan, events>>
bounds == <<limits, joins, troubles>>
revVars == <<atRev, asleep>>
chans == <<doneCh, stopCh, change, closed, panicked>>
loopVars == <<lastDefs, bg>>
ctlVars == <<cfgVars, bounds, revVars, memberNodes, chans, orchestrator, loopVars, ops>>

NoOp == [kind |-> "none", pc |-> "none", keep |-> {}, remove |-> {}, start |-> 0,
         errs |-> FALSE, stopped |-> FALSE, reporting |-> FALSE, reports |-> 0,
         wrote |-> FALSE]

(* Nobody holds the current rev. *)
Nobody == [ops |-> {}, call |-> FALSE, watchers |-> {}]

(* Once run() has read the member nodes and kicked the index definitions   *)
(* there are.                                                              *)
Init ==
    /\ limits \in Scenarios
    /\ wanted = limits.wanted /\ defs = limits.initDefs /\ plan = defs
    /\ events = {} /\ joins = 0 /\ troubles = 0
    /\ atRev = [Nobody EXCEPT !.watchers = limits.watchers]
    /\ asleep = limits.watchers
    /\ memberNodes = wanted
    /\ doneCh = 0 /\ stopCh = 0 /\ change = 0 /\ closed = {} /\ panicked = FALSE
    /\ orchestrator = FALSE
    /\ lastDefs = defs /\ bg = 0
    /\ ops = [o \in OpIds |-> NoOp]
-----------------------------------------------------------------------------
(* A call that fails. *)
Trouble == troubles < limits.troubles /\ troubles' = troubles + 1

Outcome(out) == IF out = "ok" THEN UNCHANGED troubles ELSE Trouble

(* Mutant: those who wait are not woken. *)
incRevNumQuietly(holders) == atRev' = holders /\ UNCHANGED asleep

(* revNum only grows: after this the rev that anybody has, but for those   *)
(* who are given the new one, is not the current one, nor will it be.  The *)
(* channel that is closed is that of all who wait.                         *)
incRevNumLOCKED(holders) == atRev' = holders /\ asleep' = {}

Started == {o \in OpIds : ops[o].kind # "none"}

(* The next operation. *)
NewOp == Cardinality(Started) + 1

Done(o) == ops[o].pc = "gone"

(* The operations that have not come to their cleanup yet. *)
AtWork == {o \in Started : ops[o].pc \notin {"unlocked", "gone"}}

(* A step of o's goroutine that is over. *)
GoTo(o, pc) == ops' = [ops EXCEPT ![o].pc = pc]

(* One that is over with an error in ctlErrs: the goroutine returns. *)
Fails(o) == ops' = [ops EXCEPT ![o].errs = TRUE, ![o].pc = "cleanup"]
-----------------------------------------------------------------------------
(* The environment: index definitions change, nodes register. *)
ChangeDefs ==
    /\ defs < limits.defs
    /\ defs' = defs + 1
    /\ events' = events \cup {"indexDefs"}
    /\ UNCHANGED <<wanted, plan, bounds, revVars, memberNodes, chans, orchestrator, loopVars, ops>>

Join(n) ==
    /\ joins < limits.joins /\ n \notin wanted
    /\ joins' = joins + 1
    /\ wanted' = wanted \cup {n}
    /\ events' = events \cup {"nodeDefs"}
    /\ UNCHANGED <<limits, defs, plan, troubles, revVars, memberNodes, chans, orchestrator, loopVars, ops>>

(* Whether IndexDefsChanged plans: not in the course of a rebalance, which *)
(* Ctl knows of itself or from the cluster manager.                        *)
rebalanceInProgress(ns) == orchestrator \/ ns

(* kickIndexDefs: the definitions count as seen whether they are planned   *)
(* or not.                                                                 *)
kickIndexDefs(ns) ==
    /\ bg' = IF lastDefs # defs /\ ~rebalanceInProgress(ns) THEN bg + 1 ELSE bg
    /\ lastDefs' = defs

(* The body of run()'s loop for an event; ns is what the cluster manager   *)
(* says.  If the Cfg does not answer, the event is gone all the same.      *)
CfgEvent(key, ns, out) ==
    /\ key \in events
    /\ events' = events \ {key}
    /\ Outcome(out)
    /\ IF out = "ok" THEN kickIndexDefs(ns) ELSE UNCHANGED <<bg, lastDefs>>
    /\ IF key = "nodeDefs" /\ out = "ok"
       THEN memberNodes' = wanted /\ incRevNumLOCKED(Nobody)
       ELSE UNCHANGED <<memberNodes, revVars>>
    /\ UNCHANGED <<wanted, defs, plan, limits, joins, chans, orchestrator, ops>>

(* The goroutine of IndexDefsChanged: PlannerSteps, then the warnings of   *)
(* the plan there is.  It ends at once if the cluster options cannot be    *)
(* read.                                                                   *)
IndexDefsChanged(out) ==
    /\ bg > 0 /\ bg' = bg - 1
    /\ Outcome(out)
    /\ plan' = IF out = "ok" THEN defs ELSE plan
    /\ IF out = "options"
       THEN UNCHANGED revVars
       ELSE incRevNumLOCKED(Nobody)
    /\ UNCHANGED <<wanted, defs, events, limits, joins, memberNodes, chans, orchestrator, lastDefs, ops>>

(* onSuccessfulPrepare, with the members re-read or not. *)
onSuccessfulPrepare(affectsTopology) ==
    /\ incRevNumLOCKED(Nobody)
    /\ memberNodes' = IF affectsTopology THEN wanted ELSE memberNodes
    /\ UNCHANGED <<cfgVars, bounds, chans, orchestrator, loopVars, ops>>
-----------------------------------------------------------------------------
(* The cluster manager calls WaitGetTopology over and over, with the rev   *)
(* of the last answer.  The call of w returns, because w is woken, cancels *)
(* or has waited long enough, and the next one begins to wait.             *)
WaitGetTopology(w) ==
    /\ atRev' = [atRev EXCEPT !.watchers = @ \cup {w}]
    /\ asleep' = asleep \cup {w}
    /\ UNCHANGED <<cfgVars, bounds, memberNodes, chans, orchestrator, loopVars, ops>>
-----------------------------------------------------------------------------
(* The beginning of dispatchCtlLOCKED: what is running is told to stop. *)
CloseStopCh ==
    /\ panicked' = (stopCh \in closed)
    /\ closed' = closed \cup ({stopCh} \ {0})
    /\ stopCh' = 0

(* startCtlLOCKED *)
startCtlLOCKED(kind, keep) ==
    /\ incRevNumLOCKED([Nobody EXCEPT !.ops = {NewOp}])
    /\ doneCh' = NewOp /\ stopCh' = NewOp /\ change' = NewOp
    /\ ops' = [ops EXCEPT ![NewOp] = [NoOp EXCEPT !.kind = kind, !.keep = keep,
                                                  !.pc = "begin"]]

(* purgeStalePlanAndClusterNodes: a rebalance forgets the nodes that its   *)
(* request does not mention, and then the plan.                            *)
purgeStale(kind, keep, eject) ==
    LET stale == IF kind = "rebalance" THEN wanted \ (keep \cup eject) ELSE {}
    IN /\ wanted' = wanted \ stale
       /\ plan' = IF stale # {} THEN 0 ELSE plan
       /\ events' = IF stale # {} THEN events \cup {"nodeDefs"} ELSE events

(* startHibernation, under no lock of Ctl's, replaces the channels of the  *)
(* last operation.                                                         *)
startHibernation(kind) ==
    /\ stopCh' = NewOp /\ doneCh' = NewOp
    /\ ops' = [ops EXCEPT ![NewOp] = [NoOp EXCEPT !.kind = kind, !.pc = "start"]]
    /\ UNCHANGED <<cfgVars, bounds, revVars, memberNodes, change, closed, panicked, orchestrator, loopVars>>

(* StopHibernationTask leaves the channel it has closed where it is. *)
StopHibernationTask ==
    /\ panicked' = (stopCh \in closed)
    /\ closed' = closed \cup ({stopCh} \ {0})
    /\ UNCHANGED <<cfgVars, bounds, revVars, memberNodes, doneCh, stopCh, change, orchestrator, loopVars, ops>>

-----------------------------------------------------------------------------
(* The goroutine of a topology change.  First it reads the definitions. *)
Begin(o, out) ==
    /\ ops[o].pc = "begin"
    /\ Outcome(out)
    /\ IF out = "ok" THEN ops' = [ops EXCEPT ![o].start = defs, ![o].pc = "wait"]
                     ELSE Fails(o)
    /\ UNCHANGED <<cfgVars, limits, joins, revVars, memberNodes, chans, orchestrator, loopVars>>

(* WaitForWantedNodes: until the nodes to keep are wanted ones; for some   *)
(* time only, after which it goes on if there are no indexes and fails if  *)
(* there are.                                                              *)
WaitForWantedNodes(o, out) ==
    /\ ops[o].pc = "wait"
    /\ IF out = "error" THEN Trouble ELSE UNCHANGED troubles
    /\ out = "canceled" => o \in closed
    /\ out = "attained" => ops[o].keep \subseteq wanted
    /\ out = "timeout" => ~(ops[o].keep \subseteq wanted)
    /\ IF out = "attained" \/ (out = "timeout" /\ ops[o].start = 0)
       THEN ops' = [ops EXCEPT ![o].remove = wanted \ ops[o].keep,
                               ![o].pc = IF ops[o].kind = "failover" THEN "steps"
                                                                     ELSE "loop"]
       ELSE Fails(o)
    /\ UNCHANGED <<cfgVars, limits, joins, revVars, memberNodes, chans, orchestrator, loopVars>>

(* The head of REBALANCE_LOOP: StartRebalance records that a rebalance has *)
(* started; then it may fail, or find that there is none to be done.       *)
StartRebalance(o, out) ==
    /\ ops[o].pc = "loop"
    /\ IF out \in {"ok", "skip"} THEN UNCHANGED troubles ELSE Trouble
    /\ CASE out \in {"read", "start"} -> Fails(o)
         [] out = "ok" /\ defs = 0 -> GoTo(o, "steps")
         [] out = "skip" -> defs # 0 /\ GoTo(o, "cleanup")
         [] OTHER -> ops' = [ops EXCEPT ![o].start = defs, ![o].reporting = TRUE,
                                        ![o].pc = "run"]
    /\ UNCHANGED <<cfgVars, limits, joins, revVars, memberNodes, chans, orchestrator, loopVars>>

(* The rebalancer is done.  An error of its own is the operation's; that a *)
(* planner was at work too is none.  Then the definitions are read, and    *)
(* the rebalance is repeated if they are not those it began with.          *)
RebalanceEnds(o, out) ==
    /\ ops[o].kind = "rebalance" /\ ops[o].pc = "run"
    /\ Outcome(out)
    /\ plan' = IF out \in {"ok", "read"} /\ plan < ops[o].start
              THEN ops[o].start ELSE plan
    /\ ops' = [ops EXCEPT ![o].reporting = FALSE,
                          ![o].errs = out \in {"error", "read"},
                          ![o].pc = CASE out \in {"error", "read"} -> "cleanup"
                                      [] ops[o].start = defs -> "steps"
                                      [] OTHER -> "loop"]
    /\ UNCHANGED <<wanted, defs, events, limits, joins, revVars, memberNodes, chans, orchestrator, loopVars>>

(* The operation is told to stop while it waits for what it has started:   *)
(* the rebalancer, or the hibernation manager, is stopped, but goes on for *)
(* a while.                                                                *)
StopsRunning(o) ==
    /\ ops[o].pc = "run" /\ o \in closed
    /\ ops' = [ops EXCEPT ![o].stopped = TRUE, ![o].pc = "cleanup"]
    /\ UNCHANGED <<cfgVars, bounds, revVars, memberNodes, chans, orchestrator, loopVars>>

(* What was started does report no more. *)
ReportingEnds(o) ==
    /\ ops[o].reporting /\ ops[o].pc # "run"
    /\ ops' = [ops EXCEPT ![o].reporting = FALSE]
    /\ UNCHANGED <<cfgVars, bounds, revVars, memberNodes, chans, orchestrator, loopVars>>

(* ctlOnProgress is called. *)
Reports(o) ==
    /\ ops[o].reporting /\ ops[o].reports < limits.reports
    /\ ops' = [ops EXCEPT ![o].reports = @ + 1]
    /\ UNCHANGED <<cfgVars, bounds, revVars, memberNodes, chans, orchestrator, loopVars>>

(* PlannerSteps unregisters the nodes to remove, then plans the new        *)
(* indexes or, for a failover, promotes replicas.                          *)
PlannerSteps(o, out) ==
    /\ ops[o].pc = "steps"
    /\ Outcome(out)
    /\ wanted' = IF out = "unregister" THEN wanted ELSE wanted \ ops[o].remove
    /\ events' = IF wanted' # wanted THEN events \cup {"nodeDefs"} ELSE events
    /\ plan' = IF out = "ok" /\ ops[o].kind = "rebalance" THEN defs ELSE plan
    /\ ops' = [ops EXCEPT ![o].errs = out # "ok", ![o].pc = "cleanup"]
    /\ UNCHANGED <<defs, limits, joins, revVars, memberNodes, chans, orchestrator, loopVars>>

(* The fields of Ctl that are the operation's own; nothing refers to its   *)
(* channels then but those who wait for it to be done.                     *)
Release(o) ==
    /\ closed' = closed \ {o}
    /\ doneCh' = IF doneCh = o THEN 0 ELSE doneCh
    /\ stopCh' = IF stopCh = o THEN 0 ELSE stopCh

(* A goroutine that has done its cleanup is left with its outcome. *)
Left(o, errs) ==
    ops' = [ops EXCEPT ![o] = [NoOp EXCEPT !.kind = ops[o].kind, !.errs = errs,
                                           !.reporting = ops[o].reporting,
                                           !.reports = ops[o].reports,
                                           !.pc = "unlocked"]]

(* The cleanup of a topology change, up to the release of Ctl's lock: the  *)
(* plan, for its warnings, and the members are read, and the caller's      *)
(* ctlOnProgress is told.                                                  *)
Cleanup(o, out) ==
    /\ ops[o].kind \in TopologyKinds /\ ops[o].pc = "cleanup"
    /\ Outcome(out)
    /\ incRevNumLOCKED(Nobody)
    /\ memberNodes' = IF out = "members" THEN {} ELSE wanted
    /\ Release(o)
    /\ change' = IF change = o THEN 0 ELSE change
    /\ Left(o, ops[o].errs \/ out # "ok")
    /\ UNCHANGED <<cfgVars, limits, joins, panicked, orchestrator, loopVars>>

(* The rest: no orchestrator any more, and the done channel is closed.     *)
CleanupDone(o) ==
    /\ ops[o].pc = "unlocked"
    /\ orchestrator' = IF ops[o].kind \in TopologyKinds THEN FALSE ELSE orchestrator
    /\ GoTo(o, "gone")
    /\ UNCHANGED <<cfgVars, bounds, revVars, memberNodes, chans, loopVars>>
-----------------------------------------------------------------------------
(* The goroutine of a hibernation: hibernate.Start takes its time, and     *)
(* does not look at the stop channel.                                      *)
HibernateStart(o, out) ==
    /\ ops[o].pc = "start"
    /\ Outcome(out)
    /\ IF out = "ok" THEN ops' = [ops EXCEPT ![o].reporting = TRUE, ![o].pc = "run"]
                     ELSE Fails(o)
    /\ UNCHANGED <<cfgVars, limits, joins, revVars, memberNodes, chans, orchestrator, loopVars>>

(* The hibernation manager writes the index definitions. *)
HibernateDefs(o) ==
    /\ ops[o].kind \in {"pause", "resume"} /\ ops[o].reporting /\ ~ops[o].wrote
    /\ defs < limits.defs
    /\ defs' = defs + 1
    /\ events' = events \cup {"indexDefs"}
    /\ ops' = [ops EXCEPT ![o].wrote = TRUE]
    /\ UNCHANGED <<wanted, plan, bounds, revVars, memberNodes, chans, orchestrator, lastDefs, bg>>

HibernateEnds(o, out) ==
    /\ ops[o].kind \in {"pause", "resume"} /\ ops[o].pc = "run"
    /\ Outcome(out)
    /\ ops' = [ops EXCEPT ![o].reporting = FALSE, ![o].errs = out # "ok",
                          ![o].pc = "cleanup"]
    /\ UNCHANGED <<cfgVars, limits, joins, revVars, memberNodes, chans, orchestrator, loopVars>>

(* Its cleanup is no new rev. *)
HibernateCleanup(o) ==
    /\ ops[o].kind \in {"pause", "resume"} /\ ops[o].pc = "cleanup"
    /\ Release(o)
    /\ Left(o, ops[o].errs)
    /\ UNCHANGED <<cfgVars, bounds, revVars, memberNodes, change, panicked, orchestrator, loopVars>>
=============================================================================
