------------------------------- MODULE Planner -------------------------------
(***************************************************************************)
(* The planners of manager_planner.go: on every node that has the role,    *)
(* a loop that on each kick reads the version, the index definitions, the  *)
(* wanted nodes and the previous plan, one after the other, calculates the *)
(* new plan, and saves it with the CAS of the previous one.  Kicks come    *)
(* from the start of the node, from the index API of the same node and     *)
(* from the Cfg's events, which cfgObserver subscribes to in a goroutine   *)
(* of its own.  The plan has one pindex per index and no replicas.         *)
(***************************************************************************)
EXTENDS Integers, FiniteSets

CONSTANTS Nodes,        \* the nodes; all of them take pindexes
          Planners,     \* those whose tags make them run a planner
          Names,        \* index names
          Nil, NoDef, NoPlan,
          MaxVersion,   \* bound: versions of the software
          MaxUUID,      \* bound: index definitions written
          MaxCas,       \* bound: plans written
          Scenarios     \* what is tried: the nodes that are up at the
                        \* beginning, those that may leave, whether the data
                        \* source may fail to list its partitions, the kinds
                        \* of changes that happen, how many of them and how
                        \* many definitions they write

ASSUME PlannerAssumption ==
    /\ Planners \subseteq Nodes
    /\ MaxVersion \in Nat \ {0} /\ MaxUUID \in Nat /\ MaxCas \in Nat
    /\ \A s \in Scenarios :
          /\ s.nodes \subseteq Nodes /\ s.leavers \subseteq s.nodes
          /\ s.splitCanFail \in BOOLEAN /\ s.maxChanges \in Nat
          /\ s.maxUUID \in 0..MaxUUID
          /\ s.ops \subseteq {"create", "freeze", "delete", "leave", "crash", "upgrade"}

IndexDef == [UUID : 1..MaxUUID, PlanFrozen : BOOLEAN]

(* A PlanPIndex: the definition it was made from and its primary node. *)
PlanPIndex == [IndexUUID : 1..MaxUUID, node : Nodes]

PlanPIndexes == [ImplVersion : 1..MaxVersion,
                 pindexes : [Names -> PlanPIndex \cup {NoPlan}]]

PLAN_PINDEXES_KEY == "planPIndexes"

INSTANCE CfgOps WITH Keys <- {PLAN_PINDEXES_KEY}, Vals <- PlanPIndexes

VARIABLES limits,      \* the scenario, fixed along a behaviour
          indexDefs,   \* the Cfg's index definitions
          nodeDefs,    \* the Cfg's wanted nodes: the version of each, or 0
          implVersion, \* the ImplVersion of each of these two
          version,     \* the Cfg's version
          store,       \* the Cfg's plan
          lastUUID, changes,
          up,          \* the nodes that run
          mgrVersion,  \* mgrVersion[n]: the version of node n's software
          subscribed,  \* the planners whose cfgObserver has subscribed
          kicks,       \* kicks[n]: kicks waiting for n's planner loop
          pc,          \* where n's planner is
          local        \* what it has read, and the plan it is about to save

cluster == <<limits, indexDefs, nodeDefs, implVersion, version, lastUUID, changes, up,
             mgrVersion>>
vars == <<cluster, store, subscribed, kicks, pc, local>>

NewIndexDefs == [i \in Names |-> NoDef]

NewPlanPIndexes(v) == [ImplVersion |-> v, pindexes |-> [i \in Names |-> NoPlan]]

(* A planner between two kicks. *)
NoLocal == [defs |-> NewIndexDefs, nodes |-> {}, plan |-> NoEntry, next |-> NoPlan]

Cur == store.Entries[PLAN_PINDEXES_KEY]

wanted == {n \in Nodes : nodeDefs[n] # 0}

(* The cluster has started, with no indexes yet, at its lowest version. *)
Init ==
    /\ limits \in Scenarios
    /\ indexDefs = NewIndexDefs
    /\ nodeDefs = [n \in Nodes |-> IF n \in limits.nodes THEN 1 ELSE 0]
    /\ implVersion = [defs |-> 1, nodes |-> 1]
    /\ version = 1
    /\ store = NewCfgMem
    /\ lastUUID = 0 /\ changes = 0
    /\ up = limits.nodes
    /\ mgrVersion = [n \in Nodes |-> 1]
    /\ subscribed = limits.nodes \cap Planners
    /\ kicks = [n \in Nodes |-> 0]
    /\ pc = [n \in Nodes |-> "idle"]
    /\ local = [n \in Nodes |-> NoLocal]
-----------------------------------------------------------------------------
(* blance.PlanNextMap, in outline: a pindex stays on its node as long as   *)
(* that is possible, otherwise the nodes determine a new one.              *)
PlanNextMap(prev, nodes) ==
    IF prev # NoPlan /\ prev.node \in nodes THEN prev.node
    ELSE CHOOSE n \in nodes : TRUE

(* CalcPlan for one index.  A frozen plan is cloned; an index whose split  *)
(* fails is skipped, and so has no pindexes in the new plan.               *)
CalcPlanIndex(def, prev, nodes, failed) ==
    CASE def = NoDef -> NoPlan
      [] def # NoDef /\ def.PlanFrozen -> prev
      [] def # NoDef /\ ~def.PlanFrozen ->
           IF failed THEN NoPlan
           ELSE [IndexUUID |-> def.UUID, node |-> PlanNextMap(prev, nodes)]

CalcPlan(defs, nodes, prev, v, failed) ==
    [ImplVersion |-> v,
     pindexes |-> [i \in Names |->
        CalcPlanIndex(defs[i], prev.pindexes[i], nodes, i \in failed)]]

(* Differences in ImplVersion are ignored. *)
SamePlanPIndexes(a, b) == a.pindexes = b.pindexes

PrevPlan(n) == IF local[n].plan = NoEntry THEN NewPlanPIndexes(version)
               ELSE local[n].plan.Val

(* Mutant: the planners do not subscribe to the Cfg. *)
KickedDirectly(direct) ==
    [n \in Nodes |-> kicks[n] + (IF n \in direct \cap Planners THEN 1 ELSE 0)]

(* A change of a key the planners subscribe to: one more kick for each of  *)
(* those that have subscribed; the planner of node n is kicked directly.   *)
Kicked(direct) ==
    [n \in Nodes |-> kicks[n] + (IF n \in subscribed THEN 1 ELSE 0)
                              + (IF n \in direct \cap Planners THEN 1 ELSE 0)]

Change(op) ==
    /\ op \in limits.ops
    /\ changes < limits.maxChanges
    /\ changes' = changes + 1
    /\ UNCHANGED limits

(* The index API of node n: create, freeze and delete an index.  Creation  *)
(* and deletion kick the node's own planner, IndexControl does not.        *)
ChangeIndex(n, i, op) ==
    /\ n \in up
    /\ Change(op)
    /\ op # "create" => indexDefs[i] # NoDef
    /\ lastUUID < limits.maxUUID
    /\ lastUUID' = lastUUID + 1
    /\ indexDefs' = [indexDefs EXCEPT ![i] =
          IF op = "delete" THEN NoDef
          ELSE [UUID |-> lastUUID', PlanFrozen |-> op = "freeze"]]
    /\ implVersion' = IF op = "freeze" THEN implVersion
                      ELSE [implVersion EXCEPT !.defs = version]
    /\ kicks' = Kicked(IF op = "freeze" THEN {} ELSE {n})
    /\ UNCHANGED <<nodeDefs, version, store, up, mgrVersion, subscribed, pc, local>>

(* Node n is taken out of the wanted nodes. *)
Leave(n) ==
    /\ Change("leave")
    /\ n \in wanted \cap limits.leavers
    /\ nodeDefs' = [nodeDefs EXCEPT ![n] = 0]
    /\ implVersion' = [implVersion EXCEPT !.nodes = version]
    /\ kicks' = Kicked({})
    /\ UNCHANGED <<indexDefs, version, store, lastUUID, up, mgrVersion,
                   subscribed, pc, local>>

Crash(n) ==
    /\ Change("crash")
    /\ n \in up
    /\ up' = up \ {n}
    /\ subscribed' = subscribed \ {n}
    /\ kicks' = [kicks EXCEPT ![n] = 0]
    /\ pc' = [pc EXCEPT ![n] = "idle"]
    /\ local' = [local EXCEPT ![n] = NoLocal]
    /\ UNCHANGED <<indexDefs, nodeDefs, implVersion, version, store, lastUUID,
                   mgrVersion>>

(* Start of a node, the first one or after a crash: registers as wanted,   *)
(* starts the planner loop and kicks it.                                   *)
Start(n) ==
    /\ n \in limits.nodes \ up
    /\ up' = up \cup {n}
    /\ IF nodeDefs[n] = mgrVersion[n]
       THEN /\ kicks' = [kicks EXCEPT ![n] = IF n \in Planners THEN 1 ELSE 0]
            /\ UNCHANGED <<nodeDefs, implVersion>>
       ELSE /\ nodeDefs' = [nodeDefs EXCEPT ![n] = mgrVersion[n]]
            /\ implVersion' = [implVersion EXCEPT !.nodes = version]
            /\ kicks' = Kicked({n})
    /\ UNCHANGED <<limits, indexDefs, version, store, lastUUID, changes, mgrVersion,
                   subscribed, pc, local>>

(* cfgObserver's goroutine gets to subscribe. *)
Subscribe(n) ==
    /\ n \in (up \cap Planners) \ subscribed
    /\ subscribed' = subscribed \cup {n}
    /\ UNCHANGED <<cluster, store, kicks, pc, local>>

(* Node n's software is replaced by the next version while it is down. *)
Upgrade(n) ==
    /\ Change("upgrade")
    /\ n \in limits.nodes \ up
    /\ mgrVersion[n] < MaxVersion
    /\ mgrVersion' = [mgrVersion EXCEPT ![n] = @ + 1]
    /\ UNCHANGED <<indexDefs, nodeDefs, implVersion, version, store, lastUUID, up,
                   subscribed, kicks, pc, local>>
-----------------------------------------------------------------------------
Goto(n, l) == pc' = [pc EXCEPT ![n] = l]

(* The planner goes on to l with what it knows by now, or gives up. *)
Proceed(n, ok, l, know) ==
    /\ Goto(n, IF ok THEN l ELSE "idle")
    /\ local' = [local EXCEPT ![n] = IF ok THEN know ELSE NoLocal]
    /\ UNCHANGED <<cluster, store, subscribed, kicks>>

(* The loop takes a kick.  CheckVersion, in one step here (see Membership), *)
(* raises the Cfg's version when no wanted node is behind, and fails on a   *)
(* planner that is too old.                                                 *)
PlannerCheckVersion(n) ==
    /\ pc[n] = "idle" /\ kicks[n] > 0
    /\ kicks' = [kicks EXCEPT ![n] = @ - 1]
    /\ version' = IF /\ mgrVersion[n] > version
                     /\ \A m \in wanted : nodeDefs[m] >= mgrVersion[n]
                  THEN mgrVersion[n] ELSE version
    /\ Goto(n, IF mgrVersion[n] >= version THEN "defs" ELSE "idle")
    /\ UNCHANGED <<limits, indexDefs, nodeDefs, implVersion, lastUUID, changes, up,
                   mgrVersion, store, subscribed, local>>

PlannerGetIndexDefs(n) ==
    /\ pc[n] = "defs"
    /\ Proceed(n, mgrVersion[n] >= implVersion.defs, "nodes",
               [local[n] EXCEPT !.defs = indexDefs])

(* A planner whose own node is not wanted, or not at its version, gives up. *)
PlannerGetNodeDefs(n) ==
    /\ pc[n] = "nodes"
    /\ Proceed(n, mgrVersion[n] >= implVersion.nodes /\ nodeDefs[n] = mgrVersion[n],
               "plan", [local[n] EXCEPT !.nodes = wanted])

(* The previous plan, unless a newer version wrote it. *)
PlannerGetPlanPIndexes(n) ==
    /\ pc[n] = "plan"
    /\ Proceed(n, Cur # NoEntry => Cur.Val.ImplVersion <= mgrVersion[n], "calc",
               [local[n] EXCEPT !.plan = Cur])

(* CalcPlan under the version the Cfg has by now; a plan that changes       *)
(* nothing is not saved.                                                    *)
PlanCalc(n) ==
    /\ pc[n] = "calc"
    /\ \E failed \in IF limits.splitCanFail THEN SUBSET Names ELSE {{}} :
       LET plan == CalcPlan(local[n].defs, local[n].nodes, PrevPlan(n), version, failed)
       IN Proceed(n, ~SamePlanPIndexes(plan, PrevPlan(n)), "save",
                  [NoLocal EXCEPT !.plan = local[n].plan, !.next = plan])

(* Mutant: the plan is saved whoever else has saved one. *)
SaveErrForced(n) == SetErr(store, PLAN_PINDEXES_KEY, CFG_CAS_FORCE)

(* The error of CfgSetPlanPIndexes with the CAS of the previous plan. *)
SaveErr(n) == SetErr(store, PLAN_PINDEXES_KEY, local[n].plan.CAS)

(* Saves the plan, or, when a concurrent planner won, gives up. *)
PlanSave(n) ==
    /\ pc[n] = "save"
    /\ IF SaveErr(n) = "nil"
       THEN /\ store.CASNext <= MaxCas
            /\ store' = SetStore(store, PLAN_PINDEXES_KEY, local[n].next)
       ELSE UNCHANGED store
    /\ Goto(n, "idle")
    /\ local' = [local EXCEPT ![n] = NoLocal]
    /\ UNCHANGED <<cluster, subscribed, kicks>>

PlannerStep(n) ==
    \/ PlannerCheckVersion(n) \/ PlannerGetIndexDefs(n) \/ PlannerGetNodeDefs(n)
    \/ PlannerGetPlanPIndexes(n) \/ PlanCalc(n) \/ PlanSave(n)

Next ==
    \E n \in Nodes :
        \/ \E i \in Names, op \in {"create", "freeze", "delete"} : ChangeIndex(n, i, op)
        \/ Leave(n) \/ Crash(n) \/ Upgrade(n)
        \/ Start(n) \/ Subscribe(n) \/ PlannerStep(n)

(* The goroutines of a running node make progress, and a node that is down *)
(* is started again.                                                       *)
Spec ==
    /\ Init /\ [][Next]_vars
    /\ \A n \in Nodes : WF_vars(PlannerStep(n)) /\ WF_vars(Subscribe(n))
                        /\ WF_vars(Start(n))
-----------------------------------------------------------------------------
(* Types of the Cfg and of the planners. *)
TypeOK ==
    /\ indexDefs \in [Names -> IndexDef \cup {NoDef}]
    /\ nodeDefs \in [Nodes -> 0..MaxVersion]
    /\ implVersion \in [defs : 1..MaxVersion, nodes : 1..MaxVersion]
    /\ up \subseteq Nodes /\ subscribed \subseteq Planners
    /\ version \in 1..MaxVersion
    /\ store \in Stores
    /\ lastUUID \in 0..MaxUUID /\ changes \in 0..limits.maxChanges
    /\ mgrVersion \in [Nodes -> 1..MaxVersion]
    /\ kicks \in [Nodes -> Nat]
    /\ pc \in [Nodes -> {"idle", "defs", "nodes", "plan", "calc", "save"}]
    /\ local \in [Nodes -> [defs : [Names -> IndexDef \cup {NoDef}],
                            nodes : SUBSET Nodes,
                            plan : Entry \cup {NoEntry},
                            next : PlanPIndexes \cup {NoPlan}]]

CurPlan == IF Cur = NoEntry THEN NewPlanPIndexes(version) ELSE Cur.Val

(* The plan follows from the definitions and the wanted nodes of now. *)
PlanIsCurrent ==
    \A i \in Names :
        LET def == indexDefs[i] plan == CurPlan.pindexes[i] IN
        CASE def = NoDef -> plan = NoPlan
          [] def # NoDef /\ def.PlanFrozen -> TRUE
          [] def # NoDef /\ ~def.PlanFrozen ->
                plan # NoPlan /\ plan.IndexUUID = def.UUID /\ plan.node \in wanted

(* The planners converge: once the definitions and the wanted nodes stop   *)
(* changing, and a planner is left among the wanted nodes, the plan is and *)
(* stays the one that follows from them, although a planner may have saved *)
(* a plan from old definitions over a newer one, and one that loses the    *)
(* race to save does not try again (manager_planner.go:218-261).  "If any  *)
(* of the above inputs changes, the Planner needs to be re-awoken and      *)
(* re-run" (IDEAS.md:284-285); that does not happen to a planner whose     *)
(* observer has yet to subscribe, nor after a split that failed, so        *)
(* neither may occur.                                                      *)
PlanConverges ==
    /\ ~limits.splitCanFail
    /\ [](up \cap Planners \subseteq subscribed)
    /\ <>[](Planners \cap wanted # {})
    => <>[]PlanIsCurrent

(* The version a plan was made for never falls: no planner, however slow,  *)
(* replaces the plan of a newer cluster version by one of an older         *)
(* (manager_planner.go:231-237, 379-382).                                  *)
PlanVersionNeverFalls ==
    [][Cur # NoEntry => Cur'.Val.ImplVersion >= Cur.Val.ImplVersion]_store
=============================================================================
