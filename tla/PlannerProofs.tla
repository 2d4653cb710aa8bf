---------------------------- MODULE PlannerProofs ----------------------------
(***************************************************************************)
(* Proofs about Planner for every set of nodes, planners and indexes,      *)
(* every scenario and every bound on versions, definitions and plans.      *)
(***************************************************************************)
EXTENDS Planner, TLAPS

(* The types of the variables that the proofs use. *)
Types ==
    /\ version \in Nat
    /\ mgrVersion \in [Nodes -> Nat]
    /\ store.CASNext \in 1..(MaxCas + 1)
    /\ DOMAIN store.Entries = {PLAN_PINDEXES_KEY}
    /\ DOMAIN pc = Nodes
    /\ DOMAIN local = Nodes
    /\ \A n \in Nodes : DOMAIN local[n] = {"defs", "nodes", "plan", "next"}

(* A plan in the Cfg, or read from it, that is no newer than v. *)
Saved(e, v) ==
    e # NoEntry => /\ e.CAS \in 1..MaxCas /\ e.CAS < store.CASNext
                   /\ e.Val.ImplVersion \in Nat /\ e.Val.ImplVersion <= v

(* No plan is newer than the Cfg's version. *)
PlanIsNotAhead == Saved(Cur, version)

(* What a planner has read is what the Cfg has, if the Cfg has its CAS, and *)
(* the plan it is about to save is no older than the one it has read.       *)
NextIsNotBehind ==
    \A n \in Nodes :
        /\ pc[n] \in {"calc", "save"} =>
              /\ Saved(local[n].plan, version)
              /\ local[n].plan.CAS = Cur.CAS => local[n].plan = Cur
        /\ pc[n] = "save" =>
              /\ local[n].next.ImplVersion \in Nat
              /\ local[n].next.ImplVersion <= version
              /\ Saved(local[n].plan, local[n].next.ImplVersion)

(* The inductive invariant of Planner. *)
IInv == Types /\ PlanIsNotAhead /\ NextIsNotBehind
-----------------------------------------------------------------------------
(* A write with the CAS of an entry succeeds only if that CAS is current. *)
LEMMA SetErrMeans ==
    ASSUME NEW cas \in 0..MaxCas, Cur = NoEntry \/ Cur.CAS \in 1..MaxCas,
           SetErr(store, PLAN_PINDEXES_KEY, cas) = "nil"
    PROVE  cas = Cur.CAS
BY PlannerAssumption DEF SetErr, Exists, CFG_CAS_FORCE, Cur, NoEntry

(* Every initial state satisfies the invariant. *)
LEMMA InitIInv == Init => IInv
<1> SUFFICES ASSUME Init PROVE IInv
    BY Zenon
<1>1. Cur = NoEntry
    BY Zenon DEF Init, NewCfgMem, Cur
<1>2. Types
    BY PlannerAssumption DEF Init, Types, NewCfgMem, NoLocal
<1>3. NextIsNotBehind
    BY Zenon DEF Init, NextIsNotBehind
<1> QED
    BY Zenon, <1>1, <1>2, <1>3 DEF IInv, PlanIsNotAhead, Saved

(* A step that leaves the plan, the software and the planners alone, but    *)
(* for those that it makes idle, preserves the invariant, as long as the    *)
(* Cfg's version does not fall.                                             *)
LEMMA OthersKeep ==
    ASSUME IInv, UNCHANGED store, version' \in Nat, version' >= version,
           mgrVersion' \in [Nodes -> Nat], DOMAIN pc' = Nodes, DOMAIN local' = Nodes,
           \A n \in Nodes : \/ pc'[n] = pc[n] /\ local'[n] = local[n]
                            \/ /\ pc'[n] \notin {"calc", "save"}
                               /\ DOMAIN local'[n] = {"defs", "nodes", "plan", "next"}
    PROVE  IInv'
<1>1. Cur' = Cur /\ Types'
    BY Zenon DEF IInv, Types, Cur
<1>2. PlanIsNotAhead'
    BY <1>1 DEF IInv, Types, PlanIsNotAhead, Saved
<1>3. NextIsNotBehind'
    BY <1>1 DEF IInv, Types, NextIsNotBehind, Saved
<1> QED
    BY Zenon, <1>1, <1>2, <1>3 DEF IInv

(* The steps of the cluster: the index API, nodes that leave, crash, start, *)
(* subscribe and are upgraded.                                              *)
LEMMA ClusterKeeps ==
    ASSUME IInv, NEW n \in Nodes,
           \/ \E i \in Names, op \in {"create", "freeze", "delete"} : ChangeIndex(n, i, op)
           \/ Leave(n) \/ Crash(n) \/ Upgrade(n) \/ Start(n) \/ Subscribe(n)
    PROVE  IInv' /\ UNCHANGED store
<1> USE DEF IInv, Types
<1>1. CASE \/ \E i \in Names, op \in {"create", "freeze", "delete"} : ChangeIndex(n, i, op)
           \/ Leave(n) \/ Start(n) \/ Subscribe(n)
  <2>1. UNCHANGED <<store, version, mgrVersion, pc, local>>
    BY Zenon, <1>1 DEF ChangeIndex, Leave, Start, Subscribe, cluster
  <2> QED
    BY <2>1, OthersKeep
<1>2. CASE Crash(n)
  <2>1. /\ UNCHANGED <<store, version, mgrVersion>>
        /\ pc' = [pc EXCEPT ![n] = "idle"] /\ local' = [local EXCEPT ![n] = NoLocal]
    BY Zenon, <1>2 DEF Crash
  <2>2. DOMAIN NoLocal = {"defs", "nodes", "plan", "next"}
    BY Zenon DEF NoLocal
  <2> QED
    BY <2>1, <2>2, OthersKeep
<1>3. CASE Upgrade(n)
  <2>1. /\ UNCHANGED <<store, version, pc, local>>
        /\ mgrVersion' = [mgrVersion EXCEPT ![n] = @ + 1]
    BY Zenon, <1>3 DEF Upgrade
  <2> QED
    BY <2>1, OthersKeep
<1> QED
    BY Zenon, <1>1, <1>2, <1>3

(* The steps of a planner up to the one that saves. *)
LEMMA PlannerReads ==
    ASSUME IInv, NEW n \in Nodes,
           \/ PlannerCheckVersion(n) \/ PlannerGetIndexDefs(n) \/ PlannerGetNodeDefs(n)
           \/ PlannerGetPlanPIndexes(n) \/ PlanCalc(n)
    PROVE  IInv' /\ UNCHANGED store
<1> USE DEF IInv, Types
<1>0. DOMAIN NoLocal = {"defs", "nodes", "plan", "next"}
    BY Zenon DEF NoLocal
<1>1. CASE PlannerCheckVersion(n)
  <2>1. /\ UNCHANGED <<store, mgrVersion, local>>
        /\ version' \in Nat /\ version' >= version
        /\ pc' = [pc EXCEPT ![n] = IF mgrVersion[n] >= version THEN "defs" ELSE "idle"]
    BY <1>1 DEF PlannerCheckVersion, Goto
  <2> QED
    BY Zenon, <2>1, OthersKeep
<1>2. CASE PlannerGetIndexDefs(n) \/ PlannerGetNodeDefs(n)
  <2>1. /\ UNCHANGED <<store, version, mgrVersion>>
        /\ DOMAIN pc' = Nodes /\ DOMAIN local' = Nodes
        /\ \A m \in Nodes \ {n} : pc'[m] = pc[m] /\ local'[m] = local[m]
        /\ pc'[n] \in {"nodes", "plan", "idle"}
        /\ DOMAIN local'[n] = {"defs", "nodes", "plan", "next"}
    BY Zenon, <1>0, <1>2 DEF PlannerGetIndexDefs, PlannerGetNodeDefs, Proceed, Goto, cluster
  <2> QED
    BY <2>1, OthersKeep
<1>3. CASE PlannerGetPlanPIndexes(n)
  <2>1. /\ UNCHANGED <<store, version, mgrVersion>> /\ Cur' = Cur
        /\ DOMAIN pc' = Nodes /\ DOMAIN local' = Nodes
        /\ \A m \in Nodes \ {n} : pc'[m] = pc[m] /\ local'[m] = local[m]
        /\ DOMAIN local'[n] = {"defs", "nodes", "plan", "next"}
        /\ \/ pc'[n] = "idle"
           \/ pc'[n] = "calc" /\ local'[n].plan = Cur
    BY Zenon, <1>0, <1>3 DEF PlannerGetPlanPIndexes, Proceed, Goto, cluster, Cur
  <2>2. Types'
    BY Zenon, <2>1
  <2>3. PlanIsNotAhead' /\ NextIsNotBehind'
    BY <2>1 DEF PlanIsNotAhead, NextIsNotBehind, Saved
  <2> QED
    BY Zenon, <2>1, <2>2, <2>3
<1>4. CASE PlanCalc(n)
  <2>1. PICK plan : /\ plan.ImplVersion = version
                    /\ Proceed(n, ~SamePlanPIndexes(plan, PrevPlan(n)), "save",
                         [NoLocal EXCEPT !.plan = local[n].plan, !.next = plan])
    BY Zenon, <1>4 DEF PlanCalc, CalcPlan
  <2>2. /\ UNCHANGED <<store, version, mgrVersion>> /\ Cur' = Cur
        /\ DOMAIN pc' = Nodes /\ DOMAIN local' = Nodes
        /\ \A m \in Nodes \ {n} : pc'[m] = pc[m] /\ local'[m] = local[m]
        /\ DOMAIN local'[n] = {"defs", "nodes", "plan", "next"}
        /\ \/ pc'[n] = "idle"
           \/ /\ pc'[n] = "save" /\ local'[n].plan = local[n].plan
              /\ local'[n].next.ImplVersion = version
    BY Zenon, <1>0, <2>1 DEF Proceed, Goto, cluster, Cur
  <2>3. Types'
    BY Zenon, <2>2
  <2>4. pc[n] = "calc"
    BY Zenon, <1>4 DEF PlanCalc
  <2>5. PlanIsNotAhead' /\ NextIsNotBehind'
    BY <2>2, <2>4 DEF PlanIsNotAhead, NextIsNotBehind, Saved
  <2> QED
    BY Zenon, <2>2, <2>3, <2>5
<1> QED
    BY Zenon, <1>1, <1>2, <1>3, <1>4

(* The step that saves replaces only the plan that the planner has read, by *)
(* one that is no older.                                                    *)
LEMMA SaveKeeps ==
    ASSUME IInv, NEW n \in Nodes, PlanSave(n)
    PROVE  /\ IInv'
           /\ Cur # NoEntry => Cur'.Val.ImplVersion >= Cur.Val.ImplVersion
<1> USE DEF IInv, Types
<1>0. DOMAIN NoLocal = {"defs", "nodes", "plan", "next"}
    BY Zenon DEF NoLocal
<1>1. /\ UNCHANGED <<version, mgrVersion>> /\ pc[n] = "save"
      /\ DOMAIN pc' = Nodes /\ DOMAIN local' = Nodes
      /\ \A m \in Nodes \ {n} : pc'[m] = pc[m] /\ local'[m] = local[m]
      /\ pc'[n] = "idle" /\ local'[n] = NoLocal
    BY Zenon DEF PlanSave, Goto, cluster
<1>2. CASE UNCHANGED store
  <2>1. IInv'
    BY <1>0, <1>1, <1>2, OthersKeep
  <2>2. Cur' = Cur
    BY Zenon, <1>2 DEF Cur
  <2> QED
    BY <2>1, <2>2 DEF PlanIsNotAhead, Saved
<1>3. CASE SaveErr(n) = "nil"
  <2>1. /\ store.CASNext \in 1..MaxCas
        /\ store' = SetStore(store, PLAN_PINDEXES_KEY, local[n].next)
    BY <1>3, PlannerAssumption DEF PlanSave
  <2>2. /\ store'.CASNext = store.CASNext + 1
        /\ DOMAIN store'.Entries = {PLAN_PINDEXES_KEY}
        /\ Cur' = [CAS |-> store.CASNext, Val |-> local[n].next]
    BY Zenon, <2>1 DEF SetStore, Cur
  <2>3. local[n].plan.CAS \in 0..MaxCas
    BY <1>1, PlannerAssumption DEF NextIsNotBehind, Saved, NoEntry
  <2>4. local[n].plan = Cur
    BY Zenon, <1>1, <1>3, <2>3, SetErrMeans DEF SaveErr, NextIsNotBehind, PlanIsNotAhead, Saved
  <2>5. /\ local[n].next.ImplVersion \in Nat /\ local[n].next.ImplVersion <= version
        /\ Cur # NoEntry => Cur.Val.ImplVersion <= local[n].next.ImplVersion
    BY Zenon, <1>1, <2>4 DEF NextIsNotBehind, Saved
  <2>6. Types'
    BY <1>0, <1>1, <2>1, <2>2, PlannerAssumption
  <2>7. PlanIsNotAhead'
    BY <1>1, <2>1, <2>2, <2>5 DEF PlanIsNotAhead, Saved
  <2>8. ASSUME NEW m \in Nodes \ {n}, pc[m] \in {"calc", "save"}
        PROVE  local[m].plan.CAS # Cur'.CAS
    BY <2>1, <2>2, <2>8 DEF NextIsNotBehind, Saved, NoEntry
  <2>9. NextIsNotBehind'
    BY <1>1, <2>1, <2>2, <2>8 DEF NextIsNotBehind, Saved
  <2> QED
    BY Zenon, <2>2, <2>5, <2>6, <2>7, <2>9 DEF PlanIsNotAhead, Saved
<1> QED
    BY Zenon, <1>2, <1>3 DEF PlanSave

(* Every step preserves the invariant, and the version of the plan does    *)
(* not fall.                                                               *)
LEMMA NextIInv ==
    ASSUME IInv, [Next]_vars
    PROVE  IInv' /\ [Cur # NoEntry => Cur'.Val.ImplVersion >= Cur.Val.ImplVersion]_store
<1>1. CASE UNCHANGED vars
  <2>1. UNCHANGED <<store, version, mgrVersion, pc, local>>
    BY Zenon, <1>1 DEF vars, cluster
  <2> QED
    BY <2>1, OthersKeep DEF IInv, Types
<1>2. CASE Next
  <2>1. PICK n \in Nodes :
          \/ \/ \E i \in Names, op \in {"create", "freeze", "delete"} : ChangeIndex(n, i, op)
             \/ Leave(n) \/ Crash(n) \/ Upgrade(n) \/ Start(n) \/ Subscribe(n)
          \/ \/ PlannerCheckVersion(n) \/ PlannerGetIndexDefs(n) \/ PlannerGetNodeDefs(n)
             \/ PlannerGetPlanPIndexes(n) \/ PlanCalc(n)
          \/ PlanSave(n)
    BY Zenon, <1>2 DEF Next, PlannerStep
  <2> QED
    BY Zenon, <2>1, ClusterKeeps, PlannerReads, SaveKeeps
<1> QED
    BY Zenon, <1>1, <1>2

(* No plan in the Cfg is for a newer version than the Cfg's own, although  *)
(* the version is read before the plan is calculated and may have risen    *)
(* when it is saved (manager_planner.go:231-237, 379-382).                 *)
THEOREM PlanNeverAhead == Spec => []PlanIsNotAhead
<1>1. Init => IInv
    BY Zenon, InitIInv
<1>2. IInv /\ [Next]_vars => IInv'
    BY Zenon, NextIInv
<1>3. IInv => PlanIsNotAhead
    BY Zenon DEF IInv
<1> QED
    BY <1>1, <1>2, <1>3, PTL DEF Spec

(* However many planners there are and however slow, none replaces the     *)
(* plan of a newer cluster version by one of an older                      *)
(* (manager_planner.go:231-237, 379-382).                                  *)
THEOREM PlanVersionsRise == Spec => PlanVersionNeverFalls
<1>1. Init => IInv
    BY InitIInv
<1>2. IInv /\ [Next]_vars
      => IInv' /\ [Cur # NoEntry => Cur'.Val.ImplVersion >= Cur.Val.ImplVersion]_store
    BY Zenon, NextIInv
<1> QED
    BY <1>1, <1>2, PTL DEF Spec, PlanVersionNeverFalls
=============================================================================
