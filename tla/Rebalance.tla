------------------------------ MODULE Rebalance ------------------------------
(***************************************************************************)
(* rebalance/rebalance.go: a Rebalancer takes the plan of one index after  *)
(* the other from what it is to what it should be.  The orchestrator of    *)
(* the library blance asks for one batch of moves per node at a time; the  *)
(* goroutine that serves it changes the plan in the Cfg, then waits until  *)
(* the node has caught up with the former primary, of which it learns from *)
(* the monitor's samples of the nodes' statistics.                         *)
(***************************************************************************)
EXTENDS Integers, FiniteSets, Sequences, SequencesExt

CONSTANTS Nodes, Indexes, PIndexes,
          NoNode,
          ErrThreshold,  \* bad samples of a node in a row that end a rebalance
          Scenarios      \* what may happen, one of

States == {"none", "primary", "replica"}
Layouts == [PIndexes -> [Nodes -> States]]

(* A scenario has the index of every pindex, the layout at the beginning   *)
(* and the wanted one, the nodes that failed, come and go, the replicas    *)
(* wanted, whether a failover assigns all primaries, whether waits time    *)
(* out and samples may lack the sequence number of the source, and the     *)
(* bounds of writes at the source, index changes, plans of other planners, *)
(* and failing calls.                                                      *)
ASSUME RebalanceAssumption ==
    /\ ErrThreshold \in Nat \ {0}
    /\ \A s \in Scenarios :
          /\ s.index \in [PIndexes -> Indexes] /\ s.beg \in Layouts /\ s.end \in Layouts
          /\ s.failover \subseteq Nodes /\ s.assignAll \in BOOLEAN
          /\ s.nodesToAdd \subseteq Nodes /\ s.nodesToRemove \subseteq Nodes
          /\ s.numReplicas \in [Indexes -> Nat]
          /\ s.timeouts \in BOOLEAN /\ s.blind \in BOOLEAN /\ s.stops \in BOOLEAN
          /\ {s.writes, s.changes, s.plans, s.bad} \subseteq Nat

VARIABLES limits,
          defs,       \* the version of an index in the Cfg: 0 once it is deleted
          seenDefs,   \* the same, in the cache of the Manager
          plan,       \* the Cfg's plan: a layout, and how many entries of others
          planCas,
          begPlan,    \* the layout that the rebalance starts from
          source,     \* the sequence number of the data source
          has,        \* has[p][n]: the one that pindex p at node n is at, or -1
          used,       \* index changes, plans and bad samples so far
          todo,       \* the indexes left
          moves,      \* moves[p]: the moves of pindex p that are left
          oState,     \* the orchestrator: none, started, r.o, or stopped
          run,        \* where runRebalanceIndexes is
          mover,      \* mover[n]: assignPIndexes for node n
          waiter,     \* waiter[p]: waitAssignPIndexDone for pindex p
          currSeqs, wantSeqs,
          errMap,     \* bad samples in a row, by node
          monitor,    \* runMonitor
          stopped,    \* whether stopCh is closed
          panicked

cfgVars == <<defs, seenDefs, plan, planCas>>
begVars == <<limits, begPlan>>
nodeVars == <<source, has>>
loopVars == <<todo, moves, run>>
waitVars == <<waiter, wantSeqs>>
monVars == <<currSeqs, errMap, monitor>>
stopVars == <<oState, stopped>>
vars == <<begVars, cfgVars, nodeVars, used, loopVars, mover, waitVars, monVars, stopVars,
          panicked>>

IndexOf(p) == limits.index[p]

NoSeq == [seq |-> -1, source |-> -1]
NoMover == [pc |-> "idle", ps |-> {}, batch |-> {}, step |-> 0, def |-> 0, layout |-> <<>>,
            others |-> 0, cas |-> 0, former |-> <<>>]
NoWaiter == [pc |-> "none", node |-> NoNode, former |-> NoNode, def |-> 0, tries |-> 0,
             prev |-> 0]

Least(a, b) == IF a < b THEN a ELSE b

Hosts(layout, p) == {n \in Nodes : layout[p][n] # "none"}
Primaries(layout, p) == {n \in Nodes : layout[p][n] = "primary"}

(* The sequence number of a pindex when the rebalance begins. *)
BegSeq == 1

Init ==
    /\ limits \in Scenarios
    /\ defs = [i \in Indexes |-> 1] /\ seenDefs = defs
    /\ plan = [at |-> limits.beg, others |-> 0] /\ planCas = 1
    /\ begPlan = limits.beg /\ source = BegSeq
    /\ has = [p \in PIndexes |-> [n \in Nodes |->
                 IF n \in Hosts(limits.beg, p) THEN BegSeq ELSE -1]]
    /\ used = [changes |-> 0, plans |-> 0, bad |-> 0]
    /\ todo = {limits.index[p] : p \in PIndexes}
    /\ moves = [p \in PIndexes |-> <<>>] /\ oState = "none" /\ run = "start"
    /\ mover = [n \in Nodes |-> NoMover] /\ waiter = [p \in PIndexes |-> NoWaiter]
    /\ currSeqs = [p \in PIndexes |-> [n \in Nodes |-> NoSeq]]
    /\ wantSeqs = [p \in PIndexes |-> [n \in Nodes |-> NoSeq]]
    /\ errMap = [n \in Nodes |-> 0] /\ monitor = "running"
    /\ stopped = FALSE /\ panicked = FALSE

(* Nobody holds r.m, which a mover does from its look at the indexes to    *)
(* its writing of the plan.                                                *)
Unlocked == \A n \in Nodes : mover[n].pc \notin {"plan", "save"}
-----------------------------------------------------------------------------
(* The cluster: indexes are deleted and created again, other planners drop *)
(* what has no index and add pindexes of their own, and the nodes follow   *)
(* plan and source.                                                        *)
ChangeIndex(i) ==
    /\ used.changes < limits.changes /\ defs[i] < 2
    /\ used' = [used EXCEPT !.changes = @ + 1]
    /\ defs' = [defs EXCEPT ![i] = IF @ = 1 THEN 0 ELSE 2]
    /\ UNCHANGED <<begVars, seenDefs, plan, planCas, nodeVars, loopVars, mover, waitVars,
                   monVars, stopVars, panicked>>

RefreshDefs ==
    /\ seenDefs # defs /\ seenDefs' = defs
    /\ UNCHANGED <<begVars, defs, plan, planCas, nodeVars, used, loopVars, mover, waitVars,
                   monVars, stopVars, panicked>>

OtherPlanner ==
    /\ used.plans < limits.plans
    /\ used' = [used EXCEPT !.plans = @ + 1]
    /\ plan' = [at |-> [p \in PIndexes |-> [n \in Nodes |->
                           IF defs[IndexOf(p)] = 1 THEN plan.at[p][n] ELSE "none"]],
                others |-> plan.others + 1]
    /\ planCas' = planCas + 1
    /\ UNCHANGED <<begVars, defs, seenDefs, nodeVars, loopVars, mover, waitVars, monVars,
                   stopVars, panicked>>

Write ==
    /\ source < BegSeq + limits.writes /\ source' = source + 1
    /\ UNCHANGED <<begVars, cfgVars, has, used, loopVars, mover, waitVars, monVars, stopVars,
                   panicked>>

NodeFollows(n, p) ==
    LET next == IF n \notin Hosts(plan.at, p) THEN -1
                ELSE IF has[p][n] < source THEN has[p][n] + 1 ELSE source
    IN  /\ has[p][n] # next /\ has' = [has EXCEPT ![p][n] = next]
        /\ UNCHANGED <<begVars, cfgVars, source, used, loopVars, mover, waitVars, monVars,
                       stopVars, panicked>>
-----------------------------------------------------------------------------
(* blance: the moves that take a pindex from one layout to another.  What  *)
(* a node gains comes before what a node loses.                            *)
OpOf(from, to) == IF to = "none" THEN "del" ELSE IF from = "none" THEN "add"
                  ELSE IF to = "primary" THEN "promote" ELSE "demote"

MovesOf(from, to) ==
    LET changed == {n \in Nodes : from[n] # to[n]}
        lost == {n \in changed : OpOf(from[n], to[n]) \in {"del", "demote"}}
        ns == SetToSeq(changed \ lost) \o SetToSeq(lost)
    IN [k \in DOMAIN ns |-> [node |-> ns[k], state |-> to[ns[k]],
                             op |-> OpOf(from[ns[k]], to[ns[k]])]]

(* Mutant: a node becomes a primary in one step, and is waited for after. *)
StateOpsDirect(move) == <<[state |-> move.state, op |-> move.op]>>

(* createPindexesMoves: a node becomes a primary in two steps. *)
StateOps(move) ==
    IF move.state # "primary" THEN <<[state |-> move.state, op |-> move.op]>>
    ELSE <<[state |-> "replica", op |-> move.op], [state |-> "primary", op |-> "promote"]>>

StateOp(n, p) == StateOps(Head(moves[p]))[mover[n].step]

(* Rebalancer.Stop: the orchestrator is told if it is known in r.o. *)
Stop ==
    /\ stopped' = TRUE
    /\ oState' = IF oState = "r.o" THEN "stopped" ELSE oState

CallerStops ==
    /\ limits.stops /\ run \notin {"start", "skipped"} /\ ~stopped /\ Unlocked
    /\ Stop
    /\ UNCHANGED <<begVars, cfgVars, nodeVars, used, loopVars, mover, waitVars, monVars,
                   panicked>>
-----------------------------------------------------------------------------
(* compareIndexDefsWithPlan: pindexes over all indexes, less the ones that *)
(* are planned.                                                            *)
NumPlanned(state) == Cardinality({x \in PIndexes \X Nodes : plan.at[x[1]][x[2]] = state})
MissingActives == Cardinality(PIndexes) - NumPlanned("primary")
MissingReplicas == FoldSet(LAMBDA p, n : limits.numReplicas[IndexOf(p)] + n, 0, PIndexes)
                   - NumPlanned("replica")

(* cmd.Failover, before the rebalance: for every primary that failed, a    *)
(* replica that did not is promoted, or, where there is none, the primary  *)
(* of a calculated plan is taken.                                          *)
FailedOver(at, calc) ==
    LET lost == limits.failover
        failed == {n \in lost : at[n] = "primary"}
        replicas == {n \in Nodes \ lost : at[n] = "replica"}
        short == Cardinality(failed) > Cardinality(replicas)
        assigned == IF short /\ limits.assignAll THEN {n \in Nodes \ lost : calc[n] = "primary"}
                    ELSE {}
    IN {[n \in Nodes |-> IF n \in lost THEN "none"
                         ELSE IF n \in promoted \cup assigned THEN "primary" ELSE at[n]] :
            promoted \in kSubset(Least(Cardinality(failed), Cardinality(replicas)), replicas)}

Failover ==
    /\ run = "start" /\ \E p \in PIndexes : Hosts(plan.at, p) \cap limits.failover # {}
    /\ \E at \in Layouts :
          /\ \A p \in PIndexes : at[p] \in FailedOver(plan.at[p], limits.end[p])
          /\ plan' = [plan EXCEPT !.at = at]
    /\ planCas' = planCas + 1
    /\ has' = [p \in PIndexes |-> [n \in Nodes |-> IF n \in limits.failover THEN -1
                                                   ELSE has[p][n]]]
    /\ UNCHANGED <<begVars, defs, seenDefs, source, used, loopVars, mover, waitVars, monVars,
                   stopVars, panicked>>

(* StartRebalance: without a reason to, nothing is started. *)
RebalanceIsNeeded ==
    \/ limits.nodesToAdd # {} \/ limits.nodesToRemove # {}
    \/ MissingActives # 0
    \/ MissingReplicas # 0 /\ \A p \in PIndexes : limits.numReplicas[IndexOf(p)] <=
                                  Cardinality(Nodes) - Cardinality(limits.nodesToRemove)

StartRebalance ==
    /\ run = "start" /\ \A p \in PIndexes : Hosts(plan.at, p) \cap limits.failover = {}
    /\ run' = IF RebalanceIsNeeded THEN "next" ELSE "skipped"
    /\ begPlan' = plan.at
    /\ UNCHANGED <<limits, cfgVars, nodeVars, used, todo, moves, mover, waitVars, monVars,
                   stopVars, panicked>>

StartFails ==
    /\ run = "start" /\ used.bad < limits.bad
    /\ used' = [used EXCEPT !.bad = @ + 1] /\ run' = "skipped"
    /\ UNCHANGED <<begVars, cfgVars, nodeVars, todo, moves, mover, waitVars, monVars, stopVars,
                   panicked>>


(* runRebalanceIndexes and rebalanceIndex. *)
BeginIndex(i) ==
    LET calc == [p \in PIndexes |-> IF IndexOf(p) = i THEN MovesOf(plan.at[p], limits.end[p])
                                    ELSE <<>>]
        same == \A p \in PIndexes : calc[p] = <<>>
    IN  /\ run = "next" /\ i \in todo /\ ~stopped /\ Unlocked
        /\ todo' = todo \ {i} /\ moves' = calc
        /\ run' = IF same THEN "next" ELSE "moving"
        /\ oState' = IF same THEN oState ELSE "started"
        /\ UNCHANGED <<begVars, cfgVars, nodeVars, used, mover, waitVars, monVars, stopped,
                       panicked>>

(* The plan could not be read. *)
BeginFails ==
    /\ run = "next" /\ todo # {} /\ ~stopped /\ used.bad < limits.bad
    /\ used' = [used EXCEPT !.bad = @ + 1] /\ todo' = {}
    /\ UNCHANGED <<begVars, cfgVars, nodeVars, moves, run, mover, waitVars, monVars, stopVars,
                   panicked>>

(* r.o = o, once the orchestrator is under way. *)
SetO ==
    /\ oState = "started" /\ Unlocked
    /\ oState' = "r.o"
    /\ UNCHANGED <<begVars, cfgVars, nodeVars, used, loopVars, mover, waitVars, monVars,
                   stopped, panicked>>

(* The orchestrator's channel of progress is closed. *)
IndexDone ==
    /\ run = "moving" /\ \A n \in Nodes : mover[n].pc = "idle"
    /\ \/ oState = "stopped"
       \/ oState = "r.o" /\ \A p \in PIndexes : moves[p] = <<>>
    /\ run' = "next" /\ oState' = "none" /\ moves' = [p \in PIndexes |-> <<>>]
    /\ UNCHANGED <<begVars, cfgVars, nodeVars, used, todo, mover, waitVars, monVars, stopped,
                   panicked>>

RunStops ==
    /\ run = "next" /\ (stopped \/ todo = {}) /\ Unlocked
    /\ Stop /\ run' = "stopping"
    /\ UNCHANGED <<begVars, cfgVars, nodeVars, used, todo, moves, mover, waitVars, monVars,
                   panicked>>

(* <-r.monitorDoneCh, close(r.progressCh). *)
MonitorIsDone == monitor = "gone"

RunCloses ==
    /\ run = "stopping" /\ MonitorIsDone
    /\ run' = "closed"
    /\ UNCHANGED <<begVars, cfgVars, nodeVars, used, todo, moves, mover, waitVars, monVars,
                   stopVars, panicked>>
-----------------------------------------------------------------------------
(* assignPIndexes for a node: for each step of its moves, the plan is      *)
(* changed and then waited for.                                            *)
MoverAt(n, pc) == mover[n].pc = pc
MoverGoes(n, pc) == mover' = [mover EXCEPT ![n].pc = pc]

Dispatch(n, ps) ==
    /\ oState \in {"started", "r.o"} /\ MoverAt(n, "idle")
    /\ ps # {} /\ \A p \in ps : moves[p] # <<>> /\ Head(moves[p]).node = n
    /\ mover' = [mover EXCEPT ![n] = [NoMover EXCEPT !.pc = "assign", !.ps = ps, !.batch = ps,
                                                     !.step = 1]]
    /\ UNCHANGED <<begVars, cfgVars, nodeVars, used, loopVars, waitVars, monVars, stopVars,
                   panicked>>

(* assignPIndexesLOCKED, in three steps as each is a call to the Cfg.  The *)
(* index is looked up by its name.                                         *)
AssignDefs(n) ==
    /\ MoverAt(n, "assign") /\ Unlocked
    /\ LET i == IndexOf(CHOOSE p \in mover[n].ps : TRUE)
       IN mover' = [mover EXCEPT ![n].pc = IF defs[i] = 0 THEN "moved" ELSE "plan",
                                 ![n].def = defs[i]]
    /\ UNCHANGED <<begVars, cfgVars, nodeVars, used, loopVars, waitVars, monVars, stopVars,
                   panicked>>

(* updatePlanPIndexesLOCKED.  A replica that is the first of its pindex    *)
(* gets priority 0, as a primary does.                                     *)
Misplaced(n, p) == (StateOp(n, p).op = "add") = (n \in Hosts(plan.at, p))

Placed(n, p) ==
    CASE StateOp(n, p).op = "del" -> "none"
      [] StateOp(n, p).op # "del" /\ Hosts(plan.at, p) = {} -> "primary"
      [] OTHER -> StateOp(n, p).state

AssignPlan(n) ==
    /\ MoverAt(n, "plan") /\ \A p \in mover[n].batch : ~Misplaced(n, p)
    /\ \E former \in [mover[n].batch -> Nodes \cup {NoNode}] :
          /\ \A p \in mover[n].batch :
                former[p] \in IF Primaries(plan.at, p) = {} THEN {NoNode}
                              ELSE Primaries(plan.at, p)
          /\ mover' = [mover EXCEPT
                 ![n].pc = "save", ![n].former = former, ![n].cas = planCas,
                 ![n].layout = [p \in PIndexes |-> IF p \in mover[n].batch
                                   THEN [plan.at[p] EXCEPT ![n] = Placed(n, p)]
                                   ELSE plan.at[p]],
                 ![n].others = plan.others]
    /\ UNCHANGED <<begVars, cfgVars, nodeVars, used, loopVars, waitVars, monVars, stopVars,
                   panicked>>

(* A node that should be in the plan is not: the index is looked up again, *)
(* and the message that it is gone asks it for its name.                   *)
AssignMisplaced(n) ==
    /\ MoverAt(n, "plan")
    /\ \E p \in mover[n].batch :
          /\ Misplaced(n, p)
          /\ panicked' = (StateOp(n, p).op # "add" /\ defs[IndexOf(p)] = 0)
    /\ MoverGoes(n, "failed")
    /\ UNCHANGED <<begVars, cfgVars, nodeVars, used, loopVars, waitVars, monVars, stopVars>>

(* A call to the Cfg fails. *)
AssignFails(n) ==
    /\ mover[n].pc \in {"assign", "plan", "save"} /\ (MoverAt(n, "assign") => Unlocked)
    /\ used.bad < limits.bad
    /\ used' = [used EXCEPT !.bad = @ + 1] /\ MoverGoes(n, "failed")
    /\ UNCHANGED <<begVars, cfgVars, nodeVars, loopVars, waitVars, monVars, stopVars, panicked>>

SetCasHolds(n) == mover[n].cas = planCas

(* waitAssignPIndexDone returns at once. *)
NoWait(n, p) ==
    \/ StateOp(n, p).op = "del"
    \/ StateOp(n, p).state = "replica" /\ Len(StateOps(Head(moves[p]))) = 1
    \/ mover[n].former[p] = NoNode

AssignSave(n) ==
    /\ MoverAt(n, "save") /\ SetCasHolds(n)
    /\ plan' = [at |-> mover[n].layout, others |-> mover[n].others]
    /\ planCas' = planCas + 1
    /\ mover' = [mover EXCEPT ![n].pc = "wait", ![n].layout = <<>>, ![n].others = 0,
                              ![n].cas = 0, ![n].former = <<>>]
    /\ waiter' = [p \in PIndexes |-> IF p \notin mover[n].batch THEN waiter[p]
                     ELSE [NoWaiter EXCEPT !.pc = IF NoWait(n, p) THEN "done" ELSE "want",
                              !.node = n, !.former = mover[n].former[p], !.def = mover[n].def]]
    /\ UNCHANGED <<begVars, defs, seenDefs, nodeVars, used, loopVars, wantSeqs, monVars,
                   stopVars, panicked>>

(* A concurrent planner won. *)
AssignLoses(n) ==
    /\ MoverAt(n, "save") /\ ~SetCasHolds(n)
    /\ MoverGoes(n, "failed")
    /\ UNCHANGED <<begVars, cfgVars, nodeVars, used, loopVars, waitVars, monVars, stopVars,
                   panicked>>

(* All the waiters of a step are back: errors end the moves, an index that *)
(* is gone ends them quietly, and else the moves with one more step go on. *)
Collect(n) ==
    LET ends == {waiter[p].pc : p \in mover[n].batch}
        more == {p \in mover[n].batch : Len(StateOps(Head(moves[p]))) > mover[n].step}
        goOn == ends = {"done"} /\ more # {}
    IN  /\ MoverAt(n, "wait") /\ ends \subseteq {"done", "noindex", "error"}
        /\ mover' = [mover EXCEPT
               ![n].pc = IF "error" \in ends THEN "failed" ELSE IF goOn THEN "assign"
                         ELSE "moved",
               ![n].batch = IF goOn THEN more ELSE {},
               ![n].step = IF goOn THEN @ + 1 ELSE 0, ![n].def = 0]
        /\ waiter' = [p \in PIndexes |-> IF p \in mover[n].batch THEN NoWaiter ELSE waiter[p]]
        /\ UNCHANGED <<begVars, cfgVars, nodeVars, used, loopVars, wantSeqs, monVars, stopVars,
                       panicked>>

(* assignPartitionsFunc returns: blance goes on with the next moves of the *)
(* pindexes.                                                               *)
Moved(n) ==
    /\ MoverAt(n, "moved")
    /\ moves' = [p \in PIndexes |-> IF p \in mover[n].ps THEN Tail(moves[p]) ELSE moves[p]]
    /\ mover' = [mover EXCEPT ![n] = NoMover]
    /\ UNCHANGED <<begVars, cfgVars, nodeVars, used, todo, run, waitVars, monVars, stopVars,
                   panicked>>

(* It reports the error and stops the rebalance; blance leaves the         *)
(* pindexes alone.                                                         *)
MoveFailed(n) ==
    /\ MoverAt(n, "failed") /\ Unlocked
    /\ Stop
    /\ moves' = [p \in PIndexes |-> IF p \in mover[n].ps THEN <<>> ELSE moves[p]]
    /\ mover' = [mover EXCEPT ![n] = NoMover]
    /\ UNCHANGED <<begVars, cfgVars, nodeVars, used, todo, run, waitVars, monVars, panicked>>
-----------------------------------------------------------------------------
(* waitAssignPIndexDone, for the one source partition of a pindex.         *)
WaiterAt(p, pc) == waiter[p].pc = pc /\ Unlocked
WaiterGoes(p, pc) == waiter' = [waiter EXCEPT ![p].pc = pc]
WaiterOnly == UNCHANGED <<begVars, cfgVars, nodeVars, used, loopVars, mover, monVars, stopVars,
                          panicked>>

(* INIT_WANT_SEQ: what the former primary was last seen at, which may need *)
(* another sample.                                                         *)
Want(p) ==
    LET w == waiter[p]
        known == wantSeqs[p][w.node] # NoSeq
        seen == currSeqs[p][w.former]
    IN  /\ WaiterAt(p, "want")
        /\ WaiterGoes(p, IF known \/ seen # NoSeq THEN "catch" ELSE "grab")
        /\ wantSeqs' = IF known \/ seen = NoSeq THEN wantSeqs
                       ELSE [wantSeqs EXCEPT ![p][w.node] = seen]
        /\ WaiterOnly

(* grabCurrentSample returned, with or without the pindex in the sample of *)
(* the former primary.                                                     *)
Grabbed(p) ==
    /\ WaiterAt(p, "grabbed")
    /\ \/ WaiterGoes(p, "want")
       \/ limits.timeouts /\ WaiterGoes(p, "catch")
    /\ UNCHANGED wantSeqs /\ WaiterOnly

Missing(p) ==
    /\ WaiterAt(p, "missing")
    /\ waiter' = [waiter EXCEPT
           ![p].pc = IF waiter[p].tries < ErrThreshold THEN "want" ELSE "noindex",
           ![p].tries = IF @ < ErrThreshold THEN @ + 1 ELSE 0]
    /\ UNCHANGED wantSeqs /\ WaiterOnly

(* uuidSeqReached.  A wanted number that was never learned is 0. *)
OrZero(seq) == IF seq = NoSeq THEN [seq |-> 0, source |-> 0] ELSE seq

uuidSeqReached(p, n) ==
    LET curr == currSeqs[p][n]
        want == OrZero(wantSeqs[p][n])
    IN curr # NoSeq /\ (curr.seq >= want.seq \/ curr.seq >= Least(want.source, curr.source))

(* CATCHUP_CUR_SEQ: a first look, and one for every sample.  The timer is  *)
(* started anew whenever the node is not where it was at the first look.   *)
CatchUp(p) ==
    LET n == waiter[p].node
        reached == uuidSeqReached(p, n)
    IN  /\ WaiterAt(p, "catch")
        /\ waiter' = [waiter EXCEPT
               ![p].pc = IF reached THEN "done" ELSE "sample",
               ![p].prev = IF reached THEN 0 ELSE OrZero(currSeqs[p][n]).seq]
        /\ UNCHANGED wantSeqs /\ WaiterOnly

(* Mutant: nobody looks whether the index is still there. *)
IndexIsNeverGone(p) == FALSE

IndexIsGone(p) == seenDefs[IndexOf(p)] # waiter[p].def

CheckSample(p) ==
    LET n == waiter[p].node
        reached == uuidSeqReached(p, n)
    IN  /\ WaiterAt(p, "check")
        /\ \/ WaiterGoes(p, IF IndexIsGone(p) THEN "noindex"
                            ELSE IF reached THEN "done" ELSE "sample")
           \/ /\ limits.timeouts /\ ~reached
              /\ OrZero(currSeqs[p][n]).seq = waiter[p].prev
              /\ WaiterGoes(p, "done")
        /\ UNCHANGED wantSeqs /\ WaiterOnly

(* stopCh or stopCh2 is closed while the waiter asks for a sample. *)
WaiterStops(p) ==
    /\ waiter[p].pc \in {"grab", "sample"} /\ (stopped \/ oState = "stopped")
    /\ WaiterGoes(p, "error")
    /\ UNCHANGED wantSeqs /\ WaiterOnly
-----------------------------------------------------------------------------
(* runMonitor: a sample of a node, which is either as the node is, or as   *)
(* it was when the rebalance began or the node was last seen; without the  *)
(* pindexes that the node does not have, and, if blind, without the        *)
(* sequence number of the source.                                          *)
InSample(n, fresh, blind, p) ==
    LET curr == currSeqs[p][n]
        seen == IF fresh THEN (IF has[p][n] < 0 THEN NoSeq
                               ELSE [seq |-> has[p][n], source |-> source])
                ELSE IF curr # NoSeq THEN curr
                ELSE IF n \in Hosts(begPlan, p) THEN [seq |-> BegSeq, source |-> BegSeq]
                ELSE NoSeq
    IN IF seen # NoSeq /\ blind THEN [seen EXCEPT !.source = 0] ELSE seen

(* The sampler of a node has one for the monitor. *)
Sampling == run \notin {"start", "skipped"} /\ monitor = "running" /\ Unlocked

Sample(n, fresh, blind) ==
    LET got == [p \in PIndexes |-> InSample(n, fresh, blind, p)]
    IN  /\ Sampling /\ (blind => limits.blind)
        /\ errMap' = [errMap EXCEPT ![n] = 0]
        /\ currSeqs' = [p \in PIndexes |-> IF got[p] = NoSeq THEN currSeqs[p]
                           ELSE [currSeqs[p] EXCEPT ![n] = got[p]]]
        /\ waiter' = [p \in PIndexes |-> [waiter[p] EXCEPT !.pc =
                         CASE @ = "sample" -> "check"
                           [] @ = "grab" -> IF waiter[p].former = n /\ got[p] = NoSeq
                                            THEN "missing" ELSE "grabbed"
                           [] OTHER -> @]]
        /\ UNCHANGED <<begVars, cfgVars, nodeVars, used, loopVars, mover, wantSeqs, monitor,
                       stopVars, panicked>>

(* An error, or an answer that cannot be read, which is not counted. *)
BadSample(n, garbled) ==
    LET tooMany == garbled \/ errMap[n] + 1 >= ErrThreshold
    IN  /\ Sampling /\ used.bad < limits.bad
        /\ used' = [used EXCEPT !.bad = @ + 1]
        /\ errMap' = [errMap EXCEPT ![n] = IF garbled THEN 0 ELSE @ + 1]
        /\ IF tooMany THEN Stop ELSE UNCHANGED stopVars
        /\ UNCHANGED <<begVars, cfgVars, nodeVars, loopVars, mover, waitVars, currSeqs, monitor,
                       panicked>>

MonitorExits ==
    /\ monitor = "running" /\ stopped
    /\ monitor' = "gone"
    /\ UNCHANGED <<begVars, cfgVars, nodeVars, used, loopVars, mover, waitVars, currSeqs,
                   errMap, stopVars, panicked>>
-----------------------------------------------------------------------------
Cluster ==
    \/ \E i \in Indexes : ChangeIndex(i)
    \/ RefreshDefs \/ OtherPlanner \/ Write \/ CallerStops
    \/ \E n \in Nodes, p \in PIndexes : NodeFollows(n, p)

Loop ==
    \/ \E i \in Indexes : BeginIndex(i)
    \/ Failover \/ StartRebalance \/ StartFails \/ BeginFails \/ SetO \/ IndexDone \/ RunStops \/ RunCloses

MoverStep(n) == AssignDefs(n) \/ AssignPlan(n) \/ AssignMisplaced(n) \/ AssignSave(n)
                \/ AssignLoses(n) \/ Collect(n) \/ Moved(n) \/ MoveFailed(n)

WaiterStep(p) == Want(p) \/ Grabbed(p) \/ Missing(p) \/ CatchUp(p) \/ CheckSample(p)
                 \/ WaiterStops(p)

Monitor ==
    \/ \E n \in Nodes, fresh, blind \in BOOLEAN : Sample(n, fresh, blind)
    \/ \E n \in Nodes, garbled \in BOOLEAN : BadSample(n, garbled)
    \/ MonitorExits

Next ==
    /\ ~panicked
    /\ \/ Cluster \/ Loop \/ Monitor
       \/ \E n \in Nodes, ps \in SUBSET PIndexes : Dispatch(n, ps)
       \/ \E n \in Nodes : MoverStep(n) \/ AssignFails(n)
       \/ \E p \in PIndexes : WaiterStep(p)

(* Goroutines that can go on do so, the orchestrator finds work for a node *)
(* that has some, nodes follow the plan and the source, the Manager hears  *)
(* of the indexes, and every node is sampled again and again, unless the   *)
(* sampler fails.                                                          *)
Fairness ==
    /\ WF_vars(Failover \/ StartRebalance) /\ WF_vars(~panicked /\ (\E i \in Indexes : BeginIndex(i)))
    /\ WF_vars(~panicked /\ (SetO \/ IndexDone)) /\ WF_vars(~panicked /\ (RunStops \/ RunCloses))
    /\ WF_vars(~panicked /\ MonitorExits) /\ WF_vars(~panicked /\ RefreshDefs)
    /\ \A n \in Nodes :
          /\ WF_vars(~panicked /\ (\E ps \in SUBSET PIndexes : Dispatch(n, ps)))
          /\ WF_vars(~panicked /\ MoverStep(n))
          /\ SF_vars(~panicked /\ Sample(n, TRUE, FALSE))
          /\ \A p \in PIndexes : WF_vars(~panicked /\ NodeFollows(n, p))
    /\ \A p \in PIndexes : WF_vars(~panicked /\ WaiterStep(p))

Spec == Init /\ [][Next]_vars /\ Fairness
-----------------------------------------------------------------------------
TypeOK ==
    /\ limits \in Scenarios /\ defs \in [Indexes -> 0..2] /\ seenDefs \in [Indexes -> 0..2]
    /\ plan.at \in Layouts /\ plan.others \in Nat /\ planCas \in Nat
    /\ source \in Nat /\ has \in [PIndexes -> [Nodes -> -1..source]]
    /\ todo \subseteq Indexes
    /\ \A p \in PIndexes : Len(moves[p]) <= Cardinality(Nodes)
    /\ oState \in {"none", "started", "r.o", "stopped"}
    /\ run \in {"start", "skipped", "next", "moving", "stopping", "closed"}
    /\ \A n \in Nodes : mover[n].pc \in {"idle", "assign", "plan", "save", "wait", "moved",
                                         "failed"}
    /\ \A p \in PIndexes : waiter[p].pc \in {"none", "want", "grab", "grabbed", "missing",
                              "catch", "sample", "check", "done", "noindex", "error"}
    /\ errMap \in [Nodes -> Nat]
    /\ monitor \in {"running", "gone"} /\ stopped \in BOOLEAN /\ panicked \in BOOLEAN

(* A pindex of an index that is there, of which some node that has not     *)
(* failed has a copy, has a primary that holds it all the time: a failover *)
(* promotes a copy, and whatever fails or is stopped in the rebalance, the *)
(* former primary goes only after another took over, which has indexed at  *)
(* least what a copy that has not failed had when the rebalance began      *)
(* (Failover, createPindexesMoves, waitAssignPIndexDone).  Exceptions are  *)
(* waits that may time out, and statistics that lack the source's sequence *)
(* number (uuidSeqReached).                                                *)
ServedByCaughtUp ==
    \A p \in PIndexes :
        (/\ defs[IndexOf(p)] = 1 /\ Hosts(limits.beg, p) \ limits.failover # {}
         /\ ~limits.timeouts)
            => /\ (Hosts(plan.at, p) \cap limits.failover = {} \/ run # "start")
                     => \E n \in Primaries(plan.at, p) : has[p][n] >= 0
               /\ (run # "start" /\ ~limits.blind)
                     => \A n \in Primaries(plan.at, p) : has[p][n] >= BegSeq

(* A rebalance comes to its end and closes progressCh, however indexes are *)
(* deleted, calls fail and callers stop it, unless an index was created    *)
(* again under its name: then one may wait for pindexes that are no more.  *)
(* It closes progressCh after the last that may be sent on it: no mover,   *)
(* waiter or monitor is left then (runRebalanceIndexes' deferred calls).   *)
RebalanceFinishes ==
    /\ <>(run \in {"skipped", "closed"} \/ panicked \/ \E i \in Indexes : defs[i] = 2)
    /\ [](run = "closed" => /\ monitor = "gone"
                           /\ \A n \in Nodes : mover[n].pc = "idle"
                           /\ \A p \in PIndexes : waiter[p].pc = "none")
=============================================================================
