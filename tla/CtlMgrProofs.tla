---------------------------- MODULE CtlMgrProofs ----------------------------
(***************************************************************************)
(* Proofs about Ctl and CtlMgr for every number of nodes, watchers and     *)
(* operations and for every scenario: topology changes run one at a time,  *)
(* whoever waits for the topology sees every change of it, and the list of *)
(* tasks does not drop a topology change that has failed.                  *)
(***************************************************************************)
EXTENDS CtlMgr, FiniteSetTheorems, TLAPS

Over == {"unlocked", "gone"}

(* The operations are numbered in the order they begin in. *)
OpsAreNumbered == \E k \in 0..MaxOps : Started = 1..k

(* An operation that has not begun is not over. *)
OverHasBegun == \A o \in OpIds : ops[o].pc \in Over => o \in Started

(* Only the operation whose done channel Ctl keeps is at work. *)
AtWorkIsKept ==
    (\A o \in Started : ops[o].kind \in TopologyKinds) => AtWork \subseteq {doneCh}

(* A last report in the channel is what its operation has come to. *)
Truthful(p) == ~p.exists => p.task \in OpIds /\ ops[p.task].pc \in Over /\ ops[p.task].errs = p.errs
ReportsAreTrue == \A i \in 1..Len(progressCh) : Truthful(progressCh[i])

OpFields == {"kind", "pc", "keep", "remove", "start", "errs", "stopped", "reporting", "reports", "wrote"}
Reports0 == [task : OpIds, exists : BOOLEAN, errs : BOOLEAN]

(* What is said of the operations. *)
OpsInv ==
    /\ DOMAIN ops = OpIds /\ \A o \in OpIds : DOMAIN ops[o] = OpFields /\ ops[o].errs \in BOOLEAN
    /\ OpsAreNumbered /\ OverHasBegun /\ AtWorkIsKept /\ doneCh \in Nat

(* Who sleeps has the current rev. *)
RevInv == DOMAIN atRev = {"ops", "call", "watchers"} /\ asleep \subseteq atRev.watchers

(* The call that is about to start an operation starts a topology change. *)
CallFits == api.call = "start" => api.kind \in TopologyKinds

TasksAreTasks == \A t \in tasks : DOMAIN t = {"id", "type", "stop", "failed"}

(* The inductive invariant. *)
CtlInv ==
    /\ OpsInv /\ RevInv /\ limits \in Scenarios
    /\ progressCh \in Seq(Reports0) /\ ReportsAreTrue
    /\ CallFits /\ TasksAreTasks
-----------------------------------------------------------------------------
(* The next operation has the next number. *)
LEMMA NewOpIs ==
    ASSUME OpsAreNumbered
    PROVE  \E k \in 0..MaxOps : Started = 1..k /\ NewOp = k + 1
<1>1. PICK k \in 0..MaxOps : Started = 1..k
    BY Zenon DEF OpsAreNumbered
<1>2. k \in Int /\ 1 \in Int /\ (1 > k => k = 0)
    BY <1>1, CtlAssumption
<1>3. Cardinality(Started) = IF 1 > k THEN 0 ELSE k - 1 + 1
    BY Zenon, <1>1, <1>2, FS_Interval
<1>4. NewOp = k + 1
    BY <1>2, <1>3 DEF NewOp
<1> QED
    BY Zenon, <1>1, <1>4

(* A step of the goroutine of an operation: the others are as they were,   *)
(* and once its cleanup is done its outcome does not change.               *)
Moves(o) ==
    /\ DOMAIN ops' = OpIds
    /\ \A q \in OpIds \ {o} : ops'[q] = ops[q]
    /\ DOMAIN ops'[o] = OpFields /\ ops'[o].kind = ops[o].kind /\ ops'[o].errs \in BOOLEAN
    /\ ops[o].pc \in Over => ops'[o].pc \in Over /\ ops'[o].errs = ops[o].errs
    /\ ops'[o].pc \in Over => o \in Started

(* A last report that is true stays true. *)
OutcomesStay == \A p \in Reports0 : Truthful(p) => Truthful(p)'

(* Nothing happens to the operations. *)
LEMMA OpsRest ==
    ASSUME OpsInv, UNCHANGED <<ops, doneCh>>
    PROVE  OpsInv' /\ OutcomesStay
<1>1. Started' = Started /\ AtWork' = AtWork
    BY Zenon DEF Started, AtWork
<1> QED
    BY Zenon, <1>1 DEF OpsInv, OpsAreNumbered, OverHasBegun, AtWorkIsKept, OutcomesStay, Truthful

(* One operation makes a step, and may come to its end. *)
LEMMA OpsMove ==
    ASSUME OpsInv, NEW o \in OpIds, Moves(o),
           \/ doneCh' = doneCh
           \/ doneCh' = 0 /\ doneCh = o /\ ops'[o].pc \in Over
    PROVE  OpsInv' /\ OutcomesStay
<1>1. \A q \in OpIds : ops'[q].kind = ops[q].kind /\ (ops[q].pc \in Over => ops'[q].pc \in Over)
    BY Zenon DEF Moves
<1>2. Started' = Started
    BY Zenon, <1>1 DEF Started
<1>3. AtWork' \subseteq AtWork
    BY Zenon, <1>1, <1>2 DEF AtWork, Started, Over
<1>4. OverHasBegun'
    BY Zenon, <1>2 DEF OverHasBegun, Moves, OpsInv
<1>5. AtWorkIsKept'
    <2>1. SUFFICES ASSUME \A q \in Started : ops[q].kind \in TopologyKinds, NEW q \in AtWork'
                   PROVE  q = doneCh'
        BY Zenon, <1>1, <1>2 DEF AtWorkIsKept, Started
    <2>2. q = doneCh
        BY Zenon, <2>1, <1>3 DEF OpsInv, AtWorkIsKept
    <2>3. q = o => ops'[o].pc \notin Over
        BY Zenon, <2>1 DEF AtWork, Over
    <2> QED
        BY Zenon, <2>2, <2>3
<1>6. OutcomesStay
    BY Zenon DEF OutcomesStay, Truthful, Moves, Reports0
<1>7. /\ DOMAIN ops' = OpIds
      /\ \A q \in OpIds : DOMAIN ops'[q] = OpFields /\ ops'[q].errs \in BOOLEAN
    BY Zenon DEF Moves, OpsInv
<1>8. doneCh' \in Nat
    BY DEF OpsInv
<1> QED
    BY Zenon, <1>2, <1>4, <1>5, <1>6, <1>7, <1>8 DEF OpsInv, OpsAreNumbered

(* The next operation is there. *)
Begins(kind, r) ==
    /\ ops' = [ops EXCEPT ![NewOp] = r]
    /\ DOMAIN r = OpFields /\ r.kind = kind /\ r.pc \notin Over /\ r.errs = FALSE

(* An operation begins: a topology change when there is no other, or a     *)
(* hibernation at any time.                                                *)
LEMMA OpsBegin ==
    ASSUME OpsInv, NEW kind \in Kinds, NEW r, Begins(kind, r), doneCh' = NewOp,
           \/ kind \in TopologyKinds /\ doneCh = 0
           \/ kind \notin TopologyKinds /\ NewOp \in OpIds
    PROVE  OpsInv' /\ OutcomesStay
<1>1. PICK k \in 0..MaxOps : Started = 1..k /\ NewOp = k + 1
    BY Zenon, NewOpIs DEF OpsInv
<1>2. NewOp \notin Started /\ doneCh' \in Nat /\ (NewOp \in OpIds => k + 1 \in 0..MaxOps)
    BY <1>1, CtlAssumption DEF OpIds
<1>3. DOMAIN ops' = OpIds /\ \A q \in OpIds : q # NewOp => ops'[q] = ops[q]
    BY Zenon DEF Begins, OpsInv
<1>4. NewOp \in OpIds => ops'[NewOp] = r
    BY Zenon DEF Begins, OpsInv
<1>5. kind # "none"
    BY Zenon DEF Kinds
<1>6. \A q \in OpIds : q \in Started' <=> (q \in Started \/ q = NewOp)
    BY Zenon, <1>2, <1>3, <1>4, <1>5 DEF Started, Begins
<1>7. OpsAreNumbered'
    <2>1. CASE NewOp \in OpIds
        <3>1. Started' = 1..(k + 1)
            BY <2>1, <1>1, <1>2, <1>6, CtlAssumption DEF OpIds, Started
        <3> QED
            BY Zenon, <3>1, <2>1, <1>2 DEF OpsAreNumbered
    <2>2. CASE NewOp \notin OpIds
        <3>1. Started' = Started
            BY Zenon, <2>2, <1>6 DEF Started
        <3> QED
            BY Zenon, <3>1, <1>1 DEF OpsAreNumbered
    <2> QED
        BY Zenon, <2>1, <2>2
<1>8. OverHasBegun'
    BY Zenon, <1>3, <1>4, <1>6 DEF OverHasBegun, OpsInv, Begins
<1>9. AtWorkIsKept'
    <2>1. CASE kind \notin TopologyKinds /\ NewOp \in OpIds
        <3>1. NewOp \in Started' /\ ops'[NewOp].kind \notin TopologyKinds
            BY Zenon, <2>1, <1>4, <1>6 DEF Begins
        <3> QED
            BY Zenon, <3>1 DEF AtWorkIsKept
    <2>2. CASE kind \in TopologyKinds /\ doneCh = 0
        <3>1. SUFFICES ASSUME \A q \in Started' : ops'[q].kind \in TopologyKinds, NEW q \in AtWork'
                       PROVE  q = NewOp
            BY Zenon DEF AtWorkIsKept
        <3>2. \A p \in Started : p # NewOp /\ p \in OpIds /\ p \in Started' /\ ops'[p] = ops[p]
            BY Zenon, <1>2, <1>3, <1>6 DEF Started
        <3>3. \A p \in Started : ops[p].kind \in TopologyKinds
            BY Zenon, <3>1, <3>2
        <3>4. AtWork \subseteq {0}
            BY Zenon, <3>3, <2>2 DEF OpsInv, AtWorkIsKept
        <3>5. q # NewOp => q \in AtWork
            BY Zenon, <3>1, <1>3, <1>6 DEF AtWork, Started
        <3>6. q \in OpIds /\ 0 \notin OpIds
            BY <3>1 DEF AtWork, Started, OpIds
        <3> QED
            BY Zenon, <3>4, <3>5, <3>6
    <2> QED
        BY Zenon, <2>1, <2>2
<1>10. OutcomesStay
    <2>1. \A o \in OpIds : ops[o].pc \in Over => ops'[o] = ops[o]
        BY Zenon, <1>2, <1>3 DEF OpsInv, OverHasBegun
    <2> QED
        BY Zenon, <2>1 DEF OutcomesStay, Truthful
<1>11. \A q \in OpIds : DOMAIN ops'[q] = OpFields /\ ops'[q].errs \in BOOLEAN
    BY Zenon, <1>3, <1>4 DEF OpsInv, Begins
<1> QED
    BY Zenon, <1>2, <1>3, <1>7, <1>8, <1>9, <1>10, <1>11 DEF OpsInv
-----------------------------------------------------------------------------
(* The channel of progress: what is in it stays true. *)
LEMMA ChannelKeeps ==
    ASSUME progressCh \in Seq(Reports0), ReportsAreTrue, OutcomesStay,
           \/ progressCh' = progressCh
           \/ progressCh # <<>> /\ progressCh' = Tail(progressCh)
           \/ \E p \in Reports0 : Truthful(p)' /\ progressCh' = Append(progressCh, p)
    PROVE  progressCh' \in Seq(Reports0) /\ ReportsAreTrue'
<1>1. PICK s \in Seq(Reports0) : s = progressCh
    BY Zenon
<1>2. \A i \in 1..Len(s) : s[i] \in Reports0
    OBVIOUS
<1>3. \A i \in 1..Len(s) : Truthful(s[i])'
    BY Zenon, <1>1, <1>2 DEF ReportsAreTrue, OutcomesStay
<1>4. ASSUME NEW t \in Seq(Reports0), t = progressCh', \A i \in 1..Len(t) : Truthful(t[i])'
      PROVE  progressCh' \in Seq(Reports0) /\ ReportsAreTrue'
    BY Zenon, <1>4 DEF ReportsAreTrue
<1>5. CASE progressCh' = progressCh
    BY Zenon, <1>1, <1>3, <1>4, <1>5
<1>6. CASE progressCh # <<>> /\ progressCh' = Tail(progressCh)
    <2>1. PICK t \in Seq(Reports0) : t = progressCh'
        BY <1>1, <1>6
    <2>2. \A i \in 1..Len(t) : t[i] = s[i + 1] /\ i + 1 \in 1..Len(s)
        BY <1>1, <1>6, <2>1
    <2>3. \A i \in 1..Len(t) : Truthful(t[i])'
        BY Zenon, <1>3, <2>2
    <2> QED
        BY Zenon, <1>4, <2>1, <2>3
<1>7. CASE \E p \in Reports0 : Truthful(p)' /\ progressCh' = Append(progressCh, p)
    <2>1. PICK p \in Reports0 : Truthful(p)' /\ progressCh' = Append(progressCh, p)
        BY Zenon, <1>7
    <2>2. PICK t \in Seq(Reports0) : t = progressCh'
        BY <1>1, <2>1
    <2>3. \A i \in 1..Len(t) : t[i] = p \/ (i \in 1..Len(s) /\ t[i] = s[i])
        BY <1>1, <2>1, <2>2
    <2>4. \A i \in 1..Len(t) : Truthful(t[i])'
        BY Zenon, <1>3, <2>1, <2>3
    <2> QED
        BY Zenon, <1>4, <2>2, <2>4
<1> QED
    BY Zenon, <1>5, <1>6, <1>7
-----------------------------------------------------------------------------
(* One goroutine's record becomes another. *)
GoesTo(o, r) ==
    /\ ops' = [ops EXCEPT ![o] = r]
    /\ DOMAIN r = OpFields /\ r.kind = ops[o].kind /\ r.errs \in BOOLEAN
    /\ ops[o].pc \in Over => r.pc \in Over /\ r.errs = ops[o].errs
    /\ r.pc \in Over => ops[o].pc \in Over \/ ops[o].kind # "none"

(* That is a step of its own. *)
LEMMA MovesTo ==
    ASSUME OpsInv, NEW o \in OpIds, \E r : GoesTo(o, r)
    PROVE  Moves(o)
<1>0. PICK r : GoesTo(o, r)
    BY Zenon
<1>1. DOMAIN ops' = OpIds /\ ops'[o] = r /\ \A q \in OpIds \ {o} : ops'[q] = ops[q]
    BY Zenon, <1>0 DEF OpsInv, GoesTo
<1>2. r.pc \in Over => o \in Started
    BY Zenon, <1>0 DEF OpsInv, OverHasBegun, Started, GoesTo
<1> QED
    BY Zenon, <1>0, <1>1, <1>2 DEF Moves, GoesTo

(* The steps of an operation's goroutine but for its cleanup. *)
LEMMA OpMoves ==
    ASSUME OpsInv, NEW o \in OpIds, NEW out,
           \/ Begin(o, out) \/ WaitForWantedNodes(o, out) \/ StartRebalance(o, out) \/ RebalanceEnds(o, out)
           \/ StopsRunning(o) \/ ReportingEnds(o) \/ Reports(o) \/ PlannerSteps(o, out) \/ CleanupDone(o)
           \/ HibernateStart(o, out) \/ HibernateDefs(o) \/ HibernateEnds(o, out)
    PROVE  Moves(o) /\ UNCHANGED doneCh
<1>0. DOMAIN ops = OpIds /\ DOMAIN ops[o] = OpFields /\ ops[o].errs \in BOOLEAN
    BY Zenon DEF OpsInv
<1>1. CASE Begin(o, out)
    <2>1. \E r : GoesTo(o, r)
        BY <1>0, <1>1 DEF GoesTo, Begin, Fails, Over, OpFields
    <2>2. doneCh' = doneCh
        BY Zenon, <1>1 DEF Begin, chans
    <2> QED
        BY Zenon, <2>1, <2>2, MovesTo
<1>2. CASE WaitForWantedNodes(o, out)
    <2>1. \E r : GoesTo(o, r)
        BY <1>0, <1>2 DEF GoesTo, WaitForWantedNodes, Fails, Over, OpFields
    <2>2. doneCh' = doneCh
        BY Zenon, <1>2 DEF WaitForWantedNodes, chans
    <2> QED
        BY Zenon, <2>1, <2>2, MovesTo
<1>3. CASE StopsRunning(o)
    <2>1. \E r : GoesTo(o, r)
        <3>1. PICK r : r = [ops[o] EXCEPT !.stopped = TRUE, !.pc = "cleanup"]
            BY Zenon
        <3>2. ops' = [ops EXCEPT ![o] = r]
            BY Zenon, <1>0, <1>3, <3>1 DEF StopsRunning
        <3>3. DOMAIN r = OpFields /\ r.kind = ops[o].kind /\ r.errs = ops[o].errs /\ r.pc = "cleanup" /\ ops[o].pc = "run"
            BY Zenon, <1>0, <1>3, <3>1 DEF StopsRunning, OpFields
        <3> QED
            BY Zenon, <1>0, <3>2, <3>3 DEF GoesTo, Over
    <2>2. doneCh' = doneCh
        BY <1>3 DEF StopsRunning, chans
    <2> QED
        BY Zenon, <2>1, <2>2, MovesTo
<1>4. CASE ReportingEnds(o)
    <2>1. \E r : GoesTo(o, r)
        <3>1. PICK r : r = [ops[o] EXCEPT !.reporting = FALSE]
            BY Zenon
        <3>2. ops' = [ops EXCEPT ![o] = r]
            BY Zenon, <1>0, <1>4, <3>1 DEF ReportingEnds
        <3>3. DOMAIN r = OpFields /\ r.kind = ops[o].kind /\ r.errs = ops[o].errs /\ r.pc = ops[o].pc
            BY <1>0, <1>4, <3>1 DEF ReportingEnds, OpFields
        <3> QED
            BY Zenon, <1>0, <3>2, <3>3 DEF GoesTo
    <2>2. doneCh' = doneCh
        BY <1>4 DEF ReportingEnds, chans
    <2> QED
        BY Zenon, <2>1, <2>2, MovesTo
<1>5. CASE Reports(o)
    <2>1. \E r : GoesTo(o, r)
        <3>1. PICK r : r = [ops[o] EXCEPT !.reports = @ + 1]
            BY Zenon
        <3>2. ops' = [ops EXCEPT ![o] = r]
            BY Zenon, <1>0, <1>5, <3>1 DEF Reports
        <3>3. DOMAIN r = OpFields /\ r.kind = ops[o].kind /\ r.errs = ops[o].errs /\ r.pc = ops[o].pc
            BY Zenon, <1>0, <1>5, <3>1 DEF Reports, OpFields
        <3> QED
            BY Zenon, <1>0, <3>2, <3>3 DEF GoesTo
    <2>2. doneCh' = doneCh
        BY Zenon, <1>5 DEF Reports, chans
    <2> QED
        BY Zenon, <2>1, <2>2, MovesTo
<1>6. CASE PlannerSteps(o, out)
    <2>1. \E r : GoesTo(o, r)
        <3>1. (out # "ok") \in BOOLEAN
            OBVIOUS
        <3>2. PICK e \in BOOLEAN : ops' = [ops EXCEPT ![o].errs = e, ![o].pc = "cleanup"] /\ ops[o].pc = "steps"
            BY Zenon, <1>6, <3>1 DEF PlannerSteps
        <3>3. PICK r : r = [ops[o] EXCEPT !.errs = e, !.pc = "cleanup"]
            BY Zenon
        <3>4. ops' = [ops EXCEPT ![o] = r]
            BY Zenon, <1>0, <3>2, <3>3
        <3>5. DOMAIN r = OpFields /\ r.kind = ops[o].kind /\ r.errs = e /\ r.pc = "cleanup"
            BY <1>0, <3>3 DEF OpFields
        <3> QED
            BY Zenon, <3>2, <3>4, <3>5 DEF GoesTo, Over
    <2>2. doneCh' = doneCh
        BY Zenon, <1>6 DEF PlannerSteps, chans
    <2> QED
        BY Zenon, <2>1, <2>2, MovesTo
<1>7. CASE HibernateStart(o, out)
    <2>1. \E r : GoesTo(o, r)
        BY <1>0, <1>7 DEF GoesTo, HibernateStart, Fails, Over, OpFields
    <2>2. doneCh' = doneCh
        BY Zenon, <1>7 DEF HibernateStart, chans
    <2> QED
        BY Zenon, <2>1, <2>2, MovesTo
<1>8. CASE HibernateDefs(o)
    <2>1. \E r : GoesTo(o, r)
        BY Zenon, <1>0, <1>8 DEF GoesTo, HibernateDefs, Over, OpFields
    <2>2. doneCh' = doneCh
        BY Zenon, <1>8 DEF HibernateDefs, chans
    <2> QED
        BY Zenon, <2>1, <2>2, MovesTo
<1>9. CASE HibernateEnds(o, out)
    <2>1. \E r : GoesTo(o, r)
        BY <1>0, <1>9 DEF GoesTo, HibernateEnds, Over, OpFields
    <2>2. doneCh' = doneCh
        BY Zenon, <1>9 DEF HibernateEnds, chans
    <2> QED
        BY Zenon, <2>1, <2>2, MovesTo
<1>10. CASE CleanupDone(o)
    <2>1. \E r : GoesTo(o, r)
        BY Zenon, <1>0, <1>10 DEF GoesTo, CleanupDone, GoTo, Over, OpFields
    <2>2. doneCh' = doneCh
        BY Zenon, <1>10 DEF CleanupDone, chans
    <2> QED
        BY Zenon, <2>1, <2>2, MovesTo
<1>11. CASE StartRebalance(o, out)
    <2>1. \/ Fails(o) \/ GoTo(o, "steps") \/ GoTo(o, "cleanup")
          \/ ops' = [ops EXCEPT ![o].start = defs, ![o].reporting = TRUE, ![o].pc = "run"]
        BY Zenon, <1>11 DEF StartRebalance
    <2>2. ops[o].pc = "loop" /\ doneCh' = doneCh
        <3>1. ops[o].pc = "loop" /\ UNCHANGED chans
            BY Zenon, <1>11 DEF StartRebalance
        <3> QED
            BY Zenon, <3>1 DEF chans
    <2>3. \E r : GoesTo(o, r)
        BY <1>0, <2>1, <2>2 DEF GoesTo, Fails, GoTo, Over, OpFields
    <2> QED
        BY Zenon, <2>2, <2>3, MovesTo
<1>12. CASE RebalanceEnds(o, out)
    <2>1. \E e \in BOOLEAN, pc \in {"cleanup", "steps", "loop"} :
             ops' = [ops EXCEPT ![o].reporting = FALSE, ![o].errs = e, ![o].pc = pc]
        <3> DEFINE next == CASE out \in {"error", "read"} -> "cleanup"
                             [] ops[o].start = defs -> "steps"
                             [] OTHER -> "loop"
        <3>1. next \in {"cleanup", "steps", "loop"}
            BY Zenon
        <3>2. ops' = [ops EXCEPT ![o].reporting = FALSE, ![o].errs = out \in {"error", "read"}, ![o].pc = next]
            BY Zenon, <1>12 DEF RebalanceEnds
        <3>3. (out \in {"error", "read"}) \in BOOLEAN
            OBVIOUS
        <3> HIDE DEF next
        <3> QED
            BY Zenon, <3>1, <3>2, <3>3
    <2>2. ops[o].pc = "run" /\ doneCh' = doneCh
        <3>1. ops[o].pc = "run" /\ UNCHANGED chans
            BY Zenon, <1>12 DEF RebalanceEnds
        <3> QED
            BY Zenon, <3>1 DEF chans
    <2>3. \E r : GoesTo(o, r)
        BY <1>0, <2>1, <2>2 DEF GoesTo, Over, OpFields
    <2> QED
        BY Zenon, <2>2, <2>3, MovesTo
<1> QED
    BY Zenon, <1>1, <1>2, <1>3, <1>4, <1>5, <1>6, <1>7, <1>8, <1>9, <1>10, <1>11, <1>12
-----------------------------------------------------------------------------
(* Who sleeps is woken when the members or the change become others. *)
RevStep ==
    /\ RevInv'
    /\ UNCHANGED <<memberNodes, change>> \/ atRev'.watchers = {}

(* A new rev. *)
LEMMA RevBump ==
    ASSUME NEW h, DOMAIN h = {"ops", "call", "watchers"}, h.watchers = {}, incRevNumLOCKED(h)
    PROVE  RevStep
BY Zenon DEF RevStep, RevInv, incRevNumLOCKED

(* The rev and what it stands for are as they were. *)
LEMMA RevRest ==
    ASSUME RevInv, UNCHANGED revVars, UNCHANGED <<memberNodes, change>>
    PROVE  RevStep
<1>1. atRev' = atRev /\ asleep' = asleep
    BY Zenon DEF revVars
<1> QED
    BY Zenon, <1>1 DEF RevStep, RevInv

(* Nobody holds the rev that incRevNumLOCKED makes, but for an operation.  *)
LEMMA NobodyIs ==
    ASSUME NEW os
    PROVE  LET h == [Nobody EXCEPT !.ops = os]
           IN  /\ DOMAIN h = {"ops", "call", "watchers"} /\ h.watchers = {}
               /\ DOMAIN Nobody = {"ops", "call", "watchers"} /\ Nobody.watchers = {}
BY Zenon DEF Nobody

(* What a step of Ctl keeps. *)
Keeps == OpsInv' /\ OutcomesStay /\ RevStep /\ limits' = limits

(* The steps of an operation's goroutine but for its cleanup. *)
LEMMA OpKeeps ==
    ASSUME OpsInv, RevInv, NEW o \in OpIds, NEW out,
           \/ Begin(o, out) \/ WaitForWantedNodes(o, out) \/ StartRebalance(o, out) \/ RebalanceEnds(o, out)
           \/ StopsRunning(o) \/ ReportingEnds(o) \/ Reports(o) \/ PlannerSteps(o, out) \/ CleanupDone(o)
           \/ HibernateStart(o, out) \/ HibernateDefs(o) \/ HibernateEnds(o, out)
    PROVE  Keeps
<1>1. Moves(o) /\ doneCh' = doneCh
    BY Zenon, OpMoves
<1>2. UNCHANGED revVars /\ UNCHANGED chans /\ memberNodes' = memberNodes /\ (UNCHANGED bounds \/ limits' = limits)
    BY Zenon DEF Begin, WaitForWantedNodes, StartRebalance, RebalanceEnds, StopsRunning, ReportingEnds, Reports,
                 PlannerSteps, CleanupDone, HibernateStart, HibernateDefs, HibernateEnds
<1>3. change' = change /\ limits' = limits
    BY Zenon, <1>2 DEF chans, bounds
<1> QED
    BY Zenon, <1>1, <1>2, <1>3, OpsMove, RevRest DEF Keeps

(* The cleanup, which lets go of Ctl's channels if they are its own. *)
LEMMA CleanupKeeps ==
    ASSUME OpsInv, RevInv, NEW o \in OpIds, NEW out, Cleanup(o, out) \/ HibernateCleanup(o)
    PROVE  Keeps /\ ops'[o].pc \in Over
<1>1. \E e \in BOOLEAN : Left(o, e)
    <2>1. (ops[o].errs \/ out # "ok") \in BOOLEAN /\ ops[o].errs \in BOOLEAN
        BY Zenon DEF OpsInv
    <2> QED
        BY Zenon, <2>1 DEF Cleanup, HibernateCleanup
<1>2. PICK e \in BOOLEAN : Left(o, e)
    BY Zenon, <1>1
<1>3. PICK r : r = [NoOp EXCEPT !.kind = ops[o].kind, !.errs = e, !.reporting = ops[o].reporting,
                                !.reports = ops[o].reports, !.pc = "unlocked"]
    BY Zenon
<1>4. ops' = [ops EXCEPT ![o] = r]
    BY Zenon, <1>2, <1>3 DEF Left
<1>5. ops[o].pc = "cleanup" /\ ops[o].kind # "none"
    <2>1. ops[o].pc = "cleanup" /\ ops[o].kind \in TopologyKinds \cup {"pause", "resume"}
        BY Zenon DEF Cleanup, HibernateCleanup
    <2> QED
        BY Zenon, <2>1 DEF TopologyKinds
<1>6. DOMAIN r = OpFields /\ r.kind = ops[o].kind /\ r.errs = e /\ r.pc = "unlocked"
    BY Zenon, <1>3 DEF NoOp, OpFields
<1>7. GoesTo(o, r)
    BY Zenon, <1>2, <1>4, <1>5, <1>6 DEF GoesTo, Over
<1>8. Moves(o) /\ ops'[o].pc \in Over
    BY Zenon, <1>4, <1>6, <1>7, MovesTo DEF OpsInv, Over
<1>9. doneCh' = doneCh \/ (doneCh' = 0 /\ doneCh = o)
    BY Zenon DEF Cleanup, HibernateCleanup, Release
<1>10. RevStep /\ limits' = limits
    <2>1. CASE Cleanup(o, out)
        BY Zenon, <2>1, NobodyIs, RevBump DEF Cleanup
    <2>2. CASE HibernateCleanup(o)
        <3>1. UNCHANGED revVars /\ UNCHANGED bounds /\ UNCHANGED <<memberNodes, change>>
            BY Zenon, <2>2 DEF HibernateCleanup
        <3>2. limits' = limits
            BY Zenon, <3>1 DEF bounds
        <3> QED
            BY Zenon, <3>1, <3>2, RevRest
    <2> QED
        BY Zenon, <2>1, <2>2
<1> QED
    BY Zenon, <1>8, <1>9, <1>10, OpsMove DEF Keeps

(* A topology change begins, when the last operation is over. *)
LEMMA StartKeeps ==
    ASSUME OpsInv, RevInv, NEW kind \in TopologyKinds, NEW keep, doneCh = 0, startCtlLOCKED(kind, keep)
    PROVE  OpsInv' /\ OutcomesStay /\ RevStep
<1>1. PICK r : r = [NoOp EXCEPT !.kind = kind, !.keep = keep, !.pc = "begin"]
    BY Zenon
<1>2. Begins(kind, r)
    <2>1. DOMAIN r = OpFields /\ r.kind = kind /\ r.pc \notin Over /\ r.errs = FALSE
        BY Zenon, <1>1 DEF NoOp, OpFields, Over
    <2>2. ops' = [ops EXCEPT ![NewOp] = r]
        BY Zenon, <1>1 DEF startCtlLOCKED
    <2> QED
        BY Zenon, <2>1, <2>2 DEF Begins
<1>3. kind \in Kinds
    BY Zenon DEF Kinds, TopologyKinds
<1>4. RevStep
    BY Zenon, NobodyIs, RevBump DEF startCtlLOCKED
<1> QED
    BY Zenon, <1>2, <1>3, <1>4, OpsBegin DEF startCtlLOCKED

(* A hibernation begins. *)
LEMMA HibernationKeeps ==
    ASSUME OpsInv, RevInv, NEW kind \in {"pause", "resume"}, NewOp \in OpIds, startHibernation(kind)
    PROVE  Keeps
<1>1. PICK r : r = [NoOp EXCEPT !.kind = kind, !.pc = "start"]
    BY Zenon
<1>2. Begins(kind, r)
    <2>1. DOMAIN r = OpFields /\ r.kind = kind /\ r.pc \notin Over /\ r.errs = FALSE
        BY Zenon, <1>1 DEF NoOp, OpFields, Over
    <2>2. ops' = [ops EXCEPT ![NewOp] = r]
        BY Zenon, <1>1 DEF startHibernation
    <2> QED
        BY Zenon, <2>1, <2>2 DEF Begins
<1>3. kind \in Kinds /\ kind \notin TopologyKinds
    BY Zenon DEF Kinds, TopologyKinds
<1>4. UNCHANGED revVars /\ UNCHANGED bounds /\ UNCHANGED <<memberNodes, change>> /\ doneCh' = NewOp
    BY Zenon DEF startHibernation
<1>5. limits' = limits
    BY Zenon, <1>4 DEF bounds
<1> QED
    BY Zenon, <1>2, <1>3, <1>4, <1>5, OpsBegin, RevRest DEF Keeps
-----------------------------------------------------------------------------
(* What a step of CtlMgr does to the channel. *)
ChanStep ==
    \/ progressCh' = progressCh
    \/ progressCh # <<>> /\ progressCh' = Tail(progressCh)
    \/ \E p \in Reports0 : Truthful(p)' /\ progressCh' = Append(progressCh, p)

(* A report of an operation. *)
LEMMA ProgressKeeps ==
    ASSUME NEW o \in OpIds, NEW exists \in BOOLEAN, NEW errs \in BOOLEAN, updateProgress(o, exists, errs),
           exists \/ (ops'[o].pc \in Over /\ ops'[o].errs = errs)
    PROVE  ChanStep
<1>1. PICK p : p = [task |-> o, exists |-> exists, errs |-> errs]
    BY Zenon
<1>2. p \in Reports0 /\ p.task = o /\ p.exists = exists /\ p.errs = errs
    BY Zenon, <1>1 DEF Reports0
<1>3. Truthful(p)'
    BY Zenon, <1>2 DEF Truthful
<1> QED
    BY Zenon, <1>1, <1>2, <1>3 DEF updateProgress, ChanStep

(* A topology change that has failed stays in the list, unless its task    *)
(* is cancelled.                                                           *)
FailureStays ==
    \A t \in tasks :
       (t.type \in TopologyKinds /\ ~ \E u \in tasks' : u.id = t.id /\ u.type = t.type)
          => \/ ops[t.id].pc \in {"unlocked", "gone"} /\ ~ops[t.id].errs
             \/ progressCh' = progressCh

(* What a step of CtlMgr keeps. *)
MgrKeeps == Keeps /\ ChanStep /\ CallFits' /\ TasksAreTasks' /\ FailureStays

(* The list and the call are as they were. *)
LEMMA ListRests ==
    ASSUME CallFits, TasksAreTasks, tasks' = tasks, api' = api
    PROVE  CallFits' /\ TasksAreTasks' /\ FailureStays
BY Zenon DEF CallFits, TasksAreTasks, FailureStays

(* The channel is as it was, and the tasks are tasks. *)
LEMMA ChannelRests ==
    ASSUME progressCh' = progressCh
    PROVE  ChanStep /\ FailureStays
BY Zenon DEF ChanStep, FailureStays

(* The operations are as they were, and the rev is too or is a new one. *)
LEMMA CtlRests ==
    ASSUME OpsInv, RevInv, ops' = ops, doneCh' = doneCh, limits' = limits,
           \/ UNCHANGED revVars /\ UNCHANGED <<memberNodes, change>>
           \/ incRevNumLOCKED(Nobody)
    PROVE  Keeps
<1>1. RevStep
    BY Zenon, RevRest, RevBump, NobodyIs
<1> QED
    BY Zenon, <1>1, OpsRest DEF Keeps

(* All of Ctl is as it was. *)
LEMMA CtlSame ==
    ASSUME OpsInv, RevInv, UNCHANGED ctlVars
    PROVE  Keeps
<1>1. UNCHANGED bounds /\ UNCHANGED revVars /\ UNCHANGED chans /\ memberNodes' = memberNodes /\ ops' = ops
    BY Zenon DEF ctlVars
<1>2. limits' = limits /\ doneCh' = doneCh /\ change' = change
    BY Zenon, <1>1 DEF bounds, chans
<1> QED
    BY Zenon, <1>1, <1>2, CtlRests

(* The tasks that there are, and one more or some less. *)
LEMMA TaskIs ==
    ASSUME NEW o, NEW type, NEW stop
    PROVE  DOMAIN Task(o, type, stop) = {"id", "type", "stop", "failed"}
BY Zenon DEF Task

(* The environment and the loop of Ctl. *)
LEMMA LoopKeeps ==
    ASSUME CtlInv, UNCHANGED mgrVars,
           \/ ChangeDefs
           \/ \E n \in Nodes : Join(n)
           \/ \E key \in {"indexDefs", "nodeDefs"}, ns \in BOOLEAN, out \in {"ok", "error"} : CfgEvent(key, ns, out)
           \/ \E out \in {"ok", "planner", "options"} : IndexDefsChanged(out)
           \/ \E w \in limits.watchers : WaitGetTopology(w)
           \/ \E o \in OpIds : HibernateDefs(o)
    PROVE  MgrKeeps
<1>1. OpsInv /\ RevInv /\ CallFits /\ TasksAreTasks
    BY Zenon DEF CtlInv
<1>2. tasks' = tasks /\ api' = api /\ progressCh' = progressCh
    BY Zenon DEF mgrVars
<1>3. Keeps
    <2>1. CASE \E o \in OpIds : HibernateDefs(o)
        BY Zenon, <2>1, <1>1, OpKeeps
    <2>2. CASE \E w \in limits.watchers : WaitGetTopology(w)
        <3>1. PICK w : WaitGetTopology(w)
            BY Zenon, <2>2
        <3>2. UNCHANGED bounds /\ UNCHANGED chans /\ memberNodes' = memberNodes /\ ops' = ops
            BY Zenon, <3>1 DEF WaitGetTopology
        <3>3. limits' = limits /\ doneCh' = doneCh /\ change' = change
            BY Zenon, <3>2 DEF bounds, chans
        <3>4. DOMAIN atRev' = {"ops", "call", "watchers"} /\ atRev'.watchers = atRev.watchers \cup {w}
            BY Zenon, <3>1, <1>1 DEF WaitGetTopology, RevInv
        <3>5. RevInv'
            BY Zenon, <3>1, <3>4, <1>1 DEF WaitGetTopology, RevInv
        <3> QED
            BY Zenon, <1>1, <3>2, <3>3, <3>5, OpsRest DEF Keeps, RevStep
    <2>3. CASE \/ ChangeDefs
               \/ \E n \in Nodes : Join(n)
               \/ \E key \in {"indexDefs", "nodeDefs"}, ns \in BOOLEAN, out \in {"ok", "error"} : CfgEvent(key, ns, out)
               \/ \E out \in {"ok", "planner", "options"} : IndexDefsChanged(out)
        <3>1. /\ UNCHANGED chans /\ ops' = ops /\ (UNCHANGED bounds \/ limits' = limits)
              /\ (UNCHANGED revVars /\ memberNodes' = memberNodes) \/ incRevNumLOCKED(Nobody)
            BY Zenon, <2>3 DEF ChangeDefs, Join, CfgEvent, IndexDefsChanged
        <3>2. limits' = limits /\ doneCh' = doneCh /\ change' = change
            BY Zenon, <3>1 DEF bounds, chans
        <3> QED
            BY Zenon, <1>1, <3>1, <3>2, CtlRests
    <2> QED
        BY Zenon, <2>1, <2>2, <2>3
<1> QED
    BY Zenon, <1>1, <1>2, <1>3, ListRests, ChannelRests DEF MgrKeeps

(* The goroutines of the operations, and their reports. *)
LEMMA OpStepKeeps ==
    ASSUME CtlInv, NEW o \in OpIds, OpStep(o) \/ ReportStep(o)
    PROVE  MgrKeeps
<1>1. OpsInv /\ RevInv /\ CallFits /\ TasksAreTasks
    BY Zenon DEF CtlInv
<1>2. tasks' = tasks /\ api' = api
    BY Zenon DEF OpStep, ReportStep, mgrVars
<1>3. Keeps /\ ChanStep
    <2>1. CASE ReportStep(o)
        BY Zenon, <2>1, <1>1, OpKeeps, ProgressKeeps DEF ReportStep
    <2>2. CASE /\ \/ \E out \in {"ok", "plan", "members"} : Cleanup(o, out)
                  \/ HibernateCleanup(o)
               /\ updateProgress(o, FALSE, ops'[o].errs)
        <3>1. Keeps /\ ops'[o].pc \in Over
            BY Zenon, <2>2, <1>1, CleanupKeeps
        <3>2. ops'[o].errs \in BOOLEAN
            BY Zenon, <3>1 DEF Keeps, OpsInv
        <3> QED
            BY Zenon, <2>2, <3>1, <3>2, ProgressKeeps
    <2>3. CASE /\ \/ \E out \in {"ok", "error"} : Begin(o, out) \/ HibernateStart(o, out)
                  \/ \E out \in {"attained", "timeout", "canceled", "error"} : WaitForWantedNodes(o, out)
                  \/ \E out \in {"ok", "skip", "read", "start"} : StartRebalance(o, out)
                  \/ \E out \in {"ok", "error", "read", "concurrent"} : RebalanceEnds(o, out)
                  \/ StopsRunning(o) \/ ReportingEnds(o)
                  \/ \E out \in {"ok", "unregister", "plan"} : PlannerSteps(o, out)
                  \/ CleanupDone(o)
                  \/ \E out \in {"ok", "error"} : HibernateEnds(o, out)
               /\ UNCHANGED mgrVars
        <3>1. progressCh' = progressCh
            BY Zenon, <2>3 DEF mgrVars
        <3> QED
            BY Zenon, <2>3, <3>1, <1>1, OpKeeps, ChannelRests
    <2> QED
        BY Zenon, <2>1, <2>2, <2>3 DEF OpStep
<1> QED
    BY Zenon, <1>1, <1>2, <1>3, ListRests DEF MgrKeeps

(* A report is taken from the channel: what it is about stays in the list  *)
(* unless the operation is over without an error.                          *)
LEMMA HandleKeeps ==
    ASSUME CtlInv, handleTaskProgress
    PROVE  MgrKeeps
<1>1. OpsInv /\ RevInv /\ CallFits /\ TasksAreTasks /\ ReportsAreTrue /\ progressCh \in Seq(Reports0)
    BY Zenon DEF CtlInv
<1>2. UNCHANGED ctlVars /\ api' = api /\ progressCh # <<>> /\ progressCh' = Tail(progressCh)
    BY Zenon DEF handleTaskProgress
<1>3. PICK p : p = Head(progressCh)
    BY Zenon
<1>4. p \in Reports0 /\ Truthful(p)
    <2>1. 1 \in 1..Len(progressCh) /\ progressCh[1] = p /\ p \in Reports0
        BY <1>1, <1>2, <1>3
    <2> QED
        BY Zenon, <2>1, <1>1 DEF ReportsAreTrue
<1>5. /\ \A u \in tasks' : u \in tasks \/ \E t \in tasks : u \in Reported(t, p)
      /\ \A t \in tasks : t \in tasks' \/ (t.id = p.task /\ Reported(t, p) \subseteq tasks')
    <2> DEFINE about == {t \in tasks : t.type # "prepared" /\ t.id = Head(progressCh).task}
    <2>1. \/ tasks' = tasks
          \/ tasks' = (tasks \ about) \cup UNION {Reported(t, Head(progressCh)) : t \in about}
        BY Zenon DEF handleTaskProgress, updateTasksLOCKED
    <2>2. \A t \in about : t \in tasks /\ t.id = p.task
        BY Zenon, <1>3
    <2> HIDE DEF about
    <2> QED
        BY Zenon, <1>3, <2>1, <2>2
<1>6. ASSUME NEW t \in tasks, NEW u \in Reported(t, p)
      PROVE  DOMAIN u = {"id", "type", "stop", "failed"} /\ u.id = t.id /\ u.type = t.type
    <2>1. DOMAIN t = {"id", "type", "stop", "failed"}
        BY Zenon, <1>1 DEF TasksAreTasks
    <2>2. \E f : u = [t EXCEPT !.failed = f]
        BY Zenon, <1>6 DEF Reported
    <2> QED
        BY Zenon, <2>1, <2>2
<1>7. TasksAreTasks'
    BY Zenon, <1>1, <1>5, <1>6 DEF TasksAreTasks
<1>8. FailureStays
    <2>1. SUFFICES ASSUME NEW t \in tasks, ~ \E u \in tasks' : u.id = t.id /\ u.type = t.type
                   PROVE  ops[t.id].pc \in {"unlocked", "gone"} /\ ~ops[t.id].errs
        BY Zenon DEF FailureStays
    <2>2. t.id = p.task /\ Reported(t, p) \subseteq tasks'
        BY Zenon, <2>1, <1>5
    <2>3. Reported(t, p) = {}
        BY Zenon, <2>1, <2>2, <1>6
    <2>4. ~p.exists /\ ~p.errs
        BY Zenon, <2>3 DEF Reported
    <2> QED
        BY Zenon, <2>2, <2>4, <1>4 DEF Truthful, Over
<1> QED
    BY Zenon, <1>1, <1>2, <1>7, <1>8, CtlSame DEF MgrKeeps, ChanStep, CallFits

(* StartTopologyChange, and the steps that it waits for. *)
LEMMA StartChangeKeeps ==
    ASSUME CtlInv,
           \/ \E kind \in limits.kinds \cap TopologyKinds, keep \in limits.keeps, eject \in {{}, Nodes}, cas \in BOOLEAN :
                 StartTopologyChange(kind, keep, eject \ keep, cas)
           \/ \E out \in {"ok", "error"} : StartDispatches(out)
           \/ StartWaited
    PROVE  MgrKeeps
<1>1. OpsInv /\ RevInv /\ CallFits /\ TasksAreTasks
    BY Zenon DEF CtlInv
<1>2. progressCh' = progressCh
    BY Zenon DEF StartTopologyChange, StartDispatches, StartWaited
<1>c. CallFits' \/ api' # NoCall
    BY DEF CallFits, NoCall
<1>3. CASE \E kind \in limits.kinds \cap TopologyKinds, keep \in limits.keeps, eject \in {{}, Nodes}, cas \in BOOLEAN :
              StartTopologyChange(kind, keep, eject \ keep, cas)
    <2>1. PICK kind, keep, eject, cas : kind \in TopologyKinds /\ StartTopologyChange(kind, keep, eject, cas)
        BY Zenon, <1>3
    <2>2. /\ UNCHANGED bounds /\ UNCHANGED chans /\ memberNodes' = memberNodes /\ ops' = ops /\ asleep' = asleep
          /\ tasks' = tasks /\ atRev' = [atRev EXCEPT !.call = cas]
        BY Zenon, <2>1 DEF StartTopologyChange
    <2>3. limits' = limits /\ doneCh' = doneCh /\ change' = change
        BY Zenon, <2>2 DEF bounds, chans
    <2>4. DOMAIN atRev' = {"ops", "call", "watchers"} /\ atRev'.watchers = atRev.watchers
        BY Zenon, <2>2, <1>1 DEF RevInv
    <2>5. Keeps
        BY Zenon, <1>1, <2>2, <2>3, <2>4, OpsRest DEF Keeps, RevStep, RevInv
    <2>6. api' = [NoCall EXCEPT !.call = "start", !.pc = "moving", !.kind = kind, !.keep = keep, !.cas = cas]
        BY Zenon, <2>1 DEF StartTopologyChange
    <2>7. api'.kind = kind
        BY Zenon, <2>6 DEF NoCall
    <2> QED
        BY Zenon, <1>1, <1>2, <2>1, <2>2, <2>5, <2>7, ChannelRests DEF MgrKeeps, CallFits, TasksAreTasks
<1>4. ASSUME StartsCtl, memberNodes' = memberNodes, limits' = limits, api.call = "start"
      PROVE  MgrKeeps
    <2>1. TasksAreTasks'
        BY Zenon, <1>1, <1>4, TaskIs DEF StartsCtl, updateTasksLOCKED, TasksAreTasks
    <2>2. CallFits'
        BY Zenon, <1>4, <1>c DEF StartsCtl
    <2>3. CASE ~MustWait
        <3>1. doneCh = 0 /\ startCtlLOCKED(api.kind, api.keep) /\ api.kind \in TopologyKinds
            BY Zenon, <2>3, <1>1, <1>4 DEF StartsCtl, MustWait, CallFits
        <3>2. Keeps
            BY Zenon, <3>1, <1>1, <1>4, StartKeeps DEF Keeps
        <3> QED
            BY Zenon, <3>2, <2>1, <2>2, <1>2, ChannelRests DEF MgrKeeps
    <2>4. CASE MustWait
        <3>1. UNCHANGED revVars /\ doneCh' = doneCh /\ change' = change /\ ops' = ops
            BY Zenon, <2>4, <1>4 DEF StartsCtl
        <3>2. Keeps
            BY Zenon, <3>1, <1>1, <1>4, CtlRests
        <3> QED
            BY Zenon, <3>2, <2>1, <2>2, <1>2, ChannelRests DEF MgrKeeps
    <2> QED
        BY Zenon, <2>3, <2>4
<1>5. CASE StartWaited
    <2>1. UNCHANGED bounds /\ memberNodes' = memberNodes /\ StartsCtl /\ api.call = "start"
        BY Zenon, <1>5 DEF StartWaited
    <2>2. limits' = limits
        BY Zenon, <2>1 DEF bounds
    <2> QED
        BY Zenon, <2>1, <2>2, <1>4
<1>6. CASE \E out \in {"ok", "error"} : StartDispatches(out)
    <2>1. PICK out : StartDispatches(out)
        BY Zenon, <1>6
    <2>2. memberNodes' = memberNodes /\ limits' = limits /\ api.call = "start"
        BY Zenon, <2>1 DEF StartDispatches
    <2>3. CASE api' = NoCall /\ UNCHANGED <<revVars, chans, ops, tasks>>
        <3>1. doneCh' = doneCh /\ change' = change
            BY <2>3 DEF chans
        <3>2. Keeps /\ tasks' = tasks
            BY Zenon, <2>2, <2>3, <3>1, <1>1, CtlRests
        <3> QED
            BY Zenon, <2>3, <3>2, <1>1, <1>2, <1>c, ChannelRests DEF MgrKeeps, TasksAreTasks
    <2>4. CASE StartsCtl
        BY Zenon, <2>2, <2>4, <1>4
    <2>5. CASE /\ api' = [api EXCEPT !.pc = "waiting", !.on = doneCh]
               /\ UNCHANGED <<revVars, doneCh, change, ops, tasks>>
        <3>1. Keeps /\ tasks' = tasks
            BY Zenon, <2>2, <2>5, <1>1, CtlRests
        <3>2. api'.call = api.call /\ api'.kind = api.kind
            BY <2>5
        <3> QED
            BY Zenon, <3>1, <3>2, <1>1, <1>2, ChannelRests DEF MgrKeeps, TasksAreTasks, CallFits
    <2> QED
        BY Zenon, <2>1, <2>3, <2>4, <2>5 DEF StartDispatches
<1> QED
    BY Zenon, <1>3, <1>5, <1>6

(* The calls that begin or cancel nothing else than tasks. *)
LEMMA TaskCallKeeps ==
    ASSUME CtlInv,
           \/ \E keep \in limits.keeps : PrepareTopologyChange(keep)
           \/ PrepareHibernation
           \/ \E t \in BOOLEAN : PrepareReturns(t)
           \/ CancelWaited
           \/ \E t \in tasks : \/ CancelPrepared(t) \/ CancelHibernation(t)
                               \/ \E out \in {"ok", "error"} : CancelTopologyChange(t, out)
    PROVE  MgrKeeps
<1>1. OpsInv /\ RevInv /\ CallFits /\ TasksAreTasks
    BY Zenon DEF CtlInv
<1>2. progressCh' = progressCh
    BY Zenon DEF PrepareTopologyChange, PrepareHibernation, PrepareReturns, CancelWaited, CancelPrepared,
                 CancelHibernation, CancelTopologyChange
<1>3. TasksAreTasks'
    <2>1. \E o, type, stop : tasks' \subseteq tasks \cup {Task(o, type, stop)}
        BY Zenon DEF PrepareTopologyChange, PrepareHibernation, PrepareReturns, CancelWaited, CancelPrepared,
                     CancelHibernation, CancelTopologyChange, Drop, updateTasksLOCKED
    <2> QED
        BY Zenon, <2>1, <1>1, TaskIs DEF TasksAreTasks
<1>4. CallFits'
    <2>1. \/ api' = api \/ api' = NoCall
          \/ \E on, t : api' = [NoCall EXCEPT !.call = "cancel", !.pc = "waiting", !.on = on, !.task = t]
        BY Zenon DEF PrepareTopologyChange, PrepareHibernation, PrepareReturns, CancelWaited, CancelPrepared,
                     CancelHibernation, CancelTopologyChange
    <2>2. api' = api \/ api'.call # "start"
        <3>1. NoCall.call = "none"
            BY Zenon DEF NoCall
        <3>2. \A on, t : [NoCall EXCEPT !.call = "cancel", !.pc = "waiting", !.on = on, !.task = t].call = "cancel"
            BY Zenon DEF NoCall
        <3> QED
            BY Zenon, <2>1, <3>1, <3>2
    <2> QED
        BY Zenon, <2>2, <1>1 DEF CallFits
<1>5. Keeps
    <2>1. CASE PrepareHibernation \/ CancelWaited \/ \E t \in tasks : CancelPrepared(t)
        BY Zenon, <2>1, <1>1, CtlSame DEF PrepareHibernation, CancelWaited, CancelPrepared
    <2>2. CASE \E t \in BOOLEAN : PrepareReturns(t)
        <3>1. UNCHANGED bounds /\ UNCHANGED chans /\ ops' = ops /\ incRevNumLOCKED(Nobody)
            BY Zenon, <2>2 DEF PrepareReturns, onSuccessfulPrepare
        <3>2. limits' = limits /\ doneCh' = doneCh
            BY <3>1 DEF bounds, chans
        <3> QED
            BY Zenon, <1>1, <3>1, <3>2, CtlRests
    <2>3. CASE \E keep \in limits.keeps : PrepareTopologyChange(keep)
        <3>1. UNCHANGED bounds /\ UNCHANGED chans /\ UNCHANGED revVars /\ memberNodes' = memberNodes /\ ops' = ops
            BY Zenon, <2>3 DEF PrepareTopologyChange
        <3>2. limits' = limits /\ doneCh' = doneCh /\ change' = change
            BY Zenon, <3>1 DEF bounds, chans
        <3> QED
            BY Zenon, <1>1, <3>1, <3>2, CtlRests
    <2>4. CASE \E t \in tasks : CancelHibernation(t)
        <3>1. /\ UNCHANGED bounds /\ UNCHANGED revVars /\ memberNodes' = memberNodes /\ ops' = ops
              /\ doneCh' = doneCh /\ change' = change
            BY Zenon, <2>4 DEF CancelHibernation, StopHibernationTask
        <3>2. limits' = limits
            BY <3>1 DEF bounds
        <3> QED
            BY Zenon, <1>1, <3>1, <3>2, CtlRests
    <2>5. CASE \E t \in tasks : \E out \in {"ok", "error"} : CancelTopologyChange(t, out)
        <3>1. /\ UNCHANGED revVars /\ memberNodes' = memberNodes /\ ops' = ops /\ limits' = limits
              /\ UNCHANGED chans \/ (doneCh' = doneCh /\ change' = change)
            BY Zenon, <2>5 DEF CancelTopologyChange
        <3>2. doneCh' = doneCh /\ change' = change
            BY Zenon, <3>1 DEF chans
        <3> QED
            BY Zenon, <1>1, <3>1, <3>2, CtlRests
    <2> QED
        BY Zenon, <2>1, <2>2, <2>3, <2>4, <2>5
<1> QED
    BY Zenon, <1>2, <1>3, <1>4, <1>5, ChannelRests DEF MgrKeeps

(* Pause and Resume. *)
LEMMA HibernateKeeps ==
    ASSUME CtlInv, NEW kind \in {"pause", "resume"}, Hibernate(kind)
    PROVE  MgrKeeps
<1>1. OpsInv /\ RevInv /\ CallFits /\ limits \in Scenarios
    BY Zenon DEF CtlInv
<1>2. NewOp \in OpIds
    <2>1. PICK k \in 0..MaxOps : NewOp = k + 1
        BY Zenon, <1>1, NewOpIs DEF OpsInv
    <2>2. NewOp <= limits.ops /\ limits.ops \in OpIds /\ MaxOps \in Nat
        BY Zenon, <1>1, CtlAssumption DEF Hibernate
    <2> QED
        BY <2>1, <2>2 DEF OpIds
<1>3. Keeps
    BY Zenon, <1>1, <1>2, HibernationKeeps DEF Hibernate
<1>4. TasksAreTasks' /\ CallFits' /\ progressCh' = progressCh
    BY Zenon, <1>1, TaskIs DEF Hibernate, updateTasksLOCKED, TasksAreTasks, CallFits
<1> QED
    BY Zenon, <1>3, <1>4, ChannelRests DEF MgrKeeps

(* Every step. *)
LEMMA NextKeeps ==
    ASSUME CtlInv, Next
    PROVE  MgrKeeps
BY Zenon, LoopKeeps, OpStepKeeps, HandleKeeps, StartChangeKeeps, TaskCallKeeps, HibernateKeeps DEF Next, ApiStep

(* The invariant holds at the beginning. *)
LEMMA CtlInitially == MgrInit => CtlInv
<1> SUFFICES ASSUME MgrInit PROVE CtlInv
    BY Zenon
<1>1. Started = {} /\ 1..0 = {} /\ 0 \in 0..MaxOps
    BY CtlAssumption DEF MgrInit, Init, Started, NoOp
<1>2. OpsInv
    BY Zenon, <1>1 DEF MgrInit, Init, OpsInv, NoOp, OpFields, OpsAreNumbered, OverHasBegun, AtWorkIsKept, AtWork, Over
<1>3. RevInv
    BY Zenon DEF MgrInit, Init, RevInv, Nobody
<1>4. progressCh \in Seq(Reports0) /\ ReportsAreTrue
    BY DEF MgrInit, ReportsAreTrue
<1>5. CallFits /\ TasksAreTasks /\ limits \in Scenarios
    BY Zenon DEF MgrInit, Init, CallFits, NoCall, TasksAreTasks
<1> QED
    BY Zenon, <1>2, <1>3, <1>4, <1>5 DEF CtlInv

(* Every step keeps the invariant. *)
LEMMA CtlNext == CtlInv /\ [Next]_vars => CtlInv'
<1> SUFFICES ASSUME CtlInv, [Next]_vars PROVE CtlInv'
    BY Zenon
<1>1. CASE Next
    <2>1. MgrKeeps
        BY Zenon, <1>1, NextKeeps
    <2>2. progressCh' \in Seq(Reports0) /\ ReportsAreTrue'
        BY Zenon, <2>1, ChannelKeeps DEF CtlInv, MgrKeeps, Keeps, ChanStep
    <2> QED
        BY Zenon, <2>1, <2>2 DEF CtlInv, MgrKeeps, Keeps, RevStep
<1>2. CASE UNCHANGED vars
    <2>1. UNCHANGED ctlVars /\ UNCHANGED mgrVars
        BY Zenon, <1>2 DEF vars
    <2>2. tasks' = tasks /\ api' = api /\ progressCh' = progressCh
        BY Zenon, <2>1 DEF mgrVars
    <2>3. Keeps
        BY Zenon, <2>1, CtlSame DEF CtlInv
    <2> QED
        BY Zenon, <2>2, <2>3, ListRests, ChannelKeeps DEF CtlInv, Keeps, RevStep
<1> QED
    BY Zenon, <1>1, <1>2

(* The invariant always holds. *)
LEMMA CtlAlways == Spec => []CtlInv
BY CtlInitially, CtlNext, PTL DEF Spec

(* TopologyChangesAlone for every number of operations and every scenario: *)
(* Ctl keeps the done channel of the one topology change that is at work,  *)
(* and starts another one only when it keeps none.                         *)
THEOREM TopologyChangesTakeTurns == Spec => []TopologyChangesAlone
<1>1. CtlInv => TopologyChangesAlone
    <2>1. SUFFICES ASSUME AtWork \subseteq {doneCh} PROVE Cardinality(AtWork) <= 1
        BY Zenon DEF CtlInv, OpsInv, AtWorkIsKept, TopologyChangesAlone
    <2>2. AtWork = {} \/ AtWork = {doneCh}
        BY Zenon, <2>1
    <2>3. Cardinality(AtWork) \in {0, 1}
        BY Zenon, <2>2, FS_EmptySet, FS_Singleton
    <2> QED
        BY <2>3
<1> QED
    BY <1>1, CtlAlways, PTL

(* WatchersSeeChanges for every number of watchers: who waits for the      *)
(* topology holds the current rev, and a step that changes the members or  *)
(* the change in progress leaves nobody with it.                           *)
THEOREM TopologyIsSeen == Spec => WatchersSeeChanges
<1>1. CtlInv => asleep \subseteq atRev.watchers
    BY Zenon DEF CtlInv, RevInv
<1>2. CtlInv /\ [Next]_vars =>
         [<<memberNodes, change>>' # <<memberNodes, change>>
             => ~ \E w \in Watchers : w \in atRev.watchers \cap atRev'.watchers]_vars
    <2>1. SUFFICES ASSUME CtlInv, Next, <<memberNodes, change>>' # <<memberNodes, change>>
                   PROVE  ~ \E w \in Watchers : w \in atRev.watchers \cap atRev'.watchers
        BY Zenon
    <2>2. atRev'.watchers = {}
        BY Zenon, <2>1, NextKeeps DEF MgrKeeps, Keeps, RevStep
    <2> QED
        BY Zenon, <2>2
<1> QED
    BY <1>1, <1>2, CtlAlways, PTL DEF Spec, WatchersSeeChanges

(* The safety half of TasksFollowOperations, FailuresStay: no report takes *)
(* the task of a topology change that has failed off the list.  The last   *)
(* reports in the channel say what the operations have come to, however    *)
(* late they are taken from it.                                            *)
THEOREM FailuresAreKept == Spec => FailuresStay
<1>1. CtlInv /\ [Next]_vars =>
         [\A t \in tasks :
             (t.type \in TopologyKinds /\ ~ \E u \in tasks' : u.id = t.id /\ u.type = t.type)
                => \/ ops[t.id].pc \in {"unlocked", "gone"} /\ ~ops[t.id].errs
                   \/ progressCh' = progressCh]_vars
    BY Zenon, NextKeeps DEF MgrKeeps, FailureStays
<1> QED
    BY <1>1, CtlAlways, PTL DEF Spec, FailuresStay
=============================================================================
