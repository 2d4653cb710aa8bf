-------------------------- MODULE CfgMetaKvProofs --------------------------
(***************************************************************************)
(* Proofs about CfgMetaKv for every number of processes and callers and    *)
(* for every scenario: a registration is not undone by another one, the    *)
(* pointer names a whole plan, and no node is left behind on an old plan.  *)
(***************************************************************************)
EXTENDS CfgMetaKv, TLAPS

(* The shapes of the state, as far as the proofs need them. *)
KvShapes ==
    /\ kvLimits \in KvScenarios
    /\ kvLevel \in Nat
    /\ kvPtr \in Dirs \cup {Unset, EmptyPath}
    /\ kvDirs \in [Dirs -> [parts : SUBSET Parts, old : BOOLEAN]]
    /\ DOMAIN kvOp = Procs /\ DOMAIN kvKick = Procs /\ DOMAIN kvView = Procs
    /\ DOMAIN kvCaller = Callers
    /\ \A p \in Procs : DOMAIN kvOp[p] = {"pc", "by", "dir", "left", "tries", "from"}
    /\ \A c \in Callers : DOMAIN kvCaller[c] = {"pc", "base", "plan", "cas", "from", "tries"}

(* A call that holds the mutex of its process belongs to a caller of that  *)
(* process whose job makes such a call and that waits for it, or, if it is *)
(* a Get of the plan, perhaps to the watcher.                              *)
OpFits(p) ==
    LET pc == kvOp[p].pc
        c == kvOp[p].by
        For(kinds, at) == c \in Callers /\ Job(c).kind \in kinds /\ kvCaller[c].pc = at
    IN  /\ c \in Callers => KvProc(c) = p
        /\ pc \in {"write", "point", "purge", "setshared"} => For({"plan"}, "read")
        /\ pc \in {"dmeta", "ddir", "dpoint", "delshared"} => For({"delplan"}, "start")
        /\ pc = "remove" => For({"register", "unregister"}, "read")
        /\ pc \in {"meta", "list", "shared"} => c = Watcher \/ For({"plan"}, "start")
        /\ pc = "list" => kvOp[p].dir \in Dirs

KvOps == \A p \in Procs : OpFits(p)

(* The caller has not made its directory the current plan. *)
NotPointed(c) ==
    /\ kvCaller[c].pc \in {"start", "read"}
    /\ ~(kvOp[KvProc(c)].by = c /\ kvOp[KvProc(c)].pc = "purge")

Filling(c) == kvOp[KvProc(c)].by = c /\ kvOp[KvProc(c)].pc \in {"write", "point"}

(* Until then nobody else sees its directory, and it is whole only when    *)
(* its caller has filled it; and the pointed directory is not old while    *)
(* old ones are purged.                                                    *)
DirsAreOwn ==
    /\ \A c \in Callers : NotPointed(c) =>
          /\ ~kvDirs[c].old /\ kvPtr # c
          /\ \A p \in Procs : kvOp[p].pc = "ddir" => kvOp[p].dir # c
          /\ ~Filling(c) => ~Whole(c)
    /\ \A p \in Procs : kvOp[p].pc = "point" => Whole(kvOp[p].by)
    /\ \A p \in Procs : kvOp[p].pc = "purge" /\ kvPtr \in Dirs => ~kvDirs[kvPtr].old

(* With the lean plan everywhere the shared path is not used, and a watcher *)
(* that lists a directory lists the current one or will look again.         *)
WatchersFollow ==
    kvLimits.level > 0 /\ ~kvLimits.blink =>
        /\ kvLevel > 0 /\ kvPtr # Unset
        /\ \A p \in Procs : kvOp[p].pc \notin {"shared", "setshared", "delshared"}
        /\ \A p \in Procs : kvOp[p].pc = "list" /\ kvOp[p].by = Watcher =>
              kvOp[p].dir = kvPtr \/ kvKick[p]

(* The holders of the nodes' CAS have read the nodes that are cached. *)
HoldersRead ==
    \A p \in Procs : \A c \in kvEntry[p].nodes.holders :
        /\ c \in Callers /\ KvProc(c) = p /\ Job(c).kind \in {"register", "unregister"}
        /\ kvEntry[p].nodes.data = kvCaller[c].base

(* A set removes the node that its caller unregisters, unless it is forced, *)
(* and never the node that its caller registers.                            *)
LeftIsMeant ==
    \A p \in Procs : kvOp[p].pc = "remove" =>
        LET c == kvOp[p].by
        IN  /\ ~Job(c).force => \A q \in kvOp[p].left : Job(c).kind = "unregister" /\ q = Job(c).of
            /\ Job(c).kind = "register" => KvProc(c) \notin kvOp[p].left

(* What is acknowledged is stored already while the set still removes. *)
RegistrationsAreStored ==
    \A c \in Callers :
        /\ Job(c).kind = "register"
        /\ \/ kvCaller[c].pc = "done"
           \/ kvOp[KvProc(c)].pc = "remove" /\ kvOp[KvProc(c)].by = c
        /\ \A d \in Callers \ {c} : ~Removes(d, KvProc(c))
        => KvProc(c) \in kvChildren

KvEntries == DOMAIN kvEntry = Procs /\ \A p \in Procs : DOMAIN kvEntry[p] = {"nodes", "index"}

(* The inductive invariants. *)
OpInv == KvShapes /\ KvOps
DirInv == OpInv /\ DirsAreOwn /\ PointerNamesWholePlan
WatchInv == DirInv /\ WatchersFollow /\ NobodyMissesThePlan
NodeInv == OpInv /\ KvEntries /\ HoldersRead /\ LeftIsMeant /\ RegistrationsAreStored
-----------------------------------------------------------------------------
(* A scenario's jobs are functions of the callers, for processes. *)
LEMMA JobShape ==
    ASSUME kvLimits \in KvScenarios, NEW c \in Callers
    PROVE  /\ KvProc(c) \in Procs /\ Job(c).of \in Procs
           /\ kvLimits.level \in Nat /\ kvLimits.blink \in BOOLEAN
BY KvAssumption DEF KvJob, Job, KvProc

LEMMA OpInit == KvInit => OpInv
<1> SUFFICES ASSUME KvInit PROVE OpInv
    BY Zenon
<1>1. kvLimits \in KvScenarios /\ kvLevel \in Nat
    BY KvAssumption DEF KvInit
<1>2. kvPtr \in Dirs \cup {Unset, EmptyPath}
    BY Zenon DEF KvInit, Dirs
<1>3. kvDirs \in [Dirs -> [parts : SUBSET Parts, old : BOOLEAN]]
    BY Zenon DEF KvInit
<1>4. KvShapes
    BY Zenon, <1>1, <1>2, <1>3 DEF KvShapes, KvInit, Idle, Called
<1>5. KvOps
    BY Zenon, KvAssumption DEF KvOps, OpFits, KvInit, Idle, Called
<1> QED
    BY Zenon, <1>4, <1>5 DEF OpInv

(* The watcher is not one of the callers, and no directory is a mark. *)
LEMMA Marks == Watcher \notin Callers /\ Nothing \notin Dirs /\ Unset \notin Dirs /\ EmptyPath \notin Dirs
               /\ Callers \subseteq Dirs
BY Zenon, KvAssumption DEF Dirs

(* A step of one process leaves the calls of the others as they are. *)
OneProc(p) ==
    /\ kvLimits' = kvLimits
    /\ \A q \in Procs \ {p} : kvOp'[q] = kvOp[q]
    /\ \A d \in Callers : KvProc(d) # p => kvCaller'[d] = kvCaller[d]

LEMMA OpsLocal ==
    ASSUME OpInv, NEW p \in Procs, OneProc(p), KvShapes', OpFits(p)'
    PROVE  OpInv'
<1>1. ASSUME NEW q \in Procs \ {p} PROVE OpFits(q)'
    <2>1. kvOp'[q] = kvOp[q] /\ OpFits(q) /\ \A d : Job(d)' = Job(d)
        BY Zenon DEF OneProc, OpInv, KvOps, Job
    <2>2. kvOp[q].by \in Callers => kvCaller'[kvOp[q].by] = kvCaller[kvOp[q].by]
        BY Zenon, <2>1 DEF OpFits, OneProc
    <2> QED
        BY <2>1, <2>2 DEF OpFits, KvProc
<1> QED
    BY Zenon, <1>1 DEF OpInv, KvOps

(* A call about the plan takes its mutex and goes the lean way, unless the  *)
(* metadata is not lean or its level could not be read.                     *)
LEMMA PlanCallBegins ==
    ASSUME DOMAIN kvOp = Procs, NEW p \in Procs, NEW c, NEW lean, NEW shared, PlanCall(p, c, lean, shared)
    PROVE  /\ kvOp'[p].pc \in {lean, shared} /\ kvOp'[p].by = c
           /\ kvLevel > 0 /\ ~kvLimits.blink => kvOp'[p].pc = lean
           /\ \A q \in Procs \ {p} : kvOp'[q] = kvOp[q]
BY DEF PlanCall, Called

(* Every step of a caller keeps the shapes and who holds a mutex. *)
LEMMA OpCall ==
    ASSUME OpInv, NEW c \in Callers, KvCall(c)
    PROVE  OpInv' /\ OneProc(KvProc(c))
<1>p. PICK p \in Procs : p = KvProc(c)
    BY Zenon, JobShape DEF OpInv, KvShapes
<1>0. p = KvProc(c) /\ KvShapes /\ OpFits(p) /\ c # Watcher
    BY Zenon, <1>p, Marks DEF OpInv, KvShapes, KvOps
<1>1. kvLimits' = kvLimits /\ kvLevel' = kvLevel /\ kvPtr' = kvPtr /\ kvDirs' = kvDirs
    BY Zenon DEF KvCall, getNodeDefs, setNodeDefs, delNodeDefs, getIndexDefs, setIndexDefs, delIndexDefs, getPlan, setPlan, delPlan, PlanCall, kvStore
<1>a. Job(c)' = Job(c)
    BY Zenon, <1>1 DEF Job
<1>2. CASE getNodeDefs(c)
    <2>1. KvShapes'
        BY Zenon, <1>2, <1>0, <1>1 DEF getNodeDefs, KvShapes, Idle, Called, kvStore
    <2>2. OneProc(p)
        BY Zenon, <1>2, <1>0, <1>1 DEF getNodeDefs, KvShapes, OneProc, kvStore
    <2>4. kvOp' = kvOp /\ kvOp[p] = Idle
        BY Zenon, <1>2, <1>0 DEF getNodeDefs
    <2>3. OpFits(p)'
        BY <2>4, Marks DEF OpFits, Idle, Called
    <2> QED
        BY Zenon, <2>1, <2>2, <2>3, <1>0, OpsLocal
<1>3. CASE setNodeDefs(c)
    <2>1. KvShapes'
        BY <1>3, <1>0, <1>1 DEF setNodeDefs, KvShapes, Idle, Called, CasError, Answer
    <2>2. OneProc(p)
        BY Zenon, <1>3, <1>0, <1>1 DEF setNodeDefs, KvShapes, OneProc, CasError, Answer
    <2>4. \/ kvOp' = kvOp
          \/ kvOp'[p].pc = "remove" /\ kvOp'[p].by = c /\ kvCaller' = kvCaller
        BY <1>3, <1>0 DEF setNodeDefs, KvShapes, Idle, Called
    <2>5. kvOp[p] = Idle /\ Job(c).kind \in {"register", "unregister"} /\ kvCaller[c].pc = "read"
        BY Zenon, <1>3, <1>0 DEF setNodeDefs
    <2>3. OpFits(p)'
        BY <2>4, <2>5, <1>0, <1>a, Marks DEF OpFits, KvProc, Idle, Called
    <2> QED
        BY <2>1, <2>2, <2>3, <1>0, OpsLocal
<1>4. CASE delNodeDefs(c)
    <2>1. KvShapes'
        BY Zenon, <1>4, <1>0, <1>1 DEF delNodeDefs, KvShapes, Idle, Called, Answer
    <2>2. OneProc(p)
        BY Zenon, <1>4, <1>0, <1>1 DEF delNodeDefs, KvShapes, OneProc, Answer
    <2>4. kvOp' = kvOp /\ kvOp[p] = Idle
        BY Zenon, <1>4, <1>0 DEF delNodeDefs
    <2>3. OpFits(p)'
        BY <2>4, Marks DEF OpFits, Idle, Called
    <2> QED
        BY <2>1, <2>2, <2>3, <1>0, OpsLocal
<1>5. CASE getIndexDefs(c)
    <2>1. KvShapes'
        BY Zenon, <1>5, <1>0, <1>1 DEF getIndexDefs, KvShapes, Idle, Called, kvStore
    <2>2. OneProc(p)
        BY Zenon, <1>5, <1>0, <1>1 DEF getIndexDefs, KvShapes, OneProc, kvStore
    <2>4. kvOp' = kvOp /\ kvOp[p] = Idle
        BY Zenon, <1>5, <1>0 DEF getIndexDefs
    <2>3. OpFits(p)'
        BY <2>4, Marks DEF OpFits, Idle, Called
    <2> QED
        BY <2>1, <2>2, <2>3, <1>0, OpsLocal
<1>6. CASE setIndexDefs(c)
    <2>1. KvShapes'
        BY <1>6, <1>0, <1>1 DEF setIndexDefs, KvShapes, Idle, Called, CasError, Answer
    <2>2. OneProc(p)
        BY Zenon, <1>6, <1>0, <1>1 DEF setIndexDefs, KvShapes, OneProc, CasError, Answer
    <2>4. kvOp' = kvOp /\ kvOp[p] = Idle
        BY Zenon, <1>6, <1>0 DEF setIndexDefs
    <2>3. OpFits(p)'
        BY <2>4, Marks DEF OpFits, Idle, Called
    <2> QED
        BY <2>1, <2>2, <2>3, <1>0, OpsLocal
<1>7. CASE delIndexDefs(c)
    <2>1. KvShapes'
        BY Zenon, <1>7, <1>0, <1>1 DEF delIndexDefs, KvShapes, Idle, Called, Answer, kvStore
    <2>2. OneProc(p)
        BY Zenon, <1>7, <1>0, <1>1 DEF delIndexDefs, KvShapes, OneProc, Answer, kvStore
    <2>4. kvOp' = kvOp /\ kvOp[p] = Idle
        BY Zenon, <1>7, <1>0 DEF delIndexDefs
    <2>3. OpFits(p)'
        BY <2>4, Marks DEF OpFits, Idle, Called
    <2> QED
        BY <2>1, <2>2, <2>3, <1>0, OpsLocal
<1>8. CASE getPlan(c)
    <2>1. KvShapes'
        BY <1>8, <1>0, <1>1 DEF getPlan, KvShapes, Idle, Called, PlanCall, kvStore
    <2>2. OneProc(p)
        BY Zenon, <1>8, <1>0, <1>1 DEF getPlan, KvShapes, OneProc, PlanCall, kvStore
    <2>4. kvOp'[p].pc \in {"meta", "shared"} /\ kvOp'[p].by = c /\ kvCaller' = kvCaller
        BY <1>8, <1>0 DEF getPlan, KvShapes, Idle, Called, PlanCall
    <2>3. OpFits(p)'
        BY Zenon, <1>8, <2>4, <1>0, <1>a DEF getPlan, OpFits, KvProc
    <2> QED
        BY <2>1, <2>2, <2>3, <1>0, OpsLocal
<1>9. CASE setPlan(c)
    <2>1. KvShapes'
        BY Zenon, <1>9, <1>0, <1>1 DEF setPlan, KvShapes, Idle, Called, PlanCall, kvStore
    <2>2. OneProc(p)
        BY Zenon, <1>9, <1>0, <1>1 DEF setPlan, KvShapes, OneProc, PlanCall, kvStore
    <2>4. kvOp'[p].pc \in {"write", "setshared"} /\ kvOp'[p].by = c /\ kvCaller' = kvCaller
        BY <1>9, <1>0 DEF setPlan, KvShapes, Idle, Called, PlanCall
    <2>3. OpFits(p)'
        BY Zenon, <1>9, <2>4, <1>0, <1>a DEF setPlan, OpFits, KvProc
    <2> QED
        BY <2>1, <2>2, <2>3, <1>0, OpsLocal
<1>10. CASE delPlan(c)
    <2>1. KvShapes'
        BY Zenon, <1>10, <1>0, <1>1 DEF delPlan, KvShapes, Idle, Called, PlanCall, kvStore
    <2>2. OneProc(p)
        BY Zenon, <1>10, <1>0, <1>1 DEF delPlan, KvShapes, OneProc, PlanCall, kvStore
    <2>4. kvOp'[p].pc \in {"dmeta", "delshared"} /\ kvOp'[p].by = c /\ kvCaller' = kvCaller
        BY <1>10, <1>0 DEF delPlan, KvShapes, Idle, Called, PlanCall
    <2>3. OpFits(p)'
        BY Zenon, <1>10, <2>4, <1>0, <1>a DEF delPlan, OpFits, KvProc
    <2> QED
        BY <2>1, <2>2, <2>3, <1>0, OpsLocal
<1> QED
    BY Zenon, <1>2, <1>3, <1>4, <1>5, <1>6, <1>7, <1>8, <1>9, <1>10 DEF KvCall

(* So does every step of a call. *)
LEMMA OpStep ==
    ASSUME OpInv, NEW p \in Procs, KvStep(p)
    PROVE  OpInv' /\ OneProc(p)
<1>0. KvShapes /\ OpFits(p) /\ Idle.by \notin Callers /\ Idle.pc = "idle"
    BY Zenon, Marks DEF OpInv, KvShapes, KvOps, Idle, Called
<1>1. kvLimits' = kvLimits /\ kvLevel' = kvLevel
    BY Zenon DEF KvStep, removeNodeDefs, getSharedPlan, getCurMetaKvPlanMeta, getLeanPlan, setSharedPlan, writePart, setLeanPlan, purgeOrphanedLeanPlans, delSharedPlan, delLeanPlanMeta, delLeanPlanDir, delLeanPlan
<1>a. \A d \in Callers : Job(d)' = Job(d)
    BY Zenon, <1>1 DEF Job
<1>b. kvPtr' \in Dirs \cup {Unset, EmptyPath}
    BY Zenon, <1>0, Marks DEF KvStep, OpFits, KvShapes, removeNodeDefs, getSharedPlan, getCurMetaKvPlanMeta, getLeanPlan, setSharedPlan, writePart, setLeanPlan, purgeOrphanedLeanPlans, delSharedPlan, delLeanPlanMeta, delLeanPlanDir, delLeanPlan, Discard, kvStore
<1>2. CASE removeNodeDefs(p)
    <2>d. kvDirs' \in [Dirs -> [parts : SUBSET Parts, old : BOOLEAN]]
        BY Zenon, <1>2, <1>0, Marks DEF removeNodeDefs, KvShapes, OpFits, Parts, kvLocal
    <2>1. KvShapes'
        BY <1>2, <2>d, <1>0, <1>1, <1>b DEF removeNodeDefs, KvShapes, OpFits, Idle, Called, Answer, kvLocal
    <2>2. OneProc(p)
        BY Zenon, <1>2, <1>0, <1>1 DEF removeNodeDefs, KvShapes, OpFits, OneProc, Answer, kvLocal
    <2>3. OpFits(p)'
        BY <1>2, <1>0, <1>a DEF removeNodeDefs, KvShapes, OpFits, KvProc, Answer, kvLocal
    <2> QED
        BY Zenon, <2>1, <2>2, <2>3, <1>0, OpsLocal
<1>3. CASE getSharedPlan(p)
    <2>d. kvDirs' \in [Dirs -> [parts : SUBSET Parts, old : BOOLEAN]]
        BY Zenon, <1>3, <1>0, Marks DEF getSharedPlan, KvShapes, OpFits, Parts, Got, kvStore
    <2>1. KvShapes'
        BY Zenon, <1>3, <2>d, <1>0, <1>1, <1>b DEF getSharedPlan, KvShapes, OpFits, Idle, Called, Got, kvStore
    <2>2. OneProc(p)
        BY Zenon, <1>3, <1>0, <1>1 DEF getSharedPlan, KvShapes, OpFits, OneProc, Got, kvStore
    <2>3. OpFits(p)'
        BY Zenon, <1>3, <1>0, <1>a DEF getSharedPlan, KvShapes, OpFits, KvProc, Got, kvStore
    <2> QED
        BY <2>1, <2>2, <2>3, <1>0, OpsLocal
<1>4. CASE getCurMetaKvPlanMeta(p)
    <2>d. kvDirs' \in [Dirs -> [parts : SUBSET Parts, old : BOOLEAN]]
        BY Zenon, <1>4, <1>0, Marks DEF getCurMetaKvPlanMeta, KvShapes, OpFits, Parts, Got, kvStore
    <2>1. KvShapes'
        BY Zenon, <1>4, <2>d, <1>0, <1>1, <1>b DEF getCurMetaKvPlanMeta, KvShapes, OpFits, Idle, Called, Got, kvStore
    <2>2. OneProc(p)
        BY Zenon, <1>4, <1>0, <1>1 DEF getCurMetaKvPlanMeta, KvShapes, OpFits, OneProc, Got, kvStore
    <2>3. OpFits(p)'
        BY <1>4, <1>0, <1>a DEF getCurMetaKvPlanMeta, KvShapes, OpFits, KvProc, Got, kvStore
    <2> QED
        BY <2>1, <2>2, <2>3, <1>0, OpsLocal
<1>5. CASE getLeanPlan(p)
    <2>d. kvDirs' \in [Dirs -> [parts : SUBSET Parts, old : BOOLEAN]]
        BY Zenon, <1>5, <1>0, Marks DEF getLeanPlan, KvShapes, OpFits, Parts, Got, kvStore
    <2>4. /\ \/ /\ \E t : kvOp' = [kvOp EXCEPT ![p].pc = "meta", ![p].tries = t, ![p].dir = Nothing]
                /\ kvCaller' = kvCaller /\ kvView' = kvView
             \/ Got(p, Woven(kvOp[p].dir), Whole(kvOp[p].dir))
          /\ kvKick' = kvKick
        BY <1>5, Zenon DEF getLeanPlan
    <2>1. KvShapes'
        <3>1. CASE Got(p, Woven(kvOp[p].dir), Whole(kvOp[p].dir))
            BY Zenon, <1>5, <2>4, <3>1, <2>d, <1>0, <1>1, <1>b DEF getLeanPlan, KvShapes, OpFits, Idle, Called, Got
        <3>2. CASE kvCaller' = kvCaller /\ kvView' = kvView
            BY Zenon, <2>4, <3>2, <2>d, <1>0, <1>1, <1>b DEF KvShapes, Idle, Called, Got
        <3> QED
            BY Zenon, <2>4, <3>1, <3>2
    <2>2. OneProc(p)
        BY Zenon, <1>5, <1>0, <1>1 DEF getLeanPlan, KvShapes, OpFits, OneProc, Got, kvStore
    <2>3. OpFits(p)'
        BY <1>5, <1>0, <1>a DEF getLeanPlan, KvShapes, OpFits, KvProc, Got, kvStore
    <2> QED
        BY <2>1, <2>2, <2>3, <1>0, OpsLocal
<1>6. CASE setSharedPlan(p)
    <2>d. kvDirs' \in [Dirs -> [parts : SUBSET Parts, old : BOOLEAN]]
        BY Zenon, <1>6, <1>0, Marks DEF setSharedPlan, KvShapes, OpFits, Parts, metaKVCallback
    <2>1. KvShapes'
        BY Zenon, <1>6, <2>d, <1>0, <1>1, <1>b DEF setSharedPlan, KvShapes, OpFits, Idle, Called, Answer, metaKVCallback
    <2>2. OneProc(p)
        BY Zenon, <1>6, <1>0, <1>1 DEF setSharedPlan, KvShapes, OpFits, OneProc, Answer, metaKVCallback
    <2>3. OpFits(p)'
        BY Zenon, <1>6, <1>0, <1>a DEF setSharedPlan, KvShapes, OpFits, KvProc, Answer, metaKVCallback
    <2> QED
        BY <2>1, <2>2, <2>3, <1>0, OpsLocal
<1>7. CASE writePart(p)
    <2> DEFINE c == kvOp[p].by
    <2>c. c \in Callers /\ c \in Dirs /\ KvProc(c) = p /\ Job(c).kind = "plan" /\ kvCaller[c].pc = "read"
        BY Zenon, <1>7, <1>0, Marks DEF writePart, OpFits
    <2>4. \/ /\ \E part \in Parts :
                   /\ kvDirs' = [kvDirs EXCEPT ![c].parts = @ \cup {part}]
                   /\ kvOp' = kvOp \/ kvOp' = [kvOp EXCEPT ![p].pc = "point"]
             /\ kvCaller' = kvCaller
          \/ Discard(p, c)
        BY <1>7, Zenon DEF writePart
    <2>d. kvDirs' \in [Dirs -> [parts : SUBSET Parts, old : BOOLEAN]]
        <3>1. CASE Discard(p, c)
            BY <3>1, <2>c, <1>0 DEF KvShapes, Discard
        <3>2. ASSUME NEW part \in Parts, kvDirs' = [kvDirs EXCEPT ![c].parts = @ \cup {part}]
              PROVE  kvDirs' \in [Dirs -> [parts : SUBSET Parts, old : BOOLEAN]]
            <4>1. kvDirs[c].parts \cup {part} \in SUBSET Parts
                BY Zenon, <2>c, <1>0 DEF KvShapes
            <4> QED
                BY <3>2, <4>1, <2>c, <1>0 DEF KvShapes
        <3> QED
            BY Zenon, <2>4, <3>1, <3>2
    <2>5. DOMAIN kvKick' = Procs /\ kvView' = kvView
        BY Zenon, <1>7, <1>0 DEF writePart, metaKVCallback, KvShapes
    <2>1. KvShapes'
        BY Zenon, <2>c, <2>4, <2>5, <2>d, <1>0, <1>1, <1>b DEF KvShapes, Idle, Called, Discard, Answer
    <2>2. OneProc(p)
        BY Zenon, <1>7, <1>0, <1>1 DEF writePart, KvShapes, OpFits, OneProc, Discard, Answer, metaKVCallback
    <2>3. OpFits(p)'
        <3>1. CASE Discard(p, c)
            BY Zenon, <3>1, <1>0, Marks DEF OpFits, Discard, KvShapes
        <3>2. CASE kvOp' = kvOp /\ kvCaller' = kvCaller
            BY Zenon, <3>2, <2>c, <1>a, <1>0 DEF OpFits, KvProc
        <3>3. CASE kvOp' = [kvOp EXCEPT ![p].pc = "point"] /\ kvCaller' = kvCaller
            BY <3>3, <2>c, <1>a, <1>0 DEF OpFits, KvProc, KvShapes
        <3> QED
            BY Zenon, <2>4, <3>1, <3>2, <3>3
    <2> QED
        BY <2>1, <2>2, <2>3, <1>0, OpsLocal
<1>8. CASE setLeanPlan(p)
    <2>d. kvDirs' \in [Dirs -> [parts : SUBSET Parts, old : BOOLEAN]]
        BY <1>8, <1>0, Marks DEF setLeanPlan, KvShapes, OpFits, Parts, Discard, metaKVCallback
    <2>1. KvShapes'
        <3>1. kvOp[p].by \in Callers
            BY Zenon, <1>8, <1>0 DEF setLeanPlan, OpFits
        <3>2. kvPtr' \in Dirs \cup {Unset, EmptyPath}
            BY Zenon, <1>8, <1>0, <3>1, Marks DEF setLeanPlan, KvShapes
        <3>3. DOMAIN kvKick' = Procs
            BY Zenon, <1>8, <1>0 DEF setLeanPlan, KvShapes, metaKVCallback
        <3>4. DOMAIN kvOp' = Procs /\ \A q \in Procs : DOMAIN kvOp'[q] = {"pc", "by", "dir", "left", "tries", "from"}
            BY Zenon, <1>8, <1>0 DEF setLeanPlan, KvShapes, Idle, Called, Discard
        <3>5. DOMAIN kvCaller' = Callers
              /\ \A d \in Callers : DOMAIN kvCaller'[d] = {"pc", "base", "plan", "cas", "from", "tries"}
            BY Zenon, <1>8, <1>0 DEF setLeanPlan, KvShapes, Answer, Discard
        <3>6. kvLimits' \in KvScenarios /\ kvLevel' \in Nat /\ DOMAIN kvView' = Procs
            BY Zenon, <1>8, <1>0 DEF setLeanPlan, KvShapes
        <3> QED
            BY Zenon, <2>d, <3>2, <3>3, <3>4, <3>5, <3>6 DEF KvShapes
    <2>2. OneProc(p)
        BY Zenon, <1>8, <1>0, <1>1 DEF setLeanPlan, KvShapes, OpFits, OneProc, Discard, Answer, metaKVCallback
    <2>3. OpFits(p)'
        BY <1>8, <1>0, <1>a DEF setLeanPlan, KvShapes, OpFits, KvProc, Discard, Answer, metaKVCallback
    <2> QED
        BY <2>1, <2>2, <2>3, <1>0, OpsLocal
<1>9. CASE purgeOrphanedLeanPlans(p)
    <2>d. kvDirs' \in [Dirs -> [parts : SUBSET Parts, old : BOOLEAN]]
        BY <1>9, <1>0, Marks DEF purgeOrphanedLeanPlans, KvShapes, OpFits, Parts, metaKVCallback
    <2>1. KvShapes'
        BY Zenon, <1>9, <2>d, <1>0, <1>1, <1>b DEF purgeOrphanedLeanPlans, KvShapes, OpFits, Idle, Called, Answer, metaKVCallback
    <2>2. OneProc(p)
        BY Zenon, <1>9, <1>0, <1>1 DEF purgeOrphanedLeanPlans, KvShapes, OpFits, OneProc, Answer, metaKVCallback
    <2>3. OpFits(p)'
        BY Zenon, <1>9, <1>0, <1>a DEF purgeOrphanedLeanPlans, KvShapes, OpFits, KvProc, Answer, metaKVCallback
    <2> QED
        BY <2>1, <2>2, <2>3, <1>0, OpsLocal
<1>10. CASE delSharedPlan(p)
    <2>d. kvDirs' \in [Dirs -> [parts : SUBSET Parts, old : BOOLEAN]]
        BY Zenon, <1>10, <1>0, Marks DEF delSharedPlan, KvShapes, OpFits, Parts, metaKVCallback
    <2>1. KvShapes'
        BY Zenon, <1>10, <2>d, <1>0, <1>1, <1>b DEF delSharedPlan, KvShapes, OpFits, Idle, Called, Answer, metaKVCallback
    <2>2. OneProc(p)
        BY Zenon, <1>10, <1>0, <1>1 DEF delSharedPlan, KvShapes, OpFits, OneProc, Answer, metaKVCallback
    <2>3. OpFits(p)'
        BY Zenon, <1>10, <1>0, <1>a DEF delSharedPlan, KvShapes, OpFits, KvProc, Answer, metaKVCallback
    <2> QED
        BY <2>1, <2>2, <2>3, <1>0, OpsLocal
<1>11. CASE delLeanPlanMeta(p)
    <2>d. kvDirs' \in [Dirs -> [parts : SUBSET Parts, old : BOOLEAN]]
        BY Zenon, <1>11, <1>0, Marks DEF delLeanPlanMeta, KvShapes, OpFits, Parts, metaKVCallback
    <2>1. KvShapes'
        BY <1>11, <2>d, <1>0, <1>1, <1>b DEF delLeanPlanMeta, KvShapes, OpFits, Idle, Called, Answer, metaKVCallback
    <2>2. OneProc(p)
        BY Zenon, <1>11, <1>0, <1>1 DEF delLeanPlanMeta, KvShapes, OpFits, OneProc, Answer, metaKVCallback
    <2>3. OpFits(p)'
        BY <1>11, <1>0, <1>a DEF delLeanPlanMeta, KvShapes, OpFits, KvProc, Answer, metaKVCallback
    <2> QED
        BY <2>1, <2>2, <2>3, <1>0, OpsLocal
<1>12. CASE delLeanPlanDir(p)
    <2>d. kvDirs' \in [Dirs -> [parts : SUBSET Parts, old : BOOLEAN]]
        BY <1>12, <1>0, Marks DEF delLeanPlanDir, KvShapes, OpFits, Parts, metaKVCallback
    <2>1. KvShapes'
        BY <1>12, <2>d, <1>0, <1>1, <1>b DEF delLeanPlanDir, KvShapes, OpFits, Idle, Called, Answer, metaKVCallback
    <2>2. OneProc(p)
        BY Zenon, <1>12, <1>0, <1>1 DEF delLeanPlanDir, KvShapes, OpFits, OneProc, Answer, metaKVCallback
    <2>3. OpFits(p)'
        BY <1>12, <1>0, <1>a DEF delLeanPlanDir, KvShapes, OpFits, KvProc, Answer, metaKVCallback
    <2> QED
        BY <2>1, <2>2, <2>3, <1>0, OpsLocal
<1>13. CASE delLeanPlan(p)
    <2>d. kvDirs' \in [Dirs -> [parts : SUBSET Parts, old : BOOLEAN]]
        BY Zenon, <1>13, <1>0, Marks DEF delLeanPlan, KvShapes, OpFits, Parts, metaKVCallback
    <2>1. KvShapes'
        BY Zenon, <1>13, <2>d, <1>0, <1>1, <1>b DEF delLeanPlan, KvShapes, OpFits, Idle, Called, Answer, metaKVCallback
    <2>2. OneProc(p)
        BY Zenon, <1>13, <1>0, <1>1 DEF delLeanPlan, KvShapes, OpFits, OneProc, Answer, metaKVCallback
    <2>3. OpFits(p)'
        BY Zenon, <1>13, <1>0, <1>a DEF delLeanPlan, KvShapes, OpFits, KvProc, Answer, metaKVCallback
    <2> QED
        BY <2>1, <2>2, <2>3, <1>0, OpsLocal
<1> QED
    BY Zenon, <1>2, <1>3, <1>4, <1>5, <1>6, <1>7, <1>8, <1>9, <1>10, <1>11, <1>12, <1>13 DEF KvStep

(* The other steps do not end a call. *)
LEMMA OpRest ==
    ASSUME OpInv,
           \/ \E p \in Procs : watchPlan(p) \/ KvRefresh(p)
           \/ \E d \in Dirs : KvAge(d)
           \/ KvUpgrade
           \/ UNCHANGED kvVars
    PROVE  OpInv'
<1>1. kvLimits' = kvLimits /\ kvPtr' = kvPtr /\ kvCaller' = kvCaller
    BY Zenon DEF watchPlan, KvRefresh, KvAge, KvUpgrade, kvVars, PlanCall, kvStore
<1>2. KvShapes
    BY Zenon DEF OpInv
<1>3. CASE UNCHANGED kvVars \/ KvUpgrade \/ (\E p \in Procs : KvRefresh(p)) \/ \E d \in Dirs : KvAge(d)
    <2>1. KvShapes'
        <3>1. CASE \E d \in Dirs : KvAge(d)
            <4>1. PICK d \in Dirs : KvAge(d)
                BY Zenon, <3>1
            <4>2. kvDirs' \in [Dirs -> [parts : SUBSET Parts, old : BOOLEAN]]
                BY Zenon, <1>2, <4>1 DEF KvShapes, KvAge
            <4> QED
                BY Zenon, <1>2, <4>1, <4>2 DEF KvShapes, KvAge
        <3>2. CASE KvUpgrade
            BY <1>2, <3>2 DEF KvShapes, KvUpgrade, kvStore
        <3>3. CASE UNCHANGED kvVars \/ \E p \in Procs : KvRefresh(p)
            BY Zenon, <1>2, <3>3 DEF KvShapes, KvRefresh, kvVars, kvStore
        <3> QED
            BY Zenon, <1>3, <3>1, <3>2, <3>3
    <2>2. kvOp' = kvOp
        BY Zenon, <1>3 DEF KvRefresh, KvAge, KvUpgrade, kvVars
    <2>3. KvOps'
        BY <2>2, <1>1 DEF OpInv, KvOps, OpFits, Job, KvProc
    <2> QED
        BY Zenon, <2>1, <2>3 DEF OpInv
<1>4. ASSUME NEW p \in Procs, watchPlan(p) PROVE OpInv'
    <2>1. KvShapes'
        BY Zenon, <1>2, <1>4 DEF KvShapes, watchPlan, PlanCall, kvStore, Idle, Called
    <2>2. OneProc(p)
        BY Zenon, <1>1, <1>2, <1>4 DEF OneProc, watchPlan, PlanCall, KvShapes
    <2>4. kvOp'[p].pc \in {"meta", "shared"} /\ kvOp'[p].by = Watcher
        BY <1>2, <1>4 DEF watchPlan, PlanCall, KvShapes, Idle, Called
    <2>3. OpFits(p)'
        BY Zenon, <2>4, Marks DEF OpFits
    <2> QED
        BY Zenon, <2>1, <2>2, <2>3, OpsLocal
<1> QED
    BY Zenon, <1>3, <1>4

LEMMA OpNext == OpInv /\ [KvNext]_kvVars => OpInv'
BY Zenon, OpCall, OpStep, OpRest DEF KvNext

-----------------------------------------------------------------------------
(* At first only the plan that the cluster starts with is whole, if any. *)
LEMMA DirInit == KvInit => DirInv
<1> SUFFICES ASSUME KvInit PROVE DirInv
    OBVIOUS
<1>1. Before \notin Callers /\ OpInv
    BY Zenon, OpInit, KvAssumption
<1>2. kvPtr \in Dirs => kvPtr = Before /\ kvLimits.level > 0
    BY <1>1, Marks, KvAssumption DEF KvInit
<1>3. \A p \in Procs : kvOp[p].pc = "idle"
    BY Zenon DEF KvInit, Idle, Called
<1>4. \A c \in Callers : ~kvDirs[c].old /\ ~Whole(c)
    BY Zenon, <1>1, Marks DEF KvInit, Whole, Parts
<1>5. \A c \in Callers : kvPtr # c
    BY Zenon, <1>1, <1>2, Marks
<1>6. PointerNamesWholePlan
    BY Zenon, <1>2 DEF PointerNamesWholePlan, Whole, KvInit, Dirs
<1>7. DirsAreOwn
    BY Zenon, <1>3, <1>4, <1>5 DEF DirsAreOwn
<1> QED
    BY Zenon, <1>1, <1>6, <1>7 DEF DirInv

(* A step of process p that leaves the directories and the pointer alone   *)
(* and does not end or begin one of the calls that the invariant is about. *)
QuietFor(p) ==
    /\ kvPtr' = kvPtr /\ kvDirs' = kvDirs
    /\ kvOp[p].pc \notin {"write", "point", "purge", "dpoint"}
    /\ kvOp'[p].pc \notin {"point", "purge", "ddir"}
    /\ \A c \in Callers :
          /\ kvCaller'[c].pc \in {"start", "read"} => kvCaller[c].pc \in {"start", "read"}
          /\ kvCaller[c].pc = "failed" => kvCaller'[c].pc = "failed"

LEMMA DirQuiet ==
    ASSUME DirInv, OpInv', NEW p \in Procs, OneProc(p), QuietFor(p)
    PROVE  DirInv'
<1>1. \A c \in Callers : KvProc(c)' = KvProc(c) /\ Job(c)' = Job(c) /\ KvProc(c) \in Procs
    BY Zenon, JobShape DEF OneProc, KvProc, Job, DirInv, OpInv, KvShapes
<1>2. \A c \in Callers : NotPointed(c)' => NotPointed(c)
    BY <1>1 DEF NotPointed, QuietFor, OneProc
<1>3. \A c \in Callers : Filling(c) => Filling(c)'
    BY <1>1 DEF Filling, QuietFor, OneProc
<1>4. \A d : Whole(d)' = Whole(d)
    BY Zenon DEF Whole, QuietFor
<1>5. DirsAreOwn'
    <2>1. ASSUME NEW c \in Callers, NotPointed(c)'
          PROVE  /\ ~kvDirs'[c].old /\ kvPtr' # c
                 /\ \A q \in Procs : kvOp'[q].pc = "ddir" => kvOp'[q].dir # c
                 /\ ~Filling(c)' => ~Whole(c)'
        BY <2>1, <1>2, <1>3, <1>4 DEF DirInv, DirsAreOwn, QuietFor, OneProc
    <2>2. \A q \in Procs : (kvOp[q].pc = "point" => Whole(kvOp[q].by))'
        BY Zenon DEF DirInv, DirsAreOwn, QuietFor, OneProc, Whole
    <2>3. \A q \in Procs : kvOp'[q].pc = "purge" /\ kvPtr' \in Dirs => ~kvDirs'[kvPtr'].old
        BY Zenon DEF DirInv, DirsAreOwn, QuietFor, OneProc
    <2> QED
        BY Zenon, <2>1, <2>2, <2>3 DEF DirsAreOwn
<1>6. PointerNamesWholePlan'
    BY Zenon, <1>1, <1>4 DEF DirInv, PointerNamesWholePlan, QuietFor, OneProc
<1> QED
    BY Zenon, <1>5, <1>6 DEF DirInv

(* The calls of a caller begin without touching a directory. *)
LEMMA DirCall ==
    ASSUME DirInv, NEW c \in Callers, KvCall(c)
    PROVE  DirInv'
<1>p. PICK p \in Procs : p = KvProc(c)
    BY Zenon, JobShape DEF DirInv, OpInv, KvShapes
<1>1. OpInv' /\ OneProc(p) /\ KvShapes
    BY Zenon, <1>p, OpCall DEF DirInv, OpInv
<1>2. kvPtr' = kvPtr /\ kvDirs' = kvDirs /\ kvOp[p] = Idle /\ kvCaller[c].pc \in {"start", "read"}
    BY Zenon, <1>p DEF KvCall, getNodeDefs, setNodeDefs, delNodeDefs, getIndexDefs, setIndexDefs, delIndexDefs,
              getPlan, setPlan, delPlan, PlanCall, kvStore
<1>3. kvOp'[p].pc \in {"idle", "remove", "meta", "shared", "write", "setshared", "dmeta", "delshared"}
    <2>1. CASE getPlan(c) \/ setPlan(c) \/ delPlan(c)
        <3>1. \/ PlanCall(p, c, "meta", "shared") \/ PlanCall(p, c, "write", "setshared")
              \/ PlanCall(p, c, "dmeta", "delshared")
            BY Zenon, <2>1, <1>p DEF getPlan, setPlan, delPlan
        <3>2. DOMAIN kvOp = Procs
            BY Zenon, <1>1 DEF KvShapes
        <3> QED
            BY <3>1, <3>2, PlanCallBegins
    <2>2. CASE setNodeDefs(c)
        BY <2>2, <1>p, <1>1 DEF setNodeDefs, Idle, Called, KvShapes
    <2>3. CASE \/ getNodeDefs(c) \/ delNodeDefs(c) \/ getIndexDefs(c) \/ setIndexDefs(c) \/ delIndexDefs(c)
        <3>1. kvOp' = kvOp
            BY Zenon, <2>3 DEF getNodeDefs, delNodeDefs, getIndexDefs, setIndexDefs, delIndexDefs
        <3> QED
            BY <3>1, <1>2 DEF Idle, Called
    <2> QED
        BY Zenon, <2>1, <2>2, <2>3 DEF KvCall
<1>4. \A d \in Callers \ {c} : kvCaller'[d] = kvCaller[d]
    BY Zenon, <1>1 DEF KvCall, getNodeDefs, setNodeDefs, delNodeDefs, getIndexDefs, setIndexDefs, delIndexDefs,
              getPlan, setPlan, delPlan, PlanCall, CasError, Answer, KvShapes
<1>5. QuietFor(p)
    BY <1>2, <1>3, <1>4 DEF QuietFor, Idle, Called
<1> QED
    BY Zenon, <1>1, <1>5, DirQuiet

(* A step of a call that is not one of the calls the invariant is about. *)
LEMMA DirOther ==
    ASSUME DirInv, NEW p \in Procs,
           \/ removeNodeDefs(p) \/ getSharedPlan(p) \/ getCurMetaKvPlanMeta(p) \/ getLeanPlan(p)
           \/ setSharedPlan(p) \/ delSharedPlan(p)
    PROVE  DirInv'
<1>1. OpInv' /\ OneProc(p) /\ KvShapes /\ OpFits(p)
    BY Zenon, OpStep DEF DirInv, OpInv, KvOps, KvStep
<1>2. kvPtr' = kvPtr /\ kvDirs' = kvDirs /\ kvOp[p].pc \notin {"write", "point", "purge", "dpoint"}
    BY Zenon DEF removeNodeDefs, getSharedPlan, getCurMetaKvPlanMeta, getLeanPlan, setSharedPlan, delSharedPlan,
           kvStore
<1>3. kvOp'[p].pc \in {"idle", "remove", "shared", "list", "meta"}
    <2>1. CASE getLeanPlan(p)
        <3>1. \/ \E t : kvOp' = [kvOp EXCEPT ![p].pc = "meta", ![p].tries = t, ![p].dir = Nothing]
              \/ kvOp' = [kvOp EXCEPT ![p] = Idle]
            BY <2>1, Zenon DEF getLeanPlan, Got
        <3>2. ASSUME NEW t, kvOp' = [kvOp EXCEPT ![p].pc = "meta", ![p].tries = t, ![p].dir = Nothing]
              PROVE  kvOp'[p].pc = "meta"
            BY Zenon, <3>2, <1>1 DEF KvShapes
        <3>3. CASE kvOp' = [kvOp EXCEPT ![p] = Idle]
            BY Zenon, <3>3, <1>1 DEF KvShapes, Idle, Called
        <3> QED
            BY Zenon, <3>1, <3>2, <3>3
    <2> QED
        BY <2>1, <1>1 DEF removeNodeDefs, getSharedPlan, getCurMetaKvPlanMeta, setSharedPlan, delSharedPlan,
                          Got, KvShapes, Idle, Called
<1>4. \A c \in Callers :
        \/ kvCaller'[c] = kvCaller[c]
        \/ kvOp[p].by = c /\ kvCaller[c].pc \in {"start", "read"}
    BY <1>1 DEF removeNodeDefs, getSharedPlan, getCurMetaKvPlanMeta, getLeanPlan, setSharedPlan,
                delSharedPlan, Got, Answer, KvShapes, OpFits
<1>5. QuietFor(p)
    BY Zenon, <1>2, <1>3, <1>4 DEF QuietFor
<1> QED
    BY Zenon, <1>1, <1>5, DirQuiet

(* What the steps on directories share: the caller c of process p waits    *)
(* for its call, and no other process is in a call of c.                   *)
LEMMA OwnCall ==
    ASSUME OpInv, NEW p \in Procs, kvOp[p].pc \in {"write", "point", "purge", "dmeta", "ddir", "dpoint"}
    PROVE  /\ kvOp[p].by \in Callers /\ kvOp[p].by \in Dirs /\ KvProc(kvOp[p].by) = p
           /\ kvOp[p].pc \in {"write", "point", "purge"} =>
                 Job(kvOp[p].by).kind = "plan" /\ kvCaller[kvOp[p].by].pc = "read"
           /\ kvOp[p].pc \in {"dmeta", "ddir", "dpoint"} =>
                 Job(kvOp[p].by).kind = "delplan" /\ kvCaller[kvOp[p].by].pc = "start"
           /\ \A c \in Callers : KvProc(c) \in Procs /\ (c # kvOp[p].by /\ KvProc(c) = p => ~Filling(c))
           /\ kvOp[p].pc \in {"write", "point"} => NotPointed(kvOp[p].by)
<1>1. OpFits(p) /\ \A c \in Callers : KvProc(c) \in Procs
    BY Zenon, JobShape DEF OpInv, KvOps, KvShapes
<1> QED
    BY Zenon, <1>1, Marks DEF OpFits, Filling, NotPointed

LEMMA DirWrite ==
    ASSUME DirInv, NEW p \in Procs, writePart(p)
    PROVE  DirInv'
<1>0. PICK c \in Callers : c = kvOp[p].by
    BY Zenon, OwnCall DEF DirInv, writePart
<1>1. OpInv' /\ OneProc(p) /\ KvShapes /\ c \in Dirs /\ KvProc(c) = p /\ NotPointed(c)
    BY Zenon, <1>0, OpStep, OwnCall DEF DirInv, OpInv, KvStep, writePart
<1>2. \A d \in Callers : KvProc(d)' = KvProc(d) /\ Job(d)' = Job(d) /\ KvProc(d) \in Procs
    BY Zenon, <1>1, JobShape DEF OneProc, KvProc, Job, KvShapes
<1>3. kvPtr' = kvPtr /\ kvPtr # c /\ kvOp[p].pc = "write" /\ kvCaller[c].pc = "read"
    BY Zenon, <1>0, <1>1, OwnCall DEF writePart, DirInv, DirsAreOwn
<1>4. /\ \A d \in Dirs \ {c} : kvDirs'[d] = kvDirs[d]
      /\ kvDirs'[c].old = kvDirs[c].old
    <2>1. \E parts : kvDirs' = [kvDirs EXCEPT ![c].parts = parts]
        BY <1>0, Zenon DEF writePart, Discard
    <2> QED
        BY Zenon, <2>1, <1>1 DEF KvShapes
<1>5. \/ kvCaller' = kvCaller /\ kvOp' = kvOp
      \/ kvCaller' = kvCaller /\ kvOp' = [kvOp EXCEPT ![p].pc = "point"] /\ kvDirs'[c].parts = Parts
      \/ /\ kvOp'[p].pc = "idle" /\ kvCaller'[c].pc = "failed"
         /\ \A d \in Callers \ {c} : kvCaller'[d] = kvCaller[d]
    <2>1. CASE Discard(p, c)
        BY Zenon, <2>1, <1>1 DEF Discard, Answer, KvShapes, Idle, Called
    <2>2. ASSUME NEW part \in Parts, part - 1 \in kvDirs[c].parts \cup {0},
                 kvDirs' = [kvDirs EXCEPT ![c].parts = @ \cup {part}]
          PROVE  part = 2 => kvDirs'[c].parts = Parts
        <3>1. kvDirs[c].parts \subseteq Parts /\ kvDirs'[c].parts = kvDirs[c].parts \cup {part}
            BY <1>1, <2>2 DEF KvShapes
        <3> QED
            BY <3>1, <2>2 DEF Parts
    <2>3. \/ Discard(p, c)
          \/ \E part \in Parts :
                /\ part - 1 \in kvDirs[c].parts \cup {0}
                /\ kvDirs' = [kvDirs EXCEPT ![c].parts = @ \cup {part}]
                /\ kvOp' = IF part = 2 THEN [kvOp EXCEPT ![p].pc = "point"] ELSE kvOp
                /\ kvCaller' = kvCaller
        BY <1>0, Zenon DEF writePart
    <2> QED
        BY Zenon, <2>1, <2>2, <2>3
<1>6. \A d \in Callers : NotPointed(d)' => NotPointed(d)
    BY <1>1, <1>2, <1>3, <1>5 DEF NotPointed, OneProc, KvShapes
<1>7. \A d \in Callers \ {c} : Filling(d) => Filling(d)'
    BY <1>0, <1>1, <1>2, <1>5 DEF Filling, OneProc, KvShapes
<1>8. NotPointed(c)' => Filling(c)'
    BY <1>0, <1>1, <1>2, <1>3, <1>5 DEF NotPointed, Filling, KvShapes
<1>9. \A q \in Procs \ {p} : kvOp'[q] = kvOp[q] /\ (kvOp[q].pc \in {"point"} => kvOp[q].by # c)
    BY Zenon, <1>1, OwnCall DEF OneProc, DirInv
<1>10. \A q \in Procs : kvOp'[q].pc = "ddir" => kvOp[q].pc = "ddir" /\ kvOp'[q].dir = kvOp[q].dir
    BY <1>1, <1>3, <1>5, <1>9 DEF KvShapes
<1>11. DirsAreOwn'
    <2>1. ASSUME NEW d \in Callers, NotPointed(d)'
          PROVE  /\ ~kvDirs'[d].old /\ kvPtr' # d
                 /\ \A q \in Procs : kvOp'[q].pc = "ddir" => kvOp'[q].dir # d
                 /\ ~Filling(d)' => ~Whole(d)'
        BY <2>1, <1>3, <1>4, <1>6, <1>7, <1>8, <1>10, Marks DEF DirInv, DirsAreOwn, Whole
    <2>2. \A q \in Procs : (kvOp[q].pc = "point" => Whole(kvOp[q].by))'
        <3>1. ASSUME NEW q \in Procs \ {p}, kvOp[q].pc = "point" PROVE kvOp[q].by \in Dirs \ {c}
            BY Zenon, <3>1, <1>9, OwnCall DEF DirInv
        <3>2. \A q \in Procs \ {p} : (kvOp[q].pc = "point" => Whole(kvOp[q].by))'
            BY <1>4, <1>9, <3>1 DEF DirInv, DirsAreOwn, Whole
        <3>3. (kvOp[p].pc = "point" => Whole(kvOp[p].by))'
            BY <1>0, <1>1, <1>3, <1>5 DEF Whole, KvShapes
        <3> QED
            BY Zenon, <3>2, <3>3
    <2>3. \A q \in Procs : kvOp'[q].pc = "purge" /\ kvPtr' \in Dirs => ~kvDirs'[kvPtr'].old
        BY <1>1, <1>3, <1>4, <1>5, <1>9 DEF DirInv, DirsAreOwn, KvShapes
    <2> QED
        BY Zenon, <2>1, <2>2, <2>3 DEF DirsAreOwn
<1>12. PointerNamesWholePlan'
    <2>1. \A q \in Procs : kvOp[q].pc = "dpoint" => kvOp'[q].pc = "dpoint"
        BY Zenon, <1>3, <1>9
    <2>2. \A d \in Callers : kvCaller[d].pc = "failed" => kvCaller'[d].pc = "failed"
        BY Zenon, <1>5
    <2> QED
        BY <1>2, <1>3, <1>4, <2>1, <2>2 DEF DirInv, PointerNamesWholePlan, Whole
<1> QED
    BY Zenon, <1>1, <1>11, <1>12 DEF DirInv

(* The pointer is moved to a directory that nobody else writes. *)
LEMMA DirPoint ==
    ASSUME DirInv, NEW p \in Procs, setLeanPlan(p)
    PROVE  DirInv'
<1>0. PICK c \in Callers : c = kvOp[p].by
    BY Zenon, OwnCall DEF DirInv, setLeanPlan
<1>1. OpInv' /\ OneProc(p) /\ KvShapes /\ c \in Dirs /\ KvProc(c) = p /\ NotPointed(c)
    BY Zenon, <1>0, OpStep, OwnCall DEF DirInv, OpInv, KvStep, setLeanPlan
<1>2. \A d \in Callers : KvProc(d)' = KvProc(d) /\ Job(d)' = Job(d) /\ KvProc(d) \in Procs
    BY <1>1, JobShape DEF OneProc, KvProc, Job, KvShapes
<1>3. /\ kvPtr # c /\ kvOp[p].pc = "point" /\ kvCaller[c].pc = "read"
      /\ Whole(c) /\ ~kvDirs[c].old
    BY Zenon, <1>0, <1>1, OwnCall DEF setLeanPlan, DirInv, DirsAreOwn
<1>4. /\ \A d \in Dirs \ {c} : kvDirs'[d] = kvDirs[d]
      /\ kvDirs'[c].old = kvDirs[c].old
    BY <1>0, <1>1 DEF setLeanPlan, Discard, KvShapes
<1>5. \/ /\ kvCaller' = kvCaller /\ kvDirs' = kvDirs /\ kvPtr' = c
         /\ kvOp'[p].pc = "purge" /\ kvOp'[p].by = c
      \/ /\ kvOp'[p].pc = "idle" /\ kvCaller'[c].pc = "failed" /\ kvPtr' = kvPtr
         /\ \A d \in Callers \ {c} : kvCaller'[d] = kvCaller[d]
    BY <1>0, <1>1 DEF setLeanPlan, Discard, Answer, KvShapes, Idle, Called
<1>6. \A d \in Callers : NotPointed(d)' => NotPointed(d) /\ d # c
    BY <1>1, <1>2, <1>3, <1>5 DEF NotPointed, OneProc, KvShapes
<1>7. \A d \in Callers \ {c} : Filling(d) => Filling(d)'
    BY Zenon, <1>0, <1>1, <1>2 DEF Filling, OneProc
<1>9. \A q \in Procs \ {p} : kvOp'[q] = kvOp[q] /\ (kvOp[q].pc \in {"point"} => kvOp[q].by # c)
    BY <1>1, OwnCall DEF OneProc, DirInv
<1>11. DirsAreOwn'
    <2>1. ASSUME NEW d \in Callers, NotPointed(d)'
          PROVE  /\ ~kvDirs'[d].old /\ kvPtr' # d
                 /\ \A q \in Procs : kvOp'[q].pc = "ddir" => kvOp'[q].dir # d
                 /\ ~Filling(d)' => ~Whole(d)'
        BY <2>1, <1>4, <1>5, <1>6, <1>7, <1>9, Marks DEF DirInv, DirsAreOwn, Whole
    <2>2. \A q \in Procs : (kvOp[q].pc = "point" => Whole(kvOp[q].by))'
        <3>1. ASSUME NEW q \in Procs \ {p}, kvOp[q].pc = "point" PROVE kvOp[q].by \in Dirs \ {c}
            BY <3>1, <1>9, OwnCall DEF DirInv
        <3> QED
            BY <1>4, <1>5, <1>9, <3>1 DEF DirInv, DirsAreOwn, Whole
    <2>3. \A q \in Procs : kvOp'[q].pc = "purge" /\ kvPtr' \in Dirs => ~kvDirs'[kvPtr'].old
        BY <1>1, <1>3, <1>4, <1>5, <1>9 DEF DirInv, DirsAreOwn
    <2> QED
        BY <2>1, <2>2, <2>3 DEF DirsAreOwn
<1>12. PointerNamesWholePlan'
    <2>1. \A q \in Procs : kvOp[q].pc = "dpoint" => kvOp'[q].pc = "dpoint"
        BY Zenon, <1>3, <1>9
    <2>2. \A d \in Callers : kvCaller[d].pc = "failed" => kvCaller'[d].pc = "failed"
        BY Zenon, <1>5
    <2> QED
        BY <1>2, <1>3, <1>4, <1>5, <2>1, <2>2 DEF DirInv, PointerNamesWholePlan, Whole
<1> QED
    BY <1>1, <1>11, <1>12 DEF DirInv

(* A purge does not touch the pointed directory nor one that is being      *)
(* written: neither is old.                                                *)
LEMMA DirPurge ==
    ASSUME DirInv, NEW p \in Procs, purgeOrphanedLeanPlans(p)
    PROVE  DirInv'
<1>0. PICK c \in Callers : c = kvOp[p].by
    BY Zenon, OwnCall DEF DirInv, purgeOrphanedLeanPlans
<1>1. OpInv' /\ OneProc(p) /\ KvShapes /\ c \in Dirs /\ KvProc(c) = p
    BY Zenon, <1>0, OpStep, OwnCall DEF DirInv, OpInv, KvStep, purgeOrphanedLeanPlans
<1>2. \A d \in Callers : KvProc(d)' = KvProc(d) /\ Job(d)' = Job(d) /\ KvProc(d) \in Procs
    BY Zenon, <1>1, JobShape DEF OneProc, KvProc, Job, KvShapes
<1>3. /\ kvPtr' = kvPtr /\ kvOp[p].pc = "purge" /\ kvCaller[c].pc = "read"
      /\ kvOp'[p].pc = "idle" /\ kvCaller'[c].pc = "done"
      /\ \A d \in Callers \ {c} : kvCaller'[d] = kvCaller[d]
    BY Zenon, <1>0, <1>1, OwnCall DEF purgeOrphanedLeanPlans, DirInv, Answer, KvShapes, Idle, Called
<1>4. \A d \in Dirs : /\ kvDirs'[d].old = kvDirs[d].old
                      /\ \/ kvDirs'[d] = kvDirs[d]
                         \/ kvDirs[d].old /\ kvDirs'[d].parts = {}
    BY <1>0, <1>1 DEF purgeOrphanedLeanPlans, Orphaned, KvShapes
<1>5. \A q \in Procs \ {p} : kvOp'[q] = kvOp[q]
    BY Zenon, <1>1 DEF OneProc
<1>6. \A d \in Callers : NotPointed(d)' => NotPointed(d)
    <2>1. \A d \in Callers : kvOp[p].by = d => d = c
        BY Zenon, <1>0
    <2> QED
        BY Zenon, <1>1, <1>2, <1>3, <1>5, <2>1 DEF NotPointed
<1>7. \A d \in Callers : Filling(d) => Filling(d)'
    BY Zenon, <1>2, <1>3, <1>5 DEF Filling
<1>8. \A d \in Dirs : Whole(d)' => Whole(d)
    BY Zenon, <1>4 DEF Whole, Parts
<1>9. kvPtr \in Dirs => ~kvDirs[kvPtr].old
    BY Zenon, <1>3 DEF DirInv, DirsAreOwn
<1>11. DirsAreOwn'
    <2>1. ASSUME NEW d \in Callers, NotPointed(d)'
          PROVE  /\ ~kvDirs'[d].old /\ kvPtr' # d
                 /\ \A q \in Procs : kvOp'[q].pc = "ddir" => kvOp'[q].dir # d
                 /\ ~Filling(d)' => ~Whole(d)'
        BY <2>1, <1>3, <1>4, <1>5, <1>6, <1>7, <1>8, Marks DEF DirInv, DirsAreOwn
    <2>2. \A q \in Procs : (kvOp[q].pc = "point" => Whole(kvOp[q].by))'
        <3>1. ASSUME NEW q \in Procs, kvOp[q].pc = "point"
              PROVE  kvOp[q].by \in Dirs /\ ~kvDirs[kvOp[q].by].old
            BY Zenon, <3>1, OwnCall DEF DirInv, DirsAreOwn
        <3> QED
            BY <1>3, <1>4, <1>5, <3>1 DEF DirInv, DirsAreOwn, Whole
    <2>3. \A q \in Procs : kvOp'[q].pc = "purge" /\ kvPtr' \in Dirs => ~kvDirs'[kvPtr'].old
        BY Zenon, <1>3, <1>4, <1>9
    <2> QED
        BY <2>1, <2>2, <2>3 DEF DirsAreOwn
<1>12. PointerNamesWholePlan'
    <2>1. \A q \in Procs : kvOp[q].pc = "dpoint" => kvOp'[q].pc = "dpoint"
        BY Zenon, <1>3, <1>5
    <2>2. \A d \in Callers : kvCaller[d].pc = "failed" => kvCaller'[d].pc = "failed"
        BY Zenon, <1>3
    <2> QED
        BY <1>2, <1>3, <1>4, <1>9, <2>1, <2>2 DEF DirInv, PointerNamesWholePlan, Whole
<1> QED
    BY Zenon, <1>1, <1>11, <1>12 DEF DirInv

(* A deletion empties the directory that the pointer named, and no other. *)
LEMMA DirDelete ==
    ASSUME DirInv, NEW p \in Procs, delLeanPlanMeta(p) \/ delLeanPlanDir(p) \/ delLeanPlan(p)
    PROVE  DirInv'
<1>0. PICK c \in Callers : c = kvOp[p].by
    BY Zenon, OwnCall DEF DirInv, delLeanPlanMeta, delLeanPlanDir, delLeanPlan
<1>1. /\ OpInv' /\ OneProc(p) /\ KvShapes /\ KvProc(c) = p
      /\ Job(c).kind = "delplan" /\ kvCaller[c].pc = "start" /\ kvOp[p].pc \in {"dmeta", "ddir", "dpoint"}
    BY Zenon, <1>0, OpStep, OwnCall DEF DirInv, OpInv, KvStep, delLeanPlanMeta, delLeanPlanDir, delLeanPlan
<1>2. \A d \in Callers : KvProc(d)' = KvProc(d) /\ Job(d)' = Job(d) /\ KvProc(d) \in Procs
    BY Zenon, <1>1, JobShape DEF OneProc, KvProc, Job, KvShapes
<1>3. \A q \in Procs \ {p} : kvOp'[q] = kvOp[q]
    BY Zenon, <1>1 DEF OneProc
<1>4. /\ \A d \in Dirs : /\ kvDirs'[d].old = kvDirs[d].old
                         /\ \/ kvDirs'[d] = kvDirs[d]
                            \/ kvOp[p].pc = "ddir" /\ d = kvOp[p].dir /\ kvDirs'[d].parts = {}
      /\ \A d \in Callers \ {c} : kvCaller'[d] = kvCaller[d]
    BY <1>0, <1>1 DEF delLeanPlanMeta, delLeanPlanDir, delLeanPlan, Answer, KvShapes
<1>5. \/ /\ kvOp'[p].pc \in {"ddir", "idle"} /\ kvPtr' = kvPtr /\ kvOp[p].pc = "dmeta"
         /\ kvOp'[p].pc = "ddir" => kvOp'[p].dir = kvPtr
         /\ kvDirs' = kvDirs
      \/ kvOp'[p].pc = "dpoint" /\ kvPtr' = kvPtr /\ kvOp[p].pc = "ddir"
      \/ kvOp'[p].pc = "idle" /\ kvPtr' = kvPtr /\ kvOp[p].pc = "ddir" /\ kvDirs' = kvDirs
      \/ kvOp'[p].pc = "idle" /\ kvPtr' = EmptyPath
      \/ kvOp'[p].pc = "idle" /\ kvPtr' = kvPtr /\ kvCaller'[c].pc = "failed" /\ kvDirs' = kvDirs
    BY <1>0, <1>1 DEF delLeanPlanMeta, delLeanPlanDir, delLeanPlan, Answer, KvShapes, Idle, Called
<1>6. kvOp'[p].by = c \/ kvOp'[p].pc = "idle"
    BY <1>0, <1>1 DEF delLeanPlanMeta, delLeanPlanDir, delLeanPlan, KvShapes, Idle, Called
<1>7. \A d \in Callers : NotPointed(d)' => NotPointed(d) /\ (d = c => ~Whole(c))
    <2>1. NotPointed(c) /\ ~Filling(c)
        BY Zenon, <1>0, <1>1 DEF NotPointed, Filling
    <2>2. ~Whole(c)
        BY Zenon, <2>1 DEF DirInv, DirsAreOwn
    <2> QED
        BY <1>1, <1>2, <1>3, <1>4, <2>1, <2>2 DEF NotPointed
<1>8. \A d \in Callers : Filling(d) => Filling(d)'
    BY Zenon, <1>1, <1>2, <1>3 DEF Filling
<1>9. \A d \in Dirs : Whole(d)' => Whole(d)
    BY Zenon, <1>4 DEF Whole, Parts
<1>11. DirsAreOwn'
    <2>1. ASSUME NEW d \in Callers, NotPointed(d)'
          PROVE  /\ ~kvDirs'[d].old /\ kvPtr' # d
                 /\ \A q \in Procs : kvOp'[q].pc = "ddir" => kvOp'[q].dir # d
                 /\ ~Filling(d)' => ~Whole(d)'
        BY <2>1, <1>3, <1>4, <1>5, <1>7, <1>8, <1>9, Marks DEF DirInv, DirsAreOwn
    <2>2. \A q \in Procs : (kvOp[q].pc = "point" => Whole(kvOp[q].by))'
        <3>1. ASSUME NEW q \in Procs, kvOp[q].pc = "point"
              PROVE  kvOp[q].by \in Dirs /\ (kvOp[p].pc = "ddir" => kvOp[p].dir # kvOp[q].by)
            BY Zenon, <3>1, OwnCall DEF DirInv, DirsAreOwn
        <3> QED
            BY <1>3, <1>4, <1>5, <3>1 DEF DirInv, DirsAreOwn, Whole
    <2>3. \A q \in Procs : kvOp'[q].pc = "purge" /\ kvPtr' \in Dirs => ~kvDirs'[kvPtr'].old
        BY <1>3, <1>4, <1>5, Marks DEF DirInv, DirsAreOwn
    <2> QED
        BY Zenon, <2>1, <2>2, <2>3 DEF DirsAreOwn
<1>12. PointerNamesWholePlan'
    <2>1. \A q \in Procs : kvOp[q].pc = "dpoint" /\ q # p => kvOp'[q].pc = "dpoint"
        BY Zenon, <1>3
    <2>2. \A d \in Callers : kvCaller[d].pc = "failed" => kvCaller'[d].pc = "failed"
        BY Zenon, <1>1, <1>4
    <2>3. CASE kvOp[p].pc = "dpoint"
        <3>1. kvPtr' = EmptyPath \/ kvCaller'[c].pc = "failed"
            BY Zenon, <2>3, <1>5
        <3> QED
            BY Zenon, <3>1, <1>1, <1>2, Marks DEF PointerNamesWholePlan
    <2>4. CASE kvOp[p].pc # "dpoint" /\ kvOp'[p].pc # "dpoint"
        BY <2>4, <1>2, <1>4, <1>5, <2>1, <2>2, Marks DEF DirInv, PointerNamesWholePlan, Whole
    <2>5. CASE kvOp'[p].pc = "dpoint"
        BY Zenon, <2>5 DEF PointerNamesWholePlan
    <2> QED
        BY Zenon, <2>3, <2>4, <2>5
<1> QED
    BY Zenon, <1>1, <1>11, <1>12 DEF DirInv

(* A directory turns old only while no plan is being written. *)
LEMMA DirAge ==
    ASSUME DirInv, NEW d \in Dirs, KvAge(d)
    PROVE  DirInv'
<1>1. OpInv' /\ KvShapes
    BY Zenon, OpRest DEF DirInv, OpInv
<1>2. /\ kvOp' = kvOp /\ kvCaller' = kvCaller /\ kvPtr' = kvPtr /\ kvLimits' = kvLimits
      /\ Whole(d) /\ \A p \in Procs : kvOp[p].pc \notin {"write", "point", "purge"}
      /\ kvDirs' = [kvDirs EXCEPT ![d].old = TRUE]
    BY Zenon DEF KvAge
<1>3. \A e \in Dirs : kvDirs'[e].parts = kvDirs[e].parts /\ (e # d => kvDirs'[e].old = kvDirs[e].old)
    BY ZenonT(40), <1>1, <1>2 DEF KvShapes
<1>4. \A c \in Callers : KvProc(c) \in Procs
    BY Zenon, <1>1, JobShape DEF KvShapes
<1>5. \A c \in Callers : (NotPointed(c)' <=> NotPointed(c)) /\ (Filling(c)' <=> Filling(c)) /\ ~Filling(c)
    BY Zenon, <1>2, <1>4 DEF NotPointed, Filling, KvProc, Job
<1>6. \A c \in Callers : NotPointed(c) => c # d
    BY Zenon, <1>2, <1>5 DEF DirInv, DirsAreOwn
<1>7. DirsAreOwn'
    <2>1. ASSUME NEW c \in Callers, NotPointed(c)'
          PROVE  /\ ~kvDirs'[c].old /\ kvPtr' # c
                 /\ \A q \in Procs : kvOp'[q].pc = "ddir" => kvOp'[q].dir # c
                 /\ ~Filling(c)' => ~Whole(c)'
        BY Zenon, <2>1, <1>2, <1>3, <1>5, <1>6, Marks DEF DirInv, DirsAreOwn, Whole
    <2> QED
        BY Zenon, <2>1, <1>2 DEF DirsAreOwn
<1>8. PointerNamesWholePlan'
    BY Zenon, <1>2, <1>3 DEF DirInv, PointerNamesWholePlan, Whole, Job
<1> QED
    BY Zenon, <1>1, <1>7, <1>8 DEF DirInv

LEMMA DirNext == DirInv /\ [KvNext]_kvVars => DirInv'
<1> SUFFICES ASSUME DirInv, [KvNext]_kvVars PROVE DirInv'
    BY Zenon
<1>1. CASE UNCHANGED kvVars \/ KvUpgrade \/ \E p \in Procs : KvRefresh(p)
    <2>1. OpInv'
        BY Zenon, <1>1, OpRest DEF DirInv
    <2>2. UNCHANGED <<kvLimits, kvPtr, kvDirs, kvOp, kvCaller>>
        BY Zenon, <1>1 DEF kvVars, KvUpgrade, KvRefresh, kvStore
    <2>3. DirsAreOwn'
        BY Zenon, <2>2 DEF DirInv, DirsAreOwn, NotPointed, Filling, Whole, KvProc, Job
    <2>4. PointerNamesWholePlan'
        BY Zenon, <2>2 DEF DirInv, PointerNamesWholePlan, Whole, Job
    <2> QED
        BY Zenon, <2>1, <2>3, <2>4 DEF DirInv
<1>2. ASSUME NEW p \in Procs, watchPlan(p) PROVE DirInv'
    <2>1. OpInv' /\ KvShapes
        BY Zenon, <1>2, OpRest DEF DirInv, OpInv
    <2>2. OneProc(p)
        BY Zenon, <1>2, <2>1 DEF OneProc, watchPlan, PlanCall, KvShapes
    <2>3. /\ kvPtr' = kvPtr /\ kvDirs' = kvDirs /\ kvCaller' = kvCaller
          /\ kvOp[p] = Idle /\ kvOp'[p].pc \in {"meta", "shared"}
        BY <1>2, <2>1 DEF watchPlan, PlanCall, KvShapes, kvStore, Called
    <2>4. QuietFor(p)
        BY <2>3 DEF QuietFor, Idle, Called
    <2> QED
        BY Zenon, <2>1, <2>2, <2>4, DirQuiet
<1> QED
    BY Zenon, <1>1, <1>2, DirCall, DirOther, DirWrite, DirPoint, DirPurge, DirDelete, DirAge
    DEF KvNext, KvStep

(* PointerNamesWholePlan for every number of processes and callers, any    *)
(* mix of writers, deleters and feature changes, and any failures.         *)
THEOREM PointerIsWhole == KvSpec => []PointerNamesWholePlan
<1>1. KvInit => DirInv
    BY Zenon, DirInit
<1>2. DirInv /\ [KvNext]_kvVars => DirInv'
    BY Zenon, DirNext
<1>3. DirInv => PointerNamesWholePlan
    BY Zenon DEF DirInv
<1> QED
    BY <1>1, <1>2, <1>3, PTL DEF KvSpec

-----------------------------------------------------------------------------
(* A cluster in which every node has the lean plan, and no check fails. *)
Lean == kvLimits.level > 0 /\ ~kvLimits.blink

Reading(p) == kvOp[p].pc # "idle" /\ kvOp[p].by = Watcher

(* In such a cluster the pointer alone says what the current plan is. *)
LeanPlan == IF kvPtr = EmptyPath THEN Nothing ELSE Woven(kvPtr)

LEMMA LeanPlanIsCurrent == kvLevel # 0 /\ kvPtr # Unset => KvCurrent = LeanPlan
BY Zenon DEF KvCurrent, LeanPlan

LEMMA LeanPlanIsCurrentNext == (kvLevel # 0 /\ kvPtr # Unset => KvCurrent = LeanPlan)'
BY Zenon DEF KvCurrent, LeanPlan

LEMMA WatchInit == KvInit => WatchInv
<1> SUFFICES ASSUME KvInit PROVE WatchInv
    OBVIOUS
<1>1. DirInv /\ KvShapes
    BY Zenon, DirInit DEF DirInv, OpInv
<1>2. \A p \in Procs : kvOp[p].pc = "idle"
    BY DEF KvInit, Idle, Called
<1>3. Before \in Dirs /\ Before # Unset /\ Before # EmptyPath
    BY Zenon, Marks DEF Dirs
<1>4. ASSUME kvLimits.level > 0
      PROVE  kvLevel > 0 /\ kvLevel # 0 /\ kvPtr = Before /\ Whole(Before)
    <2>1. kvLevel = kvLimits.level /\ kvLevel \in Nat
        BY Zenon, <1>1 DEF KvInit, KvShapes
    <2>2. kvLevel # 0
        BY <1>4, <2>1
    <2> QED
        BY Zenon, <1>3, <1>4, <2>1, <2>2 DEF KvInit, Whole
<1>5. kvLimits.level > 0 => KvCurrent = Before
    BY Zenon, <1>3, <1>4, LeanPlanIsCurrent DEF LeanPlan, Woven
<1>6. WatchersFollow
    BY Zenon, <1>2, <1>3, <1>4 DEF WatchersFollow
<1>7. NobodyMissesThePlan
    BY Zenon, <1>5 DEF NobodyMissesThePlan, KvInit
<1> QED
    BY Zenon, <1>1, <1>6, <1>7 DEF WatchInv

(* What a step may do to the watchers, in terms of the pointer, the whole  *)
(* directory it names, the events on their way and the reads.              *)
Watched ==
    /\ kvPtr' # Unset
    /\ kvPtr' = kvPtr \/ \A q \in Procs : kvKick'[q]
    /\ kvPtr \in Dirs /\ kvPtr' = kvPtr /\ Whole(kvPtr)' => Whole(kvPtr)
    /\ \A q \in Procs :
          \/ /\ kvView'[q] = kvView[q]
             /\ kvKick[q] => kvKick'[q] \/ Reading(q)'
             /\ Reading(q) => Reading(q)'
          \/ kvView'[q].plan = LeanPlan'
          \/ kvKick'[q]

LEMMA WatchedKeeps ==
    ASSUME WatchInv, Lean, Watched, KvShapes', kvLimits' = kvLimits, kvLevel' > 0
    PROVE  NobodyMissesThePlan'
<1>1. kvLevel # 0 /\ kvPtr # Unset /\ kvPtr' # Unset /\ kvLevel' # 0
    BY DEF WatchInv, WatchersFollow, Lean, Watched, DirInv, OpInv, KvShapes
<1>2. KvCurrent = LeanPlan /\ KvCurrent' = LeanPlan'
    BY Zenon, <1>1, LeanPlanIsCurrent, LeanPlanIsCurrentNext
<1>3. ASSUME NEW q \in Procs, ~kvKick'[q], ~Reading(q)', ~(kvPtr \in Dirs /\ ~Whole(kvPtr))'
      PROVE  kvView'[q].plan = KvCurrent'
    <2>1. CASE kvView'[q].plan = LeanPlan'
        BY Zenon, <2>1, <1>2
    <2>2. CASE kvView'[q] = kvView[q] /\ ~kvKick[q] /\ ~Reading(q)
        <3>1. kvPtr' = kvPtr
            BY Zenon, <1>3 DEF Watched
        <3>2. kvPtr \in Dirs => Whole(kvPtr) /\ Whole(kvPtr)'
            BY Zenon, <1>3, <3>1 DEF Watched
        <3>3. kvView[q].plan = KvCurrent
            BY Zenon, <2>2, <3>2 DEF WatchInv, NobodyMissesThePlan, Reading, Lean
        <3>4. LeanPlan' = LeanPlan
            <4>1. CASE kvPtr = EmptyPath
                BY Zenon, <4>1, <3>1 DEF LeanPlan
            <4>2. CASE kvPtr \in Dirs
                BY Zenon, <4>2, <3>1, <3>2, Marks DEF LeanPlan, Woven
            <4> QED
                BY Zenon, <4>1, <4>2, <1>1 DEF WatchInv, DirInv, OpInv, KvShapes
        <3> QED
            BY Zenon, <2>2, <3>3, <3>4, <1>2
    <2> QED
        BY Zenon, <1>3, <2>1, <2>2 DEF Watched
<1> QED
    BY Zenon, <1>3 DEF NobodyMissesThePlan, Reading


(* The rest of the invariant is about one process at a time. *)
FollowsAt(q) ==
    /\ kvOp[q].pc \notin {"shared", "setshared", "delshared"}
    /\ kvOp[q].pc = "list" /\ kvOp[q].by = Watcher => kvOp[q].dir = kvPtr \/ kvKick[q]

LEMMA WatchersFollowAll ==
    ASSUME WatchInv, DirInv', kvLimits' = kvLimits, NEW p \in Procs,
           Lean => /\ kvLevel' > 0 /\ Watched /\ FollowsAt(p)'
                   /\ \A q \in Procs \ {p} : kvOp'[q] = kvOp[q] /\ (kvKick[q] => kvKick'[q])
    PROVE  WatchInv'
<1>1. Lean' = Lean /\ KvShapes'
    BY Zenon DEF Lean, DirInv, OpInv
<1>2. ASSUME Lean PROVE WatchersFollow' /\ NobodyMissesThePlan'
    <2>1. ASSUME NEW q \in Procs \ {p} PROVE FollowsAt(q)'
        <3>1. FollowsAt(q) /\ kvOp'[q] = kvOp[q] /\ (kvKick[q] => kvKick'[q])
            BY Zenon, <1>2 DEF WatchInv, WatchersFollow, FollowsAt, Lean
        <3>2. kvPtr' = kvPtr \/ kvKick'[q]
            BY Zenon, <1>2 DEF Watched
        <3> QED
            BY Zenon, <3>1, <3>2 DEF FollowsAt
    <2>2. kvPtr' # Unset /\ kvLevel' > 0 /\ FollowsAt(p)'
        BY Zenon, <1>2 DEF Watched
    <2>3. WatchersFollow'
        BY Zenon, <2>1, <2>2 DEF WatchersFollow, FollowsAt
    <2> QED
        BY Zenon, <2>3, <1>1, <1>2, WatchedKeeps
<1>3. ASSUME ~Lean PROVE WatchersFollow' /\ NobodyMissesThePlan'
    BY Zenon, <1>1, <1>3 DEF Lean, WatchersFollow, NobodyMissesThePlan
<1> QED
    BY Zenon, <1>2, <1>3 DEF WatchInv

(* A caller begins a call: nobody watches less. *)
LEMMA WatchCall ==
    ASSUME WatchInv, NEW c \in Callers, KvCall(c)
    PROVE  WatchInv'
<1>p. PICK p \in Procs : p = KvProc(c)
    BY Zenon, JobShape DEF WatchInv, DirInv, OpInv, KvShapes
<1>1. DirInv' /\ OneProc(p) /\ KvShapes
    BY Zenon, <1>p, OpCall, DirCall DEF WatchInv, DirInv, OpInv
<1>2. UNCHANGED <<kvPtr, kvDirs, kvKick, kvView, kvLevel, kvLimits>> /\ kvOp[p] = Idle
    BY Zenon, <1>p DEF KvCall, getNodeDefs, setNodeDefs, delNodeDefs, getIndexDefs, setIndexDefs, delIndexDefs,
              getPlan, setPlan, delPlan, PlanCall, kvStore
<1>3. ASSUME Lean PROVE FollowsAt(p)'
    <2>1. CASE getPlan(c) \/ setPlan(c) \/ delPlan(c)
        <3>1. ~kvLimits.blink /\ kvLevel > 0
            BY Zenon, <1>3 DEF Lean, WatchInv, WatchersFollow
        <3>2. kvOp'[p].pc \in {"meta", "write", "dmeta"}
            <4>1. \/ PlanCall(p, c, "meta", "shared") \/ PlanCall(p, c, "write", "setshared")
                  \/ PlanCall(p, c, "dmeta", "delshared")
                BY Zenon, <2>1, <1>p DEF getPlan, setPlan, delPlan
            <4>2. DOMAIN kvOp = Procs
                BY Zenon, <1>1 DEF KvShapes
            <4> QED
                BY <4>1, <4>2, <3>1, PlanCallBegins
        <3> QED
            BY Zenon, <3>2 DEF FollowsAt
    <2>2. CASE setNodeDefs(c)
        <3>1. kvOp'[p].pc \in {"idle", "remove"}
            BY <2>2, <1>p, <1>1 DEF setNodeDefs, Idle, Called, KvShapes
        <3> QED
            BY Zenon, <3>1 DEF FollowsAt
    <2>3. CASE \/ getNodeDefs(c) \/ delNodeDefs(c) \/ getIndexDefs(c) \/ setIndexDefs(c) \/ delIndexDefs(c)
        <3>1. kvOp' = kvOp
            BY <2>3 DEF getNodeDefs, delNodeDefs, getIndexDefs, setIndexDefs, delIndexDefs
        <3> QED
            BY <3>1, <1>2 DEF Idle, Called, FollowsAt
    <2> QED
        BY Zenon, <2>1, <2>2, <2>3 DEF KvCall
<1>4. ASSUME Lean PROVE Watched /\ kvLevel' > 0
    <2>1. ~Reading(p)
        BY <1>2 DEF Reading, Idle, Called
    <2>2. \A q \in Procs : Reading(q) => Reading(q)'
        BY Zenon, <2>1, <1>1 DEF Reading, OneProc
    <2> QED
        BY Zenon, <1>2, <1>4, <2>2 DEF Watched, WatchInv, WatchersFollow, Lean, Whole
<1> QED
    BY Zenon, <1>1, <1>2, <1>3, <1>4, WatchersFollowAll DEF OneProc

(* A step of a caller's call moves the pointer only with its event, and    *)
(* does not complete the directory that the pointer names.                 *)
LEMMA WatchStep ==
    ASSUME WatchInv, NEW p \in Procs,
           \/ removeNodeDefs(p) \/ writePart(p) \/ setLeanPlan(p) \/ purgeOrphanedLeanPlans(p)
           \/ delLeanPlanMeta(p) \/ delLeanPlanDir(p) \/ delLeanPlan(p)
    PROVE  WatchInv'
<1> DEFINE c == kvOp[p].by
<1>1. DirInv' /\ OneProc(p) /\ KvShapes /\ OpFits(p) /\ DirInv
    BY Zenon, OpStep, DirOther, DirWrite, DirPoint, DirPurge, DirDelete DEF WatchInv, DirInv, OpInv, KvOps, KvStep
<1>2. c \in Callers /\ ~Reading(p) /\ kvView' = kvView /\ kvLevel' = kvLevel /\ kvLimits' = kvLimits
    BY Zenon, <1>1, Marks DEF OpFits, Reading, removeNodeDefs, writePart, setLeanPlan, purgeOrphanedLeanPlans,
                       delLeanPlanMeta, delLeanPlanDir, delLeanPlan
<1>3. \/ kvKick' = [q \in Procs |-> TRUE]
      \/ kvKick' = kvKick /\ kvPtr' = kvPtr
    BY Zenon DEF removeNodeDefs, writePart, setLeanPlan, purgeOrphanedLeanPlans, delLeanPlanMeta, delLeanPlanDir,
           delLeanPlan, metaKVCallback, WatchedKey
<1>4. kvPtr' = kvPtr \/ kvPtr' \in Callers \/ kvPtr' = EmptyPath
    BY Zenon, <1>2 DEF removeNodeDefs, writePart, setLeanPlan, purgeOrphanedLeanPlans, delLeanPlanMeta,
                delLeanPlanDir, delLeanPlan
<1>5. kvOp'[p].pc \in {"idle", "remove", "write", "point", "purge", "ddir", "dpoint"}
    <2>1. CASE writePart(p)
        <3>1. kvOp' = kvOp \/ kvOp' = [kvOp EXCEPT ![p].pc = "point"] \/ kvOp' = [kvOp EXCEPT ![p] = Idle]
            BY <2>1, Zenon DEF writePart, Discard
        <3>2. kvOp[p].pc = "write"
            BY Zenon, <2>1 DEF writePart
        <3> QED
            BY <3>1, <3>2, <1>1 DEF KvShapes, Idle, Called
    <2> QED
        BY <2>1, <1>1 DEF removeNodeDefs, setLeanPlan, purgeOrphanedLeanPlans, delLeanPlanMeta,
                          delLeanPlanDir, delLeanPlan, Discard, KvShapes, Idle, Called
<1>6. ASSUME kvPtr \in Dirs, kvPtr' = kvPtr, Whole(kvPtr)' PROVE Whole(kvPtr)
    <2>1. CASE writePart(p)
        <3>1. kvPtr # c /\ c \in Dirs
            BY Zenon, <2>1, <1>1, <1>2, OwnCall, Marks DEF writePart, DirInv, DirsAreOwn
        <3>2. \E parts : kvDirs' = [kvDirs EXCEPT ![c].parts = parts]
            BY <2>1, Zenon DEF writePart, Discard
        <3>3. kvDirs'[kvPtr] = kvDirs[kvPtr]
            BY Zenon, <1>1, <1>6, <3>1, <3>2 DEF KvShapes
        <3> QED
            BY Zenon, <1>6, <3>3 DEF Whole
    <2>2. CASE ~writePart(p)
        <3>1. \A d \in Dirs : kvDirs'[d].parts = kvDirs[d].parts \/ kvDirs'[d].parts = {}
            BY <2>2, <1>1, <1>2, Marks
            DEF removeNodeDefs, setLeanPlan, purgeOrphanedLeanPlans, Orphaned, delLeanPlanMeta,
                delLeanPlanDir, delLeanPlan, Discard, KvShapes
        <3> QED
            BY Zenon, <1>6, <3>1 DEF Whole, Parts
    <2> QED
        BY Zenon, <2>1, <2>2
<1>7. ASSUME Lean PROVE kvLevel' > 0 /\ Watched /\ FollowsAt(p)'
    <2>1. kvLevel > 0 /\ kvPtr # Unset
        BY Zenon, <1>7 DEF WatchInv, WatchersFollow, Lean
    <2>2. kvPtr' # Unset
        BY Zenon, <2>1, <1>4, Marks DEF Unset, EmptyPath
    <2>3. \A q \in Procs : (Reading(q) => Reading(q)') /\ (kvKick[q] => kvKick'[q])
        BY Zenon, <1>1, <1>2, <1>3 DEF Reading, OneProc
    <2>4. kvPtr' = kvPtr \/ \A q \in Procs : kvKick'[q]
        BY Zenon, <1>3
    <2>5. Watched
        BY Zenon, <1>2, <1>6, <2>2, <2>3, <2>4 DEF Watched
    <2> QED
        BY Zenon, <2>1, <2>5, <1>2, <1>5 DEF FollowsAt
<1>8. \A q \in Procs \ {p} : kvOp'[q] = kvOp[q] /\ (kvKick[q] => kvKick'[q])
    BY Zenon, <1>1, <1>3 DEF OneProc
<1> QED
    BY Zenon, <1>1, <1>2, <1>7, <1>8, WatchersFollowAll


(* A Get of the watcher ends with the current plan, or there is an event   *)
(* that came while it listed the directory.                                *)
LEMMA WatchGet ==
    ASSUME WatchInv, NEW p \in Procs,
           getSharedPlan(p) \/ getCurMetaKvPlanMeta(p) \/ getLeanPlan(p)
    PROVE  WatchInv'
<1>1. DirInv' /\ OneProc(p) /\ KvShapes /\ OpFits(p)
    BY Zenon, OpStep, DirOther DEF WatchInv, DirInv, OpInv, KvOps, KvStep
<1>2. UNCHANGED <<kvPtr, kvDirs, kvKick, kvLevel, kvLimits>>
    BY Zenon DEF getSharedPlan, getCurMetaKvPlanMeta, getLeanPlan, kvStore
<1>3. Lean => kvLevel > 0 /\ kvPtr # Unset /\ FollowsAt(p)
    BY Zenon DEF WatchInv, WatchersFollow, FollowsAt, Lean
<1>4. ASSUME Lean PROVE FollowsAt(p)' /\ Watched
    <2>1. LeanPlan' = LeanPlan /\ \A d : Whole(d)' = Whole(d)
        BY Zenon, <1>2 DEF LeanPlan, Woven, Whole
    <2>2. ASSUME NEW plan, NEW cas, Got(p, plan, cas), Reading(p) => plan = LeanPlan \/ kvKick[p],
                 kvOp[p].pc # "idle"
          PROVE  FollowsAt(p)' /\ Watched
        <3>1. kvOp'[p].pc = "idle"
            BY Zenon, <2>2, <1>1 DEF Got, Idle, Called, KvShapes
        <3>2. ASSUME NEW q \in Procs PROVE
                \/ kvView'[q] = kvView[q] /\ (Reading(q) => Reading(q)')
                \/ kvView'[q].plan = LeanPlan'
                \/ kvKick'[q]
            <4>1. CASE q # p
                BY Zenon, <4>1, <2>2, <1>1 DEF Got, KvShapes, Reading
            <4>2. CASE q = p /\ Reading(p)
                BY <4>2, <2>1, <2>2, <1>1, <1>2 DEF Got, KvShapes, Reading
            <4>3. CASE q = p /\ ~Reading(p)
                BY Zenon, <4>3, <2>2, <1>1 DEF Got, KvShapes, Reading
            <4> QED
                BY Zenon, <4>1, <4>2, <4>3
        <3> QED
            BY Zenon, <3>1, <3>2, <2>1, <1>2, <1>3, <1>4 DEF FollowsAt, Watched
    <2>3. ASSUME kvView' = kvView, kvOp'[p].by = kvOp[p].by, kvOp'[p].pc # "idle",
                 FollowsAt(p)'
          PROVE  FollowsAt(p)' /\ Watched
        <3>1. \A q \in Procs : Reading(q) => Reading(q)'
            BY Zenon, <2>3, <1>1 DEF Reading, OneProc
        <3> QED
            BY Zenon, <3>1, <2>3, <2>1, <1>2, <1>3, <1>4 DEF Watched
    <2>4. CASE getCurMetaKvPlanMeta(p)
        <3>1. kvOp[p].pc = "meta" /\ kvPtr # Unset
            BY Zenon, <2>4, <1>3, <1>4 DEF getCurMetaKvPlanMeta
        <3>2. CASE kvPtr = EmptyPath
            <4>1. Got(p, Nothing, FALSE)
                BY Zenon, <3>2, <3>1, <2>4, Marks DEF getCurMetaKvPlanMeta
            <4>2. Nothing = LeanPlan
                BY Zenon, <3>2 DEF LeanPlan
            <4> QED
                BY Zenon, <4>1, <4>2, <2>2, <3>1
        <3>3. CASE kvPtr # EmptyPath
            <4>1. kvOp' = [kvOp EXCEPT ![p].pc = "list", ![p].dir = kvPtr] /\ kvView' = kvView
                BY Zenon, <3>3, <3>1, <2>4 DEF getCurMetaKvPlanMeta
            <4>2. kvOp'[p].by = kvOp[p].by /\ kvOp'[p].pc = "list" /\ kvOp'[p].dir = kvPtr
                BY Zenon, <4>1, <1>1 DEF KvShapes
            <4>3. FollowsAt(p)'
                BY Zenon, <4>2, <1>2 DEF FollowsAt
            <4> QED
                BY Zenon, <4>1, <4>2, <4>3, <2>3
        <3> QED
            BY Zenon, <3>2, <3>3
    <2>5. CASE getLeanPlan(p)
        <3>1. \/ /\ \E t : kvOp' = [kvOp EXCEPT ![p].pc = "meta", ![p].tries = t, ![p].dir = Nothing]
                 /\ kvView' = kvView
              \/ Got(p, Woven(kvOp[p].dir), Whole(kvOp[p].dir))
            BY <2>5, Zenon DEF getLeanPlan
        <3>2. kvOp[p].pc = "list" /\ kvOp[p].dir \in Dirs
            BY Zenon, <2>5, <1>1 DEF getLeanPlan, OpFits
        <3>3. CASE Got(p, Woven(kvOp[p].dir), Whole(kvOp[p].dir))
            <4>1. Reading(p) => Woven(kvOp[p].dir) = LeanPlan \/ kvKick[p]
                BY Zenon, <3>2, <1>3, <1>4, Marks DEF Reading, FollowsAt, LeanPlan
            <4> QED
                BY Zenon, <4>1, <3>2, <3>3, <2>2
        <3>4. ASSUME NEW t, kvOp' = [kvOp EXCEPT ![p].pc = "meta", ![p].tries = t, ![p].dir = Nothing],
                     kvView' = kvView
              PROVE  FollowsAt(p)' /\ Watched
            <4>1. kvOp'[p].by = kvOp[p].by /\ kvOp'[p].pc = "meta"
                BY Zenon, <3>4, <1>1 DEF KvShapes
            <4>2. FollowsAt(p)'
                BY Zenon, <4>1 DEF FollowsAt
            <4> QED
                BY Zenon, <4>1, <4>2, <3>4, <2>3
        <3> QED
            BY Zenon, <3>1, <3>3, <3>4
    <2> QED
        BY Zenon, <2>4, <2>5, <1>3, <1>4 DEF FollowsAt, getSharedPlan
<1> QED
    BY Zenon, <1>1, <1>2, <1>3, <1>4, WatchersFollowAll DEF OneProc

LEMMA WatchNext == WatchInv /\ [KvNext]_kvVars => WatchInv'
<1> SUFFICES ASSUME WatchInv, [KvNext]_kvVars PROVE WatchInv'
    OBVIOUS
<1>0. DirInv' /\ DirInv /\ KvShapes /\ KvShapes'
    BY Zenon, DirNext DEF WatchInv, DirInv, OpInv
<1>1. CASE UNCHANGED kvVars \/ KvUpgrade \/ (\E p \in Procs : KvRefresh(p)) \/ \E d \in Dirs : KvAge(d)
    <2>1. UNCHANGED <<kvLimits, kvPtr, kvOp, kvView>>
        BY Zenon, <1>1 DEF kvVars, KvUpgrade, KvRefresh, KvAge, kvStore
    <2>2. \A q \in Procs : kvKick[q] => kvKick'[q]
        BY Zenon, <1>0, <1>1 DEF kvVars, KvUpgrade, KvRefresh, KvAge, KvShapes
    <2>3. kvLevel > 0 => kvLevel' > 0
        BY <1>0, <1>1 DEF kvVars, KvUpgrade, KvRefresh, KvAge, KvShapes
    <2>4. \A d \in Dirs : Whole(d)' => Whole(d)
        <3>1. ASSUME NEW d \in Dirs, KvAge(d) PROVE \A e \in Dirs : kvDirs'[e].parts = kvDirs[e].parts
            <4>1. kvDirs' = [kvDirs EXCEPT ![d].old = TRUE]
                BY Zenon, <3>1 DEF KvAge
            <4> QED
                BY <4>1, <1>0 DEF KvShapes
        <3>2. CASE UNCHANGED kvDirs
            BY Zenon, <3>2 DEF Whole
        <3> QED
            BY Zenon, <1>1, <3>1, <3>2 DEF Whole, kvVars, KvUpgrade, KvRefresh, kvStore
    <2>5. Lean => kvLevel > 0 /\ kvPtr # Unset /\ \A q \in Procs : FollowsAt(q)
        BY Zenon DEF WatchInv, WatchersFollow, FollowsAt, Lean
    <2>6. ASSUME Lean PROVE Watched
        BY Zenon, <2>1, <2>2, <2>4, <2>5, <2>6 DEF Watched, Reading
    <2>7. WatchersFollow'
        BY Zenon, <2>1, <2>2, <2>3, <2>5 DEF WatchersFollow, FollowsAt, Lean
    <2>8. NobodyMissesThePlan'
        <3>1. CASE Lean
            BY Zenon, <3>1, <1>0, <2>1, <2>3, <2>5, <2>6, WatchedKeeps
        <3>2. CASE ~Lean
            BY Zenon, <3>2, <2>1 DEF Lean, NobodyMissesThePlan
        <3> QED
            BY Zenon, <3>1, <3>2
    <2> QED
        BY Zenon, <1>0, <2>7, <2>8 DEF WatchInv
<1>2. ASSUME NEW p \in Procs, watchPlan(p) PROVE WatchInv'
    <2>1. UNCHANGED <<kvLimits, kvLevel, kvPtr, kvDirs, kvView>> /\ kvOp[p] = Idle
        BY Zenon, <1>2 DEF watchPlan, PlanCall, kvStore
    <2>2. \A q \in Procs \ {p} : kvOp'[q] = kvOp[q] /\ (kvKick[q] => kvKick'[q])
        BY Zenon, <1>2, <1>0 DEF watchPlan, PlanCall, KvShapes
    <2>3. ASSUME Lean PROVE FollowsAt(p)' /\ Watched /\ kvLevel' > 0
        <3>1. kvLevel > 0 /\ kvPtr # Unset /\ ~kvLimits.blink
            BY Zenon, <2>3 DEF WatchInv, WatchersFollow, Lean
        <3>2. kvOp'[p].pc = "meta" /\ kvOp'[p].by = Watcher
            <4>1. PlanCall(p, Watcher, "meta", "shared")
                BY Zenon, <1>2 DEF watchPlan
            <4>2. DOMAIN kvOp = Procs
                BY Zenon, <1>0 DEF KvShapes
            <4> QED
                BY <4>1, <4>2, <3>1, PlanCallBegins
        <3>3. \A q \in Procs : /\ Reading(q) => Reading(q)'
                               /\ kvKick[q] => kvKick'[q] \/ Reading(q)'
            BY <2>2, <3>2 DEF Reading
        <3> QED
            BY Zenon, <2>1, <3>1, <3>2, <3>3 DEF Watched, FollowsAt, Whole
    <2> QED
        BY Zenon, <1>0, <2>1, <2>2, <2>3, WatchersFollowAll
<1>3. ASSUME NEW p \in Procs, setSharedPlan(p) \/ delSharedPlan(p) PROVE WatchInv'
    <2>1. kvLimits' = kvLimits /\ ~Lean
        BY Zenon, <1>3 DEF setSharedPlan, delSharedPlan, WatchInv, WatchersFollow, Lean
    <2> QED
        BY Zenon, <1>0, <2>1 DEF WatchInv, WatchersFollow, NobodyMissesThePlan, Lean
<1> QED
    BY Zenon, <1>1, <1>2, <1>3, WatchCall, WatchStep, WatchGet DEF KvNext, KvStep

(* NobodyMissesThePlan for every number of processes and callers: a node   *)
(* whose plan is not the current one is reading or will be told to.        *)
THEOREM NobodyMisses == KvSpec => []NobodyMissesThePlan
<1>1. KvInit => WatchInv
    BY WatchInit
<1>2. WatchInv /\ [KvNext]_kvVars => WatchInv'
    BY WatchNext
<1>3. WatchInv => NobodyMissesThePlan
    BY DEF WatchInv
<1> QED
    BY <1>1, <1>2, <1>3, PTL DEF KvSpec

-----------------------------------------------------------------------------
LEMMA NodeInit == KvInit => NodeInv
<1> SUFFICES ASSUME KvInit PROVE NodeInv
    OBVIOUS
<1>1. OpInv /\ \A c \in Callers : KvProc(c) \in Procs
    BY Zenon, OpInit, JobShape DEF OpInv, KvShapes
<1>2. \A p \in Procs : kvOp[p].pc = "idle"
    BY DEF KvInit, Idle, Called
<1>3. \A c \in Callers : kvCaller[c].pc = "start"
    BY Zenon DEF KvInit
<1>4. KvEntries /\ HoldersRead
    BY Zenon DEF KvInit, KvEntries, HoldersRead
<1>5. LeftIsMeant /\ RegistrationsAreStored
    BY Zenon, <1>1, <1>2, <1>3 DEF LeftIsMeant, RegistrationsAreStored
<1> QED
    BY Zenon, <1>1, <1>4, <1>5 DEF NodeInv

EditsNodes(c) == Job(c).kind \in {"register", "unregister"}

(* A step that neither changes the nodes nor acknowledges such a change. *)
NodesRest ==
    /\ kvLimits' = kvLimits /\ kvChildren' = kvChildren
    /\ \A q \in Procs : kvEntry'[q].nodes = kvEntry[q].nodes \/ kvEntry'[q].nodes.holders = {}
    /\ \A d \in Callers : EditsNodes(d) =>
          kvCaller'[d].base = kvCaller[d].base /\ (kvCaller'[d].pc = "done" => kvCaller[d].pc = "done")
    /\ \A q \in Procs : kvOp'[q].pc = "remove" => kvOp'[q] = kvOp[q]

LEMMA NodesKept ==
    ASSUME NodeInv, OpInv', KvEntries', NodesRest
    PROVE  NodeInv'
<1>1. \A d : Job(d)' = Job(d) /\ KvProc(d)' = KvProc(d)
    BY Zenon DEF NodesRest, Job, KvProc
<1>2. HoldersRead'
    BY <1>1 DEF NodeInv, HoldersRead, NodesRest, EditsNodes
<1>3. LeftIsMeant'
    BY <1>1 DEF NodeInv, LeftIsMeant, NodesRest
<1>4. RegistrationsAreStored'
    <2>1. \A d \in Callers : KvProc(d) \in Procs
        BY Zenon, JobShape DEF NodeInv, OpInv, KvShapes
    <2>2. \A d, q : Removes(d, q)' = Removes(d, q)
        BY Zenon, <1>1 DEF Removes
    <2> QED
        BY Zenon, <1>1, <2>1, <2>2 DEF NodeInv, RegistrationsAreStored, NodesRest, EditsNodes
<1> QED
    BY Zenon, <1>2, <1>3, <1>4 DEF NodeInv

(* The calls on the definitions and on the plan are such steps. *)
LEMMA NodeOtherCall ==
    ASSUME NodeInv, NEW c \in Callers,
           \/ getIndexDefs(c) \/ setIndexDefs(c) \/ delIndexDefs(c)
           \/ getPlan(c) \/ setPlan(c) \/ delPlan(c)
    PROVE  NodeInv'
<1>p. PICK p \in Procs : p = KvProc(c)
    BY Zenon, JobShape DEF NodeInv, OpInv, KvShapes
<1>1. OpInv' /\ KvShapes /\ OpInv
    BY Zenon, OpCall DEF NodeInv, OpInv, KvCall
<1>2. kvLimits' = kvLimits /\ kvChildren' = kvChildren /\ ~EditsNodes(c)
    BY Zenon DEF getIndexDefs, setIndexDefs, delIndexDefs, getPlan, setPlan, delPlan, PlanCall, kvStore, EditsNodes
<1>3. \E e : /\ kvEntry' = kvEntry \/ kvEntry' = [kvEntry EXCEPT ![p] = e]
             /\ DOMAIN e = {"nodes", "index"} /\ (e.nodes = kvEntry[p].nodes \/ e.nodes.holders = {})
    <2>1. \A e, x : DOMAIN e = {"nodes", "index"} => LET f == [e EXCEPT !.index = x]
                                                     IN DOMAIN f = {"nodes", "index"} /\ f.nodes = e.nodes
        BY Zenon
    <2>2. DOMAIN kvEntry = Procs /\ DOMAIN kvEntry[p] = {"nodes", "index"}
        BY Zenon DEF NodeInv, KvEntries
    <2>3. CASE getIndexDefs(c)
        BY Zenon, <2>1, <2>2, <2>3, <1>p DEF getIndexDefs
    <2>4. CASE delIndexDefs(c)
        BY Zenon, <2>1, <2>2, <2>4, <1>p DEF delIndexDefs
    <2>5. CASE setIndexDefs(c)
        BY Zenon, <2>2, <2>5, <1>p DEF setIndexDefs, Compressed, Checked
    <2>6. CASE getPlan(c) \/ setPlan(c) \/ delPlan(c)
        BY Zenon, <2>2, <2>6, <1>p DEF getPlan, setPlan, delPlan, PlanCall, Checked
    <2> QED
        BY Zenon, <2>3, <2>4, <2>5, <2>6
<1>4. KvEntries' /\ \A q \in Procs : kvEntry'[q].nodes = kvEntry[q].nodes \/ kvEntry'[q].nodes.holders = {}
    BY Zenon, <1>3 DEF NodeInv, KvEntries
<1>5. \A d \in Callers : EditsNodes(d) => kvCaller'[d] = kvCaller[d]
    BY Zenon, <1>1, <1>2 DEF getIndexDefs, setIndexDefs, delIndexDefs, getPlan, setPlan, delPlan, CasError, Answer,
                      KvShapes
<1>6. \A q \in Procs : kvOp'[q].pc = "remove" => kvOp'[q] = kvOp[q]
    <2>1. CASE getPlan(c) \/ setPlan(c) \/ delPlan(c)
        <3>1. \E lean, shared \in {"meta", "shared", "write", "setshared", "dmeta", "delshared"} :
                 PlanCall(p, c, lean, shared)
            BY Zenon, <2>1, <1>p DEF getPlan, setPlan, delPlan
        <3>2. DOMAIN kvOp = Procs
            BY Zenon, <1>1 DEF KvShapes
        <3>3. kvOp'[p].pc # "remove" /\ \A q \in Procs \ {p} : kvOp'[q] = kvOp[q]
            BY <3>1, <3>2, PlanCallBegins
        <3> QED
            BY <3>3
    <2> QED
        BY Zenon, <2>1 DEF getIndexDefs, setIndexDefs, delIndexDefs
<1> QED
    BY Zenon, <1>1, <1>2, <1>4, <1>5, <1>6, NodesKept DEF NodesRest

(* And so are the steps of those calls and all the others. *)
LEMMA NodeOtherStep ==
    ASSUME NodeInv, NEW p \in Procs,
           \/ getSharedPlan(p) \/ getCurMetaKvPlanMeta(p) \/ getLeanPlan(p)
           \/ setSharedPlan(p) \/ writePart(p) \/ setLeanPlan(p) \/ purgeOrphanedLeanPlans(p)
           \/ delSharedPlan(p) \/ delLeanPlanMeta(p) \/ delLeanPlanDir(p) \/ delLeanPlan(p)
    PROVE  NodeInv'
<1>1. OpInv' /\ KvShapes /\ OpInv /\ OneProc(p) /\ OpFits(p)
    BY Zenon, OpStep DEF NodeInv, OpInv, KvStep, KvOps
<1>2. kvLimits' = kvLimits /\ kvChildren' = kvChildren
    BY Zenon DEF getSharedPlan, getCurMetaKvPlanMeta, getLeanPlan, setSharedPlan, writePart, setLeanPlan,
           purgeOrphanedLeanPlans, delSharedPlan, delLeanPlanMeta, delLeanPlanDir, delLeanPlan, kvStore
<1>3. kvEntry' = kvEntry \/ kvEntry' = [kvEntry EXCEPT ![p] = Compressed(p, @)]
    BY Zenon DEF getSharedPlan, getCurMetaKvPlanMeta, getLeanPlan, setSharedPlan, writePart, setLeanPlan,
           purgeOrphanedLeanPlans, delSharedPlan, delLeanPlanMeta, delLeanPlanDir, delLeanPlan, kvLocal
<1>4. KvEntries' /\ \A q \in Procs : kvEntry'[q].nodes = kvEntry[q].nodes \/ kvEntry'[q].nodes.holders = {}
    BY <1>3 DEF NodeInv, KvEntries, Compressed, Checked
<1>5. kvOp[p].by \in Callers => ~EditsNodes(kvOp[p].by)
    BY Zenon, <1>1, Marks DEF getSharedPlan, getCurMetaKvPlanMeta, getLeanPlan, setSharedPlan, writePart, setLeanPlan,
           purgeOrphanedLeanPlans, delSharedPlan, delLeanPlanMeta, delLeanPlanDir, delLeanPlan, OpFits, EditsNodes
<1>6. \A d \in Callers : EditsNodes(d) => kvCaller'[d] = kvCaller[d]
    <2>1. \A d \in Callers : d # kvOp[p].by => kvCaller'[d] = kvCaller[d]
        BY Zenon, <1>1 DEF getSharedPlan, getCurMetaKvPlanMeta, getLeanPlan, setSharedPlan, writePart, setLeanPlan,
           purgeOrphanedLeanPlans, delSharedPlan, delLeanPlanMeta, delLeanPlanDir, delLeanPlan, Got, Discard, Answer, KvShapes
    <2> QED
        BY Zenon, <2>1, <1>5
<1>7. \A q \in Procs : kvOp'[q].pc = "remove" => kvOp'[q] = kvOp[q]
    <2>1. CASE kvOp' = [kvOp EXCEPT ![p] = Idle]
        BY Zenon, <2>1, <1>1 DEF KvShapes, Idle, Called
    <2>2. CASE kvOp' = kvOp
        BY Zenon, <2>2
    <2>3. ASSUME NEW pc \in {"shared", "list", "meta", "point", "purge", "ddir", "dpoint"}, NEW d, NEW t,
                 kvOp' = [kvOp EXCEPT ![p].pc = pc, ![p].tries = t, ![p].dir = d]
          PROVE  kvOp'[p].pc # "remove"
        BY Zenon, <2>3, <1>1 DEF KvShapes
    <2>4. CASE getLeanPlan(p)
        <3>1. \/ \E t : kvOp' = [kvOp EXCEPT ![p].pc = "meta", ![p].tries = t, ![p].dir = Nothing]
              \/ kvOp' = [kvOp EXCEPT ![p] = Idle]
            BY <2>4, Zenon DEF getLeanPlan, Got
        <3>2. kvOp' = [kvOp EXCEPT ![p] = Idle] \/ kvOp'[p].pc # "remove"
            BY Zenon, <3>1, <2>3
        <3> QED
            BY Zenon, <3>2, <2>1, <1>1 DEF OneProc
    <2>5. CASE writePart(p)
        <3>1. kvOp' = kvOp \/ kvOp' = [kvOp EXCEPT ![p].pc = "point"] \/ kvOp' = [kvOp EXCEPT ![p] = Idle]
            BY <2>5, Zenon DEF writePart, Discard
        <3>2. CASE kvOp' = [kvOp EXCEPT ![p].pc = "point"]
            BY <3>2, <1>1 DEF KvShapes, OneProc
        <3> QED
            BY Zenon, <3>1, <3>2, <2>1, <2>2
    <2>6. CASE \/ getCurMetaKvPlanMeta(p) \/ setLeanPlan(p) \/ delLeanPlanMeta(p) \/ delLeanPlanDir(p)
        <3>1. \/ kvOp' = [kvOp EXCEPT ![p] = Idle]
              \/ kvOp' = [kvOp EXCEPT ![p].pc = "shared"]
              \/ kvOp' = [kvOp EXCEPT ![p].pc = "list", ![p].dir = kvPtr]
              \/ kvOp' = [kvOp EXCEPT ![p].pc = "purge"]
              \/ kvOp' = [kvOp EXCEPT ![p].pc = "ddir", ![p].dir = kvPtr]
              \/ kvOp' = [kvOp EXCEPT ![p].pc = "dpoint"]
            BY <2>6, Zenon DEF getCurMetaKvPlanMeta, setLeanPlan, delLeanPlanMeta, delLeanPlanDir, Got, Discard
        <3>2. kvOp' = [kvOp EXCEPT ![p] = Idle] \/ kvOp'[p].pc # "remove"
            BY <3>1, <1>1 DEF KvShapes
        <3> QED
            BY <3>2, <2>1, <1>1 DEF OneProc
    <2>7. CASE \/ getSharedPlan(p) \/ setSharedPlan(p) \/ purgeOrphanedLeanPlans(p) \/ delSharedPlan(p)
               \/ delLeanPlan(p)
        BY <2>7, <2>1, Zenon DEF getSharedPlan, Got, setSharedPlan, purgeOrphanedLeanPlans, delSharedPlan,
                                 delLeanPlan
    <2> QED
        BY Zenon, <2>4, <2>5, <2>6, <2>7
<1> QED
    BY Zenon, <1>1, <1>2, <1>4, <1>6, <1>7, NodesKept DEF NodesRest


(* The calls on the nodes themselves. *)
LEMMA NodeGet ==
    ASSUME NodeInv, NEW c \in Callers, getNodeDefs(c)
    PROVE  NodeInv'
<1>p. PICK p \in Procs : p = KvProc(c)
    BY Zenon, JobShape DEF NodeInv, OpInv, KvShapes
<1>1. OpInv' /\ KvShapes /\ \A d \in Callers : KvProc(d) \in Procs
    BY Zenon, OpCall, JobShape DEF NodeInv, OpInv, KvCall, KvShapes
<1>2. /\ kvLimits' = kvLimits /\ kvChildren' = kvChildren /\ kvOp' = kvOp /\ EditsNodes(c)
      /\ kvEntry' = [kvEntry EXCEPT ![p].nodes = [holders |-> {c}, data |-> kvChildren]]
      /\ kvCaller'[c].base = kvChildren /\ kvCaller'[c].pc = "read"
      /\ \A d \in Callers \ {c} : kvCaller'[d] = kvCaller[d]
    BY Zenon, <1>p, <1>1 DEF getNodeDefs, Taken, kvStore, EditsNodes, KvShapes
<1>3. \A d : Job(d)' = Job(d) /\ KvProc(d)' = KvProc(d)
    BY Zenon, <1>2 DEF Job, KvProc
<1>4. /\ KvEntries' /\ kvEntry'[p].nodes = [holders |-> {c}, data |-> kvChildren]
      /\ \A q \in Procs \ {p} : kvEntry'[q] = kvEntry[q]
    BY Zenon, <1>2 DEF NodeInv, KvEntries
<1>5. HoldersRead'
    <2>1. ASSUME NEW q \in Procs, NEW d \in kvEntry'[q].nodes.holders
          PROVE  /\ d \in Callers /\ KvProc(d)' = q /\ Job(d)'.kind \in {"register", "unregister"}
                 /\ kvEntry'[q].nodes.data = kvCaller'[d].base
        <3>1. CASE q = p
            BY <3>1, <1>p, <1>2, <1>3, <1>4 DEF EditsNodes
        <3>2. CASE q # p
            BY <3>2, <2>1, <1>p, <1>2, <1>3, <1>4 DEF NodeInv, HoldersRead
        <3> QED
            BY Zenon, <3>1, <3>2
    <2> QED
        BY Zenon, <2>1 DEF HoldersRead
<1>6. LeftIsMeant'
    BY Zenon, <1>2, <1>3 DEF NodeInv, LeftIsMeant
<1>7. RegistrationsAreStored'
    <2>1. \A d, q : Removes(d, q)' = Removes(d, q)
        BY Zenon, <1>3 DEF Removes
    <2> QED
        BY Zenon, <1>1, <1>2, <1>3, <2>1 DEF NodeInv, RegistrationsAreStored
<1> QED
    BY Zenon, <1>1, <1>4, <1>5, <1>6, <1>7 DEF NodeInv

(* A set by the holder of the CAS writes its own node, and leaves only the *)
(* node that it unregisters to remove.                                     *)
LEMMA NodeSet ==
    ASSUME NodeInv, NEW c \in Callers, setNodeDefs(c)
    PROVE  NodeInv'
<1>p. PICK p \in Procs : p = KvProc(c)
    BY JobShape DEF NodeInv, OpInv, KvShapes
<1>1. OpInv' /\ KvShapes /\ OneProc(p) /\ \A d \in Callers : KvProc(d) \in Procs
    BY Zenon, <1>p, OpCall, JobShape DEF NodeInv, OpInv, KvCall, KvShapes
<1>2. /\ kvLimits' = kvLimits /\ kvOp[p] = Idle /\ EditsNodes(c) /\ kvCaller[c].pc = "read"
      /\ kvEntry' = kvEntry \/ kvEntry' = [kvEntry EXCEPT ![p] = Compressed(p, @)]
    BY Zenon, <1>p DEF setNodeDefs, EditsNodes
<1>3. \A d : Job(d)' = Job(d) /\ KvProc(d)' = KvProc(d)
    BY Zenon, <1>2 DEF Job, KvProc
<1>4. KvEntries' /\ \A q \in Procs : kvEntry'[q].nodes = kvEntry[q].nodes \/ kvEntry'[q].nodes.holders = {}
    BY <1>2 DEF NodeInv, KvEntries, Compressed, Checked
<1>5. CASE kvOp' = kvOp /\ kvChildren' = kvChildren
    <2>1. \A d \in Callers : kvCaller'[d].base = kvCaller[d].base /\ (kvCaller'[d].pc = "done" => kvCaller[d].pc = "done")
        <3>1. \E t, pc : /\ pc # "done"
                         /\ \/ kvCaller' = [kvCaller EXCEPT ![c].pc = pc, ![c].tries = t]
                            \/ kvCaller' = [kvCaller EXCEPT ![c].pc = pc]
                            \/ kvCaller' = kvCaller
            BY Zenon DEF setNodeDefs, CasError, Answer
        <3> QED
            BY <3>1, <1>1 DEF KvShapes
    <2> QED
        BY Zenon, <2>1, <1>1, <1>2, <1>4, <1>5, NodesKept DEF NodesRest
<1>6. CASE ~(kvOp' = kvOp /\ kvChildren' = kvChildren)
    <2> DEFINE cur == kvEntry[p].nodes
    <2>1. /\ Job(c).force \/ c \in cur.holders
          /\ kvChildren' = kvChildren \cup WrittenNodes(c) /\ kvCaller' = kvCaller
          /\ kvOp' = [kvOp EXCEPT ![p] = Called("remove", c, RemovedNodes(c, cur.data), 1)]
        BY Zenon, <1>p, <1>6 DEF setNodeDefs
    <2>2. /\ kvOp'[p].pc = "remove" /\ kvOp'[p].by = c /\ kvOp'[p].left = RemovedNodes(c, cur.data)
          /\ \A q \in Procs \ {p} : kvOp'[q] = kvOp[q]
        BY Zenon, <2>1, <1>1 DEF KvShapes, Called
    <2>3. c \in cur.holders => cur.data = kvCaller[c].base
        BY Zenon DEF NodeInv, HoldersRead
    <2>4. HoldersRead'
        BY <1>3, <1>4, <2>1 DEF NodeInv, HoldersRead
    <2>5. /\ ~Job(c).force => \A q \in kvOp'[p].left : Job(c).kind = "unregister" /\ q = Job(c).of
          /\ Job(c).kind = "register" => p \notin kvOp'[p].left
        <3>1. \A q \in kvOp'[p].left : q \in cur.data /\ q \notin NewNodes(c)
            BY Zenon, <2>2 DEF RemovedNodes
        <3>2. CASE Job(c).kind = "register"
            BY Zenon, <1>p, <2>1, <2>3, <3>1, <3>2 DEF NewNodes
        <3>3. CASE Job(c).kind = "unregister"
            BY Zenon, <2>1, <2>3, <3>1, <3>3 DEF NewNodes
        <3> QED
            BY Zenon, <3>2, <3>3, <1>2 DEF EditsNodes
    <2>6. LeftIsMeant'
        BY <1>p, <1>3, <2>2, <2>5 DEF NodeInv, LeftIsMeant
    <2>7. Job(c).kind = "register" => p \in WrittenNodes(c)
        BY Zenon, <1>p DEF WrittenNodes, NewNodes
    <2>8. RegistrationsAreStored'
        <3>1. \A d, q : Removes(d, q)' = Removes(d, q)
            BY <1>3 DEF Removes
        <3>2. ASSUME NEW d \in Callers, d # c, Job(d).kind = "register",
                     \/ kvCaller'[d].pc = "done"
                     \/ kvOp'[KvProc(d)].pc = "remove" /\ kvOp'[KvProc(d)].by = d,
                     \A e \in Callers \ {d} : ~Removes(e, KvProc(d))
              PROVE  KvProc(d) \in kvChildren'
            BY Zenon, <3>2, <1>1, <2>1, <2>2 DEF NodeInv, RegistrationsAreStored
        <3>3. Job(c).kind = "register" => KvProc(c) \in kvChildren'
            BY Zenon, <1>p, <2>1, <2>7
        <3> QED
            BY Zenon, <1>3, <3>1, <3>2, <3>3 DEF RegistrationsAreStored
    <2> QED
        BY Zenon, <1>1, <1>4, <2>4, <2>6, <2>8 DEF NodeInv
<1> QED
    BY Zenon, <1>5, <1>6


(* The deletions take only nodes that somebody means to remove. *)
LEMMA NodeRemove ==
    ASSUME NodeInv, NEW p \in Procs, removeNodeDefs(p)
    PROVE  NodeInv'
<1>1. OpInv' /\ KvShapes /\ OpFits(p) /\ \A d \in Callers : KvProc(d) \in Procs
    BY Zenon, OpStep, JobShape DEF NodeInv, OpInv, KvOps, KvStep, KvShapes
<1>2. PICK c \in Callers : c = kvOp[p].by
    BY Zenon, <1>1 DEF OpFits, removeNodeDefs
<1>3. /\ KvProc(c) = p /\ EditsNodes(c) /\ kvCaller[c].pc = "read" /\ kvOp[p].pc = "remove"
      /\ kvLimits' = kvLimits /\ kvEntry' = kvEntry
    BY Zenon, <1>1, <1>2 DEF OpFits, EditsNodes, removeNodeDefs, kvLocal
<1>4. \A d : Job(d)' = Job(d) /\ KvProc(d)' = KvProc(d)
    BY Zenon, <1>3 DEF Job, KvProc
<1>5. \A d \in Callers : kvCaller'[d].base = kvCaller[d].base
    BY <1>1, <1>2 DEF removeNodeDefs, Answer, KvShapes
<1>6. KvEntries' /\ HoldersRead'
    BY <1>3, <1>4, <1>5 DEF NodeInv, KvEntries, HoldersRead
<1>7. \/ /\ kvOp'[p].pc = "remove" /\ kvOp'[p].by = c /\ kvOp'[p].left \subseteq kvOp[p].left
         /\ kvCaller' = kvCaller
         /\ \E q \in kvOp[p].left : kvChildren' = kvChildren \ {q}
      \/ /\ kvOp'[p].pc = "idle" /\ kvChildren' = kvChildren
         /\ \A d \in Callers \ {c} : kvCaller'[d] = kvCaller[d]
    BY <1>1, <1>2, <1>3 DEF removeNodeDefs, KvShapes, Idle, Called, Answer
<1>8. \A q \in Procs \ {p} : kvOp'[q] = kvOp[q]
    BY Zenon, <1>1 DEF removeNodeDefs, KvShapes
<1>9. LeftIsMeant'
    <2>1. ASSUME NEW q \in Procs \ {p}
          PROVE  (kvOp[q].pc = "remove" => LET e == kvOp[q].by
                     IN /\ ~Job(e).force => \A r \in kvOp[q].left : Job(e).kind = "unregister" /\ r = Job(e).of
                        /\ Job(e).kind = "register" => KvProc(e) \notin kvOp[q].left)'
        BY <2>1, <1>4, <1>8 DEF NodeInv, LeftIsMeant
    <2>2. CASE kvOp'[p].pc = "idle"
        BY Zenon, <2>1, <2>2 DEF LeftIsMeant
    <2>3. CASE kvOp'[p].pc # "idle"
        <3>1. kvOp'[p].by = c /\ kvOp'[p].left \subseteq kvOp[p].left
            BY Zenon, <1>7, <2>3
        <3>2. /\ ~Job(c).force => \A r \in kvOp[p].left : Job(c).kind = "unregister" /\ r = Job(c).of
              /\ Job(c).kind = "register" => KvProc(c) \notin kvOp[p].left
            BY Zenon, <1>2, <1>3 DEF NodeInv, LeftIsMeant
        <3> QED
            BY Zenon, <2>1, <3>1, <3>2, <1>4 DEF LeftIsMeant
    <2> QED
        BY Zenon, <2>2, <2>3
<1>10. RegistrationsAreStored'
    <2>1. \A d, q : Removes(d, q)' = Removes(d, q)
        BY <1>4 DEF Removes
    <2>2. ASSUME NEW d \in Callers, Job(d).kind = "register",
                 \/ kvCaller'[d].pc = "done"
                 \/ kvOp'[KvProc(d)].pc = "remove" /\ kvOp'[KvProc(d)].by = d,
                 \A e \in Callers \ {d} : ~Removes(e, KvProc(d))
          PROVE  KvProc(d) \in kvChildren'
        <3>1. \/ kvCaller[d].pc = "done"
              \/ kvOp[KvProc(d)].pc = "remove" /\ kvOp[KvProc(d)].by = d
            BY <2>2, <1>1, <1>2, <1>3, <1>7, <1>8
        <3>2. KvProc(d) \in kvChildren
            BY Zenon, <2>2, <3>1 DEF NodeInv, RegistrationsAreStored
        <3>3. KvProc(d) \notin kvOp[p].left
            <4>1. /\ ~Job(c).force => \A r \in kvOp[p].left : Job(c).kind = "unregister" /\ r = Job(c).of
                  /\ Job(c).kind = "register" => KvProc(c) \notin kvOp[p].left
                BY Zenon, <1>2, <1>3 DEF NodeInv, LeftIsMeant
            <4>2. CASE c = d
                BY Zenon, <4>1, <4>2, <2>2
            <4>3. CASE c # d
                BY Zenon, <4>1, <4>3, <2>2, <1>3 DEF Removes, EditsNodes
            <4> QED
                BY Zenon, <4>2, <4>3
        <3> QED
            BY Zenon, <3>2, <3>3, <1>7
    <2> QED
        BY Zenon, <1>4, <2>1, <2>2 DEF RegistrationsAreStored
<1> QED
    BY Zenon, <1>1, <1>6, <1>9, <1>10 DEF NodeInv

LEMMA NodeDelete ==
    ASSUME NodeInv, NEW c \in Callers, delNodeDefs(c)
    PROVE  NodeInv'
<1>p. PICK p \in Procs : p = KvProc(c)
    BY JobShape DEF NodeInv, OpInv, KvShapes
<1>1. OpInv' /\ KvShapes
    BY Zenon, OpCall DEF NodeInv, OpInv, KvCall
<1>2. /\ kvLimits' = kvLimits /\ kvOp' = kvOp /\ Job(c).kind = "delnodes"
      /\ kvEntry' = [kvEntry EXCEPT ![p].nodes = [holders |-> {}, data |-> {}]]
      /\ \A d \in Callers : kvCaller'[d].base = kvCaller[d].base
    BY Zenon, <1>p, <1>1 DEF delNodeDefs, Answer, KvShapes
<1>3. \A d : Job(d)' = Job(d) /\ KvProc(d)' = KvProc(d)
    BY Zenon, <1>2 DEF Job, KvProc
<1>4. /\ KvEntries' /\ kvEntry'[p].nodes = [holders |-> {}, data |-> {}]
      /\ \A q \in Procs \ {p} : kvEntry'[q] = kvEntry[q]
    BY Zenon, <1>2 DEF NodeInv, KvEntries
<1>5. HoldersRead'
    BY <1>2, <1>3, <1>4 DEF NodeInv, HoldersRead
<1>6. LeftIsMeant'
    BY Zenon, <1>2, <1>3 DEF NodeInv, LeftIsMeant
<1>7. RegistrationsAreStored'
    <2>1. \A q : Removes(c, q)'
        BY Zenon, <1>2, <1>3 DEF Removes
    <2>2. Job(c)'.kind # "register"
        BY Zenon, <1>2, <1>3
    <2> QED
        BY Zenon, <2>1, <2>2 DEF RegistrationsAreStored
<1> QED
    BY Zenon, <1>1, <1>4, <1>5, <1>6, <1>7 DEF NodeInv

LEMMA NodeNext == NodeInv /\ [KvNext]_kvVars => NodeInv'
<1> SUFFICES ASSUME NodeInv, [KvNext]_kvVars PROVE NodeInv'
    OBVIOUS
<1>0. OpInv' /\ KvShapes
    BY Zenon, OpNext DEF NodeInv, OpInv
<1>1. CASE UNCHANGED kvVars \/ KvUpgrade \/ (\E p \in Procs : KvRefresh(p)) \/ \E d \in Dirs : KvAge(d)
    <2>1. UNCHANGED <<kvLimits, kvChildren, kvEntry, kvCaller, kvOp>>
        BY Zenon, <1>1 DEF kvVars, KvUpgrade, KvRefresh, KvAge, kvStore, kvLocal
    <2>2. KvEntries' /\ NodesRest
        BY Zenon, <2>1 DEF NodeInv, KvEntries, NodesRest
    <2> QED
        BY Zenon, <1>0, <2>2, NodesKept
<1>2. ASSUME NEW p \in Procs, watchPlan(p) PROVE NodeInv'
    <2>1. UNCHANGED <<kvLimits, kvChildren, kvCaller>> /\ kvEntry' = [kvEntry EXCEPT ![p] = Checked(@)]
        BY Zenon, <1>2 DEF watchPlan, PlanCall, kvStore
    <2>2. KvEntries' /\ \A q \in Procs : kvEntry'[q].nodes = kvEntry[q].nodes \/ kvEntry'[q].nodes.holders = {}
        BY Zenon, <2>1 DEF NodeInv, KvEntries, Checked
    <2>3. \A q \in Procs : kvOp'[q].pc = "remove" => kvOp'[q] = kvOp[q]
        BY <1>2, <1>0 DEF watchPlan, PlanCall, Called, KvShapes
    <2> QED
        BY Zenon, <1>0, <2>1, <2>2, <2>3, NodesKept DEF NodesRest
<1> QED
    BY Zenon, <1>1, <1>2, NodeGet, NodeSet, NodeDelete, NodeRemove, NodeOtherCall, NodeOtherStep
    DEF KvNext, KvCall, KvStep

(* RegistrationsAreSplit for every number of processes and callers: the    *)
(* nodes that register, leave and are removed at the same time, through    *)
(* entries that are cached per process, do not undo each other.            *)
THEOREM RegistrationsStay == KvSpec => []RegistrationsAreSplit
<1>1. KvInit => NodeInv
    BY NodeInit
<1>2. NodeInv /\ [KvNext]_kvVars => NodeInv'
    BY NodeNext
<1>3. NodeInv => RegistrationsAreSplit
    BY Zenon DEF NodeInv, RegistrationsAreStored, RegistrationsAreSplit
<1> QED
    BY <1>1, <1>2, <1>3, PTL DEF KvSpec

=============================================================================
