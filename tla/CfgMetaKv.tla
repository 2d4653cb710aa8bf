----------------------------- MODULE CfgMetaKv -----------------------------
(***************************************************************************)
(* CfgMetaKv (cfg_metakv.go, cfg_metakv_lean.go, cfg_metakv_util.go): the  *)
(* Cfg of a Couchbase cluster.  Every process has its own CfgMetaKv and    *)
(* all of them share metakv, a store of paths outside this repository      *)
(* whose calls are atomic one by one.  A CfgMetaKv holds its mutex c.m for *)
(* a whole Get, Set or Del, so calls of one process exclude each other and *)
(* calls of two processes interleave at every metakv call they make.       *)
(*                                                                         *)
(* nodeDefs is split into one child per node, indexDefs is one path, and   *)
(* the plan is a directory of parts that a pointer path names, or, in a    *)
(* cluster with an older node, one shared path.  A plan is identified with *)
(* the client that wrote it.  The numbers lastSplitCAS hands out are all   *)
(* different, so the cas of a split entry is modelled by its holders, the  *)
(* clients that have been given it.                                        *)
(***************************************************************************)
EXTENDS Naturals, Sequences, FiniteSets

CONSTANTS Procs,      \* processes, each with one CfgMetaKv; also the node uuids
          Callers,    \* the goroutines that read, compute and write
          Watcher,    \* the cfgObserver of the plan, one in each process
          Nothing,    \* no plan
          Before,     \* the plan the cluster starts with
          KvScenarios \* starting states and bounds

VARIABLES kvLimits,   \* the scenario of this behaviour; constant
          kvLevel,    \* what version and nodes support: 0, 1 lean, 2 also adv
          kvChildren, \* metakv: the children of nodeDefs-wanted
          kvIndex,    \* metakv: indexDefs, as the set of edits it contains
          kvShared,   \* metakv: the plan at planPIndexes
          kvPtr,      \* metakv: curMetaKvPlanKey
          kvDirs,     \* metakv: kvDirs[d].parts, the parts in directory d, and
                      \* whether the directory is older than PlanPurgeTimeout
          kvFails,    \* metakv calls that may still fail
          kvEntry,    \* kvEntry[p]: c.splitEntries of process p
          kvAdv,      \* kvAdv[p]: c.advMetaEncodingSupported
          kvOp,       \* kvOp[p]: the call that holds c.m of process p
          kvCaller,   \* the callers' local state
          kvKick,     \* kvKick[p]: an event of the watched key is on its way
          kvView,     \* kvView[p]: the plan the watcher of p read last
          kvLog       \* history: the plans that have been current, in order

kvStore == <<kvChildren, kvIndex, kvShared, kvPtr, kvDirs>>
kvLocal == <<kvEntry, kvAdv>>
kvVars == <<kvLimits, kvLevel, kvStore, kvFails, kvLocal, kvOp, kvCaller, kvKick, kvView, kvLog>>

Parts == {1, 2}
Plans == Callers \cup {Nothing, Before}
(* curMetaKvPlanKey: never set, set to an empty Path, or the Path of a directory. *)
Unset == "unset"
EmptyPath == "empty"
Dirs == Callers \cup {Before}

(* What one of the callers does: for a process, to a node, by force. *)
KvJob == [proc : Procs, of : Procs, force : BOOLEAN,
          kind : {"register", "unregister", "delnodes", "index", "delindex", "plan", "delplan",
                  "none"}]

ASSUME KvAssumption ==
    /\ Watcher \notin Callers /\ Before \notin Callers
    /\ {Nothing, Unset, EmptyPath} \cap Dirs = {}
    /\ \A s \in KvScenarios :
          /\ s.level \in 0..2 /\ s.upto \in 0..2 /\ s.children \subseteq Procs
          /\ s.fails \in Nat /\ s.retries \in Nat
          /\ {s.blink, s.ages, s.refresh} \subseteq BOOLEAN
          /\ s.jobs \in [Callers -> KvJob]

Job(c) == kvLimits.jobs[c]
KvProc(c) == Job(c).proc

(* A call that holds c.m, with the nodes it is to remove or its place in the history. *)
Called(pc, c, left, from) ==
    [pc |-> pc, by |-> c, dir |-> Nothing, left |-> left, tries |-> 0, from |-> from]

Idle == Called("idle", Watcher, {}, 1)

(* The hash of what a directory holds is the one in its name. *)
Whole(d) == kvDirs[d].parts = Parts

(* getLeanPlanUtil and getSplitPlan weave the parts back into a plan. *)
Woven(d) == IF Whole(d) THEN d ELSE Nothing

(* The plan a Get that nothing disturbs would return. *)
KvCurrent ==
    CASE kvLevel = 0 \/ kvPtr = Unset -> kvShared
      [] kvPtr = EmptyPath -> Nothing
      [] OTHER -> Woven(kvPtr)

(* The history is kept by every step that writes to metakv. *)
Logged == kvLog' = IF KvCurrent' = kvLog[Len(kvLog)] THEN kvLog ELSE Append(kvLog, KvCurrent')

(* Mutant: the registry's default key, which the directory's parts announce. *)
WatchedKeyDefault == "planPIndexes"

(* getCfgSubscriptionKeys of the plan's observers when the cfg is metakv. *)
WatchedKey == "curMetaKvPlanKey"

(* RunObserveChildren calls metaKVCallback of every process for every      *)
(* path that changes; children count as changes of the key they are under. *)
metaKVCallback(key) ==
    kvKick' = IF key = WatchedKey THEN [p \in Procs |-> TRUE] ELSE kvKick

KvInit ==
    /\ kvLimits \in KvScenarios
    /\ kvLevel = kvLimits.level
    /\ kvChildren = kvLimits.children
    /\ kvIndex = {}
    /\ kvShared = IF kvLimits.level = 0 THEN Before ELSE Nothing
    /\ kvPtr = IF kvLimits.level = 0 THEN Unset ELSE Before
    /\ kvDirs = [d \in Dirs |-> [parts |-> IF d = Before /\ kvLimits.level > 0 THEN Parts ELSE {},
                                 old |-> d = Before]]
    /\ kvFails = kvLimits.fails
    /\ kvEntry = [p \in Procs |-> [nodes |-> [holders |-> {}, data |-> {}],
                                   index |-> [holders |-> {}, data |-> {}]]]
    /\ kvAdv = [p \in Procs |-> FALSE]
    /\ kvOp = [p \in Procs |-> Idle]
    /\ kvCaller = [c \in Callers |-> [pc |-> "start", base |-> {}, plan |-> Nothing,
                                      cas |-> FALSE, from |-> 1, tries |-> 0]]
    /\ kvKick = [p \in Procs |-> FALSE]
    /\ kvView = [p \in Procs |-> [plan |-> Before, from |-> 1]]
    /\ kvLog = <<Before>>
-----------------------------------------------------------------------------
(* isFeatureSupported: it reads the nodes through the split handler's get, *)
(* and so takes the CAS of nodeDefs from whoever of this process holds it. *)
Checked(entry) == [entry EXCEPT !.nodes = [holders |-> {}, data |-> kvChildren]]

(* compressLocked: the feature is checked until it has been found once. *)
Compressed(p, entry) == IF kvAdv[p] THEN entry ELSE Checked(entry)
CompressAt(p) == kvAdv' = [kvAdv EXCEPT ![p] = @ \/ kvLevel = 2]

(* A metakv call that returns an error and has changed nothing. *)
KvFails == kvFails > 0 /\ kvFails' = kvFails - 1

Answer(c, pc) == kvCaller' = [kvCaller EXCEPT ![c].pc = pc]

(* Callers retry on a CfgCASError a bounded number of times. *)
CasError(c) ==
    kvCaller' = [kvCaller EXCEPT ![c].pc = IF @ = "read" /\ kvCaller[c].tries < kvLimits.retries
                                           THEN "start" ELSE "failed",
                                 ![c].tries = @ + 1]
-----------------------------------------------------------------------------

(* A get through a split handler: a new CAS, which only its caller has. *)
Taken(entry, c, data) == [holders |-> {c}, data |-> data]

(* cfgMetaKvNodeDefsSplitHandler.get, for a caller about to change the nodes. *)
getNodeDefs(c) ==
    /\ Job(c).kind \in {"register", "unregister"}
    /\ kvCaller[c].pc = "start" /\ kvOp[KvProc(c)] = Idle
    /\ kvEntry' = [kvEntry EXCEPT ![KvProc(c)].nodes = Taken(@, c, kvChildren)]
    /\ kvCaller' = [kvCaller EXCEPT ![c].pc = "read", ![c].base = kvChildren]
    /\ UNCHANGED <<kvLimits, kvLevel, kvStore, kvFails, kvAdv, kvOp, kvKick, kvView, kvLog>>

(* The NodeDefs the caller wants to see stored. *)
NewNodes(c) == IF Job(c).kind = "register" THEN kvCaller[c].base \cup {KvProc(c)}
               ELSE kvCaller[c].base \ {Job(c).of}

(* Only the own child is written, or with CFG_CAS_FORCE every child. *)
WrittenNodes(c) == IF Job(c).force THEN NewNodes(c) ELSE NewNodes(c) \cap {KvProc(c)}

(* Mutant: what is stored is made equal to the caller's NodeDefs. *)
RemovedNodesAll(c, data) == kvChildren \ NewNodes(c)

(* Children go only if the caller, next to the last read, removes and adds nothing. *)
RemovedNodes(c, data) == IF NewNodes(c) \subseteq data THEN data \ NewNodes(c) ELSE {}

(* cfgMetaKvNodeDefsSplitHandler.set: the children it writes, the first of  *)
(* which may fail the call; the deletions follow.                           *)
setNodeDefs(c) ==
    LET p == KvProc(c)
        cur == kvEntry[p].nodes
    IN  /\ Job(c).kind \in {"register", "unregister"}
        /\ kvCaller[c].pc = "read" /\ kvOp[p] = Idle
        /\ IF ~Job(c).force /\ c \notin cur.holders
           THEN CasError(c) /\ UNCHANGED <<kvChildren, kvFails, kvOp, kvEntry, kvAdv>>
           ELSE /\ kvEntry' = [kvEntry EXCEPT ![p] = Compressed(p, @)]
                /\ CompressAt(p)
                /\ \/ /\ kvChildren' = kvChildren \cup WrittenNodes(c)
                      /\ kvOp' = [kvOp EXCEPT ![p] = Called("remove", c, RemovedNodes(c, cur.data), 1)]
                      /\ UNCHANGED <<kvFails, kvCaller>>
                   \/ /\ KvFails /\ WrittenNodes(c) # {}
                      /\ Answer(c, "failed")
                      /\ UNCHANGED <<kvChildren, kvOp>>
        /\ UNCHANGED <<kvLimits, kvLevel, kvIndex, kvShared, kvPtr, kvDirs, kvKick, kvView, kvLog>>

(* The deletions of the same set, one metakv call each. *)
removeNodeDefs(p) ==
    /\ kvOp[p].pc = "remove"
    /\ \/ \E q \in kvOp[p].left :
             /\ kvChildren' = kvChildren \ {q}
             /\ kvOp' = [kvOp EXCEPT ![p].left = @ \ {q}]
             /\ UNCHANGED <<kvFails, kvCaller>>
       \/ /\ kvOp[p].left # {} /\ KvFails
          /\ Answer(kvOp[p].by, "failed")
          /\ kvOp' = [kvOp EXCEPT ![p] = Idle]
          /\ UNCHANGED kvChildren
       \/ /\ kvOp[p].left = {}
          /\ Answer(kvOp[p].by, "done")
          /\ kvOp' = [kvOp EXCEPT ![p] = Idle]
          /\ UNCHANGED <<kvChildren, kvFails>>
    /\ UNCHANGED <<kvLimits, kvLevel, kvIndex, kvShared, kvPtr, kvDirs, kvLocal, kvKick, kvView, kvLog>>

(* cfgMetaKvNodeDefsSplitHandler.del: all the children at once. *)
delNodeDefs(c) ==
    /\ Job(c).kind = "delnodes"
    /\ kvCaller[c].pc = "start" /\ kvOp[KvProc(c)] = Idle
    /\ kvEntry' = [kvEntry EXCEPT ![KvProc(c)].nodes = [holders |-> {}, data |-> {}]]
    /\ kvChildren' = {}
    /\ Answer(c, "done")
    /\ UNCHANGED <<kvLimits, kvLevel, kvIndex, kvShared, kvPtr, kvDirs, kvFails, kvAdv, kvOp, kvKick,
                   kvView, kvLog>>
-----------------------------------------------------------------------------
(* cfgMetaKvIndexDefsHandler.get and set: the CAS is compared with what    *)
(* this process last read, then the path is written whatever it holds.     *)
getIndexDefs(c) ==
    /\ Job(c).kind = "index"
    /\ kvCaller[c].pc = "start" /\ kvOp[KvProc(c)] = Idle
    /\ kvEntry' = [kvEntry EXCEPT ![KvProc(c)].index = Taken(@, c, kvIndex)]
    /\ kvCaller' = [kvCaller EXCEPT ![c].pc = "read", ![c].base = kvIndex]
    /\ UNCHANGED <<kvLimits, kvLevel, kvStore, kvFails, kvAdv, kvOp, kvKick, kvView, kvLog>>

setIndexDefs(c) ==
    LET p == KvProc(c)
    IN  /\ Job(c).kind = "index"
        /\ kvCaller[c].pc = "read" /\ kvOp[p] = Idle
        /\ IF c \notin kvEntry[p].index.holders
           THEN CasError(c) /\ UNCHANGED <<kvIndex, kvFails, kvEntry, kvAdv>>
           ELSE /\ kvEntry' = [kvEntry EXCEPT ![p] = Compressed(p, @)]
                /\ CompressAt(p)
                /\ \/ /\ kvIndex' = kvCaller[c].base \cup {c}
                      /\ Answer(c, "done")
                      /\ UNCHANGED kvFails
                   \/ /\ KvFails
                      /\ Answer(c, "failed")
                      /\ UNCHANGED kvIndex
        /\ UNCHANGED <<kvLimits, kvLevel, kvChildren, kvShared, kvPtr, kvDirs, kvOp, kvKick, kvView,
                       kvLog>>

(* cfgMetaKvIndexDefsHandler.del removes what is under indexDefs/, where    *)
(* nothing is kept: the definitions themselves stay.                        *)
delIndexDefs(c) ==
    /\ Job(c).kind = "delindex"
    /\ kvCaller[c].pc = "start" /\ kvOp[KvProc(c)] = Idle
    /\ kvEntry' = [kvEntry EXCEPT ![KvProc(c)].index = [holders |-> {}, data |-> {}]]
    /\ Answer(c, "done")
    /\ UNCHANGED <<kvLimits, kvLevel, kvStore, kvFails, kvAdv, kvOp, kvKick, kvView, kvLog>>
-----------------------------------------------------------------------------
(* The start of a call on the plan: cfgMetaKvPlanPIndexesHandler asks for  *)
(* the lean feature, and takes a failed answer for a no.                   *)
PlanCall(p, c, lean, shared) ==
    /\ kvOp[p] = Idle
    /\ kvEntry' = [kvEntry EXCEPT ![p] = Checked(@)]
    /\ \/ /\ kvOp' = [kvOp EXCEPT ![p] = Called(IF kvLevel > 0 THEN lean ELSE shared, c, {}, Len(kvLog))]
          /\ UNCHANGED kvFails
       \/ /\ kvLimits.blink /\ kvLevel > 0 /\ KvFails
          /\ kvOp' = [kvOp EXCEPT ![p] = Called(shared, c, {}, Len(kvLog))]
    /\ UNCHANGED <<kvLimits, kvLevel, kvStore, kvAdv, kvView, kvLog>>

getPlan(c) ==
    /\ Job(c).kind = "plan" /\ kvCaller[c].pc = "start"
    /\ PlanCall(KvProc(c), c, "meta", "shared")
    /\ UNCHANGED <<kvCaller, kvKick>>

(* The watched key's event arrives, and the watcher gets the plan. *)
watchPlan(p) ==
    /\ kvKick[p]
    /\ PlanCall(p, Watcher, "meta", "shared")
    /\ kvKick' = [kvKick EXCEPT ![p] = FALSE]
    /\ UNCHANGED kvCaller

(* Refresh announces every path there is, the pointer's among them. *)
KvRefresh(p) ==
    /\ kvLimits.refresh /\ ~kvKick[p] /\ kvPtr # Unset
    /\ kvKick' = [kvKick EXCEPT ![p] = TRUE]
    /\ UNCHANGED <<kvLimits, kvLevel, kvStore, kvFails, kvLocal, kvOp, kvCaller, kvView, kvLog>>

(* A Get of the plan returns: the caller or the watcher has it. *)
Got(p, plan, cas) ==
    /\ kvOp' = [kvOp EXCEPT ![p] = Idle]
    /\ IF kvOp[p].by = Watcher
       THEN /\ kvView' = [kvView EXCEPT ![p] = [plan |-> plan, from |-> kvOp[p].from]]
            /\ UNCHANGED kvCaller
       ELSE /\ kvCaller' = [kvCaller EXCEPT ![kvOp[p].by] =
                  [@ EXCEPT !.pc = "read", !.plan = plan, !.cas = cas, !.from = kvOp[p].from]]
            /\ UNCHANGED kvView

(* getSharedPlan: the raw path, whose CAS is always 1. *)
getSharedPlan(p) ==
    /\ kvOp[p].pc = "shared"
    /\ Got(p, kvShared, TRUE)
    /\ UNCHANGED <<kvLimits, kvLevel, kvStore, kvFails, kvLocal, kvKick, kvLog>>

(* getLeanPlan reads the pointer ... *)
getCurMetaKvPlanMeta(p) ==
    /\ kvOp[p].pc = "meta"
    /\ \/ /\ kvPtr = Unset
          /\ kvOp' = [kvOp EXCEPT ![p].pc = "shared"]
          /\ UNCHANGED <<kvCaller, kvView>>
       \/ kvPtr = EmptyPath /\ Got(p, Nothing, FALSE)
       \/ /\ kvPtr \in Dirs
          /\ kvOp' = [kvOp EXCEPT ![p].pc = "list", ![p].dir = kvPtr]
          /\ UNCHANGED <<kvCaller, kvView>>
    /\ UNCHANGED <<kvLimits, kvLevel, kvStore, kvFails, kvLocal, kvKick, kvLog>>

(* Mutant: the first reading is the last. *)
maxRetryOne == 1

maxRetry == 3

(* ... lists the directory, and compares the hash of what it finds with    *)
(* the directory's name: after maxRetry mismatches it returns what it has. *)
getLeanPlan(p) ==
    LET d == kvOp[p].dir
    IN  /\ kvOp[p].pc = "list"
        /\ IF ~Whole(d) /\ kvOp[p].tries + 1 < maxRetry
           THEN /\ kvOp' = [kvOp EXCEPT ![p].pc = "meta", ![p].tries = @ + 1, ![p].dir = Nothing]
                /\ UNCHANGED <<kvCaller, kvView>>
           ELSE Got(p, Woven(d), Whole(d))
        /\ UNCHANGED <<kvLimits, kvLevel, kvStore, kvFails, kvLocal, kvKick, kvLog>>
-----------------------------------------------------------------------------
setPlan(c) ==
    /\ Job(c).kind = "plan" /\ kvCaller[c].pc = "read"
    /\ PlanCall(KvProc(c), c, "write", "setshared")
    /\ UNCHANGED <<kvCaller, kvKick>>

(* setSharedPlan: one path, whatever the cas. *)
setSharedPlan(p) ==
    LET c == kvOp[p].by
    IN  /\ kvOp[p].pc = "setshared"
        /\ \/ /\ kvShared' = c
              /\ metaKVCallback("planPIndexes")
              /\ Answer(c, "done")
              /\ UNCHANGED kvFails
           \/ KvFails /\ Answer(c, "failed") /\ UNCHANGED <<kvShared, kvKick>>
        /\ kvEntry' = [kvEntry EXCEPT ![p] = Compressed(p, @)]
        /\ CompressAt(p)
        /\ kvOp' = [kvOp EXCEPT ![p] = Idle]
        /\ UNCHANGED <<kvLimits, kvLevel, kvChildren, kvIndex, kvPtr, kvDirs, kvView>>
        /\ Logged

(* The call gives up and removes the directory it was writing. *)
Discard(p, c) ==
    /\ KvFails
    /\ kvDirs' = [kvDirs EXCEPT ![c].parts = {}]
    /\ Answer(c, "failed")
    /\ kvOp' = [kvOp EXCEPT ![p] = Idle]

(* setSplitPlan and setLeanPlanUtil: the parts, one metakv call each. *)
writePart(p) ==
    LET c == kvOp[p].by
    IN  /\ kvOp[p].pc = "write"
        /\ \/ \E part \in Parts \ kvDirs[c].parts :
                 /\ part - 1 \in kvDirs[c].parts \cup {0}
                 /\ kvDirs' = [kvDirs EXCEPT ![c].parts = @ \cup {part}]
                 /\ kvOp' = IF part = 2 THEN [kvOp EXCEPT ![p].pc = "point"] ELSE kvOp
                 /\ UNCHANGED <<kvFails, kvCaller>>
           \/ Discard(p, c)
        /\ kvEntry' = [kvEntry EXCEPT ![p] = Compressed(p, @)]
        /\ CompressAt(p)
        /\ metaKVCallback("planPIndexes")
        /\ UNCHANGED <<kvLimits, kvLevel, kvChildren, kvIndex, kvShared, kvPtr, kvView, kvLog>>

(* setLeanPlan makes the finished directory the current plan. *)
setLeanPlan(p) ==
    LET c == kvOp[p].by
    IN  /\ kvOp[p].pc = "point"
        /\ \/ /\ kvPtr' = c
              /\ metaKVCallback("curMetaKvPlanKey")
              /\ kvOp' = [kvOp EXCEPT ![p].pc = "purge"]
              /\ UNCHANGED <<kvDirs, kvFails, kvCaller>>
           \/ /\ Discard(p, c)
              /\ UNCHANGED <<kvPtr, kvKick>>
        /\ kvEntry' = [kvEntry EXCEPT ![p] = Compressed(p, @)]
        /\ CompressAt(p)
        /\ UNCHANGED <<kvLimits, kvLevel, kvChildren, kvIndex, kvShared, kvView>>
        /\ Logged

(* Mutant: the age of a directory does not matter. *)
OrphanedAny(c) == Dirs \ {c}

Orphaned(c) == {d \in Dirs \ {c} : kvDirs[d].old}

(* purgeOrphanedLeanPlans, whose errors setLeanPlan ignores. *)
purgeOrphanedLeanPlans(p) ==
    LET c == kvOp[p].by
    IN  /\ kvOp[p].pc = "purge"
        /\ \/ /\ kvDirs' = [d \in Dirs |-> IF d \in Orphaned(c)
                                           THEN [kvDirs[d] EXCEPT !.parts = {}] ELSE kvDirs[d]]
              /\ metaKVCallback("planPIndexes")
              /\ UNCHANGED kvFails
           \/ KvFails /\ UNCHANGED <<kvDirs, kvKick>>
        /\ Answer(c, "done")
        /\ kvOp' = [kvOp EXCEPT ![p] = Idle]
        /\ UNCHANGED <<kvLimits, kvLevel, kvChildren, kvIndex, kvShared, kvPtr, kvLocal, kvView>>
        /\ Logged

(* PlanPurgeTimeout passes for a directory.  It is far longer than a Set   *)
(* takes, so no directory turns old while a Set is under way.              *)
KvAge(d) ==
    /\ kvLimits.ages
    /\ Whole(d) /\ ~kvDirs[d].old
    /\ \A p \in Procs : kvOp[p].pc \notin {"write", "point", "purge"}
    /\ kvDirs' = [kvDirs EXCEPT ![d].old = TRUE]
    /\ UNCHANGED <<kvLimits, kvLevel, kvChildren, kvIndex, kvShared, kvPtr, kvFails, kvLocal, kvOp,
                   kvCaller, kvKick, kvView, kvLog>>
-----------------------------------------------------------------------------
delPlan(c) ==
    /\ Job(c).kind = "delplan" /\ kvCaller[c].pc = "start"
    /\ PlanCall(KvProc(c), c, "dmeta", "delshared")
    /\ UNCHANGED <<kvCaller, kvKick>>

(* delSharedPlan, alone or as the first thing delLeanPlan does. *)
delSharedPlan(p) ==
    /\ kvOp[p].pc = "delshared"
    /\ kvShared' = Nothing
    /\ metaKVCallback("planPIndexes")
    /\ Answer(kvOp[p].by, "done")
    /\ kvOp' = [kvOp EXCEPT ![p] = Idle]
    /\ UNCHANGED <<kvLimits, kvLevel, kvChildren, kvIndex, kvPtr, kvDirs, kvFails, kvLocal, kvView>>
    /\ Logged

(* delLeanPlan: the shared plan, the directory the pointer names, and then *)
(* the pointer.  A call that fails on the way leaves the rest undone.      *)
delLeanPlanMeta(p) ==
    /\ kvOp[p].pc = "dmeta"
    /\ kvShared' = Nothing
    /\ IF kvPtr = Unset
       THEN Answer(kvOp[p].by, "done") /\ kvOp' = [kvOp EXCEPT ![p] = Idle]
       ELSE kvOp' = [kvOp EXCEPT ![p].pc = "ddir", ![p].dir = kvPtr] /\ UNCHANGED kvCaller
    /\ metaKVCallback("planPIndexes")
    /\ UNCHANGED <<kvLimits, kvLevel, kvChildren, kvIndex, kvPtr, kvDirs, kvFails, kvLocal, kvView>>
    /\ Logged

delLeanPlanDir(p) ==
    /\ kvOp[p].pc = "ddir"
    /\ \/ /\ kvDirs' = IF kvOp[p].dir \in Dirs
                       THEN [kvDirs EXCEPT ![kvOp[p].dir].parts = {}] ELSE kvDirs
          /\ kvOp' = [kvOp EXCEPT ![p].pc = "dpoint"]
          /\ metaKVCallback("planPIndexes")
          /\ UNCHANGED <<kvFails, kvCaller>>
       \/ /\ KvFails
          /\ Answer(kvOp[p].by, "failed")
          /\ kvOp' = [kvOp EXCEPT ![p] = Idle]
          /\ UNCHANGED <<kvDirs, kvKick>>
    /\ UNCHANGED <<kvLimits, kvLevel, kvChildren, kvIndex, kvShared, kvPtr, kvLocal, kvView>>
    /\ Logged

delLeanPlan(p) ==
    /\ kvOp[p].pc = "dpoint"
    /\ \/ /\ kvPtr' = EmptyPath
          /\ metaKVCallback("curMetaKvPlanKey")
          /\ Answer(kvOp[p].by, "done")
          /\ UNCHANGED kvFails
       \/ KvFails /\ Answer(kvOp[p].by, "failed") /\ UNCHANGED <<kvPtr, kvKick>>
    /\ kvOp' = [kvOp EXCEPT ![p] = Idle]
    /\ kvEntry' = [kvEntry EXCEPT ![p] = Compressed(p, @)]
    /\ CompressAt(p)
    /\ UNCHANGED <<kvLimits, kvLevel, kvChildren, kvIndex, kvShared, kvDirs, kvView>>
    /\ Logged

(* The last old node is upgraded, or the version is raised. *)
KvUpgrade ==
    /\ kvLevel < kvLimits.upto
    /\ kvLevel' = kvLevel + 1
    /\ UNCHANGED <<kvLimits, kvStore, kvFails, kvLocal, kvOp, kvCaller, kvKick, kvView>>
    /\ Logged
-----------------------------------------------------------------------------
KvCall(c) ==
    \/ getNodeDefs(c) \/ setNodeDefs(c) \/ delNodeDefs(c)
    \/ getIndexDefs(c) \/ setIndexDefs(c) \/ delIndexDefs(c)
    \/ getPlan(c) \/ setPlan(c) \/ delPlan(c)

KvStep(p) ==
    \/ removeNodeDefs(p)
    \/ getSharedPlan(p) \/ getCurMetaKvPlanMeta(p) \/ getLeanPlan(p)
    \/ setSharedPlan(p) \/ writePart(p) \/ setLeanPlan(p) \/ purgeOrphanedLeanPlans(p)
    \/ delSharedPlan(p) \/ delLeanPlanMeta(p) \/ delLeanPlanDir(p) \/ delLeanPlan(p)

KvNext ==
    \/ \E c \in Callers : KvCall(c)
    \/ \E p \in Procs : KvStep(p) \/ watchPlan(p) \/ KvRefresh(p)
    \/ \E d \in Dirs : KvAge(d)
    \/ KvUpgrade

KvSpec == KvInit /\ [][KvNext]_kvVars
-----------------------------------------------------------------------------
(* Types of metakv's paths and of the processes' state (cfg_metakv.go:108-128). *)
KvTypeOK ==
    /\ kvLevel \in 0..2 /\ kvFails \in 0..kvLimits.fails
    /\ kvChildren \subseteq Procs /\ kvIndex \subseteq Callers /\ kvShared \in Plans
    /\ kvPtr \in Dirs \cup {Unset, EmptyPath}
    /\ kvDirs \in [Dirs -> [parts : SUBSET Parts, old : BOOLEAN]]
    /\ kvAdv \in [Procs -> BOOLEAN] /\ kvKick \in [Procs -> BOOLEAN]
    /\ \A p \in Procs : kvEntry[p].nodes.holders \cup kvEntry[p].index.holders \subseteq Callers
    /\ \A p \in Procs : kvView[p].plan \in Plans /\ kvView[p].from \in 1..Len(kvLog)
    /\ \A c \in Callers : kvCaller[c].pc \in {"start", "read", "done", "failed"}
    /\ \A i \in 1..Len(kvLog) : kvLog[i] \in Plans

(* Nodes that register at the same time do not undo each other: once a     *)
(* node's registration has been acknowledged it stays, unless somebody     *)
(* removes that node, writes the nodes with CFG_CAS_FORCE or removes all   *)
(* of them (cfg_metakv.go:426-549).                                        *)
Removes(d, p) == \/ Job(d).kind = "delnodes"
                 \/ Job(d).kind = "unregister" /\ Job(d).of = p
                 \/ Job(d).kind \in {"register", "unregister"} /\ Job(d).force

RegistrationsAreSplit ==
    \A c \in Callers :
        /\ Job(c).kind = "register" /\ kvCaller[c].pc = "done"
        /\ \A d \in Callers \ {c} : ~Removes(d, KvProc(c))
        => KvProc(c) \in kvChildren

(* The pointer never names a directory that is incomplete or was purged,   *)
(* but between the two writes of a deletion, or if the second one fails    *)
(* (cfg_metakv_lean.go:85-151, 381-424, 428-471).                          *)
PointerNamesWholePlan ==
    kvPtr \in Dirs => \/ Whole(kvPtr)
                      \/ \E p \in Procs : kvOp[p].pc = "dpoint"
                      \/ \E c \in Callers : Job(c).kind = "delplan" /\ kvCaller[c].pc = "failed"

(* A Get of the plan that returns without an error returns a plan that was *)
(* the current one at some time during the Get, though the directory it    *)
(* reads may be purged at any moment (cfg_metakv_lean.go:229-301).  The    *)
(* scenarios have at most maxRetry - 1 plans replaced during one Get, and  *)
(* a cluster that gets the feature is left out, as is a feature check that *)
(* fails: such a call goes on with the shared plan.                        *)
ReadDuring(r) == r.plan \in {kvLog[i] : i \in r.from..Len(kvLog)}

PlanReadWasCurrent ==
    ~kvLimits.blink /\ (kvLimits.level > 0 \/ kvLimits.upto = 0) =>
        /\ \A p \in Procs : ReadDuring(kvView[p])
        /\ \A c \in Callers : Job(c).kind = "plan" /\ kvCaller[c].pc = "read" => ReadDuring(kvCaller[c])

(* No node is left behind on an old plan: as long as a node's plan is not  *)
(* the current one, the event that makes it read the plan is on its way or *)
(* it is reading, because the pointer's event comes after the plan is in   *)
(* place (cfg_registry.go:57-66, cfg_metakv.go:283-303).  This is for a    *)
(* cluster in which all nodes have the lean plan and no feature check      *)
(* fails, and a plan whose deletion is not stuck halfway.                  *)
NobodyMissesThePlan ==
    kvLimits.level > 0 /\ ~kvLimits.blink =>
        \A p \in Procs : \/ kvView[p].plan = KvCurrent
                         \/ kvKick[p]
                         \/ kvOp[p].pc # "idle" /\ kvOp[p].by = Watcher
                         \/ kvPtr \in Dirs /\ ~Whole(kvPtr)
=============================================================================
