---------------------------- MODULE ManagerCaches ----------------------------
(***************************************************************************)
(* What a manager keeps of the Cfg (manager.go): copies of the wanted      *)
(* nodes, the plan and the index definitions, refreshed under mgr.m by the *)
(* observers of StartCfg and by whoever asks for it; the cover of an index *)
(* that CoveringPIndexesEx (pindex.go) computes from them and caches; the  *)
(* options of the cluster; and the files that hold the last stable plan,   *)
(* for a recovery after a failover.  There is one index with one pindex.   *)
(***************************************************************************)
EXTENDS Sequences, FiniteSets, FiniteSetsExt

CONSTANTS McNodes, McSelf,  \* the nodes; this one
          McPlans,          \* plans: the priority of each node, NotHere if it has none
          McClients,        \* goroutines that query the index or force a refresh
          McNil,
          McScenarios       \* budgets: how often each thing may happen

NotHere == 9

ASSUME McAssumption == McSelf \in McNodes /\ McPlans \subseteq [McNodes -> {0, 1, NotHere}]

McKinds == {"nodes", "plan", "defs"}
McProcs == McKinds \cup McClients   \* the observer of a kind is named after it

VARIABLES mcLeft,     \* mcLeft[b]: what is left of budget b
          mcCfg,      \* mcCfg[k]: version and value of k in the Cfg
          mcSub,      \* the kinds, or options, that are subscribed to
          mcEvent,    \* those with an event on its way
          mcCache,    \* mcCache[k]: the manager's copy
          mcLost,     \* those whose last change no event or refresh will bring
          mcPIndex,   \* the local pindex is registered
          mcCover,    \* the cached cover
          mcLock,     \* who holds mgr.m for writing
          mcOp,       \* mcOp[p]: what goroutine p is doing
          mcSet,      \* version of the options in the Cfg
          mcOptions,  \* version of the manager's options; Own: not of the Cfg
          mcFiles,    \* the planPIndexes directory, in the order of the names
          mcTime,     \* the clock, in milliseconds
          mcStored    \* history: the last plan that was stored whole

mcView == <<mcCfg, mcSub, mcEvent, mcCache, mcLost>>
mcQuery == <<mcPIndex, mcCover>>
mcOpt == <<mcSet, mcOptions>>
mcDisk == <<mcFiles, mcTime, mcStored>>
mcVars == <<mcLeft, mcView, mcQuery, mcLock, mcOp, mcOpt, mcDisk>>

Own == 0
Nobody == "nobody"

(* A version and a value of a kind.  The clients are no observers. *)
McValues == [nodes |-> SUBSET McNodes, plan |-> McPlans, defs |-> {0, 1}]
McRecord(k) == [ver : Nat, val : McValues[k]]
ASSUME McNames == /\ McClients \cap (McKinds \cup {Nobody}) = {}
                  /\ \A k \in McKinds : McNil \notin McRecord(k)
                  /\ McNil \notin [time : Nat, ver : Nat]

McIdle == [pc |-> "idle", job |-> "none", kind |-> "none", since |-> 0, got |-> McNil,
           nodes |-> {}, plan |-> McNil, cover |-> McNil, overtaken |-> FALSE]

(* When one subscribes to what does not change makes no difference. *)
Unchanging == {k \in McKinds \cup {"options"} : mcLeft[k] = 0}

McInit ==
    /\ mcLeft \in McScenarios
    /\ \E plan \in McPlans :
          mcCfg = [k \in McKinds |->
                     [ver |-> 1, val |-> [nodes |-> McNodes, plan |-> plan, defs |-> 0][k]]]
    /\ mcSub = Unchanging /\ mcEvent = {} /\ mcLost = {}
    /\ mcCache = [k \in McKinds |-> McNil]
    /\ mcPIndex = FALSE /\ mcCover = McNil
    /\ mcLock = Nobody
    /\ mcOp = [p \in McProcs |-> McIdle]
    /\ mcSet = 1 /\ mcOptions = 1
    /\ mcFiles = <<>> /\ mcTime = 1 /\ mcStored = McNil

Spend(b) == mcLeft[b] > 0 /\ mcLeft' = [mcLeft EXCEPT ![b] = @ - 1]
Goes(p, op) == mcOp' = [mcOp EXCEPT ![p] = op]
-----------------------------------------------------------------------------
(* Another process changes the Cfg, which tells the subscribers. *)
McChange(k) ==
    /\ Spend(k)
    /\ \E v \in McValues[k] :
          mcCfg' = [mcCfg EXCEPT ![k] = [ver |-> @.ver + 1, val |-> v]]
    /\ mcEvent' = mcEvent \cup ({k} \cap mcSub)
    /\ UNCHANGED <<mcSub, mcCache, mcLost, mcQuery, mcLock, mcOp, mcOpt, mcDisk>>

(* What the manager has, or is about to have, is not what the Cfg has. *)
Outdated(k) ==
    IF k = "options" THEN mcOptions # mcSet
    ELSE \/ mcCache[k] \notin {McNil, mcCfg[k]}
         \/ \E p \in McProcs : mcOp[p].kind = k /\ mcOp[p].got \notin {McNil, mcCfg[k]}

(* The goroutines of cfgObserver subscribe some time after StartCfg. *)
McSubscribe(k) ==
    /\ k \notin mcSub
    /\ mcSub' = mcSub \cup {k}
    /\ mcLost' = IF Outdated(k) THEN mcLost \cup {k} ELSE mcLost
    /\ UNCHANGED <<mcLeft, mcCfg, mcEvent, mcCache, mcQuery, mcLock, mcOp, mcOpt, mcDisk>>

(* The observer receives an event and refreshes the kind. *)
McObserve(k) ==
    /\ k \in mcEvent /\ mcOp[k] = McIdle
    /\ mcEvent' = mcEvent \ {k}
    /\ Goes(k, [McIdle EXCEPT !.pc = "load", !.job = "refresh", !.kind = k])
    /\ UNCHANGED <<mcLeft, mcCfg, mcSub, mcCache, mcLost, mcQuery, mcLock, mcOpt, mcDisk>>

(* GetNodeDefs, GetPlanPIndexes or GetIndexDefs with refresh. *)
McForce(c, k) ==
    /\ mcOp[c] = McIdle
    /\ Spend("force")
    /\ Goes(c, [McIdle EXCEPT !.pc = "load", !.job = "force", !.kind = k, !.since = mcCfg[k].ver])
    /\ UNCHANGED <<mcView, mcQuery, mcLock, mcOpt, mcDisk>>

(* IsStablePlan: as many nodes as the definition that is cached asks for. *)
IsStablePlan(plan) ==
    LET count == Cardinality({n \in McNodes : plan[n] # NotHere})
    IN count > 0 /\ (mcCache["defs"] # McNil => count = mcCache["defs"].val + 1)

(* The lock is taken and the Cfg read.  A plan that is new and stable goes *)
(* to disk first.  On an error all three return.                           *)
McLoad(p) ==
    LET op == mcOp[p]
        new == mcCfg[op.kind]
    IN /\ op.pc = "load" /\ mcLock = Nobody
       /\ mcLock' = p
       /\ Goes(p, [op EXCEPT !.got = new,
                     !.pc = IF op.kind = "plan" /\ mcCache["plan"] # new /\ IsStablePlan(new.val)
                            THEN "create" ELSE "keep"])
       /\ mcLost' = mcLost \ {op.kind}
       /\ UNCHANGED <<mcLeft, mcCfg, mcSub, mcEvent, mcCache, mcQuery, mcOpt, mcDisk>>
McLoadFails(p) ==
    /\ mcOp[p].pc = "load" /\ mcLock = Nobody
    /\ Spend("fails")
    /\ Goes(p, McIdle)
    /\ mcLost' = mcLost \cup (McKinds \cap {p})
    /\ UNCHANGED <<mcCfg, mcSub, mcEvent, mcCache, mcQuery, mcLock, mcOpt, mcDisk>>

(* Mutant: coveringCache stays. *)
InvalidateNot == UNCHANGED mcCover

(* mgr.coveringCache = nil. *)
Invalidate == mcCover' = McNil

(* A cover that is being computed is now one of what was there before,     *)
(* which nothing notices when it is cached.                                *)
Overtake == [p \in McProcs |-> IF mcOp[p].job = "query" THEN [mcOp[p] EXCEPT !.overtaken = TRUE]
                                                        ELSE mcOp[p]]

(* What a goroutine that has loaded a kind does next. *)
Loaded(op) ==
    CASE op.job = "refresh" -> McIdle
      [] op.job = "force" -> [op EXCEPT !.pc = "got"]
      [] op.job = "query" /\ op.kind = "nodes" ->
           [op EXCEPT !.pc = "plan", !.kind = "none", !.got = McNil, !.nodes = op.got.val]
      [] op.job = "query" /\ op.kind = "plan" ->
           [op EXCEPT !.pc = "classify", !.kind = "none", !.got = McNil, !.plan = op.got.val]

(* The copy is replaced and the lock released. *)
McKeep(p) ==
    LET op == mcOp[p] IN
    /\ op.pc = "keep"
    /\ mcCache' = [mcCache EXCEPT ![op.kind] = op.got]
    /\ Invalidate
    /\ mcOp' = [Overtake EXCEPT ![p] = Loaded(op)]
    /\ mcLock' = Nobody
    /\ UNCHANGED <<mcLeft, mcCfg, mcSub, mcEvent, mcLost, mcPIndex, mcOpt, mcDisk>>
McReturn(p) ==
    /\ mcOp[p].pc = "got"
    /\ Goes(p, McIdle)
    /\ UNCHANGED <<mcLeft, mcView, mcQuery, mcLock, mcOpt, mcDisk>>
-----------------------------------------------------------------------------
(* checkAndStoreStablePlanPIndexes, with the lock held: a file named after *)
(* the time and a hash of the plan is created, filled, and the others go.  *)
McCreate(p) ==
    /\ mcOp[p].pc = "create"
    /\ mcTime' \in {mcTime, mcTime + 1}
    /\ \E i \in 1..(Len(mcFiles) + 1) :
          /\ \A j \in i..Len(mcFiles) : mcFiles[j].time = mcTime'
          /\ mcFiles' = SubSeq(mcFiles, 1, i - 1)
                        \o <<[time |-> mcTime', ver |-> mcOp[p].got.ver, whole |-> FALSE]>>
                        \o SubSeq(mcFiles, i, Len(mcFiles))
    /\ Goes(p, [mcOp[p] EXCEPT !.pc = "fill"])
    /\ UNCHANGED <<mcLeft, mcView, mcQuery, mcLock, mcOpt, mcStored>>

(* os.WriteFile ends, or fails and leaves a part of the file. *)
McFill(p) ==
    LET mine(f) == f.time = mcTime /\ f.ver = mcOp[p].got.ver
    IN /\ mcOp[p].pc = "fill"
       /\ mcFiles' = [i \in DOMAIN mcFiles |-> IF mine(mcFiles[i]) THEN [mcFiles[i] EXCEPT !.whole = TRUE]
                                                                   ELSE mcFiles[i]]
       /\ mcStored' = [time |-> mcTime, ver |-> mcOp[p].got.ver]
       /\ Goes(p, [mcOp[p] EXCEPT !.pc = "purge"])
       /\ UNCHANGED <<mcLeft, mcView, mcQuery, mcLock, mcOpt, mcTime>>
McFillFails(p) ==
    /\ mcOp[p].pc = "fill"
    /\ Spend("fails")
    /\ Goes(p, [mcOp[p] EXCEPT !.pc = "keep"])
    /\ UNCHANGED <<mcView, mcQuery, mcLock, mcOpt, mcDisk>>

(* Mutant: all but the last file go, that of the last store or not. *)
PurgeableAll(i) == i < Len(mcFiles)

(* All but the last file, and those that have the time of this one. *)
Purgeable(i) == i < Len(mcFiles) /\ mcFiles[i].time # mcTime

(* They go one by one, the oldest first; one that cannot be removed stays. *)
McPurge(p) ==
    /\ mcOp[p].pc = "purge"
    /\ \E i \in DOMAIN mcFiles :
          /\ Purgeable(i)
          /\ (\E j \in 1..(i - 1) : Purgeable(j)) => mcLeft["fails"] > 0
          /\ mcFiles' = SubSeq(mcFiles, 1, i - 1) \o SubSeq(mcFiles, i + 1, Len(mcFiles))
    /\ UNCHANGED <<mcLeft, mcView, mcQuery, mcLock, mcOp, mcOpt, mcTime, mcStored>>
McPurgeEnds(p) ==
    /\ mcOp[p].pc = "purge"
    /\ (\E i \in DOMAIN mcFiles : Purgeable(i)) => mcLeft["fails"] > 0
    /\ Goes(p, [mcOp[p] EXCEPT !.pc = "keep"])
    /\ UNCHANGED <<mcLeft, mcView, mcQuery, mcLock, mcOpt, mcDisk>>

(* GetStableLocalPlanPIndexes: the last file whose contents have the hash  *)
(* that is in its name.                                                    *)
GetStableLocalPlanPIndexes ==
    LET whole == {i \in 1..Len(mcFiles) : mcFiles[i].whole}
        last == mcFiles[Max(whole)]
    IN IF whole = {} THEN McNil ELSE [time |-> last.time, ver |-> last.ver]
-----------------------------------------------------------------------------
(* The janitor registers or unregisters the local pindex. *)
McRegister ==
    /\ mcLock = Nobody
    /\ Spend("pindex")
    /\ mcPIndex' = ~mcPIndex
    /\ Invalidate
    /\ mcOp' = Overtake
    /\ UNCHANGED <<mcView, mcLock, mcOpt, mcDisk>>

(* CoveringPIndexesEx: the cached cover, or one to compute from the nodes  *)
(* and the plan, each of which is loaded if it never was.                  *)
McQuery(c) ==
    /\ mcOp[c] = McIdle /\ mcLock = Nobody
    /\ Spend("query")
    /\ Goes(c, IF mcCover # McNil THEN McIdle ELSE [McIdle EXCEPT !.pc = "nodes", !.job = "query"])
    /\ UNCHANGED <<mcView, mcQuery, mcLock, mcOpt, mcDisk>>
McRead(c, k) ==
    LET op == mcOp[c] IN
    /\ op.pc = k /\ mcLock = Nobody
    /\ Goes(c, IF mcCache[k] = McNil THEN [op EXCEPT !.pc = "load", !.kind = k]
               ELSE Loaded([op EXCEPT !.kind = k, !.got = mcCache[k]]))
    /\ UNCHANGED <<mcLeft, mcView, mcQuery, mcLock, mcOpt, mcDisk>>

Missing == "missing"
ASSUME McMissing == Missing \notin McNodes /\ Cardinality(McNodes) \in Nat

(* A node may serve: it is wanted, in the plan, and if it is this one has  *)
(* the pindex.                                                             *)
Serves(n, nodes, plan) == n \in nodes /\ plan[n] # NotHere /\ (n = McSelf => mcPIndex)

(* A node takes the place of the best so far. *)
Preferred(n, best, plan) ==
    \/ best = Missing
    \/ best # Missing /\ plan[n] < plan[best]
    \/ best # Missing /\ plan[n] = plan[best] /\ n = McSelf

(* ClassifyPIndexes looks at the plan's nodes in the order of a Go map. *)
ClassifyPIndexes(nodes, plan, order) ==
    LET best[i \in 0..Len(order)] ==
          IF i = 0 THEN Missing
          ELSE IF Serves(order[i], nodes, plan) /\ Preferred(order[i], best[i - 1], plan)
               THEN order[i] ELSE best[i - 1]
    IN best[Len(order)]

McClassify(c) ==
    LET op == mcOp[c] IN
    /\ op.pc = "classify" /\ mcLock = Nobody
    /\ \E order \in Bijection(1..Cardinality(McNodes), McNodes) :
          Goes(c, [op EXCEPT !.pc = "cover", !.nodes = {}, !.plan = McNil,
                             !.cover = ClassifyPIndexes(op.nodes, op.plan, order)])
    /\ UNCHANGED <<mcLeft, mcView, mcQuery, mcLock, mcOpt, mcDisk>>
McCache(c) ==
    LET op == mcOp[c] IN
    /\ op.pc = "cover" /\ mcLock = Nobody
    /\ mcCover' = [node |-> op.cover, overtaken |-> op.overtaken]
    /\ Goes(c, McIdle)
    /\ UNCHANGED <<mcLeft, mcView, mcPIndex, mcLock, mcOpt, mcDisk>>
-----------------------------------------------------------------------------

(* SetOptions and SetOption, with optionsMutex held, here and elsewhere.   *)
(* SetOption changes the manager's options before the Cfg's.               *)
McSetOptions(here) ==
    /\ Spend("options")
    /\ mcSet' = mcSet + 1
    /\ mcOptions' = IF here THEN mcSet + 1 ELSE mcOptions
    /\ mcEvent' = mcEvent \cup ({"options"} \cap mcSub)
    /\ UNCHANGED <<mcCfg, mcSub, mcCache, mcLost, mcQuery, mcLock, mcOp, mcDisk>>
McSetOptionFails ==
    /\ Spend("fails")
    /\ mcOptions' = Own
    /\ UNCHANGED <<mcView, mcQuery, mcLock, mcOp, mcSet, mcDisk>>

(* Mutant: the observer of the definitions looks at no other event. *)
McReadOptionsNot ==
    /\ "options" \in mcEvent /\ mcOp["defs"] = McIdle
    /\ mcEvent' = mcEvent \ {"options"}
    /\ UNCHANGED <<mcLeft, mcCfg, mcSub, mcCache, mcLost, mcQuery, mcLock, mcOp, mcOpt, mcDisk>>

(* RefreshOptions reads the Cfg, and then takes the lock. *)
McReadOptions ==
    /\ "options" \in mcEvent /\ mcOp["defs"] = McIdle
    /\ mcEvent' = mcEvent \ {"options"}
    /\ Goes("defs", [McIdle EXCEPT !.pc = "options", !.since = mcSet])
    /\ mcLost' = mcLost \ {"options"}
    /\ UNCHANGED <<mcLeft, mcCfg, mcSub, mcCache, mcQuery, mcLock, mcOpt, mcDisk>>
RefreshOptions ==
    /\ mcOp["defs"].pc = "options"
    /\ mcOptions' = mcOp["defs"].since
    /\ Goes("defs", McIdle)
    /\ UNCHANGED <<mcLeft, mcView, mcQuery, mcLock, mcSet, mcDisk>>

(* The process ends, wherever it is, and starts again with RefreshOptions, *)
(* which takes longer than a millisecond.                                  *)
McCrash ==
    /\ Spend("crash")
    /\ mcSub' = Unchanging /\ mcEvent' = {} /\ mcLost' = {}
    /\ mcCache' = [k \in McKinds |-> McNil]
    /\ mcPIndex' = FALSE /\ mcCover' = McNil
    /\ mcLock' = Nobody
    /\ mcOp' = [p \in McProcs |-> McIdle]
    /\ mcOptions' = mcSet
    /\ mcTime' = mcTime + 1
    /\ UNCHANGED <<mcCfg, mcSet, mcFiles, mcStored>>

McNext ==
    \/ \E k \in McKinds : McChange(k) \/ McSubscribe(k) \/ McObserve(k)
    \/ \E p \in McProcs : \/ McLoad(p) \/ McLoadFails(p) \/ McKeep(p) \/ McReturn(p)
                          \/ McCreate(p) \/ McFill(p) \/ McFillFails(p) \/ McPurge(p) \/ McPurgeEnds(p)
    \/ \E c \in McClients : \/ McQuery(c) \/ McRead(c, "nodes") \/ McRead(c, "plan")
                            \/ McClassify(c) \/ McCache(c)
                            \/ \E k \in McKinds : McForce(c, k)
    \/ McRegister \/ McSubscribe("options") \/ McReadOptions \/ RefreshOptions
    \/ McSetOptions(TRUE) \/ McSetOptions(FALSE) \/ McSetOptionFails
    \/ McCrash

McSpec == McInit /\ [][McNext]_mcVars
-----------------------------------------------------------------------------
McVersions(k) == [ver : 1..9, val : McValues[k]]
McFile == [time : 1..9, ver : 1..9, whole : BOOLEAN]

(* Types of the copies, the cover, the goroutines, the options and the files. *)
McTypeOK ==
    /\ \A k \in McKinds : mcCfg[k] \in McVersions(k) /\ (mcCache[k] # McNil => mcCache[k] \in McVersions(k))
    /\ mcSub \subseteq McKinds \cup {"options"} /\ mcEvent \subseteq mcSub /\ mcLost \subseteq mcSub
    /\ mcPIndex \in BOOLEAN
    /\ mcCover # McNil => mcCover \in [node : McNodes \cup {Missing}, overtaken : BOOLEAN]
    /\ mcLock \in McProcs \cup {Nobody}
    /\ mcOptions \in {Own} \cup 1..mcSet
    /\ mcFiles \in Seq(McFile) /\ mcTime \in 1..9
    /\ mcStored # McNil => mcStored \in [time : 1..9, ver : 1..9]

(* Once an observer has subscribed, the manager's copy of a kind is that   *)
(* of the Cfg, or an event or a refresh that will make it so is under way, *)
(* and so are its options unless its own SetOption failed: a refresh that  *)
(* was slow does not undo a later one for good.  And "use refresh of true  *)
(* to force a read from Cfg" is kept: what is returned is at least as new  *)
(* as the Cfg was at the call (manager.go:436-478, 918-990, 1118-1165,     *)
(* 1488-1544).  Exceptions are what changed between a first load and the   *)
(* subscription, or was announced when the Cfg could not be read (mcLost), *)
(* and the first result of GetPlanPIndexes, the plan of before (an inner   *)
(* declaration at manager.go:1130).                                        *)
ManagerFollowsTheCfg ==
    /\ \A k \in (mcSub \cap McKinds) \ mcLost :
          \/ mcCache[k] \in {McNil, mcCfg[k]} \/ k \in mcEvent
          \/ mcOp[k].pc = "load"
          \/ \E p \in McProcs : /\ mcOp[p].pc \in {"create", "fill", "purge", "keep"}
                              /\ mcOp[p].kind = k /\ mcOp[p].got = mcCfg[k]
    /\ "options" \in mcSub \ mcLost =>
          \/ mcOptions \in {Own, mcSet} \/ "options" \in mcEvent
          \/ mcOp["defs"].pc = "options" /\ mcOp["defs"].since = mcSet
    /\ \A p \in McProcs : mcOp[p].pc = "got" => mcOp[p].got.ver >= mcOp[p].since

(* A node that serves the pindex, of the lowest priority, and this one if *)
(* it can; Missing if there is none.                                       *)
RightCover(node, nodes, plan) ==
    LET able == {n \in McNodes : Serves(n, nodes, plan)}
    IN IF able = {} THEN node = Missing
       ELSE /\ node \in able
            /\ \A n \in able : \/ plan[node] < plan[n]
                               \/ plan[node] = plan[n] /\ (n = McSelf => node = n)

(* The cached cover is the one to compute from the copies and pindexes as  *)
(* they are now (RightCover).  Not so if a refresh or registration         *)
(* overtook its computation: coveringCacheVerLOCKED, made to "see if any   *)
(* inputs to the covering pindexes computation have changed", is never     *)
(* called (pindex.go:394-438, 560-568).                                    *)
CoverIsRight ==
    mcCover # McNil /\ ~mcCover.overtaken =>
        RightCover(mcCover.node, mcCache["nodes"].val, mcCache["plan"].val)

(* Once a stable plan has been stored there is always one to recover from, *)
(* the last one stored or one of the same millisecond, although the        *)
(* process may end, and a write or removal fail, at any point              *)
(* (manager.go:1167-1228, 1280-1349).                                      *)
RecoveryPlanIsLatest ==
    mcStored # McNil => /\ GetStableLocalPlanPIndexes # McNil
                        /\ GetStableLocalPlanPIndexes.time = mcStored.time
=============================================================================
