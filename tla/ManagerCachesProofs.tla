------------------------ MODULE ManagerCachesProofs ------------------------
(***************************************************************************)
(* A manager's copies follow the Cfg, for any clients, nodes, plans and    *)
(* budgets.  The invariant says what ManagerFollowsTheCfg leaves out: that *)
(* only one goroutine, the one that has mgr.m, is between its read of the  *)
(* Cfg and its change of the copy, and that what it has read is current    *)
(* unless an event or a refresh will have the kind read again.             *)
(***************************************************************************)
EXTENDS ManagerCaches, WellFoundedInduction, TLAPS

McFields == {"pc", "job", "kind", "since", "got", "nodes", "plan", "cover", "overtaken"}
McPcs == {"idle", "load", "create", "fill", "purge", "keep", "got",
          "nodes", "plan", "classify", "cover", "options"}

(* It has read the Cfg, and has mgr.m. *)
Holding(op) == op.pc \in {"create", "fill", "purge", "keep"}

(* What a goroutine may be doing. *)
OpOK(p, op) ==
    /\ DOMAIN op = McFields /\ op.pc \in McPcs /\ op.since \in Nat
    /\ op.pc \in {"load", "got"} \/ Holding(op) =>
          /\ op.kind \in McKinds
          /\ p \in McKinds => op.job = "refresh" /\ op.kind = p
          /\ p \notin McKinds => op.job \in {"force", "query"}
          /\ op.job = "query" => op.kind \in {"nodes", "plan"} /\ op.since = 0
    /\ op.pc \in {"nodes", "plan", "classify", "cover"} => op.job = "query" /\ op.since = 0 /\ p \notin McKinds
    /\ Holding(op) \/ op.pc = "got" => op.got \in McRecord(op.kind) /\ op.got.ver >= op.since
    /\ op.pc = "got" => p \notin McKinds
    /\ op.pc = "options" => p = "defs"

McTypes ==
    /\ DOMAIN mcCfg = McKinds /\ \A k \in McKinds : mcCfg[k] \in McRecord(k)
    /\ DOMAIN mcCache = McKinds /\ \A k \in McKinds : mcCache[k] \in McRecord(k) \cup {McNil}
    /\ DOMAIN mcOp = McProcs /\ \A p \in McProcs : OpOK(p, mcOp[p])
    /\ mcSet \in Nat /\ mcEvent \subseteq mcSub

(* mgr.m is held. *)
HoldersLock == \A p \in McProcs : Holding(mcOp[p]) => mcLock = p

(* What is forced to be read is not read yet, and can only become newer. *)
LoadsAreSince == \A p \in McProcs : mcOp[p].pc = "load" => mcOp[p].since <= mcCfg[mcOp[p].kind].ver

(* An event, or the observer, will have the kind read again; or what was   *)
(* read is current, and is the copy or will be.                            *)
Followed(k) ==
    \/ k \in mcEvent
    \/ mcOp[k].pc = "load"
    \/ /\ \A p \in McProcs : Holding(mcOp[p]) /\ mcOp[p].kind = k => mcOp[p].got = mcCfg[k]
       /\ \/ mcCache[k] \in {McNil, mcCfg[k]}
          \/ \E p \in McProcs : Holding(mcOp[p]) /\ mcOp[p].kind = k
KindsFollowed == \A k \in (mcSub \cap McKinds) \ mcLost : Followed(k)

OptionsFollowed ==
    /\ "options" \in mcSub \ mcLost =>
          \/ mcOptions \in {Own, mcSet} \/ "options" \in mcEvent
          \/ mcOp["defs"].pc = "options" /\ mcOp["defs"].since = mcSet
    /\ mcOp["defs"].pc = "options" =>
          "options" \in mcSub /\ ("options" \in mcEvent \/ mcOp["defs"].since = mcSet)

McInv == McTypes /\ HoldersLock /\ LoadsAreSince /\ KindsFollowed /\ OptionsFollowed

(* RightCover, of what is registered here. *)
Able(nodes, plan, here) == {n \in McNodes : n \in nodes /\ plan[n] # NotHere /\ (n = McSelf => here)}
Right(node, nodes, plan, here) ==
    IF Able(nodes, plan, here) = {} THEN node = Missing
    ELSE /\ node \in Able(nodes, plan, here)
         /\ \A n \in Able(nodes, plan, here) :
               \/ plan[node] < plan[n]
               \/ plan[node] = plan[n] /\ (n = McSelf => node = n)

(* A query that nothing has overtaken works on the copies as they are now. *)
QueryOK(op, nodes, plan, here) ==
    op.job = "query" /\ ~op.overtaken =>
        /\ op.pc \in {"plan", "classify"} \/ ((op.pc = "load" \/ Holding(op)) /\ op.kind = "plan") =>
              nodes # McNil /\ op.nodes = nodes.val
        /\ op.pc = "classify" => plan # McNil /\ op.plan = plan.val
        /\ op.pc = "cover" => Right(op.cover, nodes.val, plan.val, here)
QueriesOK == \A q \in McProcs : QueryOK(mcOp[q], mcCache["nodes"], mcCache["plan"], mcPIndex)
CachedOK == mcCover # McNil /\ ~mcCover.overtaken =>
                Right(mcCover.node, mcCache["nodes"].val, mcCache["plan"].val, mcPIndex)
CoverInv == QueriesOK /\ CachedOK

(* Files are in the order of their times, none of which is to come. *)
FilesSorted ==
    /\ mcFiles \in Seq([time : Nat, ver : Nat, whole : BOOLEAN]) /\ mcTime \in Nat
    /\ \A i, j \in 1..Len(mcFiles) : i <= j => mcFiles[i].time <= mcFiles[j].time
    /\ \A i \in 1..Len(mcFiles) : mcFiles[i].time <= mcTime

(* The file of the last store is there, and no whole one is later. *)
StoredIsThere ==
    mcStored # McNil =>
        /\ mcStored.time <= mcTime
        /\ \E i \in 1..Len(mcFiles) : mcFiles[i].whole /\ mcFiles[i].time = mcStored.time
        /\ \A i \in 1..Len(mcFiles) : mcFiles[i].whole => mcFiles[i].time <= mcStored.time

(* Whoever is storing a plan works on the files as they are now. *)
StoringOK(op) ==
    /\ op.pc = "fill" => \E i \in 1..Len(mcFiles) : mcFiles[i].time = mcTime /\ mcFiles[i].ver = op.got.ver
    /\ op.pc = "purge" => mcStored.time = mcTime
FilesInv == FilesSorted /\ StoredIsThere /\ \A p \in McProcs : StoringOK(mcOp[p])
-----------------------------------------------------------------------------
(* The observers and the clients are different goroutines, none of them Nobody. *)
LEMMA McProcsFacts ==
    /\ McKinds \subseteq McProcs /\ McClients \subseteq McProcs /\ "defs" \in McKinds
    /\ Nobody \notin McProcs /\ \A c \in McClients : c \notin McKinds
    BY Zenon, McNames DEF McProcs, McKinds, Nobody

(* A goroutine goes on, and the others are where they were. *)
LEMMA GoesOn ==
    ASSUME DOMAIN mcOp = McProcs, NEW p \in McProcs, NEW op, Goes(p, op)
    PROVE  /\ DOMAIN mcOp' = McProcs /\ mcOp'[p] = op
           /\ \A q \in McProcs : q # p => mcOp'[q] = mcOp[q]
    BY Zenon DEF Goes

(* An idle goroutine, and what may be started from one. *)
LEMMA McIdleOK ==
    /\ \A p : OpOK(p, McIdle) /\ StoringOK(McIdle)
    /\ McIdle.pc = "idle" /\ McIdle.job = "none" /\ ~Holding(McIdle)
    /\ DOMAIN McIdle = McFields
    BY Zenon DEF McIdle, OpOK, McFields, McPcs, Holding, StoringOK

(* What a goroutine may do without mgr.m: nothing that matters here but to *)
(* end a load of its own, which its kind then lacks.                       *)
LEMMA LocalStep ==
    ASSUME McInv, NEW p \in McProcs, NEW op, OpOK(p, op), Goes(p, op),
           ~Holding(mcOp[p]), ~Holding(op), mcOp[p].pc # "options", op.pc # "options",
           op.pc = "load" => op.since <= mcCfg[op.kind].ver,
           p \in McKinds /\ mcOp[p].pc = "load" => p \in mcLost', mcLost \subseteq mcLost',
           UNCHANGED <<mcCfg, mcSub, mcEvent, mcCache, mcLock, mcSet, mcOptions>>
    PROVE  McInv'
<1>1. /\ DOMAIN mcOp' = McProcs /\ mcOp'[p] = op
      /\ \A q \in McProcs : q # p => mcOp'[q] = mcOp[q]
  BY Zenon, GoesOn DEF McInv, McTypes
<1>2. McTypes'
  <2>1. \A q \in McProcs : OpOK(q, mcOp'[q])
    BY Zenon, <1>1 DEF McInv, McTypes
  <2>2. QED BY Zenon, <1>1, <2>1 DEF McInv, McTypes
<1>3. HoldersLock'
  BY Zenon, <1>1 DEF McInv, HoldersLock
<1>4. LoadsAreSince'
  BY Zenon, <1>1 DEF McInv, LoadsAreSince
<1>5. KindsFollowed'
  <2>1. SUFFICES ASSUME NEW k \in McKinds, k \in mcSub, k \notin mcLost' PROVE Followed(k)'
    BY Zenon DEF KindsFollowed
  <2>2. Followed(k)
    BY Zenon, <2>1 DEF McInv, KindsFollowed
  <2>3. CASE k \in mcEvent
    BY Zenon, <2>3 DEF Followed
  <2>4. CASE mcOp[k].pc = "load"
    BY Zenon, <2>1, <2>4, <1>1, McProcsFacts DEF Followed
  <2>5. CASE /\ \A q \in McProcs : Holding(mcOp[q]) /\ mcOp[q].kind = k => mcOp[q].got = mcCfg[k]
             /\ \/ mcCache[k] \in {McNil, mcCfg[k]}
                \/ \E q \in McProcs : Holding(mcOp[q]) /\ mcOp[q].kind = k
    <3>1. \A q \in McProcs : Holding(mcOp'[q]) => Holding(mcOp[q]) /\ mcOp'[q] = mcOp[q]
      BY Zenon, <1>1
    <3>2. \A q \in McProcs : Holding(mcOp[q]) => mcOp'[q] = mcOp[q]
      BY Zenon, <1>1
    <3>3. QED BY Zenon, <2>5, <3>1, <3>2 DEF Followed
  <2>6. QED BY Zenon, <2>2, <2>3, <2>4, <2>5 DEF Followed
<1>6. OptionsFollowed'
  <2>1. CASE p = "defs"
    BY Zenon, <2>1, <1>1 DEF McInv, OptionsFollowed
  <2>2. CASE p # "defs"
    <3>1. mcOp'["defs"] = mcOp["defs"]
      BY Zenon, <2>2, <1>1, McProcsFacts
    <3>2. QED BY Zenon, <3>1 DEF McInv, OptionsFollowed
  <2>3. QED BY Zenon, <2>1, <2>2
<1>7. QED BY Zenon, <1>2, <1>3, <1>4, <1>5, <1>6 DEF McInv

(* What a goroutine that has mgr.m does before it changes the copy. *)
LEMMA HoldingStep ==
    ASSUME McInv, NEW p \in McProcs, NEW pc, pc \in {"create", "fill", "purge", "keep"},
           Holding(mcOp[p]), Goes(p, [mcOp[p] EXCEPT !.pc = pc]),
           UNCHANGED <<mcCfg, mcSub, mcEvent, mcCache, mcLost, mcLock, mcSet, mcOptions>>
    PROVE  McInv'
<1> DEFINE op == [mcOp[p] EXCEPT !.pc = pc]
<1>1. /\ DOMAIN mcOp' = McProcs /\ mcOp'[p] = op
      /\ \A q \in McProcs : q # p => mcOp'[q] = mcOp[q]
  BY Zenon, GoesOn DEF McInv, McTypes
<1>2. OpOK(p, mcOp[p])
  BY Zenon DEF McInv, McTypes
<1>3. /\ DOMAIN op = McFields /\ op.pc = pc /\ op.kind = mcOp[p].kind /\ op.got = mcOp[p].got
      /\ op.since = mcOp[p].since /\ op.job = mcOp[p].job
  BY Zenon, <1>2 DEF OpOK, McFields
<1>4. OpOK(p, op) /\ Holding(op) /\ op.pc # "load" /\ op.pc # "options"
  BY Zenon, <1>2, <1>3 DEF OpOK, Holding, McPcs
<1>5. mcOp[p].pc # "load" /\ mcOp[p].pc # "options"
  BY Zenon DEF Holding
<1> HIDE DEF op
<1>6. \A q \in McProcs : /\ Holding(mcOp'[q]) <=> Holding(mcOp[q])
                         /\ mcOp'[q].kind = mcOp[q].kind /\ mcOp'[q].got = mcOp[q].got
                         /\ mcOp'[q].since = mcOp[q].since
                         /\ mcOp'[q].pc = "load" <=> mcOp[q].pc = "load"
                         /\ mcOp'[q].pc = "options" <=> mcOp[q].pc = "options"
  BY Zenon, <1>1, <1>3, <1>4, <1>5
<1>7. McTypes'
  <2>1. \A q \in McProcs : OpOK(q, mcOp'[q])
    BY Zenon, <1>1, <1>4 DEF McInv, McTypes
  <2>2. QED BY Zenon, <1>1, <2>1 DEF McInv, McTypes
<1>8. HoldersLock'
  BY Zenon, <1>6 DEF McInv, HoldersLock
<1>9. LoadsAreSince'
  BY Zenon, <1>6 DEF McInv, LoadsAreSince
<1>10. KindsFollowed'
  <2>1. SUFFICES ASSUME NEW k \in McKinds, k \in mcSub, k \notin mcLost PROVE Followed(k)'
    BY Zenon DEF KindsFollowed
  <2>2. Followed(k) /\ k \in McProcs
    BY Zenon, <2>1, McProcsFacts DEF McInv, KindsFollowed
  <2>3. QED BY Zenon, <2>2, <1>6 DEF Followed
<1>11. OptionsFollowed'
  BY Zenon, <1>6, McProcsFacts DEF McInv, OptionsFollowed
<1>12. QED BY Zenon, <1>7, <1>8, <1>9, <1>10, <1>11 DEF McInv
-----------------------------------------------------------------------------
(* The cases of Loaded. *)
LEMMA LoadedCases ==
    ASSUME NEW op
    PROVE  /\ op.job = "refresh" => Loaded(op) = McIdle
           /\ op.job = "force" => Loaded(op) = [op EXCEPT !.pc = "got"]
           /\ op.job = "query" /\ op.kind = "nodes" =>
                 Loaded(op) = [op EXCEPT !.pc = "plan", !.kind = "none", !.got = McNil, !.nodes = op.got.val]
           /\ op.job = "query" /\ op.kind = "plan" =>
                 Loaded(op) = [op EXCEPT !.pc = "classify", !.kind = "none", !.got = McNil, !.plan = op.got.val]
<1>1. ASSUME op.job = "refresh" PROVE Loaded(op) = McIdle
  BY Zenon, <1>1 DEF Loaded
<1>2. ASSUME op.job = "force" PROVE Loaded(op) = [op EXCEPT !.pc = "got"]
  BY Zenon, <1>2 DEF Loaded
<1>3. ASSUME op.job = "query", op.kind = "nodes"
      PROVE  Loaded(op) = [op EXCEPT !.pc = "plan", !.kind = "none", !.got = McNil, !.nodes = op.got.val]
  BY Zenon, <1>3 DEF Loaded
<1>4. ASSUME op.job = "query", op.kind = "plan"
      PROVE  Loaded(op) = [op EXCEPT !.pc = "classify", !.kind = "none", !.got = McNil, !.plan = op.got.val]
  BY Zenon, <1>4 DEF Loaded
<1>5. QED BY Zenon, <1>1, <1>2, <1>3, <1>4

(* What a goroutine does when it has loaded a kind: it goes without mgr.m. *)
LEMMA LoadedOK ==
    ASSUME NEW p, NEW op, DOMAIN op = McFields, op.since \in Nat, op.kind \in McKinds,
           p \in McKinds => op.job = "refresh", p \notin McKinds => op.job \in {"force", "query"},
           op.job = "query" => op.kind \in {"nodes", "plan"} /\ op.since = 0,
           op.job = "force" => op.got \in McRecord(op.kind) /\ op.got.ver >= op.since
    PROVE  /\ OpOK(p, Loaded(op)) /\ ~Holding(Loaded(op))
           /\ Loaded(op).pc \in {"idle", "got", "plan", "classify"}
<1>1. CASE op.job = "refresh"
  <2>1. Loaded(op) = McIdle
    BY Zenon, <1>1, LoadedCases
  <2>2. QED BY Zenon, <2>1, McIdleOK
<1>2. CASE op.job = "force"
  <2> DEFINE n == [op EXCEPT !.pc = "got"]
  <2>1. Loaded(op) = n
    BY Zenon, <1>2, LoadedCases
  <2>2. /\ DOMAIN n = McFields /\ n.pc = "got" /\ n.since = op.since /\ n.kind = op.kind
        /\ n.job = "force" /\ n.got = op.got
    BY Zenon, <1>2 DEF McFields
  <2>3. p \notin McKinds
    BY Zenon, <1>2
  <2> HIDE DEF n
  <2>4. OpOK(p, n) /\ ~Holding(n) /\ n.pc \in {"idle", "got", "plan", "classify"}
    BY Zenon, <1>2, <2>2, <2>3 DEF OpOK, Holding, McPcs
  <2>5. QED BY Zenon, <2>1, <2>4
<1>3. CASE op.job = "query" /\ op.kind = "nodes"
  <2> DEFINE n == [op EXCEPT !.pc = "plan", !.kind = "none", !.got = McNil, !.nodes = op.got.val]
  <2>1. Loaded(op) = n
    BY Zenon, <1>3, LoadedCases
  <2>2. DOMAIN n = McFields /\ n.pc = "plan" /\ n.since = op.since /\ n.job = "query"
    BY Zenon, <1>3 DEF McFields
  <2>3. p \notin McKinds
    BY Zenon, <1>3
  <2> HIDE DEF n
  <2>4. OpOK(p, n) /\ ~Holding(n) /\ n.pc \in {"idle", "got", "plan", "classify"}
    BY Zenon, <1>3, <2>2, <2>3 DEF OpOK, Holding, McPcs
  <2>5. QED BY <2>1, <2>4
<1>4. CASE op.job = "query" /\ op.kind = "plan"
  <2> DEFINE n == [op EXCEPT !.pc = "classify", !.kind = "none", !.got = McNil, !.plan = op.got.val]
  <2>1. Loaded(op) = n
    BY Zenon, <1>4, LoadedCases
  <2>2. DOMAIN n = McFields /\ n.pc = "classify" /\ n.since = op.since /\ n.job = "query"
    BY Zenon, <1>4 DEF McFields
  <2>3. p \notin McKinds
    BY Zenon, <1>4
  <2> HIDE DEF n
  <2>4. OpOK(p, n) /\ ~Holding(n) /\ n.pc \in {"idle", "got", "plan", "classify"}
    BY Zenon, <1>4, <2>2, <2>3 DEF OpOK, Holding, McPcs
  <2>5. QED BY <2>1, <2>4
<1>5. QED BY Zenon, <1>1, <1>2, <1>3, <1>4

(* To be overtaken changes nothing but that. *)
LEMMA OvertakeOK ==
    ASSUME McTypes, NEW q \in McProcs
    PROVE  /\ DOMAIN Overtake = McProcs /\ OpOK(q, Overtake[q])
           /\ Overtake[q].pc = mcOp[q].pc /\ Overtake[q].kind = mcOp[q].kind
           /\ Overtake[q].got = mcOp[q].got /\ Overtake[q].since = mcOp[q].since
           /\ Overtake[q].job = mcOp[q].job
           /\ Holding(Overtake[q]) <=> Holding(mcOp[q])
           /\ mcOp[q].job = "query" => Overtake[q].overtaken
<1>1. OpOK(q, mcOp[q])
  BY Zenon DEF McTypes
<1>2. CASE mcOp[q].job = "query"
  <2> DEFINE n == [mcOp[q] EXCEPT !.overtaken = TRUE]
  <2>1. Overtake[q] = n /\ DOMAIN Overtake = McProcs
    BY Zenon, <1>2 DEF Overtake
  <2>2. /\ DOMAIN n = McFields /\ n.pc = mcOp[q].pc /\ n.kind = mcOp[q].kind /\ n.got = mcOp[q].got
        /\ n.since = mcOp[q].since /\ n.job = mcOp[q].job /\ n.overtaken
    BY Zenon, <1>1 DEF OpOK, McFields
  <2> HIDE DEF n
  <2>3. OpOK(q, n) /\ (Holding(n) <=> Holding(mcOp[q]))
    BY Zenon, <1>1, <2>2 DEF OpOK, Holding
  <2>4. QED BY Zenon, <2>1, <2>2, <2>3
<1>3. CASE mcOp[q].job # "query"
  <2>1. Overtake[q] = mcOp[q] /\ DOMAIN Overtake = McProcs
    BY Zenon, <1>3 DEF Overtake
  <2>2. QED BY Zenon, <1>1, <1>3, <2>1
<1>4. QED BY Zenon, <1>2, <1>3

(* The Cfg is read with mgr.m held: what is read is current, and nobody    *)
(* else has read anything that is not in the copies yet.                   *)
LEMMA LoadInv == ASSUME McInv, NEW p \in McProcs, McLoad(p) PROVE McInv'
<1> DEFINE op == [mcOp[p] EXCEPT !.got = mcCfg[mcOp[p].kind],
                     !.pc = IF /\ mcOp[p].kind = "plan" /\ mcCache["plan"] # mcCfg[mcOp[p].kind]
                               /\ IsStablePlan(mcCfg[mcOp[p].kind].val)
                            THEN "create" ELSE "keep"]
           kind == mcOp[p].kind
<1>1. /\ mcOp[p].pc = "load" /\ mcLock = Nobody /\ mcLock' = p /\ Goes(p, op)
      /\ mcLost' = mcLost \ {kind}
      /\ mcCfg' = mcCfg /\ mcSub' = mcSub /\ mcEvent' = mcEvent /\ mcCache' = mcCache
      /\ mcSet' = mcSet /\ mcOptions' = mcOptions
  <2>1. /\ mcOp[p].pc = "load" /\ mcLock = Nobody /\ mcLock' = p /\ Goes(p, op)
        /\ mcLost' = mcLost \ {kind} /\ UNCHANGED <<mcCfg, mcSub, mcEvent, mcCache>> /\ UNCHANGED mcOpt
    BY Zenon DEF McLoad
  <2>2. QED BY Zenon, <2>1 DEF mcOpt
<1>2. OpOK(p, mcOp[p]) /\ mcOp[p].since <= mcCfg[kind].ver
  BY Zenon, <1>1 DEF McInv, McTypes, LoadsAreSince
<1>3. kind \in McKinds /\ mcCfg[kind] \in McRecord(kind)
  BY Zenon, <1>1, <1>2 DEF OpOK, McInv, McTypes
<1>4. /\ DOMAIN op = McFields /\ op.pc \in {"create", "keep"} /\ op.kind = kind /\ op.got = mcCfg[kind]
      /\ op.since = mcOp[p].since /\ op.job = mcOp[p].job
  BY Zenon, <1>2 DEF OpOK, McFields
<1>5. /\ DOMAIN mcOp' = McProcs /\ mcOp'[p] = op
      /\ \A q \in McProcs : q # p => mcOp'[q] = mcOp[q]
  <2>1. DOMAIN mcOp = McProcs /\ Goes(p, op)
    BY Zenon, <1>1 DEF McInv, McTypes
  <2> HIDE DEF op
  <2>2. QED BY Zenon, <2>1, GoesOn
<1> HIDE DEF op
<1>6. mcCfg[kind].ver \in Nat
  BY Zenon, <1>3 DEF McRecord
<1>7. OpOK(p, op) /\ Holding(op) /\ op.pc # "load" /\ op.pc # "options"
  <2>1. op.got.ver >= op.since
    BY Zenon, <1>2, <1>4, <1>6 DEF OpOK
  <2>2. Holding(op) /\ op.pc # "load" /\ op.pc # "options" /\ op.pc # "got" /\ op.pc \in McPcs
    BY Zenon, <1>4 DEF Holding, McPcs
  <2>3. QED BY Zenon, <2>1, <2>2, <1>1, <1>2, <1>3, <1>4 DEF OpOK
<1>8. \A q \in McProcs : ~Holding(mcOp[q])
  BY Zenon, <1>1, McProcsFacts DEF McInv, HoldersLock
<1> HIDE DEF kind
<1>9. McTypes'
  <2>1. \A q \in McProcs : OpOK(q, mcOp'[q])
    BY Zenon, <1>5, <1>7 DEF McInv, McTypes
  <2>2. QED BY Zenon, <1>1, <1>5, <2>1 DEF McInv, McTypes
<1>10. HoldersLock'
  BY Zenon, <1>1, <1>5, <1>8 DEF McInv, HoldersLock
<1>11. LoadsAreSince'
  BY Zenon, <1>1, <1>5, <1>7 DEF McInv, LoadsAreSince
<1>12. KindsFollowed'
  <2>1. SUFFICES ASSUME NEW k \in McKinds, k \in mcSub, k \notin mcLost' PROVE Followed(k)'
    BY Zenon, <1>1 DEF KindsFollowed
  <2>2. CASE k = kind
    BY Zenon, <2>2, <1>1, <1>4, <1>5, <1>7, <1>8 DEF Followed
  <2>3. CASE k # kind
    <3>1. Followed(k) /\ k \in McProcs
      BY Zenon, <2>1, <2>3, <1>1, McProcsFacts DEF McInv, KindsFollowed
    <3>2. k # p
      BY Zenon, <1>1, <1>2, <2>3 DEF OpOK, kind
    <3>3. mcOp'[k] = mcOp[k]
      BY Zenon, <3>1, <3>2, <1>5
    <3>4. \A q \in McProcs : ~(Holding(mcOp'[q]) /\ mcOp'[q].kind = k)
      BY Zenon, <2>3, <1>4, <1>5, <1>8
    <3>5. QED BY Zenon, <3>1, <3>3, <3>4, <1>1, <1>8 DEF Followed
  <2>4. QED BY Zenon, <2>2, <2>3
<1>13. OptionsFollowed'
  <2>1. p = "defs" => mcOp'["defs"].pc # "options" /\ mcOp["defs"].pc # "options"
    BY Zenon, <1>1, <1>5, <1>7
  <2>2. p # "defs" => mcOp'["defs"] = mcOp["defs"]
    BY Zenon, <1>5, McProcsFacts
  <2>3. kind # "options"
    BY Zenon, <1>3 DEF McKinds
  <2>4. "options" \in mcLost' <=> "options" \in mcLost
    BY <2>3, <1>1
  <2>5. QED BY Zenon, <2>1, <2>2, <2>4, <1>1 DEF McInv, OptionsFollowed
<1>14. QED BY Zenon, <1>9, <1>10, <1>11, <1>12, <1>13 DEF McInv

(* The copy is replaced by what was read, and mgr.m released. *)
LEMMA KeepInv == ASSUME McInv, NEW p \in McProcs, McKeep(p) PROVE McInv'
<1> DEFINE op == mcOp[p]
           k0 == op.kind
<1>1. /\ op.pc = "keep" /\ mcCache' = [mcCache EXCEPT ![k0] = op.got]
      /\ mcOp' = [Overtake EXCEPT ![p] = Loaded(op)] /\ mcLock' = Nobody
      /\ mcCfg' = mcCfg /\ mcSub' = mcSub /\ mcEvent' = mcEvent /\ mcLost' = mcLost
      /\ mcSet' = mcSet /\ mcOptions' = mcOptions
  <2>1. /\ op.pc = "keep" /\ mcCache' = [mcCache EXCEPT ![k0] = op.got]
        /\ mcOp' = [Overtake EXCEPT ![p] = Loaded(op)] /\ mcLock' = Nobody
        /\ UNCHANGED <<mcCfg, mcSub, mcEvent, mcLost>> /\ UNCHANGED mcOpt
    BY Zenon DEF McKeep
  <2>2. QED BY Zenon, <2>1 DEF mcOpt
<1>2. OpOK(p, op) /\ Holding(op)
  BY Zenon, <1>1 DEF McInv, McTypes, Holding
<1>3. k0 \in McKinds /\ op.got \in McRecord(k0) /\ (p \in McKinds => k0 = p)
  BY Zenon, <1>2 DEF OpOK
<1>4. /\ OpOK(p, Loaded(op)) /\ ~Holding(Loaded(op))
      /\ Loaded(op).pc \in {"idle", "got", "plan", "classify"}
  <2>1. /\ DOMAIN op = McFields /\ op.since \in Nat /\ op.kind \in McKinds
        /\ p \in McKinds => op.job = "refresh"
        /\ p \notin McKinds => op.job \in {"force", "query"}
        /\ op.job = "query" => op.kind \in {"nodes", "plan"} /\ op.since = 0
        /\ op.job = "force" => op.got \in McRecord(op.kind) /\ op.got.ver >= op.since
    BY Zenon, <1>2 DEF OpOK
  <2> HIDE DEF op
  <2>2. QED BY Zenon, <2>1, LoadedOK
<1>5. /\ DOMAIN mcOp' = McProcs /\ mcOp'[p] = Loaded(op)
      /\ \A q \in McProcs : q # p => mcOp'[q] = Overtake[q]
  <2>1. DOMAIN Overtake = McProcs
    BY Zenon DEF Overtake
  <2> HIDE DEF op
  <2>2. QED BY Zenon, <1>1, <2>1
<1>6. \A q \in McProcs : /\ OpOK(q, Overtake[q])
                         /\ Overtake[q].pc = mcOp[q].pc /\ Overtake[q].kind = mcOp[q].kind
                         /\ Overtake[q].got = mcOp[q].got /\ Overtake[q].since = mcOp[q].since
                         /\ Holding(Overtake[q]) <=> Holding(mcOp[q])
  <2>1. McTypes
    BY Zenon DEF McInv
  <2>2. QED BY Zenon, <2>1, OvertakeOK
<1>7. \A q \in McProcs : q # p => ~Holding(mcOp[q])
  BY Zenon, <1>2 DEF McInv, HoldersLock
<1>8. \A q \in McProcs : ~Holding(mcOp'[q])
  <2>1. ASSUME NEW q \in McProcs, q # p PROVE ~Holding(mcOp'[q])
    <3>1. mcOp'[q] = Overtake[q] /\ ~Holding(mcOp[q])
      BY Zenon, <2>1, <1>5, <1>7
    <3>2. QED BY Zenon, <3>1, <1>6
  <2>2. ~Holding(mcOp'[p])
    BY Zenon, <1>4, <1>5
  <2>3. QED BY Zenon, <2>1, <2>2
<1>9. Loaded(op).pc # "load" /\ Loaded(op).pc # "options" /\ op.pc # "load" /\ op.pc # "options"
  BY Zenon, <1>1, <1>4
<1>10. mcCache'[k0] = op.got /\ DOMAIN mcCache' = McKinds /\ \A k \in McKinds : k # k0 => mcCache'[k] = mcCache[k]
  BY Zenon, <1>1, <1>3 DEF McInv, McTypes
<1> HIDE DEF op, k0
<1>11. McTypes'
  <2>1. \A q \in McProcs : OpOK(q, mcOp'[q])
    BY Zenon, <1>4, <1>5, <1>6 DEF McInv, McTypes
  <2>2. \A k \in McKinds : mcCache'[k] \in McRecord(k) \cup {McNil}
    BY Zenon, <1>3, <1>10 DEF McInv, McTypes
  <2>3. QED BY Zenon, <1>1, <1>5, <1>10, <2>1, <2>2 DEF McInv, McTypes
<1>12. HoldersLock'
  BY Zenon, <1>8 DEF HoldersLock
<1>13. LoadsAreSince'
  <2>1. SUFFICES ASSUME NEW q \in McProcs, mcOp'[q].pc = "load"
                 PROVE  mcOp'[q].since <= mcCfg[mcOp'[q].kind].ver
    BY Zenon, <1>1 DEF LoadsAreSince
  <2>2. q # p
    BY Zenon, <2>1, <1>5, <1>9
  <2>3. mcOp[q].pc = "load" /\ mcOp'[q].since = mcOp[q].since /\ mcOp'[q].kind = mcOp[q].kind
    BY Zenon, <2>1, <2>2, <1>5, <1>6
  <2>4. mcOp[q].since <= mcCfg[mcOp[q].kind].ver
    BY Zenon, <2>3 DEF McInv, LoadsAreSince
  <2>5. QED BY Zenon, <2>3, <2>4
<1>14. KindsFollowed'
  <2>1. SUFFICES ASSUME NEW k \in McKinds, k \in mcSub, k \notin mcLost PROVE Followed(k)'
    BY Zenon, <1>1 DEF KindsFollowed
  <2>2. Followed(k) /\ k \in McProcs
    BY Zenon, <2>1, McProcsFacts DEF McInv, KindsFollowed
  <2>3. CASE k \in mcEvent
    BY Zenon, <2>3, <1>1 DEF Followed
  <2>4. CASE mcOp[k].pc = "load"
    <3>1. k # p
      BY Zenon, <2>4, <1>9 DEF op
    <3>2. mcOp'[k].pc = "load"
      BY Zenon, <3>1, <2>2, <2>4, <1>5, <1>6
    <3>3. QED BY Zenon, <3>2 DEF Followed
  <2>5. CASE /\ \A q \in McProcs : Holding(mcOp[q]) /\ mcOp[q].kind = k => mcOp[q].got = mcCfg[k]
             /\ \/ mcCache[k] \in {McNil, mcCfg[k]}
                \/ \E q \in McProcs : Holding(mcOp[q]) /\ mcOp[q].kind = k
    <3>1. CASE k = k0
      <4>1. mcCache'[k] = mcCfg'[k]
        BY Zenon, <3>1, <2>5, <1>1, <1>2, <1>10 DEF op, k0
      <4>2. QED BY Zenon, <4>1, <1>8 DEF Followed
    <3>2. CASE k # k0
      <4>1. mcCache'[k] \in {McNil, mcCfg'[k]}
        BY Zenon, <3>2, <2>5, <1>1, <1>7, <1>10 DEF op, k0
      <4>2. QED BY Zenon, <4>1, <1>8 DEF Followed
    <3>3. QED BY <3>1, <3>2
  <2>6. QED BY Zenon, <2>2, <2>3, <2>4, <2>5 DEF Followed
<1>15. OptionsFollowed'
  <2>1. p = "defs" => mcOp'["defs"].pc # "options" /\ mcOp["defs"].pc # "options"
    BY Zenon, <1>9, <1>5 DEF op
  <2>2. p # "defs" => mcOp'["defs"].pc = mcOp["defs"].pc /\ mcOp'["defs"].since = mcOp["defs"].since
    BY Zenon, <1>5, <1>6, McProcsFacts
  <2>3. QED BY Zenon, <2>1, <2>2, <1>1 DEF McInv, OptionsFollowed
<1>16. QED BY <1>11, <1>12, <1>13, <1>14, <1>15 DEF McInv

(* Another process changes the Cfg: whoever subscribed is told. *)
LEMMA ChangeInv == ASSUME McInv, NEW k0 \in McKinds, McChange(k0) PROVE McInv'
<1>1. PICK v \in McValues[k0] : mcCfg' = [mcCfg EXCEPT ![k0] = [ver |-> @.ver + 1, val |-> v]]
  BY Zenon DEF McChange
<1>2. /\ mcEvent' = mcEvent \cup ({k0} \cap mcSub)
      /\ mcSub' = mcSub /\ mcCache' = mcCache /\ mcLost' = mcLost /\ mcLock' = mcLock /\ mcOp' = mcOp
      /\ mcSet' = mcSet /\ mcOptions' = mcOptions
  <2>1. /\ mcEvent' = mcEvent \cup ({k0} \cap mcSub)
        /\ UNCHANGED <<mcSub, mcCache, mcLost, mcLock, mcOp>> /\ UNCHANGED mcOpt
    BY Zenon DEF McChange
  <2>2. QED BY Zenon, <2>1 DEF mcOpt
<1>3. /\ DOMAIN mcCfg' = McKinds /\ mcCfg'[k0] = [ver |-> mcCfg[k0].ver + 1, val |-> v]
      /\ \A k \in McKinds : k # k0 => mcCfg'[k] = mcCfg[k]
  BY Zenon, <1>1 DEF McInv, McTypes
<1>4. mcCfg[k0] \in McRecord(k0)
  BY Zenon DEF McInv, McTypes
<1>5. mcCfg'[k0] \in McRecord(k0) /\ mcCfg[k0].ver \in Nat /\ mcCfg'[k0].ver = mcCfg[k0].ver + 1
  BY <1>1, <1>3, <1>4 DEF McRecord
<1>6. McTypes'
  <2>1. \A k \in McKinds : mcCfg'[k] \in McRecord(k)
    BY Zenon, <1>3, <1>5 DEF McInv, McTypes
  <2>2. mcEvent' \subseteq mcSub'
    BY Zenon, <1>2 DEF McInv, McTypes
  <2>3. QED BY Zenon, <1>2, <1>3, <2>1, <2>2 DEF McInv, McTypes
<1>7. HoldersLock'
  BY Zenon, <1>2 DEF McInv, HoldersLock
<1>8. LoadsAreSince'
  <2>1. SUFFICES ASSUME NEW q \in McProcs, mcOp[q].pc = "load"
                 PROVE  mcOp[q].since <= mcCfg'[mcOp[q].kind].ver
    BY Zenon, <1>2 DEF LoadsAreSince
  <2>2. mcOp[q].since <= mcCfg[mcOp[q].kind].ver /\ OpOK(q, mcOp[q])
    BY Zenon, <2>1 DEF McInv, McTypes, LoadsAreSince
  <2>3. mcOp[q].kind \in McKinds /\ mcOp[q].since \in Nat
    BY Zenon, <2>1, <2>2 DEF OpOK
  <2>4. CASE mcOp[q].kind = k0
    BY <2>2, <2>3, <2>4, <1>5
  <2>5. CASE mcOp[q].kind # k0
    BY Zenon, <2>2, <2>3, <2>5, <1>3
  <2>6. QED BY Zenon, <2>4, <2>5
<1>9. KindsFollowed'
  <2>1. SUFFICES ASSUME NEW k \in McKinds, k \in mcSub, k \notin mcLost PROVE Followed(k)'
    BY Zenon, <1>2 DEF KindsFollowed
  <2>2. CASE k = k0
    BY Zenon, <2>1, <2>2, <1>2 DEF Followed
  <2>3. CASE k # k0
    <3>1. Followed(k) /\ mcCfg'[k] = mcCfg[k]
      BY Zenon, <2>1, <2>3, <1>3 DEF McInv, KindsFollowed
    <3>2. mcEvent \subseteq mcEvent'
      BY Zenon, <1>2
    <3>3. QED BY Zenon, <3>1, <3>2, <1>2 DEF Followed
  <2>4. QED BY Zenon, <2>2, <2>3
<1>10. OptionsFollowed'
  <2>1. mcEvent \subseteq mcEvent'
    BY <1>2
  <2>2. QED BY Zenon, <2>1, <1>2 DEF McInv, OptionsFollowed
<1>11. QED BY Zenon, <1>6, <1>7, <1>8, <1>9, <1>10 DEF McInv

(* An observer subscribes: what the manager has is current, or the kind is *)
(* counted among the lost.                                                 *)
LEMMA SubscribeInv == ASSUME McInv, NEW k0 \in McKinds \cup {"options"}, McSubscribe(k0) PROVE McInv'
<1>1. /\ k0 \notin mcSub /\ mcSub' = mcSub \cup {k0}
      /\ mcLost' = IF Outdated(k0) THEN mcLost \cup {k0} ELSE mcLost
      /\ mcCfg' = mcCfg /\ mcEvent' = mcEvent /\ mcCache' = mcCache /\ mcLock' = mcLock /\ mcOp' = mcOp
      /\ mcSet' = mcSet /\ mcOptions' = mcOptions
  <2>1. /\ k0 \notin mcSub /\ mcSub' = mcSub \cup {k0}
        /\ mcLost' = IF Outdated(k0) THEN mcLost \cup {k0} ELSE mcLost
        /\ UNCHANGED <<mcCfg, mcEvent, mcCache, mcLock, mcOp>> /\ UNCHANGED mcOpt
    BY Zenon DEF McSubscribe
  <2>2. QED BY Zenon, <2>1 DEF mcOpt
<1>2. /\ mcLost \subseteq mcLost' /\ mcLost' \subseteq mcLost \cup {k0}
      /\ mcSub \subseteq mcSub' /\ (k0 \notin mcLost' => ~Outdated(k0))
  <2> HIDE DEF Outdated
  <2>1. QED BY Zenon, <1>1
<1>3. McTypes'
  <2>1. mcEvent' \subseteq mcSub'
    BY Zenon, <1>1 DEF McInv, McTypes
  <2>2. QED BY Zenon, <1>1, <2>1 DEF McInv, McTypes
<1>4. HoldersLock'
  BY Zenon, <1>1 DEF McInv, HoldersLock
<1>5. LoadsAreSince'
  BY Zenon, <1>1 DEF McInv, LoadsAreSince
<1>6. KindsFollowed'
  <2>1. SUFFICES ASSUME NEW k \in McKinds, k \in mcSub', k \notin mcLost' PROVE Followed(k)
    BY Zenon, <1>1 DEF KindsFollowed, Followed
  <2>2. CASE k = k0
    <3>1. ~Outdated(k) /\ k # "options"
      BY Zenon, <2>1, <2>2, <1>2 DEF McKinds
    <3>2. /\ mcCache[k] \in {McNil, mcCfg[k]}
          /\ \A q \in McProcs : mcOp[q].kind = k => mcOp[q].got \in {McNil, mcCfg[k]}
      BY Zenon, <3>1 DEF Outdated
    <3>3. \A q \in McProcs : Holding(mcOp[q]) => mcOp[q].got # McNil
      <4>1. SUFFICES ASSUME NEW q \in McProcs, Holding(mcOp[q]) PROVE mcOp[q].got # McNil
        BY Zenon
      <4>2. OpOK(q, mcOp[q])
        BY Zenon DEF McInv, McTypes
      <4>3. mcOp[q].kind \in McKinds /\ mcOp[q].got \in McRecord(mcOp[q].kind)
        BY Zenon, <4>1, <4>2 DEF OpOK
      <4>4. QED BY Zenon, <4>3, McNames
    <3>4. \A q \in McProcs : Holding(mcOp[q]) /\ mcOp[q].kind = k => mcOp[q].got = mcCfg[k]
      BY Zenon, <3>2, <3>3
    <3>5. QED BY Zenon, <3>2, <3>4 DEF Followed
  <2>3. CASE k # k0
    <3>1. k \in mcSub /\ k \notin mcLost
      BY Zenon, <2>1, <2>3, <1>1, <1>2
    <3>2. QED BY Zenon, <3>1 DEF McInv, KindsFollowed
  <2>4. QED BY Zenon, <2>2, <2>3
<1>7. OptionsFollowed'
  <2>1. CASE k0 = "options"
    <3>1. k0 \notin mcLost' => mcOptions = mcSet
      BY Zenon, <2>1, <1>2 DEF Outdated
    <3>2. mcOp["defs"].pc # "options"
      BY Zenon, <2>1, <1>1 DEF McInv, OptionsFollowed
    <3>3. QED BY Zenon, <2>1, <3>1, <3>2, <1>1 DEF OptionsFollowed
  <2>2. CASE k0 # "options"
    <3>1. ("options" \in mcSub' <=> "options" \in mcSub) /\ ("options" \in mcLost' <=> "options" \in mcLost)
      BY <2>2, <1>1, <1>2
    <3>2. QED BY Zenon, <3>1, <1>1 DEF McInv, OptionsFollowed
  <2>3. QED BY <2>1, <2>2
<1>8. QED BY Zenon, <1>3, <1>4, <1>5, <1>6, <1>7 DEF McInv

(* The observer has an event and will read its kind. *)
LEMMA ObserveInv == ASSUME McInv, NEW k0 \in McKinds, McObserve(k0) PROVE McInv'
<1> DEFINE op == [McIdle EXCEPT !.pc = "load", !.job = "refresh", !.kind = k0]
<1>1. /\ mcOp[k0] = McIdle /\ mcEvent' = mcEvent \ {k0} /\ Goes(k0, op)
      /\ mcCfg' = mcCfg /\ mcSub' = mcSub /\ mcCache' = mcCache /\ mcLost' = mcLost /\ mcLock' = mcLock
      /\ mcSet' = mcSet /\ mcOptions' = mcOptions
  <2>1. /\ mcOp[k0] = McIdle /\ mcEvent' = mcEvent \ {k0} /\ Goes(k0, op)
        /\ UNCHANGED <<mcCfg, mcSub, mcCache, mcLost, mcLock>> /\ UNCHANGED mcOpt
    BY Zenon DEF McObserve
  <2>2. QED BY Zenon, <2>1 DEF mcOpt
<1>2. /\ DOMAIN op = McFields /\ op.pc = "load" /\ op.kind = k0 /\ op.job = "refresh" /\ op.since = 0
  BY Zenon DEF McIdle, McFields
<1> HIDE DEF op
<1>3. OpOK(k0, op) /\ ~Holding(op) /\ ~Holding(mcOp[k0])
  BY <1>1, <1>2, McIdleOK DEF OpOK, Holding, McPcs
<1>4. /\ DOMAIN mcOp' = McProcs /\ mcOp'[k0] = op
      /\ \A q \in McProcs : q # k0 => mcOp'[q] = mcOp[q]
  BY Zenon, GoesOn, <1>1, McProcsFacts DEF McInv, McTypes
<1>5. McTypes'
  <2>1. \A q \in McProcs : OpOK(q, mcOp'[q])
    BY Zenon, <1>3, <1>4 DEF McInv, McTypes
  <2>2. mcEvent' \subseteq mcSub'
    BY Zenon, <1>1 DEF McInv, McTypes
  <2>3. QED BY Zenon, <1>1, <1>4, <2>1, <2>2 DEF McInv, McTypes
<1>6. HoldersLock'
  BY Zenon, <1>1, <1>3, <1>4 DEF McInv, HoldersLock
<1>7. LoadsAreSince'
  <2>1. mcCfg[k0] \in McRecord(k0)
    BY Zenon DEF McInv, McTypes
  <2>2. op.since <= mcCfg[op.kind].ver
    BY <2>1, <1>2 DEF McRecord
  <2>3. QED BY Zenon, <1>1, <1>4, <2>2 DEF McInv, LoadsAreSince
<1>8. KindsFollowed'
  <2>1. SUFFICES ASSUME NEW k \in McKinds, k \in mcSub, k \notin mcLost PROVE Followed(k)'
    BY Zenon, <1>1 DEF KindsFollowed
  <2>2. CASE k = k0
    BY Zenon, <2>2, <1>2, <1>4 DEF Followed
  <2>3. CASE k # k0
    <3>1. Followed(k) /\ k \in McProcs
      BY Zenon, <2>1, McProcsFacts DEF McInv, KindsFollowed
    <3>2. \A q \in McProcs : /\ Holding(mcOp'[q]) <=> Holding(mcOp[q])
                             /\ Holding(mcOp[q]) => mcOp'[q] = mcOp[q]
      BY Zenon, <1>3, <1>4
    <3>3. mcOp'[k] = mcOp[k] /\ (k \in mcEvent => k \in mcEvent')
      BY Zenon, <2>3, <3>1, <1>1, <1>4
    <3>4. QED BY Zenon, <3>1, <3>2, <3>3, <1>1 DEF Followed
  <2>4. QED BY Zenon, <2>2, <2>3
<1>9. OptionsFollowed'
  <2>1. "options" \in mcEvent => "options" \in mcEvent'
    BY Zenon, <1>1 DEF McKinds
  <2>2. k0 = "defs" => mcOp'["defs"].pc # "options" /\ mcOp["defs"].pc # "options"
    BY Zenon, <1>1, <1>2, <1>4, McIdleOK
  <2>3. k0 # "defs" => mcOp'["defs"] = mcOp["defs"]
    BY Zenon, <1>4, McProcsFacts
  <2>4. QED BY Zenon, <2>1, <2>2, <2>3, <1>1 DEF McInv, OptionsFollowed
<1>10. QED BY <1>5, <1>6, <1>7, <1>8, <1>9 DEF McInv

(* A pindex is registered or unregistered. *)
LEMMA RegisterInv == ASSUME McInv, McRegister PROVE McInv'
<1>1. /\ mcOp' = Overtake /\ mcLock' = mcLock
      /\ mcCfg' = mcCfg /\ mcSub' = mcSub /\ mcEvent' = mcEvent /\ mcCache' = mcCache /\ mcLost' = mcLost
      /\ mcSet' = mcSet /\ mcOptions' = mcOptions
  <2>1. mcOp' = Overtake /\ mcLock' = mcLock /\ UNCHANGED mcView /\ UNCHANGED mcOpt
    BY Zenon DEF McRegister
  <2>2. QED BY Zenon, <2>1 DEF mcOpt, mcView
<1>2. DOMAIN mcOp' = McProcs
  BY Zenon, <1>1 DEF Overtake
<1>3. \A q \in McProcs : /\ OpOK(q, mcOp'[q])
                         /\ mcOp'[q].pc = mcOp[q].pc /\ mcOp'[q].kind = mcOp[q].kind
                         /\ mcOp'[q].got = mcOp[q].got /\ mcOp'[q].since = mcOp[q].since
                         /\ Holding(mcOp'[q]) <=> Holding(mcOp[q])
  <2>1. McTypes
    BY Zenon DEF McInv
  <2>2. QED BY Zenon, <2>1, <1>1, OvertakeOK
<1>4. McTypes'
  BY Zenon, <1>1, <1>2, <1>3 DEF McInv, McTypes
<1>5. HoldersLock'
  BY Zenon, <1>1, <1>3 DEF McInv, HoldersLock
<1>6. LoadsAreSince'
  BY Zenon, <1>1, <1>3 DEF McInv, LoadsAreSince
<1>7. KindsFollowed'
  <2>1. SUFFICES ASSUME NEW k \in McKinds, k \in mcSub, k \notin mcLost PROVE Followed(k)'
    BY Zenon, <1>1 DEF KindsFollowed
  <2>2. Followed(k) /\ k \in McProcs
    BY Zenon, <2>1, McProcsFacts DEF McInv, KindsFollowed
  <2>3. QED BY Zenon, <2>2, <1>1, <1>3 DEF Followed
<1>8. OptionsFollowed'
  BY Zenon, <1>1, <1>3, McProcsFacts DEF McInv, OptionsFollowed
<1>9. QED BY Zenon, <1>4, <1>5, <1>6, <1>7, <1>8 DEF McInv

(* The options are set, here or elsewhere, or are not. *)
LEMMA SetOptionsInv ==
    ASSUME McInv, McSetOptions(TRUE) \/ McSetOptions(FALSE) \/ McSetOptionFails
    PROVE  McInv'
<1>1. /\ mcCfg' = mcCfg /\ mcSub' = mcSub /\ mcCache' = mcCache /\ mcLost' = mcLost
      /\ mcLock' = mcLock /\ mcOp' = mcOp
      /\ \/ mcSet' = mcSet + 1 /\ mcEvent' = mcEvent \cup ({"options"} \cap mcSub)
         \/ mcSet' = mcSet /\ mcEvent' = mcEvent /\ mcOptions' = Own
  <2>1. CASE McSetOptions(TRUE) \/ McSetOptions(FALSE)
    BY Zenon, <2>1 DEF McSetOptions
  <2>2. CASE McSetOptionFails
    <3>1. UNCHANGED mcView /\ mcLock' = mcLock /\ mcOp' = mcOp /\ mcSet' = mcSet /\ mcOptions' = Own
      BY Zenon, <2>2 DEF McSetOptionFails
    <3>2. QED BY Zenon, <3>1 DEF mcView
  <2>3. QED BY Zenon, <2>1, <2>2
<1>2. mcEvent \subseteq mcEvent' /\ mcEvent' \subseteq mcSub /\ mcSet' \in Nat
  BY <1>1 DEF McInv, McTypes
<1>3. McTypes'
  BY Zenon, <1>1, <1>2 DEF McInv, McTypes
<1>4. HoldersLock' /\ LoadsAreSince'
  BY Zenon, <1>1 DEF McInv, HoldersLock, LoadsAreSince
<1>5. KindsFollowed'
  BY Zenon, <1>1, <1>2 DEF McInv, KindsFollowed, Followed
<1>6. OptionsFollowed'
  <2>1. CASE mcSet' = mcSet + 1 /\ mcEvent' = mcEvent \cup ({"options"} \cap mcSub)
    <3>1. "options" \in mcSub => "options" \in mcEvent'
      BY Zenon, <2>1
    <3>2. QED BY Zenon, <3>1, <1>1 DEF McInv, OptionsFollowed
  <2>2. CASE mcSet' = mcSet /\ mcEvent' = mcEvent /\ mcOptions' = Own
    <3>1. mcOptions' \in {Own, mcSet'}
      BY Zenon, <2>2
    <3>2. QED BY Zenon, <2>2, <3>1, <1>1 DEF McInv, OptionsFollowed
  <2>3. QED BY Zenon, <1>1, <2>1, <2>2
<1>7. QED BY Zenon, <1>3, <1>4, <1>5, <1>6 DEF McInv

(* The observer of the definitions reads the options, and takes them over. *)
LEMMA OptionsInv == ASSUME McInv, McReadOptions \/ RefreshOptions PROVE McInv'
<1>1. mcCfg' = mcCfg /\ mcSub' = mcSub /\ mcCache' = mcCache /\ mcLock' = mcLock /\ mcSet' = mcSet
  <2>1. CASE McReadOptions
    <3>1. mcCfg' = mcCfg /\ mcSub' = mcSub /\ mcCache' = mcCache /\ mcLock' = mcLock /\ UNCHANGED mcOpt
      BY Zenon, <2>1 DEF McReadOptions
    <3>2. QED BY Zenon, <3>1 DEF mcOpt
  <2>2. CASE RefreshOptions
    <3>1. UNCHANGED mcView /\ mcLock' = mcLock /\ mcSet' = mcSet
      BY Zenon, <2>2 DEF RefreshOptions
    <3>2. QED BY Zenon, <3>1 DEF mcView
  <2>3. QED BY Zenon, <2>1, <2>2
<1>2. \E op : /\ OpOK("defs", op) /\ ~Holding(op) /\ op.pc # "load"
              /\ ~Holding(mcOp["defs"]) /\ mcOp["defs"].pc # "load"
              /\ Goes("defs", op)
              /\ mcEvent \ {"options"} \subseteq mcEvent' /\ mcEvent' \subseteq mcEvent
              /\ mcLost' \cup {"options"} = mcLost \cup {"options"}
              /\ \/ op.pc = "options" /\ op.since = mcSet /\ "options" \in mcEvent
                 \/ /\ op.pc = "idle" /\ mcOp["defs"].pc = "options"
                    /\ mcOptions' = mcOp["defs"].since /\ mcEvent' = mcEvent /\ mcLost' = mcLost
  <2>1. CASE McReadOptions
    <3>1. PICK op : op = [McIdle EXCEPT !.pc = "options", !.since = mcSet]
      BY Zenon
    <3>2. /\ "options" \in mcEvent /\ mcOp["defs"] = McIdle /\ Goes("defs", op)
          /\ mcEvent' = mcEvent \ {"options"} /\ mcLost' = mcLost \ {"options"}
      BY Zenon, <2>1, <3>1 DEF McReadOptions
    <3>3. DOMAIN op = McFields /\ op.pc = "options" /\ op.since = mcSet
      BY Zenon, <3>1 DEF McIdle, McFields
    <3>4. OpOK("defs", op) /\ ~Holding(op) /\ op.pc # "load"
      BY Zenon, <3>3 DEF OpOK, Holding, McPcs, McInv, McTypes
    <3>5. ~Holding(mcOp["defs"]) /\ mcOp["defs"].pc # "load"
      BY Zenon, <3>2, McIdleOK
    <3>6. /\ mcEvent \ {"options"} \subseteq mcEvent' /\ mcEvent' \subseteq mcEvent
          /\ mcLost' \cup {"options"} = mcLost \cup {"options"}
      BY Zenon, <3>2
    <3>7. QED BY Zenon, <3>2, <3>3, <3>4, <3>5, <3>6
  <2>2. CASE RefreshOptions
    <3>1. /\ mcOp["defs"].pc = "options" /\ mcOptions' = mcOp["defs"].since /\ Goes("defs", McIdle)
          /\ UNCHANGED mcView
      BY Zenon, <2>2 DEF RefreshOptions
    <3>2. mcEvent' = mcEvent /\ mcLost' = mcLost
      BY Zenon, <3>1 DEF mcView
    <3>3. ~Holding(mcOp["defs"]) /\ mcOp["defs"].pc # "load"
      BY Zenon, <3>1 DEF Holding
    <3>4. /\ mcEvent \ {"options"} \subseteq mcEvent' /\ mcEvent' \subseteq mcEvent
          /\ mcLost' \cup {"options"} = mcLost \cup {"options"} /\ McIdle.pc # "load"
      BY Zenon, <3>2, McIdleOK
    <3>5. QED BY Zenon, <3>1, <3>2, <3>3, <3>4, McIdleOK
  <2>3. QED BY Zenon, <2>1, <2>2
<1>3. PICK op : /\ OpOK("defs", op) /\ ~Holding(op) /\ op.pc # "load"
              /\ ~Holding(mcOp["defs"]) /\ mcOp["defs"].pc # "load"
              /\ Goes("defs", op)
              /\ mcEvent \ {"options"} \subseteq mcEvent' /\ mcEvent' \subseteq mcEvent
              /\ mcLost' \cup {"options"} = mcLost \cup {"options"}
              /\ \/ op.pc = "options" /\ op.since = mcSet /\ "options" \in mcEvent
                 \/ /\ op.pc = "idle" /\ mcOp["defs"].pc = "options"
                    /\ mcOptions' = mcOp["defs"].since /\ mcEvent' = mcEvent /\ mcLost' = mcLost
  BY Zenon, <1>2
<1>4. /\ DOMAIN mcOp' = McProcs /\ mcOp'["defs"] = op
      /\ \A q \in McProcs : q # "defs" => mcOp'[q] = mcOp[q]
  <2>1. DOMAIN mcOp = McProcs /\ "defs" \in McProcs /\ Goes("defs", op)
    BY Zenon, <1>3, McProcsFacts DEF McInv, McTypes
  <2>2. QED BY Zenon, <2>1, GoesOn
<1>5. \A q \in McProcs : /\ Holding(mcOp'[q]) <=> Holding(mcOp[q])
                         /\ mcOp'[q].pc = "load" <=> mcOp[q].pc = "load"
                         /\ Holding(mcOp[q]) \/ mcOp[q].pc = "load" => mcOp'[q] = mcOp[q]
  BY Zenon, <1>3, <1>4
<1>6. McTypes'
  <2>1. \A q \in McProcs : OpOK(q, mcOp'[q])
    BY Zenon, <1>3, <1>4 DEF McInv, McTypes
  <2>2. mcEvent' \subseteq mcSub'
    BY Zenon, <1>1, <1>3 DEF McInv, McTypes
  <2>3. QED BY Zenon, <1>1, <1>4, <2>1, <2>2 DEF McInv, McTypes
<1>7. HoldersLock' /\ LoadsAreSince'
  BY Zenon, <1>1, <1>5 DEF McInv, HoldersLock, LoadsAreSince
<1>8. KindsFollowed'
  <2>1. SUFFICES ASSUME NEW k \in McKinds, k \in mcSub, k \notin mcLost' PROVE Followed(k)'
    BY Zenon, <1>1 DEF KindsFollowed
  <2>2. k # "options" /\ k \in McProcs
    BY Zenon, McProcsFacts DEF McKinds
  <2>3. k \notin mcLost /\ (k \in mcEvent => k \in mcEvent')
    BY Zenon, <2>1, <2>2, <1>3
  <2>4. Followed(k)
    BY Zenon, <2>1, <2>3 DEF McInv, KindsFollowed
  <2>5. QED BY Zenon, <2>2, <2>3, <2>4, <1>1, <1>5 DEF Followed
<1>9. OptionsFollowed'
  <2>1. CASE op.pc = "options" /\ op.since = mcSet /\ "options" \in mcEvent
    <3>1. "options" \in mcSub
      BY Zenon, <2>1 DEF McInv, McTypes
    <3>2. QED BY Zenon, <2>1, <3>1, <1>1, <1>4 DEF OptionsFollowed
  <2>2. CASE /\ op.pc = "idle" /\ mcOp["defs"].pc = "options"
             /\ mcOptions' = mcOp["defs"].since /\ mcEvent' = mcEvent /\ mcLost' = mcLost
    <3>1. "options" \in mcEvent \/ mcOptions' = mcSet
      BY Zenon, <2>2 DEF McInv, OptionsFollowed
    <3>2. mcOp'["defs"].pc # "options"
      BY <2>2, <1>4
    <3>3. QED BY Zenon, <2>2, <3>1, <3>2, <1>1 DEF OptionsFollowed
  <2>3. QED BY Zenon, <1>3, <2>1, <2>2
<1>10. QED BY Zenon, <1>6, <1>7, <1>8, <1>9 DEF McInv

(* When the process starts all is as it was the first time. *)
LEMMA FreshInv ==
    ASSUME DOMAIN mcCfg = McKinds, \A k \in McKinds : mcCfg[k] \in McRecord(k), mcSet \in Nat,
           mcEvent = {}, mcLost = {}, mcCache = [k \in McKinds |-> McNil],
           mcOp = [p \in McProcs |-> McIdle], mcOptions = mcSet
    PROVE  McInv
<1>1. \A p \in McProcs : mcOp[p] = McIdle
  BY Zenon
<1>2. McIdle.pc # "load" /\ McIdle.pc # "options"
  BY Zenon, McIdleOK
<1>3. McTypes
  <2>1. DOMAIN mcCache = McKinds /\ DOMAIN mcOp = McProcs /\ mcEvent \subseteq mcSub
    BY Zenon
  <2>2. \A k \in McKinds : mcCache[k] \in McRecord(k) \cup {McNil}
    BY Zenon
  <2>3. QED BY Zenon, <1>1, <2>1, <2>2, McIdleOK DEF McTypes
<1>4. HoldersLock /\ LoadsAreSince
  BY Zenon, <1>1, <1>2, McIdleOK DEF HoldersLock, LoadsAreSince
<1>5. KindsFollowed
  <2>1. SUFFICES ASSUME NEW k \in McKinds PROVE Followed(k)
    BY Zenon DEF KindsFollowed
  <2>2. mcCache[k] = McNil
    BY Zenon
  <2>3. QED BY Zenon, <2>2, <1>1, McIdleOK DEF Followed
<1>6. OptionsFollowed
  <2>1. mcOp["defs"].pc # "options"
    BY Zenon, <1>1, <1>2, McProcsFacts
  <2>2. QED BY Zenon, <2>1 DEF OptionsFollowed
<1>7. QED BY Zenon, <1>3, <1>4, <1>5, <1>6 DEF McInv

(* The process ends, and starts again. *)
LEMMA CrashInv == ASSUME McInv, McCrash PROVE McInv'
<1>1. /\ mcEvent' = {} /\ mcLost' = {} /\ mcCache' = [k \in McKinds |-> McNil]
      /\ mcOp' = [p \in McProcs |-> McIdle] /\ mcOptions' = mcSet' /\ mcCfg' = mcCfg /\ mcSet' = mcSet
  BY Zenon DEF McCrash
<1>2. DOMAIN mcCfg = McKinds /\ (\A k \in McKinds : mcCfg[k] \in McRecord(k)) /\ mcSet \in Nat
  BY Zenon DEF McInv, McTypes
<1>3. \A p \in McProcs : mcOp'[p] = McIdle
  BY Zenon, <1>1
<1>4. McIdle.pc # "load" /\ McIdle.pc # "options"
  BY Zenon, McIdleOK
<1>5. McTypes'
  <2>1. DOMAIN mcCache' = McKinds /\ DOMAIN mcOp' = McProcs /\ mcEvent' \subseteq mcSub'
    BY Zenon, <1>1
  <2>2. \A k \in McKinds : mcCache'[k] \in McRecord(k) \cup {McNil}
    BY Zenon, <1>1
  <2>3. QED BY Zenon, <1>1, <1>2, <1>3, <2>1, <2>2, McIdleOK DEF McTypes
<1>6. HoldersLock' /\ LoadsAreSince'
  BY Zenon, <1>3, <1>4, McIdleOK DEF HoldersLock, LoadsAreSince
<1>7. KindsFollowed'
  <2>1. SUFFICES ASSUME NEW k \in McKinds PROVE Followed(k)'
    BY Zenon DEF KindsFollowed
  <2>2. mcCache'[k] = McNil
    BY Zenon, <1>1
  <2>3. QED BY Zenon, <2>2, <1>3, McIdleOK DEF Followed
<1>8. OptionsFollowed'
  <2>1. mcOp'["defs"].pc # "options"
    BY Zenon, <1>3, <1>4, McProcsFacts
  <2>2. QED BY Zenon, <2>1, <1>1 DEF OptionsFollowed
<1>9. QED BY Zenon, <1>5, <1>6, <1>7, <1>8 DEF McInv

(* The steps of a goroutine that has not mgr.m. *)
LEMMA ReturnInv == ASSUME McInv, NEW p \in McProcs, McReturn(p) \/ McLoadFails(p) PROVE McInv'
<1>1. OpOK(p, mcOp[p])
  BY Zenon DEF McInv, McTypes
<1>2. /\ mcOp[p].pc \in {"got", "load"} /\ Goes(p, McIdle) /\ mcLost \subseteq mcLost'
      /\ p \in McKinds /\ mcOp[p].pc = "load" => p \in mcLost'
      /\ UNCHANGED <<mcCfg, mcSub, mcEvent, mcCache, mcLock, mcSet, mcOptions>>
  <2>1. CASE McReturn(p)
    <3>1. mcOp[p].pc = "got" /\ Goes(p, McIdle) /\ UNCHANGED mcView /\ mcLock' = mcLock /\ UNCHANGED mcOpt
      BY Zenon, <2>1 DEF McReturn
    <3>2. QED BY Zenon, <3>1 DEF mcView, mcOpt
  <2>2. CASE McLoadFails(p)
    <3>1. /\ mcOp[p].pc = "load" /\ Goes(p, McIdle) /\ mcLost' = mcLost \cup (McKinds \cap {p})
          /\ UNCHANGED <<mcCfg, mcSub, mcEvent, mcCache, mcLock>> /\ UNCHANGED mcOpt
      BY Zenon, <2>2 DEF McLoadFails
    <3>2. QED BY Zenon, <3>1 DEF mcOpt
  <2>3. QED BY Zenon, <2>1, <2>2
<1>3. ~Holding(mcOp[p]) /\ mcOp[p].pc # "options" /\ McIdle.pc # "options" /\ McIdle.pc # "load"
  BY Zenon, <1>2, McIdleOK DEF Holding
<1>4. QED BY Zenon, <1>2, <1>3, McIdleOK, LocalStep

(* A forced refresh begins. *)
LEMMA ForceInv == ASSUME McInv, NEW c \in McClients, NEW k \in McKinds, McForce(c, k) PROVE McInv'
<1> DEFINE op == [McIdle EXCEPT !.pc = "load", !.job = "force", !.kind = k, !.since = mcCfg[k].ver]
<1>1. /\ mcOp[c] = McIdle /\ Goes(c, op) /\ mcLost' = mcLost
      /\ UNCHANGED <<mcCfg, mcSub, mcEvent, mcCache, mcLock, mcSet, mcOptions>>
  <2>1. mcOp[c] = McIdle /\ Goes(c, op) /\ UNCHANGED mcView /\ mcLock' = mcLock /\ UNCHANGED mcOpt
    BY Zenon DEF McForce
  <2>2. QED BY Zenon, <2>1 DEF mcView, mcOpt
<1>2. /\ DOMAIN op = McFields /\ op.pc = "load" /\ op.kind = k /\ op.job = "force"
      /\ op.since = mcCfg[k].ver
  BY Zenon DEF McIdle, McFields
<1>3. mcCfg[k] \in McRecord(k)
  BY Zenon DEF McInv, McTypes
<1>4. mcCfg[k].ver \in Nat
  BY Zenon, <1>3 DEF McRecord
<1> HIDE DEF op
<1>5. OpOK(c, op) /\ ~Holding(op) /\ op.pc # "options" /\ op.since <= mcCfg[op.kind].ver
  BY <1>2, <1>4, McProcsFacts DEF OpOK, Holding, McPcs
<1>6. ~Holding(mcOp[c]) /\ mcOp[c].pc # "options" /\ c \notin McKinds /\ c \in McProcs
      /\ mcLost \subseteq mcLost'
  BY Zenon, <1>1, McIdleOK, McProcsFacts
<1>7. QED BY Zenon, <1>1, <1>5, <1>6, LocalStep

(* A client computes a cover. *)
LEMMA QueryInv ==
    ASSUME McInv, NEW c \in McClients,
           McQuery(c) \/ McRead(c, "nodes") \/ McRead(c, "plan") \/ McClassify(c) \/ McCache(c)
    PROVE  McInv'
<1>1. OpOK(c, mcOp[c]) /\ c \notin McKinds /\ c \in McProcs
  BY Zenon, McProcsFacts DEF McInv, McTypes
<1>2. UNCHANGED <<mcCfg, mcSub, mcEvent, mcCache, mcLock, mcSet, mcOptions>> /\ mcLost' = mcLost
  <2>1. UNCHANGED mcView /\ mcLock' = mcLock /\ UNCHANGED mcOpt
    BY Zenon DEF McQuery, McRead, McClassify, McCache
  <2>2. QED BY Zenon, <2>1 DEF mcView, mcOpt
<1> DEFINE Local(op) == /\ OpOK(c, op) /\ ~Holding(op) /\ op.pc # "options" /\ Goes(c, op)
                        /\ op.pc = "load" => op.since <= mcCfg[op.kind].ver
           Free == ~Holding(mcOp[c]) /\ mcOp[c].pc # "options"
<1>3. Free /\ \E op : Local(op)
  <2>1. CASE McQuery(c)
    <3>1. PICK op : op = [McIdle EXCEPT !.pc = "nodes", !.job = "query"]
      BY Zenon
    <3>2. mcOp[c] = McIdle /\ (Goes(c, McIdle) \/ Goes(c, op))
      BY Zenon, <2>1, <3>1 DEF McQuery
    <3>3. DOMAIN op = McFields /\ op.pc = "nodes" /\ op.job = "query" /\ op.since = 0
      BY Zenon, <3>1 DEF McIdle, McFields
    <3>4. OpOK(c, op) /\ ~Holding(op) /\ op.pc # "options" /\ op.pc # "load"
      BY <3>3, <1>1 DEF OpOK, Holding, McPcs
    <3>5. McIdle.pc # "options" /\ McIdle.pc # "load" /\ Free
      BY Zenon, <3>2, McIdleOK
    <3>6. QED BY Zenon, <3>2, <3>4, <3>5, McIdleOK
  <2>2. ASSUME NEW k \in {"nodes", "plan"}, McRead(c, k) PROVE Free /\ \E op : Local(op)
    <3>1. PICK op : op = [mcOp[c] EXCEPT !.pc = "load", !.kind = k]
      BY Zenon
    <3>2. PICK got : got = [mcOp[c] EXCEPT !.kind = k, !.got = mcCache[k]]
      BY Zenon
    <3>3. mcOp[c].pc = k /\ (Goes(c, op) \/ Goes(c, Loaded(got)))
      BY Zenon, <2>2, <3>1, <3>2 DEF McRead
    <3>4. Free /\ mcOp[c].job = "query" /\ DOMAIN mcOp[c] = McFields /\ mcOp[c].since = 0
      BY Zenon, <1>1, <3>3 DEF OpOK, Holding
    <3>5. DOMAIN op = McFields /\ op.pc = "load" /\ op.kind = k /\ op.job = "query" /\ op.since = mcOp[c].since
      BY Zenon, <3>1, <3>4 DEF McFields
    <3>6. DOMAIN got = McFields /\ got.kind = k /\ got.job = "query" /\ got.since = mcOp[c].since
      BY Zenon, <3>2, <3>4 DEF McFields
    <3>7. OpOK(c, op) /\ ~Holding(op) /\ op.pc # "options"
      BY Zenon, <1>1, <3>4, <3>5 DEF OpOK, Holding, McPcs, McKinds
    <3>8. OpOK(c, Loaded(got)) /\ ~Holding(Loaded(got)) /\ Loaded(got).pc \in {"idle", "got", "plan", "classify"}
      <4>1. got.since = 0 /\ 0 \in Nat /\ k \in McKinds /\ got.job # "force" /\ got.job \in {"force", "query"}
        BY Zenon, <3>4, <3>6 DEF McKinds
      <4>2. QED BY <4>1, <1>1, <2>2, <3>6, LoadedOK
    <3>9. op.since <= mcCfg[op.kind].ver
      <4>1. mcCfg[k] \in McRecord(k)
        BY Zenon, <2>2 DEF McInv, McTypes, McKinds
      <4>2. QED BY <4>1, <3>4, <3>5 DEF McRecord
    <3>10. QED BY Zenon, <3>3, <3>4, <3>7, <3>8, <3>9
  <2>3. CASE McClassify(c)
    <3>1. PICK order \in Bijection(1..Cardinality(McNodes), McNodes) :
             Goes(c, [mcOp[c] EXCEPT !.pc = "cover", !.nodes = {}, !.plan = McNil,
                                     !.cover = ClassifyPIndexes(mcOp[c].nodes, mcOp[c].plan, order)])
      BY Zenon, <2>3 DEF McClassify
    <3>2. PICK op : op = [mcOp[c] EXCEPT !.pc = "cover", !.nodes = {}, !.plan = McNil,
                                     !.cover = ClassifyPIndexes(mcOp[c].nodes, mcOp[c].plan, order)]
      BY Zenon
    <3>3. mcOp[c].pc = "classify" /\ Goes(c, op)
      BY Zenon, <2>3, <3>1, <3>2 DEF McClassify
    <3>4. Free /\ mcOp[c].job = "query" /\ DOMAIN mcOp[c] = McFields /\ mcOp[c].since = 0
      BY Zenon, <1>1, <3>3 DEF OpOK, Holding
    <3>5. DOMAIN op = McFields /\ op.pc = "cover" /\ op.job = "query" /\ op.since = mcOp[c].since
      BY Zenon, <3>2, <3>4 DEF McFields
    <3>6. OpOK(c, op) /\ ~Holding(op) /\ op.pc # "options" /\ op.pc # "load"
      BY Zenon, <1>1, <3>4, <3>5 DEF OpOK, Holding, McPcs
    <3>7. QED BY Zenon, <3>3, <3>4, <3>6
  <2>4. CASE McCache(c)
    <3>1. mcOp[c].pc = "cover" /\ Goes(c, McIdle)
      BY Zenon, <2>4 DEF McCache
    <3>2. Free /\ McIdle.pc # "options" /\ McIdle.pc # "load"
      BY Zenon, <3>1, McIdleOK DEF Holding
    <3>3. QED BY Zenon, <3>1, <3>2, McIdleOK
  <2>5. QED BY Zenon, <2>1, <2>2, <2>3, <2>4
<1>4. PICK op : Local(op)
  BY Zenon, <1>3
<1>5. QED BY Zenon, <1>1, <1>2, <1>3, <1>4, LocalStep

(* What the invariant is about. *)
LEMMA SameInv ==
    ASSUME McInv, UNCHANGED <<mcCfg, mcSub, mcEvent, mcCache, mcLost, mcLock, mcOp, mcSet, mcOptions>>
    PROVE  McInv'
<1>1. McTypes'
  BY Zenon DEF McInv, McTypes
<1>2. HoldersLock' /\ LoadsAreSince'
  BY Zenon DEF McInv, HoldersLock, LoadsAreSince
<1>3. KindsFollowed'
  BY Zenon DEF McInv, KindsFollowed, Followed
<1>4. OptionsFollowed'
  BY Zenon DEF McInv, OptionsFollowed
<1>5. QED BY Zenon, <1>1, <1>2, <1>3, <1>4 DEF McInv

(* The steps with mgr.m held that leave what is read and the copies. *)
LEMMA StoreInv ==
    ASSUME McInv, NEW p \in McProcs,
           McCreate(p) \/ McFill(p) \/ McFillFails(p) \/ McPurge(p) \/ McPurgeEnds(p)
    PROVE  McInv'
<1>1. UNCHANGED <<mcCfg, mcSub, mcEvent, mcCache, mcLost, mcLock, mcSet, mcOptions>>
  <2>1. UNCHANGED mcView /\ mcLock' = mcLock /\ UNCHANGED mcOpt
    BY Zenon DEF McCreate, McFill, McFillFails, McPurge, McPurgeEnds
  <2>2. QED BY Zenon, <2>1 DEF mcView, mcOpt
<1>2. CASE McCreate(p) \/ McFill(p) \/ McFillFails(p) \/ McPurgeEnds(p)
  <2>1. \E pc : /\ pc \in {"create", "fill", "purge", "keep"} /\ Goes(p, [mcOp[p] EXCEPT !.pc = pc])
                /\ mcOp[p].pc \in {"create", "fill", "purge", "keep"}
    BY Zenon, <1>2 DEF McCreate, McFill, McFillFails, McPurgeEnds
  <2>2. QED BY Zenon, <2>1, <1>1, HoldingStep DEF Holding
<1>3. CASE McPurge(p)
  <2>1. mcOp' = mcOp
    BY Zenon, <1>3 DEF McPurge
  <2>2. QED BY Zenon, <2>1, <1>1, SameInv
<1>4. QED BY Zenon, <1>2, <1>3

(* What the copies, and so ManagerFollowsTheCfg, do not depend on. *)
LEMMA McStutter == ASSUME McInv, UNCHANGED mcVars PROVE McInv'
<1>1. UNCHANGED mcView /\ mcLock' = mcLock /\ mcOp' = mcOp /\ UNCHANGED mcOpt
  BY Zenon DEF mcVars
<1>2. UNCHANGED <<mcCfg, mcSub, mcEvent, mcCache, mcLost, mcLock, mcOp, mcSet, mcOptions>>
  BY Zenon, <1>1 DEF mcView, mcOpt
<1>3. QED BY Zenon, <1>2, SameInv

(* It holds when the manager starts. *)
LEMMA McInitInv == McInit => McInv
<1> SUFFICES ASSUME McInit PROVE McInv
  BY Zenon
<1>1. /\ mcSub = Unchanging /\ mcEvent = {} /\ mcLost = {} /\ mcCache = [k \in McKinds |-> McNil]
      /\ mcOp = [p \in McProcs |-> McIdle] /\ mcSet = 1 /\ mcOptions = mcSet
  BY Zenon DEF McInit
<1>2. PICK plan \in McPlans :
         mcCfg = [k \in McKinds |-> [ver |-> 1, val |-> [nodes |-> McNodes, plan |-> plan, defs |-> 0][k]]]
  BY Zenon DEF McInit
<1>3. \A k \in McKinds : [nodes |-> McNodes, plan |-> plan, defs |-> 0][k] \in McValues[k]
  BY DEF McKinds, McValues
<1>4. \A k \in McKinds : mcCfg[k] \in McRecord(k)
  BY Zenon, <1>2, <1>3 DEF McRecord
<1>5. DOMAIN mcCfg = McKinds /\ mcSet \in Nat
  BY Zenon, <1>1, <1>2
<1>6. QED BY Zenon, <1>1, <1>4, <1>5, FreshInv

(* Every step keeps it. *)
LEMMA McNextInv == ASSUME McInv, McNext PROVE McInv'
<1>1. ASSUME NEW k \in McKinds, McChange(k) \/ McSubscribe(k) \/ McObserve(k) PROVE McInv'
  BY Zenon, <1>1, ChangeInv, SubscribeInv, ObserveInv
<1>2. ASSUME NEW p \in McProcs,
             \/ McLoad(p) \/ McLoadFails(p) \/ McKeep(p) \/ McReturn(p)
             \/ McCreate(p) \/ McFill(p) \/ McFillFails(p) \/ McPurge(p) \/ McPurgeEnds(p)
      PROVE  McInv'
  BY Zenon, <1>2, LoadInv, KeepInv, ReturnInv, StoreInv
<1>3. ASSUME NEW c \in McClients,
             \/ McQuery(c) \/ McRead(c, "nodes") \/ McRead(c, "plan") \/ McClassify(c) \/ McCache(c)
             \/ \E k \in McKinds : McForce(c, k)
      PROVE  McInv'
  BY Zenon, <1>3, QueryInv, ForceInv
<1>4. CASE McRegister \/ McReadOptions \/ RefreshOptions \/ McSetOptions(TRUE) \/ McSetOptions(FALSE)
           \/ McSetOptionFails \/ McCrash
  BY Zenon, <1>4, RegisterInv, OptionsInv, SetOptionsInv, CrashInv
<1>5. CASE McSubscribe("options")
  BY Zenon, <1>5, SubscribeInv
<1>6. QED BY Zenon, <1>1, <1>2, <1>3, <1>4, <1>5 DEF McNext

(* The invariant holds throughout. *)
THEOREM McInvariant == McSpec => []McInv
<1>1. McInv /\ [McNext]_mcVars => McInv'
  BY Zenon, McNextInv, McStutter
<1>2. QED BY <1>1, McInitInv, PTL DEF McSpec

(* Whatever the clients do and however reads of the Cfg fail, the manager  *)
(* has or is about to have what the Cfg has once it has subscribed, and a  *)
(* forced refresh returns nothing older than the Cfg at the call           *)
(* (manager.go:436-478, 918-990, 1118-1165, 1488-1544).                    *)
THEOREM CopiesFollowTheCfg == McSpec => []ManagerFollowsTheCfg
<1>1. ASSUME McInv PROVE ManagerFollowsTheCfg
  <2>1. ASSUME NEW k \in (mcSub \cap McKinds) \ mcLost
        PROVE  \/ mcCache[k] \in {McNil, mcCfg[k]} \/ k \in mcEvent
               \/ mcOp[k].pc = "load"
               \/ \E p \in McProcs : /\ mcOp[p].pc \in {"create", "fill", "purge", "keep"}
                                     /\ mcOp[p].kind = k /\ mcOp[p].got = mcCfg[k]
    BY Zenon, <1>1, <2>1 DEF McInv, KindsFollowed, Followed, Holding
  <2>2. ASSUME NEW p \in McProcs, mcOp[p].pc = "got" PROVE mcOp[p].got.ver >= mcOp[p].since
    BY Zenon, <1>1, <2>2 DEF McInv, McTypes, OpOK
  <2>3. QED BY Zenon, <1>1, <2>1, <2>2 DEF ManagerFollowsTheCfg, McInv, OptionsFollowed
<1>2. QED BY <1>1, McInvariant, PTL
-----------------------------------------------------------------------------
(* A set of indices has a last one. *)
LEMMA LastIndex ==
    ASSUME NEW n \in Nat, NEW S, S \subseteq 1..n, S # {}
    PROVE  Max(S) \in S /\ \A i \in S : i <= Max(S)
<1> DEFINE T == {k \in Nat : n - k \in S}
<1>1. T \subseteq Nat /\ T # {}
  <2>1. PICK i \in S : TRUE
    BY Zenon
  <2>2. i \in 1..n
    BY Zenon
  <2>3. n - i \in Nat /\ n - (n - i) = i
    BY <2>2
  <2>4. n - i \in T
    BY Zenon, <2>3
  <2>5. QED BY Zenon, <2>4
<1>2. PICK x \in T : \A y \in T : ~(<<y, x>> \in OpToRel(<, Nat))
  <2> HIDE DEF T
  <2>1. QED BY Zenon, <1>1, WFMin, NatLessThanWellFounded
<1>3. \A y \in T : ~(y < x)
  BY Zenon, <1>2 DEF OpToRel
<1>4. n - x \in S
  BY Zenon
<1>5. \A i \in S : n - x >= i
  <2>1. SUFFICES ASSUME NEW i \in S PROVE n - x >= i
    BY Zenon
  <2>2. i \in 1..n /\ x \in Nat
    BY Zenon
  <2>3. n - i \in Nat /\ n - (n - i) = i
    BY <2>2
  <2>4. n - i \in T
    BY Zenon, <2>3
  <2>5. ~(n - i < x)
    BY Zenon, <2>4, <1>3
  <2>6. QED BY <2>2, <2>5
<1>6. \E m \in S : \A i \in S : m >= i
  BY Zenon, <1>4, <1>5
<1>7. Max(S) \in S /\ \A i \in S : Max(S) >= i
  BY Zenon, <1>6 DEF Max
<1>8. S \subseteq Int
  OBVIOUS
<1>9. QED BY Zenon, <1>7, <1>8

(* A sequence with an element more, and with one less. *)
Inserted(t, s, i, e) == t = SubSeq(s, 1, i - 1) \o <<e>> \o SubSeq(s, i, Len(s))
Removed(t, s, i) == t = SubSeq(s, 1, i - 1) \o SubSeq(s, i + 1, Len(s))

(* What they consist of. *)
HasInserted(t, s, i, e) ==
    \A j \in 1..Len(t) : t[j] = IF j < i THEN s[j] ELSE IF j = i THEN e ELSE s[j - 1]
HasRemoved(t, s, i) == \A j \in 1..Len(t) : t[j] = IF j < i THEN s[j] ELSE s[j + 1]

(* Where the elements of the longer one come from. *)
LEMMA InsertedSeq ==
    ASSUME NEW S, NEW s \in Seq(S), NEW e \in S, NEW i \in 1..(Len(s) + 1), NEW t, Inserted(t, s, i, e)
    PROVE  t \in Seq(S) /\ Len(t) = Len(s) + 1 /\ HasInserted(t, s, i, e)
<1> DEFINE a == SubSeq(s, 1, i - 1)
           b == <<e>>
           c == SubSeq(s, i, Len(s))
           ab == a \o b
           u == ab \o c
           n == Len(s)
<1>0. n \in Nat
  OBVIOUS
<1>1. a \in Seq(S) /\ \A j \in 1..(i - 1) : a[j] = s[j]
  OBVIOUS
<1>L. Len(a) = i - 1 /\ Len(b) = 1 /\ Len(c) = n + 1 - i
  OBVIOUS
<1>2. c \in Seq(S) /\ \A j \in 1..(n + 1 - i) : c[j] = s[i + j - 1]
  OBVIOUS
<1>3. b \in Seq(S) /\ b[1] = e
  OBVIOUS
<1>4. t = u
  BY Zenon DEF Inserted
<1> HIDE DEF a, b, c
<1>5. /\ ab \in Seq(S) /\ Len(ab) = Len(a) + Len(b)
      /\ \A j \in 1..(Len(a) + Len(b)) : ab[j] = IF j <= Len(a) THEN a[j] ELSE b[j - Len(a)]
  <2>1. a \in Seq(S) /\ b \in Seq(S)
    BY Zenon, <1>1, <1>3
  <2>2. QED BY <2>1
<1> HIDE DEF ab
<1>6. /\ u \in Seq(S) /\ Len(u) = Len(ab) + Len(c)
      /\ \A j \in 1..(Len(ab) + Len(c)) : u[j] = IF j <= Len(ab) THEN ab[j] ELSE c[j - Len(ab)]
  <2>1. ab \in Seq(S) /\ c \in Seq(S)
    BY Zenon, <1>2, <1>5
  <2>2. QED BY <2>1
<1> HIDE DEF n, u
<1>7. i \in 1..(n + 1)
  BY Zenon DEF n
<1>M. Len(ab) = Len(a) + Len(b) /\ Len(u) = Len(ab) + Len(c)
  BY Zenon, <1>5, <1>6
<1>8. Len(ab) = i /\ Len(u) = n + 1
  BY <1>0, <1>L, <1>M, <1>7
<1>9. ASSUME NEW j \in 1..(n + 1) PROVE u[j] = IF j < i THEN s[j] ELSE IF j = i THEN e ELSE s[j - 1]
  <2>1. CASE j < i
    <3>1. j \in 1..(i - 1) /\ j \in 1..(Len(a) + Len(b)) /\ j <= Len(a) /\ j \in 1..(Len(ab) + Len(c)) /\ j <= Len(ab)
      BY <2>1, <1>0, <1>L, <1>7, <1>8
    <3>2. u[j] = ab[j] /\ ab[j] = a[j] /\ a[j] = s[j]
      BY Zenon, <3>1, <1>1, <1>5, <1>6
    <3>3. QED BY Zenon, <2>1, <3>2
  <2>2. CASE j = i
    <3>1. /\ j \in 1..(Len(a) + Len(b)) /\ ~(j <= Len(a)) /\ j - Len(a) = 1
          /\ j \in 1..(Len(ab) + Len(c)) /\ j <= Len(ab) /\ ~(j < i)
      BY <2>2, <1>0, <1>L, <1>7, <1>8
    <3>2. u[j] = ab[j] /\ ab[j] = b[1]
      BY Zenon, <3>1, <1>5, <1>6
    <3>3. QED BY Zenon, <2>2, <3>1, <3>2, <1>3
  <2>3. CASE j > i
    <3>1. /\ j \in 1..(Len(ab) + Len(c)) /\ ~(j <= Len(ab)) /\ ~(j < i) /\ j # i
          /\ j - Len(ab) \in 1..(n + 1 - i) /\ i + (j - Len(ab)) - 1 = j - 1
      BY <2>3, <1>0, <1>L, <1>7, <1>8
    <3>2. u[j] = c[j - Len(ab)] /\ c[j - Len(ab)] = s[i + (j - Len(ab)) - 1]
      BY Zenon, <3>1, <1>2, <1>6
    <3>3. QED BY Zenon, <3>1, <3>2
  <2>4. QED BY <2>1, <2>2, <2>3, <1>0, <1>7
<1>10. QED BY Zenon, <1>4, <1>6, <1>8, <1>9 DEF n, HasInserted

(* Where those of the shorter one come from. *)
LEMMA RemovedSeq ==
    ASSUME NEW S, NEW s \in Seq(S), NEW i \in 1..Len(s), NEW t, Removed(t, s, i)
    PROVE  t \in Seq(S) /\ Len(t) = Len(s) - 1 /\ HasRemoved(t, s, i)
<1> DEFINE a == SubSeq(s, 1, i - 1)
           c == SubSeq(s, i + 1, Len(s))
           u == a \o c
           n == Len(s)
<1>0. n \in Nat
  OBVIOUS
<1>1. a \in Seq(S) /\ \A j \in 1..(i - 1) : a[j] = s[j]
  OBVIOUS
<1>L. Len(a) = i - 1 /\ Len(c) = n - i
  OBVIOUS
<1>2. c \in Seq(S) /\ \A j \in 1..(n - i) : c[j] = s[i + j]
  OBVIOUS
<1>3. t = u
  BY Zenon DEF Removed
<1> HIDE DEF a, c
<1>4. /\ u \in Seq(S) /\ Len(u) = Len(a) + Len(c)
      /\ \A j \in 1..(Len(a) + Len(c)) : u[j] = IF j <= Len(a) THEN a[j] ELSE c[j - Len(a)]
  <2>1. a \in Seq(S) /\ c \in Seq(S)
    BY Zenon, <1>1, <1>2
  <2>2. QED BY <2>1
<1> HIDE DEF n, u
<1>5. i \in 1..n
  BY Zenon DEF n
<1>M. Len(u) = Len(a) + Len(c)
  BY Zenon, <1>4
<1>6. Len(u) = n - 1
  BY <1>0, <1>L, <1>M, <1>5
<1>7. ASSUME NEW j \in 1..(n - 1) PROVE u[j] = IF j < i THEN s[j] ELSE s[j + 1]
  <2>1. CASE j < i
    <3>1. j \in 1..(i - 1) /\ j \in 1..(Len(a) + Len(c)) /\ j <= Len(a)
      BY <2>1, <1>0, <1>L, <1>5
    <3>2. u[j] = a[j] /\ a[j] = s[j]
      BY Zenon, <3>1, <1>1, <1>4
    <3>3. QED BY Zenon, <2>1, <3>2
  <2>2. CASE j >= i
    <3>1. /\ j \in 1..(Len(a) + Len(c)) /\ ~(j <= Len(a)) /\ ~(j < i)
          /\ j - Len(a) \in 1..(n - i) /\ i + (j - Len(a)) = j + 1
      BY <2>2, <1>0, <1>L, <1>5
    <3>2. u[j] = c[j - Len(a)] /\ c[j - Len(a)] = s[i + (j - Len(a))]
      BY Zenon, <3>1, <1>2, <1>4
    <3>3. QED BY Zenon, <3>1, <3>2
  <2>3. QED BY <2>1, <2>2, <1>0, <1>5
<1>8. QED BY Zenon, <1>3, <1>4, <1>6, <1>7 DEF n, HasRemoved

(* Whoever has the lock alone stores a plan. *)
LEMMA NoOneStores ==
    ASSUME McInv, NEW p \in McProcs, mcLock = Nobody \/ mcLock = p
    PROVE  \A q \in McProcs : q # p => mcOp[q].pc # "fill" /\ mcOp[q].pc # "purge"
<1>1. \A q \in McProcs : q # p => ~Holding(mcOp[q])
  BY Zenon, McProcsFacts DEF McInv, HoldersLock
<1>2. QED BY Zenon, <1>1 DEF Holding

(* Steps that leave the files, and begin no store. *)
LEMMA FilesKept ==
    ASSUME FilesInv, UNCHANGED <<mcFiles, mcTime, mcStored>>,
           \A q \in McProcs : \/ mcOp'[q].pc # "fill" /\ mcOp'[q].pc # "purge"
                              \/ mcOp'[q].pc = mcOp[q].pc /\ mcOp'[q].got = mcOp[q].got
    PROVE  FilesInv'
<1>1. FilesSorted'
  BY Zenon DEF FilesInv, FilesSorted
<1>2. StoredIsThere'
  BY Zenon DEF FilesInv, StoredIsThere
<1>3. \A q \in McProcs : StoringOK(mcOp[q])'
  BY Zenon DEF FilesInv, StoringOK
<1>4. QED BY Zenon, <1>1, <1>2, <1>3 DEF FilesInv

(* The same, of a step after which nobody has mgr.m. *)
LEMMA FilesFree ==
    ASSUME McInv', mcLock' = Nobody, FilesInv, UNCHANGED <<mcFiles, mcTime, mcStored>>
    PROVE  FilesInv'
<1>1. \A q \in McProcs : ~Holding(mcOp'[q])
  BY Zenon, McProcsFacts DEF McInv, HoldersLock
<1>2. \A q \in McProcs : mcOp'[q].pc # "fill" /\ mcOp'[q].pc # "purge"
  BY Zenon, <1>1 DEF Holding
<1>3. QED BY Zenon, <1>2, FilesKept

(* The same, of a step of one goroutine. *)
LEMMA FilesGoes ==
    ASSUME McInv, FilesInv, UNCHANGED <<mcFiles, mcTime, mcStored>>,
           NEW p \in McProcs, NEW op, Goes(p, op), op.pc # "fill", op.pc # "purge"
    PROVE  FilesInv'
<1>1. mcOp'[p] = op /\ \A q \in McProcs : q # p => mcOp'[q] = mcOp[q]
  BY Zenon, GoesOn DEF McInv, McTypes
<1>2. QED BY Zenon, <1>1, FilesKept

(* A file is created where its time has it. *)
LEMMA CreateFiles == ASSUME McInv, FilesInv, NEW p \in McProcs, McCreate(p) PROVE FilesInv'
<1> DEFINE F == [time : Nat, ver : Nat, whole : BOOLEAN]
           f == [time |-> mcTime', ver |-> mcOp[p].got.ver, whole |-> FALSE]
           op == [mcOp[p] EXCEPT !.pc = "fill"]
           n == Len(mcFiles)
<1>1. mcOp[p].pc = "create" /\ mcTime' \in {mcTime, mcTime + 1} /\ Goes(p, op) /\ mcStored' = mcStored
  BY Zenon DEF McCreate
<1>2. PICK i \in 1..(n + 1) :
         /\ \A j \in i..n : mcFiles[j].time = mcTime'
         /\ mcFiles' = SubSeq(mcFiles, 1, i - 1) \o <<f>> \o SubSeq(mcFiles, i, n)
  BY Zenon DEF McCreate
<1>3. OpOK(p, mcOp[p]) /\ Holding(mcOp[p])
  BY Zenon, <1>1 DEF McInv, McTypes, Holding
<1>4. mcOp[p].got.ver \in Nat /\ DOMAIN mcOp[p] = McFields
  BY Zenon, <1>3 DEF OpOK, McRecord
<1>5. mcFiles \in Seq(F) /\ mcTime \in Nat /\ n \in Nat
  BY DEF FilesInv, FilesSorted
<1>6. f \in F /\ mcTime' \in Nat /\ mcTime <= mcTime'
  BY <1>1, <1>4, <1>5
<1>7. f.time = mcTime' /\ f.ver = mcOp[p].got.ver /\ f.whole = FALSE
  BY Zenon
<1>8. op.pc = "fill" /\ op.got = mcOp[p].got
  BY Zenon, <1>4 DEF McFields
<1> HIDE DEF F, f, op
<1>9. /\ mcFiles' \in Seq(F) /\ Len(mcFiles') = n + 1
      /\ \A j \in 1..Len(mcFiles') :
            mcFiles'[j] = IF j < i THEN mcFiles[j] ELSE IF j = i THEN f ELSE mcFiles[j - 1]
  <2>1. /\ mcFiles \in Seq(F) /\ f \in F /\ i \in 1..(Len(mcFiles) + 1)
        /\ Inserted(mcFiles', mcFiles, i, f)
    BY Zenon, <1>2, <1>5, <1>6 DEF Inserted
  <2>2. mcFiles' \in Seq(F) /\ Len(mcFiles') = Len(mcFiles) + 1 /\ HasInserted(mcFiles', mcFiles, i, f)
    BY Zenon, <2>1, InsertedSeq
  <2>3. QED BY Zenon, <2>2 DEF HasInserted
<1>10. \A j \in 1..n : mcFiles[j] \in F /\ mcFiles[j].time \in Nat /\ mcFiles[j].time <= mcTime
  <2>1. \A j \in 1..n : mcFiles[j] \in F
    BY <1>5
  <2>2. \A r \in F : r.time \in Nat
    BY Zenon DEF F
  <2>3. \A j \in 1..n : mcFiles[j].time <= mcTime
    BY Zenon DEF FilesInv, FilesSorted
  <2>4. QED BY Zenon, <2>1, <2>2, <2>3
<1>11. \A j, k \in 1..n : j <= k => mcFiles[j].time <= mcFiles[k].time
  BY Zenon DEF FilesInv, FilesSorted
<1> HIDE DEF n
<1>12. /\ \A j \in 1..(n + 1) : j < i => j \in 1..n /\ mcFiles'[j] = mcFiles[j]
       /\ mcFiles'[i] = f
       /\ \A j \in 1..(n + 1) : j > i => j - 1 \in i..n /\ j - 1 \in 1..n /\ mcFiles'[j] = mcFiles[j - 1]
  <2>1. i \in 1..(n + 1)
    BY Zenon DEF n
  <2>2. n \in Nat
    BY Zenon, <1>5 DEF n
  <2>3. \A j \in 1..(n + 1) : mcFiles'[j] = IF j < i THEN mcFiles[j] ELSE IF j = i THEN f ELSE mcFiles[j - 1]
    BY Zenon, <1>9 DEF n
  <2>4. QED BY <2>1, <2>2, <2>3
<1>13. /\ \A j \in 1..(n + 1) : j < i => mcFiles'[j].time \in Nat /\ mcFiles'[j].time <= mcTime
       /\ \A j \in 1..(n + 1) : j >= i => mcFiles'[j].time = mcTime'
  <2>1. \A j \in i..n : mcFiles[j].time = mcTime'
    BY Zenon, <1>2 DEF n
  <2>2. i \in 1..(n + 1) /\ n \in Nat
    BY Zenon, <1>5 DEF n
  <2>3. \A j \in 1..(n + 1) : j > i => mcFiles'[j].time = mcTime'
    BY Zenon, <2>1, <1>12
  <2>4. mcFiles'[i].time = mcTime'
    BY Zenon, <1>7, <1>12
  <2>5. \A j \in 1..(n + 1) : j >= i => j = i \/ j > i
    BY <2>2
  <2>6. QED BY Zenon, <2>3, <2>4, <2>5, <1>10, <1>12
<1>14. FilesSorted'
  <2>1. i \in 1..(n + 1) /\ n \in Nat
    BY <1>5 DEF n
  <2>2. ASSUME NEW j \in 1..(n + 1), NEW k \in 1..(n + 1), j <= k
        PROVE  mcFiles'[j].time <= mcFiles'[k].time
    <3>1. CASE k < i
      <4>1. j < i
        BY <2>1, <2>2, <3>1
      <4>2. QED BY Zenon, <2>2, <3>1, <4>1, <1>11, <1>12
    <3>2. CASE k >= i
      <4>1. mcFiles'[k].time = mcTime'
        BY <3>2, <1>13
      <4>2. CASE j < i
        BY <4>1, <4>2, <1>13, <1>5, <1>6
      <4>3. CASE j >= i
        BY <4>1, <4>3, <1>13, <1>6
      <4>4. QED BY <2>1, <4>2, <4>3
    <3>3. QED BY <2>1, <3>1, <3>2
  <2>3. ASSUME NEW j \in 1..(n + 1) PROVE mcFiles'[j].time <= mcTime'
    <3>1. CASE j < i
      BY <3>1, <1>13, <1>5, <1>6
    <3>2. CASE j >= i
      BY <3>2, <1>13, <1>6
    <3>3. QED BY <2>1, <3>1, <3>2
  <2>4. QED BY Zenon, <2>2, <2>3, <1>6, <1>9 DEF FilesSorted, F, n
<1>15. StoredIsThere'
  <2>1. SUFFICES ASSUME mcStored # McNil
                 PROVE  /\ mcStored.time <= mcTime'
                        /\ \E j \in 1..(n + 1) : mcFiles'[j].whole /\ mcFiles'[j].time = mcStored.time
                        /\ \A j \in 1..(n + 1) : mcFiles'[j].whole => mcFiles'[j].time <= mcStored.time
    BY Zenon, <1>1, <1>9 DEF StoredIsThere, n
  <2>2. /\ mcStored.time <= mcTime
        /\ \E j \in 1..n : mcFiles[j].whole /\ mcFiles[j].time = mcStored.time
        /\ \A j \in 1..n : mcFiles[j].whole => mcFiles[j].time <= mcStored.time
    BY Zenon, <2>1 DEF FilesInv, StoredIsThere, n
  <2>3. PICK j \in 1..n : mcFiles[j].whole /\ mcFiles[j].time = mcStored.time
    BY Zenon, <2>2
  <2>4. mcStored.time \in Nat
    BY Zenon, <2>3, <1>10 DEF n
  <2>5. n \in Nat /\ i \in 1..(n + 1)
    BY Zenon, <1>5 DEF n
  <2>6. \E k \in 1..(n + 1) : mcFiles'[k] = mcFiles[j]
    <3>1. CASE j < i
      <4>1. j \in 1..(n + 1)
        BY <2>5
      <4>2. QED BY Zenon, <3>1, <4>1, <1>12
    <3>2. CASE j >= i
      <4>1. j + 1 \in 1..(n + 1) /\ j + 1 > i /\ (j + 1) - 1 = j
        BY <2>5, <3>2
      <4>2. mcFiles'[j + 1] = mcFiles[(j + 1) - 1]
        BY Zenon, <4>1, <1>12
      <4>3. QED BY Zenon, <4>1, <4>2
    <3>3. QED BY <2>5, <3>1, <3>2
  <2>7. ASSUME NEW k \in 1..(n + 1), mcFiles'[k].whole PROVE mcFiles'[k].time <= mcStored.time
    <3>1. k # i
      BY Zenon, <2>7, <1>7, <1>12
    <3>2. CASE k < i
      BY Zenon, <2>2, <2>7, <3>2, <1>12
    <3>3. CASE k > i
      BY Zenon, <2>2, <2>7, <3>3, <1>12
    <3>4. QED BY <2>5, <3>1, <3>2, <3>3
  <2>8. mcStored.time <= mcTime'
    BY <2>2, <2>4, <1>5, <1>6
  <2>9. QED BY Zenon, <2>3, <2>6, <2>7, <2>8
<1>16. \A q \in McProcs : StoringOK(mcOp[q])'
  <2>1. mcOp'[p] = op /\ \A q \in McProcs : q # p => mcOp'[q] = mcOp[q]
    BY Zenon, GoesOn, <1>1 DEF McInv, McTypes
  <2>2. \A q \in McProcs : q # p => mcOp[q].pc # "fill" /\ mcOp[q].pc # "purge"
    <3>1. mcLock = p
      BY Zenon, <1>3 DEF McInv, HoldersLock
    <3>2. QED BY Zenon, <3>1, NoOneStores
  <2>3. i \in 1..Len(mcFiles')
    BY Zenon, <1>9 DEF n
  <2>4. mcFiles'[i].time = mcTime' /\ mcFiles'[i].ver = op.got.ver /\ op.pc # "purge"
    BY <1>7, <1>8, <1>12
  <2>5. QED BY Zenon, <2>1, <2>2, <2>3, <2>4 DEF StoringOK
<1>17. QED BY Zenon, <1>14, <1>15, <1>16 DEF FilesInv

(* The file is filled: it is the last store. *)
LEMMA FillFiles == ASSUME McInv, FilesInv, NEW p \in McProcs, McFill(p) PROVE FilesInv'
<1> DEFINE F == [time : Nat, ver : Nat, whole : BOOLEAN]
           op == [mcOp[p] EXCEPT !.pc = "purge"]
           mine(r) == r.time = mcTime /\ r.ver = mcOp[p].got.ver
           n == Len(mcFiles)
<1>1. /\ mcOp[p].pc = "fill" /\ mcTime' = mcTime /\ Goes(p, op)
      /\ mcStored' = [time |-> mcTime, ver |-> mcOp[p].got.ver]
      /\ mcFiles' = [i \in DOMAIN mcFiles |-> IF mine(mcFiles[i]) THEN [mcFiles[i] EXCEPT !.whole = TRUE]
                                                                  ELSE mcFiles[i]]
  BY Zenon DEF McFill
<1>2. OpOK(p, mcOp[p]) /\ Holding(mcOp[p])
  BY Zenon, <1>1 DEF McInv, McTypes, Holding
<1>3. DOMAIN mcOp[p] = McFields
  BY Zenon, <1>2 DEF OpOK
<1>4. op.pc = "purge"
  BY Zenon, <1>3 DEF McFields
<1>5. mcFiles \in Seq(F) /\ mcTime \in Nat /\ n \in Nat /\ DOMAIN mcFiles = 1..n
  BY DEF FilesInv, FilesSorted
<1>6. \A i \in 1..n : mcFiles[i] \in F
  <2> HIDE DEF F
  <2>1. QED BY <1>5
<1>7. \A r \in F : /\ r.time \in Nat
                   /\ [r EXCEPT !.whole = TRUE] \in F /\ [r EXCEPT !.whole = TRUE].time = r.time
                   /\ [r EXCEPT !.whole = TRUE].whole
  BY Zenon DEF F
<1>8. \A i \in 1..n : /\ mcFiles'[i] \in F /\ mcFiles'[i].time = mcFiles[i].time
                      /\ mine(mcFiles[i]) => mcFiles'[i].whole
  <2> HIDE DEF F
  <2>1. SUFFICES ASSUME NEW i \in 1..n
                 PROVE  /\ mcFiles'[i] \in F /\ mcFiles'[i].time = mcFiles[i].time
                        /\ mine(mcFiles[i]) => mcFiles'[i].whole
    BY Zenon
  <2>2. mcFiles'[i] = IF mine(mcFiles[i]) THEN [mcFiles[i] EXCEPT !.whole = TRUE] ELSE mcFiles[i]
    BY Zenon, <1>1, <1>5
  <2>3. QED BY Zenon, <2>2, <1>6, <1>7
<1>9. mcFiles' \in Seq(F) /\ Len(mcFiles') = n
  <2>1. mcFiles' = [i \in 1..n |-> mcFiles'[i]]
    BY Zenon, <1>1, <1>5
  <2>2. mcFiles' \in [1..n -> F]
    BY Zenon, <2>1, <1>8
  <2> HIDE DEF F
  <2>3. QED BY <2>2, <1>5
<1>10. PICK i \in 1..n : mine(mcFiles[i])
  BY Zenon, <1>1 DEF FilesInv, StoringOK
<1>11. \A j \in 1..n : mcFiles[j].time <= mcTime
  BY Zenon DEF FilesInv, FilesSorted
<1>12. \A j, k \in 1..n : j <= k => mcFiles[j].time <= mcFiles[k].time
  BY Zenon DEF FilesInv, FilesSorted
<1>13. mcStored'.time = mcTime
  BY Zenon, <1>1
<1>14. mcFiles'[i].whole /\ mcFiles'[i].time = mcTime
  BY Zenon, <1>8, <1>10
<1> HIDE DEF mine, op, n
<1>15. FilesSorted'
  <2>1. \A j, k \in 1..n : j <= k => mcFiles'[j].time <= mcFiles'[k].time
    BY Zenon, <1>8, <1>12
  <2>2. QED BY Zenon, <2>1, <1>1, <1>5, <1>8, <1>9, <1>11 DEF FilesSorted
<1>16. StoredIsThere'
  <2>1. mcTime <= mcTime
    BY <1>5
  <2>2. QED BY Zenon, <2>1, <1>1, <1>8, <1>9, <1>11, <1>13, <1>14 DEF StoredIsThere
<1>17. \A q \in McProcs : StoringOK(mcOp[q])'
  <2>1. mcOp'[p] = op /\ \A q \in McProcs : q # p => mcOp'[q] = mcOp[q]
    BY Zenon, GoesOn, <1>1 DEF McInv, McTypes
  <2>2. \A q \in McProcs : q # p => mcOp[q].pc # "fill" /\ mcOp[q].pc # "purge"
    <3>1. mcLock = p
      BY Zenon, <1>2 DEF McInv, HoldersLock
    <3>2. QED BY Zenon, <3>1, NoOneStores
  <2>3. op.pc # "fill"
    BY Zenon, <1>4
  <2>4. QED BY Zenon, <2>1, <2>2, <2>3, <1>1, <1>13 DEF StoringOK
<1>18. QED BY Zenon, <1>15, <1>16, <1>17 DEF FilesInv

(* A file goes that is not of the time of this store. *)
LEMMA PurgeFiles == ASSUME McInv, FilesInv, NEW p \in McProcs, McPurge(p) PROVE FilesInv'
<1> DEFINE F == [time : Nat, ver : Nat, whole : BOOLEAN]
           n == Len(mcFiles)
<1>1. mcOp[p].pc = "purge" /\ mcTime' = mcTime /\ mcStored' = mcStored /\ mcOp' = mcOp
  BY Zenon DEF McPurge
<1>2. mcFiles \in Seq(F) /\ mcTime \in Nat /\ n \in Nat /\ DOMAIN mcFiles = 1..n
  BY DEF FilesInv, FilesSorted
<1>3. PICK i \in 1..n : /\ mcFiles[i].time # mcTime
                        /\ mcFiles' = SubSeq(mcFiles, 1, i - 1) \o SubSeq(mcFiles, i + 1, n)
  BY Zenon, <1>2 DEF McPurge, Purgeable
<1>4. mcStored.time = mcTime
  BY Zenon, <1>1 DEF FilesInv, StoringOK
<1>5. /\ mcFiles' \in Seq(F) /\ Len(mcFiles') = n - 1
      /\ \A j \in 1..Len(mcFiles') : mcFiles'[j] = IF j < i THEN mcFiles[j] ELSE mcFiles[j + 1]
  <2> HIDE DEF F
  <2>1. /\ mcFiles \in Seq(F) /\ i \in 1..Len(mcFiles)
        /\ Removed(mcFiles', mcFiles, i)
    BY Zenon, <1>2, <1>3 DEF Removed
  <2>2. mcFiles' \in Seq(F) /\ Len(mcFiles') = Len(mcFiles) - 1 /\ HasRemoved(mcFiles', mcFiles, i)
    BY Zenon, <2>1, RemovedSeq
  <2>3. QED BY Zenon, <2>2 DEF HasRemoved
<1>6. \A j \in 1..n : mcFiles[j].time <= mcTime
  BY Zenon DEF FilesInv, FilesSorted
<1>7. \A j, k \in 1..n : j <= k => mcFiles[j].time <= mcFiles[k].time
  BY Zenon DEF FilesInv, FilesSorted
<1> DEFINE old(j) == IF j < i THEN j ELSE j + 1
<1>8. \A j \in 1..(n - 1) : old(j) \in 1..n /\ mcFiles'[j] = mcFiles[old(j)]
  <2>1. i \in 1..n /\ n \in Nat
    BY Zenon, <1>2
  <2>2. \A j \in 1..(n - 1) : mcFiles'[j] = IF j < i THEN mcFiles[j] ELSE mcFiles[j + 1]
    BY Zenon, <1>5
  <2> HIDE DEF F, n
  <2>3. QED BY <2>1, <2>2
<1>9. \A j, k \in 1..(n - 1) : j <= k => old(j) <= old(k)
  <2>1. i \in 1..n /\ n \in Nat
    BY <1>2
  <2> HIDE DEF F, n
  <2>2. QED BY <2>1
<1>10. FilesSorted'
  <2> HIDE DEF old, n
  <2>1. \A j, k \in 1..(n - 1) : j <= k => mcFiles'[j].time <= mcFiles'[k].time
    BY Zenon, <1>7, <1>8, <1>9
  <2>2. \A j \in 1..(n - 1) : mcFiles'[j].time <= mcTime
    BY Zenon, <1>6, <1>8
  <2>3. QED BY Zenon, <2>1, <2>2, <1>1, <1>2, <1>5 DEF FilesSorted
<1>11. StoredIsThere'
  <2>1. SUFFICES ASSUME mcStored # McNil
                 PROVE  /\ mcStored.time <= mcTime
                        /\ \E j \in 1..(n - 1) : mcFiles'[j].whole /\ mcFiles'[j].time = mcStored.time
                        /\ \A j \in 1..(n - 1) : mcFiles'[j].whole => mcFiles'[j].time <= mcStored.time
    BY Zenon, <1>1, <1>5 DEF StoredIsThere
  <2>2. /\ mcStored.time <= mcTime
        /\ \E j \in 1..n : mcFiles[j].whole /\ mcFiles[j].time = mcStored.time
        /\ \A j \in 1..n : mcFiles[j].whole => mcFiles[j].time <= mcStored.time
    BY Zenon, <2>1 DEF FilesInv, StoredIsThere
  <2>3. PICK j \in 1..n : mcFiles[j].whole /\ mcFiles[j].time = mcStored.time
    BY Zenon, <2>2
  <2>4. j # i
    BY Zenon, <2>3, <1>3, <1>4
  <2>5. \E k \in 1..(n - 1) : old(k) = j
    <3>1. n \in Nat /\ i \in 1..n
      BY Zenon, <1>2
    <3> HIDE DEF F, n
    <3>2. CASE j < i
      <4>1. j \in 1..(n - 1) /\ old(j) = j
        BY <3>1, <3>2
      <4>2. QED BY Zenon, <4>1
    <3>3. CASE j > i
      <4>1. j - 1 \in 1..(n - 1) /\ old(j - 1) = j
        BY <3>1, <3>3
      <4>2. QED BY Zenon, <4>1
    <3>4. QED BY <3>1, <3>2, <3>3, <2>4
  <2> HIDE DEF old, n
  <2>6. QED BY Zenon, <2>2, <2>3, <2>5, <1>8
<1>12. \A q \in McProcs : StoringOK(mcOp[q])'
  <2>1. \A q \in McProcs : q # p => mcOp[q].pc # "fill" /\ mcOp[q].pc # "purge"
    <3>1. Holding(mcOp[p])
      BY Zenon, <1>1 DEF Holding
    <3>2. mcLock = p
      BY Zenon, <3>1 DEF McInv, HoldersLock
    <3>3. QED BY Zenon, <3>2, NoOneStores
  <2>2. mcOp[p].pc # "fill"
    BY Zenon, <1>1
  <2>3. QED BY Zenon, <2>1, <2>2, <1>1, <1>4 DEF StoringOK
<1>13. QED BY Zenon, <1>10, <1>11, <1>12 DEF FilesInv

(* A crash leaves the files; the clock goes on. *)
LEMMA CrashFiles == ASSUME FilesInv, McCrash PROVE FilesInv'
<1>1. /\ mcFiles' = mcFiles /\ mcStored' = mcStored /\ mcTime' = mcTime + 1
      /\ mcOp' = [p \in McProcs |-> McIdle]
  BY Zenon DEF McCrash
<1>2. /\ mcFiles \in Seq([time : Nat, ver : Nat, whole : BOOLEAN]) /\ mcTime \in Nat
      /\ \A i \in 1..Len(mcFiles) : mcFiles[i].time <= mcTime
      /\ \A i, j \in 1..Len(mcFiles) : i <= j => mcFiles[i].time <= mcFiles[j].time
  BY Zenon DEF FilesInv, FilesSorted
<1>3. \A i \in 1..Len(mcFiles) : mcFiles[i].time \in Nat
  <2> DEFINE F == [time : Nat, ver : Nat, whole : BOOLEAN]
  <2>1. \A r \in F : r.time \in Nat
    BY Zenon
  <2>2. mcFiles \in Seq(F)
    BY Zenon, <1>2
  <2> HIDE DEF F
  <2>3. \A i \in 1..Len(mcFiles) : mcFiles[i] \in F
    BY <2>2
  <2>4. QED BY Zenon, <2>1, <2>3
<1>4. \A t \in Nat : t <= mcTime => t <= mcTime'
  BY <1>1, <1>2
<1>5. FilesSorted'
  <2>1. mcTime' \in Nat
    BY <1>1, <1>2
  <2>2. QED BY Zenon, <2>1, <1>1, <1>2, <1>3, <1>4 DEF FilesSorted
<1>6. StoredIsThere'
  BY Zenon, <1>1, <1>3, <1>4 DEF FilesInv, StoredIsThere
<1>7. \A q \in McProcs : StoringOK(mcOp[q])'
  <2>1. McIdle.pc # "fill" /\ McIdle.pc # "purge"
    BY McIdleOK
  <2>2. QED BY Zenon, <2>1, <1>1 DEF StoringOK
<1>8. QED BY Zenon, <1>5, <1>6, <1>7 DEF FilesInv

(* Every step keeps the files as they should be. *)
LEMMA FilesNext == ASSUME McInv, McInv', FilesInv, McNext PROVE FilesInv'
<1>1. ASSUME NEW k \in McKinds \cup {"options"}, McChange(k) \/ McSubscribe(k) PROVE FilesInv'
  <2>1. mcOp' = mcOp /\ UNCHANGED mcDisk
    BY Zenon, <1>1 DEF McChange, McSubscribe
  <2>2. UNCHANGED <<mcFiles, mcTime, mcStored>>
    BY <2>1 DEF mcDisk
  <2>3. QED BY Zenon, <2>1, <2>2, FilesKept
<1>2. ASSUME NEW k \in McKinds, McObserve(k) PROVE FilesInv'
  <2>1. PICK op : op = [McIdle EXCEPT !.pc = "load", !.job = "refresh", !.kind = k]
    BY Zenon
  <2>2. Goes(k, op) /\ UNCHANGED mcDisk
    BY Zenon, <1>2, <2>1 DEF McObserve
  <2>3. UNCHANGED <<mcFiles, mcTime, mcStored>> /\ op.pc # "fill" /\ op.pc # "purge"
    BY Zenon, <2>1, <2>2 DEF mcDisk, McIdle
  <2>4. QED BY Zenon, <2>2, <2>3, FilesGoes, McProcsFacts
<1>3. ASSUME NEW p \in McProcs, McLoad(p) PROVE FilesInv'
  <2>1. PICK op : op = [mcOp[p] EXCEPT !.got = mcCfg[mcOp[p].kind],
                     !.pc = IF /\ mcOp[p].kind = "plan" /\ mcCache["plan"] # mcCfg[mcOp[p].kind]
                               /\ IsStablePlan(mcCfg[mcOp[p].kind].val)
                            THEN "create" ELSE "keep"]
    BY Zenon
  <2>2. Goes(p, op) /\ UNCHANGED mcDisk
    BY Zenon, <1>3, <2>1 DEF McLoad
  <2>3. DOMAIN mcOp[p] = McFields
    BY Zenon DEF McInv, McTypes, OpOK
  <2>4. UNCHANGED <<mcFiles, mcTime, mcStored>> /\ op.pc # "fill" /\ op.pc # "purge"
    BY Zenon, <2>1, <2>2, <2>3 DEF mcDisk, McFields
  <2>5. QED BY Zenon, <2>2, <2>4, FilesGoes
<1>4. ASSUME NEW p \in McProcs, McLoadFails(p) \/ McKeep(p) PROVE FilesInv'
  <2>1. mcLock' = Nobody /\ UNCHANGED mcDisk
    BY Zenon, <1>4 DEF McLoadFails, McKeep
  <2>2. UNCHANGED <<mcFiles, mcTime, mcStored>>
    BY Zenon, <2>1 DEF mcDisk
  <2>3. QED BY Zenon, <2>1, <2>2, FilesFree
<1>5. ASSUME NEW p \in McProcs, McReturn(p) PROVE FilesInv'
  <2>1. Goes(p, McIdle) /\ UNCHANGED mcDisk
    BY Zenon, <1>5 DEF McReturn
  <2>2. UNCHANGED <<mcFiles, mcTime, mcStored>> /\ McIdle.pc # "fill" /\ McIdle.pc # "purge"
    BY Zenon, <2>1, McIdleOK DEF mcDisk
  <2>3. QED BY Zenon, <2>1, <2>2, FilesGoes
<1>6. ASSUME NEW p \in McProcs, McFillFails(p) \/ McPurgeEnds(p) PROVE FilesInv'
  <2>1. PICK op : op = [mcOp[p] EXCEPT !.pc = "keep"]
    BY Zenon
  <2>2. Goes(p, op) /\ UNCHANGED mcDisk
    BY Zenon, <1>6, <2>1 DEF McFillFails, McPurgeEnds
  <2>3. DOMAIN mcOp[p] = McFields
    BY Zenon DEF McInv, McTypes, OpOK
  <2>4. UNCHANGED <<mcFiles, mcTime, mcStored>> /\ op.pc # "fill" /\ op.pc # "purge"
    BY <2>1, <2>2, <2>3 DEF mcDisk, McFields
  <2>5. QED BY Zenon, <2>2, <2>4, FilesGoes
<1>7. ASSUME NEW c \in McClients,
             McQuery(c) \/ McRead(c, "nodes") \/ McRead(c, "plan") \/ McClassify(c) \/ McCache(c)
      PROVE  FilesInv'
  <2>1. mcLock' = Nobody /\ UNCHANGED mcDisk
    BY Zenon, <1>7 DEF McQuery, McRead, McClassify, McCache
  <2>2. UNCHANGED <<mcFiles, mcTime, mcStored>>
    BY Zenon, <2>1 DEF mcDisk
  <2>3. QED BY Zenon, <2>1, <2>2, FilesFree
<1>8. ASSUME NEW c \in McClients, NEW k \in McKinds, McForce(c, k) PROVE FilesInv'
  <2>1. PICK op : op = [McIdle EXCEPT !.pc = "load", !.job = "force", !.kind = k, !.since = mcCfg[k].ver]
    BY Zenon
  <2>2. Goes(c, op) /\ UNCHANGED mcDisk
    BY Zenon, <1>8, <2>1 DEF McForce
  <2>3. UNCHANGED <<mcFiles, mcTime, mcStored>> /\ op.pc # "fill" /\ op.pc # "purge"
    BY Zenon, <2>1, <2>2 DEF mcDisk, McIdle
  <2>4. QED BY Zenon, <2>2, <2>3, FilesGoes, McProcsFacts
<1>9. CASE McRegister
  <2>1. mcLock' = Nobody /\ UNCHANGED mcDisk
    BY Zenon, <1>9 DEF McRegister
  <2>2. UNCHANGED <<mcFiles, mcTime, mcStored>>
    BY Zenon, <2>1 DEF mcDisk
  <2>3. QED BY Zenon, <2>1, <2>2, FilesFree
<1>10. CASE McReadOptions
  <2>1. PICK op : op = [McIdle EXCEPT !.pc = "options", !.since = mcSet]
    BY Zenon
  <2>2. Goes("defs", op) /\ UNCHANGED mcDisk
    BY Zenon, <1>10, <2>1 DEF McReadOptions
  <2>3. UNCHANGED <<mcFiles, mcTime, mcStored>> /\ op.pc # "fill" /\ op.pc # "purge"
    BY Zenon, <2>1, <2>2 DEF mcDisk, McIdle
  <2>4. QED BY Zenon, <2>2, <2>3, FilesGoes, McProcsFacts
<1>11. CASE RefreshOptions
  <2>1. Goes("defs", McIdle) /\ UNCHANGED mcDisk
    BY Zenon, <1>11 DEF RefreshOptions
  <2>2. UNCHANGED <<mcFiles, mcTime, mcStored>> /\ McIdle.pc # "fill" /\ McIdle.pc # "purge"
    BY Zenon, <2>1, McIdleOK DEF mcDisk
  <2>3. QED BY Zenon, <2>1, <2>2, FilesGoes, McProcsFacts
<1>12. CASE McSetOptions(TRUE) \/ McSetOptions(FALSE) \/ McSetOptionFails
  <2>1. mcOp' = mcOp /\ UNCHANGED mcDisk
    BY Zenon, <1>12 DEF McSetOptions, McSetOptionFails
  <2>2. UNCHANGED <<mcFiles, mcTime, mcStored>>
    BY Zenon, <2>1 DEF mcDisk
  <2>3. QED BY Zenon, <2>1, <2>2, FilesKept
<1>13. ASSUME NEW p \in McProcs, McCreate(p) \/ McFill(p) \/ McPurge(p) PROVE FilesInv'
  BY Zenon, <1>13, CreateFiles, FillFiles, PurgeFiles
<1>14. QED BY Zenon, <1>1, <1>2, <1>3, <1>4, <1>5, <1>6, <1>7, <1>8, <1>9, <1>10, <1>11, <1>12, <1>13,
                     CrashFiles DEF McNext

(* Through crashes, failed writes and removals, a plan that was stored can *)
(* be recovered until a later one is (manager.go:1167-1228, 1280-1349).    *)
THEOREM StoredPlanIsRecoverable == McSpec => []RecoveryPlanIsLatest
<1>1. McInit => FilesInv
  <2> SUFFICES ASSUME McInit PROVE FilesInv
    OBVIOUS
  <2>1. mcFiles = <<>> /\ mcTime = 1 /\ mcStored = McNil /\ mcOp = [p \in McProcs |-> McIdle]
    BY Zenon DEF McInit
  <2>2. FilesSorted
    BY <2>1 DEF FilesSorted
  <2>3. StoredIsThere
    BY Zenon, <2>1 DEF StoredIsThere
  <2>4. \A q \in McProcs : StoringOK(mcOp[q])
    BY Zenon, <2>1, McIdleOK
  <2>5. QED BY Zenon, <2>2, <2>3, <2>4 DEF FilesInv
<1>2. McInv /\ McInv' /\ FilesInv /\ [McNext]_mcVars => FilesInv'
  <2>1. ASSUME FilesInv, UNCHANGED mcVars PROVE FilesInv'
    <3>1. mcOp' = mcOp /\ UNCHANGED mcDisk
      BY Zenon, <2>1 DEF mcVars
    <3>2. UNCHANGED <<mcFiles, mcTime, mcStored>>
      BY Zenon, <3>1 DEF mcDisk
    <3>3. QED BY Zenon, <2>1, <3>1, <3>2, FilesKept
  <2>2. QED BY Zenon, <2>1, FilesNext
<1>3. ASSUME FilesInv PROVE RecoveryPlanIsLatest
  <2> DEFINE whole == {i \in 1..Len(mcFiles) : mcFiles[i].whole}
             F == [time : Nat, ver : Nat, whole : BOOLEAN]
  <2>1. SUFFICES ASSUME mcStored # McNil
                 PROVE  /\ GetStableLocalPlanPIndexes # McNil
                        /\ GetStableLocalPlanPIndexes.time = mcStored.time
    BY Zenon DEF RecoveryPlanIsLatest
  <2>2. PICK i \in 1..Len(mcFiles) : mcFiles[i].whole /\ mcFiles[i].time = mcStored.time
    BY Zenon, <1>3, <2>1 DEF FilesInv, StoredIsThere
  <2>3. i \in whole
    BY Zenon, <2>2
  <2>4. mcFiles \in Seq(F) /\ Len(mcFiles) \in Nat
    BY <1>3 DEF FilesInv, FilesSorted
  <2>5. Max(whole) \in whole /\ \A j \in whole : j <= Max(whole)
    <3>1. whole \subseteq 1..Len(mcFiles) /\ whole # {}
      BY Zenon, <2>3
    <3> HIDE DEF whole
    <3>2. QED BY Zenon, <3>1, <2>4, LastIndex
  <2> DEFINE m == Max(whole)
  <2> HIDE DEF m
  <2>6. m \in 1..Len(mcFiles) /\ mcFiles[m].whole /\ i <= m
    BY Zenon, <2>3, <2>5 DEF m
  <2>7. \A j \in 1..Len(mcFiles) : mcFiles[j] \in F
    <3> HIDE DEF F
    <3>1. QED BY <2>4
  <2>8. \A r \in F : r.time \in Nat /\ r.ver \in Nat
    BY Zenon
  <2> HIDE DEF F
  <2>9. mcFiles[m].time \in Nat /\ mcFiles[m].ver \in Nat /\ mcFiles[i].time \in Nat
    BY Zenon, <2>6, <2>7, <2>8
  <2>10. mcFiles[i].time <= mcFiles[m].time /\ mcFiles[m].time <= mcStored.time
    BY Zenon, <1>3, <2>1, <2>6 DEF FilesInv, FilesSorted, StoredIsThere
  <2>11. mcFiles[m].time = mcStored.time
    BY <2>2, <2>9, <2>10
  <2>12. GetStableLocalPlanPIndexes = [time |-> mcFiles[m].time, ver |-> mcFiles[m].ver]
    BY Zenon, <2>3 DEF GetStableLocalPlanPIndexes, m
  <2>13. [time |-> mcFiles[m].time, ver |-> mcFiles[m].ver] \in [time : Nat, ver : Nat]
    BY Zenon, <2>9
  <2>14. GetStableLocalPlanPIndexes.time = mcFiles[m].time
    BY Zenon, <2>12
  <2>15. QED BY Zenon, <2>11, <2>12, <2>13, <2>14, McNames
<1>4. QED BY <1>1, <1>2, <1>3, McInvariant, PTL DEF McSpec
-----------------------------------------------------------------------------
(* A node that serves is at least as good as another. *)
Better(b, n, plan) == plan[b] < plan[n] \/ (plan[b] = plan[n] /\ (n = McSelf => b = n))

(* One that takes the place of the best so far is as good as all before;  *)
(* one that does not is no better than the best.                          *)
LEMMA BetterStep ==
    ASSUME NEW plan \in McPlans, NEW b \in McNodes, NEW o \in McNodes, NEW n \in McNodes
    PROVE  /\ Better(o, o, plan)
           /\ Preferred(o, b, plan) /\ Better(b, n, plan) => Better(o, n, plan)
           /\ ~Preferred(o, b, plan) => Better(b, o, plan)
<1>1. plan[b] \in {0, 1, NotHere} /\ plan[o] \in {0, 1, NotHere} /\ plan[n] \in {0, 1, NotHere}
  BY Zenon, McAssumption
<1>2. plan[b] \in Nat /\ plan[o] \in Nat /\ plan[n] \in Nat
  BY <1>1 DEF NotHere
<1>3. b # Missing
  BY Zenon, McMissing
<1>4. Preferred(o, b, plan) <=> plan[o] < plan[b] \/ (plan[o] = plan[b] /\ o = McSelf)
  BY Zenon, <1>3 DEF Preferred
<1>5. QED BY <1>2, <1>4 DEF Better

(* The loop of ClassifyPIndexes: at every round it has the best of the     *)
(* nodes it has looked at, Missing if none of them serves.                 *)
BestOf(b, i, nodes, plan, order) ==
    \/ b = Missing /\ \A j \in 1..i : ~Serves(order[j], nodes, plan)
    \/ /\ b \in McNodes /\ Serves(b, nodes, plan)
       /\ \A j \in 1..i : Serves(order[j], nodes, plan) => Better(b, order[j], plan)
Round(i, b, nodes, plan, order) ==
    IF Serves(order[i], nodes, plan) /\ Preferred(order[i], b, plan) THEN order[i] ELSE b
Rounds(f, n, nodes, plan, order) ==
    f = [i \in 0..n |-> IF i = 0 THEN Missing ELSE Round(i, f[i - 1], nodes, plan, order)]

(* A round. *)
LEMMA RoundOK ==
    ASSUME NEW nodes, NEW plan \in McPlans, NEW n \in Nat, NEW order \in [1..n -> McNodes],
           NEW i \in 1..n, NEW b, BestOf(b, i - 1, nodes, plan, order)
    PROVE  BestOf(Round(i, b, nodes, plan, order), i, nodes, plan, order)
<1> DEFINE o == order[i]
           r == Round(i, b, nodes, plan, order)
<1>1. o \in McNodes /\ Missing \notin McNodes
  BY Zenon, McMissing
<1>2. \A j \in 1..i : j \in 1..n /\ (j = i \/ j \in 1..(i - 1))
  OBVIOUS
<1>3. \A j \in 1..i : order[j] \in McNodes
  BY Zenon, <1>2
<1> HIDE DEF r
<1>4. CASE Serves(o, nodes, plan) /\ Preferred(o, b, plan)
  <2>1. r = o
    BY Zenon, <1>4 DEF r, Round
  <2>2. CASE b = Missing /\ \A j \in 1..(i - 1) : ~Serves(order[j], nodes, plan)
    <3>1. ASSUME NEW j \in 1..i, Serves(order[j], nodes, plan) PROVE Better(o, order[j], plan)
      <4>1. j = i
        BY Zenon, <1>2, <2>2, <3>1
      <4>2. QED BY Zenon, <4>1, <1>1, BetterStep
    <3>2. QED BY Zenon, <3>1, <2>1, <1>1, <1>4 DEF BestOf, r
  <2>3. CASE /\ b \in McNodes
             /\ \A j \in 1..(i - 1) : Serves(order[j], nodes, plan) => Better(b, order[j], plan)
    <3>1. ASSUME NEW j \in 1..i, Serves(order[j], nodes, plan) PROVE Better(o, order[j], plan)
      <4>1. CASE j = i
        BY Zenon, <4>1, <1>1, BetterStep
      <4>2. CASE j # i
        <5>1. Better(b, order[j], plan)
          BY Zenon, <4>2, <1>2, <2>3, <3>1
        <5>2. QED BY Zenon, <5>1, <1>1, <1>3, <1>4, <2>3, BetterStep
      <4>3. QED BY Zenon, <4>1, <4>2
    <3>2. QED BY Zenon, <3>1, <2>1, <1>1, <1>4 DEF BestOf, r
  <2>4. QED BY Zenon, <2>2, <2>3 DEF BestOf
<1>5. CASE ~(Serves(o, nodes, plan) /\ Preferred(o, b, plan))
  <2>1. r = b
    BY Zenon, <1>5 DEF r, Round
  <2>2. CASE b = Missing /\ \A j \in 1..(i - 1) : ~Serves(order[j], nodes, plan)
    <3>1. ~Serves(o, nodes, plan)
      BY Zenon, <1>5, <2>2 DEF Preferred
    <3>2. \A j \in 1..i : ~Serves(order[j], nodes, plan)
      BY Zenon, <1>2, <2>2, <3>1
    <3>3. QED BY Zenon, <3>2, <2>1, <2>2 DEF BestOf, r
  <2>3. CASE /\ b \in McNodes /\ Serves(b, nodes, plan)
             /\ \A j \in 1..(i - 1) : Serves(order[j], nodes, plan) => Better(b, order[j], plan)
    <3>1. ASSUME NEW j \in 1..i, Serves(order[j], nodes, plan) PROVE Better(b, order[j], plan)
      <4>1. CASE j = i
        BY Zenon, <4>1, <3>1, <1>1, <1>5, <2>3, BetterStep
      <4>2. CASE j # i
        BY Zenon, <4>2, <1>2, <2>3, <3>1
      <4>3. QED BY Zenon, <4>1, <4>2
    <3>2. QED BY Zenon, <3>1, <2>1, <2>3 DEF BestOf, r
  <2>4. QED BY Zenon, <2>2, <2>3 DEF BestOf
<1>6. QED BY Zenon, <1>4, <1>5

(* The rounds define a function: one of fewer rounds can be extended. *)
LEMMA RoundsExist ==
    ASSUME NEW nodes, NEW plan, NEW order, NEW n \in Nat
    PROVE  \E f : Rounds(f, n, nodes, plan, order)
<1> DEFINE R(i, b) == Round(i, b, nodes, plan, order)
           Is(f, m) == f = [i \in 0..m |-> IF i = 0 THEN Missing ELSE R(i, f[i - 1])]
           T == {m \in Nat : ~ \E f : Is(f, m)}
<1>1. SUFFICES ASSUME T # {} PROVE FALSE
  BY Zenon DEF Rounds
<1>2. PICK x \in T : \A y \in T : ~(<<y, x>> \in OpToRel(<, Nat))
  <2>1. T \subseteq Nat
    BY Zenon
  <2> HIDE DEF T
  <2>2. QED BY Zenon, <1>1, <2>1, WFMin, NatLessThanWellFounded
<1>3. x \in Nat /\ ~ \E f : Is(f, x)
  BY Zenon
<1>4. \A y \in T : ~(y < x)
  <2>1. T \subseteq Nat
    BY Zenon
  <2> HIDE DEF T
  <2>2. \A y \in T : y \in Nat /\ ~(<<y, x>> \in OpToRel(<, Nat))
    BY Zenon, <1>2, <2>1
  <2>3. QED BY Zenon, <1>3, <2>2 DEF OpToRel
<1> HIDE DEF R
<1>5. CASE x = 0
  <2> DEFINE f == [i \in 0..0 |-> Missing]
  <2>1. f = [i \in 0..0 |-> IF i = 0 THEN Missing ELSE R(i, f[i - 1])]
    OBVIOUS
  <2>2. Is(f, 0)
    BY Zenon, <2>1
  <2>3. QED BY Zenon, <2>2, <1>3, <1>5
<1>6. CASE x # 0
  <2>1. x - 1 \in Nat /\ x - 1 < x
    BY <1>3, <1>6
  <2>2. x - 1 \notin T
    BY Zenon, <2>1, <1>4
  <2>3. PICK f : Is(f, x - 1)
    BY Zenon, <2>1, <2>2
  <2> DEFINE g == [i \in 0..x |-> IF i = x THEN R(x, f[x - 1]) ELSE f[i]]
  <2>4. \A i \in 0..(x - 1) : f[i] = IF i = 0 THEN Missing ELSE R(i, f[i - 1])
    BY Zenon, <2>3
  <2>5. \A i \in 0..x : i # x => i \in 0..(x - 1) /\ (i # 0 => i - 1 \in 0..x /\ i - 1 # x)
    BY <1>3
  <2>6. x \in 0..x /\ x - 1 \in 0..x /\ x - 1 # x
    BY <1>3, <2>1
  <2>7. ASSUME NEW i \in 0..x PROVE g[i] = IF i = 0 THEN Missing ELSE R(i, g[i - 1])
    <3>1. CASE i = x
      <4>1. g[x] = R(x, f[x - 1])
        BY Zenon, <2>6
      <4>2. g[x - 1] = f[x - 1]
        BY Zenon, <2>6
      <4> HIDE DEF g
      <4>3. QED BY Zenon, <4>1, <4>2, <3>1, <1>6
    <3>2. CASE i # x
      <4>1. g[i] = f[i] /\ f[i] = IF i = 0 THEN Missing ELSE R(i, f[i - 1])
        BY Zenon, <2>4, <2>5, <3>2
      <4>2. i # 0 => g[i - 1] = f[i - 1]
        BY Zenon, <2>5, <3>2
      <4> HIDE DEF g
      <4>3. QED BY Zenon, <4>1, <4>2
    <3>3. QED BY Zenon, <3>1, <3>2
  <2>8. Is(g, x)
    <3>1. g = [i \in 0..x |-> g[i]]
      BY Zenon
    <3> HIDE DEF g
    <3>2. [i \in 0..x |-> g[i]] = [i \in 0..x |-> IF i = 0 THEN Missing ELSE R(i, g[i - 1])]
      BY <2>7
    <3>3. QED BY Zenon, <3>1, <3>2
  <2>9. QED BY Zenon, <2>8, <1>3
<1>7. QED BY Zenon, <1>5, <1>6

(* Whatever the order of the Go map, ClassifyPIndexes finds a right cover. *)
LEMMA ClassifyRight ==
    ASSUME NEW nodes, NEW plan \in McPlans, NEW order \in Bijection(1..Cardinality(McNodes), McNodes)
    PROVE  RightCover(ClassifyPIndexes(nodes, plan, order), nodes, plan)
<1> DEFINE n == Cardinality(McNodes)
           best == CHOOSE f : f = [i \in 0..Len(order) |->
                      IF i = 0 THEN Missing ELSE Round(i, f[i - 1], nodes, plan, order)]
<1>1. n \in Nat
  BY Zenon, McMissing
<1>2. order \in [1..n -> McNodes] /\ \A m \in McNodes : \E j \in 1..n : order[j] = m
  BY Zenon DEF Bijection, Injection, Surjection
<1>3. Len(order) = n
  <2> HIDE DEF n
  <2>1. QED BY <1>1, <1>2
<1>4. ClassifyPIndexes(nodes, plan, order) = best[Len(order)]
  BY Zenon DEF ClassifyPIndexes, Round
<1>5. best = [i \in 0..Len(order) |-> IF i = 0 THEN Missing ELSE Round(i, best[i - 1], nodes, plan, order)]
  <2>1. \E f : Rounds(f, n, nodes, plan, order)
    BY Zenon, <1>1, RoundsExist
  <2>2. \E f : Rounds(f, Len(order), nodes, plan, order)
    BY Zenon, <2>1, <1>3
  <2>3. QED BY Zenon, <2>2 DEF Rounds
<1> HIDE DEF best
<1>6. best = [i \in 0..n |-> IF i = 0 THEN Missing ELSE Round(i, best[i - 1], nodes, plan, order)]
  BY Zenon, <1>3, <1>5
<1>7. \A i \in 0..n : best[i] = IF i = 0 THEN Missing ELSE Round(i, best[i - 1], nodes, plan, order)
  BY Zenon, <1>6
<1> HIDE DEF n
<1>8. BestOf(best[n], n, nodes, plan, order)
  <2> DEFINE T == {i \in Nat : i <= n /\ ~BestOf(best[i], i, nodes, plan, order)}
  <2>1. SUFFICES ASSUME T # {} PROVE FALSE
    BY <1>1
  <2>2. T \subseteq Nat
    BY Zenon
  <2>3. PICK x \in T : \A y \in T : ~(<<y, x>> \in OpToRel(<, Nat))
    <3> HIDE DEF T
    <3>1. QED BY Zenon, <2>1, <2>2, WFMin, NatLessThanWellFounded
  <2>4. x \in Nat /\ x <= n /\ ~BestOf(best[x], x, nodes, plan, order)
    BY Zenon
  <2>5. \A y \in T : ~(y < x)
    <3> HIDE DEF T
    <3>1. \A y \in T : y \in Nat /\ ~(<<y, x>> \in OpToRel(<, Nat))
      BY Zenon, <2>2, <2>3
    <3>2. QED BY Zenon, <2>4, <3>1 DEF OpToRel
  <2>6. x \in 0..n
    BY <1>1, <2>4
  <2>7. CASE x = 0
    <3>1. best[x] = Missing
      BY Zenon, <2>6, <2>7, <1>7
    <3>2. \A j : j \notin 1..0
      OBVIOUS
    <3>3. QED BY Zenon, <3>1, <3>2, <2>4, <2>7 DEF BestOf
  <2>8. CASE x # 0
    <3>1. x \in 1..n /\ x - 1 \in Nat /\ x - 1 < x /\ x - 1 <= n
      BY <1>1, <2>4, <2>8
    <3>2. BestOf(best[x - 1], x - 1, nodes, plan, order)
      BY Zenon, <3>1, <2>5
    <3>3. best[x] = Round(x, best[x - 1], nodes, plan, order)
      BY Zenon, <2>6, <2>8, <1>7
    <3>4. BestOf(Round(x, best[x - 1], nodes, plan, order), x, nodes, plan, order)
      BY Zenon, <3>1, <3>2, <1>1, <1>2, RoundOK
    <3>5. QED BY Zenon, <3>3, <3>4, <2>4
  <2>9. QED BY Zenon, <2>7, <2>8
<1> DEFINE node == best[n]
           able == {m \in McNodes : Serves(m, nodes, plan)}
<1> HIDE DEF node
<1>9. RightCover(node, nodes, plan)
  <2>1. BestOf(node, n, nodes, plan, order)
    BY Zenon, <1>8 DEF node
  <2>2. CASE node = Missing /\ \A j \in 1..n : ~Serves(order[j], nodes, plan)
    <3>1. able = {}
      BY Zenon, <2>2, <1>2
    <3>2. QED BY Zenon, <2>2, <3>1 DEF RightCover
  <2>3. CASE /\ node \in McNodes /\ Serves(node, nodes, plan)
             /\ \A j \in 1..n : Serves(order[j], nodes, plan) => Better(node, order[j], plan)
    <3>1. node \in able /\ able # {}
      BY Zenon, <2>3
    <3>2. \A m \in able : Better(node, m, plan)
      BY Zenon, <2>3, <1>2
    <3>3. QED BY Zenon, <3>1, <3>2 DEF RightCover, Better
  <2>4. QED BY Zenon, <2>1, <2>2, <2>3 DEF BestOf
<1>10. QED BY Zenon, <1>3, <1>4, <1>9 DEF node

(* They are the same. *)
LEMMA RightIsRight ==
    ASSUME NEW node, NEW nodes, NEW plan
    PROVE  RightCover(node, nodes, plan) <=> Right(node, nodes, plan, mcPIndex)
    BY Zenon DEF RightCover, Right, Able, Serves

(* What is no query has nothing to get right. *)
LEMMA NoQuery == ASSUME NEW op, op.job # "query", NEW nodes, NEW plan, NEW here PROVE QueryOK(op, nodes, plan, here)
    BY Zenon DEF QueryOK

(* Steps of goroutines that leave the copies, the pindex and the cover. *)
LEMMA CoverSame ==
    ASSUME CoverInv, UNCHANGED <<mcCache, mcPIndex, mcCover, mcOp>>
    PROVE  CoverInv'
<1>1. QueriesOK'
  BY Zenon DEF CoverInv, QueriesOK
<1>2. CachedOK'
  BY Zenon DEF CoverInv, CachedOK
<1>3. QED BY Zenon, <1>1, <1>2 DEF CoverInv

(* One goes on. *)
LEMMA CoverGoes ==
    ASSUME McInv, CoverInv, UNCHANGED <<mcCache, mcPIndex, mcCover>>, NEW p \in McProcs, NEW op, Goes(p, op),
           QueryOK(op, mcCache["nodes"], mcCache["plan"], mcPIndex)
    PROVE  CoverInv'
<1>1. mcOp'[p] = op /\ \A q \in McProcs : q # p => mcOp'[q] = mcOp[q]
  BY Zenon, GoesOn DEF McInv, McTypes
<1>2. QueriesOK'
  <2>1. ASSUME NEW q \in McProcs PROVE QueryOK(mcOp'[q], mcCache["nodes"], mcCache["plan"], mcPIndex)
    BY Zenon, <1>1 DEF CoverInv, QueriesOK
  <2>2. QED BY Zenon, <2>1 DEF QueriesOK
<1>3. CachedOK'
  BY Zenon DEF CoverInv, CachedOK
<1>4. QED BY Zenon, <1>2, <1>3 DEF CoverInv

(* It goes on with the same load. *)
LEMMA CoverHolds ==
    ASSUME McInv, CoverInv, UNCHANGED <<mcCache, mcPIndex, mcCover>>, NEW p \in McProcs, NEW op, Goes(p, op),
           op.pc \in {"create", "fill", "purge", "keep"}, mcOp[p].pc = "load" \/ Holding(mcOp[p]),
           op.job = mcOp[p].job, op.kind = mcOp[p].kind, op.nodes = mcOp[p].nodes, op.overtaken = mcOp[p].overtaken
    PROVE  CoverInv'
<1>1. QueryOK(mcOp[p], mcCache["nodes"], mcCache["plan"], mcPIndex)
  BY Zenon DEF CoverInv, QueriesOK
<1>2. op.pc # "plan" /\ op.pc # "classify" /\ op.pc # "cover" /\ op.pc # "load"
  BY Zenon
<1>3. op.job = "query" /\ ~op.overtaken /\ op.kind = "plan" =>
         mcCache["nodes"] # McNil /\ op.nodes = mcCache["nodes"].val
  BY Zenon, <1>1 DEF QueryOK
<1>4. QueryOK(op, mcCache["nodes"], mcCache["plan"], mcPIndex)
  BY Zenon, <1>2, <1>3 DEF QueryOK
<1>5. QED BY Zenon, <1>4, CoverGoes

(* Whatever starts or ends without a query. *)
LEMMA CoverIdle ==
    ASSUME McInv, CoverInv, UNCHANGED <<mcCache, mcPIndex, mcCover>>, NEW p \in McProcs, NEW op, Goes(p, op),
           op.job # "query"
    PROVE  CoverInv'
    BY Zenon, NoQuery, CoverGoes

(* A refresh: no cover is cached, a query of another is overtaken, and one *)
(* that made it goes on with what is now the copy.                         *)
LEMMA KeepCover == ASSUME McInv, CoverInv, NEW p \in McProcs, McKeep(p) PROVE CoverInv'
<1> DEFINE op == mcOp[p]
           res == Loaded(op)
<1>1. /\ op.pc = "keep" /\ mcCache' = [mcCache EXCEPT ![op.kind] = op.got] /\ mcCover' = McNil
      /\ mcOp' = [Overtake EXCEPT ![p] = res]
  BY Zenon DEF McKeep, Invalidate
<1>2. OpOK(p, op) /\ Holding(op) /\ QueryOK(op, mcCache["nodes"], mcCache["plan"], mcPIndex)
  <2>1. Holding(op)
    BY Zenon, <1>1 DEF Holding
  <2>2. QED BY Zenon, <2>1 DEF McInv, McTypes, CoverInv, QueriesOK
<1>3. /\ DOMAIN op = McFields /\ op.kind \in McKinds /\ op.got \in McRecord(op.kind) /\ op.got # McNil
      /\ op.job \in {"refresh", "force", "query"} /\ (op.job = "query" => op.kind \in {"nodes", "plan"})
  <2>1. /\ DOMAIN op = McFields /\ op.kind \in McKinds /\ op.got \in McRecord(op.kind)
        /\ (op.job = "query" => op.kind \in {"nodes", "plan"})
        /\ p \in McKinds => op.job = "refresh"
        /\ p \notin McKinds => op.job \in {"force", "query"}
    BY Zenon, <1>2 DEF OpOK
  <2>2. op.got # McNil
    BY Zenon, <2>1, McNames
  <2>3. QED BY Zenon, <2>1, <2>2
<1>4. /\ DOMAIN mcCache = McKinds /\ mcCache'[op.kind] = op.got
      /\ \A k \in McKinds : k # op.kind => mcCache'[k] = mcCache[k]
  <2>1. DOMAIN mcCache = McKinds
    BY Zenon DEF McInv, McTypes
  <2> HIDE DEF op
  <2>2. QED BY Zenon, <2>1, <1>1, <1>3
<1>5. mcOp'[p] = res /\ \A q \in McProcs : q # p => mcOp'[q] = Overtake[q]
  <2>1. DOMAIN Overtake = McProcs
    BY Zenon DEF Overtake
  <2> HIDE DEF res
  <2>2. QED BY Zenon, <1>1, <2>1
<1>6. ASSUME NEW q \in McProcs, q # p PROVE QueryOK(mcOp'[q], mcCache'["nodes"], mcCache'["plan"], mcPIndex')
  <2>1. mcOp'[q] = Overtake[q]
    BY Zenon, <1>5, <1>6
  <2>2. Overtake[q].job = "query" => Overtake[q].overtaken
    BY Zenon, OvertakeOK DEF McInv
  <2>3. QED BY Zenon, <2>1, <2>2 DEF QueryOK
<1> HIDE DEF op
<1>7. QueryOK(res, mcCache'["nodes"], mcCache'["plan"], mcPIndex')
  <2>1. CASE op.job = "refresh"
    <3>1. res = McIdle
      BY Zenon, <2>1, LoadedCases
    <3>2. res.job # "query"
      BY Zenon, <3>1, McIdleOK
    <3>3. QED BY Zenon, <3>2, NoQuery
  <2>2. CASE op.job = "force"
    <3>1. res = [op EXCEPT !.pc = "got"]
      BY Zenon, <2>2, LoadedCases
    <3> HIDE DEF res
    <3>2. res.job # "query"
      BY Zenon, <3>1, <2>2, <1>3 DEF McFields
    <3>3. QED BY Zenon, <3>2, NoQuery
  <2>3. CASE op.job = "query" /\ op.kind = "nodes"
    <3>1. res = [op EXCEPT !.pc = "plan", !.kind = "none", !.got = McNil, !.nodes = op.got.val]
      BY Zenon, <2>3, LoadedCases
    <3> HIDE DEF res
    <3>2. res.pc = "plan" /\ res.nodes = op.got.val /\ res.pc # "classify" /\ res.pc # "cover"
      BY <3>1, <1>3 DEF McFields
    <3>3. mcCache'["nodes"] # McNil /\ res.nodes = mcCache'["nodes"].val
      BY Zenon, <3>2, <2>3, <1>3, <1>4
    <3>4. QED BY Zenon, <3>2, <3>3 DEF QueryOK
  <2>4. CASE op.job = "query" /\ op.kind = "plan"
    <3>1. res = [op EXCEPT !.pc = "classify", !.kind = "none", !.got = McNil, !.plan = op.got.val]
      BY Zenon, <2>4, LoadedCases
    <3> HIDE DEF res
    <3>2. /\ res.pc = "classify" /\ res.plan = op.got.val /\ res.pc # "cover"
          /\ res.nodes = op.nodes /\ res.overtaken = op.overtaken
      BY <3>1, <1>3 DEF McFields
    <3>3. mcCache'["plan"] # McNil /\ res.plan = mcCache'["plan"].val
      BY Zenon, <3>2, <2>4, <1>3, <1>4
    <3>4. mcCache'["nodes"] = mcCache["nodes"]
      <4>1. "nodes" \in McKinds /\ "nodes" # op.kind
        BY Zenon, <2>4 DEF McKinds
      <4>2. QED BY Zenon, <4>1, <1>4
    <3>5. ~op.overtaken => mcCache["nodes"] # McNil /\ op.nodes = mcCache["nodes"].val
      BY Zenon, <1>2, <2>4 DEF QueryOK
    <3>6. QED BY Zenon, <3>2, <3>3, <3>4, <3>5 DEF QueryOK
  <2>5. QED BY Zenon, <2>1, <2>2, <2>3, <2>4, <1>3
<1>8. QueriesOK'
  BY Zenon, <1>5, <1>6, <1>7 DEF QueriesOK
<1>9. CachedOK'
  BY Zenon, <1>1 DEF CachedOK
<1>10. QED BY Zenon, <1>8, <1>9 DEF CoverInv

(* The janitor overtakes whoever computes a cover, too. *)
LEMMA RegisterCover == ASSUME McInv, CoverInv, McRegister PROVE CoverInv'
<1>1. mcOp' = Overtake /\ mcCover' = McNil
  BY Zenon DEF McRegister, Invalidate
<1>2. ASSUME NEW q \in McProcs PROVE QueryOK(mcOp'[q], mcCache'["nodes"], mcCache'["plan"], mcPIndex')
  <2>1. mcOp'[q] = Overtake[q]
    BY Zenon, <1>1
  <2>2. Overtake[q].job = "query" => Overtake[q].overtaken
    BY Zenon, OvertakeOK DEF McInv
  <2>3. QED BY Zenon, <2>1, <2>2 DEF QueryOK
<1>3. QED BY Zenon, <1>1, <1>2 DEF CoverInv, QueriesOK, CachedOK

(* A query reads a copy: it has that copy, or goes to load it. *)
LEMMA ReadCover ==
    ASSUME McInv, CoverInv, NEW c \in McClients, NEW k, k = "nodes" \/ k = "plan", McRead(c, k)
    PROVE  CoverInv'
<1> DEFINE op == mcOp[c]
           lop == [op EXCEPT !.pc = "load", !.kind = k]
           gop == [op EXCEPT !.kind = k, !.got = mcCache[k]]
           new == IF mcCache[k] = McNil THEN lop ELSE Loaded(gop)
<1>1. op.pc = k /\ Goes(c, new) /\ UNCHANGED mcView /\ UNCHANGED mcQuery
  BY Zenon DEF McRead
<1>2. UNCHANGED <<mcCache, mcPIndex, mcCover>>
  BY Zenon, <1>1 DEF mcView, mcQuery
<1>3. c \in McProcs /\ OpOK(c, op) /\ QueryOK(op, mcCache["nodes"], mcCache["plan"], mcPIndex)
  BY Zenon, McProcsFacts DEF McInv, McTypes, CoverInv, QueriesOK
<1>4. DOMAIN op = McFields /\ op.job = "query"
  <2>1. op.pc \in {"nodes", "plan", "classify", "cover"}
    BY Zenon, <1>1
  <2>2. QED BY Zenon, <2>1, <1>3 DEF OpOK
<1>5. k = "plan" /\ ~op.overtaken => mcCache["nodes"] # McNil /\ op.nodes = mcCache["nodes"].val
  BY Zenon, <1>1, <1>3, <1>4 DEF QueryOK
<1>6. CASE mcCache[k] = McNil
  <2>1. new = lop
    BY Zenon, <1>6
  <2> HIDE DEF op
  <2>2. /\ lop.pc = "load" /\ lop.kind = k /\ lop.nodes = op.nodes /\ lop.overtaken = op.overtaken
        /\ lop.pc # "plan" /\ lop.pc # "classify" /\ lop.pc # "cover"
    BY Zenon, <1>4 DEF McFields
  <2>3. lop.kind = "plan" => k = "plan"
    BY Zenon, <2>2
  <2> HIDE DEF lop
  <2>4. QueryOK(lop, mcCache["nodes"], mcCache["plan"], mcPIndex)
    BY Zenon, <2>2, <2>3, <1>5 DEF QueryOK
  <2> HIDE DEF new
  <2>5. QED BY Zenon, <1>1, <1>2, <1>3, <2>1, <2>4, CoverGoes
<1>7. CASE mcCache[k] # McNil
  <2> DEFINE res == Loaded(gop)
  <2>1. new = res
    BY Zenon, <1>7
  <2> HIDE DEF op
  <2>2. /\ DOMAIN gop = McFields /\ gop.job = "query" /\ gop.kind = k /\ gop.got = mcCache[k]
        /\ gop.nodes = op.nodes /\ gop.overtaken = op.overtaken
    BY <1>4 DEF McFields
  <2> HIDE DEF gop
  <2>3. ASSUME k = "nodes" PROVE QueryOK(res, mcCache["nodes"], mcCache["plan"], mcPIndex)
    <3>1. res = [gop EXCEPT !.pc = "plan", !.kind = "none", !.got = McNil, !.nodes = gop.got.val]
      BY Zenon, <2>2, <2>3, LoadedCases
    <3> HIDE DEF res
    <3>2. res.pc = "plan" /\ res.nodes = gop.got.val /\ res.pc # "classify" /\ res.pc # "cover"
      BY Zenon, <3>1, <2>2 DEF McFields
    <3>3. mcCache["nodes"] # McNil /\ res.nodes = mcCache["nodes"].val
      BY Zenon, <3>2, <2>2, <2>3, <1>7
    <3>4. QED BY Zenon, <3>2, <3>3 DEF QueryOK
  <2>4. ASSUME k = "plan" PROVE QueryOK(res, mcCache["nodes"], mcCache["plan"], mcPIndex)
    <3>1. res = [gop EXCEPT !.pc = "classify", !.kind = "none", !.got = McNil, !.plan = gop.got.val]
      BY Zenon, <2>2, <2>4, LoadedCases
    <3> HIDE DEF res
    <3>2. /\ res.pc = "classify" /\ res.plan = gop.got.val /\ res.pc # "cover"
          /\ res.nodes = gop.nodes /\ res.overtaken = gop.overtaken
      BY Zenon, <3>1, <2>2 DEF McFields
    <3>3. mcCache["plan"] # McNil /\ res.plan = mcCache["plan"].val
      BY Zenon, <3>2, <2>2, <2>4, <1>7
    <3>4. QED BY Zenon, <3>2, <3>3, <2>2, <2>4, <1>5 DEF QueryOK
  <2>5. QueryOK(res, mcCache["nodes"], mcCache["plan"], mcPIndex)
    BY Zenon, <2>3, <2>4
  <2> HIDE DEF new, res
  <2>6. QED BY Zenon, <1>1, <1>2, <1>3, <2>1, <2>5, CoverGoes
<1>8. QED BY Zenon, <1>6, <1>7

(* A cover is computed, from the copies as they are unless it was overtaken. *)
LEMMA ClassifyCover == ASSUME McInv, CoverInv, NEW c \in McClients, McClassify(c) PROVE CoverInv'
<1> DEFINE op == mcOp[c]
<1>1. PICK order \in Bijection(1..Cardinality(McNodes), McNodes) :
         Goes(c, [op EXCEPT !.pc = "cover", !.nodes = {}, !.plan = McNil,
                            !.cover = ClassifyPIndexes(op.nodes, op.plan, order)])
  BY Zenon DEF McClassify
<1> DEFINE cover == ClassifyPIndexes(op.nodes, op.plan, order)
           new == [op EXCEPT !.pc = "cover", !.nodes = {}, !.plan = McNil, !.cover = cover]
<1>2. op.pc = "classify" /\ UNCHANGED mcView /\ UNCHANGED mcQuery
  BY Zenon DEF McClassify
<1>3. UNCHANGED <<mcCache, mcPIndex, mcCover>>
  BY Zenon, <1>2 DEF mcView, mcQuery
<1>4. c \in McProcs /\ OpOK(c, op) /\ QueryOK(op, mcCache["nodes"], mcCache["plan"], mcPIndex)
  BY Zenon, McProcsFacts DEF McInv, McTypes, CoverInv, QueriesOK
<1>5. DOMAIN op = McFields /\ op.job = "query"
  <2>1. op.pc \in {"nodes", "plan", "classify", "cover"}
    BY Zenon, <1>2
  <2>2. QED BY Zenon, <2>1, <1>4 DEF OpOK
<1>6. ASSUME ~op.overtaken PROVE Right(cover, mcCache["nodes"].val, mcCache["plan"].val, mcPIndex)
  <2>1. /\ mcCache["nodes"] # McNil /\ op.nodes = mcCache["nodes"].val
        /\ mcCache["plan"] # McNil /\ op.plan = mcCache["plan"].val
    BY Zenon, <1>2, <1>4, <1>5, <1>6 DEF QueryOK
  <2>2. "plan" \in McKinds /\ McValues["plan"] = McPlans
    BY Zenon DEF McKinds, McValues
  <2>3. mcCache["plan"] \in McRecord("plan")
    BY Zenon, <2>1, <2>2 DEF McInv, McTypes
  <2>4. mcCache["plan"].val \in McPlans
    BY Zenon, <2>2, <2>3 DEF McRecord
  <2>5. RightCover(cover, op.nodes, op.plan)
    BY Zenon, <2>1, <2>4, ClassifyRight
  <2>6. QED BY Zenon, <2>1, <2>5, RightIsRight
<1> HIDE DEF op, cover
<1>7. /\ new.pc = "cover" /\ new.cover = cover /\ new.overtaken = op.overtaken
      /\ new.pc # "plan" /\ new.pc # "classify" /\ new.pc # "load" /\ ~Holding(new)
  BY Zenon, <1>5 DEF McFields, Holding
<1>8. Goes(c, new)
  BY Zenon, <1>1 DEF op, cover
<1> HIDE DEF new
<1>9. QueryOK(new, mcCache["nodes"], mcCache["plan"], mcPIndex)
  BY Zenon, <1>6, <1>7 DEF QueryOK
<1>10. QED BY Zenon, <1>3, <1>4, <1>8, <1>9, CoverGoes

(* It is cached. *)
LEMMA CacheCover == ASSUME McInv, CoverInv, NEW c \in McClients, McCache(c) PROVE CoverInv'
<1> DEFINE op == mcOp[c]
           new == [node |-> op.cover, overtaken |-> op.overtaken]
<1>1. op.pc = "cover" /\ Goes(c, McIdle) /\ UNCHANGED mcView /\ mcCover' = new /\ mcPIndex' = mcPIndex
  BY Zenon DEF McCache
<1>2. mcCache' = mcCache
  BY Zenon, <1>1 DEF mcView
<1>3. c \in McProcs /\ OpOK(c, op) /\ QueryOK(op, mcCache["nodes"], mcCache["plan"], mcPIndex)
  BY Zenon, McProcsFacts DEF McInv, McTypes, CoverInv, QueriesOK
<1>4. op.job = "query"
  <2>1. op.pc \in {"nodes", "plan", "classify", "cover"}
    BY Zenon, <1>1
  <2>2. QED BY Zenon, <2>1, <1>3 DEF OpOK
<1>5. ~op.overtaken => Right(op.cover, mcCache["nodes"].val, mcCache["plan"].val, mcPIndex)
  BY Zenon, <1>1, <1>3, <1>4 DEF QueryOK
<1>6. new.node = op.cover /\ new.overtaken = op.overtaken
  BY Zenon
<1> HIDE DEF op, new
<1>7. CachedOK'
  BY Zenon, <1>1, <1>2, <1>5, <1>6 DEF CachedOK
<1>8. mcOp'[c] = McIdle /\ \A q \in McProcs : q # c => mcOp'[q] = mcOp[q]
  BY Zenon, <1>1, <1>3, GoesOn DEF McInv, McTypes
<1>9. ASSUME NEW q \in McProcs PROVE QueryOK(mcOp'[q], mcCache["nodes"], mcCache["plan"], mcPIndex)
  <2>1. McIdle.job # "query"
    BY Zenon, McIdleOK
  <2>2. CASE q = c
    BY Zenon, <2>1, <2>2, <1>8, NoQuery
  <2>3. CASE q # c
    BY Zenon, <2>3, <1>8 DEF CoverInv, QueriesOK
  <2>4. QED BY Zenon, <2>2, <2>3
<1>10. QueriesOK'
  BY Zenon, <1>1, <1>2, <1>9 DEF QueriesOK
<1>11. QED BY Zenon, <1>7, <1>10 DEF CoverInv

(* Every step keeps the queries and the cached cover right. *)
LEMMA CoverNext == ASSUME McInv, CoverInv, McNext PROVE CoverInv'
<1>1. ASSUME NEW k \in McKinds \cup {"options"}, McChange(k) \/ McSubscribe(k) PROVE CoverInv'
  <2>1. mcOp' = mcOp /\ mcCache' = mcCache /\ UNCHANGED mcQuery
    BY Zenon, <1>1 DEF McChange, McSubscribe
  <2>2. UNCHANGED <<mcCache, mcPIndex, mcCover, mcOp>>
    BY <2>1 DEF mcQuery
  <2>3. QED BY Zenon, <2>2, CoverSame
<1>2. ASSUME NEW k \in McKinds, McObserve(k) PROVE CoverInv'
  <2>1. PICK op : op = [McIdle EXCEPT !.pc = "load", !.job = "refresh", !.kind = k]
    BY Zenon
  <2>2. Goes(k, op) /\ mcCache' = mcCache /\ UNCHANGED mcQuery
    BY Zenon, <1>2, <2>1 DEF McObserve
  <2>3. UNCHANGED <<mcCache, mcPIndex, mcCover>> /\ op.job # "query"
    BY <2>1, <2>2 DEF mcQuery, McIdle
  <2>4. QED BY Zenon, <2>2, <2>3, CoverIdle, McProcsFacts
<1>3. ASSUME NEW p \in McProcs, McLoad(p) PROVE CoverInv'
  <2>1. PICK op : op = [mcOp[p] EXCEPT !.got = mcCfg[mcOp[p].kind],
                     !.pc = IF /\ mcOp[p].kind = "plan" /\ mcCache["plan"] # mcCfg[mcOp[p].kind]
                               /\ IsStablePlan(mcCfg[mcOp[p].kind].val)
                            THEN "create" ELSE "keep"]
    OBVIOUS
  <2>2. mcOp[p].pc = "load" /\ Goes(p, op) /\ mcCache' = mcCache /\ UNCHANGED mcQuery
    BY Zenon, <1>3, <2>1 DEF McLoad
  <2>3. DOMAIN mcOp[p] = McFields
    BY Zenon DEF McInv, McTypes, OpOK
  <2>4. UNCHANGED <<mcCache, mcPIndex, mcCover>>
    BY Zenon, <2>2 DEF mcQuery
  <2>5. /\ op.pc \in {"create", "fill", "purge", "keep"} /\ op.job = mcOp[p].job /\ op.kind = mcOp[p].kind
        /\ op.nodes = mcOp[p].nodes /\ op.overtaken = mcOp[p].overtaken
    BY <2>1, <2>3 DEF McFields
  <2>6. QED BY Zenon, <2>2, <2>4, <2>5, CoverHolds
<1>4. ASSUME NEW p \in McProcs, McLoadFails(p) \/ McReturn(p) PROVE CoverInv'
  <2>1. CASE McLoadFails(p)
    <3>1. Goes(p, McIdle) /\ mcCache' = mcCache /\ UNCHANGED mcQuery
      BY Zenon, <2>1 DEF McLoadFails
    <3>2. UNCHANGED <<mcCache, mcPIndex, mcCover>> /\ McIdle.job # "query"
      BY <3>1, McIdleOK DEF mcQuery
    <3>3. QED BY Zenon, <3>1, <3>2, CoverIdle
  <2>2. CASE McReturn(p)
    <3>1. Goes(p, McIdle) /\ UNCHANGED mcView /\ UNCHANGED mcQuery
      BY Zenon, <2>2 DEF McReturn
    <3>2. UNCHANGED <<mcCache, mcPIndex, mcCover>> /\ McIdle.job # "query"
      BY Zenon, <3>1, McIdleOK DEF mcQuery, mcView
    <3>3. QED BY Zenon, <3>1, <3>2, CoverIdle
  <2>3. QED BY Zenon, <1>4, <2>1, <2>2
<1>5. ASSUME NEW p \in McProcs, McCreate(p) \/ McFill(p) \/ McFillFails(p) \/ McPurgeEnds(p) PROVE CoverInv'
  <2>1. PICK pc \in {"fill", "purge", "keep"} : Goes(p, [mcOp[p] EXCEPT !.pc = pc])
    BY Zenon, <1>5 DEF McCreate, McFill, McFillFails, McPurgeEnds
  <2>2. PICK op : op = [mcOp[p] EXCEPT !.pc = pc]
    OBVIOUS
  <2>3. mcOp[p].pc \in {"create", "fill", "purge", "keep"} /\ UNCHANGED mcView /\ UNCHANGED mcQuery
    BY Zenon, <1>5 DEF McCreate, McFill, McFillFails, McPurgeEnds
  <2>4. DOMAIN mcOp[p] = McFields
    BY Zenon DEF McInv, McTypes, OpOK
  <2>5. UNCHANGED <<mcCache, mcPIndex, mcCover>>
    BY Zenon, <2>3 DEF mcView, mcQuery
  <2>6. /\ op.pc \in {"create", "fill", "purge", "keep"} /\ op.job = mcOp[p].job /\ op.kind = mcOp[p].kind
        /\ op.nodes = mcOp[p].nodes /\ op.overtaken = mcOp[p].overtaken
    BY Zenon, <2>2, <2>4 DEF McFields
  <2>7. Holding(mcOp[p])
    BY Zenon, <2>3 DEF Holding
  <2>8. Goes(p, op)
    BY Zenon, <2>1, <2>2
  <2>9. QED BY Zenon, <2>5, <2>6, <2>7, <2>8, CoverHolds
<1>6. ASSUME NEW p \in McProcs, McPurge(p) PROVE CoverInv'
  <2>1. mcOp' = mcOp /\ UNCHANGED mcView /\ UNCHANGED mcQuery
    BY Zenon, <1>6 DEF McPurge
  <2>2. UNCHANGED <<mcCache, mcPIndex, mcCover, mcOp>>
    BY Zenon, <2>1 DEF mcView, mcQuery
  <2>3. QED BY Zenon, <2>2, CoverSame
<1>7. ASSUME NEW c \in McClients, McQuery(c) PROVE CoverInv'
  <2>1. PICK new : new = [McIdle EXCEPT !.pc = "nodes", !.job = "query"]
    BY Zenon
  <2>2. (Goes(c, McIdle) \/ Goes(c, new)) /\ UNCHANGED mcView /\ UNCHANGED mcQuery
    BY Zenon, <1>7, <2>1 DEF McQuery
  <2>3. UNCHANGED <<mcCache, mcPIndex, mcCover>>
    BY Zenon, <2>2 DEF mcView, mcQuery
  <2>4. McIdle.job # "query"
    BY Zenon, McIdleOK
  <2>5. /\ new.pc # "plan" /\ new.pc # "classify" /\ new.pc # "cover" /\ new.pc # "load" /\ ~Holding(new)
    BY Zenon, <2>1 DEF McIdle, Holding
  <2>6. QueryOK(new, mcCache["nodes"], mcCache["plan"], mcPIndex)
    BY Zenon, <2>5 DEF QueryOK
  <2>7. QED BY Zenon, <2>2, <2>3, <2>4, <2>6, CoverIdle, CoverGoes, McProcsFacts
<1>8. ASSUME NEW c \in McClients, NEW k \in McKinds, McForce(c, k) PROVE CoverInv'
  <2>1. PICK op : op = [McIdle EXCEPT !.pc = "load", !.job = "force", !.kind = k, !.since = mcCfg[k].ver]
    BY Zenon
  <2>2. Goes(c, op) /\ UNCHANGED mcView /\ UNCHANGED mcQuery
    BY Zenon, <1>8, <2>1 DEF McForce
  <2>3. UNCHANGED <<mcCache, mcPIndex, mcCover>> /\ op.job # "query"
    BY <2>1, <2>2 DEF mcView, mcQuery, McIdle
  <2>4. QED BY Zenon, <2>2, <2>3, CoverIdle, McProcsFacts
<1>9. CASE McReadOptions
  <2>1. PICK op : op = [McIdle EXCEPT !.pc = "options", !.since = mcSet]
    BY Zenon
  <2>2. Goes("defs", op) /\ mcCache' = mcCache /\ UNCHANGED mcQuery
    BY Zenon, <1>9, <2>1 DEF McReadOptions
  <2>3. UNCHANGED <<mcCache, mcPIndex, mcCover>> /\ op.job # "query"
    BY <2>1, <2>2 DEF mcQuery, McIdle
  <2>4. QED BY Zenon, <2>2, <2>3, CoverIdle, McProcsFacts
<1>10. CASE RefreshOptions
  <2>1. Goes("defs", McIdle) /\ UNCHANGED mcView /\ UNCHANGED mcQuery
    BY Zenon, <1>10 DEF RefreshOptions
  <2>2. UNCHANGED <<mcCache, mcPIndex, mcCover>> /\ McIdle.job # "query"
    BY Zenon, <2>1, McIdleOK DEF mcView, mcQuery
  <2>3. QED BY Zenon, <2>1, <2>2, CoverIdle, McProcsFacts
<1>11. CASE McSetOptions(TRUE) \/ McSetOptions(FALSE) \/ McSetOptionFails
  <2>1. CASE McSetOptions(TRUE) \/ McSetOptions(FALSE)
    <3>1. mcOp' = mcOp /\ mcCache' = mcCache /\ UNCHANGED mcQuery
      BY Zenon, <2>1 DEF McSetOptions
    <3>2. UNCHANGED <<mcCache, mcPIndex, mcCover, mcOp>>
      BY Zenon, <3>1 DEF mcQuery
    <3>3. QED BY Zenon, <3>2, CoverSame
  <2>2. CASE McSetOptionFails
    <3>1. mcOp' = mcOp /\ UNCHANGED mcView /\ UNCHANGED mcQuery
      BY Zenon, <2>2 DEF McSetOptionFails
    <3>2. UNCHANGED <<mcCache, mcPIndex, mcCover, mcOp>>
      BY Zenon, <3>1 DEF mcQuery, mcView
    <3>3. QED BY Zenon, <3>2, CoverSame
  <2>3. QED BY Zenon, <1>11, <2>1, <2>2
<1>12. CASE McCrash
  <2>1. mcCover' = McNil /\ mcOp' = [p \in McProcs |-> McIdle]
    BY Zenon, <1>12 DEF McCrash
  <2>2. McIdle.job # "query"
    BY McIdleOK
  <2>3. QueriesOK'
    BY Zenon, <2>1, <2>2, NoQuery DEF QueriesOK
  <2>4. QED BY Zenon, <2>1, <2>3 DEF CoverInv, CachedOK
<1>13. ASSUME NEW p \in McProcs, McKeep(p) PROVE CoverInv'
  BY Zenon, <1>13, KeepCover
<1>14. ASSUME NEW c \in McClients, McRead(c, "nodes") \/ McRead(c, "plan") \/ McClassify(c) \/ McCache(c)
       PROVE  CoverInv'
  BY Zenon, <1>14, ReadCover, ClassifyCover, CacheCover
<1>15. CASE McRegister
  BY Zenon, <1>15, RegisterCover
<1>16. QED BY Zenon, <1>1, <1>2, <1>3, <1>4, <1>5, <1>6, <1>7, <1>8, <1>9, <1>10, <1>11, <1>12, <1>13,
                     <1>14, <1>15 DEF McNext

(* For any nodes, plans and order of the Go map, the cover that is cached  *)
(* is of the best nodes of the copies and pindexes as they are now, unless *)
(* its computation was overtaken (pindex.go:394-438, 479-568).             *)
THEOREM CachedCoverIsRight == McSpec => []CoverIsRight
<1>1. McInit => CoverInv
  <2> SUFFICES ASSUME McInit PROVE CoverInv
    OBVIOUS
  <2>1. mcCover = McNil /\ mcOp = [p \in McProcs |-> McIdle]
    BY Zenon DEF McInit
  <2>2. McIdle.job # "query"
    BY McIdleOK
  <2>3. QueriesOK
    BY Zenon, <2>1, <2>2, NoQuery DEF QueriesOK
  <2>4. QED BY Zenon, <2>1, <2>3 DEF CoverInv, CachedOK
<1>2. McInv /\ CoverInv /\ [McNext]_mcVars => CoverInv'
  <2>1. ASSUME CoverInv, UNCHANGED mcVars PROVE CoverInv'
    <3>1. mcOp' = mcOp /\ UNCHANGED mcView /\ UNCHANGED mcQuery
      BY Zenon, <2>1 DEF mcVars
    <3>2. UNCHANGED <<mcCache, mcPIndex, mcCover, mcOp>>
      BY Zenon, <3>1 DEF mcView, mcQuery
    <3>3. QED BY Zenon, <2>1, <3>2, CoverSame
  <2>2. QED BY Zenon, <2>1, CoverNext
<1>3. ASSUME CoverInv PROVE CoverIsRight
  BY Zenon, <1>3, RightIsRight DEF CoverInv, CachedOK, CoverIsRight
<1>4. QED BY <1>1, <1>2, <1>3, McInvariant, PTL DEF McSpec
============================================================================
