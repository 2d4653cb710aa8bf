------------------------------ MODULE IndexDefs ------------------------------
(***************************************************************************)
(* The index API (CreateIndexEx, DeleteIndexEx, IndexControl,              *)
(* BumpIndexDefs, DeleteAllIndexFromSource of manager_api.go) of several   *)
(* managers over one Cfg.  Each request reads the IndexDefs with their     *)
(* CAS, checks, and writes with that CAS, retrying on a CAS mismatch       *)
(* (RetryOnCASMismatch); create and delete then refresh the manager's own  *)
(* cache, with a timeout, and kick the planner.                            *)
(***************************************************************************)
EXTENDS IndexOps

CONSTANTS Clients,     \* the managers, each serving one request at a time
          Requests,    \* the requests they may be asked for
          NoReq, Nil,
          MgrVersion,  \* MgrVersion[c]: the version of manager c's software
          MaxTries,    \* retrycount, 100 in the code
          MaxCas       \* bound: writes of the IndexDefs

(* A request of the API; each looks only at the fields that it needs. *)
IndexRequest == [op : {"create", "delete", "control", "bump", "deleteSource"},
                 name : Names, partitioning : Partitionings, source : Sources,
                 write : {"", "allow", "disallow"},
                 freeze : {"", "freeze", "unfreeze"}]

ASSUME IndexDefsAssumption ==
    /\ Requests \subseteq IndexRequest /\ NoReq \notin IndexRequest
    /\ NoDef \notin IndexDef /\ Nil \notin IndexDefsVals
    /\ MgrVersion \in [Clients -> 1..MaxVersion]
    /\ MaxTries \in Nat /\ MaxCas \in Nat \ {0}

INDEX_DEFS_KEY == "indexDefs"

INSTANCE CfgOps WITH Keys <- {INDEX_DEFS_KEY}, Vals <- IndexDefsVals

VARIABLES store,       \* the Cfg
          cfgVersion,  \* the version stored in the Cfg, raised by upgrades
          lastUUID,    \* UUIDs written so far
          req,         \* req[c]: the request manager c is serving
          asked,       \* asked[c]: the UUID argument the next attempt checks
          prev,        \* prev[c]: payload.PrevIndexUUID, "*" replaced by what
                       \* the first attempt found
          pc,          \* where manager c is in the request
          got,         \* got[c]: the entry this attempt read
          version,     \* version[c]: what CfgGetVersion returned
          tries,       \* tries[c]: attempts made
          out,         \* out[c]: the request's outcome
          cache,       \* cache[c]: CAS of the manager's cached IndexDefs
          late,        \* late[c]: a timed out refresh is still to run
          kicked,      \* the managers whose planner was kicked
          began, wrote \* history: CASNext when c's request began; the CAS of
                       \* its last successful write

clientVars == <<req, asked, prev, pc, got, version, tries, out>>
cacheVars == <<cache, late, kicked>>
vars == <<store, cfgVersion, lastUUID, clientVars, cacheVars, began, wrote>>

Cur == store.Entries[INDEX_DEFS_KEY]

(* The Cfg is new, or one index was created. *)
Init ==
    /\ \/ store = NewCfgMem /\ lastUUID = 0
       \/ /\ store \in {SetStore(NewCfgMem, INDEX_DEFS_KEY, v) : v \in FirstDefs(Requests)}
          /\ lastUUID = 1
    /\ cfgVersion = 1
    /\ req = [c \in Clients |-> NoReq]
    /\ asked = [c \in Clients |-> NoUUID]
    /\ prev = [c \in Clients |-> NoUUID]
    /\ pc = [c \in Clients |-> "idle"]
    /\ got = [c \in Clients |-> NoEntry]
    /\ version = [c \in Clients |-> 1]
    /\ tries = [c \in Clients |-> 0]
    /\ out = [c \in Clients |-> "open"]
    /\ cache = [c \in Clients |-> 0]
    /\ late = [c \in Clients |-> FALSE]
    /\ kicked = {}
    /\ began = [c \in Clients |-> store.CASNext]
    /\ wrote = [c \in Clients |-> 0]

(* The UUID arguments a caller has: none, "*" on create, what it last saw. *)
UUIDArgs(r) ==
    {NoUUID} \cup (IF r.op = "create" THEN {AnyUUID} ELSE {})
             \cup (IF Cur = NoEntry THEN {}
                   ELSE IF r.op = "bump" THEN {Cur.Val.UUID}
                   ELSE IF Cur.Val.IndexDefs[r.name] = NoDef THEN {}
                   ELSE {Cur.Val.IndexDefs[r.name].UUID})

(* A request arrives; creation reads the Cfg's version now, once.          *)
Invoke(c, r, u) ==
    /\ pc[c] = "idle"
    /\ req' = [req EXCEPT ![c] = r]
    /\ asked' = [asked EXCEPT ![c] = u]
    /\ prev' = [prev EXCEPT ![c] = u]
    /\ version' = [version EXCEPT ![c] = cfgVersion]
    /\ began' = [began EXCEPT ![c] = store.CASNext]
    /\ pc' = [pc EXCEPT ![c] = "attempt"]
    /\ UNCHANGED <<store, cfgVersion, lastUUID, got, tries, out, cacheVars, wrote>>

(* The attempts are over, with outcome o; what they used is forgotten. *)
Leave(c, where, o) ==
    /\ pc' = [pc EXCEPT ![c] = where]
    /\ out' = [out EXCEPT ![c] = o]
    /\ prev' = [prev EXCEPT ![c] = NoUUID]
    /\ got' = [got EXCEPT ![c] = NoEntry]
    /\ version' = [version EXCEPT ![c] = 1]
    /\ tries' = [tries EXCEPT ![c] = 0]
    /\ began' = [began EXCEPT ![c] = 1]
    /\ UNCHANGED <<cfgVersion, req, asked, cacheVars>>

(* The validation of CreateIndexEx refuses the payload (its type, source,  *)
(* replica count or name) before any read of the IndexDefs.                *)
Reject(c) ==
    /\ pc[c] = "attempt" /\ tries[c] = 0 /\ req[c].op = "create"
    /\ Leave(c, "done", "internal")
    /\ UNCHANGED <<store, lastUUID, wrote>>

(* What the first half of a task function decides on reading entry e. *)
TaskErr(c, e) ==
    IF e = NoEntry
    THEN IF req[c].op = "create"
         THEN ReqErr(NewIndexDefs(version[c]), req[c], asked[c], MgrVersion[c])
         ELSE "none"
    ELSE ReqErr(e.Val, req[c], asked[c], MgrVersion[c])

NothingToDelete(c, e) ==
    /\ req[c].op = "deleteSource"
    /\ e # NoEntry
    /\ FromSource(e.Val, req[c].source) = {}

(* Mutant: neither a refresh of the cache nor a kick of the planner. *)
AfterWriteNothing(c) == "done"

(* After a request's last write, what remains of the handler. *)
AfterWrite(c) ==
    IF req[c].op \in {"create", "delete", "deleteSource"} THEN "refresh" ELSE "done"

(* RetryOnCASMismatch has tries left. *)
MayTry(c) == tries[c] < MaxTries

(* One attempt reads the IndexDefs and decides.  A "*" is replaced by the  *)
(* UUID found; other than in creation the Cfg's version is read here.      *)
Attempt(c) ==
    /\ pc[c] = "attempt"
    /\ MayTry(c)
    /\ LET err == TaskErr(c, Cur)
           skip == err = "nil" /\ NothingToDelete(c, Cur)
       IN \/ err # "nil" /\ Leave(c, "done", err)
          \/ skip /\ Leave(c, "refresh", "ok")
          \/ /\ err = "nil" /\ ~skip
             /\ tries' = [tries EXCEPT ![c] = @ + 1]
             /\ pc' = [pc EXCEPT ![c] = "write"]
             /\ got' = [got EXCEPT ![c] = Cur]
             /\ prev' = [prev EXCEPT ![c] =
                           IF @ = AnyUUID /\ Cur # NoEntry
                              /\ Cur.Val.IndexDefs[req[c].name] # NoDef
                           THEN Cur.Val.IndexDefs[req[c].name].UUID ELSE @]
             /\ version' = [version EXCEPT ![c] =
                              IF req[c].op = "create" THEN @ ELSE cfgVersion]
             /\ UNCHANGED <<cfgVersion, req, asked, out, cacheVars, began>>
    /\ UNCHANGED <<store, lastUUID, wrote>>

TooManyTries(c) ==
    /\ pc[c] = "attempt"
    /\ ~MayTry(c)
    /\ Leave(c, "done", "internal")
    /\ UNCHANGED <<store, lastUUID, wrote>>

(* Mutant: the write does not pass the CAS of the read. *)
WriteErrForced(c) == SetErr(store, INDEX_DEFS_KEY, CFG_CAS_FORCE)

(* The error of CfgSetIndexDefs with the CAS that was read. *)
WriteErr(c) == SetErr(store, INDEX_DEFS_KEY, got[c].CAS)

(* The write of an attempt succeeds. *)
Commit(c) ==
    /\ pc[c] = "write"
    /\ store.CASNext <= MaxCas /\ lastUUID < MaxUUID
    /\ WriteErr(c) = "nil"
    /\ LET ids == IF got[c] = NoEntry THEN NewIndexDefs(version[c]) ELSE got[c].Val
       IN store' = SetStore(store, INDEX_DEFS_KEY,
                            NewDefs(ids, req[c], lastUUID + 1, version[c]))
    /\ lastUUID' = lastUUID + 1
    /\ wrote' = [wrote EXCEPT ![c] = store.CASNext]
    /\ Leave(c, AfterWrite(c), "ok")

(* Mutant: any failure is retried, a CAS mismatch or not. *)
RetryAlways(c) ==
    /\ pc[c] = "write"
    /\ pc' = [pc EXCEPT ![c] = "attempt"]
    /\ UNCHANGED <<store, cfgVersion, lastUUID, req, asked, prev, got, version,
                   tries, out, cacheVars, began, wrote>>

(* The write meets a CAS mismatch and is tried again from the read. *)
Retry(c) ==
    /\ pc[c] = "write"
    /\ WriteErr(c) = "CfgCASError"
    /\ asked' = [asked EXCEPT ![c] = prev[c]]
    /\ pc' = [pc EXCEPT ![c] = "attempt"]
    /\ got' = [got EXCEPT ![c] = NoEntry]
    /\ UNCHANGED <<store, cfgVersion, lastUUID, req, prev, version, tries,
                   out, cacheVars, began, wrote>>

(* A creation of the first IndexDefs meets one that was faster: CfgMem's   *)
(* error is not a CfgCASError, so it is not retried.                       *)
FailExists(c) ==
    /\ pc[c] = "write"
    /\ WriteErr(c) = "exists"
    /\ Leave(c, "done", "internal")
    /\ UNCHANGED <<store, lastUUID, wrote>>

(* refreshIndexDefsWithTimeout: the cache is read again before the answer, *)
(* or, on a timeout, by a goroutine that is left behind.                   *)
RefreshCache(c) ==
    /\ pc[c] = "refresh"
    /\ \/ cache' = [cache EXCEPT ![c] = Cur.CAS] /\ UNCHANGED late
       \/ late' = [late EXCEPT ![c] = TRUE] /\ UNCHANGED cache
    /\ pc' = [pc EXCEPT ![c] = "kick"]
    /\ UNCHANGED <<store, cfgVersion, lastUUID, req, asked, prev, got, version,
                   tries, out, kicked, began, wrote>>

LateRefresh(c) ==
    /\ late[c]
    /\ cache' = [cache EXCEPT ![c] = Cur.CAS]
    /\ late' = [late EXCEPT ![c] = FALSE]
    /\ UNCHANGED <<store, cfgVersion, lastUUID, clientVars, kicked, began, wrote>>

(* PlannerKick ends create and delete; DeleteAllIndexFromSource goes on    *)
(* with BumpIndexDefs("").                                                 *)
Kick(c) ==
    /\ pc[c] = "kick"
    /\ kicked' = kicked \cup {c}
    /\ IF req[c].op = "deleteSource"
       THEN /\ req' = [req EXCEPT ![c].op = "bump"]
            /\ asked' = [asked EXCEPT ![c] = NoUUID]
            /\ began' = [began EXCEPT ![c] = store.CASNext]
            /\ out' = [out EXCEPT ![c] = "open"]
            /\ pc' = [pc EXCEPT ![c] = "attempt"]
       ELSE /\ pc' = [pc EXCEPT ![c] = "done"]
            /\ UNCHANGED <<req, asked, out, began>>
    /\ UNCHANGED <<store, cfgVersion, lastUUID, prev, got, version, tries, cache, late, wrote>>

(* A newer node raises the version in the Cfg (CheckVersion, version.go). *)
Upgrade ==
    /\ cfgVersion < MaxVersion
    /\ cfgVersion' = cfgVersion + 1
    /\ UNCHANGED <<store, lastUUID, clientVars, cacheVars, began, wrote>>

Step(c) ==
    \/ Attempt(c) \/ TooManyTries(c) \/ Commit(c) \/ Retry(c) \/ FailExists(c)
    \/ RefreshCache(c) \/ Kick(c) \/ LateRefresh(c)

Next ==
    \/ \E c \in Clients :
          \/ \E r \in Requests : \E u \in UUIDArgs(r) : Invoke(c, r, u)
          \/ Reject(c)
          \/ Step(c)
    \/ Upgrade

(* The managers keep running their handlers; nobody has to make requests.  *)
(* That some handler runs while any can is enough, as each ends.           *)
Spec == Init /\ [][Next]_vars /\ WF_vars(\E c \in Clients : Step(c))
-----------------------------------------------------------------------------
(* Types of the Cfg's IndexDefs and of the requests in progress. *)
TypeOK ==
    /\ store \in Stores
    /\ cfgVersion \in 1..MaxVersion
    /\ lastUUID \in 0..MaxUUID
    /\ req \in [Clients -> IndexRequest \cup {NoReq}]
    /\ asked \in [Clients -> 0..AnyUUID]
    /\ prev \in [Clients -> 0..AnyUUID]
    /\ pc \in [Clients -> {"idle", "attempt", "write", "refresh", "kick", "done"}]
    /\ got \in [Clients -> Entry \cup {NoEntry}]
    /\ version \in [Clients -> 1..MaxVersion]
    /\ tries \in [Clients -> 0..MaxTries]
    /\ out \in [Clients -> Outcomes]
    /\ cache \in [Clients -> 0..MaxCas]
    /\ late \in [Clients -> BOOLEAN]
    /\ kicked \subseteq Clients
    /\ began \in [Clients -> 1..(MaxCas + 1)]
    /\ wrote \in [Clients -> 0..MaxCas]

Catalog == INSTANCE IndexCatalog WITH
               catalog <- Cur.Val, uuids <- 1..lastUUID, arg <- asked

(* The API is linearizable: although a request reads, checks and writes in *)
(* separate steps, with other managers writing in between, each takes      *)
(* effect or is refused as if against the IndexDefs of one moment.  So a   *)
(* request that names a UUID never overwrites a definition it has not      *)
(* seen, a manager that is too old never writes, and no definition written *)
(* by a concurrent request is lost (manager_api.go:252-315, 391-429,       *)
(* 467-540, 558-586, 607-652).                                             *)
Linearizable == Catalog!Spec

(* The retries end: every request is answered, whatever the others do.     *)
(* And a manager loses a race only to another's success: it has made at    *)
(* most one attempt more than there were writes since its request began,   *)
(* so that of any number of racing requests one always gets through        *)
(* (misc.go:141-163).                                                      *)
RetriesEnd ==
    /\ \A c \in Clients : pc[c] = "attempt" ~> pc[c] = "done"
    /\ [](\A c \in Clients : tries[c] <= (store.CASNext - began[c]) + 1)

(* When a create or delete is answered, the planner was kicked after the   *)
(* write, and unless the refresh timed out the answering manager's own     *)
(* cache shows that write or a later one (manager_api.go:321-323, 435-437, *)
(* 700-720).                                                               *)
AnsweredIsVisible ==
    \A c \in Clients :
        pc[c] = "done" /\ out[c] = "ok" /\ req[c].op \in {"create", "delete"}
            => c \in kicked /\ (late[c] \/ cache[c] >= wrote[c])

(* "cannot update partition or replica count for a planFrozen index"       *)
(* (manager_api.go:294): a request that names the UUID it updates gives no *)
(* index whose plan is frozen another partitioning, not even one that was  *)
(* frozen after the request's first read.  A "*" may, on its first try: it *)
(* takes the branch of manager_api.go:272 that has no such check.          *)
FrozenKeepsPartitioning ==
    [][\A n \in Names :
          LET old == Cur.Val.IndexDefs[n]
              new == Cur'.Val.IndexDefs[n]
          IN (/\ Cur # NoEntry /\ old # NoDef /\ new # NoDef /\ old.PlanFrozen
              /\ new.partitioning # old.partitioning)
                => \E c \in Clients : wrote'[c] # wrote[c] /\ asked[c] = AnyUUID]_store
=============================================================================
