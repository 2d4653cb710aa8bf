--------------------------- MODULE IndexDefsProofs ---------------------------
(***************************************************************************)
(* Proofs about IndexDefs for any number of managers, of any versions, and *)
(* any requests, names and bounds: the index API is linearizable, an       *)
(* answer is visible, a frozen plan keeps its partitioning, and a manager  *)
(* loses a race only to another that succeeds.                             *)
(***************************************************************************)
EXTENDS IndexDefs, Integers, TLAPS

(* The UUIDs in the Cfg were drawn before. *)
UUIDsAreDrawn ==
    Cur # NoEntry => \A n \in Names :
        Cur.Val.IndexDefs[n] # NoDef => Cur.Val.IndexDefs[n].UUID \in 1..lastUUID

(* No CAS was given out after that of the IndexDefs. *)
CasIsLast == store.CASNext = Cur.CAS + 1

(* Where manager c is in its request tells what the others may know of it. *)
StageIsVisible(c) ==
    /\ pc[c] = "idle" <=> req[c] = NoReq
    /\ pc[c] \in {"idle", "attempt", "write"} <=> out[c] = "open"
    /\ pc[c] \in {"refresh", "kick"} => out[c] = "ok" /\ prev[c] = NoUUID

(* The UUID it goes by is the one it was asked for, or replaces a "*". *)
ArgIsPinned(c) ==
    pc[c] \in {"attempt", "write"} =>
        \/ prev[c] = asked[c]
        \/ asked[c] = AnyUUID /\ prev[c] \in 1..lastUUID

(* What it has read is what the Cfg has, if the Cfg has its CAS, and allows *)
(* the request.                                                             *)
ReadAllows(c) ==
    pc[c] = "write" =>
        /\ got[c].CAS <= Cur.CAS
        /\ got[c].CAS = Cur.CAS => got[c] = Cur
        /\ TaskErr(c, got[c]) = "nil"

(* It has made an attempt for each write since its request began, and one  *)
(* more if the last attempt may still succeed.                             *)
AttemptsAreLost(c) ==
    /\ began[c] <= store.CASNext
    /\ pc[c] \notin {"attempt", "write"} => tries[c] = 0
    /\ tries[c] <= (store.CASNext - began[c])
                   + (IF pc[c] = "write" /\ got[c].CAS = Cur.CAS THEN 1 ELSE 0)

(* Its own write is no later than the Cfg's, and in its cache by the time  *)
(* that the planner is kicked.                                             *)
WriteIsCached(c) ==
    /\ wrote[c] <= Cur.CAS
    /\ pc[c] \in {"kick", "done"} /\ out[c] = "ok" /\ req[c].op \in {"create", "delete"}
          => /\ late[c] \/ cache[c] >= wrote[c]
             /\ pc[c] = "done" => c \in kicked

ClientInv(c) ==
    /\ StageIsVisible(c) /\ ArgIsPinned(c) /\ ReadAllows(c)
    /\ AttemptsAreLost(c) /\ WriteIsCached(c)

(* The inductive invariant of IndexDefs. *)
IInv == TypeOK /\ UUIDsAreDrawn /\ CasIsLast /\ \A c \in Clients : ClientInv(c)
-----------------------------------------------------------------------------
(* The CAS of an entry, present or not, is a number up to MaxCas. *)
LEMMA EntryCas ==
    ASSUME NEW e \in Entry \cup {NoEntry}
    PROVE  /\ e.CAS \in 0..MaxCas
           /\ e.CAS = 0 <=> e = NoEntry
           /\ e = NoEntry <=> e.Val = Nil
           /\ e # NoEntry => e.Val \in IndexDefsVals
BY IndexDefsAssumption DEF Entry, NoEntry

(* The errors of creation, deletion and control. *)
LEMMA CheckErrs ==
    ASSUME NEW ids, NEW r, NEW u
    PROVE  /\ CreateErr(ids, r, u) \in {"exists", "nil", "missing", "wrong UUID", "frozen"}
           /\ ExistingErr(ids, r, u) \in {"missing", "wrong UUID", "nil"}
           /\ BumpErr(ids, u) \in {"wrong UUID", "nil"}
<1>1. CreateErr(ids, r, u) \in {"exists", "nil", "missing", "wrong UUID", "frozen"}
    BY Zenon DEF CreateErr
<1>2. ExistingErr(ids, r, u) \in {"missing", "wrong UUID", "nil"}
    BY Zenon DEF ExistingErr
<1>3. BumpErr(ids, u) \in {"wrong UUID", "nil"}
    BY Zenon DEF BumpErr
<1> QED
    BY Zenon, <1>1, <1>2, <1>3

(* Why a request may be refused. *)
LEMMA ReqErrs ==
    ASSUME NEW ids \in IndexDefsVals, NEW r \in IndexRequest, NEW u, NEW mv \in 1..MaxVersion
    PROVE  ReqErr(ids, r, u, mv) \in {"version", "exists", "nil", "missing",
                                      "wrong UUID", "frozen"}
<1>1. \/ mv < ids.ImplVersion /\ ~(mv >= ids.ImplVersion)
      \/ mv >= ids.ImplVersion /\ ~(mv < ids.ImplVersion)
    BY UUIDAssumption DEF IndexDefsVals
<1>2. r.op \in {"create", "delete", "control", "bump", "deleteSource"}
    BY Zenon DEF IndexRequest
<1>3. CASE mv < ids.ImplVersion
    BY Zenon, <1>1, <1>3 DEF ReqErr
<1>4. CASE mv >= ids.ImplVersion
    BY Zenon, <1>1, <1>2, <1>4, CheckErrs DEF ReqErr
<1> QED
    BY Zenon, <1>1, <1>3, <1>4

(* An IndexDefs value again, in which a definition is an old one or has    *)
(* the new UUID, and only a creation gives it another partitioning.        *)
LEMMA NewDefsAre ==
    ASSUME NEW ids \in IndexDefsVals, NEW r \in IndexRequest,
           NEW uuid \in 1..MaxUUID, NEW v \in 1..MaxVersion,
           r.op = "control" => ids.IndexDefs[r.name] # NoDef
    PROVE  /\ NewDefs(ids, r, uuid, v) \in IndexDefsVals
           /\ \A n \in Names :
                LET old == ids.IndexDefs[n]
                    new == NewDefs(ids, r, uuid, v).IndexDefs[n]
                IN new # NoDef =>
                     /\ new = old \/ new.UUID = uuid
                     /\ old # NoDef /\ new.partitioning # old.partitioning
                          => r.op = "create" /\ r.name = n
                             /\ new.partitioning = r.partitioning
<1> DEFINE new == NewDefs(ids, r, uuid, v)
<1> DEFINE good == new.IndexDefs \in [Names -> IndexDef \cup {NoDef}]
<1> DEFINE kept == \A n \in Names : new.IndexDefs[n] # NoDef =>
                     /\ new.IndexDefs[n] = ids.IndexDefs[n] \/ new.IndexDefs[n].UUID = uuid
                     /\ /\ ids.IndexDefs[n] # NoDef
                        /\ new.IndexDefs[n].partitioning # ids.IndexDefs[n].partitioning
                        => /\ r.op = "create" /\ r.name = n
                           /\ new.IndexDefs[n].partitioning = r.partitioning
<1>1. /\ ids.IndexDefs \in [Names -> IndexDef \cup {NoDef}]
      /\ ids.ImplVersion \in 1..MaxVersion
    BY Zenon DEF IndexDefsVals
<1>2. r.name \in Names /\ r.partitioning \in Partitionings /\ r.source \in Sources
    BY Zenon DEF IndexRequest
<1>3. ASSUME r.op = "create" PROVE good /\ kept
  <2> DEFINE def == [UUID |-> uuid, partitioning |-> r.partitioning,
                     PlanFrozen |-> r.freeze = "freeze", canWrite |-> TRUE,
                     source |-> r.source]
  <2>1. def \in IndexDef /\ def.UUID = uuid /\ def.partitioning = r.partitioning
    BY Zenon, <1>2 DEF IndexDef
  <2>2. new.IndexDefs = [ids.IndexDefs EXCEPT ![r.name] = def]
    BY <1>3, Zenon DEF NewDefs, NewDef
  <2> HIDE DEF def, new
  <2> QED
    BY Zenon, <1>1, <1>2, <1>3, <2>1, <2>2
<1>4. ASSUME r.op = "delete" PROVE good /\ kept
  <2>1. new.IndexDefs = [ids.IndexDefs EXCEPT ![r.name] = NoDef]
    BY <1>4, Zenon DEF NewDefs, NewDef
  <2> HIDE DEF new
  <2> QED
    BY Zenon, <1>1, <1>2, <1>4, <2>1
<1>5. ASSUME r.op = "control" PROVE good /\ kept
  <2> DEFINE old == ids.IndexDefs[r.name]
             def == [old EXCEPT
                       !.UUID = uuid,
                       !.canWrite = IF r.write = "" THEN @ ELSE r.write = "allow",
                       !.PlanFrozen = IF r.freeze = "" THEN @ ELSE r.freeze = "freeze"]
  <2>1. old \in IndexDef
    BY Zenon, <1>1, <1>2, <1>5
  <2>2. def \in IndexDef /\ def.UUID = uuid /\ def.partitioning = old.partitioning
    BY Zenon, <2>1 DEF IndexDef
  <2>3. new.IndexDefs = [ids.IndexDefs EXCEPT ![r.name] = def]
    BY <1>5, Zenon DEF NewDefs, NewDef
  <2> HIDE DEF def, new
  <2> QED
    BY Zenon, <1>1, <1>2, <1>5, <2>1, <2>2, <2>3
<1>6. ASSUME r.op = "bump" PROVE good /\ kept
  <2>1. new.IndexDefs = ids.IndexDefs
    BY <1>6, Zenon DEF NewDefs
  <2> HIDE DEF new
  <2> QED
    BY Zenon, <1>1, <1>6, <2>1
<1>7. ASSUME r.op = "deleteSource" PROVE good /\ kept
  <2>1. new.IndexDefs = [n \in Names |-> IF n \in FromSource(ids, r.source)
                                         THEN NoDef ELSE ids.IndexDefs[n]]
    BY <1>7, Zenon DEF NewDefs, NewDef
  <2> HIDE DEF new
  <2> QED
    BY <1>1, <1>7, <2>1
<1>8. good /\ kept
    BY Zenon, <1>3, <1>4, <1>5, <1>6, <1>7 DEF IndexRequest
<1>9. new \in IndexDefsVals
  <2>1. \E iv, defs : /\ new = [UUID |-> uuid, ImplVersion |-> iv, IndexDefs |-> defs]
                      /\ iv \in {ids.ImplVersion, v}
    BY Zenon DEF NewDefs
  <2> HIDE DEF new
  <2>2. uuid \in 0..MaxUUID
    BY UUIDAssumption
  <2> QED
    BY <1>1, <1>8, <2>1, <2>2 DEF IndexDefsVals
<1> QED
    BY Zenon, <1>8, <1>9

(* New IndexDefs have no definition. *)
LEMMA NewIndexDefsType ==
    ASSUME NEW v \in 1..MaxVersion
    PROVE  NewIndexDefs(v) \in IndexDefsVals /\ \A n \in Names : NewIndexDefs(v).IndexDefs[n] = NoDef
BY UUIDAssumption DEF NewIndexDefs, IndexDefsVals

(* What a task may answer. *)
LEMMA TaskErrs ==
    ASSUME TypeOK, NEW c \in Clients, req[c] \in IndexRequest, NEW e \in Entry \cup {NoEntry}
    PROVE  TaskErr(c, e) \in {"none", "version", "exists", "nil", "missing",
                              "wrong UUID", "frozen"}
<1>1. MgrVersion[c] \in 1..MaxVersion /\ version[c] \in 1..MaxVersion
    BY Zenon, IndexDefsAssumption DEF TypeOK
<1>2. NewIndexDefs(version[c]) \in IndexDefsVals
    BY Zenon, <1>1, NewIndexDefsType
<1>3. e # NoEntry => e.Val \in IndexDefsVals
    BY Zenon, EntryCas
<1> QED
    BY Zenon, <1>1, <1>2, <1>3, ReqErrs DEF TaskErr

(* What the IndexDefs that a task has read are like, if it goes on. *)
LEMMA AllowedMeans ==
    ASSUME TypeOK, NEW c \in Clients, req[c] \in IndexRequest,
           NEW e \in Entry \cup {NoEntry}, TaskErr(c, e) = "nil"
    PROVE  LET old == e.Val.IndexDefs[req[c].name] IN
           /\ e = NoEntry => req[c].op = "create"
           /\ req[c].op = "control" => old # NoDef
           /\ /\ req[c].op = "create" /\ e # NoEntry /\ old # NoDef /\ old.PlanFrozen
              /\ old.partitioning # req[c].partitioning
              => asked[c] = AnyUUID
<1> DEFINE old == e.Val.IndexDefs[req[c].name]
<1>1. e = NoEntry => req[c].op = "create"
    BY Zenon DEF TaskErr
<1>2. e # NoEntry => /\ e.Val \in IndexDefsVals
                     /\ ReqErr(e.Val, req[c], asked[c], MgrVersion[c]) = "nil"
    BY Zenon, EntryCas DEF TaskErr
<1>3. e # NoEntry => \/ /\ MgrVersion[c] < e.Val.ImplVersion
                        /\ ~(MgrVersion[c] >= e.Val.ImplVersion)
                     \/ /\ MgrVersion[c] >= e.Val.ImplVersion
                        /\ ~(MgrVersion[c] < e.Val.ImplVersion)
    BY <1>2, IndexDefsAssumption, UUIDAssumption DEF IndexDefsVals
<1>4. e # NoEntry /\ req[c].op = "control" =>
        ExistingErr(e.Val, req[c], asked[c]) = "nil"
    BY <1>2, <1>3, Zenon DEF ReqErr
<1>5. e # NoEntry /\ req[c].op = "control" => old # NoDef
    BY <1>4, Zenon DEF ExistingErr
<1>6. e # NoEntry /\ req[c].op = "create" =>
        CreateErr(e.Val, req[c], asked[c]) = "nil"
    BY <1>2, <1>3, Zenon DEF ReqErr
<1>7. /\ req[c].op = "create" /\ e # NoEntry /\ old # NoDef /\ old.PlanFrozen
      /\ old.partitioning # req[c].partitioning
      => asked[c] = AnyUUID
    BY <1>6, Zenon DEF CreateErr
<1> QED
    BY Zenon, <1>1, <1>5, <1>7

(* A write succeeds only with the CAS of the present entry, and meets a    *)
(* mismatch only with another.                                             *)
LEMMA WriteErrMeans ==
    ASSUME TypeOK, NEW c \in Clients
    PROVE  /\ WriteErr(c) = "nil" => got[c].CAS = Cur.CAS
           /\ WriteErr(c) = "CfgCASError" => got[c].CAS # Cur.CAS
<1>1. got[c] \in Entry \cup {NoEntry} /\ Cur \in Entry \cup {NoEntry}
    BY Zenon DEF TypeOK, Stores, Cur
<1>2. got[c].CAS # CFG_CAS_FORCE /\ (Cur.CAS = 0 <=> Cur = NoEntry)
    BY <1>1, EntryCas, IndexDefsAssumption DEF CFG_CAS_FORCE
<1> QED
    BY <1>2, Zenon DEF WriteErr, SetErr, Exists, Cur
-----------------------------------------------------------------------------
(* Every initial state satisfies the invariant. *)
LEMMA InitIInv == Init => IInv
<1> SUFFICES ASSUME Init PROVE IInv
    BY Zenon
<1> USE UUIDAssumption, IndexDefsAssumption
<1>1. /\ cfgVersion = 1 /\ kicked = {}
      /\ req = [c \in Clients |-> NoReq] /\ pc = [c \in Clients |-> "idle"]
      /\ asked = [c \in Clients |-> NoUUID] /\ prev = [c \in Clients |-> NoUUID]
      /\ got = [c \in Clients |-> NoEntry] /\ version = [c \in Clients |-> 1]
      /\ tries = [c \in Clients |-> 0] /\ out = [c \in Clients |-> "open"]
      /\ cache = [c \in Clients |-> 0] /\ late = [c \in Clients |-> FALSE]
      /\ began = [c \in Clients |-> store.CASNext] /\ wrote = [c \in Clients |-> 0]
    BY Zenon DEF Init
<1>2. ASSUME store \in Stores, lastUUID \in 0..MaxUUID, CasIsLast
      PROVE  TypeOK /\ \A c \in Clients : ClientInv(c)
  <2>1. store.CASNext \in 1..(MaxCas + 1) /\ Cur.CAS \in Nat
    BY <1>2, EntryCas DEF Stores, Cur
  <2>2. TypeOK
    BY <1>1, <1>2, <2>1 DEF TypeOK, NoUUID, AnyUUID, Outcomes
  <2>3. ASSUME NEW c \in Clients PROVE ClientInv(c)
    BY <1>1, <2>1 DEF ClientInv, StageIsVisible, ArgIsPinned, ReadAllows, AttemptsAreLost,
                      WriteIsCached
  <2> QED
    BY Zenon, <2>2, <2>3
<1>3. CASE store = NewCfgMem /\ lastUUID = 0
  <2>1. Cur = NoEntry /\ store.CASNext = 1 /\ store \in Stores /\ Cur.CAS = 0
    BY <1>3 DEF NewCfgMem, Cur, Stores, NoEntry
  <2>2. UUIDsAreDrawn /\ CasIsLast
    BY <2>1 DEF UUIDsAreDrawn, CasIsLast
  <2> QED
    BY <1>2, <1>3, <2>1, <2>2 DEF IInv
<1>4. CASE /\ store \in {SetStore(NewCfgMem, INDEX_DEFS_KEY, v) : v \in FirstDefs(Requests)}
           /\ lastUUID = 1
  <2>1. PICK r \in Requests : /\ r.op = "create"
                              /\ store = SetStore(NewCfgMem, INDEX_DEFS_KEY,
                                                  NewDefs(NewIndexDefs(1), r, 1, 1))
    BY Zenon, <1>4 DEF FirstDefs
  <2> DEFINE v == NewDefs(NewIndexDefs(1), r, 1, 1)
  <2>2. NewIndexDefs(1) \in IndexDefsVals /\ \A n \in Names : NewIndexDefs(1).IndexDefs[n] = NoDef
    BY NewIndexDefsType
  <2>3. /\ v \in IndexDefsVals
        /\ \A n \in Names : v.IndexDefs[n] # NoDef =>
              v.IndexDefs[n] = NewIndexDefs(1).IndexDefs[n] \/ v.IndexDefs[n].UUID = 1
    BY <2>1, <2>2, NewDefsAre
  <2>4. /\ Cur = [CAS |-> 1, Val |-> v] /\ store.CASNext = 2 /\ store \in Stores
        /\ Cur \in Entry
    <3>1. store = SetStore(NewCfgMem, INDEX_DEFS_KEY, v)
      BY Zenon, <2>1
    <3> HIDE DEF v
    <3> QED
      BY <2>3, <3>1 DEF SetStore, NewCfgMem, Cur, Stores, Entry
  <2> HIDE DEF v
  <2>5. UUIDsAreDrawn /\ CasIsLast
    BY <1>4, <2>2, <2>3, <2>4 DEF UUIDsAreDrawn, CasIsLast
  <2> QED
    BY <1>2, <1>4, <2>4, <2>5 DEF IInv
<1> QED
    BY <1>3, <1>4, Zenon DEF Init

(* Nothing of another manager's request changes. *)
OthersAlone(c) ==
    \A d \in Clients \ {c} :
        /\ req'[d] = req[d] /\ asked'[d] = asked[d] /\ prev'[d] = prev[d] /\ pc'[d] = pc[d]
        /\ got'[d] = got[d] /\ version'[d] = version[d] /\ tries'[d] = tries[d]
        /\ out'[d] = out[d] /\ cache'[d] = cache[d] /\ late'[d] = late[d]
        /\ (d \in kicked => d \in kicked') /\ began'[d] = began[d] /\ wrote'[d] = wrote[d]

(* A step of one manager that writes nothing. *)
LEMMA StepKeeps ==
    ASSUME IInv, NEW c \in Clients, UNCHANGED <<store, lastUUID>>, TypeOK',
           OthersAlone(c), ClientInv(c)'
    PROVE  IInv'
<1>1. Cur' = Cur
    BY Zenon DEF Cur
<1>2. UUIDsAreDrawn' /\ CasIsLast'
    BY Zenon, <1>1 DEF IInv, UUIDsAreDrawn, CasIsLast
<1>3. ASSUME NEW d \in Clients \ {c} PROVE ClientInv(d)'
  <2>1. ClientInv(d)
    BY Zenon DEF IInv
  <2>2. ReadAllows(d)'
    BY Zenon, <1>1, <2>1 DEF ClientInv, ReadAllows, OthersAlone, TaskErr
  <2> QED
    BY <1>1, <2>1, <2>2 DEF ClientInv, OthersAlone, StageIsVisible, ArgIsPinned,
                            AttemptsAreLost, WriteIsCached
<1> QED
    BY Zenon, <1>2, <1>3 DEF IInv

(* The types of what a step reads. *)
LEMMA CurTypes ==
    ASSUME IInv
    PROVE  /\ Cur \in Entry \cup {NoEntry} /\ Cur.CAS \in 0..MaxCas
           /\ store.CASNext \in 1..(MaxCas + 1)
           /\ Cur # NoEntry => Cur.Val \in IndexDefsVals
<1>1. Cur \in Entry \cup {NoEntry} /\ store.CASNext \in 1..(MaxCas + 1)
    BY Zenon DEF IInv, TypeOK, Stores, Cur
<1> QED
    BY Zenon, <1>1, EntryCas

(* The attempts end without a write. *)
LEMMA LeaveKeeps ==
    ASSUME IInv, NEW c \in Clients, NEW where, NEW o, pc[c] \in {"attempt", "write"},
           \/ where = "done" /\ o \in Outcomes \ {"open", "ok"}
           \/ where = "refresh" /\ o = "ok",
           Leave(c, where, o), UNCHANGED <<store, lastUUID, wrote>>
    PROVE  IInv'
<1>1. Cur' = Cur
    BY Zenon DEF Cur
<1>2. TypeOK'
  <2>1. where \in {"refresh", "done"} /\ o \in Outcomes
    BY Zenon DEF Outcomes
  <2>2. /\ NoUUID \in 0..AnyUUID /\ 1 \in 1..MaxVersion /\ 0 \in 0..MaxTries
        /\ 1 \in 1..(MaxCas + 1)
    BY UUIDAssumption, IndexDefsAssumption DEF NoUUID, AnyUUID
  <2> QED
    BY Zenon, <2>1, <2>2 DEF IInv, TypeOK, Leave, cacheVars
<1>3. OthersAlone(c)
    BY Zenon DEF IInv, TypeOK, Leave, OthersAlone, cacheVars
<1>4. /\ pc'[c] = where /\ out'[c] = o /\ prev'[c] = NoUUID /\ tries'[c] = 0 /\ began'[c] = 1
      /\ req'[c] = req[c] /\ wrote'[c] = wrote[c] /\ where # "idle"
    BY Zenon DEF IInv, TypeOK, Leave
<1>5. ClientInv(c)'
  <2>1. ClientInv(c)
    BY Zenon DEF IInv
  <2>2. StageIsVisible(c)' /\ ArgIsPinned(c)' /\ ReadAllows(c)'
    BY Zenon, <1>4, <2>1 DEF ClientInv, StageIsVisible, ArgIsPinned, ReadAllows
  <2>3. AttemptsAreLost(c)'
    BY <1>1, <1>4, CurTypes DEF AttemptsAreLost
  <2>4. WriteIsCached(c)'
    BY Zenon, <1>1, <1>4, <2>1 DEF ClientInv, WriteIsCached
  <2> QED
    BY Zenon, <2>2, <2>3, <2>4 DEF ClientInv
<1> QED
    BY Zenon, <1>2, <1>3, <1>5, StepKeeps

(* A request arrives. *)
LEMMA InvokeKeeps ==
    ASSUME IInv, NEW c \in Clients, NEW r \in Requests, NEW u \in UUIDArgs(r), Invoke(c, r, u)
    PROVE  IInv' /\ u \in 0..AnyUUID
<1>0. u \in 0..AnyUUID
  <2>1. r.name \in Names
    BY Zenon, IndexDefsAssumption DEF IndexRequest
  <2>2. Cur # NoEntry => /\ Cur.Val.UUID \in 0..MaxUUID
                         /\ Cur.Val.IndexDefs[r.name] # NoDef =>
                               Cur.Val.IndexDefs[r.name].UUID \in 1..MaxUUID
    BY Zenon, <2>1, CurTypes DEF IndexDefsVals, IndexDef
  <2> QED
    BY <2>2, UUIDAssumption DEF UUIDArgs, NoUUID, AnyUUID
<1>1. Cur' = Cur
    BY Zenon DEF Invoke, Cur
<1>2. TypeOK'
    BY Zenon, <1>0, CurTypes, IndexDefsAssumption DEF IInv, TypeOK, Invoke, cacheVars
<1>3. OthersAlone(c)
    BY Zenon DEF IInv, TypeOK, Invoke, OthersAlone, cacheVars
<1>4. /\ pc'[c] = "attempt" /\ out'[c] = out[c] /\ prev'[c] = u /\ asked'[c] = u
      /\ tries'[c] = tries[c] /\ began'[c] = store.CASNext
      /\ req'[c] # NoReq /\ wrote'[c] = wrote[c] /\ UNCHANGED <<store, lastUUID>>
      /\ pc[c] = "idle"
    BY Zenon, IndexDefsAssumption DEF IInv, TypeOK, Invoke
<1>5. ClientInv(c)'
  <2>1. ClientInv(c)
    BY Zenon DEF IInv
  <2>2. StageIsVisible(c)' /\ ArgIsPinned(c)' /\ ReadAllows(c)'
    BY Zenon, <1>4, <2>1 DEF ClientInv, StageIsVisible, ArgIsPinned, ReadAllows
  <2>3. AttemptsAreLost(c)' /\ WriteIsCached(c)'
    BY <1>1, <1>4, <2>1, CurTypes DEF ClientInv, AttemptsAreLost, WriteIsCached
  <2> QED
    BY Zenon, <2>2, <2>3 DEF ClientInv
<1> QED
    BY Zenon, <1>0, <1>2, <1>3, <1>4, <1>5, StepKeeps

(* An active manager serves a request. *)
LEMMA ActiveReq ==
    ASSUME IInv, NEW c \in Clients, pc[c] # "idle"
    PROVE  req[c] \in IndexRequest
BY Zenon DEF IInv, TypeOK, ClientInv, StageIsVisible

(* An attempt that goes on to write. *)
LEMMA AttemptKeeps ==
    ASSUME IInv, NEW c \in Clients, Attempt(c)
    PROVE  IInv'
<1> DEFINE err == TaskErr(c, Cur)
           skip == err = "nil" /\ NothingToDelete(c, Cur)
           pin == IF prev[c] = AnyUUID /\ Cur # NoEntry
                     /\ Cur.Val.IndexDefs[req[c].name] # NoDef
                  THEN Cur.Val.IndexDefs[req[c].name].UUID ELSE prev[c]
<1>0. /\ pc[c] = "attempt" /\ tries[c] < MaxTries /\ UNCHANGED <<store, lastUUID, wrote>>
      /\ req[c] \in IndexRequest /\ ClientInv(c)
    BY Zenon, ActiveReq DEF Attempt, MayTry, IInv
<1>1. CASE err # "nil" /\ Leave(c, "done", err)
  <2>1. err \in Outcomes \ {"open", "ok"}
    BY Zenon, <1>0, <1>1, TaskErrs, CurTypes DEF IInv, Outcomes
  <2> QED
    BY <1>0, <1>1, <2>1, LeaveKeeps
<1>2. CASE skip /\ Leave(c, "refresh", "ok")
    BY <1>0, <1>2, LeaveKeeps
<1>3. CASE /\ err = "nil"
           /\ tries' = [tries EXCEPT ![c] = @ + 1]
           /\ pc' = [pc EXCEPT ![c] = "write"]
           /\ got' = [got EXCEPT ![c] = Cur]
           /\ prev' = [prev EXCEPT ![c] = pin]
           /\ version' = [version EXCEPT ![c] =
                            IF req[c].op = "create" THEN @ ELSE cfgVersion]
           /\ UNCHANGED <<cfgVersion, req, asked, out, cacheVars, began>>
  <2> HIDE DEF err, skip
  <2>1. /\ pin \in 0..AnyUUID
        /\ \/ pin = prev[c]
           \/ prev[c] = AnyUUID /\ pin \in 1..lastUUID
    <3>1. prev[c] \in 0..AnyUUID /\ lastUUID \in 0..MaxUUID /\ req[c].name \in Names
      BY Zenon, <1>0 DEF IInv, TypeOK, IndexRequest
    <3> QED
      BY <3>1, UUIDAssumption DEF IInv, UUIDsAreDrawn, AnyUUID
  <2> HIDE DEF pin
  <2>2. TypeOK'
    BY <1>0, <1>3, <2>1, CurTypes, IndexDefsAssumption DEF IInv, TypeOK, cacheVars
  <2>3. OthersAlone(c)
    BY Zenon, <1>0, <1>3 DEF IInv, TypeOK, OthersAlone, cacheVars
  <2>4. /\ tries'[c] = tries[c] + 1 /\ pc'[c] = "write" /\ got'[c] = Cur /\ prev'[c] = pin
        /\ version'[c] = (IF req[c].op = "create" THEN version[c] ELSE cfgVersion)
        /\ req' = req /\ asked' = asked /\ out' = out /\ began' = began
    BY Zenon, <1>3 DEF IInv, TypeOK
  <2>5. Cur' = Cur
    BY Zenon, <1>0 DEF Cur
  <2>6. StageIsVisible(c)' /\ ArgIsPinned(c)'
    BY Zenon, <1>0, <2>1, <2>4 DEF ClientInv, StageIsVisible, ArgIsPinned
  <2>7. TaskErr(c, Cur)' = "nil"
    <3>1. TaskErr(c, Cur) = "nil"
      BY Zenon, <1>3 DEF err
    <3> QED
      BY Zenon, <2>4, <2>5, <3>1 DEF TaskErr
  <2>8. ReadAllows(c)'
    BY <2>4, <2>5, <2>7, CurTypes DEF ReadAllows, TaskErr
  <2>9. AttemptsAreLost(c)'
    BY <1>0, <2>4, <2>5, CurTypes DEF ClientInv, AttemptsAreLost, IInv, TypeOK
  <2>10. WriteIsCached(c)'
    BY Zenon, <1>0, <2>4, <2>5 DEF ClientInv, WriteIsCached
  <2> QED
    BY Zenon, <1>0, <2>2, <2>3, <2>6, <2>8, <2>9, <2>10, StepKeeps DEF ClientInv
<1> QED
    BY Zenon, <1>1, <1>2, <1>3 DEF Attempt

(* Steps that end the attempts, or go back for another. *)
LEMMA EndKeeps ==
    ASSUME IInv, NEW c \in Clients, Reject(c) \/ TooManyTries(c) \/ FailExists(c) \/ Retry(c)
    PROVE  IInv'
<1>1. CASE Reject(c) \/ TooManyTries(c) \/ FailExists(c)
  <2>1. "internal" \in Outcomes \ {"open", "ok"}
    BY Zenon DEF Outcomes
  <2>2. /\ pc[c] \in {"attempt", "write"} /\ Leave(c, "done", "internal")
        /\ UNCHANGED <<store, lastUUID, wrote>>
    BY Zenon, <1>1 DEF Reject, TooManyTries, FailExists
  <2> QED
    BY <2>1, <2>2, LeaveKeeps
<1>2. CASE Retry(c)
  <2>1. /\ pc[c] = "write" /\ got[c].CAS # Cur.CAS /\ UNCHANGED <<store, lastUUID, wrote>>
        /\ ClientInv(c)
    BY Zenon, <1>2, WriteErrMeans DEF Retry, IInv
  <2>2. TypeOK'
    BY Zenon, <1>2 DEF Retry, IInv, TypeOK, cacheVars
  <2>3. OthersAlone(c)
    BY Zenon, <1>2 DEF Retry, IInv, TypeOK, OthersAlone, cacheVars
  <2>4. /\ asked'[c] = prev[c] /\ pc'[c] = "attempt" /\ Cur' = Cur
        /\ req' = req /\ prev' = prev /\ out' = out /\ began' = began /\ tries' = tries
    BY Zenon, <1>2 DEF Retry, IInv, TypeOK, Cur
  <2>5. StageIsVisible(c)' /\ ArgIsPinned(c)' /\ ReadAllows(c)'
    BY Zenon, <2>1, <2>4 DEF ClientInv, StageIsVisible, ArgIsPinned, ReadAllows
  <2>6. AttemptsAreLost(c)' /\ WriteIsCached(c)'
    BY Zenon, <2>1, <2>4 DEF ClientInv, AttemptsAreLost, WriteIsCached
  <2> QED
    BY Zenon, <2>1, <2>2, <2>3, <2>5, <2>6, StepKeeps DEF ClientInv
<1> QED
    BY Zenon, <1>1, <1>2

(* What follows a write, and the steps that are no manager's. *)
LEMMA AfterKeeps ==
    ASSUME IInv, NEW c \in Clients, RefreshCache(c) \/ LateRefresh(c) \/ Kick(c)
    PROVE  IInv'
<1>0. ClientInv(c) /\ TypeOK
    BY Zenon DEF IInv
<1>1. CASE RefreshCache(c)
  <2>1. TypeOK' /\ OthersAlone(c)
    BY Zenon, <1>0, <1>1, CurTypes DEF RefreshCache, TypeOK, OthersAlone
  <2>2. /\ pc[c] = "refresh" /\ pc'[c] = "kick" /\ Cur' = Cur /\ UNCHANGED <<store, lastUUID>>
        /\ UNCHANGED <<req, asked, prev, got, version, tries, out, kicked, began, wrote>>
        /\ late'[c] \/ cache'[c] = Cur.CAS
    BY Zenon, <1>0, <1>1 DEF RefreshCache, TypeOK, Cur
  <2>3. StageIsVisible(c)' /\ ArgIsPinned(c)' /\ ReadAllows(c)'
    BY Zenon, <1>0, <2>2 DEF ClientInv, StageIsVisible, ArgIsPinned, ReadAllows
  <2>4. AttemptsAreLost(c)' /\ WriteIsCached(c)'
    BY Zenon, <1>0, <2>2 DEF ClientInv, AttemptsAreLost, WriteIsCached
  <2> QED
    BY Zenon, <2>1, <2>2, <2>3, <2>4, StepKeeps DEF ClientInv
<1>2. CASE LateRefresh(c)
  <2>1. TypeOK' /\ OthersAlone(c)
    BY Zenon, <1>0, <1>2, CurTypes DEF LateRefresh, TypeOK, OthersAlone, clientVars
  <2>2. /\ Cur' = Cur /\ UNCHANGED <<store, lastUUID>> /\ cache'[c] = Cur.CAS
        /\ UNCHANGED <<req, asked, prev, pc, got, version, tries, out, kicked, began, wrote>>
    BY Zenon, <1>0, <1>2 DEF LateRefresh, TypeOK, Cur, clientVars
  <2>3. StageIsVisible(c)' /\ ArgIsPinned(c)' /\ ReadAllows(c)'
    BY Zenon, <1>0, <2>2 DEF ClientInv, StageIsVisible, ArgIsPinned, ReadAllows, TaskErr
  <2>4. AttemptsAreLost(c)' /\ WriteIsCached(c)'
    BY Zenon, <1>0, <2>2 DEF ClientInv, AttemptsAreLost, WriteIsCached
  <2> QED
    BY Zenon, <2>1, <2>2, <2>3, <2>4, StepKeeps DEF ClientInv
<1>3. CASE Kick(c)
  <2>0. req[c] \in IndexRequest /\ pc[c] = "kick"
    BY Zenon, <1>3, ActiveReq DEF Kick
  <2>1. [req[c] EXCEPT !.op = "bump"] \in IndexRequest
    BY Zenon, <2>0 DEF IndexRequest
  <2>2. /\ Cur' = Cur /\ kicked' = kicked \cup {c}
        /\ UNCHANGED <<store, cfgVersion, lastUUID, prev, got, version, tries, cache, late,
                       wrote>>
    BY Zenon, <1>3 DEF Kick, Cur
  <2>3. CASE req[c].op = "deleteSource"
    <3>1. /\ req' = [req EXCEPT ![c] = [req[c] EXCEPT !.op = "bump"]]
          /\ asked' = [asked EXCEPT ![c] = NoUUID]
          /\ began' = [began EXCEPT ![c] = store.CASNext]
          /\ out' = [out EXCEPT ![c] = "open"] /\ pc' = [pc EXCEPT ![c] = "attempt"]
      BY Zenon, <1>0, <1>3, <2>3 DEF Kick, TypeOK
    <3>2. "open" \in Outcomes /\ NoUUID \in 0..AnyUUID
      BY UUIDAssumption DEF Outcomes, NoUUID, AnyUUID
    <3>3. TypeOK' /\ OthersAlone(c)
      BY Zenon, <1>0, <2>1, <2>2, <3>1, <3>2, CurTypes DEF TypeOK, OthersAlone
    <3>4. /\ req'[c] \in IndexRequest /\ asked'[c] = NoUUID /\ began'[c] = store.CASNext
          /\ out'[c] = "open" /\ pc'[c] = "attempt" /\ prev'[c] = prev[c]
      BY Zenon, <1>0, <2>1, <2>2, <3>1 DEF TypeOK
    <3>5. StageIsVisible(c)' /\ ArgIsPinned(c)' /\ ReadAllows(c)'
      BY Zenon, <1>0, <2>0, <3>4, IndexDefsAssumption
         DEF ClientInv, StageIsVisible, ArgIsPinned, ReadAllows
    <3>6. AttemptsAreLost(c)' /\ WriteIsCached(c)'
      BY <1>0, <2>0, <2>2, <3>4, CurTypes DEF ClientInv, AttemptsAreLost, WriteIsCached
    <3> QED
      BY Zenon, <2>2, <3>3, <3>5, <3>6, StepKeeps DEF ClientInv
  <2>4. CASE req[c].op # "deleteSource"
    <3>1. pc' = [pc EXCEPT ![c] = "done"] /\ UNCHANGED <<req, asked, out, began>>
      BY Zenon, <1>3, <2>4 DEF Kick
    <3>2. TypeOK' /\ OthersAlone(c)
      BY Zenon, <1>0, <2>2, <3>1 DEF TypeOK, OthersAlone
    <3>3. pc'[c] = "done"
      BY Zenon, <1>0, <3>1 DEF TypeOK
    <3>4. StageIsVisible(c)' /\ ArgIsPinned(c)' /\ ReadAllows(c)'
      BY Zenon, <1>0, <2>0, <2>2, <3>1, <3>3 DEF ClientInv, StageIsVisible, ArgIsPinned, ReadAllows
    <3>5. AttemptsAreLost(c)' /\ WriteIsCached(c)'
      BY Zenon, <1>0, <2>0, <2>2, <3>1, <3>3 DEF ClientInv, AttemptsAreLost, WriteIsCached
    <3> QED
      BY <2>2, <3>2, <3>4, <3>5, StepKeeps DEF ClientInv
  <2> QED
    BY Zenon, <2>3, <2>4
<1> QED
    BY Zenon, <1>1, <1>2, <1>3

(* A step that leaves the requests and the IndexDefs alone. *)
LEMMA ElseKeeps ==
    ASSUME IInv, Upgrade \/ UNCHANGED vars
    PROVE  IInv'
<1>1. /\ UNCHANGED <<store, lastUUID, req, asked, prev, pc, got, version, tries, out, cache,
                     late, kicked, began, wrote>>
      /\ cfgVersion' \in 1..MaxVersion
    BY UUIDAssumption DEF Upgrade, vars, clientVars, cacheVars, IInv, TypeOK
<1>2. Cur' = Cur /\ TypeOK'
    BY Zenon, <1>1 DEF Cur, IInv, TypeOK
<1>3. UUIDsAreDrawn' /\ CasIsLast'
    BY Zenon, <1>1, <1>2 DEF IInv, UUIDsAreDrawn, CasIsLast
<1>4. ASSUME NEW d \in Clients PROVE ClientInv(d)'
    BY Zenon, <1>1, <1>2 DEF IInv, ClientInv, StageIsVisible, ArgIsPinned, ReadAllows, TaskErr,
                      AttemptsAreLost, WriteIsCached
<1> QED
    BY Zenon, <1>2, <1>3, <1>4 DEF IInv
-----------------------------------------------------------------------------
(* The IndexDefs that manager c's request is applied to, and the result. *)
Base(c) == IF Cur = NoEntry THEN NewIndexDefs(version[c]) ELSE Cur.Val

Result(c) == NewDefs(Base(c), req[c], lastUUID + 1, version[c])

(* The result of an allowed request, and how it differs from its base. *)
LEMMA ResultIs ==
    ASSUME IInv, NEW c \in Clients, req[c] \in IndexRequest, TaskErr(c, Cur) = "nil",
           lastUUID < MaxUUID
    PROVE  /\ Base(c) \in IndexDefsVals /\ Result(c) \in IndexDefsVals
           /\ \A n \in Names : Result(c).IndexDefs[n] # NoDef =>
                \/ Result(c).IndexDefs[n] = Base(c).IndexDefs[n]
                \/ Result(c).IndexDefs[n].UUID = lastUUID + 1
           /\ \A n \in Names :
                /\ Base(c).IndexDefs[n] # NoDef /\ Result(c).IndexDefs[n] # NoDef
                /\ Result(c).IndexDefs[n].partitioning # Base(c).IndexDefs[n].partitioning
                => /\ req[c].op = "create" /\ req[c].name = n
                   /\ Result(c).IndexDefs[n].partitioning = req[c].partitioning
<1>1. version[c] \in 1..MaxVersion /\ lastUUID + 1 \in 1..MaxUUID
    BY UUIDAssumption DEF IInv, TypeOK
<1>2. Base(c) \in IndexDefsVals
    BY Zenon, <1>1, NewIndexDefsType, CurTypes DEF Base
<1>3. req[c].op = "control" => Base(c).IndexDefs[req[c].name] # NoDef
  <2>1. req[c].op = "control" =>
          Cur # NoEntry /\ Cur.Val.IndexDefs[req[c].name] # NoDef
    BY Zenon, AllowedMeans, CurTypes DEF IInv
  <2> QED
    BY Zenon, <2>1 DEF Base
<1> QED
    BY <1>1, <1>2, <1>3, NewDefsAre DEF Result

(* What a successful write does: it applies the request to the IndexDefs   *)
(* that are there, which are those that the manager has read.              *)
LEMMA CommitIs ==
    ASSUME IInv, NEW c \in Clients, Commit(c)
    PROVE  /\ pc[c] = "write" /\ req[c] \in IndexRequest /\ TaskErr(c, Cur) = "nil"
           /\ Cur' = [CAS |-> store.CASNext, Val |-> Result(c)]
           /\ store'.CASNext = store.CASNext + 1 /\ store' \in Stores
           /\ lastUUID < MaxUUID /\ lastUUID' = lastUUID + 1
<1>1. /\ pc[c] = "write" /\ store.CASNext <= MaxCas /\ lastUUID < MaxUUID
      /\ WriteErr(c) = "nil" /\ lastUUID' = lastUUID + 1
    BY Zenon DEF Commit
<1>2. req[c] \in IndexRequest
    BY Zenon, <1>1, ActiveReq
<1>3. got[c] = Cur /\ TaskErr(c, Cur) = "nil"
    BY Zenon, <1>1, WriteErrMeans DEF IInv, ClientInv, ReadAllows
<1>4. store' = SetStore(store, INDEX_DEFS_KEY, Result(c))
    BY Zenon, <1>3 DEF Commit, Result, Base
<1>5. Result(c) \in IndexDefsVals
    BY Zenon, <1>1, <1>2, <1>3, ResultIs
<1>6. store \in Stores /\ store.CASNext \in 1..MaxCas
    BY <1>1, IndexDefsAssumption DEF IInv, TypeOK, Stores
<1>7. /\ Cur' = [CAS |-> store.CASNext, Val |-> Result(c)]
      /\ store'.CASNext = store.CASNext + 1 /\ store' \in Stores
    BY <1>4, <1>5, <1>6, IndexDefsAssumption DEF SetStore, Stores, Entry, Cur
<1> QED
    BY Zenon, <1>1, <1>2, <1>3, <1>7

(* The write of an attempt. *)
LEMMA CommitKeeps ==
    ASSUME IInv, NEW c \in Clients, Commit(c)
    PROVE  IInv'
<1>1. /\ pc[c] = "write" /\ req[c] \in IndexRequest /\ TaskErr(c, Cur) = "nil"
      /\ Cur' = [CAS |-> store.CASNext, Val |-> Result(c)]
      /\ store'.CASNext = store.CASNext + 1 /\ store' \in Stores
      /\ lastUUID < MaxUUID /\ lastUUID' = lastUUID + 1
    BY Zenon, CommitIs
<1>2. /\ Leave(c, AfterWrite(c), "ok") /\ wrote' = [wrote EXCEPT ![c] = store.CASNext]
      /\ store.CASNext <= MaxCas
    BY Zenon DEF Commit
<1>3. /\ store.CASNext \in 1..MaxCas /\ lastUUID \in 0..MaxUUID /\ lastUUID' \in 1..MaxUUID
      /\ Cur.CAS \in 0..MaxCas /\ store.CASNext = Cur.CAS + 1
    BY <1>1, <1>2, CurTypes, UUIDAssumption, IndexDefsAssumption
       DEF IInv, TypeOK, Stores, CasIsLast
<1>4. AfterWrite(c) \in {"refresh", "done"}
    BY Zenon DEF AfterWrite
<1>5. TypeOK'
  <2>1. "ok" \in Outcomes
    BY Zenon DEF Outcomes
  <2>2. /\ NoUUID \in 0..AnyUUID /\ 1 \in 1..MaxVersion /\ 0 \in 0..MaxTries
        /\ 1 \in 1..(MaxCas + 1) /\ store.CASNext \in 0..MaxCas /\ lastUUID' \in 0..MaxUUID
    BY <1>3, UUIDAssumption, IndexDefsAssumption DEF NoUUID, AnyUUID
  <2> QED
    BY Zenon, <1>1, <1>2, <1>4, <2>1, <2>2 DEF IInv, TypeOK, Leave, cacheVars
<1>6. CasIsLast'
    BY Zenon, <1>1, <1>3 DEF CasIsLast
<1>7. UUIDsAreDrawn'
  <2>1. ASSUME NEW n \in Names, Result(c).IndexDefs[n] # NoDef
        PROVE  Result(c).IndexDefs[n].UUID \in 1..lastUUID'
    <3>1. \/ Result(c).IndexDefs[n] = Base(c).IndexDefs[n]
          \/ Result(c).IndexDefs[n].UUID = lastUUID + 1
      BY Zenon, <1>1, <2>1, ResultIs
    <3>2. Base(c).IndexDefs[n] # NoDef =>
            Cur # NoEntry /\ Base(c).IndexDefs[n] = Cur.Val.IndexDefs[n]
      BY Zenon, NewIndexDefsType DEF Base, IInv, TypeOK
    <3> QED
      BY <1>1, <1>3, <2>1, <3>1, <3>2 DEF IInv, UUIDsAreDrawn
  <2> QED
    BY Zenon, <1>1, <2>1 DEF UUIDsAreDrawn
<1>8. ClientInv(c)'
  <2>1. /\ pc'[c] = AfterWrite(c) /\ out'[c] = "ok" /\ prev'[c] = NoUUID
        /\ tries'[c] = 0 /\ began'[c] = 1 /\ req' = req /\ wrote'[c] = store.CASNext
    BY Zenon, <1>2 DEF Leave, IInv, TypeOK
  <2>2. StageIsVisible(c)' /\ ArgIsPinned(c)' /\ ReadAllows(c)'
    BY Zenon, <1>1, <1>4, <2>1, IndexDefsAssumption DEF StageIsVisible, ArgIsPinned, ReadAllows
  <2>3. AttemptsAreLost(c)'
    BY <1>1, <1>3, <1>4, <2>1 DEF AttemptsAreLost
  <2>4. WriteIsCached(c)'
    BY <1>1, <1>3, <2>1 DEF WriteIsCached, AfterWrite
  <2> QED
    BY Zenon, <2>2, <2>3, <2>4 DEF ClientInv
<1>9. ASSUME NEW d \in Clients \ {c} PROVE ClientInv(d)'
  <2>1. ClientInv(d) /\ TypeOK
    BY Zenon DEF IInv
  <2>2. /\ req'[d] = req[d] /\ asked'[d] = asked[d] /\ prev'[d] = prev[d] /\ pc'[d] = pc[d]
        /\ got'[d] = got[d] /\ version'[d] = version[d] /\ tries'[d] = tries[d]
        /\ out'[d] = out[d] /\ cache'[d] = cache[d] /\ late'[d] = late[d]
        /\ kicked' = kicked /\ began'[d] = began[d] /\ wrote'[d] = wrote[d]
    BY Zenon, <1>2 DEF Leave, cacheVars, IInv, TypeOK
  <2>3. /\ got[d].CAS \in 0..MaxCas /\ tries[d] \in 0..MaxTries /\ wrote[d] \in 0..MaxCas
        /\ began[d] \in 1..(MaxCas + 1)
    BY Zenon, <2>1, EntryCas DEF TypeOK
  <2>4. StageIsVisible(d)'
    BY Zenon, <2>1, <2>2 DEF ClientInv, StageIsVisible
  <2>5. ArgIsPinned(d)'
    BY <1>1, <1>3, <2>1, <2>2 DEF ClientInv, ArgIsPinned
  <2>6. ReadAllows(d)'
    <3>1. TaskErr(d, got[d])' = TaskErr(d, got[d])
      BY Zenon, <2>2 DEF TaskErr
    <3>2. Cur'.CAS = store.CASNext
      BY Zenon, <1>1
    <3> QED
      BY <1>3, <2>1, <2>2, <2>3, <3>1, <3>2 DEF ClientInv, ReadAllows
  <2>7. AttemptsAreLost(d)'
    <3>1. AttemptsAreLost(d)
      BY Zenon, <2>1 DEF ClientInv
    <3>2. began[d] <= store.CASNext /\ (pc[d] \notin {"attempt", "write"} => tries[d] = 0)
      BY Zenon, <3>1 DEF AttemptsAreLost
    <3>3. tries[d] <= (store.CASNext - began[d]) + 1
      BY <3>1, <1>3, <2>3 DEF AttemptsAreLost
    <3>4. began[d] <= store.CASNext + 1 /\ tries[d] <= ((store.CASNext + 1) - began[d]) + 0
          /\ tries[d] <= ((store.CASNext + 1) - began[d]) + 1
      BY <3>2, <3>3, <1>3, <2>3
    <3> QED
      BY Zenon, <1>1, <2>2, <3>2, <3>4 DEF AttemptsAreLost
  <2>8. WriteIsCached(d)'
    <3>1. WriteIsCached(d)
      BY Zenon, <2>1 DEF ClientInv
    <3>2. wrote[d] <= Cur.CAS
      BY Zenon, <3>1 DEF WriteIsCached
    <3>3. Cur'.CAS = store.CASNext
      BY Zenon, <1>1
    <3>4. wrote[d] <= Cur'.CAS
      BY <1>3, <2>3, <3>2, <3>3
    <3> QED
      BY Zenon, <2>2, <3>1, <3>4 DEF WriteIsCached
  <2> QED
    BY Zenon, <2>4, <2>5, <2>6, <2>7, <2>8 DEF ClientInv
<1> QED
    BY Zenon, <1>5, <1>6, <1>7, <1>8, <1>9 DEF IInv

(* Every step preserves the invariant. *)
LEMMA NextIInv == IInv /\ [Next]_vars => IInv'
<1> SUFFICES ASSUME IInv, [Next]_vars PROVE IInv'
    BY Zenon
<1>1. ASSUME NEW c \in Clients, NEW r \in Requests, NEW u \in UUIDArgs(r), Invoke(c, r, u)
      PROVE  IInv'
    BY Zenon, <1>1, InvokeKeeps
<1>2. ASSUME NEW c \in Clients, Reject(c) \/ Step(c)
      PROVE  IInv'
    BY Zenon, <1>2, AttemptKeeps, EndKeeps, AfterKeeps, CommitKeeps DEF Step
<1> QED
    BY Zenon, <1>1, <1>2, ElseKeeps DEF Next

(* The invariant holds in every reachable state. *)
THEOREM IndexDefsInvariant == Spec => []IInv
    BY InitIInv, NextIInv, PTL DEF Spec

(* The state of the Cfg, the requests and the caches keeps its types. *)
THEOREM IndexDefsTypes == Spec => []TypeOK
    BY IndexDefsInvariant, PTL DEF IInv

(* When a create or delete is answered, the planner was kicked, and the    *)
(* manager's cache shows the write unless the refresh timed out            *)
(* (manager_api.go:321-323, 435-437, 700-720).                             *)
THEOREM IndexDefsAnsweredIsVisible == Spec => []AnsweredIsVisible
<1>1. IInv => AnsweredIsVisible
    BY Zenon DEF IInv, ClientInv, WriteIsCached, AnsweredIsVisible
<1> QED
    BY <1>1, IndexDefsInvariant, PTL

(* What RetriesEnd says of every state: a manager has made at most one     *)
(* attempt more than there were writes since its request began.            *)
LosesOnlyToSuccess ==
    \A c \in Clients : tries[c] <= (store.CASNext - began[c]) + 1

(* However many managers race, an attempt is lost only to a write that     *)
(* succeeded (misc.go:141-163).                                            *)
THEOREM IndexDefsLosesOnlyToSuccess == Spec => []LosesOnlyToSuccess
<1>1. ASSUME IInv, NEW c \in Clients
      PROVE  tries[c] <= (store.CASNext - began[c]) + 1
  <2>1. /\ tries[c] \in Nat /\ store.CASNext \in Nat /\ began[c] \in Nat
        /\ AttemptsAreLost(c)
    BY <1>1, CurTypes, IndexDefsAssumption DEF IInv, TypeOK, ClientInv
  <2> QED
    BY <2>1 DEF AttemptsAreLost
<1>2. IInv => LosesOnlyToSuccess
    BY Zenon, <1>1 DEF LosesOnlyToSuccess
<1> QED
    BY <1>2, IndexDefsInvariant, PTL

(* Only a write changes the IndexDefs. *)
LEMMA OnlyCommitWrites ==
    ASSUME [Next]_vars
    PROVE  UNCHANGED store \/ \E c \in Clients : Commit(c)
BY DEF Next, Step, vars, Invoke, Reject, Attempt, TooManyTries, Retry, FailExists,
       RefreshCache, Kick, LateRefresh, Upgrade

(* "cannot update partition or replica count for a planFrozen index"       *)
(* (manager_api.go:294), whoever froze the index in the meantime, unless   *)
(* the update is made with "*".                                            *)
THEOREM IndexDefsFrozenKeepsPartitioning == Spec => FrozenKeepsPartitioning
<1> DEFINE changed(n) ==
        LET old == Cur.Val.IndexDefs[n]
            new == Cur'.Val.IndexDefs[n]
        IN /\ Cur # NoEntry /\ old # NoDef /\ new # NoDef /\ old.PlanFrozen
           /\ new.partitioning # old.partitioning
<1>1. ASSUME IInv, NEW c \in Clients, Commit(c), NEW n \in Names, changed(n)
      PROVE  wrote'[c] # wrote[c] /\ asked[c] = AnyUUID
  <2>1. /\ req[c] \in IndexRequest /\ TaskErr(c, Cur) = "nil" /\ lastUUID < MaxUUID
        /\ Cur'.Val = Result(c)
    BY <1>1, CommitIs
  <2>2. Base(c) = Cur.Val
    BY Zenon, <1>1 DEF Base
  <2>3. /\ req[c].op = "create" /\ req[c].name = n
        /\ Cur'.Val.IndexDefs[n].partitioning = req[c].partitioning
    BY <1>1, <2>1, <2>2, ResultIs
  <2>4. asked[c] = AnyUUID
    BY Zenon, <1>1, <2>1, <2>3, AllowedMeans, CurTypes DEF IInv
  <2>5. wrote'[c] = store.CASNext
    BY Zenon, <1>1 DEF Commit, IInv, TypeOK
  <2>6. wrote[c] < store.CASNext
    BY <1>1, CurTypes DEF IInv, ClientInv, WriteIsCached, CasIsLast, TypeOK
  <2>7. wrote[c] \in Nat /\ store.CASNext \in Nat
    BY <1>1, CurTypes, IndexDefsAssumption DEF IInv, TypeOK
  <2> QED
    BY <2>4, <2>5, <2>6, <2>7
<1>2. IInv /\ [Next]_vars =>
        [\A n \in Names : changed(n) =>
            \E c \in Clients : wrote'[c] # wrote[c] /\ asked[c] = AnyUUID]_store
    BY Zenon, <1>1, OnlyCommitWrites
<1> QED
    BY <1>2, IndexDefsInvariant, PTL DEF Spec, FrozenKeepsPartitioning
-----------------------------------------------------------------------------
(* The catalogue judges and applies requests by the same rules. *)
LEMMA CatalogOps ==
    ASSUME NEW ids, NEW r, NEW u, NEW v, NEW mv
    PROVE  /\ Catalog!ReqErr(ids, r, u, mv) = ReqErr(ids, r, u, mv)
           /\ Catalog!NewDefs(ids, r, u, v) = NewDefs(ids, r, u, v)
           /\ Catalog!NewIndexDefs(v) = NewIndexDefs(v)
           /\ Catalog!FromSource(ids, u) = FromSource(ids, u)
           /\ Catalog!FirstDefs(r) = FirstDefs(r)
<1>1. Catalog!ReqErr(ids, r, u, mv) = ReqErr(ids, r, u, mv)
    BY Zenon DEF Catalog!ReqErr, ReqErr, Catalog!CreateErr, CreateErr, Catalog!ExistingErr,
           ExistingErr, Catalog!BumpErr, BumpErr, Catalog!NoUUID, NoUUID, Catalog!AnyUUID,
           AnyUUID
<1>2. Catalog!NewDefs(ids, r, u, v) = NewDefs(ids, r, u, v)
    BY Zenon DEF Catalog!NewDefs, NewDefs, Catalog!NewDef, NewDef, Catalog!FromSource, FromSource
<1>3. Catalog!NewIndexDefs(v) = NewIndexDefs(v)
    BY Zenon DEF Catalog!NewIndexDefs, NewIndexDefs
<1>4. Catalog!FromSource(ids, u) = FromSource(ids, u)
    BY Zenon DEF Catalog!FromSource, FromSource
<1>5. Catalog!FirstDefs(r) = FirstDefs(r)
    BY Zenon DEF Catalog!FirstDefs, FirstDefs, Catalog!NewDefs, NewDefs, Catalog!NewDef, NewDef,
           Catalog!FromSource, FromSource, Catalog!NewIndexDefs, NewIndexDefs
<1> QED
    BY Zenon, <1>1, <1>2, <1>3, <1>4, <1>5

(* The catalogue is there as soon as the IndexDefs are. *)
LEMMA NilMeans ==
    ASSUME IInv
    PROVE  Cur.Val = Nil <=> Cur = NoEntry
BY Zenon, CurTypes, EntryCas

(* A manager in its attempts runs a request of the catalogue. *)
LEMMA RunningMeans ==
    ASSUME IInv, NEW c \in Clients, pc[c] \in {"attempt", "write"}
    PROVE  Catalog!Running(c)
BY Zenon DEF IInv, ClientInv, StageIsVisible, Catalog!Running

(* Leaving with an error, or because there is nothing to delete. *)
LEMMA AttemptRefines ==
    ASSUME IInv, NEW c \in Clients, Attempt(c)
    PROVE  Catalog!Refuse(c) \/ Catalog!Skip(c) \/ UNCHANGED Catalog!vars
<1> DEFINE err == TaskErr(c, Cur)
<1>1. /\ pc[c] = "attempt" /\ UNCHANGED <<store, lastUUID>>
      /\ Cur'.Val = Cur.Val /\ (1..lastUUID)' = 1..lastUUID
    BY Zenon DEF Attempt, Cur
<1>2. Catalog!Running(c) /\ (Cur.Val = Nil <=> Cur = NoEntry)
    BY Zenon, <1>1, RunningMeans, NilMeans
<1>3. CASE err # "nil" /\ Leave(c, "done", err)
  <2>1. Catalog!Finish(c, err)
    BY Zenon, <1>3 DEF Leave, Catalog!Finish
  <2>2. err = IF Cur.Val = Nil /\ req[c].op # "create" THEN "none"
              ELSE ReqErr(IF Cur.Val = Nil THEN NewIndexDefs(version[c]) ELSE Cur.Val,
                          req[c], asked[c], MgrVersion[c])
    BY Zenon, <1>2 DEF TaskErr
  <2>3. version[c] \in 1..MaxVersion
    BY Zenon DEF IInv, TypeOK
  <2> HIDE DEF err
  <2> QED
    BY <1>1, <1>2, <1>3, <2>1, <2>2, <2>3, CatalogOps DEF Catalog!Refuse
<1>4. CASE /\ err = "nil" /\ NothingToDelete(c, Cur)
           /\ Leave(c, "refresh", "ok")
  <2>1. Catalog!Finish(c, "ok")
    BY Zenon, <1>4 DEF Leave, Catalog!Finish
  <2> QED
    BY Zenon, <1>1, <1>2, <1>4, <2>1, CatalogOps DEF NothingToDelete, Catalog!Skip
<1>5. CASE UNCHANGED <<req, asked, out>>
    BY Zenon, <1>1, <1>5 DEF Catalog!vars
<1> QED
    BY Zenon, <1>3, <1>4, <1>5 DEF Attempt

(* Giving up, and holding a "*" to the UUID that was found. *)
LEMMA EndRefines ==
    ASSUME IInv, NEW c \in Clients, Reject(c) \/ TooManyTries(c) \/ FailExists(c) \/ Retry(c)
    PROVE  Catalog!GiveUp(c) \/ Catalog!Pin(c) \/ UNCHANGED Catalog!vars
<1>1. /\ pc[c] \in {"attempt", "write"} /\ UNCHANGED <<store, lastUUID>>
      /\ Cur'.Val = Cur.Val /\ (1..lastUUID)' = 1..lastUUID
    BY Zenon DEF Reject, TooManyTries, FailExists, Retry, Cur
<1>2. Catalog!Running(c)
    BY Zenon, <1>1, RunningMeans
<1>3. CASE Reject(c) \/ TooManyTries(c) \/ FailExists(c)
  <2>1. Leave(c, "done", "internal")
    BY Zenon, <1>3 DEF Reject, TooManyTries, FailExists
  <2> QED
    BY Zenon, <1>1, <1>2, <2>1 DEF Leave, Catalog!GiveUp, Catalog!Finish
<1>4. CASE Retry(c)
  <2>1. /\ pc[c] = "write" /\ asked' = [asked EXCEPT ![c] = prev[c]] /\ UNCHANGED <<req, out>>
    BY Zenon, <1>4 DEF Retry
  <2>2. CASE prev[c] = asked[c]
    <3>1. asked' = asked
      BY Zenon, <2>1, <2>2 DEF IInv, TypeOK
    <3> QED
      BY Zenon, <1>1, <2>1, <3>1 DEF Catalog!vars
  <2>3. CASE asked[c] = AnyUUID /\ prev[c] \in 1..lastUUID
    BY Zenon, <1>1, <1>2, <2>1, <2>3 DEF Catalog!Pin, Catalog!AnyUUID, AnyUUID
  <2> QED
    BY Zenon, <2>1, <2>2, <2>3 DEF IInv, ClientInv, ArgIsPinned
<1> QED
    BY Zenon, <1>3, <1>4

(* A write is the moment at which a request takes effect. *)
LEMMA CommitRefines ==
    ASSUME IInv, NEW c \in Clients, Commit(c)
    PROVE  Catalog!Execute(c)
<1>1. /\ pc[c] = "write" /\ req[c] \in IndexRequest /\ TaskErr(c, Cur) = "nil"
      /\ Cur'.Val = Result(c) /\ lastUUID < MaxUUID /\ lastUUID' = lastUUID + 1
    BY CommitIs
<1>2. Catalog!Running(c) /\ (Cur.Val = Nil <=> Cur = NoEntry)
    BY Zenon, <1>1, RunningMeans, NilMeans
<1>3. Catalog!Finish(c, "ok")
    BY Zenon DEF Commit, Leave, Catalog!Finish
<1>4. /\ version[c] \in 1..MaxVersion /\ lastUUID + 1 \in (1..MaxUUID) \ (1..lastUUID)
      /\ (1..lastUUID)' = (1..lastUUID) \cup {lastUUID + 1}
    BY <1>1, UUIDAssumption DEF IInv, TypeOK
<1>5. /\ Cur.Val = Nil => req[c].op = "create"
      /\ ReqErr(Base(c), req[c], asked[c], MgrVersion[c]) = "nil"
    BY Zenon, <1>1, <1>2 DEF TaskErr, Base
<1>6. Base(c) = IF Cur.Val = Nil THEN Catalog!NewIndexDefs(version[c]) ELSE Cur.Val
    BY Zenon, <1>2, CatalogOps DEF Base
<1>7. /\ Catalog!ReqErr(Base(c), req[c], asked[c], MgrVersion[c]) = "nil"
      /\ Cur'.Val = Catalog!NewDefs(Base(c), req[c], lastUUID + 1, version[c])
    BY <1>1, <1>5, CatalogOps DEF Result
<1> QED
    BY Zenon, <1>2, <1>3, <1>4, <1>5, <1>6, <1>7 DEF Catalog!Execute

(* Each step of a manager is one of the catalogue, or none. *)
LEMMA StepRefines ==
    ASSUME IInv, [Next]_vars
    PROVE  Catalog!Next \/ UNCHANGED Catalog!vars
<1>1. ASSUME NEW c \in Clients, NEW r \in Requests, NEW u \in UUIDArgs(r), Invoke(c, r, u)
      PROVE  Catalog!Invoke(c)
  <2>1. /\ req[c] = NoReq /\ u \in 0..(MaxUUID + 1)
        /\ req' = [req EXCEPT ![c] = r] /\ asked' = [asked EXCEPT ![c] = u]
        /\ UNCHANGED <<store, lastUUID, out>>
    BY Zenon, <1>1, InvokeKeeps DEF Invoke, IInv, ClientInv, StageIsVisible, AnyUUID
  <2> QED
    BY Zenon, <2>1 DEF Catalog!Invoke, Cur
<1>2. ASSUME NEW c \in Clients, Kick(c)
      PROVE  Catalog!Chain(c) \/ UNCHANGED Catalog!vars
  <2>1. pc[c] = "kick" /\ UNCHANGED <<store, lastUUID>> /\ out[c] = "ok"
    BY Zenon, <1>2 DEF Kick, IInv, ClientInv, StageIsVisible
  <2>2. CASE req[c].op = "deleteSource"
    BY Zenon, <1>2, <2>1, <2>2 DEF Kick, Catalog!Chain, Cur, Catalog!NoUUID, NoUUID
  <2>3. CASE req[c].op # "deleteSource"
    BY Zenon, <1>2, <2>1, <2>3 DEF Kick, Catalog!vars, Cur
  <2> QED
    BY Zenon, <2>2, <2>3
<1>3. ASSUME NEW c \in Clients, RefreshCache(c) \/ LateRefresh(c)
      PROVE  UNCHANGED Catalog!vars
    BY Zenon, <1>3 DEF RefreshCache, LateRefresh, clientVars, Catalog!vars, Cur
<1>4. CASE Upgrade \/ UNCHANGED vars
    BY Zenon, <1>4 DEF Upgrade, vars, clientVars, Catalog!vars, Cur
<1>5. ASSUME NEW c \in Clients, Reject(c) \/ Step(c)
      PROVE  Catalog!Next \/ UNCHANGED Catalog!vars
    BY Zenon, <1>2, <1>3, <1>5, AttemptRefines, EndRefines, CommitRefines DEF Step, Catalog!Next
<1> QED
    BY Zenon, <1>1, <1>4, <1>5 DEF Next, Catalog!Next

(* The index API is linearizable for any number of managers: each request  *)
(* takes effect, or is refused, as if against the IndexDefs of one moment  *)
(* (manager_api.go:252-315, 391-429, 467-540, 558-586, 607-652).           *)
THEOREM IndexDefsLinearizable == Spec => Linearizable
<1>1. Init => Catalog!Init
  <2> SUFFICES ASSUME Init PROVE Catalog!Init
    OBVIOUS
  <2>1. /\ req = [c \in Clients |-> NoReq] /\ asked = [c \in Clients |-> NoUUID]
        /\ out = [c \in Clients |-> "open"]
    BY Zenon DEF Init
  <2>2. CASE store = NewCfgMem /\ lastUUID = 0
    <3>1. Cur.Val = Nil
      BY Zenon, <2>2 DEF Cur, NewCfgMem, NoEntry
    <3>2. 1..lastUUID = {}
      BY <2>2
    <3> QED
      BY Zenon, <2>1, <3>1, <3>2 DEF Catalog!Init, Catalog!NoUUID, NoUUID
  <2>3. CASE /\ store \in {SetStore(NewCfgMem, INDEX_DEFS_KEY, v) : v \in FirstDefs(Requests)}
             /\ lastUUID = 1
    <3>1. PICK v \in FirstDefs(Requests) : store = SetStore(NewCfgMem, INDEX_DEFS_KEY, v)
      BY Zenon, <2>3
    <3>2. Cur.Val = v
      BY Zenon, <3>1 DEF Cur, SetStore, NewCfgMem
    <3>3. 1..lastUUID = {1}
      BY <2>3
    <3> QED
      BY Zenon, <2>1, <3>1, <3>2, <3>3, CatalogOps DEF Catalog!Init, Catalog!NoUUID, NoUUID
  <2> QED
    BY <2>2, <2>3, Zenon DEF Init
<1>2. IInv /\ [Next]_vars => [Catalog!Next]_(Catalog!vars)
    BY Zenon, StepRefines
<1> QED
    BY <1>1, <1>2, IndexDefsInvariant, PTL DEF Spec, Linearizable, Catalog!Spec
=============================================================================
