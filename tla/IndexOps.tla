------------------------------ MODULE IndexOps ------------------------------
(***************************************************************************)
(* What the index API of manager_api.go does to an IndexDefs value that it *)
(* has read from the Cfg: when each request is refused, and which value it *)
(* writes otherwise.  A definition keeps the fields that decide something: *)
(* its UUID, its partitioning (MaxPartitionsPerPIndex and NumReplicas),    *)
(* PlanFrozen, whether writes are allowed (NodePlanParams) and its source. *)
(***************************************************************************)
EXTENDS Naturals

CONSTANTS Names,      \* index names
          Sources,    \* data sources
          Partitionings,  \* values of MaxPartitionsPerPIndex and NumReplicas
          MaxUUID,    \* bound: UUIDs drawn from NewUUID
          MaxVersion, \* bound: versions of the software
          NoDef       \* no definition under a name

ASSUME UUIDAssumption == MaxUUID \in Nat \ {0} /\ MaxVersion \in Nat \ {0}

(* The prevIndexUUID and indexUUID arguments: "" and "*", or a UUID. *)
NoUUID == 0
AnyUUID == MaxUUID + 1

IndexDef == [UUID : 1..MaxUUID, partitioning : Partitionings,
             PlanFrozen : BOOLEAN, canWrite : BOOLEAN, source : Sources]

IndexDefsVals == [UUID : 0..MaxUUID, ImplVersion : 1..MaxVersion,
                  IndexDefs : [Names -> IndexDef \cup {NoDef}]]

NewIndexDefs(version) ==
    [UUID |-> 0, ImplVersion |-> version,
     IndexDefs |-> [n \in Names |-> NoDef]]

(* Mutant: an update does not look whether the plan is frozen. *)
CreateErrThawed(ids, r, prev) ==
    LET cur == ids.IndexDefs[r.name] IN
    CASE prev = NoUUID -> IF cur # NoDef THEN "exists" ELSE "nil"
      [] prev = AnyUUID -> "nil"
      [] OTHER -> IF cur = NoDef THEN "missing"
                  ELSE IF cur.UUID # prev THEN "wrong UUID" ELSE "nil"

(* The checks of indexCreateFunc.  "*" passes whatever is there. *)
CreateErr(ids, r, prev) ==
    LET cur == ids.IndexDefs[r.name] IN
    CASE prev = NoUUID -> IF cur # NoDef THEN "exists" ELSE "nil"
      [] prev = AnyUUID -> "nil"
      [] OTHER ->
           CASE cur = NoDef -> "missing"
             [] cur # NoDef /\ cur.UUID # prev -> "wrong UUID"
             [] cur # NoDef /\ cur.UUID = prev ->
                  IF cur.PlanFrozen /\ cur.partitioning # r.partitioning
                  THEN "frozen" ELSE "nil"

(* The checks of indexDeleteFunc and indexControlFunc. *)
ExistingErr(ids, r, prev) ==
    LET cur == ids.IndexDefs[r.name] IN
    CASE cur = NoDef -> "missing"
      [] cur # NoDef /\ prev \notin {NoUUID, cur.UUID} -> "wrong UUID"
      [] OTHER -> "nil"

BumpErr(ids, prev) ==
    IF prev \notin {NoUUID, ids.UUID} THEN "wrong UUID" ELSE "nil"

(* Why request r of a manager of version mv is refused on reading ids. *)
ReqErr(ids, r, prev, mv) ==
    CASE mv < ids.ImplVersion -> "version"
      [] mv >= ids.ImplVersion ->
           CASE r.op = "create" -> CreateErr(ids, r, prev)
             [] r.op \in {"delete", "control"} -> ExistingErr(ids, r, prev)
             [] r.op = "bump" -> BumpErr(ids, prev)
             [] r.op = "deleteSource" -> "nil"

(* How a request may end, or "open" as long as it has not. *)
Outcomes == {"open", "ok", "internal", "none", "version", "exists", "missing",
             "wrong UUID", "frozen"}

(* The definitions DeleteAllIndexFromSource removes. *)
FromSource(ids, s) ==
    {n \in Names : ids.IndexDefs[n] # NoDef /\ ids.IndexDefs[n].source = s}

(* The definition a request leaves under its name. *)
NewDef(ids, r, uuid) ==
    CASE r.op = "create" ->
           [UUID |-> uuid, partitioning |-> r.partitioning,
            PlanFrozen |-> r.freeze = "freeze", canWrite |-> TRUE,
            source |-> r.source]
      [] r.op = "delete" -> NoDef
      [] r.op = "control" ->
           [ids.IndexDefs[r.name] EXCEPT
               !.UUID = uuid,
               !.canWrite = IF r.write = "" THEN @ ELSE r.write = "allow",
               !.PlanFrozen = IF r.freeze = "" THEN @ ELSE r.freeze = "freeze"]

(* The IndexDefs value request r writes, with a new UUID and the Cfg's     *)
(* version; IndexControl and BumpIndexDefs keep the ImplVersion.           *)
NewDefs(ids, r, uuid, version) ==
    [UUID |-> uuid,
     ImplVersion |-> IF r.op \in {"control", "bump"}
                     THEN ids.ImplVersion ELSE version,
     IndexDefs |->
        CASE r.op \in {"create", "delete", "control"} ->
               [ids.IndexDefs EXCEPT ![r.name] = NewDef(ids, r, uuid)]
          [] r.op = "bump" -> ids.IndexDefs
          [] r.op = "deleteSource" ->
               [n \in Names |-> IF n \in FromSource(ids, r.source)
                                THEN NoDef ELSE ids.IndexDefs[n]]]

(* The IndexDefs after a first creation out of requests rs. *)
FirstDefs(rs) ==
    {NewDefs(NewIndexDefs(1), r, 1, 1) : r \in {q \in rs : q.op = "create"}}
=============================================================================
