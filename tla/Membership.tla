----------------------------- MODULE Membership -----------------------------
(***************************************************************************)
(* How nodes come and go in the Cfg: Register of manager.go (SaveNodeDef   *)
(* and RemoveNodeDef), the UnregisterNodes of defs.go that a rebalance     *)
(* runs for the nodes it ejects, and CheckVersion of version.go, by which  *)
(* each node's planner initialises and raises the cluster's version.  All  *)
(* of them read a key, decide, and write it back with the CAS they read,   *)
(* while the other nodes do the same; nodes crash and come back upgraded.  *)
(***************************************************************************)
EXTENDS Integers, Sequences

CONSTANTS Nodes,         \* the nodes, by UUID
          Planners,      \* those whose tags make them run a planner
          Ctls,          \* the callers of UnregisterNodes
          Modes,         \* the register parameters in use
          Nil,
          MaxVersion,    \* bound: versions of the software
          MaxTries,      \* maxTries of UnregisterNodesWithRetries, 10 in the code
          MaxCheckTries, \* tries of CheckVersion, 100 in the code
          MaxCalls,      \* bound: calls each process makes between restarts
          MaxRestarts,   \* bound: restarts of all nodes
          MaxCas         \* bound: writes of the Cfg

ASSUME MembershipAssumption ==
    /\ Planners \subseteq Nodes /\ Nodes \cap Ctls = {} /\ Nil \notin Nodes
    /\ Modes \subseteq {"known", "knownForce", "wanted", "wantedForce", "unwanted", "unknown"}
    /\ MaxCas \in Nat
    /\ MaxVersion \in Nat \ {0}
    /\ MaxTries \in Nat \ {0} /\ MaxCheckTries \in Nat \ {0}
    /\ MaxCalls \in Nat /\ MaxRestarts \in Nat

Kinds == {"known", "wanted"}
VERSION_KEY == "version"
NotRegistered == 0

(* A NodeDefs value: the ImplVersion of each node's NodeDef. *)
NodeDefs == [Nodes -> 0..MaxVersion]

INSTANCE CfgOps WITH Keys <- Kinds \cup {VERSION_KEY},
                     Vals <- NodeDefs \cup (1..MaxVersion)

DefsEntry == [CAS : 1..MaxCas, Val : NodeDefs]
VersionEntry == [CAS : 1..MaxCas, Val : 1..MaxVersion]

Procs == Nodes \cup Ctls

Task == [op : {"save", "remove"}, kind : Kinds, node : Nodes, force : BOOLEAN]

VARIABLES store,     \* the Cfg
          ver,       \* ver[n]: the version of node n's software
          down,      \* the nodes that were ejected and act no more
          restarts,  \* restarts so far
          todo,      \* todo[p]: what is left of p's Register or UnregisterNodes
          pc,        \* "get" or "set": the next access of the first task
          got,       \* got[p]: the entry the first task read
          tries,     \* tries[p]: tries of the first task, for UnregisterNodes
          err,       \* err[p]: the error its last call returned
          calls,     \* calls[p]: calls made since p started
          cv,        \* cv[n]: the state of n's CheckVersion
          ejected,   \* history: ejected[p]: the node of p's latest UnregisterNodes, or Nil
                     \* if the tries of that call ran out
          last       \* history: last[k][n]: what the latest successful
                     \* registration or removal of n left under kind k

taskVars == <<todo, pc, got, tries, err>>
vars == <<store, ver, down, restarts, taskVars, calls, cv, ejected, last>>

CheckStates == {"idle", "get", "init", "known", "wanted", "bump"}
NotChecking == [pc |-> "idle", got |-> NoEntry, tries |-> 0, answer |-> "none"]

Cur(k) == store.Entries[k]

NewNodeDefs == [n \in Nodes |-> NotRegistered]

(* The node definitions of an entry: those of NewNodeDefs if there is none. *)
DefsOf(e) == IF e = NoEntry THEN NewNodeDefs ELSE e.Val

Init ==
    /\ store = NewCfgMem
    /\ ver \in [Nodes -> 1..MaxVersion]
    /\ down = {}
    /\ restarts = 0
    /\ todo = [p \in Procs |-> <<>>]
    /\ pc = [p \in Procs |-> "get"]
    /\ got = [p \in Procs |-> NoEntry]
    /\ tries = [p \in Procs |-> 0]
    /\ err = [p \in Procs |-> "nil"]
    /\ calls = [p \in Procs |-> 0]
    /\ cv = [n \in Nodes |-> NotChecking]
    /\ ejected = [p \in Ctls |-> Nil]
    /\ last = [k \in Kinds |-> NewNodeDefs]
-----------------------------------------------------------------------------
(* Mutant: a node that leaves is taken out of the wanted nodes only. *)
RegisterTasksKnown(n, mode) ==
    LET task(o, k) == [op |-> o, kind |-> k, node |-> n, force |-> FALSE]
    IN IF mode = "unknown" THEN <<task("remove", "wanted")>>
                           ELSE <<task("save", "known"), task("save", "wanted")>>

(* The steps of Register for each of its modes. *)
RegisterTasks(n, mode) ==
    LET save(k, f) == [op |-> "save", kind |-> k, node |-> n, force |-> f]
        remove(k) == [op |-> "remove", kind |-> k, node |-> n, force |-> FALSE]
    IN CASE mode = "known" -> <<save("known", FALSE)>>
         [] mode = "knownForce" -> <<save("known", TRUE)>>
         [] mode = "wanted" -> <<save("known", FALSE), save("wanted", FALSE)>>
         [] mode = "wantedForce" -> <<save("known", FALSE), save("wanted", TRUE)>>
         [] mode = "unwanted" -> <<remove("wanted")>>
         [] mode = "unknown" -> <<remove("wanted"), remove("known")>>

Call(p, tasks) ==
    /\ todo[p] = <<>>
    /\ calls[p] < MaxCalls
    /\ todo' = [todo EXCEPT ![p] = tasks]
    /\ err' = [err EXCEPT ![p] = "nil"]
    /\ calls' = [calls EXCEPT ![p] = @ + 1]
    /\ UNCHANGED <<store, ver, restarts, pc, got, tries, cv, last>>

Register(n, mode) ==
    /\ n \notin down
    /\ Call(n, RegisterTasks(n, mode))
    /\ UNCHANGED <<down, ejected>>

(* A rebalance ejects node n, which is not registering and stays away. *)
UnregisterNodes(p, n) ==
    /\ n \notin down /\ todo[n] = <<>>
    /\ Call(p, RegisterTasks(n, "unknown"))
    /\ down' = down \cup {n}
    /\ ejected' = [ejected EXCEPT ![p] = n]

(* SaveNodeDef and removeNodeDef return early when there is nothing to do. *)
NothingToDo(t, defs) ==
    IF t.op = "save" THEN ~t.force /\ defs[t.node] = ver[t.node]
                     ELSE defs[t.node] = NotRegistered

(* The first task of p has returned without error. *)
Finish(p) ==
    /\ todo' = [todo EXCEPT ![p] = Tail(@)]
    /\ pc' = [pc EXCEPT ![p] = "get"]
    /\ got' = [got EXCEPT ![p] = NoEntry]
    /\ tries' = [tries EXCEPT ![p] = 0]

(* CfgGetNodeDefs, and the early return. *)
TaskGet(p) ==
    /\ todo[p] # <<>> /\ pc[p] = "get"
    /\ LET t == Head(todo[p]) IN
       IF NothingToDo(t, DefsOf(Cur(t.kind)))
       THEN Finish(p)
       ELSE /\ got' = [got EXCEPT ![p] = Cur(t.kind)]
            /\ pc' = [pc EXCEPT ![p] = "set"]
            /\ UNCHANGED <<todo, tries>>
    /\ UNCHANGED <<store, ver, down, restarts, err, calls, cv, ejected, last>>

(* What the NodeDef of t.node becomes. *)
NewNodeDef(t) == IF t.op = "save" THEN ver[t.node] ELSE NotRegistered

(* Mutant: the write of CfgRemoveNodeDefForce, which ignores the CAS. *)
WriteErrForced(p) == SetErr(store, Head(todo[p]).kind, CFG_CAS_FORCE)

(* The error of CfgSetNodeDefs with the CAS that was read. *)
WriteErr(p) == SetErr(store, Head(todo[p]).kind, got[p].CAS)

(* CfgSetNodeDefs succeeds. *)
TaskSet(p) ==
    /\ todo[p] # <<>> /\ pc[p] = "set"
    /\ LET t == Head(todo[p]) IN
       /\ store.CASNext <= MaxCas
       /\ WriteErr(p) = "nil"
       /\ store' = SetStore(store, t.kind,
                      [DefsOf(got[p]) EXCEPT ![t.node] = NewNodeDef(t)])
       /\ last' = [last EXCEPT ![t.kind][t.node] = NewNodeDef(t)]
    /\ Finish(p)
    /\ UNCHANGED <<ver, down, restarts, err, calls, cv, ejected>>

MayRetry(p) == p \in Ctls => tries[p] + 1 < MaxTries

(* A CAS mismatch: Register tries for ever, UnregisterNodes MaxTries times, *)
(* after which it goes on with the next kind as if nothing had happened.    *)
TaskRetry(p) ==
    /\ todo[p] # <<>> /\ pc[p] = "set"
    /\ WriteErr(p) = "CfgCASError"
    /\ IF MayRetry(p)
       THEN /\ pc' = [pc EXCEPT ![p] = "get"]
            /\ got' = [got EXCEPT ![p] = NoEntry]
            /\ tries' = [tries EXCEPT ![p] = IF p \in Ctls THEN @ + 1 ELSE 0]
            /\ UNCHANGED <<todo, ejected>>
       ELSE Finish(p) /\ ejected' = [ejected EXCEPT ![p] = Nil]
    /\ UNCHANGED <<store, ver, down, restarts, err, calls, cv, last>>

(* Any other error is returned.  CfgMem's "entry already exists", of a     *)
(* creation that came second, is one.                                      *)
TaskFail(p) ==
    /\ todo[p] # <<>> /\ pc[p] = "set"
    /\ WriteErr(p) = "exists"
    /\ todo' = [todo EXCEPT ![p] = <<>>]
    /\ pc' = [pc EXCEPT ![p] = "get"]
    /\ err' = [err EXCEPT ![p] = "exists"]
    /\ got' = [got EXCEPT ![p] = NoEntry]
    /\ tries' = [tries EXCEPT ![p] = 0]
    /\ UNCHANGED <<store, ver, down, restarts, calls, cv, ejected, last>>
-----------------------------------------------------------------------------
SetCv(n, c) ==
    /\ cv' = [cv EXCEPT ![n] = c]
    /\ UNCHANGED <<ver, down, restarts, taskVars, calls, ejected, last>>

CheckDone(n, answer) ==
    SetCv(n, [NotChecking EXCEPT !.answer = answer])

(* The planner of node n calls CheckVersion. *)
CheckVersion(n) ==
    /\ n \in Planners \ down
    /\ cv[n].pc = "idle"
    /\ SetCv(n, [NotChecking EXCEPT !.pc = "get"])
    /\ UNCHANGED store

(* Reads the version in the Cfg and compares it with this node's. *)
CheckGet(n) ==
    LET e == Cur(VERSION_KEY)
        again(s) == SetCv(n, [pc |-> s, got |-> e, tries |-> cv[n].tries + 1,
                              answer |-> "none"])
    IN /\ cv[n].pc = "get"
       /\ \/ cv[n].tries >= MaxCheckTries /\ CheckDone(n, "error")
          \/ cv[n].tries < MaxCheckTries /\ e = NoEntry /\ again("init")
          \/ /\ cv[n].tries < MaxCheckTries /\ e # NoEntry
             /\ \/ ver[n] < e.Val /\ CheckDone(n, "false")
                \/ ver[n] = e.Val /\ CheckDone(n, "true")
                \/ ver[n] > e.Val /\ again("known")
       /\ UNCHANGED store

(* VerifyEffectiveClusterVersion looks at the known, then the wanted nodes: *)
(* with a lower version among them there is no bump.                        *)
CheckVerify(n, kind) ==
    /\ cv[n].pc = kind
    /\ IF \E m \in Nodes : DefsOf(Cur(kind))[m] \in 1..(ver[n] - 1)
       THEN CheckDone(n, "true")
       ELSE SetCv(n, [cv[n] EXCEPT
               !.pc = IF kind = "known" THEN "wanted" ELSE "bump"])
    /\ UNCHANGED store

(* Mutant: the version is saved whatever the Cfg has by now. *)
CheckSetErrForced(n) == SetErr(store, VERSION_KEY, CFG_CAS_FORCE)

(* The error of saving the version with the CAS that was read. *)
CheckSetErr(n) == SetErr(store, VERSION_KEY, cv[n].got.CAS)

(* First time initialisation, or a bump: saves this node's version. *)
CheckSet(n) ==
    /\ cv[n].pc \in {"init", "bump"}
    /\ \/ /\ CheckSetErr(n) = "nil" /\ store.CASNext <= MaxCas
          /\ store' = SetStore(store, VERSION_KEY, ver[n])
          /\ SetCv(n, [cv[n] EXCEPT !.pc = "get", !.got = NoEntry])
       \/ /\ CheckSetErr(n) = "CfgCASError"
          /\ SetCv(n, [cv[n] EXCEPT !.pc = "get", !.got = NoEntry])
          /\ UNCHANGED store
       \/ CheckSetErr(n) = "exists" /\ CheckDone(n, "error") /\ UNCHANGED store

(* Node n crashes wherever it is, and starts again, upgraded or not. *)
Restart(n) ==
    /\ n \notin down
    /\ restarts < MaxRestarts
    /\ restarts' = restarts + 1
    /\ ver' \in {ver, [ver EXCEPT ![n] = @ + 1]} \cap [Nodes -> 1..MaxVersion]
    /\ todo' = [todo EXCEPT ![n] = <<>>]
    /\ pc' = [pc EXCEPT ![n] = "get"]
    /\ cv' = [cv EXCEPT ![n] = NotChecking]
    /\ got' = [got EXCEPT ![n] = NoEntry]
    /\ err' = [err EXCEPT ![n] = "nil"]
    /\ calls' = [calls EXCEPT ![n] = 0]
    /\ UNCHANGED <<store, down, tries, ejected, last>>

TaskStep(p) == TaskGet(p) \/ TaskSet(p) \/ TaskRetry(p) \/ TaskFail(p)

CheckStep(n) ==
    CheckGet(n) \/ (\E k \in Kinds : CheckVerify(n, k)) \/ CheckSet(n)

Next ==
    \/ \E p \in Procs : TaskStep(p)
    \/ \E n \in Nodes :
          \/ \E mode \in Modes : Register(n, mode)
          \/ \E p \in Ctls : UnregisterNodes(p, n)
          \/ CheckVersion(n) \/ CheckStep(n)
          \/ Restart(n)

Spec == Init /\ [][Next]_vars
-----------------------------------------------------------------------------
(* Types of the Cfg's node definitions and version and of the calls. *)
TypeOK ==
    /\ store.CASNext \in 1..(MaxCas + 1)
    /\ \A k \in Kinds : Cur(k) \in DefsEntry \cup {NoEntry}
    /\ Cur(VERSION_KEY) \in VersionEntry \cup {NoEntry}
    /\ ver \in [Nodes -> 1..MaxVersion]
    /\ down \subseteq Nodes
    /\ todo \in [Procs -> Seq(Task)]
    /\ pc \in [Procs -> {"get", "set"}]
    /\ got \in [Procs -> DefsEntry \cup {NoEntry}]
    /\ tries \in [Procs -> 0..(MaxTries - 1)]
    /\ cv \in [Nodes -> [pc : CheckStates, got : VersionEntry \cup {NoEntry},
                 tries : 0..MaxCheckTries,
                 answer : {"none", "true", "false", "error"}]]

(* No registration or removal is lost to a concurrent one: under either     *)
(* kind, a node's definition is always what its own latest successful       *)
(* registration or removal wrote, although every write replaces the         *)
(* definitions of all the nodes (manager.go:555-590, defs.go:447-474).      *)
RegistrationsAreKept == \A k \in Kinds : DefsOf(Cur(k)) = last[k]

(* The cluster's version never goes down, whichever of several planners of  *)
(* different versions raises it (version.go:65-103).                        *)
VersionNeverFalls ==
    [][Cur(VERSION_KEY) # NoEntry =>
          Cur(VERSION_KEY)'.Val >= Cur(VERSION_KEY).Val]_store

(* "UnregisterNodesWithRetries removes the given nodes (by their UUID) from *)
(* the nodes wanted & known cfg entries" (defs.go:484-485): when it has     *)
(* returned nil, the node is in neither, whoever was registering meanwhile, *)
(* unless its tries ran out, of which its caller is not told.               *)
UnregisteredIsGone ==
    \A p \in Ctls : todo[p] = <<>> /\ err[p] = "nil" /\ ejected[p] # Nil =>
        \A k \in Kinds : DefsOf(Cur(k))[ejected[p]] = NotRegistered
=============================================================================
