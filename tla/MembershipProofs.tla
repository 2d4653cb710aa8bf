--------------------------- MODULE MembershipProofs ---------------------------
(***************************************************************************)
(* Proofs about Membership for every set of nodes and callers, every       *)
(* software version and every bound on tries, calls and restarts.          *)
(***************************************************************************)
EXTENDS Membership, SequenceTheorems, TLAPS

(* The types of the variables that the proofs use. *)
Types ==
    /\ store \in [CASNext : 1..(MaxCas + 1), Entries : [Kinds \cup {VERSION_KEY} ->
                     DefsEntry \cup VersionEntry \cup {NoEntry}]]
    /\ \A k \in Kinds : Cur(k) \in DefsEntry \cup {NoEntry}
    /\ Cur(VERSION_KEY) \in VersionEntry \cup {NoEntry}
    /\ ver \in [Nodes -> 1..MaxVersion]
    /\ down \subseteq Nodes
    /\ tries \in [Procs -> 0..(MaxTries - 1)]
    /\ todo \in [Procs -> Seq(Task)]
    /\ pc \in [Procs -> {"get", "set"}]
    /\ got \in [Procs -> DefsEntry \cup {NoEntry}]
    /\ cv \in [Nodes -> [pc : CheckStates, got : VersionEntry \cup {NoEntry},
                 tries : 0..MaxCheckTries,
                 answer : {"none", "true", "false", "error"}]]
    /\ last \in [Kinds -> NodeDefs]

(* No CAS in use is yet to be handed out. *)
CasIsUsed ==
    /\ \A k \in Kinds \cup {VERSION_KEY} : Cur(k).CAS < store.CASNext
    /\ \A p \in Procs : got[p].CAS < store.CASNext
    /\ \A n \in Nodes : cv[n].got.CAS < store.CASNext

(* What a task has read is what the Cfg has, if the Cfg has its CAS. *)
GotIsCurrent ==
    \A p \in Procs : pc[p] = "set" =>
        /\ todo[p] # <<>>
        /\ got[p].CAS = Cur(Head(todo[p]).kind).CAS => got[p] = Cur(Head(todo[p]).kind)

(* The same of the version, which is lower than that of the node that is   *)
(* about to raise it.                                                      *)
BumpIsUp ==
    \A n \in Nodes :
        /\ cv[n].pc \in {"known", "wanted", "bump"} =>
              /\ cv[n].got \in VersionEntry
              /\ ver[n] > cv[n].got.Val
              /\ cv[n].got.CAS = Cur(VERSION_KEY).CAS => cv[n].got = Cur(VERSION_KEY)
        /\ cv[n].pc = "init" => cv[n].got = NoEntry

(* The inductive invariant of Membership. *)
IInv == Types /\ CasIsUsed /\ GotIsCurrent /\ BumpIsUp /\ RegistrationsAreKept
-----------------------------------------------------------------------------
(* An entry has a positive CAS, a missing one CAS 0. *)
LEMMA EntryCas ==
    /\ \A e \in DefsEntry \cup VersionEntry : e.CAS \in 1..MaxCas /\ e # NoEntry
    /\ NoEntry.CAS = 0
BY MembershipAssumption DEF DefsEntry, VersionEntry, NoEntry

(* The definitions of an entry have their type. *)
LEMMA DefsType ==
    /\ \A e \in DefsEntry \cup {NoEntry} : DefsOf(e) \in NodeDefs
    /\ NewNodeDefs \in NodeDefs
BY EntryCas, MembershipAssumption DEF DefsOf, DefsEntry, NewNodeDefs, NodeDefs, NotRegistered

(* A write with the CAS of an entry succeeds only if that CAS is current. *)
LEMMA SetErrMeans ==
    ASSUME NEW k \in Kinds \cup {VERSION_KEY}, NEW cas \in 0..MaxCas,
           Cur(k) = NoEntry \/ Cur(k).CAS \in 1..MaxCas,
           SetErr(store, k, cas) = "nil"
    PROVE  cas = Cur(k).CAS
BY EntryCas, MembershipAssumption DEF SetErr, Exists, CFG_CAS_FORCE, Cur

(* Every initial state satisfies the invariant. *)
LEMMA InitIInv == Init => IInv
<1> SUFFICES ASSUME Init PROVE IInv
    BY Zenon
<1>0. \A k \in Kinds \cup {VERSION_KEY} : Cur(k) = NoEntry
    BY Zenon DEF Init, NewCfgMem, Cur
<1>1. Types
  <2>1. store \in [CASNext : 1..(MaxCas + 1), Entries : [Kinds \cup {VERSION_KEY} ->
                     DefsEntry \cup VersionEntry \cup {NoEntry}]]
      BY MembershipAssumption DEF Init, NewCfgMem
  <2>2. cv \in [Nodes -> [pc : CheckStates, got : VersionEntry \cup {NoEntry},
                 tries : 0..MaxCheckTries, answer : {"none", "true", "false", "error"}]]
      BY MembershipAssumption DEF Init, NotChecking, CheckStates
  <2> QED
      BY <1>0, <2>1, <2>2, DefsType, MembershipAssumption DEF Init, Types
<1>2. CasIsUsed
    BY <1>0, EntryCas DEF Init, CasIsUsed, NewCfgMem, NotChecking
<1>3. GotIsCurrent /\ BumpIsUp
    BY Zenon DEF Init, GotIsCurrent, BumpIsUp, NotChecking
<1>4. RegistrationsAreKept
    BY Zenon, <1>0 DEF Init, RegistrationsAreKept, DefsOf
<1> QED
    BY Zenon, <1>1, <1>2, <1>3, <1>4 DEF IInv
-----------------------------------------------------------------------------
(* The first task is one, and its kind is a key of the Cfg. *)
LEMMA HeadType ==
    ASSUME NEW s \in Seq(Task), s # <<>>
    PROVE  /\ Head(s) \in Task /\ Tail(s) \in Seq(Task)
           /\ Head(s).kind \in Kinds /\ Head(s).node \in Nodes
<1>1. Head(s) \in Task /\ Tail(s) \in Seq(Task)
    BY Zenon, HeadTailProperties
<1> QED
    BY Zenon, <1>1 DEF Task

(* The tasks of every mode are tasks. *)
LEMMA RegisterTasksType ==
    ASSUME NEW n \in Nodes, NEW mode \in Modes \cup {"unknown"}
    PROVE  RegisterTasks(n, mode) \in Seq(Task)
<1>1. \A o \in {"save", "remove"}, k \in Kinds, f \in BOOLEAN :
         [op |-> o, kind |-> k, node |-> n, force |-> f] \in Task
    BY Zenon DEF Task
<1>2. mode \in {"known", "knownForce", "wanted", "wantedForce", "unwanted", "unknown"}
    BY Zenon, MembershipAssumption
<1>3. \A s, u \in Task : <<s>> \in Seq(Task) /\ <<s, u>> \in Seq(Task)
    OBVIOUS
<1> DEFINE save(k, f) == [op |-> "save", kind |-> k, node |-> n, force |-> f]
           remove(k) == [op |-> "remove", kind |-> k, node |-> n, force |-> FALSE]
<1>4. /\ \A k \in Kinds, f \in BOOLEAN : save(k, f) \in Task
      /\ \A k \in Kinds : remove(k) \in Task
    BY Zenon, <1>1
<1>5. \/ RegisterTasks(n, mode) = <<save("known", FALSE)>>
      \/ RegisterTasks(n, mode) = <<save("known", TRUE)>>
      \/ RegisterTasks(n, mode) = <<save("known", FALSE), save("wanted", FALSE)>>
      \/ RegisterTasks(n, mode) = <<save("known", FALSE), save("wanted", TRUE)>>
      \/ RegisterTasks(n, mode) = <<remove("wanted")>>
      \/ RegisterTasks(n, mode) = <<remove("wanted"), remove("known")>>
    BY Zenon, <1>2 DEF RegisterTasks
<1>6. "known" \in Kinds /\ "wanted" \in Kinds
    BY Zenon DEF Kinds
<1> HIDE DEF save, remove
<1> QED
    BY Zenon, <1>3, <1>4, <1>5, <1>6

(* Steps of the tasks that do not write: each process stays as it is, or   *)
(* is to read, or has just read the Cfg.                                   *)
LEMMA TaskFrame ==
    ASSUME IInv, UNCHANGED <<store, ver, cv, last>>,
           todo' \in [Procs -> Seq(Task)], pc' \in [Procs -> {"get", "set"}],
           got' \in [Procs -> DefsEntry \cup {NoEntry}],
           tries' \in [Procs -> 0..(MaxTries - 1)], down' \subseteq Nodes,
           \A q \in Procs :
              \/ pc'[q] = "get" /\ got'[q] \in {NoEntry, got[q]}
              \/ todo'[q] = todo[q] /\ pc'[q] = pc[q] /\ got'[q] = got[q]
              \/ todo'[q] # <<>> /\ got'[q] = Cur(Head(todo'[q]).kind)
    PROVE  IInv'
<1>0. \A k : Cur(k)' = Cur(k)
    BY Zenon DEF Cur
<1>1. Types'
    BY Zenon, <1>0 DEF IInv, Types
<1>2. CasIsUsed'
  <2> SUFFICES ASSUME NEW q \in Procs PROVE got'[q].CAS < store.CASNext
      BY Zenon, <1>0 DEF IInv, CasIsUsed
  <2>1. CASE got'[q] \in {NoEntry, got[q]}
      BY <2>1, EntryCas DEF IInv, Types, CasIsUsed
  <2>2. CASE todo'[q] # <<>> /\ got'[q] = Cur(Head(todo'[q]).kind)
      BY Zenon, <2>2, HeadType DEF IInv, CasIsUsed
  <2> QED
      BY Zenon, <2>1, <2>2
<1>3. GotIsCurrent'
    BY Zenon, <1>0 DEF IInv, GotIsCurrent
<1>4. BumpIsUp' /\ RegistrationsAreKept'
    BY Zenon, <1>0 DEF IInv, BumpIsUp, RegistrationsAreKept
<1> QED
    BY Zenon, <1>1, <1>2, <1>3, <1>4 DEF IInv

(* Register and UnregisterNodes start with tasks that are to read. *)
LEMMA CallIInv ==
    ASSUME IInv, NEW p \in Procs, NEW tasks \in Seq(Task), Call(p, tasks),
           down' \subseteq Nodes
    PROVE  IInv'
<1>1. pc[p] = "get"
    BY Zenon DEF IInv, Types, GotIsCurrent, Call
<1>2. /\ todo' = [todo EXCEPT ![p] = tasks] /\ UNCHANGED <<store, ver, pc, got, tries, cv, last>>
    BY Zenon DEF Call
<1> QED
    BY Zenon, <1>1, <1>2, TaskFrame DEF IInv, Types

(* A task ends: the process is to read for the next. *)
LEMMA FinishIInv ==
    ASSUME IInv, NEW p \in Procs, todo[p] # <<>>, Finish(p),
           UNCHANGED <<store, ver, down, cv, last>>
    PROVE  IInv'
<1>1. Tail(todo[p]) \in Seq(Task)
    BY Zenon, HeadType DEF IInv, Types
<1>2. tries' \in [Procs -> 0..(MaxTries - 1)]
    BY MembershipAssumption DEF IInv, Types, Finish
<1> QED
    BY Zenon, <1>1, <1>2, TaskFrame DEF IInv, Types, Finish

(* The steps of a task other than a successful write. *)
LEMMA TaskReadIInv ==
    ASSUME IInv, NEW p \in Procs, TaskGet(p) \/ TaskRetry(p) \/ TaskFail(p)
    PROVE  IInv'
<1>1. UNCHANGED <<store, ver, down, cv, last>> /\ todo[p] # <<>>
    BY Zenon DEF TaskGet, TaskRetry, TaskFail
<1>2. CASE Finish(p)
    BY Zenon, <1>1, <1>2, FinishIInv
<1>3. CASE /\ got' = [got EXCEPT ![p] = Cur(Head(todo[p]).kind)]
           /\ pc' = [pc EXCEPT ![p] = "set"] /\ UNCHANGED <<todo, tries>>
  <2>1. Cur(Head(todo[p]).kind) \in DefsEntry \cup {NoEntry}
      BY Zenon, <1>1, HeadType DEF IInv, Types
  <2> QED
      BY Zenon, <1>1, <1>3, <2>1, TaskFrame DEF IInv, Types
<1>4. CASE /\ pc' = [pc EXCEPT ![p] = "get"] /\ got' = [got EXCEPT ![p] = NoEntry]
           /\ todo' \in {todo, [todo EXCEPT ![p] = <<>>]}
           /\ tries' \in [Procs -> 0..(MaxTries - 1)]
  <2>0. <<>> \in Seq(Task)
      OBVIOUS
  <2>1. todo' \in [Procs -> Seq(Task)]
      BY Zenon, <1>4, <2>0 DEF IInv, Types
  <2> QED
      BY Zenon, <1>1, <1>4, <2>1, TaskFrame DEF IInv, Types
<1>5. TaskRetry(p) \/ TaskFail(p) => Finish(p) \/ tries' \in [Procs -> 0..(MaxTries - 1)]
  <2>1. tries[p] \in 0..(MaxTries - 1) /\ 0 \in 0..(MaxTries - 1)
      BY MembershipAssumption DEF IInv, Types
  <2>2. MayRetry(p) => (IF p \in Ctls THEN tries[p] + 1 ELSE 0) \in 0..(MaxTries - 1)
      BY <2>1, MembershipAssumption DEF MayRetry
  <2>3. \A i \in 0..(MaxTries - 1) : [tries EXCEPT ![p] = i] \in [Procs -> 0..(MaxTries - 1)]
      BY Zenon DEF IInv, Types
  <2> QED
      BY Zenon, <2>1, <2>2, <2>3 DEF TaskRetry, TaskFail
<1> QED
    BY Zenon, <1>2, <1>3, <1>4, <1>5 DEF TaskGet, TaskRetry, TaskFail
-----------------------------------------------------------------------------
(* What a write of the Cfg makes of the entries. *)
LEMMA WriteFacts ==
    ASSUME Types, NEW k \in Kinds \cup {VERSION_KEY}, NEW v, store.CASNext <= MaxCas,
           store' = SetStore(store, k, v),
           [CAS |-> store.CASNext, Val |-> v] \in IF k = VERSION_KEY THEN VersionEntry ELSE DefsEntry
    PROVE  /\ store' \in [CASNext : 1..(MaxCas + 1), Entries : [Kinds \cup {VERSION_KEY} ->
                              DefsEntry \cup VersionEntry \cup {NoEntry}]]
           /\ store'.CASNext = store.CASNext + 1 /\ store.CASNext \in Nat
           /\ store'.Entries[k] = [CAS |-> store.CASNext, Val |-> v]
           /\ \A j \in (Kinds \cup {VERSION_KEY}) \ {k} : store'.Entries[j] = store.Entries[j]
<1>1. store.CASNext \in Nat /\ store.CASNext + 1 \in 1..(MaxCas + 1)
    BY MembershipAssumption DEF Types
<1> QED
    BY Zenon, <1>1 DEF Types, SetStore, Cur

(* A successful write of node definitions: it was made from the present    *)
(* ones, so only the task's node changes; what others have read is old.    *)
LEMMA TaskSetIInv ==
    ASSUME IInv, NEW p \in Procs, TaskSet(p)
    PROVE  IInv'
<1> DEFINE t == Head(todo[p])
           new == [DefsOf(got[p]) EXCEPT ![t.node] = NewNodeDef(t)]
           e == [CAS |-> store.CASNext, Val |-> new]
<1>0. /\ todo[p] # <<>> /\ pc[p] = "set" /\ store.CASNext <= MaxCas
      /\ SetErr(store, t.kind, got[p].CAS) = "nil"
      /\ store' = SetStore(store, t.kind, new)
      /\ last' = [last EXCEPT ![t.kind][t.node] = NewNodeDef(t)]
      /\ Finish(p)
      /\ UNCHANGED <<ver, down, cv>>
    BY Zenon DEF TaskSet, WriteErr
<1>1. t \in Task /\ t.kind \in Kinds /\ t.node \in Nodes /\ Tail(todo[p]) \in Seq(Task)
    BY Zenon, <1>0, HeadType DEF IInv, Types
<1>2. t.kind # VERSION_KEY
    BY Zenon, <1>1 DEF Kinds, VERSION_KEY
<1>3. NewNodeDef(t) \in 0..MaxVersion
    BY <1>1, MembershipAssumption DEF IInv, Types, NewNodeDef, NotRegistered
<1>4. new \in NodeDefs
    BY Zenon, <1>1, <1>3, DefsType DEF IInv, Types, NodeDefs
<1>5. e \in DefsEntry
    BY <1>0, <1>4, MembershipAssumption DEF IInv, Types, DefsEntry
<1>6. got[p] = Cur(t.kind)
  <2>1. got[p].CAS \in 0..MaxCas /\ (Cur(t.kind) = NoEntry \/ Cur(t.kind).CAS \in 1..MaxCas)
      BY <1>1, EntryCas, MembershipAssumption DEF IInv, Types
  <2>2. got[p].CAS = Cur(t.kind).CAS
      BY Zenon, <1>0, <1>1, <2>1, SetErrMeans
  <2> QED
      BY Zenon, <1>0, <2>2 DEF IInv, GotIsCurrent
<1> HIDE DEF t, new
<1>7. /\ store' \in [CASNext : 1..(MaxCas + 1), Entries : [Kinds \cup {VERSION_KEY} ->
                         DefsEntry \cup VersionEntry \cup {NoEntry}]]
      /\ store'.CASNext = store.CASNext + 1 /\ store.CASNext \in Nat
      /\ store'.Entries[t.kind] = e
      /\ \A j \in (Kinds \cup {VERSION_KEY}) \ {t.kind} : store'.Entries[j] = store.Entries[j]
    BY Zenon, <1>0, <1>1, <1>2, <1>5, WriteFacts DEF IInv
<1>8. /\ \A q \in Procs \ {p} : todo'[q] = todo[q] /\ pc'[q] = pc[q] /\ got'[q] = got[q]
      /\ pc'[p] = "get" /\ got'[p] = NoEntry
    BY Zenon, <1>0 DEF IInv, Types, Finish
<1>9. Types'
  <2>1. /\ todo' \in [Procs -> Seq(Task)] /\ pc' \in [Procs -> {"get", "set"}]
        /\ got' \in [Procs -> DefsEntry \cup {NoEntry}]
      BY Zenon, <1>0, <1>1 DEF IInv, Types, Finish, t
  <2>2. tries' \in [Procs -> 0..(MaxTries - 1)]
      BY <1>0, MembershipAssumption DEF IInv, Types, Finish
  <2>3. last' \in [Kinds -> NodeDefs]
      BY Zenon, <1>0, <1>1, <1>3 DEF IInv, Types, NodeDefs
  <2>4. /\ \A k \in Kinds : store'.Entries[k] \in DefsEntry \cup {NoEntry}
        /\ store'.Entries[VERSION_KEY] \in VersionEntry \cup {NoEntry}
      BY Zenon, <1>2, <1>5, <1>7 DEF IInv, Types, Cur
  <2> QED
      BY Zenon, <1>0, <1>7, <2>1, <2>2, <2>3, <2>4 DEF IInv, Types, Cur
<1>10. CasIsUsed'
  <2>1. \A k \in Kinds \cup {VERSION_KEY} : store'.Entries[k].CAS < store'.CASNext
    <3>1. e.CAS = store.CASNext
        BY Zenon
    <3>2. \A k \in Kinds \cup {VERSION_KEY} : Cur(k).CAS \in Nat
        BY EntryCas DEF IInv, Types
    <3>3. \A k \in Kinds \cup {VERSION_KEY} : Cur(k).CAS < store.CASNext
        BY Zenon DEF IInv, CasIsUsed
    <3> HIDE DEF e
    <3> QED
        BY <1>7, <3>1, <3>2, <3>3 DEF Cur
  <2>2. \A q \in Procs : got[q].CAS \in Nat
      BY EntryCas DEF IInv, Types
  <2>3. \A n \in Nodes : cv[n].got.CAS \in Nat
      BY EntryCas DEF IInv, Types
  <2>4. \A q \in Procs : got'[q].CAS < store'.CASNext
      BY <1>7, <1>8, <2>2, EntryCas DEF IInv, CasIsUsed
  <2>5. \A n \in Nodes : cv'[n].got.CAS < store'.CASNext
      BY <1>0, <1>7, <2>3 DEF IInv, CasIsUsed
  <2> QED
      BY Zenon, <2>1, <2>4, <2>5 DEF CasIsUsed, Cur
<1>11. GotIsCurrent'
  <2> SUFFICES ASSUME NEW q \in Procs, pc'[q] = "set"
               PROVE  /\ todo'[q] # <<>>
                      /\ got'[q].CAS = store'.Entries[Head(todo'[q]).kind].CAS =>
                            got'[q] = store'.Entries[Head(todo'[q]).kind]
      BY Zenon DEF GotIsCurrent, Cur
  <2>1. q # p /\ todo'[q] = todo[q] /\ got'[q] = got[q] /\ pc[q] = "set" /\ todo[q] # <<>>
      BY Zenon, <1>8 DEF IInv, GotIsCurrent
  <2>2. Head(todo[q]).kind \in Kinds
      BY Zenon, <2>1, HeadType DEF IInv, Types
  <2>3. CASE Head(todo[q]).kind = t.kind
    <3>1. got[q].CAS < e.CAS /\ got[q].CAS \in Nat
        BY EntryCas DEF IInv, Types, CasIsUsed
    <3>2. store'.Entries[Head(todo'[q]).kind] = e
        BY Zenon, <1>7, <2>1, <2>3
    <3> QED
        BY <1>7, <2>1, <3>1, <3>2
  <2>4. CASE Head(todo[q]).kind # t.kind
    <3>1. store'.Entries[Head(todo'[q]).kind] = store.Entries[Head(todo[q]).kind]
        BY Zenon, <1>7, <2>1, <2>2, <2>4
    <3> QED
        BY Zenon, <2>1, <3>1 DEF IInv, GotIsCurrent, Cur
  <2> QED
      BY Zenon, <2>3, <2>4
<1>12. BumpIsUp'
    BY <1>0, <1>2, <1>7 DEF IInv, BumpIsUp, Cur
<1>13. RegistrationsAreKept'
  <2> SUFFICES ASSUME NEW k \in Kinds PROVE DefsOf(store'.Entries[k]) = last'[k]
      BY Zenon DEF RegistrationsAreKept, DefsOf, Cur
  <2>1. CASE k = t.kind
    <3>1. DefsOf(store'.Entries[k]) = new
        BY <1>5, <1>7, <2>1, EntryCas DEF DefsOf
    <3>2. DefsOf(got[p]) = last[k]
        BY Zenon, <1>6, <2>1 DEF IInv, RegistrationsAreKept
    <3>3. last'[k] = [last[k] EXCEPT ![t.node] = NewNodeDef(t)]
        BY Zenon, <1>0, <1>1, <2>1 DEF IInv, Types
    <3> QED
        BY Zenon, <3>1, <3>2, <3>3 DEF new
  <2>2. CASE k # t.kind
    <3>1. last'[k] = last[k]
        BY Zenon, <1>0, <1>1, <2>2 DEF IInv, Types
    <3> QED
        BY Zenon, <1>7, <2>2, <3>1 DEF IInv, RegistrationsAreKept, Cur
  <2> QED
      BY Zenon, <2>1, <2>2
<1> QED
    BY Zenon, <1>9, <1>10, <1>11, <1>12, <1>13 DEF IInv
-----------------------------------------------------------------------------
CheckType == [pc : CheckStates, got : VersionEntry \cup {NoEntry}, tries : 0..MaxCheckTries,
              answer : {"none", "true", "false", "error"}]

(* What BumpIsUp says of the check of node n. *)
CheckOK(n, c) ==
    /\ c.got.CAS < store.CASNext
    /\ c.pc \in {"known", "wanted", "bump"} =>
          /\ c.got \in VersionEntry
          /\ ver[n] > c.got.Val
          /\ c.got.CAS = Cur(VERSION_KEY).CAS => c.got = Cur(VERSION_KEY)
    /\ c.pc = "init" => c.got = NoEntry

(* A check that has read nothing is one. *)
LEMMA NotCheckingOK ==
    ASSUME Types, NEW n \in Nodes, NEW c \in CheckType, c.got = NoEntry, c.pc \in {"idle", "get"}
    PROVE  CheckOK(n, c)
<1>1. 0 < store.CASNext
    BY MembershipAssumption DEF Types
<1> QED
    BY Zenon, <1>1, EntryCas DEF CheckOK

(* Steps of CheckVersion that do not write the Cfg. *)
LEMMA CheckFrame ==
    ASSUME IInv, NEW n \in Nodes, NEW c \in CheckType, CheckOK(n, c), SetCv(n, c), UNCHANGED store
    PROVE  IInv'
<1>0. /\ UNCHANGED <<store, ver, down, todo, pc, got, tries, last>>
      /\ cv' = [cv EXCEPT ![n] = c]
      /\ \A m \in Nodes : cv'[m] = IF m = n THEN c ELSE cv[m]
    BY Zenon DEF SetCv, taskVars, IInv, Types
<1>1. Types'
    BY Zenon, <1>0 DEF IInv, Types, Cur, CheckType
<1>2. CasIsUsed'
    BY Zenon, <1>0 DEF IInv, CasIsUsed, Cur, CheckOK
<1>3. BumpIsUp'
    BY <1>0 DEF IInv, BumpIsUp, Cur, CheckOK
<1>4. GotIsCurrent' /\ RegistrationsAreKept'
    BY Zenon, <1>0 DEF IInv, GotIsCurrent, RegistrationsAreKept, Cur
<1> QED
    BY Zenon, <1>1, <1>2, <1>3, <1>4 DEF IInv

(* A check that ends, and one that starts. *)
LEMMA CheckDoneIInv ==
    ASSUME IInv, NEW n \in Nodes, UNCHANGED store,
           \/ \E a \in {"none", "true", "false", "error"} : CheckDone(n, a)
           \/ CheckVersion(n)
    PROVE  IInv'
<1>1. ASSUME NEW a \in {"none", "true", "false", "error"}, CheckDone(n, a)
      PROVE  IInv'
  <2> DEFINE c == [NotChecking EXCEPT !.answer = a]
  <2>1. c \in CheckType /\ c.got = NoEntry /\ c.pc = "idle"
      BY MembershipAssumption DEF NotChecking, CheckType, CheckStates
  <2>2. CheckOK(n, c)
      BY Zenon, <2>1, NotCheckingOK DEF IInv
  <2>3. SetCv(n, c)
      BY Zenon, <1>1 DEF CheckDone
  <2> HIDE DEF c
  <2> QED
      BY Zenon, <2>1, <2>2, <2>3, CheckFrame
<1>2. ASSUME CheckVersion(n)
      PROVE  IInv'
  <2> DEFINE c == [NotChecking EXCEPT !.pc = "get"]
  <2>1. c \in CheckType /\ c.got = NoEntry /\ c.pc = "get"
      BY MembershipAssumption DEF NotChecking, CheckType, CheckStates
  <2>2. CheckOK(n, c)
      BY Zenon, <2>1, NotCheckingOK DEF IInv
  <2>3. SetCv(n, c)
      BY Zenon, <1>2 DEF CheckVersion
  <2> HIDE DEF c
  <2> QED
      BY Zenon, <2>1, <2>2, <2>3, CheckFrame
<1> QED
    BY Zenon, <1>1, <1>2

(* The version that is read is the present one, and lower if it is to be   *)
(* raised.                                                                 *)
LEMMA CheckGetIInv ==
    ASSUME IInv, NEW n \in Nodes, CheckGet(n)
    PROVE  IInv'
<1> DEFINE e == Cur(VERSION_KEY)
           again(s) == [pc |-> s, got |-> e, tries |-> cv[n].tries + 1, answer |-> "none"]
<1>0. /\ UNCHANGED store /\ e \in VersionEntry \cup {NoEntry} /\ ver[n] \in 1..MaxVersion
      /\ cv[n].tries \in 0..MaxCheckTries /\ e.CAS < store.CASNext
    BY Zenon DEF CheckGet, IInv, Types, CasIsUsed
<1>1. \/ \E a \in {"none", "true", "false", "error"} : CheckDone(n, a)
      \/ cv[n].tries < MaxCheckTries /\ e = NoEntry /\ SetCv(n, again("init"))
      \/ cv[n].tries < MaxCheckTries /\ e # NoEntry /\ ver[n] > e.Val /\ SetCv(n, again("known"))
    BY Zenon DEF CheckGet
<1>2. cv[n].tries < MaxCheckTries =>
         \A s \in {"init", "known"} : again(s) \in CheckType
    BY <1>0, MembershipAssumption DEF CheckType, CheckStates
<1>3. CASE cv[n].tries < MaxCheckTries /\ e = NoEntry /\ SetCv(n, again("init"))
  <2>1. CheckOK(n, again("init"))
      BY Zenon, <1>0, <1>3 DEF CheckOK
  <2> QED
      BY Zenon, <1>0, <1>2, <1>3, <2>1, CheckFrame
<1>4. CASE cv[n].tries < MaxCheckTries /\ e # NoEntry /\ ver[n] > e.Val /\ SetCv(n, again("known"))
  <2>1. CheckOK(n, again("known"))
      BY Zenon, <1>0, <1>4 DEF CheckOK
  <2> QED
      BY Zenon, <1>0, <1>2, <1>4, <2>1, CheckFrame
<1> QED
    BY Zenon, <1>0, <1>1, <1>3, <1>4, CheckDoneIInv

(* The nodes are looked at, and the check goes on or ends. *)
LEMMA CheckVerifyIInv ==
    ASSUME IInv, NEW n \in Nodes, NEW kind \in Kinds, CheckVerify(n, kind)
    PROVE  IInv'
<1> DEFINE c == [cv[n] EXCEPT !.pc = IF kind = "known" THEN "wanted" ELSE "bump"]
<1>0. UNCHANGED store /\ cv[n].pc = kind /\ cv[n] \in CheckType /\ kind \in {"known", "wanted"}
    BY Zenon DEF CheckVerify, IInv, Types, CheckType, Kinds
<1>1. c \in CheckType /\ c.got = cv[n].got /\ c.pc \in {"wanted", "bump"}
    BY Zenon, <1>0 DEF CheckType, CheckStates
<1>2. CheckOK(n, c)
    BY Zenon, <1>0, <1>1 DEF CheckOK, IInv, BumpIsUp, CasIsUsed
<1>3. SetCv(n, c) \/ CheckDone(n, "true")
    BY Zenon DEF CheckVerify
<1> HIDE DEF c
<1> QED
    BY Zenon, <1>0, <1>1, <1>2, <1>3, CheckFrame, CheckDoneIInv

(* The version is written, over the one that was read and is lower. *)
LEMMA CheckWriteFacts ==
    ASSUME IInv, NEW n \in Nodes, cv[n].pc \in {"init", "bump"}, CheckSetErr(n) = "nil"
    PROVE  Cur(VERSION_KEY) # NoEntry =>
              Cur(VERSION_KEY) \in VersionEntry /\ ver[n] > Cur(VERSION_KEY).Val
<1>1. /\ cv[n].got.CAS \in 0..MaxCas
      /\ Cur(VERSION_KEY) = NoEntry \/ Cur(VERSION_KEY).CAS \in 1..MaxCas
    BY EntryCas, MembershipAssumption DEF IInv, Types
<1>2. cv[n].got.CAS = Cur(VERSION_KEY).CAS
    BY Zenon, <1>1, SetErrMeans DEF CheckSetErr
<1>3. CASE cv[n].pc = "init"
  <2>1. Cur(VERSION_KEY).CAS = 0
      BY Zenon, <1>2, <1>3, EntryCas DEF IInv, BumpIsUp
  <2> QED
      BY <1>1, <2>1, MembershipAssumption
<1>4. CASE cv[n].pc = "bump"
    BY Zenon, <1>2, <1>4 DEF IInv, BumpIsUp
<1> QED
    BY Zenon, <1>3, <1>4

(* After the write, or a CAS mismatch, the check reads again. *)
LEMMA CheckSetIInv ==
    ASSUME IInv, NEW n \in Nodes, CheckSet(n)
    PROVE  IInv'
<1> DEFINE c == [cv[n] EXCEPT !.pc = "get", !.got = NoEntry]
<1>0. cv[n] \in CheckType
    BY Zenon DEF IInv, Types, CheckType
<1>1. c \in CheckType /\ c.got = NoEntry /\ c.pc = "get"
    BY Zenon, <1>0 DEF CheckType, CheckStates
<1>2. CheckOK(n, c)
    BY Zenon, <1>1, NotCheckingOK DEF IInv
<1>3. \/ CheckDone(n, "error") /\ UNCHANGED store
      \/ SetCv(n, c) /\ UNCHANGED store
      \/ /\ store.CASNext <= MaxCas /\ SetCv(n, c)
         /\ store' = SetStore(store, VERSION_KEY, ver[n])
    BY Zenon DEF CheckSet
<1> HIDE DEF c
<1>4. ASSUME store.CASNext <= MaxCas, SetCv(n, c), store' = SetStore(store, VERSION_KEY, ver[n])
      PROVE  IInv'
  <2> DEFINE e == [CAS |-> store.CASNext, Val |-> ver[n]]
  <2>0. /\ UNCHANGED <<ver, down, todo, pc, got, tries, last>>
        /\ cv' = [cv EXCEPT ![n] = c]
        /\ \A m \in Nodes : cv'[m] = IF m = n THEN c ELSE cv[m]
      BY Zenon, <1>4 DEF SetCv, taskVars, IInv, Types
  <2>1. e \in VersionEntry
      BY <1>4, MembershipAssumption DEF IInv, Types, VersionEntry
  <2>2. /\ store' \in [CASNext : 1..(MaxCas + 1), Entries : [Kinds \cup {VERSION_KEY} ->
                           DefsEntry \cup VersionEntry \cup {NoEntry}]]
        /\ store'.CASNext = store.CASNext + 1 /\ store.CASNext \in Nat
        /\ store'.Entries[VERSION_KEY] = e
        /\ \A j \in Kinds : store'.Entries[j] = store.Entries[j]
    <3>1. \A j \in Kinds : j # VERSION_KEY
        BY Zenon DEF Kinds, VERSION_KEY
    <3>2. [CAS |-> store.CASNext, Val |-> ver[n]] \in
             IF VERSION_KEY = VERSION_KEY THEN VersionEntry ELSE DefsEntry
        BY Zenon, <2>1
    <3>3. Types /\ VERSION_KEY \in Kinds \cup {VERSION_KEY}
        BY Zenon DEF IInv
    <3>4. /\ store' \in [CASNext : 1..(MaxCas + 1), Entries : [Kinds \cup {VERSION_KEY} ->
                             DefsEntry \cup VersionEntry \cup {NoEntry}]]
          /\ store'.CASNext = store.CASNext + 1 /\ store.CASNext \in Nat
          /\ store'.Entries[VERSION_KEY] = e
          /\ \A j \in (Kinds \cup {VERSION_KEY}) \ {VERSION_KEY} : store'.Entries[j] = store.Entries[j]
        BY Zenon, <1>4, <3>2, <3>3, WriteFacts
    <3> QED
        BY Zenon, <3>1, <3>4
  <2>3. Types'
      BY Zenon, <1>1, <2>0, <2>1, <2>2 DEF IInv, Types, Cur, CheckType
  <2>4. CasIsUsed'
    <3>1. /\ \A k \in Kinds : Cur(k).CAS \in Nat
          /\ \A q \in Procs : got[q].CAS \in Nat
          /\ \A m \in Nodes : cv[m].got.CAS \in Nat
        BY EntryCas DEF IInv, Types
    <3>2. \A k \in Kinds \cup {VERSION_KEY} : store'.Entries[k].CAS < store'.CASNext
      <4>1. e.CAS < store'.CASNext
          BY <2>2
      <4>2. \A k \in Kinds : store.Entries[k].CAS < store'.CASNext
          BY <2>2, <3>1 DEF IInv, CasIsUsed, Cur
      <4> QED
          BY Zenon, <2>2, <4>1, <4>2
    <3>3. \A q \in Procs : got'[q].CAS < store'.CASNext
        BY <2>0, <2>2, <3>1 DEF IInv, CasIsUsed
    <3>4. \A m \in Nodes : cv'[m].got.CAS < store'.CASNext
        BY <1>1, <2>0, <2>2, <3>1, EntryCas DEF IInv, CasIsUsed
    <3> QED
        BY Zenon, <3>2, <3>3, <3>4 DEF CasIsUsed, Cur
  <2>5. GotIsCurrent'
    <3>1. \A q \in Procs : pc[q] = "set" => Head(todo[q]).kind \in Kinds
        BY Zenon, HeadType DEF IInv, Types, GotIsCurrent
    <3> QED
        BY <2>0, <2>2, <3>1 DEF IInv, GotIsCurrent, Cur
  <2>6. BumpIsUp'
    <3>1. \A m \in Nodes : cv[m].got.CAS # e.CAS
        BY EntryCas DEF IInv, Types, CasIsUsed
    <3>2. cv'[n].pc = "get"
        BY Zenon, <1>1, <2>0
    <3> QED
        BY <2>0, <2>2, <3>1, <3>2 DEF IInv, BumpIsUp, Cur
  <2>7. RegistrationsAreKept'
      BY Zenon, <2>0, <2>2 DEF IInv, RegistrationsAreKept, Cur
  <2> QED
      BY Zenon, <2>3, <2>4, <2>5, <2>6, <2>7 DEF IInv
<1> QED
    BY Zenon, <1>1, <1>2, <1>3, <1>4, CheckFrame, CheckDoneIInv

(* A node that starts again has read nothing. *)
LEMMA RestartIInv ==
    ASSUME IInv, NEW n \in Nodes, Restart(n)
    PROVE  IInv'
<1>0. n \in Procs
    BY Zenon DEF Procs
<1>1. /\ UNCHANGED <<store, down, tries, last>>
      /\ ver' \in [Nodes -> 1..MaxVersion] /\ \A m \in Nodes \ {n} : ver'[m] = ver[m]
      /\ \A m \in Nodes : cv'[m] = IF m = n THEN NotChecking ELSE cv[m]
      /\ \A q \in Procs \ {n} : pc'[q] = pc[q] /\ todo'[q] = todo[q] /\ got'[q] = got[q]
      /\ pc'[n] = "get" /\ got'[n] = NoEntry
    BY Zenon, <1>0 DEF Restart, IInv, Types
<1>2. NotChecking \in CheckType /\ NotChecking.got = NoEntry /\ NotChecking.pc = "idle"
    BY MembershipAssumption DEF NotChecking, CheckType, CheckStates
<1>3. Types'
  <2>1. <<>> \in Seq(Task)
      OBVIOUS
  <2>2. /\ todo' \in [Procs -> Seq(Task)] /\ pc' \in [Procs -> {"get", "set"}]
        /\ got' \in [Procs -> DefsEntry \cup {NoEntry}]
      BY Zenon, <1>0, <2>1 DEF Restart, IInv, Types
  <2>3. cv' \in [Nodes -> CheckType]
      BY Zenon, <1>2 DEF Restart, IInv, Types, CheckType
  <2> QED
      BY Zenon, <1>1, <2>2, <2>3 DEF IInv, Types, Cur, CheckType
<1>4. CasIsUsed'
  <2>1. 0 < store.CASNext
      BY MembershipAssumption DEF IInv, Types
  <2> QED
      BY Zenon, <1>1, <1>2, <2>1, EntryCas DEF IInv, CasIsUsed, Cur
<1>5. GotIsCurrent'
    BY <1>1 DEF IInv, GotIsCurrent, Cur
<1>6. BumpIsUp'
    BY <1>1, <1>2 DEF IInv, BumpIsUp, Cur
<1>7. RegistrationsAreKept'
    BY Zenon, <1>1 DEF IInv, RegistrationsAreKept, Cur
<1> QED
    BY <1>3, <1>4, <1>5, <1>6, <1>7 DEF IInv

(* Every step preserves the invariant. *)
LEMMA NextIInv == IInv /\ [Next]_vars => IInv'
<1> SUFFICES ASSUME IInv, [Next]_vars PROVE IInv'
    BY Zenon
<1>1. CASE UNCHANGED vars
    BY Zenon, <1>1 DEF vars, taskVars, IInv, Types, CasIsUsed, GotIsCurrent, BumpIsUp,
                RegistrationsAreKept, Cur
<1>2. ASSUME NEW p \in Procs, TaskStep(p)
      PROVE  IInv'
    BY Zenon, <1>2, TaskReadIInv, TaskSetIInv DEF TaskStep
<1>3. ASSUME NEW n \in Nodes, NEW mode \in Modes, Register(n, mode)
      PROVE  IInv'
  <2>1. n \in Procs /\ RegisterTasks(n, mode) \in Seq(Task) /\ down' \subseteq Nodes
      BY Zenon, <1>3, RegisterTasksType DEF Procs, Register, IInv, Types
  <2> QED
      BY Zenon, <1>3, <2>1, CallIInv DEF Register
<1>4. ASSUME NEW n \in Nodes, NEW p \in Ctls, UnregisterNodes(p, n)
      PROVE  IInv'
  <2>1. p \in Procs /\ RegisterTasks(n, "unknown") \in Seq(Task) /\ down' \subseteq Nodes
      BY Zenon, <1>4, RegisterTasksType DEF Procs, UnregisterNodes, IInv, Types
  <2> QED
      BY Zenon, <1>4, <2>1, CallIInv DEF UnregisterNodes
<1>5. ASSUME NEW n \in Nodes, CheckVersion(n)
      PROVE  IInv'
    BY Zenon, <1>5, CheckDoneIInv DEF CheckVersion
<1>6. ASSUME NEW n \in Nodes, CheckStep(n)
      PROVE  IInv'
    BY Zenon, <1>6, CheckGetIInv, CheckVerifyIInv, CheckSetIInv DEF CheckStep
<1>7. ASSUME NEW n \in Nodes, Restart(n)
      PROVE  IInv'
    BY Zenon, <1>7, RestartIInv
<1> QED
    BY Zenon, <1>1, <1>2, <1>3, <1>4, <1>5, <1>6, <1>7 DEF Next

(* The inductive invariant holds of every reachable state. *)
THEOREM MembershipInvariant == Spec => []IInv
BY InitIInv, NextIInv, PTL DEF Spec

(* Type correctness of the node definitions, the version and the calls     *)
(* (defs.go, version.go).                                                  *)
THEOREM MembershipTypes == Spec => []TypeOK
<1>1. IInv => TypeOK
    BY Zenon DEF IInv, Types, TypeOK
<1> QED
    BY <1>1, MembershipInvariant, PTL

(* No registration or removal of a node is lost to a concurrent one,       *)
(* whatever the number of nodes, callers and restarts                      *)
(* (manager.go:555-590, defs.go:447-474).                                  *)
THEOREM MembershipKeepsRegistrations == Spec => []RegistrationsAreKept
<1>1. IInv => RegistrationsAreKept
    BY Zenon DEF IInv
<1> QED
    BY <1>1, MembershipInvariant, PTL

(* The cluster's version never goes down: only a check that read a lower   *)
(* version, still the present one, writes it (version.go:65-103).          *)
THEOREM MembershipVersionNeverFalls == Spec => VersionNeverFalls
<1>1. ASSUME IInv, NEW p \in Procs, TaskStep(p), Cur(VERSION_KEY) # NoEntry
      PROVE  Cur(VERSION_KEY)' = Cur(VERSION_KEY)
  <2>1. CASE TaskSet(p)
    <3>1. Head(todo[p]).kind \in Kinds
        BY Zenon, <1>1, <2>1, HeadType DEF TaskSet, IInv, Types
    <3>2. Head(todo[p]).kind # VERSION_KEY
        BY Zenon, <3>1 DEF Kinds, VERSION_KEY
    <3> QED
        BY Zenon, <1>1, <2>1, <3>1, <3>2 DEF TaskSet, SetStore, Cur, IInv, Types
  <2> QED
      BY Zenon, <1>1, <2>1 DEF TaskStep, TaskGet, TaskRetry, TaskFail, Cur
<1>2. ASSUME IInv, NEW n \in Nodes, CheckSet(n), store' # store, Cur(VERSION_KEY) # NoEntry
      PROVE  Cur(VERSION_KEY)'.Val >= Cur(VERSION_KEY).Val
  <2>1. /\ cv[n].pc \in {"init", "bump"} /\ CheckSetErr(n) = "nil"
        /\ store' = SetStore(store, VERSION_KEY, ver[n])
      BY Zenon, <1>2 DEF CheckSet
  <2>2. Cur(VERSION_KEY) \in VersionEntry /\ ver[n] > Cur(VERSION_KEY).Val
      BY Zenon, <1>2, <2>1, CheckWriteFacts
  <2>3. Cur(VERSION_KEY)'.Val = ver[n]
      BY Zenon, <1>2, <2>1 DEF SetStore, Cur, IInv, Types
  <2>4. ver[n] \in Nat /\ Cur(VERSION_KEY).Val \in Nat
      BY <1>2, <2>2 DEF IInv, Types, VersionEntry
  <2> QED
      BY <2>2, <2>3, <2>4
<1>3. ASSUME IInv, [Next]_vars, store' # store, Cur(VERSION_KEY) # NoEntry
      PROVE  Cur(VERSION_KEY)'.Val >= Cur(VERSION_KEY).Val
  <2>1. \/ \E p \in Procs : TaskStep(p)
        \/ \E n \in Nodes : CheckSet(n)
      BY Zenon, <1>3 DEF Next, vars, Register, UnregisterNodes, Call, CheckVersion, CheckStep, CheckGet,
                  CheckVerify, Restart
  <2>2. Cur(VERSION_KEY).Val \in Nat
      BY <1>3 DEF IInv, Types, VersionEntry
  <2>3. ASSUME NEW p \in Procs, TaskStep(p)
        PROVE  Cur(VERSION_KEY)'.Val >= Cur(VERSION_KEY).Val
    <3>1. Cur(VERSION_KEY)' = Cur(VERSION_KEY)
        BY Zenon, <1>1, <1>3, <2>3
    <3> QED
        BY <2>2, <3>1
  <2> QED
      BY Zenon, <1>2, <1>3, <2>1, <2>3
<1>4. IInv /\ [Next]_vars =>
         [Cur(VERSION_KEY) # NoEntry => Cur(VERSION_KEY)'.Val >= Cur(VERSION_KEY).Val]_store
    BY Zenon, <1>3
<1> QED
    BY <1>4, MembershipInvariant, PTL DEF Spec, VersionNeverFalls
-----------------------------------------------------------------------------
(* The tasks of a node are about itself, those of a caller of               *)
(* UnregisterNodes are removals.                                            *)
TasksOf(q) == {t \in Task : (q \in Nodes => t.node = q) /\ (q \in Ctls => t.op = "remove")}

Removal(kind, n) == [op |-> "remove", kind |-> kind, node |-> n, force |-> FALSE]
Removed(kind, n) == last[kind][n] = NotRegistered

(* An ejected node does nothing any more. *)
TasksFit ==
    /\ DOMAIN err = Procs
    /\ ejected \in [Ctls -> Nodes \cup {Nil}]
    /\ \A q \in Procs : todo[q] \in Seq(TasksOf(q))
    /\ \A n \in down : todo[n] = <<>>

(* How far a call of UnregisterNodes has come, and what is done by then. *)
Ejecting(p, n) ==
    /\ n \in down
    /\ err[p] = "nil" =>
          \/ todo[p] = <<Removal("wanted", n), Removal("known", n)>>
          \/ todo[p] = <<Removal("known", n)>> /\ Removed("wanted", n)
          \/ todo[p] = <<>> /\ Removed("wanted", n) /\ Removed("known", n)

EjectedAreRemoved == \A p \in Ctls : ejected[p] # Nil => Ejecting(p, ejected[p])

(* The inductive invariant of UnregisteredIsGone. *)
EInv == IInv /\ TasksFit /\ EjectedAreRemoved

LEMMA InitEInv == Init => EInv
<1> SUFFICES ASSUME Init PROVE EInv
    OBVIOUS
<1>1. \A q \in Procs : todo[q] = <<>> /\ <<>> \in Seq(TasksOf(q))
    BY DEF Init
<1>2. TasksFit
    BY Zenon, <1>1 DEF Init, TasksFit
<1>3. EjectedAreRemoved
    BY Zenon DEF Init, EjectedAreRemoved
<1> QED
    BY Zenon, <1>2, <1>3, InitIInv DEF EInv

(* Register has only tasks about its own node, and removals for a node     *)
(* that is to be unknown.                                                  *)
LEMMA RegisterTasksFit ==
    ASSUME NEW n \in Nodes
    PROVE  /\ \A mode \in Modes : RegisterTasks(n, mode) \in Seq(TasksOf(n))
           /\ RegisterTasks(n, "unknown") = <<Removal("wanted", n), Removal("known", n)>>
           /\ \A p \in Ctls : RegisterTasks(n, "unknown") \in Seq(TasksOf(p))
<1>1. \A o \in {"save", "remove"}, k \in Kinds, f \in BOOLEAN :
         [op |-> o, kind |-> k, node |-> n, force |-> f] \in TasksOf(n)
    BY Zenon, MembershipAssumption DEF TasksOf, Task
<1>2. \A S, s, u : s \in S /\ u \in S => <<s>> \in Seq(S) /\ <<s, u>> \in Seq(S)
    OBVIOUS
<1>3. "known" \in Kinds /\ "wanted" \in Kinds
    BY Zenon DEF Kinds
<1>4. ASSUME NEW mode \in Modes PROVE RegisterTasks(n, mode) \in Seq(TasksOf(n))
    <2> DEFINE save(k, f) == [op |-> "save", kind |-> k, node |-> n, force |-> f]
               remove(k) == [op |-> "remove", kind |-> k, node |-> n, force |-> FALSE]
    <2>1. /\ \A k \in Kinds, f \in BOOLEAN : save(k, f) \in TasksOf(n)
          /\ \A k \in Kinds : remove(k) \in TasksOf(n)
        BY Zenon, <1>1
    <2>2. mode \in {"known", "knownForce", "wanted", "wantedForce", "unwanted", "unknown"}
        BY Zenon, MembershipAssumption
    <2>3. \/ RegisterTasks(n, mode) = <<save("known", FALSE)>>
          \/ RegisterTasks(n, mode) = <<save("known", TRUE)>>
          \/ RegisterTasks(n, mode) = <<save("known", FALSE), save("wanted", FALSE)>>
          \/ RegisterTasks(n, mode) = <<save("known", FALSE), save("wanted", TRUE)>>
          \/ RegisterTasks(n, mode) = <<remove("wanted")>>
          \/ RegisterTasks(n, mode) = <<remove("wanted"), remove("known")>>
        BY Zenon, <2>2 DEF RegisterTasks
    <2> HIDE DEF save, remove
    <2> QED
        BY Zenon, <1>2, <1>3, <2>1, <2>3
<1>5. RegisterTasks(n, "unknown") = <<Removal("wanted", n), Removal("known", n)>>
    BY Zenon DEF RegisterTasks, Removal
<1>6. ASSUME NEW p \in Ctls PROVE <<Removal("wanted", n), Removal("known", n)>> \in Seq(TasksOf(p))
    <2>1. \A k \in Kinds : Removal(k, n) \in TasksOf(p)
        BY Zenon, MembershipAssumption DEF TasksOf, Task, Removal
    <2> QED
        BY Zenon, <1>2, <1>3, <2>1
<1> QED
    BY Zenon, <1>4, <1>5, <1>6

(* What an ejecting call has done stays done while its caller does nothing *)
(* and no node's removal is undone.                                        *)
LEMMA EjectingStays ==
    ASSUME NEW p, NEW n, Ejecting(p, n), down \subseteq down', todo'[p] = todo[p], err'[p] = err[p],
           \A k \in Kinds : Removed(k, n) => Removed(k, n)'
    PROVE  Ejecting(p, n)'
BY Zenon DEF Ejecting, Kinds

(* A step of process q, by which no removed node comes back. *)
LEMMA EjectFrame ==
    ASSUME EInv, NEW q \in Procs, DOMAIN err' = Procs,
           down \subseteq down', \A n \in down' : todo'[n] = <<>>,
           \A p \in Procs \ {q} : todo'[p] = todo[p] /\ err'[p] = err[p],
           \A p \in Ctls \ {q} : ejected'[p] = ejected[p],
           \A n \in down, k \in Kinds : Removed(k, n) => Removed(k, n)',
           ejected' \in [Ctls -> Nodes \cup {Nil}],
           todo'[q] \in Seq(TasksOf(q)),
           q \in Ctls /\ ejected'[q] # Nil => (Ejecting(q, ejected[q]))'
    PROVE  TasksFit' /\ EjectedAreRemoved'
<1>1. TasksFit'
    BY Zenon DEF EInv, TasksFit
<1>2. ASSUME NEW p \in Ctls, ejected'[p] # Nil, p # q PROVE (Ejecting(p, ejected[p]))'
    <2>1. p \in Procs \ {q}
        BY Zenon, <1>2 DEF Procs
    <2>2. PICK n \in Nodes : n = ejected[p] /\ n = ejected'[p]
        BY Zenon, <1>2 DEF EInv, TasksFit
    <2>3. Ejecting(p, n) /\ n \in down
        BY Zenon, <1>2, <2>2 DEF EInv, EjectedAreRemoved, Ejecting
    <2>4. Ejecting(p, n)'
        BY Zenon, <2>1, <2>3, EjectingStays
    <2> QED
        BY Zenon, <2>2, <2>4 DEF Ejecting, Removed
<1>3. EjectedAreRemoved'
    BY Zenon, <1>2 DEF EjectedAreRemoved
<1> QED
    BY Zenon, <1>1, <1>3

(* The rest of a process's tasks are its own too. *)
LEMMA TailFits ==
    ASSUME EInv, NEW q \in Procs, todo[q] # <<>>
    PROVE  /\ Head(todo[q]) \in TasksOf(q) /\ Tail(todo[q]) \in Seq(TasksOf(q))
           /\ Head(todo[q]).kind \in Kinds /\ Head(todo[q]).node \in Nodes
           /\ q \notin down
<1>1. todo[q] \in Seq(TasksOf(q)) /\ q \notin down
    BY Zenon DEF EInv, TasksFit
<1>2. Head(todo[q]) \in TasksOf(q) /\ Tail(todo[q]) \in Seq(TasksOf(q))
    BY Zenon, <1>1, HeadTailProperties
<1> QED
    BY Zenon, <1>1, <1>2 DEF TasksOf, Task

(* A call that has done its first task, which leaves that node removed,    *)
(* is one task further.                                                    *)
LEMMA EjectingAdvances ==
    ASSUME NEW p, NEW n, NEW j, Ejecting(p, n), todo[p] # <<>>, down' = down,
           j = Head(todo[p]).kind, todo'[p] = Tail(todo[p]), err'[p] = err[p],
           \A k \in Kinds : Removed(k, n) => Removed(k, n)',
           err[p] = "nil" => Removed(j, n)'
    PROVE  Ejecting(p, n)'
<1>1. CASE err[p] # "nil"
    BY Zenon, <1>1 DEF Ejecting
<1>2. CASE err[p] = "nil" /\ todo[p] = <<Removal("wanted", n), Removal("known", n)>>
    <2>1. todo'[p] = <<Removal("known", n)>> /\ Head(todo[p]) = Removal("wanted", n)
        BY <1>2
    <2>2. Head(todo[p]).kind = "wanted"
        BY <2>1 DEF Removal
    <2> QED
        BY Zenon, <1>2, <2>1, <2>2 DEF Ejecting
<1>3. CASE err[p] = "nil" /\ todo[p] = <<Removal("known", n)>> /\ Removed("wanted", n)
    <2>1. todo'[p] = <<>> /\ Head(todo[p]) = Removal("known", n)
        BY <1>3
    <2>2. Head(todo[p]).kind = "known"
        BY <2>1 DEF Removal
    <2> QED
        BY Zenon, <1>3, <2>1, <2>2 DEF Ejecting, Kinds
<1> QED
    BY Zenon, <1>1, <1>2, <1>3 DEF Ejecting

(* The first task of an ejecting call is about the node it ejects. *)
LEMMA EjectingHead ==
    ASSUME NEW p, NEW n, Ejecting(p, n), todo[p] # <<>>, err[p] = "nil"
    PROVE  Head(todo[p]).node = n /\ Head(todo[p]).op = "remove"
<1>1. todo[p] = <<Removal("wanted", n), Removal("known", n)>> \/ todo[p] = <<Removal("known", n)>>
    BY Zenon DEF Ejecting
<1>2. Head(todo[p]) = Removal("wanted", n) \/ Head(todo[p]) = Removal("known", n)
    BY <1>1
<1> QED
    BY <1>2 DEF Removal

(* A call returns to its caller, registers a node or ejects one. *)
LEMMA CallEInv ==
    ASSUME EInv, NEW n \in Nodes
    PROVE  /\ \A mode \in Modes : Register(n, mode) => TasksFit' /\ EjectedAreRemoved'
           /\ \A p \in Ctls : UnregisterNodes(p, n) => TasksFit' /\ EjectedAreRemoved'
<1>0. /\ todo \in [Procs -> Seq(Task)] /\ DOMAIN err = Procs /\ Nodes \cap Ctls = {}
      /\ Procs = Nodes \cup Ctls /\ down \subseteq Nodes /\ Nil \notin Nodes
      /\ ejected \in [Ctls -> Nodes \cup {Nil}] /\ \A m \in down : todo[m] = <<>>
    BY Zenon, MembershipAssumption DEF EInv, TasksFit, IInv, Types, Procs
<1>1. ASSUME NEW mode \in Modes, Register(n, mode) PROVE TasksFit' /\ EjectedAreRemoved'
    <2>1. /\ n \notin down /\ down' = down /\ ejected' = ejected /\ last' = last
          /\ todo' = [todo EXCEPT ![n] = RegisterTasks(n, mode)]
          /\ err' = [err EXCEPT ![n] = "nil"]
        BY Zenon, <1>1 DEF Register, Call
    <2>2. RegisterTasks(n, mode) \in Seq(TasksOf(n))
        BY Zenon, RegisterTasksFit
    <2>3. /\ todo'[n] = RegisterTasks(n, mode) /\ DOMAIN err' = Procs
          /\ \A p \in Procs \ {n} : todo'[p] = todo[p] /\ err'[p] = err[p]
        BY Zenon, <1>0, <2>1
    <2>4. \A m \in down' : todo'[m] = <<>>
        BY Zenon, <1>0, <2>1
    <2>5. \A m \in down, k \in Kinds : Removed(k, m) => Removed(k, m)'
        BY Zenon, <2>1 DEF Removed
    <2> QED
        BY Zenon, <1>0, <2>1, <2>2, <2>3, <2>4, <2>5, EjectFrame
<1>2. ASSUME NEW p \in Ctls, UnregisterNodes(p, n) PROVE TasksFit' /\ EjectedAreRemoved'
    <2> DEFINE U == <<Removal("wanted", n), Removal("known", n)>>
    <2>1. RegisterTasks(n, "unknown") = U /\ U \in Seq(TasksOf(p))
        BY Zenon, RegisterTasksFit
    <2> HIDE DEF U
    <2>2. /\ down' = down \cup {n} /\ ejected' = [ejected EXCEPT ![p] = n] /\ last' = last
          /\ todo' = [todo EXCEPT ![p] = U] /\ err' = [err EXCEPT ![p] = "nil"]
          /\ todo[n] = <<>>
        BY Zenon, <1>2, <2>1 DEF UnregisterNodes, Call
    <2>3. /\ todo'[p] = U /\ DOMAIN err' = Procs /\ ejected'[p] = n
          /\ \A q \in Procs \ {p} : todo'[q] = todo[q] /\ err'[q] = err[q]
          /\ \A q \in Ctls \ {p} : ejected'[q] = ejected[q]
          /\ ejected' \in [Ctls -> Nodes \cup {Nil}]
        BY Zenon, <1>0, <2>2
    <2>4. \A m \in down' : todo'[m] = <<>>
        BY Zenon, <1>0, <2>2
    <2>5. \A m \in down, k \in Kinds : Removed(k, m) => Removed(k, m)'
        BY Zenon, <2>2 DEF Removed
    <2>6. (Ejecting(p, ejected[p]))'
        BY Zenon, <2>2, <2>3 DEF Ejecting, U
    <2> QED
        BY Zenon, <1>0, <2>1, <2>2, <2>3, <2>4, <2>5, <2>6, EjectFrame
<1> QED
    BY Zenon, <1>1, <1>2

(* TaskSet: the removal of an ejected node is not undone, for only the     *)
(* node itself would, and it has nothing to do any more.                   *)
LEMMA TaskSetEInv ==
    ASSUME EInv, NEW q \in Procs, TaskSet(q)
    PROVE  TasksFit' /\ EjectedAreRemoved'
<1>0. /\ todo \in [Procs -> Seq(Task)] /\ Nodes \cap Ctls = {} /\ last \in [Kinds -> NodeDefs]
      /\ Procs = Nodes \cup Ctls /\ down \subseteq Nodes /\ Nil \notin Nodes
      /\ ejected \in [Ctls -> Nodes \cup {Nil}] /\ \A m \in down : todo[m] = <<>>
    BY Zenon, MembershipAssumption DEF EInv, TasksFit, IInv, Types, Procs
<1>1. PICK t : t = Head(todo[q])
    BY Zenon
<1>2. /\ todo[q] # <<>> /\ down' = down /\ ejected' = ejected /\ err' = err
      /\ todo' = [todo EXCEPT ![q] = Tail(todo[q])]
      /\ last' = [last EXCEPT ![t.kind][t.node] = NewNodeDef(t)]
    BY Zenon, <1>1 DEF TaskSet, Finish
<1>3. /\ t \in TasksOf(q) /\ Tail(todo[q]) \in Seq(TasksOf(q)) /\ q \notin down
      /\ t.kind \in Kinds /\ t.node \in Nodes
    BY Zenon, <1>1, <1>2, TailFits
<1>4. t.op = "remove" => NewNodeDef(t) = NotRegistered
    BY Zenon DEF NewNodeDef
<1>5. t.node \in down => t.op = "remove"
    BY Zenon, <1>0, <1>3 DEF TasksOf, Task
<1>6. t.op = "remove" => last'[t.kind][t.node] = NotRegistered
    <2>1. t.kind \in DOMAIN last /\ t.node \in DOMAIN last[t.kind]
        BY Zenon, <1>0, <1>3 DEF NodeDefs
    <2> QED
        BY Zenon, <1>2, <1>4, <2>1
<1>7. \A m \in down, k \in Kinds : Removed(k, m) => Removed(k, m)'
    <2> TAKE m \in down, k \in Kinds
    <2> HAVE Removed(k, m)
    <2>1. CASE m = t.node /\ k = t.kind
        BY Zenon, <1>5, <1>6, <2>1 DEF Removed
    <2>2. CASE m # t.node \/ k # t.kind
        BY Zenon, <1>0, <1>2, <1>3, <2>2 DEF Removed, NodeDefs
    <2> QED
        BY Zenon, <2>1, <2>2
<1>8. /\ todo'[q] = Tail(todo[q])
      /\ \A p \in Procs \ {q} : todo'[p] = todo[p] /\ err'[p] = err[p]
      /\ \A m \in down' : todo'[m] = <<>>
    BY Zenon, <1>0, <1>2, <1>3
<1>9. ASSUME q \in Ctls, ejected'[q] # Nil PROVE (Ejecting(q, ejected[q]))'
    <2>1. PICK n \in Nodes : n = ejected[q] /\ n = ejected'[q]
        BY Zenon, <1>0, <1>2, <1>9
    <2>2. Ejecting(q, n) /\ n \in down
        BY Zenon, <1>9, <1>0, <2>1 DEF EInv, EjectedAreRemoved, Ejecting
    <2>3. err[q] = "nil" => t.node = n /\ t.op = "remove"
        BY Zenon, <1>1, <1>2, <2>2, EjectingHead
    <2>4. PICK j : j = t.kind
        BY Zenon
    <2>5. err[q] = "nil" => Removed(j, n)'
        BY Zenon, <1>6, <2>3, <2>4 DEF Removed
    <2>6. Ejecting(q, n)'
        BY Zenon, <1>1, <1>2, <1>7, <1>8, <2>2, <2>4, <2>5, EjectingAdvances
    <2> QED
        BY Zenon, <2>1, <2>6 DEF Ejecting, Removed
<1>10. DOMAIN err' = Procs
    BY Zenon, <1>2 DEF EInv, TasksFit
<1> QED
    BY Zenon, <1>0, <1>2, <1>3, <1>7, <1>8, <1>9, <1>10, EjectFrame

(* A task that has nothing to do has it done: the read finds the node      *)
(* removed already.                                                        *)
LEMMA TaskGetEInv ==
    ASSUME EInv, NEW q \in Procs, TaskGet(q)
    PROVE  TasksFit' /\ EjectedAreRemoved'
<1>0. /\ todo \in [Procs -> Seq(Task)] /\ Nodes \cap Ctls = {} /\ DOMAIN err = Procs
      /\ Procs = Nodes \cup Ctls /\ down \subseteq Nodes /\ Nil \notin Nodes
      /\ ejected \in [Ctls -> Nodes \cup {Nil}] /\ \A m \in down : todo[m] = <<>>
    BY Zenon, MembershipAssumption DEF EInv, TasksFit, IInv, Types, Procs
<1>1. PICK t : t = Head(todo[q])
    OBVIOUS
<1>2. /\ todo[q] # <<>> /\ down' = down /\ ejected' = ejected /\ err' = err /\ last' = last
      /\ \/ todo' = todo
         \/ /\ NothingToDo(t, DefsOf(Cur(t.kind)))
            /\ todo' = [todo EXCEPT ![q] = Tail(todo[q])]
    BY Zenon, <1>1 DEF TaskGet, Finish
<1>3. /\ t \in TasksOf(q) /\ Tail(todo[q]) \in Seq(TasksOf(q)) /\ q \notin down
      /\ t.kind \in Kinds /\ t.node \in Nodes /\ todo[q] \in Seq(TasksOf(q))
    BY Zenon, <1>1, <1>2, TailFits DEF EInv, TasksFit
<1>4. \A m \in down, k \in Kinds : Removed(k, m) => Removed(k, m)'
    BY Zenon, <1>2 DEF Removed
<1>5. /\ todo'[q] \in Seq(TasksOf(q))
      /\ \A p \in Procs \ {q} : todo'[p] = todo[p] /\ err'[p] = err[p]
      /\ \A m \in down' : todo'[m] = <<>>
    BY Zenon, <1>0, <1>2, <1>3
<1>6. ASSUME q \in Ctls, ejected'[q] # Nil PROVE (Ejecting(q, ejected[q]))'
    <2>1. PICK n \in Nodes : n = ejected[q] /\ n = ejected'[q]
        BY Zenon, <1>0, <1>2, <1>6
    <2>2. Ejecting(q, n) /\ n \in down
        BY Zenon, <1>6, <1>0, <2>1 DEF EInv, EjectedAreRemoved, Ejecting
    <2>3. CASE todo' = todo
        <3>1. Ejecting(q, n)'
            BY Zenon, <1>2, <1>4, <2>2, <2>3, EjectingStays
        <3> QED
            BY <2>1, <3>1 DEF Ejecting, Removed
    <2>4. CASE /\ NothingToDo(t, DefsOf(Cur(t.kind)))
               /\ todo' = [todo EXCEPT ![q] = Tail(todo[q])]
        <3>1. err[q] = "nil" => t.node = n /\ t.op = "remove"
            BY Zenon, <1>1, <1>2, <2>2, EjectingHead
        <3>2. PICK j : j = t.kind
            OBVIOUS
        <3>3. err[q] = "nil" => Removed(j, n)
            BY Zenon, <1>3, <2>4, <3>1, <3>2 DEF NothingToDo, Removed, EInv, IInv, RegistrationsAreKept
        <3>4. Ejecting(q, n)'
            <4>1. todo'[q] = Tail(todo[q])
                BY Zenon, <1>0, <2>4
            <4>2. err[q] = "nil" => Removed(j, n)'
                BY Zenon, <1>2, <3>3 DEF Removed
            <4> QED
                BY Zenon, <1>1, <1>2, <1>4, <2>2, <3>2, <4>1, <4>2, EjectingAdvances
        <3> QED
            BY <2>1, <3>4 DEF Ejecting, Removed
    <2> QED
        BY Zenon, <1>2, <2>3, <2>4
<1> QED
    BY Zenon, <1>0, <1>2, <1>3, <1>4, <1>5, <1>6, EjectFrame

(* A conflict is tried again, or the call goes on without a promise; an    *)
(* error ends the call.                                                    *)
LEMMA TaskLostEInv ==
    ASSUME EInv, NEW q \in Procs, TaskRetry(q) \/ TaskFail(q)
    PROVE  TasksFit' /\ EjectedAreRemoved'
<1>0. /\ todo \in [Procs -> Seq(Task)] /\ Nodes \cap Ctls = {} /\ DOMAIN err = Procs
      /\ Procs = Nodes \cup Ctls /\ down \subseteq Nodes /\ Nil \notin Nodes
      /\ ejected \in [Ctls -> Nodes \cup {Nil}] /\ \A m \in down : todo[m] = <<>>
    BY Zenon, MembershipAssumption DEF EInv, TasksFit, IInv, Types, Procs
<1>1. /\ todo[q] # <<>> /\ down' = down /\ last' = last
      /\ \/ todo' = todo /\ ejected' = ejected /\ err' = err
         \/ /\ todo' = [todo EXCEPT ![q] = Tail(todo[q])] /\ err' = err
            /\ ejected' = [ejected EXCEPT ![q] = Nil] /\ q \in Ctls
         \/ /\ todo' = [todo EXCEPT ![q] = <<>>] /\ err' = [err EXCEPT ![q] = "exists"]
            /\ ejected' = ejected
    BY Zenon DEF TaskRetry, TaskFail, Finish, MayRetry
<1>2. Tail(todo[q]) \in Seq(TasksOf(q)) /\ q \notin down /\ todo[q] \in Seq(TasksOf(q))
    BY Zenon, <1>1, TailFits DEF EInv, TasksFit
<1>3. \A m \in down, k \in Kinds : Removed(k, m) => Removed(k, m)'
    BY Zenon, <1>1 DEF Removed
<1>4. /\ todo'[q] \in Seq(TasksOf(q)) /\ DOMAIN err' = Procs
      /\ \A p \in Procs \ {q} : todo'[p] = todo[p] /\ err'[p] = err[p]
      /\ \A m \in down' : todo'[m] = <<>>
    <2>1. <<>> \in Seq(TasksOf(q))
        OBVIOUS
    <2> QED
        BY Zenon, <1>0, <1>1, <1>2, <2>1
<1>5. /\ ejected' \in [Ctls -> Nodes \cup {Nil}]
      /\ \A p \in Ctls \ {q} : ejected'[p] = ejected[p]
    BY Zenon, <1>0, <1>1
<1>6. ASSUME q \in Ctls, ejected'[q] # Nil PROVE (Ejecting(q, ejected[q]))'
    <2>1. ejected' = ejected
        BY Zenon, <1>0, <1>1, <1>6
    <2>2. PICK n \in Nodes : n = ejected[q] /\ n = ejected'[q]
        BY Zenon, <1>0, <1>6, <2>1
    <2>3. Ejecting(q, n) /\ n \in down
        BY Zenon, <1>6, <1>0, <2>2 DEF EInv, EjectedAreRemoved, Ejecting
    <2>4. \/ todo'[q] = todo[q] /\ err'[q] = err[q]
          \/ err'[q] = "exists"
        BY Zenon, <1>0, <1>1, <1>6, <2>2
    <2>5. Ejecting(q, n)'
        BY Zenon, <1>1, <1>3, <2>3, <2>4, EjectingStays DEF Ejecting
    <2> QED
        BY Zenon, <2>2, <2>5 DEF Ejecting, Removed
<1> QED
    BY Zenon, <1>0, <1>1, <1>3, <1>4, <1>5, <1>6, EjectFrame

(* The inductive step. *)
LEMMA NextEInv == EInv /\ [Next]_vars => EInv'
<1> SUFFICES ASSUME EInv, [Next]_vars PROVE TasksFit' /\ EjectedAreRemoved'
    BY Zenon, NextIInv DEF EInv
<1>1. CASE \E p \in Procs : TaskStep(p)
    BY Zenon, <1>1, TaskGetEInv, TaskSetEInv, TaskLostEInv DEF TaskStep
<1>2. CASE \E n \in Nodes : \/ \E mode \in Modes : Register(n, mode)
                          \/ \E p \in Ctls : UnregisterNodes(p, n)
    BY Zenon, <1>2, CallEInv
<1>3. CASE \/ UNCHANGED vars
           \/ \E n \in Nodes : CheckVersion(n) \/ CheckStep(n)
    <2>1. UNCHANGED <<down, taskVars, ejected, last>>
        BY Zenon, <1>3 DEF vars, CheckVersion, CheckStep, CheckGet, CheckVerify, CheckSet, CheckDone, SetCv
    <2> QED
        BY Zenon, <2>1 DEF taskVars, EInv, TasksFit, EjectedAreRemoved, Ejecting, Removed
<1>4. CASE \E n \in Nodes : Restart(n)
    <2>1. PICK n \in Nodes : Restart(n)
        BY Zenon, <1>4
    <2>2. /\ n \notin down /\ down' = down /\ last' = last /\ ejected' = ejected
          /\ todo' = [todo EXCEPT ![n] = <<>>] /\ err' = [err EXCEPT ![n] = "nil"]
        BY Zenon, <2>1 DEF Restart
    <2>3. /\ todo \in [Procs -> Seq(Task)] /\ Nodes \cap Ctls = {} /\ DOMAIN err = Procs
          /\ Procs = Nodes \cup Ctls /\ ejected \in [Ctls -> Nodes \cup {Nil}]
          /\ \A m \in down : todo[m] = <<>>
        BY Zenon, MembershipAssumption DEF EInv, TasksFit, IInv, Types, Procs
    <2>4. <<>> \in Seq(TasksOf(n))
        OBVIOUS
    <2>5. /\ todo'[n] \in Seq(TasksOf(n)) /\ DOMAIN err' = Procs
          /\ \A p \in Procs \ {n} : todo'[p] = todo[p] /\ err'[p] = err[p]
          /\ \A m \in down' : todo'[m] = <<>>
        BY <2>2, <2>3, <2>4
    <2>6. \A m \in down, k \in Kinds : Removed(k, m) => Removed(k, m)'
        BY Zenon, <2>2 DEF Removed
    <2> QED
        BY Zenon, <2>2, <2>3, <2>5, <2>6, EjectFrame
<1> QED
    BY Zenon, <1>1, <1>2, <1>3, <1>4 DEF Next

(* When UnregisterNodes has returned nil within its tries, the node is in  *)
(* neither the known nor the wanted definitions, whoever was registering   *)
(* meanwhile (defs.go:484-513).                                            *)
THEOREM MembershipUnregisteredIsGone == Spec => []UnregisteredIsGone
<1>1. EInv => UnregisteredIsGone
    <2> SUFFICES ASSUME EInv, NEW p \in Ctls, todo[p] = <<>>, err[p] = "nil", ejected[p] # Nil,
                        NEW k \in Kinds
                 PROVE  DefsOf(Cur(k))[ejected[p]] = NotRegistered
        BY Zenon DEF UnregisteredIsGone
    <2>1. \A a, b : <<a>> # <<>> /\ <<a, b>> # <<>>
        BY Zenon
    <2>2. Ejecting(p, ejected[p])
        BY Zenon DEF EInv, EjectedAreRemoved
    <2>3. Removed(k, ejected[p])
        BY <2>1, <2>2, Zenon DEF Ejecting, Kinds
    <2> QED
        BY Zenon, <2>3 DEF Removed, EInv, IInv, RegistrationsAreKept
<1> QED
    BY <1>1, InitEInv, NextEInv, PTL DEF Spec
=============================================================================
