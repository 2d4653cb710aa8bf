------------------------------- MODULE Janitor -------------------------------
(***************************************************************************)
(* The janitor of one node (manager_janitor.go): on each kick it reads the *)
(* plan, compares it with the pindexes that are registered, and restarts,  *)
(* removes and starts pindexes and their feeds.  At the same time, after a *)
(* start of the process, LoadDataDir opens the pindexes that are on disk,  *)
(* and pindexes ask to be rolled back.  A pindex is an object, with an     *)
(* identity, a name that its directory and its feed are named after, and a *)
(* Dest that is open until it is closed.                                   *)
(***************************************************************************)
EXTENDS Integers, FiniteSets

CONSTANTS Indexes,     \* index names
          Parts,       \* the source partitions of each pindex of an index
          None,
          MaxUUID,     \* bound: definitions of an index
          MaxChanges,  \* bound: changes of the plan
          MaxTroubles, \* bound: failures, rollbacks and crashes
          MaxObjs      \* bound: pindex objects in use at a time

ASSUME JanitorAssumption ==
    /\ MaxUUID \in Nat \ {0} /\ MaxObjs \in Nat \ {0}
    /\ MaxChanges \in Nat /\ MaxTroubles \in Nat

(* PlanPIndexName: of the index, its UUID and the source partitions. *)
Name == [index : Indexes, uuid : 1..MaxUUID, part : Parts]

(* The plan of an index: its UUID (0: no index), whether pindexes may be   *)
(* written to, whether its AnalyzeIndexDefUpdates accepts a restart, and   *)
(* where its pindexes are: on this node, on enough others, or on too few.  *)
IndexPlan == [uuid : 0..MaxUUID, write : BOOLEAN, restart : BOOLEAN,
              at : [Parts -> {"here", "away", "short"}]]

(* A PIndex; its IndexUUID and the directory it was opened from, which is  *)
(* called after some name, may differ from its own name.                   *)
PIndex == [id : 1..MaxObjs, name : Name, uuid : 1..MaxUUID, path : Name]

(* A directory holds a PINDEX_META, with a name and an IndexUUID, or was   *)
(* not completed.                                                          *)
NoDir == [dir |-> "none"]
NoMeta == [dir |-> "no meta"]
Meta == [name : Name, uuid : 1..MaxUUID]

VARIABLES plan, changes, troubles, used,
          disk,       \* disk[d]: the directory called d
          pindexes,   \* mgr.pindexes
          open,       \* the open Dests: their pindex's id and path
          feeds,      \* mgr.feeds: name, and the id that each partition goes to
          booting,    \* mgr.bootingPIndexes
          loader,     \* loader[d]: where LoadDataDir is with directory d
          rollbacks,  \* the pindexes that wait to be rolled back
          pc,         \* where the janitor is
          got,        \* the plan it has read
          toRestart, toRemove, toAdd,
          item,       \* the restart or the start that is under way
          errs,       \* whether JanitorOnce has met an error
          rolling     \* the pindex whose rollback runs JanitorOnce

planVars == <<plan, changes, used>>
work == <<toRestart, toRemove, toAdd>>
node == <<disk, pindexes, open, feeds>>
vars == <<planVars, troubles, node, booting, loader, rollbacks, pc, got, work,
          item, errs, rolling>>

NoIndex == [uuid |-> 0, write |-> FALSE, restart |-> FALSE,
            at |-> [p \in Parts |-> "away"]]

Init ==
    /\ plan = [i \in Indexes |-> NoIndex]
    /\ changes = 0 /\ troubles = 0 /\ used = {}
    /\ disk = [d \in Name |-> NoDir]
    /\ pindexes = {} /\ open = {} /\ feeds = {} /\ booting = {}
    /\ loader = [d \in Name |-> "done"]
    /\ rollbacks = {}
    /\ pc = "idle"
    /\ got = plan
    /\ toRestart = {} /\ toRemove = {} /\ toAdd = {}
    /\ item = None /\ errs = FALSE /\ rolling = None
-----------------------------------------------------------------------------
PlannedAt(pl, where) ==
    {n \in Name : pl[n.index].uuid = n.uuid /\ pl[n.index].at[n.part] = where}

(* The pindexes that a plan wants on this node. *)
Wanted(pl) == PlannedAt(pl, "here")

PIndexMatchesPlan(o, n) == o.name = n /\ o.uuid = n.uuid

(* Whether registerPIndex finds that the name is taken. *)
Registered(n) == \E o \in pindexes : o.name = n

(* A pindex object that nothing refers to any more. *)
NewId ==
    LET refs == {o.id : o \in pindexes \cup rollbacks \cup toRemove \cup open}
                \cup {r.obj.id : r \in toRestart}
                \cup {d.id : d \in UNION {f.dests : f \in feeds}}
                \cup {o.id : o \in {rolling} \ {None}}
    IN CHOOSE k \in (1..MaxObjs) \ refs :
          \A j \in (1..MaxObjs) \ refs : k <= j

(* An event the janitor has no control of. *)
Trouble == troubles < MaxTroubles /\ troubles' = troubles + 1

(* How a step that may fail in several places goes. *)
Outcome(out) == IF out = "ok" THEN UNCHANGED troubles ELSE Trouble

(* A planner or a rebalance writes a new plan for index i: with a new      *)
(* definition, or with other nodes for its pindexes.  The first definition *)
(* of an index has no earlier pindexes that could be restarted.            *)
ChangePlan(i, new) ==
    /\ changes < MaxChanges
    /\ changes' = changes + 1
    /\ new # plan[i]
    /\ \/ new = NoIndex
       \/ new = [plan[i] EXCEPT !.at = new.at] /\ new.uuid > 0
       \/ LET past == {0, plan[i].uuid} \cup {n.uuid : n \in {m \in used : m.index = i}}
          IN /\ \A u \in past : u < new.uuid
             /\ new.uuid - 1 \in past
             /\ new.restart => past # {0}
    /\ plan' = [plan EXCEPT ![i] = new]
    /\ used' = used \cup Wanted(plan')
    /\ UNCHANGED <<troubles, node, booting, loader, rollbacks, pc, got, work, item,
                   errs, rolling>>
-----------------------------------------------------------------------------
(* stopPIndex closes the feeds that send to the pindex, takes it, and only *)
(* it, off the registry, and closes its Dest.  If a feed does not close,   *)
(* that is all; if the Dest does not, it counts as closed.                 *)
FeedsWithout(o) == {f \in feeds : ~ \E d \in f.dests : d.id = o.id}

(* Mutant: the feeds of a pindex that is stopped go on. *)
stopPIndexFed(o, out) ==
    /\ out = "feed" => FeedsWithout(o) # feeds
    /\ UNCHANGED feeds
    /\ pindexes' = IF out = "feed" THEN pindexes ELSE {q \in pindexes : q.id # o.id}
    /\ open' = IF out = "feed" THEN open ELSE {d \in open : d.id # o.id}

stopPIndex(o, out) ==
    /\ out = "feed" => FeedsWithout(o) # feeds
    /\ feeds' = FeedsWithout(o)
    /\ pindexes' = IF out = "feed" THEN pindexes ELSE {q \in pindexes : q.id # o.id}
    /\ open' = IF out = "feed" THEN open ELSE {d \in open : d.id # o.id}

StopOutcomes == {"ok", "feed", "close"}

(* The files after PIndex.Close(true): nothing happens to those of a       *)
(* pindex that has been closed before.                                     *)
Removed(o) == IF \E d \in open : d.id = o.id THEN [disk EXCEPT ![o.path] = NoDir]
                                             ELSE disk

NewPIndex(meta, path) ==
    [id |-> NewId, name |-> meta.name, uuid |-> meta.uuid, path |-> path]

MetaOf(n) == [name |-> n, uuid |-> n.uuid]

Opened(o) == [id |-> o.id, path |-> o.path]

(* JanitorOnce begins: reads the plan. *)
JanitorOnce(out) ==
    /\ pc = "plan"
    /\ Outcome(out)
    /\ got' = IF out = "ok" THEN plan ELSE got
    /\ errs' = (out # "ok")
    /\ pc' = IF out = "ok" THEN "classify" ELSE "end"
    /\ UNCHANGED <<planVars, node, booting, loader, rollbacks, work, item, rolling>>

(* CalcPIndexesDelta: what is missing, or differs, is added; what is not    *)
(* wanted, or differs, is removed, but for pindexes of a plan in progress.  *)
AddPlanPIndexes ==
    {n \in Wanted(got) : ~ \E o \in pindexes : PIndexMatchesPlan(o, n)}

Reusable == {n \in PlannedAt(got, "short") :
                \E o \in pindexes : PIndexMatchesPlan(o, n)}

RemovePIndexes ==
    {o \in pindexes :
        IF o.name \in Wanted(got) THEN ~PIndexMatchesPlan(o, o.name)
                                  ELSE o.name \notin Reusable}

(* The new plan of the partitions of pindex o, as advPIndexClassifier finds *)
(* it by the end of the name.                                               *)
TargetPlans(o) == {n \in AddPlanPIndexes : n.index = o.name.index /\ n.part = o.name.part}

RestartReqs ==
    {[obj |-> [o EXCEPT !.uuid = n.uuid], to |-> n] :
        <<o, n>> \in {r \in RemovePIndexes \X AddPlanPIndexes :
                        r[2] \in TargetPlans(r[1]) /\ got[r[2].index].restart}}

(* newPIndexRestartReq: the pindex already gets the new IndexUUID. *)
Updated(os) ==
    {o \in os : \A r \in RestartReqs : r.obj.id # o.id}
    \cup {r.obj : r \in {q \in RestartReqs : \E o \in os : o.id = q.obj.id}}

classifyAddRemoveRestartPIndexes ==
    /\ pc = "classify"
    /\ toRestart' = RestartReqs
    /\ toRemove' = {o \in RemovePIndexes : \A r \in RestartReqs : r.obj.id # o.id}
    /\ toAdd' = AddPlanPIndexes \ {r.to : r \in RestartReqs}
    /\ pindexes' = Updated(pindexes)
    /\ rollbacks' = Updated(rollbacks)
    /\ pc' = "work"
    /\ UNCHANGED <<planVars, troubles, disk, open, feeds, booting, loader, got, item,
                   errs, rolling>>
-----------------------------------------------------------------------------
(* restartPIndex, first half: skips a pindex that LoadDataDir is loading,  *)
(* stops it, and renames its directory; if anything fails, cleans up and   *)
(* leaves the pindex to be started afresh.                                 *)
restartPIndex(r, out) ==
    /\ pc = "work" /\ item = None
    /\ r \in toRestart
    /\ toRestart' = toRestart \ {r}
    /\ IF r.obj.name \in booting
       THEN out = "ok" /\ UNCHANGED <<troubles, node, toAdd, item>>
       ELSE LET renamed == \/ r.to = r.obj.path
                           \/ disk[r.obj.path] # NoDir /\ disk[r.to] = NoDir
                goes == out = "ok" /\ renamed
            IN /\ Outcome(out)
               /\ stopPIndex(r.obj, out)
               /\ disk' = [disk EXCEPT ![r.obj.path] = NoDir,
                                       ![r.to] = IF goes THEN disk[r.obj.path]
                                                 ELSE IF out = "ok" THEN NoDir ELSE @]
               /\ item' = IF goes THEN r ELSE None
               /\ toAdd' = IF goes THEN toAdd ELSE toAdd \cup {r.to}
    /\ UNCHANGED <<planVars, booting, loader, rollbacks, pc, got, toRemove, errs,
                   rolling>>

(* Second half: saves the new meta, opens the directory and registers.  If *)
(* the open fails, only the old path is cleaned.                           *)
restartPIndexOpen(out) ==
    /\ pc = "work" /\ item # None /\ item \notin Name
    /\ Outcome(out)
    /\ LET o == NewPIndex(MetaOf(item.to), item.to)
           registers == out = "ok" /\ ~Registered(o.name)
       IN /\ open' = IF out = "ok" THEN open \cup {Opened(o)} ELSE open
          /\ pindexes' = IF registers THEN pindexes \cup {o} ELSE pindexes
          /\ disk' = [disk EXCEPT
                 ![item.to] = IF registers \/ (out = "open" /\ item.obj.path # item.to)
                              THEN MetaOf(item.to) ELSE NoDir,
                 ![item.obj.path] = IF out = "open" THEN NoDir ELSE @]
          /\ toAdd' = IF registers THEN toAdd ELSE toAdd \cup {item.to}
    /\ item' = None
    /\ UNCHANGED <<planVars, feeds, booting, loader, rollbacks, pc, got, toRestart,
                   toRemove, errs, rolling>>

(* pindexesStop, for one pindex. *)
pindexesStop(o, out) ==
    /\ pc = "work" /\ item = None /\ toRestart = {}
    /\ o \in toRemove
    /\ toRemove' = toRemove \ {o}
    /\ IF o.name \in booting
       THEN out = "ok" /\ UNCHANGED <<troubles, node, errs>>
       ELSE /\ Outcome(out)
            /\ stopPIndex(o, out)
            /\ disk' = IF out = "ok" THEN Removed(o) ELSE disk
            /\ errs' = (errs \/ out # "ok")
    /\ UNCHANGED <<planVars, booting, loader, rollbacks, pc, got, toRestart, toAdd,
                   item, rolling>>

(* Mutant: the janitor does not look whether LoadDataDir is at it. *)
updateBootingStatusBlind(n) == TRUE

(* updateBootingStatus(n, true) succeeds for one of several. *)
updateBootingStatus(n) == n \notin booting /\ ~Registered(n)

(* pindexesStart, for one pindex: first takes the booting status. *)
pindexesStart(n) ==
    /\ pc = "work" /\ item = None /\ toRestart = {} /\ toRemove = {}
    /\ n \in toAdd
    /\ toAdd' = toAdd \ {n}
    /\ IF updateBootingStatus(n)
       THEN booting' = booting \cup {n} /\ item' = n
       ELSE UNCHANGED <<booting, item>>
    /\ UNCHANGED <<planVars, troubles, node, loader, rollbacks, pc, got, toRestart,
                   toRemove, errs, rolling>>

(* startPIndex: opens what is on disk if that is the planned pindex, makes *)
(* a new one otherwise, and registers.                                     *)
startPIndex(out) ==
    /\ pc = "work" /\ item \in Name
    /\ Outcome(out)
    /\ LET o == NewPIndex(MetaOf(item), item)
           registers == out = "ok" /\ ~Registered(item)
       IN /\ disk' = [disk EXCEPT ![item] = IF registers THEN MetaOf(item) ELSE NoDir]
          /\ open' = IF registers THEN open \cup {Opened(o)} ELSE open
          /\ pindexes' = IF registers THEN pindexes \cup {o} ELSE pindexes
          /\ errs' = (errs \/ ~registers)
    /\ booting' = booting \ {item}
    /\ item' = None
    /\ UNCHANGED <<planVars, feeds, loader, rollbacks, pc, got, work, rolling>>
-----------------------------------------------------------------------------
(* FeedNameForPIndex: one feed for the pindexes of a definition. *)
FeedNameForPIndex(o) == <<o.name.index, o.uuid>>

(* The pindexes to be fed, that is planned here and writable. *)
Feedable == {o \in pindexes : o.name \in Wanted(got) /\ got[o.name.index].write}

Group(name) == {o \in Feedable : FeedNameForPIndex(o) = name}

Dests(os) == {[part |-> o.name.part, id |-> o.id] : o \in os}

(* Mutant: a feed is kept whenever something is still to be fed by it. *)
KeptFeedsByName == {f \in feeds : Group(f.name) # {}}

(* A feed is kept when there is a destination for every partition. *)
KeptFeeds ==
    {f \in feeds : /\ Group(f.name) # {}
                   /\ \A o \in Group(f.name) : \E d \in f.dests : d.part = o.name.part}

(* CalcFeedsDelta, and the stops and starts that follow from it; a start    *)
(* fails when two pindexes claim a partition, or for reasons of the source. *)
JanitorFeeds(out) ==
    /\ pc = "work" /\ item = None
    /\ toRestart = {} /\ toRemove = {} /\ toAdd = {}
    /\ Outcome(out)
    /\ LET names == {FeedNameForPIndex(o) : o \in Feedable} \ {f.name : f \in KeptFeeds}
           starts == {name \in names : out # "start" /\ \A o, q \in Group(name) :
                                           o.name.part = q.name.part => o = q}
       IN /\ out = "stop" => KeptFeeds # feeds
          /\ out = "start" => names # {}
          /\ feeds' = KeptFeeds \cup {[name |-> name, dests |-> Dests(Group(name))] :
                                         name \in starts}
          /\ errs' = (errs \/ out = "stop" \/ starts # names)
    /\ pc' = "end"
    /\ UNCHANGED <<planVars, disk, pindexes, open, booting, loader, rollbacks, got,
                   work, item, rolling>>

(* Back to the loop: an error is logged and nothing else, unless this run  *)
(* was part of a rollback, which then cleans up and goes on as a full one. *)
JanitorEnd ==
    /\ pc = "end"
    /\ IF errs /\ rolling # None
       THEN pc' = "full" /\ UNCHANGED rolling
       ELSE pc' = "idle" /\ rolling' = None
    /\ errs' = FALSE
    /\ UNCHANGED <<planVars, troubles, node, booting, loader, rollbacks, got, work, item>>

(* The loop takes a kick, of whichever of its many senders. *)
JanitorKick ==
    /\ pc = "idle"
    /\ pc' = "plan"
    /\ UNCHANGED <<planVars, troubles, node, booting, loader, rollbacks, got, work,
                   item, errs, rolling>>

(* A JANITOR_CLOSE_PINDEX or a JANITOR_REMOVE_PINDEX request of a caller of *)
(* the manager.                                                             *)
ClosePIndex(o, remove) ==
    /\ pc = "idle"
    /\ Trouble
    /\ o \in pindexes
    /\ stopPIndex(o, "ok")
    /\ disk' = IF remove THEN Removed(o) ELSE disk
    /\ UNCHANGED <<planVars, booting, loader, rollbacks, pc, got, work, item, errs,
                   rolling>>
-----------------------------------------------------------------------------
(* The Dest of a pindex that is fed is told by the source to roll back, and *)
(* asks the janitor for it; it has removed its files or has not.            *)
Rollback(o, keep) ==
    /\ Trouble
    /\ o \in pindexes \ rollbacks
    /\ \E f \in feeds : \E d \in f.dests : d.id = o.id
    /\ rollbacks' = rollbacks \cup {o}
    /\ disk' = IF keep THEN disk ELSE [disk EXCEPT ![o.path] = NoDir]
    /\ UNCHANGED <<planVars, pindexes, open, feeds, booting, loader, pc, got, work,
                   item, errs, rolling>>

(* rollbackPIndex stops the pindex; a failure to stop it ends the request. *)
rollbackPIndex(o, out) ==
    /\ pc = "idle"
    /\ o \in rollbacks
    /\ rollbacks' = rollbacks \ {o}
    /\ Outcome(out)
    /\ stopPIndex(o, out)
    /\ IF out = "ok" THEN rolling' = o /\ pc' = "rollback"
                     ELSE UNCHANGED <<rolling, pc>>
    /\ UNCHANGED <<planVars, disk, booting, loader, got, work, item, errs>>

(* With its files in place, the pindex is opened again, registered, and    *)
(* JanitorOnce run; otherwise, or if that fails, a full rollback follows.  *)
partiallyRollbackPIndex(out) ==
    /\ pc = "rollback"
    /\ IF disk[rolling.path] \notin Meta
       THEN /\ out = "ok"
            /\ pc' = "full"
            /\ UNCHANGED <<troubles, open, pindexes>>
       ELSE LET o == NewPIndex(disk[rolling.path], rolling.path)
                registers == out = "ok" /\ ~Registered(o.name)
            IN /\ Outcome(out)
               /\ open' = IF out = "ok" THEN open \cup {Opened(o)} ELSE open
               /\ pindexes' = IF registers THEN pindexes \cup {o} ELSE pindexes
               /\ pc' = IF registers THEN "plan" ELSE "full"
    /\ UNCHANGED <<planVars, disk, feeds, booting, loader, rollbacks, got, work, item,
                   errs, rolling>>

(* The files go, the pindex that is rolled back is stopped, which it is    *)
(* already, and a new one is made at its path; its feeds are not started.  *)
fullRollbackPIndex(out) ==
    /\ pc = "full"
    /\ Outcome(out)
    /\ LET meta == [name |-> rolling.name, uuid |-> rolling.uuid]
           o == NewPIndex(meta, rolling.path)
       IN /\ disk' = [disk EXCEPT ![rolling.path] = IF out = "ok" THEN meta ELSE NoDir]
          /\ open' = IF out = "ok" THEN open \cup {Opened(o)} ELSE open
          /\ pindexes' = IF out = "ok" /\ ~Registered(o.name) THEN pindexes \cup {o}
                                                            ELSE pindexes
    /\ rolling' = None
    /\ pc' = "idle"
    /\ UNCHANGED <<planVars, feeds, booting, loader, rollbacks, got, work, item, errs>>
-----------------------------------------------------------------------------
(* The directory that is being filled at this moment. *)
Filling == IF pc = "work" /\ item \in Name THEN {item}
           ELSE IF pc = "full" THEN {rolling.path} ELSE {}

(* The process crashes, perhaps while a directory is being filled, and is  *)
(* started again; LoadDataDir has a request for every directory.           *)
Crash ==
    /\ Trouble
    /\ disk' \in {disk} \cup {[disk EXCEPT ![d] = left] : d \in Filling,
                                                          left \in {NoDir, NoMeta}}
    /\ loader' = [d \in Name |-> IF disk'[d] = NoDir THEN "done" ELSE "todo"]
    /\ pindexes' = {} /\ open' = {} /\ feeds' = {} /\ booting' = {}
    /\ rollbacks' = {} /\ pc' = "idle"
    /\ toRestart' = {} /\ toRemove' = {} /\ toAdd' = {}
    /\ item' = None /\ errs' = FALSE /\ rolling' = None
    /\ UNCHANGED <<planVars, got>>

(* A worker of LoadDataDir takes a request: nothing to do if the path is   *)
(* gone or the pindex is loaded or being loaded by the janitor.            *)
LoadDataDir(d) ==
    /\ loader[d] = "todo"
    /\ IF disk[d] # NoDir /\ d \notin booting /\ ~Registered(d)
       THEN /\ booting' = booting \cup {d}
            /\ loader' = [loader EXCEPT ![d] = "open"]
       ELSE /\ loader' = [loader EXCEPT ![d] = "done"]
            /\ UNCHANGED booting
    /\ UNCHANGED <<planVars, troubles, node, rollbacks, pc, got, work, item, errs,
                   rolling>>

(* Opens it and registers it under the name in its meta; what panics in    *)
(* the open is removed.                                                    *)
LoadOpen(d, out) ==
    /\ loader[d] = "open"
    /\ IF disk[d] \notin Meta
       THEN /\ out = "ok"
            /\ loader' = [loader EXCEPT ![d] = "unmark"]
            /\ UNCHANGED <<troubles, node>>
       ELSE LET o == NewPIndex(disk[d], d) IN
            /\ Outcome(out)
            /\ open' = IF out = "ok" THEN open \cup {Opened(o)} ELSE open
            /\ pindexes' = IF out = "ok" /\ ~Registered(o.name) THEN pindexes \cup {o}
                                                              ELSE pindexes
            /\ disk' = IF out = "panic" THEN [disk EXCEPT ![d] = NoDir] ELSE disk
            /\ loader' = [loader EXCEPT ![d] = IF out = "ok" THEN "kick" ELSE "unmark"]
            /\ UNCHANGED feeds
    /\ UNCHANGED <<planVars, booting, rollbacks, pc, got, work, item, errs, rolling>>

(* Waits until the janitor takes its kick. *)
LoadKick(d) ==
    /\ loader[d] = "kick"
    /\ pc = "idle"
    /\ pc' = "plan"
    /\ loader' = [loader EXCEPT ![d] = "unmark"]
    /\ UNCHANGED <<planVars, troubles, node, booting, rollbacks, got, work, item, errs,
                   rolling>>

LoadDone(d) ==
    /\ loader[d] = "unmark"
    /\ booting' = booting \ {d}
    /\ loader' = [loader EXCEPT ![d] = "done"]
    /\ UNCHANGED <<planVars, troubles, node, rollbacks, pc, got, work, item, errs,
                   rolling>>
-----------------------------------------------------------------------------
JanitorStep ==
    \/ \E out \in {"ok", "error"} :
          JanitorOnce(out) \/ startPIndex(out)
          \/ partiallyRollbackPIndex(out) \/ fullRollbackPIndex(out)
    \/ \E r \in toRestart, out \in StopOutcomes : restartPIndex(r, out)
    \/ \E out \in {"ok", "meta", "open"} : restartPIndexOpen(out)
    \/ \E o \in toRemove, out \in StopOutcomes : pindexesStop(o, out)
    \/ \E out \in {"ok", "stop", "start"} : JanitorFeeds(out)
    \/ classifyAddRemoveRestartPIndexes
    \/ \E n \in toAdd : pindexesStart(n)
    \/ JanitorEnd

LoadStep(d) ==
    \/ LoadDataDir(d)
    \/ \E out \in {"ok", "error", "panic"} : LoadOpen(d, out)
    \/ LoadDone(d)

RollbackStep == \E o \in rollbacks, out \in StopOutcomes : rollbackPIndex(o, out)

Next ==
    \/ \E i \in Indexes, new \in IndexPlan : ChangePlan(i, new)
    \/ JanitorKick
    \/ JanitorStep
    \/ RollbackStep
    \/ \E o \in pindexes, b \in BOOLEAN : Rollback(o, b) \/ ClosePIndex(o, b)
    \/ \E d \in Name : LoadStep(d) \/ LoadKick(d)
    \/ Crash

(* The goroutines run; kicks keep coming; whoever waits to hand something  *)
(* to the janitor, which a channel serves in order, gets its turn.         *)
Spec ==
    /\ Init /\ [][Next]_vars
    /\ WF_vars(JanitorStep) /\ WF_vars(JanitorKick) /\ SF_vars(RollbackStep)
    /\ WF_vars(\E d \in Name : LoadStep(d)) /\ SF_vars(\E d \in Name : LoadKick(d))
-----------------------------------------------------------------------------
(* Types, and what registerPIndex and registerFeed promise: at most one     *)
(* pindex and one feed of a name.                                           *)
TypeOK ==
    /\ plan \in [Indexes -> IndexPlan] /\ got \in [Indexes -> IndexPlan]
    /\ changes \in 0..MaxChanges /\ troubles \in 0..MaxTroubles
    /\ disk \in [Name -> {NoDir, NoMeta} \cup Meta]
    /\ used \subseteq Name /\ booting \subseteq Name /\ toAdd \subseteq Name
    /\ \A o \in pindexes \cup rollbacks \cup toRemove \cup ({rolling} \ {None}) :
          o \in PIndex
    /\ \A o, q \in pindexes : o.name = q.name \/ o.id = q.id => o = q
    /\ open \subseteq [id : 1..MaxObjs, path : Name]
    /\ \A f \in feeds : /\ f.name \in Indexes \X (1..MaxUUID)
                        /\ f.dests \subseteq [part : Parts, id : 1..MaxObjs]
    /\ \A f, g \in feeds : f.name = g.name => f = g
    /\ loader \in [Name -> {"todo", "open", "kick", "unmark", "done"}]
    /\ pc \in {"idle", "plan", "classify", "work", "end", "rollback", "full"}
    /\ toRestart \subseteq [obj : PIndex, to : Name]
    /\ item \in {None} \cup Name \cup [obj : PIndex, to : Name]
    /\ errs \in BOOLEAN

(* The files of a pindex are never open twice: whatever the interleaving   *)
(* of the janitor, the workers of LoadDataDir and rollbacks, no two Dests  *)
(* that are open share a path.                                             *)
OneDestPerPath == \A d, e \in open : d.path = e.path => d = e

(* No feed sends to a Dest that has been closed: stopPIndex closes the     *)
(* feeds of a pindex first, and a feed that is kept by CalcFeedsDelta      *)
(* because of its partitions also has the right pindexes.                  *)
FeedsSendToOpen ==
    \A f \in feeds : \A d \in f.dests : \E e \in open : e.id = d.id

(* The node has exactly what the plan says.  A pindex that is kept while   *)
(* the plan is in progress may be fed, with others, or not.                *)
Realised ==
    /\ \A n \in Wanted(plan) : \E o \in pindexes :
          PIndexMatchesPlan(o, n) /\ Opened(o) \in open
    /\ \A o \in pindexes : o.name \in Wanted(plan) \cup PlannedAt(plan, "short")
    /\ LET fed == UNION {f.dests : f \in feeds}
           writable(n) == n \in Wanted(plan) /\ plan[n.index].write
       IN /\ Dests({o \in pindexes : writable(o.name)}) \subseteq fed
          /\ fed \subseteq Dests({o \in pindexes : \/ writable(o.name)
                                                 \/ o.name \in PlannedAt(plan, "short")})

(* The "usual healing power" of the janitor, which the comments in         *)
(* LoadDataDir, pindexesStop and restartPIndex count on: once the plan     *)
(* stays as it is and nothing fails any more, and as long as kicks come,   *)
(* the node gets to have exactly the pindexes and the feeds of its plan.   *)
JanitorHeals == <>[]Realised
=============================================================================
