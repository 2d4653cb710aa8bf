---------------------------- MODULE MCHibernate ----------------------------
(***************************************************************************)
(* Small instances of Hibernate.                                           *)
(***************************************************************************)
EXTENDS Hibernate, TLC

CONSTANTS n1, n2, i1, i2, x

(* Two indexes of the bucket, active on one node each; another of another. *)
Pause == [op |-> "pause", dryRun |-> FALSE, mine |-> {i1, i2}, others |-> {x},
          active |-> i1 :> n1 @@ i2 :> n2, replicas |-> i1 :> {n2} @@ i2 :> {},
          planned |-> TRUE, cfgDown |-> FALSE, stops |-> FALSE,
          clients |-> {}, edits |-> 0, faults |-> 0, verdicts |-> {1},
          bad |-> {"error", "empty", "garbage"}]
One == [Pause EXCEPT !.mine = {i1}]
Contended == [One EXCEPT !.clients = {"edit"}, !.edits = 2, !.stops = TRUE]
Deleting == [One EXCEPT !.clients = {"delete"}, !.edits = 1, !.stops = TRUE]
Refused == [One EXCEPT !.verdicts = {-1, 0}, !.stops = TRUE]
Faulty == [One EXCEPT !.faults = 1, !.stops = TRUE]
Silent == [One EXCEPT !.faults = 3, !.bad = {"empty"}, !.verdicts = {}]
Outage == [One EXCEPT !.faults = 1, !.cfgDown = TRUE, !.bad = {}, !.stops = TRUE]
Unplanned == [One EXCEPT !.planned = FALSE, !.verdicts = {2}]
NoIndex == [One EXCEPT !.mine = {}, !.others = {}]

Resume == [One EXCEPT !.op = "resume", !.replicas = i1 :> {} @@ i2 :> {}]
ResumeBoth == [Resume EXCEPT !.mine = {i1, i2}, !.others = {}]
ResumeContended == [Resume EXCEPT !.clients = {"edit", "create"}, !.edits = 2, !.stops = TRUE]
ResumeRefused == [Resume EXCEPT !.verdicts = {-1}, !.stops = TRUE, !.clients = {"create"}, !.edits = 1]
ResumeFaulty == [Resume EXCEPT !.faults = 1, !.stops = TRUE]
DryRun == [Resume EXCEPT !.dryRun = TRUE, !.faults = 1]
Nothing == [Resume EXCEPT !.mine = {}]

MCScenarios == {Pause, One, Contended, Deleting, Refused, Faulty, Silent, Outage, Unplanned, NoIndex,
                Resume, ResumeBoth, ResumeContended, ResumeRefused, ResumeFaulty, DryRun, Nothing}
=============================================================================
