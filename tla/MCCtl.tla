------------------------------- MODULE MCCtl -------------------------------
(* TLC instances of CtlMgr. *)
EXTENDS CtlMgr

CONSTANTS n1, n2, w1

Quiet == [wanted |-> {n1, n2}, initDefs |-> 1, watchers |-> {}, kinds |-> {"rebalance"},
          keeps |-> {{n1, n2}}, ops |-> 2, defs |-> 1, joins |-> 0, reports |-> 0,
          prepares |-> 2, troubles |-> 0]

(* What goes wrong, reports, and both kinds of operations. *)
Mixed == [Quiet EXCEPT !.kinds = {"rebalance", "pause"}, !.prepares = 1,
                         !.troubles = 1]
Reporting == [Quiet EXCEPT !.reports = 1, !.troubles = 1]
(* Definitions change while rebalances run. *)
Defs == [Quiet EXCEPT !.defs = 2]
(* Nodes are added, removed and failed over. *)
Removal == [Quiet EXCEPT !.keeps = {{n1}}, !.kinds = {"rebalance", "failover"},
                           !.watchers = {w1}]
Added == [Quiet EXCEPT !.wanted = {n2}, !.joins = 1, !.initDefs = 0,
                         !.prepares = 1, !.watchers = {w1}, !.ops = 1]

(* A hibernation changes them. *)
Asleep == [Quiet EXCEPT !.kinds = {"resume"}, !.defs = 2, !.ops = 1,
                          !.prepares = 1, !.reports = 1]

MCScenarios == {Asleep, Mixed, Reporting, Defs, Removal, Added}
=============================================================================
