----------------------------- MODULE MCPlanner -----------------------------
(* TLC instance of Planner. *)
EXTENDS Planner

CONSTANTS n1, n2, n3, i1

(* Two planners, whose definitions and wanted nodes change. *)
Changing == [nodes |-> {n1, n2, n3}, leavers |-> {n3}, splitCanFail |-> FALSE,
             ops |-> {"create", "freeze", "delete", "leave"}, maxChanges |-> 3,
             maxUUID |-> 3]

(* They crash, are upgraded and raise the version. *)
Versions == [nodes |-> {n1, n2}, leavers |-> {}, splitCanFail |-> FALSE,
             ops |-> {"create", "crash", "upgrade"}, maxChanges |-> 5,
             maxUUID |-> 2]

(* The data source may fail to list its partitions. *)
Splitting == [nodes |-> {n1, n2}, leavers |-> {n2}, splitCanFail |-> TRUE,
              ops |-> {"create", "leave"}, maxChanges |-> 2,
              maxUUID |-> 2]

MCScenarios == {Changing, Versions, Splitting}
=============================================================================
