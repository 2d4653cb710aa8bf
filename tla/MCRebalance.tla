---------------------------- MODULE MCRebalance ----------------------------
(***************************************************************************)
(* Small instances of Rebalance.                                           *)
(***************************************************************************)
EXTENDS Rebalance, TLC

CONSTANTS n1, n2, i1, i2, p1, p2

On(a, b) == n1 :> a @@ n2 :> b

(* Both pindexes swap to the other node, and nothing goes wrong. *)
Swap == [index |-> p1 :> i1 @@ p2 :> i1,
         beg |-> p1 :> On("primary", "none") @@ p2 :> On("primary", "none"),
         end |-> p1 :> On("none", "primary") @@ p2 :> On("none", "primary"),
         failover |-> {}, assignAll |-> TRUE, nodesToAdd |-> {n2}, nodesToRemove |-> {n1},
         numReplicas |-> i1 :> 0 @@ i2 :> 0,
         timeouts |-> FALSE, blind |-> FALSE, stops |-> FALSE,
         writes |-> 0, changes |-> 0, plans |-> 0, bad |-> 0]

(* One pindex moves, the other is not planned. *)
Move == [Swap EXCEPT !.beg[p2] = On("none", "none"), !.end[p2] = On("none", "none")]
Writing == [Move EXCEPT !.writes = 1, !.stops = TRUE]
Deleted == [Move EXCEPT !.changes = 1, !.plans = 1]
Created == [Move EXCEPT !.changes = 2, !.plans = 1]
Planners == [Move EXCEPT !.plans = 2, !.beg[p1] = On("primary", "replica"),
                         !.end[p1] = On("replica", "primary")]
Failing == [Move EXCEPT !.bad = 2]
Late == [Move EXCEPT !.timeouts = TRUE, !.writes = 1]
Blind == [Move EXCEPT !.blind = TRUE]
(* A pindex of each of two indexes. *)
Two == [Swap EXCEPT !.index[p2] = i2, !.stops = TRUE]
New == [Swap EXCEPT !.beg[p1] = On("none", "none"), !.end[p1] = On("primary", "replica"),
                    !.nodesToAdd = {}, !.nodesToRemove = {}, !.numReplicas[i1] = 1,
                    !.end[p2] = On("primary", "replica")]

(* A node with a primary that has a replica, and another that has none, fails and is back. *)
Recovery == [Swap EXCEPT !.failover = {n1}, !.nodesToAdd = {n1}, !.nodesToRemove = {},
                         !.beg[p1] = On("primary", "replica"), !.end[p1] = On("primary", "none")]
Unassigned == [Recovery EXCEPT !.assignAll = FALSE]

(* All is there but a replica that there is no node for. *)
Complete == [Swap EXCEPT !.nodesToAdd = {}, !.nodesToRemove = {}, !.numReplicas[i1] = 3,
                         !.bad = 1]

MCScenarios == {Complete, Recovery, Unassigned,
                Swap, Writing, Deleted, Created, Planners, Failing, Late, Blind, Two, New}
=============================================================================
