--------------------------- MODULE MCCfgBackends ---------------------------
(***************************************************************************)
(* Small instances of the Cfgs that outlive a process: in a behaviour one  *)
(* of CfgSimple, CfgMetaKv and CfgCB is in use and the other two rest.     *)
(***************************************************************************)
EXTENDS CfgSimple, CfgMetaKv, CfgCB, TLC

CONSTANTS p1, p2, c1, c2, c3, k1

VARIABLE backend

MCCbProcOf == c1 :> p1 @@ c2 :> p2
MCCbWatched == p1 :> {} @@ p2 :> {k1}

Do(p, kind) == [proc |-> p, kind |-> kind, of |-> p2, force |-> FALSE]
Jobs(a, b, c) == c1 :> a @@ c2 :> b @@ c3 :> c
None == Do(p2, "none")

(* Nobody does anything. *)
Quiet == [level |-> 2, upto |-> 2, children |-> {p1, p2}, fails |-> 0, retries |-> 1, blink |-> FALSE,
          ages |-> FALSE, refresh |-> FALSE, jobs |-> Jobs(None, None, None)]

(* Two nodes register; one is removed meanwhile; by force, and all of them. *)
Joining == [Quiet EXCEPT !.children = {}, !.fails = 1,
                         !.jobs = Jobs(Do(p1, "register"), Do(p2, "register"), None)]
Leaving == [Joining EXCEPT !.level = 1, !.children = {p2},
                           !.jobs[c2] = Do(p1, "unregister"), !.jobs[c3] = Do(p2, "register")]
Forcing == [Joining EXCEPT !.children = {p2}, !.jobs[c3] = Do(p2, "delnodes"),
                           !.jobs[c2] = [Do(p2, "unregister") EXCEPT !.force = TRUE]]

(* Index definitions, through two processes and through one. *)
Editing == [Quiet EXCEPT !.fails = 1,
                         !.jobs = Jobs(Do(p1, "index"), Do(p2, "index"), Do(p2, "index"))]
Deleting == [Quiet EXCEPT !.jobs = Jobs(Do(p1, "index"), Do(p1, "delindex"), Do(p1, "index"))]

(* Plans: all nodes lean, some not, while that changes, and with the rest. *)
Planning == [Quiet EXCEPT !.ages = TRUE, !.fails = 1,
                          !.jobs = Jobs(Do(p1, "plan"), Do(p2, "plan"), None)]
Busy == [Planning EXCEPT !.fails = 0, !.jobs[c3] = Do(p2, "plan")]
Dropping == [Quiet EXCEPT !.level = 1, !.upto = 1, !.fails = 1,
                          !.jobs = Jobs(Do(p1, "plan"), Do(p2, "delplan"), None)]
Shared == [Planning EXCEPT !.level = 0, !.upto = 0, !.jobs[c3] = Do(p2, "delplan")]
Upgrading == [Shared EXCEPT !.upto = 1, !.fails = 0, !.ages = FALSE, !.jobs[c3] = None]
Beside == [Quiet EXCEPT !.level = 1, !.refresh = TRUE,
                        !.jobs = Jobs(Do(p1, "plan"), Do(p1, "register"), Do(p1, "index"))]
Doubting == [Planning EXCEPT !.blink = TRUE, !.ages = FALSE]

MCKvScenarios == {Quiet, Joining, Leaving, Forcing, Editing, Deleting, Planning, Busy, Dropping, Shared,
                  Upgrading, Beside, Doubting}

simpleAll == <<vars, simpleVars>>

BackendsInit ==
    /\ SimpleInit /\ KvInit /\ CbInit
    /\ backend \in {"simple", "metakv", "cb"}
    /\ backend # "metakv" => kvLimits = Quiet

BackendsNext ==
    /\ \/ backend = "simple" /\ SimpleNext /\ UNCHANGED <<kvVars, cbVars>>
       \/ backend = "metakv" /\ KvNext /\ UNCHANGED <<simpleAll, cbVars>>
       \/ backend = "cb" /\ CbNext /\ UNCHANGED <<simpleAll, kvVars>>
    /\ UNCHANGED backend

BackendsSpec == BackendsInit /\ [][BackendsNext]_<<simpleAll, kvVars, cbVars, backend>>
=============================================================================
