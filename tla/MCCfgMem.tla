------------------------------ MODULE MCCfgMem ------------------------------
(***************************************************************************)
(* A small instance of CfgMem; or, in other behaviours, of the copies that *)
(* a manager keeps of what is in a Cfg.                                    *)
(***************************************************************************)
EXTENDS CfgMem, ManagerCaches, TLC

CONSTANTS p1, p2

VARIABLE part

(* The pindex on this node, on another, on both. *)
MCMcPlans == {p1 :> 0 @@ p2 :> 9, p1 :> 9 @@ p2 :> 0, p1 :> 0 @@ p2 :> 1, p1 :> 0 @@ p2 :> 0}

McBudget == [b \in McKinds \cup {"force", "fails", "pindex", "query", "options", "crash"} |-> 0]

(* Queries while the inputs change; forced and failed reads; options;      *)
(* stable plans through a crash.                                           *)
Querying == [McBudget EXCEPT !["query"] = 2, !["plan"] = 1, !["pindex"] = 1]
Choosing == [McBudget EXCEPT !["query"] = 1, !["nodes"] = 1, !["pindex"] = 1]
Forced == [McBudget EXCEPT !["force"] = 2, !["defs"] = 2, !["fails"] = 1]
Opting == [McBudget EXCEPT !["options"] = 3, !["fails"] = 1, !["defs"] = 1, !["crash"] = 1]
Storing == [McBudget EXCEPT !["plan"] = 2, !["fails"] = 1]
Crashing == [McBudget EXCEPT !["plan"] = 1, !["force"] = 1, !["fails"] = 1, !["crash"] = 1]

MCMcScenarios == {Querying, Choosing, Forced, Opting, Storing, Crashing}

MemInit ==
    /\ Init /\ McInit
    /\ part \in {"cfg", "manager"}
    /\ part = "cfg" => mcLeft = Opting
    /\ mcLeft \in {Querying, Forced, Opting} => mcCfg["plan"].val[p2] = 1

(* Nobody is in the middle of anything. *)
AtRest == mcLock = Nobody /\ \A p \in McProcs : mcOp[p] = McIdle

MemNext ==
    /\ \/ part = "cfg" /\ Next /\ UNCHANGED mcVars
       \/ part = "manager" /\ McNext /\ UNCHANGED vars
       \/ part = "manager" /\ AtRest /\ UNCHANGED <<vars, mcVars>>
    /\ UNCHANGED part

MemSpec == MemInit /\ [][MemNext]_<<vars, mcVars, part>>
=============================================================================
