---------------------------- MODULE IndexCatalog ----------------------------
(***************************************************************************)
(* What the index API promises: each request takes effect, or is refused,  *)
(* in one step, judged against the catalogue of that very moment.  The     *)
(* requests of concurrent managers are thus linearizable.  A request may   *)
(* also give up with an internal error, and then has no effect.            *)
(***************************************************************************)
EXTENDS IndexOps

CONSTANTS Clients, Requests, NoReq, Nil,
          MgrVersion  \* the software version of each client's manager

VARIABLES catalog,  \* the IndexDefs value, Nil before the first index
          uuids,    \* the UUIDs used so far
          req,      \* req[c]: the request client c has made
          arg,      \* arg[c]: the UUID argument of that request
          out       \* out[c]: its outcome, "open" while it runs

vars == <<catalog, uuids, req, arg, out>>

(* No index was ever created, or one was. *)
Init ==
    /\ \/ catalog = Nil /\ uuids = {}
       \/ catalog \in FirstDefs(Requests) /\ uuids = {1}
    /\ req = [c \in Clients |-> NoReq]
    /\ arg = [c \in Clients |-> NoUUID]
    /\ out = [c \in Clients |-> "open"]

Invoke(c) ==
    /\ req[c] = NoReq
    /\ \E r \in Requests : req' = [req EXCEPT ![c] = r]
    /\ \E u \in 0..(MaxUUID + 1) : arg' = [arg EXCEPT ![c] = u]
    /\ UNCHANGED <<catalog, uuids, out>>

Running(c) == req[c] # NoReq /\ out[c] = "open"

Finish(c, o) == out' = [out EXCEPT ![c] = o] /\ UNCHANGED <<req, arg>>

(* The request takes effect: allowed by the catalogue as it is now, under  *)
(* a UUID never used before.                                               *)
Execute(c) ==
    /\ Running(c)
    /\ \E version \in 1..MaxVersion, u \in (1..MaxUUID) \ uuids :
          LET ids == IF catalog = Nil THEN NewIndexDefs(version) ELSE catalog IN
          /\ catalog = Nil => req[c].op = "create"
          /\ ReqErr(ids, req[c], arg[c], MgrVersion[c]) = "nil"
          /\ catalog' = NewDefs(ids, req[c], u, version)
          /\ uuids' = uuids \cup {u}
    /\ Finish(c, "ok")

(* The request is refused, for a reason that holds now. *)
Refuse(c) ==
    /\ Running(c)
    /\ \E version \in 1..MaxVersion :
          LET ids == IF catalog = Nil THEN NewIndexDefs(version) ELSE catalog
              err == IF catalog = Nil /\ req[c].op # "create"
                     THEN "none" ELSE ReqErr(ids, req[c], arg[c], MgrVersion[c])
          IN err # "nil" /\ Finish(c, err)
    /\ UNCHANGED <<catalog, uuids>>

(* Deleting the indexes of a source that has none succeeds at once. *)
Skip(c) ==
    /\ Running(c)
    /\ req[c].op = "deleteSource"
    /\ catalog # Nil
    /\ FromSource(catalog, req[c].source) = {}
    /\ Finish(c, "ok")
    /\ UNCHANGED <<catalog, uuids>>

GiveUp(c) == Running(c) /\ Finish(c, "internal") /\ UNCHANGED <<catalog, uuids>>

(* A request made with "*" that has to retry is held to the UUID it found *)
(* under the name on its first attempt.                                   *)
Pin(c) ==
    /\ Running(c)
    /\ arg[c] = AnyUUID
    /\ \E u \in uuids : arg' = [arg EXCEPT ![c] = u]
    /\ UNCHANGED <<catalog, uuids, req, out>>

(* DeleteAllIndexFromSource goes on to bump the IndexDefs. *)
Chain(c) ==
    /\ out[c] = "ok"
    /\ req[c].op = "deleteSource"
    /\ req' = [req EXCEPT ![c].op = "bump"]
    /\ arg' = [arg EXCEPT ![c] = NoUUID]
    /\ out' = [out EXCEPT ![c] = "open"]
    /\ UNCHANGED <<catalog, uuids>>

Next == \E c \in Clients : \/ Invoke(c) \/ Execute(c) \/ Refuse(c) \/ Skip(c)
                           \/ GiveUp(c) \/ Pin(c) \/ Chain(c)

Spec == Init /\ [][Next]_vars
=============================================================================
