----------------------------- MODULE MCIndexDefs -----------------------------
(* TLC instances of IndexDefs, two managers of which one is old. *)
EXTENDS IndexDefs

CONSTANTS i1, i2, s1, p1, p2, c1, c2

Request(op, name, part, write, freeze) ==
    [op |-> op, name |-> name, partitioning |-> part, source |-> s1,
     write |-> write, freeze |-> freeze]

(* Requests that collide: on an index, on its source, on the definitions. *)
CollidingRequests ==
    {Request("create", i1, p1, "", "freeze"), Request("create", i1, p2, "", ""),
     Request("create", i2, p1, "", ""), Request("delete", i1, p1, "", ""),
     Request("deleteSource", i1, p1, "", ""),
     Request("control", i1, p1, "disallow", "freeze"),
     Request("control", i1, p1, "allow", "unfreeze"),
     Request("bump", i1, p1, "", "")}

(* c1 runs software that is one version behind. *)
OneOldManager == [c \in Clients |-> IF c = c1 THEN 1 ELSE MaxVersion]
=============================================================================
