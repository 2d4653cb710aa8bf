----------------------------- MODULE CfgContract -----------------------------
(***************************************************************************)
(* What the Cfg interface (cfg.go) promises its clients, with no mention   *)
(* of how CAS values are made: every successful write gives an entry a     *)
(* token nobody has seen before, and a client that writes or deletes       *)
(* conditionally replaces exactly the entry, value and token, that it last *)
(* read.  Only the callers that ask for it (CFG_CAS_FORCE, or a Del with a *)
(* zero cas) may overwrite an entry they have not read.                    *)
(***************************************************************************)
CONSTANTS Keys, Vals, Clients,
          Ids,           \* the tokens an implementation can draw from
          BlindClients,  \* the clients that may write without having read
          Missing        \* the entry of a key that is not stored

VARIABLES entry,   \* entry[k]: the value stored under k and its token
          used,    \* the tokens given out so far
          read     \* read[c][k]: the entry client c last read or wrote at k

vars == <<entry, used, read>>

Init ==
    /\ entry = [k \in Keys |-> Missing]
    /\ used = {}
    /\ read = [c \in Clients |-> [k \in Keys |-> Missing]]

Read(c, k) ==
    /\ read' = [read EXCEPT ![c][k] = entry[k]]
    /\ UNCHANGED <<entry, used>>

(* The write is a creation, or it replaces exactly what c last read. *)
MayReplace(c, k) ==
    \/ entry[k] \in {Missing, read[c][k]}
    \/ c \in BlindClients

Write(c, k, v) ==
    /\ MayReplace(c, k)
    /\ \E id \in Ids \ used :
          /\ entry' = [entry EXCEPT ![k] = [CAS |-> id, Val |-> v]]
          /\ read' = [read EXCEPT ![c][k] = [CAS |-> id, Val |-> v]]
          /\ used' = used \cup {id}

Delete(c, k) ==
    /\ MayReplace(c, k)
    /\ entry' = [entry EXCEPT ![k] = Missing]
    /\ read' = [read EXCEPT ![c][k] = Missing]
    /\ UNCHANGED used

Next == \E c \in Clients, k \in Keys :
            Read(c, k) \/ Delete(c, k) \/ \E v \in Vals : Write(c, k, v)

Spec == Init /\ [][Next]_vars
=============================================================================
