------------------------------- MODULE CfgOps -------------------------------
(***************************************************************************)
(* The in-memory CAS store of cfg_mem.go as pure operators.  A store is    *)
(* the record of the two exported fields of CfgMem, CASNext and Entries;   *)
(* the state machines that own a store (CfgMem, CfgSimple, IndexDefs, ...) *)
(* apply these operators to it under the store's mutex, so each of them    *)
(* is one atomic step.                                                     *)
(***************************************************************************)
EXTENDS Naturals

CONSTANTS Keys,     \* the keys in use
          Vals,     \* the values a caller may store
          Nil,      \* Go's nil []byte, what Get returns for a missing key
          MaxCas    \* bound: the largest CAS a store hands out

ASSUME NilAssumption == Nil \notin Vals
ASSUME MaxCasAssumption == MaxCas \in Nat

(* math.MaxUint64 in the code: a number CASNext does not reach. *)
CFG_CAS_FORCE == MaxCas + 1

Entry == [CAS : 1..MaxCas, Val : Vals]

(* A key that is not in the Entries map: Get answers (nil, 0, nil). *)
NoEntry == [CAS |-> 0, Val |-> Nil]

Stores == [CASNext : 1..(MaxCas + 1), Entries : [Keys -> Entry \cup {NoEntry}]]

NewCfgMem == [CASNext |-> 1, Entries |-> [k \in Keys |-> NoEntry]]

Exists(s, k) == s.Entries[k] # NoEntry

(* Get fails only when it asks for a CAS the present entry does not have. *)
GetErr(s, k, cas) ==
    IF Exists(s, k) /\ cas # 0 /\ cas # s.Entries[k].CAS
    THEN "CfgCASError" ELSE "nil"

(* Mutant: the CAS is not compared. *)
SetErrBlind(s, k, cas) == IF cas = 0 /\ Exists(s, k) THEN "exists" ELSE "nil"

(* A zero cas creates: its failure is a plain error, not a CfgCASError. *)
SetErr(s, k, cas) ==
    CASE cas = 0 -> IF Exists(s, k) THEN "exists" ELSE "nil"
      [] cas = CFG_CAS_FORCE -> "nil"
      [] OTHER -> IF Exists(s, k) /\ cas = s.Entries[k].CAS
                  THEN "nil" ELSE "CfgCASError"

(* Mutant: a counter per entry, which a deletion starts again. *)
SetStorePerEntry(s, k, v) ==
    [CASNext |-> s.CASNext + 1,
     Entries |-> [s.Entries EXCEPT ![k] = [CAS |-> @.CAS + 1, Val |-> v]]]

SetStore(s, k, v) ==
    [CASNext |-> s.CASNext + 1,
     Entries |-> [s.Entries EXCEPT ![k] = [CAS |-> s.CASNext, Val |-> v]]]

(* A zero cas deletes whatever is there. *)
DelErr(s, k, cas) ==
    IF cas # 0 /\ (~Exists(s, k) \/ cas # s.Entries[k].CAS)
    THEN "CfgCASError" ELSE "nil"

DelStore(s, k) ==
    [CASNext |-> s.CASNext, Entries |-> [s.Entries EXCEPT ![k] = NoEntry]]
=============================================================================
