------------------------------ MODULE CfgSimple ------------------------------
(***************************************************************************)
(* CfgSimple (cfg_simple.go): a CfgMem whose whole content is written to   *)
(* one file after every Set and Del, and read back by Load and Refresh.    *)
(* The file is overwritten in place, so a crash or a failed write can      *)
(* leave it unreadable; a failed write leaves memory ahead of the file.    *)
(***************************************************************************)
EXTENDS CfgMem

CONSTANTS SaveCanFail,   \* whether unlockedSave may return an error
          MaxCrashes,    \* bound: crashes of the process
          NoFile, Torn   \* the file is absent; its JSON does not parse

ASSUME SaveAssumption == SaveCanFail \in BOOLEAN /\ MaxCrashes \in Nat
ASSUME FileAssumption == NoFile \notin Stores /\ Torn \notin Stores /\ NoFile # Torn

VARIABLES file,     \* what a read of the file gives
          up,       \* the process runs and its CfgSimple is usable
          crashes,  \* crashes so far
          allowed   \* history: the entries key k may have, given which
                    \* operations on k were acknowledged and which failed

simpleVars == <<file, up, crashes, allowed>>

Files == Stores \cup {NoFile, Torn}

SimpleInit ==
    /\ Init
    /\ file = NoFile /\ up = TRUE /\ crashes = 0
    /\ allowed = [k \in Keys |-> {NoEntry}]

(* unlockedSave after an operation that gave k the entry e: on success the *)
(* caller gets what the operation returned, on failure only the error.     *)
unlockedSave(c, k, e) ==
    \/ /\ file' = store'
       /\ held' = [held EXCEPT ![c][k] = e]
       /\ allowed' = [allowed EXCEPT ![k] = {e}]
    \/ /\ SaveCanFail
       /\ file' \in {file, Torn}
       /\ UNCHANGED held
       /\ allowed' = [allowed EXCEPT ![k] = @ \cup {e}]

SimpleGet(c, k, cas) ==
    /\ up
    /\ Get(c, k, cas)
    /\ UNCHANGED simpleVars

SimpleSet(c, k, v, cas) ==
    /\ up
    /\ setEntry(k, v, cas)
    /\ unlockedSave(c, k, [CAS |-> store.CASNext, Val |-> v])
    /\ UNCHANGED <<up, crashes>>

(* Mutant: a deletion is not saved. *)
SimpleDelUnsaved(c, k, cas) ==
    /\ up
    /\ cas = 0 => c \in BlindClients
    /\ delEntry(k, cas)
    /\ held' = [held EXCEPT ![c][k] = NoEntry]
    /\ allowed' = [allowed EXCEPT ![k] = {NoEntry}]
    /\ UNCHANGED <<file, up, crashes>>

SimpleDel(c, k, cas) ==
    /\ up
    /\ cas = 0 => c \in BlindClients
    /\ delEntry(k, cas)
    /\ unlockedSave(c, k, NoEntry)
    /\ UNCHANGED <<up, crashes>>

SimpleSubscribe(ch, k) ==
    /\ up
    /\ Subscribe(ch, k)
    /\ UNCHANGED simpleVars

(* Reloads CASNext and Entries from the file, keeps the subscriptions. An  *)
(* unreadable file makes it an error that changes nothing.                 *)
SimpleRefresh ==
    /\ up
    /\ file \in Stores
    /\ store' = file
    /\ fireAll(file)
    /\ unseen' = unseen \cup
          UNION {subs[k] \X {k} : k \in {j \in Keys : file.Entries[j] # store.Entries[j]}}
    /\ UNCHANGED <<subs, held>>
    /\ UNCHANGED simpleVars

SimpleDeliver(e) ==
    /\ up
    /\ Deliver(e)
    /\ UNCHANGED simpleVars

(* The process dies: between operations, or while WriteFile has truncated  *)
(* or completely written the file of an operation nobody was told about.   *)
Crash ==
    /\ up
    /\ crashes < MaxCrashes
    /\ \/ UNCHANGED <<file, allowed>>
       \/ \E k \in Keys, v \in Vals :
             /\ store.CASNext <= MaxCas
             /\ file' \in {Torn, SetStore(store, k, v)}
             /\ allowed' = [allowed EXCEPT
                    ![k] = @ \cup {[CAS |-> store.CASNext, Val |-> v]}]
       \/ \E k \in Keys :
             /\ file' \in {Torn, DelStore(store, k)}
             /\ allowed' = [allowed EXCEPT ![k] = @ \cup {NoEntry}]
    /\ up' = FALSE
    /\ crashes' = crashes + 1
    /\ store' = NewCfgMem
    /\ subs' = [k \in Keys |-> {}]
    /\ pending' = [e \in Event |-> 0]
    /\ held' = [c \in Clients |-> [k \in Keys |-> NoEntry]]
    /\ unseen' = {}

(* MainCfgSimple: load the file if there is one; if Load fails the process *)
(* does not come up.                                                       *)
Start ==
    /\ ~up
    /\ file # Torn
    /\ store' = IF file = NoFile THEN NewCfgMem ELSE file
    /\ up' = TRUE
    /\ UNCHANGED <<subs, pending, held, unseen, file, crashes, allowed>>

SimpleNext ==
    \/ \E c \in Clients, k \in Keys : \E cas \in CasArgs(c, k) :
          \/ SimpleGet(c, k, cas)
          \/ \E v \in Vals : SimpleSet(c, k, v, cas)
          \/ SimpleDel(c, k, cas)
    \/ \E ch \in Chans, k \in Keys : SimpleSubscribe(ch, k)
    \/ SimpleRefresh
    \/ \E e \in Event : SimpleDeliver(e)
    \/ Crash
    \/ Start

SimpleSpec == SimpleInit /\ [][SimpleNext]_<<vars, simpleVars>>
-----------------------------------------------------------------------------
(* Types of CfgSimple's memory and file (cfg_simple.go:18-22). *)
SimpleTypeOK ==
    /\ TypeOK
    /\ file \in Files
    /\ up \in BOOLEAN
    /\ crashes \in 0..MaxCrashes
    /\ allowed \in [Keys -> SUBSET (Entry \cup {NoEntry})]

(* An operation that returned without error is durable, one that failed    *)
(* may or may not have happened, and nothing else is ever served: in       *)
(* memory and in every readable file, across crashes, restarts, failed     *)
(* saves and Refresh, each key has an entry left by its last acknowledged  *)
(* operation or by one after it that was not acknowledged                  *)
(* (cfg_simple.go:42-68, 77-99, 108-122).                                  *)
AcknowledgedIsDurable ==
    \A k \in Keys :
        /\ up => store.Entries[k] \in allowed[k]
        /\ file \in Stores => file.Entries[k] \in allowed[k]
        /\ file = NoFile => NoEntry \in allowed[k]
=============================================================================
