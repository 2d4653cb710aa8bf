------------------------------- MODULE CfgMem -------------------------------
(***************************************************************************)
(* CfgMem (cfg_mem.go) as a state machine: the store, its subscriptions,   *)
(* the event goroutines that fireEvent starts, and the clients that keep   *)
(* what they read and later write with its CAS.  Every method holds the    *)
(* mutex from start to end, so each is one action; the goroutines send     *)
(* outside the mutex, so events of one key arrive in any order.            *)
(***************************************************************************)
EXTENDS CfgOps

CONSTANTS Clients,       \* the callers of Get, Set and Del
          BlindClients,  \* those that use CFG_CAS_FORCE or a zero-cas Del
          Chans,         \* the subscribers' channels
          MaxPending     \* bound: identical events in flight to one channel

ASSUME BlindAssumption == BlindClients \subseteq Clients
ASSUME MaxPendingAssumption == MaxPending \in Nat

VARIABLES store,    \* the CfgMem: CASNext and Entries
          subs,     \* subs[k]: channels subscribed to key k
          pending,  \* pending[e]: event goroutines blocked sending e
          held,     \* held[c][k]: what client c last got or set at k
          unseen    \* history: <<ch, k>> where ch is yet to receive the event
                    \* of the latest change of k after its subscription

vars == <<store, subs, pending, held, unseen>>

Event == [ch : Chans, key : Keys, CAS : 0..MaxCas]

CurCas(s, k) == s.Entries[k].CAS

(* What one client method may pass as its cas argument. *)
CasArgs(c, k) ==
    {0, held[c][k].CAS} \cup (IF c \in BlindClients THEN {CFG_CAS_FORCE} ELSE {})

(* fireEvent: one more goroutine per subscribed channel. *)
fireEvent(k, cas) ==
    pending' = [e \in Event |-> IF e.key = k /\ e.CAS = cas /\ e.ch \in subs[k]
                                THEN pending[e] + 1 ELSE pending[e]]

(* Keeps the number of goroutines of one event within MaxPending. *)
CanFire(k, cas) ==
    \A e \in Event : e.key = k /\ e.CAS = cas => pending[e] < MaxPending

Init ==
    /\ store = NewCfgMem
    /\ subs = [k \in Keys |-> {}]
    /\ pending = [e \in Event |-> 0]
    /\ held = [c \in Clients |-> [k \in Keys |-> NoEntry]]
    /\ unseen = {}

(* A failed Get, Set or Del changes nothing: the store is left alone and   *)
(* the client still has what it had, so the action is not taken.           *)
Get(c, k, cas) ==
    /\ GetErr(store, k, cas) = "nil"
    /\ held' = [held EXCEPT ![c][k] = store.Entries[k]]
    /\ UNCHANGED <<store, subs, pending, unseen>>

(* The store's part of a successful Set: the new entry, and its event. *)
setEntry(k, v, cas) ==
    /\ store.CASNext <= MaxCas
    /\ CanFire(k, store.CASNext)
    /\ SetErr(store, k, cas) = "nil"
    /\ store' = SetStore(store, k, v)
    /\ fireEvent(k, store.CASNext)
    /\ unseen' = unseen \cup (subs[k] \X {k})
    /\ UNCHANGED subs

Set(c, k, v, cas) ==
    /\ setEntry(k, v, cas)
    /\ held' = [held EXCEPT ![c][k] = [CAS |-> store.CASNext, Val |-> v]]

(* Mutant: a deletion fires no event. *)
delEntrySilent(k, cas) ==
    /\ DelErr(store, k, cas) = "nil"
    /\ store' = DelStore(store, k)
    /\ unseen' = unseen \cup (subs[k] \X {k})
    /\ UNCHANGED <<subs, pending>>

(* The store's part of a successful Del: the entry goes, with an event. *)
delEntry(k, cas) ==
    /\ CanFire(k, 0)
    /\ DelErr(store, k, cas) = "nil"
    /\ store' = DelStore(store, k)
    /\ fireEvent(k, 0)
    /\ unseen' = unseen \cup (subs[k] \X {k})
    /\ UNCHANGED subs

(* Only the callers that mean to delete out of the blue pass a zero cas. *)
Del(c, k, cas) ==
    /\ cas = 0 => c \in BlindClients
    /\ delEntry(k, cas)
    /\ held' = [held EXCEPT ![c][k] = NoEntry]

Subscribe(ch, k) ==
    /\ ch \notin subs[k]
    /\ subs' = [subs EXCEPT ![k] = @ \cup {ch}]
    /\ UNCHANGED <<store, pending, held, unseen>>

(* Announces the CAS that store s has for every key with a subscription. *)
fireAll(s) ==
    /\ \A k \in Keys : CanFire(k, CurCas(s, k))
    /\ pending' = [e \in Event |->
                      IF e.ch \in subs[e.key] /\ e.CAS = CurCas(s, e.key)
                      THEN pending[e] + 1 ELSE pending[e]]

Refresh ==
    /\ fireAll(store)
    /\ UNCHANGED <<store, subs, held, unseen>>

(* The CAS values an embedding Cfg passes to the exported FireEvent: 0 for  *)
(* an error (cfg_cb.go) and 1 for a change (cfg_metakv.go).                 *)
FireArgs == {0, 1} \cap (0..MaxCas)

FireEvent(k, cas) ==
    /\ CanFire(k, cas)
    /\ fireEvent(k, cas)
    /\ UNCHANGED <<store, subs, held, unseen>>

(* An event goroutine completes its send: the subscriber has the event. *)
Deliver(e) ==
    /\ pending[e] > 0
    /\ pending' = [pending EXCEPT ![e] = @ - 1]
    /\ unseen' = IF e.CAS = CurCas(store, e.key)
                 THEN unseen \ {<<e.ch, e.key>>} ELSE unseen
    /\ UNCHANGED <<store, subs, held>>

Next ==
    \/ \E c \in Clients, k \in Keys : \E cas \in CasArgs(c, k) :
          \/ Get(c, k, cas)
          \/ \E v \in Vals : Set(c, k, v, cas)
          \/ Del(c, k, cas)
    \/ \E k \in Keys :
          \/ \E ch \in Chans : Subscribe(ch, k)
          \/ \E cas \in FireArgs : FireEvent(k, cas)
    \/ Refresh
    \/ \E e \in Event : Deliver(e)

Spec == Init /\ [][Next]_vars
-----------------------------------------------------------------------------
(* Types of the store and of what surrounds it (cfg_mem.go:23-35). *)
TypeOK ==
    /\ store \in Stores
    /\ subs \in [Keys -> SUBSET Chans]
    /\ pending \in [Event -> Nat]
    /\ held \in [Clients -> [Keys -> Entry \cup {NoEntry}]]
    /\ unseen \subseteq Chans \X Keys

(* Every CAS in circulation, in the store or in a client's hands, has been *)
(* handed out before: CASNext is above all of them.                        *)
CasBelowNext ==
    /\ \A k \in Keys : CurCas(store, k) < store.CASNext
    /\ \A c \in Clients, k \in Keys : held[c][k].CAS < store.CASNext

(* A CAS names one value for ever: whenever the CAS a client still holds   *)
(* is the CAS of the stored entry, the stored value is the one the client  *)
(* read, however many sets and deletions lie between.  This is what makes  *)
(* the test "cas != prevEntry.CAS" of Set (cfg_mem.go:107) enough to       *)
(* exclude a lost update.                                                  *)
CasIdentifiesValue ==
    \A c \in Clients, k \in Keys :
        held[c][k].CAS # 0 /\ held[c][k].CAS = CurCas(store, k)
            => held[c][k].Val = store.Entries[k].Val

(* No change of a key goes unannounced: while a subscriber has not received *)
(* the event of the latest change, that event, with the CAS the key has     *)
(* now, is on its way, whatever other events overtake it (cfg_mem.go:116,   *)
(* 133, 155-163).                                                           *)
ChangeIsAnnounced ==
    \A ch \in Chans, k \in Keys : <<ch, k>> \in unseen =>
        pending[[ch |-> ch, key |-> k, CAS |-> CurCas(store, k)]] > 0

Contract == INSTANCE CfgContract WITH
                entry <- store.Entries,
                used <- 1..(store.CASNext - 1),
                read <- held,
                Ids <- 1..MaxCas,
                Missing <- NoEntry

(* CfgMem implements the contract of the Cfg interface (cfg.go:14-41): each *)
(* write takes a token never used before, and a conditional write replaces  *)
(* exactly the entry its caller last read.                                  *)
ImplementsContract == Contract!Spec
=============================================================================
