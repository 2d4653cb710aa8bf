------------------------------ MODULE CfgProofs ------------------------------
(***************************************************************************)
(* Proofs about three backends of the Cfg, for every set of keys, values,  *)
(* clients, processes and channels and every bound.  CfgMem: its           *)
(* invariants, and that it implements CfgContract.  CfgSimple: it loses    *)
(* nothing that it acknowledged.  CfgCB: the document that all keys share  *)
(* loses no write, and no subscriber misses a change.                      *)
(***************************************************************************)
EXTENDS CfgSimple, CfgCB, TLAPS

(***************************************************************************)
(* CfgMem                                                                  *)
(***************************************************************************)

(* Only a subscribed channel can be waiting for a key's event. *)
UnseenSubscribed ==
    \A ch \in Chans, k \in Keys : <<ch, k>> \in unseen => ch \in subs[k]

(* The inductive invariant of CfgMem. *)
IInv ==
    /\ TypeOK
    /\ CasBelowNext
    /\ CasIdentifiesValue
    /\ UnseenSubscribed
    /\ ChangeIsAnnounced

(* The CAS of an entry, present or not, is a number up to MaxCas. *)
LEMMA EntryTypes ==
    ASSUME NEW e \in Entry \cup {NoEntry}
    PROVE  /\ e.CAS \in 0..MaxCas
           /\ e.CAS \in Nat
           /\ e.CAS = 0 <=> e = NoEntry
BY MaxCasAssumption DEF Entry, NoEntry

(* What a successful Set stores is a store again, with the new entry. *)
LEMMA SetStoreType ==
    ASSUME NEW s \in Stores, NEW k \in Keys, NEW v \in Vals,
           s.CASNext <= MaxCas
    PROVE  /\ SetStore(s, k, v) \in Stores
           /\ [CAS |-> s.CASNext, Val |-> v] \in Entry
           /\ SetStore(s, k, v).CASNext = s.CASNext + 1
           /\ SetStore(s, k, v).Entries[k] = [CAS |-> s.CASNext, Val |-> v]
           /\ \A j \in Keys \ {k} :
                 SetStore(s, k, v).Entries[j] = s.Entries[j]
BY MaxCasAssumption DEF SetStore, Stores, Entry

(* Deleting leaves every other key and CASNext alone. *)
LEMMA DelStoreType ==
    ASSUME NEW s \in Stores, NEW k \in Keys
    PROVE  /\ DelStore(s, k) \in Stores
           /\ DelStore(s, k).CASNext = s.CASNext
           /\ DelStore(s, k).Entries = [s.Entries EXCEPT ![k] = NoEntry]
BY Zenon DEF DelStore, Stores

-----------------------------------------------------------------------------
(* The facts of IInv that the actions use, one conjunct at a time. *)
LEMMA StateTypes ==
    ASSUME TypeOK
    PROVE  /\ store \in Stores
           /\ \A k \in Keys : store.Entries[k] \in Entry \cup {NoEntry}
           /\ \A c \in Clients, k \in Keys : held[c][k] \in Entry \cup {NoEntry}
           /\ \A k \in Keys : CurCas(store, k) \in 0..MaxCas
           /\ \A c \in Clients, k \in Keys : held[c][k].CAS \in 0..MaxCas
           /\ store.CASNext \in 1..(MaxCas + 1)
BY Zenon, EntryTypes DEF TypeOK, Stores, CurCas

(* Every initial state satisfies the inductive invariant. *)
LEMMA InitIInv == Init => IInv
<1> SUFFICES ASSUME Init PROVE IInv
    BY Zenon
<1>1. TypeOK
    BY MaxCasAssumption DEF Init, TypeOK, NewCfgMem, Stores
<1>2. CasBelowNext /\ CasIdentifiesValue
    BY DEF Init, NewCfgMem, NoEntry, CasBelowNext, CasIdentifiesValue, CurCas
<1>3. UnseenSubscribed /\ ChangeIsAnnounced
    BY Zenon DEF Init, UnseenSubscribed, ChangeIsAnnounced
<1> QED
    BY Zenon, <1>1, <1>2, <1>3 DEF IInv

(* A Get copies the stored entry: the invariant speaks of that very entry. *)
LEMMA GetIInv ==
    ASSUME IInv, NEW c \in Clients, NEW k \in Keys, NEW cas, Get(c, k, cas)
    PROVE  IInv'
<1> USE StateTypes DEF IInv
<1>1. TypeOK'
    BY Zenon DEF Get, TypeOK
<1>2. \A d \in Clients, j \in Keys :
         held'[d][j] = IF d = c /\ j = k THEN store.Entries[k] ELSE held[d][j]
    BY Zenon DEF Get, TypeOK
<1>3. CasBelowNext' /\ CasIdentifiesValue'
    BY <1>2 DEF Get, CasBelowNext, CasIdentifiesValue, CurCas
<1>4. UnseenSubscribed' /\ ChangeIsAnnounced'
    BY Zenon DEF Get, UnseenSubscribed, ChangeIsAnnounced, CurCas
<1> QED
    BY Zenon, <1>1, <1>3, <1>4

(* Firing adds goroutines and takes none away; every subscribed channel of *)
(* the key has one for the event fired.                                    *)
LEMMA FireEventFacts ==
    ASSUME TypeOK, NEW k \in Keys, NEW cas \in 0..MaxCas, fireEvent(k, cas)
    PROVE  /\ pending' \in [Event -> Nat]
           /\ \A e \in Event : pending'[e] >= pending[e]
           /\ \A ch \in subs[k] :
                 pending'[[ch |-> ch, key |-> k, CAS |-> cas]] > 0
<1>1. \A e \in Event : pending[e] \in Nat
    BY Zenon DEF TypeOK
<1>2. \A ch \in subs[k] : [ch |-> ch, key |-> k, CAS |-> cas] \in Event
    BY Zenon DEF TypeOK, Event
<1> QED
    BY <1>1, <1>2 DEF fireEvent

(* The announcement part of Set and Del, which change only the entry of k: *)
(* the events of other keys stay pending, those of k have just been fired. *)
LEMMA AnnounceStep ==
    ASSUME IInv, NEW k \in Keys, fireEvent(k, CurCas(store, k)'),
           CurCas(store, k)' \in 0..MaxCas,
           \A j \in Keys \ {k} : CurCas(store, j)' = CurCas(store, j),
           unseen' = unseen \cup (subs[k] \X {k}), subs' = subs
    PROVE  UnseenSubscribed' /\ ChangeIsAnnounced'
<1> DEFINE Announce(ch, j) == [ch |-> ch, key |-> j, CAS |-> CurCas(store, j)']
<1>1. UnseenSubscribed'
    BY Zenon DEF IInv, UnseenSubscribed
<1>2. ASSUME NEW ch \in Chans, <<ch, k>> \in unseen'
      PROVE  pending'[Announce(ch, k)] > 0
    BY Zenon, <1>1, <1>2, FireEventFacts DEF IInv, UnseenSubscribed
<1>3. ASSUME NEW ch \in Chans, NEW j \in Keys \ {k}, <<ch, j>> \in unseen'
      PROVE  pending'[Announce(ch, j)] > 0
  <2>1. <<ch, j>> \in unseen
      BY Zenon, <1>3
  <2>2. pending[Announce(ch, j)] > 0
      BY Zenon, <2>1 DEF IInv, ChangeIsAnnounced
  <2>3. Announce(ch, j) \in Event
      BY Zenon, StateTypes DEF IInv, Event
  <2> QED
      BY <2>2, <2>3, FireEventFacts DEF IInv, TypeOK
<1>4. ChangeIsAnnounced'
    BY Zenon, <1>2, <1>3 DEF ChangeIsAnnounced, CurCas
<1> QED
    BY Zenon, <1>1, <1>4

(* A successful Set takes CASNext, which is above every CAS a client holds: *)
(* no held CAS can name the new entry by accident.                          *)
LEMMA SetIInv ==
    ASSUME IInv, NEW c \in Clients, NEW k \in Keys, NEW v \in Vals, NEW cas,
           Set(c, k, v, cas)
    PROVE  IInv'
<1> DEFINE new == [CAS |-> store.CASNext, Val |-> v]
<1>0. /\ TypeOK /\ store \in Stores
      /\ store.CASNext \in 1..MaxCas
    BY StateTypes, MaxCasAssumption DEF IInv, Set, setEntry
<1>1. /\ store' \in Stores
      /\ new \in Entry
      /\ store'.CASNext = store.CASNext + 1
      /\ store'.Entries[k] = new
      /\ \A j \in Keys \ {k} : store'.Entries[j] = store.Entries[j]
    BY <1>0, SetStoreType DEF Set, setEntry
<1>2. /\ held' \in [Clients -> [Keys -> Entry \cup {NoEntry}]]
      /\ \A d \in Clients, j \in Keys :
            held'[d][j] = IF d = c /\ j = k THEN new ELSE held[d][j]
    BY Zenon, <1>0, <1>1 DEF Set, setEntry, TypeOK
<1>3. fireEvent(k, store.CASNext) /\ subs' = subs
    BY Zenon DEF Set, setEntry
<1>4. TypeOK'
    BY <1>0, <1>1, <1>2, <1>3, FireEventFacts DEF TypeOK, Set, setEntry
<1>5. CasBelowNext'
    BY <1>0, <1>1, <1>2, StateTypes DEF IInv, CasBelowNext, CurCas
<1>6. CasIdentifiesValue'
  <2> SUFFICES ASSUME NEW d \in Clients, NEW j \in Keys,
                      held'[d][j].CAS # 0,
                      held'[d][j].CAS = store'.Entries[j].CAS
               PROVE  held'[d][j].Val = store'.Entries[j].Val
      BY Zenon DEF CasIdentifiesValue, CurCas
  <2>1. CASE j # k
      BY <2>1, <1>1, <1>2 DEF IInv, CasIdentifiesValue, CurCas
  <2>2. CASE j = k /\ d = c
      BY Zenon, <2>2, <1>1, <1>2
  <2>3. CASE j = k /\ d # c
      BY <2>3, <1>0, <1>1, <1>2, StateTypes DEF IInv, CasBelowNext
  <2> QED
      BY Zenon, <2>1, <2>2, <2>3
<1>7. UnseenSubscribed' /\ ChangeIsAnnounced'
    BY <1>0, <1>1, <1>3, AnnounceStep DEF Set, setEntry, CurCas
<1> QED
    BY Zenon, <1>4, <1>5, <1>6, <1>7 DEF IInv

(* After a Del the key has CAS 0, which no client's non-zero CAS matches. *)
LEMMA DelIInv ==
    ASSUME IInv, NEW c \in Clients, NEW k \in Keys, NEW cas, Del(c, k, cas)
    PROVE  IInv'
<1>0. TypeOK /\ store \in Stores
    BY Zenon, StateTypes DEF IInv
<1>1. /\ store' \in Stores
      /\ store'.CASNext = store.CASNext
      /\ store'.Entries = [store.Entries EXCEPT ![k] = NoEntry]
    BY Zenon, <1>0, DelStoreType DEF Del, delEntry
<1>2. /\ store'.Entries[k].CAS = 0
      /\ \A j \in Keys \ {k} : store'.Entries[j] = store.Entries[j]
    BY <1>0, <1>1 DEF NoEntry, Stores
<1>3. /\ held' \in [Clients -> [Keys -> Entry \cup {NoEntry}]]
      /\ \A d \in Clients, j \in Keys :
            held'[d][j] = IF d = c /\ j = k THEN NoEntry ELSE held[d][j]
    BY Zenon, <1>0 DEF Del, delEntry, TypeOK
<1>4. fireEvent(k, 0) /\ subs' = subs /\ 0 \in 0..MaxCas
    BY MaxCasAssumption DEF Del, delEntry
<1>5. TypeOK'
    BY Zenon, <1>0, <1>1, <1>3, <1>4, FireEventFacts DEF TypeOK, Del, delEntry
<1>6. CasBelowNext'
    BY <1>0, <1>1, <1>2, <1>3, StateTypes DEF IInv, CasBelowNext, CurCas, NoEntry
<1>7. CasIdentifiesValue'
    BY <1>2, <1>3 DEF IInv, CasIdentifiesValue, CurCas, NoEntry
<1>8. UnseenSubscribed' /\ ChangeIsAnnounced'
    BY Zenon, <1>2, <1>4, AnnounceStep DEF Del, delEntry, CurCas
<1> QED
    BY Zenon, <1>5, <1>6, <1>7, <1>8 DEF IInv

(* The remaining steps change subscriptions or goroutines, not the store. *)
LEMMA EventStepIInv ==
    ASSUME IInv,
           \/ \E ch \in Chans, k \in Keys : Subscribe(ch, k)
           \/ \E k \in Keys, cas \in FireArgs : FireEvent(k, cas)
           \/ Refresh
           \/ \E e \in Event : Deliver(e)
    PROVE  IInv'
<1> USE DEF IInv
<1>1. CASE \E ch \in Chans, k \in Keys : Subscribe(ch, k)
    BY <1>1 DEF Subscribe, TypeOK, CasBelowNext, CasIdentifiesValue,
                UnseenSubscribed, ChangeIsAnnounced, CurCas
<1>2. CASE \E k \in Keys, cas \in FireArgs : FireEvent(k, cas)
  <2> PICK k \in Keys, cas \in FireArgs : FireEvent(k, cas)
      BY Zenon, <1>2
  <2>1. /\ pending' \in [Event -> Nat]
        /\ \A e \in Event : pending'[e] >= pending[e]
      BY Zenon, FireEventFacts DEF FireEvent, FireArgs
  <2>2. TypeOK' /\ CasBelowNext' /\ CasIdentifiesValue' /\ UnseenSubscribed'
      BY Zenon, <2>1 DEF FireEvent, TypeOK, CasBelowNext, CasIdentifiesValue,
                  UnseenSubscribed, CurCas
  <2>3. \A ch \in Chans, j \in Keys :
           [ch |-> ch, key |-> j, CAS |-> CurCas(store, j)] \in Event
      BY Zenon, StateTypes DEF Event
  <2>4. ChangeIsAnnounced'
      BY <2>1, <2>3 DEF FireEvent, ChangeIsAnnounced, CurCas, TypeOK
  <2> QED
      BY Zenon, <2>2, <2>4
<1>3. CASE Refresh
  <2>1. /\ pending' \in [Event -> Nat]
        /\ \A e \in Event : pending'[e] >= pending[e]
      BY <1>3 DEF Refresh, fireAll, TypeOK
  <2>2. TypeOK' /\ CasBelowNext' /\ CasIdentifiesValue' /\ UnseenSubscribed'
      BY Zenon, <1>3, <2>1 DEF Refresh, TypeOK, CasBelowNext, CasIdentifiesValue,
                        UnseenSubscribed, CurCas
  <2>3. \A ch \in Chans, j \in Keys :
           [ch |-> ch, key |-> j, CAS |-> CurCas(store, j)] \in Event
      BY Zenon, StateTypes DEF Event
  <2>4. ChangeIsAnnounced'
      BY <1>3, <2>1, <2>3 DEF Refresh, ChangeIsAnnounced, CurCas, TypeOK
  <2> QED
      BY Zenon, <2>2, <2>4
<1>4. CASE \E e \in Event : Deliver(e)
  <2> PICK e \in Event : Deliver(e)
      BY Zenon, <1>4
  <2>1. TypeOK' /\ CasBelowNext' /\ CasIdentifiesValue' /\ UnseenSubscribed'
      BY DEF Deliver, TypeOK, CasBelowNext, CasIdentifiesValue,
             UnseenSubscribed, CurCas
  <2>2. ASSUME NEW ch \in Chans, NEW k \in Keys, <<ch, k>> \in unseen'
        PROVE  pending'[[ch |-> ch, key |-> k, CAS |-> CurCas(store, k)]] > 0
    <3> DEFINE a == [ch |-> ch, key |-> k, CAS |-> CurCas(store, k)]
    <3>1. <<ch, k>> \in unseen /\ pending[a] > 0
        BY Zenon, <2>2 DEF Deliver, ChangeIsAnnounced
    <3>2. a \in Event
        BY Zenon, StateTypes DEF Event
    <3>3. e # a
        BY <2>2 DEF Deliver
    <3> QED
        BY Zenon, <3>1, <3>2, <3>3 DEF Deliver, TypeOK
  <2>3. ChangeIsAnnounced'
      BY Zenon, <2>2 DEF ChangeIsAnnounced, Deliver, CurCas
  <2> QED
      BY Zenon, <2>1, <2>3
<1> QED
    BY Zenon, <1>1, <1>2, <1>3, <1>4

(* Every step of CfgMem preserves the inductive invariant. *)
LEMMA NextIInv == IInv /\ [Next]_vars => IInv'
<1> SUFFICES ASSUME IInv, [Next]_vars PROVE IInv'
    BY Zenon
<1>1. CASE UNCHANGED vars
    BY Zenon, <1>1 DEF vars, IInv, TypeOK, CasBelowNext, CasIdentifiesValue,
                UnseenSubscribed, ChangeIsAnnounced, CurCas
<1>2. ASSUME NEW c \in Clients, NEW k \in Keys, NEW cas \in CasArgs(c, k),
             \/ Get(c, k, cas)
             \/ \E v \in Vals : Set(c, k, v, cas)
             \/ Del(c, k, cas)
      PROVE  IInv'
    BY Zenon, <1>2, GetIInv, SetIInv, DelIInv
<1>3. ASSUME NEW k \in Keys,
             \/ \E ch \in Chans : Subscribe(ch, k)
             \/ \E cas \in FireArgs : FireEvent(k, cas)
      PROVE  IInv'
    BY Zenon, <1>3, EventStepIInv
<1>4. CASE Refresh \/ \E e \in Event : Deliver(e)
    BY Zenon, <1>4, EventStepIInv
<1> QED
    BY Zenon, <1>1, <1>2, <1>3, <1>4 DEF Next

(* CfgMem keeps its inductive invariant, with any number of clients, keys  *)
(* and subscribers.                                                        *)
THEOREM CfgMemInvariant == Spec => []IInv
<1>1. Init => IInv
    BY Zenon, InitIInv
<1>2. IInv /\ [Next]_vars => IInv'
    BY Zenon, NextIInv
<1> QED
    BY <1>1, <1>2, PTL DEF Spec

(* Type correctness of CfgMem (cfg_mem.go:23-35). *)
THEOREM CfgMemTypes == Spec => []TypeOK
BY CfgMemInvariant, PTL DEF IInv

(* No entry, stored or held by a client, has a CAS yet to be handed out    *)
(* (cfg_mem.go:111-119).                                                   *)
THEOREM CfgMemCasBelowNext == Spec => []CasBelowNext
BY CfgMemInvariant, PTL DEF IInv

(* A CAS names one value for ever: the comparison in CfgMem.Set is enough  *)
(* to exclude a lost update (cfg_mem.go:104-108).                          *)
THEOREM CfgMemCasIdentifiesValue == Spec => []CasIdentifiesValue
BY CfgMemInvariant, PTL DEF IInv

(* The event of the latest change of a key reaches each subscriber or is   *)
(* still on its way (cfg_mem.go:155-163).                                  *)
THEOREM CfgMemChangeIsAnnounced == Spec => []ChangeIsAnnounced
BY CfgMemInvariant, PTL DEF IInv

-----------------------------------------------------------------------------
(* A CAS that is CASNext has not been used, and using it extends the set.  *)
LEMMA FreshCas ==
    ASSUME NEW n \in 1..MaxCas
    PROVE  /\ n \in (1..MaxCas) \ (1..(n - 1))
           /\ 1..((n + 1) - 1) = (1..(n - 1)) \cup {n}
BY MaxCasAssumption

(* The guard of Set and Del gives the contract's condition: the entry is    *)
(* missing, or is the one the client read, or the client asked to be blind. *)
LEMMA GuardIsContract ==
    ASSUME IInv, NEW c \in Clients, NEW k \in Keys, NEW cas \in CasArgs(c, k),
           \/ SetErr(store, k, cas) = "nil"
           \/ DelErr(store, k, cas) = "nil" /\ (cas = 0 => c \in BlindClients)
    PROVE  Contract!MayReplace(c, k)
<1>0. /\ store.Entries[k] \in Entry \cup {NoEntry}
      /\ held[c][k] \in Entry \cup {NoEntry}
    BY Zenon, StateTypes DEF IInv
<1>1. CASE c \in BlindClients
    BY Zenon, <1>1 DEF Contract!MayReplace
<1>2. CASE c \notin BlindClients /\ ~Exists(store, k)
    BY Zenon, <1>2 DEF Contract!MayReplace, Exists
<1>3. CASE c \notin BlindClients /\ Exists(store, k)
  <2>0. CFG_CAS_FORCE # 0
      BY MaxCasAssumption DEF CFG_CAS_FORCE
  <2>1. cas # 0 /\ cas = held[c][k].CAS
      BY Zenon, <1>3, <2>0 DEF CasArgs, SetErr, DelErr
  <2>2. cas # CFG_CAS_FORCE
      BY <1>0, <2>1, EntryTypes, MaxCasAssumption DEF CFG_CAS_FORCE
  <2>3. cas = store.Entries[k].CAS
      BY Zenon, <2>1, <2>2, <1>3 DEF SetErr, DelErr
  <2>4. held[c][k].Val = store.Entries[k].Val
      BY Zenon, <2>1, <2>3 DEF IInv, CasIdentifiesValue, CurCas
  <2>5. held[c][k] \in Entry /\ store.Entries[k] \in Entry
      BY Zenon, <1>0, <2>1, <2>3, EntryTypes
  <2>6. \A e \in Entry : e = [CAS |-> e.CAS, Val |-> e.Val]
      BY DEF Entry
  <2>7. held[c][k] = store.Entries[k]
      BY Zenon, <2>1, <2>3, <2>4, <2>5, <2>6
  <2> QED
      BY Zenon, <2>7 DEF Contract!MayReplace
<1> QED
    BY Zenon, <1>1, <1>2, <1>3

(* A client's step of CfgMem is the step of the same name of the contract. *)
LEMMA ClientStepRefines ==
    ASSUME IInv, NEW c \in Clients, NEW k \in Keys, NEW cas \in CasArgs(c, k),
           \/ Get(c, k, cas)
           \/ \E v \in Vals : Set(c, k, v, cas)
           \/ Del(c, k, cas)
    PROVE  Contract!Next
<1>0. store \in Stores
    BY Zenon DEF IInv, TypeOK
<1>1. CASE Get(c, k, cas)
  <2>1. Contract!Read(c, k)
      BY Zenon, <1>1 DEF Get, Contract!Read
  <2> QED
      BY Zenon, <2>1 DEF Contract!Next
<1>2. ASSUME NEW v \in Vals, Set(c, k, v, cas)
      PROVE  Contract!Next
  <2> DEFINE n == store.CASNext
             new == [CAS |-> n, Val |-> v]
  <2>1. n \in 1..MaxCas
      BY <1>0, <1>2, MaxCasAssumption DEF Set, setEntry, Stores
  <2>2. /\ store'.Entries = [store.Entries EXCEPT ![k] = new]
        /\ store'.CASNext = n + 1
        /\ held' = [held EXCEPT ![c][k] = new]
      BY Zenon, <1>2 DEF Set, setEntry, SetStore
  <2>3. Contract!MayReplace(c, k)
      BY Zenon, <1>2, GuardIsContract DEF Set, setEntry
  <2>4. /\ n \in (1..MaxCas) \ (1..(store.CASNext - 1))
        /\ 1..(store'.CASNext - 1) = (1..(store.CASNext - 1)) \cup {n}
      BY Zenon, <2>1, <2>2, FreshCas
  <2>5. Contract!Write(c, k, v)
      BY Zenon, <2>2, <2>3, <2>4 DEF Contract!Write
  <2> QED
      BY Zenon, <2>5 DEF Contract!Next
<1>3. CASE Del(c, k, cas)
  <2>1. Contract!MayReplace(c, k)
      BY Zenon, <1>3, GuardIsContract DEF Del, delEntry
  <2>2. /\ store'.Entries = [store.Entries EXCEPT ![k] = NoEntry]
        /\ store'.CASNext = store.CASNext
        /\ held' = [held EXCEPT ![c][k] = NoEntry]
      BY Zenon, <1>3 DEF Del, delEntry, DelStore
  <2>3. Contract!Delete(c, k)
      BY Zenon, <2>1, <2>2 DEF Contract!Delete
  <2> QED
      BY Zenon, <2>3 DEF Contract!Next
<1> QED
    BY Zenon, <1>1, <1>2, <1>3

(* CfgMem implements the contract of the Cfg interface (cfg.go:14-41): the *)
(* event steps change nothing the contract sees.                           *)
THEOREM CfgMemImplementsContract == Spec => ImplementsContract
<1>1. Init => Contract!Init
    BY DEF Init, NewCfgMem, Contract!Init
<1>2. IInv /\ [Next]_vars => [Contract!Next]_(Contract!vars)
  <2> SUFFICES ASSUME IInv, [Next]_vars
               PROVE  Contract!Next \/ UNCHANGED Contract!vars
      BY Zenon
  <2>1. CASE UNCHANGED <<store, held>>
      BY Zenon, <2>1 DEF Contract!vars
  <2>2. ASSUME NEW c \in Clients, NEW k \in Keys, NEW cas \in CasArgs(c, k),
               \/ Get(c, k, cas)
               \/ \E v \in Vals : Set(c, k, v, cas)
               \/ Del(c, k, cas)
        PROVE  Contract!Next
      BY Zenon, <2>2, ClientStepRefines
  <2> QED
      BY Zenon, <2>1, <2>2 DEF Next, vars, Subscribe, FireEvent, Refresh, Deliver
<1> QED
    BY <1>1, <1>2, CfgMemInvariant, PTL DEF Spec, ImplementsContract, Contract!Spec

-----------------------------------------------------------------------------
(***************************************************************************)
(* CfgSimple                                                               *)
(***************************************************************************)

(* The types of what the theorem is about. *)
DurableTypes ==
    /\ store \in Stores
    /\ file \in Files
    /\ allowed \in [Keys -> SUBSET (Entry \cup {NoEntry})]

(* The inductive invariant: the types are needed, the rest is inductive. *)
DurableInv == DurableTypes /\ AcknowledgedIsDurable

(* What Set and Del make of a store is a store. *)
LEMMA SetIsStore ==
    ASSUME NEW s \in Stores, NEW k \in Keys, NEW v \in Vals, s.CASNext <= MaxCas
    PROVE  LET e == [CAS |-> s.CASNext, Val |-> v]
           IN /\ e \in Entry /\ SetStore(s, k, v) \in Stores
              /\ \A j \in Keys : SetStore(s, k, v).Entries[j] = IF j = k THEN e ELSE s.Entries[j]
BY MaxCasAssumption DEF SetStore, Stores, Entry

LEMMA DelIsStore ==
    ASSUME NEW s \in Stores, NEW k \in Keys
    PROVE  /\ DelStore(s, k) \in Stores
           /\ \A j \in Keys : DelStore(s, k).Entries[j] = IF j = k THEN NoEntry ELSE s.Entries[j]
BY Zenon DEF DelStore, Stores

(* The empty store is one, and has no entry. *)
LEMMA NewIsStore == NewCfgMem \in Stores /\ \A k \in Keys : NewCfgMem.Entries[k] = NoEntry
BY MaxCasAssumption DEF NewCfgMem, Stores

(* Nothing is stored at first. *)
LEMMA DurableInit == SimpleInit => DurableInv
<1> SUFFICES ASSUME SimpleInit PROVE DurableInv
    OBVIOUS
<1>1. DurableTypes
    BY Zenon, NewIsStore DEF SimpleInit, Init, DurableTypes, Files
<1>2. AcknowledgedIsDurable
    BY Zenon, NewIsStore, FileAssumption DEF SimpleInit, Init, AcknowledgedIsDurable
<1> QED
    BY Zenon, <1>1, <1>2 DEF DurableInv

(* The save after k was given entry e: the file becomes the store, or the  *)
(* save fails and the file has the old store, or is torn.                  *)
LEMMA DurableSave ==
    ASSUME DurableInv, NEW c, NEW k \in Keys, NEW e \in Entry \cup {NoEntry}, up,
           store' \in Stores,
           \A j \in Keys : store'.Entries[j] = IF j = k THEN e ELSE store.Entries[j],
           unlockedSave(c, k, e), up' = up
    PROVE  DurableInv'
<1>1. /\ allowed' \in [Keys -> SUBSET (Entry \cup {NoEntry})]
      /\ e \in allowed'[k]
      /\ \A j \in Keys \ {k} : allowed'[j] = allowed[j]
    BY DEF DurableInv, DurableTypes, unlockedSave
<1>2. file' \in {store', file, Torn}
    BY Zenon DEF unlockedSave
<1>3. DurableTypes'
    BY Zenon, <1>1, <1>2 DEF DurableInv, DurableTypes, Files
<1>4. \A j \in Keys : store'.Entries[j] \in allowed'[j]
    BY Zenon, <1>1 DEF DurableInv, AcknowledgedIsDurable
<1>5. CASE file' = store'
    BY Zenon, <1>3, <1>4, <1>5, FileAssumption DEF DurableInv, AcknowledgedIsDurable
<1>6. CASE file' = Torn
    BY Zenon, <1>3, <1>4, <1>6, FileAssumption DEF DurableInv, AcknowledgedIsDurable
<1>7. CASE file' = file /\ file' # store'
  <2>1. \A j \in Keys : allowed[j] \subseteq allowed'[j]
      BY Zenon, <1>7, FileAssumption DEF unlockedSave, DurableInv, DurableTypes
  <2> QED
      BY Zenon, <1>3, <1>4, <1>7, <2>1 DEF DurableInv, AcknowledgedIsDurable
<1> QED
    BY Zenon, <1>2, <1>5, <1>6, <1>7

(* A crash leaves the file as it was, torn, or with one operation more     *)
(* that nobody was told of.                                                *)
LEMMA DurableCrash == ASSUME DurableInv, Crash PROVE DurableInv'
<1>1. up /\ up' = FALSE /\ store' \in Stores
    BY Zenon, NewIsStore DEF Crash
<1>2. CASE UNCHANGED <<file, allowed>>
    BY Zenon, <1>1, <1>2 DEF DurableInv, DurableTypes, AcknowledgedIsDurable
<1>3. ASSUME NEW k \in Keys, NEW e \in Entry \cup {NoEntry}, NEW s \in Stores,
             \A j \in Keys : s.Entries[j] = IF j = k THEN e ELSE store.Entries[j],
             file' \in {Torn, s}, allowed' = [allowed EXCEPT ![k] = @ \cup {e}]
      PROVE  DurableInv'
  <2>1. /\ allowed' \in [Keys -> SUBSET (Entry \cup {NoEntry})]
        /\ \A j \in Keys : s.Entries[j] \in allowed'[j]
      BY Zenon, <1>1, <1>3 DEF DurableInv, DurableTypes, AcknowledgedIsDurable
  <2>2. DurableTypes'
      BY Zenon, <1>1, <1>3, <2>1 DEF DurableTypes, Files
  <2> QED
      BY Zenon, <1>1, <1>3, <2>1, <2>2, FileAssumption DEF DurableInv, AcknowledgedIsDurable
<1>4. store \in Stores
    BY Zenon DEF DurableInv, DurableTypes
<1>5. ASSUME NEW k \in Keys, NEW v \in Vals, store.CASNext <= MaxCas,
             file' \in {Torn, SetStore(store, k, v)},
             allowed' = [allowed EXCEPT ![k] = @ \cup {[CAS |-> store.CASNext, Val |-> v]}]
      PROVE  DurableInv'
  <2> DEFINE e == [CAS |-> store.CASNext, Val |-> v]
             s == SetStore(store, k, v)
  <2>1. /\ e \in Entry \cup {NoEntry} /\ s \in Stores
        /\ \A j \in Keys : s.Entries[j] = IF j = k THEN e ELSE store.Entries[j]
      BY <1>4, <1>5, SetIsStore
  <2>2. file' \in {Torn, s} /\ allowed' = [allowed EXCEPT ![k] = @ \cup {e}]
      BY Zenon, <1>5
  <2> HIDE DEF e, s
  <2> QED
      BY ONLY <1>3, <2>1, <2>2, k \in Keys, ZenonT(60)
<1>6. ASSUME NEW k \in Keys, file' \in {Torn, DelStore(store, k)},
             allowed' = [allowed EXCEPT ![k] = @ \cup {NoEntry}]
      PROVE  DurableInv'
  <2> DEFINE s == DelStore(store, k)
  <2>1. /\ NoEntry \in Entry \cup {NoEntry} /\ s \in Stores
        /\ \A j \in Keys : s.Entries[j] = IF j = k THEN NoEntry ELSE store.Entries[j]
      BY Zenon, <1>4, <1>6, DelIsStore
  <2>2. file' \in {Torn, s} /\ allowed' = [allowed EXCEPT ![k] = @ \cup {NoEntry}]
      BY Zenon, <1>6
  <2> HIDE DEF s
  <2> QED
      BY ZenonT(40), <1>3, <2>1, <2>2
<1> QED
    BY Zenon, <1>2, <1>5, <1>6 DEF Crash

(* Every step preserves the invariant. *)
LEMMA DurableNext == DurableInv /\ [SimpleNext]_<<vars, simpleVars>> => DurableInv'
<1> SUFFICES ASSUME DurableInv, [SimpleNext]_<<vars, simpleVars>> PROVE DurableInv'
    BY Zenon
<1>0. store \in Stores
    BY Zenon DEF DurableInv, DurableTypes
<1>1. CASE UNCHANGED <<store, simpleVars>>
    BY Zenon, <1>1 DEF simpleVars, DurableInv, DurableTypes, AcknowledgedIsDurable
<1>2. ASSUME NEW c \in Clients, NEW k \in Keys, NEW v \in Vals, NEW cas, SimpleSet(c, k, v, cas)
      PROVE  DurableInv'
  <2> DEFINE e == [CAS |-> store.CASNext, Val |-> v]
  <2>1. /\ up /\ up' = up /\ store.CASNext <= MaxCas /\ store' = SetStore(store, k, v)
        /\ unlockedSave(c, k, e)
      BY Zenon, <1>2 DEF SimpleSet, setEntry
  <2>2. /\ e \in Entry \cup {NoEntry} /\ store' \in Stores
        /\ \A j \in Keys : store'.Entries[j] = IF j = k THEN e ELSE store.Entries[j]
      BY <1>0, <2>1, SetIsStore
  <2> HIDE DEF e
  <2> QED
      BY Zenon, <2>1, <2>2, DurableSave
<1>3. ASSUME NEW c \in Clients, NEW k \in Keys, NEW cas, SimpleDel(c, k, cas)
      PROVE  DurableInv'
  <2>1. up /\ up' = up /\ store' = DelStore(store, k) /\ unlockedSave(c, k, NoEntry)
      BY Zenon, <1>3 DEF SimpleDel, delEntry
  <2> QED
      BY <1>0, <2>1, DelIsStore, DurableSave
<1>4. CASE SimpleRefresh
    BY Zenon, <1>4 DEF SimpleRefresh, simpleVars, DurableInv, DurableTypes, AcknowledgedIsDurable
<1>5. CASE Crash
    BY Zenon, <1>5, DurableCrash
<1>6. CASE Start
  <2>1. CASE file = NoFile
      BY Zenon, <1>6, <2>1, NewIsStore DEF Start, DurableInv, DurableTypes, AcknowledgedIsDurable
  <2>2. CASE file \in Stores
      BY Zenon, <1>6, <2>2, FileAssumption DEF Start, DurableInv, DurableTypes, AcknowledgedIsDurable
  <2> QED
      BY Zenon, <1>6, <2>1, <2>2 DEF Start, DurableInv, DurableTypes, Files
<1> QED
    BY Zenon, <1>1, <1>2, <1>3, <1>4, <1>5, <1>6
       DEF SimpleNext, SimpleGet, Get, SimpleSubscribe, Subscribe, SimpleDeliver, Deliver, vars

(* What CfgSimple acknowledged is in memory and in every readable file     *)
(* until a later operation replaces it, across crashes, failed saves and   *)
(* Refresh (cfg_simple.go:42-68, 77-99, 108-122).                          *)
THEOREM CfgSimpleAcknowledgedIsDurable == SimpleSpec => []AcknowledgedIsDurable
<1>1. DurableInv => AcknowledgedIsDurable
    BY Zenon DEF DurableInv
<1> QED
    BY <1>1, DurableInit, DurableNext, PTL DEF SimpleSpec

-----------------------------------------------------------------------------
(***************************************************************************)
(* CfgCB                                                                   *)
(***************************************************************************)

CbMem == [Keys -> Vals \cup {Nil}]
CbOpType == [pc : {"cas"}, by : CbCallers, key : Keys, at : 1..MaxCas,
             checked : BOOLEAN, mem : CbMem]

(* The types of all variables, those that CbTypeOK leaves open included. *)
CbTypes ==
    /\ cbDoc \in [cas : 1..MaxCas, mem : CbMem]
    /\ cbOp \in [CbProcs -> CbOpType \cup {CbIdle}]
    /\ cbHeld \in [CbCallers -> 0..MaxCas]
    /\ cbSubs \in [CbProcs -> SUBSET Keys]
    /\ cbSeq \in [CbProcs -> 0..MaxCas]
    /\ cbPending \subseteq CbProcs \X Keys
    /\ cbUnheard \subseteq CbProcs \X Keys

(* A Set or Del under way: if the document still has the CAS that it read, *)
(* its copy differs from the document in the one key, and a caller that    *)
(* named a CAS holds that CAS, as its process is busy with its call.       *)
OpFollowsDoc ==
    \A p \in CbProcs : cbOp[p] # CbIdle =>
        /\ CbProcOf[cbOp[p].by] = p
        /\ cbOp[p].at < MaxCas
        /\ cbOp[p].checked => cbHeld[cbOp[p].by] = cbOp[p].at
        /\ cbOp[p].at <= cbDoc.cas
        /\ cbOp[p].at = cbDoc.cas =>
              \A k \in Keys \ {cbOp[p].key} : cbOp[p].mem[k] = cbDoc.mem[k]

(* The stream is never ahead of the document, and only subscribers wait. *)
StreamIsBehind ==
    /\ \A p \in CbProcs : cbSeq[p] <= cbDoc.cas
    /\ \A p \in CbProcs, k \in Keys : <<p, k>> \in cbUnheard => k \in cbSubs[p]

(* The inductive invariant of CfgCB. *)
CbInv == CbTypes /\ OpFollowsDoc /\ StreamIsBehind /\ ChangeIsOnItsWay

(* The document starts with CAS 1 and nothing is under way. *)
LEMMA CbInitInv == ASSUME CbInit PROVE CbInv
<1>1. CbTypes
    BY MaxCasAssumption, CbAssumption DEF CbInit, CbTypes, CbMem
<1>2. OpFollowsDoc /\ StreamIsBehind /\ ChangeIsOnItsWay
    BY DEF CbInit, OpFollowsDoc, StreamIsBehind, ChangeIsOnItsWay
<1> QED
    BY Zenon, <1>1, <1>2 DEF CbInv

(* Get gives the caller a CAS, whose process has no call under way. *)
LEMMA CbGetInv ==
    ASSUME CbInv, NEW c \in CbCallers, NEW cas, CbGet(c, cas)
    PROVE  CbInv'
<1>1. CbTypes'
    BY MaxCasAssumption DEF CbInv, CbTypes, CbGet
<1>2. ASSUME NEW p \in CbProcs, cbOp[p] # CbIdle
      PROVE  cbOp[p].by # c
    BY Zenon, <1>2 DEF CbInv, OpFollowsDoc, CbGet
<1>3. ASSUME NEW p \in CbProcs, cbOp[p] # CbIdle
      PROVE  cbHeld'[cbOp[p].by] = cbHeld[cbOp[p].by]
    BY Zenon, <1>2, <1>3 DEF CbInv, CbTypes, CbGet, CbOpType
<1>4. OpFollowsDoc'
    BY <1>3 DEF CbInv, OpFollowsDoc, CbGet
<1>5. StreamIsBehind' /\ ChangeIsOnItsWay'
    BY Zenon DEF CbInv, StreamIsBehind, ChangeIsOnItsWay, CbGet
<1> QED
    BY Zenon, <1>1, <1>4, <1>5 DEF CbInv

(* Set and Del copy the document and change one key of the copy. *)
LEMMA CbBeginInv ==
    ASSUME CbInv, NEW c \in CbCallers, NEW cas \in {0, cbHeld[c]}, NEW k \in Keys,
           NEW change \in Vals \cup {Nil}, CbBegin(c, k, change, cas)
    PROVE  CbInv'
<1> DEFINE p == CbProcOf[c]
           new == [pc |-> "cas", by |-> c, key |-> k, at |-> cbDoc.cas, checked |-> cas # 0,
                   mem |-> [cbDoc.mem EXCEPT ![k] = change]]
<1>0. p \in CbProcs
    BY Zenon, CbAssumption
<1>1. new \in CbOpType /\ cbOp' = [cbOp EXCEPT ![p] = new]
    BY Zenon, MaxCasAssumption DEF CbInv, CbTypes, CbBegin, CbOpType, CbMem
<1>2. CbTypes'
    BY ZenonT(40), <1>1 DEF CbInv, CbTypes, CbBegin
<1>3. /\ cbDoc.cas < MaxCas /\ cas \in {0, cbDoc.cas} /\ cbDoc.cas \in Nat
      /\ cas # 0 => cbHeld[c] = cbDoc.cas
      /\ \A j \in Keys \ {k} : new.mem[j] = cbDoc.mem[j]
    BY MaxCasAssumption DEF CbInv, CbTypes, CbBegin, CbMem
<1>4. ASSUME NEW q \in CbProcs
      PROVE  cbOp'[q] = IF q = p THEN new ELSE cbOp[q]
    BY Zenon, <1>1 DEF CbInv, CbTypes
<1>5. OpFollowsDoc'
  <2>0. cbDoc' = cbDoc /\ cbHeld' = cbHeld /\ CbIdle' = CbIdle
      BY Zenon DEF CbBegin, CbIdle
  <2> SUFFICES ASSUME NEW q \in CbProcs, cbOp'[q] # CbIdle
               PROVE  /\ CbProcOf[cbOp'[q].by] = q
                      /\ cbOp'[q].at < MaxCas
                      /\ cbOp'[q].checked => cbHeld[cbOp'[q].by] = cbOp'[q].at
                      /\ cbOp'[q].at <= cbDoc.cas
                      /\ cbOp'[q].at = cbDoc.cas =>
                            \A j \in Keys \ {cbOp'[q].key} : cbOp'[q].mem[j] = cbDoc.mem[j]
      BY <2>0, Zenon DEF OpFollowsDoc
  <2>1. CASE q = p
    <3>1. cbOp'[q] = new
        BY Zenon, <1>4, <2>1
    <3>2. new.checked => cas # 0
        BY Zenon
    <3>3. new.by = c /\ new.at = cbDoc.cas /\ new.key = k
        BY Zenon
    <3> HIDE DEF new
    <3> QED
        BY <1>3, <2>1, <3>1, <3>2, <3>3
  <2>2. CASE q # p
      BY <1>4, <2>2 DEF CbInv, OpFollowsDoc
  <2> QED
      BY Zenon, <2>1, <2>2
<1>6. StreamIsBehind' /\ ChangeIsOnItsWay'
    BY Zenon DEF CbInv, StreamIsBehind, ChangeIsOnItsWay, CbBegin
<1> QED
    BY Zenon, <1>2, <1>5, <1>6 DEF CbInv

(* The document changes to what a call that read its present CAS makes of  *)
(* it: it is ahead of every stream, and of every other call under way.     *)
LEMMA CbWriteInv ==
    ASSUME CbInv, NEW p \in CbProcs, cbOp[p] # CbIdle, CasMatches(cbOp[p]), CbWrite(cbOp[p]),
           cbOp' = [cbOp EXCEPT ![p] = CbIdle],
           cbHeld' \in {cbHeld, [cbHeld EXCEPT ![cbOp[p].by] = cbDoc'.cas]},
           cbPending' \in {cbPending, cbPending \cup ({p} \X (cbSubs[p] \cap {cbOp[p].key}))},
           UNCHANGED <<cbSubs, cbSeq>>
    PROVE  CbInv'
<1> DEFINE op == cbOp[p]
<1>0. op \in CbOpType
    BY Zenon DEF CbInv, CbTypes
<1>1. /\ cbDoc' = [cas |-> cbDoc.cas + 1, mem |-> op.mem]
      /\ cbDoc.cas = op.at /\ op.at < MaxCas /\ op.at \in 1..MaxCas
    BY Zenon, <1>0 DEF CbInv, OpFollowsDoc, CasMatches, CbWrite, CbOpType
<1>2. cbDoc' \in [cas : 1..MaxCas, mem : CbMem] /\ cbDoc'.cas = cbDoc.cas + 1
    BY <1>0, <1>1, MaxCasAssumption DEF CbOpType
<1>3. CbTypes'
  <2>1. cbHeld' \in [CbCallers -> 0..MaxCas]
      BY <1>2, MaxCasAssumption DEF CbInv, CbTypes
  <2>2. cbPending' \subseteq CbProcs \X Keys /\ cbUnheard' \subseteq CbProcs \X Keys
      BY <1>0 DEF CbInv, CbTypes, CbWrite, CbOpType
  <2>3. cbOp' \in [CbProcs -> CbOpType \cup {CbIdle}]
      BY Zenon DEF CbInv, CbTypes
  <2> QED
      BY Zenon, <1>2, <2>1, <2>2, <2>3 DEF CbInv, CbTypes
<1>4. OpFollowsDoc'
  <2> SUFFICES ASSUME NEW q \in CbProcs, cbOp'[q] # CbIdle
               PROVE  /\ CbProcOf[cbOp'[q].by] = q
                      /\ cbOp'[q].at < MaxCas
                      /\ cbOp'[q].checked => cbHeld'[cbOp'[q].by] = cbOp'[q].at
                      /\ cbOp'[q].at < cbDoc'.cas
      BY <1>2, <1>3 DEF OpFollowsDoc, CbTypes, CbOpType
  <2>1. q # p /\ cbOp'[q] = cbOp[q] /\ cbOp[q] \in CbOpType
      BY Zenon DEF CbInv, CbTypes
  <2>2. cbOp[q].by # op.by
      BY <2>1 DEF CbInv, OpFollowsDoc
  <2>3. cbHeld'[cbOp[q].by] = cbHeld[cbOp[q].by]
      BY Zenon, <2>1, <2>2 DEF CbInv, CbTypes, CbOpType
  <2>4. cbOp[q].at <= cbDoc.cas /\ cbOp[q].at \in Nat /\ cbDoc.cas \in Nat
      BY <2>1, MaxCasAssumption DEF CbInv, CbTypes, OpFollowsDoc, CbOpType
  <2> QED
      BY <1>2, <2>1, <2>3, <2>4 DEF CbInv, OpFollowsDoc
<1>5. \A q \in CbProcs : cbSeq'[q] < cbDoc'.cas
    BY <1>2, MaxCasAssumption DEF CbInv, CbTypes, StreamIsBehind
<1>6. StreamIsBehind'
  <2>1. \A q \in CbProcs : cbSeq'[q] <= cbDoc'.cas
      BY <1>3, <1>5 DEF CbTypes
  <2>2. \A q \in CbProcs, k \in Keys : <<q, k>> \in cbUnheard' => k \in cbSubs'[q]
      BY Zenon DEF CbInv, StreamIsBehind, CbWrite
  <2> QED
      BY Zenon, <2>1, <2>2 DEF StreamIsBehind
<1>7. ChangeIsOnItsWay'
    BY Zenon, <1>5 DEF ChangeIsOnItsWay
<1> QED
    BY Zenon, <1>3, <1>4, <1>6, <1>7 DEF CbInv

(* The end of a Set or Del: the write, with or without its answer, or a    *)
(* refusal because the document has changed.                               *)
LEMMA CbFinishInv ==
    ASSUME CbInv, NEW p \in CbProcs, CbFinish(p)
    PROVE  CbInv'
<1>1. CASE CasMatches(cbOp[p]) /\ CbWrite(cbOp[p])
  <2>1. /\ cbOp[p] # CbIdle /\ cbOp' = [cbOp EXCEPT ![p] = CbIdle]
        /\ cbHeld' \in {cbHeld, [cbHeld EXCEPT ![cbOp[p].by] = cbDoc'.cas]}
        /\ cbPending' \in {cbPending, cbPending \cup ({p} \X (cbSubs[p] \cap {cbOp[p].key}))}
        /\ UNCHANGED <<cbSubs, cbSeq>>
      BY Zenon, <1>1 DEF CbFinish
  <2> QED
      BY Zenon, <1>1, <2>1, CbWriteInv
<1>2. CASE UNCHANGED <<cbDoc, cbHeld, cbPending, cbFaults, cbUnheard>>
  <2>1. cbOp' = [cbOp EXCEPT ![p] = CbIdle] /\ UNCHANGED <<cbSubs, cbSeq>>
      BY Zenon DEF CbFinish
  <2>2. CbTypes'
      BY Zenon, <1>2, <2>1 DEF CbInv, CbTypes
  <2>3. \A q \in CbProcs : cbOp'[q] # CbIdle => cbOp'[q] = cbOp[q]
      BY Zenon, <2>1 DEF CbInv, CbTypes
  <2>4. OpFollowsDoc'
      BY <1>2, <2>3 DEF CbInv, OpFollowsDoc
  <2>5. StreamIsBehind' /\ ChangeIsOnItsWay'
      BY Zenon, <1>2, <2>1 DEF CbInv, StreamIsBehind, ChangeIsOnItsWay
  <2> QED
      BY Zenon, <2>2, <2>4, <2>5 DEF CbInv
<1> QED
    BY Zenon, <1>1, <1>2 DEF CbFinish

(* Subscribing changes nobody's debt. *)
LEMMA CbSubscribeInv ==
    ASSUME CbInv, NEW p \in CbProcs, NEW k \in Keys, CbSubscribe(p, k)
    PROVE  CbInv'
<1>1. CbTypes'
    BY Zenon DEF CbInv, CbTypes, CbSubscribe
<1>2. OpFollowsDoc' /\ ChangeIsOnItsWay'
    BY DEF CbInv, OpFollowsDoc, ChangeIsOnItsWay, CbSubscribe
<1>3. \A q \in CbProcs : cbSubs[q] \subseteq cbSubs'[q]
    BY Zenon DEF CbInv, CbTypes, CbSubscribe
<1>4. StreamIsBehind'
    BY Zenon, <1>3 DEF CbInv, StreamIsBehind, CbSubscribe
<1> QED
    BY Zenon, <1>1, <1>2, <1>4 DEF CbInv

(* The stream announces every subscribed key when it moves, forwards to    *)
(* the document's latest version or back to the start.                     *)
LEMMA CbStreamInv ==
    ASSUME CbInv, NEW p \in CbProcs, DataUpdate(p) \/ CbRollback(p)
    PROVE  CbInv'
<1>1. /\ cbPending' = cbPending \cup ({p} \X cbSubs[p])
      /\ \E s \in {0, cbDoc.cas} : cbSeq' = [cbSeq EXCEPT ![p] = s]
      /\ UNCHANGED <<cbDoc, cbOp, cbHeld, cbSubs, cbUnheard>>
    BY Zenon DEF DataUpdate, CbRollback, CbRefresh
<1>2. CbTypes'
    BY <1>1, MaxCasAssumption DEF CbInv, CbTypes
<1>3. OpFollowsDoc'
    BY <1>1 DEF CbInv, OpFollowsDoc
<1>4. StreamIsBehind'
    BY <1>1, MaxCasAssumption DEF CbInv, CbTypes, StreamIsBehind
<1>5. ChangeIsOnItsWay'
  <2> SUFFICES ASSUME NEW q \in CbProcs, NEW k \in Keys, <<q, k>> \in cbUnheard
               PROVE  <<q, k>> \in cbPending' \/ cbSeq'[q] < cbDoc.cas
      BY Zenon, <1>1 DEF ChangeIsOnItsWay
  <2>1. CASE q = p
      BY Zenon, <1>1, <2>1 DEF CbInv, StreamIsBehind
  <2>2. CASE q # p
      BY Zenon, <1>1, <2>2 DEF CbInv, CbTypes, ChangeIsOnItsWay
  <2> QED
      BY Zenon, <2>1, <2>2
<1> QED
    BY Zenon, <1>2, <1>3, <1>4, <1>5 DEF CbInv

(* A subscriber that receives an event is owed none. *)
LEMMA CbDeliverInv ==
    ASSUME CbInv, NEW p \in CbProcs, NEW k \in Keys, CbDeliver(p, k)
    PROVE  CbInv'
<1>1. CbTypes'
    BY Zenon DEF CbInv, CbTypes, CbDeliver
<1>2. OpFollowsDoc' /\ StreamIsBehind'
    BY DEF CbInv, OpFollowsDoc, StreamIsBehind, CbDeliver
<1>3. ChangeIsOnItsWay'
    BY Zenon DEF CbInv, ChangeIsOnItsWay, CbDeliver
<1> QED
    BY Zenon, <1>1, <1>2, <1>3 DEF CbInv

(* Every step preserves the invariant. *)
LEMMA CbNextInv == CbInv /\ [CbNext]_cbVars => CbInv'
<1> SUFFICES ASSUME CbInv, [CbNext]_cbVars PROVE CbInv'
    OBVIOUS
<1>1. CASE UNCHANGED cbVars
    BY <1>1 DEF cbVars, CbInv, CbTypes, OpFollowsDoc, StreamIsBehind, ChangeIsOnItsWay
<1>2. ASSUME NEW c \in CbCallers, NEW cas \in {0, cbHeld[c]}, CbGet(c, cas)
      PROVE  CbInv'
    BY Zenon, <1>2, CbGetInv
<1>3. ASSUME NEW c \in CbCallers, NEW cas \in {0, cbHeld[c]}, NEW k \in Keys,
             NEW change \in Vals \cup {Nil}, CbBegin(c, k, change, cas)
      PROVE  CbInv'
    BY Zenon, <1>3, CbBeginInv
<1>4. ASSUME NEW p \in CbProcs, CbFinish(p) \/ DataUpdate(p) \/ CbRollback(p)
      PROVE  CbInv'
    BY Zenon, <1>4, CbFinishInv, CbStreamInv
<1>5. ASSUME NEW p \in CbProcs, NEW k \in CbWatched[p], CbSubscribe(p, k) \/ CbDeliver(p, k)
      PROVE  CbInv'
  <2>1. k \in Keys
      BY Zenon, <1>5, CbAssumption
  <2> QED
      BY Zenon, <1>5, <2>1, CbSubscribeInv, CbDeliverInv
<1> QED
    BY Zenon, <1>1, <1>2, <1>3, <1>4, <1>5 DEF CbNext

(* The inductive invariant holds of every reachable state. *)
THEOREM CbInvariant == CbSpec => []CbInv
<1>1. CbInit => CbInv
    BY CbInitInv
<1> QED
    BY <1>1, CbNextInv, PTL DEF CbSpec

(* Type correctness of CfgCB; the CAS of its document is never 0           *)
(* (cfg_cb.go:30-58).                                                      *)
THEOREM CfgCBTypes == CbSpec => []CbTypeOK
<1>1. CbInv => CbTypeOK
    BY Zenon DEF CbInv, CbTypes, CbTypeOK, CbMem
<1> QED
    BY <1>1, CbInvariant, PTL

(* No subscriber of a key misses a change of it, whichever process made it *)
(* and although its answer may be lost (cfg_cb.go:395-417, 445-461).       *)
THEOREM CfgCBChangeIsOnItsWay == CbSpec => []ChangeIsOnItsWay
<1>1. CbInv => ChangeIsOnItsWay
    BY Zenon DEF CbInv
<1> QED
    BY <1>1, CbInvariant, PTL

(* A Set or Del changes its own key of the shared document only, and, with *)
(* a CAS, the document that its caller had read (cfg_cb.go:212-349).       *)
THEOREM CfgCBOnlyOwnKeyChanges == CbSpec => OnlyOwnKeyChanges
<1>1. ASSUME CbInv, NEW p \in CbProcs, CbFinish(p), cbDoc' # cbDoc
      PROVE  /\ \A k \in Keys \ {cbOp[p].key} : cbDoc'.mem[k] = cbDoc.mem[k]
             /\ cbOp[p].checked => cbHeld[cbOp[p].by] = cbDoc.cas
  <2>1. cbOp[p] # CbIdle /\ cbDoc.cas = cbOp[p].at /\ cbDoc'.mem = cbOp[p].mem
      BY <1>1 DEF CbFinish, CbWrite, CasMatches
  <2> QED
      BY <1>1, <2>1 DEF CbInv, OpFollowsDoc
<1>2. CbInv /\ [CbNext]_cbVars =>
         [\A p \in CbProcs : CbFinish(p) /\ cbDoc' # cbDoc =>
            /\ \A k \in Keys \ {cbOp[p].key} : cbDoc'.mem[k] = cbDoc.mem[k]
            /\ cbOp[p].checked => cbHeld[cbOp[p].by] = cbDoc.cas]_cbVars
    BY Zenon, <1>1
<1> QED
    BY <1>2, CbInvariant, PTL DEF CbSpec, OnlyOwnKeyChanges
=============================================================================
