-------------------------------- MODULE CfgCB --------------------------------
(***************************************************************************)
(* CfgCB (cfg_cb.go): a Cfg kept as one document of a Couchbase bucket,    *)
(* the JSON of a CfgMem, with the document's CAS as the CAS of every key.  *)
(* Each process has its own CfgCB, whose mutex it holds while it reads the *)
(* document, changes its copy and writes it back with the CAS it read.     *)
(* Changes reach the subscribers of the process that makes them at once    *)
(* and all subscribers through the bucket's DCP stream.                    *)
(***************************************************************************)
EXTENDS CfgOps

CONSTANTS CbProcs,   \* processes with a CfgCB
          CbCallers, \* goroutines that call it
          CbWatched, \* CbWatched[p]: keys that process p subscribes to
          CbProcOf,  \* CbProcOf[c]: the process of goroutine c
          MaxFaults  \* bound: rollbacks of the stream and lost answers

ASSUME CbAssumption ==
    /\ CbProcOf \in [CbCallers -> CbProcs] /\ CbWatched \in [CbProcs -> SUBSET Keys]
    /\ MaxCas > 0

VARIABLES cbDoc,     \* the document: its CAS and the values in its CfgMem
          cbOp,      \* cbOp[p]: the Set or Del that holds the mutex of p
          cbHeld,    \* cbHeld[c]: the CAS that c was given last
          cbSubs,    \* cbSubs[p]: keys with a subscriber in p
          cbPending, \* <<p, k>>: a goroutine is about to send k's event in p
          cbSeq,     \* cbSeq[p]: how far the stream of p has come
          cbFaults,  \* rollbacks and lost answers so far
          cbUnheard  \* history: <<p, k>> whose subscriber has had no event
                     \* since the last change of k

cbVars == <<cbDoc, cbOp, cbHeld, cbSubs, cbPending, cbSeq, cbFaults, cbUnheard>>

CbIdle == [pc |-> "idle"]

(* NewCfgCBEx adds the document, so that nobody sees CAS 0. *)
CbInit ==
    /\ cbDoc = [cas |-> 1, mem |-> [k \in Keys |-> Nil]]
    /\ cbOp = [p \in CbProcs |-> CbIdle]
    /\ cbHeld = [c \in CbCallers |-> 0]
    /\ cbSubs = [p \in CbProcs |-> {}]
    /\ cbPending = {}
    /\ cbSeq = [p \in CbProcs |-> 1]
    /\ cbFaults = 0
    /\ cbUnheard = {}

(* Get, which may ask for a CAS: it answers with the document's. *)
CbGet(c, cas) ==
    /\ cbOp[CbProcOf[c]] = CbIdle
    /\ cas \in {0, cbDoc.cas}
    /\ cbHeld' = [cbHeld EXCEPT ![c] = cbDoc.cas]
    /\ UNCHANGED <<cbDoc, cbOp, cbSubs, cbPending, cbSeq, cbFaults, cbUnheard>>

(* Set and Del up to GetsRaw: a non-zero cas has to be the document's.  The *)
(* CfgMem is set with CFG_CAS_FORCE, its own CAS numbers are never seen.    *)
CbBegin(c, k, change, cas) ==
    /\ cbDoc.cas < MaxCas
    /\ cbOp[CbProcOf[c]] = CbIdle
    /\ cas \in {0, cbDoc.cas}
    /\ cbOp' = [cbOp EXCEPT ![CbProcOf[c]] =
          [pc |-> "cas", by |-> c, key |-> k, at |-> cbDoc.cas, checked |-> cas # 0,
           mem |-> [cbDoc.mem EXCEPT ![k] = change]]]
    /\ UNCHANGED <<cbDoc, cbHeld, cbSubs, cbPending, cbSeq, cbFaults, cbUnheard>>

(* Mutant: the document is written whatever its CAS. *)
CasMatchesAny(op) == TRUE

(* bucket.Cas compares with the CAS that GetsRaw returned. *)
CasMatches(op) == cbDoc.cas = op.at

(* The document changes: every subscriber of the key is owed an event. *)
CbWrite(op) ==
    /\ cbDoc' = [cas |-> cbDoc.cas + 1, mem |-> op.mem]
    /\ cbUnheard' = cbUnheard \cup {<<q, op.key>> : q \in {r \in CbProcs : op.key \in cbSubs[r]}}

(* The rest of Set and Del: bucket.Cas, and fireEvent if it succeeds.  A   *)
(* write whose answer is lost is an error that has changed the document.   *)
CbFinish(p) ==
    LET op == cbOp[p]
    IN  /\ op # CbIdle
        /\ cbOp' = [cbOp EXCEPT ![p] = CbIdle]
        /\ \/ /\ CasMatches(op)
              /\ CbWrite(op)
              /\ cbHeld' = [cbHeld EXCEPT ![op.by] = cbDoc'.cas]
              /\ cbPending' = cbPending \cup ({p} \X (cbSubs[p] \cap {op.key}))
              /\ UNCHANGED cbFaults
           \/ /\ CasMatches(op) /\ cbFaults < MaxFaults
              /\ CbWrite(op)
              /\ cbFaults' = cbFaults + 1
              /\ UNCHANGED <<cbHeld, cbPending>>
           \/ /\ ~CasMatches(op)
              /\ UNCHANGED <<cbDoc, cbHeld, cbPending, cbFaults, cbUnheard>>
        /\ UNCHANGED <<cbSubs, cbSeq>>

CbSubscribe(p, k) ==
    /\ cbOp[p] = CbIdle /\ k \notin cbSubs[p]
    /\ cbSubs' = [cbSubs EXCEPT ![p] = @ \cup {k}]
    /\ UNCHANGED <<cbDoc, cbOp, cbHeld, cbPending, cbSeq, cbFaults, cbUnheard>>

(* Mutant: Refresh announces nothing. *)
CbRefreshNothing(p) == cbPending' = cbPending

(* Refresh: an event for every key that has a subscriber. *)
CbRefresh(p) == cbPending' = cbPending \cup ({p} \X cbSubs[p])

(* The stream hands over the document's latest version: DataUpdate or      *)
(* DataDelete, with updateSeq.                                             *)
DataUpdate(p) ==
    /\ cbOp[p] = CbIdle /\ cbSeq[p] < cbDoc.cas
    /\ cbSeq' = [cbSeq EXCEPT ![p] = cbDoc.cas]
    /\ CbRefresh(p)
    /\ UNCHANGED <<cbDoc, cbOp, cbHeld, cbSubs, cbFaults, cbUnheard>>

(* The stream is rolled back: everything is announced, and comes again. *)
CbRollback(p) ==
    /\ cbOp[p] = CbIdle /\ cbFaults < MaxFaults
    /\ cbFaults' = cbFaults + 1
    /\ cbSeq' = [cbSeq EXCEPT ![p] = 0]
    /\ CbRefresh(p)
    /\ UNCHANGED <<cbDoc, cbOp, cbHeld, cbSubs, cbUnheard>>

(* An event goroutine is received from. *)
CbDeliver(p, k) ==
    /\ <<p, k>> \in cbPending
    /\ cbPending' = cbPending \ {<<p, k>>}
    /\ cbUnheard' = cbUnheard \ {<<p, k>>}
    /\ UNCHANGED <<cbDoc, cbOp, cbHeld, cbSubs, cbSeq, cbFaults>>

CbNext ==
    \/ \E c \in CbCallers : \E cas \in {0, cbHeld[c]} :
          \/ CbGet(c, cas)
          \/ \E k \in Keys, change \in Vals \cup {Nil} : CbBegin(c, k, change, cas)
    \/ \E p \in CbProcs :
          \/ CbFinish(p) \/ DataUpdate(p) \/ CbRollback(p)
          \/ \E k \in CbWatched[p] : CbSubscribe(p, k) \/ CbDeliver(p, k)

CbSpec == CbInit /\ [][CbNext]_cbVars
-----------------------------------------------------------------------------
(* Types of the document and of what each process keeps (cfg_cb.go:30-58); *)
(* its CAS is never 0, which callers would take for "do not compare".      *)
CbTypeOK ==
    /\ cbDoc.cas \in 1..MaxCas
    /\ \A k \in Keys : cbDoc.mem[k] \in Vals \cup {Nil}
    /\ \A p \in CbProcs : cbSubs[p] \subseteq Keys /\ cbSeq[p] \in 0..MaxCas
    /\ cbPending \subseteq CbProcs \X Keys /\ cbUnheard \subseteq CbProcs \X Keys

(* Though all keys share one document, a Set or Del changes nothing but    *)
(* its own key, whatever another process writes between the reading and    *)
(* the writing, and with a CAS it replaces the document its caller had     *)
(* read (cfg_cb.go:212-349).                                               *)
OnlyOwnKeyChanges ==
    [][\A p \in CbProcs : CbFinish(p) /\ cbDoc' # cbDoc =>
          /\ \A k \in Keys \ {cbOp[p].key} : cbDoc'.mem[k] = cbDoc.mem[k]
          /\ cbOp[p].checked => cbHeld[cbOp[p].by] = cbDoc.cas]_cbVars

(* No subscriber misses a change of its key, made in its own process or in *)
(* another: until it has had an event the stream has the change still to   *)
(* come or a goroutine is about to send, even if the process that made the *)
(* change never learns of its success (cfg_cb.go:395-417, 445-461,         *)
(* 499-513).                                                               *)
ChangeIsOnItsWay ==
    \A p \in CbProcs, k \in Keys :
        <<p, k>> \in cbUnheard => <<p, k>> \in cbPending \/ cbSeq[p] < cbDoc.cas
=============================================================================
