-------------------------- MODULE ConsistencyWait --------------------------
(***************************************************************************)
(* A query that has to see what its client has written                     *)
(* (pindex_consistency.go), over the indexes that the feeds of FeedDcp     *)
(* fill: one goroutine per local pindex waits, vbucket by vbucket, for the *)
(* Dest to reach the sequence numbers of the consistency vector, while the *)
(* feeds move, roll back and restart under it.                             *)
(*                                                                         *)
(* External: Dest.ConsistencyWait, which answers once the Dest holds the   *)
(* sequence number, and fails when the Dest is closed under it. The client *)
(* asks for what KV has given it. A vbucket's uuid in the vector is only   *)
(* passed on to the Dest and left out.                                     *)
(***************************************************************************)
EXTENDS FeedDcp

VARIABLE query

queryVars == <<vars, query>>

(* No request: what a query keeps is *)
NoQuery ==
  [pc |-> "idle",        \* "idle", "waiting", "done"
   vector |-> <<>>,      \* consistencyParams.Vectors[indexName]
   timeout |-> FALSE,    \* TimeoutCancelChan gave a channel
   cancelled |-> FALSE,  \* cancelCh is closed
   sick |-> {},          \* indexErrMap
   gen |-> <<>>,         \* the Dest of each pindex at the time of the request
   todo |-> <<>>,        \* per goroutine: the vbuckets still to wait for
   err |-> "none"]       \* errConsistency; of a query that is done its result

(* Mutant: the wait for the first vbucket is the wait for the pindex. *)
PartitionsFirst(vector) ==
  LET asked == {vb \in DOMAIN vector : vector[vb] > 0}
  IN IF asked = {} THEN {} ELSE {CHOOSE vb \in asked : TRUE}

(* ConsistencyWaitPartitions: zero asks for nothing. *)
Partitions(vector) == {vb \in DOMAIN vector : vector[vb] > 0}

(* ConsistencyWaitGroup starts a goroutine for each pindex that            *)
(* addLocalPIndex accepts.                                                 *)
WaitBegins(vector, timeout, sick) ==
  /\ query.pc = "idle"
  /\ Partitions(vector) # {}
  /\ \A vb \in limits.vbs : vector[vb] <= Len(kv[vb].hist)
  /\ Spend(IF sick = {} THEN "ask" ELSE "askSick")
  /\ query' = [NoQuery EXCEPT
       !.pc = "waiting", !.vector = vector, !.timeout = timeout, !.sick = sick,
       !.gen = gen,
       !.todo = [n \in limits.names \ sick |-> Partitions(vector)]]
  /\ UNCHANGED <<source, kv, dest, gen, feed, conn, mgr, tasks>>

(* TimeoutCancelChan: the channel closes after the timeout. *)
TimesOut ==
  /\ query.pc = "waiting" /\ query.timeout /\ ~query.cancelled
  /\ query' = [query EXCEPT !.cancelled = TRUE]
  /\ UNCHANGED vars

Waiting(n, vb) ==
  /\ query.pc = "waiting"
  /\ n \in DOMAIN query.todo /\ vb \in query.todo[n]

(* The Dest has what was asked for of the vbucket. *)
PartitionReached(n, vb) ==
  /\ Waiting(n, vb)
  /\ gen[n] = query.gen[n] /\ LastSeq(dest[n][vb]) >= query.vector[vb]
  /\ query' = [query EXCEPT !.todo[n] = @ \ {vb}]
  /\ UNCHANGED vars

(* Mutant: a wait does not listen to its cancelCh. *)
DeafToCancel(n) == gen[n] # query.gen[n]

(* ConsistencyWaitDone: cancelCh is closed, or the Dest gives an error. *)
WaitErrs(n) == query.cancelled \/ gen[n] # query.gen[n]

(* The goroutine of the pindex keeps the error and waits no further. *)
PartitionFails(n, vb) ==
  /\ Waiting(n, vb)
  /\ WaitErrs(n)
  /\ query' = [query EXCEPT !.todo[n] = {}, !.err = "failed"]
  /\ UNCHANGED vars

(* wg.Wait(), then the first of: an error of a wait, the cancellation,     *)
(* pindexes that could not be added.                                       *)
Result ==
  IF query.err # "none" THEN query.err
  ELSE IF query.cancelled THEN "cancelled"
  ELSE IF query.sick # {} THEN "unhealthy"
  ELSE "ok"

WaitEnds ==
  /\ query.pc = "waiting"
  /\ \A n \in DOMAIN query.todo : query.todo[n] = {}
  /\ query' = [query EXCEPT !.pc = "done", !.todo = <<>>, !.err = Result]
  /\ UNCHANGED vars
-----------------------------------------------------------------------------
QueryInit == Init /\ query = NoQuery

QueryStep ==
  \/ TimesOut \/ WaitEnds
  \/ \E n \in Names, vb \in VBs : PartitionReached(n, vb) \/ PartitionFails(n, vb)

QueryNext ==
  \/ Next /\ UNCHANGED query
  \/ QueryStep
  \/ \E vector \in [limits.vbs -> 0..MaxSeq], timeout \in BOOLEAN,
        sick \in SUBSET limits.names :
       WaitBegins(vector, timeout, sick)

(* The goroutines of the query run, and a timer fires. *)
QuerySpec ==
  /\ QueryInit /\ [][QueryNext]_queryVars
  /\ WF_queryVars((Progress /\ UNCHANGED query) \/ QueryStep)
-----------------------------------------------------------------------------
(* A query that passed ConsistencyWaitGroup finds what it asked for in     *)
(* every pindex, then and later, as long as the pindex is not rolled back, *)
(* restarted or deleted: the race of the comment at                        *)
(* pindex_consistency.go:195-200 is the only one. No reconnect, failover   *)
(* or timeout of a stream takes back what a wait has seen.                 *)
AnswerIsConsistent ==
  query.pc = "done" /\ query.err = "ok" =>
    \A n \in limits.names, vb \in limits.vbs :
      \/ LastSeq(dest[n][vb]) >= query.vector[vb]
      \/ gen[n] # query.gen[n]
      \/ n \in janitor.restart \cup janitor.closes
      \/ n \notin wanted

(* A query waits for ever only when it was given no timeout and asks for   *)
(* mutations that KV has lost in a failover, or whose source is gone; all  *)
(* others are answered, whatever happens to the feeds.                     *)
QueriesReturn ==
  <>[](query.pc = "waiting" =>
         /\ ~query.timeout
         /\ \/ source = "gone"
            \/ \E vb \in limits.vbs : query.vector[vb] > Len(kv[vb].hist))
=============================================================================
