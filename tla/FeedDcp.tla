------------------------------ MODULE FeedDcp ------------------------------
(***************************************************************************)
(* The DCP feeds of one node (feed_dcp_gocbcore.go and its observer): how  *)
(* a feed takes a connection from the pool of DCP agents, registers with   *)
(* the manager, opens one stream per vbucket from where the index stands,  *)
(* passes the messages on to the Dest, reopens or rolls back a stream,     *)
(* closes, and is started again by the janitor; and the tracker of the     *)
(* bucket's scopes (bucket_scope_tracker.go) that its errors consult.      *)
(*                                                                         *)
(* External: KV (its vbucket histories, failover logs and its answers),    *)
(* the gocbcore connection (messages of one stream arrive in order), the   *)
(* Dest (what it holds, and its rollback) and the application's handler of *)
(* feed errors. All feeds are on one bucket; an index partition is a name  *)
(* in Names, its feeds one after the other the numbers in Feeds.           *)
(***************************************************************************)
EXTENDS Integers, FiniteSets, Sequences, FiniteSetsExt

CONSTANTS
  Names,     \* the pindexes, which are also the names of their feeds
  VBs,       \* the vbuckets of the bucket
  Feeds,     \* the feed objects, 1..n, in the order they are made
  MaxSeq,    \* the number of mutations a vbucket may reach
  MaxUuid,   \* the branches of a vbucket's history are 1..MaxUuid
  WireCap,   \* messages of one stream on their way to the observer
  Scenarios  \* what is tried: names, vbuckets, agent limit, number of feeds
             \* made and fault budgets

Faults == {"write", "failover", "drop", "timeout", "late", "refuse", "shutdown",
           "setup", "meta", "gone", "restart", "ask", "askSick"}

ASSUME FeedsAssumption ==
  /\ Feeds # {} /\ IsFiniteSet(Feeds) /\ Feeds = 1..Cardinality(Feeds)
  /\ Names # {} /\ IsFiniteSet(VBs) /\ MaxSeq \in Nat

ASSUME ScenariosAssumption ==
  \A s \in Scenarios :
    /\ s.names \subseteq Names /\ s.vbs \subseteq VBs
    /\ s.maxFeeds \in Nat \ {0}
    /\ s.feeds \in 1..Cardinality(Feeds)
    /\ s.budget \in [Faults -> Nat]

NoFeed == 0

VARIABLES
  limits,    \* the scenario, fixed along a behaviour
  left,      \* what is left of its budgets
  source,    \* "alive" or "gone": the scope and collections of the indexes
  kv,        \* per vbucket: its history and its failover log, newest first
  dest,      \* per name and vbucket: the items held, the opaque metadata, and
             \* (history) whether a feed with a successor has written there
  gen,       \* per name: how often its pindex, and so its Dest, was reopened
  feed,      \* the GocbcoreDCPFeed objects
  agents,    \* Refs of the agent that a feed created; 0: none, or closed
  registry,  \* mgr.feeds
  tracker,   \* the BucketScopeInfo of the bucket
  openers,   \* the goroutines in initiateStreamEx
  link,      \* per feed and vbucket: KV's stream and what it has in flight
  closeReq,  \* CloseStream requests of closeAllStreamsLOCKED still under way
  rollbacks, \* goroutines in rollback
  janitor,   \* the janitor's pass over the feeds
  wanted     \* the pindexes the plan gives this node

faults == <<limits, left>>
conn == <<agents, link, closeReq>>
mgr == <<registry, tracker, janitor, wanted>>
tasks == <<openers, rollbacks>>
vars == <<faults, source, kv, dest, gen, feed, conn, mgr, tasks>>

Spend(kind) ==
  /\ left[kind] > 0
  /\ left' = [left EXCEPT ![kind] = @ - 1]
  /\ UNCHANGED limits

---------------------------------------------------------------------------
(* KV and the Dest, external *)

(* The last sequence number that belongs to the i-th entry of a log. *)
UpperSeq(vb, i) ==
  IF i = 1 THEN Len(kv[vb].hist) ELSE kv[vb].log[i - 1].seq

Entries(vb, uuid) == {i \in DOMAIN kv[vb].log : kv[vb].log[i].uuid = uuid}

(* A stream request is granted when its point lies on KV's history. *)
Accepts(vb, uuid, seq) ==
  \/ uuid = 0 /\ seq = 0
  \/ \E i \in Entries(vb, uuid) : seq <= UpperSeq(vb, i)

RollbackPoint(vb, uuid) ==
  IF Entries(vb, uuid) = {} THEN 0
  ELSE UpperSeq(vb, CHOOSE i \in Entries(vb, uuid) : TRUE)

Held(d) == {s \in 1..MaxSeq : d.data[s] # 0}
LastSeq(d) == IF Held(d) = {} THEN 0 ELSE Max(Held(d))

---------------------------------------------------------------------------
(* Feeds and their streams *)

Alive(f) == feed[f].st = "open"

(* The Dest a feed was made with is closed; the pindex has a new one. *)
Stale(f) == feed[f].gen # gen[feed[f].name]

StreamsOf(f) == {v \in limits.vbs : link[f][v].pos >= 0}

(* complete: the vbucket leaves the feed's wait group, once. *)
Complete(rec, vb) ==
  IF vb \in rec.active
  THEN [rec EXCEPT !.active = @ \ {vb}, !.remaining = @ - 1]
  ELSE rec

(* initiateShutdown: the application hears of it the first time only. *)
Shutdown(rec) ==
  [rec EXCEPT !.shut = IF @ = "no" THEN "told" ELSE @]

(* closeAllStreamsLOCKED: every active stream leaves the wait group without *)
(* waiting for its end, and a CloseStream request is sent for it.           *)
CloseAllStreams(rec) ==
  [rec EXCEPT !.active = {}, !.remaining = @ - Cardinality(rec.active)]

(* Mutant: the streams are left to the agent. *)
CloseRequestsNone(f, rec) == {}

CloseRequests(f, rec) == {f} \X rec.active

(* The part of close() under the feed's lock, for a feed whose record is  *)
(* rec; a feed that is already closed only takes the record. "how" says   *)
(* whether the manager is told once the feed is closed.                   *)
CloseFrom(f, rec, how) ==
  IF rec.st = "open"
  THEN /\ feed' = [feed EXCEPT
                     ![f] = [CloseAllStreams(rec) EXCEPT !.st = "closing",
                                                         !.how = how]]
       /\ agents' = [agents EXCEPT ![rec.agent] = @ - 1]
       /\ closeReq' = closeReq \cup CloseRequests(f, rec)
  ELSE feed' = [feed EXCEPT ![f] = rec] /\ UNCHANGED <<agents, closeReq>>

(* A feed that stays as it is but for its record. *)
Record(f, rec) ==
  feed' = [feed EXCEPT ![f] = rec] /\ UNCHANGED <<agents, closeReq>>

(* Mutant: the request asks for the mutations after the next one. *)
StandsPast(n, vb) ==
  LET d == dest[n][vb]
  IN IF d.log = <<>> THEN [uuid |-> 0, seq |-> 0]
     ELSE [uuid |-> d.log[1].uuid, seq |-> Min({LastSeq(d) + 1, MaxSeq})]

(* lastVbUUIDSeqFromFailOverLog: where the index of a name stands; an     *)
(* index without metadata starts over.                                    *)
StandsAt(n, vb) ==
  LET d == dest[n][vb]
  IN IF d.log = <<>> THEN [uuid |-> 0, seq |-> 0]
     ELSE [uuid |-> d.log[1].uuid, seq |-> LastSeq(d)]

(* Another feed has been made for the index since. *)
Succeeded(f) ==
  \E g \in Feeds :
    g > f /\ feed[g].st # "unmade" /\ feed[g].name = feed[f].name

(* checkAndUpdateVBucketState: the failover log of the feed's stream becomes *)
(* the metadata of the Dest.                                                *)
Stored(d, log, f) == [d EXCEPT !.log = log, !.stray = @ \/ Succeeded(f)]

(* A goroutine of its own for every call of initiateStreamEx. *)
Opener(f, vb, isNew, at) ==
  LET used == {o.slot : o \in {p \in openers : p.feed = f /\ p.vb = vb}}
  IN [feed |-> f, vb |-> vb, isNew |-> isNew, uuid |-> at.uuid, seq |-> at.seq,
      pc |-> "begin", slot |-> CHOOSE i \in 0..Cardinality(used) : i \notin used]

---------------------------------------------------------------------------
(* initiateStreamEx *)

(* A closed feed opens no stream; a new stream joins the wait group. *)
OpenBegins(o) ==
  LET f == o.feed
  IN /\ o.pc = "begin"
     /\ IF Alive(f)
        THEN /\ openers' = (openers \ {o}) \cup {[o EXCEPT !.pc = "sent"]}
             /\ feed' = IF o.isNew /\ o.vb \notin feed[f].active
                        THEN [feed EXCEPT ![f].active = @ \cup {o.vb},
                                          ![f].remaining = @ + 1]
                        ELSE feed
        ELSE openers' = openers \ {o} /\ UNCHANGED feed
     /\ UNCHANGED <<faults, source, kv, gen, dest, conn, mgr, rollbacks>>

(* The agent is closed: its requests are answered with ErrShutdown. *)
AgentClosed(f) == agents[feed[f].agent] = 0

(* KV grants the stream; the callback keeps the failover log, in the feed *)
(* and in the Dest. A Dest that was closed meanwhile refuses it, and the  *)
(* error closes the feed. The answer may come just when the timer has     *)
(* fired: waitForResponse then returns ErrTimeout for a stream that is    *)
(* open. Messages the connection delivers before the answer come first.    *)
OpenGranted(o, late) ==
  LET f == o.feed
      n == feed[f].name
      log == kv[o.vb].log
  IN /\ o.pc = "sent" /\ ~AgentClosed(f)
     /\ source = "alive"
     /\ link[f][o.vb].pos < 0 /\ link[f][o.vb].wire = <<>>
     /\ Accepts(o.vb, o.uuid, o.seq)
     /\ IF late THEN Spend("late") ELSE UNCHANGED faults
     /\ link' = [link EXCEPT ![f][o.vb] =
                   [@ EXCEPT !.pos = o.seq, !.known = TRUE, !.log = log]]
     /\ IF Stale(f)
        THEN UNCHANGED dest
        ELSE dest' = [dest EXCEPT ![n][o.vb] = Stored(@, log, f)]
     /\ openers' = (openers \ {o})
                     \cup IF late THEN {[o EXCEPT !.pc = "verify"]} ELSE {}
     /\ IF Stale(f) /\ ~late
        THEN CloseFrom(f, feed[f], "notify")
        ELSE UNCHANGED <<feed, agents, closeReq>>
     /\ UNCHANGED <<source, kv, gen, mgr, rollbacks>>

(* KV demands a rollback; a goroutine carries it out, and the restart of  *)
(* the pindex closes the feed.                                            *)
OpenRollsBack(o) ==
  LET f == o.feed
  IN /\ o.pc = "sent" /\ ~AgentClosed(f)
     /\ source = "alive"
     /\ link[f][o.vb].pos < 0
     /\ ~Accepts(o.vb, o.uuid, o.seq)
     /\ Record(f, Complete(feed[f], o.vb))
     /\ rollbacks' = rollbacks \cup
          {[feed |-> f, vb |-> o.vb, seq |-> RollbackPoint(o.vb, o.uuid)]}
     /\ openers' = openers \ {o}
     /\ UNCHANGED <<faults, source, kv, gen, dest, link, mgr>>

(* ErrShutdown, ErrSocketClosed, ErrScopeNotFound or ErrCollectionNotFound *)
OpenShutsDown(o) ==
  LET f == o.feed
  IN /\ o.pc = "sent"
     /\ \/ (AgentClosed(f) \/ source = "gone") /\ UNCHANGED faults
        \/ ~AgentClosed(f) /\ source = "alive" /\ Spend("shutdown")
     /\ Record(f, Shutdown(feed[f]))
     /\ openers' = openers \ {o}
     /\ UNCHANGED <<source, kv, gen, dest, link, mgr, rollbacks>>

(* Any other error, that of a stream which is open already included. *)
OpenFails(o) ==
  LET f == o.feed
  IN /\ o.pc = "sent" /\ ~AgentClosed(f)
     /\ \/ link[f][o.vb].pos >= 0 /\ UNCHANGED faults
        \/ link[f][o.vb].pos < 0 /\ Spend("refuse")
     /\ CloseFrom(f, Complete(feed[f], o.vb), "notify")
     /\ openers' = openers \ {o}
     /\ UNCHANGED <<source, kv, gen, dest, link, mgr, rollbacks>>

(* The request is cancelled after GocbcoreConnectTimeout, or fails with   *)
(* ErrForcedReconnect; KV may have opened the stream nevertheless, for    *)
(* nobody.                                                                *)
OpenTimesOut(o) ==
  LET f == o.feed
  IN /\ o.pc = "sent" /\ ~AgentClosed(f)
     /\ Spend("timeout")
     /\ openers' = (openers \ {o}) \cup {[o EXCEPT !.pc = "verify"]}
     /\ \/ UNCHANGED link
        \/ /\ source = "alive" /\ link[f][o.vb].pos < 0
           /\ Accepts(o.vb, o.uuid, o.seq)
           /\ link' = [link EXCEPT ![f][o.vb].pos = o.seq]
     /\ UNCHANGED <<source, kv, gen, dest, feed, agents, closeReq, mgr, rollbacks>>

(* checkIfSourceExists(false, true): what the tracker has cached. A bucket  *)
(* without an entry is gone; an entry that has no bucket yet is an error,   *)
(* and the answer no; for one without a manifest the server is asked.       *)
CachedGone ==
  ~tracker.there \/ (tracker.info = "partial" /\ source = "gone")

(* VerifySourceNotExists, checkIfSourceExists(false, false): the same after  *)
(* waiting for the listener's update, or for the server after 5 seconds.    *)
VerifySourceNotExists ==
  ~tracker.there \/ (tracker.info # "cold" /\ source = "gone")

OpenVerifies(o) ==
  LET f == o.feed
  IN /\ o.pc = "verify"
     /\ IF CachedGone
        THEN openers' = openers \ {o} /\ feed' = [feed EXCEPT ![f] = Shutdown(@)]
        ELSE /\ openers' = (openers \ {o}) \cup {[o EXCEPT !.pc = "closing"]}
             /\ UNCHANGED feed
     /\ UNCHANGED <<faults, source, kv, gen, dest, conn, mgr, rollbacks>>

(* What KV and the connection do with a stream that ends for a reason. *)
Ended(l, reason) ==
  [l EXCEPT !.pos = -1, !.known = FALSE,
            !.wire = IF l.known THEN Append(@, [kind |-> "end", why |-> reason])
                     ELSE @]

(* The lingering stream is closed and a new one requested from the same   *)
(* point (by a feed that is closed meanwhile: in vain), or the feed gives *)
(* up.                                                                    *)
OpenReopens(o) ==
  LET f == o.feed
  IN /\ o.pc = "closing" /\ ~AgentClosed(f)
     /\ link' = [link EXCEPT ![f][o.vb] = Ended(@, "closed")]
     /\ openers' = (openers \ {o}) \cup {[o EXCEPT !.pc = "begin", !.isNew = FALSE]}
     /\ UNCHANGED <<faults, source, kv, gen, dest, feed, agents, closeReq, mgr, rollbacks>>

OpenGivesUp(o) ==
  LET f == o.feed
  IN /\ o.pc = "closing"
     /\ IF AgentClosed(f) THEN UNCHANGED faults ELSE Spend("refuse")
     /\ CloseFrom(f, feed[f], "notify")
     /\ openers' = openers \ {o}
     /\ UNCHANGED <<source, kv, gen, dest, link, mgr, rollbacks>>

(* rollback: the Dest goes back to the point KV named, or starts over; it *)
(* asks for the restart of its pindex. The Dest of a pindex that was      *)
(* restarted meanwhile refuses.                                           *)
RollbackTo(d, seq, f) ==
  [data |-> [s \in 1..MaxSeq |-> IF s <= seq THEN d.data[s] ELSE 0],
   log |-> IF seq = 0 THEN <<>> ELSE d.log,
   stray |-> d.stray \/ Succeeded(f)]

RollbackRuns(r) ==
  LET n == feed[r.feed].name
  IN /\ rollbacks' = rollbacks \ {r}
     /\ IF Stale(r.feed)
        THEN UNCHANGED <<dest, janitor>>
        ELSE /\ \E to \in {0, r.seq} :
                  dest' = [dest EXCEPT ![n][r.vb] = RollbackTo(@, to, r.feed)]
             /\ janitor' = [janitor EXCEPT !.kicked = TRUE, !.restart = @ \cup {n}]
     /\ UNCHANGED <<faults, source, kv, gen, feed, conn, registry, tracker, wanted, openers>>

---------------------------------------------------------------------------
(* The observer: the messages of a stream, in order *)

NextMessage(f, vb) == Head(link[f][vb].wire)
Taken(f, vb) == [link EXCEPT ![f][vb].wire = Tail(@)]

(* SnapshotMarker and Mutation (Deletion, Expiration, SeqNoAdvanced and   *)
(* CreateCollection alike): the metadata goes first, then the item. The   *)
(* handlers do not ask whether the feed is closed. A closed Dest returns  *)
(* an error, which closes the feed.                                       *)
Mutation(f, vb) ==
  LET m == NextMessage(f, vb)
      n == feed[f].name
  IN /\ link[f][vb].wire # <<>> /\ m.kind = "mutation"
     /\ link' = Taken(f, vb)
     /\ IF Stale(f)
        THEN CloseFrom(f, feed[f], "notify") /\ UNCHANGED dest
        ELSE /\ dest' = [dest EXCEPT ![n][vb] =
                           Stored([@ EXCEPT !.data[m.seq] = m.uuid], link[f][vb].log, f)]
             /\ UNCHANGED <<feed, agents, closeReq>>
     /\ UNCHANGED <<faults, source, kv, gen, mgr, tasks>>

(* Mutant: a stream that moved to another node is not requested again. *)
ReconnectsNot(f, vb) == openers

(* End: a stream that moved or lost its connection is requested again     *)
(* from where the index stands; one that was closed leaves the wait       *)
(* group; a lost source or agent shuts the feed down.                     *)
Reconnects(f, vb) ==
  openers \cup {Opener(f, vb, FALSE, StandsAt(feed[f].name, vb))}

End(f, vb) ==
  LET m == NextMessage(f, vb)
  IN /\ link[f][vb].wire # <<>> /\ m.kind = "end"
     /\ link' = Taken(f, vb)
     /\ \/ /\ m.why = "reconnect"
           /\ openers' = Reconnects(f, vb) /\ UNCHANGED feed
        \/ /\ m.why = "closed"
           /\ feed' = [feed EXCEPT ![f] = Complete(@, vb)] /\ UNCHANGED openers
        \/ /\ m.why = "shutdown"
           /\ feed' = [feed EXCEPT ![f] = Shutdown(Complete(@, vb))]
           /\ UNCHANGED openers
     /\ UNCHANGED <<faults, source, kv, gen, dest, agents, closeReq, mgr, rollbacks>>

(* The application's OnFeedError, external: it asks VerifySourceNotExists, *)
(* deletes the index of a source that is gone, and otherwise has the feed  *)
(* closed and the manager told.                                            *)
OnFeedError(f) ==
  /\ feed[f].shut = "told"
  /\ LET heard == [feed[f] EXCEPT !.shut = "done"]
     IN IF VerifySourceNotExists
        THEN /\ Record(f, heard)
             /\ wanted' = wanted \ {feed[f].name}
             /\ janitor' = [janitor EXCEPT !.kicked = TRUE]
        ELSE CloseFrom(f, heard, "notify") /\ UNCHANGED <<wanted, janitor>>
  /\ UNCHANGED <<faults, source, kv, gen, dest, link, registry, tracker, tasks>>

---------------------------------------------------------------------------
(* Agents, tracker, registry: starting and closing a feed *)

(* Mutant: an agent at its limit is handed out once more. *)
FetchFromFull(f) ==
  LET room == {a \in Feeds : agents[a] \in 1..limits.maxFeeds}
  IN IF room = {} THEN {f} ELSE room

(* fetchAgent: any agent with room, or a new one named after the feed. *)
WithRoom == {a \in Feeds : agents[a] \in 1..(limits.maxFeeds - 1)}
FetchFrom(f) == IF WithRoom = {} THEN {f} ELSE WithRoom

NoEntry == [there |-> FALSE, refs |-> 0, on |-> FALSE, info |-> "cold"]

(* trackBucket: the first feed makes the entry and starts its listener. *)
TrackBucket(t) ==
  IF t.there /\ t.refs > 0 THEN [t EXCEPT !.refs = @ + 1]
  ELSE [there |-> TRUE, refs |-> 1, on |-> TRUE, info |-> "cold"]

(* untrackBucket: the last one stops it; the entry stays. *)
UntrackBucket(t) ==
  IF ~t.there THEN t
  ELSE [t EXCEPT !.refs = @ - 1, !.on = @ /\ t.refs # 1]

(* The rest of close(): whatever feed is registered under the name is      *)
(* unregistered,                                                           *)
CloseUnregisters(f) ==
  /\ feed[f].st = "closing"
  /\ feed' = [feed EXCEPT ![f].st = "waiting"]
  /\ registry' = [registry EXCEPT ![feed[f].name] = NoFeed]
  /\ UNCHANGED <<faults, source, kv, gen, dest, conn, tracker, janitor, wanted, tasks>>

(* and the bucket untracked once the wait group is empty.                  *)
CloseEnds(f) ==
  /\ feed[f].st = "waiting" /\ feed[f].remaining = 0
  /\ feed' = [feed EXCEPT ![f].st = "gone"]
  /\ tracker' = UntrackBucket(tracker)
  /\ janitor' = [janitor EXCEPT !.kicked = @ \/ feed[f].how = "notify"]
  /\ UNCHANGED <<faults, source, kv, gen, dest, conn, registry, wanted, tasks>>

Unmade == {f \in 1..limits.feeds : feed[f].st = "unmade"}

(* StartGocbcoreDCPFeed for a name of the janitor's pass: the feed cannot  *)
(* be prepared, and the manager is kicked;                                 *)
StartUnprepared(n) ==
  /\ Spend("setup")
  /\ janitor' = [janitor EXCEPT !.starts = @ \ {n}, !.kicked = TRUE]
  /\ UNCHANGED <<source, kv, gen, dest, feed, conn, registry, tracker, wanted, tasks>>

(* or it is registered and tracked, and Start spawns an initiateStreamEx   *)
(* for every vbucket, up to one whose metadata cannot be read.             *)
StartRuns(n, begun) ==
  LET f == Min(Unmade)
  IN /\ registry[n] = NoFeed /\ Unmade # {}
     /\ IF begun = limits.vbs THEN UNCHANGED faults ELSE Spend("meta")
     /\ openers' = openers \cup
          {Opener(f, vb, TRUE, StandsAt(n, vb)) : vb \in begun}
     /\ \E a \in FetchFrom(f) :
          /\ feed' = [feed EXCEPT ![f].st = "open", ![f].name = n,
                                  ![f].agent = a, ![f].gen = gen[n]]
          /\ agents' = [agents EXCEPT ![a] = @ + 1]
     /\ registry' = [registry EXCEPT ![n] = f]
     /\ tracker' = TrackBucket(tracker)
     /\ janitor' = [janitor EXCEPT !.starts = @ \ {n},
                      !.failed = IF begun = limits.vbs THEN NoFeed ELSE f]
     /\ UNCHANGED <<source, kv, gen, dest, link, closeReq, wanted, rollbacks>>

(* The bucket of a feed that failed to start is untracked, here and by     *)
(* close() again.                                                          *)
StartFails ==
  LET f == janitor.failed
  IN /\ f # NoFeed
     /\ tracker' = UntrackBucket(tracker)
     /\ CloseFrom(f, feed[f], "notify")
     /\ janitor' = [janitor EXCEPT !.failed = NoFeed,
                      !.waits = IF Alive(f) THEN f ELSE NoFeed]
     /\ UNCHANGED <<faults, source, kv, gen, dest, link, registry, wanted, tasks>>

(* The janitor's pass: it closes the feeds that are not wanted any more    *)
(* and those of pindexes to be restarted, then starts the missing ones.    *)
JanitorIdle == janitor.waits = NoFeed /\ janitor.failed = NoFeed

JanitorOnce ==
  /\ janitor.kicked /\ JanitorIdle
  /\ janitor.closes = {} /\ janitor.starts = {}
  /\ janitor' = [janitor EXCEPT
       !.kicked = FALSE, !.restart = {},
       !.closes = (janitor.restart \cap wanted)
                    \cup {n \in limits.names \ wanted : registry[n] # NoFeed},
       !.starts = {n \in wanted : registry[n] = NoFeed \/ n \in janitor.restart}]
  /\ UNCHANGED <<faults, source, kv, gen, dest, feed, conn, registry, tracker, wanted, tasks>>

(* stopFeed takes the feed from the registry before it closes it, so that  *)
(* registerFeed finds the name free. Close() returns at once when another  *)
(* goroutine is closing the feed.                                          *)
JanitorCloses(n) ==
  LET f == registry[n]
  IN /\ n \in janitor.closes /\ JanitorIdle /\ f # NoFeed
     /\ registry' = [registry EXCEPT ![n] = NoFeed]
     /\ CloseFrom(f, feed[f], "quiet")
     /\ janitor' = [janitor EXCEPT !.waits = IF Alive(f) THEN f ELSE NoFeed]
     /\ UNCHANGED <<faults, source, kv, gen, dest, link, tracker, wanted, tasks>>

(* The rest of stopPIndex: the Dest is closed with its pindex. *)
JanitorClosesDest(n) ==
  /\ n \in janitor.closes /\ JanitorIdle /\ registry[n] = NoFeed
  /\ gen' = [gen EXCEPT ![n] = @ + 1]
  /\ janitor' = [janitor EXCEPT !.closes = @ \ {n}]
  /\ UNCHANGED <<faults, source, kv, dest, feed, conn, registry, tracker, wanted, tasks>>

JanitorWaited ==
  /\ janitor.waits # NoFeed /\ feed[janitor.waits].st = "gone"
  /\ janitor' = [janitor EXCEPT !.waits = NoFeed]
  /\ UNCHANGED <<faults, source, kv, gen, dest, feed, conn, registry, tracker, wanted, tasks>>

JanitorStarts(n) ==
  /\ n \in janitor.starts /\ JanitorIdle /\ janitor.closes = {}
  /\ \/ StartUnprepared(n)
     \/ \E begun \in SUBSET limits.vbs : StartRuns(n, begun)

(* The listener's decodeAndNotifyResponse: the entry is filled, all of it   *)
(* or without the manifest that has to be fetched, or deleted with the      *)
(* bucket.                                                                  *)
Listen ==
  /\ tracker.there /\ tracker.on
  /\ \/ source = "gone" /\ tracker' = NoEntry /\ UNCHANGED faults
     \/ /\ source = "alive" /\ tracker.info # "warm"
        /\ tracker' = [tracker EXCEPT !.info = "warm"]
        /\ UNCHANGED faults
     \/ /\ source = "alive" /\ tracker.info = "cold"
        /\ tracker' = [tracker EXCEPT !.info = "partial"]
        /\ Spend("setup")
  /\ UNCHANGED <<source, kv, gen, dest, feed, conn, registry, janitor, wanted, tasks>>

---------------------------------------------------------------------------
(* KV and the connection, external *)

OnVb(vb, reason) ==
  [f \in Feeds |-> [link[f] EXCEPT ![vb] =
     IF link[f][vb].pos >= 0 THEN Ended(@, reason) ELSE @]]

KvWrites(vb) ==
  /\ source = "alive" /\ Len(kv[vb].hist) < MaxSeq
  /\ Spend("write")
  /\ kv' = [kv EXCEPT ![vb].hist = Append(@, kv[vb].log[1].uuid)]
  /\ UNCHANGED <<source, gen, dest, feed, conn, mgr, tasks>>

(* A replica that lacks the last mutations takes over: a new branch, whose *)
(* log goes on with the entries of the old one that lie on it, and the     *)
(* streams of the vbucket end with a state change.                         *)
KvFailsOver(vb) ==
  /\ source = "alive" /\ kv[vb].uuids < MaxUuid
  /\ Spend("failover")
  /\ \E k \in 0..Len(kv[vb].hist), i \in DOMAIN kv[vb].log :
       /\ kv[vb].log[i].seq <= k
       /\ i > 1 => kv[vb].log[i - 1].seq > k
       /\ kv' = [kv EXCEPT ![vb] =
                   [hist |-> SubSeq(@.hist, 1, k),
                    uuids |-> @.uuids + 1,
                    log |-> <<[uuid |-> @.uuids + 1, seq |-> k]>>
                              \o SubSeq(@.log, i, Len(@.log))]]
  /\ link' = OnVb(vb, "reconnect")
  /\ UNCHANGED <<source, gen, dest, feed, agents, closeReq, mgr, tasks>>

(* Messages of a stream whose request was cancelled are dropped. *)
KvSends(f, vb) ==
  LET l == link[f][vb]
  IN /\ l.pos \in 0..(Len(kv[vb].hist) - 1)
     /\ l.known /\ Len(l.wire) < WireCap
     /\ link' = [link EXCEPT ![f][vb] =
          [l EXCEPT !.pos = l.pos + 1,
                    !.wire = Append(@, [kind |-> "mutation", seq |-> l.pos + 1,
                                        uuid |-> kv[vb].hist[l.pos + 1]])]]
     /\ UNCHANGED <<faults, source, kv, gen, dest, feed, agents, closeReq, mgr, tasks>>

(* A stream is disconnected, found too slow, or loses its socket. *)
KvEnds(f, vb, why) ==
  /\ link[f][vb].pos >= 0
  /\ Spend(IF why = "reconnect" THEN "drop" ELSE "shutdown")
  /\ link' = [link EXCEPT ![f][vb] = Ended(@, why)]
  /\ UNCHANGED <<source, kv, gen, dest, feed, agents, closeReq, mgr, tasks>>

(* KV handles a CloseStream after the OpenStream sent before it. *)
KvCloses(f, vb) ==
  /\ <<f, vb>> \in closeReq
  /\ \A o \in openers : o.feed = f /\ o.vb = vb => o.pc # "sent"
  /\ closeReq' = closeReq \ {<<f, vb>>}
  /\ link' = [link EXCEPT ![f][vb] = IF @.pos >= 0 THEN Ended(@, "closed") ELSE @]
  /\ UNCHANGED <<faults, source, kv, gen, dest, feed, agents, mgr, tasks>>

(* agent.Close(): the streams of the connection end with ErrShutdown. *)
AgentCloses(f) ==
  /\ feed[f].st \in {"closing", "waiting", "gone"} /\ AgentClosed(f)
  /\ StreamsOf(f) # {}
  /\ link' = [link EXCEPT ![f] = [vb \in VBs |->
                IF @[vb].pos >= 0 THEN Ended(@[vb], "shutdown") ELSE @[vb]]]
  /\ UNCHANGED <<faults, source, kv, gen, dest, feed, agents, closeReq, mgr, tasks>>

(* The scope or the bucket is dropped: DeleteScope, DeleteCollection or an *)
(* empty filter ends the streams.                                          *)
SourceDrops ==
  /\ source = "alive"
  /\ Spend("gone")
  /\ source' = "gone"
  /\ link' = [f \in Feeds |-> [vb \in VBs |->
       IF link[f][vb].pos >= 0 THEN Ended(link[f][vb], "shutdown") ELSE link[f][vb]]]
  /\ UNCHANGED <<kv, gen, dest, feed, agents, closeReq, mgr, tasks>>

(* The plan changes the pindex of a name, and with it its feed. *)
PlanRestarts(n) ==
  /\ Spend("restart")
  /\ janitor' = [janitor EXCEPT !.kicked = TRUE, !.restart = @ \cup {n}]
  /\ UNCHANGED <<source, kv, gen, dest, feed, conn, registry, tracker, wanted, tasks>>

---------------------------------------------------------------------------

NoLink == [pos |-> -1, known |-> FALSE, wire |-> <<>>, log |-> <<>>]
NewFeed == [st |-> "unmade", name |-> CHOOSE n \in Names : TRUE, agent |-> 1,
            active |-> {}, remaining |-> 0, shut |-> "no", how |-> "quiet",
            gen |-> 0]

Init ==
  /\ limits \in Scenarios
  /\ left = limits.budget
  /\ source = "alive"
  /\ kv = [vb \in VBs |-> [hist |-> <<>>, uuids |-> 1,
                           log |-> <<[uuid |-> 1, seq |-> 0]>>]]
  /\ dest = [n \in Names |-> [vb \in VBs |->
               [data |-> [s \in 1..MaxSeq |-> 0], log |-> <<>>, stray |-> FALSE]]]
  /\ feed = [f \in Feeds |-> NewFeed]
  /\ agents = [f \in Feeds |-> 0]
  /\ registry = [n \in Names |-> NoFeed]
  /\ tracker = NoEntry
  /\ openers = {} /\ closeReq = {} /\ rollbacks = {}
  /\ link = [f \in Feeds |-> [vb \in VBs |-> NoLink]]
  /\ gen = [n \in Names |-> 0]
  /\ janitor = [kicked |-> TRUE, restart |-> {}, closes |-> {}, starts |-> {},
                waits |-> NoFeed, failed |-> NoFeed]
  /\ wanted = limits.names

StreamOpening ==
  \E o \in openers :
    \/ OpenBegins(o) \/ OpenRollsBack(o) \/ OpenShutsDown(o) \/ OpenFails(o)
    \/ OpenVerifies(o) \/ OpenReopens(o) \/ OpenGivesUp(o)
    \/ \E late \in BOOLEAN : OpenGranted(o, late)

Feeding ==
  \E f \in Feeds :
    \/ CloseUnregisters(f) \/ CloseEnds(f) \/ OnFeedError(f) \/ AgentCloses(f)
    \/ \E vb \in VBs : \/ Mutation(f, vb) \/ End(f, vb)
                       \/ KvSends(f, vb) \/ KvCloses(f, vb)

Managing ==
  \/ JanitorOnce \/ JanitorWaited \/ StartFails \/ Listen
  \/ \E n \in Names : JanitorCloses(n) \/ JanitorClosesDest(n) \/ JanitorStarts(n)
  \/ \E r \in rollbacks : RollbackRuns(r)

(* What the program and KV do of themselves. *)
Progress == StreamOpening \/ Feeding \/ Managing

(* What happens to them. *)
Happens ==
  \/ \E vb \in limits.vbs : KvWrites(vb) \/ KvFailsOver(vb)
  \/ \E f \in Feeds, vb \in limits.vbs, why \in {"reconnect", "shutdown"} :
       KvEnds(f, vb, why)
  \/ \E o \in openers : OpenTimesOut(o)
  \/ SourceDrops
  \/ \E n \in limits.names : PlanRestarts(n)

Next == Progress \/ Happens

(* Goroutines run, requests are answered or time out, and messages that    *)
(* are sent arrive.                                                        *)
Spec == Init /\ [][Next]_vars /\ WF_vars(Progress)

---------------------------------------------------------------------------
(* Properties *)

TypeOK ==
  /\ limits \in Scenarios
  /\ source \in {"alive", "gone"}
  /\ \A f \in Feeds :
       /\ feed[f].st \in {"unmade", "open", "closing", "waiting", "gone"}
       /\ feed[f].active \subseteq VBs
       /\ feed[f].remaining \in 0..Cardinality(VBs)
       /\ agents[f] \in 0..Cardinality(Feeds)
       /\ \A vb \in VBs : link[f][vb].pos \in -1..MaxSeq
  /\ registry \in [Names -> Feeds \cup {NoFeed}]
  /\ tracker.there \in BOOLEAN /\ tracker.refs \in Int
  /\ wanted \subseteq Names

(* The pool of agents counts its users: an agent that open feeds hold is   *)
(* open, its Refs are those feeds, and no agent serves more feeds than     *)
(* maxFeedsPerDCPAgent (fetchAgent, releaseAgent), whatever way the feeds  *)
(* fail and close.                                                         *)
AgentsAreCounted ==
  \A a \in Feeds :
    /\ agents[a] = Cardinality({f \in Feeds : Alive(f) /\ feed[f].agent = a})
    /\ agents[a] <= limits.maxFeeds

(* No request of a stream was answered just when its timer had fired. *)
NoAnswerCrossed == left.late = limits.budget.late

(* A stream continues what the index holds: every mutation before the      *)
(* first one that the observer has yet to see is in the Dest, from the     *)
(* branch of history the stream is on. No reconnect, timeout, failover or  *)
(* rollback leaves a gap or mixes two branches (initiateStreamEx, End,     *)
(* rollback), but for what a closed feed still delivers, or rolls back,    *)
(* after its successor has been started on the same Dest, and for the      *)
(* answer that crosses its timeout: its stream is requested again from     *)
(* where the index once stood.                                             *)
StreamContinuesIndex ==
  NoAnswerCrossed =>
    \A f \in Feeds, vb \in VBs :
      LET l == link[f][vb]
          d == dest[feed[f].name][vb]
      IN l.known /\ ~Stale(f) /\ ~d.stray =>
           \A s \in 1..l.pos :
             \/ \E i \in DOMAIN l.wire : l.wire[i].kind = "mutation" /\ l.wire[i].seq <= s
             \/ d.data[s] = kv[vb].hist[s]

(* A feed that has closed leaves no stream on an agent that other feeds    *)
(* keep open ("This will call close on all streams on feed closure",       *)
(* closeAllStreamsLOCKED), but for the answer that crosses its timeout:    *)
(* its stream is requested again outside the feed's wait group.            *)
ClosedFeedsLeaveNoStream ==
  NoAnswerCrossed =>
    \A f \in Feeds, vb \in VBs :
      feed[f].st = "gone" /\ link[f][vb].pos >= 0 =>
        AgentClosed(f) \/ <<f, vb>> \in closeReq

Indexed ==
  \A n \in limits.names, vb \in limits.vbs, s \in 1..MaxSeq :
    \/ dest[n][vb].data[s] =
         IF s <= Len(kv[vb].hist) THEN kv[vb].hist[s] ELSE 0
    \/ dest[n][vb].stray

(* While the source exists, whatever disconnects, times out, fails over,   *)
(* rolls back or restarts, the index comes to hold what KV holds, unless a *)
(* feed with a successor has written to it: a feed that stops streaming is *)
(* reopened or closed with the manager told, and close() returns. Once the *)
(* source is gone its feeds close, also those whose streams were still     *)
(* being opened.                                                           *)
FeedsSettle ==
  <>[](IF source = "alive" THEN Indexed
       ELSE \A f \in Feeds : feed[f].st \in {"unmade", "gone"})

(* "We're depending on feed to synchronously close, so we know it'll no     *)
(* longer be sending to any of its dests anymore" (stopFeed,                *)
(* manager_janitor.go:1511-1512): once a pindex is stopped, no mutation is  *)
(* on its way to its Dest through the observer of a feed it had.            *)
StoppedFeedsAreSilent ==
  \A f \in Feeds, vb \in VBs :
    Stale(f) => \A i \in DOMAIN link[f][vb].wire : link[f][vb].wire[i].kind = "end"

=============================================================================
