----------------------------- MODULE MCFeedDcp -----------------------------
(* Small instances of FeedDcp and of ConsistencyWait on top of it for TLC. *)
EXTENDS ConsistencyWait, TLC

NoFaults == [k \in Faults |-> 0]

Base == [names |-> {"n1"}, vbs |-> {"v1"}, maxFeeds |-> 1, feeds |-> 5,
         budget |-> [NoFaults EXCEPT !["write"] = 2]]

With(names, vbs, max, b) ==
  [Base EXCEPT !.names = names, !.vbs = vbs, !.maxFeeds = max, !.budget = b @@ @]

(* One stream: it is dropped, times out, fails over. *)
Moving == With({"n1"}, {"v1"}, 1,
  ("write" :> 3) @@ ("failover" :> 1) @@ ("drop" :> 1))
Branching == With({"n1"}, {"v1"}, 1, ("write" :> 3) @@ ("failover" :> 2))
Slow == With({"n1"}, {"v1"}, 1, ("timeout" :> 1) @@ ("drop" :> 1) @@ ("refuse" :> 1))
Crossing == With({"n1"}, {"v1"}, 1,
  ("timeout" :> 1) @@ ("late" :> 1) @@ ("drop" :> 1))
(* Two feeds on one agent, and one more that does not fit. *)
Shared == With({"n1", "n2", "n3"}, {"v1"}, 2, ("write" :> 1) @@ ("refuse" :> 1))
Restarting == With({"n1", "n2"}, {"v1"}, 2, ("write" :> 1) @@ ("restart" :> 1))
(* Two vbuckets. *)
Wide == With({"n1"}, {"v1", "v2"}, 1, ("write" :> 1) @@ ("refuse" :> 1))
Unread == With({"n1"}, {"v1", "v2"}, 1, ("write" :> 1) @@ ("meta" :> 1))
UnreadLost == With({"n1"}, {"v1"}, 1, ("write" :> 1) @@ ("meta" :> 1) @@ ("gone" :> 1))
Lost == [With({"n1"}, {"v1", "v2"}, 1, ("write" :> 1) @@ ("gone" :> 1))
           EXCEPT !.feeds = 2]
LostSlowly == With({"n1"}, {"v1"}, 1,
  ("write" :> 1) @@ ("gone" :> 1) @@ ("timeout" :> 1) @@ ("setup" :> 1))
Storm == With({"n1"}, {"v1"}, 1,
  ("write" :> 1) @@ ("failover" :> 1) @@ ("timeout" :> 1) @@ ("restart" :> 1))
Shut == With({"n1"}, {"v1"}, 1, ("shutdown" :> 1) @@ ("setup" :> 1) @@ ("restart" :> 1))

(* A query waits for two pindexes, for one that is restarted or fails over, *)
(* or for two vbuckets.                                                     *)
AskTwo == With({"n1", "n2"}, {"v1"}, 2, ("ask" :> 1))
AskAnew == With({"n1"}, {"v1"}, 1, ("write" :> 1) @@ ("ask" :> 1) @@ ("restart" :> 1))
AskLost == With({"n1"}, {"v1"}, 1, ("ask" :> 1) @@ ("failover" :> 1))
AskWide == With({"n1"}, {"v1", "v2"}, 1, ("ask" :> 1))
AskSick == With({"n1", "n2"}, {"v1"}, 2, ("write" :> 1) @@ ("askSick" :> 1))

MCScenarios == {Moving, Branching, Slow, Crossing, Shared, Restarting, Wide, Unread, UnreadLost,
                Lost, LostSlowly, Storm, Shut, AskTwo, AskAnew, AskLost, AskWide, AskSick}

(* A pindex is restarted while mutations arrive. *)
Stopped == With({"n1", "n2"}, {"v1"}, 2, ("write" :> 1) @@ ("restart" :> 1))
StoppedScenarios == {Stopped}

=============================================================================
