--------------------------- MODULE TapestryFeeds ---------------------------
(***************************************************************************)
(* The activity feed of one wallet in the Tapestry proxy: reading it       *)
(* through a cache by limit and page, publishing game events with a retry, *)
(* and the other handlers that add activities.  Requests of one server     *)
(* process interleave at their awaits.  An API key is configured; finding  *)
(* the requester's profile is one call here (module TapestryProfiles).     *)
(*                                                                         *)
(* Time is kept as ages: an entry's age is the time since its ts, its old  *)
(* the time since Tapestry read the feed in it (no variable of the code).  *)
(***************************************************************************)
EXTENDS Naturals, Sequences, SequencesExt, FiniteSets, Functions, TLC

CONSTANTS
    Requests,       \* requests the process serves at a time (bound)
    Limits, Pages,  \* limits and pages asked for
    Rounds,         \* rounds of published events; 0 for an event without round
    TTL,            \* ACTIVITY_FEED_CACHE_TTL_MS
    TIMEOUT,        \* TAPESTRY_TIMEOUT_MS
    PAGESIZE,       \* TAPESTRY_PAGE_SIZE
    MAXENTRIES,     \* ACTIVITY_FEED_CACHE_MAX_ENTRIES
    CALLS           \* calls that add an activity (bound)

VARIABLES
    acts,       \* Tapestry: the wallet's activities, newest first, with the call that added each
    cache,      \* activityFeedCacheByKey: <<limit, page>> |-> entry
    req,        \* what each request is doing
    calls,      \* number of calls that add an activity so far
    acked       \* calls answered with ok

vars == <<acts, cache, req, calls, acked>>

Keys == Limits \X Pages

\* The longest time since a served feed was read: a life in the cache, the list
\* and the two enrichments.
OLDEST == TTL + 3 * TIMEOUT

Idle == [ph |-> "idle", op |-> "none", key |-> <<1, 1>>, id |-> <<>>, call |-> 0,
         seen |-> {}, old |-> 0, empty |-> FALSE, after |-> {}, wait |-> 0]

\* The activities of a request: Tapestry's page of that number, of the size the
\* proxy always asks for, cut down to the limit.
FeedPage(feed, key) ==
    LET from == (key[2] - 1) * PAGESIZE + 1
        upto == IF key[1] < PAGESIZE THEN from + key[1] - 1 ELSE from + PAGESIZE - 1
    IN SubSeq(feed, from, IF upto > Len(feed) THEN Len(feed) ELSE upto)

\* evictOldestEntries: the oldest entries are gone first.
Evicted(map) ==
    {Restrict(map, K) : K \in {K \in SUBSET DOMAIN map :
        /\ Cardinality(K) = IF Cardinality(DOMAIN map) <= MAXENTRIES THEN Cardinality(DOMAIN map) ELSE MAXENTRIES
        /\ \A k \in K, d \in DOMAIN map \ K : map[k].age <= map[d].age}}

\* getFreshActivityFeedFromCache finds an entry.
Fresh(k) == k \in DOMAIN cache /\ cache[k].age <= TTL

\* invalidateActivityFeed: every limit and page of the wallet.
Invalidated == <<>>

Init ==
    /\ acts = <<>> /\ cache = <<>>
    /\ req = [r \in Requests |-> Idle]
    /\ calls = 0 /\ acked = {}

\* getActivityFeed begins: a fresh entry is the reply, an expired one is deleted.
GetActivityFeed(r, k) ==
    /\ req[r].ph = "idle"
    /\ IF Fresh(k)
       THEN /\ req' = [req EXCEPT ![r] = [Idle EXCEPT !.ph = "reply", !.op = "feed", !.key = k, !.after = acked,
                            !.seen = cache[k].seen, !.old = cache[k].old, !.empty = cache[k].empty]]
            /\ UNCHANGED cache
       ELSE /\ req' = [req EXCEPT ![r] = [Idle EXCEPT !.ph = "profile", !.op = "feed", !.key = k, !.after = acked]]
            /\ cache' = Restrict(cache, DOMAIN cache \ {k})
    /\ UNCHANGED <<acts, calls, acked>>

\* The request puts a feed into the cache and replies with it.
Serve(r, seen, old, empty) ==
    /\ cache' \in Evicted((req[r].key :> [age |-> 0, seen |-> seen, old |-> old, empty |-> empty]) @@ cache)
    /\ req' = [req EXCEPT ![r].ph = "reply", ![r].seen = seen, ![r].old = old, ![r].empty = empty]
    /\ UNCHANGED <<acts, calls, acked>>

\* The profile could not be found or has no name, or Tapestry does not know the
\* feed (404): an empty feed is cached and served.
EmptyFeed(r) ==
    /\ req[r].op = "feed" /\ req[r].ph \in {"profile", "list"}
    /\ Serve(r, {}, 0, TRUE)

\* Any other error of the list is the reply; nothing is cached.
FeedFails(r) ==
    /\ req[r].op = "feed" /\ req[r].ph = "list"
    /\ req' = [req EXCEPT ![r] = Idle]
    /\ UNCHANGED <<acts, cache, calls, acked>>

\* feedList answers with what Tapestry read while the request waited.
FeedList(r) ==
    /\ req[r].op = "feed" /\ req[r].ph = "list"
    /\ \E old \in 0 .. req[r].wait :
        req' = [req EXCEPT ![r].ph = "content", ![r].wait = 0, ![r].old = old,
                           ![r].seen = Range(FeedPage(acts, req[r].key))]
    /\ UNCHANGED <<acts, cache, calls, acked>>

\* enrichContentActivities comes back; a failure leaves the activities bare.
EnrichContentActivities(r) ==
    /\ req[r].ph = "content"
    /\ req' = [req EXCEPT ![r].ph = "wallets", ![r].wait = 0]
    /\ UNCHANGED <<acts, cache, calls, acked>>

\* enrichActivitiesWithWallets comes back, and the feed is cached and served.
EnrichActivitiesWithWallets(r) ==
    /\ req[r].ph = "wallets"
    /\ Serve(r, req[r].seen, req[r].old, FALSE)

\* Content id of a published event: by round, or by the time of the call.
ContentId(round, call, attempt) == IF round = 0 THEN <<"event", "now", call>> ELSE <<"event", round>>

\* A handler that changes something begins, most with the requester's profile.
Begin(r, op, ph, id) ==
    /\ req[r].ph = "idle" /\ calls < CALLS
    /\ calls' = calls + 1
    /\ req' = [req EXCEPT ![r] = [Idle EXCEPT !.ph = ph, !.op = op, !.id = id, !.call = calls + 1]]
    /\ UNCHANGED <<acts, cache, acked>>

\* handlePublishEvent
HandlePublishEvent(r, round) == Begin(r, "publish", "profile", <<round>>)

\* handleFollow, to follow or to unfollow.
HandleFollow(r) == Begin(r, "follow", "profile", <<"follow", calls + 1>>)

\* handleLike and handleUnlike.
HandleLike(r) == Begin(r, "like", "profile", <<"like", calls + 1>>)

\* createComment
CreateComment(r) == Begin(r, "comment", "profile", <<"comment", calls + 1>>)

\* deleteComment, which needs no profile.
DeleteComment(r) == Begin(r, "delete", "call", <<"delete", calls + 1>>)

\* The requester's profile is found or created.
GotProfile(r) ==
    /\ req[r].ph = "profile"
    /\ req' = [req EXCEPT ![r].wait = 0,
                          ![r].ph = CASE req[r].op = "feed" -> "list"
                                      [] req[r].op = "follow" -> "target"
                                      [] OTHER -> "call"]
    /\ UNCHANGED <<acts, cache, calls, acked>>

\* handleFollow has the target's profile, from the body or by a lookup.
GotTarget(r) ==
    /\ req[r].ph = "target"
    /\ req' = [req EXCEPT ![r].ph = "call", ![r].wait = 0]
    /\ UNCHANGED <<acts, cache, calls, acked>>

\* No profile, no target, the target is the requester, or a failed call: the
\* handler answers with an error.  A publication goes on to a second attempt
\* unless Tapestry refused the first.
HandlerFails(r) ==
    /\ req[r].op # "feed"
    /\ req[r].ph \in {"profile", "target", "call", "retry"}
    /\ req' = [req EXCEPT ![r] = Idle]
    /\ UNCHANGED <<acts, cache, calls, acked>>

\* Tapestry after a call: an activity of a new id, none for an id it knows.
\* Unfollowing and unliking add none.
Added(r) ==
    LET attempt == IF req[r].ph = "retry" THEN 2 ELSE 1
        id == IF req[r].op = "publish" THEN ContentId(req[r].id[1], req[r].call, attempt) ELSE req[r].id
    IN IF \E i \in DOMAIN acts : acts[i].id = id THEN acts
       ELSE <<[id |-> id, call |-> req[r].call]>> \o acts

\* The answer of a publication is lost or is a server error, with or without
\* the item created: the first time it is tried again, the second time the
\* handler answers with the error.
PublishLost(r) ==
    /\ req[r].op = "publish" /\ req[r].ph \in {"call", "retry"}
    /\ acts' \in {acts, Added(r)}
    /\ req' = IF req[r].ph = "call" THEN [req EXCEPT ![r].ph = "retry", ![r].wait = 0] ELSE [req EXCEPT ![r] = Idle]
    /\ UNCHANGED <<cache, calls, acked>>

\* The call succeeds.  Publishing and following forget the requester's feeds;
\* likes and comments do not.
CallDone(r) ==
    /\ req[r].ph \in {"call", "retry"}
    /\ acts' \in CASE req[r].op \in {"publish", "comment"} -> {Added(r)}
                  [] req[r].op \in {"follow", "like"} -> {acts, Added(r)}
                  [] OTHER -> {acts}
    /\ cache' = IF req[r].op \in {"publish", "follow"} THEN Invalidated ELSE cache
    /\ acked' = acked \union {req[r].call}
    /\ req' = [req EXCEPT ![r].ph = "reply"]
    /\ UNCHANGED calls

\* The reply is sent.
Reply(r) ==
    /\ req[r].ph = "reply"
    /\ req' = [req EXCEPT ![r] = Idle]
    /\ UNCHANGED <<acts, cache, calls, acked>>

\* The function instance is stopped; the next one starts with an empty cache.
ColdStart ==
    /\ cache # <<>>
    /\ cache' = <<>>
    /\ req' = [r \in Requests |-> Idle]
    /\ UNCHANGED <<acts, calls, acked>>

Older(n, max) == IF n > max THEN n ELSE n + 1

\* Time passes; a call that has reached its timeout comes back first, and a
\* reply is sent at once.
Tick ==
    /\ \A r \in Requests : req[r].ph # "idle" => req[r].ph # "reply" /\ req[r].wait < TIMEOUT
    /\ cache' = [k \in DOMAIN cache |-> [cache[k] EXCEPT !.age = Older(@, TTL), !.old = Older(@, OLDEST)]]
    /\ req' = [r \in Requests |->
                 IF req[r].ph = "idle" THEN Idle
                 ELSE [req[r] EXCEPT !.wait = @ + 1,
                                     !.old = IF req[r].ph \in {"content", "wallets"} THEN @ + 1 ELSE @]]
    /\ UNCHANGED <<acts, calls, acked>>

FeedStep(r) ==
    \/ \E k \in Keys : GetActivityFeed(r, k)
    \/ EmptyFeed(r) \/ FeedFails(r) \/ FeedList(r)
    \/ EnrichContentActivities(r) \/ EnrichActivitiesWithWallets(r)

HandlerStep(r) ==
    \/ \E round \in Rounds : HandlePublishEvent(r, round)
    \/ HandleFollow(r) \/ HandleLike(r) \/ CreateComment(r) \/ DeleteComment(r)
    \/ GotProfile(r) \/ GotTarget(r) \/ HandlerFails(r) \/ PublishLost(r) \/ CallDone(r) \/ Reply(r)

Next == Tick \/ ColdStart \/ \E r \in Requests : FeedStep(r) \/ HandlerStep(r)

Spec == Init /\ [][Next]_vars

\* A served feed was read from Tapestry at most a life in the cache and three
\* timeouts ago, whatever was invalidated or cached in between.
FeedIsRecent ==
    \A r \in Requests : (req[r].op = "feed" /\ req[r].ph = "reply") => req[r].old <= OLDEST

\* The feed cache never exceeds its largest size.
FeedCacheWithinLimit == Cardinality(DOMAIN cache) <= MAXENTRIES

\* A publication adds at most one activity, although a call whose answer was
\* lost is repeated after it may have taken effect.
OneItemPerPublication ==
    \A i, j \in DOMAIN acts : acts[i].call = acts[j].call => i = j

\* While one request is served at a time: a feed asked for after an event of its
\* wallet was published has it (on its first page), unless it is one of the
\* empty feeds served for an error.
PublishedIsServed ==
    \A r \in Requests :
        (/\ req[r].op = "feed" /\ req[r].ph = "reply" /\ ~req[r].empty
         /\ req[r].key[2] = 1 /\ req[r].key[1] >= CALLS /\ PAGESIZE >= CALLS) =>
        \A i \in DOMAIN acts :
            (acts[i].call \in req[r].after /\ acts[i].id[1] \in {"event", "follow"}) => acts[i] \in req[r].seen

=============================================================================
