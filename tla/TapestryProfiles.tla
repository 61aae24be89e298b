-------------------------- MODULE TapestryProfiles --------------------------
(***************************************************************************)
(* The profile lookups of the Tapestry proxy: concurrent requests of a     *)
(* server process share a cache of profiles and a cache of identities (the *)
(* Twitter handle), both with a time to live and a largest size.  A lookup *)
(* of several wallets waits for all the missing ones and then adds the     *)
(* handles, also to the profiles it took from the cache.                   *)
(*                                                                         *)
(* Time is kept as ages: an entry's age is the time since its ts, its old  *)
(* the time since Tapestry read the data in it (no variable of the code).  *)
(***************************************************************************)
EXTENDS Naturals, FiniteSets, Functions, TLC

CONSTANTS
    Wallets,
    Requests,   \* requests the process serves at a time (bound)
    TTL,        \* PROFILE_CACHE_TTL_MS
    IDTTL,      \* IDENTITY_CACHE_TTL_MS
    TIMEOUT,    \* TAPESTRY_TIMEOUT_MS
    MAXENTRIES  \* PROFILE_CACHE_MAX_ENTRIES

VARIABLES
    profileCache,   \* wallet |-> entry, for the wallets in the map
    identityCache,  \* wallet |-> [age, tw]
    req             \* what each request is doing

vars == <<profileCache, identityCache, req>>

\* A profile lasts two lives in the cache, and a request that holds it may wait
\* through five timeouts: while it is read, and twice for a list and a handle.
OLDEST == 2 * TTL + 5 * TIMEOUT

\* What Tapestry says of a wallet: whether it has a profile, with a handle or not.
Answers == {[has |-> FALSE, tw |-> FALSE], [has |-> TRUE, tw |-> FALSE], [has |-> TRUE, tw |-> TRUE]}

Idle == [ph |-> "idle", ask |-> {}, todo |-> {}, got |-> <<>>, wait |-> 0]

\* Data read from Tapestry the given time ago.
Data(ans, old) == [has |-> ans.has, tw |-> ans.tw, old |-> old]

\* getFreshProfileFromCache finds an entry (which the lookup may return as null).
Fresh(w) == w \in DOMAIN profileCache /\ profileCache[w].age <= TTL

\* The cache without the expired entries that the lookups of these wallets delete.
Purged(W) == Restrict(profileCache, {w \in DOMAIN profileCache : w \in W => Fresh(w)})

\* evictOldestEntries: the map cut down to its largest size, the oldest entries
\* gone first (the code breaks ties by the order of insertion).
Evicted(map) ==
    {Restrict(map, K) : K \in {K \in SUBSET DOMAIN map :
        /\ Cardinality(K) = IF Cardinality(DOMAIN map) <= MAXENTRIES THEN Cardinality(DOMAIN map) ELSE MAXENTRIES
        /\ \A k \in K, d \in DOMAIN map \ K : map[k].age <= map[d].age}}

\* cacheTapestryProfile for every wallet of a function wallet |-> data.
Cached(map, data) ==
    Evicted([w \in DOMAIN data |-> [age |-> 0, data |-> data[w]]] @@ map)

\* What the request has for a wallet once its handle is known.
WithHandle(d) == [d EXCEPT !.tw = TRUE]

\* Mutant of ToResolve: handles are looked up again for profiles that have one.
ToResolveAll(got) == {w \in DOMAIN got : got[w].has}

\* enrichProfilesWithTwitter: the profiles without a handle.
ToResolve(got) == {w \in DOMAIN got : got[w].has /\ ~got[w].tw}

\* getFreshIdentityFromCache finds an entry.
FreshIdentity(w) == w \in DOMAIN identityCache /\ identityCache[w].age <= IDTTL

Init ==
    /\ profileCache = <<>> /\ identityCache = <<>>
    /\ req = [r \in Requests |-> Idle]

\* The request goes on from the lists to the handles.  The handles that are in
\* the identity cache are added at once, and the profiles cached anew; the rest
\* is asked for.  map is the profile cache so far.
StartEnrich(r, got, map) ==
    LET todo  == ToResolve(got)
        hits  == {w \in todo : FreshIdentity(w)}
        found == [w \in {w \in hits : identityCache[w].tw} |-> WithHandle(got[w])]
        rest  == todo \ hits
    IN /\ profileCache' \in Cached(map, found)
       /\ identityCache' = Restrict(identityCache, {w \in DOMAIN identityCache : w \in todo => FreshIdentity(w)})
       /\ req' = [req EXCEPT ![r].ph = IF rest = {} THEN "reply" ELSE "enrich",
                             ![r].todo = rest, ![r].got = found @@ got, ![r].wait = 0]

\* getProfilesByWallets begins: what is cached is taken, the rest asked for, all
\* wallets at the same time.  Without a missing wallet the request is answered
\* from the cache, and no handle is looked up.
GetProfilesByWallets(r, W) ==
    LET hits == {w \in W : Fresh(w)} IN
    /\ req[r].ph = "idle"
    /\ profileCache' = Purged(W)
    /\ req' = [req EXCEPT ![r] = [ph |-> IF hits = W THEN "reply" ELSE "list", ask |-> W, todo |-> W \ hits,
                                  got |-> [w \in hits |-> profileCache[w].data], wait |-> 0]]
    /\ UNCHANGED identityCache

\* A wallet's answer is put down, in the reply and in the cache; the last one
\* starts the handles.
Listed(r, w, d) ==
    \E map \in Cached(profileCache, w :> d) :
        IF req[r].todo = {w} THEN StartEnrich(r, (w :> d) @@ req[r].got, map)
        ELSE /\ profileCache' = map
             /\ req' = [req EXCEPT ![r].todo = @ \ {w}, ![r].got = (w :> d) @@ @]
             /\ UNCHANGED identityCache

\* profilesList answers, with data it read while the request waited; the best
\* connected profile of the wallet is taken.
ProfilesList(r, w) ==
    /\ req[r].ph = "list" /\ w \in req[r].todo
    /\ \E ans \in Answers, old \in 0 .. req[r].wait : Listed(r, w, Data(ans, old))

\* profilesList fails or times out: the wallet is taken to have no profile, and
\* that is cached like an answer.
ProfilesListFails(r, w) ==
    /\ req[r].ph = "list" /\ w \in req[r].todo
    /\ Listed(r, w, Data([has |-> FALSE, tw |-> FALSE], 0))

\* getIdentityForWallet comes back: a handle is cached with the profile that the
\* request has held since it read it, and the profile is new again in the cache.
GotHandle(r, w, map) ==
    /\ profileCache' \in Cached(profileCache, map)
    /\ req' = [req EXCEPT ![r].todo = @ \ {w}, ![r].got = map @@ @,
                          ![r].ph = IF req[r].todo = {w} THEN "reply" ELSE "enrich"]

\* identitiesDetail answers with the linked contacts, a handle among them or not.
IdentitiesDetail(r, w) ==
    /\ req[r].ph = "enrich" /\ w \in req[r].todo
    /\ \E tw \in BOOLEAN :
        /\ identityCache' \in Evicted((w :> [age |-> 0, tw |-> tw]) @@ identityCache)
        /\ GotHandle(r, w, IF tw THEN w :> WithHandle(req[r].got[w]) ELSE <<>>)

\* identitiesDetail fails: "no handle" is cached, without looking at the size.
IdentitiesDetailFails(r, w) ==
    /\ req[r].ph = "enrich" /\ w \in req[r].todo
    /\ identityCache' = (w :> [age |-> 0, tw |-> FALSE]) @@ identityCache
    /\ GotHandle(r, w, <<>>)

\* findOrCreateProfileByWallet begins: only a cached profile is good enough.
FindOrCreateProfileByWallet(r, w) ==
    LET hit == Fresh(w) /\ profileCache[w].data.has IN
    /\ req[r].ph = "idle"
    /\ profileCache' = Purged({w})
    /\ req' = [req EXCEPT ![r] = [ph |-> IF hit THEN "reply" ELSE "create", ask |-> {w}, todo |-> IF hit THEN {} ELSE {w},
                                  got |-> IF hit THEN w :> profileCache[w].data ELSE <<>>, wait |-> 0]]
    /\ UNCHANGED identityCache

\* handleProfileImport asks Tapestry without looking into the cache.
HandleProfileImport(r, w) ==
    /\ req[r].ph = "idle"
    /\ req' = [req EXCEPT ![r] = [Idle EXCEPT !.ph = "import", !.ask = {w}, !.todo = {w}]]
    /\ UNCHANGED <<profileCache, identityCache>>

\* findOrCreateCreate answers.  The result is cached, by the import only if it
\* can be normalised.
Created(r, w) ==
    /\ req[r].ph \in {"create", "import"} /\ w \in req[r].todo
    /\ \E ans \in Answers, old \in 0 .. req[r].wait :
        /\ profileCache' \in IF req[r].ph = "create" \/ ans.has THEN Cached(profileCache, w :> Data(ans, old))
                             ELSE {profileCache}
        /\ req' = [req EXCEPT ![r].ph = "reply", ![r].todo = {}, ![r].got = w :> Data(ans, old)]
    /\ UNCHANGED identityCache

\* findOrCreateCreate fails: the handler answers with an error.
CreateFails(r) ==
    /\ req[r].ph \in {"create", "import"}
    /\ req' = [req EXCEPT ![r] = Idle]
    /\ UNCHANGED <<profileCache, identityCache>>

\* The reply is sent.
Reply(r) ==
    /\ req[r].ph = "reply"
    /\ req' = [req EXCEPT ![r] = Idle]
    /\ UNCHANGED <<profileCache, identityCache>>

\* The function instance is stopped; the next one starts with empty caches.
ColdStart ==
    /\ profileCache # <<>> \/ identityCache # <<>>
    /\ profileCache' = <<>> /\ identityCache' = <<>>
    /\ req' = [r \in Requests |-> Idle]

\* Age of what is that old, or too old to tell.
Older(n, max) == IF n > max THEN n ELSE n + 1

OlderData(d) == [d EXCEPT !.old = Older(@, OLDEST)]

\* Time passes; a call that has reached its timeout comes back first, and a
\* reply is sent at once.
Tick ==
    /\ \A r \in Requests : req[r].ph # "idle" => req[r].todo # {} /\ req[r].wait < TIMEOUT
    /\ profileCache' = [w \in DOMAIN profileCache |->
                          [age |-> Older(profileCache[w].age, TTL), data |-> OlderData(profileCache[w].data)]]
    /\ identityCache' = [w \in DOMAIN identityCache |-> [identityCache[w] EXCEPT !.age = Older(@, IDTTL)]]
    /\ req' = [r \in Requests |->
                 [req[r] EXCEPT !.wait = IF req[r].todo = {} THEN 0 ELSE @ + 1,
                                !.got = [w \in DOMAIN @ |-> OlderData(@[w])]]]

\* A call of the request comes back, or its reply is sent.
Answer(r) ==
    \/ \E w \in Wallets : \/ ProfilesList(r, w) \/ ProfilesListFails(r, w)
                          \/ IdentitiesDetail(r, w) \/ IdentitiesDetailFails(r, w)
                          \/ Created(r, w)
    \/ CreateFails(r) \/ Reply(r)

Request(r) ==
    \/ \E W \in SUBSET Wallets \ {{}} : GetProfilesByWallets(r, W)
    \/ \E w \in Wallets : FindOrCreateProfileByWallet(r, w) \/ HandleProfileImport(r, w)

Next == Tick \/ ColdStart \/ \E r \in Requests : Request(r) \/ Answer(r)

Spec == Init /\ [][Next]_vars

\* Nothing a request holds or answers was read from Tapestry longer ago than two
\* lives in the cache and five timeouts.  The second life is the one that
\* enrichProfilesWithTwitter gives to a profile that a request took from the
\* cache; a profile with a handle is not given another.
ProfilesAreRecent ==
    \A r \in Requests, w \in Wallets : w \in DOMAIN req[r].got => req[r].got[w].old <= OLDEST

\* The profile cache never exceeds its largest size, whichever of the five
\* places that write to it do so in turn.
CacheWithinLimit == Cardinality(DOMAIN profileCache) <= MAXENTRIES

\* A reply of getProfilesByWallets has an entry for every wallet asked for,
\* although each is looked up by a call of its own that may fail.
ReplyIsComplete ==
    \A r \in Requests : req[r].ph = "reply" => DOMAIN req[r].got = req[r].ask

\* Every request is answered: the list, the handles and their failures all lead
\* to the reply.
RequestsEnd == \A r \in Requests : (req[r].ph # "idle") ~> (req[r].ph = "idle")
=============================================================================
