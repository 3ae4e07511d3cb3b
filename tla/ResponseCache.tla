--------------------------- MODULE ResponseCache ---------------------------
(***************************************************************************)
(* The cache of PROPFIND responses that all workers share through          *)
(* memcached (twistedcaldav/cache.py).  An entry holds a response and the  *)
(* tokens of what it depends on; a change of the store gives its URIs new  *)
(* tokens after it has committed; a look-up serves the entry while every   *)
(* token is still the same.  Entries and tokens expire.                    *)
(*                                                                         *)
(* The memcached client answers None to a get that fails and passes over a *)
(* set that fails: a token that cannot be read counts as no token.         *)
(*                                                                         *)
(* A change is a number, given in the order of the commits; it is also the *)
(* new token (a uuid in the code).  What a response shows is, for every    *)
(* target, the last change of the target that had committed.               *)
(***************************************************************************)
EXTENDS Naturals, FiniteSets, Sequences, FiniteSetsExt

CONSTANTS
    Users,        \* principals that make requests
    Homes,        \* calendar homes
    Children,     \* collections
    OwnerHome,    \* [Children -> Homes]: the home a collection belongs to
    BoundIn,      \* [Children -> SUBSET Homes]: the homes that list it
    Requests,     \* cacheable requests: [user, home, depth]
    Readers,      \* requests that can be under way at once
    Timeout,      \* config.ResponseCacheTimeout, in ticks
    MaxChanges    \* (bound) changes made to the store

ASSUME ConstantsAssumption ==
    /\ OwnerHome \in [Children -> Homes]
    /\ BoundIn \in [Children -> SUBSET Homes]
    /\ \A c \in Children : OwnerHome[c] \in BoundIn[c]
    /\ Requests \subseteq [user : Users, home : Homes, depth : {0, 1}]
    /\ Timeout \in Nat \ {0}
    /\ MaxChanges \in Nat
    /\ Users \cap Homes = {} /\ Users \cap Children = {} /\ Homes \cap Children = {}

\* Everything that has a token: a principal, a home, a collection.
URIs == Users \cup Homes \cup Children
ChangeIds == 0..MaxChanges

None == 0                \* no token: never set, or expired
Forever == Timeout + 1   \* memcached keeps what is set without a time-out

VARIABLES
    changes,   \* number of the last change
    data,      \* URI -> the last change of it that is committed
    jobs,      \* change -> [on, left]: post-commit notifications still to make
    flushed,   \* (history) URI -> the last change of it that is announced in full
    token,     \* URI -> [id, ttl]: 'cacheToken:<uri>' in memcached
    cache,     \* the entry of the request in memcached, if any: a sequence of length 0 or 1
    reader,    \* reader -> how far a request has come
    key        \* the request that this behaviour follows: entries do not interact

vars == <<changes, data, jobs, flushed, token, cache, reader, key>>

\* What an entry has the tokens of: the principal, the request URI, the children.
DependsOn == {key.user, key.home} \cup
             {c \in Children : key.depth = 1 /\ key.home \in BoundIn[c]}

\* What the response shows. The sync token of a home is the highest revision of all
\* the collections bound in it, so a response without children shows their changes too.
Shows == {key.user, key.home} \cup {c \in Children : key.home \in BoundIn[c]}

NoToken == [id |-> None, ttl |-> 0]
Idle == [pc |-> "idle"]
Miss == [pc |-> "render"]

Init ==
    /\ changes = 0
    /\ data = [u \in URIs |-> 0]
    /\ jobs = << >>
    /\ flushed = [u \in URIs |-> 0]
    /\ token = [u \in URIs |-> NoToken]
    /\ cache = << >>
    /\ reader = [r \in Readers |-> Idle]
    /\ key \in Requests

-----------------------------------------------------------------------------
(* Changes of the store.                                                   *)

\* Mutant: a change of a collection leaves the token of its home alone.
notifyURIs_childOnly(u) == <<u>>

\* CacheStoreNotifier.notify: the URIs whose tokens a change of u replaces. A
\* collection is known by its owner's URI, and its owner's home follows it.
notifyURIs(u) == IF u \in Children THEN <<u, OwnerHome[u]>> ELSE <<u>>

\* A transaction that changed a home or a collection commits; its cache notifier
\* runs as a post-commit operation.
Commit(u) ==
    /\ changes < MaxChanges
    /\ changes' = changes + 1
    /\ data' = [data EXCEPT ![u] = changes']
    /\ jobs' = Append(jobs, [on |-> u, left |-> notifyURIs(u)])
    /\ UNCHANGED <<flushed, token, cache, reader, key>>

\* CacheStoreNotifierFactory.changed: a new token for the next URI of the job.
Changed(k) ==
    LET u == Head(jobs[k].left) IN
    /\ jobs[k].left # << >> /\ jobs[k].on \notin Users
    /\ token' = [token EXCEPT ![u] = [id |-> k, ttl |-> Timeout]]
    /\ jobs' = [jobs EXCEPT ![k].left = Tail(@)]
    /\ flushed' = IF Len(jobs[k].left) = 1
                    THEN [flushed EXCEPT ![jobs[k].on] = Max({@, k})]
                    ELSE flushed
    /\ UNCHANGED <<changes, data, cache, reader, key>>

\* The worker dies, or memcached cannot be reached: the tokens stay as they are ...
LoseNotification(k) ==
    /\ jobs[k].left # << >> /\ jobs[k].on \notin Users
    /\ jobs' = [jobs EXCEPT ![k].left = << >>]
    /\ UNCHANGED <<changes, data, flushed, token, cache, reader, key>>

\* ... or only the token of the collection cannot be set: that of its home still is.
SkipToken(k) ==
    /\ Len(jobs[k].left) = 2
    /\ token' = [token EXCEPT ![jobs[k].left[2]] = [id |-> k, ttl |-> Timeout]]
    /\ jobs' = [jobs EXCEPT ![k].left = << >>]
    /\ UNCHANGED <<changes, data, flushed, cache, reader, key>>

\* GroupCacher and the delegate code give a principal its new token inside the
\* transaction that changes its memberships or delegates (or fail to) ...
ChangePrincipal(u) ==
    /\ changes < MaxChanges
    /\ changes' = changes + 1
    /\ \/ /\ token' = [token EXCEPT ![u] = [id |-> changes', ttl |-> Timeout]]
          /\ flushed' = [flushed EXCEPT ![u] = changes']
       \/ UNCHANGED <<token, flushed>>
    /\ jobs' = Append(jobs, [on |-> u, left |-> <<u>>])
    /\ UNCHANGED <<data, cache, reader, key>>

\* ... and that transaction commits, or aborts, later.
EndPrincipalChange(k) ==
    /\ jobs[k].left # << >> /\ jobs[k].on \in Users
    /\ jobs' = [jobs EXCEPT ![k].left = << >>]
    /\ data' \in {data, [data EXCEPT ![jobs[k].on] = Max({@, k})]}
    /\ UNCHANGED <<changes, flushed, token, cache, reader, key>>

-----------------------------------------------------------------------------
(* A request: looked up by RootResource.locateChild before anything else,  *)
(* answered from the store and then cached when it was not found.          *)

Step(r, st) ==
    /\ reader' = [reader EXCEPT ![r] = st]
    /\ UNCHANGED <<changes, data, jobs, flushed, token, key>>

\* getResponseForRequest: the entry of the request's key is read. "announced"
\* (history) is what was announced in full when the look-up began, "slow"
\* (history) says whether the clock moved during the look-up, "failed" (history)
\* holds the URIs whose token could not be read. (When the entry itself cannot be
\* read the request ends with an error.)
LookUp(r) ==
    /\ reader[r].pc = "idle"
    /\ Step(r, IF cache = << >> THEN Miss
               ELSE [pc |-> "compare", entry |-> cache[1], left |-> DependsOn,
                     announced |-> Restrict(flushed, Shows), failed |-> {}, slow |-> FALSE])
    /\ UNCHANGED cache

\* The order of _getTokens: the principal, the request URI, then the children that
\* the request recorded (or that the entry names), in any order.
NextTokens(left) ==
    IF key.user \in left THEN {key.user}
    ELSE IF key.home \in left THEN {key.home}
    ELSE left

\* What reading the token of u can answer: the token, or None when the get fails.
tokenForURI(u) == {token[u].id, None}

\* The current token is read and compared with the entry's: one that differs ends
\* the look-up, one that could not be read is the same as none. (The code reads the
\* principal's and the home's before it compares either; it reads the children's
\* one by one as it compares.)
Compare(r) ==
    /\ reader[r].pc = "compare"
    /\ NextTokens(reader[r].left) # {}
    /\ \E u \in NextTokens(reader[r].left) : \E t \in tokenForURI(u) :
          Step(r, IF t = reader[r].entry.tokens[u]
                    THEN [reader[r] EXCEPT !.left = @ \ {u},
                            !.failed = IF t = token[u].id THEN @ ELSE @ \cup {u}]
                    ELSE Miss)
    /\ UNCHANGED cache

\* Every token is the same: the cached response is the answer.
Hit(r) ==
    /\ reader[r].pc = "compare"
    /\ NextTokens(reader[r].left) = {}
    /\ Step(r, [reader[r] EXCEPT !.pc = "hit"])
    /\ UNCHANGED cache

Answered(r) ==
    /\ reader[r].pc = "hit"
    /\ Step(r, Idle)
    /\ UNCHANGED cache

\* A URI could not be found (URINotFoundException), or the entry could not be set:
\* looking up ends without a hit, caching ends without an entry.
NotFound(r) ==
    /\ reader[r].pc \in {"compare", "store"}
    /\ Step(r, IF reader[r].pc = "compare" THEN Miss ELSE Idle)
    /\ UNCHANGED cache

\* PROPFIND is answered from the store; for Depth: 1 it records the owner's URI of
\* each collection it lists.
Render(r) ==
    /\ reader[r].pc = "render"
    /\ Step(r, [pc |-> "store", made |-> Restrict(data, Shows),
                left |-> DependsOn, seen |-> << >>,
                tokens |-> [u \in DependsOn |-> None], slow |-> FALSE])
    /\ UNCHANGED cache

\* (history) The changes that count as made when an entry's tokens are read.
Seen == [u \in Shows |-> IF u \in Users THEN flushed[u] ELSE data[u]]

\* cacheResponseForRequest: the tokens are read, after the response was made.
ReadToken(r) ==
    /\ reader[r].pc = "store"
    /\ \E u \in NextTokens(reader[r].left) : \E t \in tokenForURI(u) :
          Step(r, [reader[r] EXCEPT
                     !.left = @ \ {u}, !.tokens[u] = t,
                     !.seen = IF reader[r].left = {u} THEN Seen ELSE @])
    /\ UNCHANGED cache

\* Mutant: the entry is written without waiting for the tokens.
StoreEntry_unread(r) ==
    /\ reader[r].pc = "store"
    /\ cache' = <<[tokens |-> reader[r].tokens, made |-> reader[r].made,
                   seen |-> reader[r].seen, slow |-> reader[r].slow, ttl |-> Timeout]>>
    /\ Step(r, Idle)

\* Mutant: the entry is set without a time-out.
StoreEntry_forever(r) ==
    /\ reader[r].pc = "store" /\ reader[r].left = {}
    /\ cache' = <<[tokens |-> reader[r].tokens, made |-> reader[r].made,
                   seen |-> reader[r].seen, slow |-> reader[r].slow, ttl |-> Forever]>>
    /\ Step(r, Idle)

\* The entry replaces whatever another request has stored under the same key.
StoreEntry(r) ==
    /\ reader[r].pc = "store" /\ reader[r].left = {}
    /\ cache' = <<[tokens |-> reader[r].tokens, made |-> reader[r].made,
                   seen |-> reader[r].seen, slow |-> reader[r].slow, ttl |-> Timeout]>>
    /\ Step(r, Idle)

-----------------------------------------------------------------------------
Aged(ttl) == IF ttl = Forever THEN ttl ELSE ttl - 1

\* memcached's clock: what is as old as its time-out is gone.
Tick ==
    /\ token' = [u \in URIs |-> IF token[u].ttl <= 1 THEN NoToken
                                ELSE [token[u] EXCEPT !.ttl = Aged(@)]]
    /\ cache' = IF cache = << >> \/ cache[1].ttl = 1 THEN << >>
                ELSE <<[cache[1] EXCEPT !.ttl = Aged(@)]>>
    /\ reader' = [r \in Readers |->
                    IF reader[r].pc \in {"compare", "store"}
                      THEN [reader[r] EXCEPT !.slow = TRUE]
                      ELSE reader[r]]
    /\ UNCHANGED <<changes, data, jobs, flushed, key>>

Next ==
    \/ \E u \in Shows \ Users : Commit(u)
    \/ ChangePrincipal(key.user)
    \/ \E k \in 1..Len(jobs) :
          Changed(k) \/ LoseNotification(k) \/ SkipToken(k) \/ EndPrincipalChange(k)
    \/ \E r \in Readers :
          \/ LookUp(r) \/ Compare(r) \/ Hit(r) \/ Answered(r) \/ NotFound(r)
          \/ Render(r) \/ ReadToken(r) \/ StoreEntry(r)
    \/ Tick

\* Only the clock is sure to go on.
Spec == Init /\ [][Next]_vars /\ WF_vars(Tick)

-----------------------------------------------------------------------------
(* Properties.                                                             *)

Tokens == [id : ChangeIds, ttl : 0..Forever]
Versions == [Shows -> ChangeIds]
Entries == [tokens : [DependsOn -> ChangeIds], made : Versions,
            seen : Versions, slow : BOOLEAN, ttl : 1..Forever]

ReaderOK(st) ==
    \/ st = Idle
    \/ /\ st.pc \in {"render", "store", "compare", "hit"}
       /\ st.pc = "store" => /\ st.made \in Versions
                             /\ st.tokens \in [DependsOn -> ChangeIds]
       /\ st.pc \in {"compare", "hit"} => /\ st.entry \in Entries
                                          /\ st.announced \in Versions
                                          /\ st.failed \subseteq DependsOn

\* The type invariant; every entry of the cache names exactly the tokens that the
\* request it is stored under depends on.
TypeOK ==
    /\ changes \in ChangeIds
    /\ data \in [URIs -> ChangeIds]
    /\ flushed \in [URIs -> ChangeIds]
    /\ token \in [URIs -> Tokens]
    /\ DOMAIN jobs = 1..changes
    /\ \A k \in 1..changes : jobs[k].on \in URIs /\ Len(jobs[k].left) \in 0..2
    /\ cache = << >> \/ (Len(cache) = 1 /\ cache[1] \in Entries)
    /\ key \in Requests
    /\ \A r \in Readers : ReaderOK(reader[r])

\* A collection that is shared to the home of the request: notify replaces the token
\* of its owner's home only, and a response without children has no token of its own
\* for it.
Untold == {c \in Children : key.depth = 0 /\ OwnerHome[c] # key.home}

\* The token that a change of u is noticed by.
TokenOf(u) == IF u \in DependsOn THEN u ELSE key.home

\* "A change to any one of those will cause cache invalidation" (_getTokens): once
\* the notifications of a change are made, a look-up that begins later is never
\* served a response that was cached before the change, unless the very token that
\* tells of the change could not be read. In particular a response cached when
\* there was no token, or when the token could not be read, does not come back to
\* life when the token of the change expires. What a hit may lack otherwise is a
\* change made while the response was on its way into the cache; look-ups and
\* stores that last into the next tick are not covered, see README.
StaleOnlyByOverlap ==
    \A r \in Readers :
        reader[r].pc = "hit" /\ ~reader[r].slow /\ ~reader[r].entry.slow =>
            \A u \in Shows \ Untold :
                TokenOf(u) \notin reader[r].failed =>
                    reader[r].announced[u] <= reader[r].entry.seen[u]

\* When the store is left alone the cache becomes right again whatever went before,
\* lost notifications and responses cached too late included: from some time on
\* every entry shows the store as it is.
Settles ==
    <>[](cache # << >> => cache[1].made = Restrict(data, Shows))

=============================================================================
