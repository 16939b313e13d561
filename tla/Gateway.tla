------------------------------- MODULE Gateway -------------------------------
(***************************************************************************)
(* The gateway server (gateway/): requests through run_route() with their  *)
(* keys, rate limit and account, the admin routes that provision accounts  *)
(* and make or revoke keys, and what a restart rebuilds from the store.    *)
(*                                                                         *)
(* The store is PostgreSQL, where every operation is a statement of its    *)
(* own and a write replaces the whole row; MemoryApiKeyStore and           *)
(* MemoryAccountStore allow fewer interleavings and are lost by a restart. *)
(* A tick of the clock is the time in which a bucket regains one token.    *)
(***************************************************************************)
EXTENDS Naturals, FiniteSets, Endpoints

CONSTANTS
    Keys,         \* api keys; 0 is no key, or one nobody has made
    Accounts,     \* account ids, in the order of the ids
    AdminKeys,    \* the keys that are made with scope "admin"
    Requests,     \* requests that may be under way at once
    Admins,       \* admin requests that may be under way at once
    Capacity,     \* rate_limit_per_min
    Batch,        \* rows of a page
    Invokable,    \* the endpoints that methods_invoke is asked for
    MaxTime,      \* bound: the clock stops here
    MaxOps,       \* bound: admin operations
    MaxRestarts   \* bound: restarts

ASSUME GatewayAssumption ==
    /\ Invokable \subseteq Methods
    /\ IsFiniteSet(Accounts)
    /\ Accounts \subseteq Nat \ {0} /\ Keys \subseteq Nat \ {0} /\ AdminKeys \subseteq Keys
    /\ Capacity \in Nat \ {0} /\ Batch \in Nat \ {0}
    /\ MaxTime \in Nat /\ MaxOps \in Nat /\ MaxRestarts \in Nat

VARIABLES
    phase,     \* "opening" or "open"
    cursor,    \* where rehydrate_all() is
    keyRow,    \* the key rows
    acctRow,   \* the account rows: version of the cookies, created_at
    pool,      \* ClaudeOrchestrator: version of the cookies of each client
    bucket,    \* KeyedRateLimiter: tokens and time of each key's bucket
    req,       \* per request: where it is and what it has read
    touch,     \* per request: the touch() task it has scheduled
    admin,     \* per admin request: where it is
    now,
    ops, restarts,  \* how many there were
    revoked,   \* history: keys whose revoke() has returned
    clash,     \* history: accounts that two requests have replaced at once
    overlap,   \* history: keys a touch() had read when they were revoked
    grants     \* history: requests granted per key until each time, since the start

rows == <<keyRow, acctRow>>
history == <<revoked, clash, overlap, grants>>
bounds == <<ops, restarts>>
vars == <<phase, cursor, rows, pool, bucket, req, touch, admin, now, bounds, history>>

NoRow == [state |-> "none", account |-> 0]
LiveRow(a) == [state |-> "live", account |-> a]
NoAdmin == [pc |-> "idle", key |-> 0, account |-> 0, v |-> 0, row |-> NoRow]
NoReq == [pc |-> "idle", key |-> 0, row |-> NoRow]
NoTouch == [pc |-> "none", key |-> 0, row |-> NoRow]
Full == [tokens |-> Capacity, last |-> 0]
Top == <<MaxTime + 1, 0>>   \* before the newest row

Init ==
    /\ phase = "opening" /\ cursor = Top
    /\ keyRow = [k \in Keys |-> NoRow]
    /\ acctRow = [a \in Accounts |-> [v |-> 0, at |-> 0]]
    /\ pool = [a \in Accounts |-> 0]
    /\ bucket = [k \in Keys |-> Full]
    /\ req = [r \in Requests |-> NoReq]
    /\ touch = [r \in Requests |-> NoTouch]
    /\ admin = [p \in Admins |-> NoAdmin]
    /\ now = 0 /\ ops = 0 /\ restarts = 0
    /\ revoked = {} /\ clash = {} /\ overlap = {}
    /\ grants = [k \in Keys |-> [t \in 0..MaxTime |-> 0]]

---------------------------------------------------------------------------
(* Pages, and the start *)

Precedes(x, y) == x[1] < y[1] \/ (x[1] = y[1] /\ x[2] < y[2])
Spot(a) == <<acctRow[a].at, a>>

\* Mutant of Below: the id does not break the tie.
BelowTime(a, c) == acctRow[a].at < c[1]

Below(a, c) == Precedes(Spot(a), c)

\* page(): the newest `limit` rows below the cursor.
Page(limit, c) ==
    LET below == {a \in Accounts : acctRow[a].v > 0 /\ Below(a, c)}
    IN {a \in below : Cardinality({b \in below : Precedes(Spot(a), Spot(b))}) < limit}

\* There is a cursor if there are more rows: the last of the page.
NextCursor(limit, c) ==
    LET page == Page(limit, c)
        more == {a \in Accounts : acctRow[a].v > 0 /\ Below(a, c)} # page
    IN IF more /\ page # {}
       THEN CHOOSE x \in {Spot(a) : a \in page} :
              \A a \in page : x = Spot(a) \/ Precedes(x, Spot(a))
       ELSE Top

\* open(): rehydrate_all() adds the accounts page by page; the server listens
\* when it has returned.
Rehydrate ==
    /\ phase = "opening"
    /\ pool' = [a \in Accounts |-> IF a \in Page(Batch, cursor) THEN acctRow[a].v ELSE pool[a]]
    /\ cursor' = NextCursor(Batch, cursor)
    /\ phase' = IF NextCursor(Batch, cursor) = Top THEN "open" ELSE "opening"
    /\ UNCHANGED <<rows, bucket, req, touch, admin, now, bounds, history>>

\* The process ends at any moment and is started again.
Restart ==
    /\ restarts < MaxRestarts
    /\ restarts' = restarts + 1
    /\ phase' = "opening" /\ cursor' = Top
    /\ pool' = [a \in Accounts |-> 0]
    /\ bucket' = [k \in Keys |-> [Full EXCEPT !.last = now]]
    /\ req' = [r \in Requests |-> NoReq]
    /\ touch' = [r \in Requests |-> NoTouch]
    /\ admin' = [p \in Admins |-> NoAdmin]
    /\ grants' = [k \in Keys |-> [t \in 0..MaxTime |-> 0]]
    /\ clash' = {}
    /\ UNCHANGED <<rows, now, ops, revoked, overlap>>

Tick ==
    /\ now < MaxTime
    /\ now' = now + 1
    /\ UNCHANGED <<phase, cursor, rows, pool, bucket, req, touch, admin, bounds, history>>

---------------------------------------------------------------------------
(* Requests.  /health reads nothing, and a /system/ request with a wrong   *)
(* token is refused at once; the other routes need a key.                  *)

\* Whether a route needs the account's client, and whether it may answer with
\* a stream, whose errors come in its frames.
Route(name, client, streams) == [name |-> name, client |-> client, streams |-> streams]

CompletionRoutes == {Route("chat_completions", TRUE, TRUE), Route("prompt", TRUE, FALSE),
                     Route("chat_send", TRUE, TRUE)}
ChatRoutes == {Route("chats_list", TRUE, FALSE), Route("chats_create", TRUE, FALSE),
               Route("chat_messages", TRUE, FALSE)}
CatalogueRoutes == {Route("models_list", FALSE, FALSE), Route("methods_list", FALSE, FALSE)}

KeyRoutes == CompletionRoutes \cup ChatRoutes \cup CatalogueRoutes
             \cup {Route("methods_invoke", TRUE, TRUE)}

\* map_exception: every outcome is a status, and the request is over.  An
\* APIError keeps its status, another error of the SDK is a 502 and whatever
\* is no error of the SDK or the gateway a 500.
Statuses == {200, 400, 401, 403, 404, 422, 429, 500, 502}
Answer(r, status) == status \in Statuses /\ req' = [req EXCEPT ![r] = NoReq]

\* run_route, for a route that needs a key.
Arrive(r, k) ==
    /\ phase = "open" /\ req[r].pc = "idle" /\ touch[r].pc = "none"
    /\ req' = [req EXCEPT ![r] = [NoReq EXCEPT !.pc = "lookup", !.key = k]]
    /\ UNCHANGED <<phase, cursor, rows, pool, bucket, touch, admin, now, bounds, history>>

\* keys.get_by_hash
Lookup(r) ==
    /\ req[r].pc = "lookup"
    /\ req' = [req EXCEPT ![r].pc = "decide",
                          ![r].row = IF req[r].key = 0 THEN NoRow ELSE keyRow[req[r].key]]
    /\ UNCHANGED <<phase, cursor, rows, pool, bucket, touch, admin, now, bounds, history>>

\* Mutant of Tokens: the bucket runs over.
TokensUncapped(k) == bucket[k].tokens + (now - bucket[k].last)

\* TokenBucket.allow: what the bucket holds now.
Tokens(k) == LET n == bucket[k].tokens + (now - bucket[k].last)
             IN IF n > Capacity THEN Capacity ELSE n

\* Mutant of Spent: the boundary is one too low.
SpentBelowZero(k) == Tokens(k) + 1 < 1

\* TokenBucket.allow refuses when less than a whole token is left.
Spent(k) == Tokens(k) < 1

\* authenticate(): an unknown or revoked key, the rate limit, and touch() as a
\* task of its own.
Decide(r) ==
    LET k == req[r].key
    IN /\ req[r].pc = "decide"
       /\ IF req[r].row.state # "live"
            THEN Answer(r, 401) /\ UNCHANGED <<bucket, touch, grants>>
          ELSE IF Spent(k)
            THEN /\ Answer(r, 429)
                 /\ bucket' = [bucket EXCEPT ![k] = [tokens |-> Tokens(k), last |-> now]]
                 /\ UNCHANGED <<touch, grants>>
          ELSE /\ req' = [req EXCEPT ![r].pc = "handle"]
               /\ bucket' = [bucket EXCEPT ![k] = [tokens |-> Tokens(k) - 1, last |-> now]]
               /\ touch' = [touch EXCEPT ![r] = [NoTouch EXCEPT !.pc = "get", !.key = k,
                                                                !.row = req[r].row]]
               /\ grants' = [grants EXCEPT ![k] = [t \in 0..MaxTime |-> IF t < now THEN @[t]
                                                                        ELSE @[t] + 1]]
       /\ UNCHANGED <<phase, cursor, rows, pool, admin, now, bounds, revoked, clash, overlap>>

\* build_instance: the organization of the account's client is filled in.
Build(e, supplied, org) ==
    IF e.mode = "multipart" THEN 400
    ELSE IF e.ids \subseteq (IF org THEN supplied \cup {"org"} ELSE supplied) THEN 200
    ELSE 422

\* Whether the key may use the account the request names (_resolve_account).
Allowed(r, a) == a = req[r].row.account \/ req[r].key \in AdminKeys

\* The handler up to its call of the web API.  Only methods_invoke names an
\* account of its own and an endpoint; a stream is answered before it begins.
Handle(r, route) ==
    LET Go(a) == IF pool[a] = 0 THEN Answer(r, 404)
                 ELSE req' = [req EXCEPT ![r].pc = "upstream"]
    IN /\ req[r].pc = "handle"
       /\ \/ route.client /\ \E s \in {400, 422} : Answer(r, s)   \* not what the route takes
          \/ ~route.client /\ Answer(r, 200)
          \/ Answer(r, 500)                                         \* e.g. the store raises
          \/ route.streams /\ Answer(r, 200)
          \/ route.client /\ route.name # "methods_invoke" /\ Go(req[r].row.account)
          \/ /\ route.name = "methods_invoke"
             /\ \E a \in Accounts, e \in Invokable, org \in BOOLEAN :
                  \E supplied \in SUBSET e.ids :
                    IF ~Allowed(r, a) THEN Answer(r, 403)
                    ELSE IF e.mode = "stream" THEN Answer(r, 200)
                    ELSE IF pool[a] = 0 THEN Answer(r, 404)
                    ELSE IF Build(e, supplied, org) # 200 THEN Answer(r, Build(e, supplied, org))
                    ELSE Go(a)
       /\ UNCHANGED <<phase, cursor, rows, pool, bucket, touch, admin, now, bounds, history>>

\* The web API answers, or the call of it fails.
Upstream(r, status) ==
    /\ req[r].pc = "upstream"
    /\ Answer(r, status)
    /\ UNCHANGED <<phase, cursor, rows, pool, bucket, touch, admin, now, bounds, history>>

\* Mutant of TouchGet: the row that authenticate() has read is used.
TouchGetCached(r) ==
    /\ touch[r].pc = "get"
    /\ touch' = [touch EXCEPT ![r].pc = "put"]
    /\ UNCHANGED <<phase, cursor, rows, pool, bucket, req, admin, now, bounds, history>>

\* touch() reads the row,
TouchGet(r) ==
    /\ touch[r].pc = "get"
    /\ touch' = [touch EXCEPT ![r].pc = "put", ![r].row = keyRow[touch[r].key]]
    /\ UNCHANGED <<phase, cursor, rows, pool, bucket, req, admin, now, bounds, history>>

\* and writes all of it with another last_used_at.
TouchPut(r) ==
    /\ touch[r].pc = "put"
    /\ keyRow' = [keyRow EXCEPT ![touch[r].key] = touch[r].row]
    /\ touch' = [touch EXCEPT ![r] = NoTouch]
    /\ UNCHANGED <<phase, cursor, acctRow, pool, bucket, req, admin, now, bounds, history>>

---------------------------------------------------------------------------
(* The admin routes *)

Ready(p) == phase = "open" /\ admin[p].pc = "idle" /\ ops < MaxOps /\ ops' = ops + 1

\* A key that is new: token_urlsafe gives none twice.
NewKey(k) == keyRow[k].state = "none" /\ \A q \in Admins : admin[q].key # k

\* provision(): the row, under an id that is new; then the client.  For
\* generate() with cookies the key is made when it is done.
Provision(p, a, k) ==
    /\ Ready(p) /\ acctRow[a].v = 0
    /\ k # 0 => NewKey(k)
    /\ acctRow' = [acctRow EXCEPT ![a] = [v |-> ops + 1, at |-> now]]
    /\ admin' = [admin EXCEPT ![p] = [pc |-> "add", key |-> k, account |-> a, v |-> ops + 1,
                   row |-> LiveRow(a)]]
    /\ UNCHANGED <<phase, cursor, keyRow, pool, bucket, req, touch, now, restarts, history>>

\* Cookies that parse_cookies cannot read, a key for no account (422), or an
\* account that is not stored (404): nothing has been written.
RefuseAdmin(p) ==
    /\ Ready(p)
    /\ UNCHANGED <<phase, cursor, rows, pool, bucket, req, touch, admin, now, restarts, history>>

\* Somebody is between the row and the client of the account.
Replacing(a) == \E p \in Admins : admin[p].pc \in {"add", "remove"} /\ admin[p].account = a

\* update_cookies(): AccountNotFound, or the new row; then the client is
\* replaced, and for a while there is none.
UpdateCookies(p, a) ==
    /\ Ready(p) /\ acctRow[a].v > 0
    /\ clash' = IF Replacing(a) THEN clash \cup {a} ELSE clash \ {a}
    /\ acctRow' = [acctRow EXCEPT ![a].v = ops + 1]
    /\ admin' = [admin EXCEPT ![p] = [NoAdmin EXCEPT !.pc = "remove", !.account = a, !.v = ops + 1]]
    /\ UNCHANGED <<phase, cursor, keyRow, pool, bucket, req, touch, now, restarts,
                   revoked, overlap, grants>>

RemoveClient(p) ==
    /\ admin[p].pc = "remove"
    /\ pool' = [pool EXCEPT ![admin[p].account] = 0]
    /\ admin' = [admin EXCEPT ![p].pc = "add"]
    /\ UNCHANGED <<phase, cursor, rows, bucket, req, touch, now, bounds, history>>

\* orch.add(_build_client(account))
AddClient(p) ==
    /\ admin[p].pc = "add"
    /\ pool' = [pool EXCEPT ![admin[p].account] = admin[p].v]
    /\ admin' = [admin EXCEPT ![p] = IF @.key = 0 THEN NoAdmin ELSE [@ EXCEPT !.pc = "create", !.v = 0]]
    /\ UNCHANGED <<phase, cursor, rows, bucket, req, touch, now, bounds, history>>

\* generate() for an account that exists.
Generate(p, a, k) ==
    /\ Ready(p) /\ NewKey(k) /\ acctRow[a].v > 0
    /\ admin' = [admin EXCEPT ![p] = [pc |-> "create", key |-> k, account |-> a, v |-> 0,
                   row |-> LiveRow(a)]]
    /\ UNCHANGED <<phase, cursor, rows, pool, bucket, req, touch, now, restarts, history>>

CreateKey(p) ==
    /\ admin[p].pc = "create"
    /\ keyRow' = [keyRow EXCEPT ![admin[p].key] = admin[p].row]
    /\ admin' = [admin EXCEPT ![p] = NoAdmin]
    /\ UNCHANGED <<phase, cursor, acctRow, pool, bucket, req, touch, now, bounds, history>>

\* revoke() reads the row; a key that does not exist is no error.
RevokeGet(p, k) ==
    /\ Ready(p)
    /\ admin' = [admin EXCEPT ![p] = IF keyRow[k].state = "none" THEN NoAdmin
                                     ELSE [NoAdmin EXCEPT !.pc = "revoke", !.key = k, !.row = keyRow[k]]]
    /\ UNCHANGED <<phase, cursor, rows, pool, bucket, req, touch, now, restarts, history>>

RevokePut(p) ==
    LET k == admin[p].key
    IN /\ admin[p].pc = "revoke"
       /\ keyRow' = [keyRow EXCEPT ![k] = [admin[p].row EXCEPT !.state = "revoked"]]
       /\ admin' = [admin EXCEPT ![p] = NoAdmin]
       /\ revoked' = revoked \cup {k}
       /\ overlap' = IF \E r \in Requests : touch[r].pc = "put" /\ touch[r].key = k
                     THEN overlap \cup {k} ELSE overlap
       /\ UNCHANGED <<phase, cursor, acctRow, pool, bucket, req, touch, now, bounds, clash, grants>>

---------------------------------------------------------------------------
Serve(r) == Lookup(r) \/ Decide(r) \/ (\E x \in KeyRoutes : Handle(r, x))
            \/ \E s \in {200, 500, 502} : Upstream(r, s)

Touching(r) == TouchGet(r) \/ TouchPut(r)

Asked(p) ==
    \/ RefuseAdmin(p)
    \/ \E a \in Accounts : UpdateCookies(p, a)
    \/ \E a \in Accounts, k \in Keys \cup {0} : Provision(p, a, k)
    \/ \E a \in Accounts, k \in Keys : Generate(p, a, k)
    \/ \E k \in Keys : RevokeGet(p, k)

Administer(p) == RemoveClient(p) \/ AddClient(p) \/ CreateKey(p) \/ RevokePut(p)

Next ==
    \/ Rehydrate \/ Restart \/ Tick
    \/ \E r \in Requests : Serve(r) \/ Touching(r)
    \/ \E r \in Requests, k \in Keys \cup {0} : Arrive(r, k)
    \/ \E p \in Admins : Asked(p) \/ Administer(p)

Spec == Init /\ [][Next]_vars

---------------------------------------------------------------------------
\* Type correctness; a bucket never holds more than its capacity.
TypeOK ==
    /\ phase \in {"opening", "open"}
    /\ \A k \in Keys : /\ keyRow[k].state \in {"none", "live", "revoked"}
                       /\ bucket[k].tokens \in 0..Capacity /\ bucket[k].last \in 0..now
    /\ \A a \in Accounts : acctRow[a].v \in 0..MaxOps /\ pool[a] \in 0..MaxOps

\* postgres.py:138 A key that was revoked stays revoked through touches, crashes
\* and restarts, unless a touch() had read the row and not yet written it when
\* revoke() wrote: that touch brings the key back.
RevokeIsFinal ==
    \A k \in revoked \ overlap : keyRow[k].state = "revoked"

GrantsBefore(k, t) == IF t = 0 THEN 0 ELSE grants[k][t - 1]

\* rate_limit.py:32 In any stretch of time, from t to u, a key is granted no
\* more requests than the capacity and what is refilled in that time, whatever
\* the order of refusals and grants.
RateBound ==
    \A k \in Keys, t \in 0..now, u \in 0..now :
        t <= u => grants[k][u] <= GrantsBefore(k, t) + Capacity + (u - t)

\* account_service.py:103 When no admin request is working on an account, its
\* client is in the pool, with the cookies of its row: after an update, after a
\* restart in the middle of one, and for every row that start-up pages through.
\* Only two updates of one account that overlap may leave older cookies in the
\* pool, until the next update or restart.
PoolFollowsRows ==
    phase = "open" => \A a \in Accounts \ clash : Replacing(a) \/ pool[a] = acctRow[a].v

=============================================================================
