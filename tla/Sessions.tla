------------------------------ MODULE Sessions ------------------------------
(***************************************************************************)
(* Browser sessions: the `sessions` table, the session cache in front of   *)
(* it, and the requests that work on copies of a session.                  *)
(*                                                                         *)
(* Session::find reads the cache first and fills it from the table;        *)
(* Session::save writes the whole row to the table and then to the cache.  *)
(* Every request with a session cookie goes through the principal          *)
(* middleware (find, is_valid, maybe save) before its handler runs on the  *)
(* same copy.  Redeeming an authorization code authenticates the session;  *)
(* logout, an admin, a password reset and schedulers invalidate sessions.  *)
(* The actions are split at the awaits between those accesses.             *)
(***************************************************************************)
EXTENDS Naturals, FiniteSets

CONSTANTS
    Sids,            \* session ids (get_rand(32)); each is created once
    Users, NoUser,
    Expiries,        \* Users -> SUBSET Nat: values given to `user_expires`, beyond MaxTime for never
    Requests,        \* concurrently executing requests with a session
    Admins,          \* concurrently executing invalidations
    NoRow, Never,
    Lifetime,        \* SESSION_LIFETIME
    Timeout,         \* SESSION_TIMEOUT
    SeenSlack,       \* last_seen is only renewed when older than this (10 s)
    CleanupAge,      \* sessions_cleanup keeps expired rows this long (24 h)
    CacheMayFail,    \* whether a write to the HA cache can fail (no quorum)
    MaxInFlight,     \* bound on the requests running at the same time
    MaxTime          \* bound on the clock

ASSUME SessionsAssumption ==
    /\ NoUser \notin Users
    /\ Expiries \in [Users -> SUBSET Nat]
    /\ IsFiniteSet(Requests) /\ IsFiniteSet(Admins)
    /\ Lifetime \in Nat /\ Timeout \in Nat /\ SeenSlack \in Nat
    /\ CleanupAge \in Nat /\ MaxInFlight \in Nat /\ MaxTime \in Nat
    /\ CacheMayFail \in BOOLEAN
    /\ Never \notin Nat

VARIABLES
    now,
    db,          \* the `sessions` table: session id -> row or NoRow
    cache,       \* CACHE_NAME_SESSIONS: session id -> row or NoRow
    req,         \* per request: its operation, step and copy of the session
    admin,       \* per invalidation: what is still to be saved and removed
    created,     \* history: when a session was created, or Never
    granted,     \* history: <<sid, user, user_expires>> of redeemed authorization codes
    deleted,     \* users that were deleted
    revokedAt,   \* history: start of the last invalidation or logout of a session
    loggedOut,   \* history: sessions whose logout completed
    disturbed    \* history: whether requests overlapped or the cache failed so far

history == <<created, granted, deleted, revokedAt, loggedOut, disturbed>>
vars == <<now, db, cache, req, admin, history>>

\* struct Session (state Open is never assigned, Unknown never saved)
Row == [state : {"Init", "Auth", "LoggedOut"}, user : Users \cup {NoUser},
        exp : Nat, last_seen : Nat]

ASSUME NoRowAssumption == NoRow \notin Row

Ops == {"page", "mfa", "logout", "redeem"}
Steps == {"find", "select", "fill", "save_db", "save_cache", "handler"}
Idle == [step |-> "idle"]
Running == [op : Ops, step : Steps, sid : Sids, user : Users \cup {NoUser},
            until : Nat, copy : Row \cup {NoRow}, last : BOOLEAN]

AdminIdle == [step |-> "idle"]
AdminRunning == [step : {"save_db", "save_cache", "remove"}, at : Nat,
                 all : BOOLEAN, rows : [Sids -> Row \cup {NoRow}],
                 todo : SUBSET Sids, removed : SUBSET Sids, cur : Sids]

\* Every user_expires, and 0 for the requests that read none
UserExpires == {0} \cup UNION {Expiries[u] : u \in Users}

Min2(a, b) == IF a < b THEN a ELSE b

InFlight == Cardinality({r \in Requests : req[r] # Idle})
              + Cardinality({a \in Admins : admin[a] # AdminIdle})

\* `disturbed` once another request starts
Overlapping == IF InFlight = 0 THEN disturbed ELSE "yes"

-----------------------------------------------------------------------------
\* GET /oidc/authorize: a new session in state Init, saved before its id is
\* handed out in the cookie.
NewSession(s) ==
    /\ created[s] = Never
    /\ LET row == [state |-> "Init", user |-> NoUser, exp |-> now + Lifetime,
                   last_seen |-> now]
       IN  /\ db' = [db EXCEPT ![s] = row]
           /\ cache' = [cache EXCEPT ![s] = row]
    /\ created' = [created EXCEPT ![s] = now]
    /\ UNCHANGED <<now, req, admin, granted, deleted, revokedAt,
                   loggedOut, disturbed>>

\* A request comes in: with the cookie of session s, or (redeem) with an
\* authorization code that was issued to `user` in session s.  grant_type_code reads
\* the user before it looks for the session; `until` is the user_expires it finds, which
\* User::update changes at any time without touching a session.
Start(r, op, s, user, until) ==
    /\ req[r] = Idle /\ InFlight < MaxInFlight
    /\ created[s] # Never
    /\ (op = "redeem") = (user # NoUser)
    /\ user \notin deleted
    /\ until \in IF op = "redeem" THEN Expiries[user] ELSE {0}
    /\ req' = [req EXCEPT ![r] = [op |-> op, step |-> "find", sid |-> s,
                 user |-> user, until |-> until, copy |-> NoRow, last |-> (op = "redeem")]]
    /\ granted' = IF op = "redeem" THEN granted \cup {<<s, user, until>>} ELSE granted
    /\ disturbed' = Overlapping
    /\ UNCHANGED <<now, db, cache, admin, created, deleted, revokedAt,
                   loggedOut>>

-----------------------------------------------------------------------------
\* Session::is_valid (the remote IP check is left out)
IsValid(row) == now <= row.exp /\ now <= row.last_seen + Timeout

AuthenticatedKeepingUser(row, user, until) ==
    [row EXCEPT !.state = "Auth", !.last_seen = now, !.exp = Min2(@, until)]
AuthenticatedBeyondAccount(row, user, until) ==
    [row EXCEPT !.state = "Auth", !.user = user, !.last_seen = now]

\* grant_type_code: the copy of the session that a redeemed code authenticates.
Authenticated(row, user, until) ==
    [state |-> "Auth", user |-> user, last_seen |-> now, exp |-> Min2(row.exp, until)]

\* get_session_from_cookie renews `last_seen` when it is older than 10 seconds.
Stale(row) == row.last_seen + SeenSlack < now

\* What a request does next once Session::find has answered with `row`.
Continue(r, row) ==
    IF req[r].op = "redeem"
    THEN IF now > req[r].until THEN Idle
         ELSE [req[r] EXCEPT !.step = "save_db",
                             !.copy = Authenticated(row, req[r].user, req[r].until)]
    ELSE IF ~IsValid(row) THEN Idle
         ELSE IF Stale(row)
         THEN [req[r] EXCEPT !.step = "save_db", !.copy = [row EXCEPT !.last_seen = now]]
         ELSE [req[r] EXCEPT !.step = "handler", !.copy = row]

\* Session::find: the cache, else the table, whose row is put into the cache.
FindCached(r) ==
    /\ req[r].step = "find"
    /\ req' = IF cache[req[r].sid] # NoRow
              THEN [req EXCEPT ![r] = Continue(r, cache[req[r].sid])]
              ELSE [req EXCEPT ![r].step = "select"]
    /\ UNCHANGED <<now, db, cache, admin, history>>

FindSelect(r) ==
    /\ req[r].step = "select"
    /\ req' = IF db[req[r].sid] = NoRow THEN [req EXCEPT ![r] = Idle]
              ELSE [req EXCEPT ![r].step = "fill", ![r].copy = db[req[r].sid]]
    /\ UNCHANGED <<now, db, cache, admin, history>>

FindFill(r) ==
    /\ req[r].step = "fill"
    /\ cache' = [cache EXCEPT ![req[r].sid] = req[r].copy]
    /\ req' = [req EXCEPT ![r] = Continue(r, req[r].copy)]
    /\ UNCHANGED <<now, db, admin, history>>

\* Session::save: insert or replace the row, then put it into the cache.
SaveDb(r) ==
    /\ req[r].step = "save_db"
    /\ db' = [db EXCEPT ![req[r].sid] = req[r].copy]
    /\ req' = [req EXCEPT ![r].step = "save_cache"]
    /\ UNCHANGED <<now, cache, admin, history>>

SaveCacheForgotten(r) ==
    /\ req[r].step = "save_cache"
    /\ req' = IF req[r].last THEN [req EXCEPT ![r] = Idle]
              ELSE [req EXCEPT ![r].step = "handler"]
    /\ UNCHANGED <<now, db, cache, admin, history>>

\* The save of the middleware is followed by the handler; the last one of a
\* request ends it.
SaveCache(r) ==
    /\ req[r].step = "save_cache"
    /\ cache' = [cache EXCEPT ![req[r].sid] = req[r].copy]
    /\ req' = IF req[r].last THEN [req EXCEPT ![r] = Idle]
              ELSE [req EXCEPT ![r].step = "handler"]
    /\ UNCHANGED <<now, db, admin, history>>

\* The insert into the cache fails after the row was written: the error ends
\* the request.
CacheError(r) ==
    /\ CacheMayFail
    /\ req[r].step \in {"save_cache", "fill"}
    /\ req' = [req EXCEPT ![r] = Idle]
    /\ disturbed' = "yes"
    /\ UNCHANGED <<now, db, cache, admin, created, granted, deleted, revokedAt,
                   loggedOut>>

-----------------------------------------------------------------------------
\* The handlers, on the copy the middleware put into the principal.

\* Any handler that validates the session and only reads it, or an
\* unauthorized request.
HandlePage(r) ==
    /\ req[r].step = "handler" /\ req[r].op = "page"
    /\ req' = [req EXCEPT ![r] = Idle]
    /\ UNCHANGED <<now, db, cache, admin, history>>

\* POST /oidc/authorize for a user with a passkey: session.set_mfa saves the
\* copy once more.
HandleMfa(r) ==
    /\ req[r].step = "handler" /\ req[r].op = "mfa"
    /\ req' = IF req[r].copy.state \in {"Init", "Auth"}
              THEN [req EXCEPT ![r].step = "save_db", ![r].last = TRUE]
              ELSE [req EXCEPT ![r] = Idle]
    /\ UNCHANGED <<now, db, cache, admin, history>>

\* POST /oidc/logout, Session::invalidate: the row is updated; the entry that
\* is removed afterwards is looked up in another cache (CACHE_NAME_12HR).
HandleLogout(r) ==
    /\ req[r].step = "handler" /\ req[r].op = "logout"
    /\ db' = IF db[req[r].sid] = NoRow THEN db
             ELSE [db EXCEPT ![req[r].sid].exp = now,
                             ![req[r].sid].state = "LoggedOut"]
    /\ loggedOut' = loggedOut \cup {req[r].sid}
    /\ revokedAt' = [revokedAt EXCEPT ![req[r].sid] = now]
    /\ req' = [req EXCEPT ![r] = Idle]
    /\ UNCHANGED <<now, cache, admin, created, granted, deleted, disturbed>>

-----------------------------------------------------------------------------
\* Session::invalidate_all and invalidate_for_user: read all rows, save every
\* selected one with its expiry set to the start of the call, then remove the
\* saved ones from the cache.

StartInvalidation(a, selected, all) ==
    /\ admin[a] = AdminIdle /\ InFlight < MaxInFlight
    /\ selected # {}
    /\ admin' = [admin EXCEPT ![a] =
         [step |-> "save_db", at |-> now, all |-> all, rows |-> db,
          todo |-> selected, removed |-> {}, cur |-> CHOOSE s \in selected : TRUE]]
    /\ revokedAt' = [s \in Sids |-> IF s \in selected THEN now ELSE revokedAt[s]]
    /\ disturbed' = Overlapping
    /\ UNCHANGED <<now, db, cache, req, created, granted, deleted,
                   loggedOut>>

InvalidateAll(a) ==
    StartInvalidation(a, {s \in Sids : db[s] # NoRow /\ db[s].exp > now}, TRUE)

InvalidateForUser(a, user) ==
    StartInvalidation(a, {s \in Sids : db[s] # NoRow /\ db[s].user = user}, FALSE)

InvalidatedRowKept(a) == admin[a].rows[admin[a].cur]

InvalidatedRow(a) == [admin[a].rows[admin[a].cur] EXCEPT !.exp = admin[a].at]

InvalidateSaveDb(a) ==
    /\ admin[a].step = "save_db"
    /\ db' = [db EXCEPT ![admin[a].cur] = InvalidatedRow(a)]
    /\ admin' = [admin EXCEPT ![a].step = "save_cache"]
    /\ UNCHANGED <<now, cache, req, history>>

\* The next session to save, or the removal from the cache.
AfterSave(a) ==
    LET todo == admin[a].todo \ {admin[a].cur}
        rest == [admin[a] EXCEPT !.todo = todo, !.removed = @ \cup {admin[a].cur}]
    IN  IF todo = {} THEN [rest EXCEPT !.step = "remove"]
        ELSE [rest EXCEPT !.step = "save_db", !.cur = CHOOSE s \in todo : TRUE]

InvalidateSaveCache(a) ==
    /\ admin[a].step = "save_cache"
    /\ cache' = [cache EXCEPT ![admin[a].cur] = InvalidatedRow(a)]
    /\ admin' = [admin EXCEPT ![a] = AfterSave(a)]
    /\ UNCHANGED <<now, db, req, history>>

\* A failing cache ends an invalidation; a failing save of invalidate_all is only logged.
InvalidateError(a) ==
    /\ CacheMayFail
    /\ admin[a].step \in {"save_cache", "remove"}
    /\ admin' = [admin EXCEPT ![a] =
          IF admin[a].all /\ admin[a].step = "save_cache" THEN AfterSave(a) ELSE AdminIdle]
    /\ disturbed' = "yes"
    /\ UNCHANGED <<now, db, cache, req, created, granted, deleted, revokedAt,
                   loggedOut>>

InvalidateRemove(a) ==
    /\ admin[a].step = "remove"
    /\ \E s \in admin[a].removed :
        /\ cache' = [cache EXCEPT ![s] = NoRow]
        /\ admin' = [admin EXCEPT ![a] =
             IF admin[a].removed = {s} THEN AdminIdle
             ELSE [admin[a] EXCEPT !.removed = @ \ {s}]]
    /\ UNCHANGED <<now, db, req, created, granted, deleted, revokedAt, loggedOut,
                   disturbed>>

\* User::delete, Session::delete_by_user: delete the rows, then the entries.
DeleteByUser(a, user) ==
    /\ admin[a] = AdminIdle /\ InFlight < MaxInFlight
    /\ LET gone == {s \in Sids : db[s] # NoRow /\ db[s].user = user}
       IN  /\ gone # {}
           /\ db' = [s \in Sids |-> IF s \in gone THEN NoRow ELSE db[s]]
           /\ admin' = [admin EXCEPT ![a] =
                [step |-> "remove", at |-> now, all |-> FALSE, rows |-> db,
                 todo |-> {}, removed |-> gone, cur |-> CHOOSE s \in gone : TRUE]]
           /\ revokedAt' = [s \in Sids |-> IF s \in gone THEN now ELSE revokedAt[s]]
    /\ deleted' = deleted \cup {user}
    /\ disturbed' = Overlapping
    /\ UNCHANGED <<now, cache, req, created, granted, loggedOut>>

\* Scheduler sessions_cleanup: old rows leave the table, the cache keeps its own.
Cleanup ==
    /\ \E s \in Sids : db[s] # NoRow /\ db[s].exp + CleanupAge < now
    /\ db' = [s \in Sids |-> IF db[s] # NoRow /\ db[s].exp + CleanupAge < now
                             THEN NoRow ELSE db[s]]
    /\ UNCHANGED <<now, cache, req, admin, history>>

\* A cache entry ends with its lifespan or with a restart of the cache.
CacheExpires(s) ==
    /\ cache[s] # NoRow
    /\ cache' = [cache EXCEPT ![s] = NoRow]
    /\ UNCHANGED <<now, db, req, admin, history>>

Tick ==
    /\ now < MaxTime
    /\ now' = now + 1
    /\ UNCHANGED <<db, cache, req, admin, history>>

-----------------------------------------------------------------------------
Init ==
    /\ now = 0
    /\ db = [s \in Sids |-> NoRow]
    /\ cache = [s \in Sids |-> NoRow]
    /\ req = [r \in Requests |-> Idle]
    /\ admin = [a \in Admins |-> AdminIdle]
    /\ created = [s \in Sids |-> Never]
    /\ granted = {} /\ deleted = {}
    /\ revokedAt = [s \in Sids |-> Never]
    /\ loggedOut = {} /\ disturbed = "no"

RequestStep(r) ==
    \/ FindCached(r) \/ FindSelect(r) \/ FindFill(r)
    \/ SaveDb(r) \/ SaveCache(r) \/ CacheError(r)
    \/ HandlePage(r) \/ HandleMfa(r) \/ HandleLogout(r)

AdminStep(a) ==
    \/ InvalidateAll(a)
    \/ \E u \in Users : InvalidateForUser(a, u) \/ DeleteByUser(a, u)
    \/ InvalidateSaveDb(a) \/ InvalidateSaveCache(a) \/ InvalidateError(a)
    \/ InvalidateRemove(a)

Next ==
    \/ \E s \in Sids : NewSession(s) \/ CacheExpires(s)
    \/ \E r \in Requests, op \in Ops, s \in Sids, u \in Users \cup {NoUser}, e \in UserExpires :
          Start(r, op, s, u, e)
    \/ \E r \in Requests : RequestStep(r)
    \/ \E a \in Admins : AdminStep(a)
    \/ Cleanup
    \/ Tick

Spec == Init /\ [][Next]_vars

-----------------------------------------------------------------------------
\* The state is well-formed, and a request that goes on after Session::find
\* holds a session, whatever was deleted or expired in between (Session::find).
TypeOK ==
    /\ now \in Nat
    /\ db \in [Sids -> Row \cup {NoRow}]
    /\ cache \in [Sids -> Row \cup {NoRow}]
    /\ req \in [Requests -> {Idle} \cup Running]
    /\ \A r \in Requests : req[r] # Idle =>
          /\ req[r].step \notin {"find", "select"} => req[r].copy # NoRow
          /\ req[r].op = "redeem" => req[r].user # NoUser
    /\ admin \in [Admins -> {AdminIdle} \cup AdminRunning]
    /\ created \in [Sids -> Nat \cup {Never}]
    /\ granted \subseteq Sids \X Users \X Nat
    /\ deleted \subseteq Users
    /\ revokedAt \in [Sids -> Nat \cup {Never}]
    /\ loggedOut \subseteq Sids
    /\ disturbed \in {"no", "yes"}

\* Every copy of session s: its row, its cache entry, the ones requests hold
\* and the ones an invalidation still has to write back.
Copies(s) ==
    ({db[s], cache[s]}
       \cup {req[r].copy : r \in {q \in Requests : req[q] # Idle /\ req[q].sid = s}}
       \cup {admin[a].rows[s] : a \in {b \in Admins : admin[b] # AdminIdle}})
    \ {NoRow}

\* Whatever stale copies are written back, a session is in state Auth only for
\* a user whose authorization code was redeemed for this very session
\* (grant_type_code, Session::find, Session::save).
AuthOnlyIfGranted ==
    \A s \in Sids : \A c \in Copies(s) :
        c.state = "Auth" => \E g \in granted : g[1] = s /\ g[2] = c.user

\* No copy of a session outlives SESSION_LIFETIME, nor, once authenticated, the
\* `user_expires` that its user had when a code was redeemed for it: a later
\* User::update does not reach the session.  Only an invalidation or a logout, which
\* set `exp` to their own time, may move the expiry of an expired session forward
\* (Session::new, validate_user_expiry, invalidate_for_user, invalidate).
LifetimeBounded ==
    \A s \in Sids : \A c \in Copies(s) :
        \/ revokedAt[s] # Never /\ c.exp <= revokedAt[s]
        \/ /\ c.exp <= created[s] + Lifetime
           /\ c.state = "Auth" =>
                 \E g \in granted : g[1] = s /\ g[2] = c.user /\ c.exp <= g[3]

Quiescent == InFlight = 0

\* No copy of an invalidated session is valid after the second of its
\* invalidation.
InvalidatedAreDead ==
    Quiescent => \A s \in Sids : revokedAt[s] # Never /\ s \notin loggedOut =>
        \A c \in Copies(s) : c.exp <= revokedAt[s]

\* As long as requests did not overlap and the cache did not fail, an
\* invalidated session is dead for good, whatever is redeemed for it later
\* (Session::invalidate_all, invalidate_for_user, delete_by_user).
InvalidatedStaysDead == disturbed = "no" => InvalidatedAreDead

\* As long as requests did not overlap and the cache did not fail, the cache
\* shows what the table holds, but for a logged out session and for expired
\* rows the scheduler deleted (Session::save, Session::find).
CacheCoherent ==
    disturbed = "no" /\ Quiescent => \A s \in Sids :
        \/ cache[s] \in {NoRow, db[s]}
        \/ s \in loggedOut
        \/ db[s] = NoRow /\ cache[s].exp + CleanupAge < now
=============================================================================
