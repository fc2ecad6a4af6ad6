--------------------------- MODULE RefreshTokens ----------------------------
(***************************************************************************)
(* Refresh tokens: the `refresh_tokens` and `refresh_tokens_devices`       *)
(* tables, the `enabled` column of the `users` table with the user cache   *)
(* in front of it, and the requests that rotate a refresh token.           *)
(*                                                                         *)
(* A refresh token is a signed JWT of which only the last 49 characters    *)
(* are stored.  validate_refresh_token reads the stored row, then the user *)
(* (cache first), writes the whole user row back with a new last_login,    *)
(* shortens the row of the used token to a grace time and stores a new     *)
(* token.  It works on copies: the actions are split at its awaits.        *)
(* Meanwhile an admin disables, enables or deletes the user or invalidates *)
(* tokens, and schedulers invalidate and clean up.                         *)
(***************************************************************************)
EXTENDS Integers, FiniteSets

CONSTANTS
    Users,
    UserExpires,     \* Users -> Nat: `user_expires`, beyond MaxTime for never
    Tokens,          \* the JWTs that can be issued; each is issued once
    Requests,        \* concurrently executing refresh requests
    Admins,          \* concurrently executing changes of a user
    NoRow, Never,
    Grace,           \* REFRESH_TOKEN_GRACE_TIME
    AccessLifetime,  \* access_token_lifetime of the client
    Lifetime,        \* REFRESH_TOKEN_LIFETIME, less the 60 s of `nbf`
    DeviceLifetime,  \* DEVICE_GRANT_REFRESH_TOKEN_LIFETIME, likewise
    JwtLifetime,     \* expiry of the signed JWT (48 h)
    AdminMayFail,    \* whether a change of a user may stop half-way
    MaxInFlight,     \* bound on the requests running at the same time
    MaxTime          \* bound on the clock

ASSUME RefreshTokensAssumption ==
    /\ UserExpires \in [Users -> Nat]
    /\ IsFiniteSet(Requests) /\ IsFiniteSet(Admins)
    /\ Grace \in Nat /\ AccessLifetime \in Nat /\ Lifetime \in Nat
    /\ DeviceLifetime \in Nat /\ JwtLifetime \in Nat
    /\ AdminMayFail \in BOOLEAN
    /\ MaxInFlight \in Nat /\ MaxTime \in Nat
    /\ Never \notin Nat

VARIABLES
    now,
    rt,          \* the `refresh_tokens` table: token -> row or NoRow
    dev,         \* the `refresh_tokens_devices` table: token -> row or NoRow
    users,       \* the `users` table: user -> its `enabled`, or NoRow
    ucache,      \* CACHE_NAME_USERS: user -> `enabled` of the entry, or NoRow
    req,         \* per refresh request: its step and its copies
    admin,       \* per change of a user: its step
    issued,      \* history: the JWTs handed out: user and expiry, or Never
    rotatedAt,   \* history: when a token was last used successfully, or Never
    revokedAt,   \* history: when a token was last invalidated, or Never
    disabled,    \* history: users whose disabling has completed
    disturbed    \* history: whether requests overlapped or the change of a user failed

tokenHistory == <<issued, rotatedAt, revokedAt, disturbed>>
vars == <<now, rt, dev, users, ucache, req, admin, disabled, tokenHistory>>

\* struct RefreshToken and RefreshTokenDevice (scope, nbf and mfa left out)
Row == [user : Users, exp : Int]
\* User.enabled
Status == {"enabled", "disabled"}
Jwt == [user : Users, exp : Nat]

ASSUME NoRowAssumption == NoRow \notin Row /\ NoRow \notin Status /\ Never \notin Jwt

Idle == [step |-> "idle"]
Steps == {"misuse", "user", "select", "fill", "save_db", "save_cache", "rotate", "issue"}
Running == [step : Steps, tok : Tokens, row : Row, status : Status]

AdminIdle == [step |-> "idle"]
AdminRunning == [step : {"invalidate", "save_cache", "del_cache"}, user : Users,
                 status : Status]

InFlight == Cardinality({r \in Requests : req[r] # Idle})
              + Cardinality({a \in Admins : admin[a] # AdminIdle})

\* `disturbed` once another request starts
Overlapping == IF InFlight = 0 THEN disturbed ELSE "yes"

Min2(a, b) == IF a < b THEN a ELSE b

-----------------------------------------------------------------------------
\* TokenSet::from_user and build_refresh_token: an access token never outlives
\* the account, a refresh token is added to the lifetime of the access token.
Alive(u) == UserExpires[u] - now >= 1

NewRow(u, lifetime) ==
    [user |-> u, exp |-> now + Min2(AccessLifetime, UserExpires[u] - now) + lifetime]

NewJwt(u) == [user |-> u, exp |-> now + JwtLifetime]

\* A code or a password, or (DeviceLogin) a device grant is redeemed.  Its user exists (foreign
\* key), but is not checked to be enabled any more.
Login(t, u) ==
    /\ issued[t] = Never
    /\ users[u] # NoRow /\ Alive(u)
    /\ rt' = [rt EXCEPT ![t] = NewRow(u, Lifetime)]
    /\ issued' = [issued EXCEPT ![t] = NewJwt(u)]
    /\ UNCHANGED <<now, dev, users, ucache, req, admin, rotatedAt, revokedAt, disabled,
                   disturbed>>

DeviceLogin(t, u) ==
    /\ issued[t] = Never
    /\ users[u] # NoRow /\ Alive(u)
    /\ dev' = [dev EXCEPT ![t] = NewRow(u, DeviceLifetime)]
    /\ issued' = [issued EXCEPT ![t] = NewJwt(u)]
    /\ UNCHANGED <<now, rt, users, ucache, req, admin, rotatedAt, revokedAt, disabled,
                   disturbed>>

-----------------------------------------------------------------------------
\* validate_refresh_token, after the checks of the signed JWT and its client.

\* RefreshToken::find: a row that has expired reveals a second use.
FindToken(r, t) ==
    /\ req[r] = Idle /\ InFlight < MaxInFlight
    /\ issued[t] # Never /\ now <= issued[t].exp
    /\ IF rt[t] = NoRow
       THEN UNCHANGED req
       ELSE req' = [req EXCEPT ![r] =
                 [step |-> IF rt[t].exp < now THEN "misuse" ELSE "user",
                  tok |-> t, row |-> rt[t], status |-> "enabled"]]
    /\ disturbed' = Overlapping
    /\ UNCHANGED <<now, rt, dev, users, ucache, admin, issued, rotatedAt, revokedAt,
                   disabled>>

\* RefreshToken::invalidate_all_for_user
Misuse(r) ==
    /\ req[r].step = "misuse"
    /\ LET u == req[r].row.user
           gone == {t \in Tokens : rt[t] # NoRow /\ rt[t].user = u}
       IN  /\ rt' = [t \in Tokens |-> IF t \in gone THEN NoRow ELSE rt[t]]
           /\ revokedAt' = [t \in Tokens |-> IF t \in gone THEN now ELSE revokedAt[t]]
    /\ req' = [req EXCEPT ![r] = Idle]
    /\ UNCHANGED <<now, dev, users, ucache, admin, issued, rotatedAt, disabled,
                   disturbed>>

\* check_enabled and check_expired, on the copy User::find has returned
Checked(r, status) ==
    IF status = "enabled" /\ now <= UserExpires[req[r].row.user]
    THEN [req[r] EXCEPT !.step = "save_db", !.status = status]
    ELSE Idle

\* User::find: the cache, else the table, whose row is put into the cache.
FindUserCached(r) ==
    /\ req[r].step = "user"
    /\ LET cached == ucache[req[r].row.user]
       IN  req' = [req EXCEPT ![r] = IF cached # NoRow THEN Checked(r, cached)
                                     ELSE [req[r] EXCEPT !.step = "select"]]
    /\ UNCHANGED <<now, rt, dev, users, ucache, admin, disabled, tokenHistory>>

FindUserSelect(r) ==
    /\ req[r].step = "select"
    /\ LET row == users[req[r].row.user]
       IN  req' = [req EXCEPT ![r] = IF row = NoRow THEN Idle
                                     ELSE [req[r] EXCEPT !.step = "fill", !.status = row]]
    /\ UNCHANGED <<now, rt, dev, users, ucache, admin, disabled, tokenHistory>>

FindUserFill(r) ==
    /\ req[r].step = "fill"
    /\ ucache' = [ucache EXCEPT ![req[r].row.user] = req[r].status]
    /\ req' = [req EXCEPT ![r] = Checked(r, req[r].status)]
    /\ UNCHANGED <<now, rt, dev, users, admin, disabled, tokenHistory>>

\* User::save of the copy with its new last_login: the row, if it still exists,
\* then the cache.
SaveUserDb(r) ==
    /\ req[r].step = "save_db"
    /\ users' = [users EXCEPT ![req[r].row.user] = IF @ = NoRow THEN @ ELSE req[r].status]
    /\ req' = [req EXCEPT ![r].step = "save_cache"]
    /\ UNCHANGED <<now, rt, dev, ucache, admin, disabled, tokenHistory>>

SaveUserCache(r) ==
    /\ req[r].step = "save_cache"
    /\ ucache' = [ucache EXCEPT ![req[r].row.user] = req[r].status]
    /\ req' = [req EXCEPT ![r].step = "rotate"]
    /\ UNCHANGED <<now, rt, dev, users, admin, disabled, tokenHistory>>

RotatedRowKept(row) == row

\* "invalidate current refresh token": the grace time starts.
RotatedRow(row) == [row EXCEPT !.exp = now + Grace]

NeedsRotationAlways(row) == TRUE

\* "do not set expires_at, if we are below our refresh token grace time anyway"
NeedsRotation(row) == row.exp > now + Grace + 1

\* RefreshToken::save of the copy inserts or replaces; a row whose user is gone
\* violates the foreign key and ends the request.
Rotate(r) ==
    /\ req[r].step = "rotate"
    /\ LET row == req[r].row
           t == req[r].tok
       IN  IF NeedsRotation(row) /\ users[row.user] = NoRow
           THEN /\ req' = [req EXCEPT ![r] = Idle]
                /\ UNCHANGED <<rt, rotatedAt>>
           ELSE /\ rt' = IF NeedsRotation(row) THEN [rt EXCEPT ![t] = RotatedRow(row)] ELSE rt
                /\ rotatedAt' = [rotatedAt EXCEPT ![t] = now]
                /\ req' = [req EXCEPT ![r].step = "issue"]
    /\ UNCHANGED <<now, dev, users, ucache, admin, issued, revokedAt, disabled,
                   disturbed>>

\* TokenSet::from_user: a new refresh token t, or an error for an expired or a
\* deleted user.
Issue(r, t) ==
    /\ req[r].step = "issue"
    /\ issued[t] = Never
    /\ LET u == req[r].row.user
       IN  IF Alive(u) /\ users[u] # NoRow
           THEN /\ rt' = [rt EXCEPT ![t] = NewRow(u, Lifetime)]
                /\ issued' = [issued EXCEPT ![t] = NewJwt(u)]
           ELSE UNCHANGED <<rt, issued>>
    /\ req' = [req EXCEPT ![r] = Idle]
    /\ UNCHANGED <<now, dev, users, ucache, admin, rotatedAt, revokedAt, disabled,
                   disturbed>>

\* An error of the database or the cache, or the end of the server, stops a
\* refresh or the change of a user between any two steps.
Fail(r) ==
    /\ req[r] # Idle
    /\ req' = [req EXCEPT ![r] = Idle]
    /\ UNCHANGED <<now, rt, dev, users, ucache, admin, disabled, tokenHistory>>

FailAdmin(a) ==
    /\ AdminMayFail
    /\ admin[a] # AdminIdle
    /\ admin' = [admin EXCEPT ![a] = AdminIdle]
    /\ disturbed' = "yes"
    /\ UNCHANGED <<now, rt, dev, users, ucache, req, disabled, issued, rotatedAt,
                   revokedAt>>

-----------------------------------------------------------------------------
\* Changes of a user by an admin: User::update with User::save, User::delete.

SetEnabled(a, u, status) ==
    /\ admin[a] = AdminIdle /\ InFlight < MaxInFlight
    /\ users[u] # NoRow
    /\ users' = [users EXCEPT ![u] = status]
    /\ admin' = [admin EXCEPT ![a] = [user |-> u, status |-> status,
                   step |-> IF status = "enabled" THEN "save_cache" ELSE "invalidate"]]
    /\ disabled' = disabled \ {u}
    /\ disturbed' = Overlapping
    /\ UNCHANGED <<now, rt, dev, ucache, req, issued, rotatedAt, revokedAt>>

\* The effect of invalidate_for_user and invalidate_all on the selected rows
Expire(selected) ==
    LET hit == {t \in selected : rt[t] # NoRow /\ rt[t].exp > now}
    IN  /\ rt' = [t \in Tokens |-> IF t \in hit THEN [rt[t] EXCEPT !.exp = now] ELSE rt[t]]
        /\ revokedAt' = [t \in Tokens |-> IF t \in hit THEN now ELSE revokedAt[t]]

TokensOf(u) == {t \in Tokens : rt[t] # NoRow /\ rt[t].user = u}

\* A disabled user loses its sessions (module Sessions) and refresh tokens.
SetEnabledInvalidate(a) ==
    /\ admin[a].step = "invalidate"
    /\ Expire(TokensOf(admin[a].user))
    /\ admin' = [admin EXCEPT ![a].step = "save_cache"]
    /\ UNCHANGED <<now, dev, users, ucache, req, issued, rotatedAt, disabled,
                   disturbed>>

SetEnabledDbOnly(a) ==
    /\ admin[a].step = "save_cache"
    /\ disabled' = IF admin[a].status = "enabled" THEN disabled ELSE disabled \cup {admin[a].user}
    /\ admin' = [admin EXCEPT ![a] = AdminIdle]
    /\ UNCHANGED <<now, rt, dev, users, ucache, req, tokenHistory>>

SetEnabledCache(a) ==
    /\ admin[a].step = "save_cache"
    /\ ucache' = [ucache EXCEPT ![admin[a].user] = admin[a].status]
    /\ disabled' = IF admin[a].status = "enabled" THEN disabled ELSE disabled \cup {admin[a].user}
    /\ admin' = [admin EXCEPT ![a] = AdminIdle]
    /\ UNCHANGED <<now, rt, dev, users, req, tokenHistory>>

\* User::delete: the row, and with it (ON DELETE CASCADE) the tokens, then the cache.
DeleteUser(a, u) ==
    /\ admin[a] = AdminIdle /\ InFlight < MaxInFlight
    /\ users[u] # NoRow
    /\ users' = [users EXCEPT ![u] = NoRow]
    /\ rt' = [t \in Tokens |-> IF rt[t] # NoRow /\ rt[t].user = u THEN NoRow ELSE rt[t]]
    /\ dev' = [t \in Tokens |-> IF dev[t] # NoRow /\ dev[t].user = u THEN NoRow ELSE dev[t]]
    /\ revokedAt' = [t \in Tokens |-> IF t \in TokensOf(u) THEN now ELSE revokedAt[t]]
    /\ admin' = [admin EXCEPT ![a] = [user |-> u, status |-> "disabled", step |-> "del_cache"]]
    /\ disabled' = disabled \ {u}
    /\ disturbed' = Overlapping
    /\ UNCHANGED <<now, ucache, req, issued, rotatedAt>>

DeleteUserCache(a) ==
    /\ admin[a].step = "del_cache"
    /\ ucache' = [ucache EXCEPT ![admin[a].user] = NoRow]
    /\ admin' = [admin EXCEPT ![a] = AdminIdle]
    /\ UNCHANGED <<now, rt, dev, users, req, disabled, tokenHistory>>

\* DELETE /sessions and /sessions/{user_id}, and the scheduler
\* user_expiry_checker: one UPDATE each.
InvalidateTokens(selected) ==
    /\ InFlight < MaxInFlight
    /\ \E t \in selected : rt[t] # NoRow /\ rt[t].exp > now
    /\ Expire(selected)
    /\ disturbed' = Overlapping
    /\ UNCHANGED <<now, dev, users, ucache, req, admin, issued, rotatedAt, disabled>>

\* DELETE /users/{id}/devices
RevokeDevice(t) ==
    /\ dev[t] # NoRow
    /\ dev' = [dev EXCEPT ![t] = NoRow]
    /\ UNCHANGED <<now, rt, users, ucache, req, admin, disabled, tokenHistory>>

\* Scheduler refresh_tokens_cleanup
Cleanup ==
    /\ \E t \in Tokens : rt[t] # NoRow /\ rt[t].exp < now
    /\ rt' = [t \in Tokens |-> IF rt[t] # NoRow /\ rt[t].exp < now THEN NoRow ELSE rt[t]]
    /\ UNCHANGED <<now, dev, users, ucache, req, admin, disabled, tokenHistory>>

\* An entry of the user cache ends with its lifespan or with the cache.
CacheExpires(u) ==
    /\ ucache[u] # NoRow
    /\ ucache' = [ucache EXCEPT ![u] = NoRow]
    /\ UNCHANGED <<now, rt, dev, users, req, admin, disabled, tokenHistory>>

Tick ==
    /\ now < MaxTime
    /\ now' = now + 1
    /\ UNCHANGED <<rt, dev, users, ucache, req, admin, disabled, tokenHistory>>

-----------------------------------------------------------------------------
Init ==
    /\ now = 0
    /\ rt = [t \in Tokens |-> NoRow]
    /\ dev = [t \in Tokens |-> NoRow]
    /\ users = [u \in Users |-> "enabled"]
    /\ ucache = [u \in Users |-> NoRow]
    /\ req = [r \in Requests |-> Idle]
    /\ admin = [a \in Admins |-> AdminIdle]
    /\ issued = [t \in Tokens |-> Never]
    /\ rotatedAt = [t \in Tokens |-> Never]
    /\ revokedAt = [t \in Tokens |-> Never]
    /\ disabled = {} /\ disturbed = "no"

RequestStep(r) ==
    \/ \E t \in Tokens : FindToken(r, t) \/ Issue(r, t)
    \/ Misuse(r)
    \/ FindUserCached(r) \/ FindUserSelect(r) \/ FindUserFill(r)
    \/ SaveUserDb(r) \/ SaveUserCache(r)
    \/ Rotate(r) \/ Fail(r)

AdminStep(a) ==
    \/ \E u \in Users, status \in Status : SetEnabled(a, u, status)
    \/ \E u \in Users : DeleteUser(a, u)
    \/ SetEnabledInvalidate(a) \/ SetEnabledCache(a) \/ DeleteUserCache(a)
    \/ FailAdmin(a)

Next ==
    \/ \E t \in Tokens, u \in Users : Login(t, u) \/ DeviceLogin(t, u)
    \/ \E r \in Requests : RequestStep(r)
    \/ \E a \in Admins : AdminStep(a)
    \/ InvalidateTokens(Tokens)
    \/ \E u \in Users : InvalidateTokens(TokensOf(u)) \/ CacheExpires(u)
    \/ \E t \in Tokens : RevokeDevice(t)
    \/ Cleanup
    \/ Tick

Spec == Init /\ [][Next]_vars

-----------------------------------------------------------------------------
\* A stored token belongs to an existing user, also when that user is deleted
\* while one of its tokens is being rotated.
TypeOK ==
    /\ now \in Nat
    /\ rt \in [Tokens -> Row \cup {NoRow}]
    /\ dev \in [Tokens -> Row \cup {NoRow}]
    /\ users \in [Users -> Status \cup {NoRow}]
    /\ ucache \in [Users -> Status \cup {NoRow}]
    /\ req \in [Requests -> {Idle} \cup Running]
    /\ admin \in [Admins -> {AdminIdle} \cup AdminRunning]
    /\ issued \in [Tokens -> Jwt \cup {Never}]
    /\ rotatedAt \in [Tokens -> Nat \cup {Never}]
    /\ revokedAt \in [Tokens -> Nat \cup {Never}]
    /\ disabled \subseteq Users
    /\ disturbed \in {"no", "yes"}
    /\ \A t \in Tokens : rt[t] # NoRow => users[rt[t].user] # NoRow

\* However requests with the same token interleave, and whatever invalidations
\* and cleanups happen between their reads and writes: a token that was used
\* ends at most the grace time (and the second NeedsRotation leaves) after its
\* last successful use (validate_refresh_token, RefreshToken::save).
RotatedExpires ==
    \A t \in Tokens : rt[t] # NoRow /\ rotatedAt[t] # Never =>
        rt[t].exp <= rotatedAt[t] + Grace + 1

Quiescent == InFlight = 0

\* As long as requests did not overlap and every change of a user completed, an
\* invalidated token stays invalid: neither a rotation nor a save brings it back
\* (RefreshToken::invalidate_for_user, invalidate_all, invalidate_all_for_user,
\* User::delete).
RevokedStaysRevoked ==
    disturbed = "no" /\ Quiescent => \A t \in Tokens : revokedAt[t] # Never /\ rt[t] # NoRow =>
        rt[t].exp <= revokedAt[t]

\* Under the same condition, a disabled user stays disabled until an admin
\* enables it, and the cache does not say otherwise (User::save, User::find).
DisabledStaysDisabled ==
    disturbed = "no" /\ Quiescent => \A u \in Users :
        /\ ucache[u] \in {NoRow, users[u]}
        /\ u \in disabled => users[u] = "disabled"
=============================================================================
