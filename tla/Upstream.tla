------------------------------ MODULE Upstream ------------------------------
(***************************************************************************)
(* Logins by an upstream provider: a browser starts one, comes back from   *)
(* the provider with a code, and login_finish fetches the claims, finds,   *)
(* links, updates or creates the user and issues an authorization code.    *)
(* Other requests change the users and delete providers meanwhile.         *)
(*                                                                         *)
(* The provider is outside: its answer is any of the claims, or an error.  *)
(* A browser stands for what it knows of a callback it started: the CSRF   *)
(* token and the PKCE verifier.  Names and values of the user that the     *)
(* claims may change too are left out.                                     *)
(***************************************************************************)
EXTENDS Naturals, Sequences, FiniteSets

CONSTANTS
    Requests,    \* concurrently executing requests
    Browsers, Users, Emails, Providers, Uids, Callbacks,
    SessionUser, \* the user logged in at a browser, or None
    AdminMapped, \* providers with admin_claim_path
    MfaMapped,   \* providers with mfa_claim_path
    Claims,      \* answers of a provider: records of uid, email, admin and mfa
    InitUsers,   \* the users to start with
    None,
    MaxOps       \* bound on the number of requests

\* Rows of the users table
Row_ == [email : Emails, own : BOOLEAN, wa : BOOLEAN, prov : Providers \cup {None}, uid : Uids \cup {None},
         admin : BOOLEAN]

ASSUME ConstantsOK ==
    /\ AdminMapped \subseteq Providers /\ MfaMapped \subseteq Providers
    /\ Claims \subseteq [uid : Uids, email : Emails, admin : BOOLEAN, mfa : BOOLEAN]
    /\ SessionUser \in [Browsers -> Users \cup {None}]
    /\ InitUsers \subseteq [Users -> Row_ \cup {None}]
    /\ None \notin Providers \cup Emails \cup Row_
    /\ None \notin [id : Users, row : Row_] /\ None \notin [prov : Providers, by : Browsers]
    /\ MaxOps \in Nat

VARIABLES
    users,       \* rows: [email, own, wa, prov, uid, admin], or None
    byId, byEmail, \* cached copies of the users, with their id
    providers,   \* providers there are
    callbacks,   \* cached AuthProviderCallback, or None
    upCookie,    \* browser: callback id in COOKIE_UPSTREAM_CALLBACK
    linkCookie,  \* browser: content of PROVIDER_LINK_COOKIE
    mfaSessions, \* browsers whose session is marked with MFA
    codes,       \* authorization codes issued: the user, and the provider of the login
    req,
    ops,
    consent,     \* history: user and provider: the user asked for the link, or was created by it
    bad,         \* history: callbacks a check failed for
    decided,     \* history: whether a user is to be an administrator
    spoilt       \* history: users two requests worked on at a time, or not all of whose caches were written

caches == <<byId, byEmail>>
browser == <<upCookie, linkCookie, mfaSessions>>
history == <<consent, bad, decided, spoilt>>
vars == <<users, caches, providers, callbacks, browser, codes, req, ops, history>>

-----------------------------------------------------------------------------
\* Users: a copy carries the id of its user.

Copy(u) == IF users[u] = None THEN None ELSE [id |-> u, row |-> users[u]]

\* User::find, User::find_by_email
Find(u) == IF byId[u] # None THEN byId[u] ELSE Copy(u)
FindByEmail(e) ==
    IF byEmail[e] # None THEN byEmail[e]
    ELSE LET us == {u \in Users : users[u] # None /\ users[u].email = e}
         IN  IF us = {} THEN None ELSE Copy(CHOOSE u \in us : TRUE)

\* User::find_by_federation, never cached
find_by_federation(p, uid) ==
    LET us == {u \in Users : users[u] # None /\ users[u].prov = p /\ users[u].uid = uid}
    IN  IF us = {} THEN None ELSE Copy(CHOOSE u \in us : TRUE)

\* The constraints of the table: unique e-mail, unique provider and uid, and the
\* provider exists.
Storable(u, row) ==
    /\ \A v \in Users \ {u} : users[v] # None =>
         /\ users[v].email # row.email
         /\ row.prov # None /\ row.uid # None => <<users[v].prov, users[v].uid>> # <<row.prov, row.uid>>
    /\ row.prov # None => row.prov \in providers

-----------------------------------------------------------------------------
\* Requests: x is the copy to save, old the address it had if that changes; sets says
\* whether the request decides the role, and role what it decides.

Idle == [steps |-> <<>>]
Op(steps, x, old, sets, role) ==
    [steps |-> steps, x |-> x, old |-> old, sets |-> sets, role |-> role,
     b |-> None, cb |-> None, c |-> None, claims |-> None, link |-> None]

\* User::save: the row, then the caches
Save == <<"row", "old", "id", "mail">>

Active(r) == req[r] # Idle
Head1(r) == IF Active(r) THEN Head(req[r].steps) ELSE "none"
WorksOn(q, u) == Active(q) /\ req[q].x # None /\ req[q].x.id = u

Begin(r, op) ==
    /\ ops < MaxOps /\ ops' = ops + 1
    /\ ~Active(r)
    /\ req' = [req EXCEPT ![r] = op]

\* A copy of a user that another request has a copy of
Spoil(r, x) == spoilt' = IF x # None /\ \E q \in Requests \ {r} : WorksOn(q, x.id) THEN spoilt \cup {x.id} ELSE spoilt

\* An error ends the request.  login_finish leaves its callback where it is.
Abort(r) == req' = [req EXCEPT ![r] = Idle]

\* The address that a change of it to e gives up
OldEmail(x, e) == IF x.row.email = e THEN None ELSE x.row.email

-----------------------------------------------------------------------------
\* Starting

\* AuthProviderCallback::login_start: the cookie replaces the one of an earlier start.
\* The id is random, never one that was used before.
StartLogin(b, p) ==
    \E cb \in {x \in Callbacks : callbacks[x] = None /\ x \notin bad
                                 /\ \A o \in Browsers : upCookie[o] # x
                                 /\ \A r \in Requests : Active(r) => req[r].cb # x} :
        /\ p \in providers
        /\ callbacks' = [callbacks EXCEPT ![cb] = [prov |-> p, by |-> b]]
        /\ upCookie' = [upCookie EXCEPT ![b] = cb]

login_start(b, p) ==
    /\ ops < MaxOps /\ ops' = ops + 1
    /\ StartLogin(b, p)
    /\ UNCHANGED <<users, caches, providers, linkCookie, mfaSessions, codes, req, history>>

\* POST /providers/{id}/link: the provider in the path goes into the link cookie, the
\* one in the body is used for the login.
post_provider_link(b, q, p) ==
    LET u == Find(SessionUser[b]) IN
    /\ ops < MaxOps /\ ops' = ops + 1
    /\ SessionUser[b] # None
    /\ u # None /\ u.row.prov = None
    /\ StartLogin(b, p)
    /\ linkCookie' = [linkCookie EXCEPT ![b] = [prov |-> q, user |-> u.id, email |-> u.row.email]]
    /\ byId' = [byId EXCEPT ![u.id] = u]
    /\ consent' = consent \cup {<<u.id, q>>}
    /\ UNCHANGED <<users, byEmail, providers, mfaSessions, codes, req, bad, decided, spoilt>>

-----------------------------------------------------------------------------
\* Finishing

KeptCallbacks(cb) == callbacks

\* AuthProviderCallback::delete
WithoutCallback(cb) == [callbacks EXCEPT ![cb] = None]

\* login_finish with a state, CSRF token or PKCE verifier that is not the one of the
\* callback in the cookie: that callback is deleted, unless the cache returns an error.
\* wrong stands for the token or the verifier.
RejectFinish(b, state, wrong) ==
    LET cb == upCookie[b] IN
    /\ ops < MaxOps /\ ops' = ops + 1
    /\ cb # None
    /\ state # cb \/ (callbacks[cb] # None /\ (wrong \/ callbacks[cb].by # b))
    /\ \/ callbacks' = WithoutCallback(cb) /\ bad' = bad \cup {cb}
       \/ UNCHANGED <<callbacks, bad>>
    /\ UNCHANGED <<users, caches, providers, browser, codes, req, consent, decided, spoilt>>

\* login_finish: the callback, then the provider, are found; the callback stays.
login_finish(r, b) ==
    LET cb == upCookie[b] IN
    /\ cb # None /\ callbacks[cb] # None /\ callbacks[cb].by = b
    /\ callbacks[cb].prov \in providers
    /\ Begin(r, [Op(<<"token">>, None, None, FALSE, FALSE) EXCEPT
                   !.b = b, !.cb = cb, !.c = callbacks[cb], !.link = linkCookie[b]])
    /\ UNCHANGED <<users, caches, providers, callbacks, browser, codes, history>>

\* The answer of the token endpoint, or of the userinfo endpoint
Token(r) ==
    /\ Head1(r) = "token"
    /\ \/ \E c \in Claims : req' = [req EXCEPT ![r].steps = <<"user">>, ![r].claims = c]
       \/ Abort(r)
    /\ UNCHANGED <<users, caches, providers, callbacks, browser, codes, ops, history>>

LinkAllowedByMail(link, x, p) == link # None /\ link.prov = p /\ link.email = x.row.email

LinkAlways(link, x, p) == TRUE

\* What the link cookie must say for an account with the e-mail of the claims
LinkAllowed(link, x, p) == link # None /\ link.prov = p /\ link.user = x.id /\ link.email = x.row.email

ShouldBeAdminByDefault(row, p, c) == c.admin /\ p \in AdminMapped

\* The role follows the claim if the provider maps it.
ShouldBeAdmin(row, p, c) == IF p \in AdminMapped THEN c.admin ELSE row.admin

NewUser(p, c) ==
    [email |-> c.email, own |-> FALSE, wa |-> FALSE, prov |-> p, uid |-> c.uid,
     admin |-> p \in AdminMapped /\ c.admin]

Updated(x, p, c) ==
    [x EXCEPT !.row.prov = p, !.row.uid = c.uid, !.row.email = c.email,
              !.row.admin = ShouldBeAdmin(x.row, p, c)]

\* validate_update_user: the user of the federation, the one with the e-mail if the
\* link cookie allows it, or a new one.
validate_update_user(r) ==
    LET q == req[r] p == q.c.prov c == q.claims
        fed == find_by_federation(p, c.uid)
        mail == FindByEmail(c.email)
        x == IF fed # None THEN fed ELSE mail
    IN  /\ Head1(r) = "user"
        /\ byEmail' = IF fed = None THEN [byEmail EXCEPT ![c.email] = mail] ELSE byEmail
        /\ \/ /\ fed # None \/ (mail # None /\ LinkAllowed(q.link, mail, p))
              /\ req' = [req EXCEPT ![r].steps = <<"row", "old", "id", "mail", "code">>,
                                    ![r].x = Updated(x, p, c),
                                    ![r].old = OldEmail(x, c.email),
                                    ![r].sets = p \in AdminMapped, ![r].role = c.admin]
              /\ Spoil(r, x)
           \/ /\ fed = None /\ mail # None /\ ~LinkAllowed(q.link, mail, p)
              /\ Abort(r)
              /\ UNCHANGED spoilt
           \/ /\ fed = None /\ mail = None
              /\ req' = [req EXCEPT ![r].steps = <<"insert", "code">>]
              /\ UNCHANGED spoilt
        /\ UNCHANGED <<users, byId, providers, callbacks, browser, codes, ops, consent, bad, decided>>

\* User::create_federated; the bound is a free id.
Insert(r) ==
    LET q == req[r] new == NewUser(q.c.prov, q.claims)
        free == {u \in Users : users[u] = None /\ byId[u] = None /\ \A v \in Requests : ~WorksOn(v, u)}
        u == CHOOSE x \in free : TRUE
    IN  /\ Head1(r) = "insert" /\ free # {}
        /\ \/ /\ Storable(u, new)
              /\ users' = [users EXCEPT ![u] = new]
              /\ consent' = consent \cup {<<u, q.c.prov>>}
              /\ decided' = [decided EXCEPT ![u] = new.admin]
              /\ req' = [req EXCEPT ![r].steps = Tail(@), ![r].x = [id |-> u, row |-> new]]
           \/ /\ ~Storable(u, new)
              /\ Abort(r)
              /\ UNCHANGED <<users, consent, decided>>
        /\ UNCHANGED <<caches, providers, callbacks, browser, codes, ops, bad, spoilt>>

\* User::save: a new address must be free, and the row must satisfy the constraints;
\* nothing happens if it is gone.
Row(r) ==
    LET q == req[r] x == req[r].x
        ok == (q.old # None => FindByEmail(x.row.email) = None) /\ (users[x.id] = None \/ Storable(x.id, x.row))
    IN  /\ Head1(r) = "row"
        /\ \/ /\ ok
              /\ users' = IF users[x.id] = None THEN users ELSE [users EXCEPT ![x.id] = x.row]
              /\ decided' = IF q.sets THEN [decided EXCEPT ![x.id] = q.role] ELSE decided
              /\ req' = [req EXCEPT ![r].steps = IF q.old = None THEN Tail(Tail(@)) ELSE Tail(@)]
           \/ /\ ~ok
              /\ Abort(r)
              /\ UNCHANGED <<users, decided>>
        /\ UNCHANGED <<caches, providers, callbacks, browser, codes, ops, consent, bad, spoilt>>

\* The copy under the old address goes.
WithoutOld(old) == [byEmail EXCEPT ![old] = None]

CacheOld(r) ==
    /\ Head1(r) = "old"
    /\ byEmail' = WithoutOld(req[r].old)
    /\ req' = [req EXCEPT ![r].steps = Tail(@)]
    /\ UNCHANGED <<users, byId, providers, callbacks, browser, codes, ops, history>>

CacheId(r) ==
    /\ Head1(r) = "id"
    /\ byId' = [byId EXCEPT ![req[r].x.id] = req[r].x]
    /\ req' = [req EXCEPT ![r].steps = Tail(@)]
    /\ UNCHANGED <<users, byEmail, providers, callbacks, browser, codes, ops, history>>

CacheEmail(r) ==
    /\ Head1(r) = "mail"
    /\ byEmail' = [byEmail EXCEPT ![req[r].x.row.email] = req[r].x]
    /\ req' = [req EXCEPT ![r] = IF Len(@.steps) = 1 THEN Idle ELSE [req[r] EXCEPT !.steps = Tail(@)]]
    /\ UNCHANGED <<users, byId, providers, callbacks, browser, codes, ops, history>>

\* A cache returns an error: the request ends, with the row written.
CacheFails(r) ==
    /\ Head1(r) \in {"old", "id", "mail"}
    /\ Abort(r)
    /\ spoilt' = spoilt \cup {req[r].x.id}
    /\ UNCHANGED <<users, caches, providers, callbacks, browser, codes, ops, consent, bad, decided>>

\* The provider does not vouch for a second factor, and there is no passkey.
MfaMissing(q) == ~(q.c.prov \in MfaMapped /\ q.claims.mfa) /\ ~q.x.row.wa

\* The rest of login_finish, for a user who may be disabled or expired, and a client
\* that may be gone or force MFA by now, or refuse the redirect URI, the challenge or the
\* origin.  With a link cookie there is no code at all, and the cookie is deleted; a user
\* with passkeys has to use one before the code is sent.
Code(r) ==
    LET q == req[r] IN
    /\ Head1(r) = "code"
    /\ req' = [req EXCEPT ![r] = Idle]
    /\ \/ UNCHANGED <<browser, codes>>
       \/ /\ q.link # None
          /\ linkCookie' = [linkCookie EXCEPT ![q.b] = None]
          /\ UNCHANGED <<upCookie, mfaSessions, codes>>
       \/ \E force_mfa \in BOOLEAN :
             /\ q.link = None /\ (force_mfa => ~MfaMissing(q))
             /\ mfaSessions' = IF force_mfa THEN mfaSessions \cup {q.b} ELSE mfaSessions
             /\ \/ /\ codes' = codes \cup {[user |-> q.x.id, prov |-> q.c.prov]}
                   /\ upCookie' = [upCookie EXCEPT ![q.b] = None]
                \/ UNCHANGED <<codes, upCookie>>
             /\ UNCHANGED linkCookie
    /\ UNCHANGED <<users, caches, providers, callbacks, ops, history>>

-----------------------------------------------------------------------------
\* Other requests

\* User::provider_unlink
provider_unlink(r, u) ==
    LET x == Find(u) IN
    /\ x # None /\ x.row.own
    /\ byId' = [byId EXCEPT ![u] = x]
    /\ Begin(r, Op(Save, [x EXCEPT !.row.prov = None, !.row.uid = None], None, FALSE, FALSE))
    /\ Spoil(r, x)
    /\ UNCHANGED <<users, byEmail, providers, callbacks, browser, codes, consent, bad, decided>>

\* User::update by an administrator: the address and the roles
update(r, u, e, admin) ==
    LET x == Find(u) IN
    /\ x # None
    /\ byId' = [byId EXCEPT ![u] = x]
    /\ Begin(r, Op(Save, [x EXCEPT !.row.email = e, !.row.admin = admin], OldEmail(x, e), TRUE, admin))
    /\ Spoil(r, x)
    /\ UNCHANGED <<users, byEmail, providers, callbacks, browser, codes, consent, bad, decided>>

\* AuthProvider::delete: the database clears auth_provider_id of the users.  Their
\* cached copies, and federation_uid, stay.
delete_provider(p) ==
    /\ ops < MaxOps /\ ops' = ops + 1
    /\ p \in providers
    /\ providers' = providers \ {p}
    /\ users' = [u \in Users |-> IF users[u] # None /\ users[u].prov = p THEN [users[u] EXCEPT !.prov = None]
                                 ELSE users[u]]
    /\ UNCHANGED <<caches, callbacks, browser, codes, req, history>>

\* UPSTREAM_AUTH_CALLBACK_TIMEOUT_SECS pass.
Timeout(cb) ==
    /\ callbacks[cb] # None
    /\ callbacks' = [callbacks EXCEPT ![cb] = None]
    /\ UNCHANGED <<users, caches, providers, browser, codes, req, ops, history>>

Init ==
    /\ users \in InitUsers
    /\ byId = [u \in Users |-> None] /\ byEmail = [e \in Emails |-> None]
    /\ providers = Providers
    /\ callbacks = [cb \in Callbacks |-> None]
    /\ upCookie = [b \in Browsers |-> None] /\ linkCookie = [b \in Browsers |-> None] /\ mfaSessions = {}
    /\ codes = {}
    /\ req = [r \in Requests |-> Idle]
    /\ ops = 0
    /\ consent = {<<u, users[u].prov>> : u \in {x \in Users : users[x] # None /\ users[x].prov # None}}
    /\ bad = {} /\ spoilt = {}
    /\ decided = [u \in Users |-> users[u] # None /\ users[u].admin]

BrowserRequest(b) ==
    \/ \E p \in Providers : login_start(b, p)
    \/ \E p, q \in Providers : post_provider_link(b, q, p)
    \/ \E state \in Callbacks, wrong \in BOOLEAN : RejectFinish(b, state, wrong)

Step(r) ==
    \/ \E b \in Browsers : login_finish(r, b)
    \/ \E u \in Users : provider_unlink(r, u) \/ \E e \in Emails, admin \in BOOLEAN : update(r, u, e, admin)
    \/ Token(r) \/ validate_update_user(r) \/ Insert(r) \/ Row(r)
    \/ CacheOld(r) \/ CacheId(r) \/ CacheEmail(r) \/ CacheFails(r) \/ Code(r)

Next ==
    \/ \E b \in Browsers : BrowserRequest(b)
    \/ \E r \in Requests : Step(r)
    \/ \E p \in Providers : delete_provider(p)
    \/ \E cb \in Callbacks : Timeout(cb)

Spec == Init /\ [][Next]_vars

-----------------------------------------------------------------------------
\* Properties

\* Cached copies sit under the id and the address they carry.
TypeOK ==
    /\ users \in [Users -> Row_ \cup {None}]
    /\ \A u \in Users : byId[u] # None => byId[u].id = u /\ byId[u].row \in Row_
    /\ \A e \in Emails : byEmail[e] # None => byEmail[e].id \in Users /\ byEmail[e].row.email = e
    /\ providers \subseteq Providers

\* An account is linked to a provider only if it was created by a login with it, or
\* its user asked for that link in a session, even if the addresses of the accounts
\* changed between the link cookie and the callback.
LinkedByConsent ==
    \A u \in Users : users[u] # None /\ users[u].prov # None => <<u, users[u].prov>> \in consent

\* A code is issued only for a user with such a link to the provider of the login: an
\* account that is merely found by the address of the claims is never logged in.
CodesByConsent == \A c \in codes : <<c.user, c.prov>> \in consent

\* After a wrong state, CSRF token or verifier, the deleted callback is of no use to any
\* later request (auth_providers.rs:733-768).
BadCallbackDead ==
    [][\A r \in Requests : ~Active(r) /\ Head1(r)' = "token" => req[r]'.cb \notin bad]_vars

\* A user is an administrator if the last login that maps the role, or the last update by
\* an administrator, said so; a provider that does not map the role, an unlink or a new
\* address never brings back or takes away one.  Users that two requests worked on at a
\* time are excused, and users for which User::save failed after it had written the row.
\* Cached copies sit under the id and the address they carry, whatever was changed.
AdminFollowsClaim ==
    /\ TypeOK
    /\ \A u \in Users : users[u] # None /\ u \notin spoilt => users[u].admin = decided[u]
=============================================================================
