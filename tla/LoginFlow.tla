----------------------------- MODULE LoginFlow ------------------------------
(***************************************************************************)
(* The authorization code flow: login with a password, a passkey or an     *)
(* existing session (authorize, authorize_refresh), the second factor      *)
(* (auth_start, auth_finish), the cache of authorization codes and their   *)
(* redemption (grant_type_code).                                           *)
(*                                                                         *)
(* A handler works on the copy of the user it has read and reaches the     *)
(* caches and the tables through awaits, where its actions are split.      *)
(* Users change and the server restarts in between.  The table of users    *)
(* and the cache in front of it are one value here (RefreshTokens and      *)
(* Sessions take such a pair apart).                                       *)
(***************************************************************************)
EXTENDS Integers, FiniteSets

CONSTANTS
    Users,
    Passkey,      \* the users without a password
    UserExpires,  \* Users -> Nat: `user_expires`, beyond MaxTime for never
    Clients,
    Pkce,         \* Clients -> the challenge methods of the client, {} for none
    ForceMfa,     \* the clients with `force_mfa`
    Lifetime,     \* Clients -> Nat: `auth_code_lifetime`
    MaxLifetime,  \* what the validation of requests allows for it (300 s)
    Verifiers,    \* code verifiers; their SHA256 is taken as injective
    Codes,        \* the authorization codes that can be made
    Sessions,
    Earlier,      \* Sessions -> the user of a session from before the last restart, or NoUser
    Requests,     \* concurrently executing handlers
    NoUser, Gone, NoEntry, NoChallenge, NoVerifier, Never,
    ReqExp,       \* WEBAUTHN_REQ_EXP
    DataExp,      \* WEBAUTHN_DATA_EXP
    RenewMfa,     \* SESSION_RENEW_MFA
    MaxInFlight,  \* bound on the handlers running at the same time
    MaxTime       \* bound on the clock

ASSUME LoginFlowAssumption ==
    /\ Passkey \subseteq Users /\ UserExpires \in [Users -> Nat]
    /\ ForceMfa \subseteq Clients /\ Pkce \in [Clients -> SUBSET {"plain", "S256"}]
    /\ Lifetime \in [Clients -> Nat] /\ \A cl \in Clients : Lifetime[cl] <= MaxLifetime
    /\ MaxLifetime \in Nat /\ ReqExp \in Nat /\ DataExp \in Nat
    /\ Earlier \in [Sessions -> Users \cup {NoUser}]
    /\ RenewMfa \in BOOLEAN /\ IsFiniteSet(Requests)
    /\ MaxInFlight \in Nat \ {0} /\ MaxTime \in Nat
    /\ NoUser \notin Users /\ Gone \notin Users
    /\ NoEntry \notin Nat

VARIABLES
    now,
    user,       \* the `users` table: what holds of a user, or NoRow
    sess,       \* session: NoUser (init), its user (authenticated) or Gone
    codes,      \* CACHE_NAME_AUTH_CODES: code -> entry or NoEntry
    loginReq,   \* WebauthnLoginReq of the code's login: when it was put, or NoEntry
    ceremony,   \* youngest WebauthnData of the code's login for the keys of a user: when put, or NoEntry
    cookies,    \* the users who hold a COOKIE_MFA
    req,        \* per handler: its step and its copies
    origin,     \* history: the login each code was made for, or Never
    spent,      \* history: codes deleted by a redemption or lost with the cache
    delivered,  \* history: codes sent to the browser
    keyed,      \* history: <<code, user>>, the code was sent when a key of the user had signed
    tokens,     \* history: the answers of grant_type_code
    answered    \* history: how often each code was answered with tokens

tables == <<user, sess>>
webauthnData == <<loginReq, ceremony>>
sent == <<delivered, keyed, cookies>>
redeemed == <<tokens, answered>>
vars == <<now, tables, codes, webauthnData, req, origin, spent, sent, redeemed>>

\* A user as the set of what holds of it: the row exists, it is enabled, its
\* webauthn_user_id is set
Rows == {{"exists"} \cup flags : flags \in SUBSET {"enabled", "mfa"}}
NoRow == {}
Challenge == [method : {"plain", "S256", "none"}, verifier : Verifiers]
\* struct AuthCode with the time of its cache_put
Entry == [user : Users, ses : Sessions, client : Clients,
          challenge : Challenge \cup {NoChallenge}, exp : Nat, put : Nat]
Via == {"password", "passkey", "session"}
Origin == [entry : Entry, via : Via, flags : Rows]

ASSUME NoValueAssumption ==
    /\ NoChallenge \notin Challenge /\ NoEntry \notin Entry
    /\ Never \notin Origin

Idle == [step |-> "idle"]
Steps == {"save", "code", "await", "start", "finish", "tokens", "session", "delete"}
Busy == [step : Steps, code : Codes, user : Users, ses : Sessions, client : Clients,
         challenge : Challenge \cup {NoChallenge}, via : Via, flags : Rows,
         verifier : Verifiers \cup {NoVerifier}, at : Nat, key : Users]

InFlight == Cardinality({r \in Requests : req[r] # Idle})

CanStart(r) == req[r] = Idle /\ InFlight < MaxInFlight

\* get_rand: an id no code and no handler has
Fresh(c) == origin[c] = Never /\ \A r \in Requests : req[r] # Idle => req[r].code # c

-----------------------------------------------------------------------------
\* authorize

Expired(u) == now > UserExpires[u]

\* With a password any account that has one, without only with a COOKIE_MFA or
\* a passkey-only account.  An account without both is new and refused.
MayLogin(u, via) ==
    /\ user[u] # NoRow
    /\ "enabled" \in user[u] /\ ~Expired(u)
    /\ CASE via = "password" -> u \notin Passkey
         [] via = "passkey"  -> "mfa" \in user[u] /\ (u \in Passkey \/ u \in cookies)

AuthorizeFind(r, c, s, u, cl, ch, via) ==
    /\ CanStart(r) /\ Fresh(c)
    /\ sess[s] # Gone
    /\ MayLogin(u, via)
    /\ req' = [req EXCEPT ![r] =
         [step |-> IF via = "password" THEN "save" ELSE "code", code |-> c, user |-> u,
          ses |-> s, client |-> cl, challenge |-> ch, via |-> via, flags |-> user[u],
          verifier |-> NoVerifier, at |-> 0, key |-> u]]
    /\ UNCHANGED <<now, tables, codes, webauthnData, origin, spent, sent, redeemed>>

\* User::save of the copy after the password was hashed and matched
AuthorizeSave(r) ==
    /\ req[r].step = "save"
    /\ user' = [user EXCEPT ![req[r].user] = IF @ = NoRow THEN @ ELSE req[r].flags]
    /\ req' = [req EXCEPT ![r].step = "code"]
    /\ UNCHANGED <<now, sess, codes, webauthnData, origin, spent, sent, redeemed>>

\* Client::validate_code_challenge on login, validate_auth_req_param on refresh
ValidChallenge(cl, ch, via) ==
    IF via # "session"
    THEN IF Pkce[cl] = {} THEN ch = NoChallenge
         ELSE ch # NoChallenge /\ ch.method \in Pkce[cl]
    ELSE Pkce[cl] # {} =>
         ch # NoChallenge /\ (IF ch.method = "none" THEN "plain" ELSE ch.method) \in Pkce[cl]

ValidateMfa(cl, flags) == cl \in ForceMfa => "mfa" \in flags

\* Whether the code is held back until the second factor is proven
NeedsKey(flags, via) == "mfa" \in flags /\ (via = "session" => RenewMfa)

CodeLifetime(cl, flags) == Lifetime[cl] + (IF "mfa" \in flags THEN ReqExp ELSE 0)

NewCode(q) ==
    [user |-> q.user, ses |-> q.ses, client |-> q.client, challenge |-> q.challenge,
     exp |-> now + CodeLifetime(q.client, q.flags), put |-> now]

\* The checks of the client, then the code, which is sent unless a key is needed
AuthorizeCode(r) ==
    /\ req[r].step = "code"
    /\ LET q == req[r]
           ok == ValidateMfa(q.client, q.flags)
                   /\ ValidChallenge(q.client, q.challenge, q.via)
           key == NeedsKey(q.flags, q.via)
       IN  IF ok
           THEN /\ codes' = [codes EXCEPT ![q.code] = NewCode(q)]
                /\ origin' = [origin EXCEPT ![q.code] =
                                [entry |-> NewCode(q), via |-> q.via, flags |-> q.flags]]
                /\ delivered' = IF key THEN delivered ELSE delivered \cup {q.code}
                /\ req' = [req EXCEPT ![r] = IF key THEN [q EXCEPT !.step = "await"] ELSE Idle]
           ELSE /\ req' = [req EXCEPT ![r] = Idle]
                /\ UNCHANGED <<codes, origin, delivered>>
    /\ UNCHANGED <<now, tables, webauthnData, spent, keyed, cookies, redeemed>>

\* Session::set_mfa on login (module Sessions), WebauthnLoginReq::save, and the
\* COOKIE_MFA that map_auth_step adds
AuthorizeAwait(r) ==
    /\ req[r].step = "await"
    /\ loginReq' = [loginReq EXCEPT ![req[r].code] = now]
    /\ cookies' = cookies \cup {req[r].user}
    /\ req' = [req EXCEPT ![r] = Idle]
    /\ UNCHANGED <<now, tables, codes, ceremony, origin, spent, delivered,
                   keyed, redeemed>>

RefreshFindAnySession(r, c, s, u, cl, ch) ==
    /\ CanStart(r) /\ Fresh(c)
    /\ sess[s] # Gone
    /\ user[u] # NoRow /\ "enabled" \in user[u] /\ ~Expired(u)
    /\ ValidChallenge(cl, ch, "session")
    /\ req' = [req EXCEPT ![r] =
         [step |-> "code", code |-> c, user |-> u, ses |-> s, client |-> cl,
          challenge |-> ch, via |-> "session", flags |-> user[u],
          verifier |-> NoVerifier, at |-> 0, key |-> u]]
    /\ UNCHANGED <<now, tables, codes, webauthnData, origin, spent, sent, redeemed>>

\* authorize_refresh: the user of the authenticated session
RefreshFind(r, c, s, u, cl, ch) ==
    /\ CanStart(r) /\ Fresh(c)
    /\ sess[s] = u
    /\ user[u] # NoRow /\ "enabled" \in user[u] /\ ~Expired(u)
    /\ ValidChallenge(cl, ch, "session")
    /\ req' = [req EXCEPT ![r] =
         [step |-> "code", code |-> c, user |-> u, ses |-> s, client |-> cl,
          challenge |-> ch, via |-> "session", flags |-> user[u],
          verifier |-> NoVerifier, at |-> 0, key |-> u]]
    /\ UNCHANGED <<now, tables, codes, webauthnData, origin, spent, sent, redeemed>>

-----------------------------------------------------------------------------
\* The second factor: CACHE_NAME_WEBAUTHN_DATA keeps an entry for DataExp.  Both
\* handlers take the user from the path of their request.  Neither compares it with
\* the user_id of the WebauthnLoginReq, nor do the two compare it with each other.

Cached(put, lifespan) == put # NoEntry /\ now - put < lifespan

\* A handler that continues the login of code c for the user u of the path, with
\* the keys of user k
Continue(c, u, k, step) ==
    LET e == origin[c].entry
    IN  [step |-> step, code |-> c, user |-> u, ses |-> e.ses, client |-> e.client,
         challenge |-> e.challenge, via |-> origin[c].via, flags |-> user[u],
         verifier |-> NoVerifier, at |-> 0, key |-> k]

\* auth_start: with any session, WebauthnLoginReq::find and the keys of the user
StartFind(r, c, u) ==
    /\ CanStart(r)
    /\ \E s \in Sessions : sess[s] # Gone
    /\ Cached(loginReq[c], DataExp)
    /\ user[u] # NoRow /\ "mfa" \in user[u]
    /\ req' = [req EXCEPT ![r] = Continue(c, u, u, "start")]
    /\ UNCHANGED <<now, tables, codes, webauthnData, origin, spent, sent, redeemed>>

\* WebauthnAdditionalData::delete and WebauthnData::save
StartSave(r) ==
    /\ req[r].step = "start"
    /\ loginReq' = [loginReq EXCEPT ![req[r].code] = NoEntry]
    /\ ceremony' = [ceremony EXCEPT ![req[r].code][req[r].key] = now]
    /\ req' = [req EXCEPT ![r] = Idle]
    /\ UNCHANGED <<now, tables, codes, origin, spent, sent, redeemed>>

\* auth_finish: WebauthnData::find, and a key of k has signed the challenge
FinishFind(r, c, u, k) ==
    /\ CanStart(r)
    /\ Cached(ceremony[c][k], DataExp)
    /\ user[u] # NoRow
    /\ req' = [req EXCEPT ![r] = Continue(c, u, k, "finish")]
    /\ UNCHANGED <<now, tables, codes, webauthnData, origin, spent, sent, redeemed>>

EndSessions(u) == [s \in Sessions |-> IF sess[s] = u THEN Gone ELSE sess[s]]

\* User::save of the copy if the key is one of the user's to update (which ends the
\* sessions of a disabled user), and the answer with the Location of the login
\* request.  WebauthnData is kept.
FinishSave(r) ==
    /\ req[r].step = "finish"
    /\ LET u == req[r].user
           saves == u = req[r].key /\ "mfa" \in req[r].flags /\ user[u] # NoRow
       IN  /\ user' = IF saves THEN [user EXCEPT ![u] = req[r].flags] ELSE user
           /\ sess' = IF saves /\ "enabled" \notin req[r].flags THEN EndSessions(u) ELSE sess
    /\ delivered' = delivered \cup {req[r].code}
    /\ keyed' = keyed \cup {<<req[r].code, req[r].key>>}
    /\ req' = [req EXCEPT ![r] = Idle]
    /\ UNCHANGED <<now, codes, webauthnData, origin, spent, cookies, redeemed>>

-----------------------------------------------------------------------------
\* grant_type_code, for a client that has proven its secret

CodeLifespanShort == MaxLifetime

\* Lifespan of CACHE_NAME_AUTH_CODES
CodeLifespan == MaxLifetime + ReqExp

CodeCached(c) == codes[c] # NoEntry /\ Cached(codes[c].put, CodeLifespan)

ChallengeMetS256Only(ch, v) ==
    ch # NoChallenge /\ ch.method = "S256" => v = ch.verifier

ChallengeMet(ch, v) == ch # NoChallenge => ch.method # "none" /\ v = ch.verifier

Redeemable(e, cl) == e.client = cl /\ e.exp >= now

\* AuthCode::find, the checks of the code, User::find
RedeemFind(r, c, cl, v) ==
    /\ CanStart(r)
    /\ c \in delivered /\ CodeCached(c)
    /\ LET e == codes[c]
       IN  /\ Redeemable(e, cl)
           /\ ChallengeMet(e.challenge, v)
           /\ user[e.user] # NoRow
           /\ req' = [req EXCEPT ![r] =
                [step |-> "tokens", code |-> c, user |-> e.user, ses |-> e.ses,
                 client |-> cl, challenge |-> e.challenge, via |-> "session",
                 flags |-> user[e.user], verifier |-> v, at |-> now, key |-> e.user]]
    /\ UNCHANGED <<now, tables, codes, webauthnData, origin, spent, sent, redeemed>>

\* TokenSet::from_user, an error once the account ends or is deleted
RedeemTokens(r) ==
    /\ req[r].step = "tokens"
    /\ LET u == req[r].user
           ok == UserExpires[u] - now >= 1 /\ user[u] # NoRow
       IN  req' = [req EXCEPT ![r] = IF ok THEN [@ EXCEPT !.step = "session"] ELSE Idle]
    /\ UNCHANGED <<now, tables, codes, webauthnData, origin, spent, sent, redeemed>>

\* Session::find and Session::save (both in module Sessions).  A session that is
\* gone is either not found, or found and saved without coming back to life.
\* Without the session, or its user (foreign key), the request ends and the
\* code stays.
RedeemSession(r) ==
    /\ req[r].step = "session"
    /\ LET q == req[r]
       IN  \/ /\ sess[q.ses] = Gone \/ (~Expired(q.user) /\ user[q.user] = NoRow)
              /\ req' = [req EXCEPT ![r] = Idle]
              /\ UNCHANGED <<sess, codes, spent>>
           \/ /\ Expired(q.user)
              /\ codes' = [codes EXCEPT ![q.code] = NoEntry]
              /\ spent' = spent \cup {q.code}
              /\ req' = [req EXCEPT ![r] = Idle]
              /\ UNCHANGED sess
           \/ /\ ~Expired(q.user) /\ user[q.user] # NoRow
              /\ sess' = [sess EXCEPT ![q.ses] = IF @ = Gone THEN Gone ELSE q.user]
              /\ req' = [req EXCEPT ![r].step = "delete"]
              /\ UNCHANGED <<codes, spent>>
    /\ UNCHANGED <<now, user, webauthnData, origin, sent, redeemed>>

Answer(r) ==
    LET q == req[r]
    IN  /\ tokens' = tokens \cup {[code |-> q.code, client |-> q.client, user |-> q.user,
                                   verifier |-> q.verifier, at |-> q.at]}
        /\ answered' = [answered EXCEPT ![q.code] = @ + 1]
        /\ req' = [req EXCEPT ![r] = Idle]

RedeemDeleteForgotten(r) ==
    /\ req[r].step = "delete"
    /\ Answer(r)
    /\ UNCHANGED <<now, tables, codes, webauthnData, origin, spent, sent>>

\* AuthCode::delete, and the tokens are answered
RedeemDelete(r) ==
    /\ req[r].step = "delete"
    /\ codes' = [codes EXCEPT ![req[r].code] = NoEntry]
    /\ spent' = spent \cup {req[r].code}
    /\ Answer(r)
    /\ UNCHANGED <<now, tables, webauthnData, origin, sent>>

-----------------------------------------------------------------------------
\* The end of the server: handlers and caches are lost, the tables stay.
Restart ==
    /\ req' = [r \in Requests |-> Idle]
    /\ codes' = [c \in Codes |-> NoEntry]
    /\ loginReq' = [c \in Codes |-> NoEntry]
    /\ ceremony' = [c \in Codes |-> [u \in Users |-> NoEntry]]
    /\ spent' = spent \cup {c \in Codes : codes[c] # NoEntry}
    /\ UNCHANGED <<now, tables, origin, sent, redeemed>>

ServerRestarts ==
    /\ \E c \in Codes : codes[c] # NoEntry
    /\ Restart

\* grant_type_code unwraps the challenge_method; the build aborts on a panic.
RedeemPanics(c, cl) ==
    /\ c \in delivered /\ CodeCached(c)
    /\ Redeemable(codes[c], cl)
    /\ codes[c].challenge # NoChallenge /\ codes[c].challenge.method = "none"
    /\ Restart

\* An error of a table or a cache ends a handler between any two steps.
Fail(r) ==
    /\ req[r] # Idle
    /\ req' = [req EXCEPT ![r] = Idle]
    /\ UNCHANGED <<now, tables, codes, webauthnData, origin, spent, sent, redeemed>>

\* An admin enables or disables a user, the user registers or deletes keys.
UserChanges(u, flags) ==
    /\ user[u] # NoRow /\ user[u] # flags
    /\ user' = [user EXCEPT ![u] = flags]
    /\ sess' = IF "enabled" \in flags THEN sess ELSE EndSessions(u)
    /\ UNCHANGED <<now, codes, webauthnData, req, origin, spent, sent, redeemed>>

\* User::delete with Session::delete_by_user
DeleteUser(u) ==
    /\ user[u] # NoRow
    /\ user' = [user EXCEPT ![u] = NoRow]
    /\ sess' = EndSessions(u)
    /\ UNCHANGED <<now, codes, webauthnData, req, origin, spent, sent, redeemed>>

\* Expiry, invalidation or cleanup of a session (module Sessions)
SessionEnds(s) ==
    /\ sess[s] # Gone
    /\ sess' = [sess EXCEPT ![s] = Gone]
    /\ UNCHANGED <<now, user, codes, webauthnData, req, origin, spent, sent, redeemed>>

Tick ==
    /\ now < MaxTime
    /\ now' = now + 1
    /\ UNCHANGED <<tables, codes, webauthnData, req, origin, spent, sent, redeemed>>

-----------------------------------------------------------------------------
Init ==
    /\ now = 0
    /\ user \in [Users -> {{"exists", "enabled"}, {"exists", "enabled", "mfa"}}]
    /\ sess = Earlier
    /\ codes = [c \in Codes |-> NoEntry]
    /\ loginReq = [c \in Codes |-> NoEntry]
    /\ ceremony = [c \in Codes |-> [u \in Users |-> NoEntry]]
    /\ req = [r \in Requests |-> Idle]
    /\ origin = [c \in Codes |-> Never]
    /\ answered = [c \in Codes |-> 0]
    /\ spent = {} /\ delivered = {} /\ keyed = {} /\ cookies = {}
    /\ tokens = {}

Login(r) ==
    \E c \in Codes, s \in Sessions, u \in Users, cl \in Clients,
       ch \in Challenge \cup {NoChallenge} :
        \/ \E via \in {"password", "passkey"} : AuthorizeFind(r, c, s, u, cl, ch, via)
        \/ RefreshFind(r, c, s, u, cl, ch)

Step(r) ==
    \/ AuthorizeSave(r) \/ AuthorizeCode(r) \/ AuthorizeAwait(r)
    \/ StartSave(r) \/ FinishSave(r)
    \/ RedeemTokens(r) \/ RedeemSession(r) \/ RedeemDelete(r)
    \/ Fail(r)

Next ==
    \/ \E r \in Requests : Login(r) \/ Step(r)
    \/ \E r \in Requests, c \in Codes, u \in Users :
          StartFind(r, c, u) \/ \E k \in Users : FinishFind(r, c, u, k)
    \/ \E r \in Requests, c \in Codes, cl \in Clients, v \in Verifiers \cup {NoVerifier} :
          RedeemFind(r, c, cl, v)
    \/ \E c \in Codes, cl \in Clients : RedeemPanics(c, cl)
    \/ \E u \in Users, flags \in Rows : UserChanges(u, flags)
    \/ \E u \in Users : DeleteUser(u)
    \/ \E s \in Sessions : SessionEnds(s)
    \/ ServerRestarts
    \/ Tick

Spec == Init /\ [][Next]_vars

-----------------------------------------------------------------------------
Answers == [code : Codes, client : Clients, user : Users,
            verifier : Verifiers \cup {NoVerifier}, at : Nat]

\* The state is well-formed, and an authenticated session belongs to an existing
\* user, also when the user is deleted during a redemption.
TypeOK ==
    /\ now \in Nat
    /\ user \in [Users -> Rows \cup {NoRow}]
    /\ sess \in [Sessions -> Users \cup {NoUser, Gone}]
    /\ codes \in [Codes -> Entry \cup {NoEntry}]
    /\ loginReq \in [Codes -> Nat \cup {NoEntry}]
    /\ ceremony \in [Codes -> [Users -> Nat \cup {NoEntry}]]
    /\ req \in [Requests -> {Idle} \cup Busy]
    /\ origin \in [Codes -> Origin \cup {Never}]
    /\ answered \in [Codes -> Nat]
    /\ spent \subseteq Codes /\ delivered \subseteq Codes
    /\ keyed \subseteq Codes \X Users /\ cookies \subseteq Users
    /\ tokens \subseteq Answers
    /\ \A s \in Sessions : sess[s] \in Users => user[sess[s]] # NoRow

\* A login that proved the password, and where the user had a key, some key: the
\* ceremony of this login was completed, with the key of a user the requests named
ProvenLogin(c) ==
    \/ \E k \in Users : <<c, k>> \in keyed
    \/ origin[c].via = "password" /\ "mfa" \notin origin[c].flags

\* A login from an authenticated session asks for the key again if so configured.
ProvenRefresh(c) ==
    origin[c].via = "session" /\ ("mfa" \in origin[c].flags => ~RenewMfa)

\* Tokens are only answered for a code that was sent after its login had proven a
\* password, or had completed a WebAuthn ceremony started for this very login if the
\* user had a key when it began, to the client of that login, with the verifier of its
\* challenge, and before the code had expired.  Whose key it was is up to the requests
\* to /webauthn/auth (authorize, auth_start, auth_finish, grant_type_code).
TokensProven ==
    \A t \in tokens :
        LET o == origin[t.code]
        IN  /\ o # Never
            /\ t.client = o.entry.client /\ t.user = o.entry.user
            /\ o.entry.challenge # NoChallenge => t.verifier = o.entry.challenge.verifier
            /\ t.at <= o.entry.exp
            /\ ProvenLogin(t.code) \/ ProvenRefresh(t.code)

\* Unless it was before, a session is authenticated as a user only if a login of that
\* user with password, or with a ceremony completed for it, went through this very
\* session: however many refreshes follow, they never carry the user of another
\* session over (authorize_refresh, auth_finish, grant_type_code).
SessionsProven ==
    \A s \in Sessions : sess[s] \in Users \ {Earlier[s]} =>
        \E c \in delivered : /\ origin[c] # Never
                             /\ origin[c].entry.ses = s
                             /\ origin[c].entry.user = sess[s]
                             /\ ProvenLogin(c)

\* A code is answered at most once by each of the handlers that can be between
\* AuthCode::find and AuthCode::delete at the same time: once without overlap.
RedeemedBounded == \A c \in Codes : answered[c] <= MaxInFlight

\* The lifespan of the cache does not cut the lifetime of a code short, also not
\* the one that WEBAUTHN_REQ_EXP extends (main, authorize).
UnexpiredCodeFound ==
    \A c \in Codes : origin[c] # Never /\ c \notin spent /\ now < origin[c].entry.exp =>
        CodeCached(c)
=============================================================================
