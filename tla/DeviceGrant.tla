---------------------------- MODULE DeviceGrant ----------------------------
(***************************************************************************)
(* The OAuth 2.0 device authorization grant (RFC 8628).                    *)
(*                                                                         *)
(* A device asks for a DeviceAuthCode (post_device_auth), a logged-in user *)
(* accepts or declines it in a browser (post_device_verify), and the       *)
(* device polls the token endpoint (grant_type_device_code) until it is    *)
(* answered.  The code lives in a timed, sized cache only.  Every handler  *)
(* reads a copy of the code out of the cache, works on the copy across     *)
(* awaits, and then puts the copy back or deletes the entry: the actions   *)
(* below are split at those awaits.                                        *)
(*                                                                         *)
(* Time is counted in units of 500 ms, the tolerance the poll check gives. *)
(***************************************************************************)
EXTENDS Naturals, FiniteSets

CONSTANTS
    DeviceCodes,   \* random device codes (get_rand); each is generated once
    UserCodes,     \* user codes: the prefix of a device code, the cache key
    UserCodeOf,    \* DeviceCodes -> UserCodes, DeviceAuthCode::user_code
    Clients,       \* clients allowed to use the device_code flow
    Secrets,       \* possible values of `client_secret`, the absent one included
    SecretOf,      \* Clients -> Secrets, the registered secret
    Confidential,  \* the clients that have a secret at all
    Users,         \* users with an authenticated session
    NoUser, NoEntry,
    Pollers,       \* concurrently executing token requests
    Verifiers,     \* concurrently executing verify requests
    CodeLifetime,  \* DEVICE_GRANT_CODE_LIFETIME
    PollInterval,  \* DEVICE_GRANT_POLL_INTERVAL
    CacheSize,     \* DEVICE_GRANT_CODE_CACHE_SIZE
    WarningsMod,   \* 2^8 in the code: `warnings` is a u8
    MaxTime,       \* bound on the clock
    MaxAccepts,    \* bound on the accepting requests per device code
    MaxLost        \* bound on the failing deletes per device code

ASSUME DeviceAssumption ==
    /\ UserCodeOf \in [DeviceCodes -> UserCodes]
    /\ SecretOf \in [Clients -> Secrets]
    /\ Confidential \subseteq Clients
    /\ NoUser \notin Users
    /\ IsFiniteSet(Pollers)
    /\ CodeLifetime \in Nat /\ PollInterval \in Nat
    /\ CacheSize \in Nat \ {0}
    /\ WarningsMod \in Nat /\ WarningsMod > 3
    /\ MaxTime \in Nat /\ MaxAccepts \in Nat /\ MaxLost \in Nat

VARIABLES
    now,        \* the clock
    cache,      \* CACHE_NAME_DEVICE_CODES: user code -> entry or NoEntry
    poller,     \* per token request: its step and its copy of the code
    verifier,   \* per verify request: its step and its copy of the code
    account,    \* per user: active, expired (`user_expires` passed) or deleted
    devices,    \* the `devices` table
    requested,  \* device codes handed out so far, with the request's fields
    accepted,    \* history: which user accepted which device code
    issued,      \* history: token sets handed to devices
    acceptCount, \* history: completed Accept requests per device code
    issueCount,  \* history: token sets per device code
    lostDeletes  \* history: polls that failed to delete the code they go on to answer

history == <<accepted, issued, acceptCount, issueCount, lostDeletes>>
vars == <<now, cache, poller, verifier, account, devices, requested, history>>

\* struct DeviceAuthCode
Code == [dev : DeviceCodes, client : Clients, secret : Secrets,
         verified_by : Users \cup {NoUser}, exp : Nat, last_poll : Nat,
         warnings : 0 .. WarningsMod - 1]

\* A cached value and the time until which the cache keeps it.
Entry == [code : Code, until : Nat]

\* What a poll presents: device_code, client_id and client_secret.
Request == DeviceCodes \X Clients \X Secrets

PollSteps == {"drop", "drop_expired", "user", "delete", "tokens", "save"}
VerifySteps == {"accept", "decline", "drop_expired"}
Idle == [step |-> "idle"]

Requested == {r.dev : r \in requested}

-----------------------------------------------------------------------------
\* The cache (redhac::TimedSizedCache): an entry is invisible once its lifespan
\* is over, and a put into a full cache evicts another entry.

Lookup(uc) == IF cache[uc] # NoEntry /\ now <= cache[uc].until
              THEN cache[uc] ELSE NoEntry

Occupied == {uc \in UserCodes : cache[uc] # NoEntry}

CachePut(uc, code) ==
    LET entry == [code |-> code, until |-> now + CodeLifetime]
    IN  IF uc \in Occupied \/ Cardinality(Occupied) < CacheSize
        THEN cache' = [cache EXCEPT ![uc] = entry]
        ELSE \E out \in Occupied :
                cache' = [cache EXCEPT ![out] = NoEntry, ![uc] = entry]

CacheDel(uc) == cache' = [cache EXCEPT ![uc] = NoEntry]

\* DeviceAuthCode::find answers None for a missing code, and deletes one that
\* outlived its own `exp` although a later save renewed its cache lifespan.
Outlived(entry) == entry # NoEntry /\ entry.code.exp < now
Found(entry) == entry # NoEntry /\ ~Outlived(entry)

-----------------------------------------------------------------------------
\* POST /oidc/device: client checks, then DeviceAuthCode::new.

DeviceAuth(dev, client, secret) ==
    /\ dev \notin Requested
    /\ client \in Confidential => secret = SecretOf[client]
    /\ requested' = requested \cup
         {[dev |-> dev, client |-> client, secret |-> secret, created |-> now]}
    /\ CachePut(UserCodeOf[dev],
                [dev |-> dev, client |-> client, secret |-> secret,
                 verified_by |-> NoUser, exp |-> now + CodeLifetime,
                 last_poll |-> now, warnings |-> 0])
    /\ UNCHANGED <<now, poller, verifier, account, devices, history>>

-----------------------------------------------------------------------------
\* POST /oidc/device/verify: find the code, then save it accepted, delete it,
\* or (Pending) only show it.

VerifyFind(v, user, uc, choice) ==
    /\ verifier[v] = Idle
    /\ \/ /\ Found(Lookup(uc))
          /\ choice = "accept" => acceptCount[Lookup(uc).code.dev] < MaxAccepts
          /\ verifier' = [verifier EXCEPT ![v] =
                [step |-> choice, code |-> Lookup(uc).code, user |-> user]]
       \/ /\ Outlived(Lookup(uc))
          /\ verifier' = [verifier EXCEPT ![v] =
                [step |-> "drop_expired", code |-> Lookup(uc).code, user |-> user]]
    /\ UNCHANGED <<now, cache, poller, account, devices, requested, history>>

VerifyAccept(v) ==
    /\ verifier[v].step = "accept"
    /\ LET code == verifier[v].code
           user == verifier[v].user
       IN  /\ CachePut(UserCodeOf[code.dev], [code EXCEPT !.verified_by = user])
           /\ accepted' = accepted \cup {<<code.dev, user>>}
           /\ acceptCount' = [acceptCount EXCEPT ![code.dev] = @ + 1]
    /\ verifier' = [verifier EXCEPT ![v] = Idle]
    /\ UNCHANGED <<now, poller, account, devices, requested, issued, issueCount, lostDeletes>>

VerifyDelete(v) ==
    /\ verifier[v].step \in {"decline", "drop_expired"}
    /\ CacheDel(UserCodeOf[verifier[v].code.dev])
    /\ verifier' = [verifier EXCEPT ![v] = Idle]
    /\ UNCHANGED <<now, poller, account, devices, requested, history>>

\* The cache refuses the save or the delete: an error answer.
VerifyFails(v) ==
    /\ verifier[v] # Idle
    /\ verifier' = [verifier EXCEPT ![v] = Idle]
    /\ UNCHANGED <<now, cache, poller, account, devices, requested, history>>

-----------------------------------------------------------------------------
\* POST /oidc/token, grant_type_device_code.

\* A poll that comes more than one tolerance unit before its interval is over.
TooEarly(code) == now + 1 < code.last_poll + PollInterval

\* `warnings` after this poll; a release build wraps the u8 around.
Warned(code) == IF TooEarly(code) THEN (code.warnings + 1) % WarningsMod
                                  ELSE code.warnings

\* The checks of the presented code, client and secret against the cached ones.
PollMatchesPrefixOnly(code, dev, client, secret) ==
    code.client = client /\ code.secret = secret
PollMatches(code, dev, client, secret) ==
    code.client = client /\ code.dev = dev /\ code.secret = secret

\* Where the request goes on once the poll interval has been looked at.
AfterInterval(code) == IF code.verified_by # NoUser THEN "user" ELSE "save"

PollFind(p, dev, client, secret) ==
    /\ poller[p] = Idle
    /\ LET entry == Lookup(UserCodeOf[dev])
       IN  \/ /\ Outlived(entry)
              /\ poller' = [poller EXCEPT ![p] =
                    [step |-> "drop_expired", code |-> entry.code, at |-> now,
                     req |-> <<dev, client, secret>>]]
           \/ /\ Found(entry)
              /\ PollMatches(entry.code, dev, client, secret)
              /\ LET code == [entry.code EXCEPT !.warnings = Warned(entry.code)]
                     step == IF TooEarly(code) /\ code.warnings >= 3
                             THEN "drop" ELSE AfterInterval(code)
                 IN  poller' = [poller EXCEPT ![p] =
                       [step |-> step, code |-> code, at |-> now,
                        req |-> <<dev, client, secret>>]]
    /\ UNCHANGED <<now, cache, verifier, account, devices, requested, history>>

\* A missing code, or one that does not match the request: an error answer.
PollRejected(p, dev, client, secret) ==
    /\ poller[p] = Idle
    /\ LET entry == Lookup(UserCodeOf[dev])
       IN  \/ entry = NoEntry
           \/ Found(entry) /\ ~PollMatches(entry.code, dev, client, secret)
    /\ UNCHANGED vars

\* Too many warnings: the code is deleted and the answer becomes
\* `access_denied`, but the request goes on with its copy.
PollDrop(p) ==
    /\ poller[p].step = "drop"
    /\ CacheDel(UserCodeOf[poller[p].code.dev])
    /\ poller' = [poller EXCEPT ![p].step = AfterInterval(poller[p].code)]
    /\ UNCHANGED <<now, verifier, account, devices, requested, history>>

PollDropExpired(p) ==
    /\ poller[p].step = "drop_expired"
    /\ CacheDel(UserCodeOf[poller[p].code.dev])
    /\ poller' = [poller EXCEPT ![p] = Idle]
    /\ UNCHANGED <<now, verifier, account, devices, requested, history>>

\* User and client are looked up; one that is not found ends the request with an
\* error and leaves the code where it is.  User::find may still answer a deleted
\* user from its cache (module RefreshTokens).
PollUser(p) ==
    /\ poller[p].step = "user"
    /\ poller' = [poller EXCEPT ![p].step = "delete"]
    /\ UNCHANGED <<now, cache, verifier, account, devices, requested, history>>

PollUserFails(p) ==
    /\ poller[p].step = "user"
    /\ poller' = [poller EXCEPT ![p] = Idle]
    /\ UNCHANGED <<now, cache, verifier, account, devices, requested, history>>

PollDeleteForgotten(p) ==
    /\ poller[p].step = "delete"
    /\ poller' = [poller EXCEPT ![p].step = "tokens"]
    /\ UNCHANGED <<now, cache, verifier, account, devices, requested, history>>
PollDelete(p) ==
    /\ poller[p].step = "delete"
    /\ CacheDel(UserCodeOf[poller[p].code.dev])
    /\ poller' = [poller EXCEPT ![p].step = "tokens"]
    /\ UNCHANGED <<now, verifier, account, devices, requested, history>>

\* A delete that fails is logged, and the tokens are built all the same.
PollDeleteFails(p) ==
    /\ poller[p].step = "delete"
    /\ lostDeletes[poller[p].code.dev] < MaxLost
    /\ lostDeletes' = [lostDeletes EXCEPT ![poller[p].code.dev] = @ + 1]
    /\ poller' = [poller EXCEPT ![p].step = "tokens"]
    /\ UNCHANGED <<now, cache, verifier, account, devices, requested, accepted, issued,
                   acceptCount, issueCount>>

\* The device row is inserted, which the foreign key refuses for a deleted user,
\* and TokenSet::from_user builds the tokens.
PollTokens(p) ==
    /\ poller[p].step = "tokens"
    /\ LET code == poller[p].code
           user == code.verified_by
       IN  /\ account[user] = "active"
           /\ devices' = devices \cup {[client |-> code.client, user |-> user, dev |-> code.dev]}
           /\ issued' = issued \cup
                 {[req |-> poller[p].req, user |-> user, at |-> poller[p].at]}
           /\ issueCount' = [issueCount EXCEPT ![code.dev] = @ + 1]
    /\ poller' = [poller EXCEPT ![p] = Idle]
    /\ UNCHANGED <<now, cache, verifier, account, requested, accepted,
                   acceptCount, lostDeletes>>

\* from_user refuses a user whose account has expired, which leaves the row
\* behind; a failing insert leaves none.  The code is spent in both cases.
PollTokensFail(p) ==
    /\ poller[p].step = "tokens"
    /\ LET code == poller[p].code
           user == code.verified_by
           row == [client |-> code.client, user |-> user, dev |-> code.dev]
       IN  \/ devices' = devices
           \/ account[user] # "deleted" /\ devices' = devices \cup {row}
    /\ poller' = [poller EXCEPT ![p] = Idle]
    /\ UNCHANGED <<now, cache, verifier, account, requested, history>>

\* An unverified code goes back into the cache with the time of this poll.
PollSave(p) ==
    /\ poller[p].step = "save"
    /\ CachePut(UserCodeOf[poller[p].code.dev],
                [poller[p].code EXCEPT !.last_poll = poller[p].at])
    /\ poller' = [poller EXCEPT ![p] = Idle]
    /\ UNCHANGED <<now, verifier, account, devices, requested, history>>

\* A failing save is logged and changes nothing else, and so is the delete of PollDrop;
\* the one of an expired code ends the request.
PollCacheFails(p) ==
    /\ poller[p].step \in {"drop", "drop_expired", "save"}
    /\ poller' = [poller EXCEPT ![p] =
          IF @.step = "drop" THEN [@ EXCEPT !.step = AfterInterval(poller[p].code)] ELSE Idle]
    /\ UNCHANGED <<now, cache, verifier, account, devices, requested, history>>

-----------------------------------------------------------------------------
\* The environment: time passes, accounts expire or are deleted, and with them
\* (ON DELETE CASCADE) their devices.

Tick ==
    /\ now < MaxTime
    /\ now' = now + 1
    /\ UNCHANGED <<cache, poller, verifier, account, devices, requested, history>>

UserChanges(u, state) ==
    /\ account[u] = "active"
    /\ account' = [account EXCEPT ![u] = state]
    /\ devices' = IF state = "deleted" THEN {d \in devices : d.user # u} ELSE devices
    /\ UNCHANGED <<now, cache, poller, verifier, requested, history>>

Init ==
    /\ now = 0
    /\ cache = [uc \in UserCodes |-> NoEntry]
    /\ poller = [p \in Pollers |-> Idle]
    /\ verifier = [v \in Verifiers |-> Idle]
    /\ account = [u \in Users |-> "active"]
    /\ devices = {} /\ requested = {}
    /\ accepted = {} /\ issued = {}
    /\ acceptCount = [d \in DeviceCodes |-> 0]
    /\ issueCount = [d \in DeviceCodes |-> 0]
    /\ lostDeletes = [d \in DeviceCodes |-> 0]

Poll(p) == PollDrop(p) \/ PollDropExpired(p) \/ PollUser(p) \/ PollUserFails(p) \/ PollDelete(p)
              \/ PollDeleteFails(p) \/ PollTokens(p) \/ PollTokensFail(p) \/ PollSave(p)
              \/ PollCacheFails(p)

Next ==
    \/ \E d \in DeviceCodes, c \in Clients, s \in Secrets : DeviceAuth(d, c, s)
    \/ \E v \in Verifiers, u \in Users, uc \in UserCodes,
          choice \in {"accept", "decline"} : VerifyFind(v, u, uc, choice)
    \/ \E v \in Verifiers : VerifyAccept(v) \/ VerifyDelete(v) \/ VerifyFails(v)
    \/ \E p \in Pollers, d \in DeviceCodes, c \in Clients, s \in Secrets :
          PollFind(p, d, c, s) \/ PollRejected(p, d, c, s)
    \/ \E p \in Pollers : Poll(p)
    \/ \E u \in Users, s \in {"expired", "deleted"} : UserChanges(u, s)
    \/ Tick

Spec == Init /\ [][Next]_vars

-----------------------------------------------------------------------------
\* The state is well-formed, the u8 of `warnings` included, and a device belongs
\* to an existing user, also when the user is deleted during a poll
\* (grant_type_device_code, DeviceEntity::insert).
TypeOK ==
    /\ now \in Nat
    /\ cache \in [UserCodes -> Entry \cup {NoEntry}]
    /\ poller \in [Pollers ->
         {Idle} \cup [step : PollSteps, code : Code, at : Nat, req : Request]]
    /\ verifier \in [Verifiers ->
         {Idle} \cup [step : VerifySteps, code : Code, user : Users]]
    /\ account \in [Users -> {"active", "expired", "deleted"}]
    /\ devices \subseteq [client : Clients, user : Users, dev : DeviceCodes]
    /\ \A d \in devices : account[d.user] # "deleted"
    /\ requested \subseteq [dev : DeviceCodes, client : Clients,
                            secret : Secrets, created : Nat]
    /\ accepted \subseteq DeviceCodes \X Users
    /\ issued \subseteq [req : Request, user : Users, at : Nat]
    /\ acceptCount \in [DeviceCodes -> Nat]
    /\ issueCount \in [DeviceCodes -> Nat]
    /\ lostDeletes \in [DeviceCodes -> Nat]

\* A token set is handed out only for a device code that this very user
\* accepted, to a poll that presented the client and the secret the code was
\* requested with, and only if that poll came within the lifetime of the code,
\* although every save of the code renews its lifespan in the cache
\* (grant_type_device_code, DeviceAuthCode::find).
TokensOnlyIfGranted ==
    \A t \in issued :
        /\ <<t.req[1], t.user>> \in accepted
        /\ \E r \in requested :
              /\ <<r.dev, r.client, r.secret>> = t.req
              /\ t.at <= r.created + CodeLifetime

\* The code is deleted before its tokens are built, so nothing but another
\* Accept makes it redeemable again: each Accept of the user is answered at
\* most once by each of the polls that run at the same time, only once if the
\* device sends one poll after the other, and once more for each delete that
\* failed, which grant_type_device_code only logs before it answers.
IssuesBoundedByAccepts ==
    \A d \in DeviceCodes :
        issueCount[d] <= acceptCount[d] * Cardinality(Pollers) + lostDeletes[d]
=============================================================================
