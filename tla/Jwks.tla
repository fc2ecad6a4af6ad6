-------------------------------- MODULE Jwks --------------------------------
(***************************************************************************)
(* The JSON web keys that sign all tokens: their rotation and cleanup, the *)
(* three caches in front of the table, signing and verifying, the JWKS     *)
(* endpoint, and a relying party that looks keys up with rauthy-client.    *)
(*                                                                         *)
(* A key is its algorithm and the time it was created at; times are        *)
(* numbers of the order of creation.  A token is the key that signed it.   *)
(* What runs between two awaits is a step: find, find_latest and find_pk   *)
(* read the table in one step and fill the cache in another.               *)
(***************************************************************************)
EXTENDS Naturals, Sequences, FiniteSets

CONSTANTS
    Algs,         \* signature algorithms
    Rotation,     \* the order rotate_jwks creates the keys in
    Requests,     \* requests that wait for the table
    Rotators,     \* the scheduler and administrators
    None,
    MaxKeys       \* bound on the keys ever created

ASSUME RotationOrder ==
    /\ Rotation \in Seq(Algs) /\ \A a \in Algs : \E i \in 1 .. Len(Rotation) : Rotation[i] = a
    /\ MaxKeys \in Nat /\ Len(Rotation) <= MaxKeys

Keys == [alg : Algs, at : 1 .. MaxKeys]

ASSUME NoneIsNoKey == None \notin Keys

VARIABLES
    jwks,      \* rows of the table
    clock,     \* keys created so far
    latest,    \* cache: algorithm -> signing key, or None
    byKid,     \* cache: keys found by their id
    certs,     \* cache: the lists of public keys, one or none
    signed,    \* keys with a token that is still valid
    req,       \* what a waiting request has read
    rot,       \* rotator -> next step of rotate_jwks, 0 for none
    todo,      \* keys jwks_cleanup still is to delete
    dropped,   \* keys it has deleted, but not from the cache
    rpUri,     \* rauthy-client: jwks_uri is known
    rpKeys,    \* rauthy-client: the keys it has
    rpRecent,  \* rauthy-client: recently_looked_up
    rp,        \* rauthy-client: what its task waits for, or that it ended
    rpFailed,  \* history: keys of rpRecent whose lookup did not reach the issuer
    refused    \* history: keys of valid tokens that were refused, by whom, though online

caches == <<latest, byKid, certs>>
cleaner == <<todo, dropped>>
client == <<rpUri, rpKeys, rpRecent, rp, rpFailed>>
vars == <<jwks, clock, caches, signed, req, rot, cleaner, client, refused>>

NoRequest == [op |-> "none", keys |-> {}, rp |-> FALSE]
RpIdle == [wait |-> "none", kid |-> None]
RpDead == [wait |-> "dead", kid |-> None]

Of(a, ks) == {k \in ks : k.alg = a}
Done(p) == [req EXCEPT ![p] = NoRequest]

\* The keys migrate_init_prod creates in an empty table
FirstKeys == {[alg |-> Rotation[i], at |-> i] : i \in 1 .. Len(Rotation)}

Init ==
    /\ jwks = FirstKeys /\ clock = Len(Rotation)
    /\ latest = [a \in Algs |-> None] /\ byKid = {} /\ certs = {}
    /\ signed = {}
    /\ req = [p \in Requests |-> NoRequest]
    /\ rot = [r \in Rotators |-> 0]
    /\ todo = {} /\ dropped = {}
    /\ rpUri = FALSE /\ rpKeys = {} /\ rpRecent = {} /\ rp = RpIdle /\ rpFailed = {}
    /\ refused = {}

-----------------------------------------------------------------------------
\* Signing: JwkKeyPair::find_latest

\* A variant for a check of the properties: the key with the last time
NewestOf(a) == {k \in Of(a, jwks) : \A j \in Of(a, jwks) : j.at <= k.at}

\* sorts by created_at and takes the first
FirstOf(a) == {k \in Of(a, jwks) : \A j \in Of(a, jwks) : k.at <= j.at}

\* sign_access_token, sign_id_token, sign_refresh_token: the key is cached
SignCached(a) ==
    /\ latest[a] # None
    /\ signed' = signed \cup {latest[a]}
    /\ UNCHANGED <<jwks, clock, caches, req, rot, cleaner, client, refused>>

\* ... or read, which panics without any key of the algorithm
SignRead(p, a) ==
    /\ req[p] = NoRequest /\ latest[a] = None
    /\ \E k \in FirstOf(a) : req' = [req EXCEPT ![p] = [op |-> "sign", keys |-> {k}, rp |-> FALSE]]
    /\ UNCHANGED <<jwks, clock, caches, signed, rot, cleaner, client, refused>>

SignPut(p) ==
    /\ req[p].op = "sign"
    /\ \E k \in req[p].keys :
         /\ latest' = [latest EXCEPT ![k.alg] = k]
         /\ signed' = signed \cup {k}
    /\ req' = Done(p)
    /\ UNCHANGED <<jwks, clock, byKid, certs, rot, cleaner, client, refused>>

\* The last token signed with a key expires.
TokensExpire(k) ==
    /\ k \in signed /\ signed' = signed \ {k}
    /\ UNCHANGED <<jwks, clock, caches, req, rot, cleaner, client, refused>>

\* validate_token of a token that has not expired: JwkKeyPair::find
VerifyRead(p, k) ==
    /\ req[p] = NoRequest /\ k \in signed \ byKid
    /\ \/ /\ k \in jwks
          /\ req' = [req EXCEPT ![p] = [op |-> "find", keys |-> {k}, rp |-> FALSE]]
          /\ UNCHANGED refused
       \/ /\ k \notin jwks
          /\ refused' = refused \cup {<<"issuer", k>>}
          /\ UNCHANGED req
    /\ UNCHANGED <<jwks, clock, caches, signed, rot, cleaner, client>>

VerifyPut(p) ==
    /\ req[p].op = "find"
    /\ byKid' = byKid \cup req[p].keys
    /\ req' = Done(p)
    /\ UNCHANGED <<jwks, clock, latest, certs, signed, rot, cleaner, client, refused>>

\* Entries of CACHE_NAME_12HR expire.
CacheExpires ==
    /\ \/ \E a \in Algs :
            latest[a] # None /\ latest' = [latest EXCEPT ![a] = None] /\ UNCHANGED <<byKid, certs>>
       \/ \E k \in byKid : byKid' = byKid \ {k} /\ UNCHANGED <<latest, certs>>
       \/ certs # {} /\ certs' = {} /\ UNCHANGED <<latest, byKid>>
    /\ UNCHANGED <<jwks, clock, signed, req, rot, cleaner, client, refused>>

-----------------------------------------------------------------------------
\* rotate_jwks: a key for each algorithm is saved, then the cached signing keys
\* go one after the other, then the cached list.

Steps == Len(Rotation)

SaveKey(r) ==
    /\ rot[r] < Steps /\ clock < MaxKeys
    /\ jwks' = jwks \cup {[alg |-> Rotation[rot[r] + 1], at |-> clock + 1]}
    /\ clock' = clock + 1
    /\ UNCHANGED caches

ClearLatest(r) ==
    /\ rot[r] \in Steps .. (2 * Steps - 1)
    /\ latest' = [latest EXCEPT ![Rotation[rot[r] - Steps + 1]] = None]
    /\ UNCHANGED <<jwks, clock, byKid, certs>>

ClearCerts(r) ==
    /\ rot[r] = 2 * Steps
    /\ certs' = {}
    /\ UNCHANGED <<jwks, clock, latest, byKid>>

RotateStep(r) ==
    /\ SaveKey(r) \/ ClearLatest(r) \/ ClearCerts(r)
    /\ rot' = [rot EXCEPT ![r] = IF @ = 2 * Steps THEN 0 ELSE @ + 1]
    /\ UNCHANGED <<signed, req, cleaner, client, refused>>

\* An error ends it where it is, and so does a crash.
RotateFails(r) ==
    /\ rot[r] > 0 /\ rot' = [rot EXCEPT ![r] = 0]
    /\ UNCHANGED <<jwks, clock, caches, signed, req, cleaner, client, refused>>

-----------------------------------------------------------------------------
\* jwks_cleanup

\* A variant for a check of the properties: the key to keep is the last one
NotNewest(old) == {k \in jwks : k.at <= old /\ k \notin NewestOf(k.alg)}

\* A variant for a check of the properties: no key is kept
AllOld(old) == {k \in jwks : k.at <= old}

\* In the order of their creation: the first of an algorithm is kept, the others
\* go when they are older than 90 days: those created up to the time old.
ToDelete(old) == {k \in jwks : k.at <= old /\ \E j \in Of(k.alg, jwks) : j.at < k.at}

CleanupRead ==
    /\ todo = {} /\ dropped = {}
    /\ \E old \in 0 .. clock : todo' = ToDelete(old)
    /\ UNCHANGED <<jwks, clock, caches, signed, req, rot, dropped, client, refused>>

\* A key that cannot be deleted is skipped.
CleanupDelete(k) ==
    /\ k \in todo /\ dropped = {}
    /\ todo' = todo \ {k}
    /\ \/ jwks' = jwks \ {k} /\ dropped' = {k}
       \/ UNCHANGED <<jwks, dropped>>
    /\ UNCHANGED <<clock, caches, signed, req, rot, client, refused>>

CleanupUncache ==
    /\ dropped # {}
    /\ byKid' = byKid \ dropped /\ dropped' = {}
    /\ UNCHANGED <<jwks, clock, latest, certs, signed, req, rot, todo, client, refused>>

-----------------------------------------------------------------------------
\* rauthy-client: the handler of JwksMsg; it waits for the answer of the issuer
\* before it takes the next message.

NewJwksUri ==
    /\ rp = RpIdle /\ ~rpUri /\ rpUri' = TRUE
    /\ UNCHANGED <<jwks, clock, caches, signed, req, rot, cleaner, rpKeys, rpRecent, rp, rpFailed, refused>>

\* JwksMsg::Update, sent by a timer
RpUpdate ==
    /\ rp = RpIdle /\ rpUri
    /\ rp' = [wait |-> "ask", kid |-> None]
    /\ UNCHANGED <<jwks, clock, caches, signed, req, rot, cleaner, rpUri, rpKeys, rpRecent, rpFailed, refused>>

\* A variant for a check of the properties: the keys it has stay, the new ones do not come
RpAnswerKept(ks, failed) ==
    /\ rpKeys' = rpKeys /\ rp' = RpIdle
    /\ UNCHANGED <<rpUri, rpRecent, rpFailed, refused>>

\* The end of a lookup with the list ks; the token is refused when its key is
\* not in there.
RpAnswer(ks, failed) ==
    LET kid == IF rp.kid = None THEN {} ELSE {rp.kid} IN
    /\ rpKeys' = ks
    /\ rp' = RpIdle
    /\ rpRecent' = rpRecent \cup kid
    /\ rpFailed' = IF failed THEN rpFailed \cup kid ELSE rpFailed \ kid
    /\ refused' = refused \cup {<<"client", k>> : k \in kid \ (ks \cup rpFailed')}
    /\ UNCHANGED rpUri

\* JwksMsg::Get for the key of a valid token the client has not got: it was
\* looked up recently, no issuer is known, or the issuer is asked.
RpGet(k) ==
    /\ rp = RpIdle /\ k \in signed \ rpKeys
    /\ \/ /\ k \in rpRecent
          /\ refused' = refused \cup {<<"client", x>> : x \in {k} \ rpFailed}
          /\ UNCHANGED client
       \/ /\ k \notin rpRecent /\ ~rpUri
          /\ rpRecent' = rpRecent \cup {k} /\ rpFailed' = rpFailed \cup {k}
          /\ UNCHANGED <<rpUri, rpKeys, rp, refused>>
       \/ /\ k \notin rpRecent /\ rpUri
          /\ rp' = [wait |-> "ask", kid |-> k]
          /\ UNCHANGED <<rpUri, rpKeys, rpRecent, rpFailed, refused>>
    /\ UNCHANGED <<jwks, clock, caches, signed, req, rot, cleaner>>

\* No answer, or none that can be used: the keys it has stay.
RpFails ==
    /\ rp.wait \in {"ask", "answer"}
    /\ RpAnswer(rpKeys, TRUE)
    /\ req' = [p \in Requests |-> [req[p] EXCEPT !.rp = FALSE]]
    /\ UNCHANGED <<jwks, clock, caches, signed, rot, cleaner>>

\* The future that waits for the answer to a JwksMsg::Get, for this key or any other,
\* was dropped: tx_ack.send fails, unwrap panics, and the task ends with all it has.
\* From then on every JwksMsg is an error for who sends it.
RpPanic ==
    /\ rp = RpIdle \/ rp.kid # None
    /\ rp' = RpDead
    /\ rpUri' = FALSE /\ rpKeys' = {} /\ rpRecent' = {} /\ rpFailed' = {}
    /\ req' = [p \in Requests |-> [req[p] EXCEPT !.rp = FALSE]]
    /\ UNCHANGED <<jwks, clock, caches, signed, rot, cleaner, refused>>

\* recently_looked_up keeps a key for 300 seconds.
RpForgets(k) ==
    /\ k \in rpRecent /\ rpRecent' = rpRecent \ {k} /\ rpFailed' = rpFailed \ {k}
    /\ UNCHANGED <<jwks, clock, caches, signed, req, rot, cleaner, rpUri, rpKeys, rp, refused>>

\* GET /oidc/certs: JWKS::find_pk
CertsCached ==
    /\ rp.wait = "ask"
    /\ \E ks \in certs : RpAnswer(ks, FALSE)
    /\ UNCHANGED <<jwks, clock, caches, signed, req, rot, cleaner>>

\* Asked for by the client of this model, or by another one
CertsRead(p, mine) ==
    /\ req[p] = NoRequest /\ certs = {}
    /\ mine => rp.wait = "ask"
    /\ req' = [req EXCEPT ![p] = [op |-> "certs", keys |-> jwks, rp |-> mine]]
    /\ rp' = IF mine THEN [rp EXCEPT !.wait = "answer"] ELSE rp
    /\ UNCHANGED <<jwks, clock, caches, signed, rot, cleaner, rpUri, rpKeys, rpRecent, rpFailed, refused>>

CertsPut(p) ==
    /\ req[p].op = "certs"
    /\ certs' = {req[p].keys}
    /\ req' = Done(p)
    /\ \/ req[p].rp /\ RpAnswer(req[p].keys, FALSE)
       \/ ~req[p].rp /\ UNCHANGED <<client, refused>>
    /\ UNCHANGED <<jwks, clock, latest, byKid, signed, rot, cleaner>>

-----------------------------------------------------------------------------
Sign == \E a \in Algs : SignCached(a) \/ \E p \in Requests : SignRead(p, a)
Put(p) == SignPut(p) \/ VerifyPut(p) \/ CertsPut(p)
Rotate == \E r \in Rotators : RotateStep(r) \/ RotateFails(r)
Cleanup == CleanupRead \/ CleanupUncache \/ \E k \in todo : CleanupDelete(k)
Client == NewJwksUri \/ RpUpdate \/ RpFails \/ RpPanic \/ CertsCached
            \/ (\E k \in signed : RpGet(k)) \/ \E k \in rpRecent : RpForgets(k)

Next ==
    \/ Sign \/ Rotate \/ Cleanup \/ Client \/ CacheExpires
    \/ \E p \in Requests : Put(p)
    \/ \E p \in Requests, mine \in BOOLEAN : CertsRead(p, mine)
    \/ \E k \in signed : TokensExpire(k) \/ \E p \in Requests : VerifyRead(p, k)

Spec == Init /\ [][Next]_vars

\* The client is configured, its timer sends an update every hour, a waiting
\* request of the issuer is finished, and one the client sends over and over
\* reaches find_pk.
Served == CertsCached \/ \E p \in Requests : CertsRead(p, TRUE)
Fairness ==
    /\ WF_vars(NewJwksUri) /\ WF_vars(RpUpdate)
    /\ \A p \in Requests : WF_vars(Put(p))
    /\ SF_vars(Served)

FairSpec == Spec /\ Fairness

-----------------------------------------------------------------------------
Waiting == [op : {"none", "sign", "find", "certs"}, keys : SUBSET Keys, rp : BOOLEAN]

\* The shape of the state: rows and caches of find, find_latest and find_pk, the
\* steps of rotate_jwks and jwks_cleanup, and the handler of rauthy-client.
TypeOK ==
    /\ jwks \subseteq Keys /\ clock \in 0 .. MaxKeys
    /\ latest \in [Algs -> Keys \cup {None}]
    /\ byKid \subseteq Keys /\ certs \subseteq SUBSET Keys
    /\ signed \subseteq Keys
    /\ req \in [Requests -> Waiting]
    /\ rot \in [Rotators -> 0 .. 2 * Steps]
    /\ todo \subseteq Keys /\ dropped \subseteq Keys
    /\ rpUri \in BOOLEAN /\ rpKeys \subseteq Keys /\ rpRecent \subseteq Keys
    /\ rp \in [wait : {"none", "ask", "answer", "dead"}, kid : Keys \cup {None}]
    /\ rpFailed \subseteq Keys
    /\ refused \subseteq {"issuer", "client"} \X Keys

\* find_latest never panics: whatever rotations failed and however old the keys
\* are, jwks_cleanup leaves a key of every algorithm.
SigningKeyThere == \A a \in Algs : Of(a, jwks) # {}

\* No valid token is refused because its key is gone: not by validate_token, and
\* by rauthy-client, as long as its task lives, only when its last lookup of the key did
\* not reach the issuer (the list it gets may be cached from before the last rotations).
ValidTokensAccepted == refused = {}

\* Any list of public keys that is cached or about to be has the key of every
\* token that is valid, or will be signed with a cached key.
SignersPublished ==
    LET lists == {req[p].keys : p \in {q \in Requests : req[q].op = "certs"}}
                   \cup certs
        signers == signed \cup {latest[a] : a \in {b \in Algs : latest[b] # None}}
    IN \A ks \in lists : signers \subseteq ks

\* The keys of rauthy keep the promise of SigningKeys.
Abstract == INSTANCE SigningKeys WITH keys <- jwks, live <- signed
KeepsPromise == Abstract!Promise

\* A relying party eventually has the key of a token as long as that is valid,
\* if from some time on its requests get through and the task of rauthy-client never
\* panics, whatever rotations, cleanups and expiring caches do to the list it is given.
ClientLearnsKey ==
    <>[][~RpFails]_vars /\ [](rp # RpDead) =>
        \A k \in Keys : k \in signed ~> (k \in rpKeys \/ k \notin signed)

\* Rotations that complete, while no request waits for the table
UndisturbedRotations ==
    Init /\ [][Next /\ \A r \in Rotators :
                 ~RotateFails(r) /\ (RotateStep(r) => \A p \in Requests : req[p] = NoRequest)]_vars

\* "When the JWKs are rotated, all newly signed tokens from that point on will use the"
\* new ones: what is signed while no rotation is under way is signed with a key than which
\* no other of its algorithm is newer (find_latest "returns the latest JWK").
NewKeysSign ==
    [][(\A r \in Rotators : rot[r] = 0) =>
         \A k \in signed' \ signed : \A j \in Of(k.alg, jwks) : j.at <= k.at]_vars
=============================================================================
