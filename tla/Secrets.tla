------------------------------ MODULE Secrets ------------------------------
(***************************************************************************)
(* The secrets rauthy keeps encrypted: the secret of a client, the         *)
(* registration token of a dynamic client, an API key, the secret for an   *)
(* upstream provider.  Requests create, rotate, show and delete them while *)
(* a migration may re-encrypt everything with another key; each one has a  *)
(* row and cached copies, written in separate steps.                       *)
(*                                                                         *)
(* An encrypted value is the value and the key it is encrypted with; its   *)
(* row may name the key too (secret_kid, enc_key_id).  One client, one API *)
(* key and one provider stand for all of them.  The list cached by         *)
(* Client::save is never read and is left out, and so is last_used of a    *)
(* dynamic client.  API keys do not expire here.  Except for API keys, a   *)
(* read that fills a cache is one step.                                    *)
(***************************************************************************)
EXTENDS Naturals, Sequences

CONSTANTS
    Requests,    \* concurrently executing requests
    EncKeys,     \* ids of the configured encryption keys
    AutoRotate,  \* values that DYN_CLIENT_SECRET_AUTO_ROTATE has, in one deployment or the next
    InitStores,  \* what is stored at the start: records of active, client, reg, apikey and provider
    None,
    MaxOps       \* bound on the number of requests

\* An encrypted value, and the rows
Secret == [v : 0..(2 * MaxOps), k : EncKeys]
ClientRows == [dyn : BOOLEAN, sec : {None} \cup Secret, kid : {None} \cup EncKeys]
ApiKeyRows == [sec : Secret, acc : Secret, kid : EncKeys]
ProviderRecords == [on : BOOLEAN, sec : {None} \cup Secret]

ASSUME ConstantsOK ==
    /\ EncKeys # {} /\ AutoRotate \subseteq BOOLEAN /\ MaxOps \in Nat
    /\ None \notin EncKeys \cup Nat \cup Secret \cup ClientRows \cup ApiKeyRows \cup ProviderRecords

\* secret_kid names the key of the secret
Labelled(c) == c.sec = None \/ c.kid = c.sec.k

\* The rows at the start name the keys they are encrypted with.
ASSUME StoresOK == \A s \in InitStores :
    /\ s.active \in EncKeys
    /\ s.client \in {None} \cup {c \in ClientRows : Labelled(c)}
    /\ s.reg \in {None} \cup Secret /\ (s.reg # None => s.client # None /\ s.client.dyn)
    /\ s.apikey \in {None} \cup {e \in ApiKeyRows : e.kid = e.sec.k /\ e.kid = e.acc.k}
    /\ s.provider \in {None} \cup ProviderRecords

VARIABLES
    active,      \* enc_key_active, from the configuration
    client,      \* row of the client: [dyn, sec, kid], confidential if it has a secret
    reg,         \* registration_token in clients_dyn
    apikey,      \* row of the API key: [sec, acc, kid]
    provider,    \* row of the provider: [on, sec]
    cClient, cReg, cKey, cProv, \* cached copies of these, the API key decrypted
    cAll,        \* cached list of all providers
    cTemplate,   \* cached list of the providers for the login page
    req,
    fresh,       \* the next random value
    told,        \* history: the secret each owner was told last
    stale,       \* history: secret_kid does not name the key the secret was made with
    target,      \* history: key of the migration that has just finished
    ghost,       \* history: the provider that was saved last has no row
    ops,
    spoilt       \* history: owners two requests worked on at a time, or one failed for

rows == <<client, reg, apikey, provider>>
clientCaches == <<cClient, cReg>>
provCaches == <<cProv, cAll, cTemplate>>
caches == <<clientCaches, cKey, provCaches>>
secretsHistory == <<told, stale, target, ghost, ops, spoilt>>
secretsVars == <<active, rows, caches, req, fresh, secretsHistory>>

Owners == {"client", "reg", "apikey", "provider"}

-----------------------------------------------------------------------------
\* Encryption

Enc(v) == [v |-> v, k |-> active]
EncWith(sec, k) == [sec EXCEPT !.k = k]

-----------------------------------------------------------------------------
\* Requests: what the request holds, and the steps left to do

NoOp == [steps |-> <<>>]

\* own: whose row it works on; x: the copy it writes, t: the token; tell: its answer
Op(steps, own, x, t, tell) ==
    [steps |-> steps, own |-> own, x |-> x, t |-> t, tell |-> tell, to |-> None]

Quietly == [o \in {} |-> None]
Tell(o, v) == [x \in {o} |-> v]
Told(tell) == [o \in Owners |-> IF o \in DOMAIN tell THEN tell[o] ELSE told[o]]

Active(r) == req[r] # NoOp
Head1(r) == IF Active(r) THEN Head(req[r].steps) ELSE "none"
Overlapping(r, own) == UNION {own \cap req[q].own : q \in {x \in Requests \ {r} : Active(x)}}

Begin(r, op) ==
    /\ ops < MaxOps /\ ops' = ops + 1
    /\ ~Active(r)
    /\ req' = [req EXCEPT ![r] = op]
    /\ spoilt' = spoilt \cup Overlapping(r, op.own)
    /\ target' = None
    /\ ghost' = IF Head(op.steps) = "provider_insert" THEN FALSE ELSE ghost

\* A request that does its work in one step
Single(own) ==
    /\ ops < MaxOps /\ ops' = ops + 1
    /\ spoilt' = spoilt \cup UNION {own \cap req[q].own : q \in {x \in Requests : Active(x)}}
    /\ target' = None
    /\ UNCHANGED <<req, ghost>>

\* The next step of a request; with its last one it answers.
Done(r) ==
    /\ req' = [req EXCEPT ![r] = IF Len(req[r].steps) = 1 THEN NoOp
                              ELSE [req[r] EXCEPT !.steps = Tail(req[r].steps)]]
    /\ told' = IF Len(req[r].steps) = 1 THEN Told(req[r].tell) ELSE told
    /\ stale' = IF Head(req[r].steps) = "commit" THEN FALSE ELSE stale
    /\ ghost' = CASE Head(req[r].steps) = "provider_row" -> provider = None
                  [] Head(req[r].steps) = "provider_forget" -> FALSE
                  [] OTHER -> ghost
    /\ UNCHANGED <<active, fresh, target, ops, spoilt>>

-----------------------------------------------------------------------------
\* Clients

\* Client::find
FindClient == IF cClient # None THEN cClient ELSE client

\* Client::generate_new_secret
generate_new_secret == Enc(fresh)

\* A client to come, whatever the requests for former clients do
NewId == client = None /\ \A r \in Requests : Active(r) => "client" \notin req[r].own

\* Client::create: nobody is told the secret.  The id may be the one of a former client,
\* but not of a dynamic one.
create_client(conf) ==
    /\ Single({"client"})
    /\ NewId
    /\ cClient' = IF cClient # None /\ cClient.dyn THEN None ELSE cClient
    /\ cReg' = None
    /\ client' = [dyn |-> FALSE, sec |-> IF conf THEN generate_new_secret ELSE None,
                  kid |-> IF conf THEN active ELSE None]
    /\ fresh' = fresh + 1
    /\ stale' = FALSE
    /\ told' = Told(Tell("client", None))
    /\ UNCHANGED <<active, reg, apikey, provider, cKey, provCaches>>

\* Client::try_from_dyn_reg
try_from_dyn_reg(conf) ==
    [dyn |-> TRUE, sec |-> IF conf THEN generate_new_secret ELSE None,
     kid |-> IF conf THEN active ELSE None]

\* ClientDyn::create: the registration token
NewToken == Enc(fresh + 1)

\* Client::create_dynamic, with ClientDyn::create in one transaction, with a new id
create_dynamic(conf) ==
    /\ Single({"client", "reg"})
    /\ NewId
    /\ cClient' = None /\ cReg' = None
    /\ client' = try_from_dyn_reg(conf)
    /\ reg' = NewToken
    /\ fresh' = fresh + 2
    /\ stale' = FALSE
    /\ told' = [told EXCEPT !["client"] = IF conf THEN fresh ELSE None, !["reg"] = fresh + 1]
    /\ UNCHANGED <<active, apikey, provider, cKey, provCaches>>

\* Client::save
SaveClient == <<"client_row", "client_cache">>

\* update_client: a new secret only if the client becomes confidential.  secret_kid
\* stays what it was, and nobody is told.
update_client(r, conf) ==
    LET c == FindClient
        sec == IF ~conf THEN None ELSE IF c.sec = None THEN generate_new_secret ELSE c.sec
    IN  /\ c # None
        /\ cClient' = c
        /\ Begin(r, Op(SaveClient, {"client"}, [c EXCEPT !.sec = sec], None,
                       IF sec = c.sec THEN Quietly ELSE Tell("client", None)))
        /\ fresh' = fresh + 1
        /\ UNCHANGED <<active, rows, cReg, cKey, provCaches, told, stale>>

\* generate_new_secret of the service, for a client of either kind
put_generate_client_secret(r) ==
    LET c == FindClient IN
    /\ c # None
    /\ cClient' = c
    /\ Begin(r, Op(SaveClient, {"client"}, [c EXCEPT !.sec = generate_new_secret], None, Tell("client", fresh)))
    /\ fresh' = fresh + 1
    /\ UNCHANGED <<active, rows, cReg, cKey, provCaches, told, stale>>

\* get_client_secret
get_client_secret ==
    LET c == FindClient IN
    /\ Single({"client"})
    /\ c # None /\ c.sec # None
    /\ cClient' = c
    /\ told' = Told(Tell("client", c.sec.v))
    /\ UNCHANGED <<active, rows, cReg, cKey, provCaches, fresh, stale>>

\* Client::validate_secret
validate_secret(c, secret) == c # None /\ c.sec # None /\ c.sec.v = secret

\* grant_type_credentials: a client that has the secret gets a token.
grant_type_credentials ==
    /\ Single({"client"})
    /\ told["client"] # None /\ validate_secret(FindClient, told["client"])
    /\ cClient' = FindClient
    /\ UNCHANGED <<active, rows, cReg, cKey, provCaches, fresh, told, stale>>

\* ClientDyn::find and validate_token, for the token the client knows
FindReg == IF cReg # None THEN cReg ELSE reg
ValidToken == FindReg # None /\ FindReg.v = told["reg"]

\* GET of a dynamic client: the answer has the secret, not the token.
get_clients_dyn ==
    LET c == FindClient IN
    /\ Single({"client", "reg"})
    /\ ValidToken /\ c # None
    /\ cReg' = FindReg /\ cClient' = c
    /\ told' = IF c.sec = None THEN told ELSE Told(Tell("client", c.sec.v))
    /\ UNCHANGED <<active, rows, cKey, provCaches, fresh, stale>>

RotatedAlways(rotate) == Enc(fresh + 1)

\* ClientDyn::update: the token
Rotated(rotate) == IF rotate THEN Enc(fresh + 1) ELSE FindReg

\* Client::update_dynamic: the caches are written in the transaction, before it commits.
\* The answer has the token only if it was rotated.
update_dynamic(r, conf, rotate) ==
    LET c == FindClient new == try_from_dyn_reg(conf) t == Rotated(rotate) IN
    /\ ValidToken /\ c # None /\ c.dyn
    /\ cReg' = FindReg /\ cClient' = c
    /\ Begin(r, Op(<<"client_cache", "reg_cache", "commit">>, {"client", "reg"}, new, t,
                   [o \in {"client"} \cup (IF rotate THEN {"reg"} ELSE {}) |->
                      IF o = "reg" THEN t.v ELSE IF conf THEN new.sec.v ELSE None]))
    /\ fresh' = fresh + 2
    /\ UNCHANGED <<active, rows, cKey, provCaches, told, stale>>

\* Client::delete, also of a dynamic client (delete_from_cache)
delete_client(r) ==
    LET c == FindClient IN
    /\ c # None
    /\ cClient' = c
    /\ Begin(r, Op(<<"client_delete", "client_forget">> \o (IF c.dyn THEN <<"reg_forget">> ELSE <<>>),
                   {"client", "reg"}, c, None, [o \in {"client", "reg"} |-> None]))
    /\ UNCHANGED <<active, rows, cReg, cKey, provCaches, fresh, told, stale>>

\* The update changes nothing if there is no such row any more.
ClientRow(r) ==
    /\ Head1(r) = "client_row"
    /\ client' = IF client = None THEN None ELSE req[r].x
    /\ req' = [req EXCEPT ![r].steps = Tail(@)]
    /\ stale' = (req[r].to = None /\ client' # None /\ ~Labelled(client'))
    /\ UNCHANGED <<active, reg, apikey, provider, caches, fresh, told, target, ghost, ops, spoilt>>

CachedClient(r) ==
    /\ Head1(r) = "client_cache"
    /\ cClient' = req[r].x
    /\ Done(r)
    /\ UNCHANGED <<rows, cReg, cKey, provCaches>>

CachedReg(r) ==
    /\ Head1(r) = "reg_cache"
    /\ cReg' = req[r].t
    /\ Done(r)
    /\ UNCHANGED <<rows, cClient, cKey, provCaches>>

\* The transaction of update_dynamic
CommitDynamic(r) ==
    /\ Head1(r) = "commit"
    /\ client' = IF client = None THEN None ELSE req[r].x
    /\ reg' = IF reg = None THEN None ELSE req[r].t
    /\ Done(r)
    /\ UNCHANGED <<apikey, provider, caches>>

\* The row of clients_dyn goes with the client, by its foreign key.
Cascaded == None

DeletedClient(r) ==
    /\ Head1(r) = "client_delete"
    /\ client' = None /\ reg' = Cascaded
    /\ Done(r)
    /\ UNCHANGED <<apikey, provider, caches>>

ForgottenClient(r) ==
    /\ Head1(r) = "client_forget"
    /\ cClient' = None
    /\ Done(r)
    /\ UNCHANGED <<rows, cReg, cKey, provCaches>>

ForgottenReg(r) ==
    /\ Head1(r) = "reg_forget"
    /\ cReg' = None
    /\ Done(r)
    /\ UNCHANGED <<rows, cClient, cKey, provCaches>>

-----------------------------------------------------------------------------
\* API keys; the secret stands for its hash.

\* ApiKeyEntity::into_api_key
into_api_key(e) == [sec |-> e.sec.v, acc |-> e.acc.v]

\* ApiKeyEntity::create
create_api_key ==
    /\ Single({"apikey"})
    /\ apikey = None
    /\ apikey' = [sec |-> Enc(fresh), acc |-> Enc(fresh), kid |-> active]
    /\ fresh' = fresh + 1
    /\ told' = Told(Tell("apikey", fresh))
    /\ UNCHANGED <<active, client, reg, provider, caches, stale>>

\* ApiKeyEntity::save: the row, then cache_invalidate
SaveKey == <<"key_row", "key_forget">>

\* ApiKeyEntity::generate_secret
generate_secret(r) ==
    /\ apikey # None
    /\ Begin(r, Op(SaveKey, {"apikey"},
                   [sec |-> Enc(fresh), acc |-> Enc(apikey.acc.v), kid |-> active], None, Tell("apikey", fresh)))
    /\ fresh' = fresh + 1
    /\ UNCHANGED <<active, rows, caches, told, stale>>

UpdatedKeyOld(acc) == [sec |-> Enc(apikey.sec.v), acc |-> Enc(acc), kid |-> apikey.kid]

\* Both values are encrypted again, with the key that is active now.
UpdatedKey(acc) == [sec |-> Enc(apikey.sec.v), acc |-> Enc(acc), kid |-> active]

\* ApiKeyEntity::update, with new access rights
update_api_key(r) ==
    /\ apikey # None
    /\ Begin(r, Op(SaveKey, {"apikey"}, UpdatedKey(fresh), None, Quietly))
    /\ fresh' = fresh + 1
    /\ UNCHANGED <<active, rows, caches, told, stale>>

\* ApiKeyEntity::delete
delete_api_key(r) ==
    /\ apikey # None
    /\ Begin(r, Op(<<"key_delete", "key_forget">>, {"apikey"}, None, None, Tell("apikey", None)))
    /\ UNCHANGED <<active, rows, caches, fresh, told, stale>>

\* api_key_from_token_validated, when the cache has no copy: the row is read first
\* and put into the cache later.
api_key_from_token_validated(r) ==
    /\ apikey # None /\ cKey = None
    /\ Begin(r, Op(<<"key_cache">>, {"apikey"}, into_api_key(apikey), None, Quietly))
    /\ UNCHANGED <<active, rows, caches, fresh, told, stale>>

KeyRow(r) ==
    /\ Head1(r) \in {"key_row", "key_delete"}
    /\ apikey' = IF apikey = None THEN None ELSE req[r].x
    /\ Done(r)
    /\ UNCHANGED <<client, reg, provider, caches>>

CachedKey(r) ==
    /\ Head1(r) \in {"key_cache", "key_forget"}
    /\ cKey' = IF Head1(r) = "key_cache" THEN req[r].x ELSE None
    /\ Done(r)
    /\ UNCHANGED <<rows, clientCaches, provCaches>>

-----------------------------------------------------------------------------
\* Upstream providers: a list is the set of its entries.

\* AuthProvider::find_all
ProviderRows == IF provider = None THEN {} ELSE {provider}
FindAll == IF cAll # None THEN cAll ELSE ProviderRows

\* AuthProviderTemplate::get_all_json_template: the providers that are enabled
Template(list) == {p.on : p \in {x \in list : x.on}}

\* AuthProvider::save and create: the row, invalidate_cache_all, the cached copy
SaveProvider == <<"provider_row", "provider_drop", "provider_fill", "provider_cache">>

\* AuthProvider::try_from_id_req and secret_encrypted: the administrator's values.  A
\* provider without a secret uses PKCE.
try_from_id_req(on, secret) == [on |-> on, sec |-> IF secret = None THEN None ELSE Enc(secret)]

\* AuthProvider::create: a provider to come, with a new id, so that nothing of a former
\* one is cached for it
post_provider(r, on, secret) ==
    /\ provider = None /\ \A q \in Requests : Active(q) => "provider" \notin req[q].own
    /\ Begin(r, Op(<<"provider_insert">> \o Tail(SaveProvider), {"provider"}, try_from_id_req(on, secret),
                   None, Tell("provider", secret)))
    /\ cProv' = None
    /\ fresh' = fresh + 1
    /\ UNCHANGED <<active, rows, clientCaches, cKey, cAll, cTemplate, told, stale>>

\* AuthProvider::update: nobody looks whether the provider is still there.  If it is not,
\* no row is changed, the copy is cached all the same, and the answer is 200.
put_provider(r, on, secret) ==
    /\ Begin(r, Op(SaveProvider, {"provider"}, try_from_id_req(on, secret), None, Tell("provider", secret)))
    /\ fresh' = fresh + 1
    /\ UNCHANGED <<active, rows, caches, told, stale>>

\* AuthProvider::delete; users that are linked keep the id of the provider.
delete_provider(r) ==
    /\ Begin(r, Op(<<"provider_delete", "provider_drop", "provider_fill", "provider_forget">>,
                   {"provider"}, None, None, Tell("provider", None)))
    /\ UNCHANGED <<active, rows, caches, fresh, told, stale>>

\* AuthProvider::find, at a login with the provider
find_provider ==
    /\ Single({"provider"})
    /\ provider # None /\ cProv = None
    /\ cProv' = provider
    /\ UNCHANGED <<active, rows, clientCaches, cKey, cAll, cTemplate, fresh, told, stale>>

\* The login page
get_all_json_template ==
    /\ Single({"provider"})
    /\ cTemplate = None
    /\ cAll' = FindAll
    /\ cTemplate' = Template(FindAll)
    /\ UNCHANGED <<active, rows, clientCaches, cKey, cProv, fresh, told, stale>>

ProviderRow(r) ==
    /\ Head1(r) \in {"provider_row", "provider_insert", "provider_delete"}
    /\ provider' = IF provider = None /\ Head1(r) = "provider_row" THEN None ELSE req[r].x
    /\ Done(r)
    /\ UNCHANGED <<client, reg, apikey, caches>>

DroppedTemplateOnly == cAll

\* AuthProvider::invalidate_cache_all, AuthProviderTemplate::invalidate_cache
Dropped == None

DroppedAll(r) ==
    /\ Head1(r) = "provider_drop"
    /\ cAll' = Dropped /\ cTemplate' = None
    /\ Done(r)
    /\ UNCHANGED <<rows, clientCaches, cKey, cProv>>

\* AuthProviderTemplate::update_cache
FilledTemplate(r) ==
    /\ Head1(r) = "provider_fill"
    /\ cAll' = FindAll
    /\ cTemplate' = IF cTemplate = None THEN Template(FindAll) ELSE cTemplate
    /\ Done(r)
    /\ UNCHANGED <<rows, clientCaches, cKey, cProv>>

CachedProvider(r) ==
    /\ Head1(r) \in {"provider_cache", "provider_forget"}
    /\ cProv' = IF Head1(r) = "provider_cache" THEN req[r].x ELSE None
    /\ Done(r)
    /\ UNCHANGED <<rows, clientCaches, cKey, cAll, cTemplate>>

-----------------------------------------------------------------------------
\* Migration to another key

\* Confidential clients whose secret_kid names another key
ClientsToMigrate(k) == client # None /\ client.sec # None /\ client.kid # k

\* migrate_encryption_alg: clients, API keys, providers, each read when their turn
\* comes.  The registration tokens of dynamic clients are not among them; the JWKS
\* are in the module Jwks.
migrate_encryption_alg(r, k) ==
    LET c == [client EXCEPT !.sec = EncWith(@, k), !.kid = k] IN
    /\ Begin(r, [Op((IF ClientsToMigrate(k) THEN SaveClient ELSE <<>>) \o <<"migrate_keys">>,
                    {"client", "apikey", "provider"}, IF ClientsToMigrate(k) THEN c ELSE None, None, Quietly)
                 EXCEPT !.to = k])
    /\ UNCHANGED <<active, rows, caches, fresh, told, stale>>

MigrateKeys(r) ==
    LET k == req[r].to
        todo == apikey # None /\ apikey.kid # k
    IN  /\ Head1(r) = "migrate_keys"
        /\ req' = [req EXCEPT ![r].steps = (IF todo THEN SaveKey ELSE <<>>) \o <<"migrate_providers">>,
                              ![r].x = IF todo THEN [sec |-> EncWith(apikey.sec, k), acc |-> EncWith(apikey.acc, k),
                                                     kid |-> k] ELSE None]
        /\ UNCHANGED <<active, rows, caches, fresh, secretsHistory>>

ToMigrateEnabled == {p \in FindAll : p.sec # None /\ p.on}

\* The list of providers may come from the cache.
ProvidersToMigrate == {p \in FindAll : p.sec # None}

MigrateProviders(r) ==
    LET k == req[r].to
        p == CHOOSE x \in ProvidersToMigrate : TRUE
    IN  /\ Head1(r) = "migrate_providers"
        /\ cAll' = FindAll
        /\ req' = [req EXCEPT ![r].steps = (IF ProvidersToMigrate = {} THEN <<>> ELSE SaveProvider) \o <<"migrated">>,
                              ![r].x = IF ProvidersToMigrate = {} THEN None
                                       ELSE [p EXCEPT !.sec = EncWith(@, k)]]
        /\ UNCHANGED <<active, rows, clientCaches, cKey, cProv, cTemplate, fresh, secretsHistory>>

\* Nothing else went on meanwhile.
Migrated(r) ==
    /\ Head1(r) = "migrated"
    /\ req' = [req EXCEPT ![r] = NoOp]
    /\ target' = IF spoilt = {} THEN req[r].to ELSE None
    /\ UNCHANGED <<active, rows, caches, fresh, told, stale, ghost, ops, spoilt>>

-----------------------------------------------------------------------------
\* The database or the cache fails: what was done so far stays.
Fail(r) ==
    /\ Active(r)
    /\ req' = [req EXCEPT ![r] = NoOp]
    /\ spoilt' = spoilt \cup req[r].own
    /\ UNCHANGED <<active, rows, caches, fresh, told, stale, target, ghost, ops>>

\* rauthy is started again, maybe with another active key.  What the rows hold is then
\* all there is.
Restart ==
    /\ ops < MaxOps /\ ops' = ops + 1
    /\ active' \in EncKeys
    /\ cClient' = None /\ cReg' = None /\ cKey' = None /\ cProv' = None /\ cAll' = None /\ cTemplate' = None
    /\ req' = [r \in Requests |-> NoOp]
    /\ told' = [o \in Owners |-> IF \/ o \in spoilt \/ \E r \in Requests : Active(r) /\ o \in req[r].own
                                    \/ o = "provider" /\ ghost
                                 THEN None ELSE told[o]]
    /\ spoilt' = {}
    /\ target' = None /\ ghost' = FALSE
    /\ UNCHANGED <<rows, fresh, stale>>

SecretsInit ==
    /\ \E s \in InitStores :
         /\ active = s.active /\ client = s.client /\ reg = s.reg /\ apikey = s.apikey /\ provider = s.provider
         /\ told = [o \in Owners |->
                      CASE o = "client" -> IF s.client = None \/ s.client.sec = None THEN None ELSE s.client.sec.v
                        [] o = "reg" -> IF s.reg = None THEN None ELSE s.reg.v
                        [] o = "apikey" -> IF s.apikey = None THEN None ELSE s.apikey.sec.v
                        [] o = "provider" -> IF s.provider = None \/ s.provider.sec = None THEN None
                                             ELSE s.provider.sec.v]
    /\ cClient = None /\ cReg = None /\ cKey = None /\ cProv = None /\ cAll = None /\ cTemplate = None
    /\ req = [r \in Requests |-> NoOp]
    /\ fresh = 1
    /\ stale = FALSE /\ target = None /\ ghost = FALSE /\ ops = 0 /\ spoilt = {}

ClientRequest(r) ==
    \/ \E conf \in BOOLEAN : create_client(conf) \/ update_client(r, conf)
    \/ put_generate_client_secret(r) \/ get_client_secret \/ grant_type_credentials \/ delete_client(r)

DynRequest(r) ==
    \/ \E conf \in BOOLEAN : create_dynamic(conf) \/ \E rotate \in AutoRotate : update_dynamic(r, conf, rotate)
    \/ get_clients_dyn

ApiKeyRequest(r) ==
    \/ create_api_key \/ generate_secret(r) \/ update_api_key(r) \/ delete_api_key(r)
    \/ api_key_from_token_validated(r)

ProviderRequest(r) ==
    \/ \E on \in BOOLEAN, secret \in {fresh, None} : post_provider(r, on, secret) \/ put_provider(r, on, secret)
    \/ delete_provider(r) \/ find_provider \/ get_all_json_template

Step(r) ==
    \/ ClientRow(r) \/ CachedClient(r) \/ CachedReg(r) \/ CommitDynamic(r) \/ DeletedClient(r)
    \/ ForgottenClient(r) \/ ForgottenReg(r) \/ KeyRow(r) \/ CachedKey(r) \/ ProviderRow(r)
    \/ DroppedAll(r) \/ FilledTemplate(r) \/ CachedProvider(r)
    \/ MigrateKeys(r) \/ MigrateProviders(r) \/ Migrated(r)

SecretsNext ==
    \/ \E r \in Requests :
        \/ ClientRequest(r) \/ DynRequest(r) \/ ApiKeyRequest(r) \/ ProviderRequest(r)
        \/ \E k \in EncKeys : migrate_encryption_alg(r, k)
        \/ Step(r) \/ Fail(r)
    \/ Restart

SecretsSpec == SecretsInit /\ [][SecretsNext]_secretsVars

-----------------------------------------------------------------------------
\* Properties

\* The rows have the columns they should; a registration token has its client, as the
\* foreign key of clients_dyn asks for.
SecretsTypeOK ==
    /\ active \in EncKeys
    /\ client \in {None} \cup ClientRows
    /\ reg \in {None} \cup Secret /\ (reg # None => client # None /\ client.dyn)
    /\ apikey \in {None} \cup ApiKeyRows
    /\ provider \in {None} \cup ProviderRecords

\* Nobody works on what o owns, and nobody did so at the same time as another or failed.
Quiet(o) == o \notin spoilt /\ \A r \in Requests : Active(r) => o \notin req[r].own

\* Once its requests have ended, the secret its owner was told last is the one that is
\* accepted, be it from a cached copy, and the one in the row, whatever was rotated,
\* shown, migrated or made public in between; the registration token is not lost in a
\* rotation that does not answer with it (clients_dyn.rs:101-135).  A provider is the
\* exception: a PUT of one that was deleted is answered with 200 and saves nothing.
ToldSecretWorks ==
    /\ Quiet("client") /\ told["client"] # None =>
        validate_secret(FindClient, told["client"]) /\ validate_secret(client, told["client"])
    /\ Quiet("reg") /\ told["reg"] # None => reg # None /\ reg.v = told["reg"]
    /\ Quiet("apikey") /\ told["apikey"] # None => apikey.sec.v = told["apikey"]
    /\ Quiet("provider") /\ ~ghost /\ told["provider"] # None => provider.sec.v = told["provider"]

\* Once its requests have ended, a cached copy holds what the row holds: a secret that
\* was rotated or deleted is not accepted because of a copy, and the login page shows
\* the providers that are enabled.  The exception is the copy of a provider that was
\* saved after it had been deleted: it is cached without a row, but in no list.
CachesAgree ==
    /\ Quiet("client") /\ cClient # None => cClient = client
    /\ Quiet("reg") /\ cReg # None => cReg = reg
    /\ Quiet("apikey") /\ cKey # None => apikey # None /\ cKey = into_api_key(apikey)
    /\ Quiet("provider") =>
        /\ cProv # None => cProv = provider \/ (ghost /\ provider = None)
        /\ cAll # None => cAll = ProviderRows
        /\ cTemplate # None => cTemplate = Template(ProviderRows)

\* enc_key_id of an API key names the key of both its values, in any order of updates,
\* rotations, migrations, failures and restarts; the migration relies on it.  A
\* registration token always has its client.
EncKeyIdTruthful ==
    /\ SecretsTypeOK
    /\ apikey # None => apikey.kid = apikey.sec.k /\ apikey.kid = apikey.acc.k

\* After a migration that nothing interfered with, the API keys, the providers and the
\* confidential clients are under the new key, but for a client whose secret was made
\* after another key had become active: its secret_kid still names the old one.
MigrationComplete ==
    target # None =>
        /\ client # None /\ client.sec # None => client.kid = target /\ (stale \/ client.sec.k = target)
        /\ apikey # None => apikey.sec.k = target /\ apikey.acc.k = target
        /\ provider # None /\ provider.sec # None => provider.sec.k = target
=============================================================================
