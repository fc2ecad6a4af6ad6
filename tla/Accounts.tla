------------------------------ MODULE Accounts ------------------------------
(***************************************************************************)
(* The account of one user: the row, its two cached copies, the magic      *)
(* links, the passkeys and the recent passwords, and every request that    *)
(* changes them: registration, password reset, change of the e-mail        *)
(* address, passkey registration and deletion, conversion to a passkey     *)
(* account, updates by an administrator and by the user.                   *)
(*                                                                         *)
(* Every request reads the user, mostly from a cache, and writes all of it *)
(* back; a magic link is read, checked and saved as a whole too.  The list *)
(* of passkeys is cached under one index by two functions that read        *)
(* different lists.                                                        *)
(*                                                                         *)
(* A browser stands for its binding cookie, and knows the CSRF token of    *)
(* every link whose page it got.  Expiry of a link is its flag live.  A    *)
(* read that fills a cache is one step.  The sessions that a change        *)
(* invalidates are in the module Sessions.                                 *)
(***************************************************************************)
EXTENDS Integers, Sequences, FiniteSets

CONSTANTS
    Requests,    \* concurrently executing requests
    Browsers, Emails, Passwords, Links,
    Keys, UV,    \* passkeys, and those with user verification
    InitAccounts,\* accounts to start with: records of user, keys, recent, links and seen
    Binding,     \* PASSWORD_RESET_COOKIE_BINDING
    NoExpiry,    \* WEBAUTHN_NO_PASSWORD_EXPIRY
    RecentReq,   \* not_recently_used of the password policy
    None,
    MaxOps       \* bound on the number of requests

\* A row of users without its language (which post_update_language writes to the row
\* only), and of magic_links
Users == [email : Emails, pwd : Passwords \cup {None}, mfa : BOOLEAN, fed : BOOLEAN, exp : BOOLEAN]
MagicLinks == {ml \in [usage : {"NewUser", "PasswordReset", "EmailChange"}, email : Emails \cup {None},
                       cookie : Browsers \cup {None}, live : BOOLEAN] :
                 ml.usage = "EmailChange" => ml.email \in Emails}

ASSUME ConstantsOK ==
    /\ UV \subseteq Keys /\ IsFiniteSet(Keys) /\ RecentReq \in Nat \ {0} /\ MaxOps \in Nat
    /\ Binding \in BOOLEAN /\ NoExpiry \in BOOLEAN
    /\ None \notin Browsers \cup Emails \cup Passwords \cup Links
    /\ None \notin Users \cup MagicLinks /\ (\A ks \in SUBSET Keys : ks # None) /\ None \notin Seq(Passwords)

VARIABLES
    user,        \* the row, or None
    byId, byEmail, \* cached copies of the user
    keys,        \* names of the passkeys of the user
    pkList,      \* the list of passkeys cached under cache_idx_user, or None
    regs,        \* passkey registrations that were started
    challenge,   \* passkeys of the authentication that was started
    codes,       \* number of proofs of a second factor not used yet
    recent,      \* recent passwords, newest first, or None
    links,       \* magic links, or None
    seen,        \* browser and link: the browser has its page, with the CSRF token
    req,
    ops,
    uses,        \* history: how often a link has changed the account
    used,        \* history: passwords the row had, or that were refused with their address, newest first
    spoilt       \* history: what two requests worked on at the same time, or one left half done

store == <<user, keys, recent, links>>
caches == <<byId, byEmail, pkList>>
webauthn == <<regs, challenge, codes>>
history == <<ops, uses, used, spoilt>>
vars == <<store, caches, webauthn, seen, req, history>>

-----------------------------------------------------------------------------
\* User

\* password_expires is set (exp) or not; mfa stands for webauthn_user_id.
NewUser(email, fed) == [email |-> email, pwd |-> None, mfa |-> FALSE, fed |-> fed, exp |-> FALSE]

account_type(u) ==
    IF u.fed THEN (IF u.pwd # None THEN "FederatedPassword"
                   ELSE IF u.mfa THEN "FederatedPasskey" ELSE "Federated")
    ELSE IF u.pwd # None THEN "Password" ELSE IF u.mfa THEN "Passkey" ELSE "New"

\* User::find and User::find_by_email: the cached copy, or the row
Find == IF byId # None THEN byId ELSE user
FindByEmail(e) ==
    IF byEmail[e] # None THEN byEmail[e]
    ELSE IF user # None /\ user.email = e THEN user ELSE None

\* As far as this user goes; another user may have the address too.
is_email_free(e) == FindByEmail(e) = None

ComparedNone(s) == <<>>

\* User::apply_password_rules: all but one of the passwords the policy names are
\* compared and kept; with 1, all of them.  Passwords are ones that have the length
\* and the characters the policy asks for.
Compared(s) == IF RecentReq = 1 \/ Len(s) < RecentReq THEN s ELSE SubSeq(s, 1, RecentReq - 1)
Acceptable(p) == recent # None => \A i \in DOMAIN Compared(recent) : recent[i] # p
WithRecent(p) == IF recent = None THEN <<p>> ELSE <<p>> \o Compared(recent)
WithPassword(u, p) == [u EXCEPT !.pwd = p, !.exp = ~(NoExpiry /\ u.mfa)]

\* password_expires is what the policy says.
Policy(u) == u.exp = (u.pwd # None /\ ~(NoExpiry /\ u.mfa))
Unrepeated(s) == \A i, j \in DOMAIN s : i < j /\ j - i < RecentReq => s[i] # s[j]

\* The accounts to start with are consistent.
ASSUME InitAccountsOK ==
    \A a \in InitAccounts :
        /\ a.user \in Users \cup {None} /\ a.keys \subseteq Keys
        /\ a.recent \in Seq(Passwords) \cup {None} /\ a.links \in [Links -> MagicLinks \cup {None}]
        /\ a.seen \subseteq Browsers \X Links
        /\ IF a.user = None
           THEN a.keys = {} /\ a.recent = None /\ \A l \in Links : a.links[l] = None
           ELSE Policy(a.user) /\ (a.user.mfa => a.keys # {})
        /\ a.recent # None => Unrepeated(a.recent)

-----------------------------------------------------------------------------
\* Passkeys

\* PasskeyEntity::find_for_user and find_for_user_with_uv share the cached list.
find_for_user == IF pkList # None THEN pkList ELSE keys
find_for_user_with_uv == IF pkList # None THEN pkList ELSE keys \cap UV

WithoutMfaOnly(u) == [u EXCEPT !.mfa = FALSE]

\* What is left of the user when the last passkey goes
WithoutMfa(u) == [u EXCEPT !.mfa = FALSE, !.exp = u.pwd # None]

-----------------------------------------------------------------------------
\* Magic links

Link(usage, email) == [usage |-> usage, email |-> email, cookie |-> None, live |-> TRUE]

ValidLinkOnce(ml, b, l, with_csrf) ==
    /\ ml.cookie # None /\ Binding => ml.cookie = b
    /\ with_csrf => <<b, l>> \in seen

\* MagicLink::validate; the CSRF token is only asked for in a PUT.
ValidLink(ml, b, l, with_csrf) ==
    /\ ml.cookie # None /\ Binding => ml.cookie = b
    /\ with_csrf => <<b, l>> \in seen
    /\ ml.live

\* MagicLink::save: cookie and expiry of the copy, if the row is still there
SavedLink(l, ml) ==
    IF links[l] = None THEN links
    ELSE [links EXCEPT ![l].cookie = ml.cookie, ![l].live = ml.live]

Unused == {l \in Links : links[l] = None /\ uses[l] = 0 /\ \A b \in Browsers : <<b, l>> \notin seen}

\* MagicLink::create
CreateLink(usage, email) ==
    links' = [links EXCEPT ![CHOOSE l \in Unused : TRUE] = Link(usage, email)]

-----------------------------------------------------------------------------
\* Requests: a record of what the request holds, and the steps left to do

Idle == [steps |-> <<>>]
Op(steps, u, old, l, ml, pwd, key) ==
    [steps |-> steps, u |-> u, old |-> old, l |-> l, ml |-> ml, pwd |-> pwd, key |-> key]

Active(r) == req[r] # Idle
Head1(r) == IF req[r] = Idle THEN "none" ELSE Head(req[r].steps)

\* A request that overlaps another one spoils the user, and the link both work on.
Overlapping(r, l) ==
    {"user" : q \in {x \in Requests \ {r} : Active(x)}}
    \cup {l : q \in {x \in Requests \ {r} : Active(x) /\ l # None /\ req[x].l = l}}

Begin(r, op) ==
    /\ ops < MaxOps /\ ops' = ops + 1
    /\ ~Active(r)
    /\ req' = [req EXCEPT ![r] = op]
    /\ spoilt' = spoilt \cup Overlapping(r, op.l)
    /\ UNCHANGED <<uses, used>>

\* A request that changes something in one step only
Single ==
    /\ ops < MaxOps /\ ops' = ops + 1
    /\ spoilt' = spoilt \cup {"user" : r \in {x \in Requests : Active(x)}}
    /\ UNCHANGED <<req, uses, used>>

Done(r) == req' = [req EXCEPT ![r] = IF Len(req[r].steps) = 1 THEN Idle ELSE [req[r] EXCEPT !.steps = Tail(@)]]

SaveUser == <<"row", "cache">>

\* handle_get_pwd_reset
handle_get_pwd_reset(r, b, l) ==
    LET ml == links[l] IN
    /\ ml # None /\ ValidLink(ml, b, l, FALSE) /\ Find # None
    /\ byId' = Find
    /\ Begin(r, Op(<<"bind">>, None, None, l, [ml EXCEPT !.cookie = b], None, None))
    /\ UNCHANGED <<store, byEmail, pkList, webauthn, seen>>

\* handle_put_user_password_reset: the copy of the user is read first, then the
\* code is checked and deleted, then the link is read.
handle_put_user_password_reset(r, b, l, p) ==
    LET u == Find IN
    /\ u # None /\ (u.mfa => codes > 0)
    /\ byId' = u
    /\ Begin(r, Op(<<"check">>, u, None, l, b, p, None))
    /\ UNCHANGED <<store, byEmail, pkList, webauthn, seen>>

\* User::confirm_email_address
confirm_email_address(r, b, l) ==
    LET ml == links[l] u == Find IN
    /\ ml # None /\ ValidLink(ml, b, l, FALSE) /\ ml.usage = "EmailChange"
    /\ u # None
    /\ byId' = u
    /\ Begin(r, Op(<<"row", "cache", "spend">>, [u EXCEPT !.email = ml.email], u.email, l, ml, None, None))
    /\ UNCHANGED <<store, byEmail, pkList, webauthn, seen>>

\* User::request_password_reset: one link of the user is invalidated, whichever
\* the database returns.
request_password_reset(r, e) ==
    LET u == FindByEmail(e)
        usage == IF u.pwd = None /\ ~u.mfa THEN "NewUser" ELSE "PasswordReset"
        mine == {l \in Links : links[l] # None}
        op(steps, l) == Op(steps, u, None, l, IF l = None THEN None ELSE links[l], None, usage)
    IN  /\ u # None /\ account_type(u) # "Passkey" /\ Unused # {}
        /\ byEmail' = [byEmail EXCEPT ![e] = u]
        /\ \/ mine = {} /\ Begin(r, op(<<"mail">>, None))
           \/ \E l \in mine : Begin(r, op(IF links[l].live THEN <<"spend", "mail">> ELSE <<"mail">>, l))
        /\ UNCHANGED <<store, byId, pkList, webauthn, seen>>

\* User::validate_password, where it changes something: a password that has expired and
\* matches is answered with a link for a new one.
validate_password(u, p, expired) == IF u.pwd = p /\ expired THEN <<"mail">> ELSE <<>>

\* grant_type_password: times and counters of the login are saved with all of the user,
\* whether the password is the right one or not.
grant_type_password(r, e, p, expired) ==
    LET u == FindByEmail(e) IN
    /\ u # None /\ (expired => u.exp)
    /\ validate_password(u, p, expired) # <<>> => Unused # {}
    /\ byEmail' = [byEmail EXCEPT ![e] = u]
    /\ Begin(r, Op(validate_password(u, p, expired) \o SaveUser, u, None, None, None, None, "PasswordReset"))
    /\ UNCHANGED <<store, byId, pkList, webauthn, seen>>

\* User::update, by an administrator
update(r, e, p) ==
    LET u == Find IN
    /\ u # None
    /\ byId' = u
    /\ Begin(r, Op(IF p = None THEN SaveUser ELSE <<"recent">> \o SaveUser,
                   [(IF p = None THEN u ELSE WithPassword(u, p)) EXCEPT !.email = e],
                   IF e = u.email THEN None ELSE u.email, None, None, p, None))
    /\ UNCHANGED <<store, byEmail, pkList, webauthn, seen>>

\* User::update_self_req: a new password with the current one or a second factor,
\* a new address by a link
update_self_req(r, p, cur, e) ==
    LET u == Find IN
    /\ u # None /\ Unused # {}
    /\ p # None => (IF cur # None THEN u.pwd = cur ELSE codes > 0)
    /\ codes' = IF p # None /\ cur = None THEN codes - 1 ELSE codes
    /\ byId' = u
    /\ Begin(r, Op((IF e # u.email THEN <<"relink">> ELSE <<>>)
                     \o (IF p # None THEN <<"recent">> ELSE <<>>) \o SaveUser,
                   IF p = None THEN u ELSE WithPassword(u, p), None, None, e, p, None))
    /\ UNCHANGED <<store, byEmail, pkList, regs, challenge, seen>>

\* User::convert_to_passkey
convert_to_passkey(r) ==
    LET u == Find IN
    /\ u # None /\ account_type(u) = "Password" /\ u.mfa
    /\ find_for_user_with_uv # {}
    /\ byId' = u /\ pkList' = find_for_user_with_uv
    /\ Begin(r, Op(SaveUser, [u EXCEPT !.pwd = None, !.exp = FALSE], None, None, None, None, None))
    /\ UNCHANGED <<store, byEmail, webauthn, seen>>

\* User::provider_unlink
provider_unlink(r) ==
    LET u == Find IN
    /\ u # None /\ u.fed /\ (u.pwd # None \/ u.mfa)
    /\ byId' = u
    /\ Begin(r, Op(SaveUser, [u EXCEPT !.fed = FALSE], None, None, None, None, None))
    /\ UNCHANGED <<store, byEmail, pkList, webauthn, seen>>

\* webauthn::reg_start
reg_start(k) ==
    /\ Single
    /\ Find # None /\ k \notin regs \cup keys
    /\ byId' = Find
    /\ regs' = regs \cup {k}
    /\ UNCHANGED <<store, byEmail, pkList, challenge, codes, seen>>

\* For the first passkey of a new user
handle_put_user_passkey_start(b, l, k) ==
    /\ links[l] # None /\ ValidLink(links[l], b, l, TRUE)
    /\ links[l].usage = "NewUser"
    /\ reg_start(k)

\* The first passkey sets webauthn_user_id.
WithMfa(u) == [u EXCEPT !.mfa = TRUE, !.exp = @ /\ ~(u.pwd = None \/ NoExpiry)]

\* webauthn::reg_finish: the user is saved, caches included, inside a transaction
\* that ends with the new passkey.
reg_finish(r, l, k) ==
    LET u == Find IN
    /\ u # None /\ k \in regs
    /\ account_type(u) # "Password" => k \in UV
    /\ regs' = regs \ {k}
    /\ byId' = u
    /\ Begin(r, Op((IF u.mfa THEN <<>> ELSE <<"cache">>) \o <<"drop", "insert">>
                     \o (IF l # None THEN <<"spend", "refetch">> \o SaveUser ELSE <<>>),
                   IF u.mfa THEN None ELSE WithMfa(u), None, l, IF l = None THEN None ELSE links[l], None, k))
    /\ UNCHANGED <<store, byEmail, pkList, challenge, codes, seen>>

\* handle_put_user_passkey_finish goes on with the link and saves the user again; that
\* the link is for a new user was checked at the start only.
handle_put_user_passkey_finish(r, b, l, k) ==
    /\ links[l] # None /\ ValidLink(links[l], b, l, TRUE)
    /\ reg_finish(r, l, k)

IsLastNone == find_for_user = {}

\* The flag of the user goes when the list has fewer than two entries.
IsLast == Cardinality(find_for_user) < 2

\* delete_webauthn: the list is read first.
delete_webauthn(r, k) ==
    /\ pkList' = find_for_user
    /\ Begin(r, Op(IF IsLast THEN <<"drop", "unflag", "cache", "delete">> ELSE <<"drop", "delete">>,
                   None, None, None, None, None, k))
    /\ UNCHANGED <<store, byId, byEmail, webauthn, seen>>

\* webauthn::auth_start for a password change or reset
auth_start ==
    LET u == Find pks == IF account_type(u) = "Passkey" THEN find_for_user_with_uv ELSE find_for_user IN
    /\ Single
    /\ u # None /\ pks # {}
    /\ byId' = u /\ pkList' = pks
    /\ challenge' = pks
    /\ UNCHANGED <<store, byEmail, regs, codes, seen>>

\* webauthn::auth_finish: any passkey of the challenge; it is updated, and the user
\* saved, if it is still in the list.
auth_finish(r, k) ==
    LET u == Find IN
    /\ u # None /\ k \in challenge
    /\ account_type(u) = "Passkey" => k \in UV
    /\ byId' = u /\ pkList' = find_for_user
    /\ Begin(r, Op(IF k \in find_for_user THEN <<"drop", "cache", "commit", "code">> ELSE <<"code">>,
                   u, None, None, None, None, k))
    /\ UNCHANGED <<store, byEmail, webauthn, seen>>

\* User::create and create_federated: the insert, then the link of a new user.  What
\* is cached for the id of a former user, whose requests have ended, is not found.
create(e, fed) ==
    /\ Single
    /\ user = None /\ \A r \in Requests : ~Active(r)
    /\ fed \/ Unused # {}
    /\ user' = NewUser(e, fed)
    /\ IF fed THEN UNCHANGED links ELSE CreateLink("NewUser", None)
    /\ byId' = None /\ pkList' = None /\ regs' = {} /\ challenge' = {} /\ codes' = 0
    /\ UNCHANGED <<keys, recent, byEmail, seen>>

\* User::delete; links, passkeys and recent passwords go with the row.
delete(r) ==
    LET u == Find IN
    /\ u # None
    /\ Begin(r, Op(<<"remove", "forget">>, u, None, None, None, None, None))
    /\ UNCHANGED <<store, caches, webauthn, seen>>

\* user_expiry_checker: a user who expired long ago; the row is read, not a cached copy.
user_expiry_checker(r) ==
    /\ user # None
    /\ Begin(r, Op(<<"remove", "forget">>, user, None, None, None, None, None))
    /\ UNCHANGED <<store, caches, webauthn, seen>>

-----------------------------------------------------------------------------
\* The steps of the requests

\* Between the code and the recent passwords of a password reset
Check(r) ==
    LET q == req[r] ml == links[q.l] ok == ml # None /\ ValidLink(ml, q.ml, q.l, TRUE) IN
    /\ Head1(r) = "check"
    /\ codes' = IF q.u.mfa /\ codes > 0 THEN codes - 1 ELSE codes
    /\ req' = [req EXCEPT ![r] =
                 IF ok THEN Op(<<"recent", "spend">> \o SaveUser, WithPassword(q.u, q.pwd), None, q.l, ml, q.pwd, None)
                 ELSE Idle]
    /\ UNCHANGED <<store, caches, regs, challenge, seen, history>>

\* handle_get_pwd_reset saves the link and answers.
Bind(r) ==
    /\ Head1(r) = "bind"
    /\ links' = SavedLink(req[r].l, req[r].ml)
    /\ seen' = seen \cup {<<req[r].ml.cookie, req[r].l>>}
    /\ Done(r)
    /\ UNCHANGED <<user, keys, recent, caches, webauthn, history>>

\* RecentPasswordsEntity::save and create
Recent(r) ==
    LET p == req[r].pwd IN
    /\ Head1(r) = "recent"
    /\ \/ /\ Acceptable(p)
          /\ recent' = IF user = None THEN recent ELSE WithRecent(p)
          /\ Done(r)
       \/ /\ ~Acceptable(p)
          /\ req' = [req EXCEPT ![r] = Idle]
          /\ UNCHANGED recent
    /\ UNCHANGED <<user, keys, links, caches, webauthn, seen, history>>

\* MagicLink::invalidate
Spend(r) ==
    /\ Head1(r) = "spend"
    /\ links' = SavedLink(req[r].l, [req[r].ml EXCEPT !.live = FALSE])
    /\ Done(r)
    /\ UNCHANGED <<user, keys, recent, caches, webauthn, seen, history>>

\* A link that ends in the inbox
Mail(r) ==
    /\ Head1(r) = "mail" /\ Unused # {}
    /\ IF user = None THEN UNCHANGED links ELSE CreateLink(req[r].key, None)
    /\ Done(r)
    /\ UNCHANGED <<user, keys, recent, caches, webauthn, seen, history>>

\* MagicLink::invalidate_all_email_change, and the link for the new address
Relink(r) ==
    LET left == [l \in Links |-> IF links[l] # None /\ links[l].usage = "EmailChange" THEN None ELSE links[l]]
        free == {l \in Unused : left[l] = None}
    IN  /\ Head1(r) = "relink" /\ free # {}
        /\ links' = IF user = None THEN left
                    ELSE [left EXCEPT ![CHOOSE l \in free : TRUE] = Link("EmailChange", req[r].ml)]
        /\ Done(r)
        /\ UNCHANGED <<user, keys, recent, caches, webauthn, seen, history>>

Counted(q) == IF user # None /\ q.l # None THEN [uses EXCEPT ![q.l] = @ + 1] ELSE uses

\* The passwords that were accepted, when this request is through with the row
Accepted(q) == IF user # None /\ q.pwd # None THEN <<q.pwd>> \o used ELSE used

\* User::save: every column of the row.  A new address that this or another user has
\* is refused, after the new password was put among the recent ones.
Row(r) ==
    LET q == req[r] IN
    /\ Head1(r) = "row"
    /\ \/ /\ q.old # None => is_email_free(q.u.email)
          /\ user' = IF user = None THEN None ELSE q.u
          /\ uses' = Counted(q)
          /\ Done(r)
       \/ /\ q.old # None
          /\ req' = [req EXCEPT ![r] = Idle]
          /\ UNCHANGED <<user, uses>>
    /\ used' = Accepted(q)
    /\ UNCHANGED <<keys, recent, links, caches, webauthn, seen, ops, spoilt>>

CachedKeepOld(q) == [byEmail EXCEPT ![q.u.email] = q.u]

\* The copy under the old address goes.
CachedByEmail(q) == [e \in Emails |-> IF e = q.u.email THEN q.u ELSE IF e = q.old THEN None ELSE byEmail[e]]

\* The caches of User::save
Cache(r) ==
    /\ Head1(r) = "cache"
    /\ byId' = req[r].u
    /\ byEmail' = CachedByEmail(req[r])
    /\ Done(r)
    /\ UNCHANGED <<store, pkList, webauthn, seen, history>>

\* PasskeyEntity::create, delete_by_id_name and update_passkey drop the cached list
\* before the transaction commits.
Drop(r) ==
    /\ Head1(r) = "drop"
    /\ pkList' = None
    /\ Done(r)
    /\ UNCHANGED <<store, byId, byEmail, webauthn, seen, history>>

\* In delete_webauthn, the user is read after the passkey was deleted.
Unflag(r) ==
    /\ Head1(r) = "unflag" /\ Find # None
    /\ byId' = Find
    /\ req' = [req EXCEPT ![r].steps = Tail(@), ![r].u = WithoutMfa(Find)]
    /\ UNCHANGED <<store, byEmail, pkList, webauthn, seen, history>>

\* A passkey without its user violates the foreign key.
KeysAfter(q, step) ==
    CASE step = "insert" /\ user # None -> keys \cup {q.key}
      [] step = "delete" -> keys \ {q.key}
      [] OTHER -> keys

\* The transaction with a passkey inserted, deleted or updated commits.
Commit(r) ==
    LET q == req[r] IN
    /\ Head1(r) \in {"insert", "delete", "commit"}
    /\ user' = IF user = None \/ q.u = None THEN user ELSE q.u
    /\ keys' = KeysAfter(q, Head1(r))
    /\ uses' = Counted(q)
    /\ Done(r)
    /\ UNCHANGED <<recent, links, caches, webauthn, seen, ops, used, spoilt>>

\* handle_put_user_passkey_finish: "we are re-fetching the user on purpose"
Refetch(r) ==
    /\ Head1(r) = "refetch" /\ Find # None
    /\ byId' = Find
    /\ req' = [req EXCEPT ![r] = Op(SaveUser, Find, None, None, None, None, None)]
    /\ UNCHANGED <<store, byEmail, pkList, webauthn, seen, history>>

\* The answer of auth_finish carries the code of the service request.
Code(r) ==
    /\ Head1(r) = "code"
    /\ codes' = codes + 1
    /\ Done(r)
    /\ UNCHANGED <<store, caches, regs, challenge, seen, history>>

\* User::delete: the row, then the cached copies
Remove(r) ==
    /\ Head1(r) = "remove"
    /\ user' = None /\ keys' = {} /\ recent' = None /\ links' = [l \in Links |-> None]
    /\ used' = <<>>
    /\ Done(r)
    /\ UNCHANGED <<caches, webauthn, seen, ops, uses, spoilt>>

Forget(r) ==
    /\ Head1(r) = "forget"
    /\ byId' = None
    /\ byEmail' = [byEmail EXCEPT ![req[r].u.email] = None]
    /\ Done(r)
    /\ UNCHANGED <<store, pkList, webauthn, seen, history>>

\* The database or the cache fails: what was done so far stays.
Fail(r) ==
    /\ Active(r)
    /\ req' = [req EXCEPT ![r] = Idle]
    /\ spoilt' = spoilt \cup {"user"} \cup {req[r].l : q \in {x \in {r} : req[x].l # None}}
    /\ UNCHANGED <<store, caches, webauthn, seen, ops, uses, used>>

-----------------------------------------------------------------------------
\* GET /users/{id}/webauthn, time passing, and the schedulers

ListKeys ==
    /\ Single
    /\ user # None /\ pkList = None
    /\ pkList' = keys
    /\ UNCHANGED <<store, byId, byEmail, webauthn, seen>>

Expire(l) ==
    /\ ops < MaxOps /\ ops' = ops + 1
    /\ links[l] # None /\ links[l].live
    /\ links' = [links EXCEPT ![l].live = FALSE]
    /\ UNCHANGED <<user, keys, recent, caches, webauthn, seen, req, uses, used, spoilt>>

\* magic_link_cleanup: the links that expired.  Users are deleted for links that
\* expired before May 2023, which no link of a running instance did.
magic_link_cleanup ==
    /\ \E l \in Links : links[l] # None /\ ~links[l].live
    /\ links' = [l \in Links |-> IF links[l] # None /\ ~links[l].live THEN None ELSE links[l]]
    /\ UNCHANGED <<user, keys, recent, caches, webauthn, seen, req, history>>

Init ==
    /\ \E a \in InitAccounts :
        /\ user = a.user /\ keys = a.keys /\ links = a.links /\ recent = a.recent /\ seen = a.seen
        /\ used = IF a.recent = None THEN <<>> ELSE a.recent
    /\ byId = None /\ byEmail = [e \in Emails |-> None] /\ pkList = None
    /\ regs = {} /\ challenge = {} /\ codes = 0
    /\ req = [r \in Requests |-> Idle]
    /\ ops = 0
    /\ uses = [l \in Links |-> 0]
    /\ spoilt = {}

Step(r) ==
    \/ Check(r) \/ Bind(r) \/ Recent(r) \/ Spend(r) \/ Mail(r) \/ Relink(r) \/ Row(r) \/ Cache(r)
    \/ Drop(r) \/ Unflag(r) \/ Commit(r) \/ Refetch(r) \/ Code(r) \/ Remove(r) \/ Forget(r)

\* What a browser with a link can ask for
LinkRequest(r, b, l) ==
    \/ handle_get_pwd_reset(r, b, l) \/ confirm_email_address(r, b, l)
    \/ \E p \in Passwords : handle_put_user_password_reset(r, b, l, p)
    \/ \E k \in Keys : handle_put_user_passkey_start(b, l, k) \/ handle_put_user_passkey_finish(r, b, l, k)

\* By an administrator, by the new user, or at the first login with a provider
Registration == \E e \in Emails, fed \in BOOLEAN : create(e, fed)

\* What the user, or an administrator, can ask for
UserRequest(r) ==
    \/ \E e \in Emails : request_password_reset(r, e)
    \/ \E e \in Emails, p \in Passwords \cup {None} :
          update(r, e, p) \/ \E cur \in Passwords \cup {None} : update_self_req(r, p, cur, e)
    \/ \E e \in Emails, p \in Passwords, expired \in BOOLEAN : grant_type_password(r, e, p, expired)
    \/ convert_to_passkey(r) \/ provider_unlink(r) \/ delete(r)

PasskeyRequest(r) ==
    \E k \in Keys :
        \/ delete_webauthn(r, k) \/ auth_finish(r, k) \/ reg_start(k) \/ reg_finish(r, None, k)

Next ==
    \/ \E r \in Requests :
        \/ Step(r) \/ Fail(r) \/ UserRequest(r) \/ PasskeyRequest(r) \/ user_expiry_checker(r)
        \/ \E b \in Browsers, l \in Links : LinkRequest(r, b, l)
    \/ Registration
    \/ auth_start \/ ListKeys \/ magic_link_cleanup
    \/ \E l \in Links : Expire(l)

Spec == Init /\ [][Next]_vars

-----------------------------------------------------------------------------
\* No request is at work, and none ever overlapped another one or failed midway.
Quiet == "user" \notin spoilt /\ \A r \in Requests : ~Active(r)

\* The state is well-formed; an account that is gone leaves no passkeys, recent
\* passwords or links behind (foreign keys).
TypeOK ==
    /\ user \in Users \cup {None} /\ byId \in Users \cup {None}
    /\ byEmail \in [Emails -> Users \cup {None}]
    /\ keys \subseteq Keys /\ pkList \in (SUBSET Keys) \cup {None}
    /\ codes \in Nat
    /\ user = None => keys = {} /\ recent = None /\ \A l \in Links : links[l] = None
    /\ ops \in 0 .. MaxOps

\* Both cached copies of the user are the row in all but the language, under the
\* address the user has now (User::save, User::delete, confirm_email_address, and the saves inside the
\* transactions of the passkeys); nothing is left of a user who is gone.
CopiesAgree ==
    /\ TypeOK
    /\ Quiet => /\ byId \in {None, user}
                /\ \A e \in Emails : byEmail[e] # None => byEmail[e] = user /\ user.email = e

\* A user who must show a passkey has one (delete_webauthn decides by a list it
\* read before, which is cached by two functions).
MfaHasKey == Quiet /\ user # None => (user.mfa => keys # {})

\* A password expires, unless passkeys lift that, through every order of setting
\* passwords and adding, deleting and converting to passkeys, also of requests that
\* overlap or fail: each writes a whole row that follows the policy
\* (apply_password_rules, reg_finish, delete_webauthn, convert_to_passkey).
ExpiryFollowsPolicy == user # None => Policy(user)

\* A magic link changes the account at most once, be it the password, the address or
\* a first passkey, unless two of its requests overlapped or one failed midway: the
\* GET writes the whole link back, and only its expiry marks it as used.
LinkOneShot == \A l \in Links : l \notin spoilt => uses[l] <= 1

\* No password is accepted again while it is one of the RecentReq - 1 last accepted
\* ones.  One whose save was refused for its address counts although the row never had
\* it (apply_password_rules, User::save, for resets and updates by the user or an
\* administrator).
NotReused == Quiet => Unrepeated(used)
=============================================================================
