--------------------------- MODULE UpstreamProofs ---------------------------
(***************************************************************************)
(* Proofs about Upstream, for any requests, users, providers and claims.   *)
(*                                                                         *)
(* Links: a row, a cached copy or a copy a request works on is linked only *)
(* with consent, and so is what a link cookie names; consent is never      *)
(* taken back, so every order of reads and saves keeps that.               *)
(*                                                                         *)
(* Administrators: for a user no two requests worked on at a time, there   *)
(* is one request at most that has a copy.  Until it saves, the row and    *)
(* the caches agree; while it writes the caches, the copy is what agrees   *)
(* with the row, and the stale copies are under the id and the addresses   *)
(* that are still to be overwritten.  A request that ends there because a  *)
(* cache failed marks the user as spoilt.                                  *)
(*                                                                         *)
(* Codes: a login that has a copy has one that is linked to its provider.  *)
(***************************************************************************)
EXTENDS Upstream, TLAPS

Copies == [id : Users, row : Row_]
CallbackData == [prov : Providers, by : Browsers]
LinkData == [prov : Providers, user : Users, email : Emails]

\* What may be left to do: of a login, and of the other requests
LoginSteps ==
    {<<"token">>, <<"user">>, <<"insert", "code">>, <<"row", "old", "id", "mail", "code">>,
     <<"old", "id", "mail", "code">>, <<"id", "mail", "code">>, <<"mail", "code">>, <<"code">>}
OtherSteps == {<<"row", "old", "id", "mail">>, <<"old", "id", "mail">>, <<"id", "mail">>, <<"mail">>}
NoCopySteps == {<<"token">>, <<"user">>, <<"insert", "code">>}

Work == [steps : LoginSteps \cup OtherSteps, x : Copies \cup {None}, old : Emails \cup {None}, sets : BOOLEAN, role : BOOLEAN,
         b : Browsers \cup {None}, cb : Callbacks \cup {None}, c : CallbackData \cup {None},
         claims : Claims \cup {None}, link : LinkData \cup {None}]

\* A request has what its remaining steps use.
Prepared(q) ==
    /\ q.steps \in LoginSteps => q.b \in Browsers /\ q.cb \in Callbacks /\ q.c \in CallbackData
    /\ q.steps \in LoginSteps \ {<<"token">>} => q.claims \in Claims
    /\ q.steps \in OtherSteps => q.c = None
    /\ q.x = None <=> q.steps \in NoCopySteps
    /\ q.steps \in LoginSteps \ NoCopySteps => q.x.row.prov = q.c.prov

ShapeInv ==
    /\ users \in [Users -> Row_ \cup {None}]
    /\ byId \in [Users -> Copies \cup {None}] /\ \A u \in Users : byId[u] # None => byId[u].id = u
    /\ byEmail \in [Emails -> Copies \cup {None}] /\ \A e \in Emails : byEmail[e] # None => byEmail[e].row.email = e
    /\ providers \subseteq Providers
    /\ callbacks \in [Callbacks -> CallbackData \cup {None}]
    /\ upCookie \in [Browsers -> Callbacks \cup {None}]
    /\ linkCookie \in [Browsers -> LinkData \cup {None}]
    /\ req \in [Requests -> Work \cup {Idle}]
    /\ \A r \in Requests : Active(r) => Prepared(req[r])
    /\ decided \in [Users -> BOOLEAN]

\* A copy that is linked has the consent of its user, and so has a link cookie.
LinkedCopy(x) == x # None /\ x.row.prov # None => <<x.id, x.row.prov>> \in consent
AskedFor(l) == l # None => <<l.user, l.prov>> \in consent

LinkInv ==
    /\ LinkedByConsent
    /\ \A u \in Users : LinkedCopy(byId[u])
    /\ \A e \in Emails : LinkedCopy(byEmail[e])
    /\ \A b \in Browsers : AskedFor(linkCookie[b])
    /\ \A r \in Requests : Active(r) => LinkedCopy(req[r].x) /\ AskedFor(req[r].link)

\* There are only copies of users who exist.
AliveInv ==
    /\ \A u \in Users : byId[u] # None => users[u] # None
    /\ \A e \in Emails : byEmail[e] # None => users[byEmail[e].id] # None
    /\ \A r \in Requests : Active(r) /\ req[r].x # None => users[req[r].x.id] # None

At(r, u, step) == WorksOn(r, u) /\ Head(req[r].steps) = step
Caching(r, u) == WorksOn(r, u) /\ Head(req[r].steps) \in {"old", "id", "mail"}

Current(x, u) == x.row.admin = decided[u] /\ x.row.email = users[u].email

\* A request decides the role: that of its copy, or none.
Decides(q) == q.sets /\ q.role = q.x.row.admin
LeavesRole(q) == ~q.sets

\* What a request that is about to save will have decided
Decision(q, u) == IF q.sets THEN q.role ELSE decided[u]

\* The addresses that may have a stale copy while the caches are written
Places(q) == IF Head(q.steps) = "old" THEN {q.x.row.email, q.old} ELSE {q.x.row.email}

\* A user no two requests worked on at a time
SoleInv(u) ==
    /\ \A q, r \in Requests : WorksOn(q, u) /\ WorksOn(r, u) => q = r
    /\ users[u] # None => users[u].admin = decided[u]
    /\ \A r \in Requests : At(r, u, "row") =>
         /\ req[r].x.row.admin = Decision(req[r], u)
         /\ users[u].email = IF req[r].old = None THEN req[r].x.row.email ELSE req[r].old
    /\ \A r \in Requests : Caching(r, u) =>
         /\ Current(req[r].x, u)
         /\ \A e \in Emails : byEmail[e] # None /\ byEmail[e].id = u => e \in Places(req[r])
    /\ \A r \in Requests : At(r, u, "mail") /\ byId[u] # None => Current(byId[u], u)
    /\ (\A r \in Requests : ~Caching(r, u)) =>
         /\ byId[u] # None => Current(byId[u], u)
         /\ \A e \in Emails : byEmail[e] # None /\ byEmail[e].id = u => Current(byEmail[e], u)

AdminInv == \A u \in Users \ spoilt : SoleInv(u)

\* A callback a check failed for is gone.
DeadInv == \A cb \in bad : callbacks[cb] = None

IInv == ShapeInv /\ LinkInv /\ AliveInv /\ AdminInv /\ DeadInv /\ CodesByConsent

-----------------------------------------------------------------------------
\* What comes first of the steps left to do
LEMMA Heads ==
    \A s \in LoginSteps \cup OtherSteps :
        /\ s # <<>>
        /\ Head(s) # "none"
        /\ Head(s) = "token" <=> s = <<"token">>
        /\ Head(s) = "user" <=> s = <<"user">>
        /\ Head(s) = "insert" <=> s = <<"insert", "code">>
        /\ Head(s) = "row" <=> s \in {<<"row", "old", "id", "mail", "code">>, <<"row", "old", "id", "mail">>}
        /\ Head(s) = "old" <=> s \in {<<"old", "id", "mail", "code">>, <<"old", "id", "mail">>}
        /\ Head(s) = "id" <=> s \in {<<"id", "mail", "code">>, <<"id", "mail">>}
        /\ Head(s) = "mail" <=> s \in {<<"mail", "code">>, <<"mail">>}
        /\ Head(s) = "code" <=> s = <<"code">>
<1>1. /\ Head(<<"token">>) = "token" /\ Head(<<"user">>) = "user" /\ Head(<<"insert", "code">>) = "insert"
      /\ Head(<<"row", "old", "id", "mail", "code">>) = "row" /\ Head(<<"row", "old", "id", "mail">>) = "row"
      /\ Head(<<"old", "id", "mail", "code">>) = "old" /\ Head(<<"old", "id", "mail">>) = "old"
      /\ Head(<<"id", "mail", "code">>) = "id" /\ Head(<<"id", "mail">>) = "id"
      /\ Head(<<"mail", "code">>) = "mail" /\ Head(<<"mail">>) = "mail" /\ Head(<<"code">>) = "code"
  OBVIOUS
<1>2. \A s \in LoginSteps \cup OtherSteps : s # <<>>
  BY DEF LoginSteps, OtherSteps
<1> QED BY <1>1, <1>2, Zenon DEF LoginSteps, OtherSteps

\* What is left after a step
LEMMA Tails ==
    /\ Save = <<"row", "old", "id", "mail">>
    /\ Tail(<<"insert", "code">>) = <<"code">>
    /\ Tail(<<"row", "old", "id", "mail", "code">>) = <<"old", "id", "mail", "code">>
    /\ Tail(<<"row", "old", "id", "mail">>) = <<"old", "id", "mail">>
    /\ Tail(<<"old", "id", "mail", "code">>) = <<"id", "mail", "code">>
    /\ Tail(<<"old", "id", "mail">>) = <<"id", "mail">>
    /\ Tail(<<"id", "mail", "code">>) = <<"mail", "code">>
    /\ Tail(<<"id", "mail">>) = <<"mail">>
    /\ Tail(<<"mail", "code">>) = <<"code">>
    /\ Len(<<"mail", "code">>) = 2 /\ Len(<<"mail">>) = 1
<1>2. Tail(<<"row", "old", "id", "mail", "code">>) = <<"old", "id", "mail", "code">>
  OBVIOUS
<1>3. Tail(<<"row", "old", "id", "mail">>) = <<"old", "id", "mail">>
  OBVIOUS
<1>4. Tail(<<"old", "id", "mail", "code">>) = <<"id", "mail", "code">>
  OBVIOUS
<1>5. Tail(<<"old", "id", "mail">>) = <<"id", "mail">> /\ Tail(<<"id", "mail", "code">>) = <<"mail", "code">>
  OBVIOUS
<1>6. /\ Tail(<<"insert", "code">>) = <<"code">> /\ Tail(<<"id", "mail">>) = <<"mail">>
      /\ Tail(<<"mail", "code">>) = <<"code">>
      /\ Len(<<"mail", "code">>) = 2 /\ Len(<<"mail">>) = 1
  OBVIOUS
<1> QED BY <1>2, <1>3, <1>4, <1>5, <1>6, Zenon DEF Save

\* Which steps are of a login, and which come before there is a copy of a user
LEMMA KindsOfSteps ==
    /\ \A s \in {<<"token">>, <<"user">>, <<"insert", "code">>} : s \in LoginSteps /\ s \notin OtherSteps /\ s \in NoCopySteps
    /\ \A s \in {<<"row", "old", "id", "mail", "code">>, <<"old", "id", "mail", "code">>, <<"id", "mail", "code">>,
                <<"mail", "code">>, <<"code">>} :
          s \in LoginSteps /\ s \notin OtherSteps /\ s \notin NoCopySteps
    /\ \A s \in {<<"row", "old", "id", "mail">>, <<"old", "id", "mail">>, <<"id", "mail">>, <<"mail">>} :
          s \notin LoginSteps /\ s \in OtherSteps /\ s \notin NoCopySteps
    /\ \A s \in (LoginSteps \cup OtherSteps) \ {<<"token">>} : s # <<"token">>
    /\ <<"user">> # <<"token">> /\ <<"insert", "code">> # <<"token">> /\ <<"code">> # <<"token">>
    /\ <<"mail">> # <<"token">> /\ <<"mail", "code">> # <<"token">>
BY DEF LoginSteps, OtherSteps, NoCopySteps

\* From one step of User::save to the next
LEMMA SaveSteps ==
    ASSUME NEW s \in LoginSteps \cup OtherSteps, Head(s) \in {"row", "old", "id"}
    PROVE  /\ Tail(s) \in LoginSteps \cup OtherSteps
           /\ s \notin NoCopySteps /\ Tail(s) \notin NoCopySteps /\ s # <<"token">> /\ Tail(s) # <<"token">>
           /\ Tail(s) \in LoginSteps <=> s \in LoginSteps
           /\ Tail(s) \in OtherSteps <=> s \in OtherSteps
           /\ Head(Tail(s)) = IF Head(s) = "row" THEN "old" ELSE IF Head(s) = "old" THEN "id" ELSE "mail"
<1>1. s \in {<<"row", "old", "id", "mail", "code">>, <<"row", "old", "id", "mail">>, <<"old", "id", "mail", "code">>,
             <<"old", "id", "mail">>, <<"id", "mail", "code">>, <<"id", "mail">>}
  BY Heads
<1>2. CASE s = <<"row", "old", "id", "mail", "code">>
  BY <1>2, Tails DEF LoginSteps, OtherSteps, NoCopySteps
<1>3. CASE s = <<"row", "old", "id", "mail">>
  BY <1>3, Tails DEF LoginSteps, OtherSteps, NoCopySteps
<1>4. CASE s = <<"old", "id", "mail", "code">>
  BY <1>4, Tails DEF LoginSteps, OtherSteps, NoCopySteps
<1>5. CASE s = <<"old", "id", "mail">>
  BY <1>5, Tails DEF LoginSteps, OtherSteps, NoCopySteps
<1>6. CASE s = <<"id", "mail", "code">>
  BY <1>6, Tails DEF LoginSteps, OtherSteps, NoCopySteps
<1>7. CASE s = <<"id", "mail">>
  BY <1>7, Tails DEF LoginSteps, OtherSteps, NoCopySteps
<1> QED BY <1>1, <1>2, <1>3, <1>4, <1>5, <1>6, <1>7

\* A request that has work to do is not idle.
LEMMA WorkNotIdle == \A w \in Work : w # Idle
<1> SUFFICES ASSUME NEW w \in Work, w = Idle PROVE FALSE
  OBVIOUS
<1>1. w.steps \in LoginSteps \cup OtherSteps
  BY DEF Work
<1>2. w.steps = <<>>
  BY DEF Idle
<1> QED BY <1>1, <1>2, Heads

\* A request that is at a step has what the step uses.
LEMMA AtStep ==
    ASSUME ShapeInv, NEW r \in Requests, Head1(r) # "none"
    PROVE  /\ Active(r) /\ req[r] \in Work /\ Prepared(req[r])
           /\ Head1(r) = Head(req[r].steps)
           /\ req[r].steps \in LoginSteps \cup OtherSteps
<1>1. Active(r)
  BY DEF Head1
<1>2. req[r] \in Work
  BY <1>1 DEF ShapeInv, Active
<1> QED BY <1>1, <1>2 DEF ShapeInv, Head1, Work

\* The reads of a user give a copy of the user they are for.
LEMMA FindType ==
    ASSUME ShapeInv, NEW u \in Users, Find(u) # None
    PROVE  Find(u) \in Copies /\ Find(u).id = u
<1>1. CASE byId[u] # None
  BY <1>1 DEF ShapeInv, Find
<1>2. CASE byId[u] = None
  BY <1>2 DEF ShapeInv, Find, Copy, Copies
<1> QED BY <1>1, <1>2

\* What User::find_by_email returns is a copy under its address.
LEMMA FindByEmailType ==
    ASSUME ShapeInv, NEW e \in Emails, FindByEmail(e) # None
    PROVE  FindByEmail(e) \in Copies /\ FindByEmail(e).row.email = e
<1>1. CASE byEmail[e] # None
  BY <1>1 DEF ShapeInv, FindByEmail
<1>2. CASE byEmail[e] = None
  <2> DEFINE us == {u \in Users : users[u] # None /\ users[u].email = e}
             v == CHOOSE u \in us : TRUE
  <2>1. us # {} /\ FindByEmail(e) = Copy(v)
    BY <1>2 DEF FindByEmail
  <2>2. v \in us
    BY <2>1
  <2> HIDE DEF v
  <2>3. v \in Users /\ users[v] \in Row_ /\ users[v].email = e /\ Copy(v) = [id |-> v, row |-> users[v]]
    BY <2>2 DEF Copy, ShapeInv
  <2> QED BY <2>1, <2>3 DEF Copies
<1> QED BY <1>1, <1>2

\* What User::find_by_federation returns is a row of the table.
LEMMA FederationType ==
    ASSUME ShapeInv, NEW p, NEW uid, find_by_federation(p, uid) # None
    PROVE  LET x == find_by_federation(p, uid)
           IN  x \in Copies /\ users[x.id] # None /\ x.row = users[x.id] /\ x.row.prov = p
<1> DEFINE us == {u \in Users : users[u] # None /\ users[u].prov = p /\ users[u].uid = uid}
           v == CHOOSE u \in us : TRUE
<1>1. us # {} /\ find_by_federation(p, uid) = Copy(v)
  BY DEF find_by_federation
<1>2. v \in us
  BY <1>1
<1> HIDE DEF v
<1>3. v \in Users /\ users[v] # None /\ users[v] \in Row_ /\ users[v].prov = p /\ Copy(v) = [id |-> v, row |-> users[v]]
  BY <1>2 DEF Copy, ShapeInv
<1> QED BY <1>1, <1>3 DEF Copies

\* The copy that login_finish saves
LEMMA UpdatedType ==
    ASSUME NEW x \in Copies, NEW p \in Providers, NEW c \in Claims
    PROVE  /\ Updated(x, p, c) \in Copies
           /\ Updated(x, p, c).id = x.id
           /\ Updated(x, p, c).row.prov = p
           /\ Updated(x, p, c).row.email = c.email
           /\ Updated(x, p, c).row.admin = ShouldBeAdmin(x.row, p, c)
<1>1. c.uid \in Uids /\ c.email \in Emails /\ c.admin \in BOOLEAN
  BY ConstantsOK
<1>2. x.row \in Row_ /\ x.id \in Users
  BY DEF Copies
<1>3. ShouldBeAdmin(x.row, p, c) \in BOOLEAN
  BY <1>1, <1>2 DEF ShouldBeAdmin, Row_
<1> DEFINE a == ShouldBeAdmin(x.row, p, c)
<1> HIDE DEF a
<1>4. Updated(x, p, c) = [x EXCEPT !.row = [x.row EXCEPT !.prov = p, !.uid = c.uid, !.email = c.email, !.admin = a]]
  BY DEF Updated, a, Copies
<1>5. [x.row EXCEPT !.prov = p, !.uid = c.uid, !.email = c.email, !.admin = a] \in Row_
  BY <1>1, <1>2, <1>3 DEF Row_, a
<1> QED BY <1>1, <1>2, <1>4, <1>5 DEF Copies, a, Row_

\* The next-state relation, action by action
LEMMA Actions ==
    ASSUME Next
    PROVE  \/ \E b \in Browsers, p \in Providers : login_start(b, p)
           \/ \E b \in Browsers, p \in Providers, q \in Providers : post_provider_link(b, q, p)
           \/ \E b \in Browsers, state \in Callbacks, wrong \in BOOLEAN : RejectFinish(b, state, wrong)
           \/ \E r \in Requests, b \in Browsers : login_finish(r, b)
           \/ \E r \in Requests, u \in Users : provider_unlink(r, u)
           \/ \E r \in Requests, u \in Users, e \in Emails, admin \in BOOLEAN : update(r, u, e, admin)
           \/ \E r \in Requests : Token(r)
           \/ \E r \in Requests : validate_update_user(r)
           \/ \E r \in Requests : Insert(r)
           \/ \E r \in Requests : Row(r)
           \/ \E r \in Requests : CacheOld(r) \/ CacheId(r) \/ CacheEmail(r)
           \/ \E r \in Requests : CacheFails(r)
           \/ \E r \in Requests : Code(r)
           \/ \E p \in Providers : delete_provider(p)
           \/ \E cb \in Callbacks : Timeout(cb)
BY DEF Next, BrowserRequest, Step

-----------------------------------------------------------------------------
\* What the steps of a request leave in the request

\* The record a request ends up with, if it goes on
Goes(r, w) == w \in Work /\ Prepared(w) /\ req' = [req EXCEPT ![r] = w]
Ends(r) == req' = [req EXCEPT ![r] = Idle]

\* The answer of the provider: claims, or the end of the login.
LEMMA TokenEffect ==
    ASSUME ShapeInv, NEW r \in Requests, Token(r)
    PROVE  \/ Ends(r)
           \/ \E w : Goes(r, w) /\ w.steps = <<"user">> /\ w.x = None /\ w.link = req[r].link
<1>1. Head1(r) = "token"
  BY DEF Token
<1>2. req[r] \in Work /\ Prepared(req[r]) /\ req[r].steps = <<"token">>
  BY <1>1, AtStep, Heads
<1>3. CASE Abort(r)
  BY <1>3 DEF Abort, Ends
<1>4. CASE \E c \in Claims : req' = [req EXCEPT ![r].steps = <<"user">>, ![r].claims = c]
  <2> PICK c \in Claims : req' = [req EXCEPT ![r].steps = <<"user">>, ![r].claims = c]
    BY <1>4
  <2> DEFINE w == [req[r] EXCEPT !.steps = <<"user">>, !.claims = c]
  <2>1. req' = [req EXCEPT ![r] = w]
    BY DEF ShapeInv
  <2>2. w \in Work
    BY <1>2 DEF Work, LoginSteps
  <2>3. /\ w.steps = <<"user">> /\ w.x = req[r].x /\ w.link = req[r].link /\ w.b = req[r].b
        /\ w.cb = req[r].cb /\ w.c = req[r].c /\ w.claims = c
    BY <1>2 DEF Work
  <2> HIDE DEF w
  <2>4. w.x = None /\ Prepared(w)
    BY <1>2, <2>3, KindsOfSteps DEF Prepared
  <2> QED BY <2>1, <2>2, <2>3, <2>4 DEF Goes
<1> QED BY <1>3, <1>4 DEF Token

\* The copy y that a login found, and what it makes of it
Found(r, y) ==
    LET q == req[r] p == req[r].c.prov IN
    \/ y = find_by_federation(p, q.claims.uid) /\ y # None
    \/ y = FindByEmail(q.claims.email) /\ y # None /\ LinkAllowed(q.link, y, p)

\* validate_update_user: a new user is to be inserted, a copy of a user to be saved, or the login ends.
LEMMA ValidateEffect ==
    ASSUME ShapeInv, NEW r \in Requests, validate_update_user(r)
    PROVE  /\ req[r] \in Work /\ req[r].c \in CallbackData /\ req[r].claims \in Claims /\ req[r].x = None /\ Active(r)
           /\ \/ Ends(r) /\ spoilt' = spoilt
              \/ \E w : /\ Goes(r, w) /\ w.steps = <<"insert", "code">> /\ w.x = None /\ w.link = req[r].link
                        /\ spoilt' = spoilt
              \/ \E w, y :
                   /\ Goes(r, w) /\ w.steps = <<"row", "old", "id", "mail", "code">> /\ w.link = req[r].link
                   /\ w.sets = (req[r].c.prov \in AdminMapped) /\ w.role = req[r].claims.admin
                   /\ y \in Copies /\ Found(r, y)
                   /\ w.x = Updated(y, req[r].c.prov, req[r].claims)
                   /\ w.old = OldEmail(y, req[r].claims.email)
                   /\ Spoil(r, y)
<1> DEFINE q == req[r] p == req[r].c.prov c == req[r].claims
           fed == find_by_federation(p, c.uid)
           mail == FindByEmail(c.email)
           x == IF fed # None THEN fed ELSE mail
           old == OldEmail(x, c.email)
<1>1. Head1(r) = "user"
  BY DEF validate_update_user
<1>2. Active(r) /\ q \in Work /\ Prepared(q) /\ q.steps = <<"user">>
  BY <1>1, AtStep, Heads
<1>3. q.c \in CallbackData /\ c \in Claims /\ q.x = None /\ q.b \in Browsers /\ q.cb \in Callbacks
  BY <1>2, KindsOfSteps DEF Prepared
<1>4. p \in Providers /\ c.email \in Emails
  BY <1>3, ConstantsOK DEF CallbackData
<1> HIDE DEF p, c
<1>5. CASE Abort(r) /\ UNCHANGED spoilt
  BY <1>2, <1>3, <1>5 DEF Abort, Ends, c
<1>6. CASE /\ req' = [req EXCEPT ![r].steps = <<"insert", "code">>]
           /\ UNCHANGED spoilt
  <2> DEFINE w == [req[r] EXCEPT !.steps = <<"insert", "code">>]
  <2>1. req' = [req EXCEPT ![r] = w]
    BY <1>6 DEF ShapeInv
  <2>2. w \in Work
    BY <1>2 DEF Work, LoginSteps
  <2>3. /\ w.steps = <<"insert", "code">> /\ w.x = q.x /\ w.link = q.link /\ w.b = q.b
        /\ w.cb = q.cb /\ w.c = q.c /\ w.claims = c
    BY <1>2 DEF Work, c
  <2> HIDE DEF w
  <2>4. Prepared(w)
    BY <1>3, <2>3, KindsOfSteps DEF Prepared
  <2> QED BY <1>2, <1>3, <1>6, <2>1, <2>2, <2>3, <2>4 DEF Goes, c
<1>7. CASE /\ fed # None \/ (mail # None /\ LinkAllowed(q.link, mail, p))
           /\ req' = [req EXCEPT ![r].steps = <<"row", "old", "id", "mail", "code">>, ![r].x = Updated(x, p, c), ![r].old = old,
                                 ![r].sets = p \in AdminMapped, ![r].role = c.admin]
           /\ Spoil(r, x)
  <2>1. x # None /\ x \in Copies /\ Found(r, x)
    BY <1>4, <1>7, FederationType, FindByEmailType DEF Found, c, p
  <2> HIDE DEF x
  <2>2. Updated(x, p, c) \in Copies
    BY <1>3, <1>4, <2>1, UpdatedType
  <2>3. old \in Emails \cup {None}
    BY <2>1 DEF Copies, Row_, OldEmail
  <2> HIDE DEF old
  <2> DEFINE sets == p \in AdminMapped
             w == [req[r] EXCEPT !.steps = <<"row", "old", "id", "mail", "code">>, !.x = Updated(x, p, c), !.old = old,
                                 !.sets = sets, !.role = c.admin]
  <2>a. sets \in BOOLEAN /\ c.admin \in BOOLEAN
    BY <1>3, ConstantsOK
  <2>4. req' = [req EXCEPT ![r] = w]
    BY <1>7, Tails DEF ShapeInv
  <2> HIDE DEF sets
  <2>5. w \in Work
    BY <1>2, <2>a, <2>2, <2>3 DEF Work, LoginSteps
  <2>6. /\ w.steps = <<"row", "old", "id", "mail", "code">> /\ w.x = Updated(x, p, c) /\ w.link = q.link /\ w.b = q.b
        /\ w.cb = q.cb /\ w.c = q.c /\ w.claims = c /\ w.old = old /\ w.sets = sets /\ w.role = c.admin
    BY <1>2 DEF Work, c
  <2> HIDE DEF w
  <2>7. Updated(x, p, c) # None /\ Updated(x, p, c).row.prov = q.c.prov
    <3>1. Updated(x, p, c).row.prov = p
      BY <1>3, <1>4, <2>1, UpdatedType
    <3> QED BY <2>2, <3>1, ConstantsOK DEF Copies, p
  <2>8. Prepared(w)
    BY <1>3, <2>6, <2>7, KindsOfSteps DEF Prepared
  <2>9. Goes(r, w)
    BY <2>4, <2>5, <2>8 DEF Goes
  <2> QED BY <1>2, <1>3, <1>7, <2>1, <2>6, <2>9 DEF c, p, old, sets
<1> QED BY <1>5, <1>6, <1>7 DEF validate_update_user, c, p

\* Nobody has a copy of the user that is inserted.
Inserts(r, u, w) ==
    /\ users[u] = None /\ byId[u] = None /\ \A v \in Requests : ~WorksOn(v, u)
    /\ w.x.id = u /\ w.x.row \in Row_ /\ <<u, w.x.row.prov>> \in consent'
    /\ users' = [users EXCEPT ![u] = w.x.row]
    /\ consent \subseteq consent'
    /\ decided' = [decided EXCEPT ![u] = w.x.row.admin]
    /\ Goes(r, w) /\ w.steps = <<"code">> /\ w.link = req[r].link

\* A new user is inserted, linked to the provider of the login, or the login ends.
LEMMA InsertEffect ==
    ASSUME ShapeInv, NEW r \in Requests, Insert(r)
    PROVE  /\ Active(r) /\ req[r] \in Work /\ req[r].x = None
           /\ \/ Ends(r) /\ UNCHANGED <<users, consent, decided>>
              \/ \E u \in Users, w \in Work : Inserts(r, u, w)
<1> DEFINE q == req[r]
           new == NewUser(q.c.prov, q.claims)
           free == {u \in Users : users[u] = None /\ byId[u] = None /\ \A v \in Requests : ~WorksOn(v, u)}
           u == CHOOSE x \in free : TRUE
<1>1. Head1(r) = "insert" /\ free # {}
  BY DEF Insert
<1>2. Active(r) /\ q \in Work /\ Prepared(q) /\ q.steps = <<"insert", "code">>
  BY <1>1, AtStep, Heads
<1>3. q.c \in CallbackData /\ q.claims \in Claims /\ q.x = None /\ q.b \in Browsers /\ q.cb \in Callbacks
  BY <1>2, KindsOfSteps DEF Prepared
<1>4. u \in free
  BY <1>1
<1> HIDE DEF u
<1>5. new \in Row_ /\ new.prov = q.c.prov
  <2>1. q.c.prov \in Providers
    BY <1>3 DEF CallbackData
  <2>2. q.claims.uid \in Uids /\ q.claims.email \in Emails /\ q.claims.admin \in BOOLEAN
    BY <1>3, ConstantsOK
  <2> QED BY <2>1, <2>2 DEF NewUser, Row_
<1> HIDE DEF new
<1>6. CASE Abort(r) /\ UNCHANGED <<users, consent, decided>>
  BY <1>2, <1>3, <1>6 DEF Abort, Ends
<1>7. CASE /\ users' = [users EXCEPT ![u] = new]
           /\ consent' = consent \cup {<<u, q.c.prov>>}
           /\ decided' = [decided EXCEPT ![u] = new.admin]
           /\ req' = [req EXCEPT ![r].steps = Tail(@), ![r].x = [id |-> u, row |-> new]]
  <2> DEFINE x == [id |-> u, row |-> new]
             w == [req[r] EXCEPT !.steps = <<"code">>, !.x = x]
  <2>1. x \in Copies
    BY <1>4, <1>5 DEF Copies
  <2>2. x.id = u /\ x.row = new
    OBVIOUS
  <2>3. req' = [req EXCEPT ![r] = w]
    <3>1. Tail(req[r].steps) = <<"code">>
      BY <1>2, Tails
    <3> QED BY <1>7, <3>1 DEF ShapeInv
  <2> HIDE DEF x
  <2>4. w \in Work
    BY <1>2, <2>1 DEF Work, LoginSteps
  <2>5. /\ w.steps = <<"code">> /\ w.x = x /\ w.link = q.link /\ w.b = q.b
        /\ w.cb = q.cb /\ w.c = q.c /\ w.claims = q.claims
    BY <1>2 DEF Work
  <2> HIDE DEF w
  <2>6. Prepared(w)
    <3>1. w.x # None
      BY <2>1, <2>5, ConstantsOK DEF Copies
    <3>2. w.x.row.prov = w.c.prov
      BY <1>5, <2>2, <2>5
    <3> QED BY <1>3, <2>5, <3>1, <3>2, KindsOfSteps DEF Prepared
  <2>7. Goes(r, w)
    BY <2>3, <2>4, <2>6 DEF Goes
  <2>8. w.x.id = u /\ w.x.row = new
    BY <2>2, <2>5
  <2>9. <<u, w.x.row.prov>> \in consent' /\ consent \subseteq consent'
    BY <1>5, <1>7, <2>8
  <2>10. u \in Users /\ users[u] = None /\ byId[u] = None /\ \A v \in Requests : ~WorksOn(v, u)
    BY <1>4
  <2>11. Inserts(r, u, w)
    BY <1>5, <1>7, <2>5, <2>7, <2>8, <2>9, <2>10 DEF Inserts
  <2> QED BY <1>2, <1>3, <2>4, <2>10, <2>11
<1> QED BY <1>6, <1>7 DEF Insert, u, new

\* A request that goes on with its next step keeps what it has.
LEMMA NextStep ==
    ASSUME ShapeInv, NEW r \in Requests, req[r] \in Work, Prepared(req[r]), NEW s \in LoginSteps \cup OtherSteps,
           req' = [req EXCEPT ![r].steps = s], req[r].steps \notin NoCopySteps, s \notin NoCopySteps,
           req[r].steps # <<"token">>, s # <<"token">>,
           s \in LoginSteps <=> req[r].steps \in LoginSteps, s \in OtherSteps <=> req[r].steps \in OtherSteps
    PROVE  \E w : /\ Goes(r, w) /\ w.steps = s /\ w.x = req[r].x /\ w.link = req[r].link /\ w.old = req[r].old
<1> DEFINE q == req[r]
           w == [req[r] EXCEPT !.steps = s]
<1>1. req' = [req EXCEPT ![r] = w]
  BY DEF ShapeInv
<1>2. w \in Work
  BY DEF Work
<1>3. /\ w.steps = s /\ w.x = q.x /\ w.link = q.link /\ w.b = q.b /\ w.old = q.old
      /\ w.cb = q.cb /\ w.c = q.c /\ w.claims = q.claims
  BY DEF Work
<1> HIDE DEF w
<1>4. Prepared(w)
  BY <1>3 DEF Prepared
<1> QED BY <1>1, <1>2, <1>3, <1>4 DEF Goes

\* User::save writes the row, or the address is taken.
LEMMA RowEffect ==
    ASSUME ShapeInv, NEW r \in Requests, Row(r)
    PROVE  /\ Active(r) /\ req[r] \in Work /\ Prepared(req[r]) /\ req[r].x \in Copies
           /\ Head(req[r].steps) = "row"
           /\ \/ Ends(r) /\ UNCHANGED <<users, decided>>
              \/ \E w :
                   /\ Goes(r, w) /\ w.x = req[r].x /\ w.link = req[r].link /\ w.old = req[r].old
                   /\ Head(w.steps) = IF w.old = None THEN "id" ELSE "old"
                   /\ users' = IF users[w.x.id] = None THEN users ELSE [users EXCEPT ![w.x.id] = w.x.row]
                   /\ decided' = [decided EXCEPT ![w.x.id] = Decision(req[r], w.x.id)]
<1> DEFINE q == req[r]
<1>1. Head1(r) = "row"
  BY DEF Row
<1>2. /\ Active(r) /\ q \in Work /\ Prepared(q) /\ Head(q.steps) = "row"
      /\ q.steps \in LoginSteps \cup OtherSteps
  BY <1>1, AtStep
<1>3. q.x \in Copies
  BY <1>2, SaveSteps DEF Prepared, Work
<1>4. CASE Abort(r) /\ UNCHANGED <<users, decided>>
  BY <1>2, <1>3, <1>4 DEF Abort, Ends
<1>5. CASE /\ users' = IF users[q.x.id] = None THEN users ELSE [users EXCEPT ![q.x.id] = q.x.row]
           /\ decided' = IF q.sets THEN [decided EXCEPT ![q.x.id] = q.role] ELSE decided
           /\ req' = [req EXCEPT ![r].steps = IF q.old = None THEN Tail(Tail(@)) ELSE Tail(@)]
  <2> DEFINE s == IF q.old = None THEN Tail(Tail(q.steps)) ELSE Tail(q.steps)
  <2>1. /\ s \in LoginSteps \cup OtherSteps /\ Head(s) = (IF q.old = None THEN "id" ELSE "old")
        /\ s \in LoginSteps <=> q.steps \in LoginSteps
        /\ s \in OtherSteps <=> q.steps \in OtherSteps
        /\ s # <<"token">> /\ q.steps # <<"token">> /\ s \notin NoCopySteps /\ q.steps \notin NoCopySteps
    <3>1. /\ Tail(q.steps) \in LoginSteps \cup OtherSteps
          /\ Head(Tail(q.steps)) = "old"
          /\ Tail(q.steps) \in LoginSteps <=> q.steps \in LoginSteps
          /\ Tail(q.steps) \in OtherSteps <=> q.steps \in OtherSteps
          /\ Tail(q.steps) # <<"token">> /\ q.steps # <<"token">>
          /\ Tail(q.steps) \notin NoCopySteps /\ q.steps \notin NoCopySteps
      BY <1>2, SaveSteps
    <3> DEFINE t == Tail(q.steps)
    <3> HIDE DEF t
    <3>2. t \in LoginSteps \cup OtherSteps /\ Head(t) = "old"
      BY <3>1 DEF t
    <3>3. /\ Tail(t) \in LoginSteps \cup OtherSteps
          /\ Head(Tail(t)) = "id"
          /\ Tail(t) \in LoginSteps <=> t \in LoginSteps
          /\ Tail(t) \in OtherSteps <=> t \in OtherSteps
          /\ Tail(t) # <<"token">> /\ Tail(t) \notin NoCopySteps
      BY <3>2, SaveSteps
    <3>4. s = IF q.old = None THEN Tail(t) ELSE t
      BY DEF t
    <3> QED BY <3>1, <3>3, <3>4 DEF t
  <2>2. req' = [req EXCEPT ![r].steps = s]
    BY <1>5 DEF ShapeInv
  <2> HIDE DEF s
  <2> PICK w : /\ Goes(r, w) /\ w.steps = s /\ w.x = req[r].x /\ w.link = req[r].link /\ w.old = req[r].old
    BY <1>2, <2>1, <2>2, NextStep
  <2>7. decided' = [decided EXCEPT ![q.x.id] = Decision(q, q.x.id)]
    BY <1>3, <1>5 DEF Decision, ShapeInv, Copies
  <2> QED BY <1>2, <1>3, <1>5, <2>1, <2>7
<1> QED BY <1>4, <1>5 DEF Row

\* User::save writes a cache, and goes on to the next one.
LEMMA CacheEffect ==
    ASSUME ShapeInv, NEW r \in Requests, CacheOld(r) \/ CacheId(r) \/ CacheEmail(r)
    PROVE  /\ Active(r) /\ req[r] \in Work /\ req[r].x \in Copies
           /\ \/ Ends(r) /\ CacheEmail(r)
              \/ \E w : /\ Goes(r, w) /\ w.x = req[r].x /\ w.link = req[r].link /\ w.old = req[r].old
                        /\ \/ CacheOld(r) /\ Head(req[r].steps) = "old" /\ Head(w.steps) = "id"
                           \/ CacheId(r) /\ Head(req[r].steps) = "id" /\ Head(w.steps) = "mail"
                           \/ CacheEmail(r) /\ Head(req[r].steps) = "mail" /\ Head(w.steps) = "code"
<1> DEFINE q == req[r]
<1>1. Head1(r) \in {"old", "id", "mail"}
  BY DEF CacheOld, CacheId, CacheEmail
<1>2. Active(r) /\ q \in Work /\ Prepared(q) /\ Head(q.steps) = Head1(r) /\ q.steps \in LoginSteps \cup OtherSteps
  BY <1>1, AtStep
<1>3. CASE CacheOld(r) \/ CacheId(r)
  <2>1. Head(q.steps) \in {"old", "id"} /\ req' = [req EXCEPT ![r].steps = Tail(q.steps)]
    BY <1>2, <1>3 DEF CacheOld, CacheId, ShapeInv
  <2>2. /\ Tail(q.steps) \in LoginSteps \cup OtherSteps
        /\ q.steps \notin NoCopySteps /\ Tail(q.steps) \notin NoCopySteps /\ q.steps # <<"token">> /\ Tail(q.steps) # <<"token">>
        /\ Tail(q.steps) \in LoginSteps <=> q.steps \in LoginSteps
        /\ Tail(q.steps) \in OtherSteps <=> q.steps \in OtherSteps
        /\ Head(Tail(q.steps)) = IF Head(q.steps) = "old" THEN "id" ELSE "mail"
    BY <1>2, <2>1, SaveSteps
  <2>3. q.x \in Copies
    BY <1>2, <2>2 DEF Prepared, Work
  <2> PICK w : /\ Goes(r, w) /\ w.steps = Tail(q.steps) /\ w.x = req[r].x /\ w.link = req[r].link /\ w.old = req[r].old
    BY <1>2, <2>1, <2>2, NextStep
  <2>4. \/ CacheOld(r) /\ Head(q.steps) = "old" /\ Head(w.steps) = "id"
        \/ CacheId(r) /\ Head(q.steps) = "id" /\ Head(w.steps) = "mail"
    BY <1>2, <1>3, <2>2 DEF CacheOld, CacheId
  <2> QED BY <1>2, <2>3, <2>4
<1>4. CASE CacheEmail(r)
  <2>1. Head(q.steps) = "mail" /\ q.steps \in {<<"mail", "code">>, <<"mail">>} /\ q.steps \notin NoCopySteps
    BY <1>2, <1>4, Heads, KindsOfSteps DEF CacheEmail
  <2>2. q.x \in Copies
    BY <1>2, <2>1 DEF Prepared, Work
  <2>3. req' = [req EXCEPT ![r] = IF Len(q.steps) = 1 THEN Idle ELSE [q EXCEPT !.steps = Tail(q.steps)]]
    BY <1>4 DEF CacheEmail
  <2>4. CASE q.steps = <<"mail">>
    <3>1. Len(q.steps) = 1
      BY <2>4, Tails
    <3> QED BY <1>2, <1>4, <2>2, <2>3, <3>1 DEF Ends
  <2>5. CASE q.steps = <<"mail", "code">>
    <3>1. Len(q.steps) # 1 /\ Tail(q.steps) = <<"code">>
      BY <2>5, Tails
    <3>2. req' = [req EXCEPT ![r] = [q EXCEPT !.steps = <<"code">>]]
      BY <2>3, <3>1, Zenon
    <3>3. req' = [req EXCEPT ![r].steps = <<"code">>]
      BY <3>2 DEF ShapeInv
    <3>4. <<"code">> \in LoginSteps \cup OtherSteps /\ Head(<<"code">>) = "code"
      BY DEF LoginSteps
    <3> PICK w : /\ Goes(r, w) /\ w.steps = <<"code">> /\ w.x = req[r].x /\ w.link = req[r].link /\ w.old = req[r].old
      BY <1>2, <2>1, <2>5, <3>3, <3>4, KindsOfSteps, NextStep
    <3>5. Head(w.steps) = "code"
      BY <3>4
    <3> QED BY <1>2, <1>4, <2>1, <2>2, <3>5
  <2> QED BY <2>1, <2>4, <2>5
<1> QED BY <1>3, <1>4

\* What the caches have after a write of User::save
LEMMA CacheWrites ==
    ASSUME ShapeInv, NEW r \in Requests, CacheOld(r) \/ CacheId(r) \/ CacheEmail(r)
    PROVE  LET x == req[r].x IN
           /\ byId' = byId \/ byId' = [byId EXCEPT ![x.id] = x]
           /\ byEmail' \in [Emails -> Copies \cup {None}]
           /\ \A e \in Emails : byEmail'[e] \in {None, byEmail[e]} \/ (e = x.row.email /\ byEmail'[e] = x)
           /\ UNCHANGED <<users, providers, callbacks, upCookie, linkCookie, mfaSessions, codes, consent, bad, decided, spoilt>>
<1> USE DEF browser, history
<1>1. req[r].x \in Copies
  BY CacheEffect
<1>2. CASE CacheOld(r)
  BY <1>2 DEF CacheOld, WithoutOld, ShapeInv
<1>3. CASE CacheId(r)
  BY <1>3 DEF CacheId, ShapeInv
<1>4. CASE CacheEmail(r)
  BY <1>1, <1>4 DEF CacheEmail, ShapeInv
<1> QED BY <1>2, <1>3, <1>4

\* A cache fails: the request ends, and the user is marked.
LEMMA FailEffect ==
    ASSUME ShapeInv, NEW r \in Requests, CacheFails(r)
    PROVE  /\ Ends(r) /\ Active(r) /\ req[r].x \in Copies /\ spoilt' = spoilt \cup {req[r].x.id}
           /\ UNCHANGED <<users, byId, byEmail, providers, callbacks, upCookie, linkCookie, mfaSessions, codes,
                           consent, bad, decided>>
<1>1. Head1(r) \in {"old", "id", "mail"}
  BY DEF CacheFails
<1>2. Active(r) /\ req[r] \in Work /\ Prepared(req[r]) /\ req[r].steps \in LoginSteps \cup OtherSteps
      /\ Head(req[r].steps) = Head1(r)
  BY <1>1, AtStep
<1>3. req[r].steps \notin NoCopySteps
  <2>1. CASE Head1(r) = "mail"
    BY <1>2, <2>1, Heads, KindsOfSteps
  <2>2. CASE Head1(r) \in {"old", "id"}
    BY <1>2, <2>2, SaveSteps
  <2> QED BY <1>1, <2>1, <2>2
<1>4. req[r].x \in Copies
  BY <1>2, <1>3 DEF Prepared, Work
<1> QED BY <1>2, <1>4 DEF CacheFails, Abort, Ends, caches, browser

\* login_finish begins a request for the callback of the browser.
LEMMA FinishEffect ==
    ASSUME ShapeInv, NEW r \in Requests, NEW b \in Browsers, login_finish(r, b)
    PROVE  /\ ~Active(r) /\ upCookie[b] \in Callbacks /\ callbacks[upCookie[b]] # None
           /\ \E w : Goes(r, w) /\ w.steps = <<"token">> /\ w.x = None /\ w.link = linkCookie[b] /\ w.cb = upCookie[b]
<1> DEFINE cb == upCookie[b]
           o == Op(<<"token">>, None, None, FALSE, FALSE)
           w == [o EXCEPT !.b = b, !.cb = cb, !.c = callbacks[cb], !.link = linkCookie[b]]
<1>1. cb # None /\ callbacks[cb] # None /\ ~Active(r)
  BY DEF login_finish, Begin
<1>2. cb \in Callbacks /\ callbacks[cb] \in CallbackData /\ linkCookie[b] \in LinkData \cup {None}
  BY <1>1 DEF ShapeInv
<1>3. req' = [req EXCEPT ![r] = w]
  BY DEF login_finish, Begin
<1>4. o \in Work /\ o.steps = <<"token">> /\ o.x = None
  BY DEF Op, Work, LoginSteps
<1> HIDE DEF o
<1>5. w \in Work
  BY <1>2, <1>4 DEF Work
<1>6. /\ w.steps = <<"token">> /\ w.x = None /\ w.b = b /\ w.cb = cb /\ w.c = callbacks[cb]
      /\ w.link = linkCookie[b]
  BY <1>4 DEF Work
<1> HIDE DEF w
<1>7. Prepared(w)
  BY <1>2, <1>6, KindsOfSteps DEF Prepared
<1>8. Goes(r, w)
  BY <1>3, <1>5, <1>7 DEF Goes
<1> QED BY <1>1, <1>2, <1>6, <1>8

\* provider_unlink begins with a copy that is linked to no provider.
LEMMA UnlinkEffect ==
    ASSUME ShapeInv, NEW r \in Requests, NEW u \in Users, provider_unlink(r, u)
    PROVE  /\ ~Active(r) /\ Find(u) \in Copies /\ Find(u).id = u
           /\ \E w : /\ Goes(r, w) /\ w.steps = <<"row", "old", "id", "mail">> /\ w.old = None /\ w.link = None
                     /\ LeavesRole(w) /\ w.x.id = u /\ w.x.row.prov = None
                     /\ w.x.row.email = Find(u).row.email /\ w.x.row.admin = Find(u).row.admin
<1> DEFINE y == Find(u)
           x == [y EXCEPT !.row.prov = None, !.row.uid = None]
<1>1. y # None /\ Begin(r, Op(Save, x, None, FALSE, FALSE))
  BY DEF provider_unlink
<1>2. y \in Copies /\ y.id = u
  BY <1>1, FindType
<1> HIDE DEF y
<1>3. x = [y EXCEPT !.row = [y.row EXCEPT !.prov = None, !.uid = None]]
  BY <1>2 DEF Copies
<1>4. y.row \in Row_ /\ [y.row EXCEPT !.prov = None, !.uid = None] \in Row_
  BY <1>2 DEF Copies, Row_
<1>5. x \in Copies /\ x.id = u /\ x.row = [y.row EXCEPT !.prov = None, !.uid = None]
  BY <1>2, <1>3, <1>4 DEF Copies
<1>6. x.row.prov = None /\ x.row.email = y.row.email /\ x.row.admin = y.row.admin
  BY <1>4, <1>5 DEF Row_
<1> HIDE DEF x
<1> DEFINE w == [steps |-> <<"row", "old", "id", "mail">>, x |-> x, old |-> None, sets |-> FALSE, role |-> FALSE,
                 b |-> None, cb |-> None, c |-> None, claims |-> None, link |-> None]
<1>8. req' = [req EXCEPT ![r] = w] /\ ~Active(r)
  BY <1>1 DEF Begin, Op, Save
<1>9. w \in Work
  BY <1>5 DEF Work, OtherSteps
<1>10. x # None
  BY <1>5, ConstantsOK DEF Copies
<1>11. Prepared(w)
  BY <1>10, KindsOfSteps DEF Prepared
<1>12. w.steps = <<"row", "old", "id", "mail">> /\ w.x = x /\ w.old = None /\ w.link = None /\ ~w.sets
  OBVIOUS
<1> HIDE DEF w
<1>13. Goes(r, w)
  BY <1>8, <1>9, <1>11 DEF Goes
<1>14. /\ w.steps = <<"row", "old", "id", "mail">> /\ w.old = None /\ w.link = None
       /\ w.x.id = u /\ w.x.row.prov = None
       /\ w.x.row.email = Find(u).row.email /\ w.x.row.admin = Find(u).row.admin
  BY <1>5, <1>6, <1>12 DEF y
<1>15. LeavesRole(w)
  BY <1>12 DEF LeavesRole
<1> QED BY <1>2, <1>8, <1>13, <1>14, <1>15 DEF y

\* An update by an administrator begins with a copy that keeps its link, and has the role given.
LEMMA UpdateEffect ==
    ASSUME ShapeInv, NEW r \in Requests, NEW u \in Users, NEW e \in Emails, NEW admin \in BOOLEAN, update(r, u, e, admin)
    PROVE  /\ ~Active(r) /\ Find(u) \in Copies /\ Find(u).id = u
           /\ \E w : /\ Goes(r, w) /\ w.steps = <<"row", "old", "id", "mail">> /\ w.link = None
                     /\ w.old = OldEmail(Find(u), w.x.row.email)
                     /\ Decides(w) /\ w.x.id = u /\ w.x.row.prov = Find(u).row.prov
<1> DEFINE y == Find(u)
           x == [y EXCEPT !.row.email = e, !.row.admin = admin]
           old == OldEmail(y, e)
<1>1. y # None /\ Begin(r, Op(Save, x, old, TRUE, admin))
  BY DEF update
<1>2. y \in Copies /\ y.id = u
  BY <1>1, FindType
<1> HIDE DEF y
<1>3. x = [y EXCEPT !.row = [y.row EXCEPT !.email = e, !.admin = admin]]
  BY <1>2 DEF Copies
<1>4. y.row \in Row_ /\ [y.row EXCEPT !.email = e, !.admin = admin] \in Row_ /\ y.row.email \in Emails
  BY <1>2 DEF Copies, Row_
<1>5. x \in Copies /\ x.id = u /\ x.row = [y.row EXCEPT !.email = e, !.admin = admin]
  BY <1>2, <1>3, <1>4 DEF Copies
<1>6. x.row.prov = y.row.prov /\ x.row.admin = admin /\ x.row.email = e
  BY <1>4, <1>5 DEF Row_
<1>7. old \in Emails \cup {None}
  BY <1>4 DEF OldEmail
<1> HIDE DEF x, old
<1> DEFINE w == [steps |-> <<"row", "old", "id", "mail">>, x |-> x, old |-> old, sets |-> TRUE, role |-> admin,
                 b |-> None, cb |-> None, c |-> None, claims |-> None, link |-> None]
<1>8. req' = [req EXCEPT ![r] = w] /\ ~Active(r)
  BY <1>1 DEF Begin, Op, Save
<1>9. w \in Work
  BY <1>5, <1>7 DEF Work, OtherSteps
<1>10. x # None
  BY <1>5, ConstantsOK DEF Copies
<1>11. Prepared(w)
  BY <1>10, KindsOfSteps DEF Prepared
<1>12. /\ w.steps = <<"row", "old", "id", "mail">> /\ w.x = x /\ w.old = old /\ w.link = None /\ w.sets
       /\ w.role = admin
  OBVIOUS
<1> HIDE DEF w
<1>13. Goes(r, w)
  BY <1>8, <1>9, <1>11 DEF Goes
<1>14. /\ w.steps = <<"row", "old", "id", "mail">> /\ w.link = None
       /\ w.x.id = u /\ w.x.row.prov = Find(u).row.prov
  BY <1>5, <1>6, <1>12 DEF y
<1>15. w.old = OldEmail(Find(u), w.x.row.email)
  BY <1>6, <1>12 DEF y, old
<1>16. Decides(w)
  BY <1>6, <1>12, Zenon DEF Decides
<1> QED BY <1>2, <1>8, <1>13, <1>14, <1>15, <1>16 DEF y

-----------------------------------------------------------------------------
\* The shape of the state

\* What a request goes on with has the shape.
LEMMA RequestShape ==
    ASSUME ShapeInv, NEW r \in Requests, Ends(r) \/ \E w : Goes(r, w)
    PROVE  /\ req' \in [Requests -> Work \cup {Idle}]
           /\ \A q \in Requests : req'[q] # Idle => Prepared(req'[q])
<1>1. CASE Ends(r)
  BY <1>1 DEF Ends, ShapeInv, Active
<1>2. CASE \E w : Goes(r, w)
  BY <1>2 DEF Goes, ShapeInv, Active
<1> QED BY <1>1, <1>2

\* Every step keeps the shape of the state.
LEMMA ShapeStep == ShapeInv /\ [Next]_vars => ShapeInv'
<1> SUFFICES ASSUME ShapeInv, [Next]_vars PROVE ShapeInv'
  OBVIOUS
<1> USE DEF caches, browser, history
<1>1. CASE \E b \in Browsers, p \in Providers : login_start(b, p)
  <2> PICK b \in Browsers, p \in Providers : login_start(b, p)
    BY <1>1
  <2>1. callbacks' \in [Callbacks -> CallbackData \cup {None}] /\ upCookie' \in [Browsers -> Callbacks \cup {None}]
    BY DEF login_start, StartLogin, ShapeInv, CallbackData
  <2> QED BY <2>1 DEF login_start, ShapeInv, Active
<1>2. CASE \E b \in Browsers, p \in Providers, q \in Providers : post_provider_link(b, q, p)
  <2> PICK b \in Browsers, p \in Providers, q \in Providers : post_provider_link(b, q, p)
    BY <1>2
  <2> DEFINE u == Find(SessionUser[b])
  <2>1. callbacks' \in [Callbacks -> CallbackData \cup {None}] /\ upCookie' \in [Browsers -> Callbacks \cup {None}]
    BY DEF post_provider_link, StartLogin, ShapeInv, CallbackData
  <2>2. SessionUser[b] \in Users /\ u # None
    BY ConstantsOK DEF post_provider_link
  <2>3. u \in Copies /\ u.id = SessionUser[b]
    BY <2>2, FindType
  <2>4. /\ linkCookie' = [linkCookie EXCEPT ![b] = [prov |-> q, user |-> u.id, email |-> u.row.email]]
        /\ byId' = [byId EXCEPT ![u.id] = u]
    BY DEF post_provider_link
  <2> HIDE DEF u
  <2>5. u.row.email \in Emails
    BY <2>3 DEF Copies, Row_
  <2>6. linkCookie' \in [Browsers -> LinkData \cup {None}]
    BY <2>2, <2>3, <2>4, <2>5 DEF ShapeInv, LinkData
  <2>7. byId' \in [Users -> Copies \cup {None}] /\ \A v \in Users : byId'[v] # None => byId'[v].id = v
    BY <2>2, <2>3, <2>4 DEF ShapeInv
  <2> QED BY <2>1, <2>6, <2>7 DEF post_provider_link, ShapeInv, Active
<1>3. CASE \E b \in Browsers, state \in Callbacks, wrong \in BOOLEAN : RejectFinish(b, state, wrong)
  BY <1>3 DEF RejectFinish, WithoutCallback, ShapeInv, Active
<1>4. CASE \E r \in Requests, b \in Browsers : login_finish(r, b)
  <2> PICK r \in Requests, b \in Browsers : login_finish(r, b)
    BY <1>4
  <2>1. /\ req' \in [Requests -> Work \cup {Idle}]
        /\ \A q \in Requests : req'[q] # Idle => Prepared(req'[q])
    BY FinishEffect, RequestShape
  <2> QED BY <2>1 DEF login_finish, ShapeInv, Active
<1>5. CASE \E r \in Requests, u \in Users : provider_unlink(r, u)
  <2> PICK r \in Requests, u \in Users : provider_unlink(r, u)
    BY <1>5
  <2>1. /\ req' \in [Requests -> Work \cup {Idle}]
        /\ \A q \in Requests : req'[q] # Idle => Prepared(req'[q])
    BY UnlinkEffect, RequestShape
  <2>2. byId' = [byId EXCEPT ![u] = Find(u)] /\ Find(u) \in Copies /\ Find(u).id = u
    BY UnlinkEffect DEF provider_unlink
  <2>3. byId' \in [Users -> Copies \cup {None}] /\ \A v \in Users : byId'[v] # None => byId'[v].id = v
    BY <2>2 DEF ShapeInv
  <2> QED BY <2>1, <2>3 DEF provider_unlink, ShapeInv, Active
<1>6. CASE \E r \in Requests, u \in Users, e \in Emails, admin \in BOOLEAN : update(r, u, e, admin)
  <2> PICK r \in Requests, u \in Users, e \in Emails, admin \in BOOLEAN : update(r, u, e, admin)
    BY <1>6
  <2>1. /\ req' \in [Requests -> Work \cup {Idle}]
        /\ \A q \in Requests : req'[q] # Idle => Prepared(req'[q])
    BY UpdateEffect, RequestShape
  <2>2. byId' = [byId EXCEPT ![u] = Find(u)] /\ Find(u) \in Copies /\ Find(u).id = u
    BY UpdateEffect DEF update
  <2>3. byId' \in [Users -> Copies \cup {None}] /\ \A v \in Users : byId'[v] # None => byId'[v].id = v
    BY <2>2 DEF ShapeInv
  <2> QED BY <2>1, <2>3 DEF update, ShapeInv, Active
<1>7. CASE \E r \in Requests : Token(r)
  <2> PICK r \in Requests : Token(r)
    BY <1>7
  <2>1. /\ req' \in [Requests -> Work \cup {Idle}]
        /\ \A q \in Requests : req'[q] # Idle => Prepared(req'[q])
    BY TokenEffect, RequestShape
  <2> QED BY <2>1 DEF Token, ShapeInv, Active
<1>8. CASE \E r \in Requests : validate_update_user(r)
  <2> PICK r \in Requests : validate_update_user(r)
    BY <1>8
  <2>1. /\ req' \in [Requests -> Work \cup {Idle}]
        /\ \A q \in Requests : req'[q] # Idle => Prepared(req'[q])
    BY ValidateEffect, RequestShape
  <2> DEFINE e == req[r].claims.email
  <2>2. e \in Emails
    BY ValidateEffect, ConstantsOK
  <2>3. byEmail' = byEmail \/ byEmail' = [byEmail EXCEPT ![e] = FindByEmail(e)]
    BY DEF validate_update_user
  <2>4. /\ byEmail' \in [Emails -> Copies \cup {None}]
        /\ \A d \in Emails : byEmail'[d] # None => byEmail'[d].row.email = d
    BY <2>2, <2>3, FindByEmailType DEF ShapeInv
  <2> QED BY <2>1, <2>4 DEF validate_update_user, ShapeInv, Active
<1>9. CASE \E r \in Requests : Insert(r)
  <2> PICK r \in Requests : Insert(r)
    BY <1>9
  <2>1. /\ req' \in [Requests -> Work \cup {Idle}]
        /\ \A q \in Requests : req'[q] # Idle => Prepared(req'[q])
    BY InsertEffect, RequestShape DEF Inserts
  <2>2. users' \in [Users -> Row_ \cup {None}] /\ decided' \in [Users -> BOOLEAN]
    BY InsertEffect DEF ShapeInv, Row_, Inserts
  <2> QED BY <2>1, <2>2 DEF Insert, ShapeInv, Active
<1>10. CASE \E r \in Requests : Row(r)
  <2> PICK r \in Requests : Row(r)
    BY <1>10
  <2>1. /\ req' \in [Requests -> Work \cup {Idle}]
        /\ \A q \in Requests : req'[q] # Idle => Prepared(req'[q])
    BY RowEffect, RequestShape
  <2>2. users' \in [Users -> Row_ \cup {None}]
    BY RowEffect DEF ShapeInv, Copies
  <2>3. Decision(req[r], req[r].x.id) \in BOOLEAN
    <3>1. req[r].x.id \in Users /\ req[r].role \in BOOLEAN
      BY RowEffect DEF Copies, Work
    <3> QED BY <3>1 DEF Decision, ShapeInv
  <2>4. decided' \in [Users -> BOOLEAN]
    BY <2>3, RowEffect DEF ShapeInv
  <2> QED BY <2>1, <2>2, <2>4 DEF Row, ShapeInv, Active
<1>11. CASE \E r \in Requests : CacheOld(r) \/ CacheId(r) \/ CacheEmail(r)
  <2> PICK r \in Requests : CacheOld(r) \/ CacheId(r) \/ CacheEmail(r)
    BY <1>11
  <2>1. /\ req' \in [Requests -> Work \cup {Idle}]
        /\ \A q \in Requests : req'[q] # Idle => Prepared(req'[q])
    BY CacheEffect, RequestShape
  <2>2. req[r].x \in Copies
    BY CacheEffect
  <2>3. byId' \in [Users -> Copies \cup {None}] /\ \A v \in Users : byId'[v] # None => byId'[v].id = v
    BY <2>2, CacheWrites DEF ShapeInv, Copies
  <2>4. /\ byEmail' \in [Emails -> Copies \cup {None}]
        /\ \A d \in Emails : byEmail'[d] # None => byEmail'[d].row.email = d
    BY <2>2, CacheWrites DEF ShapeInv
  <2> QED BY <2>1, <2>3, <2>4, CacheWrites DEF ShapeInv, Active
<1>16. CASE \E r \in Requests : CacheFails(r)
  <2> PICK r \in Requests : CacheFails(r)
    BY <1>16
  <2>1. /\ req' \in [Requests -> Work \cup {Idle}]
        /\ \A q \in Requests : req'[q] # Idle => Prepared(req'[q])
    BY FailEffect, RequestShape
  <2> QED BY <2>1, FailEffect DEF ShapeInv, Active
<1>12. CASE \E r \in Requests : Code(r)
  <2> PICK r \in Requests : Code(r)
    BY <1>12
  <2>1. Ends(r)
    BY DEF Code, Abort, Ends
  <2>2. /\ req' \in [Requests -> Work \cup {Idle}]
        /\ \A q \in Requests : req'[q] # Idle => Prepared(req'[q])
    BY <2>1, RequestShape
  <2>3. linkCookie' \in [Browsers -> LinkData \cup {None}] /\ upCookie' \in [Browsers -> Callbacks \cup {None}]
    BY DEF Code, ShapeInv
  <2> QED BY <2>2, <2>3 DEF Code, ShapeInv, Active
<1>13. CASE \E p \in Providers : delete_provider(p)
  <2> PICK p \in Providers : delete_provider(p)
    BY <1>13
  <2>1. \A w \in Row_ : [w EXCEPT !.prov = None] \in Row_
    BY DEF Row_
  <2>2. users' \in [Users -> Row_ \cup {None}]
    BY <2>1 DEF delete_provider, ShapeInv
  <2> QED BY <2>2 DEF delete_provider, ShapeInv, Active
<1>14. CASE \E cb \in Callbacks : Timeout(cb)
  BY <1>14 DEF Timeout, ShapeInv, Active
<1>15. CASE UNCHANGED vars
  BY <1>15 DEF vars, ShapeInv, Active
<1> QED BY <1>1, <1>2, <1>3, <1>4, <1>5, <1>6, <1>7, <1>8, <1>9, <1>10, <1>11, <1>12, <1>13, <1>14, <1>15, <1>16, Actions

-----------------------------------------------------------------------------
\* Links and the consent to them

\* What the reads of a user give is linked with consent.
LEMMA ReadsLinked ==
    ASSUME ShapeInv, LinkInv
    PROVE  /\ \A u \in Users : LinkedCopy(Find(u))
           /\ \A e \in Emails : LinkedCopy(FindByEmail(e))
<1>1. \A u \in Users : LinkedCopy(Copy(u))
  BY DEF Copy, LinkedCopy, LinkInv, LinkedByConsent
<1>2. \A u \in Users : LinkedCopy(Find(u))
  BY <1>1 DEF Find, LinkInv
<1>3. ASSUME NEW e \in Emails PROVE LinkedCopy(FindByEmail(e))
  <2> DEFINE us == {u \in Users : users[u] # None /\ users[u].email = e}
             v == CHOOSE u \in us : TRUE
  <2>1. us # {} => v \in us
    OBVIOUS
  <2>2. us = {} \/ v \in Users
    BY <2>1
  <2>3. \/ FindByEmail(e) = byEmail[e]
        \/ FindByEmail(e) = None
        \/ us # {} /\ FindByEmail(e) = Copy(v)
    BY DEF FindByEmail
  <2> HIDE DEF v, us
  <2> QED BY <1>1, <2>2, <2>3 DEF LinkInv, LinkedCopy
<1> QED BY <1>2, <1>3

\* A request that goes on with consent
LEMMA RequestLinks ==
    ASSUME ShapeInv, LinkInv, consent \subseteq consent', NEW r \in Requests,
           \/ Ends(r)
           \/ \E w : /\ Goes(r, w)
                     /\ w.x # None /\ w.x.row.prov # None => <<w.x.id, w.x.row.prov>> \in consent'
                     /\ w.link # None => <<w.link.user, w.link.prov>> \in consent'
    PROVE  \A q \in Requests : Active(q)' => LinkedCopy(req[q].x)' /\ AskedFor(req[q].link)'
<1>1. \A q \in Requests \ {r} : req'[q] = req[q]
  BY DEF Ends, Goes, ShapeInv
<1>2. \A q \in Requests \ {r} : Active(q)' => LinkedCopy(req[q].x)' /\ AskedFor(req[q].link)'
  BY <1>1 DEF Active, LinkedCopy, AskedFor, LinkInv
<1>3. CASE Ends(r)
  BY <1>2, <1>3 DEF Ends, Active, ShapeInv
<1>4. CASE \E w : /\ Goes(r, w)
                  /\ w.x # None /\ w.x.row.prov # None => <<w.x.id, w.x.row.prov>> \in consent'
                  /\ w.link # None => <<w.link.user, w.link.prov>> \in consent'
  <2> PICK w : /\ Goes(r, w)
               /\ w.x # None /\ w.x.row.prov # None => <<w.x.id, w.x.row.prov>> \in consent'
               /\ w.link # None => <<w.link.user, w.link.prov>> \in consent'
    BY <1>4
  <2>1. req'[r] = w
    BY DEF Goes, ShapeInv
  <2> QED BY <1>2, <2>1 DEF LinkedCopy, AskedFor
<1> QED BY <1>3, <1>4

\* Every step keeps that links have consent.
LEMMA LinkStep == ShapeInv /\ LinkInv /\ [Next]_vars => LinkInv'
<1> SUFFICES ASSUME ShapeInv, LinkInv, [Next]_vars PROVE LinkInv'
  OBVIOUS
<1> USE DEF caches, browser, history
<1> DEFINE Reqs == \A q \in Requests : Active(q)' => LinkedCopy(req[q].x)' /\ AskedFor(req[q].link)'
<1>1. CASE \E b \in Browsers, p \in Providers : login_start(b, p)
  BY <1>1 DEF login_start, LinkInv, LinkedByConsent, LinkedCopy, AskedFor, Active
<1>2. CASE \E b \in Browsers, p \in Providers, q \in Providers : post_provider_link(b, q, p)
  <2> PICK b \in Browsers, p \in Providers, q \in Providers : post_provider_link(b, q, p)
    BY <1>2
  <2> DEFINE u == Find(SessionUser[b])
  <2>1. SessionUser[b] \in Users /\ u # None
    BY ConstantsOK DEF post_provider_link
  <2>2. u \in Copies /\ u.id = SessionUser[b] /\ LinkedCopy(u)
    BY <2>1, FindType, ReadsLinked
  <2>3. /\ linkCookie' = [linkCookie EXCEPT ![b] = [prov |-> q, user |-> u.id, email |-> u.row.email]]
        /\ byId' = [byId EXCEPT ![u.id] = u]
        /\ consent' = consent \cup {<<u.id, q>>}
        /\ UNCHANGED <<users, byEmail, req>>
    BY DEF post_provider_link
  <2> HIDE DEF u
  <2>4. \A v \in Users : LinkedCopy(byId[v])'
    BY <2>1, <2>2, <2>3 DEF ShapeInv, LinkInv, LinkedCopy
  <2>5. \A o \in Browsers : AskedFor(linkCookie[o])'
    BY <2>3 DEF ShapeInv, LinkInv, AskedFor
  <2>6. Reqs
    BY <2>3 DEF LinkInv, LinkedCopy, AskedFor, Active
  <2> QED BY <2>3, <2>4, <2>5, <2>6 DEF LinkInv, LinkedByConsent, LinkedCopy
<1>3. CASE \E b \in Browsers, state \in Callbacks, wrong \in BOOLEAN : RejectFinish(b, state, wrong)
  BY <1>3 DEF RejectFinish, LinkInv, LinkedByConsent, LinkedCopy, AskedFor, Active
<1>4. CASE \E r \in Requests, b \in Browsers : login_finish(r, b)
  <2> PICK r \in Requests, b \in Browsers : login_finish(r, b)
    BY <1>4
  <2>1. UNCHANGED <<users, byId, byEmail, linkCookie, consent>>
    BY DEF login_finish
  <2>2. AskedFor(linkCookie[b])
    BY DEF LinkInv
  <2>3. Reqs
    <3>1. \E w : /\ Goes(r, w)
                 /\ w.x # None /\ w.x.row.prov # None => <<w.x.id, w.x.row.prov>> \in consent'
                 /\ w.link # None => <<w.link.user, w.link.prov>> \in consent'
      <4> PICK w : Goes(r, w) /\ w.x = None /\ w.link = linkCookie[b]
        BY FinishEffect
      <4> QED BY <2>1, <2>2 DEF AskedFor
    <3> QED BY <2>1, <3>1, RequestLinks
  <2> QED BY <2>1, <2>3 DEF LinkInv, LinkedByConsent, LinkedCopy, AskedFor
<1>5. CASE \E r \in Requests, u \in Users : provider_unlink(r, u)
  <2> PICK r \in Requests, u \in Users : provider_unlink(r, u)
    BY <1>5
  <2>1. UNCHANGED <<users, byEmail, linkCookie, consent>> /\ byId' = [byId EXCEPT ![u] = Find(u)]
    BY DEF provider_unlink
  <2>2. \A v \in Users : LinkedCopy(byId[v])'
    BY <2>1, ReadsLinked DEF ShapeInv, LinkInv, LinkedCopy
  <2>3. Reqs
    <3>1. \E w : /\ Goes(r, w)
                 /\ w.x # None /\ w.x.row.prov # None => <<w.x.id, w.x.row.prov>> \in consent'
                 /\ w.link # None => <<w.link.user, w.link.prov>> \in consent'
      BY UnlinkEffect
    <3> QED BY <2>1, <3>1, RequestLinks
  <2> QED BY <2>1, <2>2, <2>3 DEF LinkInv, LinkedByConsent, LinkedCopy, AskedFor
<1>6. CASE \E r \in Requests, u \in Users, e \in Emails, admin \in BOOLEAN : update(r, u, e, admin)
  <2> PICK r \in Requests, u \in Users, e \in Emails, admin \in BOOLEAN : update(r, u, e, admin)
    BY <1>6
  <2>1. UNCHANGED <<users, byEmail, linkCookie, consent>> /\ byId' = [byId EXCEPT ![u] = Find(u)]
    BY DEF update
  <2>2. \A v \in Users : LinkedCopy(byId[v])'
    BY <2>1, ReadsLinked DEF ShapeInv, LinkInv, LinkedCopy
  <2>3. Find(u) \in Copies /\ Find(u) # None /\ LinkedCopy(Find(u)) /\ Find(u).id = u
    BY UpdateEffect, ReadsLinked, ConstantsOK DEF Copies
  <2>4. Reqs
    <3>1. \E w : /\ Goes(r, w)
                 /\ w.x # None /\ w.x.row.prov # None => <<w.x.id, w.x.row.prov>> \in consent'
                 /\ w.link # None => <<w.link.user, w.link.prov>> \in consent'
      <4> PICK w : Goes(r, w) /\ w.link = None /\ w.x.id = u /\ w.x.row.prov = Find(u).row.prov
        BY UpdateEffect
      <4> QED BY <2>1, <2>3 DEF LinkedCopy
    <3> QED BY <2>1, <3>1, RequestLinks
  <2> QED BY <2>1, <2>2, <2>4 DEF LinkInv, LinkedByConsent, LinkedCopy, AskedFor
<1>7. CASE \E r \in Requests : Token(r)
  <2> PICK r \in Requests : Token(r)
    BY <1>7
  <2>1. UNCHANGED <<users, byId, byEmail, linkCookie, consent>>
    BY DEF Token
  <2>2. Active(r)
    BY DEF Token, Head1
  <2>3. Reqs
    <3>1. \/ Ends(r)
          \/ \E w : /\ Goes(r, w)
                    /\ w.x # None /\ w.x.row.prov # None => <<w.x.id, w.x.row.prov>> \in consent'
                    /\ w.link # None => <<w.link.user, w.link.prov>> \in consent'
      BY <2>1, <2>2, TokenEffect DEF AskedFor, LinkInv
    <3> QED BY <2>1, <3>1, RequestLinks
  <2> QED BY <2>1, <2>3 DEF LinkInv, LinkedByConsent, LinkedCopy, AskedFor
<1>8. CASE \E r \in Requests : validate_update_user(r)
  <2> PICK r \in Requests : validate_update_user(r)
    BY <1>8
  <2> DEFINE e == req[r].claims.email
             p == req[r].c.prov
  <2>1. /\ UNCHANGED <<users, byId, linkCookie, consent>>
        /\ byEmail' = byEmail \/ byEmail' = [byEmail EXCEPT ![e] = FindByEmail(e)]
    BY DEF validate_update_user
  <2>2. e \in Emails /\ p \in Providers /\ Active(r) /\ AskedFor(req[r].link)
    BY ValidateEffect, ConstantsOK DEF CallbackData, LinkInv
  <2>3. \A d \in Emails : LinkedCopy(byEmail[d])'
    BY <2>1, <2>2, ReadsLinked DEF ShapeInv, LinkInv, LinkedCopy
  <2>4. ASSUME NEW y \in Copies, Found(r, y)
        PROVE  <<y.id, p>> \in consent
    <3>1. CASE y = find_by_federation(p, req[r].claims.uid) /\ y # None
      <4>1. y.id \in Users /\ users[y.id] # None /\ users[y.id].prov = p
        BY <3>1, FederationType DEF Copies
      <4>2. p # None
        BY <2>2, ConstantsOK
      <4> QED BY <4>1, <4>2 DEF LinkInv, LinkedByConsent
    <3>2. CASE LinkAllowed(req[r].link, y, p)
      BY <2>2, <3>2 DEF LinkAllowed, AskedFor
    <3> QED BY <2>4, <3>1, <3>2 DEF Found
  <2>5. Reqs
    <3>1. CASE Ends(r)
      BY <2>1, <3>1, RequestLinks
    <3>2. CASE \E w : Goes(r, w) /\ w.x = None /\ w.link = req[r].link
      BY <2>1, <2>2, <3>2, RequestLinks DEF AskedFor
    <3>3. CASE \E w, y : /\ Goes(r, w) /\ w.link = req[r].link
                         /\ y \in Copies /\ Found(r, y)
                         /\ w.x = Updated(y, req[r].c.prov, req[r].claims)
      <4> PICK w, y : /\ Goes(r, w) /\ w.link = req[r].link
                      /\ y \in Copies /\ Found(r, y)
                      /\ w.x = Updated(y, p, req[r].claims)
        BY <3>3
      <4>1. req[r].claims \in Claims
        BY ValidateEffect
      <4>2. w.x.id = y.id /\ w.x.row.prov = p
        BY <2>2, <4>1, UpdatedType
      <4>3. <<w.x.id, w.x.row.prov>> \in consent'
        BY <2>1, <2>4, <4>2
      <4>4. w.link # None => <<w.link.user, w.link.prov>> \in consent'
        BY <2>1, <2>2 DEF AskedFor
      <4> QED BY <2>1, <4>3, <4>4, RequestLinks
    <3> QED BY <3>1, <3>2, <3>3, ValidateEffect
  <2> QED BY <2>1, <2>3, <2>5 DEF LinkInv, LinkedByConsent, LinkedCopy, AskedFor
<1>9. CASE \E r \in Requests : Insert(r)
  <2> PICK r \in Requests : Insert(r)
    BY <1>9
  <2>1. UNCHANGED <<byId, byEmail, linkCookie>> /\ Active(r) /\ AskedFor(req[r].link)
    BY InsertEffect DEF Insert, LinkInv
  <2>2. CASE Ends(r) /\ UNCHANGED <<users, consent, decided>>
    <3>1. Reqs
      BY <2>2, RequestLinks
    <3> QED BY <2>1, <2>2, <3>1 DEF LinkInv, LinkedByConsent, LinkedCopy, AskedFor
  <2>3. CASE \E u \in Users, w \in Work : Inserts(r, u, w)
    <3> PICK u \in Users, w \in Work : Inserts(r, u, w)
      BY <2>3
    <3> USE DEF Inserts
    <3>1. Reqs
      BY <2>1, RequestLinks DEF AskedFor
    <3>2. LinkedByConsent'
      BY DEF LinkInv, LinkedByConsent, ShapeInv
    <3> QED BY <2>1, <3>1, <3>2 DEF LinkInv, LinkedCopy, AskedFor
  <2> QED BY <2>2, <2>3, InsertEffect
<1>10. CASE \E r \in Requests : Row(r)
  <2> PICK r \in Requests : Row(r)
    BY <1>10
  <2>1. /\ UNCHANGED <<byId, byEmail, linkCookie, consent>> /\ Active(r)
        /\ AskedFor(req[r].link) /\ LinkedCopy(req[r].x) /\ req[r].x \in Copies /\ req[r].x # None
    BY RowEffect, ConstantsOK DEF Row, LinkInv, Copies
  <2>2. Reqs
    <3>1. \/ Ends(r)
          \/ \E w : /\ Goes(r, w)
                    /\ w.x # None /\ w.x.row.prov # None => <<w.x.id, w.x.row.prov>> \in consent'
                    /\ w.link # None => <<w.link.user, w.link.prov>> \in consent'
      <4>1. Ends(r) \/ \E w : Goes(r, w) /\ w.x = req[r].x /\ w.link = req[r].link
        BY RowEffect
      <4> QED BY <2>1, <4>1 DEF AskedFor, LinkedCopy
    <3> QED BY <2>1, <3>1, RequestLinks
  <2>3. users' = users \/ users' = [users EXCEPT ![req[r].x.id] = req[r].x.row]
    BY RowEffect
  <2>4. LinkedByConsent'
    BY <2>1, <2>3 DEF LinkInv, LinkedByConsent, LinkedCopy, ShapeInv
  <2> QED BY <2>1, <2>2, <2>4 DEF LinkInv, LinkedCopy, AskedFor
<1>11. CASE \E r \in Requests : CacheOld(r) \/ CacheId(r) \/ CacheEmail(r)
  <2> PICK r \in Requests : CacheOld(r) \/ CacheId(r) \/ CacheEmail(r)
    BY <1>11
  <2> DEFINE x == req[r].x
  <2>1. /\ UNCHANGED <<users, linkCookie, consent>> /\ Active(r)
        /\ AskedFor(req[r].link) /\ LinkedCopy(x) /\ x \in Copies
    BY CacheEffect, CacheWrites DEF LinkInv
  <2>2. Reqs
    <3>1. Ends(r) \/ \E w : Goes(r, w) /\ w.x = x /\ w.link = req[r].link
      BY CacheEffect
    <3> QED BY <2>1, <3>1, RequestLinks DEF AskedFor, LinkedCopy
  <2>3. byId' = byId \/ byId' = [byId EXCEPT ![x.id] = x]
    BY CacheWrites
  <2>4. \A e \in Emails : byEmail'[e] \in {x, None, byEmail[e]}
    BY CacheWrites
  <2> HIDE DEF x
  <2>5. \A u \in Users : LinkedCopy(byId[u])'
    BY <2>1, <2>3 DEF LinkInv, LinkedCopy, ShapeInv
  <2>6. \A e \in Emails : LinkedCopy(byEmail[e])'
    BY <2>1, <2>4 DEF LinkInv, LinkedCopy
  <2> QED BY <2>1, <2>2, <2>5, <2>6 DEF LinkInv, LinkedByConsent, AskedFor
<1>16. CASE \E r \in Requests : CacheFails(r)
  <2> PICK r \in Requests : CacheFails(r)
    BY <1>16
  <2>1. Ends(r) /\ UNCHANGED <<users, byId, byEmail, linkCookie, consent>>
    BY FailEffect
  <2>2. Reqs
    BY <2>1, RequestLinks
  <2> QED BY <2>1, <2>2 DEF LinkInv, LinkedByConsent, LinkedCopy, AskedFor
<1>12. CASE \E r \in Requests : Code(r)
  <2> PICK r \in Requests : Code(r)
    BY <1>12
  <2>1. Ends(r) /\ UNCHANGED <<users, byId, byEmail, consent>>
    BY DEF Code, Abort, Ends
  <2>2. Reqs
    BY <2>1, RequestLinks
  <2>3. \A b \in Browsers : AskedFor(linkCookie[b])'
    BY <2>1 DEF Code, LinkInv, AskedFor, ShapeInv
  <2> QED BY <2>1, <2>2, <2>3 DEF LinkInv, LinkedByConsent, LinkedCopy
<1>13. CASE \E p \in Providers : delete_provider(p)
  <2> PICK p \in Providers : delete_provider(p)
    BY <1>13
  <2>1. \A w \in Row_ : [w EXCEPT !.prov = None].prov = None
    BY DEF Row_
  <2>2. LinkedByConsent'
    BY <2>1 DEF delete_provider, LinkInv, LinkedByConsent, ShapeInv
  <2> QED BY <2>2 DEF delete_provider, LinkInv, LinkedCopy, AskedFor, Active
<1>14. CASE \E cb \in Callbacks : Timeout(cb)
  BY <1>14 DEF Timeout, LinkInv, LinkedByConsent, LinkedCopy, AskedFor, Active
<1>15. CASE UNCHANGED vars
  BY <1>15 DEF vars, LinkInv, LinkedByConsent, LinkedCopy, AskedFor, Active
<1> QED BY <1>1, <1>2, <1>3, <1>4, <1>5, <1>6, <1>7, <1>8, <1>9, <1>10, <1>11, <1>12, <1>13, <1>14, <1>15, <1>16, Actions

-----------------------------------------------------------------------------
\* Copies are of users who exist, and users stay.

\* What is read is a user who exists.
LEMMA ReadsAlive ==
    ASSUME ShapeInv, AliveInv
    PROVE  /\ \A u \in Users : Find(u) # None => users[u] # None
           /\ \A e \in Emails : FindByEmail(e) # None => users[FindByEmail(e).id] # None
<1>1. \A u \in Users : Copy(u) # None => users[u] # None /\ Copy(u).id = u
  BY DEF Copy
<1>2. \A u \in Users : Find(u) # None => users[u] # None
  BY <1>1 DEF Find, AliveInv
<1>3. ASSUME NEW e \in Emails, FindByEmail(e) # None PROVE users[FindByEmail(e).id] # None
  <2> DEFINE us == {u \in Users : users[u] # None /\ users[u].email = e}
             v == CHOOSE u \in us : TRUE
  <2>1. us # {} => v \in Users
    OBVIOUS
  <2>2. \/ FindByEmail(e) = byEmail[e]
        \/ us # {} /\ FindByEmail(e) = Copy(v)
    BY <1>3 DEF FindByEmail
  <2> HIDE DEF v, us
  <2> QED BY <1>1, <1>3, <2>1, <2>2 DEF AliveInv
<1> QED BY <1>2, <1>3

\* No row is ever removed here.
LEMMA UsersStay ==
    ASSUME ShapeInv, Next, NEW u \in Users, users[u] # None
    PROVE  users'[u] # None
<1> USE DEF caches, browser, history
<1>1. CASE \E r \in Requests : Insert(r)
  BY <1>1, InsertEffect, ConstantsOK DEF ShapeInv, Inserts
<1>2. CASE \E r \in Requests : Row(r)
  <2> PICK r \in Requests : Row(r)
    BY <1>2
  <2>1. req[r].x.id \in Users /\ req[r].x.row \in Row_
    BY RowEffect DEF Copies
  <2>2. users' = users \/ users' = [users EXCEPT ![req[r].x.id] = req[r].x.row]
    BY RowEffect
  <2> QED BY <2>1, <2>2, ConstantsOK DEF ShapeInv
<1>3. CASE \E p \in Providers : delete_provider(p)
  <2>1. \A w \in Row_ : [w EXCEPT !.prov = None] \in Row_
    BY DEF Row_
  <2> QED BY <1>3, <2>1, ConstantsOK DEF delete_provider, ShapeInv
<1>4. CASE UNCHANGED users
  BY <1>4
<1> QED BY <1>1, <1>2, <1>3, <1>4, Actions
    DEF login_start, post_provider_link, RejectFinish, login_finish, provider_unlink, update, Token,
        validate_update_user, CacheOld, CacheId, CacheEmail, CacheFails, Code, Timeout

\* A request that goes on with a copy of a user who exists
LEMMA RequestAlive ==
    ASSUME ShapeInv, AliveInv, Next, NEW r \in Requests,
           \/ Ends(r)
           \/ \E w : Goes(r, w) /\ (w.x = None \/ (w.x.id \in Users /\ users'[w.x.id] # None))
    PROVE  \A q \in Requests : Active(q)' /\ req'[q].x # None => users'[req'[q].x.id] # None
<1>1. \A q \in Requests \ {r} : req'[q] = req[q]
  BY DEF Ends, Goes, ShapeInv
<1>2. ASSUME NEW q \in Requests \ {r}, Active(q)', req'[q].x # None
      PROVE  users'[req'[q].x.id] # None
  <2>1. Active(q) /\ req[q].x # None
    BY <1>1, <1>2 DEF Active
  <2>2. req[q].x \in Copies
    BY <2>1 DEF ShapeInv, Work, Active
  <2> QED BY <1>1, <2>1, <2>2, UsersStay DEF AliveInv, Copies
<1>3. CASE Ends(r)
  BY <1>2, <1>3 DEF Ends, Active, ShapeInv
<1>4. CASE \E w : Goes(r, w) /\ (w.x = None \/ (w.x.id \in Users /\ users'[w.x.id] # None))
  BY <1>2, <1>4 DEF Goes, ShapeInv
<1> QED BY <1>3, <1>4

\* Every step keeps that there are only copies of users who exist.
LEMMA AliveStep == ShapeInv /\ AliveInv /\ [Next]_vars => AliveInv'
<1> SUFFICES ASSUME ShapeInv, AliveInv, [Next]_vars PROVE AliveInv'
  OBVIOUS
<1> USE DEF caches, browser, history
<1>0. CASE UNCHANGED vars
  BY <1>0 DEF vars, AliveInv, Active
<1> SUFFICES ASSUME Next PROVE AliveInv'
  BY <1>0
<1> DEFINE Ids == \A u \in Users : byId'[u] # None => users'[u] # None
           Mails == \A e \in Emails : byEmail'[e] # None => users'[byEmail'[e].id] # None
           Reqs == \A q \in Requests : Active(q)' /\ req'[q].x # None => users'[req'[q].x.id] # None
<1>a. ASSUME Ids, Mails, Reqs PROVE AliveInv'
  BY <1>a DEF AliveInv, Active
<1>b. UNCHANGED byId => Ids
  BY UsersStay DEF AliveInv
<1>c. UNCHANGED byEmail => Mails
  BY UsersStay DEF AliveInv, ShapeInv, Copies
<1>d. UNCHANGED req => Reqs
  <2> SUFFICES ASSUME UNCHANGED req, NEW q \in Requests, Active(q), req[q].x # None
               PROVE  users'[req[q].x.id] # None
    BY DEF Active
  <2>1. req[q].x \in Copies
    BY DEF ShapeInv, Work, Active
  <2> QED BY <2>1, UsersStay DEF AliveInv, Copies
<1>e. ASSUME NEW u \in Users, users[u] # None, byId' = [byId EXCEPT ![u] = Find(u)] PROVE Ids
  BY <1>e, UsersStay DEF AliveInv, ShapeInv
<1> HIDE DEF Ids, Mails, Reqs
<1>1. CASE \E b \in Browsers, p \in Providers : login_start(b, p)
  BY <1>1, <1>a, <1>b, <1>c, <1>d DEF login_start
<1>2. CASE \E b \in Browsers, p \in Providers, q \in Providers : post_provider_link(b, q, p)
  <2> PICK b \in Browsers, p \in Providers, q \in Providers : post_provider_link(b, q, p)
    BY <1>2
  <2>1. SessionUser[b] \in Users /\ Find(SessionUser[b]) # None
    BY ConstantsOK DEF post_provider_link
  <2>2. byId' = [byId EXCEPT ![SessionUser[b]] = Find(SessionUser[b])]
    BY <2>1, FindType DEF post_provider_link
  <2>3. Ids
    BY <2>1, <2>2, <1>e, ReadsAlive
  <2> QED BY <2>3, <1>a, <1>c, <1>d DEF post_provider_link
<1>3. CASE \E b \in Browsers, state \in Callbacks, wrong \in BOOLEAN : RejectFinish(b, state, wrong)
  BY <1>3, <1>a, <1>b, <1>c, <1>d DEF RejectFinish
<1>4. CASE \E r \in Requests, b \in Browsers : login_finish(r, b)
  <2> PICK r \in Requests, b \in Browsers : login_finish(r, b)
    BY <1>4
  <2>1. Reqs
    BY FinishEffect, RequestAlive DEF Reqs
  <2> QED BY <2>1, <1>a, <1>b, <1>c DEF login_finish
<1>5. CASE \E r \in Requests, u \in Users : provider_unlink(r, u)
  <2> PICK r \in Requests, u \in Users : provider_unlink(r, u)
    BY <1>5
  <2>1. users[u] # None /\ users'[u] # None
    BY ReadsAlive, UsersStay DEF provider_unlink
  <2>2. Reqs
    BY <2>1, UnlinkEffect, RequestAlive DEF Reqs
  <2>3. Ids
    BY <2>1, <1>e DEF provider_unlink
  <2> QED BY <2>2, <2>3, <1>a, <1>c DEF provider_unlink
<1>6. CASE \E r \in Requests, u \in Users, e \in Emails, admin \in BOOLEAN : update(r, u, e, admin)
  <2> PICK r \in Requests, u \in Users, e \in Emails, admin \in BOOLEAN : update(r, u, e, admin)
    BY <1>6
  <2>1. users[u] # None /\ users'[u] # None
    BY ReadsAlive, UsersStay DEF update
  <2>2. Reqs
    BY <2>1, UpdateEffect, RequestAlive DEF Reqs
  <2>3. Ids
    BY <2>1, <1>e DEF update
  <2> QED BY <2>2, <2>3, <1>a, <1>c DEF update
<1>7. CASE \E r \in Requests : Token(r)
  <2> PICK r \in Requests : Token(r)
    BY <1>7
  <2>1. Reqs
    BY TokenEffect, RequestAlive DEF Reqs
  <2> QED BY <2>1, <1>a, <1>b, <1>c DEF Token
<1>8. CASE \E r \in Requests : validate_update_user(r)
  <2> PICK r \in Requests : validate_update_user(r)
    BY <1>8
  <2> DEFINE e == req[r].claims.email
  <2>1. /\ UNCHANGED <<users, byId>>
        /\ byEmail' = byEmail \/ byEmail' = [byEmail EXCEPT ![e] = FindByEmail(e)]
    BY DEF validate_update_user
  <2>2. e \in Emails /\ req[r].c.prov \in Providers
    BY ValidateEffect, ConstantsOK DEF CallbackData
  <2>3. Mails
    BY <2>1, <2>2, ReadsAlive DEF AliveInv, ShapeInv, Mails
  <2>4. \A y \in Copies : Found(r, y) => users[y.id] # None
    BY <2>2, ReadsAlive, FederationType DEF Found
  <2>5. Reqs
    <3>1. CASE Ends(r)
      BY <3>1, RequestAlive DEF Reqs
    <3>2. CASE \E w : Goes(r, w) /\ w.x = None
      BY <3>2, RequestAlive DEF Reqs
    <3>3. CASE \E w, y : /\ Goes(r, w) /\ y \in Copies /\ Found(r, y)
                         /\ w.x = Updated(y, req[r].c.prov, req[r].claims)
      <4> PICK w, y : /\ Goes(r, w) /\ y \in Copies /\ Found(r, y)
                      /\ w.x = Updated(y, req[r].c.prov, req[r].claims)
        BY <3>3
      <4>1. req[r].claims \in Claims
        BY ValidateEffect
      <4>2. w.x.id = y.id /\ y.id \in Users
        BY <2>2, <4>1, UpdatedType DEF Copies
      <4> QED BY <2>1, <2>4, <4>2, RequestAlive DEF Reqs
    <3> QED BY <3>1, <3>2, <3>3, ValidateEffect
  <2> QED BY <2>1, <2>3, <2>5, <1>a, <1>b
<1>9. CASE \E r \in Requests : Insert(r)
  <2> PICK r \in Requests : Insert(r)
    BY <1>9
  <2>1. Reqs
    <3>1. CASE \E u \in Users, w \in Work : Inserts(r, u, w)
      BY <3>1, RequestAlive, ConstantsOK DEF ShapeInv, Reqs, Inserts
    <3>2. CASE Ends(r)
      BY <3>2, RequestAlive DEF Reqs
    <3> QED BY <3>1, <3>2, InsertEffect
  <2> QED BY <2>1, <1>a, <1>b, <1>c DEF Insert
<1>10. CASE \E r \in Requests : Row(r)
  <2> PICK r \in Requests : Row(r)
    BY <1>10
  <2>1. req[r].x.id \in Users /\ users[req[r].x.id] # None
    BY RowEffect, ConstantsOK DEF AliveInv, Copies
  <2>2. Reqs
    <3>1. Ends(r) \/ \E w : Goes(r, w) /\ w.x = req[r].x
      BY RowEffect
    <3>2. users'[req[r].x.id] # None
      BY <2>1, UsersStay
    <3> QED BY <2>1, <3>1, <3>2, RequestAlive DEF Reqs
  <2> QED BY <2>2, <1>a, <1>b, <1>c DEF Row
<1>11. CASE \E r \in Requests : CacheOld(r) \/ CacheId(r) \/ CacheEmail(r)
  <2> PICK r \in Requests : CacheOld(r) \/ CacheId(r) \/ CacheEmail(r)
    BY <1>11
  <2> DEFINE x == req[r].x
  <2>1. x.id \in Users /\ users[x.id] # None /\ UNCHANGED users
    BY CacheEffect, CacheWrites, ConstantsOK DEF AliveInv, Copies
  <2>2. byId' = byId \/ byId' = [byId EXCEPT ![x.id] = x]
    BY CacheWrites
  <2>3. \A e \in Emails : byEmail'[e] \in {x, None, byEmail[e]}
    BY CacheWrites
  <2>4. Reqs
    <3>1. Ends(r) \/ \E w : Goes(r, w) /\ w.x = x
      BY CacheEffect
    <3> QED BY <2>1, <3>1, RequestAlive DEF Reqs
  <2> HIDE DEF x
  <2>5. Ids
    BY <2>1, <2>2 DEF AliveInv, ShapeInv, Ids
  <2>6. Mails
    BY <2>1, <2>3 DEF AliveInv, Mails
  <2> QED BY <2>4, <2>5, <2>6, <1>a
<1>16. CASE \E r \in Requests : CacheFails(r)
  <2> PICK r \in Requests : CacheFails(r)
    BY <1>16
  <2>1. Ends(r) /\ UNCHANGED <<byId, byEmail>>
    BY FailEffect
  <2>2. Reqs
    BY <2>1, RequestAlive DEF Reqs
  <2> QED BY <2>1, <2>2, <1>a, <1>b, <1>c
<1>12. CASE \E r \in Requests : Code(r)
  <2> PICK r \in Requests : Code(r)
    BY <1>12
  <2>1. Ends(r) /\ UNCHANGED <<byId, byEmail>>
    BY DEF Code, Abort, Ends
  <2>2. Reqs
    BY <2>1, RequestAlive DEF Reqs
  <2> QED BY <2>1, <2>2, <1>a, <1>b, <1>c
<1>13. CASE \E p \in Providers : delete_provider(p)
  BY <1>13, <1>a, <1>b, <1>c, <1>d DEF delete_provider
<1>14. CASE \E cb \in Callbacks : Timeout(cb)
  BY <1>14, <1>a, <1>b, <1>c, <1>d DEF Timeout
<1> QED BY <1>1, <1>2, <1>3, <1>4, <1>5, <1>6, <1>7, <1>8, <1>9, <1>10, <1>11, <1>12, <1>13, <1>14, <1>16, Actions

-----------------------------------------------------------------------------
\* Administrators

\* Who works on a user after a request went on or ended
LEMMA Workers ==
    ASSUME ShapeInv, NEW r \in Requests, Ends(r) \/ \E w : Goes(r, w), NEW u \in Users
    PROVE  /\ \A q \in Requests \ {r} : req'[q] = req[q] /\ (WorksOn(q, u)' <=> WorksOn(q, u))
           /\ Ends(r) => ~WorksOn(r, u)'
           /\ \A w : Goes(r, w) => req'[r] = w /\ (WorksOn(r, u)' <=> w.x # None /\ w.x.id = u)
<1>1. \A q \in Requests \ {r} : req'[q] = req[q]
  BY DEF Ends, Goes, ShapeInv
<1>2. \A q \in Requests \ {r} : WorksOn(q, u)' <=> WorksOn(q, u)
  BY <1>1 DEF WorksOn, Active
<1>3. Ends(r) => ~WorksOn(r, u)'
  BY DEF Ends, WorksOn, Active, ShapeInv
<1>4. ASSUME NEW w, Goes(r, w) PROVE req'[r] = w /\ (WorksOn(r, u)' <=> w.x # None /\ w.x.id = u)
  <2>1. req'[r] = w /\ w # Idle
    BY <1>4, WorkNotIdle DEF Goes, ShapeInv
  <2> QED BY <2>1 DEF WorksOn, Active
<1> QED BY <1>1, <1>2, <1>3, <1>4

\* The reads give a current copy of a user whom no request is about to cache.
LEMMA ReadsCurrent ==
    ASSUME ShapeInv, AliveInv, NEW u \in Users, SoleInv(u), \A q \in Requests : ~WorksOn(q, u)
    PROVE  /\ Find(u) # None => Current(Find(u), u)
           /\ \A e \in Emails : FindByEmail(e) # None /\ FindByEmail(e).id = u => Current(FindByEmail(e), u)
           /\ \A p, uid : LET x == find_by_federation(p, uid) IN x # None /\ x.id = u => Current(x, u)
<1>1. \A q \in Requests : ~Caching(q, u)
  BY DEF Caching
<1>2. Copy(u) # None => Current(Copy(u), u)
  BY DEF Copy, SoleInv, Current
<1>3. Find(u) # None => Current(Find(u), u)
  BY <1>1, <1>2 DEF Find, SoleInv
<1>4. ASSUME NEW e \in Emails, FindByEmail(e) # None, FindByEmail(e).id = u PROVE Current(FindByEmail(e), u)
  <2>1. CASE byEmail[e] # None
    BY <1>1, <1>4, <2>1 DEF FindByEmail, SoleInv
  <2>2. CASE byEmail[e] = None
    <3> DEFINE us == {v \in Users : users[v] # None /\ users[v].email = e}
               v == CHOOSE x \in us : TRUE
    <3>1. FindByEmail(e) = Copy(v) /\ Copy(v) # None
      BY <1>4, <2>2 DEF FindByEmail
    <3> HIDE DEF v
    <3>2. v = u
      BY <1>4, <3>1 DEF Copy
    <3> QED BY <1>2, <3>1, <3>2
  <2> QED BY <2>1, <2>2
<1>5. ASSUME NEW p, NEW uid, find_by_federation(p, uid) # None, find_by_federation(p, uid).id = u
      PROVE  Current(find_by_federation(p, uid), u)
  BY <1>5, FederationType DEF Current, SoleInv
<1> QED BY <1>3, <1>4, <1>5

\* A step that neither saves the user nor takes a new copy of it to work on
LEMMA SoleKept ==
    ASSUME ShapeInv, ShapeInv', NEW u \in Users, SoleInv(u),
           users'[u].admin = users[u].admin /\ users'[u].email = users[u].email,
           users'[u] = None <=> users[u] = None,
           decided'[u] = decided[u],
           byId'[u] \in {byId[u], Copy(u)},
           \A e \in Emails : byEmail'[e] # None /\ byEmail'[e].id = u => byEmail'[e] \in {byEmail[e], Copy(u)},
           \A q \in Requests : WorksOn(q, u)' => WorksOn(q, u) /\ req'[q] = req[q],
           \A q \in Requests : Caching(q, u) => req'[q] = req[q]
    PROVE  SoleInv(u)'
<1>1. \A q, r \in Requests : WorksOn(q, u)' /\ WorksOn(r, u)' => q = r
  BY DEF SoleInv
<1>2. users'[u] # None => users'[u].admin = decided'[u]
  BY DEF SoleInv
<1>3. \A r \in Requests :
        /\ \A s \in {"row", "mail"} : At(r, u, s)' => At(r, u, s) /\ req'[r] = req[r]
        /\ Caching(r, u)' => Caching(r, u) /\ req'[r] = req[r]
  BY DEF At, Caching
<1>4. ASSUME NEW r \in Requests, At(r, u, "row")'
      PROVE  /\ req'[r].x.row.admin = Decision(req[r], u)'
             /\ users'[u].email = IF req'[r].old = None THEN req'[r].x.row.email ELSE req'[r].old
  BY <1>3, <1>4 DEF SoleInv, Decision
<1>5. \A x : Current(x, u)' <=> Current(x, u)
  BY DEF Current
<1>6. Copy(u) # None => Current(Copy(u), u)
  BY DEF Copy, SoleInv, Current
<1>7. ASSUME NEW r \in Requests, Caching(r, u)'
      PROVE  /\ Current(req[r].x, u)'
             /\ \A e \in Emails : byEmail'[e] # None /\ byEmail'[e].id = u => e \in Places(req[r])'
  <2>1. Caching(r, u) /\ req'[r] = req[r] /\ Current(req[r].x, u)
    BY <1>3, <1>7 DEF SoleInv
  <2>2. Current(req[r].x, u)'
    BY <2>1 DEF Current
  <2>3. ASSUME NEW e \in Emails, byEmail'[e] # None, byEmail'[e].id = u PROVE e \in Places(req[r])
    <3>1. CASE byEmail'[e] = byEmail[e]
      BY <2>1, <2>3, <3>1 DEF SoleInv
    <3>2. CASE byEmail'[e] = Copy(u)
      <4>1. byEmail'[e].row.email = e
        BY <2>3 DEF ShapeInv
      <4> QED BY <1>6, <2>1, <2>3, <3>2, <4>1 DEF Current, Places
    <3> QED BY <2>3, <3>1, <3>2
  <2>4. Places(req[r])' = Places(req[r])
    BY <2>1 DEF Places
  <2> QED BY <2>1, <2>2, <2>3, <2>4
<1>9. ASSUME NEW r \in Requests, At(r, u, "mail")', byId'[u] # None
      PROVE  Current(byId[u], u)'
  <2>1. At(r, u, "mail")
    BY <1>3, <1>9
  <2>2. byId[u] # None => Current(byId[u], u)
    BY <2>1 DEF SoleInv
  <2>3. Current(byId'[u], u)
    BY <1>6, <1>9, <2>2
  <2> QED BY <2>3 DEF Current
<1>8. ASSUME \A r \in Requests : ~Caching(r, u)'
      PROVE  /\ byId'[u] # None => Current(byId[u], u)'
             /\ \A e \in Emails : byEmail'[e] # None /\ byEmail'[e].id = u => Current(byEmail[e], u)'
  <2>1. \A r \in Requests : ~Caching(r, u)
    <3> SUFFICES ASSUME NEW r \in Requests, Caching(r, u) PROVE FALSE
      OBVIOUS
    <3>1. req'[r] = req[r]
      OBVIOUS
    <3> QED BY <1>8, <3>1 DEF Caching, WorksOn, Active
  <2>2. byId[u] # None => Current(byId[u], u)
    BY <2>1 DEF SoleInv
  <2>3. \A e \in Emails : byEmail[e] # None /\ byEmail[e].id = u => Current(byEmail[e], u)
    BY <2>1 DEF SoleInv
  <2>4. byId'[u] # None => Current(byId'[u], u)
    BY <1>6, <2>2
  <2>5. \A e \in Emails : byEmail'[e] # None /\ byEmail'[e].id = u => Current(byEmail'[e], u)
    BY <1>6, <2>3
  <2> QED BY <2>4, <2>5 DEF Current
<1> QED BY <1>1, <1>2, <1>4, <1>7, <1>8, <1>9 DEF SoleInv

\* A request takes a copy of a user nobody works on, to save it.
LEMMA SoleTaken ==
    ASSUME ShapeInv, NEW u \in Users, SoleInv(u), \A q \in Requests : ~WorksOn(q, u),
           NEW r \in Requests, NEW w, Goes(r, w), Head(w.steps) = "row", w.x.id = u,
           w.x.row.admin = Decision(w, u),
           users[u].email = IF w.old = None THEN w.x.row.email ELSE w.old,
           UNCHANGED <<users, decided>>,
           byId'[u] \in {byId[u], Copy(u)},
           \A e \in Emails : byEmail'[e] # None /\ byEmail'[e].id = u => byEmail'[e] \in {byEmail[e], Copy(u)}
    PROVE  SoleInv(u)'
<1>1. req'[r] = w /\ \A q \in Requests \ {r} : ~WorksOn(q, u)'
  BY Workers
<1>2. \A q \in Requests : ~Caching(q, u)' /\ ~At(q, u, "mail")'
  BY <1>1 DEF At, Caching
<1>3. \A q \in Requests : At(q, u, "row")' => q = r
  BY <1>1 DEF At
<1>4. Decision(req[r], u)' = Decision(w, u)
  BY <1>1 DEF Decision
<1>5. Copy(u) # None => Current(Copy(u), u)
  BY DEF Copy, SoleInv, Current
<1>6. \A q \in Requests : ~Caching(q, u)
  BY DEF Caching
<1>7. /\ byId[u] # None => Current(byId[u], u)
      /\ \A e \in Emails : byEmail[e] # None /\ byEmail[e].id = u => Current(byEmail[e], u)
  BY <1>6 DEF SoleInv
<1>8. byId'[u] # None => Current(byId'[u], u)
  BY <1>5, <1>7
<1>9. \A e \in Emails : byEmail'[e] # None /\ byEmail'[e].id = u => Current(byEmail'[e], u)
  BY <1>5, <1>7
<1>10. /\ byId'[u] # None => Current(byId[u], u)'
       /\ \A e \in Emails : byEmail'[e] # None /\ byEmail'[e].id = u => Current(byEmail[e], u)'
  BY <1>8, <1>9 DEF Current
<1>11. users'[u] # None => users'[u].admin = decided'[u]
  BY DEF SoleInv
<1>12. \A q \in Requests : At(q, u, "row")' =>
         /\ req'[q].x.row.admin = Decision(req[q], u)'
         /\ users'[u].email = IF req'[q].old = None THEN req'[q].x.row.email ELSE req'[q].old
  BY <1>1, <1>3, <1>4
<1>13. \A q, t \in Requests : WorksOn(q, u)' /\ WorksOn(t, u)' => q = t
  BY <1>1
<1> QED BY <1>2, <1>10, <1>11, <1>12, <1>13 DEF SoleInv

\* A copy that a request takes of a user not spoilt by it is the only one.
LEMMA TakenAlone ==
    ASSUME NEW r \in Requests, NEW x, x # None, Spoil(r, x), x.id \notin spoilt', ~Active(r) \/ req[r].x = None
    PROVE  \A q \in Requests : ~WorksOn(q, x.id)
BY DEF Spoil, WorksOn

\* Users that two requests worked on stay marked.
LEMMA SpoiltGrows == [Next]_vars => spoilt \subseteq spoilt'
<1> SUFFICES ASSUME [Next]_vars PROVE spoilt \subseteq spoilt'
  OBVIOUS
<1>1. \A r, x : Spoil(r, x) => spoilt \subseteq spoilt'
  BY DEF Spoil
<1> QED BY <1>1, Actions
    DEF vars, history, login_start, post_provider_link, RejectFinish, login_finish, provider_unlink, update, Token,
        validate_update_user, Insert, Row, CacheOld, CacheId, CacheEmail, CacheFails, Code, delete_provider, Timeout

\* What a read through the cache by id puts there
LEMMA FindIsCopy == \A u \in Users : Find(u) \in {byId[u], Copy(u)}
BY DEF Find

\* What a read through the cache by e-mail puts there
LEMMA MailIsCopy ==
    ASSUME ShapeInv, NEW e \in Emails, FindByEmail(e) # None
    PROVE  FindByEmail(e) \in {byEmail[e], Copy(FindByEmail(e).id)}
<1>1. CASE byEmail[e] # None
  BY <1>1 DEF FindByEmail
<1>2. CASE byEmail[e] = None
  <2> DEFINE us == {v \in Users : users[v] # None /\ users[v].email = e}
             v == CHOOSE x \in us : TRUE
  <2>1. FindByEmail(e) = Copy(v) /\ Copy(v) # None
    BY <1>2 DEF FindByEmail
  <2> HIDE DEF v
  <2>2. Copy(v).id = v
    BY <2>1 DEF Copy
  <2> QED BY <2>1, <2>2
<1> QED BY <1>1, <1>2

\* The steps of the logins and of the other requests, for a user who stays unspoilt
LEMMA SoleValidate ==
    ASSUME ShapeInv, ShapeInv', AliveInv, NEW u \in Users, u \notin spoilt', SoleInv(u), NEW r \in Requests, validate_update_user(r)
    PROVE  SoleInv(u)'
<1> USE DEF caches, browser, history
<1> DEFINE e == req[r].claims.email
<1>1. /\ UNCHANGED <<users, byId, decided>>
      /\ byEmail' = byEmail \/ byEmail' = [byEmail EXCEPT ![e] = FindByEmail(e)]
  BY DEF validate_update_user
<1>2. e \in Emails /\ req[r].c.prov \in Providers /\ req[r].claims \in Claims /\ req[r].x = None /\ Active(r)
  BY ValidateEffect, ConstantsOK DEF CallbackData
<1>3. \A d \in Emails : byEmail'[d] # None /\ byEmail'[d].id = u => byEmail'[d] \in {byEmail[d], Copy(u)}
  BY <1>1, <1>2, MailIsCopy DEF ShapeInv
<1>4. ~WorksOn(r, u)
  BY <1>2 DEF WorksOn
<1>5. \A q \in Requests \ {r} : req'[q] = req[q] /\ (WorksOn(q, u)' <=> WorksOn(q, u))
  BY ValidateEffect, Workers
<1>6. ASSUME ~WorksOn(r, u)' PROVE SoleInv(u)'
  <2>1. \A q \in Requests : WorksOn(q, u)' => WorksOn(q, u) /\ req'[q] = req[q]
    BY <1>5, <1>6
  <2>2. \A q \in Requests : Caching(q, u) => req'[q] = req[q]
    BY <1>4, <1>5 DEF Caching
  <2> QED BY <1>1, <1>3, <2>1, <2>2, SoleKept
<1>7. CASE Ends(r)
  BY <1>6, <1>7, Workers
<1>8. CASE \E w : Goes(r, w) /\ w.x = None
  BY <1>6, <1>8, Workers
<1>9. CASE \E w, y :
             /\ Goes(r, w) /\ w.steps = <<"row", "old", "id", "mail", "code">>
             /\ w.sets = (req[r].c.prov \in AdminMapped) /\ w.role = req[r].claims.admin
             /\ y \in Copies /\ Found(r, y)
             /\ w.x = Updated(y, req[r].c.prov, req[r].claims)
             /\ w.old = OldEmail(y, req[r].claims.email)
             /\ Spoil(r, y)
  <2> PICK w, y :
             /\ Goes(r, w) /\ w.steps = <<"row", "old", "id", "mail", "code">>
             /\ w.sets = (req[r].c.prov \in AdminMapped) /\ w.role = req[r].claims.admin
             /\ y \in Copies /\ Found(r, y)
             /\ w.x = Updated(y, req[r].c.prov, req[r].claims)
             /\ w.old = OldEmail(y, req[r].claims.email)
             /\ Spoil(r, y)
    BY <1>9
  <2>1. /\ w.x.id = y.id /\ w.x.row.email = e
        /\ w.x.row.admin = ShouldBeAdmin(y.row, req[r].c.prov, req[r].claims)
    BY <1>2, UpdatedType
  <2>2. CASE y.id # u
    <3>1. ~WorksOn(r, u)'
      BY <2>1, <2>2, Workers
    <3> QED BY <1>6, <3>1
  <2>3. CASE y.id = u
    <3>1. y # None
      BY ConstantsOK DEF Copies
    <3>2. \A q \in Requests : ~WorksOn(q, u)
      BY <1>2, <2>3, <3>1, TakenAlone
    <3>3. Current(y, u)
      <4>1. CASE y = find_by_federation(req[r].c.prov, req[r].claims.uid)
        BY <2>3, <3>1, <3>2, <4>1, ReadsCurrent
      <4>2. CASE y = FindByEmail(e)
        BY <1>2, <2>3, <3>1, <3>2, <4>2, ReadsCurrent
      <4> QED BY <4>1, <4>2 DEF Found
    <3>4. Head(w.steps) = "row"
      BY Heads, KindsOfSteps
    <3>6. w.x.row.admin = Decision(w, u)
      BY <2>1, <3>3 DEF Decision, ShouldBeAdmin, Current
    <3>7. users[u].email = IF w.old = None THEN w.x.row.email ELSE w.old
      <4>1. y.row.email # None
        BY ConstantsOK DEF Copies, Row_
      <4> QED BY <2>1, <3>3, <4>1 DEF Current, OldEmail
    <3> QED BY <1>1, <1>3, <2>1, <2>3, <3>2, <3>4, <3>6, <3>7, SoleTaken
  <2> QED BY <2>2, <2>3
<1> QED BY <1>7, <1>8, <1>9, ValidateEffect

\* A request that unlinks or updates user v begins: what holds of a user u stays.
LEMMA SoleOther ==
    ASSUME ShapeInv, ShapeInv', AliveInv, NEW u \in Users, u \notin spoilt', SoleInv(u), NEW r \in Requests,
           NEW v \in Users, ~Active(r), Find(v) # None, Find(v).id = v,
           byId' = [byId EXCEPT ![v] = Find(v)], Spoil(r, Find(v)), UNCHANGED <<users, byEmail, decided>>,
           NEW w, Goes(r, w), w.steps = <<"row", "old", "id", "mail">>, w.x.id = v,
           w.x.row.admin = IF w.sets THEN w.role ELSE Find(v).row.admin,
           Find(v).row.email = IF w.old = None THEN w.x.row.email ELSE w.old
    PROVE  SoleInv(u)'
<1>1. byId'[u] \in {byId[u], Copy(u)}
  BY FindIsCopy DEF ShapeInv
<1>2. ~WorksOn(r, u)
  BY DEF WorksOn
<1>3. \A q \in Requests \ {r} : req'[q] = req[q] /\ (WorksOn(q, u)' <=> WorksOn(q, u))
  BY Workers
<1>4. CASE v # u
  <2>1. ~WorksOn(r, u)'
    BY <1>4, Workers
  <2>2. \A q \in Requests : WorksOn(q, u)' => WorksOn(q, u) /\ req'[q] = req[q]
    BY <1>3, <2>1
  <2>3. \A q \in Requests : Caching(q, u) => req'[q] = req[q]
    BY <1>2, <1>3 DEF Caching
  <2> QED BY <1>1, <2>2, <2>3, SoleKept
<1>5. CASE v = u
  <2>1. \A q \in Requests : ~WorksOn(q, u)
    BY <1>5, TakenAlone
  <2>2. Current(Find(u), u)
    BY <1>5, <2>1, ReadsCurrent
  <2>3. Head(w.steps) = "row"
    BY Heads, KindsOfSteps
  <2>4. w.x.row.admin = Decision(w, u)
    BY <1>5, <2>2 DEF Decision, Current
  <2>5. users[u].email = IF w.old = None THEN w.x.row.email ELSE w.old
    BY <1>5, <2>2 DEF Current
  <2> QED BY <1>1, <1>5, <2>1, <2>3, <2>4, <2>5, SoleTaken
<1> QED BY <1>4, <1>5

\* The user is saved: what comes next is to cache it.
LEMMA SoleRow ==
    ASSUME ShapeInv, ShapeInv', AliveInv, NEW u \in Users, SoleInv(u), NEW r \in Requests, Row(r)
    PROVE  SoleInv(u)'
<1> USE DEF caches, browser, history
<1> DEFINE x == req[r].x
<1>1. UNCHANGED <<byId, byEmail>>
  BY DEF Row
<1>2. Active(r) /\ x \in Copies /\ Head(req[r].steps) = "row" /\ x # None
  BY RowEffect, ConstantsOK DEF Copies
<1>3. x.id \in Users /\ users[x.id] # None /\ WorksOn(r, x.id)
  BY <1>2 DEF AliveInv, Copies, WorksOn
<1>4. \A q \in Requests \ {r} : req'[q] = req[q] /\ (WorksOn(q, u)' <=> WorksOn(q, u))
  BY RowEffect, Workers
<1>5. \A q \in Requests : Caching(q, u) => req'[q] = req[q]
  BY <1>2, <1>4 DEF Caching
<1>6. CASE Ends(r) /\ UNCHANGED <<users, decided>>
  <2>1. \A q \in Requests : WorksOn(q, u)' => WorksOn(q, u) /\ req'[q] = req[q]
    BY <1>4, <1>6, Workers
  <2> QED BY <1>1, <1>5, <1>6, <2>1, SoleKept
<1>7. CASE \E w :
             /\ Goes(r, w) /\ w.x = x /\ w.old = req[r].old
             /\ Head(w.steps) = IF w.old = None THEN "id" ELSE "old"
             /\ users' = IF users[w.x.id] = None THEN users ELSE [users EXCEPT ![w.x.id] = w.x.row]
             /\ decided' = [decided EXCEPT ![w.x.id] = Decision(req[r], w.x.id)]
  <2> PICK w :
             /\ Goes(r, w) /\ w.x = x /\ w.old = req[r].old
             /\ Head(w.steps) = IF w.old = None THEN "id" ELSE "old"
             /\ users' = IF users[w.x.id] = None THEN users ELSE [users EXCEPT ![w.x.id] = w.x.row]
             /\ decided' = [decided EXCEPT ![w.x.id] = Decision(req[r], w.x.id)]
    BY <1>7
  <2>1. users' = [users EXCEPT ![x.id] = x.row] /\ decided' = [decided EXCEPT ![x.id] = Decision(req[r], x.id)]
    BY <1>3
  <2>2. req'[r] = w /\ (WorksOn(r, u)' <=> x.id = u)
    BY <1>2, Workers
  <2>3. CASE x.id # u
    <3>1. users'[u] = users[u] /\ decided'[u] = decided[u]
      BY <1>3, <2>1, <2>3 DEF ShapeInv
    <3>2. \A q \in Requests : WorksOn(q, u)' => WorksOn(q, u) /\ req'[q] = req[q]
      BY <1>4, <2>2, <2>3
    <3> QED BY <1>1, <1>5, <3>1, <3>2, SoleKept
  <2>4. CASE x.id = u
    <3>1. \A q \in Requests \ {r} : ~WorksOn(q, u)
      BY <1>3, <2>4 DEF SoleInv
    <3>2. \A q \in Requests : WorksOn(q, u)' => q = r
      BY <1>4, <3>1
    <3>3. users'[u] = x.row /\ decided'[u] = Decision(req[r], u)
      BY <1>3, <2>1, <2>4 DEF ShapeInv
    <3>4. At(r, u, "row")
      BY <1>2, <1>3, <2>4 DEF At
    <3>5. /\ x.row.admin = Decision(req[r], u)
          /\ users[u].email = IF req[r].old = None THEN x.row.email ELSE req[r].old
      BY <3>4 DEF SoleInv
    <3>6. \A q \in Requests : ~Caching(q, u)
      BY <1>2, <3>1 DEF Caching
    <3>7. \A e \in Emails : byEmail[e] # None /\ byEmail[e].id = u => byEmail[e].row.email = users[u].email
      BY <3>6 DEF SoleInv, Current
    <3>8. \A e \in Emails : byEmail'[e] # None /\ byEmail'[e].id = u => e \in Places(w)
      BY <1>1, <3>5, <3>7 DEF ShapeInv, Places
    <3>9. Current(req[r].x, u)'
      BY <2>2, <3>3, <3>5 DEF Current
    <3>10. Caching(r, u)' /\ ~At(r, u, "row")' /\ ~At(r, u, "mail")'
      BY <2>2, <2>4 DEF At, Caching
    <3>11. \A q \in Requests : (At(q, u, "row")' \/ At(q, u, "mail")') => q = r
      BY <3>2 DEF At
    <3>12. \A q \in Requests : Caching(q, u)' => q = r
      BY <3>2 DEF Caching
    <3>13. users'[u] # None => users'[u].admin = decided'[u]
      BY <3>3, <3>5
    <3>14. \A q, t \in Requests : WorksOn(q, u)' /\ WorksOn(t, u)' => q = t
      BY <3>2
    <3>15. \A q \in Requests : Caching(q, u)' =>
             /\ Current(req[q].x, u)'
             /\ \A e \in Emails : byEmail'[e] # None /\ byEmail'[e].id = u => e \in Places(req[q])'
      <4>1. Places(req[r])' = Places(w)
        BY <2>2 DEF Places
      <4> QED BY <3>8, <3>9, <3>12, <4>1
    <3> QED BY <3>10, <3>11, <3>13, <3>14, <3>15 DEF SoleInv
  <2> QED BY <2>3, <2>4
<1> QED BY <1>6, <1>7, RowEffect

\* The caches get what was saved, and lose what was there.
LEMMA SoleCache ==
    ASSUME ShapeInv, ShapeInv', AliveInv, NEW u \in Users, SoleInv(u), NEW r \in Requests,
           CacheOld(r) \/ CacheId(r) \/ CacheEmail(r)
    PROVE  SoleInv(u)'
<1> USE DEF caches, browser, history
<1> DEFINE x == req[r].x
<1>1. UNCHANGED <<users, decided>>
  BY CacheWrites
<1>2. Active(r) /\ x \in Copies /\ x # None /\ Head(req[r].steps) \in {"old", "id", "mail"}
  <2>1. Head1(r) \in {"old", "id", "mail"}
    BY DEF CacheOld, CacheId, CacheEmail
  <2>2. Head(req[r].steps) = Head1(r)
    BY <2>1, AtStep
  <2> QED BY <2>1, <2>2, CacheEffect, ConstantsOK DEF Copies
<1>3. x.id \in Users /\ x.row.email \in Emails /\ WorksOn(r, x.id) /\ Caching(r, x.id)
  BY <1>2 DEF Copies, Row_, WorksOn, Caching
<1>4. /\ \A q \in Requests \ {r} : req'[q] = req[q] /\ (WorksOn(q, u)' <=> WorksOn(q, u))
      /\ WorksOn(r, u)' => x.id = u
  BY CacheEffect, Workers
<1>7. CASE x.id # u
  <2>1. byId'[u] = byId[u]
    BY <1>3, <1>7, CacheWrites DEF ShapeInv
  <2>2. \A e \in Emails : byEmail'[e] # None /\ byEmail'[e].id = u => byEmail'[e] \in {byEmail[e], Copy(u)}
    BY <1>7, CacheWrites
  <2>3. \A q \in Requests : WorksOn(q, u)' => WorksOn(q, u) /\ req'[q] = req[q]
    BY <1>4, <1>7
  <2>4. \A q \in Requests : Caching(q, u) => req'[q] = req[q]
    BY <1>4, <1>7 DEF Caching, WorksOn
  <2> QED BY <1>1, <2>1, <2>2, <2>3, <2>4, SoleKept
<1>8. CASE x.id = u
  <2>1. \A q \in Requests \ {r} : ~WorksOn(q, u)
    BY <1>3, <1>8 DEF SoleInv
  <2>2. \A q \in Requests : WorksOn(q, u)' => q = r
    BY <1>4, <2>1
  <2>3. /\ Current(x, u)
        /\ \A e \in Emails : byEmail[e] # None /\ byEmail[e].id = u => e \in Places(req[r])
    BY <1>3, <1>8 DEF SoleInv
  <2>4. users'[u] # None => users'[u].admin = decided'[u]
    BY <1>1 DEF SoleInv
  <2>5. \A q, t \in Requests : WorksOn(q, u)' /\ WorksOn(t, u)' => q = t
    BY <2>2
  <2>6. \A y : Current(y, u)' <=> Current(y, u)
    BY <1>1 DEF Current
  <2>7. CASE \E w : /\ Goes(r, w) /\ w.x = x /\ w.old = req[r].old
                    /\ CacheOld(r) /\ Head(req[r].steps) = "old" /\ Head(w.steps) = "id"
    <3> PICK w : /\ Goes(r, w) /\ w.x = x /\ w.old = req[r].old
                 /\ CacheOld(r) /\ Head(req[r].steps) = "old" /\ Head(w.steps) = "id"
      BY <2>7
    <3>1. req'[r] = w /\ Head(req'[r].steps) = "id"
      BY Workers
    <3>2. \A q \in Requests : Caching(q, u)' => q = r
      BY <2>2 DEF Caching
    <3>3. \A q \in Requests : ~At(q, u, "row")' /\ ~At(q, u, "mail")'
      BY <2>2, <3>1 DEF At
    <3>4. \A e \in Emails : byEmail'[e] = IF e = req[r].old THEN None ELSE byEmail[e]
      BY DEF CacheOld, WithoutOld, ShapeInv
    <3>5. Places(req[r])' = {x.row.email} /\ Places(req[r]) = {x.row.email, req[r].old}
      BY <3>1 DEF Places
    <3>6. \A e \in Emails : byEmail'[e] # None /\ byEmail'[e].id = u => e \in Places(req[r])'
      BY <2>3, <3>4, <3>5
    <3>7. Caching(r, u)'
      BY <1>2, <1>8, <3>1, Workers DEF Caching
    <3>8. Current(req[r].x, u)'
      BY <2>3, <3>1, <1>1 DEF Current
    <3> QED BY <2>4, <2>5, <3>2, <3>3, <3>6, <3>7, <3>8 DEF SoleInv
  <2>8. CASE \E w : /\ Goes(r, w) /\ w.x = x /\ w.old = req[r].old
                    /\ CacheId(r) /\ Head(req[r].steps) = "id" /\ Head(w.steps) = "mail"
    <3> PICK w : /\ Goes(r, w) /\ w.x = x /\ w.old = req[r].old
                 /\ CacheId(r) /\ Head(req[r].steps) = "id" /\ Head(w.steps) = "mail"
      BY <2>8
    <3>1. req'[r] = w /\ Head(req'[r].steps) = "mail"
      BY Workers
    <3>2. \A q \in Requests : Caching(q, u)' => q = r
      BY <2>2 DEF Caching
    <3>3. \A q \in Requests : ~At(q, u, "row")'
      BY <2>2, <3>1 DEF At
    <3>4. byEmail' = byEmail /\ byId'[u] = x
      BY <1>3, <1>8 DEF CacheId, ShapeInv
    <3>5. Places(req[r])' = {x.row.email} /\ Places(req[r]) = {x.row.email}
      BY <3>1 DEF Places
    <3>6. \A e \in Emails : byEmail'[e] # None /\ byEmail'[e].id = u => e \in Places(req[r])'
      BY <2>3, <3>4, <3>5
    <3>7. Caching(r, u)'
      BY <1>2, <1>8, <3>1, Workers DEF Caching
    <3>8. Current(req[r].x, u)' /\ Current(byId[u], u)'
      BY <2>3, <3>1, <3>4, <1>1 DEF Current
    <3> QED BY <2>4, <2>5, <3>2, <3>3, <3>6, <3>7, <3>8 DEF SoleInv
  <2>9. CASE CacheEmail(r)
    <3>1. /\ ~Caching(r, u)' /\ ~At(r, u, "row")' /\ ~At(r, u, "mail")'
          /\ Head(req[r].steps) = "mail"
      <4>1. Head1(r) = "mail"
        BY <2>9 DEF CacheEmail
      <4>2. Head(req[r].steps) = "mail"
        BY <4>1, AtStep
      <4>3. CASE Ends(r)
        BY <4>2, <4>3, Workers DEF At, Caching
      <4>4. CASE \E w : Goes(r, w) /\ Head(w.steps) = "code"
        BY <4>2, <4>4, Workers DEF At, Caching
      <4>5. Ends(r) \/ \E w : Goes(r, w) /\ Head(w.steps) = "code"
        BY <4>2, CacheEffect
      <4> QED BY <4>3, <4>4, <4>5
    <3>2. \A q \in Requests : ~Caching(q, u)' /\ ~At(q, u, "row")' /\ ~At(q, u, "mail")'
      BY <2>2, <3>1 DEF At, Caching
    <3>3. byId' = byId /\ \A e \in Emails : byEmail'[e] = IF e = x.row.email THEN x ELSE byEmail[e]
      BY <2>9 DEF CacheEmail, ShapeInv
    <3>4. At(r, u, "mail")
      BY <1>3, <1>8, <3>1 DEF At
    <3>5. byId[u] # None => Current(byId[u], u)
      BY <3>4 DEF SoleInv
    <3>6. Places(req[r]) = {x.row.email}
      BY <3>1 DEF Places
    <3>7. \A e \in Emails : byEmail'[e] # None /\ byEmail'[e].id = u => byEmail'[e] = x
      BY <2>3, <3>3, <3>6
    <3>8. /\ byId'[u] # None => Current(byId[u], u)'
          /\ \A e \in Emails : byEmail'[e] # None /\ byEmail'[e].id = u => Current(byEmail[e], u)'
      BY <1>1, <2>3, <3>3, <3>5, <3>7 DEF Current
    <3> QED BY <2>4, <2>5, <3>2, <3>8 DEF SoleInv
  <2> QED BY <2>7, <2>8, <2>9, CacheEffect
<1> QED BY <1>7, <1>8

\* A user is created, with nothing cached for the id.
LEMMA SoleInsert ==
    ASSUME ShapeInv, ShapeInv', AliveInv, NEW u \in Users, SoleInv(u), NEW r \in Requests, Insert(r)
    PROVE  SoleInv(u)'
<1> USE DEF caches, browser, history
<1>1. UNCHANGED <<byId, byEmail>> /\ Active(r) /\ req[r].x = None
  BY InsertEffect DEF Insert
<1>2. ~WorksOn(r, u)
  BY <1>1 DEF WorksOn
<1>3. \A q \in Requests \ {r} : req'[q] = req[q] /\ (WorksOn(q, u)' <=> WorksOn(q, u))
  BY InsertEffect, Workers DEF Inserts
<1>4. \A q \in Requests : Caching(q, u) => req'[q] = req[q]
  BY <1>2, <1>3 DEF Caching
<1>5. CASE Ends(r) /\ UNCHANGED <<users, consent, decided>>
  <2>1. \A q \in Requests : WorksOn(q, u)' => WorksOn(q, u) /\ req'[q] = req[q]
    BY <1>3, <1>5, Workers
  <2> QED BY <1>1, <1>4, <1>5, <2>1, SoleKept
<1>6. CASE \E v \in Users, w \in Work : Inserts(r, v, w)
  <2> PICK v \in Users, w \in Work : Inserts(r, v, w)
    BY <1>6
  <2>1. /\ users[v] = None /\ \A q \in Requests : ~WorksOn(q, v)
        /\ w.x.id = v /\ Goes(r, w) /\ Head(w.steps) = "code"
        /\ users' = [users EXCEPT ![v] = w.x.row]
        /\ decided' = [decided EXCEPT ![v] = w.x.row.admin]
    BY Heads, KindsOfSteps DEF Inserts
  <2>2. req'[r] = w /\ (WorksOn(r, u)' => v = u)
    BY <2>1, Workers
  <2>3. CASE v # u
    <3>1. users'[u] = users[u] /\ decided'[u] = decided[u]
      BY <2>1, <2>3 DEF ShapeInv
    <3>2. \A q \in Requests : WorksOn(q, u)' => WorksOn(q, u) /\ req'[q] = req[q]
      BY <1>3, <2>2, <2>3
    <3> QED BY <1>1, <1>4, <3>1, <3>2, SoleKept
  <2>4. CASE v = u
    <3>1. \A q \in Requests : WorksOn(q, u)' => q = r
      BY <1>3, <2>1, <2>4
    <3>2. \A q \in Requests : ~Caching(q, u)' /\ ~At(q, u, "row")' /\ ~At(q, u, "mail")'
      BY <2>1, <2>2, <3>1 DEF At, Caching
    <3>3. byId'[u] = None /\ \A e \in Emails : byEmail'[e] # None => byEmail'[e].id # u
      BY <1>1, <2>1, <2>4 DEF AliveInv
    <3>4. users'[u].admin = decided'[u]
      BY <2>1, <2>4 DEF ShapeInv
    <3>5. \A q, t \in Requests : WorksOn(q, u)' /\ WorksOn(t, u)' => q = t
      BY <3>1
    <3> QED BY <3>2, <3>3, <3>4, <3>5 DEF SoleInv
  <2> QED BY <2>3, <2>4
<1> QED BY <1>5, <1>6, InsertEffect

\* Every step keeps what holds of users no two requests worked on.
LEMMA AdminStep == ShapeInv /\ ShapeInv' /\ AliveInv /\ AdminInv /\ [Next]_vars => AdminInv'
<1> SUFFICES ASSUME ShapeInv, ShapeInv', AliveInv, AdminInv, [Next]_vars, NEW u \in Users, u \notin spoilt'
             PROVE  SoleInv(u)'
  BY DEF AdminInv
<1>0. SoleInv(u)
  BY SpoiltGrows DEF AdminInv
<1> USE DEF caches, browser, history
<1>a. ASSUME UNCHANGED <<users, byId, byEmail, decided, req>> PROVE SoleInv(u)'
  <2>1. \A q \in Requests : WorksOn(q, u)' <=> WorksOn(q, u)
    BY <1>a DEF WorksOn, Active
  <2> QED BY <1>0, <1>a, <2>1, SoleKept
<1>b. ASSUME NEW r \in Requests, ~Active(r) \/ req[r].x = None \/ Head(req[r].steps) = "code",
             UNCHANGED <<users, byId, byEmail, decided>>,
             Ends(r) \/ \E w : Goes(r, w) /\ w.x = None
      PROVE  SoleInv(u)'
  <2>1. \A q \in Requests \ {r} : req'[q] = req[q] /\ (WorksOn(q, u)' <=> WorksOn(q, u))
    BY <1>b, Workers
  <2>2. ~WorksOn(r, u)'
    BY <1>b, Workers
  <2>3. ~Caching(r, u)
    BY <1>b DEF Caching, WorksOn
  <2>4. \A q \in Requests : WorksOn(q, u)' => WorksOn(q, u) /\ req'[q] = req[q]
    BY <2>1, <2>2
  <2>5. \A q \in Requests : Caching(q, u) => req'[q] = req[q]
    BY <2>1, <2>3
  <2> QED BY <1>0, <1>b, <2>4, <2>5, SoleKept
<1>1. CASE \E b \in Browsers, p \in Providers : login_start(b, p)
  BY <1>1, <1>a DEF login_start
<1>2. CASE \E b \in Browsers, p \in Providers, q \in Providers : post_provider_link(b, q, p)
  <2> PICK b \in Browsers, p \in Providers, q \in Providers : post_provider_link(b, q, p)
    BY <1>2
  <2>1. SessionUser[b] \in Users /\ Find(SessionUser[b]) # None
    BY ConstantsOK DEF post_provider_link
  <2>2. byId' = [byId EXCEPT ![SessionUser[b]] = Find(SessionUser[b])]
    BY <2>1, FindType DEF post_provider_link
  <2>3. byId'[u] \in {byId[u], Copy(u)}
    BY <2>1, <2>2, FindIsCopy DEF ShapeInv
  <2>4. UNCHANGED <<users, byEmail, decided, req>>
    BY DEF post_provider_link
  <2>5. \A t \in Requests : WorksOn(t, u)' <=> WorksOn(t, u)
    BY <2>4 DEF WorksOn, Active
  <2> QED BY <1>0, <2>3, <2>4, <2>5, SoleKept
<1>3. CASE \E b \in Browsers, state \in Callbacks, wrong \in BOOLEAN : RejectFinish(b, state, wrong)
  BY <1>3, <1>a DEF RejectFinish
<1>4. CASE \E r \in Requests, b \in Browsers : login_finish(r, b)
  <2> PICK r \in Requests, b \in Browsers : login_finish(r, b)
    BY <1>4
  <2>1. ~Active(r) /\ \E w : Goes(r, w) /\ w.x = None
    BY FinishEffect
  <2>2. UNCHANGED <<users, byId, byEmail, decided>>
    BY DEF login_finish
  <2> QED BY <1>b, <2>1, <2>2
<1>5. CASE \E r \in Requests, v \in Users : provider_unlink(r, v)
  <2> PICK r \in Requests, v \in Users : provider_unlink(r, v)
    BY <1>5
  <2>1. /\ byId' = [byId EXCEPT ![v] = Find(v)] /\ Spoil(r, Find(v)) /\ UNCHANGED <<users, byEmail, decided>>
        /\ Find(v) # None
    BY DEF provider_unlink
  <2>2. ~Active(r) /\ Find(v).id = v
    BY UnlinkEffect
  <2> PICK w : /\ Goes(r, w) /\ w.steps = <<"row", "old", "id", "mail">> /\ w.old = None /\ w.link = None
               /\ LeavesRole(w) /\ w.x.id = v /\ w.x.row.prov = None
               /\ w.x.row.email = Find(v).row.email /\ w.x.row.admin = Find(v).row.admin
    BY UnlinkEffect
  <2>3. w.x.row.admin = IF w.sets THEN w.role ELSE Find(v).row.admin
    BY Zenon DEF LeavesRole
  <2> QED BY <1>0, <2>1, <2>2, <2>3, SoleOther
<1>6. CASE \E r \in Requests, v \in Users, e \in Emails, admin \in BOOLEAN : update(r, v, e, admin)
  <2> PICK r \in Requests, v \in Users, e \in Emails, admin \in BOOLEAN : update(r, v, e, admin)
    BY <1>6
  <2>1. /\ byId' = [byId EXCEPT ![v] = Find(v)] /\ Spoil(r, Find(v)) /\ UNCHANGED <<users, byEmail, decided>>
        /\ Find(v) # None
    BY DEF update
  <2>2. ~Active(r) /\ Find(v).id = v /\ Find(v) \in Copies
    BY UpdateEffect
  <2>3. Find(v).row.email # None
    BY <2>2, ConstantsOK DEF Copies, Row_
  <2> PICK w : /\ Goes(r, w) /\ w.steps = <<"row", "old", "id", "mail">> /\ w.link = None
               /\ w.old = OldEmail(Find(v), w.x.row.email)
               /\ Decides(w) /\ w.x.id = v /\ w.x.row.prov = Find(v).row.prov
    BY UpdateEffect
  <2>4. Find(v).row.email = IF w.old = None THEN w.x.row.email ELSE w.old
    BY <2>3 DEF OldEmail
  <2>5. w.x.row.admin = IF w.sets THEN w.role ELSE Find(v).row.admin
    BY Zenon DEF Decides
  <2> QED BY <1>0, <2>1, <2>2, <2>4, <2>5, SoleOther
<1>7. CASE \E r \in Requests : Token(r)
  <2> PICK r \in Requests : Token(r)
    BY <1>7
  <2>1. Head1(r) = "token" /\ UNCHANGED <<users, byId, byEmail, decided>>
    BY DEF Token
  <2>2. req[r].x = None
    BY <2>1, AtStep, Heads, KindsOfSteps DEF Prepared
  <2> QED BY <1>b, <2>1, <2>2, TokenEffect
<1>8. CASE \E r \in Requests : validate_update_user(r)
  BY <1>0, <1>8, SoleValidate
<1>9. CASE \E r \in Requests : Insert(r)
  BY <1>0, <1>9, SoleInsert
<1>10. CASE \E r \in Requests : Row(r)
  BY <1>0, <1>10, SoleRow
<1>11. CASE \E r \in Requests : CacheOld(r) \/ CacheId(r) \/ CacheEmail(r)
  BY <1>0, <1>11, SoleCache
<1>16. CASE \E r \in Requests : CacheFails(r)
  <2> PICK r \in Requests : CacheFails(r)
    BY <1>16
  <2>1. req[r].x.id # u /\ Ends(r) /\ UNCHANGED <<users, byId, byEmail, decided>>
    BY FailEffect
  <2>2. \A q \in Requests \ {r} : req'[q] = req[q] /\ (WorksOn(q, u)' <=> WorksOn(q, u))
    BY <2>1, Workers
  <2>3. ~WorksOn(r, u)' /\ ~WorksOn(r, u)
    BY <2>1, Workers DEF WorksOn
  <2>4. \A q \in Requests : WorksOn(q, u)' => WorksOn(q, u) /\ req'[q] = req[q]
    BY <2>2, <2>3
  <2>5. \A q \in Requests : Caching(q, u) => req'[q] = req[q]
    BY <2>2, <2>3 DEF Caching
  <2> QED BY <1>0, <2>1, <2>4, <2>5, SoleKept
<1>12. CASE \E r \in Requests : Code(r)
  <2> PICK r \in Requests : Code(r)
    BY <1>12
  <2>1. Ends(r) /\ UNCHANGED <<users, byId, byEmail, decided>> /\ Head1(r) = "code"
    BY DEF Code, Abort, Ends
  <2>2. Head(req[r].steps) = "code"
    BY <2>1, AtStep
  <2> QED BY <1>b, <2>1, <2>2
<1>13. CASE \E p \in Providers : delete_provider(p)
  <2> PICK p \in Providers : delete_provider(p)
    BY <1>13
  <2>1. \A w \in Row_ : /\ [w EXCEPT !.prov = None] \in Row_
                        /\ [w EXCEPT !.prov = None].admin = w.admin /\ [w EXCEPT !.prov = None].email = w.email
    BY DEF Row_
  <2>2. users'[u] = users[u] \/ (users[u] \in Row_ /\ users'[u] = [users[u] EXCEPT !.prov = None])
    BY DEF delete_provider, ShapeInv
  <2>3. /\ users'[u].admin = users[u].admin /\ users'[u].email = users[u].email
        /\ users'[u] = None <=> users[u] = None
    BY <2>1, <2>2, ConstantsOK
  <2>4. UNCHANGED <<byId, byEmail, decided, req>>
    BY DEF delete_provider
  <2>5. \A q \in Requests : WorksOn(q, u)' <=> WorksOn(q, u)
    BY <2>4 DEF WorksOn, Active
  <2> QED BY <1>0, <2>3, <2>4, <2>5, SoleKept
<1>14. CASE \E cb \in Callbacks : Timeout(cb)
  BY <1>14, <1>a DEF Timeout
<1>15. CASE UNCHANGED vars
  BY <1>15, <1>a DEF vars
<1> QED BY <1>1, <1>2, <1>3, <1>4, <1>5, <1>6, <1>7, <1>8, <1>9, <1>10, <1>11, <1>12, <1>13, <1>14, <1>15, <1>16, Actions

-----------------------------------------------------------------------------
\* Callbacks and codes

\* Every step keeps that callbacks a check failed for are gone.
LEMMA DeadStep == ShapeInv /\ DeadInv /\ [Next]_vars => DeadInv'
<1> SUFFICES ASSUME ShapeInv, DeadInv, [Next]_vars PROVE DeadInv'
  OBVIOUS
<1> USE DEF caches, browser, history
<1>1. CASE \E b \in Browsers, p \in Providers : StartLogin(b, p) /\ UNCHANGED bad
  BY <1>1 DEF StartLogin, DeadInv, ShapeInv
<1>2. CASE \E b \in Browsers, state \in Callbacks, wrong \in BOOLEAN : RejectFinish(b, state, wrong)
  <2> PICK b \in Browsers, state \in Callbacks, wrong \in BOOLEAN : RejectFinish(b, state, wrong)
    BY <1>2
  <2>1. upCookie[b] \in Callbacks
    BY DEF RejectFinish, ShapeInv
  <2>2. CASE callbacks' = WithoutCallback(upCookie[b]) /\ bad' = bad \cup {upCookie[b]}
    BY <2>1, <2>2 DEF WithoutCallback, DeadInv, ShapeInv
  <2>3. CASE UNCHANGED <<callbacks, bad>>
    BY <2>3 DEF DeadInv
  <2> QED BY <2>2, <2>3 DEF RejectFinish
<1>3. CASE \E cb \in Callbacks : Timeout(cb)
  BY <1>3 DEF Timeout, DeadInv, ShapeInv
<1>4. CASE UNCHANGED <<bad, callbacks>>
  BY <1>4 DEF DeadInv
<1> QED BY <1>1, <1>2, <1>3, <1>4, Actions
    DEF vars, login_start, post_provider_link, login_finish, provider_unlink, update, Token,
        validate_update_user, Insert, Row, CacheOld, CacheId, CacheEmail, CacheFails, Code, delete_provider

\* Consent is never taken back.
LEMMA ConsentStays == Next => consent \subseteq consent'
BY Actions
    DEF history, login_start, post_provider_link, RejectFinish, login_finish, provider_unlink, update, Token,
        validate_update_user, Insert, Row, CacheOld, CacheId, CacheEmail, CacheFails, Code, delete_provider, Timeout

\* Every step keeps that codes are for users linked with consent.
LEMMA CodeStep == ShapeInv /\ LinkInv /\ CodesByConsent /\ [Next]_vars => CodesByConsent'
<1> SUFFICES ASSUME ShapeInv, LinkInv, CodesByConsent, [Next]_vars PROVE CodesByConsent'
  OBVIOUS
<1>1. CASE \E r \in Requests : Code(r)
  <2> PICK r \in Requests : Code(r)
    BY <1>1
  <2> DEFINE q == req[r]
             new == [user |-> q.x.id, prov |-> q.c.prov]
  <2>1. Head1(r) = "code" /\ consent' = consent /\ (codes' = codes \/ codes' = codes \cup {new})
    BY DEF Code, browser, history
  <2>2. Active(r) /\ q \in Work /\ Prepared(q) /\ q.steps = <<"code">>
    BY <2>1, AtStep, Heads
  <2>3. q.x # None /\ q.x.row.prov = q.c.prov /\ q.c \in CallbackData
    BY <2>2, KindsOfSteps DEF Prepared
  <2>4. q.c.prov # None
    BY <2>3, ConstantsOK DEF CallbackData
  <2>5. LinkedCopy(q.x)
    BY <2>2 DEF LinkInv
  <2>6. <<new.user, new.prov>> \in consent
    BY <2>3, <2>4, <2>5 DEF LinkedCopy
  <2> HIDE DEF new
  <2> QED BY <2>1, <2>6 DEF CodesByConsent
<1>2. CASE Next /\ UNCHANGED codes
  BY <1>2, ConsentStays DEF CodesByConsent
<1>3. CASE UNCHANGED vars
  BY <1>3 DEF vars, history, CodesByConsent
<1> QED BY <1>1, <1>2, <1>3, Actions
    DEF login_start, post_provider_link, RejectFinish, login_finish, provider_unlink, update, Token,
        validate_update_user, Insert, Row, CacheOld, CacheId, CacheEmail, CacheFails, delete_provider, Timeout

-----------------------------------------------------------------------------
\* The invariant holds when the instance starts.
LEMMA InitInv == Init => IInv
<1> SUFFICES ASSUME Init PROVE IInv
  OBVIOUS
<1>1. \A r \in Requests : ~Active(r) /\ req[r] = Idle
  BY DEF Init, Active
<1>2. users \in [Users -> Row_ \cup {None}]
  BY ConstantsOK DEF Init
<1>3. ShapeInv
  <2>1. decided \in [Users -> BOOLEAN]
    BY <1>2 DEF Init, Row_
  <2> QED BY <1>1, <1>2, <2>1 DEF Init, ShapeInv
<1>4. LinkInv
  BY <1>1 DEF Init, LinkInv, LinkedByConsent, LinkedCopy, AskedFor
<1>5. AliveInv
  BY <1>1 DEF Init, AliveInv
<1>6. AdminInv
  <2>1. \A u \in Users, r \in Requests : ~WorksOn(r, u)
    BY <1>1 DEF WorksOn
  <2>2. \A u \in Users : users[u] # None => users[u].admin = decided[u]
    BY <1>2 DEF Init, Row_
  <2>3. \A u \in Users : SoleInv(u)
    BY <2>1, <2>2 DEF SoleInv, At, Caching, Init
  <2> QED BY <2>3 DEF AdminInv
<1>7. DeadInv /\ CodesByConsent
  BY DEF Init, DeadInv, CodesByConsent
<1> QED BY <1>3, <1>4, <1>5, <1>6, <1>7 DEF IInv

\* The inductive invariant
LEMMA Invariance == Spec => []IInv
<1>1. IInv /\ [Next]_vars => IInv'
  BY ShapeStep, LinkStep, AliveStep, AdminStep, DeadStep, CodeStep DEF IInv
<1> QED BY <1>1, InitInv, PTL DEF Spec

\* The shape implies the types.
LEMMA TypeCorrect == ShapeInv => TypeOK
BY DEF ShapeInv, TypeOK, Copies

\* Cached copies of users sit under the id and the address they carry, through every
\* order of logins, links, updates and reads.
THEOREM Typing == Spec => []TypeOK
<1>1. IInv => TypeOK
  BY TypeCorrect DEF IInv
<1> QED BY <1>1, Invariance, PTL

\* No account gets linked to a provider its user did not ask for, whatever happens to
\* the accounts, their addresses and their cached copies between the link cookie, the
\* callback and the save (auth_providers.rs, validate_update_user and login_finish).
THEOREM Consent == Spec => []LinkedByConsent
<1>1. IInv => LinkedByConsent
  BY DEF IInv, LinkInv
<1> QED BY <1>1, Invariance, PTL

\* The role of an administrator is what the last login that maps it, or the last update
\* by an administrator, said, for a user that no two requests worked on at a time and for
\* whom no cache write failed.
THEOREM RoleFollowsClaim == Spec => []AdminFollowsClaim
<1>1. IInv => AdminFollowsClaim
  BY TypeCorrect DEF IInv, AdminInv, SoleInv, AdminFollowsClaim
<1> QED BY <1>1, Invariance, PTL

\* An authorization code is only issued for a user who is linked to the provider of the
\* login with consent, never for one that was merely found by the address of the claims
\* (auth_providers.rs, login_finish).
THEOREM CodesConsented == Spec => []CodesByConsent
<1>1. IInv => CodesByConsent
  BY DEF IInv
<1> QED BY <1>1, Invariance, PTL

\* No login is finished with a callback for which a check failed before.
THEOREM CallbackSpent == Spec => BadCallbackDead
<1> DEFINE A == \A r \in Requests : ~Active(r) /\ Head1(r)' = "token" => req[r]'.cb \notin bad
<1>1. IInv /\ [Next]_vars => A
  <2> SUFFICES ASSUME IInv, [Next]_vars, NEW r \in Requests, ~Active(r), Head1(r)' = "token"
               PROVE  req'[r].cb \notin bad
    OBVIOUS
  <2>0. ShapeInv /\ DeadInv
    BY DEF IInv
  <2> USE DEF caches, browser, history
  <2>1. req'[r] # req[r] /\ req'[r] # Idle
    BY DEF Active, Head1
  <2>2. ASSUME NEW q \in Requests, NEW w, Goes(q, w) PROVE r = q /\ req'[r] = w
    BY <2>0, <2>1, <2>2 DEF Goes, ShapeInv
  <2>3. ASSUME NEW q \in Requests, Ends(q) PROVE FALSE
    BY <2>0, <2>1, <2>3 DEF Ends, ShapeInv
  <2>4. CASE \E q \in Requests, b \in Browsers : login_finish(q, b)
    BY <2>0, <2>2, <2>4, FinishEffect DEF DeadInv
  <2>5. CASE \E q \in Requests : (\E u \in Users : provider_unlink(q, u)) \/ \E u \in Users, e \in Emails, admin \in BOOLEAN : update(q, u, e, admin)
    <3> DEFINE Saves == \E q \in Requests : \E w : Goes(q, w) /\ w.steps = <<"row", "old", "id", "mail">>
    <3>a. ASSUME \E q \in Requests, u \in Users : provider_unlink(q, u) PROVE Saves
      <4> PICK q \in Requests, u \in Users : provider_unlink(q, u)
        BY <3>a
      <4> QED BY <2>0, UnlinkEffect
    <3>b. ASSUME \E q \in Requests, u \in Users, e \in Emails, admin \in BOOLEAN : update(q, u, e, admin) PROVE Saves
      <4> PICK q \in Requests, u \in Users, e \in Emails, admin \in BOOLEAN : update(q, u, e, admin)
        BY <3>b
      <4> PICK w : Goes(q, w) /\ w.steps = <<"row", "old", "id", "mail">>
        BY <2>0, UpdateEffect
      <4> QED OBVIOUS
    <3>c. Saves
      BY <2>5, <3>a, <3>b, Zenon
    <3> PICK q \in Requests : \E w : Goes(q, w) /\ w.steps = <<"row", "old", "id", "mail">>
      BY <3>c
    <3> PICK w : Goes(q, w) /\ w.steps = <<"row", "old", "id", "mail">>
      OBVIOUS
    <3>1. req'[r] = w /\ Head(w.steps) = "row"
      BY <2>2, Heads, KindsOfSteps
    <3> QED BY <2>1, <3>1 DEF Head1, Active
  <2>6. CASE \E q \in Requests : Active(q) /\ (Ends(q) \/ \E w : Goes(q, w))
    BY <2>2, <2>3, <2>6
  <2>8. \A q \in Requests : Token(q) \/ validate_update_user(q) \/ Insert(q) \/ Row(q) \/ Code(q) =>
          Active(q) /\ (Ends(q) \/ \E w : Goes(q, w))
    <3> SUFFICES ASSUME NEW q \in Requests,
                        Token(q) \/ validate_update_user(q) \/ Insert(q) \/ Row(q) \/ Code(q)
                 PROVE  Active(q) /\ (Ends(q) \/ \E w : Goes(q, w))
      OBVIOUS
    <3>1. Active(q)
      BY DEF Token, validate_update_user, Insert, Row, Code, Head1
    <3>2. Ends(q) \/ \E w : Goes(q, w)
      BY <2>0, TokenEffect, ValidateEffect, InsertEffect, RowEffect DEF Code, Ends, Inserts
    <3> QED BY <3>1, <3>2
  <2>9. \A q \in Requests : CacheOld(q) \/ CacheId(q) \/ CacheEmail(q) \/ CacheFails(q) =>
          Active(q) /\ (Ends(q) \/ \E w : Goes(q, w))
    BY <2>0, CacheEffect, FailEffect
  <2>7. CASE UNCHANGED req
    BY <2>1, <2>7
  <2> QED BY <2>4, <2>5, <2>6, <2>7, <2>8, <2>9, Actions
      DEF vars, login_start, post_provider_link, RejectFinish, delete_provider, Timeout
<1>2. IInv /\ [Next]_vars => [A]_vars
  BY <1>1
<1> QED BY <1>2, Invariance, PTL DEF Spec, BadCallbackDead

=============================================================================
