-------------------------- MODULE LoginFlowProofs ---------------------------
(***************************************************************************)
(* Proofs about LoginFlow, for any number of users, clients, sessions,     *)
(* codes and concurrent handlers, and any lifetimes.                       *)
(***************************************************************************)
EXTENDS LoginFlow, FiniteSetTheorems, TLAPS

-----------------------------------------------------------------------------
\* Type correctness

\* A busy handler is in one of the steps and holds well-formed copies.
LEMMA BusyType ==
    ASSUME TypeOK, NEW r \in Requests, req[r].step \in Steps
    PROVE  /\ req[r] \in Busy /\ req[r] # Idle
           /\ req[r].code \in Codes /\ req[r].user \in Users /\ req[r].ses \in Sessions
           /\ req[r].client \in Clients /\ req[r].flags \in Rows /\ req[r].via \in Via
           /\ req[r].challenge \in Challenge \cup {NoChallenge}
           /\ req[r].verifier \in Verifiers \cup {NoVerifier} /\ req[r].at \in Nat
           /\ req[r].key \in Users
<1>1. req[r] \in Busy /\ req[r] # Idle
  BY DEF TypeOK, Idle, Steps
<1> QED
  BY <1>1 DEF Busy

\* A handler that goes on keeps its copies.
LEMMA NextStep ==
    ASSUME NEW q \in Busy, NEW step \in Steps
    PROVE  /\ [q EXCEPT !.step = step] \in Busy
           /\ [q EXCEPT !.step = step].step = step
           /\ [q EXCEPT !.step = step].code = q.code /\ [q EXCEPT !.step = step].user = q.user
           /\ [q EXCEPT !.step = step].ses = q.ses /\ [q EXCEPT !.step = step].client = q.client
           /\ [q EXCEPT !.step = step].challenge = q.challenge
           /\ [q EXCEPT !.step = step].via = q.via /\ [q EXCEPT !.step = step].flags = q.flags
           /\ [q EXCEPT !.step = step].verifier = q.verifier /\ [q EXCEPT !.step = step].at = q.at
BY DEF Busy

\* The new record of one handler is its only change, and keeps the type.
LEMMA OneRequest ==
    ASSUME TypeOK, NEW r \in Requests, NEW new, req' = [req EXCEPT ![r] = new]
    PROVE  /\ req'[r] = new /\ \A q \in Requests : q # r => req'[q] = req[q]
           /\ new \in {Idle} \cup Busy => req' \in [Requests -> {Idle} \cup Busy]
BY DEF TypeOK

\* What a row holds.
LEMMA RowFacts == NoRow \notin Rows
BY DEF NoRow, Rows

\* A new code is well-formed and lives within the lifespan of its cache.
LEMMA NewCodeType ==
    ASSUME TypeOK, NEW q \in Busy
    PROVE  /\ NewCode(q) \in Entry
           /\ NewCode(q).user = q.user /\ NewCode(q).ses = q.ses
           /\ NewCode(q).client = q.client /\ NewCode(q).challenge = q.challenge
           /\ NewCode(q).put = now /\ NewCode(q).exp - now <= CodeLifespan
<1>1. /\ q.user \in Users /\ q.ses \in Sessions /\ q.client \in Clients
      /\ q.challenge \in Challenge \cup {NoChallenge}
  BY DEF Busy
<1>2. now \in Nat /\ ReqExp \in Nat /\ MaxLifetime \in Nat
      /\ Lifetime[q.client] \in Nat /\ Lifetime[q.client] <= MaxLifetime
  BY <1>1, LoginFlowAssumption DEF TypeOK
<1> DEFINE l == CodeLifetime(q.client, q.flags)
<1>3. l \in Nat /\ l <= CodeLifespan
  BY <1>2 DEF CodeLifetime, CodeLifespan
<1> HIDE DEF l
<1>4. now + l \in Nat /\ (now + l) - now <= CodeLifespan
  BY <1>2, <1>3 DEF CodeLifespan
<1> QED
  BY <1>1, <1>2, <1>4 DEF NewCode, Entry, l

\* What auth_start and auth_finish copy is well-formed.
LEMMA ContinueType ==
    ASSUME TypeOK, NEW c \in Codes, origin[c] # Never, NEW step \in Steps,
           NEW u \in Users, NEW k \in Users, user[u] # NoRow
    PROVE  /\ Continue(c, u, k, step) \in Busy
           /\ Continue(c, u, k, step).step = step /\ Continue(c, u, k, step).code = c
<1>1. origin[c] \in Origin
  BY DEF TypeOK
<1>2. origin[c].via \in Via /\ origin[c].entry \in Entry
  BY <1>1 DEF Origin
<1>3. /\ origin[c].entry.ses \in Sessions /\ origin[c].entry.client \in Clients
      /\ origin[c].entry.challenge \in Challenge \cup {NoChallenge}
  BY <1>2 DEF Entry
<1>4. user[u] \in Rows
  BY DEF TypeOK
<1> QED
  BY <1>2, <1>3, <1>4 DEF Continue, Busy

\* A ceremony of the login of code c was started, with the keys of some user.
Begun(m, c) == \E u \in Users : m[c][u] # NoEntry

\* A login request or a ceremony belongs to a code that was made.
WebauthnInv ==
    \A c \in Codes : loginReq[c] # NoEntry \/ Begun(ceremony, c) => origin[c] # Never

\* A handler that continues a login works on a code that was made.
MadeInv ==
    \A r \in Requests : req[r].step \in Steps \ {"save", "code"} => origin[req[r].code] # Never

\* The sessions that remain when those of a user end are of other users.
LEMMA EndSessionsType ==
    ASSUME TypeOK, NEW u \in Users
    PROVE  /\ EndSessions(u) \in [Sessions -> Users \cup {NoUser, Gone}]
           /\ \A s \in Sessions : EndSessions(u)[s] \in Users =>
                 EndSessions(u)[s] = sess[s] /\ sess[s] # u
BY LoginFlowAssumption DEF EndSessions, TypeOK

\* The first step of a login.
LEMMA TypeLogin ==
    ASSUME TypeOK, NEW r \in Requests, Login(r)
    PROVE  TypeOK'
<1>1. ASSUME NEW c \in Codes, NEW s \in Sessions, NEW u \in Users, NEW cl \in Clients,
             NEW ch \in Challenge \cup {NoChallenge}, NEW via \in Via,
             NEW step \in {"save", "code"}, user[u] # NoRow,
             req' = [req EXCEPT ![r] =
               [step |-> step, code |-> c, user |-> u, ses |-> s, client |-> cl,
                challenge |-> ch, via |-> via, flags |-> user[u],
                verifier |-> NoVerifier, at |-> 0, key |-> u]]
      PROVE  req' \in [Requests -> {Idle} \cup Busy]
  <2> DEFINE new == [step |-> step, code |-> c, user |-> u, ses |-> s, client |-> cl,
                     challenge |-> ch, via |-> via, flags |-> user[u],
                     verifier |-> NoVerifier, at |-> 0, key |-> u]
  <2>1. user[u] \in Rows /\ now \in Nat
    BY <1>1 DEF TypeOK
  <2>2. new \in Busy
    BY <1>1, <2>1 DEF Busy, Steps
  <2>3. req' = [req EXCEPT ![r] = new]
    BY <1>1
  <2> HIDE DEF new
  <2> QED
    BY <2>2, <2>3, OneRequest
<1>2. ASSUME NEW c \in Codes, NEW s \in Sessions, NEW u \in Users, NEW cl \in Clients,
             NEW ch \in Challenge \cup {NoChallenge}, NEW via \in {"password", "passkey"},
             AuthorizeFind(r, c, s, u, cl, ch, via)
      PROVE  TypeOK'
  <2>1. via \in Via /\ user[u] # NoRow
    BY <1>2 DEF AuthorizeFind, MayLogin, Via
  <2>2. PICK step \in {"save", "code"} : req' = [req EXCEPT ![r] =
               [step |-> step, code |-> c, user |-> u, ses |-> s, client |-> cl,
                challenge |-> ch, via |-> via, flags |-> user[u],
                verifier |-> NoVerifier, at |-> 0, key |-> u]]
    BY <1>2 DEF AuthorizeFind
  <2>3. req' \in [Requests -> {Idle} \cup Busy]
    BY <1>1, <2>1, <2>2
  <2> QED
    BY <1>2, <2>3 DEF AuthorizeFind, TypeOK, tables, webauthnData, sent, redeemed
<1>3. ASSUME NEW c \in Codes, NEW s \in Sessions, NEW u \in Users, NEW cl \in Clients,
             NEW ch \in Challenge \cup {NoChallenge}, RefreshFind(r, c, s, u, cl, ch)
      PROVE  TypeOK'
  <2>1. "session" \in Via /\ user[u] # NoRow
    BY <1>3 DEF RefreshFind, Via
  <2>2. req' \in [Requests -> {Idle} \cup Busy]
    BY <1>1, <1>3, <2>1 DEF RefreshFind
  <2> QED
    BY <1>3, <2>2 DEF RefreshFind, TypeOK, tables, webauthnData, sent, redeemed
<1> QED
  BY <1>2, <1>3 DEF Login

\* The following steps of a handler.
LEMMA TypeStep ==
    ASSUME TypeOK, NEW r \in Requests, Step(r)
    PROVE  TypeOK'
<1> DEFINE q == req[r]
<1>1. CASE AuthorizeSave(r)
  <2>1. q \in Busy /\ q.user \in Users /\ q.flags \in Rows
    BY <1>1, BusyType DEF AuthorizeSave, Steps
  <2>2. user' \in [Users -> Rows \cup {NoRow}] /\ \A u \in Users : user[u] # NoRow => user'[u] # NoRow
    BY <1>1, <2>1, RowFacts DEF AuthorizeSave, TypeOK
  <2>3. req' = [req EXCEPT ![r] = [q EXCEPT !.step = "code"]] /\ "code" \in Steps
    BY <1>1 DEF AuthorizeSave, Steps
  <2>4. [q EXCEPT !.step = "code"] \in Busy
    BY <2>1, <2>3, NextStep
  <2>5. req' \in [Requests -> {Idle} \cup Busy]
    BY <2>3, <2>4, OneRequest
  <2> QED
    BY <1>1, <2>2, <2>5 DEF AuthorizeSave, TypeOK, webauthnData, sent, redeemed
<1>2. CASE AuthorizeCode(r)
  <2>1. q \in Busy /\ q.code \in Codes /\ q.flags \in Rows /\ q.via \in Via
    BY <1>2, BusyType DEF AuthorizeCode, Steps
  <2>2. [q EXCEPT !.step = "await"] \in Busy
    <3>1. "await" \in Steps
      BY DEF Steps
    <3> QED
      BY <2>1, <3>1, NextStep
  <2>3. req' \in [Requests -> {Idle} \cup Busy]
    <3>1. \/ req' = [req EXCEPT ![r] = Idle]
          \/ req' = [req EXCEPT ![r] = [q EXCEPT !.step = "await"]]
      BY <1>2 DEF AuthorizeCode
    <3> QED
      BY <2>2, <3>1, OneRequest
  <2>4. CASE UNCHANGED <<codes, origin, delivered>>
    BY <1>2, <2>3, <2>4 DEF AuthorizeCode, TypeOK, tables, webauthnData, redeemed
  <2>5. CASE ~UNCHANGED <<codes, origin, delivered>>
    <3>1. /\ codes' = [codes EXCEPT ![q.code] = NewCode(q)]
          /\ origin' = [origin EXCEPT ![q.code] =
                          [entry |-> NewCode(q), via |-> q.via, flags |-> q.flags]]
          /\ delivered' \in {delivered, delivered \cup {q.code}}
      BY <1>2, <2>5 DEF AuthorizeCode
    <3>2. NewCode(q) \in Entry
      BY <2>1, NewCodeType
    <3>3. [entry |-> NewCode(q), via |-> q.via, flags |-> q.flags] \in Origin
      BY <2>1, <3>2 DEF Origin
    <3>4. /\ codes' \in [Codes -> Entry \cup {NoEntry}] /\ delivered' \subseteq Codes
          /\ origin' \in [Codes -> Origin \cup {Never}]
      BY <2>1, <3>1, <3>2, <3>3 DEF TypeOK
    <3> QED
      BY <1>2, <2>3, <3>4 DEF AuthorizeCode, TypeOK, tables, webauthnData, redeemed
  <2> QED
    BY <2>4, <2>5
<1>3. CASE AuthorizeAwait(r)
  <2>1. q.code \in Codes /\ q.user \in Users
    BY <1>3, BusyType DEF AuthorizeAwait, Steps
  <2>2. req' \in [Requests -> {Idle} \cup Busy]
    BY <1>3, OneRequest DEF AuthorizeAwait
  <2> QED
    BY <1>3, <2>1, <2>2 DEF AuthorizeAwait, TypeOK, tables, redeemed
<1>4. CASE StartSave(r)
  <2>1. q.code \in Codes
    BY <1>4, BusyType DEF StartSave, Steps
  <2>2. req' \in [Requests -> {Idle} \cup Busy]
    BY <1>4, OneRequest DEF StartSave
  <2> QED
    BY <1>4, <2>1, <2>2 DEF StartSave, TypeOK, tables, sent, redeemed
<1>5. CASE FinishSave(r)
  <2>1. q.code \in Codes /\ q.user \in Users /\ q.key \in Users /\ q.flags \in Rows
    BY <1>5, BusyType DEF FinishSave, Steps
  <2>2. req' \in [Requests -> {Idle} \cup Busy]
    BY <1>5, OneRequest DEF FinishSave
  <2>3. user' \in [Users -> Rows \cup {NoRow}] /\ \A u \in Users : user[u] # NoRow => user'[u] # NoRow
    BY <1>5, <2>1, RowFacts DEF FinishSave, TypeOK
  <2>4. /\ sess' \in [Sessions -> Users \cup {NoUser, Gone}]
        /\ \A s \in Sessions : sess'[s] \in Users => sess'[s] = sess[s]
    <3>1. sess' = sess \/ sess' = EndSessions(q.user)
      BY <1>5 DEF FinishSave
    <3> QED
      BY <2>1, <3>1, EndSessionsType DEF TypeOK
  <2>5. delivered' \subseteq Codes /\ keyed' \subseteq Codes \X Users
    BY <1>5, <2>1 DEF FinishSave, TypeOK
  <2>6. \A s \in Sessions : sess'[s] \in Users => user'[sess'[s]] # NoRow
    BY <2>3, <2>4 DEF TypeOK
  <2> QED
    BY <1>5, <2>2, <2>3, <2>4, <2>5, <2>6 DEF FinishSave, TypeOK, webauthnData, redeemed
<1>6. CASE RedeemTokens(r)
  <2>1. q \in Busy
    BY <1>6, BusyType DEF RedeemTokens, Steps
  <2>2. [q EXCEPT !.step = "session"] \in Busy
    <3>1. "session" \in Steps
      BY DEF Steps
    <3> QED
      BY <2>1, <3>1, NextStep
  <2>3. req' \in [Requests -> {Idle} \cup Busy]
    <3>1. \/ req' = [req EXCEPT ![r] = Idle]
          \/ req' = [req EXCEPT ![r] = [q EXCEPT !.step = "session"]]
      BY <1>6 DEF RedeemTokens
    <3> QED
      BY <2>2, <3>1, OneRequest
  <2> QED
    BY <1>6, <2>3 DEF RedeemTokens, TypeOK, tables, webauthnData, sent, redeemed
<1>7. CASE RedeemSession(r)
  <2>1. q \in Busy /\ q.code \in Codes /\ q.user \in Users /\ q.ses \in Sessions
    BY <1>7, BusyType DEF RedeemSession, Steps
  <2>2. [q EXCEPT !.step = "delete"] \in Busy
    <3>1. "delete" \in Steps
      BY DEF Steps
    <3> QED
      BY <2>1, <3>1, NextStep
  <2>3. req' \in [Requests -> {Idle} \cup Busy]
    <3>1. \/ req' = [req EXCEPT ![r] = Idle]
          \/ req' = [req EXCEPT ![r] = [q EXCEPT !.step = "delete"]]
      BY <1>7 DEF RedeemSession
    <3> QED
      BY <2>2, <3>1, OneRequest
  <2>4. codes' \in [Codes -> Entry \cup {NoEntry}] /\ spent' \subseteq Codes
    BY <1>7, <2>1 DEF RedeemSession, TypeOK
  <2>5. /\ sess' \in [Sessions -> Users \cup {NoUser, Gone}]
        /\ \A s \in Sessions : sess'[s] \in Users => user[sess'[s]] # NoRow
    <3>1. CASE sess' = sess
      BY <3>1 DEF TypeOK
    <3>2. CASE sess' # sess
      <4>1. sess' = [sess EXCEPT ![q.ses] = IF @ = Gone THEN Gone ELSE q.user]
            /\ user[q.user] # NoRow
        BY <1>7, <3>2 DEF RedeemSession
      <4> QED
        BY <2>1, <4>1, LoginFlowAssumption DEF TypeOK
    <3> QED
      BY <3>1, <3>2
  <2> QED
    BY <1>7, <2>3, <2>4, <2>5 DEF RedeemSession, TypeOK, webauthnData, sent, redeemed
<1>8. CASE RedeemDelete(r)
  <2>1. q.code \in Codes /\ q.client \in Clients /\ q.user \in Users /\ q.at \in Nat
        /\ q.verifier \in Verifiers \cup {NoVerifier}
    BY <1>8, BusyType DEF RedeemDelete, Steps
  <2>2. req' \in [Requests -> {Idle} \cup Busy]
    BY <1>8, OneRequest DEF RedeemDelete, Answer
  <2>3. tokens' \subseteq Answers
    BY <1>8, <2>1 DEF RedeemDelete, Answer, TypeOK, Answers
  <2>4. answered' \in [Codes -> Nat]
    BY <1>8, <2>1 DEF RedeemDelete, Answer, TypeOK
  <2>5. codes' \in [Codes -> Entry \cup {NoEntry}] /\ spent' \subseteq Codes
    BY <1>8, <2>1 DEF RedeemDelete, TypeOK
  <2> QED
    BY <1>8, <2>2, <2>3, <2>4, <2>5 DEF RedeemDelete, TypeOK, tables, webauthnData, sent
<1>9. CASE Fail(r)
  <2>1. req' \in [Requests -> {Idle} \cup Busy]
    BY <1>9, OneRequest DEF Fail
  <2> QED
    BY <1>9, <2>1 DEF Fail, TypeOK, tables, webauthnData, sent, redeemed
<1> QED
  BY <1>1, <1>2, <1>3, <1>4, <1>5, <1>6, <1>7, <1>8, <1>9 DEF Step

\* Every action keeps the state well-typed.
LEMMA TypeNext == TypeOK /\ WebauthnInv /\ [Next]_vars => TypeOK'
<1> SUFFICES ASSUME TypeOK, WebauthnInv, [Next]_vars PROVE TypeOK'
  OBVIOUS
<1>1. ASSUME NEW r \in Requests, Login(r) \/ Step(r) PROVE TypeOK'
  BY <1>1, TypeLogin, TypeStep
<1>2. ASSUME NEW r \in Requests, NEW c \in Codes, NEW u \in Users, StartFind(r, c, u)
      PROVE  TypeOK'
  <2>1. origin[c] # Never /\ user[u] # NoRow /\ "start" \in Steps
    BY <1>2 DEF StartFind, Cached, WebauthnInv, Steps
  <2>2. Continue(c, u, u, "start") \in Busy
    BY <2>1, ContinueType
  <2>3. req' \in [Requests -> {Idle} \cup Busy]
    BY <1>2, <2>2, OneRequest DEF StartFind
  <2> QED
    BY <1>2, <2>3 DEF StartFind, TypeOK, tables, webauthnData, sent, redeemed
<1>3. ASSUME NEW r \in Requests, NEW c \in Codes, NEW u \in Users, NEW k \in Users,
             FinishFind(r, c, u, k)
      PROVE  TypeOK'
  <2>1. origin[c] # Never /\ user[u] # NoRow /\ "finish" \in Steps
    BY <1>3 DEF FinishFind, Cached, WebauthnInv, Begun, Steps
  <2>2. Continue(c, u, k, "finish") \in Busy
    BY <2>1, ContinueType
  <2>3. req' \in [Requests -> {Idle} \cup Busy]
    BY <1>3, <2>2, OneRequest DEF FinishFind
  <2> QED
    BY <1>3, <2>3 DEF FinishFind, TypeOK, tables, webauthnData, sent, redeemed
<1>4. ASSUME NEW r \in Requests, NEW c \in Codes, NEW cl \in Clients,
             NEW v \in Verifiers \cup {NoVerifier}, RedeemFind(r, c, cl, v)
      PROVE  TypeOK'
  <2> DEFINE e == codes[c]
             new == [step |-> "tokens", code |-> c, user |-> e.user, ses |-> e.ses,
                     client |-> cl, challenge |-> e.challenge, via |-> "session",
                     flags |-> user[e.user], verifier |-> v, at |-> now, key |-> e.user]
  <2>1. e \in Entry /\ user[e.user] # NoRow /\ req' = [req EXCEPT ![r] = new]
    BY <1>4 DEF RedeemFind, CodeCached, TypeOK
  <2>2. /\ e.user \in Users /\ e.ses \in Sessions
        /\ e.challenge \in Challenge \cup {NoChallenge}
    BY <2>1 DEF Entry
  <2>3. user[e.user] \in Rows /\ now \in Nat
    BY <2>1, <2>2 DEF TypeOK
  <2>4. new \in Busy
    BY <2>2, <2>3 DEF Busy, Steps, Via
  <2> HIDE DEF new
  <2>5. req' \in [Requests -> {Idle} \cup Busy]
    BY <2>1, <2>4, OneRequest
  <2> QED
    BY <1>4, <2>5 DEF RedeemFind, TypeOK, tables, webauthnData, sent, redeemed
<1>5. ASSUME NEW c \in Codes, NEW cl \in Clients, RedeemPanics(c, cl) PROVE TypeOK'
  BY <1>5 DEF RedeemPanics, Restart, TypeOK, tables, sent, redeemed
<1>6. ASSUME NEW u \in Users, NEW flags \in Rows, UserChanges(u, flags) PROVE TypeOK'
  <2>1. user' \in [Users -> Rows \cup {NoRow}] /\ \A v \in Users : user[v] # NoRow => user'[v] # NoRow
    BY <1>6, RowFacts DEF UserChanges, TypeOK
  <2>2. /\ sess' \in [Sessions -> Users \cup {NoUser, Gone}]
        /\ \A s \in Sessions : sess'[s] \in Users => sess'[s] = sess[s]
    <3>1. sess' = sess \/ sess' = EndSessions(u)
      BY <1>6 DEF UserChanges
    <3> QED
      BY <3>1, EndSessionsType DEF TypeOK
  <2>3. \A s \in Sessions : sess'[s] \in Users => user'[sess'[s]] # NoRow
    BY <2>1, <2>2 DEF TypeOK
  <2> QED
    BY <1>6, <2>1, <2>2, <2>3 DEF UserChanges, TypeOK, webauthnData, sent, redeemed
<1>7. ASSUME NEW u \in Users, DeleteUser(u) PROVE TypeOK'
  <2>1. user' = [user EXCEPT ![u] = NoRow] /\ sess' = EndSessions(u)
    BY <1>7 DEF DeleteUser
  <2>2. /\ sess' \in [Sessions -> Users \cup {NoUser, Gone}]
        /\ \A s \in Sessions : sess'[s] \in Users => sess'[s] = sess[s] /\ sess[s] # u
    BY <2>1, EndSessionsType
  <2>3. \A s \in Sessions : sess'[s] \in Users => user'[sess'[s]] # NoRow
    BY <2>1, <2>2 DEF TypeOK
  <2>4. user' \in [Users -> Rows \cup {NoRow}]
    BY <2>1 DEF TypeOK
  <2> QED
    BY <1>7, <2>2, <2>3, <2>4 DEF DeleteUser, TypeOK, webauthnData, sent, redeemed
<1>8. ASSUME NEW s \in Sessions, SessionEnds(s) PROVE TypeOK'
  BY <1>8, LoginFlowAssumption DEF SessionEnds, TypeOK, webauthnData, sent, redeemed
<1>9. CASE ServerRestarts
  BY <1>9 DEF ServerRestarts, Restart, TypeOK, tables, sent, redeemed
<1>10. CASE Tick
  BY <1>10 DEF Tick, TypeOK, tables, webauthnData, sent, redeemed
<1>11. CASE UNCHANGED vars
  BY <1>11 DEF vars, TypeOK, tables, webauthnData, sent, redeemed
<1> QED
  BY <1>1, <1>2, <1>3, <1>4, <1>5, <1>6, <1>7, <1>8, <1>9, <1>10, <1>11 DEF Next

-----------------------------------------------------------------------------
\* The logins behind codes, sessions and answers

\* The three facts about logins the invariant is made of, in terms of the codes
\* that were sent (d), those sent for a key (k) and the logins of all codes (o).

\* A ceremony started for this login was completed.
Keyed(k, c) == \E u \in Users : <<c, u>> \in k

\* The user has logged in with a password or a ceremony in this session, or before.
Based(d, k, o, s, u) ==
    \/ Earlier[s] = u
    \/ \E c \in d : /\ o[c] # Never
                    /\ o[c].entry.ses = s /\ o[c].entry.user = u
                    /\ Keyed(k, c) \/ (o[c].via = "password" /\ "mfa" \notin o[c].flags)

\* The code may be sent: ProvenLogin or ProvenRefresh
Proven(k, o, c) ==
    /\ o[c] # Never
    /\ \/ Keyed(k, c) \/ (o[c].via = "password" /\ "mfa" \notin o[c].flags)
       \/ o[c].via = "session" /\ ("mfa" \in o[c].flags => ~RenewMfa)

\* What holds of a redemption after its checks, and of an answer
Matches(d, o, c, cl, u, v, at) ==
    /\ c \in d /\ o[c] # Never
    /\ cl = o[c].entry.client /\ u = o[c].entry.user
    /\ o[c].entry.challenge # NoChallenge => v = o[c].entry.challenge.verifier
    /\ at <= o[c].entry.exp

\* A cached code is the one its login made; a code is only taken out of the
\* cache by a redemption or a restart, and not made for longer than the cache
\* keeps it.
EntryInv ==
    \A c \in Codes :
        /\ codes[c] # NoEntry => origin[c] # Never /\ codes[c] = origin[c].entry
        /\ origin[c] # Never =>
             /\ c \notin spent => codes[c] # NoEntry
             /\ origin[c].entry.put <= now
             /\ origin[c].entry.exp - origin[c].entry.put <= CodeLifespan

\* A code made for a refresh belongs to a session its user has logged in to.
OriginInv ==
    \A c \in Codes : origin[c] # Never /\ origin[c].via = "session" =>
        Based(delivered, keyed, origin, origin[c].entry.ses, origin[c].entry.user)

\* A code was sent once its login had proven its factors.
DeliveredInv == \A c \in delivered : Proven(keyed, origin, c)

\* A handler that will make a code holds a fresh id, and a passkey login or the
\* refresh of a session knows what it needs to know about the user.
NewInv ==
    \A r \in Requests : req[r].step \in {"save", "code"} =>
        /\ origin[req[r].code] = Never
        /\ \A p \in Requests : p # r /\ req[p].step \in {"save", "code"} =>
               req[p].code # req[r].code
        /\ req[r].via = "passkey" => "mfa" \in req[r].flags
        /\ req[r].via = "session" =>
               Based(delivered, keyed, origin, req[r].ses, req[r].user)

RedeemInv ==
    \A r \in Requests : req[r].step \in {"tokens", "session", "delete"} =>
        /\ Matches(delivered, origin, req[r].code, req[r].client, req[r].user,
                   req[r].verifier, req[r].at)
        /\ req[r].ses = origin[req[r].code].entry.ses

AnswerInv ==
    \A t \in tokens : Matches(delivered, origin, t.code, t.client, t.user, t.verifier, t.at)

SessionInv ==
    \A s \in Sessions : sess[s] \in Users => Based(delivered, keyed, origin, s, sess[s])

IInv == /\ TypeOK /\ WebauthnInv /\ MadeInv /\ EntryInv /\ OriginInv /\ DeliveredInv
        /\ NewInv /\ RedeemInv /\ AnswerInv /\ SessionInv

\* Logins, once made, stay as they are: what was proven stays proven.
LEMMA BasedGrows ==
    ASSUME NEW d, NEW d2, NEW k, NEW k2, NEW o, NEW o2, NEW s, NEW u,
           d \subseteq d2, k \subseteq k2,
           \A c \in d : o[c] # Never => o2[c] = o[c],
           Based(d, k, o, s, u)
    PROVE  Based(d2, k2, o2, s, u)
BY DEF Based, Keyed

\* Proven stays proven.
LEMMA ProvenGrows ==
    ASSUME NEW k, NEW k2, NEW o, NEW o2, NEW c, k \subseteq k2,
           o[c] # Never => o2[c] = o[c], Proven(k, o, c)
    PROVE  Proven(k2, o2, c)
BY DEF Proven, Keyed

\* What was redeemed or answered keeps matching its login.
LEMMA MatchesGrows ==
    ASSUME NEW d, NEW d2, NEW o, NEW o2, NEW c, NEW cl, NEW u, NEW v, NEW at,
           d \subseteq d2, o[c] # Never => o2[c] = o[c], Matches(d, o, c, cl, u, v, at)
    PROVE  Matches(d2, o2, c, cl, u, v, at) /\ o2[c] = o[c]
BY DEF Matches

\* Where a step of a handler may lead: it ends or goes on with the same copies
\* within making a code or redeeming one.
Kept(r) ==
    \/ req'[r].step = "idle"
    \/ req'[r] = req[r]
    \/ /\ \/ req[r].step = "save" /\ req'[r].step = "code"
          \/ req[r].step = "code" /\ req'[r].step = "await" /\ origin'[req[r].code] # Never
          \/ req[r].step \in {"tokens", "session"} /\ req'[r].step \in {"session", "delete"}
       /\ req'[r].code = req[r].code /\ req'[r].client = req[r].client
       /\ req'[r].user = req[r].user /\ req'[r].verifier = req[r].verifier
       /\ req'[r].at = req[r].at /\ req'[r].ses = req[r].ses
       /\ req'[r].via = req[r].via /\ req'[r].flags = req[r].flags

\* Steps that make no code and send none
LEMMA QuietKeeps ==
    ASSUME IInv, TypeOK', UNCHANGED <<origin, delivered, keyed>>, now <= now',
           spent \subseteq spent',
           \A c \in Codes : codes'[c] = codes[c] \/ (codes'[c] = NoEntry /\ c \in spent'),
           \A c \in Codes : loginReq'[c] # NoEntry \/ Begun(ceremony', c) =>
               origin[c] # Never,
           \A r \in Requests : Kept(r),
           \A t \in tokens' : t \in tokens \/
               Matches(delivered, origin, t.code, t.client, t.user, t.verifier, t.at),
           \A s \in Sessions : sess'[s] \in Users => sess'[s] = sess[s] \/
               Based(delivered, keyed, origin, s, sess'[s])
    PROVE  IInv'
<1>1. WebauthnInv'
  BY DEF WebauthnInv
<1>2. MadeInv'
  BY DEF IInv, MadeInv, Kept, Steps, RedeemInv, Matches
<1>3. EntryInv'
  <2>1. \A c \in Codes : origin[c] # Never => origin[c].entry.put \in Nat
    BY DEF IInv, TypeOK, Origin, Entry
  <2>2. now \in Nat /\ now' \in Nat
    BY DEF IInv, TypeOK
  <2>3. \A c \in Codes : origin[c] # Never => origin[c].entry.put <= now'
    BY <2>1, <2>2 DEF IInv, EntryInv
  <2> QED
    BY <2>3 DEF IInv, EntryInv, CodeLifespan
<1>4. OriginInv' /\ DeliveredInv'
  BY DEF IInv, OriginInv, DeliveredInv
<1>5. NewInv'
  BY DEF IInv, NewInv, Kept
<1>6. RedeemInv'
  BY DEF IInv, RedeemInv, Kept
<1>7. AnswerInv'
  BY DEF IInv, AnswerInv
<1>8. SessionInv'
  BY DEF IInv, SessionInv
<1> QED
  BY <1>1, <1>2, <1>3, <1>4, <1>5, <1>6, <1>7, <1>8 DEF IInv

\* A handler starts.
LEMMA StartKeeps ==
    ASSUME IInv, TypeOK', NEW r \in Requests, NEW new \in Busy,
           req' = [req EXCEPT ![r] = new],
           UNCHANGED <<now, sess, codes, loginReq, ceremony, origin, spent, delivered,
                       keyed, tokens>>,
           new.step \in {"save", "code"} =>
               /\ Fresh(new.code)
               /\ new.via = "passkey" => "mfa" \in new.flags
               /\ new.via = "session" => Based(delivered, keyed, origin, new.ses, new.user),
           new.step \in {"start", "finish"} => origin[new.code] # Never,
           new.step \notin {"await", "session", "delete"},
           new.step = "tokens" =>
               /\ Matches(delivered, origin, new.code, new.client, new.user,
                          new.verifier, new.at)
               /\ new.ses = origin[new.code].entry.ses
    PROVE  IInv'
<1>1. TypeOK
  BY DEF IInv
<1>2. req'[r] = new /\ \A q \in Requests : q # r => req'[q] = req[q]
  BY <1>1, OneRequest
<1>3. new.step \in Steps /\ new.code \in Codes
  BY DEF Busy
<1>4. WebauthnInv' /\ EntryInv' /\ OriginInv' /\ DeliveredInv' /\ AnswerInv' /\ SessionInv'
  BY DEF IInv, WebauthnInv, EntryInv, OriginInv, DeliveredInv, AnswerInv, SessionInv,
         CodeLifespan
<1>5. MadeInv'
  BY <1>2, <1>3 DEF IInv, MadeInv, Steps, Matches
<1>6. RedeemInv'
  BY <1>2, <1>3 DEF IInv, RedeemInv
<1>7. NewInv'
  <2>1. \A p \in Requests : req[p].step \in {"save", "code"} => req[p] # Idle
    BY DEF Idle
  <2>2. new.step \in {"save", "code"} => origin[new.code] = Never
        /\ \A p \in Requests : req[p].step \in {"save", "code"} => req[p].code # new.code
    BY <2>1 DEF Fresh
  <2> QED
    BY <1>2, <2>2 DEF IInv, NewInv
<1> QED
  BY <1>4, <1>5, <1>6, <1>7 DEF IInv

\* A code is made, and sent if no key is needed.
LEMMA AuthorizeCodeKeeps ==
    ASSUME IInv, TypeOK', NEW r \in Requests, AuthorizeCode(r)
    PROVE  IInv'
<1> DEFINE q == req[r]
           c == q.code
           o == [entry |-> NewCode(q), via |-> q.via, flags |-> q.flags]
           key == NeedsKey(q.flags, q.via)
<1>1. TypeOK /\ now \in Nat /\ delivered \subseteq Codes /\ keyed \subseteq Codes \X Users
  BY DEF IInv, TypeOK
<1>2. q \in Busy /\ c \in Codes /\ q.flags \in Rows /\ q.via \in Via /\ q.step = "code"
  BY <1>1, BusyType DEF AuthorizeCode, Steps
<1>3. /\ UNCHANGED <<now, sess, loginReq, ceremony, spent, keyed, tokens>>
  BY DEF AuthorizeCode, tables, webauthnData, redeemed
<1>4. CASE UNCHANGED <<codes, origin, delivered>> /\ req' = [req EXCEPT ![r] = Idle]
  <2>1. \A p \in Requests : Kept(p)
    BY <1>1, <1>4, OneRequest DEF Kept, Idle
  <2>2. \A d \in Codes : loginReq'[d] # NoEntry \/ Begun(ceremony', d) => origin[d] # Never
    BY <1>3 DEF IInv, WebauthnInv
  <2> QED
    BY <1>1, <1>3, <1>4, <2>1, <2>2, QuietKeeps
<1>5. CASE /\ codes' = [codes EXCEPT ![c] = NewCode(q)]
           /\ origin' = [origin EXCEPT ![c] = o]
           /\ delivered' = IF key THEN delivered ELSE delivered \cup {c}
           /\ req' = [req EXCEPT ![r] = IF key THEN [q EXCEPT !.step = "await"] ELSE Idle]
  <2>1. /\ NewCode(q) \in Entry /\ NewCode(q).user = q.user /\ NewCode(q).ses = q.ses
        /\ NewCode(q).put = now /\ NewCode(q).exp - now <= CodeLifespan
    BY <1>1, <1>2, NewCodeType
  <2>2. o \in Origin /\ o.entry = NewCode(q) /\ o.via = q.via /\ o.flags = q.flags
    BY <1>2, <2>1 DEF Origin
  <2>3. origin'[c] = o /\ o # Never /\ \A d \in Codes : d # c => origin'[d] = origin[d]
    BY <1>1, <1>2, <1>5, <2>2, NoValueAssumption DEF TypeOK
  <2>4. /\ origin[c] = Never
        /\ \A p \in Requests : p # r /\ req[p].step \in {"save", "code"} => req[p].code # c
        /\ q.via = "passkey" => "mfa" \in q.flags
        /\ q.via = "session" => Based(delivered, keyed, origin, q.ses, q.user)
    BY <1>2 DEF IInv, NewInv
  <2>5. codes'[c] = NewCode(q) /\ \A d \in Codes : d # c => codes'[d] = codes[d]
    BY <1>1, <1>2, <1>5 DEF TypeOK
  <2> HIDE DEF o
  <2>6. \A d \in Codes : origin[d] # Never => origin'[d] = origin[d]
    BY <2>3, <2>4
  <2>7. delivered \subseteq delivered' /\ keyed \subseteq keyed'
    BY <1>3, <1>5
  <2>8. \A s, u : Based(delivered, keyed, origin, s, u) =>
                      Based(delivered', keyed', origin', s, u)
    <3> TAKE s, u
    <3> HAVE Based(delivered, keyed, origin, s, u)
    <3>1. \A d \in delivered : origin[d] # Never => origin'[d] = origin[d]
      BY <1>1, <2>6
    <3> QED
      BY <2>7, <3>1, BasedGrows
  <2>9. \A d \in Codes : \A cl, u, v, at : Matches(delivered, origin, d, cl, u, v, at) =>
            Matches(delivered', origin', d, cl, u, v, at) /\ origin'[d] = origin[d]
    BY <2>6, <2>7, MatchesGrows
  <2>10. /\ \A p \in Requests : p # r => req'[p] = req[p]
         /\ req'[r].step \in {"idle", "await"}
         /\ req'[r].step = "await" => req'[r].code = c
    <3> DEFINE new == [q EXCEPT !.step = "await"]
    <3>1. new.step = "await" /\ new.code = c
      BY <1>2 DEF Busy
    <3>2. req' = [req EXCEPT ![r] = new] \/ req' = [req EXCEPT ![r] = Idle]
      BY <1>5
    <3> HIDE DEF new
    <3>3. /\ \A p \in Requests : p # r => req'[p] = req[p]
          /\ req'[r] \in {new, Idle}
      BY <1>1, <3>2, OneRequest
    <3> QED
      BY <3>1, <3>3 DEF Idle
  <2>11. \A p \in Requests : req[p].step \in Steps => req[p].code \in Codes
    BY <1>1, BusyType
  <2>12. WebauthnInv'
    BY <1>3, <2>3, <2>6 DEF IInv, WebauthnInv
  <2>13. MadeInv'
    BY <2>3, <2>6, <2>10, <2>11 DEF IInv, MadeInv, Steps
  <2>14. EntryInv'
    <3>1. c \notin spent' => codes'[c] # NoEntry
      BY <2>1, <2>5, NoValueAssumption
    <3>2. \A d \in Codes : origin[d] # Never => origin[d].entry.put \in Nat
      BY <1>1 DEF TypeOK, Origin, Entry
    <3>3. now <= now
      BY <1>1
    <3> QED
      BY <1>3, <2>1, <2>2, <2>3, <2>5, <2>6, <3>1, <3>2, <3>3 DEF IInv, EntryInv, CodeLifespan
  <2>15. OriginInv'
    BY <2>1, <2>2, <2>3, <2>4, <2>6, <2>8 DEF IInv, OriginInv
  <2>16. DeliveredInv'
    <3>1. ASSUME NEW d \in delivered PROVE Proven(keyed', origin', d)
      <4>1. Proven(keyed, origin, d) /\ d \in Codes
        BY <1>1 DEF IInv, DeliveredInv
      <4> QED
        BY <2>6, <2>7, <4>1, ProvenGrows
    <3>2. ASSUME ~key PROVE Proven(keyed', origin', c)
      <4>1. q.via \in {"password", "session"}
        BY <1>2, <2>4, <3>2 DEF NeedsKey, Via
      <4> QED
        BY <2>2, <2>3, <3>2, <4>1 DEF Proven, NeedsKey
    <3> QED
      BY <1>5, <3>1, <3>2 DEF DeliveredInv
  <2>17. NewInv'
    <3>1. \A p \in Requests : req'[p].step \in {"save", "code"} => p # r /\ req'[p] = req[p]
      BY <2>10
    <3>2. \A p \in Requests : req[p].step \in {"save", "code"} => req[p].code \in Codes
      BY <2>11 DEF Steps
    <3> QED
      BY <2>3, <2>4, <2>8, <3>1, <3>2 DEF IInv, NewInv
  <2>18. RedeemInv'
    <3>1. \A p \in Requests : req'[p].step \in {"tokens", "session", "delete"} =>
              req'[p] = req[p] /\ req[p].code \in Codes
      BY <2>10, <2>11 DEF Steps
    <3> QED
      BY <2>9, <3>1 DEF IInv, RedeemInv
  <2>19. AnswerInv'
    <3>1. \A t \in tokens : t.code \in Codes
      BY <1>1 DEF TypeOK, Answers
    <3> QED
      BY <1>3, <2>9, <3>1 DEF IInv, AnswerInv
  <2>20. SessionInv'
    BY <1>3, <2>8 DEF IInv, SessionInv
  <2> QED
    BY <2>12, <2>13, <2>14, <2>15, <2>16, <2>17, <2>18, <2>19, <2>20 DEF IInv
<1> QED
  BY <1>4, <1>5 DEF AuthorizeCode

\* A code is sent for a completed ceremony.
LEMMA FinishSaveKeeps ==
    ASSUME IInv, TypeOK', NEW r \in Requests, FinishSave(r)
    PROVE  IInv'
<1> DEFINE c == req[r].code
<1>1. TypeOK /\ now \in Nat /\ delivered \subseteq Codes
  BY DEF IInv, TypeOK
<1>2. c \in Codes /\ req[r].user \in Users /\ req[r].key \in Users /\ origin[c] # Never
  BY <1>1, BusyType DEF FinishSave, Steps, IInv, MadeInv
<1>3. /\ UNCHANGED <<now, codes, loginReq, ceremony, origin, spent, tokens>>
      /\ delivered' = delivered \cup {c} /\ keyed' = keyed \cup {<<c, req[r].key>>}
      /\ req' = [req EXCEPT ![r] = Idle]
  BY DEF FinishSave, webauthnData, redeemed
<1>4. req'[r] = Idle /\ \A p \in Requests : p # r => req'[p] = req[p]
  BY <1>1, <1>3, OneRequest
<1>5. \A s \in Sessions : sess'[s] \in Users => sess'[s] = sess[s]
  <2>1. sess' = sess \/ sess' = EndSessions(req[r].user)
    BY DEF FinishSave
  <2> QED
    BY <1>1, <1>2, <2>1, EndSessionsType
<1> HIDE DEF c
<1>6. delivered \subseteq delivered' /\ keyed \subseteq keyed'
  BY <1>3
<1>7. \A s, u : Based(delivered, keyed, origin, s, u) =>
                    Based(delivered', keyed', origin', s, u)
  BY <1>3, <1>6, BasedGrows
<1>8. \A d, cl, u, v, at : Matches(delivered, origin, d, cl, u, v, at) =>
          Matches(delivered', origin', d, cl, u, v, at)
  BY <1>3, <1>6, MatchesGrows
<1>9. \A p \in Requests : req'[p].step # "idle" => p # r /\ req'[p] = req[p]
  BY <1>4 DEF Idle
<1>10. WebauthnInv' /\ EntryInv'
  BY <1>3 DEF IInv, WebauthnInv, EntryInv, CodeLifespan
<1>11. MadeInv'
  BY <1>3, <1>9 DEF IInv, MadeInv, Steps
<1>12. OriginInv'
  BY <1>3, <1>7 DEF IInv, OriginInv
<1>13. DeliveredInv'
  <2>1. \A d \in delivered : Proven(keyed', origin', d)
    BY <1>3, <1>6, ProvenGrows DEF IInv, DeliveredInv
  <2>2. Proven(keyed', origin', c)
    BY <1>2, <1>3 DEF Proven, Keyed
  <2> QED
    BY <1>3, <2>1, <2>2 DEF DeliveredInv
<1>14. NewInv'
  BY <1>3, <1>7, <1>9 DEF IInv, NewInv
<1>15. RedeemInv'
  BY <1>3, <1>8, <1>9 DEF IInv, RedeemInv
<1>16. AnswerInv'
  BY <1>3, <1>8 DEF IInv, AnswerInv
<1>17. SessionInv'
  BY <1>5, <1>7 DEF IInv, SessionInv
<1> QED
  BY <1>10, <1>11, <1>12, <1>13, <1>14, <1>15, <1>16, <1>17 DEF IInv

\* A login starts.
LEMMA LoginKeeps ==
    ASSUME IInv, TypeOK', NEW r \in Requests, Login(r)
    PROVE  IInv'
<1>1. TypeOK
  BY DEF IInv
<1>2. ASSUME NEW c \in Codes, NEW s \in Sessions, NEW u \in Users, NEW cl \in Clients,
             NEW ch \in Challenge \cup {NoChallenge}, NEW via \in {"password", "passkey"},
             AuthorizeFind(r, c, s, u, cl, ch, via)
      PROVE  IInv'
  <2> DEFINE new == [step |-> IF via = "password" THEN "save" ELSE "code", code |-> c,
                     user |-> u, ses |-> s, client |-> cl, challenge |-> ch, via |-> via,
                     flags |-> user[u], verifier |-> NoVerifier, at |-> 0, key |-> u]
  <2>1. req' = [req EXCEPT ![r] = new]
    BY <1>2 DEF AuthorizeFind
  <2>2. via \in Via /\ user[u] \in Rows /\ now \in Nat
        /\ (via = "passkey" => "mfa" \in user[u])
    BY <1>1, <1>2 DEF AuthorizeFind, MayLogin, Via, TypeOK
  <2>3. new \in Busy
    BY <2>2 DEF Busy, Steps
  <2>4. /\ new.step \in {"save", "code"} /\ new.code = c /\ new.via # "session"
        /\ new.via = "passkey" => "mfa" \in new.flags
    BY <2>2
  <2>5. Fresh(c) /\ UNCHANGED <<now, sess, codes, loginReq, ceremony, origin, spent,
                                delivered, keyed, tokens>>
    BY <1>2 DEF AuthorizeFind, tables, webauthnData, sent, redeemed
  <2> HIDE DEF new
  <2>6. /\ new.step \notin {"start", "finish", "await", "session", "delete", "tokens"}
        /\ Fresh(new.code)
    BY <2>4, <2>5
  <2> QED
    BY <2>1, <2>3, <2>4, <2>5, <2>6, StartKeeps
<1>3. ASSUME NEW c \in Codes, NEW s \in Sessions, NEW u \in Users, NEW cl \in Clients,
             NEW ch \in Challenge \cup {NoChallenge}, RefreshFind(r, c, s, u, cl, ch)
      PROVE  IInv'
  <2> DEFINE new == [step |-> "code", code |-> c, user |-> u, ses |-> s, client |-> cl,
                     challenge |-> ch, via |-> "session", flags |-> user[u],
                     verifier |-> NoVerifier, at |-> 0, key |-> u]
  <2>1. req' = [req EXCEPT ![r] = new]
    BY <1>3 DEF RefreshFind
  <2>2. user[u] \in Rows /\ now \in Nat
    BY <1>1, <1>3 DEF RefreshFind, TypeOK
  <2>3. new \in Busy
    BY <2>2 DEF Busy, Steps, Via
  <2>4. /\ new.step = "code" /\ new.code = c /\ new.via = "session"
        /\ new.ses = s /\ new.user = u
    OBVIOUS
  <2>5. Fresh(c) /\ UNCHANGED <<now, sess, codes, loginReq, ceremony, origin, spent,
                                delivered, keyed, tokens>>
    BY <1>3 DEF RefreshFind, tables, webauthnData, sent, redeemed
  <2>6. Based(delivered, keyed, origin, s, u)
    BY <1>3 DEF RefreshFind, IInv, SessionInv
  <2> HIDE DEF new
  <2>7. /\ new.step \notin {"start", "finish", "await", "session", "delete", "tokens"}
        /\ Fresh(new.code) /\ new.via # "passkey"
        /\ Based(delivered, keyed, origin, new.ses, new.user)
    BY <2>4, <2>5, <2>6
  <2> QED
    BY <2>1, <2>3, <2>5, <2>7, StartKeeps
<1> QED
  BY <1>2, <1>3 DEF Login

\* The second factor or a redemption starts.
LEMMA ContinueKeeps ==
    ASSUME IInv, TypeOK', NEW r \in Requests, NEW c \in Codes, NEW u \in Users,
           NEW k \in Users, StartFind(r, c, u) \/ FinishFind(r, c, u, k)
    PROVE  IInv'
<1>1. TypeOK /\ origin[c] # Never /\ user[u] # NoRow
  BY DEF IInv, WebauthnInv, Begun, StartFind, FinishFind, Cached
<1>2. PICK step \in {"start", "finish"}, x \in {u, k} :
        req' = [req EXCEPT ![r] = Continue(c, u, x, step)]
  BY DEF StartFind, FinishFind
<1>3. step \in Steps /\ x \in Users
  BY DEF Steps
<1> DEFINE new == Continue(c, u, x, step)
<1>4. new \in Busy /\ new.step = step /\ new.code = c
  BY <1>1, <1>3, ContinueType
<1>5. UNCHANGED <<now, sess, codes, loginReq, ceremony, origin, spent, delivered, keyed,
                  tokens>>
  BY DEF StartFind, FinishFind, tables, webauthnData, sent, redeemed
<1>6. req' = [req EXCEPT ![r] = new]
  BY <1>2
<1> HIDE DEF new
<1>7. new.step \notin {"save", "code", "await", "session", "delete", "tokens"}
  BY <1>4
<1> QED
  BY <1>1, <1>4, <1>5, <1>6, <1>7, StartKeeps

\* A redemption starts.
LEMMA RedeemKeeps ==
    ASSUME IInv, TypeOK', NEW r \in Requests, NEW c \in Codes, NEW cl \in Clients,
           NEW v \in Verifiers \cup {NoVerifier}, RedeemFind(r, c, cl, v)
    PROVE  IInv'
<1> DEFINE e == codes[c]
           new == [step |-> "tokens", code |-> c, user |-> e.user, ses |-> e.ses,
                   client |-> cl, challenge |-> e.challenge, via |-> "session",
                   flags |-> user[e.user], verifier |-> v, at |-> now, key |-> e.user]
<1>1. TypeOK /\ now \in Nat
  BY DEF IInv, TypeOK
<1>2. c \in delivered /\ e # NoEntry /\ Redeemable(e, cl) /\ ChallengeMet(e.challenge, v)
      /\ user[e.user] # NoRow /\ req' = [req EXCEPT ![r] = new]
  BY DEF RedeemFind, CodeCached
<1>3. e \in Entry /\ origin[c] # Never /\ origin[c].entry = e
  BY <1>1, <1>2 DEF IInv, EntryInv, TypeOK
<1>4. e.user \in Users /\ e.ses \in Sessions /\ e.challenge \in Challenge \cup {NoChallenge}
      /\ e.exp \in Nat
  BY <1>3 DEF Entry
<1>5. user[e.user] \in Rows
  BY <1>1, <1>2, <1>4 DEF TypeOK
<1>6. new \in Busy
  BY <1>1, <1>4, <1>5 DEF Busy, Steps, Via
<1>7. /\ new.step = "tokens" /\ new.code = c /\ new.client = cl /\ new.user = e.user
      /\ new.verifier = v /\ new.at = now /\ new.ses = e.ses
  OBVIOUS
<1>8. Matches(delivered, origin, c, cl, e.user, v, now)
  <2>1. cl = e.client /\ now <= e.exp
    BY <1>1, <1>2, <1>4 DEF Redeemable
  <2>2. e.challenge # NoChallenge => v = e.challenge.verifier
    BY <1>2 DEF ChallengeMet
  <2> QED
    BY <1>2, <1>3, <2>1, <2>2 DEF Matches
<1>9. UNCHANGED <<now, sess, codes, loginReq, ceremony, origin, spent, delivered, keyed,
                  tokens>>
  BY DEF RedeemFind, tables, webauthnData, sent, redeemed
<1> HIDE DEF new
<1>10. /\ new.step \notin {"save", "code", "await", "session", "delete", "start", "finish"}
       /\ Matches(delivered, origin, new.code, new.client, new.user, new.verifier, new.at)
       /\ new.ses = origin[new.code].entry.ses
  BY <1>3, <1>7, <1>8
<1> QED
  BY <1>2, <1>6, <1>9, <1>10, StartKeeps

\* A handler that ends or goes on with the copies it has.
LEMMA OneKept ==
    ASSUME TypeOK, NEW r \in Requests,
           \/ req' = [req EXCEPT ![r] = Idle]
           \/ req[r].step = "save" /\ req' = [req EXCEPT ![r] = [@ EXCEPT !.step = "code"]]
           \/ req[r].step = "tokens"
                /\ req' = [req EXCEPT ![r] = [@ EXCEPT !.step = "session"]]
           \/ req[r].step = "session"
                /\ req' = [req EXCEPT ![r] = [@ EXCEPT !.step = "delete"]]
    PROVE  \A p \in Requests : Kept(p)
<1>1. CASE req' = [req EXCEPT ![r] = Idle]
  BY <1>1, OneRequest DEF Kept, Idle
<1>2. ASSUME NEW from \in {"save", "tokens", "session"}, NEW to \in {"code", "session", "delete"},
             <<from, to>> \in {<<"save", "code">>, <<"tokens", "session">>,
                               <<"session", "delete">>},
             req[r].step = from, req' = [req EXCEPT ![r] = [@ EXCEPT !.step = to]]
      PROVE  \A p \in Requests : Kept(p)
  <2> DEFINE new == [req[r] EXCEPT !.step = to]
  <2>1. req[r].step \in Steps /\ to \in Steps
    BY <1>2 DEF Steps
  <2>2. req[r] \in Busy
    BY <2>1, BusyType
  <2>3. /\ new.step = to
        /\ new.code = req[r].code /\ new.user = req[r].user /\ new.ses = req[r].ses
        /\ new.client = req[r].client /\ new.via = req[r].via /\ new.flags = req[r].flags
        /\ new.verifier = req[r].verifier /\ new.at = req[r].at
    BY <2>1, <2>2, NextStep
  <2>4. req' = [req EXCEPT ![r] = new]
    BY <1>2
  <2> HIDE DEF new
  <2>5. req'[r] = new /\ \A p \in Requests : p # r => req'[p] = req[p]
    BY <2>4, OneRequest
  <2> QED
    BY <1>2, <2>3, <2>5 DEF Kept
<1> QED
  BY <1>1, <1>2

\* The steps of a handler.
LEMMA StepKeeps ==
    ASSUME IInv, TypeOK', NEW r \in Requests, Step(r)
    PROVE  IInv'
<1> USE DEF tables, webauthnData, sent, redeemed
<1>1. TypeOK /\ now \in Nat /\ delivered \subseteq Codes /\ now <= now
  BY DEF IInv, TypeOK
<1>2. \A c \in Codes : loginReq[c] # NoEntry \/ Begun(ceremony, c) => origin[c] # Never
  BY DEF IInv, WebauthnInv
<1>3. CASE AuthorizeSave(r)
  <2>1. \A p \in Requests : Kept(p)
    BY <1>1, <1>3, OneKept DEF AuthorizeSave
  <2>2. UNCHANGED <<now, sess, codes, loginReq, ceremony, origin, spent, delivered, keyed,
                    tokens>>
    BY <1>3 DEF AuthorizeSave
  <2> QED
    BY <1>1, <1>2, <2>1, <2>2, QuietKeeps
<1>4. CASE AuthorizeCode(r)
  BY <1>4, AuthorizeCodeKeeps
<1>5. CASE AuthorizeAwait(r)
  <2>1. \A p \in Requests : Kept(p)
    BY <1>1, <1>5, OneKept DEF AuthorizeAwait
  <2>2. UNCHANGED <<now, sess, codes, ceremony, origin, spent, delivered, keyed, tokens>>
    BY <1>5 DEF AuthorizeAwait
  <2>3. req[r].code \in Codes /\ origin[req[r].code] # Never
    BY <1>1, <1>5, BusyType DEF AuthorizeAwait, Steps, IInv, MadeInv
  <2>4. \A c \in Codes : loginReq'[c] # NoEntry \/ Begun(ceremony', c) => origin[c] # Never
    BY <1>1, <1>2, <1>5, <2>3 DEF AuthorizeAwait, TypeOK
  <2> QED
    BY <1>1, <2>1, <2>2, <2>4, QuietKeeps
<1>6. CASE StartSave(r)
  <2>1. \A p \in Requests : Kept(p)
    BY <1>1, <1>6, OneKept DEF StartSave
  <2>2. UNCHANGED <<now, sess, codes, origin, spent, delivered, keyed, tokens>>
    BY <1>6 DEF StartSave
  <2>3. req[r].code \in Codes /\ origin[req[r].code] # Never
    BY <1>1, <1>6, BusyType DEF StartSave, Steps, IInv, MadeInv
  <2>4. \A c \in Codes : loginReq'[c] # NoEntry \/ Begun(ceremony', c) => origin[c] # Never
    <3>1. \A c \in Codes \ {req[r].code} : ceremony'[c] = ceremony[c]
      BY <1>1, <1>6, <2>3 DEF StartSave, TypeOK
    <3>2. \A c \in Codes \ {req[r].code} : loginReq'[c] = loginReq[c]
      BY <1>1, <1>6, <2>3 DEF StartSave, TypeOK
    <3> QED
      BY <1>2, <2>3, <3>1, <3>2 DEF Begun
  <2> QED
    BY <1>1, <2>1, <2>2, <2>4, QuietKeeps
<1>7. CASE FinishSave(r)
  BY <1>7, FinishSaveKeeps
<1>8. CASE RedeemTokens(r)
  <2>1. \A p \in Requests : Kept(p)
    <3>1. \/ req' = [req EXCEPT ![r] = Idle]
          \/ req[r].step = "tokens" /\ req' = [req EXCEPT ![r] = [@ EXCEPT !.step = "session"]]
      BY <1>8 DEF RedeemTokens
    <3> QED
      BY <1>1, <3>1, OneKept
  <2>2. UNCHANGED <<now, sess, codes, loginReq, ceremony, origin, spent, delivered, keyed,
                    tokens>>
    BY <1>8 DEF RedeemTokens
  <2> QED
    BY <1>1, <1>2, <2>1, <2>2, QuietKeeps
<1>9. CASE RedeemSession(r)
  <2> DEFINE q == req[r]
  <2>1. \A p \in Requests : Kept(p)
    <3>1. \/ req' = [req EXCEPT ![r] = Idle]
          \/ req[r].step = "session" /\ req' = [req EXCEPT ![r] = [@ EXCEPT !.step = "delete"]]
      BY <1>9 DEF RedeemSession
    <3> QED
      BY <1>1, <3>1, OneKept
  <2>2. UNCHANGED <<now, loginReq, ceremony, origin, delivered, keyed, tokens>>
    BY <1>9 DEF RedeemSession
  <2>3. q.code \in Codes /\ q.ses \in Sessions /\ q.user \in Users /\ q.step = "session"
    BY <1>1, <1>9, BusyType DEF RedeemSession, Steps
  <2>4. /\ spent \subseteq spent'
        /\ \A c \in Codes : codes'[c] = codes[c] \/ (codes'[c] = NoEntry /\ c \in spent')
    BY <1>1, <1>9, <2>3 DEF RedeemSession, TypeOK
  <2>5. Based(delivered, keyed, origin, q.ses, q.user)
    <3>1. /\ q.code \in delivered /\ origin[q.code] # Never
          /\ q.user = origin[q.code].entry.user /\ q.ses = origin[q.code].entry.ses
      BY <2>3 DEF IInv, RedeemInv, Matches
    <3>2. Proven(keyed, origin, q.code)
      BY <3>1 DEF IInv, DeliveredInv
    <3>3. CASE origin[q.code].via = "session"
      BY <2>3, <3>1, <3>3 DEF IInv, OriginInv
    <3>4. CASE origin[q.code].via # "session"
      BY <3>1, <3>2, <3>4 DEF Based, Proven
    <3> QED
      BY <3>3, <3>4
  <2>6. \A s \in Sessions : sess'[s] \in Users =>
            sess'[s] = sess[s] \/ (s = q.ses /\ sess'[s] = q.user)
    <3>1. \/ sess' = sess
          \/ sess' = [sess EXCEPT ![q.ses] = IF @ = Gone THEN Gone ELSE q.user]
      BY <1>9 DEF RedeemSession
    <3> QED
      BY <1>1, <2>3, <3>1 DEF TypeOK
  <2>7. \A s \in Sessions : sess'[s] \in Users =>
            sess'[s] = sess[s] \/ Based(delivered, keyed, origin, s, sess'[s])
    BY <2>5, <2>6
  <2> QED
    BY <1>1, <1>2, <2>1, <2>2, <2>4, <2>7, QuietKeeps
<1>10. CASE RedeemDelete(r)
  <2> DEFINE q == req[r]
             t == [code |-> q.code, client |-> q.client, user |-> q.user,
                   verifier |-> q.verifier, at |-> q.at]
  <2>1. \A p \in Requests : Kept(p)
    BY <1>1, <1>10, OneKept DEF RedeemDelete, Answer
  <2>2. UNCHANGED <<now, sess, loginReq, ceremony, origin, delivered, keyed>>
        /\ tokens' = tokens \cup {t}
    BY <1>10 DEF RedeemDelete, Answer
  <2>3. q.code \in Codes /\ q.step = "delete"
    BY <1>1, <1>10, BusyType DEF RedeemDelete, Steps
  <2>4. /\ spent \subseteq spent'
        /\ \A c \in Codes : codes'[c] = codes[c] \/ (codes'[c] = NoEntry /\ c \in spent')
    BY <1>1, <1>10, <2>3 DEF RedeemDelete, TypeOK
  <2>5. Matches(delivered, origin, q.code, q.client, q.user, q.verifier, q.at)
    BY <2>3 DEF IInv, RedeemInv
  <2>6. Matches(delivered, origin, t.code, t.client, t.user, t.verifier, t.at)
    BY <2>5
  <2> HIDE DEF t
  <2>7. \A x \in tokens' : x \in tokens \/
            Matches(delivered, origin, x.code, x.client, x.user, x.verifier, x.at)
    BY <2>2, <2>6
  <2> QED
    BY <1>1, <1>2, <2>1, <2>2, <2>4, <2>7, QuietKeeps
<1>11. CASE Fail(r)
  <2>1. \A p \in Requests : Kept(p)
    BY <1>1, <1>11, OneKept DEF Fail
  <2>2. UNCHANGED <<now, sess, codes, loginReq, ceremony, origin, spent, delivered, keyed,
                    tokens>>
    BY <1>11 DEF Fail
  <2> QED
    BY <1>1, <1>2, <2>1, <2>2, QuietKeeps
<1> QED
  BY <1>3, <1>4, <1>5, <1>6, <1>7, <1>8, <1>9, <1>10, <1>11 DEF Step

\* The end of the server.
LEMMA RestartKeeps ==
    ASSUME IInv, TypeOK', Restart
    PROVE  IInv'
<1> USE DEF tables, sent
<1>1. TypeOK /\ now \in Nat /\ now <= now
  BY DEF IInv, TypeOK
<1>2. \A p \in Requests : Kept(p)
  BY DEF Restart, Kept, Idle
<1>3. UNCHANGED <<now, sess, origin, delivered, keyed, tokens>> /\ spent \subseteq spent'
  BY DEF Restart, redeemed
<1>4. \A c \in Codes : codes'[c] = codes[c] \/ (codes'[c] = NoEntry /\ c \in spent')
  BY <1>1 DEF Restart, TypeOK
<1>5. \A c \in Codes : loginReq'[c] = NoEntry /\ ~Begun(ceremony', c)
  BY DEF Restart, Begun
<1> QED
  BY <1>1, <1>2, <1>3, <1>4, <1>5, QuietKeeps

\* Every action keeps the invariant.
LEMMA IInvNext == IInv /\ [Next]_vars => IInv'
<1> SUFFICES ASSUME IInv, [Next]_vars PROVE IInv'
  OBVIOUS
<1>1. TypeOK /\ TypeOK' /\ now \in Nat /\ now' \in Nat
  BY TypeNext DEF IInv, TypeOK
<1>2. ASSUME NEW r \in Requests, Login(r) \/ Step(r) PROVE IInv'
  BY <1>1, <1>2, LoginKeeps, StepKeeps
<1>3. ASSUME NEW r \in Requests, NEW c \in Codes, NEW u \in Users, NEW k \in Users,
             StartFind(r, c, u) \/ FinishFind(r, c, u, k)
      PROVE  IInv'
  BY <1>1, <1>3, ContinueKeeps
<1>4. ASSUME NEW r \in Requests, NEW c \in Codes, NEW cl \in Clients,
             NEW v \in Verifiers \cup {NoVerifier}, RedeemFind(r, c, cl, v)
      PROVE  IInv'
  BY <1>1, <1>4, RedeemKeeps
<1>5. CASE ServerRestarts \/ \E c \in Codes, cl \in Clients : RedeemPanics(c, cl)
  BY <1>1, <1>5, RestartKeeps DEF ServerRestarts, RedeemPanics
<1>6. ASSUME UNCHANGED <<codes, loginReq, ceremony, req, origin, spent, delivered, keyed,
                         tokens>>,
             now <= now',
             \A s \in Sessions : sess'[s] \in Users => sess'[s] = sess[s]
      PROVE  IInv'
  <2>1. \A p \in Requests : Kept(p)
    BY <1>6 DEF Kept
  <2>2. \A c \in Codes : loginReq'[c] # NoEntry \/ Begun(ceremony', c) => origin[c] # Never
    BY <1>6 DEF IInv, WebauthnInv
  <2> QED
    BY <1>1, <1>6, <2>1, <2>2, QuietKeeps
<1>7. ASSUME NEW u \in Users, DeleteUser(u) \/ \E flags \in Rows : UserChanges(u, flags)
      PROVE  IInv'
  <2>1. sess' = sess \/ sess' = EndSessions(u)
    BY <1>7 DEF DeleteUser, UserChanges
  <2>2. \A s \in Sessions : sess'[s] \in Users => sess'[s] = sess[s]
    BY <1>1, <2>1, EndSessionsType
  <2>3. now' = now /\ UNCHANGED <<codes, loginReq, ceremony, req, origin, spent, delivered,
                                  keyed, tokens>>
    BY <1>7 DEF DeleteUser, UserChanges, webauthnData, sent, redeemed
  <2> QED
    BY <1>1, <1>6, <2>2, <2>3
<1>8. ASSUME NEW s \in Sessions, SessionEnds(s) PROVE IInv'
  <2>1. \A p \in Sessions : sess'[p] \in Users => sess'[p] = sess[p]
    BY <1>1, <1>8, LoginFlowAssumption DEF SessionEnds, TypeOK
  <2>2. now' = now /\ UNCHANGED <<codes, loginReq, ceremony, req, origin, spent, delivered,
                                  keyed, tokens>>
    BY <1>8 DEF SessionEnds, webauthnData, sent, redeemed
  <2> QED
    BY <1>1, <1>6, <2>1, <2>2
<1>9. CASE Tick
  BY <1>1, <1>6, <1>9 DEF Tick, tables, webauthnData, sent, redeemed
<1>10. CASE UNCHANGED vars
  BY <1>1, <1>6, <1>10 DEF vars, tables, webauthnData, sent, redeemed
<1> QED
  BY <1>2, <1>3, <1>4, <1>5, <1>7, <1>8, <1>9, <1>10 DEF Next

\* The initial state: nothing has happened.
LEMMA IInvInit == Init => IInv
<1> SUFFICES ASSUME Init PROVE IInv
  OBVIOUS
<1>1. TypeOK
  <2>1. user \in [Users -> Rows \cup {NoRow}]
    <3>1. {"exists", "enabled"} \in Rows /\ {"exists", "enabled", "mfa"} \in Rows
      <4>1. {"exists", "enabled"} = {"exists"} \cup {"enabled"}
            /\ {"exists", "enabled", "mfa"} = {"exists"} \cup {"enabled", "mfa"}
        OBVIOUS
      <4> QED
        BY <4>1 DEF Rows
    <3> QED
      BY <3>1 DEF Init
  <2>2. \A u \in Users : user[u] # NoRow
    BY DEF Init, NoRow
  <2> QED
    BY <2>1, <2>2, LoginFlowAssumption DEF Init, TypeOK
<1>2. \A r \in Requests : req[r].step = "idle"
  BY DEF Init, Idle
<1>3. WebauthnInv /\ EntryInv /\ OriginInv /\ DeliveredInv /\ AnswerInv
  BY DEF Init, WebauthnInv, Begun, EntryInv, OriginInv, DeliveredInv, AnswerInv
<1>4. MadeInv /\ NewInv /\ RedeemInv
  BY <1>2 DEF MadeInv, NewInv, RedeemInv, Steps
<1>5. SessionInv
  BY LoginFlowAssumption DEF Init, SessionInv, Based
<1> QED
  BY <1>1, <1>3, <1>4, <1>5 DEF IInv

\* The inductive invariant holds in every behaviour.
LEMMA LoginInvariant == Spec => []IInv
<1>1. Init => IInv
  BY IInvInit
<1>2. IInv /\ [Next]_vars => IInv'
  BY IInvNext
<1> QED
  BY <1>1, <1>2, PTL DEF Spec

\* The state stays well-formed, and an authenticated session belongs to an
\* existing user, in every behaviour of the login handlers, the redemption of
\* codes (authorize, auth_start, auth_finish, grant_type_code) and User::delete.
THEOREM TypeCorrect == Spec => []TypeOK
<1>1. IInv => TypeOK
  BY DEF IInv
<1> QED
  BY <1>1, LoginInvariant, PTL

\* grant_type_code answers tokens only for a code whose login had proven a password
\* or, where the user had a key, completed a ceremony started for it, to its client, with its verifier and in its lifetime, for any number
\* of handlers that interleave.
THEOREM LoginTokensProven == Spec => []TokensProven
<1>1. IInv => TokensProven
  <2> SUFFICES ASSUME IInv, NEW t \in tokens
               PROVE  LET o == origin[t.code]
                      IN  /\ o # Never
                          /\ t.client = o.entry.client /\ t.user = o.entry.user
                          /\ o.entry.challenge # NoChallenge =>
                               t.verifier = o.entry.challenge.verifier
                          /\ t.at <= o.entry.exp
                          /\ ProvenLogin(t.code) \/ ProvenRefresh(t.code)
    BY DEF TokensProven
  <2>1. Matches(delivered, origin, t.code, t.client, t.user, t.verifier, t.at)
    BY DEF IInv, AnswerInv
  <2>2. Proven(keyed, origin, t.code)
    BY <2>1 DEF IInv, DeliveredInv, Matches
  <2> QED
    BY <2>1, <2>2 DEF Matches, Proven, Keyed, ProvenLogin, ProvenRefresh
<1> QED
  BY <1>1, LoginInvariant, PTL

\* However many refreshes and redemptions follow each other, a session that becomes
\* authenticated goes back to a login of its user in that session (authorize_refresh,
\* auth_finish, grant_type_code).
THEOREM LoginSessionsProven == Spec => []SessionsProven
<1>1. IInv => SessionsProven
  BY DEF IInv, SessionInv, Based, Keyed, SessionsProven, ProvenLogin
<1> QED
  BY <1>1, LoginInvariant, PTL

\* Whatever the lifetimes of the clients within what the validation allows, the
\* cache keeps a code until it has expired (main, authorize).
THEOREM LoginCodesCached == Spec => []UnexpiredCodeFound
<1>1. IInv => UnexpiredCodeFound
  <2> SUFFICES ASSUME IInv, NEW c \in Codes, origin[c] # Never, c \notin spent,
                      now < origin[c].entry.exp
               PROVE  CodeCached(c)
    BY DEF UnexpiredCodeFound
  <2> DEFINE e == origin[c].entry
  <2>1. codes[c] # NoEntry /\ codes[c] = e /\ e.exp - e.put <= CodeLifespan
    BY DEF IInv, EntryInv
  <2>2. e.exp \in Nat /\ e.put \in Nat /\ now \in Nat
    BY DEF IInv, TypeOK, Origin, Entry
  <2>3. CodeLifespan \in Nat
    BY LoginFlowAssumption DEF CodeLifespan
  <2> HIDE DEF e
  <2>4. now < e.exp
    BY DEF e
  <2>5. now - e.put < CodeLifespan
    BY <2>1, <2>2, <2>3, <2>4
  <2>6. e.put # NoEntry
    BY <2>2, LoginFlowAssumption
  <2> QED
    BY <2>1, <2>5, <2>6 DEF CodeCached, Cached
<1> QED
  BY <1>1, LoginInvariant, PTL
-----------------------------------------------------------------------------
\* How often a code is answered

\* The handlers between AuthCode::find and the answer for a code.
Redeeming(c) ==
    {r \in Requests : req[r].step \in {"tokens", "session", "delete"} /\ req[r].code = c}

\* A code is in the cache only before its first answer, so no handler begins to
\* redeem it afterwards: what was answered and what still may be are among the
\* handlers that ran when it was deleted.
BudgetInv ==
    /\ InFlight <= MaxInFlight
    /\ \A c \in Codes :
         /\ origin[c] = Never \/ codes[c] # NoEntry => answered[c] = 0
         /\ answered[c] + Cardinality(Redeeming(c)) <= MaxInFlight

\* Sets of handlers are finite, and a part of them has no more members.
LEMMA CountHandlers ==
    ASSUME NEW S, S \subseteq Requests
    PROVE  /\ IsFiniteSet(S) /\ Cardinality(S) \in Nat
           /\ \A T : T \subseteq S => Cardinality(T) \in Nat /\ Cardinality(T) <= Cardinality(S)
<1>1. IsFiniteSet(S)
  BY FS_Subset, LoginFlowAssumption
<1>2. ASSUME NEW T, T \subseteq S
      PROVE  Cardinality(T) \in Nat /\ Cardinality(T) <= Cardinality(S)
  BY <1>1, <1>2, FS_Subset, FS_CardinalityType
<1> QED
  BY <1>1, <1>2, FS_CardinalityType

\* A step of handler r keeps the bound if it began when another could start.
LEMMA InFlightBounded ==
    ASSUME BudgetInv, NEW r \in Requests, \A p \in Requests : p # r => req'[p] = req[p],
           CanStart(r) \/ req[r] # Idle \/ req'[r] = Idle
    PROVE  InFlight' <= MaxInFlight
<1> DEFINE S == {p \in Requests : req[p] # Idle}
           T == {p \in Requests : req'[p] # Idle}
<1>1. S \subseteq Requests /\ T \subseteq Requests /\ T \subseteq S \cup {r}
  OBVIOUS
<1>2. InFlight = Cardinality(S) /\ InFlight' = Cardinality(T)
  BY DEF InFlight
<1>3. IsFiniteSet(S) /\ Cardinality(S) \in Nat
  BY <1>1, CountHandlers
<1>4. Cardinality(S \cup {r}) = IF r \in S THEN Cardinality(S) ELSE Cardinality(S) + 1
  BY <1>3, FS_AddElement
<1>5. S \cup {r} \subseteq Requests
  BY <1>1
<1>6. Cardinality(T) \in Nat /\ Cardinality(T) <= Cardinality(S \cup {r})
  BY <1>1, <1>5, CountHandlers
<1>7. Cardinality(S) <= MaxInFlight /\ MaxInFlight \in Nat
  BY <1>2, LoginFlowAssumption DEF BudgetInv
<1>8. CASE CanStart(r)
  <2>1. Cardinality(S) < MaxInFlight
    BY <1>2, <1>8 DEF CanStart
  <2> QED
    BY <1>2, <1>3, <1>4, <1>6, <1>7, <2>1
<1>9. CASE req[r] # Idle
  <2>1. r \in S
    BY <1>9
  <2> QED
    BY <1>2, <1>3, <1>4, <1>6, <1>7, <2>1
<1>10. CASE req'[r] = Idle
  <2>1. T \subseteq S
    BY <1>1, <1>10
  <2>2. Cardinality(T) <= Cardinality(S)
    BY <1>1, <2>1, CountHandlers
  <2> QED
    BY <1>2, <1>3, <1>6, <1>7, <2>2
<1> QED
  BY <1>8, <1>9, <1>10

\* The members of Redeeming(c) are among the running handlers.
LEMMA RedeemingRuns ==
    ASSUME NEW c \in Codes
    PROVE  /\ Cardinality(Redeeming(c)) \in Nat /\ Cardinality(Redeeming(c)) <= InFlight
           /\ InFlight \in Nat /\ Redeeming(c) \subseteq Requests
<1> DEFINE S == {p \in Requests : req[p] # Idle}
<1>1. Redeeming(c) \subseteq S /\ S \subseteq Requests
  BY DEF Redeeming, Idle
<1> QED
  BY <1>1, CountHandlers DEF InFlight

\* A step that answers nothing and lets nobody begin to redeem keeps the budget.
LEMMA BudgetQuiet ==
    ASSUME IInv, BudgetInv, InFlight' <= MaxInFlight, answered' = answered,
           \A c \in Codes : /\ codes'[c] # NoEntry => codes[c] # NoEntry \/ origin[c] = Never
                            /\ origin'[c] = Never => origin[c] = Never,
           \A p \in Requests : req'[p].step \in {"tokens", "session", "delete"} =>
               /\ req[p].step \in {"tokens", "session", "delete"}
               /\ req'[p].code = req[p].code
    PROVE  BudgetInv'
<1> SUFFICES ASSUME NEW c \in Codes
             PROVE  /\ origin'[c] = Never \/ codes'[c] # NoEntry => answered'[c] = 0
                    /\ answered'[c] + Cardinality(Redeeming(c)') <= MaxInFlight
  BY DEF BudgetInv
<1>1. origin[c] = Never \/ codes[c] # NoEntry => answered[c] = 0
  BY DEF BudgetInv
<1>2. answered[c] + Cardinality(Redeeming(c)) <= MaxInFlight /\ answered[c] \in Nat
  BY DEF BudgetInv, IInv, TypeOK
<1>3. Redeeming(c)' \subseteq Redeeming(c) /\ Redeeming(c) \subseteq Requests
  BY DEF Redeeming
<1>4. /\ Cardinality(Redeeming(c)') \in Nat /\ Cardinality(Redeeming(c)) \in Nat
      /\ Cardinality(Redeeming(c)') <= Cardinality(Redeeming(c))
  BY <1>3, CountHandlers
<1>5. answered'[c] + Cardinality(Redeeming(c)') <= MaxInFlight
  BY <1>2, <1>4, LoginFlowAssumption
<1> QED
  BY <1>1, <1>5

\* A step of one handler towards idle or a step before the redemption.
LEMMA BudgetOne ==
    ASSUME IInv, BudgetInv, NEW r \in Requests, NEW new, req' = [req EXCEPT ![r] = new],
           CanStart(r) \/ req[r] # Idle,
           new.step \in {"tokens", "session", "delete"} =>
               new.code = req[r].code /\ req[r].step \in {"tokens", "session", "delete"},
           answered' = answered,
           \A c \in Codes : /\ codes'[c] # NoEntry => codes[c] # NoEntry \/ origin[c] = Never
                            /\ origin'[c] = Never => origin[c] = Never
    PROVE  BudgetInv'
<1>1. req'[r] = new /\ \A p \in Requests : p # r => req'[p] = req[p]
  BY OneRequest DEF IInv
<1>2. InFlight' <= MaxInFlight
  BY <1>1, InFlightBounded
<1>3. \A p \in Requests : req'[p].step \in {"tokens", "session", "delete"} =>
          /\ req[p].step \in {"tokens", "session", "delete"}
          /\ req'[p].code = req[p].code
  BY <1>1
<1> QED
  BY <1>2, <1>3, BudgetQuiet

\* AuthCode::find: the code was in the cache, hence never answered.
LEMMA BudgetRedeem ==
    ASSUME IInv, BudgetInv, NEW r \in Requests, NEW c \in Codes, NEW cl \in Clients,
           NEW v \in Verifiers \cup {NoVerifier}, RedeemFind(r, c, cl, v)
    PROVE  BudgetInv'
<1> DEFINE e == codes[c]
           new == [step |-> "tokens", code |-> c, user |-> e.user, ses |-> e.ses,
                   client |-> cl, challenge |-> e.challenge, via |-> "session",
                   flags |-> user[e.user], verifier |-> v, at |-> now, key |-> e.user]
<1>1. CanStart(r) /\ codes[c] # NoEntry /\ req' = [req EXCEPT ![r] = new]
  BY DEF RedeemFind, CodeCached
<1>2. UNCHANGED <<codes, origin, answered>>
  BY DEF RedeemFind, redeemed
<1>3. new.code = c /\ new.step = "tokens"
  OBVIOUS
<1> HIDE DEF new
<1>4. req'[r] = new /\ \A p \in Requests : p # r => req'[p] = req[p]
  BY <1>1, OneRequest DEF IInv
<1>5. InFlight' <= MaxInFlight
  BY <1>1, <1>4, InFlightBounded
<1>6. ASSUME NEW d \in Codes
      PROVE  /\ origin'[d] = Never \/ codes'[d] # NoEntry => answered'[d] = 0
             /\ answered'[d] + Cardinality(Redeeming(d)') <= MaxInFlight
  <2>1. origin'[d] = Never \/ codes'[d] # NoEntry => answered'[d] = 0
    BY <1>2 DEF BudgetInv
  <2>2. CASE d = c
    <3>1. answered'[c] = 0
      BY <1>1, <1>2 DEF BudgetInv
    <3>2. /\ Cardinality(Redeeming(c)') \in Nat
          /\ Cardinality(Redeeming(c)') <= InFlight' /\ InFlight' \in Nat
      <4> DEFINE S == {p \in Requests : req'[p] # Idle}
      <4>1. Redeeming(c)' \subseteq S /\ S \subseteq Requests
        BY DEF Redeeming, Idle
      <4> QED
        BY <4>1, CountHandlers DEF InFlight
    <3> QED
      BY <1>5, <2>1, <2>2, <3>1, <3>2, LoginFlowAssumption
  <2>3. CASE d # c
    <3>1. Redeeming(d)' \subseteq Redeeming(d) /\ Redeeming(d) \subseteq Requests
      BY <1>3, <1>4, <2>3 DEF Redeeming
    <3>2. /\ Cardinality(Redeeming(d)') \in Nat /\ Cardinality(Redeeming(d)) \in Nat
          /\ Cardinality(Redeeming(d)') <= Cardinality(Redeeming(d))
      BY <3>1, CountHandlers
    <3>3. answered[d] + Cardinality(Redeeming(d)) <= MaxInFlight /\ answered[d] \in Nat
      BY DEF BudgetInv, IInv, TypeOK
    <3>4. answered'[d] = answered[d]
      BY <1>2
    <3> QED
      BY <2>1, <3>2, <3>3, <3>4, LoginFlowAssumption
  <2> QED
    BY <2>2, <2>3
<1> QED
  BY <1>5, <1>6 DEF BudgetInv

\* AuthCode::delete and the answer: one handler less may answer.
LEMMA BudgetDelete ==
    ASSUME IInv, BudgetInv, NEW r \in Requests, RedeemDelete(r)
    PROVE  BudgetInv'
<1> DEFINE c == req[r].code
<1>1. req[r].step = "delete" /\ c \in Codes /\ req[r] # Idle
  BY BusyType DEF RedeemDelete, Steps, IInv
<1>2. /\ codes' = [codes EXCEPT ![c] = NoEntry] /\ origin' = origin
      /\ answered' = [answered EXCEPT ![c] = answered[c] + 1]
      /\ req' = [req EXCEPT ![r] = Idle]
  BY DEF RedeemDelete, Answer
<1>3. r \in Redeeming(c)
  BY <1>1 DEF Redeeming
<1>4. origin[c] # Never
  BY <1>1 DEF IInv, MadeInv, Steps
<1> HIDE DEF c
<1>5. req'[r] = Idle /\ \A p \in Requests : p # r => req'[p] = req[p]
  BY <1>2, OneRequest DEF IInv
<1>6. InFlight' <= MaxInFlight
  BY <1>5, InFlightBounded
<1>7. ASSUME NEW d \in Codes
      PROVE  /\ origin'[d] = Never \/ codes'[d] # NoEntry => answered'[d] = 0
             /\ answered'[d] + Cardinality(Redeeming(d)') <= MaxInFlight
  <2>1. /\ answered[d] \in Nat /\ answered[d] + Cardinality(Redeeming(d)) <= MaxInFlight
        /\ origin[d] = Never \/ codes[d] # NoEntry => answered[d] = 0
    BY DEF BudgetInv, IInv, TypeOK
  <2>2. /\ codes \in [Codes -> Entry \cup {NoEntry}] /\ answered \in [Codes -> Nat]
    BY DEF IInv, TypeOK
  <2>3. /\ IsFiniteSet(Redeeming(d)) /\ Cardinality(Redeeming(d)) \in Nat
        /\ Redeeming(d) \subseteq Requests
    <3>1. Redeeming(d) \subseteq Requests
      BY DEF Redeeming
    <3> QED
      BY <3>1, CountHandlers
  <2>4. Redeeming(d)' \subseteq Redeeming(d) \ {r}
    BY <1>5 DEF Redeeming, Idle
  <2>5. /\ Cardinality(Redeeming(d)') \in Nat
        /\ Cardinality(Redeeming(d)') <= Cardinality(Redeeming(d) \ {r})
    <3>1. Redeeming(d) \ {r} \subseteq Requests
      BY <2>3
    <3> QED
      BY <2>4, <3>1, CountHandlers
  <2>6. Cardinality(Redeeming(d) \ {r}) =
            IF r \in Redeeming(d) THEN Cardinality(Redeeming(d)) - 1 ELSE Cardinality(Redeeming(d))
    BY <2>3, FS_RemoveElement
  <2>7. CASE d = c
    <3>1. codes'[d] = NoEntry /\ answered'[d] = answered[d] + 1 /\ origin'[d] # Never
      BY <1>1, <1>2, <1>4, <2>2, <2>7
    <3>2. r \in Redeeming(d)
      BY <1>3, <2>7
    <3> QED
      BY <2>1, <2>3, <2>5, <2>6, <3>1, <3>2, LoginFlowAssumption
  <2>8. CASE d # c
    <3>1. codes'[d] = codes[d] /\ answered'[d] = answered[d] /\ origin'[d] = origin[d]
      BY <1>2, <2>2, <2>8
    <3> QED
      BY <2>1, <2>3, <2>5, <2>6, <3>1, LoginFlowAssumption
  <2> QED
    BY <2>7, <2>8
<1> QED
  BY <1>6, <1>7 DEF BudgetInv

\* The other steps of a running handler.
LEMMA BudgetStep ==
    ASSUME IInv, BudgetInv, NEW r \in Requests, Step(r)
    PROVE  BudgetInv'
<1>1. /\ codes \in [Codes -> Entry \cup {NoEntry}] /\ origin \in [Codes -> Origin \cup {Never}]
      /\ req \in [Requests -> {Idle} \cup Busy]
  BY DEF IInv, TypeOK
<1>2. Idle.step \notin {"tokens", "session", "delete"}
  BY DEF Idle
<1>3. ASSUME NEW new, req' = [req EXCEPT ![r] = new], req[r] # Idle, answered' = answered,
             \/ new.step \notin {"tokens", "session", "delete"}
             \/ new.code = req[r].code /\ req[r].step \in {"tokens", "session", "delete"},
             \A c \in Codes : /\ codes'[c] # NoEntry => codes[c] # NoEntry \/ origin[c] = Never
                              /\ origin'[c] = Never => origin[c] = Never
      PROVE  BudgetInv'
  BY <1>3, BudgetOne
<1>4. CASE AuthorizeSave(r)
  <2>1. req[r].step = "save" /\ req[r] \in Busy /\ req[r] # Idle
    BY <1>4, BusyType DEF AuthorizeSave, Steps, IInv
  <2>2. PICK new : new = [req[r] EXCEPT !.step = "code"]
    OBVIOUS
  <2>3. new.step = "code"
    BY <2>1, <2>2, NextStep DEF Steps
  <2>4. req' = [req EXCEPT ![r] = new] /\ UNCHANGED <<answered, codes, origin>>
    BY <1>4, <2>2 DEF AuthorizeSave, redeemed
  <2> QED
    BY <1>3, <2>1, <2>3, <2>4
<1>5. CASE AuthorizeCode(r)
  <2>1. req[r].step = "code" /\ req[r] \in Busy /\ req[r] # Idle /\ req[r].code \in Codes
    BY <1>5, BusyType DEF AuthorizeCode, Steps, IInv
  <2>2. origin[req[r].code] = Never
    BY <2>1 DEF IInv, NewInv
  <2>3. PICK wait : wait = [req[r] EXCEPT !.step = "await"]
    OBVIOUS
  <2>4. wait.step = "await"
    BY <2>1, <2>3, NextStep DEF Steps
  <2>5. PICK new \in {Idle, wait} : req' = [req EXCEPT ![r] = new]
    BY <1>5, <2>3 DEF AuthorizeCode
  <2>6. /\ answered' = answered
        /\ \/ UNCHANGED <<codes, origin>>
           \/ \E e, o : /\ codes' = [codes EXCEPT ![req[r].code] = e]
                        /\ origin' = [origin EXCEPT ![req[r].code] = o]
    BY <1>5 DEF AuthorizeCode, redeemed
  <2>7. \A c \in Codes : /\ codes'[c] # NoEntry => codes[c] # NoEntry \/ origin[c] = Never
                         /\ origin'[c] = Never => origin[c] = Never
    BY <1>1, <2>1, <2>2, <2>6
  <2> QED
    BY <1>2, <1>3, <2>1, <2>4, <2>5, <2>6, <2>7
<1>6. ASSUME req[r] # Idle, req' = [req EXCEPT ![r] = Idle], UNCHANGED <<answered, origin>>,
             codes' = codes \/ \E c \in Codes : codes' = [codes EXCEPT ![c] = NoEntry]
      PROVE  BudgetInv'
  <2>1. \A c \in Codes : codes'[c] # NoEntry => codes[c] # NoEntry
    BY <1>1, <1>6
  <2> QED
    BY <1>2, <1>3, <1>6, <2>1
<1>7. CASE AuthorizeAwait(r) \/ StartSave(r) \/ FinishSave(r) \/ Fail(r)
  <2>1. req[r] # Idle
    BY <1>7 DEF AuthorizeAwait, StartSave, FinishSave, Fail, Idle
  <2>2. req' = [req EXCEPT ![r] = Idle] /\ UNCHANGED <<answered, codes, origin>>
    BY <1>7 DEF AuthorizeAwait, StartSave, FinishSave, Fail, redeemed
  <2> QED
    BY <1>6, <2>1, <2>2
<1>8. ASSUME req[r].step \in {"tokens", "session"}, NEW s \in {"session", "delete"},
             req' = [req EXCEPT ![r] = [req[r] EXCEPT !.step = s]],
             UNCHANGED <<answered, codes, origin>>
      PROVE  BudgetInv'
  <2>1. req[r] \in Busy /\ req[r] # Idle
    BY <1>8, BusyType DEF Steps, IInv
  <2>2. PICK new : new = [req[r] EXCEPT !.step = s]
    OBVIOUS
  <2>3. new.code = req[r].code
    BY <1>8, <2>1, <2>2, NextStep DEF Steps
  <2> QED
    BY <1>3, <1>8, <2>1, <2>2, <2>3
<1>9. CASE RedeemTokens(r)
  <2>1. req[r].step = "tokens" /\ req[r] # Idle /\ UNCHANGED <<answered, codes, origin>>
    BY <1>9 DEF RedeemTokens, redeemed, Idle
  <2>2. \/ req' = [req EXCEPT ![r] = Idle]
        \/ req' = [req EXCEPT ![r] = [req[r] EXCEPT !.step = "session"]]
    BY <1>9 DEF RedeemTokens
  <2> QED
    BY <1>6, <1>8, <2>1, <2>2
<1>10. CASE RedeemSession(r)
  <2>1. req[r].step = "session" /\ req[r] # Idle /\ UNCHANGED <<answered, origin>>
    BY <1>10 DEF RedeemSession, redeemed, Idle
  <2>2. req[r].code \in Codes
    BY <2>1, BusyType DEF Steps, IInv
  <2>3. \/ req' = [req EXCEPT ![r] = Idle] /\ codes' = codes
        \/ req' = [req EXCEPT ![r] = Idle] /\ codes' = [codes EXCEPT ![req[r].code] = NoEntry]
        \/ req' = [req EXCEPT ![r] = [req[r] EXCEPT !.step = "delete"]] /\ codes' = codes
    BY <1>10 DEF RedeemSession
  <2> QED
    BY <1>6, <1>8, <2>1, <2>2, <2>3
<1>11. CASE RedeemDelete(r)
  BY <1>11, BudgetDelete
<1> QED
  BY <1>4, <1>5, <1>7, <1>9, <1>10, <1>11 DEF Step

\* Every step keeps the budget.
LEMMA BudgetNext == IInv /\ BudgetInv /\ [Next]_vars => BudgetInv'
<1> SUFFICES ASSUME IInv, BudgetInv, [Next]_vars PROVE BudgetInv'
  OBVIOUS
<1>1. ASSUME NEW r \in Requests, NEW new, req' = [req EXCEPT ![r] = new], CanStart(r),
             new.step \notin {"tokens", "session", "delete"},
             UNCHANGED <<answered, codes, origin>>
      PROVE  BudgetInv'
  BY <1>1, BudgetOne
<1>2. ASSUME NEW r \in Requests, Login(r) PROVE BudgetInv'
  <2>1. CanStart(r) /\ UNCHANGED <<answered, codes, origin>>
    BY <1>2 DEF Login, AuthorizeFind, RefreshFind, redeemed
  <2>2. \E new : /\ req' = [req EXCEPT ![r] = new]
                 /\ new.step \notin {"tokens", "session", "delete"}
    <3>1. ASSUME NEW c \in Codes, NEW s \in Sessions, NEW u \in Users, NEW cl \in Clients,
                 NEW ch \in Challenge \cup {NoChallenge}, NEW via \in {"password", "passkey"},
                 AuthorizeFind(r, c, s, u, cl, ch, via)
          PROVE  \E new : /\ req' = [req EXCEPT ![r] = new]
                          /\ new.step \notin {"tokens", "session", "delete"}
      <4> DEFINE new(step) == [step |-> step, code |-> c, user |-> u, ses |-> s,
                               client |-> cl, challenge |-> ch, via |-> via,
                               flags |-> user[u], verifier |-> NoVerifier, at |-> 0, key |-> u]
      <4>1. PICK step \in {"save", "code"} : req' = [req EXCEPT ![r] = new(step)]
        BY <3>1 DEF AuthorizeFind
      <4>2. new(step).step \notin {"tokens", "session", "delete"}
        OBVIOUS
      <4> QED
        BY <4>1, <4>2
    <3>2. ASSUME NEW c \in Codes, NEW s \in Sessions, NEW u \in Users, NEW cl \in Clients,
                 NEW ch \in Challenge \cup {NoChallenge}, RefreshFind(r, c, s, u, cl, ch)
          PROVE  \E new : /\ req' = [req EXCEPT ![r] = new]
                          /\ new.step \notin {"tokens", "session", "delete"}
      <4> DEFINE new == [step |-> "code", code |-> c, user |-> u, ses |-> s, client |-> cl,
                         challenge |-> ch, via |-> "session", flags |-> user[u],
                         verifier |-> NoVerifier, at |-> 0, key |-> u]
      <4>1. req' = [req EXCEPT ![r] = new]
        BY <3>2 DEF RefreshFind
      <4>2. new.step \notin {"tokens", "session", "delete"}
        OBVIOUS
      <4> QED
        BY <4>1, <4>2
    <3> QED
      BY <1>2, <3>1, <3>2 DEF Login
  <2> QED
    BY <1>1, <2>1, <2>2
<1>3. ASSUME NEW r \in Requests, NEW c \in Codes, NEW u \in Users, NEW k \in Users,
             StartFind(r, c, u) \/ FinishFind(r, c, u, k)
      PROVE  BudgetInv'
  <2>1. CanStart(r) /\ UNCHANGED <<answered, codes, origin>>
    BY <1>3 DEF StartFind, FinishFind, redeemed
  <2>2. \E step \in {"start", "finish"}, x \in {u, k} :
            req' = [req EXCEPT ![r] = Continue(c, u, x, step)]
    BY <1>3 DEF StartFind, FinishFind
  <2>3. \A step \in {"start", "finish"}, x \in {u, k} : Continue(c, u, x, step).step = step
    BY DEF Continue
  <2> QED
    BY <1>1, <2>1, <2>2, <2>3
<1>4. ASSUME NEW r \in Requests, NEW c \in Codes, NEW cl \in Clients,
             NEW v \in Verifiers \cup {NoVerifier}, RedeemFind(r, c, cl, v)
      PROVE  BudgetInv'
  BY <1>4, BudgetRedeem
<1>5. CASE Restart
  <2>1. /\ UNCHANGED <<origin, answered>> /\ \A c \in Codes : codes'[c] = NoEntry
        /\ \A r \in Requests : req'[r] = Idle
    BY <1>5 DEF Restart, redeemed
  <2>2. InFlight' <= MaxInFlight
    <3>1. {r \in Requests : req'[r] # Idle} = {}
      BY <2>1
    <3>2. InFlight' = 0
      BY <3>1, FS_EmptySet DEF InFlight
    <3> QED
      BY <3>2, LoginFlowAssumption
  <2> QED
    BY <2>1, <2>2, BudgetQuiet DEF Idle
<1>6. ASSUME UNCHANGED <<codes, req, origin, answered>> PROVE BudgetInv'
  <2>1. InFlight' = InFlight
    BY <1>6 DEF InFlight
  <2>2. InFlight' <= MaxInFlight
    BY <2>1 DEF BudgetInv
  <2> QED
    BY <1>6, <2>2, BudgetQuiet
<1>7. ASSUME NEW u \in Users, DeleteUser(u) \/ \E flags \in Rows : UserChanges(u, flags)
      PROVE  BudgetInv'
  BY <1>6, <1>7 DEF DeleteUser, UserChanges, redeemed
<1>8. ASSUME NEW s \in Sessions, SessionEnds(s) PROVE BudgetInv'
  BY <1>6, <1>8 DEF SessionEnds, redeemed
<1>9. CASE Tick
  BY <1>6, <1>9 DEF Tick, redeemed
<1>10. CASE UNCHANGED vars
  BY <1>6, <1>10 DEF vars, redeemed
<1> QED
  BY <1>2, <1>3, <1>4, <1>5, <1>7, <1>8, <1>9, <1>10, BudgetStep
  DEF Next, ServerRestarts, RedeemPanics

\* However the handlers interleave and whenever the server restarts, a code is
\* answered by no more handlers than can be between AuthCode::find and
\* AuthCode::delete at once (grant_type_code).
THEOREM LoginRedeemedBounded == Spec => []RedeemedBounded
<1>1. Init => BudgetInv
  <2> SUFFICES ASSUME Init PROVE BudgetInv
    OBVIOUS
  <2>1. {r \in Requests : req[r] # Idle} = {} /\ \A c \in Codes : Redeeming(c) = {}
    BY DEF Init, Idle, Redeeming
  <2>2. Cardinality({}) = 0
    BY FS_EmptySet
  <2>3. InFlight <= MaxInFlight
    <3>1. InFlight = 0
      BY <2>1, <2>2 DEF InFlight
    <3> QED
      BY <3>1, LoginFlowAssumption
  <2>4. \A c \in Codes : answered[c] = 0
    BY DEF Init
  <2>5. \A c \in Codes : answered[c] + Cardinality(Redeeming(c)) <= MaxInFlight
    <3> SUFFICES ASSUME NEW c \in Codes
                 PROVE  answered[c] + Cardinality(Redeeming(c)) <= MaxInFlight
      OBVIOUS
    <3>1. Redeeming(c) = {}
      BY <2>1
    <3>2. Cardinality(Redeeming(c)) = 0 /\ answered[c] = 0
      BY <2>2, <2>4, <3>1
    <3> QED
      BY <3>2, LoginFlowAssumption
  <2> QED
    BY <2>3, <2>4, <2>5 DEF BudgetInv
<1>2. IInv /\ BudgetInv /\ [Next]_vars => BudgetInv'
  BY BudgetNext
<1>3. IInv /\ BudgetInv => RedeemedBounded
  <2> SUFFICES ASSUME IInv, BudgetInv, NEW c \in Codes PROVE answered[c] <= MaxInFlight
    BY DEF RedeemedBounded
  <2>1. Cardinality(Redeeming(c)) \in Nat
    BY RedeemingRuns
  <2>2. answered[c] \in Nat /\ answered[c] + Cardinality(Redeeming(c)) <= MaxInFlight
    BY DEF IInv, TypeOK, BudgetInv
  <2> QED
    BY <2>1, <2>2, LoginFlowAssumption
<1> QED
  BY <1>1, <1>2, <1>3, LoginInvariant, PTL DEF Spec
=============================================================================
