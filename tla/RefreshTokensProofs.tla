------------------------ MODULE RefreshTokensProofs --------------------------
(***************************************************************************)
(* Proofs about RefreshTokens, for any number of users, tokens, concurrent *)
(* refreshes and changes of users, and any lifetimes.                      *)
(***************************************************************************)
EXTENDS RefreshTokens, FiniteSetTheorems, TLAPS

-----------------------------------------------------------------------------
\* Type correctness

\* A new token is a well-formed row and a well-formed JWT.
LEMMA NewTokenType ==
    ASSUME TypeOK, NEW u \in Users, NEW l \in Nat
    PROVE  NewRow(u, l) \in Row /\ NewRow(u, l).user = u /\ NewJwt(u) \in Jwt
<1>1. UserExpires[u] \in Nat /\ now \in Nat /\ AccessLifetime \in Nat /\ JwtLifetime \in Nat
  BY RefreshTokensAssumption DEF TypeOK
<1>2. Min2(AccessLifetime, UserExpires[u] - now) \in Int
  BY <1>1 DEF Min2
<1>3. now + Min2(AccessLifetime, UserExpires[u] - now) + l \in Int
  BY <1>1, <1>2
<1> QED
  BY <1>1, <1>3 DEF NewRow, NewJwt, Row, Jwt

\* A request in a step other than idle holds a row and the status of its user.
LEMMA RunningType ==
    ASSUME TypeOK, NEW r \in Requests, req[r].step \in Steps
    PROVE  /\ req[r] \in Running /\ req[r] # Idle
           /\ req[r].tok \in Tokens /\ req[r].row \in Row /\ req[r].row.user \in Users
           /\ req[r].status \in Status
<1>1. req[r] \in Running /\ req[r] # Idle
  BY DEF TypeOK, Idle, Steps
<1> QED
  BY <1>1 DEF Running, Row

\* The change of a user in a step other than idle is well-formed.
LEMMA AdminType ==
    ASSUME TypeOK, NEW a \in Admins,
           admin[a].step \in {"invalidate", "save_cache", "del_cache"}
    PROVE  admin[a] \in AdminRunning /\ admin[a].user \in Users
           /\ admin[a].status \in Status
<1>1. admin[a] \in AdminRunning
  BY DEF TypeOK, AdminIdle
<1> QED
  BY <1>1 DEF AdminRunning

\* Steps and status of a request may change, its token and row do not.
LEMMA RunningExcept ==
    ASSUME NEW q \in Running, NEW step \in Steps, NEW status \in Status
    PROVE  /\ [q EXCEPT !.step = step] \in Running
           /\ [q EXCEPT !.step = step, !.status = status] \in Running
           /\ [q EXCEPT !.step = step].tok = q.tok
           /\ [q EXCEPT !.step = step].row = q.row
           /\ [q EXCEPT !.step = step, !.status = status].tok = q.tok
           /\ [q EXCEPT !.step = step, !.status = status].row = q.row
BY DEF Running

\* What a request goes on with after User::find is well-formed.
LEMMA CheckedType ==
    ASSUME NEW r \in Requests, req[r] \in Running, NEW status \in Status
    PROVE  \/ Checked(r, status) = Idle
           \/ /\ Checked(r, status) \in Running
              /\ Checked(r, status).tok = req[r].tok
              /\ Checked(r, status).row = req[r].row
<1>1. "save_db" \in Steps
  BY DEF Steps
<1>2. \/ Checked(r, status) = Idle
      \/ Checked(r, status) = [req[r] EXCEPT !.step = "save_db", !.status = status]
  BY DEF Checked
<1> DEFINE new == [req[r] EXCEPT !.step = "save_db", !.status = status]
<1>3. new \in Running /\ new.tok = req[r].tok /\ new.row = req[r].row
  BY <1>1, RunningExcept
<1> QED
  BY <1>2, <1>3

\* What Expire does to a single row.
LEMMA ExpireRow ==
    ASSUME TypeOK, NEW S, S \subseteq Tokens, Expire(S), NEW t \in Tokens
    PROVE  /\ rt' \in [Tokens -> Row \cup {NoRow}]
           /\ revokedAt' \in [Tokens -> Nat \cup {Never}]
           /\ (rt'[t] = NoRow) <=> (rt[t] = NoRow)
           /\ rt[t] # NoRow => rt'[t].user = rt[t].user /\ rt'[t].exp <= rt[t].exp
<1> DEFINE hit == {s \in S : rt[s] # NoRow /\ rt[s].exp > now}
<1>1. /\ rt' = [s \in Tokens |-> IF s \in hit THEN [rt[s] EXCEPT !.exp = now] ELSE rt[s]]
      /\ revokedAt' = [s \in Tokens |-> IF s \in hit THEN now ELSE revokedAt[s]]
  BY DEF Expire
<1>2. now \in Nat /\ now \in Int /\ rt \in [Tokens -> Row \cup {NoRow}]
      /\ revokedAt \in [Tokens -> Nat \cup {Never}]
  BY DEF TypeOK
<1>3. ASSUME NEW s \in Tokens, s \in hit
      PROVE  /\ [rt[s] EXCEPT !.exp = now] \in Row /\ rt[s] \in Row
             /\ [rt[s] EXCEPT !.exp = now].user = rt[s].user
             /\ [rt[s] EXCEPT !.exp = now].exp <= rt[s].exp
  <2>1. rt[s] \in Row /\ rt[s].exp > now
    BY <1>2, <1>3
  <2> QED
    BY <1>2, <2>1 DEF Row
<1>4. rt' \in [Tokens -> Row \cup {NoRow}] /\ revokedAt' \in [Tokens -> Nat \cup {Never}]
  BY <1>1, <1>2, <1>3
<1> HIDE DEF hit
<1>5. CASE t \in hit
  <2>1. rt'[t] = [rt[t] EXCEPT !.exp = now]
    BY <1>1, <1>5
  <2>2. rt'[t] # NoRow /\ rt[t] # NoRow
    BY <1>3, <1>5, <2>1, NoRowAssumption
  <2> QED
    BY <1>3, <1>4, <1>5, <2>1, <2>2
<1>6. CASE t \notin hit
  <2>1. rt'[t] = rt[t]
    BY <1>1, <1>6
  <2>2. rt[t] # NoRow => rt[t].exp \in Int
    BY <1>2 DEF Row
  <2> QED
    BY <1>4, <2>1, <2>2
<1> QED
  BY <1>5, <1>6

\* The initial state is well-typed.
LEMMA TypeInit == Init => TypeOK
BY DEF Init, TypeOK, Idle, AdminIdle, Status

\* The new record of one request keeps the requests well-typed.
LEMMA ReqType ==
    ASSUME TypeOK, NEW r \in Requests, NEW new \in {Idle} \cup Running,
           req' = [req EXCEPT ![r] = new]
    PROVE  req' \in [Requests -> {Idle} \cup Running]
BY DEF TypeOK

\* Every action keeps the state well-typed and every stored token owned.
LEMMA TypeNext == TypeOK /\ [Next]_vars => TypeOK'
<1> SUFFICES ASSUME TypeOK, [Next]_vars PROVE TypeOK'
  OBVIOUS
<1> USE RefreshTokensAssumption, NoRowAssumption
<1>1. ASSUME NEW t \in Tokens, NEW u \in Users, Login(t, u) PROVE TypeOK'
  <2>1. NewRow(u, Lifetime) \in Row /\ NewRow(u, Lifetime).user = u /\ NewJwt(u) \in Jwt
    BY NewTokenType
  <2>2. rt' \in [Tokens -> Row \cup {NoRow}] /\ issued' \in [Tokens -> Jwt \cup {Never}]
    BY <1>1, <2>1 DEF Login, TypeOK
  <2>3. \A s \in Tokens : rt'[s] # NoRow => users[rt'[s].user] # NoRow
    BY <1>1, <2>1 DEF Login, TypeOK
  <2> QED
    BY <1>1, <2>2, <2>3 DEF Login, TypeOK
<1>2. ASSUME NEW t \in Tokens, NEW u \in Users, DeviceLogin(t, u) PROVE TypeOK'
  <2>1. NewRow(u, DeviceLifetime) \in Row /\ NewJwt(u) \in Jwt
    BY NewTokenType
  <2> QED
    BY <1>2, <2>1 DEF DeviceLogin, TypeOK
<1>3. ASSUME NEW r \in Requests, NEW t \in Tokens, FindToken(r, t) PROVE TypeOK'
  <2>1. CASE rt[t] = NoRow
    BY <1>3, <2>1 DEF FindToken, Overlapping, TypeOK
  <2>2. CASE rt[t] # NoRow
    <3> DEFINE new == [step |-> IF rt[t].exp < now THEN "misuse" ELSE "user",
                       tok |-> t, row |-> rt[t], status |-> "enabled"]
    <3>1. rt[t] \in Row
      BY <2>2 DEF TypeOK
    <3>2. new \in Running
      BY <3>1 DEF Running, Steps, Status
    <3>3. req' = [req EXCEPT ![r] = new]
      BY <1>3, <2>2 DEF FindToken
    <3> HIDE DEF new
    <3>4. req' \in [Requests -> {Idle} \cup Running]
      BY <3>2, <3>3, ReqType
    <3> QED
      BY <1>3, <2>2, <3>4 DEF FindToken, Overlapping, TypeOK
  <2> QED
    BY <2>1, <2>2
<1>4. ASSUME NEW r \in Requests, NEW t \in Tokens, Issue(r, t) PROVE TypeOK'
  <2>1. req[r].row.user \in Users
    BY <1>4, RunningType DEF Issue, Steps
  <2> DEFINE u == req[r].row.user
  <2>2. NewRow(u, Lifetime) \in Row /\ NewRow(u, Lifetime).user = u /\ NewJwt(u) \in Jwt
    BY <2>1, NewTokenType
  <2>3. req' \in [Requests -> {Idle} \cup Running]
    BY <1>4, ReqType DEF Issue
  <2>4. CASE Alive(u) /\ users[u] # NoRow
    <3>1. rt' \in [Tokens -> Row \cup {NoRow}] /\ issued' \in [Tokens -> Jwt \cup {Never}]
      BY <1>4, <2>2, <2>4 DEF Issue, TypeOK
    <3>2. \A s \in Tokens : rt'[s] # NoRow => users[rt'[s].user] # NoRow
      BY <1>4, <2>2, <2>4 DEF Issue, TypeOK
    <3> QED
      BY <1>4, <2>3, <3>1, <3>2 DEF Issue, TypeOK
  <2>5. CASE ~(Alive(u) /\ users[u] # NoRow)
    BY <1>4, <2>3, <2>5 DEF Issue, TypeOK
  <2> QED
    BY <2>4, <2>5
<1>5. ASSUME NEW r \in Requests, Misuse(r) PROVE TypeOK'
  <2>1. req' \in [Requests -> {Idle} \cup Running]
    BY <1>5, ReqType DEF Misuse
  <2> QED
    BY <1>5, <2>1 DEF Misuse, TypeOK
<1>6. ASSUME NEW r \in Requests, FindUserCached(r) \/ FindUserSelect(r) PROVE TypeOK'
  <2>1. req[r] \in Running /\ req[r].row.user \in Users
    BY <1>6, RunningType DEF FindUserCached, FindUserSelect, Steps
  <2>2. \A status \in Status : Checked(r, status) \in {Idle} \cup Running
    BY <2>1, CheckedType
  <2>3. \A status \in Status : /\ [req[r] EXCEPT !.step = "select"] \in Running
                               /\ [req[r] EXCEPT !.step = "fill", !.status = status] \in Running
    BY <2>1, RunningExcept DEF Steps
  <2>4. ucache[req[r].row.user] \in Status \cup {NoRow}
        /\ users[req[r].row.user] \in Status \cup {NoRow}
    BY <2>1 DEF TypeOK
  <2>5. ASSUME FindUserCached(r) PROVE req' \in [Requests -> {Idle} \cup Running]
    <3> DEFINE c == ucache[req[r].row.user]
               new == IF c # NoRow THEN Checked(r, c) ELSE [req[r] EXCEPT !.step = "select"]
    <3>1. new \in {Idle} \cup Running
      <4>1. CASE c # NoRow
        BY <2>2, <2>4, <4>1
      <4>2. CASE c = NoRow
        <5>1. "select" \in Steps
          BY DEF Steps
        <5>2. [req[r] EXCEPT !.step = "select"] \in Running
          BY <2>1, <5>1 DEF Running
        <5> QED
          BY <4>2, <5>2
      <4> QED
        BY <4>1, <4>2
    <3>2. req' = [req EXCEPT ![r] = new]
      BY <2>5 DEF FindUserCached
    <3> HIDE DEF new
    <3> QED
      BY <3>1, <3>2, ReqType
  <2>6. ASSUME FindUserSelect(r) PROVE req' \in [Requests -> {Idle} \cup Running]
    <3> DEFINE c == users[req[r].row.user]
               new == IF c = NoRow THEN Idle ELSE [req[r] EXCEPT !.step = "fill", !.status = c]
    <3>1. new \in {Idle} \cup Running
      <4>1. CASE c # NoRow
        BY <2>3, <2>4, <4>1
      <4>2. CASE c = NoRow
        BY <4>2
      <4> QED
        BY <4>1, <4>2
    <3>2. req' = [req EXCEPT ![r] = new]
      BY <2>6 DEF FindUserSelect
    <3> HIDE DEF new
    <3> QED
      BY <3>1, <3>2, ReqType
  <2> QED
    BY <1>6, <2>5, <2>6 DEF FindUserCached, FindUserSelect, TypeOK, tokenHistory
<1>7. ASSUME NEW r \in Requests, FindUserFill(r) PROVE TypeOK'
  <2>1. req[r] \in Running /\ req[r].row.user \in Users /\ req[r].status \in Status
    BY <1>7, RunningType DEF FindUserFill, Steps
  <2>2. Checked(r, req[r].status) \in {Idle} \cup Running
    BY <2>1, CheckedType
  <2>3. req' \in [Requests -> {Idle} \cup Running]
    BY <1>7, <2>2, ReqType DEF FindUserFill
  <2> QED
    BY <1>7, <2>1, <2>3 DEF FindUserFill, TypeOK, tokenHistory
<1>8. ASSUME NEW r \in Requests, SaveUserDb(r) \/ SaveUserCache(r) PROVE TypeOK'
  <2>1. req[r] \in Running /\ req[r].row.user \in Users /\ req[r].status \in Status
    BY <1>8, RunningType DEF SaveUserDb, SaveUserCache, Steps
  <2>2. "save_cache" \in Steps /\ "rotate" \in Steps
    BY DEF Steps
  <2>3. /\ [req[r] EXCEPT !.step = "save_cache"] \in Running
        /\ [req[r] EXCEPT !.step = "rotate"] \in Running
    BY <2>1, <2>2 DEF Running
  <2>4. req' \in [Requests -> {Idle} \cup Running]
    BY <1>8, <2>3 DEF SaveUserDb, SaveUserCache, TypeOK
  <2>5. CASE SaveUserDb(r)
    <3>1. users' \in [Users -> Status \cup {NoRow}]
      BY <2>1, <2>5 DEF SaveUserDb, TypeOK
    <3>2. \A u \in Users : users[u] # NoRow => users'[u] # NoRow
      BY <2>1, <2>5 DEF SaveUserDb, TypeOK
    <3>3. \A t \in Tokens : rt[t] # NoRow => rt[t].user \in Users
      BY DEF TypeOK, Row
    <3> QED
      BY <2>4, <2>5, <3>1, <3>2, <3>3 DEF SaveUserDb, TypeOK, tokenHistory
  <2>6. CASE SaveUserCache(r)
    <3>1. ucache' \in [Users -> Status \cup {NoRow}]
      BY <2>1, <2>6 DEF SaveUserCache, TypeOK
    <3> QED
      BY <2>4, <2>6, <3>1 DEF SaveUserCache, TypeOK, tokenHistory
  <2> QED
    BY <1>8, <2>5, <2>6
<1>9. ASSUME NEW r \in Requests, Rotate(r) PROVE TypeOK'
  <2>1. req[r] \in Running /\ req[r].row \in Row /\ req[r].row.user \in Users
        /\ req[r].tok \in Tokens
    BY <1>9, RunningType DEF Rotate, Steps
  <2> DEFINE row == req[r].row
  <2>2. RotatedRow(row) \in Row /\ RotatedRow(row).user = row.user
    BY <2>1 DEF RotatedRow, Row, TypeOK
  <2>3. [req[r] EXCEPT !.step = "issue"] \in Running
    BY <2>1 DEF Running, Steps
  <2>4. CASE NeedsRotation(row) /\ users[row.user] = NoRow
    <3>1. req' \in [Requests -> {Idle} \cup Running]
      BY <1>9, <2>4, ReqType DEF Rotate
    <3> QED
      BY <1>9, <2>4, <3>1 DEF Rotate, TypeOK
  <2>5. CASE ~(NeedsRotation(row) /\ users[row.user] = NoRow)
    <3>1. req' \in [Requests -> {Idle} \cup Running]
      BY <1>9, <2>3, <2>5 DEF Rotate, TypeOK
    <3>2. rotatedAt' \in [Tokens -> Nat \cup {Never}]
      BY <1>9, <2>1, <2>5 DEF Rotate, TypeOK
    <3>3. rt' \in [Tokens -> Row \cup {NoRow}]
          /\ \A s \in Tokens : rt'[s] # NoRow => users[rt'[s].user] # NoRow
      <4>1. CASE NeedsRotation(row)
        <5>1. rt' = [rt EXCEPT ![req[r].tok] = RotatedRow(row)] /\ users[row.user] # NoRow
          BY <1>9, <2>5, <4>1 DEF Rotate
        <5> QED
          BY <2>1, <2>2, <5>1 DEF TypeOK
      <4>2. CASE ~NeedsRotation(row)
        BY <1>9, <2>5, <4>2 DEF Rotate, TypeOK
      <4> QED
        BY <4>1, <4>2
    <3> QED
      BY <1>9, <3>1, <3>2, <3>3 DEF Rotate, TypeOK
  <2> QED
    BY <2>4, <2>5
<1>10. ASSUME NEW r \in Requests, Fail(r) PROVE TypeOK'
  BY <1>10 DEF Fail, TypeOK, tokenHistory
<1>11. ASSUME NEW a \in Admins, NEW u \in Users, NEW status \in Status,
              SetEnabled(a, u, status)
       PROVE  TypeOK'
  <2>1. admin' \in [Admins -> {AdminIdle} \cup AdminRunning]
    BY <1>11 DEF SetEnabled, TypeOK, AdminRunning
  <2>2. users' \in [Users -> Status \cup {NoRow}] /\ \A v \in Users : users[v] # NoRow => users'[v] # NoRow
    BY <1>11 DEF SetEnabled, TypeOK
  <2>3. \A t \in Tokens : rt[t] # NoRow => rt[t].user \in Users
    BY DEF TypeOK, Row
  <2> QED
    BY <1>11, <2>1, <2>2, <2>3 DEF SetEnabled, Overlapping, TypeOK, tokenHistory
<1>12. ASSUME NEW a \in Admins, NEW u \in Users, DeleteUser(a, u) PROVE TypeOK'
  <2>1. admin' \in [Admins -> {AdminIdle} \cup AdminRunning]
    BY <1>12 DEF DeleteUser, TypeOK, AdminRunning, Status
  <2>2. \A s \in Tokens : rt'[s] # NoRow => users'[rt'[s].user] # NoRow
    BY <1>12 DEF DeleteUser, TypeOK, Row
  <2>3. users' \in [Users -> Status \cup {NoRow}]
    BY <1>12 DEF DeleteUser, TypeOK
  <2>4. rt' \in [Tokens -> Row \cup {NoRow}] /\ dev' \in [Tokens -> Row \cup {NoRow}]
        /\ revokedAt' \in [Tokens -> Nat \cup {Never}]
    BY <1>12 DEF DeleteUser, TypeOK
  <2> QED
    BY <1>12, <2>1, <2>2, <2>3, <2>4 DEF DeleteUser, Overlapping, TypeOK
<1>13. ASSUME NEW a \in Admins, SetEnabledInvalidate(a) PROVE TypeOK'
  <2>1. admin[a] \in AdminRunning
    BY <1>13, AdminType DEF SetEnabledInvalidate
  <2>2. admin' \in [Admins -> {AdminIdle} \cup AdminRunning]
    BY <1>13, <2>1 DEF SetEnabledInvalidate, TypeOK, AdminRunning
  <2>3. \A t \in Tokens :
          /\ rt' \in [Tokens -> Row \cup {NoRow}]
          /\ revokedAt' \in [Tokens -> Nat \cup {Never}]
          /\ (rt'[t] = NoRow) <=> (rt[t] = NoRow)
          /\ rt[t] # NoRow => rt'[t].user = rt[t].user
    BY <1>13, ExpireRow DEF SetEnabledInvalidate, TokensOf
  <2>4. rt' \in [Tokens -> Row \cup {NoRow}] /\ revokedAt' \in [Tokens -> Nat \cup {Never}]
    BY <1>13, <2>3 DEF SetEnabledInvalidate, Expire, TypeOK
  <2> QED
    BY <1>13, <2>2, <2>3, <2>4 DEF SetEnabledInvalidate, TypeOK
<1>14. ASSUME NEW a \in Admins, SetEnabledCache(a) \/ DeleteUserCache(a) PROVE TypeOK'
  <2>1. admin[a].user \in Users /\ admin[a].status \in Status
    BY <1>14, AdminType DEF SetEnabledCache, DeleteUserCache
  <2>2. ucache' \in [Users -> Status \cup {NoRow}]
    BY <1>14, <2>1 DEF SetEnabledCache, DeleteUserCache, TypeOK
  <2>3. admin' \in [Admins -> {AdminIdle} \cup AdminRunning] /\ disabled' \subseteq Users
    BY <1>14, <2>1 DEF SetEnabledCache, DeleteUserCache, TypeOK
  <2> QED
    BY <1>14, <2>2, <2>3 DEF SetEnabledCache, DeleteUserCache, TypeOK, tokenHistory
<1>15. ASSUME NEW a \in Admins, FailAdmin(a) PROVE TypeOK'
  BY <1>15 DEF FailAdmin, TypeOK, tokenHistory
<1>16. ASSUME NEW S, S \subseteq Tokens, InvalidateTokens(S) PROVE TypeOK'
  <2>1. \A t \in Tokens :
          /\ rt' \in [Tokens -> Row \cup {NoRow}]
          /\ revokedAt' \in [Tokens -> Nat \cup {Never}]
          /\ (rt'[t] = NoRow) <=> (rt[t] = NoRow)
          /\ rt[t] # NoRow => rt'[t].user = rt[t].user
    BY <1>16, ExpireRow DEF InvalidateTokens
  <2>2. rt' \in [Tokens -> Row \cup {NoRow}] /\ revokedAt' \in [Tokens -> Nat \cup {Never}]
    BY <1>16, <2>1 DEF InvalidateTokens, Expire, TypeOK
  <2> QED
    BY <1>16, <2>1, <2>2 DEF InvalidateTokens, Overlapping, TypeOK
<1>17. ASSUME NEW t \in Tokens, RevokeDevice(t) PROVE TypeOK'
  BY <1>17 DEF RevokeDevice, TypeOK, tokenHistory
<1>18. CASE Cleanup
  BY <1>18 DEF Cleanup, TypeOK, tokenHistory
<1>19. ASSUME NEW u \in Users, CacheExpires(u) PROVE TypeOK'
  BY <1>19 DEF CacheExpires, TypeOK, tokenHistory
<1>20. CASE Tick
  BY <1>20 DEF Tick, TypeOK, tokenHistory
<1>21. CASE UNCHANGED vars
  BY <1>21 DEF vars, TypeOK, tokenHistory
<1>22. ASSUME NEW r \in Requests, RequestStep(r) PROVE TypeOK'
  BY <1>3, <1>4, <1>5, <1>6, <1>7, <1>8, <1>9, <1>10, <1>22 DEF RequestStep
<1>23. ASSUME NEW a \in Admins, AdminStep(a) PROVE TypeOK'
  BY <1>11, <1>12, <1>13, <1>14, <1>15, <1>23 DEF AdminStep
<1> QED
  BY <1>1, <1>2, <1>16, <1>17, <1>18, <1>19, <1>20, <1>21, <1>22, <1>23
     DEF Next, TokensOf

\* The state is well-typed and no stored token has lost its user, whatever
\* happens between the reads and writes of validate_refresh_token.
THEOREM TypeCorrect == Spec => []TypeOK
BY TypeInit, TypeNext, PTL DEF Spec

-----------------------------------------------------------------------------
\* A used token expires.  The property alone is not inductive: a request that
\* skips the rotation relies on the copy it has read being no older than the
\* first rotation, and a new token must not be one that is already in use.

\* A stored token was issued, and after its use it ends with the grace time.
RowInv ==
    \A t \in Tokens : rt[t] # NoRow =>
        /\ issued[t] # Never
        /\ rotatedAt[t] # Never => rt[t].exp <= rotatedAt[t] + Grace + 1

\* Until the first use of its token, a request's copy ends no earlier than the row.
CopyInv ==
    \A r \in Requests : req[r] # Idle =>
        /\ issued[req[r].tok] # Never
        /\ rotatedAt[req[r].tok] = Never /\ rt[req[r].tok] # NoRow =>
               rt[req[r].tok].exp <= req[r].row.exp

\* Only issued tokens were used, and not in the future.
PastInv ==
    \A t \in Tokens : rotatedAt[t] # Never => issued[t] # Never /\ rotatedAt[t] <= now

IInv == TypeOK /\ RowInv /\ CopyInv /\ PastInv

\* Steps that create no row, lengthen none and read none: all but four actions.
Shrinks ==
    /\ \A t \in Tokens : \/ rt'[t] = NoRow
                         \/ rt[t] # NoRow /\ rt'[t].exp <= rt[t].exp
    /\ \A r \in Requests : \/ req'[r] = Idle
                           \/ /\ req[r] # Idle
                              /\ req'[r].tok = req[r].tok /\ req'[r].row = req[r].row
    /\ \A t \in Tokens : issued[t] # Never => issued'[t] # Never
    /\ rotatedAt' = rotatedAt
    /\ now <= now'

\* The numbers the invariant compares
LEMMA Numbers ==
    ASSUME TypeOK
    PROVE  /\ now \in Nat /\ Grace \in Nat
           /\ \A t \in Tokens : rt[t] # NoRow => rt[t] \in Row /\ rt[t].exp \in Int
           /\ \A t \in Tokens : rotatedAt[t] # Never => rotatedAt[t] \in Nat
           /\ \A r \in Requests : req[r] # Idle =>
                 /\ req[r] \in Running /\ req[r].tok \in Tokens
                 /\ req[r].row \in Row /\ req[r].row.exp \in Int
BY RefreshTokensAssumption DEF TypeOK, Row, Running

\* Such a step keeps the invariant.
LEMMA ShrinksKeeps == IInv /\ TypeOK' /\ Shrinks => IInv'
<1> SUFFICES ASSUME IInv, TypeOK', Shrinks PROVE RowInv' /\ CopyInv' /\ PastInv'
  BY DEF IInv
<1>1. TypeOK /\ RowInv /\ CopyInv /\ PastInv
  BY DEF IInv
<1>2. /\ now \in Nat /\ now' \in Nat /\ Grace \in Nat
      /\ \A t \in Tokens : rt[t] # NoRow => rt[t].exp \in Int
      /\ \A t \in Tokens : rt'[t] # NoRow => rt'[t].exp \in Int
      /\ \A t \in Tokens : rotatedAt[t] # Never => rotatedAt[t] \in Nat
      /\ \A r \in Requests : req[r] # Idle => req[r].tok \in Tokens /\ req[r].row.exp \in Int
  BY <1>1, RefreshTokensAssumption DEF TypeOK, Row, Running
<1>3. RowInv'
  BY <1>1, <1>2 DEF RowInv, Shrinks
<1>4. CopyInv'
  <2> SUFFICES ASSUME NEW r \in Requests, req'[r] # Idle
               PROVE  /\ issued'[req'[r].tok] # Never
                      /\ rotatedAt'[req'[r].tok] = Never /\ rt'[req'[r].tok] # NoRow =>
                             rt'[req'[r].tok].exp <= req'[r].row.exp
    BY DEF CopyInv
  <2>1. req[r] # Idle /\ req'[r].tok = req[r].tok /\ req'[r].row = req[r].row
    BY DEF Shrinks
  <2> DEFINE t == req[r].tok
  <2>2. t \in Tokens /\ issued[t] # Never
        /\ (rotatedAt[t] = Never /\ rt[t] # NoRow => rt[t].exp <= req[r].row.exp)
    BY <1>1, <1>2, <2>1 DEF CopyInv
  <2>3. issued'[t] # Never /\ rotatedAt'[t] = rotatedAt[t]
        /\ (rt'[t] # NoRow => rt[t] # NoRow /\ rt'[t].exp <= rt[t].exp)
    BY <2>2 DEF Shrinks
  <2> HIDE DEF t
  <2>4. rotatedAt'[t] = Never /\ rt'[t] # NoRow => rt'[t].exp <= req[r].row.exp
    BY <1>2, <2>1, <2>2, <2>3
  <2> QED
    BY <2>1, <2>2, <2>3, <2>4 DEF t
<1>5. PastInv'
  BY <1>1, <1>2 DEF PastInv, Shrinks
<1> QED
  BY <1>3, <1>4, <1>5

\* A new token was not in use before: Login and the last step of a refresh.
LEMMA NewTokenKeeps ==
    ASSUME IInv, TypeOK', NEW t \in Tokens, issued[t] = Never, NEW row \in Row,
           rt' = [rt EXCEPT ![t] = row],
           \E jwt \in Jwt : issued' = [issued EXCEPT ![t] = jwt],
           \A r \in Requests : req'[r] \in {Idle, req[r]},
           rotatedAt' = rotatedAt, now' = now
    PROVE  IInv'
<1>1. TypeOK /\ RowInv /\ CopyInv /\ PastInv
  BY DEF IInv
<1>2. /\ rt[t] = NoRow /\ rotatedAt[t] = Never /\ issued'[t] # Never
      /\ \A s \in Tokens : s # t => rt'[s] = rt[s] /\ issued'[s] = issued[s]
  BY <1>1, NoRowAssumption DEF RowInv, PastInv, TypeOK
<1>3. RowInv'
  BY <1>1, <1>2 DEF RowInv
<1>4. CopyInv'
  <2> SUFFICES ASSUME NEW r \in Requests, req'[r] # Idle
               PROVE  /\ issued'[req'[r].tok] # Never
                      /\ rotatedAt'[req'[r].tok] = Never /\ rt'[req'[r].tok] # NoRow =>
                             rt'[req'[r].tok].exp <= req'[r].row.exp
    BY DEF CopyInv
  <2>1. req'[r] = req[r] /\ req[r] # Idle
    OBVIOUS
  <2>2. req[r].tok \in Tokens /\ issued[req[r].tok] # Never
    BY <1>1, <2>1, Numbers DEF CopyInv
  <2>3. req[r].tok # t
    BY <2>2
  <2> QED
    BY <1>1, <1>2, <2>1, <2>2, <2>3 DEF CopyInv
<1>5. PastInv'
  BY <1>1, <1>2 DEF PastInv
<1> QED
  BY <1>3, <1>4, <1>5 DEF IInv

\* The new record of one request is its only change.
LEMMA OneRequest ==
    ASSUME TypeOK, NEW r \in Requests, NEW new, req' = [req EXCEPT ![r] = new]
    PROVE  req'[r] = new /\ \A q \in Requests : q # r => req'[q] = req[q]
BY DEF TypeOK

\* A refresh starts with a copy of the row.
LEMMA FindTokenKeeps ==
    ASSUME IInv, TypeOK', NEW r \in Requests, NEW t \in Tokens, FindToken(r, t)
    PROVE  IInv'
<1>1. TypeOK /\ RowInv /\ CopyInv /\ PastInv
  BY DEF IInv
<1>2. UNCHANGED <<now, rt, issued, rotatedAt>>
  BY DEF FindToken
<1>3. RowInv' /\ PastInv'
  BY <1>1, <1>2 DEF RowInv, PastInv
<1>4. CASE rt[t] = NoRow
  <2>1. req' = req
    BY <1>4 DEF FindToken
  <2> QED
    BY <1>1, <1>2, <1>3, <2>1 DEF IInv, CopyInv
<1>5. CASE rt[t] # NoRow
  <2>1. PICK step : req' = [req EXCEPT ![r] =
               [step |-> step, tok |-> t, row |-> rt[t], status |-> "enabled"]]
    BY <1>5 DEF FindToken
  <2>2. req'[r].tok = t /\ req'[r].row = rt[t]
        /\ \A q \in Requests : q # r => req'[q] = req[q]
    <3> DEFINE new == [step |-> step, tok |-> t, row |-> rt[t], status |-> "enabled"]
    <3>1. new.tok = t /\ new.row = rt[t]
      OBVIOUS
    <3>2. req' = [req EXCEPT ![r] = new]
      BY <2>1
    <3> HIDE DEF new
    <3>3. req'[r] = new /\ \A q \in Requests : q # r => req'[q] = req[q]
      BY <1>1, <3>2, OneRequest
    <3> QED
      BY <3>1, <3>3
  <2>3. issued[t] # Never /\ rt[t].exp \in Int
    BY <1>1, <1>5, Numbers DEF RowInv
  <2>4. CopyInv'
    BY <1>1, <1>2, <2>2, <2>3 DEF CopyInv
  <2> QED
    BY <1>3, <2>4 DEF IInv
<1> QED
  BY <1>4, <1>5

\* A rotation gives the row the grace time, or leaves one that ends with it.
LEMMA RotateKeeps ==
    ASSUME IInv, TypeOK', NEW r \in Requests, Rotate(r)
    PROVE  IInv'
<1>1. TypeOK /\ RowInv /\ CopyInv /\ PastInv
  BY DEF IInv
<1> DEFINE row == req[r].row
           t == req[r].tok
<1>2. req[r] # Idle /\ req[r] \in Running /\ row \in Row /\ row.exp \in Int /\ t \in Tokens
  BY <1>1, RunningType DEF Rotate, Steps, Row
<1>3. issued[t] # Never
      /\ (rotatedAt[t] = Never /\ rt[t] # NoRow => rt[t].exp <= row.exp)
  BY <1>1, <1>2 DEF CopyInv
<1>4. now' = now /\ issued' = issued
  BY DEF Rotate
<1>5. CASE NeedsRotation(row) /\ users[row.user] = NoRow
  <2>1. req' = [req EXCEPT ![r] = Idle] /\ rt' = rt /\ rotatedAt' = rotatedAt
    BY <1>5 DEF Rotate
  <2>2. req'[r] = Idle /\ \A q \in Requests : q # r => req'[q] = req[q]
    BY <1>1, <2>1, OneRequest
  <2>3. Shrinks
    BY <1>1, <1>4, <2>1, <2>2, Numbers DEF Shrinks
  <2> QED
    BY <2>3, ShrinksKeeps
<1>6. CASE ~(NeedsRotation(row) /\ users[row.user] = NoRow)
  <2>1. /\ rt' = IF NeedsRotation(row) THEN [rt EXCEPT ![t] = RotatedRow(row)] ELSE rt
        /\ rotatedAt' = [rotatedAt EXCEPT ![t] = now]
        /\ req' = [req EXCEPT ![r].step = "issue"]
    BY <1>6 DEF Rotate
  <2>2. /\ rotatedAt'[t] = now
        /\ \A s \in Tokens : s # t => rotatedAt'[s] = rotatedAt[s] /\ rt'[s] = rt[s]
    BY <1>1, <1>2, <2>1 DEF TypeOK
  <2>3. \A q \in Requests : req'[q] # Idle =>
            req[q] # Idle /\ req'[q].tok = req[q].tok /\ req'[q].row = req[q].row
    <3>1. req'[r] = [req[r] EXCEPT !.step = "issue"]
          /\ \A q \in Requests : q # r => req'[q] = req[q]
      BY <1>1, <2>1 DEF TypeOK
    <3>2. [req[r] EXCEPT !.step = "issue"].tok = t /\ [req[r] EXCEPT !.step = "issue"].row = row
      BY <1>2 DEF Running
    <3> QED
      BY <1>2, <3>1, <3>2
  <2>4. now \in Nat /\ Grace \in Nat /\ now # Never
    BY <1>1, RefreshTokensAssumption DEF TypeOK
  <2>5. rt'[t] # NoRow => rt'[t].exp <= now + Grace + 1
    <3>1. CASE NeedsRotation(row)
      <4>1. rt'[t] = RotatedRow(row)
        BY <1>1, <1>2, <2>1, <3>1 DEF TypeOK
      <4>2. RotatedRow(row).exp = now + Grace
        BY <1>2 DEF RotatedRow, Row
      <4> QED
        BY <2>4, <4>1, <4>2
    <3>2. CASE ~NeedsRotation(row)
      <4>1. rt' = rt /\ row.exp <= now + Grace + 1
        BY <1>2, <2>1, <2>4, <3>2 DEF NeedsRotation
      <4>2. rt[t] # NoRow => rt[t].exp \in Int
        BY <1>1, <1>2, Numbers
      <4>3. CASE rotatedAt[t] = Never
        BY <1>2, <1>3, <2>4, <4>1, <4>2, <4>3
      <4>4. CASE rotatedAt[t] # Never
        <5>1. rotatedAt[t] \in Nat /\ rotatedAt[t] <= now
          BY <1>1, <1>2, <4>4, Numbers DEF PastInv
        <5>2. rt[t] # NoRow => rt[t].exp <= rotatedAt[t] + Grace + 1
          BY <1>1, <1>2, <4>4 DEF RowInv
        <5> QED
          BY <2>4, <4>1, <4>2, <5>1, <5>2
      <4> QED
        BY <4>3, <4>4
    <3> QED
      BY <3>1, <3>2
  <2> HIDE DEF t, row
  <2>6. RowInv'
    BY <1>1, <1>3, <1>4, <2>2, <2>4, <2>5 DEF RowInv
  <2>7. PastInv'
    BY <1>1, <1>3, <1>4, <2>2, <2>4 DEF PastInv
  <2>8. CopyInv'
    <3>1. \A q \in Requests : req[q] # Idle => req[q].tok \in Tokens
      BY <1>1, Numbers
    <3> QED
      BY <1>1, <1>4, <2>2, <2>3, <2>4, <3>1 DEF CopyInv
  <2> QED
    BY <2>6, <2>7, <2>8 DEF IInv
<1> QED
  BY <1>5, <1>6

\* Every action keeps the inductive invariant.
LEMMA IInvNext == IInv /\ [Next]_vars => IInv'
<1> SUFFICES ASSUME IInv, [Next]_vars PROVE IInv'
  OBVIOUS
<1>0. TypeOK /\ TypeOK' /\ now \in Nat
      /\ \A t \in Tokens : rt[t] # NoRow => rt[t].exp \in Int
  BY TypeNext, Numbers DEF IInv
<1>1. ASSUME NEW t \in Tokens, NEW u \in Users, Login(t, u) PROVE IInv'
  <2>1. NewRow(u, Lifetime) \in Row /\ NewJwt(u) \in Jwt
    BY <1>0, NewTokenType, RefreshTokensAssumption
  <2> QED
    BY <1>0, <1>1, <2>1, NewTokenKeeps DEF Login
<1>2. ASSUME NEW t \in Tokens, NEW u \in Users, DeviceLogin(t, u) PROVE IInv'
  <2>1. NewJwt(u) \in Jwt
    BY <1>0, NewTokenType, RefreshTokensAssumption
  <2>2. \A s \in Tokens : issued[s] # Never => issued'[s] # Never
    BY <1>0, <1>2, <2>1, NoRowAssumption DEF DeviceLogin, TypeOK
  <2>3. Shrinks
    BY <1>0, <1>2, <2>2 DEF DeviceLogin, Shrinks
  <2> QED
    BY <1>0, <2>3, ShrinksKeeps
<1>3. ASSUME NEW r \in Requests, RequestStep(r) PROVE IInv'
  <2>1. ASSUME NEW t \in Tokens, FindToken(r, t) PROVE IInv'
    BY <1>0, <2>1, FindTokenKeeps
  <2>2. ASSUME NEW t \in Tokens, Issue(r, t) PROVE IInv'
    <3> DEFINE u == req[r].row.user
    <3>1. u \in Users /\ req[r] # Idle
      BY <1>0, <2>2, RunningType DEF Issue, Steps
    <3>2. \A q \in Requests : req'[q] \in {Idle, req[q]}
      BY <1>0, <2>2, OneRequest DEF Issue
    <3>3. CASE Alive(u) /\ users[u] # NoRow
      <4>1. NewRow(u, Lifetime) \in Row /\ NewJwt(u) \in Jwt
        BY <1>0, <3>1, NewTokenType, RefreshTokensAssumption
      <4>2. /\ rt' = [rt EXCEPT ![t] = NewRow(u, Lifetime)]
            /\ issued' = [issued EXCEPT ![t] = NewJwt(u)]
            /\ rotatedAt' = rotatedAt /\ now' = now /\ issued[t] = Never
        BY <2>2, <3>3 DEF Issue
      <4> QED
        BY <1>0, <3>2, <4>1, <4>2, NewTokenKeeps
    <3>4. CASE ~(Alive(u) /\ users[u] # NoRow)
      <4>1. rt' = rt /\ issued' = issued /\ rotatedAt' = rotatedAt /\ now' = now
        BY <2>2, <3>4 DEF Issue
      <4>2. Shrinks
        BY <1>0, <3>2, <4>1 DEF Shrinks
      <4> QED
        BY <1>0, <4>2, ShrinksKeeps
    <3> QED
      BY <3>3, <3>4
  <2>3. CASE Rotate(r)
    BY <1>0, <2>3, RotateKeeps
  <2>4. CASE Misuse(r) \/ Fail(r)
    <3>1. req'[r] = Idle /\ \A q \in Requests : q # r => req'[q] = req[q]
      BY <1>0, <2>4, OneRequest DEF Misuse, Fail
    <3>2. \A t \in Tokens : rt'[t] \in {NoRow, rt[t]}
      BY <1>0, <2>4 DEF Misuse, Fail, TypeOK
    <3>3. issued' = issued /\ rotatedAt' = rotatedAt /\ now' = now
      BY <2>4 DEF Misuse, Fail, tokenHistory
    <3>4. Shrinks
      BY <1>0, <3>1, <3>2, <3>3 DEF Shrinks
    <3> QED
      BY <1>0, <3>4, ShrinksKeeps
  <2>5. CASE \/ FindUserCached(r) \/ FindUserSelect(r) \/ FindUserFill(r)
             \/ SaveUserDb(r) \/ SaveUserCache(r)
    <3>1. req[r] \in Running /\ req[r] # Idle /\ req[r].row.user \in Users
          /\ req[r].status \in Status
      BY <1>0, <2>5, RunningType
         DEF FindUserCached, FindUserSelect, FindUserFill, SaveUserDb, SaveUserCache, Steps
    <3>2. ucache[req[r].row.user] \in Status \cup {NoRow}
          /\ users[req[r].row.user] \in Status \cup {NoRow}
      BY <1>0, <3>1 DEF TypeOK
    <3>3. /\ rt' = rt /\ issued' = issued /\ rotatedAt' = rotatedAt /\ now' = now
          /\ \A q \in Requests : q # r => req'[q] = req[q]
      BY <1>0, <2>5
         DEF FindUserCached, FindUserSelect, FindUserFill, SaveUserDb, SaveUserCache,
             tokenHistory, TypeOK
    <3>4. req'[r] = Idle \/ (req'[r].tok = req[r].tok /\ req'[r].row = req[r].row)
      <4>1. CASE FindUserCached(r)
        <5> DEFINE c == ucache[req[r].row.user]
                   new == IF c # NoRow THEN Checked(r, c)
                          ELSE [req[r] EXCEPT !.step = "select"]
        <5>1. req'[r] = new
          <6>1. req' = [req EXCEPT ![r] = new]
            BY <4>1 DEF FindUserCached
          <6> HIDE DEF new
          <6> QED
            BY <1>0, <6>1, OneRequest
        <5>2. "select" \in Steps
          BY DEF Steps
        <5>3. CASE c # NoRow
          BY <3>1, <3>2, <5>1, <5>3, CheckedType
        <5>4. CASE c = NoRow
          BY <3>1, <5>1, <5>2, <5>4 DEF Running
        <5> QED
          BY <5>3, <5>4
      <4>2. CASE FindUserSelect(r)
        <5> DEFINE c == users[req[r].row.user]
                   new == IF c = NoRow THEN Idle
                          ELSE [req[r] EXCEPT !.step = "fill", !.status = c]
        <5>1. req'[r] = new
          <6>1. req' = [req EXCEPT ![r] = new]
            BY <4>2 DEF FindUserSelect
          <6> HIDE DEF new
          <6> QED
            BY <1>0, <6>1, OneRequest
        <5>3. CASE c # NoRow
          <6>1. c \in Status /\ req'[r] = [req[r] EXCEPT !.step = "fill", !.status = c]
            BY <3>2, <5>1, <5>3
          <6>2. /\ [req[r] EXCEPT !.step = "fill", !.status = c].tok = req[r].tok
                /\ [req[r] EXCEPT !.step = "fill", !.status = c].row = req[r].row
            <7> HIDE DEF c
            <7> QED
              BY <3>1 DEF Running
          <6> QED
            BY <6>1, <6>2
        <5> QED
          BY <5>1, <5>3
      <4>3. CASE FindUserFill(r)
        <5>1. req'[r] = Checked(r, req[r].status)
          BY <1>0, <4>3, OneRequest DEF FindUserFill
        <5> QED
          BY <3>1, <5>1, CheckedType
      <4>4. CASE SaveUserDb(r) \/ SaveUserCache(r)
        <5>1. \/ req'[r] = [req[r] EXCEPT !.step = "save_cache"]
              \/ req'[r] = [req[r] EXCEPT !.step = "rotate"]
          BY <1>0, <4>4 DEF SaveUserDb, SaveUserCache, TypeOK
        <5> QED
          BY <3>1, <5>1 DEF Running
      <4> QED
        BY <2>5, <4>1, <4>2, <4>3, <4>4
    <3>5. Shrinks
      BY <1>0, <3>1, <3>3, <3>4 DEF Shrinks
    <3> QED
      BY <1>0, <3>5, ShrinksKeeps
  <2> QED
    BY <1>3, <2>1, <2>2, <2>3, <2>4, <2>5 DEF RequestStep
<1>4. ASSUME NEW S, S \subseteq Tokens, Expire(S),
             UNCHANGED <<now, req, issued, rotatedAt>>
      PROVE  IInv'
  <2>1. \A t \in Tokens : \/ rt'[t] = NoRow
                          \/ rt[t] # NoRow /\ rt'[t].exp <= rt[t].exp
    BY <1>0, <1>4, ExpireRow
  <2>2. Shrinks
    BY <1>0, <1>4, <2>1 DEF Shrinks
  <2> QED
    BY <1>0, <2>2, ShrinksKeeps
<1>5. ASSUME \A t \in Tokens : rt'[t] \in {NoRow, rt[t]},
             UNCHANGED <<req, issued, rotatedAt>>, now <= now'
      PROVE  IInv'
  <2>1. Shrinks
    BY <1>0, <1>5 DEF Shrinks
  <2> QED
    BY <1>0, <2>1, ShrinksKeeps
<1>6. ASSUME NEW a \in Admins, AdminStep(a) PROVE IInv'
  <2>1. CASE SetEnabledInvalidate(a)
    BY <1>4, <2>1 DEF SetEnabledInvalidate, TokensOf
  <2>2. ASSUME NEW u \in Users, DeleteUser(a, u) PROVE IInv'
    <3>1. \A t \in Tokens : rt'[t] \in {NoRow, rt[t]}
      BY <2>2 DEF DeleteUser
    <3> QED
      BY <1>0, <1>5, <2>2, <3>1 DEF DeleteUser
  <2>3. ASSUME NEW u \in Users, NEW status \in Status, SetEnabled(a, u, status) PROVE IInv'
    BY <1>0, <1>5, <2>3 DEF SetEnabled, tokenHistory
  <2>4. CASE SetEnabledCache(a) \/ DeleteUserCache(a) \/ FailAdmin(a)
    BY <1>0, <1>5, <2>4 DEF SetEnabledCache, DeleteUserCache, FailAdmin, tokenHistory
  <2> QED
    BY <1>6, <2>1, <2>2, <2>3, <2>4 DEF AdminStep
<1>7. ASSUME NEW S, S \subseteq Tokens, InvalidateTokens(S) PROVE IInv'
  BY <1>4, <1>7 DEF InvalidateTokens
<1>8. ASSUME NEW t \in Tokens, RevokeDevice(t) PROVE IInv'
  BY <1>0, <1>5, <1>8 DEF RevokeDevice, tokenHistory
<1>9. CASE Cleanup
  <2>1. \A t \in Tokens : rt'[t] \in {NoRow, rt[t]}
    BY <1>9 DEF Cleanup
  <2> QED
    BY <1>0, <1>5, <1>9, <2>1 DEF Cleanup, tokenHistory
<1>10. ASSUME NEW u \in Users, CacheExpires(u) PROVE IInv'
  BY <1>0, <1>5, <1>10 DEF CacheExpires, tokenHistory
<1>11. CASE Tick
  BY <1>0, <1>5, <1>11 DEF Tick, tokenHistory
<1>12. CASE UNCHANGED vars
  BY <1>0, <1>5, <1>12 DEF vars, tokenHistory
<1> QED
  BY <1>1, <1>2, <1>3, <1>6, <1>7, <1>8, <1>9, <1>10, <1>11, <1>12 DEF Next, TokensOf

\* A used refresh token ends with the grace time after its last successful use,
\* however many requests hold a copy of its row when it is rotated, invalidated
\* or cleaned up.
THEOREM RefreshTokensRotate == Spec => []RotatedExpires
<1>1. Init => IInv
  BY TypeInit DEF Init, IInv, RowInv, CopyInv, PastInv
<1>2. IInv => RotatedExpires
  BY DEF IInv, RowInv, RotatedExpires
<1> QED
  BY <1>1, <1>2, IInvNext, PTL DEF Spec

-----------------------------------------------------------------------------
\* What holds as long as requests do not overlap and changes of users complete

\* This copy of the row of token t does not outlive its invalidation.
Ends(t, row) == row # NoRow /\ revokedAt[t] # Never => row.exp <= revokedAt[t]

\* Nobody runs next to anybody.
AloneInv ==
    /\ \A r \in Requests, q \in Requests : req[r] # Idle /\ req[q] # Idle => r = q
    /\ \A a \in Admins, b \in Admins : admin[a] # AdminIdle /\ admin[b] # AdminIdle => a = b
    /\ \A r \in Requests, a \in Admins : req[r] = Idle \/ admin[a] = AdminIdle

EndsInv == \A t \in Tokens : Ends(t, rt[t])

\* A request writes back what it has read: of its token, and of its user.
CalmReq == \A r \in Requests : req[r] # Idle =>
    /\ Ends(req[r].tok, req[r].row)
    /\ req[r].step \in {"fill", "save_db", "save_cache"} => req[r].status = users[req[r].row.user]

\* The change of a user has reached the table, and not yet the cache.
CalmAdmin == \A a \in Admins : admin[a] # AdminIdle =>
    users[admin[a].user] = IF admin[a].step = "del_cache" THEN NoRow ELSE admin[a].status

Changing(u) == \E a \in Admins : admin[a] # AdminIdle /\ admin[a].user = u

CalmUsers == \A u \in Users :
    /\ Changing(u) \/ ucache[u] \in {NoRow, users[u]}
    /\ u \in disabled => users[u] = "disabled"

\* Only issued tokens are invalidated.
RevokedInv == \A t \in Tokens : revokedAt[t] # Never => issued[t] # Never

Calm == AloneInv /\ EndsInv /\ CalmReq /\ CalmAdmin /\ CalmUsers

CalmInv == RevokedInv /\ (disturbed = "no" => Calm)

\* Nothing is in flight.
AllIdle == (\A r \in Requests : req[r] = Idle) /\ (\A a \in Admins : admin[a] = AdminIdle)

\* Only request r, or only the change of a user a, may be in flight.
OnlyReq(r) == (\A q \in Requests \ {r} : req[q] = Idle) /\ (\A a \in Admins : admin[a] = AdminIdle)
OnlyAdmin(a) == (\A r \in Requests : req[r] = Idle) /\ (\A b \in Admins \ {a} : admin[b] = AdminIdle)

\* The counter of requests in flight is zero when there are none.
LEMMA NobodyRuns == InFlight = 0 <=> AllIdle
<1> DEFINE R == {r \in Requests : req[r] # Idle}
           A == {a \in Admins : admin[a] # AdminIdle}
<1>1. R \in SUBSET Requests /\ A \in SUBSET Admins /\ IsFiniteSet(Requests) /\ IsFiniteSet(Admins)
  BY RefreshTokensAssumption
<1>2. IsFiniteSet(R) /\ IsFiniteSet(A)
  BY <1>1, FS_Subset
<1>3. Cardinality(R) \in Nat /\ Cardinality(A) \in Nat /\ (Cardinality(R) = 0 <=> R = {}) /\ (Cardinality(A) = 0 <=> A = {})
  BY <1>2, FS_CardinalityType, FS_EmptySet
<1>4. InFlight = Cardinality(R) + Cardinality(A)
  BY DEF InFlight
<1>5. AllIdle <=> R = {} /\ A = {}
  BY DEF AllIdle
<1> HIDE DEF R, A
<1> QED BY <1>3, <1>4, <1>5

\* Once disturbed is always disturbed.
LEMMA StillCalm ==
    ASSUME TypeOK, Next, disturbed' = "no"
    PROVE  disturbed = "no"
BY DEF Next, Login, DeviceLogin, RequestStep, FindToken, Issue, Misuse, FindUserCached, FindUserSelect,
   FindUserFill, SaveUserDb, SaveUserCache, Rotate, Fail, AdminStep, SetEnabled, DeleteUser,
   SetEnabledInvalidate, SetEnabledCache, DeleteUserCache, FailAdmin, InvalidateTokens, CacheExpires,
   RevokeDevice, Cleanup, Tick, Overlapping, tokenHistory

\* Who starts undisturbed starts alone.
LEMMA StartsAlone ==
    ASSUME disturbed' = Overlapping, disturbed' = "no"
    PROVE  AllIdle
BY NobodyRuns DEF Overlapping

\* Only tokens with a row are invalidated, and those were issued.
LEMMA RevokedNext == IInv /\ RevokedInv /\ [Next]_vars => RevokedInv'
<1> SUFFICES ASSUME IInv, RevokedInv, [Next]_vars, NEW s \in Tokens, revokedAt'[s] # Never
             PROVE  issued'[s] # Never
  BY DEF RevokedInv
<1>0. TypeOK /\ (rt[s] # NoRow => issued[s] # Never)
  BY DEF IInv, RowInv
<1>1. issued[s] # Never => issued'[s] # Never
  <2>1. \/ issued'[s] = issued[s]
        \/ issued[s] = Never
    BY <1>0 DEF TypeOK, Next, Login, DeviceLogin, RequestStep, FindToken, Issue, Misuse, FindUserCached,
       FindUserSelect, FindUserFill, SaveUserDb, SaveUserCache, Rotate, Fail, AdminStep, SetEnabled, DeleteUser,
       SetEnabledInvalidate, SetEnabledCache, DeleteUserCache, FailAdmin, InvalidateTokens, CacheExpires,
       RevokeDevice, Cleanup, Tick, tokenHistory, vars
  <2> QED BY <2>1
<1>2. revokedAt'[s] = revokedAt[s] \/ rt[s] # NoRow
  <2>1. ASSUME NEW S, Expire(S) PROVE revokedAt'[s] = revokedAt[s] \/ rt[s] # NoRow
    BY <2>1 DEF Expire
  <2>2. ASSUME NEW r \in Requests, Misuse(r) PROVE revokedAt'[s] = revokedAt[s] \/ rt[s] # NoRow
    BY <2>2 DEF Misuse
  <2>3. ASSUME NEW a \in Admins, NEW u \in Users, DeleteUser(a, u)
        PROVE  revokedAt'[s] = revokedAt[s] \/ rt[s] # NoRow
    BY <2>3 DEF DeleteUser, TokensOf
  <2>4. CASE UNCHANGED revokedAt
    BY <2>4
  <2> QED
    BY <2>1, <2>2, <2>3, <2>4 DEF Next, Login, DeviceLogin, RequestStep, FindToken, Issue, FindUserCached,
       FindUserSelect, FindUserFill, SaveUserDb, SaveUserCache, Rotate, Fail, AdminStep, SetEnabled,
       SetEnabledInvalidate, SetEnabledCache, DeleteUserCache, FailAdmin, InvalidateTokens, CacheExpires,
       RevokeDevice, Cleanup, Tick, tokenHistory, vars
<1> QED BY <1>0, <1>1, <1>2 DEF RevokedInv

-----------------------------------------------------------------------------
\* The rows of invalidated tokens

\* An invalidation ends the rows it hits.
LEMMA EndsExpire ==
    ASSUME TypeOK, EndsInv, NEW S, S \subseteq Tokens, Expire(S)
    PROVE  EndsInv'
<1> DEFINE hit == {s \in S : rt[s] # NoRow /\ rt[s].exp > now}
<1>1. /\ rt' = [s \in Tokens |-> IF s \in hit THEN [rt[s] EXCEPT !.exp = now] ELSE rt[s]]
      /\ revokedAt' = [s \in Tokens |-> IF s \in hit THEN now ELSE revokedAt[s]]
  BY DEF Expire
<1>2. \A s \in hit : rt[s] # NoRow /\ s \in Tokens
  OBVIOUS
<1> HIDE DEF hit
<1> SUFFICES ASSUME NEW t \in Tokens PROVE Ends(t, rt[t])'
  BY DEF EndsInv
<1>3. CASE t \in hit
  <2>1. rt[t] \in Row /\ now \in Nat
    BY <1>2, <1>3 DEF TypeOK
  <2>2. rt'[t].exp = now /\ revokedAt'[t] = now
    BY <1>1, <1>3, <2>1 DEF Row
  <2> QED BY <2>1, <2>2 DEF Ends
<1>4. CASE t \notin hit
  BY <1>1, <1>4 DEF Ends, EndsInv
<1> QED BY <1>3, <1>4

-----------------------------------------------------------------------------
\* A request that is alone goes on with w.
LEMMA RequestCalm ==
    ASSUME TypeOK, Calm, NEW r \in Requests, NEW w, OnlyReq(r),
           req' = [req EXCEPT ![r] = w], UNCHANGED <<admin, disabled, users>>, EndsInv',
           w # Idle => /\ Ends(w.tok, w.row)'
                       /\ w.step \in {"fill", "save_db", "save_cache"} => w.status = users[w.row.user],
           \A u \in Users : ucache'[u] \in {NoRow, users[u]}
    PROVE  Calm'
<1>1. req'[r] = w /\ \A q \in Requests \ {r} : req'[q] = Idle
  BY DEF TypeOK, OnlyReq
<1>2. \A a \in Admins : admin'[a] = AdminIdle
  BY DEF OnlyReq
<1>3. AloneInv' /\ CalmAdmin'
  BY <1>1, <1>2 DEF AloneInv, CalmAdmin
<1>4. CalmReq'
  <2> SUFFICES ASSUME NEW q \in Requests, req'[q] # Idle
               PROVE  /\ Ends(req[q].tok, req[q].row)'
                      /\ req'[q].step \in {"fill", "save_db", "save_cache"} => req'[q].status = users'[req'[q].row.user]
    BY DEF CalmReq
  <2>1. req'[q] = w
    BY <1>1
  <2> QED BY <2>1 DEF Ends
<1>5. CalmUsers'
  BY DEF CalmUsers, Calm
<1> QED BY <1>3, <1>4, <1>5 DEF Calm

\* A change of a user that is alone goes on with y.
LEMMA AdminCalm ==
    ASSUME TypeOK, NEW a \in Admins, NEW y, OnlyAdmin(a),
           admin' = [admin EXCEPT ![a] = y], UNCHANGED req, EndsInv',
           y # AdminIdle => users'[y.user] = IF y.step = "del_cache" THEN NoRow ELSE y.status,
           \A u \in Users : (y # AdminIdle /\ y.user = u) \/ ucache'[u] \in {NoRow, users'[u]},
           \A u \in Users : u \in disabled' => users'[u] = "disabled"
    PROVE  Calm'
<1>1. admin'[a] = y /\ \A b \in Admins \ {a} : admin'[b] = AdminIdle
  BY DEF TypeOK, OnlyAdmin
<1>2. \A r \in Requests : req'[r] = Idle
  BY DEF OnlyAdmin
<1>3. AloneInv' /\ CalmReq'
  BY <1>1, <1>2 DEF AloneInv, CalmReq
<1>4. CalmAdmin'
  BY <1>1 DEF CalmAdmin
<1>5. \A u \in Users : y # AdminIdle /\ y.user = u => Changing(u)'
  BY <1>1 DEF Changing
<1>6. CalmUsers'
  BY <1>5 DEF CalmUsers
<1> QED BY <1>3, <1>4, <1>6 DEF Calm

\* Others create tokens, shorten rows and forget entries of the cache.
LEMMA EnvironmentCalm ==
    ASSUME TypeOK, Calm, UNCHANGED <<req, admin, users, disabled>>, EndsInv',
           \A r \in Requests : req[r] # Idle => revokedAt'[req[r].tok] = revokedAt[req[r].tok],
           \A u \in Users : ucache'[u] \in {ucache[u], NoRow}
    PROVE  Calm'
<1>1. AloneInv' /\ CalmAdmin'
  BY DEF Calm, AloneInv, CalmAdmin
<1>2. CalmReq'
  BY DEF Calm, CalmReq, Ends
<1>3. CalmUsers'
  BY DEF Calm, CalmUsers, Changing
<1> QED BY <1>1, <1>2, <1>3 DEF Calm

\* Who runs undisturbed runs alone.
LEMMA ReqAlone ==
    ASSUME TypeOK, Calm, NEW r \in Requests, req[r].step \in Steps
    PROVE  /\ OnlyReq(r) /\ req[r] \in Running /\ req[r] # Idle
           /\ req[r].tok \in Tokens /\ req[r].row \in Row /\ req[r].row.user \in Users
           /\ req[r].status \in Status
           /\ Ends(req[r].tok, req[r].row)
           /\ req[r].step \in {"fill", "save_db", "save_cache"} => req[r].status = users[req[r].row.user]
           /\ \A u \in Users : ucache[u] \in {NoRow, users[u]}
<1>1. /\ req[r] \in Running /\ req[r] # Idle
      /\ req[r].tok \in Tokens /\ req[r].row \in Row /\ req[r].row.user \in Users
      /\ req[r].status \in Status
  BY RunningType
<1>2. OnlyReq(r)
  BY <1>1 DEF OnlyReq, Calm, AloneInv
<1>3. \A u \in Users : ~Changing(u)
  BY <1>2 DEF OnlyReq, Changing
<1>4. \A u \in Users : ucache[u] \in {NoRow, users[u]}
  BY <1>3 DEF Calm, CalmUsers
<1> QED BY <1>1, <1>2, <1>4 DEF Calm, CalmReq

\* So does a change of a user, which has reached the table already.
LEMMA AdminAlone ==
    ASSUME TypeOK, Calm, NEW a \in Admins, admin[a].step \in {"invalidate", "save_cache", "del_cache"}
    PROVE  /\ OnlyAdmin(a) /\ admin[a] \in AdminRunning /\ admin[a].user \in Users /\ admin[a].status \in Status
           /\ users[admin[a].user] = IF admin[a].step = "del_cache" THEN NoRow ELSE admin[a].status
           /\ \A u \in Users : u # admin[a].user => ucache[u] \in {NoRow, users[u]}
           /\ \A u \in disabled : users[u] = "disabled"
<1>1. admin[a] \in AdminRunning /\ admin[a].user \in Users /\ admin[a].status \in Status /\ admin[a] # AdminIdle
  BY AdminType DEF AdminIdle
<1>2. OnlyAdmin(a)
  BY <1>1 DEF OnlyAdmin, Calm, AloneInv
<1>3. \A u \in Users : Changing(u) => u = admin[a].user
  BY <1>2 DEF OnlyAdmin, Changing
<1>4. \A u \in Users : u # admin[a].user => ucache[u] \in {NoRow, users[u]}
  BY <1>3 DEF Calm, CalmUsers
<1>5. \A u \in disabled : users[u] = "disabled"
  BY DEF Calm, CalmUsers, TypeOK
<1> QED BY <1>1, <1>2, <1>4, <1>5 DEF Calm, CalmAdmin
\* A step of a refresh keeps the calm.
LEMMA RequestStepCalm ==
    ASSUME IInv, TypeOK', RevokedInv, Calm, disturbed' = "no", NEW r \in Requests, RequestStep(r)
    PROVE  Calm'
<1> USE DEF tokenHistory
<1>0. TypeOK /\ EndsInv /\ (\A s \in Tokens : rt[s] # NoRow => rt[s].exp \in Int)
  BY Numbers DEF IInv, Calm
<1>1. ASSUME UNCHANGED <<rt, revokedAt>> PROVE EndsInv'
  BY <1>0, <1>1 DEF EndsInv, Ends
<1>2. ASSUME req[r].step \in Steps, NEW w, req' = [req EXCEPT ![r] = w],
             UNCHANGED <<admin, disabled, users, rt, revokedAt>>,
             \/ w = Idle
             \/ /\ w.tok = req[r].tok /\ w.row = req[r].row
                /\ w.step \in {"fill", "save_db", "save_cache"} => w.status = users[req[r].row.user],
             \A u \in Users : ucache'[u] \in {NoRow, users[u]}
      PROVE  Calm'
  <2>1. OnlyReq(r) /\ Ends(req[r].tok, req[r].row)
    BY <1>0, <1>2, ReqAlone
  <2>2. w # Idle => Ends(w.tok, w.row)'
    BY <1>2, <2>1 DEF Ends
  <2>3. EndsInv'
    BY <1>1, <1>2
  <2> QED BY <1>0, <1>2, <2>1, <2>2, <2>3, RequestCalm
<1>3. ASSUME req[r].step \in Steps, NEW step, NEW status
      PROVE  /\ [req[r] EXCEPT !.step = step].tok = req[r].tok
             /\ [req[r] EXCEPT !.step = step].row = req[r].row
             /\ [req[r] EXCEPT !.step = step].step = step
             /\ [req[r] EXCEPT !.step = step].status = req[r].status
             /\ [req[r] EXCEPT !.step = step, !.status = status].tok = req[r].tok
             /\ [req[r] EXCEPT !.step = step, !.status = status].row = req[r].row
             /\ [req[r] EXCEPT !.step = step, !.status = status].step = step
             /\ [req[r] EXCEPT !.step = step, !.status = status].status = status
  <2>1. req[r] \in Running
    BY <1>0, <1>3, RunningType
  <2> QED BY <2>1 DEF Running
<1>4. ASSUME NEW t \in Tokens, FindToken(r, t) PROVE Calm'
  <2>1. AllIdle
    BY <1>4, StartsAlone DEF FindToken
  <2>2. UNCHANGED <<admin, disabled, users, ucache, rt, revokedAt>>
    BY <1>4 DEF FindToken
  <2>3. CASE rt[t] = NoRow
    <3>1. req' = req
      BY <1>4, <2>3 DEF FindToken
    <3> QED BY <1>0, <1>1, <2>2, <3>1, EnvironmentCalm
  <2>4. CASE rt[t] # NoRow
    <3>1. PICK w : w = [step |-> IF rt[t].exp < now THEN "misuse" ELSE "user",
                        tok |-> t, row |-> rt[t], status |-> "enabled"]
      OBVIOUS
    <3>2. w.step \in {"misuse", "user"} /\ w.tok = t /\ w.row = rt[t]
      BY <3>1
    <3>3. req' = [req EXCEPT ![r] = w]
      BY <1>4, <2>4, <3>1 DEF FindToken
    <3>4. Ends(w.tok, w.row)'
      BY <1>0, <2>2, <3>2 DEF EndsInv, Ends
    <3>5. \A u \in Users : ucache'[u] \in {NoRow, users[u]}
      BY <2>1, <2>2 DEF AllIdle, Calm, CalmUsers, Changing
    <3>6. OnlyReq(r)
      BY <2>1 DEF AllIdle, OnlyReq
    <3> QED BY <1>0, <1>1, <2>2, <3>2, <3>3, <3>4, <3>5, <3>6, RequestCalm
  <2> QED BY <2>3, <2>4
<1>5. CASE Misuse(r)
  <2>1. req[r].step \in Steps
    BY <1>5 DEF Misuse, Steps
  <2>2. OnlyReq(r) /\ \A u \in Users : ucache[u] \in {NoRow, users[u]}
    BY <1>0, <2>1, ReqAlone
  <2>3. \A t \in Tokens : rt'[t] = NoRow \/ (rt'[t] = rt[t] /\ revokedAt'[t] = revokedAt[t])
    BY <1>5 DEF Misuse
  <2>4. EndsInv'
    BY <1>0, <2>3 DEF EndsInv, Ends
  <2> QED BY <1>0, <1>5, <2>2, <2>4, RequestCalm DEF Misuse
<1>6. ASSUME req[r].step \in Steps, NEW status, status = users[req[r].row.user]
      PROVE  \/ Checked(r, status) = Idle
             \/ /\ Checked(r, status).tok = req[r].tok /\ Checked(r, status).row = req[r].row
                /\ Checked(r, status).status = users[req[r].row.user]
  BY <1>3, <1>6 DEF Checked
<1>7. CASE FindUserCached(r)
  <2>1. req[r].step \in Steps
    BY <1>7 DEF FindUserCached, Steps
  <2>2. req[r].row.user \in Users /\ \A u \in Users : ucache[u] \in {NoRow, users[u]}
    BY <1>0, <2>1, ReqAlone
  <2>3. PICK w : w = IF ucache[req[r].row.user] # NoRow THEN Checked(r, ucache[req[r].row.user])
                     ELSE [req[r] EXCEPT !.step = "select"]
    OBVIOUS
  <2>4. /\ req' = [req EXCEPT ![r] = w]
        /\ UNCHANGED <<admin, disabled, users, ucache, rt, revokedAt>>
    BY <1>7, <2>3 DEF FindUserCached
  <2>5. \/ w = Idle
        \/ /\ w.tok = req[r].tok /\ w.row = req[r].row
           /\ w.step \in {"fill", "save_db", "save_cache"} => w.status = users[req[r].row.user]
    <3>1. CASE ucache[req[r].row.user] # NoRow
      BY <1>6, <2>1, <2>2, <2>3, <3>1
    <3>2. CASE ucache[req[r].row.user] = NoRow
      <4>1. w = [req[r] EXCEPT !.step = "select"]
        BY <2>3, <3>2
      <4>2. w.step = "select" /\ w.tok = req[r].tok /\ w.row = req[r].row
        BY <1>3, <2>1, <4>1
      <4> QED BY <4>2
    <3> QED BY <3>1, <3>2
  <2> QED BY <1>2, <2>1, <2>2, <2>4, <2>5
<1>8. CASE FindUserSelect(r)
  <2>1. req[r].step \in Steps
    BY <1>8 DEF FindUserSelect, Steps
  <2>2. \A u \in Users : ucache[u] \in {NoRow, users[u]}
    BY <1>0, <2>1, ReqAlone
  <2>3. PICK w : w = IF users[req[r].row.user] = NoRow THEN Idle
                     ELSE [req[r] EXCEPT !.step = "fill", !.status = users[req[r].row.user]]
    OBVIOUS
  <2>4. /\ req' = [req EXCEPT ![r] = w]
        /\ UNCHANGED <<admin, disabled, users, ucache, rt, revokedAt>>
    BY <1>8, <2>3 DEF FindUserSelect
  <2>5. w = Idle \/ (w.tok = req[r].tok /\ w.row = req[r].row /\ w.status = users[req[r].row.user])
    BY <1>3, <2>1, <2>3
  <2> QED BY <1>2, <2>1, <2>2, <2>4, <2>5
<1>9. CASE FindUserFill(r)
  <2>1. req[r].step \in Steps
    BY <1>9 DEF FindUserFill, Steps
  <2>2. /\ req[r].row.user \in Users /\ req[r].status = users[req[r].row.user]
        /\ \A u \in Users : ucache[u] \in {NoRow, users[u]}
    BY <1>0, <1>9, <2>1, ReqAlone DEF FindUserFill
  <2>3. PICK w : w = Checked(r, req[r].status)
    OBVIOUS
  <2>4. /\ req' = [req EXCEPT ![r] = w]
        /\ UNCHANGED <<admin, disabled, users, rt, revokedAt>>
        /\ ucache' = [ucache EXCEPT ![req[r].row.user] = req[r].status]
    BY <1>9, <2>3 DEF FindUserFill
  <2>5. w = Idle \/ (w.tok = req[r].tok /\ w.row = req[r].row /\ w.status = users[req[r].row.user])
    BY <1>6, <2>1, <2>2, <2>3
  <2>6. \A u \in Users : ucache'[u] \in {NoRow, users[u]}
    BY <1>0, <2>2, <2>4 DEF TypeOK
  <2> QED BY <1>2, <2>1, <2>4, <2>5, <2>6
<1>10. CASE SaveUserDb(r)
  <2>1. req[r].step \in Steps
    BY <1>10 DEF SaveUserDb, Steps
  <2>2. /\ req[r].row.user \in Users /\ req[r].status = users[req[r].row.user]
        /\ \A u \in Users : ucache[u] \in {NoRow, users[u]}
    BY <1>0, <1>10, <2>1, ReqAlone DEF SaveUserDb
  <2>3. PICK w : w = [req[r] EXCEPT !.step = "save_cache"]
    OBVIOUS
  <2>4. /\ req' = [req EXCEPT ![r] = w]
        /\ UNCHANGED <<admin, disabled, ucache, rt, revokedAt>>
    BY <1>0, <1>10, <2>3 DEF SaveUserDb, TypeOK
  <2>5. users' = users
    BY <1>0, <1>10, <2>2 DEF SaveUserDb, TypeOK
  <2>6. w.tok = req[r].tok /\ w.row = req[r].row /\ w.status = users[req[r].row.user]
    BY <1>3, <2>1, <2>2, <2>3
  <2> QED BY <1>2, <2>1, <2>2, <2>4, <2>5, <2>6
<1>11. CASE SaveUserCache(r)
  <2>1. req[r].step \in Steps
    BY <1>11 DEF SaveUserCache, Steps
  <2>2. /\ req[r].row.user \in Users /\ req[r].status = users[req[r].row.user]
        /\ \A u \in Users : ucache[u] \in {NoRow, users[u]}
    BY <1>0, <1>11, <2>1, ReqAlone DEF SaveUserCache
  <2>3. PICK w : w = [req[r] EXCEPT !.step = "rotate"]
    OBVIOUS
  <2>4. /\ req' = [req EXCEPT ![r] = w]
        /\ UNCHANGED <<admin, disabled, users, rt, revokedAt>>
        /\ ucache' = [ucache EXCEPT ![req[r].row.user] = req[r].status]
    BY <1>0, <1>11, <2>3 DEF SaveUserCache, TypeOK
  <2>5. w.tok = req[r].tok /\ w.row = req[r].row /\ w.step = "rotate"
    BY <1>3, <2>1, <2>3
  <2>6. \A u \in Users : ucache'[u] \in {NoRow, users[u]}
    BY <1>0, <2>2, <2>4 DEF TypeOK
  <2>7. w.step \in {"fill", "save_db", "save_cache"} => w.status = users[req[r].row.user]
    BY <2>5
  <2> QED BY <1>2, <2>1, <2>4, <2>5, <2>6, <2>7
<1>12. CASE Rotate(r)
  <2> DEFINE row == req[r].row
             t == req[r].tok
  <2>1. req[r].step \in Steps
    BY <1>12 DEF Rotate, Steps
  <2>2. /\ OnlyReq(r) /\ t \in Tokens /\ row \in Row /\ Ends(t, row)
        /\ \A u \in Users : ucache[u] \in {NoRow, users[u]}
    BY <1>0, <2>1, ReqAlone
  <2>3. UNCHANGED <<admin, disabled, users, ucache, revokedAt>>
    BY <1>12 DEF Rotate
  <2>4. PICK w : w = IF NeedsRotation(row) /\ users[row.user] = NoRow THEN Idle
                     ELSE [req[r] EXCEPT !.step = "issue"]
    OBVIOUS
  <2>5. req' = [req EXCEPT ![r] = w]
    BY <1>0, <1>12, <2>4 DEF Rotate, TypeOK
  <2>6. w = Idle \/ (w.tok = t /\ w.row = row /\ w.step = "issue")
    BY <1>3, <2>1, <2>4
  <2>7. w # Idle => Ends(w.tok, w.row)'
    BY <2>2, <2>3, <2>6 DEF Ends
  <2>8. EndsInv'
    <3>1. CASE rt' = rt
      BY <1>1, <2>3, <3>1
    <3>2. CASE NeedsRotation(row) /\ rt' = [rt EXCEPT ![t] = RotatedRow(row)]
      <4>1. row.exp \in Int /\ now \in Nat /\ Grace \in Nat /\ row # NoRow
        BY <1>0, <2>2, RefreshTokensAssumption, NoRowAssumption DEF TypeOK, Row
      <4>2. RotatedRow(row).exp = now + Grace
        BY <2>2 DEF RotatedRow, Row
      <4>3. RotatedRow(row).exp <= row.exp /\ RotatedRow(row).exp \in Int
        BY <3>2, <4>1, <4>2 DEF NeedsRotation
      <4>4. rt'[t] = RotatedRow(row) /\ \A s \in Tokens \ {t} : rt'[s] = rt[s]
        BY <1>0, <2>2, <3>2 DEF TypeOK
      <4>5. revokedAt[t] # Never => revokedAt[t] \in Nat /\ row.exp <= revokedAt[t]
        BY <1>0, <2>2, <4>1 DEF TypeOK, Ends
      <4> HIDE DEF t, row
      <4>6. revokedAt[t] # Never => RotatedRow(row).exp <= revokedAt[t]
        BY <4>1, <4>3, <4>5
      <4> QED BY <1>0, <2>3, <4>4, <4>6 DEF EndsInv, Ends
    <3> QED BY <1>12, <3>1, <3>2 DEF Rotate
  <2> HIDE DEF t, row
  <2>9. \A u \in Users : ucache'[u] \in {NoRow, users[u]}
    BY <2>2, <2>3
  <2>10. w # Idle => (w.step \in {"fill", "save_db", "save_cache"} => w.status = users[w.row.user])
    BY <2>6
  <2> QED BY <1>0, <2>2, <2>3, <2>5, <2>7, <2>8, <2>9, <2>10, RequestCalm
<1>13. ASSUME NEW t \in Tokens, Issue(r, t) PROVE Calm'
  <2>1. req[r].step \in Steps
    BY <1>13 DEF Issue, Steps
  <2>2. OnlyReq(r) /\ \A u \in Users : ucache[u] \in {NoRow, users[u]}
    BY <1>0, <2>1, ReqAlone
  <2>3. revokedAt[t] = Never /\ revokedAt' = revokedAt
    BY <1>13 DEF Issue, RevokedInv
  <2>4. \A s \in Tokens \ {t} : rt'[s] = rt[s]
    BY <1>0, <1>13 DEF Issue, TypeOK
  <2>5. EndsInv'
    BY <1>0, <2>3, <2>4 DEF EndsInv, Ends
  <2> QED BY <1>0, <1>13, <2>2, <2>5, RequestCalm DEF Issue
<1>14. CASE Fail(r)
  <2>1. req[r].step \in Steps
    BY <1>0, <1>14 DEF Fail, TypeOK, Running
  <2>2. \A u \in Users : ucache[u] \in {NoRow, users[u]}
    BY <1>0, <2>1, ReqAlone
  <2> QED BY <1>2, <1>14, <2>1, <2>2 DEF Fail
<1> QED
  BY <1>4, <1>5, <1>7, <1>8, <1>9, <1>10, <1>11, <1>12, <1>13, <1>14 DEF RequestStep

\* A step of the change of a user keeps the calm.
LEMMA AdminStepCalm ==
    ASSUME IInv, TypeOK', Calm, disturbed' = "no", NEW a \in Admins, AdminStep(a)
    PROVE  Calm'
<1> USE DEF tokenHistory
<1>0. TypeOK /\ EndsInv /\ CalmUsers
  BY DEF IInv, Calm
<1>1. ASSUME AllIdle PROVE OnlyAdmin(a) /\ \A u \in Users : ucache[u] \in {NoRow, users[u]}
  BY <1>0, <1>1 DEF AllIdle, OnlyAdmin, CalmUsers, Changing
<1>2. ASSUME NEW u \in Users, NEW status \in Status, SetEnabled(a, u, status) PROVE Calm'
  <2>1. AllIdle
    BY <1>2, StartsAlone DEF SetEnabled
  <2>2. PICK y : y = [user |-> u, status |-> status,
                      step |-> IF status = "enabled" THEN "save_cache" ELSE "invalidate"]
    OBVIOUS
  <2>3. y # AdminIdle /\ y.user = u /\ y.status = status /\ y.step # "del_cache"
    BY <2>2 DEF AdminIdle
  <2>4. /\ admin' = [admin EXCEPT ![a] = y] /\ UNCHANGED <<req, rt, revokedAt, ucache>>
        /\ users' = [users EXCEPT ![u] = status] /\ disabled' = disabled \ {u}
    BY <1>2, <2>2 DEF SetEnabled
  <2>5. EndsInv'
    BY <1>0, <2>4 DEF EndsInv, Ends
  <2>6. users'[u] = status /\ \A v \in Users \ {u} : users'[v] = users[v]
    BY <1>0, <2>4 DEF TypeOK
  <2>7. \A v \in Users : v \in disabled' => users'[v] = "disabled"
    BY <1>0, <2>4, <2>6 DEF CalmUsers
  <2>8. \A v \in Users : (y # AdminIdle /\ y.user = v) \/ ucache'[v] \in {NoRow, users'[v]}
    BY <1>1, <2>1, <2>3, <2>4, <2>6
  <2>9. OnlyAdmin(a) /\ users'[y.user] = IF y.step = "del_cache" THEN NoRow ELSE y.status
    BY <1>1, <2>1, <2>3, <2>6
  <2> QED BY <1>0, <2>4, <2>5, <2>7, <2>8, <2>9, AdminCalm
<1>3. ASSUME NEW u \in Users, DeleteUser(a, u) PROVE Calm'
  <2>1. AllIdle
    BY <1>3, StartsAlone DEF DeleteUser
  <2>2. PICK y : y = [user |-> u, status |-> "disabled", step |-> "del_cache"]
    OBVIOUS
  <2>3. y # AdminIdle /\ y.user = u /\ y.step = "del_cache"
    BY <2>2 DEF AdminIdle
  <2>4. /\ admin' = [admin EXCEPT ![a] = y] /\ UNCHANGED <<req, ucache>>
        /\ users' = [users EXCEPT ![u] = NoRow] /\ disabled' = disabled \ {u}
    BY <1>3, <2>2 DEF DeleteUser
  <2>5. \A t \in Tokens : rt'[t] = NoRow \/ (rt'[t] = rt[t] /\ revokedAt'[t] = revokedAt[t])
    BY <1>3 DEF DeleteUser, TokensOf
  <2>6. EndsInv'
    BY <1>0, <2>5 DEF EndsInv, Ends
  <2>7. users'[u] = NoRow /\ \A v \in Users \ {u} : users'[v] = users[v]
    BY <1>0, <2>4 DEF TypeOK
  <2>8. \A v \in Users : v \in disabled' => users'[v] = "disabled"
    BY <1>0, <2>4, <2>7 DEF CalmUsers
  <2>9. \A v \in Users : (y # AdminIdle /\ y.user = v) \/ ucache'[v] \in {NoRow, users'[v]}
    BY <1>1, <2>1, <2>3, <2>4, <2>7
  <2>10. OnlyAdmin(a) /\ users'[y.user] = IF y.step = "del_cache" THEN NoRow ELSE y.status
    BY <1>1, <2>1, <2>3, <2>7
  <2> QED BY <1>0, <2>4, <2>6, <2>8, <2>9, <2>10, AdminCalm
<1>4. CASE SetEnabledInvalidate(a)
  <2>1. admin[a].step \in {"invalidate", "save_cache", "del_cache"} /\ admin[a].step = "invalidate"
    BY <1>4 DEF SetEnabledInvalidate
  <2>2. /\ OnlyAdmin(a) /\ admin[a] \in AdminRunning /\ admin[a].user \in Users
        /\ users[admin[a].user] = admin[a].status
        /\ \A u \in Users : u # admin[a].user => ucache[u] \in {NoRow, users[u]}
        /\ \A u \in disabled : users[u] = "disabled"
    BY <1>0, <2>1, AdminAlone
  <2>3. PICK y : y = [admin[a] EXCEPT !.step = "save_cache"]
    OBVIOUS
  <2>4. y # AdminIdle /\ y.user = admin[a].user /\ y.status = admin[a].status /\ y.step = "save_cache"
    BY <2>2, <2>3 DEF AdminRunning, AdminIdle
  <2>5. admin' = [admin EXCEPT ![a] = y] /\ UNCHANGED <<req, ucache, users, disabled>>
    BY <1>0, <1>4, <2>3 DEF SetEnabledInvalidate, TypeOK
  <2>6. EndsInv'
    BY <1>0, <1>4, EndsExpire DEF SetEnabledInvalidate, TokensOf
  <2>7. /\ users'[y.user] = y.status
        /\ \A u \in Users : (y # AdminIdle /\ y.user = u) \/ ucache'[u] \in {NoRow, users'[u]}
        /\ \A u \in Users : u \in disabled' => users'[u] = "disabled"
    BY <2>2, <2>4, <2>5
  <2> QED BY <1>0, <2>2, <2>4, <2>5, <2>6, <2>7, AdminCalm
<1>5. CASE SetEnabledCache(a)
  <2>1. admin[a].step \in {"invalidate", "save_cache", "del_cache"} /\ admin[a].step = "save_cache"
    BY <1>5 DEF SetEnabledCache
  <2>2. /\ OnlyAdmin(a) /\ admin[a].user \in Users /\ admin[a].status \in Status
        /\ users[admin[a].user] = admin[a].status
        /\ \A u \in Users : u # admin[a].user => ucache[u] \in {NoRow, users[u]}
        /\ \A u \in disabled : users[u] = "disabled"
    BY <1>0, <2>1, AdminAlone
  <2>3. /\ admin' = [admin EXCEPT ![a] = AdminIdle] /\ UNCHANGED <<req, users, rt, revokedAt>>
        /\ ucache' = [ucache EXCEPT ![admin[a].user] = admin[a].status]
        /\ disabled' = IF admin[a].status = "enabled" THEN disabled ELSE disabled \cup {admin[a].user}
    BY <1>5 DEF SetEnabledCache
  <2>4. EndsInv'
    BY <1>0, <2>3 DEF EndsInv, Ends
  <2>5. \A u \in Users : ucache'[u] \in {NoRow, users'[u]}
    BY <1>0, <2>2, <2>3 DEF TypeOK
  <2>6. \A u \in Users : u \in disabled' => users'[u] = "disabled"
    BY <2>2, <2>3 DEF Status
  <2> QED BY <1>0, <2>2, <2>3, <2>4, <2>5, <2>6, AdminCalm
<1>6. CASE DeleteUserCache(a)
  <2>1. admin[a].step \in {"invalidate", "save_cache", "del_cache"}
    BY <1>6 DEF DeleteUserCache
  <2>2. /\ OnlyAdmin(a) /\ admin[a].user \in Users
        /\ \A u \in Users : u # admin[a].user => ucache[u] \in {NoRow, users[u]}
        /\ \A u \in disabled : users[u] = "disabled"
    BY <1>0, <2>1, AdminAlone
  <2>3. /\ admin' = [admin EXCEPT ![a] = AdminIdle] /\ UNCHANGED <<req, users, rt, revokedAt, disabled>>
        /\ ucache' = [ucache EXCEPT ![admin[a].user] = NoRow]
    BY <1>6 DEF DeleteUserCache
  <2>4. EndsInv'
    BY <1>0, <2>3 DEF EndsInv, Ends
  <2>5. \A u \in Users : ucache'[u] \in {NoRow, users'[u]}
    BY <1>0, <2>2, <2>3 DEF TypeOK
  <2>6. \A u \in Users : u \in disabled' => users'[u] = "disabled"
    BY <2>2, <2>3
  <2> QED BY <1>0, <2>2, <2>3, <2>4, <2>5, <2>6, AdminCalm
<1>7. ~FailAdmin(a)
  BY DEF FailAdmin
<1> QED BY <1>2, <1>3, <1>4, <1>5, <1>6, <1>7 DEF AdminStep

\* Every step keeps the calm until it is disturbed.
LEMMA CalmNext == IInv /\ TypeOK' /\ CalmInv /\ Next => CalmInv'
<1> SUFFICES ASSUME IInv, TypeOK', CalmInv, Next PROVE CalmInv'
  OBVIOUS
<1> USE DEF tokenHistory
<1>1. RevokedInv /\ RevokedInv' /\ TypeOK
  BY RevokedNext DEF CalmInv, IInv
<1>2. SUFFICES ASSUME disturbed' = "no" PROVE Calm'
  BY <1>1 DEF CalmInv
<1>3. Calm /\ EndsInv /\ (\A s \in Tokens : rt[s] # NoRow => rt[s].exp \in Int)
  BY <1>1, <1>2, StillCalm, Numbers DEF CalmInv, Calm
<1>4. ASSUME UNCHANGED <<req, admin, users, disabled, revokedAt>>,
             \A u \in Users : ucache'[u] \in {ucache[u], NoRow},
             \A t \in Tokens : rt'[t] \in {rt[t], NoRow} \/ revokedAt[t] = Never
      PROVE  Calm'
  <2>1. EndsInv'
    BY <1>3, <1>4 DEF EndsInv, Ends
  <2> QED BY <1>1, <1>3, <1>4, <2>1, EnvironmentCalm
<1>5. ASSUME NEW t \in Tokens, NEW u \in Users, Login(t, u) PROVE Calm'
  <2>1. revokedAt[t] = Never
    BY <1>1, <1>5 DEF Login, RevokedInv
  <2>2. \A s \in Tokens \ {t} : rt'[s] = rt[s]
    BY <1>1, <1>5 DEF Login, TypeOK
  <2> QED BY <1>4, <1>5, <2>1, <2>2 DEF Login
<1>6. ASSUME NEW t \in Tokens, NEW u \in Users, DeviceLogin(t, u) PROVE Calm'
  BY <1>4, <1>6 DEF DeviceLogin
<1>7. ASSUME NEW S, S \subseteq Tokens, InvalidateTokens(S) PROVE Calm'
  <2>1. AllIdle
    BY <1>2, <1>7, StartsAlone DEF InvalidateTokens
  <2>2. EndsInv'
    BY <1>1, <1>3, <1>7, EndsExpire DEF InvalidateTokens
  <2> QED BY <1>1, <1>3, <1>7, <2>1, <2>2, EnvironmentCalm DEF InvalidateTokens, AllIdle
<1>8. ASSUME NEW u \in Users, CacheExpires(u) PROVE Calm'
  <2>1. \A v \in Users : ucache'[v] \in {ucache[v], NoRow}
    BY <1>1, <1>8 DEF CacheExpires, TypeOK
  <2> QED BY <1>4, <1>8, <2>1 DEF CacheExpires
<1>9. ASSUME NEW t \in Tokens, RevokeDevice(t) PROVE Calm'
  BY <1>4, <1>9 DEF RevokeDevice
<1>10. CASE Cleanup
  <2>1. \A t \in Tokens : rt'[t] \in {rt[t], NoRow}
    BY <1>10 DEF Cleanup
  <2> QED BY <1>4, <1>10, <2>1 DEF Cleanup
<1>11. CASE Tick
  BY <1>4, <1>11 DEF Tick
<1>12. ASSUME NEW u \in Users, InvalidateTokens(TokensOf(u)) PROVE Calm'
  <2>1. TokensOf(u) \subseteq Tokens
    BY DEF TokensOf
  <2> QED BY <1>7, <1>12, <2>1
<1>13. ASSUME NEW r \in Requests, RequestStep(r) PROVE Calm'
  BY <1>1, <1>2, <1>3, <1>13, RequestStepCalm
<1>14. ASSUME NEW a \in Admins, AdminStep(a) PROVE Calm'
  BY <1>2, <1>3, <1>14, AdminStepCalm
<1>15. CASE InvalidateTokens(Tokens)
  BY <1>7, <1>15
<1> QED
  BY <1>5, <1>6, <1>8, <1>9, <1>10, <1>11, <1>12, <1>13, <1>14, <1>15 DEF Next

\* The invariant of the undisturbed service holds in every reachable state.
LEMMA CalmAlways == Spec => [](IInv /\ CalmInv)
<1>1. Init => IInv /\ CalmInv
  <2> SUFFICES ASSUME Init PROVE IInv /\ CalmInv
    OBVIOUS
  <2>1. IInv
    BY TypeInit DEF Init, IInv, RowInv, CopyInv, PastInv
  <2>2. RevokedInv /\ AloneInv /\ EndsInv /\ CalmReq /\ CalmAdmin /\ CalmUsers
    BY DEF Init, RevokedInv, AloneInv, EndsInv, Ends, CalmReq, CalmAdmin, CalmUsers
  <2> QED BY <2>1, <2>2 DEF CalmInv, Calm
<1>2. IInv /\ CalmInv /\ [Next]_vars => (IInv /\ CalmInv)'
  <2>1. ASSUME CalmInv, UNCHANGED vars PROVE CalmInv'
    BY <2>1 DEF vars, tokenHistory, CalmInv, RevokedInv, Calm, AloneInv, EndsInv, Ends, CalmReq, CalmAdmin,
       CalmUsers, Changing
  <2>2. IInv' => TypeOK'
    BY DEF IInv
  <2> QED BY <2>1, <2>2, CalmNext, IInvNext
<1> QED BY <1>1, <1>2, PTL DEF Spec

\* For any number of users and tokens: as long as requests do not overlap and changes of
\* users complete, no rotation or save brings an invalidated token back
\* (RefreshToken::invalidate_for_user, invalidate_all, User::delete).
THEOREM RefreshTokensStayRevoked == Spec => []RevokedStaysRevoked
<1>1. IInv /\ CalmInv => RevokedStaysRevoked
  BY DEF CalmInv, Calm, EndsInv, Ends, RevokedStaysRevoked
<1> QED BY <1>1, CalmAlways, PTL

\* Under the same condition a disabled user stays disabled until an admin enables it, and
\* the cache says what the table says (User::save, User::find).
THEOREM UsersStayDisabled == Spec => []DisabledStaysDisabled
<1>1. IInv /\ CalmInv => DisabledStaysDisabled
  <2> SUFFICES ASSUME CalmInv, disturbed = "no", Quiescent, NEW u \in Users
               PROVE  ucache[u] \in {NoRow, users[u]} /\ (u \in disabled => users[u] = "disabled")
    BY DEF DisabledStaysDisabled
  <2>1. AllIdle
    BY NobodyRuns DEF Quiescent
  <2> QED BY <2>1 DEF CalmInv, Calm, CalmUsers, Changing, AllIdle
<1> QED BY <1>1, CalmAlways, PTL
=============================================================================
