--------------------------- MODULE SessionsProofs ---------------------------
(***************************************************************************)
(* Proofs about Sessions, for any number of sessions, users, concurrent    *)
(* requests and invalidations, with and without cache failures.            *)
(***************************************************************************)
EXTENDS Sessions, FiniteSetTheorems, TLAPS

\* What a request goes on with is well-formed.
LEMMA AuthenticatedType ==
    ASSUME NEW row \in Row, NEW user \in Users, NEW until \in Nat, now \in Nat
    PROVE  /\ Authenticated(row, user, until) \in Row
           /\ Authenticated(row, user, until).state = "Auth"
           /\ Authenticated(row, user, until).user = user
           /\ Authenticated(row, user, until).exp <= row.exp
           /\ Authenticated(row, user, until).exp <= until
<1> DEFINE e == Min2(row.exp, until)
<1>1. row.exp \in Nat /\ until \in Nat
  BY DEF Row
<1>2. e \in Nat /\ e <= row.exp /\ e <= until
  BY <1>1 DEF Min2
<1>3. Authenticated(row, user, until) =
        [state |-> "Auth", user |-> user, exp |-> e, last_seen |-> now]
  BY DEF Authenticated, Row
<1> QED
  BY <1>2, <1>3 DEF Row

\* The request of r holds a copy of its session or NoRow.
LEMMA RunningType ==
    ASSUME TypeOK, NEW r \in Requests, req[r].step \in Steps
    PROVE  req[r] \in Running /\ req[r] # Idle
BY DEF TypeOK, Idle, Steps

\* A request that goes on after its session was found or saved is well-typed.
LEMMA ContinueType ==
    ASSUME TypeOK, NEW r \in Requests, req[r] \in Running, NEW row \in Row,
           req[r].op = "redeem" => req[r].user # NoUser
    PROVE  \/ Continue(r, row) = Idle
           \/ /\ Continue(r, row) \in Running
              /\ Continue(r, row).copy \in Row
              /\ Continue(r, row).op = req[r].op
              /\ Continue(r, row).user = req[r].user
              /\ Continue(r, row).until = req[r].until
              /\ Continue(r, row).sid = req[r].sid
              /\ Continue(r, row).step \in {"save_db", "handler"}
<1>1. CASE req[r].op = "redeem"
  <2>1. req[r].user \in Users /\ req[r].until \in Nat
    BY <1>1 DEF Running
  <2>2. Authenticated(row, req[r].user, req[r].until) \in Row
    BY <2>1, AuthenticatedType DEF TypeOK
  <2> QED
    BY <1>1, <2>2 DEF Continue, Running, Steps
<1>2. CASE req[r].op # "redeem"
  <2>1. [row EXCEPT !.last_seen = now] \in Row
    BY DEF TypeOK, Row
  <2> QED
    BY <1>2, <2>1 DEF Continue, Running, Steps
<1> QED
  BY <1>1, <1>2

\* The initial state is well-typed.
LEMMA TypeInit == Init => TypeOK
BY DEF Init, TypeOK, Idle, AdminIdle

\* The new record of one request keeps the requests well-typed.
LEMMA ReqType ==
    ASSUME TypeOK, NEW r \in Requests, NEW new,
           \/ new = Idle
           \/ /\ new \in Running
              /\ new.step \notin {"find", "select"} => new.copy # NoRow
              /\ new.op = "redeem" => new.user # NoUser,
           req' = [req EXCEPT ![r] = new]
    PROVE  /\ req' \in [Requests -> {Idle} \cup Running]
           /\ \A q \in Requests : req'[q] # Idle =>
                /\ req'[q].step \notin {"find", "select"} => req'[q].copy # NoRow
                /\ req'[q].op = "redeem" => req'[q].user # NoUser
BY DEF TypeOK

\* The record an invalidation goes on with after a save is well-formed.
LEMMA AfterSaveType ==
    ASSUME TypeOK, NEW a \in Admins, admin[a] \in AdminRunning
    PROVE  AfterSave(a) \in AdminRunning /\ AfterSave(a).rows = admin[a].rows
<1> DEFINE todo == admin[a].todo \ {admin[a].cur}
           rest == [admin[a] EXCEPT !.todo = todo, !.removed = @ \cup {admin[a].cur}]
<1>1. rest \in AdminRunning /\ rest.rows = admin[a].rows
  BY DEF AdminRunning
<1>2. todo # {} => (CHOOSE s \in todo : TRUE) \in Sids
  BY DEF AdminRunning
<1> HIDE DEF rest
<1>3. [rest EXCEPT !.step = "remove"] \in AdminRunning
      /\ [rest EXCEPT !.step = "remove"].rows = rest.rows
  BY <1>1 DEF AdminRunning
<1>4. todo # {} =>
        /\ [rest EXCEPT !.step = "save_db", !.cur = CHOOSE s \in todo : TRUE] \in AdminRunning
        /\ [rest EXCEPT !.step = "save_db", !.cur = CHOOSE s \in todo : TRUE].rows = rest.rows
  BY <1>1, <1>2 DEF AdminRunning
<1> QED
  BY <1>1, <1>3, <1>4 DEF AfterSave, rest

\* An invalidation between two of its steps holds well-formed copies.
LEMMA AdminType ==
    ASSUME TypeOK, NEW a \in Admins, admin[a].step \in {"save_db", "save_cache", "remove"}
    PROVE  admin[a] \in AdminRunning /\ admin[a] # AdminIdle
BY DEF TypeOK, AdminIdle

\* The rows an invalidation works on were there when it read them.
RowsInv ==
    \A a \in Admins : admin[a].step \in {"save_db", "save_cache"} =>
        /\ admin[a].cur \in admin[a].todo
        /\ \A s \in admin[a].todo : admin[a].rows[s] # NoRow

\* Every action keeps the state well-typed.
LEMMA TypeNext == TypeOK /\ RowsInv /\ [Next]_vars => TypeOK'
<1> SUFFICES ASSUME TypeOK, RowsInv, [Next]_vars PROVE TypeOK'
  OBVIOUS
<1> USE SessionsAssumption, NoRowAssumption
<1>1. ASSUME NEW s \in Sids, NewSession(s) PROVE TypeOK'
  <2>1. [state |-> "Init", user |-> NoUser, exp |-> now + Lifetime,
         last_seen |-> now] \in Row
    BY DEF TypeOK, Row
  <2> QED
    BY <1>1, <2>1 DEF NewSession, TypeOK
<1>2. ASSUME NEW s \in Sids, CacheExpires(s) PROVE TypeOK'
  BY <1>2 DEF CacheExpires, TypeOK, history
<1>3. ASSUME NEW r \in Requests, NEW op \in Ops, NEW s \in Sids,
             NEW u \in Users \cup {NoUser}, NEW e \in UserExpires,
             Start(r, op, s, u, e)
      PROVE  TypeOK'
  <2> DEFINE new == [op |-> op, step |-> "find", sid |-> s, user |-> u,
                     until |-> e, copy |-> NoRow, last |-> (op = "redeem")]
  <2>0. e \in Nat
    <3>1. CASE e = 0
      BY <3>1
    <3>2. CASE e # 0
      <4>1. e \in UNION {Expiries[v] : v \in Users}
        BY <3>2 DEF UserExpires
      <4>2. PICK S \in {Expiries[v] : v \in Users} : e \in S
        BY <4>1, Zenon
      <4>3. PICK v \in Users : S = Expiries[v]
        BY <4>2, Zenon
      <4> QED
        BY <4>2, <4>3
    <3> QED
      BY <3>1, <3>2
  <2>1. new \in Running /\ new.step \in {"find", "select"}
    BY <2>0 DEF Running, Steps
  <2>2. new.op = "redeem" => new.user # NoUser
    BY <1>3 DEF Start
  <2>3. req' = [req EXCEPT ![r] = new]
    BY <1>3 DEF Start
  <2>4. granted' \subseteq Sids \X Users \X Nat
    BY <1>3, <2>0 DEF Start, TypeOK
  <2> HIDE DEF new
  <2>5. /\ req' \in [Requests -> {Idle} \cup Running]
        /\ \A q \in Requests : req'[q] # Idle =>
             /\ req'[q].step \notin {"find", "select"} => req'[q].copy # NoRow
             /\ req'[q].op = "redeem" => req'[q].user # NoUser
    BY <2>1, <2>2, <2>3, ReqType
  <2> QED
    BY <1>3, <2>4, <2>5 DEF Start, Overlapping, TypeOK
<1>4. ASSUME NEW r \in Requests, RequestStep(r) PROVE TypeOK'
  <2>0. req[r] \in Running /\ req[r] # Idle
    BY <1>4, RunningType DEF RequestStep, FindCached, FindSelect, FindFill, SaveDb,
       SaveCache, CacheError, HandlePage, HandleMfa, HandleLogout, Steps
  <2>1. /\ req[r].sid \in Sids
        /\ req[r].copy \in Row \cup {NoRow}
        /\ req[r].step \notin {"find", "select"} => req[r].copy \in Row
        /\ req[r].op = "redeem" => req[r].user # NoUser
    BY <2>0 DEF TypeOK, Running
  <2> DEFINE Fine == /\ req' \in [Requests -> {Idle} \cup Running]
                     /\ \A q \in Requests : req'[q] # Idle =>
                          /\ req'[q].step \notin {"find", "select"} => req'[q].copy # NoRow
                          /\ req'[q].op = "redeem" => req'[q].user # NoUser
  <2>2. ASSUME req' = [req EXCEPT ![r] = Idle] PROVE Fine
    BY <2>2, ReqType
  <2>3. ASSUME NEW row \in Row, req' = [req EXCEPT ![r] = Continue(r, row)] PROVE Fine
    <3>1. \/ Continue(r, row) = Idle
          \/ /\ Continue(r, row) \in Running
             /\ Continue(r, row).copy \in Row
             /\ Continue(r, row).op = req[r].op
             /\ Continue(r, row).user = req[r].user
      BY <2>0, <2>1, ContinueType
    <3> QED
      BY <2>1, <2>3, <3>1, ReqType
  <2>4. ASSUME NEW step \in Steps, NEW last \in BOOLEAN,
               NEW copy \in Row \cup {NoRow},
               step \notin {"find", "select"} => copy # NoRow,
               req' = [req EXCEPT ![r] = [req[r] EXCEPT !.step = step, !.copy = copy,
                                                       !.last = last]]
        PROVE  Fine
    <3> DEFINE new == [req[r] EXCEPT !.step = step, !.copy = copy, !.last = last]
    <3>1. new \in Running /\ new.step = step /\ new.copy = copy
          /\ new.op = req[r].op /\ new.user = req[r].user
      BY <2>0 DEF Running
    <3>2. req' = [req EXCEPT ![r] = new]
      BY <2>4
    <3>3. /\ new.step \notin {"find", "select"} => new.copy # NoRow
          /\ new.op = "redeem" => new.user # NoUser
      BY <2>1, <2>4, <3>1
    <3> HIDE DEF new
    <3> QED
      BY <3>1, <3>2, <3>3, ReqType DEF Fine
  <2> HIDE DEF Fine
  <2>5. CASE FindCached(r)
    <3>1. CASE cache[req[r].sid] # NoRow
      <4>1. cache[req[r].sid] \in Row
        BY <2>1, <3>1 DEF TypeOK
      <4>2. Fine
        BY <2>3, <2>5, <3>1, <4>1 DEF FindCached
      <4> QED
        BY <2>5, <4>2 DEF FindCached, TypeOK, Fine, history
    <3>2. CASE cache[req[r].sid] = NoRow
      <4>1. req' = [req EXCEPT ![r] = [req[r] EXCEPT !.step = "select",
                      !.copy = req[r].copy, !.last = req[r].last]]
        BY <2>0, <2>5, <3>2 DEF FindCached, Running, TypeOK
      <4>2. Fine
        BY <2>0, <2>1, <2>4, <4>1 DEF Steps, Running
      <4> QED
        BY <2>5, <4>2 DEF FindCached, TypeOK, Fine, history
    <3> QED
      BY <3>1, <3>2
  <2>6. CASE FindSelect(r)
    <3>1. CASE db[req[r].sid] = NoRow
      BY <2>2, <2>6, <3>1 DEF FindSelect, TypeOK, Fine, history
    <3>2. CASE db[req[r].sid] # NoRow
      <4>1. db[req[r].sid] \in Row
        BY <2>1, <3>2 DEF TypeOK
      <4>2. req' = [req EXCEPT ![r] = [req[r] EXCEPT !.step = "fill",
                      !.copy = db[req[r].sid], !.last = req[r].last]]
        BY <2>0, <2>6, <3>2 DEF FindSelect, Running, TypeOK
      <4>3. Fine
        BY <2>0, <2>4, <4>1, <4>2 DEF Steps, Running
      <4> QED
        BY <2>6, <4>3 DEF FindSelect, TypeOK, Fine, history
    <3> QED
      BY <3>1, <3>2
  <2>7. CASE FindFill(r)
    <3>1. req[r].copy \in Row
      BY <2>1, <2>7 DEF FindFill
    <3>2. Fine
      BY <2>3, <2>7, <3>1 DEF FindFill
    <3> QED
      BY <2>1, <2>7, <3>1, <3>2 DEF FindFill, TypeOK, Fine, history
  <2>8. CASE SaveDb(r)
    <3>1. req[r].copy \in Row
      BY <2>1, <2>8 DEF SaveDb
    <3>2. req' = [req EXCEPT ![r] = [req[r] EXCEPT !.step = "save_cache",
                    !.copy = req[r].copy, !.last = req[r].last]]
      BY <2>0, <2>8 DEF SaveDb, Running, TypeOK
    <3>3. Fine
      BY <2>0, <2>4, <3>1, <3>2 DEF Steps, Running
    <3> QED
      BY <2>1, <2>8, <3>1, <3>3 DEF SaveDb, TypeOK, Fine, history
  <2>9. CASE SaveCache(r)
    <3>1. req[r].copy \in Row
      BY <2>1, <2>9 DEF SaveCache
    <3>2. \/ req' = [req EXCEPT ![r] = Idle]
          \/ req' = [req EXCEPT ![r] = [req[r] EXCEPT !.step = "handler",
                       !.copy = req[r].copy, !.last = req[r].last]]
      BY <2>0, <2>9 DEF SaveCache, Running, TypeOK
    <3>3. Fine
      BY <2>0, <2>2, <2>4, <3>1, <3>2 DEF Steps, Running
    <3> QED
      BY <2>1, <2>9, <3>1, <3>3 DEF SaveCache, TypeOK, Fine, history
  <2>10. CASE CacheError(r) \/ HandlePage(r)
    BY <2>2, <2>10 DEF CacheError, HandlePage, TypeOK, Fine, history
  <2>11. CASE HandleMfa(r)
    <3>1. req[r].copy \in Row
      BY <2>1, <2>11 DEF HandleMfa
    <3>2. \/ req' = [req EXCEPT ![r] = Idle]
          \/ req' = [req EXCEPT ![r] = [req[r] EXCEPT !.step = "save_db",
                       !.copy = req[r].copy, !.last = TRUE]]
      BY <2>0, <2>11 DEF HandleMfa, Running, TypeOK
    <3>3. Fine
      BY <2>0, <2>2, <2>4, <3>1, <3>2 DEF Steps, Running
    <3> QED
      BY <2>11, <3>3 DEF HandleMfa, TypeOK, Fine, history
  <2>12. CASE HandleLogout(r)
    <3>1. db' \in [Sids -> Row \cup {NoRow}]
      BY <2>1, <2>12 DEF HandleLogout, TypeOK, Row
    <3>2. Fine
      BY <2>2, <2>12 DEF HandleLogout
    <3> QED
      BY <2>1, <2>12, <3>1, <3>2 DEF HandleLogout, TypeOK, Fine
  <2> QED
    BY <1>4, <2>5, <2>6, <2>7, <2>8, <2>9, <2>10, <2>11, <2>12 DEF RequestStep
<1>5. ASSUME NEW a \in Admins, AdminStep(a) PROVE TypeOK'
  <2>1. ASSUME NEW selected \in SUBSET Sids, NEW all \in BOOLEAN,
               StartInvalidation(a, selected, all)
        PROVE  TypeOK'
    <3> DEFINE new == [step |-> "save_db", at |-> now, all |-> all, rows |-> db,
          todo |-> selected, removed |-> {}, cur |-> CHOOSE s \in selected : TRUE]
    <3>1. (CHOOSE s \in selected : TRUE) \in Sids
      BY <2>1 DEF StartInvalidation
    <3>2. new \in AdminRunning
      BY <3>1 DEF AdminRunning, TypeOK
    <3>3. admin' \in [Admins -> {AdminIdle} \cup AdminRunning]
      BY <2>1, <3>2 DEF StartInvalidation, TypeOK
    <3> QED
      BY <2>1, <3>3 DEF StartInvalidation, Overlapping, TypeOK
  <2>2. CASE InvalidateAll(a) \/ \E u \in Users : InvalidateForUser(a, u)
    BY <2>1, <2>2 DEF InvalidateAll, InvalidateForUser
  <2>3. ASSUME NEW u \in Users, DeleteByUser(a, u) PROVE TypeOK'
    <3> DEFINE gone == {s \in Sids : db[s] # NoRow /\ db[s].user = u}
               new == [step |-> "remove", at |-> now, all |-> FALSE, rows |-> db,
                 todo |-> {}, removed |-> gone, cur |-> CHOOSE s \in gone : TRUE]
    <3>1. (CHOOSE s \in gone : TRUE) \in Sids
      BY <2>3 DEF DeleteByUser
    <3>2. new \in AdminRunning
      BY <3>1 DEF AdminRunning, TypeOK
    <3>3. admin' \in [Admins -> {AdminIdle} \cup AdminRunning]
      BY <2>3, <3>2 DEF DeleteByUser, TypeOK
    <3> QED
      BY <2>3, <3>3 DEF DeleteByUser, Overlapping, TypeOK
  <2>4. ASSUME admin[a].step \in {"save_db", "save_cache"}
        PROVE  InvalidatedRow(a) \in Row /\ admin[a].cur \in Sids
    <3>1. admin[a] \in AdminRunning
      BY <2>4, AdminType
    <3>2. admin[a].rows[admin[a].cur] \in Row /\ admin[a].at \in Nat
      BY <2>4, <3>1 DEF RowsInv, AdminRunning
    <3> QED
      BY <3>1, <3>2 DEF InvalidatedRow, Row, AdminRunning
  <2>5. CASE InvalidateSaveDb(a)
    <3>1. admin[a] \in AdminRunning
      BY <2>5, AdminType DEF InvalidateSaveDb
    <3>2. admin' \in [Admins -> {AdminIdle} \cup AdminRunning]
      BY <2>5, <3>1 DEF InvalidateSaveDb, TypeOK, AdminRunning
    <3>3. db' \in [Sids -> Row \cup {NoRow}]
      BY <2>4, <2>5 DEF InvalidateSaveDb, TypeOK
    <3> QED
      BY <2>5, <3>2, <3>3 DEF InvalidateSaveDb, TypeOK, history
  <2>6. CASE InvalidateSaveCache(a) \/ InvalidateError(a)
    <3>1. admin[a] \in AdminRunning
      BY <2>6, AdminType DEF InvalidateSaveCache, InvalidateError
    <3>2. admin' \in [Admins -> {AdminIdle} \cup AdminRunning]
      BY <2>6, <3>1, AfterSaveType DEF InvalidateSaveCache, InvalidateError, TypeOK
    <3>3. cache' \in [Sids -> Row \cup {NoRow}]
      BY <2>4, <2>6 DEF InvalidateSaveCache, InvalidateError, TypeOK
    <3> QED
      BY <2>6, <3>2, <3>3 DEF InvalidateSaveCache, InvalidateError, TypeOK, history
  <2>7. CASE InvalidateRemove(a)
    <3>1. admin[a] \in AdminRunning
      BY <2>7, AdminType DEF InvalidateRemove
    <3>2. PICK s \in admin[a].removed :
            /\ cache' = [cache EXCEPT ![s] = NoRow]
            /\ admin' = [admin EXCEPT ![a] =
                 IF admin[a].removed = {s} THEN AdminIdle
                 ELSE [admin[a] EXCEPT !.removed = @ \ {s}]]
      BY <2>7 DEF InvalidateRemove
    <3>3. [admin[a] EXCEPT !.removed = @ \ {s}] \in AdminRunning
      BY <3>1 DEF AdminRunning
    <3>4. admin' \in [Admins -> {AdminIdle} \cup AdminRunning]
      BY <3>2, <3>3 DEF TypeOK
    <3>5. s \in Sids /\ admin[a].at \in Nat
      BY <3>1 DEF AdminRunning
    <3> QED
      BY <2>7, <3>2, <3>4, <3>5 DEF InvalidateRemove, TypeOK
  <2> QED
    BY <1>5, <2>2, <2>3, <2>5, <2>6, <2>7 DEF AdminStep
<1>6. CASE Cleanup
  BY <1>6 DEF Cleanup, TypeOK, history
<1>7. CASE Tick
  BY <1>7 DEF Tick, TypeOK, history
<1>8. CASE UNCHANGED vars
  BY <1>8 DEF vars, history, TypeOK
<1> QED
  BY <1>1, <1>2, <1>3, <1>4, <1>5, <1>6, <1>7, <1>8 DEF Next

\* An invalidation always holds the rows it still has to save.
LEMMA RowsNext == TypeOK /\ RowsInv /\ [Next]_vars => RowsInv'
<1> SUFFICES ASSUME TypeOK, RowsInv, [Next]_vars, NEW b \in Admins,
                    admin'[b].step \in {"save_db", "save_cache"}
             PROVE  /\ admin'[b].cur \in admin'[b].todo
                    /\ \A s \in admin'[b].todo : admin'[b].rows[s] # NoRow
  BY DEF RowsInv
<1>1. CASE admin'[b] = admin[b]
  BY <1>1 DEF RowsInv
<1>2. ASSUME NEW selected \in SUBSET Sids, NEW all \in BOOLEAN,
             StartInvalidation(b, selected, all), \A s \in selected : db[s] # NoRow
      PROVE  /\ admin'[b].cur \in admin'[b].todo
             /\ \A s \in admin'[b].todo : admin'[b].rows[s] # NoRow
  <2>1. (CHOOSE s \in selected : TRUE) \in selected
    BY <1>2 DEF StartInvalidation
  <2>2. /\ admin'[b].cur = CHOOSE s \in selected : TRUE
        /\ admin'[b].todo = selected
        /\ admin'[b].rows = db
    BY <1>2 DEF StartInvalidation, TypeOK
  <2> QED
    BY <1>2, <2>1, <2>2
<1>3. CASE InvalidateAll(b) \/ \E u \in Users : InvalidateForUser(b, u)
  <2>1. CASE InvalidateAll(b)
    <3> DEFINE sel == {s \in Sids : db[s] # NoRow /\ db[s].exp > now}
    <3>1. sel \in SUBSET Sids /\ \A s \in sel : db[s] # NoRow
      OBVIOUS
    <3>2. StartInvalidation(b, sel, TRUE)
      BY <2>1 DEF InvalidateAll
    <3> HIDE DEF sel
    <3> QED
      BY <1>2, <3>1, <3>2
  <2>2. ASSUME NEW u \in Users, InvalidateForUser(b, u)
        PROVE  /\ admin'[b].cur \in admin'[b].todo
               /\ \A s \in admin'[b].todo : admin'[b].rows[s] # NoRow
    <3> DEFINE sel == {s \in Sids : db[s] # NoRow /\ db[s].user = u}
    <3>1. sel \in SUBSET Sids /\ \A s \in sel : db[s] # NoRow
      OBVIOUS
    <3>2. StartInvalidation(b, sel, FALSE)
      BY <2>2 DEF InvalidateForUser
    <3> HIDE DEF sel
    <3> QED
      BY <1>2, <3>1, <3>2
  <2> QED
    BY <1>3, <2>1, <2>2
<1>4. CASE InvalidateSaveDb(b)
  <2>1. admin[b] \in AdminRunning
    BY <1>4, AdminType DEF InvalidateSaveDb
  <2> QED
    BY <1>4, <2>1 DEF InvalidateSaveDb, RowsInv, TypeOK, AdminRunning
<1>5. CASE InvalidateSaveCache(b) \/ InvalidateError(b)
  <2>1. admin[b] \in AdminRunning
    BY <1>5, AdminType DEF InvalidateSaveCache, InvalidateError
  <2>2. admin'[b] = AfterSave(b) /\ admin[b].step = "save_cache"
    BY <1>5 DEF InvalidateSaveCache, InvalidateError, TypeOK, AdminIdle
  <2> DEFINE todo == admin[b].todo \ {admin[b].cur}
             rest == [admin[b] EXCEPT !.todo = todo, !.removed = @ \cup {admin[b].cur}]
  <2>3. rest \in AdminRunning /\ rest.rows = admin[b].rows /\ rest.todo = todo
    BY <2>1 DEF AdminRunning
  <2>4. \A s \in todo : admin[b].rows[s] # NoRow
    BY <2>2 DEF RowsInv
  <2> HIDE DEF rest
  <2>5. todo # {}
    BY <2>2, <2>3 DEF AfterSave, rest, AdminRunning
  <2>6. admin'[b] = [rest EXCEPT !.step = "save_db", !.cur = CHOOSE s \in todo : TRUE]
    BY <2>2, <2>5 DEF AfterSave, rest
  <2> QED
    BY <2>3, <2>4, <2>5, <2>6 DEF AdminRunning
<1>6. CASE InvalidateRemove(b)
  <2>1. admin[b] \in AdminRunning
    BY <1>6, AdminType DEF InvalidateRemove
  <2> QED
    BY <1>6, <2>1 DEF InvalidateRemove, TypeOK, AdminRunning, AdminIdle
<1>7. ASSUME NEW u \in Users, DeleteByUser(b, u) PROVE FALSE
  BY <1>7 DEF DeleteByUser, TypeOK
<1>8. ASSUME NEW a \in Admins, AdminStep(a), a # b PROVE admin'[b] = admin[b]
  BY <1>8 DEF AdminStep, InvalidateAll, InvalidateForUser, StartInvalidation,
     DeleteByUser, InvalidateSaveDb, InvalidateSaveCache, InvalidateError,
     InvalidateRemove, TypeOK
<1>9. CASE UNCHANGED admin
  BY <1>1, <1>9
<1> QED
  BY <1>1, <1>3, <1>4, <1>5, <1>6, <1>7, <1>8, <1>9 DEF Next, AdminStep,
     NewSession, CacheExpires, Start, RequestStep, FindCached, FindSelect, FindFill,
     SaveDb, SaveCache, CacheError, HandlePage, HandleMfa, HandleLogout, Cleanup,
     Tick, vars

\* Every reachable state is well-typed: no request ever works on a missing row,
\* and an invalidation only writes back rows it has read (Session::find,
\* Session::invalidate_all, invalidate_for_user).
THEOREM TypeCorrect == Spec => []TypeOK
<1>1. Init => TypeOK /\ RowsInv
  BY TypeInit DEF Init, RowsInv, AdminIdle
<1>2. TypeOK /\ RowsInv /\ [Next]_vars => (TypeOK /\ RowsInv)'
  BY TypeNext, RowsNext
<1> QED
  BY <1>1, <1>2, PTL DEF Spec

-----------------------------------------------------------------------------
\* A code of user u was redeemed for session s, by an account that lasts until exp.
Held(s, u, g) == \E x \in g : x[1] = s /\ x[2] = u
Within(s, u, exp, g) == \E x \in g : x[1] = s /\ x[2] = u /\ exp <= x[3]

\* A copy c of session s, in the light of the redeemed codes g, the creation
\* times cr and the revocations rv.
Good(s, c, g, cr, rv) ==
    /\ cr[s] # Never
    /\ c.state = "Auth" => Held(s, c.user, g)
    /\ \/ rv[s] # Never /\ c.exp <= rv[s]
       \/ /\ c.exp <= cr[s] + Lifetime
          /\ c.state = "Auth" => Within(s, c.user, c.exp, g)

DbInv == \A s \in Sids : db[s] # NoRow => Good(s, db[s], granted, created, revokedAt)

CacheInv == \A s \in Sids :
    cache[s] # NoRow => Good(s, cache[s], granted, created, revokedAt)

ReqInv == \A r \in Requests : req[r] # Idle =>
    /\ created[req[r].sid] # Never
    /\ req[r].op = "redeem" => <<req[r].sid, req[r].user, req[r].until>> \in granted
    /\ req[r].copy # NoRow => Good(req[r].sid, req[r].copy, granted, created, revokedAt)

AdminInv == \A a \in Admins : admin[a] # AdminIdle =>
    /\ \A s \in Sids : admin[a].rows[s] # NoRow =>
          Good(s, admin[a].rows[s], granted, created, revokedAt)
    /\ \A s \in admin[a].todo : revokedAt[s] # Never /\ admin[a].at <= revokedAt[s]

PastInv == \A s \in Sids : revokedAt[s] # Never => revokedAt[s] <= now

CopiesInv == DbInv /\ CacheInv /\ ReqInv /\ AdminInv /\ PastInv

Typed == TypeOK /\ RowsInv

\* What the histories of a session may do while copies of it exist.
Later(s) ==
    /\ created[s] # Never => created'[s] = created[s]
    /\ granted \subseteq granted'
    /\ \/ revokedAt'[s] = revokedAt[s]
       \/ /\ revokedAt'[s] \in Nat
          /\ revokedAt[s] = Never \/ revokedAt[s] <= revokedAt'[s]

\* Grants and creations stay in the history, invalidations move forward.
LEMMA HistoryGrows ==
    ASSUME TypeOK, PastInv, Next, NEW s \in Sids
    PROVE  Later(s)
<1> USE SessionsAssumption
<1>1. ASSUME NEW t \in Sids, NewSession(t) PROVE Later(s)
  BY <1>1 DEF NewSession, Later, TypeOK
<1>2. ASSUME NEW r \in Requests, NEW op \in Ops, NEW t \in Sids,
             NEW u \in Users \cup {NoUser}, NEW e \in UserExpires,
             Start(r, op, t, u, e)
      PROVE  Later(s)
  BY <1>2 DEF Start, Later
<1>3. ASSUME NEW r \in Requests, HandleLogout(r) PROVE Later(s)
  <2>1. req[r] \in Running
    BY <1>3, RunningType DEF HandleLogout, Steps
  <2> QED
    BY <1>3, <2>1 DEF HandleLogout, Later, TypeOK, PastInv, Running
<1>4. ASSUME NEW a \in Admins, NEW selected \in SUBSET Sids, NEW all \in BOOLEAN,
             StartInvalidation(a, selected, all)
      PROVE  Later(s)
  BY <1>4 DEF StartInvalidation, Later, TypeOK, PastInv
<1>5. ASSUME NEW a \in Admins, NEW u \in Users, DeleteByUser(a, u) PROVE Later(s)
  BY <1>5 DEF DeleteByUser, Later, TypeOK, PastInv
<1>6. CASE UNCHANGED <<created, granted, revokedAt>>
  BY <1>6 DEF Later
<1>7. ASSUME NEW a \in Admins, AdminStep(a) PROVE Later(s)
  BY <1>4, <1>5, <1>6, <1>7 DEF AdminStep, InvalidateAll, InvalidateForUser,
     InvalidateSaveDb, InvalidateSaveCache, InvalidateError, InvalidateRemove, history
<1> QED
  BY <1>1, <1>2, <1>3, <1>6, <1>7 DEF Next, CacheExpires, RequestStep,
     FindCached, FindSelect, FindFill, SaveDb, SaveCache, CacheError, HandlePage,
     HandleMfa, Cleanup, Tick, history

\* A good copy stays good.
LEMMA GoodLater ==
    ASSUME TypeOK, NEW s \in Sids, Later(s), NEW c \in Row,
           Good(s, c, granted, created, revokedAt)
    PROVE  Good(s, c, granted', created', revokedAt')
<1> USE SessionsAssumption
<1>1. CASE revokedAt[s] # Never /\ c.exp <= revokedAt[s]
  <2>1. revokedAt'[s] # Never /\ c.exp <= revokedAt'[s]
    BY <1>1 DEF Later, TypeOK, Row
  <2> QED
    BY <2>1 DEF Good, Later, Held
<1>2. CASE /\ c.exp <= created[s] + Lifetime
           /\ c.state = "Auth" => Within(s, c.user, c.exp, granted)
  BY <1>2 DEF Good, Later, Held, Within
<1> QED
  BY <1>1, <1>2 DEF Good

\* Renewing last_seen, redeeming a code and invalidating keep a copy good.
LEMMA GoodSeen ==
    ASSUME NEW s, NEW c \in Row, NEW g, NEW cr, NEW rv, NEW t, Good(s, c, g, cr, rv)
    PROVE  Good(s, [c EXCEPT !.last_seen = t], g, cr, rv)
BY DEF Good, Row

\* A good copy stays good when a granted user is written into it.
LEMMA GoodAuthenticated ==
    ASSUME now \in Nat, NEW s \in Sids, NEW c \in Row, NEW u \in Users, NEW e \in Nat, NEW g,
           NEW cr \in [Sids -> Nat \cup {Never}], NEW rv \in [Sids -> Nat \cup {Never}],
           <<s, u, e>> \in g, Good(s, c, g, cr, rv)
    PROVE  Good(s, Authenticated(c, u, e), g, cr, rv)
<1> DEFINE d == Authenticated(c, u, e)
<1>1. d \in Row /\ d.user = u /\ d.exp <= c.exp /\ d.exp <= e
  BY AuthenticatedType
<1>2. d.exp \in Nat /\ c.exp \in Nat /\ cr[s] \in Nat /\ rv[s] \in Nat \cup {Never}
  BY <1>1 DEF Row, Good
<1>3. Lifetime \in Nat /\ cr[s] # Never
      /\ Held(s, d.user, g) /\ Within(s, d.user, d.exp, g)
  BY <1>1, SessionsAssumption DEF Good, Held, Within
<1> HIDE DEF d
<1>4. CASE rv[s] # Never /\ c.exp <= rv[s]
  <2>1. d.exp <= rv[s]
    BY <1>1, <1>2, <1>4
  <2> QED
    BY <1>3, <1>4, <2>1 DEF Good, d
<1>5. CASE c.exp <= cr[s] + Lifetime
  <2>1. d.exp <= cr[s] + Lifetime
    BY <1>1, <1>2, <1>3, <1>5
  <2> QED
    BY <1>3, <2>1 DEF Good, d
<1> QED
  BY <1>4, <1>5 DEF Good

\* What a request goes on with is a good copy of its session.
LEMMA GoodContinue ==
    ASSUME Typed, ReqInv, NEW r \in Requests, req[r] \in Running, NEW row \in Row,
           Good(req[r].sid, row, granted, created, revokedAt),
           Continue(r, row) # Idle
    PROVE  Good(req[r].sid, Continue(r, row).copy, granted, created, revokedAt)
<1> USE DEF Typed
<1>1. CASE req[r].op = "redeem"
  <2>1. req[r] # Idle
    BY DEF Idle, Running, Steps
  <2>2. req[r].user \in Users /\ req[r].until \in Nat
        /\ <<req[r].sid, req[r].user, req[r].until>> \in granted
    BY <1>1, <2>1 DEF Running, TypeOK, ReqInv
  <2>3. Good(req[r].sid, Authenticated(row, req[r].user, req[r].until), granted, created, revokedAt)
    BY <2>2, GoodAuthenticated DEF TypeOK, Running
  <2>4. Continue(r, row).copy = Authenticated(row, req[r].user, req[r].until)
    BY <1>1 DEF Continue, Running
  <2> QED
    BY <2>3, <2>4
<1>2. CASE req[r].op # "redeem"
  <2>1. Continue(r, row).copy \in {row, [row EXCEPT !.last_seen = now]}
    BY <1>2 DEF Continue, Running
  <2>2. Good(req[r].sid, [row EXCEPT !.last_seen = now], granted, created, revokedAt)
    BY GoodSeen
  <2> QED
    BY <2>1, <2>2
<1> QED
  BY <1>1, <1>2

-----------------------------------------------------------------------------
\* The rows requests and invalidations write are good.
LEMMA GoodCopy ==
    ASSUME Typed, CopiesInv, Next, NEW r \in Requests,
           req[r].step \in Steps \ {"find", "select"}
    PROVE  /\ req[r] \in Running /\ req[r].sid \in Sids /\ req[r].copy \in Row
           /\ Good(req[r].sid, req[r].copy, granted, created, revokedAt)
           /\ Good(req[r].sid, req[r].copy, granted', created', revokedAt')
<1>1. req[r] \in Running /\ req[r] # Idle
  BY RunningType DEF Typed
<1>2. req[r].sid \in Sids /\ req[r].copy \in Row /\ req[r].copy # NoRow
  BY <1>1 DEF Typed, TypeOK, Running
<1>3. Good(req[r].sid, req[r].copy, granted, created, revokedAt)
  BY <1>1, <1>2 DEF CopiesInv, ReqInv
<1>4. Later(req[r].sid)
  BY <1>2, HistoryGrows DEF Typed, CopiesInv
<1> QED
  BY <1>1, <1>2, <1>3, <1>4, GoodLater DEF Typed

\* The copy an invalidation writes is good for the history it leaves.
LEMMA GoodInvalidated ==
    ASSUME Typed, CopiesInv, Next, NEW a \in Admins,
           admin[a].step \in {"save_db", "save_cache"}
    PROVE  /\ admin[a].cur \in Sids
           /\ Good(admin[a].cur, InvalidatedRow(a), granted', created', revokedAt')
<1> DEFINE s == admin[a].cur
           c == admin[a].rows[s]
           d == [c EXCEPT !.exp = admin[a].at]
<1>1. admin[a] \in AdminRunning /\ admin[a] # AdminIdle
  BY AdminType DEF Typed
<1>2. s \in Sids /\ s \in admin[a].todo /\ c # NoRow /\ c \in Row /\ admin[a].at \in Nat
  BY <1>1 DEF Typed, RowsInv, AdminRunning
<1>3. Good(s, c, granted, created, revokedAt) /\ revokedAt[s] # Never
      /\ admin[a].at <= revokedAt[s]
  BY <1>1, <1>2 DEF CopiesInv, AdminInv
<1>4. d \in Row /\ d.state = c.state /\ d.user = c.user /\ d.exp = admin[a].at
  BY <1>2 DEF Row
<1>5. Good(s, d, granted, created, revokedAt)
  BY <1>3, <1>4 DEF Good
<1>6. Later(s)
  BY <1>2, HistoryGrows DEF Typed, CopiesInv
<1>7. Good(s, d, granted', created', revokedAt')
  BY <1>2, <1>4, <1>5, <1>6, GoodLater DEF Typed
<1> QED
  BY <1>2, <1>7 DEF InvalidatedRow

\* A new session is good.
LEMMA GoodNew ==
    ASSUME Typed, NEW s \in Sids, NewSession(s)
    PROVE  Good(s, [state |-> "Init", user |-> NoUser, exp |-> now + Lifetime,
                    last_seen |-> now], granted', created', revokedAt')
BY SessionsAssumption DEF Typed, TypeOK, NewSession, Good

\* Every action leaves only good rows in the table.
LEMMA DbNext == Typed /\ CopiesInv /\ Next => DbInv'
<1> SUFFICES ASSUME Typed, CopiesInv, Next, NEW s \in Sids, db'[s] # NoRow
             PROVE  Good(s, db'[s], granted', created', revokedAt')
  BY DEF DbInv
<1> DEFINE Goal == Good(s, db'[s], granted', created', revokedAt')
<1>1. ASSUME db'[s] = db[s] PROVE Goal
  <2>1. db[s] \in Row /\ Good(s, db[s], granted, created, revokedAt)
    BY <1>1 DEF Typed, TypeOK, CopiesInv, DbInv
  <2>2. Later(s)
    BY HistoryGrows DEF Typed, CopiesInv
  <2> QED
    BY <1>1, <2>1, <2>2, GoodLater DEF Typed
<1>2. ASSUME NEW t \in Sids, NewSession(t) PROVE Goal
  <2>1. CASE t # s
    BY <1>1, <1>2, <2>1 DEF NewSession, Typed, TypeOK
  <2>2. CASE t = s
    BY <1>2, <2>2, GoodNew DEF NewSession, Typed, TypeOK
  <2> QED
    BY <2>1, <2>2
<1>3. ASSUME NEW r \in Requests, SaveDb(r) PROVE Goal
  <2>1. /\ req[r].sid \in Sids
        /\ Good(req[r].sid, req[r].copy, granted', created', revokedAt')
    BY <1>3, GoodCopy DEF SaveDb, Steps
  <2>2. CASE req[r].sid # s
    BY <1>1, <1>3, <2>2 DEF SaveDb, Typed, TypeOK
  <2>3. CASE req[r].sid = s
    BY <1>3, <2>1, <2>3 DEF SaveDb, Typed, TypeOK
  <2> QED
    BY <2>2, <2>3
<1>4. ASSUME NEW r \in Requests, HandleLogout(r) PROVE Goal
  <2>1. CASE req[r].sid # s
    BY <1>1, <1>4, <2>1 DEF HandleLogout, Typed, TypeOK
  <2>2. CASE req[r].sid = s
    <3>1. db[s] \in Row
      BY <1>4, <2>2 DEF HandleLogout, Typed, TypeOK
    <3>2. created[s] # Never
      BY <3>1, NoRowAssumption DEF CopiesInv, DbInv, Good
    <3>3. db'[s].exp = now /\ db'[s].state = "LoggedOut"
      BY <1>4, <2>2, <3>1, NoRowAssumption DEF HandleLogout, Typed, TypeOK, Row
    <3>4. revokedAt'[s] = now /\ now \in Nat /\ created' = created
      BY <1>4, <2>2 DEF HandleLogout, Typed, TypeOK
    <3> QED
      BY <3>2, <3>3, <3>4, SessionsAssumption DEF Good
  <2> QED
    BY <2>1, <2>2
<1>5. ASSUME NEW a \in Admins, InvalidateSaveDb(a) PROVE Goal
  <2>1. /\ admin[a].cur \in Sids
        /\ Good(admin[a].cur, InvalidatedRow(a), granted', created', revokedAt')
    BY <1>5, GoodInvalidated DEF InvalidateSaveDb
  <2>2. CASE admin[a].cur # s
    BY <1>1, <1>5, <2>2 DEF InvalidateSaveDb, Typed, TypeOK
  <2>3. CASE admin[a].cur = s
    BY <1>5, <2>1, <2>3 DEF InvalidateSaveDb, Typed, TypeOK
  <2> QED
    BY <2>2, <2>3
<1>6. ASSUME NEW a \in Admins, NEW u \in Users, DeleteByUser(a, u) PROVE Goal
  <2>1. db'[s] = db[s]
    BY <1>6 DEF DeleteByUser
  <2> QED
    BY <1>1, <2>1
<1>7. ASSUME Cleanup PROVE Goal
  <2>1. db'[s] = db[s]
    BY <1>7 DEF Cleanup
  <2> QED
    BY <1>1, <2>1
<1>8. ASSUME UNCHANGED db PROVE Goal
  BY <1>1, <1>8
<1> HIDE DEF Goal
<1>9. ASSUME NEW r \in Requests, RequestStep(r) PROVE Goal
  BY <1>3, <1>4, <1>8, <1>9 DEF RequestStep, FindCached, FindSelect, FindFill,
     SaveCache, CacheError, HandlePage, HandleMfa
<1>10. ASSUME NEW a \in Admins, AdminStep(a) PROVE Goal
  BY <1>5, <1>6, <1>8, <1>10 DEF AdminStep, InvalidateAll, InvalidateForUser,
     StartInvalidation, InvalidateSaveCache, InvalidateError, InvalidateRemove
<1>11. Goal
  BY <1>2, <1>7, <1>8, <1>9, <1>10 DEF Next, CacheExpires, Start, Tick
<1> QED
  BY <1>11 DEF Goal

\* Every action leaves only good copies in the cache.
LEMMA CacheNext == Typed /\ CopiesInv /\ Next => CacheInv'
<1> SUFFICES ASSUME Typed, CopiesInv, Next, NEW s \in Sids, cache'[s] # NoRow
             PROVE  Good(s, cache'[s], granted', created', revokedAt')
  BY DEF CacheInv
<1> DEFINE Goal == Good(s, cache'[s], granted', created', revokedAt')
<1>1. ASSUME cache'[s] = cache[s] PROVE Goal
  <2>1. cache[s] \in Row /\ Good(s, cache[s], granted, created, revokedAt)
    BY <1>1 DEF Typed, TypeOK, CopiesInv, CacheInv
  <2>2. Later(s)
    BY HistoryGrows DEF Typed, CopiesInv
  <2> QED
    BY <1>1, <2>1, <2>2, GoodLater DEF Typed
<1>2. ASSUME NEW t \in Sids, NewSession(t) PROVE Goal
  <2>1. CASE t # s
    BY <1>1, <1>2, <2>1 DEF NewSession, Typed, TypeOK
  <2>2. CASE t = s
    BY <1>2, <2>2, GoodNew DEF NewSession, Typed, TypeOK
  <2> QED
    BY <2>1, <2>2
<1>3. ASSUME NEW r \in Requests, SaveCache(r) \/ FindFill(r) PROVE Goal
  <2>1. /\ req[r].sid \in Sids
        /\ Good(req[r].sid, req[r].copy, granted', created', revokedAt')
    BY <1>3, GoodCopy DEF SaveCache, FindFill, Steps
  <2>2. CASE req[r].sid # s
    BY <1>1, <1>3, <2>2 DEF SaveCache, FindFill, Typed, TypeOK
  <2>3. CASE req[r].sid = s
    BY <1>3, <2>1, <2>3 DEF SaveCache, FindFill, Typed, TypeOK
  <2> QED
    BY <2>2, <2>3
<1>4. ASSUME NEW a \in Admins, InvalidateSaveCache(a) PROVE Goal
  <2>1. /\ admin[a].cur \in Sids
        /\ Good(admin[a].cur, InvalidatedRow(a), granted', created', revokedAt')
    BY <1>4, GoodInvalidated DEF InvalidateSaveCache
  <2>2. CASE admin[a].cur # s
    BY <1>1, <1>4, <2>2 DEF InvalidateSaveCache, Typed, TypeOK
  <2>3. CASE admin[a].cur = s
    BY <1>4, <2>1, <2>3 DEF InvalidateSaveCache, Typed, TypeOK
  <2> QED
    BY <2>2, <2>3
<1>5. ASSUME NEW a \in Admins, InvalidateRemove(a) PROVE Goal
  <2>1. PICK t \in admin[a].removed : cache' = [cache EXCEPT ![t] = NoRow]
    BY <1>5 DEF InvalidateRemove
  <2>2. cache'[s] = cache[s]
    BY <2>1 DEF Typed, TypeOK
  <2> QED
    BY <1>1, <2>2
<1>6. ASSUME NEW t \in Sids, CacheExpires(t) PROVE Goal
  <2>1. cache'[s] = cache[s]
    BY <1>6 DEF CacheExpires, Typed, TypeOK
  <2> QED
    BY <1>1, <2>1
<1>8. ASSUME UNCHANGED cache PROVE Goal
  BY <1>1, <1>8
<1> HIDE DEF Goal
<1>9. ASSUME NEW r \in Requests, RequestStep(r) PROVE Goal
  BY <1>3, <1>8, <1>9 DEF RequestStep, FindCached, FindSelect, SaveDb,
     CacheError, HandlePage, HandleMfa, HandleLogout
<1>10. ASSUME NEW a \in Admins, AdminStep(a) PROVE Goal
  BY <1>4, <1>5, <1>8, <1>10 DEF AdminStep, InvalidateAll, InvalidateForUser,
     StartInvalidation, DeleteByUser, InvalidateSaveDb, InvalidateError
<1>11. Goal
  BY <1>2, <1>6, <1>8, <1>9, <1>10 DEF Next, Start, Cleanup, Tick
<1> QED
  BY <1>11 DEF Goal

\* What requests hold are good copies.
LEMMA ReqNext == Typed /\ CopiesInv /\ Next => ReqInv'
<1> SUFFICES ASSUME Typed, CopiesInv, Next, NEW q \in Requests, req'[q] # Idle
             PROVE  /\ created'[req'[q].sid] # Never
                    /\ req'[q].op = "redeem" => <<req'[q].sid, req'[q].user, req'[q].until>> \in granted'
                    /\ req'[q].copy # NoRow =>
                         Good(req'[q].sid, req'[q].copy, granted', created', revokedAt')
  BY DEF ReqInv
<1> USE SessionsAssumption, NoRowAssumption
<1> DEFINE Goal ==
      /\ created'[req'[q].sid] # Never
      /\ req'[q].op = "redeem" => <<req'[q].sid, req'[q].user, req'[q].until>> \in granted'
      /\ req'[q].copy # NoRow =>
           Good(req'[q].sid, req'[q].copy, granted', created', revokedAt')
<1>1. ASSUME NEW new, req'[q] = new, req[q] \in Running,
             new.sid = req[q].sid, new.op = req[q].op, new.user = req[q].user,
             new.until = req[q].until,
             \/ new.copy = NoRow
             \/ /\ new.copy \in Row
                /\ Good(req[q].sid, new.copy, granted, created, revokedAt)
      PROVE  Goal
  <2>1. req[q] # Idle
    BY <1>1 DEF Idle, Running, Steps
  <2>2. Later(req[q].sid) /\ req[q].sid \in Sids
    BY <1>1, HistoryGrows DEF Typed, CopiesInv, Running
  <2>3. /\ created[req[q].sid] # Never
        /\ req[q].op = "redeem" => <<req[q].sid, req[q].user, req[q].until>> \in granted
    BY <2>1 DEF CopiesInv, ReqInv
  <2>4. new.copy # NoRow => Good(req[q].sid, new.copy, granted', created', revokedAt')
    BY <1>1, <2>2, GoodLater DEF Typed
  <2> QED
    BY <1>1, <2>2, <2>3, <2>4 DEF Later
<1>2. ASSUME req'[q] = req[q] PROVE Goal
  <2>1. req[q] # Idle /\ req[q] \in Running
    BY <1>2 DEF Typed, TypeOK
  <2>2. \/ req[q].copy = NoRow
        \/ /\ req[q].copy \in Row
           /\ Good(req[q].sid, req[q].copy, granted, created, revokedAt)
    BY <2>1 DEF CopiesInv, ReqInv, Running
  <2> QED
    BY <1>1, <1>2, <2>1, <2>2
<1>3. ASSUME NEW op \in Ops, NEW s \in Sids, NEW u \in Users \cup {NoUser}, NEW e \in UserExpires,
             Start(q, op, s, u, e)
      PROVE  Goal
  <2>1. req'[q] = [op |-> op, step |-> "find", sid |-> s, user |-> u,
                   until |-> e, copy |-> NoRow, last |-> (op = "redeem")]
    BY <1>3 DEF Start, Typed, TypeOK
  <2>2. created'[s] # Never /\ (op = "redeem" => <<s, u, e>> \in granted')
    BY <1>3 DEF Start
  <2> QED
    BY <2>1, <2>2
<1>4. ASSUME NEW row \in Row, req[q] \in Running, req'[q] = Continue(q, row),
             Good(req[q].sid, row, granted, created, revokedAt)
      PROVE  Goal
  <2>1. req[q] # Idle
    BY <1>4 DEF Idle, Running, Steps
  <2>2. req[q].op = "redeem" => req[q].user # NoUser
    BY <2>1 DEF Typed, TypeOK
  <2>3. /\ Continue(q, row).copy \in Row
        /\ Continue(q, row).op = req[q].op
        /\ Continue(q, row).user = req[q].user
        /\ Continue(q, row).until = req[q].until
        /\ Continue(q, row).sid = req[q].sid
    BY <1>4, <2>2, ContinueType DEF Typed
  <2>4. Good(req[q].sid, Continue(q, row).copy, granted, created, revokedAt)
    BY <1>4, GoodContinue DEF CopiesInv
  <2> QED
    BY <1>1, <1>4, <2>3, <2>4
<1> HIDE DEF Goal
<1>5. ASSUME RequestStep(q) PROVE Goal
  <2>0. req[q] \in Running /\ req[q] # Idle
    BY <1>5, RunningType DEF Typed, RequestStep, FindCached, FindSelect, FindFill,
       SaveDb, SaveCache, CacheError, HandlePage, HandleMfa, HandleLogout, Steps
  <2>1. /\ req[q].sid \in Sids
        /\ \/ req[q].copy = NoRow
           \/ /\ req[q].copy \in Row
              /\ Good(req[q].sid, req[q].copy, granted, created, revokedAt)
    BY <2>0 DEF CopiesInv, ReqInv, Running
  <2>2. ASSUME NEW step, NEW last,
               req'[q] = [req[q] EXCEPT !.step = step, !.last = last]
        PROVE  Goal
    <3> DEFINE new == [req[q] EXCEPT !.step = step, !.last = last]
    <3>1. /\ new.sid = req[q].sid /\ new.op = req[q].op /\ new.user = req[q].user
          /\ new.until = req[q].until /\ new.copy = req[q].copy
      BY <2>0 DEF Running
    <3>2. req'[q] = new
      BY <2>2
    <3> HIDE DEF new
    <3> QED
      BY <1>1, <2>0, <2>1, <3>1, <3>2
  <2>3. CASE FindCached(q)
    <3>1. CASE cache[req[q].sid] # NoRow
      <4>1. /\ cache[req[q].sid] \in Row
            /\ Good(req[q].sid, cache[req[q].sid], granted, created, revokedAt)
        BY <2>1, <3>1 DEF Typed, TypeOK, CopiesInv, CacheInv
      <4>2. req'[q] = Continue(q, cache[req[q].sid])
        BY <2>3, <3>1 DEF FindCached, Typed, TypeOK
      <4> QED
        BY <1>4, <2>0, <4>1, <4>2
    <3>2. CASE cache[req[q].sid] = NoRow
      <4>1. req'[q] = [req[q] EXCEPT !.step = "select", !.last = req[q].last]
        BY <2>0, <2>3, <3>2 DEF FindCached, Typed, TypeOK, Running
      <4> QED
        BY <2>2, <4>1
    <3> QED
      BY <3>1, <3>2
  <2>4. CASE FindSelect(q)
    <3>1. db[req[q].sid] # NoRow
      BY <2>4 DEF FindSelect, Typed, TypeOK
    <3>2. /\ db[req[q].sid] \in Row
          /\ Good(req[q].sid, db[req[q].sid], granted, created, revokedAt)
      BY <2>1, <3>1 DEF Typed, TypeOK, CopiesInv, DbInv
    <3> DEFINE new == [req[q] EXCEPT !.step = "fill", !.copy = db[req[q].sid]]
    <3>3. req'[q] = new
      BY <2>0, <2>4, <3>1 DEF FindSelect, Typed, TypeOK, Running
    <3>4. /\ new.sid = req[q].sid /\ new.op = req[q].op /\ new.user = req[q].user
          /\ new.until = req[q].until /\ new.copy = db[req[q].sid]
      BY <2>0 DEF Running
    <3> HIDE DEF new
    <3> QED
      BY <1>1, <2>0, <3>2, <3>3, <3>4
  <2>5. CASE FindFill(q)
    <3>1. /\ req[q].copy \in Row
          /\ Good(req[q].sid, req[q].copy, granted, created, revokedAt)
      BY <2>5, GoodCopy DEF FindFill, Steps
    <3>2. req'[q] = Continue(q, req[q].copy)
      BY <2>5 DEF FindFill, Typed, TypeOK
    <3> QED
      BY <1>4, <2>0, <3>1, <3>2
  <2>6. CASE SaveDb(q)
    <3>1. req'[q] = [req[q] EXCEPT !.step = "save_cache", !.last = req[q].last]
      BY <2>0, <2>6 DEF SaveDb, Typed, TypeOK, Running
    <3> QED
      BY <2>2, <3>1
  <2>7. CASE SaveCache(q)
    <3>1. req'[q] = [req[q] EXCEPT !.step = "handler", !.last = req[q].last]
      BY <2>0, <2>7 DEF SaveCache, Typed, TypeOK, Running
    <3> QED
      BY <2>2, <3>1
  <2>8. CASE HandleMfa(q)
    <3>1. req'[q] = [req[q] EXCEPT !.step = "save_db", !.last = TRUE]
      BY <2>0, <2>8 DEF HandleMfa, Typed, TypeOK, Running
    <3> QED
      BY <2>2, <3>1
  <2>9. CASE CacheError(q) \/ HandlePage(q) \/ HandleLogout(q)
    <3>1. req'[q] = Idle
      BY <2>9 DEF CacheError, HandlePage, HandleLogout, Typed, TypeOK
    <3> QED
      BY <3>1
  <2> QED
    BY <1>5, <2>3, <2>4, <2>5, <2>6, <2>7, <2>8, <2>9 DEF RequestStep
<1>6. ASSUME NEW r \in Requests, RequestStep(r), r # q PROVE Goal
  <2>1. req'[q] = req[q]
    BY <1>6 DEF RequestStep, FindCached, FindSelect, FindFill, SaveDb, SaveCache,
       CacheError, HandlePage, HandleMfa, HandleLogout, Typed, TypeOK
  <2> QED
    BY <1>2, <2>1
<1>7. ASSUME NEW r \in Requests, NEW op \in Ops, NEW s \in Sids,
             NEW u \in Users \cup {NoUser}, NEW e \in UserExpires,
             Start(r, op, s, u, e)
      PROVE  Goal
  <2>1. CASE r = q
    BY <1>3, <1>7, <2>1
  <2>2. CASE r # q
    BY <1>2, <1>7, <2>2 DEF Start, Typed, TypeOK
  <2> QED
    BY <2>1, <2>2
<1>8. ASSUME UNCHANGED req PROVE Goal
  BY <1>2, <1>8
<1>9. ASSUME NEW a \in Admins, AdminStep(a) PROVE Goal
  BY <1>8, <1>9 DEF AdminStep, InvalidateAll, InvalidateForUser, StartInvalidation,
     DeleteByUser, InvalidateSaveDb, InvalidateSaveCache, InvalidateError,
     InvalidateRemove
<1>10. Goal
  BY <1>5, <1>6, <1>7, <1>8, <1>9 DEF Next, NewSession, CacheExpires, Cleanup, Tick
<1> QED
  BY <1>10 DEF Goal

\* What invalidations hold are good copies, and they have marked the sessions
\* they still have to save as revoked.
LEMMA AdminNext == Typed /\ CopiesInv /\ Next => AdminInv'
<1> SUFFICES ASSUME Typed, CopiesInv, Next, NEW b \in Admins, admin'[b] # AdminIdle
             PROVE  /\ \A s \in Sids : admin'[b].rows[s] # NoRow =>
                         Good(s, admin'[b].rows[s], granted', created', revokedAt')
                    /\ \A s \in admin'[b].todo :
                         revokedAt'[s] # Never /\ admin'[b].at <= revokedAt'[s]
  BY DEF AdminInv
<1> USE SessionsAssumption, NoRowAssumption
<1> DEFINE Goal ==
      /\ \A s \in Sids : admin'[b].rows[s] # NoRow =>
           Good(s, admin'[b].rows[s], granted', created', revokedAt')
      /\ \A s \in admin'[b].todo :
           revokedAt'[s] # Never /\ admin'[b].at <= revokedAt'[s]
<1>1. ASSUME NEW new, admin'[b] = new, admin[b] \in AdminRunning,
             new.rows = admin[b].rows, new.at = admin[b].at,
             new.todo \subseteq admin[b].todo
      PROVE  Goal
  <2>1. admin[b] # AdminIdle
    BY <1>1 DEF AdminIdle, AdminRunning
  <2>2. ASSUME NEW s \in Sids, admin[b].rows[s] # NoRow
        PROVE  Good(s, admin[b].rows[s], granted', created', revokedAt')
    <3>1. admin[b].rows[s] \in Row /\ Good(s, admin[b].rows[s], granted, created, revokedAt)
      BY <1>1, <2>1, <2>2 DEF CopiesInv, AdminInv, AdminRunning
    <3>2. Later(s)
      BY HistoryGrows DEF Typed, CopiesInv
    <3> QED
      BY <3>1, <3>2, GoodLater DEF Typed
  <2>3. ASSUME NEW s \in admin[b].todo
        PROVE  revokedAt'[s] # Never /\ admin[b].at <= revokedAt'[s]
    <3>1. s \in Sids /\ admin[b].at \in Nat
      BY <1>1 DEF AdminRunning
    <3>2. revokedAt[s] # Never /\ admin[b].at <= revokedAt[s]
      BY <2>1 DEF CopiesInv, AdminInv
    <3>3. Later(s)
      BY <3>1, HistoryGrows DEF Typed, CopiesInv
    <3> QED
      BY <3>1, <3>2, <3>3 DEF Later, Typed, TypeOK
  <2> QED
    BY <1>1, <2>2, <2>3
<1>2. ASSUME admin'[b] = admin[b] PROVE Goal
  <2>1. admin[b] \in AdminRunning
    BY <1>2 DEF Typed, TypeOK
  <2> QED
    BY <1>1, <1>2, <2>1
<1>3. ASSUME admin'[b].rows = db,
             \A s \in admin'[b].todo : s \in Sids /\ revokedAt'[s] = admin'[b].at,
             admin'[b].at = now
      PROVE  Goal
  <2>1. ASSUME NEW s \in Sids, db[s] # NoRow
        PROVE  Good(s, db[s], granted', created', revokedAt')
    <3>1. db[s] \in Row /\ Good(s, db[s], granted, created, revokedAt)
      BY <2>1 DEF CopiesInv, DbInv, Typed, TypeOK
    <3>2. Later(s)
      BY HistoryGrows DEF Typed, CopiesInv
    <3> QED
      BY <3>1, <3>2, GoodLater DEF Typed
  <2> QED
    BY <1>3, <2>1 DEF Typed, TypeOK
<1> HIDE DEF Goal
<1>4. ASSUME NEW selected \in SUBSET Sids, NEW all \in BOOLEAN,
             StartInvalidation(b, selected, all)
      PROVE  Goal
  <2>1. /\ admin'[b].rows = db /\ admin'[b].at = now /\ admin'[b].todo = selected
        /\ \A s \in selected : revokedAt'[s] = now
    BY <1>4 DEF StartInvalidation, Typed, TypeOK
  <2> QED
    BY <1>3, <2>1
<1>5. ASSUME NEW u \in Users, DeleteByUser(b, u) PROVE Goal
  <2>1. admin'[b].rows = db /\ admin'[b].at = now /\ admin'[b].todo = {}
    BY <1>5 DEF DeleteByUser, Typed, TypeOK
  <2> QED
    BY <1>3, <2>1
<1>6. ASSUME InvalidateSaveDb(b) PROVE Goal
  <2>1. admin[b] \in AdminRunning
    BY <1>6, AdminType DEF InvalidateSaveDb, Typed
  <2> DEFINE new == [admin[b] EXCEPT !.step = "save_cache"]
  <2>2. admin'[b] = new
    BY <1>6 DEF InvalidateSaveDb, Typed, TypeOK
  <2>3. new.rows = admin[b].rows /\ new.at = admin[b].at /\ new.todo = admin[b].todo
    BY <2>1 DEF AdminRunning
  <2> HIDE DEF new
  <2> QED
    BY <1>1, <2>1, <2>2, <2>3
<1>7. ASSUME InvalidateSaveCache(b) \/ InvalidateError(b) PROVE Goal
  <2>1. admin[b] \in AdminRunning
    BY <1>7, AdminType DEF InvalidateSaveCache, InvalidateError, Typed
  <2>2. admin'[b] = AfterSave(b)
    BY <1>7 DEF InvalidateSaveCache, InvalidateError, Typed, TypeOK
  <2> DEFINE todo == admin[b].todo \ {admin[b].cur}
             rest == [admin[b] EXCEPT !.todo = todo, !.removed = @ \cup {admin[b].cur}]
  <2>3. /\ rest \in AdminRunning /\ rest.rows = admin[b].rows
        /\ rest.todo = todo /\ rest.at = admin[b].at
    BY <2>1 DEF AdminRunning
  <2> HIDE DEF rest
  <2>4. \/ AfterSave(b) = [rest EXCEPT !.step = "remove"]
        \/ AfterSave(b) = [rest EXCEPT !.step = "save_db", !.cur = CHOOSE s \in todo : TRUE]
    BY DEF AfterSave, rest
  <2>5. /\ AfterSave(b).rows = admin[b].rows /\ AfterSave(b).at = admin[b].at
        /\ AfterSave(b).todo = todo
    BY <2>3, <2>4 DEF AdminRunning
  <2> QED
    BY <1>1, <2>1, <2>2, <2>5
<1>8. ASSUME InvalidateRemove(b) PROVE Goal
  <2>1. admin[b] \in AdminRunning
    BY <1>8, AdminType DEF InvalidateRemove, Typed
  <2>2. PICK t \in admin[b].removed : admin'[b] = [admin[b] EXCEPT !.removed = @ \ {t}]
    BY <1>8 DEF InvalidateRemove, Typed, TypeOK
  <2> DEFINE new == [admin[b] EXCEPT !.removed = @ \ {t}]
  <2>3. new.rows = admin[b].rows /\ new.at = admin[b].at /\ new.todo = admin[b].todo
    BY <2>1 DEF AdminRunning
  <2>4. admin'[b] = new
    BY <2>2
  <2> HIDE DEF new
  <2> QED
    BY <1>1, <2>1, <2>3, <2>4
<1>9. ASSUME AdminStep(b) PROVE Goal
  <2>1. CASE InvalidateAll(b) \/ \E u \in Users : InvalidateForUser(b, u)
    BY <1>4, <2>1 DEF InvalidateAll, InvalidateForUser
  <2> QED
    BY <1>5, <1>6, <1>7, <1>8, <1>9, <2>1 DEF AdminStep
<1>10. ASSUME NEW a \in Admins, AdminStep(a), a # b PROVE Goal
  <2>1. admin'[b] = admin[b]
    BY <1>10 DEF AdminStep, InvalidateAll, InvalidateForUser, StartInvalidation,
       DeleteByUser, InvalidateSaveDb, InvalidateSaveCache, InvalidateError,
       InvalidateRemove, Typed, TypeOK
  <2> QED
    BY <1>2, <2>1
<1>11. ASSUME UNCHANGED admin PROVE Goal
  BY <1>2, <1>11
<1>12. Goal
  BY <1>9, <1>10, <1>11 DEF Next, NewSession, CacheExpires, Start, RequestStep,
     FindCached, FindSelect, FindFill, SaveDb, SaveCache, CacheError, HandlePage,
     HandleMfa, HandleLogout, Cleanup, Tick
<1> QED
  BY <1>12 DEF Goal

\* No invalidation lies in the future.
LEMMA PastNext == Typed /\ CopiesInv /\ Next => PastInv'
<1> SUFFICES ASSUME Typed, CopiesInv, Next, NEW s \in Sids, revokedAt'[s] # Never
             PROVE  revokedAt'[s] <= now'
  BY DEF PastInv
<1>1. now \in Nat /\ (now' = now \/ now' = now + 1)
  <2>1. now \in Nat
    BY DEF Typed, TypeOK
  <2>2. now' = now \/ now' = now + 1
    BY DEF Next, NewSession, CacheExpires, Start, RequestStep, FindCached, FindSelect,
       FindFill, SaveDb, SaveCache, CacheError, HandlePage, HandleMfa, HandleLogout,
       AdminStep, InvalidateAll, InvalidateForUser, StartInvalidation, DeleteByUser,
       InvalidateSaveDb, InvalidateSaveCache, InvalidateError, InvalidateRemove,
       Cleanup, Tick
  <2> QED
    BY <2>1, <2>2
<1>2. revokedAt'[s] = revokedAt[s] \/ revokedAt'[s] = now
  <2>1. revokedAt \in [Sids -> Nat \cup {Never}]
    BY DEF Typed, TypeOK
  <2> QED
    BY <2>1 DEF Next, NewSession, CacheExpires, Start, RequestStep, FindCached,
       FindSelect, FindFill, SaveDb, SaveCache, CacheError, HandlePage, HandleMfa,
       HandleLogout, AdminStep, InvalidateAll, InvalidateForUser, StartInvalidation,
       DeleteByUser, InvalidateSaveDb, InvalidateSaveCache, InvalidateError,
       InvalidateRemove, Cleanup, Tick, history
<1>3. revokedAt[s] # Never => revokedAt[s] \in Nat /\ revokedAt[s] <= now
  BY DEF CopiesInv, PastInv, Typed, TypeOK
<1> QED
  BY <1>1, <1>2, <1>3

\* The whole invariant is inductive.
LEMMA CopiesInit == Init => Typed /\ CopiesInv
<1> SUFFICES ASSUME Init PROVE Typed /\ CopiesInv
  OBVIOUS
<1>1. Typed
  BY TypeInit DEF Typed, Init, RowsInv, AdminIdle
<1>2. DbInv /\ CacheInv
  BY DEF Init, DbInv, CacheInv
<1>3. ReqInv /\ AdminInv /\ PastInv
  BY DEF Init, ReqInv, AdminInv, PastInv
<1> QED
  BY <1>1, <1>2, <1>3 DEF CopiesInv

\* Steps that change nothing keep every copy as it is.
LEMMA CopiesStutter == Typed /\ CopiesInv /\ UNCHANGED vars => CopiesInv'
BY DEF CopiesInv, vars, history, DbInv, CacheInv, ReqInv, AdminInv, PastInv, Good

\* Every copy of a session is good in every reachable state.
LEMMA CopiesAlways == Spec => [](Typed /\ CopiesInv)
<1>1. Typed /\ CopiesInv /\ [Next]_vars => (Typed /\ CopiesInv)'
  <2> SUFFICES ASSUME Typed, CopiesInv, [Next]_vars PROVE (Typed /\ CopiesInv)'
    OBVIOUS
  <2>1. Typed'
    BY TypeNext, RowsNext DEF Typed
  <2>2. CASE Next
    BY <2>1, <2>2, DbNext, CacheNext, ReqNext, AdminNext, PastNext DEF CopiesInv
  <2>3. CASE UNCHANGED vars
    BY <2>1, <2>3, CopiesStutter
  <2> QED
    BY <2>2, <2>3
<1> QED
  BY <1>1, CopiesInit, PTL DEF Spec

\* What the invariant says of the copies the properties quantify over.
LEMMA CopyGood ==
    ASSUME Typed, CopiesInv, NEW s \in Sids, NEW c \in Copies(s)
    PROVE  Good(s, c, granted, created, revokedAt)
<1>1. c # NoRow
  BY DEF Copies
<1>2. CASE c = db[s]
  BY <1>1, <1>2 DEF CopiesInv, DbInv
<1>3. CASE c = cache[s]
  BY <1>1, <1>3 DEF CopiesInv, CacheInv
<1>4. ASSUME NEW r \in Requests, req[r] # Idle, req[r].sid = s, c = req[r].copy
      PROVE  Good(s, c, granted, created, revokedAt)
  BY <1>1, <1>4 DEF CopiesInv, ReqInv
<1>5. ASSUME NEW a \in Admins, admin[a] # AdminIdle, c = admin[a].rows[s]
      PROVE  Good(s, c, granted, created, revokedAt)
  BY <1>1, <1>5 DEF CopiesInv, AdminInv
<1> QED
  BY <1>2, <1>3, <1>4, <1>5 DEF Copies

\* For any number of concurrent requests, invalidations and cache failures,
\* no stale copy ever authenticates a session for a user whose code was not
\* redeemed for it (grant_type_code, Session::find, Session::save).
THEOREM SessionsAuthGranted == Spec => []AuthOnlyIfGranted
<1>1. Typed /\ CopiesInv => AuthOnlyIfGranted
  <2> SUFFICES ASSUME Typed, CopiesInv, NEW s \in Sids, NEW c \in Copies(s),
                      c.state = "Auth"
               PROVE  \E g \in granted : g[1] = s /\ g[2] = c.user
    BY DEF AuthOnlyIfGranted
  <2> QED
    BY CopyGood DEF Good, Held
<1> QED
  BY <1>1, CopiesAlways, PTL

\* No copy of a session outlives SESSION_LIFETIME, nor the user_expires its user had
\* when a code was redeemed for it, however saves, invalidations and cache fills interleave (Session::new,
\* validate_user_expiry, Session::invalidate_for_user).
THEOREM SessionsLifetime == Spec => []LifetimeBounded
<1>1. Typed /\ CopiesInv => LifetimeBounded
  <2> SUFFICES ASSUME Typed, CopiesInv, NEW s \in Sids, NEW c \in Copies(s)
               PROVE  \/ revokedAt[s] # Never /\ c.exp <= revokedAt[s]
                      \/ /\ c.exp <= created[s] + Lifetime
                         /\ c.state = "Auth" =>
                              \E g \in granted : g[1] = s /\ g[2] = c.user /\ c.exp <= g[3]
    BY DEF LifetimeBounded
  <2>1. Good(s, c, granted, created, revokedAt)
    BY CopyGood
  <2> QED
    BY <2>1 DEF Good, Within
<1> QED
  BY <1>1, CopiesAlways, PTL
-----------------------------------------------------------------------------
\* What holds as long as requests do not overlap and the cache does not fail

\* The table holds this copy of session s, unless the scheduler deleted its expired row.
Matches(s, row) == db[s] = row \/ (db[s] = NoRow /\ row.exp + CleanupAge < now)

\* The cache shows nothing else than the table, but for a session that was logged out.
Agrees(s) == cache[s] = NoRow \/ s \in loggedOut \/ Matches(s, cache[s])

\* This copy of session s does not outlive its invalidation.
Ends(s, row) ==
    row # NoRow /\ revokedAt[s] # Never /\ s \notin loggedOut => row.exp <= revokedAt[s]

\* The session between the two writes of a save, and the ones an invalidation works on
Saving(s) == \E r \in Requests : req[r] # Idle /\ req[r].sid = s /\ req[r].step = "save_cache"
Ending(s) == \E a \in Admins : admin[a] # AdminIdle /\ s \in admin[a].todo \cup admin[a].removed

\* Nobody runs next to anybody.
AloneInv ==
    /\ \A r \in Requests, q \in Requests : req[r] # Idle /\ req[q] # Idle => r = q
    /\ \A a \in Admins, b \in Admins : admin[a] # AdminIdle /\ admin[b] # AdminIdle => a = b
    /\ \A r \in Requests, a \in Admins : req[r] = Idle \/ admin[a] = AdminIdle

\* A request holds what the table holds when it is about to put it into the cache.
CalmReq == \A r \in Requests : req[r] # Idle =>
    /\ req[r].step \in {"fill", "save_cache"} => Matches(req[r].sid, req[r].copy)
    /\ Ends(req[r].sid, req[r].copy)

\* So does an invalidation, and the sessions it has saved have ended in the table.
CalmAdmin == \A a \in Admins : admin[a] # AdminIdle =>
    /\ admin[a].step = "save_cache" => Matches(admin[a].cur, InvalidatedRow(a))
    /\ \A s \in admin[a].todo \cup admin[a].removed : revokedAt[s] = admin[a].at
    /\ admin[a].step = "remove" => admin[a].todo = {}
    /\ admin[a].todo \cap admin[a].removed = {}
    /\ \A s \in admin[a].removed :
          /\ Ends(s, db[s])
          /\ admin[a].step # "remove" => Agrees(s) /\ Ends(s, cache[s])

CalmSessions == \A s \in Sids :
    /\ Saving(s) \/ Ending(s) \/ Agrees(s)
    /\ Ending(s) \/ (Ends(s, db[s]) /\ Ends(s, cache[s]))

\* A session is invalidated after it was created.
RevokedInv == \A s \in Sids : revokedAt[s] # Never => created[s] # Never

Calm == AloneInv /\ CalmReq /\ CalmAdmin /\ CalmSessions

CalmInv == RevokedInv /\ (disturbed = "no" => Calm)

\* Nothing is in flight.
AllIdle == (\A r \in Requests : req[r] = Idle) /\ (\A a \in Admins : admin[a] = AdminIdle)

\* Only request r, or only invalidation a, may be in flight.
OnlyReq(r) == (\A q \in Requests \ {r} : req[q] = Idle) /\ (\A a \in Admins : admin[a] = AdminIdle)
OnlyAdmin(a) == (\A r \in Requests : req[r] = Idle) /\ (\A b \in Admins \ {a} : admin[b] = AdminIdle)

\* The counter of requests in flight is zero when there are none.
LEMMA NobodyRuns == InFlight = 0 <=> AllIdle
<1> DEFINE R == {r \in Requests : req[r] # Idle}
           A == {a \in Admins : admin[a] # AdminIdle}
<1>1. R \in SUBSET Requests /\ A \in SUBSET Admins /\ IsFiniteSet(Requests) /\ IsFiniteSet(Admins)
  BY SessionsAssumption
<1>2. IsFiniteSet(R) /\ IsFiniteSet(A)
  BY <1>1, FS_Subset
<1>3. Cardinality(R) \in Nat /\ Cardinality(A) \in Nat /\ (Cardinality(R) = 0 <=> R = {}) /\ (Cardinality(A) = 0 <=> A = {})
  BY <1>2, FS_CardinalityType, FS_EmptySet
<1>4. InFlight = Cardinality(R) + Cardinality(A)
  BY DEF InFlight
<1>5. AllIdle <=> R = {} /\ A = {}
  BY DEF AllIdle
<1> HIDE DEF R, A
<1> QED BY <1>3, <1>4, <1>5

\* Once disturbed is always disturbed.
LEMMA StillCalm ==
    ASSUME Typed, Next, disturbed' = "no"
    PROVE  disturbed = "no"
<1> QED
  BY DEF Next, NewSession, CacheExpires, Start, RequestStep, FindCached, FindSelect, FindFill, SaveDb,
     SaveCache, CacheError, HandlePage, HandleMfa, HandleLogout, AdminStep, InvalidateAll, InvalidateForUser,
     StartInvalidation, InvalidateSaveDb, InvalidateSaveCache, InvalidateError, InvalidateRemove, DeleteByUser,
     Cleanup, Tick, Overlapping, history

\* Who starts undisturbed starts alone.
LEMMA StartsAlone ==
    ASSUME disturbed' = Overlapping, disturbed' = "no"
    PROVE  AllIdle
BY NobodyRuns DEF Overlapping

\* Only sessions that were created are invalidated.
LEMMA RevokedNext == Typed /\ CopiesInv /\ RevokedInv /\ Next => RevokedInv'
<1> SUFFICES ASSUME Typed, CopiesInv, RevokedInv, Next, NEW s \in Sids, revokedAt'[s] # Never
             PROVE  created'[s] # Never
  BY DEF RevokedInv
<1>1. created[s] # Never => created'[s] # Never
  BY HistoryGrows DEF Typed, CopiesInv, Later
<1>2. CASE revokedAt'[s] = revokedAt[s]
  BY <1>1, <1>2 DEF RevokedInv
<1>3. ASSUME NEW r \in Requests, HandleLogout(r) PROVE created'[s] # Never
  <2>1. req[r] \in Running /\ req[r] # Idle
    BY <1>3, RunningType DEF HandleLogout, Steps, Typed
  <2>2. s = req[r].sid \/ revokedAt'[s] = revokedAt[s]
    BY <1>3, <2>1 DEF HandleLogout, Typed, TypeOK, Running
  <2> QED BY <1>1, <1>2, <2>1, <2>2 DEF CopiesInv, ReqInv
<1>4. db[s] # NoRow => created'[s] # Never
  BY <1>1 DEF CopiesInv, DbInv, Good
<1>5. ASSUME NEW a \in Admins, AdminStep(a) PROVE created'[s] # Never
  <2>1. revokedAt'[s] = revokedAt[s] \/ db[s] # NoRow
    BY <1>5 DEF AdminStep, InvalidateAll, InvalidateForUser, StartInvalidation, InvalidateSaveDb,
       InvalidateSaveCache, InvalidateError, InvalidateRemove, DeleteByUser, history
  <2> QED BY <1>2, <1>4, <2>1
<1> QED
  BY <1>2, <1>3, <1>5 DEF Next, NewSession, CacheExpires, Start, RequestStep, FindCached, FindSelect,
     FindFill, SaveDb, SaveCache, CacheError, HandlePage, HandleMfa, Cleanup, Tick, history

\* Time, schedulers and new sessions: copies of a session may only go away.
LEMMA EnvironmentCalm ==
    ASSUME Typed, CopiesInv, RevokedInv, Calm, UNCHANGED <<req, admin, loggedOut, revokedAt>>,
           \A s \in Sids : created[s] # Never =>
              /\ db'[s] \in {db[s], NoRow} /\ cache'[s] \in {cache[s], NoRow}
              /\ \A row \in Row : Matches(s, row) => Matches(s, row)',
           \A s \in Sids : created[s] = Never => cache'[s] \in {NoRow, db'[s]}
    PROVE  Calm'
<1> USE DEF Typed
<1>1. AloneInv'
  BY DEF Calm, AloneInv
<1>2. \A s \in Sids : (Saving(s)' <=> Saving(s)) /\ (Ending(s)' <=> Ending(s))
  BY DEF Saving, Ending
<1>3. \A s \in Sids : \A row : Ends(s, row) => Ends(s, row)'
  BY DEF Ends
<1>4. \A s \in Sids : Ends(s, NoRow)'
  BY DEF Ends
<1>5. \A s \in Sids : (Ends(s, db[s]) => Ends(s, db[s])') /\ (Ends(s, cache[s]) => Ends(s, cache[s])')
  <2> SUFFICES ASSUME NEW s \in Sids PROVE (Ends(s, db[s]) => Ends(s, db[s])') /\ (Ends(s, cache[s]) => Ends(s, cache[s])')
    OBVIOUS
  <2>1. CASE created[s] # Never
    BY <2>1 DEF Ends
  <2>2. CASE created[s] = Never
    BY <2>2 DEF Ends, RevokedInv
  <2> QED BY <2>1, <2>2
<1>6. \A s \in Sids : Agrees(s) => Agrees(s)'
  <2> SUFFICES ASSUME NEW s \in Sids, Agrees(s) PROVE Agrees(s)'
    OBVIOUS
  <2>1. CASE created[s] # Never
    <3>1. CASE cache'[s] = NoRow
      BY <3>1 DEF Agrees
    <3>2. CASE cache'[s] = cache[s] /\ cache[s] # NoRow
      <4>1. cache[s] \in Row
        BY <3>2 DEF TypeOK
      <4> QED BY <2>1, <3>2, <4>1 DEF Agrees, Matches
    <3> QED BY <2>1, <3>1, <3>2
  <2>2. CASE created[s] = Never
    BY <2>2 DEF Agrees, Matches
  <2> QED BY <2>1, <2>2
<1>7. CalmReq'
  <2> SUFFICES ASSUME NEW r \in Requests, req[r] # Idle
               PROVE  /\ req[r].step \in {"fill", "save_cache"} => Matches(req[r].sid, req[r].copy)'
                      /\ Ends(req[r].sid, req[r].copy)'
    BY DEF CalmReq, Matches, Ends
  <2>1. req[r] \in Running /\ created[req[r].sid] # Never
    BY DEF TypeOK, CopiesInv, ReqInv
  <2>2. req[r].sid \in Sids /\ (req[r].step \in {"fill", "save_cache"} => req[r].copy \in Row)
    BY <2>1 DEF TypeOK, Running
  <2>3. Ends(req[r].sid, req[r].copy) /\ (req[r].step \in {"fill", "save_cache"} => Matches(req[r].sid, req[r].copy))
    BY DEF Calm, CalmReq
  <2>4. Ends(req[r].sid, req[r].copy)'
    BY <2>3 DEF Ends
  <2>5. ASSUME req[r].step \in {"fill", "save_cache"} PROVE Matches(req[r].sid, req[r].copy)'
    <3>1. PICK s \in Sids, row \in Row : s = req[r].sid /\ row = req[r].copy
      BY <2>2, <2>5
    <3>2. Matches(s, row)'
      BY <2>1, <2>3, <2>5, <3>1
    <3> QED BY <3>1, <3>2 DEF Matches
  <2> QED BY <2>4, <2>5
<1>8. CalmAdmin'
  <2> SUFFICES ASSUME NEW a \in Admins, admin[a] # AdminIdle
               PROVE  /\ admin[a].step = "save_cache" => Matches(admin[a].cur, InvalidatedRow(a))'
                      /\ \A s \in admin[a].todo \cup admin[a].removed : revokedAt[s] = admin[a].at
                      /\ admin[a].step = "remove" => admin[a].todo = {}
                      /\ admin[a].todo \cap admin[a].removed = {}
                      /\ \A s \in admin[a].removed :
                            /\ Ends(s, db[s])'
                            /\ admin[a].step # "remove" => Agrees(s)' /\ Ends(s, cache[s])'
    BY DEF CalmAdmin
  <2>1. admin[a] \in AdminRunning
    BY DEF TypeOK
  <2>2. /\ admin[a].step = "save_cache" => Matches(admin[a].cur, InvalidatedRow(a))
        /\ \A s \in admin[a].todo \cup admin[a].removed : revokedAt[s] = admin[a].at
        /\ admin[a].step = "remove" => admin[a].todo = {}
        /\ admin[a].todo \cap admin[a].removed = {}
        /\ \A s \in admin[a].removed :
              /\ Ends(s, db[s])
              /\ admin[a].step # "remove" => Agrees(s) /\ Ends(s, cache[s])
    BY DEF Calm, CalmAdmin
  <2>3. ASSUME admin[a].step = "save_cache" PROVE Matches(admin[a].cur, InvalidatedRow(a))'
    <3>1. /\ admin[a].cur \in Sids /\ admin[a].cur \in admin[a].todo
          /\ admin[a].rows[admin[a].cur] \in Row /\ admin[a].at \in Nat
      BY <2>1, <2>3 DEF RowsInv, AdminRunning
    <3>2. InvalidatedRow(a) \in Row
      BY <3>1 DEF InvalidatedRow, Row
    <3>3. revokedAt[admin[a].cur] # Never
      BY <2>2, <3>1, SessionsAssumption
    <3>4. created[admin[a].cur] # Never
      BY <3>1, <3>3 DEF RevokedInv
    <3>5. PICK s \in Sids, row \in Row : s = admin[a].cur /\ row = InvalidatedRow(a)
      BY <3>1, <3>2
    <3>6. Matches(s, row)'
      BY <2>2, <2>3, <3>4, <3>5
    <3> QED BY <3>5, <3>6 DEF Matches, InvalidatedRow
  <2>4. \A s \in admin[a].removed : s \in Sids
    BY <2>1 DEF AdminRunning
  <2> QED BY <1>5, <1>6, <2>2, <2>3, <2>4
<1>9. CalmSessions'
  BY <1>2, <1>5, <1>6 DEF Calm, CalmSessions
<1> QED BY <1>1, <1>7, <1>8, <1>9 DEF Calm
\* A request that is alone goes on: only its own session moves.
LEMMA RequestCalm ==
    ASSUME Typed, Calm, NEW r \in Requests, NEW w, NEW s0 \in Sids, OnlyReq(r),
           req' = [req EXCEPT ![r] = w], UNCHANGED <<now, admin>>,
           req[r] = Idle \/ req[r].sid = s0, w = Idle \/ w.sid = s0,
           \A s \in Sids \ {s0} : /\ db'[s] = db[s] /\ cache'[s] = cache[s] /\ revokedAt'[s] = revokedAt[s]
                                  /\ s \in loggedOut' <=> s \in loggedOut,
           w # Idle => /\ w.step \in {"fill", "save_cache"} => Matches(s0, w.copy)'
                       /\ Ends(s0, w.copy)',
           (w # Idle /\ w.step = "save_cache") \/ Agrees(s0)',
           Ends(s0, db[s0])', Ends(s0, cache[s0])'
    PROVE  Calm'
<1> USE DEF Typed
<1>1. req'[r] = w /\ \A q \in Requests \ {r} : req'[q] = Idle
  BY DEF TypeOK, OnlyReq
<1>2. \A a \in Admins : admin'[a] = AdminIdle /\ admin[a] = AdminIdle
  BY DEF OnlyReq
<1>3. AloneInv'
  BY <1>1, <1>2 DEF AloneInv
<1>4. CalmReq'
  <2> SUFFICES ASSUME NEW q \in Requests, req'[q] # Idle
               PROVE  /\ req'[q].step \in {"fill", "save_cache"} => Matches(req[q].sid, req[q].copy)'
                      /\ Ends(req[q].sid, req[q].copy)'
    BY DEF CalmReq
  <2>1. req'[q] = w /\ w # Idle /\ w.sid = s0
    BY <1>1
  <2>2. /\ w.step \in {"fill", "save_cache"} => Matches(w.sid, w.copy)'
        /\ Ends(w.sid, w.copy)'
    BY <2>1
  <2> QED BY <2>1, <2>2 DEF Matches, Ends
<1>5. CalmAdmin'
  BY <1>2 DEF CalmAdmin
<1>6. CalmSessions'
  <2> SUFFICES ASSUME NEW s \in Sids
               PROVE  /\ Saving(s)' \/ Ending(s)' \/ Agrees(s)'
                      /\ Ending(s)' \/ (Ends(s, db[s])' /\ Ends(s, cache[s])')
    BY DEF CalmSessions
  <2>1. CASE s = s0
    <3>1. w # Idle /\ w.step = "save_cache" => Saving(s)'
      BY <1>1, <2>1 DEF Saving
    <3> QED BY <2>1, <3>1
  <2>2. CASE s # s0
    <3>1. ~Saving(s) /\ ~Ending(s)
      BY <1>1, <1>2, <2>2 DEF Saving, Ending, OnlyReq
    <3>2. Agrees(s) /\ Ends(s, db[s]) /\ Ends(s, cache[s])
      BY <3>1 DEF Calm, CalmSessions
    <3>3. Agrees(s)'
      BY <2>2, <3>2 DEF Agrees, Matches
    <3>4. Ends(s, db[s])' /\ Ends(s, cache[s])'
      BY <2>2, <3>2 DEF Ends
    <3> QED BY <3>3, <3>4
  <2> QED BY <2>1, <2>2
<1> QED BY <1>3, <1>4, <1>5, <1>6 DEF Calm

\* An invalidation that is alone goes on with y: the sessions it does not work on are
\* in the cache as they are in the table, and have ended if they were invalidated.
LEMMA AdminCalm ==
    ASSUME Typed, NEW a \in Admins, NEW y, OnlyAdmin(a),
           admin' = [admin EXCEPT ![a] = y], UNCHANGED req,
           y # AdminIdle =>
              /\ y.step = "save_cache" => Matches(y.cur, [y.rows[y.cur] EXCEPT !.exp = y.at])'
              /\ \A s \in y.todo \cup y.removed : revokedAt'[s] = y.at
              /\ y.step = "remove" => y.todo = {}
              /\ y.todo \cap y.removed = {}
              /\ \A s \in y.removed :
                    Ends(s, db[s])' /\ (y.step # "remove" => Agrees(s)' /\ Ends(s, cache[s])'),
           \A s \in Sids : \/ y # AdminIdle /\ s \in y.todo \cup y.removed
                           \/ Agrees(s)' /\ Ends(s, db[s])' /\ Ends(s, cache[s])'
    PROVE  Calm'
<1> USE DEF Typed
<1>1. admin'[a] = y /\ \A b \in Admins \ {a} : admin'[b] = AdminIdle
  BY DEF TypeOK, OnlyAdmin
<1>2. \A r \in Requests : req'[r] = Idle
  BY DEF OnlyAdmin
<1>3. AloneInv'
  BY <1>1, <1>2 DEF AloneInv
<1>4. CalmReq'
  BY <1>2 DEF CalmReq
<1>5. CalmAdmin'
  <2> SUFFICES ASSUME NEW b \in Admins, admin'[b] # AdminIdle
               PROVE  /\ admin'[b].step = "save_cache" => Matches(admin[b].cur, InvalidatedRow(b))'
                      /\ \A s \in admin'[b].todo \cup admin'[b].removed : revokedAt'[s] = admin'[b].at
                      /\ admin'[b].step = "remove" => admin'[b].todo = {}
                      /\ admin'[b].todo \cap admin'[b].removed = {}
                      /\ \A s \in admin'[b].removed :
                            /\ Ends(s, db[s])'
                            /\ admin'[b].step # "remove" => Agrees(s)' /\ Ends(s, cache[s])'
    BY DEF CalmAdmin
  <2>1. admin'[b] = y /\ y # AdminIdle
    BY <1>1
  <2>2. y.step = "save_cache" => Matches(admin[b].cur, InvalidatedRow(b))'
    BY <2>1 DEF Matches, InvalidatedRow
  <2> QED BY <2>1, <2>2
<1>6. CalmSessions'
  <2>1. \A s \in Sids : y # AdminIdle /\ s \in y.todo \cup y.removed => Ending(s)'
    BY <1>1 DEF Ending
  <2> QED BY <2>1 DEF CalmSessions
<1> QED BY <1>3, <1>4, <1>5, <1>6 DEF Calm

\* Who runs undisturbed runs alone, and every session that is not being written is in order.
LEMMA ReqAlone ==
    ASSUME Typed, Calm, NEW r \in Requests, req[r].step \in Steps
    PROVE  /\ OnlyReq(r) /\ req[r] \in Running /\ req[r] # Idle /\ req[r].sid \in Sids
           /\ Ends(req[r].sid, req[r].copy)
           /\ req[r].step \in {"fill", "save_cache"} => Matches(req[r].sid, req[r].copy)
           /\ req[r].step # "save_cache" => Agrees(req[r].sid)
           /\ Ends(req[r].sid, db[req[r].sid]) /\ Ends(req[r].sid, cache[req[r].sid])
           /\ req[r].step \notin {"find", "select"} => req[r].copy \in Row
<1>1. req[r] \in Running /\ req[r] # Idle /\ req[r].sid \in Sids
  BY RunningType DEF Typed, Running
<1>2. OnlyReq(r)
  BY <1>1 DEF OnlyReq, Calm, AloneInv
<1>3. \A s \in Sids : ~Ending(s)
  BY <1>2 DEF OnlyReq, Ending
<1>4. req[r].step # "save_cache" => ~Saving(req[r].sid)
  BY <1>2 DEF OnlyReq, Saving
<1>5. req[r].step \notin {"find", "select"} => req[r].copy \in Row
  BY <1>1 DEF Typed, TypeOK, Running
<1> QED BY <1>1, <1>2, <1>3, <1>4, <1>5 DEF Calm, CalmReq, CalmSessions

\* A request never goes on with a copy that expires later than the one it found.
LEMMA ContinueExp ==
    ASSUME Typed, NEW r \in Requests, req[r] \in Running, NEW row \in Row,
           req[r].op = "redeem" => req[r].user # NoUser
    PROVE  \/ Continue(r, row) = Idle
           \/ /\ Continue(r, row).sid = req[r].sid /\ Continue(r, row).step \in {"save_db", "handler"}
              /\ Continue(r, row).copy \in Row /\ Continue(r, row).copy.exp <= row.exp
<1> USE DEF Typed
<1>1. \/ Continue(r, row) = Idle
      \/ /\ Continue(r, row).copy \in Row /\ Continue(r, row).sid = req[r].sid
         /\ Continue(r, row).step \in {"save_db", "handler"}
  BY ContinueType
<1>2. row.exp \in Nat /\ [row EXCEPT !.last_seen = now].exp = row.exp
  BY DEF Row
<1>3. CASE req[r].op = "redeem"
  <2>1. req[r].user \in Users /\ req[r].until \in Nat
    BY <1>3 DEF Running
  <2>2. Authenticated(row, req[r].user, req[r].until).exp <= row.exp
    BY <2>1, AuthenticatedType DEF TypeOK
  <2>3. Continue(r, row) = Idle \/ Continue(r, row).copy = Authenticated(row, req[r].user, req[r].until)
    BY <1>3 DEF Continue, Running
  <2> QED BY <1>1, <2>2, <2>3
<1>4. CASE req[r].op # "redeem"
  <2>1. Continue(r, row) = Idle \/ Continue(r, row).copy \in {row, [row EXCEPT !.last_seen = now]}
    BY <1>4 DEF Continue, Running
  <2>2. Continue(r, row) = Idle \/ Continue(r, row).copy.exp = row.exp
    BY <1>2, <2>1
  <2>3. Continue(r, row) = Idle \/ Continue(r, row).copy.exp <= row.exp
    BY <1>2, <2>2
  <2> QED BY <1>1, <2>3
<1> QED BY <1>3, <1>4

\* A step of a request keeps the calm.
LEMMA RequestStepCalm ==
    ASSUME Typed, Calm, disturbed' = "no", NEW r \in Requests, RequestStep(r)
    PROVE  Calm'
<1> USE DEF Typed, history
<1> DEFINE s0 == req[r].sid
<1>1. req[r].step \in Steps /\ ~CacheError(r)
  BY DEF RequestStep, FindCached, FindSelect, FindFill, SaveDb, SaveCache, CacheError, HandlePage,
         HandleMfa, HandleLogout, Steps
<1>2. /\ OnlyReq(r) /\ req[r] \in Running /\ req[r] # Idle /\ s0 \in Sids
      /\ Ends(s0, req[r].copy)
      /\ req[r].step \in {"fill", "save_cache"} => Matches(s0, req[r].copy)
      /\ req[r].step # "save_cache" => Agrees(s0)
      /\ Ends(s0, db[s0]) /\ Ends(s0, cache[s0])
      /\ req[r].step \notin {"find", "select"} => req[r].copy \in Row
  BY <1>1, ReqAlone
<1>3. req[r].op = "redeem" => req[r].user # NoUser
  BY <1>2 DEF TypeOK
<1>s. PICK s \in Sids : s = s0
  BY <1>2
<1>4. PICK copy, rec : s = s0 /\ copy = req[r].copy /\ rec = req[r]
  BY <1>s
<1>5. ASSUME NEW row \in Row, NEW c \in Row, c.exp <= row.exp, Ends(s, row) PROVE Ends(s, c)
  <2>1. revokedAt[s] = Never \/ revokedAt[s] \in Nat
    BY DEF TypeOK
  <2>2. row.exp \in Nat /\ c.exp \in Nat /\ row # NoRow
    BY NoRowAssumption DEF Row
  <2> QED BY <1>5, <2>1, <2>2 DEF Ends
<1>6. ASSUME NEW w, req' = [req EXCEPT ![r] = w], UNCHANGED <<now, admin, db, cache, revokedAt, loggedOut>>,
             req[r].step # "save_cache",
             \/ w = Idle
             \/ /\ w.sid = s /\ w.step # "save_cache" /\ (w.step = "fill" => Matches(s, w.copy))
                /\ Ends(s, w.copy)
      PROVE  Calm'
  <2>1. Agrees(s)' /\ Ends(s, db[s])' /\ Ends(s, cache[s])'
    BY <1>2, <1>4, <1>6 DEF Agrees, Matches, Ends
  <2>2. w # Idle => /\ w.step \in {"fill", "save_cache"} => Matches(s, w.copy)'
                    /\ Ends(s, w.copy)'
    BY <1>6 DEF Matches, Ends
  <2> QED BY <1>2, <1>4, <1>6, <2>1, <2>2, RequestCalm
<1>7. CASE FindCached(r)
  <2>1. CASE cache[s0] # NoRow
    <3>1. cache[s0] \in Row
      BY <1>2, <2>1 DEF TypeOK
    <3>2. PICK w : w = Continue(r, cache[s0])
      OBVIOUS
    <3>3. w = Idle \/ (w.sid = s0 /\ w.step \in {"save_db", "handler"} /\ w.copy \in Row /\ w.copy.exp <= cache[s0].exp)
      BY <1>2, <1>3, <3>1, <3>2, ContinueExp
    <3>4. w = Idle \/ Ends(s, w.copy)
      BY <1>2, <1>4, <1>5, <3>1, <3>3
    <3>5. req' = [req EXCEPT ![r] = w] /\ UNCHANGED <<now, admin, db, cache, revokedAt, loggedOut>>
          /\ req[r].step # "save_cache"
      BY <1>7, <2>1, <3>2 DEF FindCached
    <3> QED BY <1>4, <1>6, <3>3, <3>4, <3>5
  <2>2. CASE cache[s0] = NoRow
    <3>1. PICK w : w = [req[r] EXCEPT !.step = "select"]
      OBVIOUS
    <3>2. w.sid = s /\ w.step = "select" /\ w.copy = req[r].copy
      BY <1>2, <1>4, <3>1 DEF Running
    <3>3. req' = [req EXCEPT ![r] = w] /\ UNCHANGED <<now, admin, db, cache, revokedAt, loggedOut>>
          /\ req[r].step # "save_cache"
      BY <1>7, <2>2, <3>1 DEF FindCached, TypeOK
    <3>4. Ends(s, w.copy)
      BY <1>2, <1>4, <3>2
    <3> QED BY <1>6, <3>2, <3>3, <3>4
  <2> QED BY <2>1, <2>2
<1>8. CASE FindSelect(r)
  <2>1. PICK w : w = IF db[s0] = NoRow THEN Idle ELSE [req[r] EXCEPT !.step = "fill", !.copy = db[s0]]
    OBVIOUS
  <2>2. w = Idle \/ (w.sid = s /\ w.step = "fill" /\ w.copy = db[s])
    BY <1>2, <1>4, <2>1 DEF Running
  <2>3. req' = [req EXCEPT ![r] = w] /\ UNCHANGED <<now, admin, db, cache, revokedAt, loggedOut>>
        /\ req[r].step # "save_cache"
    BY <1>8, <2>1 DEF FindSelect, TypeOK
  <2>4. Ends(s, db[s]) /\ Matches(s, db[s])
    BY <1>2, <1>4 DEF Matches
  <2> QED BY <1>6, <2>2, <2>3, <2>4
<1>9. CASE FindFill(r)
  <2>1. copy \in Row /\ Ends(s, copy) /\ Matches(s, copy)
    BY <1>2, <1>4, <1>9 DEF FindFill
  <2>2. PICK w : w = Continue(r, req[r].copy)
    OBVIOUS
  <2>3. w = Idle \/ (w.sid = s /\ w.step \in {"save_db", "handler"} /\ w.copy \in Row /\ w.copy.exp <= copy.exp)
    BY <1>2, <1>3, <1>4, <2>1, <2>2, ContinueExp
  <2>4. w = Idle \/ Ends(s, w.copy)
    BY <1>5, <2>1, <2>3
  <2>5. /\ req' = [req EXCEPT ![r] = w] /\ UNCHANGED <<now, admin, db, revokedAt, loggedOut>>
        /\ cache' = [cache EXCEPT ![s] = copy]
    BY <1>4, <1>9, <2>2 DEF FindFill
  <2>6. cache'[s] = copy /\ \A t \in Sids \ {s} : cache'[t] = cache[t]
    BY <2>5 DEF TypeOK
  <2>7. Agrees(s)' /\ Ends(s, cache[s])' /\ Ends(s, db[s])'
    BY <1>2, <1>4, <2>1, <2>5, <2>6 DEF Agrees, Matches, Ends
  <2>8. w # Idle => Ends(s, w.copy)'
    BY <2>4, <2>5 DEF Ends
  <2> QED BY <1>2, <1>4, <2>3, <2>5, <2>6, <2>7, <2>8, RequestCalm
<1>10. CASE SaveDb(r)
  <2>1. copy \in Row /\ Ends(s, copy) /\ Ends(s, cache[s])
    BY <1>2, <1>4, <1>10 DEF SaveDb
  <2>2. PICK w : w = [req[r] EXCEPT !.step = "save_cache"]
    OBVIOUS
  <2>3. w.sid = s /\ w.step = "save_cache" /\ w.copy = copy
    BY <1>2, <1>4, <2>2 DEF Running
  <2>4. /\ req' = [req EXCEPT ![r] = w] /\ UNCHANGED <<now, admin, cache, revokedAt, loggedOut>>
        /\ db' = [db EXCEPT ![s] = copy]
    BY <1>4, <1>10, <2>2 DEF SaveDb, TypeOK
  <2>5. db'[s] = copy /\ \A t \in Sids \ {s} : db'[t] = db[t]
    BY <2>4 DEF TypeOK
  <2>6. Matches(s, w.copy)' /\ Ends(s, w.copy)' /\ Ends(s, db[s])' /\ Ends(s, cache[s])'
    BY <2>1, <2>3, <2>4, <2>5 DEF Matches, Ends
  <2>7. w # Idle
    BY <2>3 DEF Idle
  <2> QED BY <1>2, <1>4, <2>3, <2>4, <2>5, <2>6, <2>7, RequestCalm
<1>11. CASE SaveCache(r)
  <2>1. copy \in Row /\ Ends(s, copy) /\ Matches(s, copy)
    BY <1>2, <1>4, <1>11 DEF SaveCache
  <2>2. PICK w : w = IF req[r].last THEN Idle ELSE [req[r] EXCEPT !.step = "handler"]
    OBVIOUS
  <2>3. w = Idle \/ (w.sid = s /\ w.step = "handler" /\ w.copy = copy)
    BY <1>2, <1>4, <2>2 DEF Running
  <2>4. /\ req' = [req EXCEPT ![r] = w] /\ UNCHANGED <<now, admin, db, revokedAt, loggedOut>>
        /\ cache' = [cache EXCEPT ![s] = copy]
    BY <1>4, <1>11, <2>2 DEF SaveCache, TypeOK
  <2>5. cache'[s] = copy /\ \A t \in Sids \ {s} : cache'[t] = cache[t]
    BY <2>4 DEF TypeOK
  <2>6. Agrees(s)' /\ Ends(s, cache[s])' /\ Ends(s, db[s])' /\ Ends(s, copy)'
    BY <1>2, <1>4, <2>1, <2>4, <2>5 DEF Agrees, Matches, Ends
  <2>7. w # Idle => Ends(s, w.copy)'
    BY <2>3, <2>6
  <2> QED BY <1>2, <1>4, <2>3, <2>4, <2>5, <2>6, <2>7, RequestCalm
<1>12. CASE HandlePage(r)
  BY <1>6, <1>12 DEF HandlePage
<1>13. CASE HandleMfa(r)
  <2>1. PICK w : w = IF req[r].copy.state \in {"Init", "Auth"}
                     THEN [req[r] EXCEPT !.step = "save_db", !.last = TRUE] ELSE Idle
    OBVIOUS
  <2>2. w = Idle \/ (w.sid = s /\ w.step = "save_db" /\ w.copy = copy)
    BY <1>2, <1>4, <2>1 DEF Running
  <2>3. req' = [req EXCEPT ![r] = w] /\ UNCHANGED <<now, admin, db, cache, revokedAt, loggedOut>>
        /\ req[r].step # "save_cache"
    BY <1>13, <2>1 DEF HandleMfa, TypeOK
  <2>4. Ends(s, copy)
    BY <1>2, <1>4
  <2> QED BY <1>6, <2>2, <2>3, <2>4
<1>14. CASE HandleLogout(r)
  <2>1. /\ req' = [req EXCEPT ![r] = Idle] /\ UNCHANGED <<now, admin, cache>>
        /\ loggedOut' = loggedOut \cup {s}
    BY <1>4, <1>14 DEF HandleLogout
  <2>2. \A t \in Sids \ {s} : db'[t] = db[t] /\ revokedAt'[t] = revokedAt[t]
    BY <1>4, <1>14 DEF HandleLogout, TypeOK
  <2>3. Agrees(s)' /\ Ends(s, cache[s])' /\ Ends(s, db[s])'
    BY <2>1 DEF Agrees, Ends
  <2> QED BY <1>2, <1>4, <2>1, <2>2, <2>3, RequestCalm
<1> QED
  BY <1>1, <1>7, <1>8, <1>9, <1>10, <1>11, <1>12, <1>13, <1>14 DEF RequestStep
\* The sessions an invalidation has saved are the ones it removes from the cache.
LEMMA AfterSaveFields ==
    ASSUME NEW a \in Admins, admin[a] \in AdminRunning
    PROVE  /\ AfterSave(a).todo = admin[a].todo \ {admin[a].cur}
           /\ AfterSave(a).removed = admin[a].removed \cup {admin[a].cur}
           /\ AfterSave(a).at = admin[a].at
           /\ AfterSave(a).step \in {"remove", "save_db"}
           /\ AfterSave(a).step = "remove" => AfterSave(a).todo = {}
<1> DEFINE todo == admin[a].todo \ {admin[a].cur}
           rest == [admin[a] EXCEPT !.todo = todo, !.removed = @ \cup {admin[a].cur}]
<1>1. /\ rest.todo = todo /\ rest.removed = admin[a].removed \cup {admin[a].cur} /\ rest.at = admin[a].at
      /\ rest \in [step : {"save_db", "save_cache", "remove"}, at : Nat,
                   all : BOOLEAN, rows : [Sids -> Row \cup {NoRow}],
                   todo : SUBSET Sids, removed : SUBSET Sids, cur : Sids]
  BY DEF AdminRunning
<1> HIDE DEF rest
<1>2. /\ [rest EXCEPT !.step = "remove"].todo = rest.todo
      /\ [rest EXCEPT !.step = "remove"].removed = rest.removed
      /\ [rest EXCEPT !.step = "remove"].at = rest.at
      /\ [rest EXCEPT !.step = "remove"].step = "remove"
  BY <1>1
<1>3. ASSUME NEW c
      PROVE  /\ [rest EXCEPT !.step = "save_db", !.cur = c].todo = rest.todo
             /\ [rest EXCEPT !.step = "save_db", !.cur = c].removed = rest.removed
             /\ [rest EXCEPT !.step = "save_db", !.cur = c].at = rest.at
             /\ [rest EXCEPT !.step = "save_db", !.cur = c].step = "save_db"
  BY <1>1
<1>4. AfterSave(a) = IF todo = {} THEN [rest EXCEPT !.step = "remove"]
                     ELSE [rest EXCEPT !.step = "save_db", !.cur = CHOOSE s \in todo : TRUE]
  BY DEF AfterSave, rest
<1>5. CASE todo = {}
  BY <1>1, <1>2, <1>4, <1>5
<1>6. CASE todo # {}
  BY <1>1, <1>3, <1>4, <1>6
<1> QED BY <1>5, <1>6

\* An invalidation that runs undisturbed runs alone.
LEMMA AdminAlone ==
    ASSUME Typed, Calm, NEW a \in Admins, admin[a].step \in {"save_db", "save_cache", "remove"}
    PROVE  /\ OnlyAdmin(a) /\ admin[a] \in AdminRunning /\ admin[a] # AdminIdle
           /\ \A s \in Sids : \/ s \in admin[a].todo \cup admin[a].removed
                              \/ Agrees(s) /\ Ends(s, db[s]) /\ Ends(s, cache[s])
           /\ admin[a].step = "save_cache" => Matches(admin[a].cur, InvalidatedRow(a))
           /\ \A s \in admin[a].todo \cup admin[a].removed : s \in Sids /\ revokedAt[s] = admin[a].at
           /\ admin[a].step = "remove" => admin[a].todo = {}
           /\ admin[a].todo \cap admin[a].removed = {}
           /\ \A s \in admin[a].removed :
                 Ends(s, db[s]) /\ (admin[a].step # "remove" => Agrees(s) /\ Ends(s, cache[s]))
           /\ admin[a].step # "remove" =>
                 /\ admin[a].cur \in Sids /\ admin[a].cur \in admin[a].todo /\ InvalidatedRow(a) \in Row
                 /\ InvalidatedRow(a).exp = admin[a].at
<1>1. admin[a] \in AdminRunning /\ admin[a] # AdminIdle
  BY AdminType DEF Typed
<1>2. OnlyAdmin(a)
  BY <1>1 DEF OnlyAdmin, Calm, AloneInv
<1>3. \A s \in Sids : ~Saving(s) /\ (Ending(s) => s \in admin[a].todo \cup admin[a].removed)
  BY <1>2 DEF OnlyAdmin, Ending, Saving
<1>4. \A s \in Sids : \/ s \in admin[a].todo \cup admin[a].removed
                      \/ Agrees(s) /\ Ends(s, db[s]) /\ Ends(s, cache[s])
  BY <1>3 DEF Calm, CalmSessions
<1>5. \A s \in admin[a].todo \cup admin[a].removed : s \in Sids
  BY <1>1 DEF AdminRunning
<1>6. /\ admin[a].step = "save_cache" => Matches(admin[a].cur, InvalidatedRow(a))
      /\ \A s \in admin[a].todo \cup admin[a].removed : revokedAt[s] = admin[a].at
      /\ admin[a].step = "remove" => admin[a].todo = {}
      /\ admin[a].todo \cap admin[a].removed = {}
      /\ \A s \in admin[a].removed :
            Ends(s, db[s]) /\ (admin[a].step # "remove" => Agrees(s) /\ Ends(s, cache[s]))
  BY <1>1 DEF Calm, CalmAdmin
<1>7. ASSUME admin[a].step # "remove"
      PROVE  /\ admin[a].cur \in Sids /\ admin[a].cur \in admin[a].todo /\ InvalidatedRow(a) \in Row
             /\ InvalidatedRow(a).exp = admin[a].at
  <2>1. /\ admin[a].cur \in Sids /\ admin[a].cur \in admin[a].todo
        /\ admin[a].rows[admin[a].cur] \in Row /\ admin[a].at \in Nat
    BY <1>1, <1>7 DEF Typed, RowsInv, AdminRunning
  <2> QED BY <2>1 DEF InvalidatedRow, Row
<1> QED BY <1>1, <1>2, <1>4, <1>5, <1>6, <1>7

\* Nothing is in flight: every session is in order.
LEMMA IdleCalm ==
    ASSUME Calm, AllIdle
    PROVE  \A s \in Sids : Agrees(s) /\ Ends(s, db[s]) /\ Ends(s, cache[s])
BY DEF Calm, CalmSessions, AllIdle, Saving, Ending

\* A step of an invalidation keeps the calm.
LEMMA AdminStepCalm ==
    ASSUME Typed, Calm, disturbed' = "no", NEW a \in Admins, AdminStep(a)
    PROVE  Calm'
<1> USE DEF Typed, history
<1>1. ASSUME NEW selected \in SUBSET Sids, NEW all, StartInvalidation(a, selected, all) PROVE Calm'
  <2>1. AllIdle
    BY <1>1, StartsAlone DEF StartInvalidation
  <2>2. PICK y : y = [step |-> "save_db", at |-> now, all |-> all, rows |-> db,
          todo |-> selected, removed |-> {}, cur |-> CHOOSE s \in selected : TRUE]
    OBVIOUS
  <2>3. y.step = "save_db" /\ y.at = now /\ y.todo = selected /\ y.removed = {} /\ y # AdminIdle
    BY <2>2 DEF AdminIdle
  <2>4. /\ admin' = [admin EXCEPT ![a] = y] /\ UNCHANGED <<req, now, db, cache, loggedOut>>
        /\ \A s \in Sids : revokedAt'[s] = IF s \in selected THEN now ELSE revokedAt[s]
    BY <1>1, <2>2 DEF StartInvalidation
  <2>5. ASSUME NEW s \in Sids
        PROVE  \/ y # AdminIdle /\ s \in y.todo \cup y.removed
               \/ Agrees(s)' /\ Ends(s, db[s])' /\ Ends(s, cache[s])'
    <3>1. CASE s \notin selected
      <4>1. Agrees(s) /\ Ends(s, db[s]) /\ Ends(s, cache[s])
        BY <2>1, IdleCalm
      <4> QED BY <2>4, <3>1, <4>1 DEF Agrees, Matches, Ends
    <3> QED BY <2>3, <3>1
  <2>6. OnlyAdmin(a)
    BY <2>1 DEF AllIdle, OnlyAdmin
  <2>7. \A s \in y.todo \cup y.removed : revokedAt'[s] = y.at
    BY <2>3, <2>4
  <2> QED BY <2>3, <2>4, <2>5, <2>6, <2>7, AdminCalm
<1>2. ASSUME NEW u \in Users, DeleteByUser(a, u) PROVE Calm'
  <2> DEFINE gone == {s \in Sids : db[s] # NoRow /\ db[s].user = u}
  <2>1. AllIdle
    BY <1>2, StartsAlone DEF DeleteByUser
  <2>2. PICK y : y = [step |-> "remove", at |-> now, all |-> FALSE, rows |-> db,
                 todo |-> {}, removed |-> gone, cur |-> CHOOSE s \in gone : TRUE]
    OBVIOUS
  <2>3. y.step = "remove" /\ y.at = now /\ y.todo = {} /\ y.removed = gone /\ y # AdminIdle
    BY <2>2 DEF AdminIdle
  <2>4. /\ admin' = [admin EXCEPT ![a] = y] /\ UNCHANGED <<req, now, cache, loggedOut>>
        /\ \A s \in Sids : revokedAt'[s] = IF s \in gone THEN now ELSE revokedAt[s]
        /\ \A s \in Sids : db'[s] = IF s \in gone THEN NoRow ELSE db[s]
    BY <1>2, <2>2 DEF DeleteByUser
  <2>5. gone \subseteq Sids
    OBVIOUS
  <2> HIDE DEF gone
  <2>6. ASSUME NEW s \in Sids
        PROVE  \/ y # AdminIdle /\ s \in y.todo \cup y.removed
               \/ Agrees(s)' /\ Ends(s, db[s])' /\ Ends(s, cache[s])'
    <3>1. CASE s \notin gone
      <4>1. Agrees(s) /\ Ends(s, db[s]) /\ Ends(s, cache[s])
        BY <2>1, IdleCalm
      <4> QED BY <2>4, <3>1, <4>1 DEF Agrees, Matches, Ends
    <3> QED BY <2>3, <3>1
  <2>7. OnlyAdmin(a)
    BY <2>1 DEF AllIdle, OnlyAdmin
  <2>8. \A s \in y.todo \cup y.removed : revokedAt'[s] = y.at
    BY <2>3, <2>4, <2>5
  <2>9. \A s \in y.removed : Ends(s, db[s])'
    BY <2>3, <2>4, <2>5 DEF Ends
  <2> QED BY <2>3, <2>4, <2>6, <2>7, <2>8, <2>9, AdminCalm
<1>3. ASSUME NEW y, UNCHANGED <<req, now, loggedOut, revokedAt>>, admin' = [admin EXCEPT ![a] = y],
             admin[a].step \in {"save_db", "save_cache", "remove"},
             \/ y = AdminIdle /\ \A s \in admin[a].todo \cup admin[a].removed :
                                    Agrees(s)' /\ Ends(s, db[s])' /\ Ends(s, cache[s])'
             \/ /\ y # AdminIdle /\ y.at = admin[a].at
                /\ y.step = "save_cache" => Matches(y.cur, [y.rows[y.cur] EXCEPT !.exp = y.at])'
                /\ y.step = "remove" => y.todo = {}
                /\ y.todo \cap y.removed = {}
                /\ y.todo \cup y.removed \subseteq admin[a].todo \cup admin[a].removed
                /\ \A s \in y.removed :
                      Ends(s, db[s])' /\ (y.step # "remove" => Agrees(s)' /\ Ends(s, cache[s])')
                /\ \A s \in admin[a].todo \cup admin[a].removed :
                      \/ s \in y.todo \cup y.removed
                      \/ Agrees(s)' /\ Ends(s, db[s])' /\ Ends(s, cache[s])',
             \A s \in Sids : s \notin admin[a].todo \cup admin[a].removed =>
                db'[s] = db[s] /\ cache'[s] = cache[s]
      PROVE  Calm'
  <2>1. /\ OnlyAdmin(a)
        /\ \A s \in Sids : \/ s \in admin[a].todo \cup admin[a].removed
                           \/ Agrees(s) /\ Ends(s, db[s]) /\ Ends(s, cache[s])
        /\ \A s \in admin[a].todo \cup admin[a].removed : revokedAt[s] = admin[a].at
    BY <1>3, AdminAlone
  <2>2. ASSUME NEW s \in Sids, s \notin admin[a].todo \cup admin[a].removed
        PROVE  Agrees(s)' /\ Ends(s, db[s])' /\ Ends(s, cache[s])'
    BY <1>3, <2>1, <2>2 DEF Agrees, Matches, Ends
  <2>3. \A s \in Sids : \/ y # AdminIdle /\ s \in y.todo \cup y.removed
                        \/ Agrees(s)' /\ Ends(s, db[s])' /\ Ends(s, cache[s])'
    BY <1>3, <2>2
  <2>4. y # AdminIdle => \A s \in y.todo \cup y.removed : revokedAt'[s] = y.at
    BY <1>3, <2>1
  <2> QED BY <1>3, <2>1, <2>3, <2>4, AdminCalm
<1>4. CASE InvalidateSaveDb(a)
  <2>1. admin[a].step = "save_db"
    BY <1>4 DEF InvalidateSaveDb
  <2>2. PICK y, cur, row : y = [admin[a] EXCEPT !.step = "save_cache"] /\ cur = admin[a].cur /\ row = InvalidatedRow(a)
    OBVIOUS
  <2>3. /\ admin[a] \in AdminRunning /\ cur \in Sids /\ cur \in admin[a].todo /\ row \in Row /\ row.exp = admin[a].at
        /\ admin[a].todo \cap admin[a].removed = {} /\ \A s \in admin[a].removed : s \in Sids
        /\ \A s \in admin[a].removed : Ends(s, db[s]) /\ Agrees(s) /\ Ends(s, cache[s])
    BY <2>1, <2>2, AdminAlone
  <2>4. /\ y.step = "save_cache" /\ y.at = admin[a].at /\ y.todo = admin[a].todo /\ y.removed = admin[a].removed
        /\ y.cur = cur /\ y.rows = admin[a].rows /\ y # AdminIdle
    BY <2>2, <2>3 DEF AdminRunning, AdminIdle
  <2>5. /\ admin' = [admin EXCEPT ![a] = y] /\ db' = [db EXCEPT ![cur] = row]
        /\ UNCHANGED <<req, now, cache, loggedOut, revokedAt>>
    BY <1>4, <2>2 DEF InvalidateSaveDb, TypeOK
  <2>6. db'[cur] = row /\ \A s \in Sids \ {cur} : db'[s] = db[s]
    BY <2>3, <2>5 DEF TypeOK
  <2>7. row = [y.rows[y.cur] EXCEPT !.exp = y.at]
    BY <2>2, <2>4 DEF InvalidatedRow
  <2>8. Matches(y.cur, [y.rows[y.cur] EXCEPT !.exp = y.at])'
    BY <2>4, <2>6, <2>7 DEF Matches
  <2>9. \A s \in y.removed : Ends(s, db[s])' /\ Agrees(s)' /\ Ends(s, cache[s])'
    BY <2>3, <2>4, <2>5, <2>6 DEF Ends, Agrees, Matches
  <2>10. \A s \in Sids : s \notin admin[a].todo \cup admin[a].removed => db'[s] = db[s] /\ cache'[s] = cache[s]
    BY <2>3, <2>5, <2>6
  <2> QED BY <1>3, <2>1, <2>3, <2>4, <2>5, <2>8, <2>9, <2>10
<1>5. CASE InvalidateSaveCache(a)
  <2>1. admin[a].step = "save_cache"
    BY <1>5 DEF InvalidateSaveCache
  <2>2. PICK y, cur, row : y = AfterSave(a) /\ cur = admin[a].cur /\ row = InvalidatedRow(a)
    OBVIOUS
  <2>3. /\ admin[a] \in AdminRunning /\ cur \in Sids /\ cur \in admin[a].todo /\ row \in Row /\ row.exp = admin[a].at
        /\ admin[a].todo \cap admin[a].removed = {} /\ \A s \in admin[a].removed : s \in Sids
        /\ \A s \in admin[a].removed : Ends(s, db[s]) /\ Agrees(s) /\ Ends(s, cache[s])
        /\ Matches(cur, row) /\ revokedAt[cur] = admin[a].at
    BY <2>1, <2>2, AdminAlone
  <2>4. /\ y.step \in {"save_db", "remove"} /\ y.at = admin[a].at /\ y.todo = admin[a].todo \ {cur}
        /\ y.removed = admin[a].removed \cup {cur} /\ (y.step = "remove" => y.todo = {})
    BY <2>2, <2>3, AfterSaveFields
  <2>5. y # AdminIdle
    BY <2>4 DEF AdminIdle
  <2>6. /\ admin' = [admin EXCEPT ![a] = y] /\ cache' = [cache EXCEPT ![cur] = row]
        /\ UNCHANGED <<req, now, db, loggedOut, revokedAt>>
    BY <1>5, <2>2 DEF InvalidateSaveCache
  <2>7. cache'[cur] = row /\ \A s \in Sids \ {cur} : cache'[s] = cache[s]
    BY <2>3, <2>6 DEF TypeOK
  <2>8. \A s \in admin[a].removed : Ends(s, db[s])' /\ Agrees(s)' /\ Ends(s, cache[s])'
    BY <2>3, <2>6, <2>7 DEF Ends, Agrees, Matches
  <2>9. Ends(cur, db[cur])' /\ Agrees(cur)' /\ Ends(cur, cache[cur])'
    <3>1. row.exp \in Nat
      BY <2>3 DEF Row
    <3> QED BY <2>3, <2>6, <2>7, <3>1 DEF Ends, Agrees, Matches
  <2>10. \A s \in Sids : s \notin admin[a].todo \cup admin[a].removed => db'[s] = db[s] /\ cache'[s] = cache[s]
    BY <2>3, <2>6, <2>7
  <2>11. \A s \in y.removed : Ends(s, db[s])' /\ Agrees(s)' /\ Ends(s, cache[s])'
    BY <2>4, <2>8, <2>9
  <2>12. y.todo \cap y.removed = {} /\ y.todo \cup y.removed = admin[a].todo \cup admin[a].removed
    BY <2>3, <2>4
  <2> QED BY <1>3, <2>1, <2>4, <2>5, <2>6, <2>10, <2>11, <2>12
<1>6. CASE InvalidateRemove(a)
  <2>1. PICK s \in admin[a].removed :
          /\ cache' = [cache EXCEPT ![s] = NoRow]
          /\ admin' = [admin EXCEPT ![a] =
               IF admin[a].removed = {s} THEN AdminIdle
               ELSE [admin[a] EXCEPT !.removed = @ \ {s}]]
    BY <1>6 DEF InvalidateRemove
  <2>2. admin[a].step = "remove" /\ UNCHANGED <<req, now, db, loggedOut, revokedAt>>
    BY <1>6 DEF InvalidateRemove
  <2>3. PICK y : y = IF admin[a].removed = {s} THEN AdminIdle ELSE [admin[a] EXCEPT !.removed = @ \ {s}]
    OBVIOUS
  <2>4. /\ admin[a] \in AdminRunning /\ admin[a].todo = {} /\ \A t \in admin[a].removed : t \in Sids
        /\ \A t \in admin[a].removed : Ends(t, db[t])
    BY <2>2, AdminAlone
  <2>5. \/ y = AdminIdle /\ admin[a].removed = {s}
        \/ /\ y # AdminIdle /\ y.step = "remove" /\ y.at = admin[a].at /\ y.todo = {}
           /\ y.removed = admin[a].removed \ {s}
    BY <2>2, <2>3, <2>4 DEF AdminRunning, AdminIdle
  <2>6. cache'[s] = NoRow /\ \A t \in Sids \ {s} : cache'[t] = cache[t]
    BY <2>1, <2>4 DEF TypeOK
  <2>7. \A t \in admin[a].removed : Ends(t, db[t])'
    BY <2>2, <2>4 DEF Ends
  <2>8. Agrees(s)' /\ Ends(s, cache[s])' /\ Ends(s, db[s])'
    BY <2>6, <2>7 DEF Ends, Agrees
  <2>9. \A t \in Sids : t \notin admin[a].todo \cup admin[a].removed => db'[t] = db[t] /\ cache'[t] = cache[t]
    BY <2>2, <2>6
  <2>10. admin' = [admin EXCEPT ![a] = y]
    BY <2>1, <2>3
  <2>11. CASE y = AdminIdle /\ admin[a].removed = {s}
    BY <1>3, <2>2, <2>4, <2>8, <2>9, <2>10, <2>11
  <2>12. CASE /\ y # AdminIdle /\ y.step = "remove" /\ y.at = admin[a].at /\ y.todo = {}
              /\ y.removed = admin[a].removed \ {s}
    BY <1>3, <2>2, <2>4, <2>7, <2>8, <2>9, <2>10, <2>12
  <2> QED BY <2>5, <2>11, <2>12
<1>7. ~InvalidateError(a)
  BY DEF InvalidateError
<1>8. CASE InvalidateAll(a)
  <2>1. PICK selected \in SUBSET Sids : StartInvalidation(a, selected, TRUE)
    BY <1>8 DEF InvalidateAll
  <2> QED BY <1>1, <2>1
<1>9. ASSUME NEW u \in Users, InvalidateForUser(a, u) PROVE Calm'
  <2>1. PICK selected \in SUBSET Sids : StartInvalidation(a, selected, FALSE)
    BY <1>9 DEF InvalidateForUser
  <2> QED BY <1>1, <2>1
<1> QED
  BY <1>2, <1>4, <1>5, <1>6, <1>7, <1>8, <1>9 DEF AdminStep
\* Every step keeps the calm until it is disturbed.
LEMMA CalmNext == Typed /\ CopiesInv /\ CalmInv /\ Next => CalmInv'
<1> SUFFICES ASSUME Typed, CopiesInv, CalmInv, Next PROVE CalmInv'
  OBVIOUS
<1> USE DEF Typed, history
<1>1. RevokedInv /\ RevokedInv'
  BY RevokedNext DEF CalmInv
<1>2. SUFFICES ASSUME disturbed' = "no" PROVE Calm'
  BY <1>1 DEF CalmInv
<1>3. Calm
  BY <1>2, StillCalm DEF CalmInv
<1>4. ASSUME NEW t \in Sids, NewSession(t) PROVE Calm'
  <2>1. UNCHANGED <<req, admin, loggedOut, revokedAt, now>> /\ created[t] = Never
    BY <1>4 DEF NewSession
  <2>2. db'[t] = cache'[t] /\ \A s \in Sids \ {t} : db'[s] = db[s] /\ cache'[s] = cache[s]
    BY <1>4 DEF NewSession, TypeOK
  <2>3. \A s \in Sids : created[s] = Never => cache[s] = NoRow /\ db[s] = NoRow
    BY DEF CopiesInv, DbInv, CacheInv, Good
  <2>4. \A s \in Sids : created[s] # Never =>
              /\ db'[s] \in {db[s], NoRow} /\ cache'[s] \in {cache[s], NoRow}
              /\ \A row \in Row : Matches(s, row) => Matches(s, row)'
    BY <2>1, <2>2 DEF Matches
  <2>5. \A s \in Sids : created[s] = Never => cache'[s] \in {NoRow, db'[s]}
    BY <2>2, <2>3
  <2> QED BY <1>1, <1>3, <2>1, <2>4, <2>5, EnvironmentCalm
<1>5. ASSUME UNCHANGED <<req, admin, loggedOut, revokedAt>>,
             \A s \in Sids : db'[s] \in {db[s], NoRow} /\ cache'[s] \in {cache[s], NoRow},
             \A s \in Sids, row \in Row : Matches(s, row) => Matches(s, row)'
      PROVE  Calm'
  <2>1. \A s \in Sids : created[s] = Never => cache[s] = NoRow /\ db[s] = NoRow
    BY DEF CopiesInv, DbInv, CacheInv, Good
  <2>2. \A s \in Sids : created[s] = Never => cache'[s] \in {NoRow, db'[s]}
    BY <1>5, <2>1
  <2> QED BY <1>1, <1>3, <1>5, <2>2, EnvironmentCalm
<1>6. ASSUME NEW t \in Sids, CacheExpires(t) PROVE Calm'
  <2>1. UNCHANGED <<req, admin, loggedOut, revokedAt, now, db>> /\ \A s \in Sids : cache'[s] \in {cache[s], NoRow}
    BY <1>6 DEF CacheExpires, TypeOK
  <2> QED BY <1>5, <2>1 DEF Matches
<1>7. CASE Cleanup
  <2>1. UNCHANGED <<req, admin, loggedOut, revokedAt, now, cache>>
    BY <1>7 DEF Cleanup
  <2>2. \A s \in Sids : db'[s] = db[s] \/ (db'[s] = NoRow /\ db[s] # NoRow /\ db[s].exp + CleanupAge < now)
    BY <1>7 DEF Cleanup
  <2> QED BY <1>5, <2>1, <2>2 DEF Matches
<1>8. CASE Tick
  <2>1. UNCHANGED <<req, admin, loggedOut, revokedAt, db, cache>> /\ now' = now + 1
    BY <1>8 DEF Tick
  <2>2. ASSUME NEW s \in Sids, NEW row \in Row, Matches(s, row) PROVE Matches(s, row)'
    <3>1. row.exp \in Nat /\ CleanupAge \in Nat /\ now \in Nat
      BY SessionsAssumption DEF Row, TypeOK
    <3>2. row.exp + CleanupAge < now => row.exp + CleanupAge < now'
      BY <2>1, <3>1
    <3> QED BY <2>1, <2>2, <3>2 DEF Matches
  <2> QED BY <1>5, <2>1, <2>2
<1>9. ASSUME NEW r \in Requests, NEW op \in Ops, NEW s \in Sids, NEW u \in Users \cup {NoUser}, NEW e \in UserExpires,
             Start(r, op, s, u, e)
      PROVE  Calm'
  <2>1. AllIdle
    BY <1>2, <1>9, StartsAlone DEF Start
  <2>2. PICK w : w = [op |-> op, step |-> "find", sid |-> s,
                 user |-> u, until |-> e, copy |-> NoRow, last |-> (op = "redeem")]
    OBVIOUS
  <2>3. w.sid = s /\ w.step = "find" /\ w.copy = NoRow
    BY <2>2
  <2>4. req' = [req EXCEPT ![r] = w] /\ UNCHANGED <<now, admin, db, cache, revokedAt, loggedOut>> /\ req[r] = Idle
    BY <1>9, <2>2 DEF Start
  <2>5. Agrees(s) /\ Ends(s, db[s]) /\ Ends(s, cache[s])
    BY <1>3, <2>1, IdleCalm
  <2>6. Agrees(s)' /\ Ends(s, db[s])' /\ Ends(s, cache[s])' /\ Ends(s, w.copy)'
    BY <2>3, <2>4, <2>5 DEF Agrees, Matches, Ends
  <2>7. OnlyReq(r)
    BY <2>1 DEF AllIdle, OnlyReq
  <2> QED BY <1>3, <2>3, <2>4, <2>6, <2>7, RequestCalm
<1> QED
  BY <1>2, <1>3, <1>4, <1>6, <1>7, <1>8, <1>9, RequestStepCalm, AdminStepCalm DEF Next

\* In the beginning there is no session.
LEMMA CalmInit == Init => CalmInv
<1> SUFFICES ASSUME Init PROVE CalmInv
  OBVIOUS
<1>1. RevokedInv /\ AloneInv /\ CalmReq /\ CalmAdmin
  BY DEF Init, RevokedInv, AloneInv, CalmReq, CalmAdmin
<1>2. CalmSessions
  BY DEF Init, CalmSessions, Agrees, Ends
<1> QED BY <1>1, <1>2 DEF CalmInv, Calm

\* The invariant of the undisturbed service holds in every reachable state.
LEMMA CalmAlways == Spec => [](Typed /\ CopiesInv /\ CalmInv)
<1>1. Typed /\ CopiesInv /\ CalmInv /\ [Next]_vars => CalmInv'
  <2>1. ASSUME CalmInv, UNCHANGED vars PROVE CalmInv'
    BY <2>1 DEF vars, history, CalmInv, RevokedInv, Calm, AloneInv, CalmReq, CalmAdmin, CalmSessions,
       Saving, Ending, Agrees, Ends, Matches, InvalidatedRow
  <2> QED BY <2>1, CalmNext
<1> QED BY <1>1, CalmInit, CopiesAlways, PTL DEF Spec

\* For any number of sessions: as long as requests do not overlap and the cache does not
\* fail, no copy of an invalidated session is valid after its invalidation, whatever is
\* redeemed for it later (Session::invalidate_all, invalidate_for_user, delete_by_user).
THEOREM SessionsStayDead == Spec => []InvalidatedStaysDead
<1>1. Typed /\ CopiesInv /\ CalmInv => InvalidatedStaysDead
  <2> SUFFICES ASSUME Typed, CalmInv, disturbed = "no", Quiescent, NEW s \in Sids, revokedAt[s] # Never,
                      s \notin loggedOut, NEW c \in Copies(s)
               PROVE  c.exp <= revokedAt[s]
    BY DEF InvalidatedStaysDead, InvalidatedAreDead
  <2>1. AllIdle
    BY NobodyRuns DEF Quiescent
  <2>2. c # NoRow /\ c \in {db[s], cache[s]}
    BY <2>1 DEF Copies, AllIdle
  <2>3. Ends(s, db[s]) /\ Ends(s, cache[s])
    BY <2>1, IdleCalm DEF CalmInv
  <2> QED BY <2>2, <2>3 DEF Ends
<1> QED BY <1>1, CalmAlways, PTL

\* As long as requests do not overlap and the cache does not fail, the cache shows what
\* the table holds, but for logged out sessions and rows the scheduler deleted
\* (Session::save, Session::find).
THEOREM SessionsCoherent == Spec => []CacheCoherent
<1>1. Typed /\ CopiesInv /\ CalmInv => CacheCoherent
  <2> SUFFICES ASSUME Typed, CalmInv, disturbed = "no", Quiescent, NEW s \in Sids
               PROVE  \/ cache[s] \in {NoRow, db[s]}
                      \/ s \in loggedOut
                      \/ db[s] = NoRow /\ cache[s].exp + CleanupAge < now
    BY DEF CacheCoherent
  <2>1. AllIdle
    BY NobodyRuns DEF Quiescent
  <2>2. Agrees(s)
    BY <2>1, IdleCalm DEF CalmInv
  <2> QED BY <2>2 DEF Agrees, Matches
<1> QED BY <1>1, CalmAlways, PTL
=============================================================================
