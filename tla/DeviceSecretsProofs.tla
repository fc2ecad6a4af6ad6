------------------------ MODULE DeviceSecretsProofs -------------------------
(***************************************************************************)
(* Proofs about the secrets of clients and devices: DeviceGrant, for any   *)
(* number of device codes, clients, users and concurrent requests and any  *)
(* lifetimes and bounds, and Secrets, for any requests, encryption keys    *)
(* and stored rows.                                                        *)
(***************************************************************************)
EXTENDS DeviceGrant, Secrets, FiniteSetTheorems, SequenceTheorems, TLAPS

\* A copy of a device code, wherever it is, agrees with the request that made
\* it, and whoever is noted as `verified_by` did accept it.
Granted(code, reqs, accs) ==
    /\ \E r \in reqs :
          /\ <<r.dev, r.client, r.secret>> = <<code.dev, code.client, code.secret>>
          /\ code.exp = r.created + CodeLifetime
    /\ code.verified_by # NoUser => <<code.dev, code.verified_by>> \in accs

\* Only verified copies get past the check of `verified_by`.
StepInv ==
    \A p \in Pollers : poller[p].step \in {"user", "delete", "tokens"} =>
        poller[p].code.verified_by # NoUser

CacheInv == \A uc \in UserCodes : cache[uc] # NoEntry => 
    Granted(cache[uc].code, requested, accepted)

VerifierInv == \A v \in Verifiers : verifier[v] # Idle => 
    Granted(verifier[v].code, requested, accepted)

\* A running poll holds a granted copy that matches what it presented, and its
\* time is within the lifetime of the code.
PollerInv ==
    \A p \in Pollers :
        poller[p].step \in PollSteps \ {"drop_expired"} =>
            /\ Granted(poller[p].code, requested, accepted)
            /\ poller[p].req = <<poller[p].code.dev, poller[p].code.client,
                                 poller[p].code.secret>>
            /\ poller[p].at <= poller[p].code.exp

GrantInv == CacheInv /\ VerifierInv /\ PollerInv /\ TokensOnlyIfGranted

-----------------------------------------------------------------------------

\* A put replaces the entry by a well-formed one, keeps or clears the others.
LEMMA CachePutType ==
    ASSUME TypeOK, NEW uc \in UserCodes, NEW code \in Code, CachePut(uc, code)
    PROVE  /\ cache' \in [UserCodes -> Entry \cup {NoEntry}]
           /\ cache'[uc].code = code
           /\ \A k \in UserCodes : k # uc => cache'[k] \in {cache[k], NoEntry}
<1> DEFINE entry == [code |-> code, until |-> now + CodeLifetime]
<1>1. entry \in Entry
  BY DeviceAssumption DEF TypeOK, Entry
<1>2. CASE cache' = [cache EXCEPT ![uc] = entry]
  BY <1>1, <1>2 DEF TypeOK
<1>3. CASE \E out \in Occupied :
              uc \notin Occupied /\ cache' = [cache EXCEPT ![out] = NoEntry, ![uc] = entry]
  BY <1>1, <1>3 DEF TypeOK, Occupied
<1> QED
  BY <1>2, <1>3 DEF CachePut

\* A delete removes one entry and keeps the cache well-typed.
LEMMA CacheDelType ==
    ASSUME TypeOK, NEW uc \in UserCodes, CacheDel(uc)
    PROVE  /\ cache' \in [UserCodes -> Entry \cup {NoEntry}]
           /\ cache'[uc] = NoEntry
           /\ \A k \in UserCodes : k # uc => cache'[k] = cache[k]
BY DEF TypeOK, CacheDel

\* A lookup answers nothing or the well-formed entry the cache holds.
LEMMA LookupType ==
    ASSUME TypeOK, NEW uc \in UserCodes, Lookup(uc) # NoEntry
    PROVE  Lookup(uc) = cache[uc] /\ Lookup(uc) \in Entry /\ Lookup(uc).code \in Code
BY DEF TypeOK, Lookup, Entry

\* The counter of early polls stays a u8.
LEMMA WarnedType ==
    ASSUME NEW code \in Code
    PROVE  Warned(code) \in 0 .. WarningsMod - 1
BY DeviceAssumption, SMTT(30) DEF Warned, Code

\* The initial state is well-typed.
LEMMA TypeInit == Init => TypeOK /\ StepInv
BY DEF Init, TypeOK, Idle, StepInv

\* Every action keeps the state well-typed.
LEMMA TypeNext == TypeOK /\ StepInv /\ [Next]_vars => TypeOK'
<1> SUFFICES ASSUME TypeOK, StepInv, [Next]_vars PROVE TypeOK'
  OBVIOUS
<1>1. ASSUME NEW d \in DeviceCodes, NEW c \in Clients, NEW s \in Secrets,
             DeviceAuth(d, c, s)
      PROVE  TypeOK'
  <2> DEFINE code == [dev |-> d, client |-> c, secret |-> s,
                 verified_by |-> NoUser, exp |-> now + CodeLifetime,
                 last_poll |-> now, warnings |-> 0]
  <2>1. code \in Code /\ UserCodeOf[d] \in UserCodes
    BY DeviceAssumption DEF Code, TypeOK
  <2>2. CachePut(UserCodeOf[d], code)
    BY <1>1 DEF DeviceAuth
  <2>3. cache' \in [UserCodes -> Entry \cup {NoEntry}]
    BY <2>1, <2>2, CachePutType
  <2> QED
    BY <1>1, <2>3 DEF DeviceAuth, TypeOK, history
<1>2. ASSUME NEW v \in Verifiers, NEW u \in Users, NEW uc \in UserCodes,
             NEW choice \in {"accept", "decline"}, VerifyFind(v, u, uc, choice)
      PROVE  TypeOK'
  <2>1. Lookup(uc) # NoEntry
    BY <1>2 DEF VerifyFind, Found, Outlived
  <2>2. Lookup(uc).code \in Code
    BY <2>1, LookupType
  <2>3. verifier' \in [Verifiers ->
         {Idle} \cup [step : VerifySteps, code : Code, user : Users]]
    BY <1>2, <2>2 DEF VerifyFind, TypeOK, VerifySteps
  <2> QED
    BY <1>2, <2>3 DEF VerifyFind, TypeOK, history
<1>3. ASSUME NEW v \in Verifiers, VerifyAccept(v) PROVE TypeOK'
  <2> DEFINE code == verifier[v].code
             user == verifier[v].user
  <2>1. verifier[v] \in [step : VerifySteps, code : Code, user : Users]
    BY <1>3 DEF VerifyAccept, TypeOK, Idle
  <2>2. code \in Code /\ user \in Users
    BY <2>1
  <2>3. [code EXCEPT !.verified_by = user] \in Code /\ UserCodeOf[code.dev] \in UserCodes
    BY <2>2, DeviceAssumption DEF Code
  <2>4. CachePut(UserCodeOf[code.dev], [code EXCEPT !.verified_by = user])
    BY <1>3 DEF VerifyAccept
  <2>5. cache' \in [UserCodes -> Entry \cup {NoEntry}]
    BY <2>3, <2>4, CachePutType
  <2>6. accepted' \subseteq DeviceCodes \X Users
    BY <1>3, <2>2 DEF VerifyAccept, TypeOK, Code
  <2>7. acceptCount' \in [DeviceCodes -> Nat]
    BY <1>3, <2>2 DEF VerifyAccept, TypeOK, Code
  <2> QED
    BY <1>3, <2>5, <2>6, <2>7 DEF VerifyAccept, TypeOK
<1>4. ASSUME NEW v \in Verifiers, VerifyDelete(v) PROVE TypeOK'
  <2>1. verifier[v] \in [step : VerifySteps, code : Code, user : Users]
    BY <1>4 DEF VerifyDelete, TypeOK, Idle
  <2>2. UserCodeOf[verifier[v].code.dev] \in UserCodes
    BY <2>1, DeviceAssumption DEF Code
  <2>3. cache' \in [UserCodes -> Entry \cup {NoEntry}]
    BY <1>4, <2>2, CacheDelType DEF VerifyDelete
  <2> QED
    BY <1>4, <2>3 DEF VerifyDelete, TypeOK, history
<1>11. ASSUME NEW v \in Verifiers, VerifyFails(v) PROVE TypeOK'
  BY <1>11 DEF VerifyFails, TypeOK, history
<1>5. ASSUME NEW p \in Pollers, NEW d \in DeviceCodes, NEW c \in Clients,
             NEW s \in Secrets, PollFind(p, d, c, s)
      PROVE  TypeOK'
  <2> DEFINE entry == Lookup(UserCodeOf[d])
             code == [entry.code EXCEPT !.warnings = Warned(entry.code)]
  <2>1. UserCodeOf[d] \in UserCodes /\ entry # NoEntry
    BY <1>5, DeviceAssumption DEF PollFind, Found, Outlived
  <2>2. entry.code \in Code
    BY <2>1, LookupType
  <2>3. code \in Code
    BY <2>2, WarnedType DEF Code
  <2>4. <<d, c, s>> \in Request /\ now \in Nat
    BY DEF Request, TypeOK
  <2>5. poller' \in [Pollers ->
         {Idle} \cup [step : PollSteps, code : Code, at : Nat, req : Request]]
    BY <1>5, <2>2, <2>3, <2>4 DEF PollFind, TypeOK, PollSteps, AfterInterval
  <2> QED
    BY <1>5, <2>5 DEF PollFind, TypeOK, history
<1>6. ASSUME NEW p \in Pollers, NEW d \in DeviceCodes, NEW c \in Clients,
             NEW s \in Secrets, PollRejected(p, d, c, s)
      PROVE  TypeOK'
  BY <1>6 DEF PollRejected, TypeOK, vars, history
<1>7. ASSUME NEW p \in Pollers, Poll(p) PROVE TypeOK'
  <2>1. poller[p] \in [step : PollSteps, code : Code, at : Nat, req : Request]
    BY <1>7 DEF Poll, PollDrop, PollDropExpired, PollUser, PollUserFails, PollDelete, PollDeleteFails, PollTokensFail, PollCacheFails,
                PollTokens, PollSave, TypeOK, Idle
  <2>2. poller[p].code \in Code /\ UserCodeOf[poller[p].code.dev] \in UserCodes
    BY <2>1, DeviceAssumption DEF Code
  <2>3. CASE PollDrop(p)
    <3>1. cache' \in [UserCodes -> Entry \cup {NoEntry}]
      BY <2>2, <2>3, CacheDelType DEF PollDrop
    <3>2. poller' \in [Pollers ->
            {Idle} \cup [step : PollSteps, code : Code, at : Nat, req : Request]]
      BY <2>1, <2>3 DEF PollDrop, TypeOK, PollSteps, AfterInterval
    <3> QED
      BY <2>3, <3>1, <3>2 DEF PollDrop, TypeOK, history
  <2>4. CASE PollDropExpired(p)
    BY <2>2, <2>4, CacheDelType DEF PollDropExpired, TypeOK, history
  <2>5. CASE PollUser(p)
    <3>1. poller' \in [Pollers ->
            {Idle} \cup [step : PollSteps, code : Code, at : Nat, req : Request]]
      BY <2>1, <2>5 DEF PollUser, TypeOK, PollSteps
    <3> QED
      BY <2>5, <3>1 DEF PollUser, TypeOK, history
  <2>6. CASE PollDelete(p)
    <3>1. cache' \in [UserCodes -> Entry \cup {NoEntry}]
      BY <2>2, <2>6, CacheDelType DEF PollDelete
    <3>2. poller' \in [Pollers ->
            {Idle} \cup [step : PollSteps, code : Code, at : Nat, req : Request]]
      BY <2>1, <2>6 DEF PollDelete, TypeOK, PollSteps
    <3> QED
      BY <2>6, <3>1, <3>2 DEF PollDelete, TypeOK, history
  <2>8. CASE PollSave(p)
    <3>1. [poller[p].code EXCEPT !.last_poll = poller[p].at] \in Code
      BY <2>1 DEF Code
    <3>2. cache' \in [UserCodes -> Entry \cup {NoEntry}]
      BY <2>2, <2>8, <3>1, CachePutType DEF PollSave
    <3> QED
      BY <2>8, <3>2 DEF PollSave, TypeOK, history
  <2>7. CASE PollTokens(p)
    <3>1. poller[p].code.verified_by \in Users /\ poller[p].code.dev \in DeviceCodes
          /\ poller[p].code.client \in Clients
      BY <2>2, <2>7 DEF PollTokens, StepInv, Code
    <3>2. devices' \subseteq [client : Clients, user : Users, dev : DeviceCodes]
      BY <2>7, <3>1 DEF PollTokens, TypeOK
    <3>3. issued' \subseteq [req : Request, user : Users, at : Nat]
      BY <2>1, <2>7, <3>1 DEF PollTokens, TypeOK
    <3>4. issueCount' \in [DeviceCodes -> Nat]
      BY <2>7, <3>1 DEF PollTokens, TypeOK
    <3> QED
      BY <2>7, <3>2, <3>3, <3>4 DEF PollTokens, TypeOK
  <2>9. CASE PollUserFails(p)
    BY <2>9 DEF PollUserFails, TypeOK, history
  <2>10. CASE PollDeleteFails(p)
    <3>1. poller' \in [Pollers ->
            {Idle} \cup [step : PollSteps, code : Code, at : Nat, req : Request]]
      BY <2>1, <2>10 DEF PollDeleteFails, TypeOK, PollSteps
    <3>2. lostDeletes' \in [DeviceCodes -> Nat]
      BY <2>2, <2>10 DEF PollDeleteFails, TypeOK, Code
    <3> QED
      BY <2>10, <3>1, <3>2 DEF PollDeleteFails, TypeOK
  <2>11. CASE PollTokensFail(p)
    <3>1. poller[p].code.verified_by \in Users /\ poller[p].code.dev \in DeviceCodes
          /\ poller[p].code.client \in Clients
      BY <2>2, <2>11 DEF PollTokensFail, StepInv, Code
    <3>2. devices' \subseteq [client : Clients, user : Users, dev : DeviceCodes]
      BY <2>11, <3>1 DEF PollTokensFail, TypeOK
    <3> QED
      BY <2>11, <3>2 DEF PollTokensFail, TypeOK, history
  <2>12. CASE PollCacheFails(p)
    <3>1. poller' \in [Pollers ->
            {Idle} \cup [step : PollSteps, code : Code, at : Nat, req : Request]]
      BY <2>1, <2>12 DEF PollCacheFails, TypeOK, PollSteps, AfterInterval
    <3> QED
      BY <2>12, <3>1 DEF PollCacheFails, TypeOK, history
  <2> QED
    BY <1>7, <2>3, <2>4, <2>5, <2>6, <2>7, <2>8, <2>9, <2>10, <2>11, <2>12 DEF Poll
<1>8. ASSUME NEW u \in Users, NEW s \in {"expired", "deleted"}, UserChanges(u, s)
      PROVE  TypeOK'
  BY <1>8 DEF UserChanges, TypeOK, history
<1>9. ASSUME Tick PROVE TypeOK'
  BY <1>9 DEF Tick, TypeOK, history
<1>10. CASE UNCHANGED vars
  BY <1>10 DEF vars, history, TypeOK
<1> QED
  BY <1>1, <1>2, <1>3, <1>4, <1>5, <1>6, <1>7, <1>8, <1>9, <1>10, <1>11 DEF Next

\* A poll that has passed the check of verified_by keeps a verified copy.
LEMMA StepNext == TypeOK /\ StepInv /\ [Next]_vars => StepInv'
<1> SUFFICES ASSUME TypeOK, StepInv, [Next]_vars,
                    NEW q \in Pollers, poller'[q].step \in {"user", "delete", "tokens"}
             PROVE  poller'[q].code.verified_by # NoUser
  BY DEF StepInv
<1>1. CASE UNCHANGED poller
  BY <1>1 DEF StepInv
<1>2. ASSUME NEW p \in Pollers, NEW d \in DeviceCodes, NEW c \in Clients,
             NEW s \in Secrets, PollFind(p, d, c, s)
      PROVE  poller'[q].code.verified_by # NoUser
  <2> DEFINE entry == Lookup(UserCodeOf[d])
             code == [entry.code EXCEPT !.warnings = Warned(entry.code)]
  <2>1. UserCodeOf[d] \in UserCodes /\ entry # NoEntry
    BY <1>2, DeviceAssumption DEF PollFind, Found, Outlived
  <2>2. entry.code \in Code
    BY <2>1, LookupType
  <2>3. code.verified_by = entry.code.verified_by
    BY <2>2 DEF Code
  <2>4. CASE q # p
    BY <1>2, <2>4 DEF PollFind, StepInv, TypeOK
  <2>5. CASE q = p
    <3>1. \E step \in {"drop_expired", "drop", AfterInterval(code)} :
            /\ poller'[p].step = step
            /\ step \in {"user", "delete", "tokens"} => poller'[p].code = code
      BY <1>2 DEF PollFind, TypeOK
    <3> QED
      BY <2>5, <3>1 DEF AfterInterval
  <2> QED
    BY <2>4, <2>5
<1>3. ASSUME NEW p \in Pollers, Poll(p)
      PROVE  poller'[q].code.verified_by # NoUser
  <2>1. poller[p] \in [step : PollSteps, code : Code, at : Nat, req : Request]
    BY <1>3 DEF Poll, PollDrop, PollDropExpired, PollUser, PollUserFails, PollDelete, PollDeleteFails, PollTokensFail, PollCacheFails,
                PollTokens, PollSave, TypeOK, Idle
  <2> QED
    BY <1>3, <2>1 DEF Poll, PollDrop, PollDropExpired, PollUser, PollUserFails, PollDelete, PollDeleteFails, PollTokensFail, PollCacheFails,
                PollTokens, PollSave, TypeOK, Idle, StepInv, AfterInterval
<1> QED
  BY <1>1, <1>2, <1>3 DEF Next, DeviceAuth, VerifyFind, VerifyAccept,
     VerifyDelete, VerifyFails, PollRejected, UserChanges, Tick, vars

\* Every reachable state is well-typed; in particular the warning counter stays
\* within its width, and a device row always has a user (grant_type_device_code).
THEOREM TypeCorrect == Spec => [](TypeOK /\ StepInv)
BY TypeInit, TypeNext, StepNext, PTL DEF Spec

-----------------------------------------------------------------------------
\* What was granted stays granted, and the fields a save or a poll changes do
\* not matter.
LEMMA GrantedMono ==
    ASSUME NEW code, NEW R1, NEW R2, NEW A1, NEW A2,
           R1 \subseteq R2, A1 \subseteq A2, Granted(code, R1, A1)
    PROVE  Granted(code, R2, A2)
BY DEF Granted

\* Warnings and polls do not change what was granted.
LEMMA GrantedSame ==
    ASSUME NEW code, NEW other, NEW R, NEW A, Granted(code, R, A),
           other.dev = code.dev, other.client = code.client,
           other.secret = code.secret, other.exp = code.exp,
           other.verified_by = code.verified_by
    PROVE  Granted(other, R, A)
BY DEF Granted

\* What was requested and accepted stays so.
LEMMA HistoryGrows ==
    ASSUME Next
    PROVE  requested \subseteq requested' /\ accepted \subseteq accepted'
BY DEF Next, DeviceAuth, VerifyFind, VerifyAccept, VerifyDelete, VerifyFails, PollFind,
       PollRejected, Poll, PollDrop, PollDropExpired, PollUser, PollUserFails, PollDelete, PollDeleteFails, PollTokensFail, PollCacheFails,
       PollTokens, PollSave, UserChanges, Tick, history, vars

\* Nothing is cached, held or issued initially.
LEMMA GrantInit == Init => GrantInv
BY DEF Init, GrantInv, CacheInv, VerifierInv, PollerInv, TokensOnlyIfGranted,
       Idle, PollSteps

\* An action that puts a granted copy, deletes, or leaves the cache alone.
LEMMA CacheKept ==
    ASSUME TypeOK, CacheInv, Next,
           \A uc \in UserCodes : cache'[uc] # NoEntry =>
               \/ cache'[uc] = cache[uc]
               \/ Granted(cache'[uc].code, requested', accepted')
    PROVE  CacheInv'
<1> SUFFICES ASSUME NEW uc \in UserCodes, cache'[uc] # NoEntry
             PROVE  Granted(cache'[uc].code, requested', accepted')
  BY DEF CacheInv
<1>1. CASE cache'[uc] = cache[uc]
  <2>1. Granted(cache[uc].code, requested, accepted)
    BY <1>1 DEF CacheInv
  <2> QED
    BY <1>1, <2>1, GrantedMono, HistoryGrows
<1> QED
  BY <1>1

\* Every action leaves only granted copies in the cache.
LEMMA CacheNext == TypeOK /\ StepInv /\ GrantInv /\ Next => CacheInv'
<1> SUFFICES ASSUME TypeOK, StepInv, GrantInv, Next PROVE CacheInv'
  OBVIOUS
<1> USE DEF GrantInv
<1>1. ASSUME NEW d \in DeviceCodes, NEW c \in Clients, NEW s \in Secrets,
             DeviceAuth(d, c, s)
      PROVE  CacheInv'
  <2> DEFINE code == [dev |-> d, client |-> c, secret |-> s,
                 verified_by |-> NoUser, exp |-> now + CodeLifetime,
                 last_poll |-> now, warnings |-> 0]
             asked == [dev |-> d, client |-> c, secret |-> s, created |-> now]
  <2>1. code \in Code /\ UserCodeOf[d] \in UserCodes
    BY DeviceAssumption DEF Code, TypeOK
  <2>2. CachePut(UserCodeOf[d], code)
    BY <1>1 DEF DeviceAuth
  <2>3. asked \in requested'
    BY <1>1 DEF DeviceAuth
  <2>4. Granted(code, requested', accepted')
    BY <2>3 DEF Granted
  <2>5. /\ cache'[UserCodeOf[d]].code = code
        /\ \A k \in UserCodes : k # UserCodeOf[d] => cache'[k] \in {cache[k], NoEntry}
    BY <2>1, <2>2, CachePutType
  <2> QED
    BY <2>4, <2>5, CacheKept
<1>2. ASSUME NEW v \in Verifiers, VerifyAccept(v) PROVE CacheInv'
  <2> DEFINE code == verifier[v].code
             user == verifier[v].user
             new == [code EXCEPT !.verified_by = user]
  <2>1. verifier[v] \in [step : VerifySteps, code : Code, user : Users] /\ verifier[v] # Idle
    BY <1>2 DEF VerifyAccept, TypeOK, Idle
  <2>2. code \in Code /\ user \in Users
    BY <2>1
  <2>3. new \in Code /\ UserCodeOf[code.dev] \in UserCodes
    BY <2>2, DeviceAssumption DEF Code
  <2>4. Granted(code, requested, accepted)
    BY <2>1 DEF VerifierInv
  <2>5. <<code.dev, user>> \in accepted' /\ requested' = requested
    BY <1>2 DEF VerifyAccept
  <2>6. new.dev = code.dev /\ new.client = code.client /\ new.secret = code.secret
        /\ new.exp = code.exp /\ new.verified_by = user
    BY <2>2 DEF Code
  <2>7. Granted(new, requested', accepted')
    BY <2>4, <2>5, <2>6 DEF Granted
  <2>8. CachePut(UserCodeOf[code.dev], new)
    BY <1>2 DEF VerifyAccept
  <2>9. /\ cache'[UserCodeOf[code.dev]].code = new
        /\ \A k \in UserCodes :
              k # UserCodeOf[code.dev] => cache'[k] \in {cache[k], NoEntry}
    BY <2>3, <2>8, CachePutType
  <2> QED
    BY <2>7, <2>9, CacheKept
<1>3. ASSUME NEW uc \in UserCodes, CacheDel(uc) PROVE CacheInv'
  BY <1>3, CacheDelType, CacheKept
<1>4. ASSUME NEW p \in Pollers, Poll(p) PROVE CacheInv'
  <2>1. poller[p] \in [step : PollSteps, code : Code, at : Nat, req : Request]
    BY <1>4 DEF Poll, PollDrop, PollDropExpired, PollUser, PollUserFails, PollDelete, PollDeleteFails, PollTokensFail, PollCacheFails,
                PollTokens, PollSave, TypeOK, Idle
  <2>2. poller[p].code \in Code /\ UserCodeOf[poller[p].code.dev] \in UserCodes
    BY <2>1, DeviceAssumption DEF Code
  <2>3. CASE PollSave(p)
    <3> DEFINE code == poller[p].code
               new == [code EXCEPT !.last_poll = poller[p].at]
    <3>1. new \in Code
      BY <2>1 DEF Code
    <3>2. Granted(code, requested, accepted)
      BY <2>3 DEF PollSave, PollerInv, PollSteps
    <3>3. new.dev = code.dev /\ new.client = code.client /\ new.secret = code.secret
          /\ new.exp = code.exp /\ new.verified_by = code.verified_by
      BY <2>2 DEF Code
    <3>4. Granted(new, requested', accepted')
      BY <2>3, <3>2, <3>3, GrantedSame DEF PollSave, history
    <3>5. /\ cache'[UserCodeOf[code.dev]].code = new
          /\ \A k \in UserCodes :
                k # UserCodeOf[code.dev] => cache'[k] \in {cache[k], NoEntry}
      BY <2>2, <2>3, <3>1, CachePutType DEF PollSave
    <3> QED
      BY <3>4, <3>5, CacheKept
  <2>4. CASE UNCHANGED cache
    BY <2>4, CacheKept
  <2> QED
    BY <1>3, <1>4, <2>2, <2>3, <2>4 DEF Poll, PollDrop, PollDropExpired,
       PollUser, PollUserFails, PollDelete, PollDeleteFails, PollTokensFail, PollCacheFails, PollTokens
<1>5. ASSUME NEW v \in Verifiers, VerifyDelete(v) PROVE CacheInv'
  <2>1. verifier[v] \in [step : VerifySteps, code : Code, user : Users]
    BY <1>5 DEF VerifyDelete, TypeOK, Idle
  <2>2. UserCodeOf[verifier[v].code.dev] \in UserCodes
    BY <2>1, DeviceAssumption DEF Code
  <2> QED
    BY <1>3, <1>5, <2>2 DEF VerifyDelete
<1>6. CASE UNCHANGED cache
  BY <1>6, CacheKept
<1> QED
  BY <1>1, <1>2, <1>4, <1>5, <1>6 DEF Next, VerifyFind, VerifyFails, PollFind, PollRejected,
     UserChanges, Tick, vars

\* Every action leaves only granted copies with the verify handlers.
LEMMA VerifierNext == TypeOK /\ GrantInv /\ Next => VerifierInv'
<1> SUFFICES ASSUME TypeOK, GrantInv, Next, NEW v \in Verifiers, verifier'[v] # Idle
             PROVE  Granted(verifier'[v].code, requested', accepted')
  BY DEF VerifierInv
<1> USE DEF GrantInv
<1>1. CASE verifier'[v] = verifier[v]
  <2>1. Granted(verifier[v].code, requested, accepted)
    BY <1>1 DEF VerifierInv
  <2> QED
    BY <1>1, <2>1, GrantedMono, HistoryGrows
<1>2. ASSUME NEW w \in Verifiers, NEW u \in Users, NEW uc \in UserCodes,
             NEW choice \in {"accept", "decline"}, VerifyFind(w, u, uc, choice), v = w
      PROVE  Granted(verifier'[v].code, requested', accepted')
  <2>1. Lookup(uc) # NoEntry
    BY <1>2 DEF VerifyFind, Found, Outlived
  <2>2. Lookup(uc) = cache[uc] /\ cache[uc] # NoEntry
    BY <2>1, LookupType
  <2>3. Granted(cache[uc].code, requested, accepted)
    BY <2>2 DEF CacheInv
  <2>4. verifier'[v].code = cache[uc].code
    BY <1>2, <2>2 DEF VerifyFind, TypeOK
  <2> QED
    BY <2>3, <2>4, GrantedMono, HistoryGrows
<1>3. ASSUME NEW w \in Verifiers, VerifyAccept(w) \/ VerifyDelete(w) \/ VerifyFails(w)
      PROVE  verifier'[v] = verifier[v]
  BY <1>3 DEF VerifyAccept, VerifyDelete, VerifyFails, TypeOK
<1>4. ASSUME NEW w \in Verifiers, NEW u \in Users, NEW uc \in UserCodes,
             NEW choice \in {"accept", "decline"}, VerifyFind(w, u, uc, choice), v # w
      PROVE  verifier'[v] = verifier[v]
  BY <1>4 DEF VerifyFind, TypeOK
<1>5. CASE UNCHANGED verifier
  BY <1>1, <1>5
<1> QED
  BY <1>1, <1>2, <1>3, <1>4, <1>5 DEF Next, DeviceAuth, PollFind, PollRejected,
     Poll, PollDrop, PollDropExpired, PollUser, PollUserFails, PollDelete, PollDeleteFails, PollTokensFail, PollCacheFails, PollTokens, PollSave,
     UserChanges, Tick, vars

\* A granted, matching copy of a running poll stays one when its step moves on.
LEMMA PollerKept ==
    ASSUME PollerInv, Next, NEW q \in Pollers,
           poller[q].step \in PollSteps \ {"drop_expired"},
           poller'[q].code = poller[q].code, poller'[q].req = poller[q].req,
           poller'[q].at = poller[q].at
    PROVE  /\ Granted(poller'[q].code, requested', accepted')
           /\ poller'[q].req = <<poller'[q].code.dev, poller'[q].code.client,
                                 poller'[q].code.secret>>
           /\ poller'[q].at <= poller'[q].code.exp
<1>1. Granted(poller[q].code, requested, accepted)
  BY DEF PollerInv
<1>2. Granted(poller[q].code, requested', accepted')
  BY <1>1, GrantedMono, HistoryGrows
<1> QED
  BY <1>2 DEF PollerInv

\* Every action leaves only granted and matching copies with the polls.
LEMMA PollerNext == TypeOK /\ GrantInv /\ Next => PollerInv'
<1> DEFINE Goal(q) == /\ Granted(poller'[q].code, requested', accepted')
                      /\ poller'[q].req = <<poller'[q].code.dev,
                            poller'[q].code.client, poller'[q].code.secret>>
                      /\ poller'[q].at <= poller'[q].code.exp
<1> SUFFICES ASSUME TypeOK, GrantInv, Next, NEW q \in Pollers,
                    poller'[q].step \in PollSteps \ {"drop_expired"}
             PROVE  Goal(q)
  BY DEF PollerInv
<1> USE DEF GrantInv
<1>1. CASE poller'[q] = poller[q]
  BY <1>1, PollerKept
<1>2. ASSUME NEW d \in DeviceCodes, NEW c \in Clients,
             NEW s \in Secrets, PollFind(q, d, c, s)
      PROVE  Goal(q)
  <2> DEFINE entry == Lookup(UserCodeOf[d])
             code == [entry.code EXCEPT !.warnings = Warned(entry.code)]
  <2>1. UserCodeOf[d] \in UserCodes /\ entry # NoEntry
    BY <1>2, DeviceAssumption DEF PollFind, Found, Outlived
  <2>2. entry.code \in Code /\ entry = cache[UserCodeOf[d]]
    BY <2>1, LookupType
  <2>3. code.dev = entry.code.dev /\ code.client = entry.code.client
        /\ code.secret = entry.code.secret /\ code.exp = entry.code.exp
        /\ code.verified_by = entry.code.verified_by
    BY <2>2 DEF Code
  <2>4. Granted(entry.code, requested, accepted)
    BY <2>1, <2>2 DEF CacheInv
  <2>5. Granted(code, requested', accepted')
    <3> HIDE DEF code, entry
    <3>1. Granted(code, requested, accepted)
      BY <2>3, <2>4, GrantedSame
    <3> QED
      BY <3>1, GrantedMono, HistoryGrows
  <2>6. /\ poller'[q].code = code /\ poller'[q].at = now
        /\ poller'[q].req = <<d, c, s>>
        /\ Found(entry) /\ PollMatches(entry.code, d, c, s)
    BY <1>2 DEF PollFind, TypeOK, PollSteps
  <2>7. now <= code.exp
    BY <2>2, <2>3, <2>6 DEF Found, Outlived, TypeOK, Code
  <2> QED
    BY <2>3, <2>5, <2>6, <2>7 DEF PollMatches
<1>3. ASSUME NEW p \in Pollers, NEW d \in DeviceCodes, NEW c \in Clients,
             NEW s \in Secrets, PollFind(p, d, c, s), p # q
      PROVE  poller'[q] = poller[q]
  BY <1>3 DEF PollFind, TypeOK
<1>4. ASSUME NEW p \in Pollers, Poll(p) PROVE Goal(q)
  <2>1. CASE p # q
    <3>1. poller'[q] = poller[q]
      BY <1>4, <2>1 DEF Poll, PollDrop, PollDropExpired, PollUser, PollUserFails, PollDelete, PollDeleteFails, PollTokensFail, PollCacheFails,
                PollTokens, PollSave, TypeOK
    <3> QED
      BY <1>1, <3>1
  <2>2. CASE p = q
    <3>1. poller[q] \in [step : PollSteps, code : Code, at : Nat, req : Request]
      BY <1>4, <2>2 DEF Poll, PollDrop, PollDropExpired, PollUser, PollUserFails, PollDelete, PollDeleteFails, PollTokensFail, PollCacheFails,
                PollTokens, PollSave, TypeOK, Idle
    <3>2. /\ poller[q].step \in PollSteps \ {"drop_expired"}
          /\ poller'[q].code = poller[q].code /\ poller'[q].req = poller[q].req
          /\ poller'[q].at = poller[q].at
      BY <1>4, <2>2, <3>1 DEF Poll, PollDrop, PollDropExpired, PollUser, PollUserFails, PollDelete, PollDeleteFails, PollTokensFail, PollCacheFails,
                PollTokens, PollSave, TypeOK, Idle, PollSteps
    <3> QED
      BY <3>2, PollerKept
  <2> QED
    BY <2>1, <2>2
<1>5. CASE UNCHANGED poller
  BY <1>1, <1>5
<1> QED
  BY <1>1, <1>2, <1>3, <1>4, <1>5 DEF Next, DeviceAuth, VerifyFind, VerifyAccept,
     VerifyDelete, VerifyFails, PollRejected, UserChanges, Tick, vars

\* Every action issues tokens only for what was granted.
LEMMA TokensNext ==
    TypeOK /\ StepInv /\ GrantInv /\ Next => TokensOnlyIfGranted'
<1> SUFFICES ASSUME TypeOK, StepInv, GrantInv, Next, NEW t \in issued'
             PROVE  /\ <<t.req[1], t.user>> \in accepted'
                    /\ \E r \in requested' :
                          /\ <<r.dev, r.client, r.secret>> = t.req
                          /\ t.at <= r.created + CodeLifetime
  BY DEF TokensOnlyIfGranted
<1> USE DEF GrantInv
<1>1. CASE t \in issued
  BY <1>1, HistoryGrows DEF TokensOnlyIfGranted
<1>2. ASSUME NEW p \in Pollers, PollTokens(p), t \notin issued
      PROVE  /\ <<t.req[1], t.user>> \in accepted
             /\ \E r \in requested :
                   /\ <<r.dev, r.client, r.secret>> = t.req
                   /\ t.at <= r.created + CodeLifetime
  <2>1. t = [req |-> poller[p].req, user |-> poller[p].code.verified_by,
             at |-> poller[p].at]
    BY <1>2 DEF PollTokens
  <2>2. /\ Granted(poller[p].code, requested, accepted)
        /\ poller[p].req = <<poller[p].code.dev, poller[p].code.client,
                             poller[p].code.secret>>
        /\ poller[p].at <= poller[p].code.exp
        /\ poller[p].code.verified_by # NoUser
    BY <1>2 DEF PollTokens, PollerInv, PollSteps, StepInv
  <2> QED
    BY <2>1, <2>2 DEF Granted
<1>3. CASE \E p \in Pollers : PollTokens(p)
  BY <1>1, <1>2, <1>3, HistoryGrows
<1>4. CASE UNCHANGED issued
  BY <1>1, <1>4
<1> QED
  BY <1>3, <1>4 DEF Next, DeviceAuth, VerifyFind, VerifyAccept, VerifyDelete, VerifyFails,
     PollFind, PollRejected, Poll, PollDrop, PollDropExpired, PollUser, PollUserFails,
     PollDelete, PollDeleteFails, PollTokensFail, PollCacheFails, PollSave, UserChanges, Tick, history, vars

\* A stuttering step keeps the invariant.
LEMMA GrantStutter == GrantInv /\ UNCHANGED vars => GrantInv'
BY DEF GrantInv, CacheInv, VerifierInv, PollerInv, TokensOnlyIfGranted, vars,
       history

\* Whatever the interleaving of polls, verifications, expiries and evictions, a
\* device is given tokens only for a code its user accepted, that was requested
\* with the same client and secret, and within the lifetime of that code
\* (grant_type_device_code, post_device_verify).
THEOREM DeviceTokensGranted == Spec => []TokensOnlyIfGranted
<1>1. Init => TypeOK /\ StepInv /\ GrantInv
  BY TypeInit, GrantInit
<1>2. TypeOK /\ StepInv /\ GrantInv /\ [Next]_vars => (TypeOK /\ StepInv /\ GrantInv)'
  BY TypeNext, StepNext, CacheNext, VerifierNext, PollerNext, TokensNext,
     GrantStutter DEF GrantInv
<1>3. GrantInv => TokensOnlyIfGranted
  BY DEF GrantInv
<1> QED
  BY <1>1, <1>2, <1>3, PTL DEF Spec

-----------------------------------------------------------------------------
\* How often a device code is answered with tokens

\* A poll with a verified copy that has not deleted the code yet, one that has, and a
\* code that is there for any poll to find
Holds(q, d) == q.step \in {"drop", "user", "delete"} /\ q.code.dev = d /\ q.code.verified_by # NoUser
Spends(q, d) == q.step = "tokens" /\ q.code.dev = d
Holding(d) == {p \in Pollers : Holds(poller[p], d)}
Spending(d) == {p \in Pollers : Spends(poller[p], d)}
Live(d) ==
    LET e == cache[UserCodeOf[d]] IN e # NoEntry /\ e.code.dev = d /\ e.code.verified_by # NoUser

\* An Accept pays for one answer by every poll.  Answers that were given, and polls that
\* are past the delete, are paid for; so are the polls that hold a copy, or, as
\* long as the code can be found, all of them.  A delete that failed pays for the answer of
\* the poll that goes on, which may find the code again.
Budget(d) ==
    issueCount[d] + Cardinality(Spending(d))
        + (IF Live(d) THEN Cardinality(Pollers) ELSE Cardinality(Holding(d)))
      <= acceptCount[d] * Cardinality(Pollers) + lostDeletes[d]

BudgetInv == \A d \in DeviceCodes : Budget(d)

\* What a poll puts back into the cache was not verified when it was found.
SaveInv == \A p \in Pollers : poller[p].step = "save" => poller[p].code.verified_by = NoUser

\* One poll leaves a set of polls, or comes into it.
LEMMA PollersCounted ==
    ASSUME NEW S \in SUBSET Pollers, NEW p \in Pollers
    PROVE  /\ Cardinality(S) \in Nat /\ Cardinality(S) <= Cardinality(Pollers) /\ Cardinality(Pollers) \in Nat
           /\ Cardinality(S \ {p}) = IF p \in S THEN Cardinality(S) - 1 ELSE Cardinality(S)
           /\ Cardinality((S \ {p}) \cup {p}) = Cardinality(S \ {p}) + 1
<1>1. IsFiniteSet(Pollers)
  BY DeviceAssumption
<1>2. IsFiniteSet(S) /\ Cardinality(S) \in Nat /\ Cardinality(S) <= Cardinality(Pollers) /\ Cardinality(Pollers) \in Nat
  BY <1>1, FS_Subset, FS_CardinalityType
<1>3. IsFiniteSet(S \ {p}) /\ Cardinality(S \ {p}) = IF p \in S THEN Cardinality(S) - 1 ELSE Cardinality(S)
  BY <1>2, FS_RemoveElement
<1>4. Cardinality((S \ {p}) \cup {p}) = Cardinality(S \ {p}) + 1
  BY <1>3, FS_AddElement
<1> QED BY <1>2, <1>3, <1>4

\* What a poll goes on with decides what it counts for.
LEMMA PollMoves ==
    ASSUME TypeOK, NEW p \in Pollers, NEW q, poller' = [poller EXCEPT ![p] = q], NEW d \in DeviceCodes
    PROVE  /\ Holding(d)' = (Holding(d) \ {p}) \cup (IF Holds(q, d) THEN {p} ELSE {})
           /\ Spending(d)' = (Spending(d) \ {p}) \cup (IF Spends(q, d) THEN {p} ELSE {})
<1>1. poller'[p] = q /\ \A x \in Pollers \ {p} : poller'[x] = poller[x]
  BY DEF TypeOK
<1>2. Holding(d)' = {x \in Pollers : Holds(poller'[x], d)} /\ Spending(d)' = {x \in Pollers : Spends(poller'[x], d)}
  BY DEF Holding, Spending, Holds, Spends
<1> QED BY <1>1, <1>2 DEF Holding, Spending

\* A cache that loses entries, or gets one that is not verified, brings no code to life.
LEMMA NotRevived ==
    ASSUME TypeOK, NEW d \in DeviceCodes, NEW uc \in UserCodes,
           \A k \in UserCodes : k # uc => cache'[k] \in {cache[k], NoEntry},
           cache'[uc] = NoEntry \/ cache'[uc].code.verified_by = NoUser \/ cache'[uc].code.dev # d,
           Live(d)'
    PROVE  Live(d)
<1>1. UserCodeOf[d] \in UserCodes
  BY DeviceAssumption
<1> QED BY <1>1 DEF Live

\* One poll moves, tokens may be handed out, and no code is accepted.
LEMMA BudgetMoves ==
    ASSUME TypeOK, NEW d \in DeviceCodes, Budget(d), NEW p \in Pollers, NEW q,
           poller' = [poller EXCEPT ![p] = q],
           acceptCount'[d] = acceptCount[d],
           issueCount'[d] \in Nat, issueCount'[d] <= issueCount[d] + (IF p \in Spending(d) THEN 1 ELSE 0),
           Live(d)' => Live(d),
           Holds(q, d) => p \in Holding(d) \/ Live(d)',
           lostDeletes'[d] \in {lostDeletes[d], lostDeletes[d] + 1},
           Spends(q, d) => p \in Holding(d) /\ (Live(d)' => lostDeletes'[d] = lostDeletes[d] + 1),
           p \in Spending(d) => p \notin Holding(d) /\ ~Holds(q, d) /\ ~Spends(q, d)
    PROVE  Budget(d)'
<1> DEFINE N == Cardinality(Pollers)
           H == Holding(d)
           S == Spending(d)
           h == Cardinality(H)
           s == Cardinality(S)
           a == acceptCount[d] * N
           l == lostDeletes[d]
<1>1. H \in SUBSET Pollers /\ S \in SUBSET Pollers
  BY DEF Holding, Spending
<1>2. /\ h \in Nat /\ s \in Nat /\ N \in Nat /\ h <= N
      /\ Cardinality(H \ {p}) = IF p \in H THEN h - 1 ELSE h
      /\ Cardinality((H \ {p}) \cup {p}) = Cardinality(H \ {p}) + 1
      /\ Cardinality(S \ {p}) = IF p \in S THEN s - 1 ELSE s
      /\ Cardinality((S \ {p}) \cup {p}) = Cardinality(S \ {p}) + 1
  BY <1>1, PollersCounted
<1>3. Holding(d)' \in SUBSET Pollers
  BY DEF Holding
<1>4. Cardinality(Holding(d)') <= N
  BY <1>3, PollersCounted
<1>5. /\ Holding(d)' = (H \ {p}) \cup (IF Holds(q, d) THEN {p} ELSE {})
      /\ Spending(d)' = (S \ {p}) \cup (IF Spends(q, d) THEN {p} ELSE {})
  BY PollMoves
<1>6. issueCount[d] \in Nat /\ acceptCount[d] \in Nat /\ l \in Nat /\ lostDeletes'[d] \in {l, l + 1}
  BY DEF TypeOK
<1>7. issueCount[d] + s + (IF Live(d) THEN N ELSE h) <= a + l
  BY DEF Budget
<1>8. Cardinality(Holding(d)') = (IF p \in H THEN h - 1 ELSE h) + (IF Holds(q, d) THEN 1 ELSE 0)
  <2>1. CASE Holds(q, d)
    <3>1. Holding(d)' = (H \ {p}) \cup {p}
      BY <1>5, <2>1
    <3> QED BY <1>2, <2>1, <3>1
  <2>2. CASE ~Holds(q, d)
    <3>1. Holding(d)' = H \ {p}
      BY <1>5, <2>2
    <3> QED BY <1>2, <2>2, <3>1
  <2> QED BY <2>1, <2>2
<1>9. Cardinality(Spending(d)') = (IF p \in S THEN s - 1 ELSE s) + (IF Spends(q, d) THEN 1 ELSE 0)
  <2>1. CASE Spends(q, d)
    <3>1. Spending(d)' = (S \ {p}) \cup {p}
      BY <1>5, <2>1
    <3> QED BY <1>2, <2>1, <3>1
  <2>2. CASE ~Spends(q, d)
    <3>1. Spending(d)' = S \ {p}
      BY <1>5, <2>2
    <3> QED BY <1>2, <2>2, <3>1
  <2> QED BY <2>1, <2>2
<1>10. p \in H => h >= 1
  <2>1. Cardinality(H \ {p}) \in Nat
    BY <1>1, PollersCounted
  <2> QED BY <1>2, <2>1
<1>11. a \in Nat
  BY <1>2, <1>6
<1>14. Spends(q, d) => ~Holds(q, d)
  BY DEF Spends, Holds
<1>15. Spends(q, d) => p \in H /\ (Live(d)' => lostDeletes'[d] = l + 1)
  OBVIOUS
<1> HIDE DEF N, H, S, h, s, a, l
<1>12. issueCount'[d] + Cardinality(Spending(d)') + (IF Live(d)' THEN N ELSE Cardinality(Holding(d)')) <= a + lostDeletes'[d]
  <2>1. CASE Live(d)'
    BY <1>2, <1>6, <1>7, <1>9, <1>11, <1>15, <2>1 DEF S
  <2>2. CASE ~Live(d)' /\ Live(d)
    BY <1>2, <1>4, <1>6, <1>7, <1>8, <1>9, <1>10, <1>11, <1>14, <1>15, <2>2 DEF S, H
  <2>3. CASE ~Live(d)' /\ ~Live(d)
    BY <1>2, <1>6, <1>7, <1>8, <1>9, <1>10, <1>11, <1>14, <1>15, <2>3 DEF S, H
  <2> QED BY <2>1, <2>2, <2>3
<1>13. acceptCount'[d] * N = a
  BY DEF a
<1> QED BY <1>12, <1>13 DEF Budget, N

\* No poll moves, nothing is handed out and no code comes to life.
LEMMA BudgetKept ==
    ASSUME TypeOK, NEW d \in DeviceCodes, Budget(d), UNCHANGED <<poller, issueCount, lostDeletes>>,
           acceptCount'[d] = acceptCount[d], Live(d)' => Live(d)
    PROVE  Budget(d)'
<1>1. Holding(d)' = Holding(d) /\ Spending(d)' = Spending(d)
  BY DEF Holding, Spending, Holds, Spends
<1>2. Holding(d) \in SUBSET Pollers /\ Spending(d) \in SUBSET Pollers
  BY DEF Holding, Spending
<1>3. /\ Cardinality(Holding(d)) \in Nat /\ Cardinality(Holding(d)) <= Cardinality(Pollers)
      /\ Cardinality(Spending(d)) \in Nat /\ Cardinality(Pollers) \in Nat
  BY <1>2, DeviceAssumption, FS_Subset, FS_CardinalityType
<1>4. issueCount[d] \in Nat /\ acceptCount[d] \in Nat /\ lostDeletes[d] \in Nat
  BY DEF TypeOK
<1> DEFINE a == acceptCount[d] * Cardinality(Pollers)
<1>5. a \in Nat /\ acceptCount'[d] * Cardinality(Pollers) = a
  BY <1>3, <1>4
<1>6. issueCount[d] + Cardinality(Spending(d)) + (IF Live(d) THEN Cardinality(Pollers) ELSE Cardinality(Holding(d))) <= a + lostDeletes[d]
  BY DEF Budget
<1> HIDE DEF a
<1>7. issueCount[d] + Cardinality(Spending(d)) + (IF Live(d)' THEN Cardinality(Pollers) ELSE Cardinality(Holding(d))) <= a + lostDeletes[d]
  BY <1>3, <1>4, <1>5, <1>6
<1> QED BY <1>1, <1>5, <1>7 DEF Budget

\* An Accept pays for all polls.
LEMMA BudgetAccept ==
    ASSUME TypeOK, NEW d \in DeviceCodes, Budget(d), UNCHANGED <<poller, issueCount, lostDeletes>>,
           acceptCount'[d] = acceptCount[d] + 1
    PROVE  Budget(d)'
<1>1. Holding(d)' = Holding(d) /\ Spending(d)' = Spending(d)
  BY DEF Holding, Spending, Holds, Spends
<1>2. Holding(d) \in SUBSET Pollers /\ Spending(d) \in SUBSET Pollers
  BY DEF Holding, Spending
<1>3. /\ Cardinality(Holding(d)) \in Nat /\ Cardinality(Holding(d)) <= Cardinality(Pollers)
      /\ Cardinality(Spending(d)) \in Nat /\ Cardinality(Pollers) \in Nat
  BY <1>2, DeviceAssumption, FS_Subset, FS_CardinalityType
<1>4. issueCount[d] \in Nat /\ acceptCount[d] \in Nat /\ lostDeletes[d] \in Nat
  BY DEF TypeOK
<1> DEFINE a == acceptCount[d] * Cardinality(Pollers)
<1>5. a \in Nat /\ acceptCount'[d] * Cardinality(Pollers) = a + Cardinality(Pollers)
  BY <1>3, <1>4
<1>6. issueCount[d] + Cardinality(Spending(d)) + (IF Live(d) THEN Cardinality(Pollers) ELSE Cardinality(Holding(d))) <= a + lostDeletes[d]
  BY DEF Budget
<1> HIDE DEF a
<1>7. issueCount[d] + Cardinality(Spending(d)) + (IF Live(d)' THEN Cardinality(Pollers) ELSE Cardinality(Holding(d)))
        <= a + Cardinality(Pollers) + lostDeletes[d]
  BY <1>3, <1>4, <1>5, <1>6
<1> QED BY <1>1, <1>5, <1>7 DEF Budget

\* Every action stays within the budget.
LEMMA BudgetNext ==
    TypeOK /\ TypeOK' /\ StepInv /\ SaveInv /\ BudgetInv /\ [Next]_vars => BudgetInv'
<1> SUFFICES ASSUME TypeOK, TypeOK', StepInv, SaveInv, BudgetInv, [Next]_vars, NEW d \in DeviceCodes
             PROVE  Budget(d)'
  BY DEF BudgetInv
<1> USE DEF history
<1>0. /\ Budget(d) /\ UserCodeOf[d] \in UserCodes /\ issueCount'[d] \in Nat /\ issueCount[d] \in Nat
      /\ lostDeletes[d] \in Nat
  BY DeviceAssumption DEF BudgetInv, TypeOK
<1>a. UNCHANGED cache => (Live(d)' => Live(d))
  BY DEF Live
<1>b. ASSUME NEW uc \in UserCodes, CacheDel(uc)
      PROVE  (Live(d)' => Live(d)) /\ (uc = UserCodeOf[d] => ~Live(d)')
  BY <1>b, CacheDelType, NotRevived DEF Live
<1>c. ASSUME NEW uc \in UserCodes, NEW code \in Code, CachePut(uc, code), code.verified_by = NoUser \/ code.dev # d
      PROVE  Live(d)' => Live(d)
  <2>1. cache'[uc].code = code /\ \A k \in UserCodes : k # uc => cache'[k] \in {cache[k], NoEntry}
    BY <1>c, CachePutType
  <2> QED BY <1>c, <2>1, NotRevived
<1>1. ASSUME NEW e \in DeviceCodes, NEW c \in Clients, NEW s \in Secrets, DeviceAuth(e, c, s)
      PROVE  Budget(d)'
  <2> DEFINE code == [dev |-> e, client |-> c, secret |-> s,
                 verified_by |-> NoUser, exp |-> now + CodeLifetime,
                 last_poll |-> now, warnings |-> 0]
  <2>1. code \in Code /\ UserCodeOf[e] \in UserCodes /\ code.verified_by = NoUser
    BY DeviceAssumption DEF Code, TypeOK
  <2>2. CachePut(UserCodeOf[e], code)
    BY <1>1 DEF DeviceAuth
  <2> HIDE DEF code
  <2>3. Live(d)' => Live(d)
    BY <1>c, <2>1, <2>2
  <2> QED BY <1>0, <1>1, <2>3, BudgetKept DEF DeviceAuth
<1>2. ASSUME NEW v \in Verifiers, VerifyAccept(v)
      PROVE  Budget(d)'
  <2> DEFINE code == verifier[v].code
             new == [code EXCEPT !.verified_by = verifier[v].user]
  <2>1. verifier[v] \in [step : VerifySteps, code : Code, user : Users]
    BY <1>2 DEF VerifyAccept, TypeOK, Idle
  <2>2. new \in Code /\ new.dev = code.dev /\ UserCodeOf[code.dev] \in UserCodes /\ code.dev \in DeviceCodes
    BY <2>1, DeviceAssumption DEF Code
  <2>3. /\ CachePut(UserCodeOf[code.dev], new) /\ acceptCount' = [acceptCount EXCEPT ![code.dev] = @ + 1]
        /\ UNCHANGED <<poller, issueCount, lostDeletes>>
    BY <1>2 DEF VerifyAccept
  <2> HIDE DEF new, code
  <2>4. CASE code.dev = d
    <3>1. acceptCount'[d] = acceptCount[d] + 1
      BY <2>3, <2>4 DEF TypeOK
    <3> QED BY <1>0, <2>3, <3>1, BudgetAccept
  <2>5. CASE code.dev # d
    <3>1. Live(d)' => Live(d)
      BY <1>c, <2>2, <2>3, <2>5
    <3>2. acceptCount'[d] = acceptCount[d]
      BY <2>2, <2>3, <2>5 DEF TypeOK
    <3> QED BY <1>0, <2>3, <3>1, <3>2, BudgetKept
  <2> QED BY <2>4, <2>5
<1>3. ASSUME NEW v \in Verifiers, VerifyDelete(v)
      PROVE  Budget(d)'
  <2>1. verifier[v] \in [step : VerifySteps, code : Code, user : Users]
    BY <1>3 DEF VerifyDelete, TypeOK, Idle
  <2>2. UserCodeOf[verifier[v].code.dev] \in UserCodes
    BY <2>1, DeviceAssumption DEF Code
  <2>3. Live(d)' => Live(d)
    BY <1>3, <1>b, <2>2 DEF VerifyDelete
  <2> QED BY <1>0, <1>3, <2>3, BudgetKept DEF VerifyDelete
<1>4. ASSUME NEW p \in Pollers, NEW e \in DeviceCodes, NEW c \in Clients,
             NEW s \in Secrets, PollFind(p, e, c, s)
      PROVE  Budget(d)'
  <2> DEFINE entry == Lookup(UserCodeOf[e])
             code == [entry.code EXCEPT !.warnings = Warned(entry.code)]
             q == poller'[p]
  <2>1. UserCodeOf[e] \in UserCodes /\ entry # NoEntry
    BY <1>4, DeviceAssumption DEF PollFind, Found, Outlived
  <2>2. entry = cache[UserCodeOf[e]] /\ entry.code \in Code
    BY <2>1, LookupType
  <2>3. code.verified_by = entry.code.verified_by /\ code.dev = entry.code.dev
    BY <2>2 DEF Code
  <2>4. poller' = [poller EXCEPT ![p] = q] /\ UNCHANGED <<cache, acceptCount, issueCount, lostDeletes>>
    BY <1>4 DEF PollFind, TypeOK
  <2>5. \/ q.step = "drop_expired"
        \/ /\ q.step \in {"drop", AfterInterval(code)} /\ q.code = code /\ entry.code.dev = e
    BY <1>4 DEF PollFind, TypeOK, PollMatches
  <2>6. ~Spends(q, d)
    BY <2>5 DEF Spends, AfterInterval
  <2>7. Holds(q, d) => Live(d)
    BY <2>1, <2>2, <2>3, <2>5 DEF Holds, Live
  <2>8. Live(d)' <=> Live(d)
    BY <2>4 DEF Live
  <2>9. p \notin Spending(d)
    BY <1>4 DEF PollFind, Spending, Spends, Idle
  <2>10. /\ acceptCount'[d] = acceptCount[d] /\ lostDeletes'[d] = lostDeletes[d]
         /\ issueCount'[d] <= issueCount[d] + (IF p \in Spending(d) THEN 1 ELSE 0)
    BY <1>0, <2>4
  <2> HIDE DEF q
  <2> QED BY <1>0, <2>4, <2>6, <2>7, <2>8, <2>9, <2>10, BudgetMoves
<1>5. ASSUME NEW p \in Pollers, Poll(p)
      PROVE  Budget(d)'
  <2> DEFINE q == poller'[p]
             code == poller[p].code
  <2>1. poller[p] \in [step : PollSteps, code : Code, at : Nat, req : Request]
    BY <1>5 DEF Poll, PollDrop, PollDropExpired, PollUser, PollUserFails, PollDelete, PollDeleteFails, PollTokensFail, PollCacheFails,
                PollTokens, PollSave, TypeOK, Idle
  <2>2. code \in Code /\ code.dev \in DeviceCodes /\ UserCodeOf[code.dev] \in UserCodes
    BY <2>1, DeviceAssumption DEF Code
  <2>3. poller' = [poller EXCEPT ![p] = q] /\ UNCHANGED acceptCount
    BY <1>5 DEF Poll, PollDrop, PollDropExpired, PollUser, PollUserFails, PollDelete, PollDeleteFails, PollTokensFail, PollCacheFails,
                PollTokens, PollSave, TypeOK
  <2>4. /\ p \in Holding(d) <=> Holds(poller[p], d)
        /\ p \in Spending(d) <=> Spends(poller[p], d)
        /\ acceptCount'[d] = acceptCount[d]
    BY <2>3 DEF Holding, Spending
  <2>11. issueCount' = issueCount => issueCount'[d] <= issueCount[d] + (IF p \in Spending(d) THEN 1 ELSE 0)
    BY <1>0
  <2>12. ~PollDeleteFails(p) => lostDeletes'[d] \in {lostDeletes[d], lostDeletes[d] + 1}
    BY <1>5 DEF Poll, PollDrop, PollDropExpired, PollUser, PollUserFails, PollDelete, PollTokens,
                PollTokensFail, PollCacheFails, PollSave
  <2>5. CASE PollDrop(p)
    <3>1. q.step = AfterInterval(code) /\ q.code = code
      BY <2>1, <2>5 DEF PollDrop, TypeOK
    <3>2. Live(d)' => Live(d)
      BY <1>b, <2>2, <2>5 DEF PollDrop
    <3>3. Holds(q, d) => p \in Holding(d)
      BY <2>4, <2>5, <3>1 DEF Holds, PollDrop
    <3>4. ~Spends(q, d) /\ p \notin Spending(d)
      BY <2>4, <2>5, <3>1 DEF Spends, PollDrop, AfterInterval
    <3> HIDE DEF q
    <3>5. issueCount'[d] <= issueCount[d] + (IF p \in Spending(d) THEN 1 ELSE 0)
      BY <2>11, <2>5 DEF PollDrop
    <3>9. lostDeletes'[d] \in {lostDeletes[d], lostDeletes[d] + 1}
      BY <1>5, <2>12, <2>5 DEF Poll, PollDeleteFails, PollDrop
    <3> QED BY <1>0, <2>3, <2>4, <3>2, <3>3, <3>4, <3>5, <3>9, BudgetMoves
  <2>6. CASE PollDropExpired(p)
    <3>1. q = Idle
      BY <2>6 DEF PollDropExpired, TypeOK
    <3>2. Live(d)' => Live(d)
      BY <1>b, <2>2, <2>6 DEF PollDropExpired
    <3>3. ~Holds(q, d) /\ ~Spends(q, d) /\ p \notin Spending(d)
      BY <2>4, <2>6, <3>1 DEF Holds, Spends, PollDropExpired, Idle
    <3> HIDE DEF q
    <3>5. issueCount'[d] <= issueCount[d] + (IF p \in Spending(d) THEN 1 ELSE 0)
      BY <2>11, <2>6 DEF PollDropExpired
    <3>9. lostDeletes'[d] \in {lostDeletes[d], lostDeletes[d] + 1}
      BY <1>5, <2>12, <2>6 DEF Poll, PollDeleteFails, PollDropExpired
    <3> QED BY <1>0, <2>3, <2>4, <3>2, <3>3, <3>5, <3>9, BudgetMoves
  <2>7. CASE PollUser(p)
    <3>1. q.step = "delete" /\ q.code = code
      BY <2>1, <2>7 DEF PollUser, TypeOK
    <3>2. (Live(d)' => Live(d)) /\ issueCount' = issueCount
      BY <1>a, <2>7 DEF PollUser
    <3>3. Holds(q, d) => p \in Holding(d)
      BY <2>4, <2>7, <3>1 DEF Holds, PollUser, Idle
    <3>4. ~Spends(q, d) /\ p \notin Spending(d)
      BY <2>4, <2>7, <3>1 DEF Spends, PollUser, Idle
    <3> HIDE DEF q
    <3>9. lostDeletes'[d] \in {lostDeletes[d], lostDeletes[d] + 1}
      BY <1>5, <2>12, <2>7 DEF Poll, PollDeleteFails, PollUser
    <3> QED BY <1>0, <2>3, <2>4, <2>11, <3>2, <3>3, <3>4, <3>9, BudgetMoves
  <2>8. CASE PollDelete(p)
    <3>1. q.step = "tokens" /\ q.code = code
      BY <2>1, <2>8 DEF PollDelete, TypeOK
    <3>2. (Live(d)' => Live(d)) /\ (code.dev = d => ~Live(d)') /\ issueCount' = issueCount
      BY <1>b, <2>2, <2>8 DEF PollDelete
    <3>3. code.verified_by # NoUser
      BY <2>8 DEF StepInv, PollDelete
    <3>4. Spends(q, d) => p \in Holding(d) /\ ~Live(d)'
      BY <2>4, <2>8, <3>1, <3>2, <3>3 DEF Spends, Holds, PollDelete
    <3>5. ~Holds(q, d) /\ p \notin Spending(d)
      BY <2>4, <2>8, <3>1 DEF Holds, Spends, PollDelete
    <3> HIDE DEF q
    <3>9. lostDeletes'[d] \in {lostDeletes[d], lostDeletes[d] + 1}
      BY <1>5, <2>12, <2>8 DEF Poll, PollDeleteFails, PollDelete
    <3> QED BY <1>0, <2>3, <2>4, <2>11, <3>2, <3>4, <3>5, <3>9, BudgetMoves
  <2>9. CASE PollTokens(p)
    <3>1. q = Idle
      BY <2>9 DEF PollTokens, TypeOK
    <3>2. Live(d)' => Live(d)
      BY <1>a, <2>9 DEF PollTokens
    <3>3. ~Holds(q, d) /\ ~Spends(q, d) /\ p \notin Holding(d)
      BY <2>4, <2>9, <3>1 DEF Holds, Spends, PollTokens, Idle
    <3>4. p \in Spending(d) <=> code.dev = d
      BY <2>4, <2>9 DEF Spends, PollTokens
    <3>5. issueCount'[d] <= issueCount[d] + (IF p \in Spending(d) THEN 1 ELSE 0)
      <4>1. issueCount' = [issueCount EXCEPT ![code.dev] = @ + 1] \/ issueCount' = issueCount
        BY <2>9 DEF PollTokens
      <4>2. issueCount'[d] \in {issueCount[d], IF code.dev = d THEN issueCount[d] + 1 ELSE issueCount[d]}
        BY <2>2, <4>1 DEF TypeOK
      <4> HIDE DEF code
      <4> QED BY <1>0, <3>4, <4>2
    <3> HIDE DEF q
    <3>9. lostDeletes'[d] \in {lostDeletes[d], lostDeletes[d] + 1}
      BY <1>5, <2>12, <2>9 DEF Poll, PollDeleteFails, PollTokens
    <3> QED BY <1>0, <2>3, <2>4, <3>2, <3>3, <3>5, <3>9, BudgetMoves
  <2>10. CASE PollSave(p)
    <3> DEFINE new == [code EXCEPT !.last_poll = poller[p].at]
    <3>1. q = Idle /\ issueCount' = issueCount /\ CachePut(UserCodeOf[code.dev], new)
      BY <2>10 DEF PollSave, TypeOK
    <3>2. new \in Code /\ new.verified_by = NoUser
      BY <2>1, <2>2, <2>10 DEF Code, SaveInv, PollSave
    <3>3. ~Holds(q, d) /\ ~Spends(q, d) /\ p \notin Spending(d)
      BY <2>4, <2>10, <3>1 DEF Holds, Spends, PollSave, Idle
    <3> HIDE DEF new, q
    <3>4. Live(d)' => Live(d)
      BY <1>c, <2>2, <3>1, <3>2
    <3>9. lostDeletes'[d] \in {lostDeletes[d], lostDeletes[d] + 1}
      BY <1>5, <2>12, <2>10 DEF Poll, PollDeleteFails, PollSave
    <3> QED BY <1>0, <2>3, <2>4, <2>11, <3>1, <3>3, <3>4, <3>9, BudgetMoves
  <2>13. CASE PollUserFails(p) \/ PollTokensFail(p)
    <3>1. q = Idle
      BY <2>13 DEF PollUserFails, PollTokensFail, TypeOK
    <3>2. (Live(d)' => Live(d)) /\ issueCount' = issueCount /\ lostDeletes' = lostDeletes
      BY <1>a, <2>13 DEF PollUserFails, PollTokensFail
    <3>3. ~Holds(q, d) /\ ~Spends(q, d)
      BY <3>1 DEF Holds, Spends, Idle
    <3>4. p \in Spending(d) => p \notin Holding(d)
      BY <2>4 DEF Holds, Spends
    <3> HIDE DEF q
    <3> QED BY <1>0, <2>3, <2>4, <2>11, <3>2, <3>3, <3>4, BudgetMoves
  <2>14. CASE PollCacheFails(p)
    <3>1. q = Idle \/ (poller[p].step = "drop" /\ q.step = AfterInterval(code) /\ q.code = code)
      BY <2>1, <2>14 DEF PollCacheFails, TypeOK
    <3>2. (Live(d)' => Live(d)) /\ issueCount' = issueCount /\ lostDeletes' = lostDeletes
      BY <1>a, <2>14 DEF PollCacheFails
    <3>3. Holds(q, d) => p \in Holding(d)
      BY <2>4, <3>1 DEF Holds, Idle
    <3>4. ~Spends(q, d) /\ p \notin Spending(d)
      BY <2>4, <2>14, <3>1 DEF Spends, PollCacheFails, AfterInterval, Idle
    <3> HIDE DEF q
    <3> QED BY <1>0, <2>3, <2>4, <2>11, <3>2, <3>3, <3>4, BudgetMoves
  <2>15. CASE PollDeleteFails(p)
    <3>1. q.step = "tokens" /\ q.code = code
      BY <2>1, <2>15 DEF PollDeleteFails, TypeOK
    <3>2. (Live(d)' => Live(d)) /\ issueCount' = issueCount
      BY <1>a, <2>15 DEF PollDeleteFails
    <3>3. lostDeletes'[d] = IF code.dev = d THEN lostDeletes[d] + 1 ELSE lostDeletes[d]
      BY <2>2, <2>15 DEF PollDeleteFails, TypeOK
    <3>4. code.verified_by # NoUser
      BY <2>15 DEF StepInv, PollDeleteFails
    <3>5. Spends(q, d) => p \in Holding(d) /\ lostDeletes'[d] = lostDeletes[d] + 1
      BY <2>4, <2>15, <3>1, <3>3, <3>4 DEF Spends, Holds, PollDeleteFails
    <3>6. ~Holds(q, d) /\ p \notin Spending(d)
      BY <2>4, <2>15, <3>1 DEF Holds, Spends, PollDeleteFails
    <3>7. lostDeletes'[d] \in {lostDeletes[d], lostDeletes[d] + 1}
      BY <3>3
    <3> HIDE DEF q
    <3> QED BY <1>0, <2>3, <2>4, <2>11, <3>2, <3>5, <3>6, <3>7, BudgetMoves
  <2> QED BY <1>5, <2>5, <2>6, <2>7, <2>8, <2>9, <2>10, <2>13, <2>14, <2>15 DEF Poll
<1>6. CASE UNCHANGED <<cache, poller, acceptCount, issueCount, lostDeletes>>
  BY <1>0, <1>a, <1>6, BudgetKept
<1> QED
  BY <1>1, <1>2, <1>3, <1>4, <1>5, <1>6 DEF Next, VerifyFind, VerifyFails, PollRejected, UserChanges, Tick, vars

\* Only a copy that is not verified goes on to be put back.
LEMMA SaveNext == TypeOK /\ SaveInv /\ [Next]_vars => SaveInv'
<1> SUFFICES ASSUME TypeOK, SaveInv, [Next]_vars, NEW q \in Pollers, poller'[q].step = "save"
             PROVE  poller'[q].code.verified_by = NoUser
  BY DEF SaveInv
<1>1. CASE UNCHANGED poller
  BY <1>1 DEF SaveInv
<1>2. ASSUME NEW p \in Pollers, NEW d \in DeviceCodes, NEW c \in Clients,
             NEW s \in Secrets, PollFind(p, d, c, s)
      PROVE  poller'[q].code.verified_by = NoUser
  <2> DEFINE code == [Lookup(UserCodeOf[d]).code EXCEPT !.warnings = Warned(Lookup(UserCodeOf[d]).code)]
  <2>1. CASE q # p
    BY <1>2, <2>1 DEF PollFind, SaveInv, TypeOK
  <2>2. CASE q = p
    <3>1. poller'[p].step \in {"drop_expired", "drop"}
            \/ (poller'[p].step = AfterInterval(code) /\ poller'[p].code = code)
      BY <1>2 DEF PollFind, TypeOK
    <3> QED BY <2>2, <3>1 DEF AfterInterval
  <2> QED BY <2>1, <2>2
<1>3. ASSUME NEW p \in Pollers, Poll(p)
      PROVE  poller'[q].code.verified_by = NoUser
  <2>1. poller[p] \in [step : PollSteps, code : Code, at : Nat, req : Request]
    BY <1>3 DEF Poll, PollDrop, PollDropExpired, PollUser, PollUserFails, PollDelete, PollDeleteFails, PollTokensFail, PollCacheFails,
                PollTokens, PollSave, TypeOK, Idle
  <2> QED
    BY <1>3, <2>1 DEF Poll, PollDrop, PollDropExpired, PollUser, PollUserFails, PollDelete, PollDeleteFails, PollTokensFail, PollCacheFails,
                PollTokens, PollSave, TypeOK, Idle, SaveInv, AfterInterval
<1> QED
  BY <1>1, <1>2, <1>3 DEF Next, DeviceAuth, VerifyFind, VerifyAccept,
     VerifyDelete, VerifyFails, PollRejected, UserChanges, Tick, vars

\* Nothing is issued or accepted in the beginning.
LEMMA BudgetInit == Init => SaveInv /\ BudgetInv
<1> SUFFICES ASSUME Init PROVE SaveInv /\ BudgetInv
  OBVIOUS
<1>1. SaveInv
  BY DEF Init, SaveInv, Idle
<1>2. ASSUME NEW d \in DeviceCodes PROVE Budget(d)
  <2>1. ~Live(d)
    BY DeviceAssumption DEF Init, Live
  <2>2. Holding(d) = {} /\ Spending(d) = {}
    BY DEF Init, Holding, Spending, Holds, Spends, Idle
  <2>3. Cardinality({}) = 0 /\ Cardinality(Pollers) \in Nat
    BY DeviceAssumption, FS_EmptySet, FS_CardinalityType
  <2>4. issueCount[d] = 0 /\ acceptCount[d] = 0 /\ lostDeletes[d] = 0
    BY DEF Init
  <2> QED BY <2>1, <2>2, <2>3, <2>4 DEF Budget
<1> QED BY <1>1, <1>2 DEF BudgetInv

\* However polls and Accepts overlap, a device code is answered with tokens at most as
\* often as it was accepted, times the number of polls that can run at the same time, and
\* once more for each delete that failed (grant_type_device_code deletes the code before
\* it builds the tokens, and only logs a failure).
THEOREM AcceptsBoundIssues == Spec => []IssuesBoundedByAccepts
<1> DEFINE I == TypeOK /\ StepInv /\ SaveInv /\ BudgetInv
<1>1. Init => I
  BY TypeInit, BudgetInit
<1>2. I /\ [Next]_vars => I'
  BY TypeNext, StepNext, SaveNext, BudgetNext
<1>3. I => IssuesBoundedByAccepts
  <2> SUFFICES ASSUME I, NEW d \in DeviceCodes
               PROVE  issueCount[d] <= acceptCount[d] * Cardinality(Pollers) + lostDeletes[d]
    BY DEF IssuesBoundedByAccepts
  <2>1. Holding(d) \in SUBSET Pollers /\ Spending(d) \in SUBSET Pollers
    BY DEF Holding, Spending
  <2>2. /\ Cardinality(Holding(d)) \in Nat /\ Cardinality(Spending(d)) \in Nat
        /\ Cardinality(Pollers) \in Nat
    BY <2>1, DeviceAssumption, FS_Subset, FS_CardinalityType
  <2>3. issueCount[d] \in Nat /\ acceptCount[d] \in Nat /\ lostDeletes[d] \in Nat /\ Budget(d)
    BY DEF TypeOK, BudgetInv
  <2> DEFINE a == acceptCount[d] * Cardinality(Pollers)
  <2>4. a \in Nat
    BY <2>2, <2>3
  <2>5. issueCount[d] + Cardinality(Spending(d))
          + (IF Live(d) THEN Cardinality(Pollers) ELSE Cardinality(Holding(d))) <= a + lostDeletes[d]
    BY <2>3 DEF Budget
  <2> HIDE DEF a
  <2>6. issueCount[d] <= a + lostDeletes[d]
    BY <2>2, <2>3, <2>4, <2>5
  <2> QED BY <2>6 DEF a
<1> QED BY <1>1, <1>2, <1>3, PTL DEF Spec
-----------------------------------------------------------------------------
(***************************************************************************)
(* Secrets.  An owner that is not spoilt is at rest, its row having the    *)
(* secret it was told and the cached copies agreeing with the row, or it   *)
(* is in the hands of one request, whose remaining steps say what of that  *)
(* holds already and what the request will write.  A migration that has    *)
(* spoilt nothing is the only request, and its remaining steps say which   *)
(* rows are under the new key.                                             *)
(***************************************************************************)

\* What is left to do of each kind of request
Save2 == <<"client_row", "client_cache">>
Save1 == <<"client_cache">>
Upd3 == <<"client_cache", "reg_cache", "commit">>
Upd2 == <<"reg_cache", "commit">>
Upd1 == <<"commit">>
Del2 == <<"client_delete", "client_forget">>
Del1 == <<"client_forget">>
DynDel3 == <<"client_delete", "client_forget", "reg_forget">>
DynDel2 == <<"client_forget", "reg_forget">>
DynDel1 == <<"reg_forget">>
Key2 == <<"key_row", "key_forget">>
KeyDel2 == <<"key_delete", "key_forget">>
Key1 == <<"key_forget">>
KeyFill1 == <<"key_cache">>
Prov4 == <<"provider_row", "provider_drop", "provider_fill", "provider_cache">>
ProvNew4 == <<"provider_insert", "provider_drop", "provider_fill", "provider_cache">>
Prov3 == <<"provider_drop", "provider_fill", "provider_cache">>
Prov2 == <<"provider_fill", "provider_cache">>
Prov1 == <<"provider_cache">>
ProvDel4 == <<"provider_delete", "provider_drop", "provider_fill", "provider_forget">>
ProvDel3 == <<"provider_drop", "provider_fill", "provider_forget">>
ProvDel2 == <<"provider_fill", "provider_forget">>
ProvDel1 == <<"provider_forget">>
MigC3 == <<"client_row", "client_cache", "migrate_keys">>
MigC2 == <<"client_cache", "migrate_keys">>
MigC1 == <<"migrate_keys">>
MigK3 == <<"key_row", "key_forget", "migrate_providers">>
MigK2 == <<"key_forget", "migrate_providers">>
MigK1 == <<"migrate_providers">>
MigP5 == <<"provider_row", "provider_drop", "provider_fill", "provider_cache", "migrated">>
MigP4 == <<"provider_drop", "provider_fill", "provider_cache", "migrated">>
MigP3 == <<"provider_fill", "provider_cache", "migrated">>
MigP2 == <<"provider_cache", "migrated">>
MigP1 == <<"migrated">>

Saves == {Save2, Save1}
Updates == {Upd3, Upd2, Upd1}
Deletes == {Del2, Del1, DynDel3, DynDel2, DynDel1}
ProvSaves == {Prov4, ProvNew4, Prov3, Prov2, Prov1}
ProvDeletes == {ProvDel4, ProvDel3, ProvDel2, ProvDel1}
Migrations == {MigC3, MigC2, MigC1, MigK3, MigK2, MigK1, MigP5, MigP4, MigP3, MigP2, MigP1}

Truthful(e) == e.kid = e.sec.k /\ e.kid = e.acc.k

\* What a request of each kind holds
Saving(q) == q.steps \in Saves /\ q.own = {"client"} /\ q.to = None /\ q.x \in ClientRows
Updating(q) ==
    /\ q.steps \in Updates /\ q.own = {"client", "reg"} /\ q.to = None
    /\ q.x \in ClientRows /\ q.x.dyn /\ Labelled(q.x) /\ q.t \in Secret
Deleting(q) ==
    /\ q.steps \in Deletes /\ q.own = {"client", "reg"} /\ q.to = None
    /\ q.tell = [o \in {"client", "reg"} |-> None]
KeySaving(q) ==
    /\ q.steps \in {Key2, Key1} /\ q.own = {"apikey"} /\ q.to = None
    /\ q.x \in ApiKeyRows /\ Truthful(q.x)
KeyDeleting(q) ==
    /\ q.steps \in {KeyDel2, Key1} /\ q.own = {"apikey"} /\ q.to = None
    /\ q.x = None /\ q.tell = Tell("apikey", None)
KeyFilling(q) == q.steps = KeyFill1 /\ q.own = {"apikey"} /\ q.to = None /\ q.tell = Quietly
ProvSaving(q) == q.steps \in ProvSaves /\ q.own = {"provider"} /\ q.to = None /\ q.x \in ProviderRecords
ProvDeleting(q) ==
    /\ q.steps \in ProvDeletes /\ q.own = {"provider"} /\ q.to = None
    /\ q.x = None /\ q.tell = Tell("provider", None)
Migrating(q) ==
    /\ q.steps \in Migrations /\ q.own = {"client", "apikey", "provider"} /\ q.to \in EncKeys
    /\ q.tell = Quietly
    /\ q.steps \in {MigC3, MigC2} => q.x \in ClientRows /\ q.x.sec # None /\ q.x.sec.k = q.to /\ q.x.kid = q.to
    /\ q.steps \in {MigK3, MigK2} => q.x \in ApiKeyRows /\ Truthful(q.x) /\ q.x.kid = q.to
    /\ q.steps \in {MigP5, MigP4, MigP3, MigP2} =>
          q.x \in ProviderRecords /\ q.x.sec # None /\ q.x.sec.k = q.to

Shape(q) ==
    /\ DOMAIN q = {"steps", "own", "x", "t", "tell", "to"}
    /\ DOMAIN q.tell \subseteq q.own /\ \A o \in DOMAIN q.tell : q.tell[o] \in {None} \cup Nat
    /\ \/ Saving(q) \/ Updating(q) \/ Deleting(q)
       \/ KeySaving(q) \/ KeyDeleting(q) \/ KeyFilling(q)
       \/ ProvSaving(q) \/ ProvDeleting(q) \/ Migrating(q)

ReqInv == DOMAIN req = Requests /\ \A r \in Requests : Active(r) => Shape(req[r])

StateInv ==
    /\ SecretsTypeOK
    /\ cClient \in {None} \cup ClientRows /\ cReg \in {None} \cup Secret
    /\ cAll \in {None} \cup SUBSET ProviderRecords
    /\ fresh \in Nat /\ ops \in 0 .. MaxOps /\ fresh <= 2 * ops + 1
    /\ told \in [Owners -> {None} \cup Nat] /\ spoilt \subseteq Owners
    /\ target \in {None} \cup EncKeys

LabelInv ==
    /\ apikey # None => Truthful(apikey)
    /\ client # None => stale \/ Labelled(client)

\* A copy of a client is as dynamic as the client.
Keeps(q) == q.steps \in Saves \cup Updates \cup {MigC3, MigC2}
DynInv ==
    client # None =>
        /\ cClient # None => cClient.dyn = client.dyn
        /\ \A r \in Requests : Active(r) /\ Keeps(req[r]) => req[r].x.dyn = client.dyn

\* Two requests for one owner spoil it.
BusyInv ==
    \A o \in Owners \ spoilt, r, s \in Requests :
        Active(r) /\ Active(s) /\ o \in req[r].own /\ o \in req[s].own => r = s

Answer(q, o) == IF o \in DOMAIN q.tell THEN q.tell[o] ELSE told[o]

\* The secret v is the one of the row c.
Has(c, v) == v # None => c # None /\ c.sec # None /\ c.sec.v = v
HasToken(t, v) == v # None => t # None /\ t.v = v

RestClient == cClient \in {None, client} /\ Has(client, told["client"])
WorkClient(q) ==
    /\ q.steps \in {Save2, MigC3} => client # None /\ cClient \in {None, client} /\ Has(q.x, Answer(q, "client"))
    /\ q.steps \in {Save1, MigC2} => client = q.x /\ Has(q.x, Answer(q, "client"))
    /\ q.steps \in Updates => client # None /\ Has(q.x, Answer(q, "client"))
    /\ q.steps \in {Upd2, Upd1} => cClient = q.x
    /\ q.steps \in {Del1, DynDel2, DynDel1} => client = None
    /\ q.steps = DynDel1 => cClient = None
    /\ q.steps \in Migrations \ {MigC3, MigC2} => RestClient

RestReg == cReg \in {None, reg} /\ HasToken(reg, told["reg"])
WorkReg(q) ==
    /\ q.steps \in Updates => reg # None /\ HasToken(q.t, Answer(q, "reg"))
    /\ q.steps = Upd1 => cReg = q.t
    /\ q.steps \in {Del1, DynDel2, DynDel1} => reg = None
    /\ q.steps \in {Del2, Del1} => cReg = None

RestKey == (cKey # None => apikey # None /\ cKey = into_api_key(apikey)) /\ Has(apikey, told["apikey"])
WorkKey(q) ==
    /\ q.steps \in {Key2, MigK3} => apikey # None /\ Has(q.x, Answer(q, "apikey"))
    /\ q.steps \in {Key1, MigK2} => Has(apikey, Answer(q, "apikey"))
    /\ q.steps = KeyFill1 => apikey # None /\ q.x = into_api_key(apikey) /\ Has(apikey, told["apikey"])
    /\ q.steps \in Migrations \ {MigK3, MigK2} => RestKey

RestProvider ==
    /\ cAll \in {None, ProviderRows} /\ cTemplate \in {None, Template(ProviderRows)}
    /\ ghost => provider = None
    /\ ~ghost => cProv \in {None, provider} /\ Has(provider, told["provider"])
\* The row was written, or there was none.
Written(q) ==
    /\ ghost => provider = None
    /\ ~ghost => provider = q.x /\ Has(q.x, Answer(q, "provider"))
WorkProvider(q) ==
    /\ q.steps = MigP5 => provider # None
    /\ q.steps = ProvNew4 => ~ghost
    /\ q.steps \in {Prov4, ProvNew4, MigP5} => Has(q.x, Answer(q, "provider"))
    /\ q.steps \in {Prov3, Prov2, Prov1, MigP4, MigP3, MigP2} => Written(q)
    /\ q.steps \in {ProvDel3, ProvDel2, ProvDel1} => provider = None
    /\ q.steps \in {Prov2, ProvDel2, MigP3} => cAll = None /\ cTemplate = None
    /\ q.steps \in {Prov1, ProvDel1, MigP2} => cAll = ProviderRows /\ cTemplate = Template(ProviderRows)
    /\ q.steps \in Migrations \ {MigP5, MigP4, MigP3, MigP2} => RestProvider

\* An owner nobody works on, and one that the request q works on
Rest(o) ==
    /\ o = "client" => RestClient
    /\ o = "reg" => RestReg
    /\ o = "apikey" => RestKey
    /\ o = "provider" => RestProvider
Work(o, q) ==
    /\ o = "client" => WorkClient(q)
    /\ o = "reg" => WorkReg(q)
    /\ o = "apikey" => WorkKey(q)
    /\ o = "provider" => WorkProvider(q)

Free(o) == \A r \in Requests : Active(r) => o \notin req[r].own
OwnerInv ==
    \A o \in Owners \ spoilt :
        /\ Free(o) => Rest(o)
        /\ \A r \in Requests : Active(r) /\ o \in req[r].own => Work(o, req[r])

\* What a migration to k has done
ClientDone(k) == client # None /\ client.sec # None => client.kid = k /\ (stale \/ client.sec.k = k)
KeyDone(k) == apikey # None => apikey.sec.k = k /\ apikey.acc.k = k
ProvDone(k) == provider # None /\ provider.sec # None => provider.sec.k = k

Progress(q) ==
    /\ q.steps \in Migrations \ {MigC3} => ClientDone(q.to)
    /\ q.steps \in {MigK2, MigK1, MigP5, MigP4, MigP3, MigP2, MigP1} => KeyDone(q.to)
    /\ q.steps \in {MigP4, MigP3, MigP2, MigP1} => ProvDone(q.to)

MigInv ==
    /\ spoilt = {} => \A r \in Requests : Active(r) => Progress(req[r])
    /\ target # None =>
          /\ \A r \in Requests : ~Active(r)
          /\ ClientDone(target) /\ KeyDone(target) /\ ProvDone(target)

SInv == StateInv /\ ReqInv /\ LabelInv /\ DynInv /\ BusyInv /\ OwnerInv /\ MigInv
-----------------------------------------------------------------------------

First(s) == Head(s)
Size(s) == Len(s)
After(s) == Tail(s)

\* First step, number of steps and the other steps of each list
LEMMA SaveLists ==
    /\ First(Save2) = "client_row" /\ Size(Save2) = 2 /\ After(Save2) = Save1
    /\ First(Save1) = "client_cache" /\ Size(Save1) = 1
    /\ First(Upd3) = "client_cache" /\ Size(Upd3) = 3 /\ After(Upd3) = Upd2
    /\ First(Upd2) = "reg_cache" /\ Size(Upd2) = 2 /\ After(Upd2) = Upd1
    /\ First(Upd1) = "commit" /\ Size(Upd1) = 1
BY DEF First, Size, After, Save2, Save1, Upd3, Upd2, Upd1

\* First step, number of steps and the other steps of each list
LEMMA DeleteLists ==
    /\ First(Del2) = "client_delete" /\ Size(Del2) = 2 /\ After(Del2) = Del1
    /\ First(Del1) = "client_forget" /\ Size(Del1) = 1
    /\ First(DynDel3) = "client_delete" /\ Size(DynDel3) = 3 /\ After(DynDel3) = DynDel2
    /\ First(DynDel2) = "client_forget" /\ Size(DynDel2) = 2 /\ After(DynDel2) = DynDel1
    /\ First(DynDel1) = "reg_forget" /\ Size(DynDel1) = 1
BY DEF First, Size, After, Del2, Del1, DynDel3, DynDel2, DynDel1

\* First step, number of steps and the other steps of each list
LEMMA KeyLists ==
    /\ First(Key2) = "key_row" /\ Size(Key2) = 2 /\ After(Key2) = Key1
    /\ First(KeyDel2) = "key_delete" /\ Size(KeyDel2) = 2 /\ After(KeyDel2) = Key1
    /\ First(Key1) = "key_forget" /\ Size(Key1) = 1
    /\ First(KeyFill1) = "key_cache" /\ Size(KeyFill1) = 1
BY DEF First, Size, After, Key2, KeyDel2, Key1, KeyFill1

\* First step, number of steps and the other steps of each list
LEMMA ProvLists ==
    /\ First(Prov4) = "provider_row" /\ Size(Prov4) = 4 /\ After(Prov4) = Prov3
    /\ First(ProvNew4) = "provider_insert" /\ Size(ProvNew4) = 4 /\ After(ProvNew4) = Prov3
    /\ First(Prov3) = "provider_drop" /\ Size(Prov3) = 3 /\ After(Prov3) = Prov2
    /\ First(Prov2) = "provider_fill" /\ Size(Prov2) = 2 /\ After(Prov2) = Prov1
    /\ First(Prov1) = "provider_cache" /\ Size(Prov1) = 1
BY DEF First, Size, After, Prov4, ProvNew4, Prov3, Prov2, Prov1

\* First step, number of steps and the other steps of each list
LEMMA ProvDeleteLists ==
    /\ First(ProvDel4) = "provider_delete" /\ Size(ProvDel4) = 4 /\ After(ProvDel4) = ProvDel3
    /\ First(ProvDel3) = "provider_drop" /\ Size(ProvDel3) = 3 /\ After(ProvDel3) = ProvDel2
    /\ First(ProvDel2) = "provider_fill" /\ Size(ProvDel2) = 2 /\ After(ProvDel2) = ProvDel1
    /\ First(ProvDel1) = "provider_forget" /\ Size(ProvDel1) = 1
BY DEF First, Size, After, ProvDel4, ProvDel3, ProvDel2, ProvDel1

\* First step, number of steps and the other steps of each list
LEMMA MigrateLists ==
    /\ First(MigC3) = "client_row" /\ Size(MigC3) = 3 /\ After(MigC3) = MigC2
    /\ First(MigC2) = "client_cache" /\ Size(MigC2) = 2 /\ After(MigC2) = MigC1
    /\ First(MigC1) = "migrate_keys" /\ Size(MigC1) = 1
    /\ First(MigK3) = "key_row" /\ Size(MigK3) = 3 /\ After(MigK3) = MigK2
    /\ First(MigK2) = "key_forget" /\ Size(MigK2) = 2 /\ After(MigK2) = MigK1
    /\ First(MigK1) = "migrate_providers" /\ Size(MigK1) = 1
BY DEF First, Size, After, MigC3, MigC2, MigC1, MigK3, MigK2, MigK1

\* First step, number of steps and the other steps of each list
LEMMA MigrateProvLists ==
    /\ First(MigP5) = "provider_row" /\ Size(MigP5) = 5 /\ After(MigP5) = MigP4
    /\ First(MigP4) = "provider_drop" /\ Size(MigP4) = 4 /\ After(MigP4) = MigP3
    /\ First(MigP3) = "provider_fill" /\ Size(MigP3) = 3 /\ After(MigP3) = MigP2
    /\ First(MigP2) = "provider_cache" /\ Size(MigP2) = 2 /\ After(MigP2) = MigP1
    /\ First(MigP1) = "migrated" /\ Size(MigP1) = 1
BY DEF First, Size, After, MigP5, MigP4, MigP3, MigP2, MigP1

\* Two lists of these lengths one after the other
LEMMA JoinTwoOne ==
    ASSUME NEW S, NEW a \in S, NEW b \in S, NEW c \in S
    PROVE  <<a, b>> \o <<c>> = <<a, b, c>>
<1> DEFINE s == <<a, b>>  t == <<c>>  u == <<a, b, c>>
<1>1. s \in Seq(S) /\ t \in Seq(S) /\ u \in Seq(S) /\ Len(s) = 2 /\ Len(t) = 1 /\ Len(u) = 3
  OBVIOUS
<1>2. s[1] = a /\ s[2] = b /\ t[1] = c /\ u[1] = a /\ u[2] = b /\ u[3] = c
  OBVIOUS
<1> HIDE DEF s, t, u
<1>3. /\ s \o t \in Seq(S) /\ Len(s \o t) = Len(s) + Len(t)
      /\ \A i \in 1 .. Len(s) + Len(t) : (s \o t)[i] = IF i <= Len(s) THEN s[i] ELSE t[i - Len(s)]
  BY <1>1, ConcatProperties, Zenon
<1>4. \A i \in 1 .. 3 : (s \o t)[i] = u[i]
  BY <1>1, <1>2, <1>3
<1>5. s \o t = u
  BY <1>1, <1>3, <1>4, SeqEqual
<1> QED BY <1>5 DEF s, t, u

\* Two lists of these lengths one after the other
LEMMA JoinFourOne ==
    ASSUME NEW S, NEW a \in S, NEW b \in S, NEW c \in S, NEW d \in S, NEW e \in S
    PROVE  <<a, b, c, d>> \o <<e>> = <<a, b, c, d, e>>
<1> DEFINE s == <<a, b, c, d>>  t == <<e>>  u == <<a, b, c, d, e>>
<1>1. s \in Seq(S) /\ t \in Seq(S) /\ u \in Seq(S) /\ Len(s) = 4 /\ Len(t) = 1 /\ Len(u) = 5
  OBVIOUS
<1>2. s[1] = a /\ s[2] = b /\ s[3] = c /\ s[4] = d /\ t[1] = e
      /\ u[1] = a /\ u[2] = b /\ u[3] = c /\ u[4] = d /\ u[5] = e
  OBVIOUS
<1> HIDE DEF s, t, u
<1>3. /\ s \o t \in Seq(S) /\ Len(s \o t) = Len(s) + Len(t)
      /\ \A i \in 1 .. Len(s) + Len(t) : (s \o t)[i] = IF i <= Len(s) THEN s[i] ELSE t[i - Len(s)]
  BY <1>1, ConcatProperties, Zenon
<1>4. \A i \in 1 .. 5 : (s \o t)[i] = u[i]
  BY <1>1, <1>2, <1>3
<1>5. s \o t = u
  BY <1>1, <1>3, <1>4, SeqEqual
<1> QED BY <1>5 DEF s, t, u

\* Two lists of these lengths one after the other
LEMMA JoinOneThree ==
    ASSUME NEW S, NEW a \in S, NEW b \in S, NEW c \in S, NEW d \in S
    PROVE  <<a>> \o <<b, c, d>> = <<a, b, c, d>>
<1> DEFINE s == <<a>>  t == <<b, c, d>>  u == <<a, b, c, d>>
<1>1. s \in Seq(S) /\ t \in Seq(S) /\ u \in Seq(S) /\ Len(s) = 1 /\ Len(t) = 3 /\ Len(u) = 4
  OBVIOUS
<1>2. s[1] = a /\ t[1] = b /\ t[2] = c /\ t[3] = d /\ u[1] = a /\ u[2] = b /\ u[3] = c /\ u[4] = d
  OBVIOUS
<1> HIDE DEF s, t, u
<1>3. /\ s \o t \in Seq(S) /\ Len(s \o t) = Len(s) + Len(t)
      /\ \A i \in 1 .. Len(s) + Len(t) : (s \o t)[i] = IF i <= Len(s) THEN s[i] ELSE t[i - Len(s)]
  BY <1>1, ConcatProperties, Zenon
<1>4. \A i \in 1 .. 4 : (s \o t)[i] = u[i]
  BY <1>1, <1>2, <1>3
<1>5. s \o t = u
  BY <1>1, <1>3, <1>4, SeqEqual
<1> QED BY <1>5 DEF s, t, u

\* The lists that are put together
LEMMA Joined ==
    /\ SaveKey \o <<"migrate_providers">> = MigK3 /\ <<>> \o <<"migrate_providers">> = MigK1
    /\ SaveClient \o <<"migrate_keys">> = MigC3 /\ <<>> \o <<"migrate_keys">> = MigC1
    /\ SaveProvider \o <<"migrated">> = MigP5 /\ <<>> \o <<"migrated">> = MigP1
    /\ <<"client_delete", "client_forget">> \o <<"reg_forget">> = DynDel3
    /\ <<"client_delete", "client_forget">> \o <<>> = Del2
    /\ <<"provider_insert">> \o Tail(SaveProvider) = ProvNew4
<1>1. \A s : <<>> \o <<s>> = <<s>>
  OBVIOUS
<1>2. SaveKey \o <<"migrate_providers">> = MigK3
  <2> DEFINE S == {"key_row", "key_forget", "migrate_providers"}
  <2>1. "key_row" \in S /\ "key_forget" \in S /\ "migrate_providers" \in S
    OBVIOUS
  <2> QED BY ONLY <2>1, JoinTwoOne DEF SaveKey, MigK3
<1>3. SaveClient \o <<"migrate_keys">> = MigC3
  <2> DEFINE S == {"client_row", "client_cache", "migrate_keys"}
  <2>1. "client_row" \in S /\ "client_cache" \in S /\ "migrate_keys" \in S
    OBVIOUS
  <2> QED BY ONLY <2>1, JoinTwoOne DEF SaveClient, MigC3
<1>4. SaveProvider \o <<"migrated">> = MigP5
  <2> DEFINE S == {"provider_row", "provider_drop", "provider_fill", "provider_cache", "migrated"}
  <2>1. "provider_row" \in S /\ "provider_drop" \in S /\ "provider_fill" \in S /\ "provider_cache" \in S /\ "migrated" \in S
    OBVIOUS
  <2> HIDE DEF S
  <2>2. <<"provider_row", "provider_drop", "provider_fill", "provider_cache">> \o <<"migrated">>
          = <<"provider_row", "provider_drop", "provider_fill", "provider_cache", "migrated">>
    <3>1. \A a, b, c, d, e \in S : <<a, b, c, d>> \o <<e>> = <<a, b, c, d, e>>
      BY ONLY JoinFourOne, Zenon
    <3> QED BY ONLY <2>1, <3>1, SMT
  <2> QED BY <2>2 DEF SaveProvider, MigP5
<1>5. <<"client_delete", "client_forget">> \o <<"reg_forget">> = DynDel3
  <2> DEFINE S == {"client_delete", "client_forget", "reg_forget"}
  <2>1. "client_delete" \in S /\ "client_forget" \in S /\ "reg_forget" \in S
    OBVIOUS
  <2> QED BY ONLY <2>1, JoinTwoOne DEF DynDel3
<1>6. <<"client_delete", "client_forget">> \o <<>> = Del2
  BY DEF Del2
<1>7. <<"provider_insert">> \o Tail(SaveProvider) = ProvNew4
  <2> DEFINE S == {"provider_insert", "provider_drop", "provider_fill", "provider_cache"}
  <2>1. "provider_insert" \in S /\ "provider_drop" \in S /\ "provider_fill" \in S /\ "provider_cache" \in S
    OBVIOUS
  <2>2. Tail(SaveProvider) = <<"provider_drop", "provider_fill", "provider_cache">>
    BY DEF SaveProvider
  <2>3. <<"provider_insert">> \o <<"provider_drop", "provider_fill", "provider_cache">> = ProvNew4
    BY ONLY <2>1, JoinOneThree DEF ProvNew4
  <2> QED BY <2>2, <2>3
<1> QED BY <1>1, <1>2, <1>3, <1>4, <1>5, <1>6, <1>7 DEF MigK1, MigC1, MigP1
\* The lists that begin with a step
LEMMA AtHead ==
    ASSUME NEW q, Shape(q)
    PROVE  /\ q.steps # <<>> /\ First(q.steps) # "none"
           /\ First(q.steps) = "client_row" => q.steps \in {Save2, MigC3}
           /\ First(q.steps) = "client_cache" => q.steps \in {Save1, Upd3, MigC2}
           /\ First(q.steps) = "reg_cache" => q.steps = Upd2
           /\ First(q.steps) = "commit" => q.steps = Upd1
           /\ First(q.steps) = "client_delete" => q.steps \in {Del2, DynDel3}
           /\ First(q.steps) = "client_forget" => q.steps \in {Del1, DynDel2}
           /\ First(q.steps) = "reg_forget" => q.steps = DynDel1
           /\ First(q.steps) = "key_row" => q.steps \in {Key2, MigK3}
           /\ First(q.steps) = "key_delete" => q.steps = KeyDel2
           /\ First(q.steps) = "key_forget" => q.steps \in {Key1, MigK2}
           /\ First(q.steps) = "key_cache" => q.steps = KeyFill1
           /\ First(q.steps) = "provider_row" => q.steps \in {Prov4, MigP5}
           /\ First(q.steps) = "provider_insert" => q.steps = ProvNew4
           /\ First(q.steps) = "provider_delete" => q.steps = ProvDel4
           /\ First(q.steps) = "provider_drop" => q.steps \in {Prov3, ProvDel3, MigP4}
           /\ First(q.steps) = "provider_fill" => q.steps \in {Prov2, ProvDel2, MigP3}
           /\ First(q.steps) = "provider_cache" => q.steps \in {Prov1, MigP2}
           /\ First(q.steps) = "provider_forget" => q.steps = ProvDel1
           /\ First(q.steps) = "migrate_keys" => q.steps = MigC1
           /\ First(q.steps) = "migrate_providers" => q.steps = MigK1
           /\ First(q.steps) = "migrated" => q.steps = MigP1
<1>1. q.steps \in Saves \cup Updates \cup Deletes \cup {Key2, KeyDel2, Key1, KeyFill1}
                    \cup ProvSaves \cup ProvDeletes \cup Migrations
  BY DEF Shape, Saving, Updating, Deleting, KeySaving, KeyDeleting, KeyFilling, ProvSaving, ProvDeleting, Migrating
<1>2. Size(q.steps) # 0
  <2>1. q.steps \in Saves \cup Updates => Size(q.steps) \in {1, 2, 3}
    BY SaveLists DEF Saves, Updates
  <2>2. q.steps \in Deletes \cup {Key2, KeyDel2, Key1, KeyFill1} => Size(q.steps) \in {1, 2, 3}
    BY DeleteLists, KeyLists DEF Deletes
  <2>3. q.steps \in ProvSaves \cup ProvDeletes => Size(q.steps) \in {1, 2, 3, 4}
    BY ProvLists, ProvDeleteLists DEF ProvSaves, ProvDeletes
  <2>4. q.steps \in Migrations => Size(q.steps) \in {1, 2, 3, 4, 5}
    BY MigrateLists, MigrateProvLists DEF Migrations
  <2> QED BY <1>1, <2>1, <2>2, <2>3, <2>4
<1>3. Size(<<>>) = 0
  BY DEF Size
<1> QED BY <1>1, <1>2, <1>3, SaveLists, DeleteLists, KeyLists, ProvLists, ProvDeleteLists, MigrateLists, MigrateProvLists
     DEF Saves, Updates, Deletes, ProvSaves, ProvDeletes, Migrations

\* The kind of request by what is left to do
LEMMA KindOf ==
    ASSUME NEW q, Shape(q)
    PROVE  /\ q.steps \in Saves => Saving(q)
           /\ q.steps \in Updates => Updating(q)
           /\ q.steps \in Deletes => Deleting(q)
           /\ q.steps = Key2 => KeySaving(q)
           /\ q.steps = KeyDel2 => KeyDeleting(q)
           /\ q.steps = Key1 => KeySaving(q) \/ KeyDeleting(q)
           /\ q.steps = KeyFill1 => KeyFilling(q)
           /\ q.steps \in {Prov4, ProvNew4, Prov1} => ProvSaving(q)
           /\ q.steps \in {ProvDel4, ProvDel1} => ProvDeleting(q)
           /\ q.steps \in ProvSaves \cup ProvDeletes => ProvSaving(q) \/ ProvDeleting(q)
           /\ q.steps \in Migrations => Migrating(q)
<1>1. \/ Saving(q) \/ Updating(q) \/ Deleting(q) \/ KeySaving(q) \/ KeyDeleting(q) \/ KeyFilling(q)
      \/ ProvSaving(q) \/ ProvDeleting(q) \/ Migrating(q)
  BY DEF Shape
<1>2. /\ Saving(q) => q.steps \in Saves
      /\ Updating(q) => q.steps \in Updates
      /\ Deleting(q) => q.steps \in Deletes
      /\ KeySaving(q) => q.steps \in {Key2, Key1}
      /\ KeyDeleting(q) => q.steps \in {KeyDel2, Key1}
      /\ KeyFilling(q) => q.steps = KeyFill1
      /\ ProvSaving(q) => q.steps \in ProvSaves
      /\ ProvDeleting(q) => q.steps \in ProvDeletes
      /\ Migrating(q) => q.steps \in Migrations
  BY DEF Saving, Updating, Deleting, KeySaving, KeyDeleting, KeyFilling, ProvSaving, ProvDeleting, Migrating
<1> DEFINE Of(ss) == q.steps \in ss
<1>3. /\ Of(Saves) => ~Of(Updates) /\ ~Of(Deletes) /\ ~Of({Key2, KeyDel2, Key1, KeyFill1})
                       /\ ~Of(ProvSaves \cup ProvDeletes) /\ ~Of(Migrations)
      /\ Of(Updates) => ~Of(Deletes) /\ ~Of({Key2, KeyDel2, Key1, KeyFill1})
                         /\ ~Of(ProvSaves \cup ProvDeletes) /\ ~Of(Migrations)
  BY SaveLists, DeleteLists, KeyLists, ProvLists, ProvDeleteLists, MigrateLists, MigrateProvLists
     DEF Saves, Updates, Deletes, ProvSaves, ProvDeletes, Migrations
<1>4. Of(Deletes) => ~Of({Key2, KeyDel2, Key1, KeyFill1}) /\ ~Of(ProvSaves \cup ProvDeletes) /\ ~Of(Migrations)
  BY DeleteLists, KeyLists, ProvLists, ProvDeleteLists, MigrateLists, MigrateProvLists
     DEF Deletes, ProvSaves, ProvDeletes, Migrations
<1>5. Of({Key2, KeyDel2, Key1, KeyFill1}) => ~Of(ProvSaves \cup ProvDeletes) /\ ~Of(Migrations)
  BY KeyLists, ProvLists, ProvDeleteLists, MigrateLists, MigrateProvLists
     DEF ProvSaves, ProvDeletes, Migrations
<1>6. Of(ProvSaves \cup ProvDeletes) => ~Of(Migrations)
  BY ProvLists, ProvDeleteLists, MigrateLists, MigrateProvLists DEF ProvSaves, ProvDeletes, Migrations
<1>7. /\ Of({Prov4, ProvNew4, Prov1}) => Of(ProvSaves) /\ ~Of(ProvDeletes)
      /\ Of({ProvDel4, ProvDel1}) => Of(ProvDeletes) /\ ~Of(ProvSaves)
      /\ q.steps = Key2 => ~Of({KeyDel2, Key1, KeyFill1})
      /\ q.steps = KeyDel2 => ~Of({Key1, KeyFill1})
      /\ q.steps = KeyFill1 => q.steps # Key1
  BY ProvLists, ProvDeleteLists, KeyLists DEF ProvSaves, ProvDeletes
<1> QED BY <1>1, <1>2, <1>3, <1>4, <1>5, <1>6, <1>7

\* Every request owns something a migration works on.
LEMMA Owning ==
    ASSUME NEW q, Shape(q)
    PROVE  q.own \subseteq Owners /\ q.own \cap {"client", "apikey", "provider"} # {}
BY DEF Shape, Saving, Updating, Deleting, KeySaving, KeyDeleting, KeyFilling, ProvSaving, ProvDeleting, Migrating, Owners

\* Only a migration has one in progress.
LEMMA NoMigration ==
    ASSUME NEW q, Shape(q), q.to = None
    PROVE  q.steps \notin Migrations
<1>1. q.steps \in Migrations => q.to \in EncKeys
  BY KindOf DEF Migrating
<1> QED BY <1>1, ConstantsOK

-----------------------------------------------------------------------------
\* Owners that a step leaves alone

SameView(o) ==
    /\ told'[o] = told[o]
    /\ o = "client" => UNCHANGED <<client, cClient>>
    /\ o = "reg" => UNCHANGED <<reg, cReg>>
    /\ o = "apikey" => UNCHANGED <<apikey, cKey>>
    /\ o = "provider" => UNCHANGED <<provider, cProv, cAll, cTemplate, ghost>>

\* An owner at rest stays so when nothing of it changes
LEMMA SameRest ==
    ASSUME NEW o \in Owners, SameView(o), Rest(o)
    PROVE  Rest(o)'
BY DEF Owners, SameView, Rest, RestClient, RestReg, RestKey, RestProvider, Has, HasToken, into_api_key, ProviderRows,
   Template

\* and so does the work of a request for it.
LEMMA SameWork ==
    ASSUME NEW o \in Owners, SameView(o), NEW s \in Requests, req'[s] = req[s], Work(o, req[s])
    PROVE  Work(o, req[s])'
<1>1. Answer(req[s], o)' = Answer(req[s], o)
  BY DEF Answer, SameView
<1>2. CASE o = "client"
  BY <1>1, <1>2 DEF SameView, Work, WorkClient, RestClient, Has
<1>3. CASE o = "reg"
  BY <1>1, <1>3 DEF SameView, Work, WorkReg, HasToken
<1>4. CASE o = "apikey"
  BY <1>1, <1>4 DEF SameView, Work, WorkKey, RestKey, Has, into_api_key
<1>5. CASE o = "provider"
  BY <1>1, <1>5 DEF SameView, Work, WorkProvider, Written, RestProvider, Has, ProviderRows, Template
<1> QED BY <1>2, <1>3, <1>4, <1>5 DEF Owners

\* A step of a request, or its end
LEMMA TouchOwners ==
    ASSUME SInv, NEW r \in Requests, Active(r), \A s \in Requests \ {r} : req'[s] = req[s],
           req'[r] = NoOp \/ req'[r].own = req[r].own, spoilt \subseteq spoilt',
           \A o \in Owners \ req[r].own : SameView(o),
           \A o \in req[r].own \ spoilt' :
               IF req'[r] = NoOp THEN Work(o, req[r]) => Rest(o)' ELSE Work(o, req[r]) => Work(o, req[r])'
    PROVE  BusyInv' /\ OwnerInv'
<1>1. BusyInv'
  BY DEF SInv, BusyInv, Active
<1>2. req[r].own \subseteq Owners
  BY Owning DEF SInv, ReqInv
<1>3. ASSUME NEW o \in Owners \ spoilt'
      PROVE  (Free(o) => Rest(o))' /\ \A s \in Requests : Active(s)' /\ o \in req'[s].own => Work(o, req[s])'
  <2>1. CASE o \notin req[r].own
    <3>1. SameView(o) /\ (Free(o)' => Free(o))
      BY <2>1 DEF Free, Active
    <3>2. ASSUME NEW s \in Requests, Active(s)', o \in req'[s].own PROVE Work(o, req[s])'
      <4>1. s # r /\ req'[s] = req[s]
        BY <2>1, <3>2 DEF Active
      <4>2. Work(o, req[s])
        BY <3>2, <4>1 DEF SInv, OwnerInv, Active
      <4> QED BY <3>1, <4>1, <4>2, SameWork
    <3>3. Free(o) => Rest(o)
      BY DEF SInv, OwnerInv
    <3> QED BY <3>1, <3>2, <3>3, SameRest
  <2>2. CASE o \in req[r].own
    <3>1. Work(o, req[r])
      BY <2>2 DEF SInv, OwnerInv
    <3>2. ASSUME NEW s \in Requests, Active(s)', o \in req'[s].own PROVE s = r
      <4> SUFFICES ASSUME s # r PROVE FALSE
        OBVIOUS
      <4>1. Active(s) /\ o \in req[s].own
        BY <3>2 DEF Active
      <4> QED BY <2>2, <4>1 DEF SInv, BusyInv
    <3>3. CASE req'[r] = NoOp
      BY <2>2, <3>1, <3>2, <3>3 DEF Active
    <3>4. CASE req'[r] # NoOp
      <4>1. ~Free(o)'
        BY <2>2, <3>4 DEF Free, Active
      <4> QED BY <2>2, <3>1, <3>2, <3>4, <4>1
    <3> QED BY <3>3, <3>4
  <2> QED BY <2>1, <2>2
<1> QED BY <1>1, <1>3 DEF OwnerInv

\* A migration that nothing interferes with is the only request.
LEMMA MigratesAlone ==
    ASSUME SInv, spoilt = {}, NEW r \in Requests, NEW s \in Requests, Active(r), Active(s),
           req[s].steps \in Migrations
    PROVE  r = s
<1>1. req[s].own = {"client", "apikey", "provider"}
  BY KindOf DEF SInv, ReqInv, Migrating
<1>2. req[r].own \cap {"client", "apikey", "provider"} # {} /\ req[r].own \subseteq Owners
  BY Owning DEF SInv, ReqInv
<1>3. PICK o \in Owners : o \in req[r].own /\ o \in req[s].own
  BY <1>1, <1>2
<1> QED BY <1>3 DEF SInv, BusyInv

\* What a request has left to do after a step is a request of its kind.
LEMMA NextShape ==
    ASSUME NEW q, Shape(q), Size(q.steps) # 1, NEW p, DOMAIN p = DOMAIN q, p.steps = After(q.steps),
           p.own = q.own, p.x = q.x, p.t = q.t, p.tell = q.tell, p.to = q.to
    PROVE  Shape(p) /\ (Keeps(p) => Keeps(q))
<1>1. DOMAIN p = {"steps", "own", "x", "t", "tell", "to"}
      /\ DOMAIN p.tell \subseteq p.own /\ (\A o \in DOMAIN p.tell : p.tell[o] \in {None} \cup Nat)
  BY DEF Shape
<1> DEFINE Kinds(x) == \/ Saving(x) \/ Updating(x) \/ Deleting(x) \/ KeySaving(x) \/ KeyDeleting(x)
                       \/ KeyFilling(x) \/ ProvSaving(x) \/ ProvDeleting(x) \/ Migrating(x)
<1> SUFFICES Kinds(p) /\ (Keeps(p) => Keeps(q))
  BY <1>1 DEF Shape
<1>2. CASE Saving(q)
  <2>1. p.steps = Save1
    BY <1>2, SaveLists DEF Saving, Saves
  <2> QED BY <1>2, <2>1 DEF Saving, Saves, Keeps
<1>3. CASE Updating(q)
  <2>1. p.steps \in {Upd2, Upd1}
    BY <1>3, SaveLists DEF Updating, Updates
  <2> QED BY <1>3, <2>1 DEF Updating, Updates, Keeps
<1>4. CASE Deleting(q)
  <2>1. p.steps \in {Del1, DynDel2, DynDel1}
    BY <1>4, DeleteLists DEF Deleting, Deletes
  <2>2. ~Keeps(p)
    BY <2>1, SaveLists, DeleteLists, MigrateLists DEF Keeps, Saves, Updates
  <2> QED BY <1>4, <2>1, <2>2 DEF Deleting, Deletes
<1>5. CASE KeySaving(q) \/ KeyDeleting(q)
  <2>1. p.steps = Key1
    BY <1>5, KeyLists DEF KeySaving, KeyDeleting
  <2>2. ~Keeps(p)
    BY <2>1, SaveLists, KeyLists, MigrateLists DEF Keeps, Saves, Updates
  <2> QED BY <1>5, <2>1, <2>2 DEF KeySaving, KeyDeleting
<1>6. CASE KeyFilling(q)
  BY <1>6, KeyLists DEF KeyFilling
<1>7. CASE ProvSaving(q)
  <2>1. p.steps \in {Prov3, Prov2, Prov1}
    BY <1>7, ProvLists DEF ProvSaving, ProvSaves
  <2>2. ~Keeps(p)
    BY <2>1, SaveLists, ProvLists, MigrateLists DEF Keeps, Saves, Updates
  <2> QED BY <1>7, <2>1, <2>2 DEF ProvSaving, ProvSaves
<1>8. CASE ProvDeleting(q)
  <2>1. p.steps \in {ProvDel3, ProvDel2, ProvDel1}
    BY <1>8, ProvDeleteLists DEF ProvDeleting, ProvDeletes
  <2>2. ~Keeps(p)
    BY <2>1, SaveLists, ProvDeleteLists, MigrateLists DEF Keeps, Saves, Updates
  <2> QED BY <1>8, <2>1, <2>2 DEF ProvDeleting, ProvDeletes
<1>9. CASE Migrating(q)
  <2>1. \/ q.steps = MigC3 /\ p.steps = MigC2
        \/ q.steps = MigC2 /\ p.steps = MigC1
        \/ q.steps = MigK3 /\ p.steps = MigK2
        \/ q.steps = MigK2 /\ p.steps = MigK1
        \/ q.steps = MigP5 /\ p.steps = MigP4
        \/ q.steps = MigP4 /\ p.steps = MigP3
        \/ q.steps = MigP3 /\ p.steps = MigP2
        \/ q.steps = MigP2 /\ p.steps = MigP1
    BY <1>9, MigrateLists, MigrateProvLists DEF Migrating, Migrations
  <2>2. Migrating(p)
    BY <1>9, <2>1, MigrateLists, MigrateProvLists DEF Migrating, Migrations
  <2>3. Keeps(p) => Keeps(q)
    BY <2>1, SaveLists, MigrateLists, MigrateProvLists DEF Keeps, Saves, Updates
  <2> QED BY <2>2, <2>3
<1> QED BY <1>2, <1>3, <1>4, <1>5, <1>6, <1>7, <1>8, <1>9 DEF Shape

\* The next step of a request, and its answer
LEMMA DoneFrame ==
    ASSUME SInv, NEW r \in Requests, Active(r), Done(r)
    PROVE  /\ DOMAIN req' = Requests /\ \A s \in Requests \ {r} : req'[s] = req[s]
           /\ UNCHANGED <<active, fresh, target, ops, spoilt>>
           /\ Size(req[r].steps) = 1 => req'[r] = NoOp /\ \A o \in Owners : told'[o] = Answer(req[r], o)
           /\ Size(req[r].steps) # 1 =>
                /\ DOMAIN req'[r] = DOMAIN req[r] /\ req'[r].steps = After(req[r].steps)
                /\ req'[r].own = req[r].own /\ req'[r].x = req[r].x /\ req'[r].t = req[r].t
                /\ req'[r].tell = req[r].tell /\ req'[r].to = req[r].to /\ told' = told
                /\ Shape(req[r])' /\ req'[r] # NoOp /\ (Keeps(req[r])' => Keeps(req[r]))
           /\ told' \in [Owners -> {None} \cup Nat]
           /\ \A o \in Owners \ req[r].own : told'[o] = told[o]
           /\ stale' = IF First(req[r].steps) = "commit" THEN FALSE ELSE stale
           /\ First(req[r].steps) \notin {"provider_row", "provider_forget"} => ghost' = ghost
           /\ First(req[r].steps) = "provider_row" => (ghost' <=> provider = None)
           /\ First(req[r].steps) = "provider_forget" => ~ghost'
<1> DEFINE q == req[r]
<1>1. Shape(q) /\ DOMAIN req = Requests
  BY DEF SInv, ReqInv
<1>2. /\ req' = [req EXCEPT ![r] = IF Len(q.steps) = 1 THEN NoOp ELSE [q EXCEPT !.steps = Tail(q.steps)]]
      /\ told' = IF Len(q.steps) = 1 THEN Told(q.tell) ELSE told
      /\ UNCHANGED <<active, fresh, target, ops, spoilt>>
  <2>1. req' = [req EXCEPT ![r] = IF Len(q.steps) = 1 THEN NoOp ELSE [q EXCEPT !.steps = Tail(q.steps)]]
    BY SMT DEF Done
  <2>2. told' = IF Len(q.steps) = 1 THEN Told(q.tell) ELSE told
    BY Zenon DEF Done
  <2>3. UNCHANGED <<active, fresh, target, ops, spoilt>>
    BY DEF Done
  <2> QED BY <2>1, <2>2, <2>3
<1>11. stale' = IF First(q.steps) = "commit" THEN FALSE ELSE stale
  BY Zenon DEF Done, First
<1>12. /\ First(q.steps) \notin {"provider_row", "provider_forget"} => ghost' = ghost
       /\ First(q.steps) = "provider_row" => (ghost' <=> provider = None)
       /\ First(q.steps) = "provider_forget" => ~ghost'
  <2> DEFINE f == First(q.steps)
  <2>1. ghost' = CASE f = "provider_row" -> provider = None
                   [] f = "provider_forget" -> FALSE
                   [] OTHER -> ghost
    BY Zenon DEF Done, First
  <2> HIDE DEF f
  <2>2. f \notin {"provider_row", "provider_forget"} => ghost' = ghost
    BY <2>1, Zenon
  <2>3. f = "provider_row" => (ghost' <=> provider = None)
    BY <2>1
  <2>4. f = "provider_forget" => ~ghost'
    BY <2>1
  <2> QED BY <2>2, <2>3, <2>4 DEF f
<1>3. DOMAIN q = {"steps", "own", "x", "t", "tell", "to"} /\ DOMAIN q.tell \subseteq q.own
      /\ \A o \in DOMAIN q.tell : q.tell[o] \in {None} \cup Nat
  BY <1>1 DEF Shape
<1>4. told \in [Owners -> {None} \cup Nat]
  BY DEF SInv, StateInv
<1>5. \A o \in Owners : Told(q.tell)[o] = Answer(q, o)
  BY DEF Told, Answer
<1>6. Told(q.tell) \in [Owners -> {None} \cup Nat]
  BY <1>3, <1>4 DEF Told
<1>7. \A o \in Owners \ q.own : Answer(q, o) = told[o]
  BY <1>3 DEF Answer
<1>8. DOMAIN req' = Requests /\ \A s \in Requests \ {r} : req'[s] = req[s]
  BY <1>1, <1>2
<1>9. CASE Size(q.steps) = 1
  BY <1>1, <1>2, <1>4, <1>5, <1>6, <1>7, <1>8, <1>9, <1>11, <1>12 DEF Size
<1>10. CASE Size(q.steps) # 1
  <2>1. req'[r] = [q EXCEPT !.steps = Tail(q.steps)] /\ told' = told
    BY <1>1, <1>2, <1>10 DEF Size
  <2> HIDE DEF q
  <2>2. /\ DOMAIN req'[r] = DOMAIN q /\ req'[r].steps = After(q.steps)
        /\ req'[r].own = q.own /\ req'[r].x = q.x /\ req'[r].t = q.t
        /\ req'[r].tell = q.tell /\ req'[r].to = q.to
    BY <1>3, <2>1 DEF After
  <2>3. Shape(req'[r]) /\ (Keeps(req'[r]) => Keeps(q))
    BY <1>1, <1>10, <2>2, NextShape
  <2>4. req'[r] # NoOp
    BY <2>3, AtHead DEF NoOp
  <2> QED BY <1>2, <1>4, <1>8, <1>10, <1>11, <1>12, <2>1, <2>2, <2>3, <2>4 DEF q
<1> QED BY <1>9, <1>10

\* A step of a request, its end or its failure: what has to be shown of it
LEMMA AnyStepInv ==
    ASSUME SInv, NEW r \in Requests, Active(r),
           DOMAIN req' = Requests, \A s \in Requests \ {r} : req'[s] = req[s],
           req'[r] # NoOp => /\ Shape(req[r])' /\ req'[r].own = req[r].own
                             /\ Keeps(req[r])' => Keeps(req[r]) /\ req'[r].x = req[r].x,
           UNCHANGED <<active, fresh, ops>>, spoilt \subseteq spoilt', spoilt' \subseteq Owners,
           told' \in [Owners -> {None} \cup Nat], \A o \in Owners \ req[r].own : told'[o] = told[o],
           target' # None =>
               /\ target' \in EncKeys /\ spoilt = {} /\ req'[r] = NoOp /\ req[r].steps \in Migrations
               /\ (ClientDone(target) /\ KeyDone(target) /\ ProvDone(target))',
           SecretsTypeOK', cClient' \in {None} \cup ClientRows, cReg' \in {None} \cup Secret,
           cAll' \in {None} \cup SUBSET ProviderRecords,
           LabelInv',
           client' # None => /\ client # None /\ client'.dyn = client.dyn
                             /\ cClient' # None => cClient'.dyn = client.dyn,
           "client" \in req[r].own \/ UNCHANGED <<client, cClient>>,
           "reg" \in req[r].own \/ UNCHANGED <<reg, cReg>>,
           "apikey" \in req[r].own \/ UNCHANGED <<apikey, cKey>>,
           "provider" \in req[r].own \/ UNCHANGED <<provider, cProv, cAll, cTemplate, ghost>>,
           \A o \in req[r].own \ spoilt' : Work(o, req[r]) =>
               IF req'[r] = NoOp THEN Rest(o)' ELSE Work(o, req[r])',
           spoilt' = {} /\ req'[r] # NoOp /\ Progress(req[r]) => Progress(req[r])'
    PROVE  SInv'
<1>1. StateInv'
  <2>1. fresh \in Nat /\ ops \in 0 .. MaxOps /\ fresh <= 2 * ops + 1 /\ target' \in {None} \cup EncKeys
    BY DEF SInv, StateInv
  <2> QED BY <2>1 DEF StateInv
<1>2. ReqInv'
  <2> SUFFICES ASSUME NEW s \in Requests, Active(s)' PROVE Shape(req[s])'
    BY DEF ReqInv
  <2>1. CASE s = r
    BY <2>1 DEF Active
  <2>2. CASE s # r
    <3>1. Shape(req[s]) /\ req'[s] = req[s]
      BY <2>2 DEF SInv, ReqInv, Active
    <3> QED BY <3>1
  <2> QED BY <2>1, <2>2
<1>3. DynInv'
  <2> SUFFICES ASSUME client' # None, NEW s \in Requests, Active(s)', Keeps(req[s])'
               PROVE  req'[s].x.dyn = client'.dyn
    BY DEF DynInv
  <2>1. Active(s) /\ Keeps(req[s]) /\ req'[s].x = req[s].x
    <3>1. CASE s = r
      BY <3>1 DEF Active
    <3>2. CASE s # r
      <4>1. req'[s] = req[s]
        BY <3>2
      <4> QED BY <4>1 DEF Active, Keeps
    <3> QED BY <3>1, <3>2
  <2> QED BY <2>1 DEF SInv, DynInv
<1>4. BusyInv' /\ OwnerInv'
  <2>1. \A o \in Owners \ req[r].own : SameView(o)
    BY DEF SameView
  <2> QED BY <2>1, TouchOwners
<1>5. MigInv'
  <2>1. ASSUME target' # None PROVE \A s \in Requests : ~Active(s)'
    <3>1. \A s \in Requests : Active(s) => s = r
      BY <2>1, MigratesAlone
    <3> QED BY <2>1, <3>1 DEF Active
  <2>2. ASSUME spoilt' = {}, NEW s \in Requests, Active(s)' PROVE Progress(req[s])'
    <3>0. spoilt = {}
      BY <2>2
    <3>1. CASE s = r
      BY <2>2, <3>0, <3>1 DEF SInv, MigInv, Active
    <3>2. CASE s # r
      <4>1. req'[s] = req[s] /\ Active(s)
        BY <2>2, <3>2 DEF Active
      <4>2. req[s].steps \notin Migrations
        BY <3>0, <3>2, <4>1, MigratesAlone
      <4> QED BY <4>1, <4>2 DEF Progress, Migrations
    <3> QED BY <3>1, <3>2
  <2> QED BY <2>1, <2>2 DEF MigInv
<1> QED BY <1>1, <1>2, <1>3, <1>4, <1>5 DEF SInv

\* The next step of a request, and its answer: what has to be shown of it
LEMMA RequestStepInv ==
    ASSUME SInv, NEW r \in Requests, Active(r), Done(r),
           SecretsTypeOK', cClient' \in {None} \cup ClientRows, cReg' \in {None} \cup Secret,
           cAll' \in {None} \cup SUBSET ProviderRecords,
           LabelInv',
           client' # None => /\ client # None /\ client'.dyn = client.dyn
                             /\ cClient' # None => cClient'.dyn = client.dyn,
           "client" \in req[r].own \/ UNCHANGED <<client, cClient>>,
           "reg" \in req[r].own \/ UNCHANGED <<reg, cReg>>,
           "apikey" \in req[r].own \/ UNCHANGED <<apikey, cKey>>,
           "provider" \in req[r].own \/ UNCHANGED <<provider, cProv, cAll, cTemplate, ghost>>,
           \A o \in req[r].own \ spoilt : Work(o, req[r]) =>
               IF Size(req[r].steps) = 1 THEN Rest(o)' ELSE Work(o, req[r])',
           spoilt = {} /\ Size(req[r].steps) # 1 /\ Progress(req[r]) => Progress(req[r])'
    PROVE  SInv'
<1>1. /\ DOMAIN req' = Requests /\ \A s \in Requests \ {r} : req'[s] = req[s]
      /\ UNCHANGED <<active, fresh, target, ops, spoilt>> /\ told' \in [Owners -> {None} \cup Nat]
      /\ \A o \in Owners \ req[r].own : told'[o] = told[o]
      /\ Size(req[r].steps) = 1 => req'[r] = NoOp
      /\ Size(req[r].steps) # 1 => req'[r] # NoOp /\ Shape(req[r])' /\ req'[r].own = req[r].own
                                   /\ req'[r].x = req[r].x /\ (Keeps(req[r])' => Keeps(req[r]))
  BY DoneFrame
<1>2. target' = None /\ spoilt \subseteq Owners
  BY <1>1 DEF SInv, StateInv, MigInv
<1>3. CASE Size(req[r].steps) = 1
  BY <1>1, <1>2, <1>3, AnyStepInv
<1>4. CASE Size(req[r].steps) # 1
  BY <1>1, <1>2, <1>4, AnyStepInv
<1> QED BY <1>3, <1>4

\* Only a migration has progress to make.
LEMMA NoProgress ==
    ASSUME NEW q, Shape(q), q.to = None
    PROVE  Progress(q)
BY NoMigration DEF Progress, Migrations

\* The lists of a migration that work on what o owns
Current(o) ==
    CASE o = "client" -> {MigC3, MigC2}
      [] o = "reg" -> {}
      [] o = "apikey" -> {MigK3, MigK2}
      [] o = "provider" -> {MigP5, MigP4, MigP3, MigP2}

\* No list of another request is one of them.
LEMMA NotCurrent ==
    ASSUME NEW o, NEW q, q.steps \in Migrations \ Current(o)
    PROVE  /\ o = "client" => q.steps \notin {Save2, Save1, Del1, DynDel2, DynDel1, MigC3, MigC2} \cup Updates
           /\ o = "apikey" => q.steps \notin {Key2, Key1, KeyFill1, MigK3, MigK2}
           /\ o = "provider" => q.steps \notin {MigP5, MigP4, MigP3, MigP2} \cup ProvSaves \cup ProvDeletes
<1>1. o = "client" => q.steps \notin {Save2, Save1, Del1, DynDel2, DynDel1, MigC3, MigC2} \cup Updates
  BY SaveLists, DeleteLists, MigrateLists, MigrateProvLists DEF Current, Migrations, Updates
<1>2. o = "apikey" => q.steps \notin {Key2, Key1, KeyFill1, MigK3, MigK2}
  BY KeyLists, MigrateLists, MigrateProvLists DEF Current, Migrations
<1>3. o = "provider" => q.steps \notin {MigP5, MigP4, MigP3, MigP2} \cup ProvSaves \cup ProvDeletes
  BY ProvLists, ProvDeleteLists, MigrateLists, MigrateProvLists DEF Current, Migrations, ProvSaves, ProvDeletes
<1> QED BY <1>1, <1>2, <1>3

\* Outside of them what o owns is at rest.
LEMMA RestsInMigration ==
    ASSUME NEW o \in {"client", "apikey", "provider"}, NEW q, q.steps \in Migrations \ Current(o)
    PROVE  Work(o, q) <=> Rest(o)
BY NotCurrent DEF Work, WorkClient, WorkKey, WorkProvider, Rest, Updates, ProvSaves, ProvDeletes

\* The same after a step
LEMMA WillRestInMigration ==
    ASSUME NEW r, NEW o \in {"client", "apikey", "provider"}, req'[r].steps \in Migrations \ Current(o)
    PROVE  Work(o, req[r])' <=> Rest(o)'
<1>1. PICK q : q = req'[r]
  OBVIOUS
<1>2. q.steps \in Migrations \ Current(o)
  BY <1>1
<1> QED BY <1>1, <1>2, NotCurrent DEF Work, WorkClient, WorkKey, WorkProvider, Rest, Updates, ProvSaves, ProvDeletes

\* A step of a migration leaves what it does not work on now at rest.
LEMMA MigrationKeeps ==
    ASSUME NEW r \in Requests, NEW o \in {"client", "apikey", "provider"}, SameView(o), Work(o, req[r]),
           req[r].steps \in Migrations \ Current(o), req'[r].steps \in Migrations \ Current(o)
    PROVE  Work(o, req[r])'
BY RestsInMigration, WillRestInMigration, SameRest DEF Owners

\* What a step leaves to do, and its answer
LEMMA StepFrame ==
    ASSUME SInv, NEW r \in Requests, Active(r), Done(r)
    PROVE  /\ Shape(req[r])
           /\ Size(req[r].steps) = 1 => \A o \in Owners : told'[o] = Answer(req[r], o)
           /\ Size(req[r].steps) # 1 =>
                /\ req'[r].steps = After(req[r].steps) /\ req'[r].x = req[r].x /\ req'[r].t = req[r].t
                /\ req'[r].to = req[r].to /\ told' = told /\ Shape(req'[r])
                /\ \A o \in Owners : Answer(req[r], o)' = Answer(req[r], o)
           /\ First(req[r].steps) # "commit" => stale' = stale
           /\ First(req[r].steps) = "commit" => ~stale'
           /\ First(req[r].steps) \notin {"provider_row", "provider_forget"} => ghost' = ghost
           /\ First(req[r].steps) = "provider_row" => (ghost' <=> provider = None)
           /\ First(req[r].steps) = "provider_forget" => ~ghost'
           /\ UNCHANGED active
<1>1. Shape(req[r])
  BY DEF SInv, ReqInv
<1>2. Size(req[r].steps) # 1 => \A o \in Owners : Answer(req[r], o)' = Answer(req[r], o)
  BY DoneFrame DEF Answer
<1>3. stale' = IF First(req[r].steps) = "commit" THEN FALSE ELSE stale
  BY DoneFrame
<1>4. /\ First(req[r].steps) # "commit" => stale' = stale
      /\ First(req[r].steps) = "commit" => ~stale'
  BY <1>3, Zenon
<1>5. Size(req[r].steps) # 1 => Shape(req'[r])
  BY DoneFrame
<1> QED BY <1>1, <1>2, <1>4, <1>5, DoneFrame

\* The client's copy is written.
LEMMA CachedClientInv ==
    ASSUME SInv, NEW r \in Requests, CachedClient(r)
    PROVE  SInv'
<1> DEFINE q == req[r]
<1>1. Active(r) /\ Done(r) /\ cClient' = q.x /\ First(q.steps) = "client_cache"
      /\ UNCHANGED <<rows, cReg, cKey, provCaches>>
  BY DEF CachedClient, Head1, First
<1>2. Shape(q) /\ q.steps \in {Save1, Upd3, MigC2}
  BY <1>1, AtHead, StepFrame
<1>3. UNCHANGED <<active, stale, client, reg, apikey, provider, cReg, cKey, cProv, cAll, cTemplate, ghost>>
  BY <1>1, StepFrame DEF rows, provCaches
<1>4. q.x \in ClientRows /\ Keeps(q) /\ "client" \in q.own
  BY <1>2, KindOf DEF Keeps, Saves, Updates, Migrations, Saving, Updating, Migrating
<1>5. SecretsTypeOK' /\ LabelInv' /\ cClient' \in {None} \cup ClientRows /\ cReg' \in {None} \cup Secret
      /\ cAll' \in {None} \cup SUBSET ProviderRecords
  BY <1>1, <1>3, <1>4 DEF SInv, StateInv, SecretsTypeOK, LabelInv, Truthful, Labelled
<1>6. client # None => q.x.dyn = client.dyn
  BY <1>1, <1>4 DEF SInv, DynInv
<1>7. ASSUME NEW o \in q.own \ spoilt, Work(o, q)
      PROVE  IF Size(q.steps) = 1 THEN Rest(o)' ELSE Work(o, req[r])'
  <2>1. CASE q.steps = Save1
    <3>1. o = "client" /\ Size(q.steps) = 1
      BY <1>2, <2>1, SaveLists, KindOf DEF Saving, Saves
    <3>2. client = q.x /\ Has(q.x, Answer(q, "client")) /\ told'["client"] = Answer(q, "client")
      BY <1>1, <1>7, <2>1, <3>1, StepFrame DEF Work, WorkClient, Owners
    <3> QED BY <1>1, <1>3, <3>1, <3>2 DEF Rest, RestClient, Has
  <2>2. CASE q.steps = Upd3
    <3>1. o \in {"client", "reg"} /\ Size(q.steps) # 1 /\ req'[r].steps = Upd2 /\ req'[r].x = q.x /\ req'[r].t = q.t
          /\ Answer(req[r], o)' = Answer(q, o)
      BY <1>1, <1>2, <2>2, SaveLists, KindOf, StepFrame DEF Updating, Updates, Owners
    <3>2. req'[r].steps \notin {Save2, MigC3, Save1, MigC2, Upd1, Del2, Del1, DynDel2, DynDel1} \cup Migrations
      BY <3>1, SaveLists, DeleteLists, MigrateLists, MigrateProvLists DEF Migrations
    <3>3. o = "client" => WorkClient(req[r])'
      BY <1>1, <1>3, <1>7, <2>2, <3>1, <3>2 DEF Work, WorkClient, Updates, Has
    <3>4. o = "reg" => WorkReg(req[r])'
      BY <1>1, <1>3, <1>7, <2>2, <3>1, <3>2 DEF Work, WorkReg, Updates, HasToken
    <3> QED BY <3>1, <3>3, <3>4 DEF Work
  <2>3. CASE q.steps = MigC2
    <3>1. o \in {"client", "apikey", "provider"} /\ q.tell = Quietly
      BY <1>2, <2>3, KindOf DEF Migrating, Migrations
    <3>2. Size(q.steps) # 1 /\ req'[r].steps = MigC1 /\ told' = told
      BY <1>1, <2>3, MigrateLists, StepFrame
    <3>3. MigC1 \in Migrations \ Current(o)
      BY <3>1, MigrateLists, MigrateProvLists DEF Migrations, Current
    <3>4. CASE o = "client"
      <4>1. client = q.x /\ Has(q.x, Answer(q, "client")) /\ Answer(q, "client") = told["client"]
        BY <1>7, <2>3, <3>1, <3>4 DEF Work, WorkClient, Quietly, Answer
      <4>2. Rest(o)'
        BY <1>1, <1>3, <3>2, <3>4, <4>1 DEF Rest, RestClient, Has
      <4> QED BY <3>1, <3>2, <3>3, <4>2, WillRestInMigration
    <3>5. CASE o \in {"apikey", "provider"}
      <4>1. SameView(o) /\ MigC2 \in Migrations \ Current(o)
        BY <1>3, <3>2, <3>5, MigrateLists, MigrateProvLists DEF SameView, Migrations, Current
      <4> QED BY <1>7, <2>3, <3>2, <3>3, <3>5, <4>1, MigrationKeeps
    <3> QED BY <3>1, <3>4, <3>5
  <2> QED BY <1>2, <2>1, <2>2, <2>3
<1>8. Size(q.steps) # 1 /\ Progress(q) => Progress(req[r])'
  <2>1. CASE q.steps \in {Save1, Upd3}
    <3>1. Size(q.steps) # 1 => req'[r].to = None /\ Shape(req'[r])
      BY <1>1, <1>2, <2>1, KindOf, StepFrame DEF Saving, Updating, Saves, Updates
    <3>2. req'[r].steps \notin Migrations \/ Size(q.steps) = 1
      BY <3>1, NoMigration
    <3> QED BY <3>2 DEF Progress, Migrations
  <2>2. CASE q.steps = MigC2
    <3>1. Size(q.steps) # 1 => req'[r].steps = MigC1 /\ req'[r].to = q.to
      BY <1>1, <2>2, MigrateLists, StepFrame
    <3> QED BY <1>3, <2>2, <3>1, MigrateLists, MigrateProvLists DEF Progress, ClientDone, Migrations
  <2> QED BY <1>2, <2>1, <2>2
<1> HIDE DEF q
<1> QED BY <1>1, <1>3, <1>4, <1>5, <1>6, <1>7, <1>8, RequestStepInv DEF q

\* A step of a request other than a migration leaves no progress to show.
LEMMA StepProgress ==
    ASSUME SInv, NEW r \in Requests, Active(r), Done(r), req[r].to = None
    PROVE  Size(req[r].steps) # 1 => Progress(req[r])'
<1>1. Size(req[r].steps) # 1 => req'[r].to = None /\ Shape(req'[r])
  BY StepFrame
<1>2. req'[r].steps \notin Migrations \/ Size(req[r].steps) = 1
  BY <1>1, NoMigration
<1> QED BY <1>2 DEF Progress, Migrations

\* The registration token's copy is written.
LEMMA CachedRegInv ==
    ASSUME SInv, NEW r \in Requests, CachedReg(r)
    PROVE  SInv'
<1> DEFINE q == req[r]
<1>1. Active(r) /\ Done(r) /\ cReg' = q.t /\ First(q.steps) = "reg_cache"
      /\ UNCHANGED <<rows, cClient, cKey, provCaches>>
  BY DEF CachedReg, Head1, First
<1>2. Shape(q) /\ q.steps = Upd2
  BY <1>1, AtHead, StepFrame
<1>3. UNCHANGED <<active, stale, client, reg, apikey, provider, cClient, cKey, cProv, cAll, cTemplate, ghost>>
  BY <1>1, StepFrame DEF rows, provCaches
<1>4. q.t \in Secret /\ q.own = {"client", "reg"} /\ q.to = None
  BY <1>2, KindOf DEF Updates, Updating
<1>5. SecretsTypeOK' /\ LabelInv' /\ cClient' \in {None} \cup ClientRows /\ cReg' \in {None} \cup Secret
      /\ cAll' \in {None} \cup SUBSET ProviderRecords
  BY <1>1, <1>3, <1>4 DEF SInv, StateInv, SecretsTypeOK, LabelInv, Truthful, Labelled
<1>6. client # None /\ cClient # None => cClient.dyn = client.dyn
  BY DEF SInv, DynInv
<1>7. ASSUME NEW o \in q.own \ spoilt, Work(o, q)
      PROVE  IF Size(q.steps) = 1 THEN Rest(o)' ELSE Work(o, req[r])'
  <2>1. Size(q.steps) # 1 /\ req'[r].steps = Upd1 /\ req'[r].x = q.x /\ req'[r].t = q.t
        /\ \A p \in Owners : Answer(req[r], p)' = Answer(q, p)
    BY <1>1, <1>2, SaveLists, StepFrame
  <2>2. req'[r].steps \notin {Save2, MigC3, Save1, MigC2, Del2, Del1, DynDel2, DynDel1} \cup Migrations
    BY <2>1, SaveLists, DeleteLists, MigrateLists, MigrateProvLists DEF Migrations
  <2>3. o = "client" => WorkClient(req[r])'
    BY <1>2, <1>3, <1>7, <2>1, <2>2 DEF Work, WorkClient, Updates, Has, Owners
  <2>4. o = "reg" => WorkReg(req[r])'
    BY <1>1, <1>2, <1>3, <1>7, <2>1, <2>2 DEF Work, WorkReg, Updates, HasToken, Owners
  <2> QED BY <1>4, <2>1, <2>3, <2>4 DEF Work
<1>8. Size(q.steps) # 1 => Progress(req[r])'
  BY <1>1, <1>4, StepProgress
<1> HIDE DEF q
<1> QED BY <1>1, <1>3, <1>4, <1>5, <1>6, <1>7, <1>8, RequestStepInv DEF q

\* The transaction of update_dynamic commits.
LEMMA CommitDynamicInv ==
    ASSUME SInv, NEW r \in Requests, CommitDynamic(r)
    PROVE  SInv'
<1> DEFINE q == req[r]
<1>1. Active(r) /\ Done(r) /\ First(q.steps) = "commit"
      /\ client' = (IF client = None THEN None ELSE q.x) /\ reg' = (IF reg = None THEN None ELSE q.t)
      /\ UNCHANGED <<apikey, provider, caches>>
  BY DEF CommitDynamic, Head1, First
<1>2. Shape(q) /\ q.steps = Upd1 /\ Size(q.steps) = 1 /\ ~stale'
  BY <1>1, AtHead, StepFrame, SaveLists
<1>3. UNCHANGED <<active, apikey, provider, cClient, cReg, cKey, cProv, cAll, cTemplate, ghost>>
  BY <1>1, StepFrame DEF caches, clientCaches, provCaches
<1>4. q.x \in ClientRows /\ q.x.dyn /\ Labelled(q.x) /\ q.t \in Secret /\ q.own = {"client", "reg"} /\ Keeps(q)
  BY <1>2, KindOf DEF Updates, Updating, Keeps
<1>5. q.x # None /\ q.t # None
  BY <1>4, ConstantsOK
<1>6. SecretsTypeOK' /\ cClient' \in {None} \cup ClientRows /\ cReg' \in {None} \cup Secret
      /\ cAll' \in {None} \cup SUBSET ProviderRecords
  BY <1>1, <1>3, <1>4, <1>5 DEF SInv, StateInv, SecretsTypeOK
<1>7. LabelInv'
  BY <1>1, <1>3, <1>4 DEF SInv, LabelInv, Truthful, Labelled
<1>8. client' # None => client # None /\ client' = q.x
  BY <1>1
<1>9. client # None => q.x.dyn = client.dyn /\ (cClient # None => cClient.dyn = client.dyn)
  BY <1>1, <1>4 DEF SInv, DynInv
<1>10. ASSUME NEW o \in q.own \ spoilt, Work(o, q)
       PROVE  Rest(o)'
  <2>1. told'["client"] = Answer(q, "client") /\ told'["reg"] = Answer(q, "reg")
    BY <1>1, <1>2, StepFrame DEF Owners
  <2>2. CASE o = "client"
    BY <1>1, <1>2, <1>3, <1>10, <2>1, <2>2 DEF Work, WorkClient, Rest, RestClient, Has, Updates
  <2>3. CASE o = "reg"
    BY <1>1, <1>2, <1>3, <1>10, <2>1, <2>3 DEF Work, WorkReg, Rest, RestReg, HasToken, Updates
  <2> QED BY <1>4, <2>2, <2>3
<1> HIDE DEF q
<1> QED BY <1>1, <1>2, <1>3, <1>4, <1>6, <1>7, <1>8, <1>9, <1>10, RequestStepInv DEF q

\* The client's row goes, and the token with it.
LEMMA DeletedClientInv ==
    ASSUME SInv, NEW r \in Requests, DeletedClient(r)
    PROVE  SInv'
<1> DEFINE q == req[r]
<1>1. Active(r) /\ Done(r) /\ First(q.steps) = "client_delete" /\ client' = None /\ reg' = None
      /\ UNCHANGED <<apikey, provider, caches>>
  BY DEF DeletedClient, Head1, First, Cascaded
<1>2. Shape(q) /\ q.steps \in {Del2, DynDel3}
  BY <1>1, AtHead, StepFrame
<1>3. UNCHANGED <<active, stale, apikey, provider, cClient, cReg, cKey, cProv, cAll, cTemplate, ghost>>
  BY <1>1, StepFrame DEF caches, clientCaches, provCaches
<1>4. q.own = {"client", "reg"} /\ q.to = None
  BY <1>2, KindOf DEF Deletes, Deleting
<1>5. SecretsTypeOK' /\ LabelInv' /\ cClient' \in {None} \cup ClientRows /\ cReg' \in {None} \cup Secret
      /\ cAll' \in {None} \cup SUBSET ProviderRecords
  BY <1>1, <1>3 DEF SInv, StateInv, SecretsTypeOK, LabelInv, Truthful
<1>6. ASSUME NEW o \in q.own \ spoilt, Work(o, q)
      PROVE  IF Size(q.steps) = 1 THEN Rest(o)' ELSE Work(o, req[r])'
  <2>1. Size(q.steps) # 1 /\ (q.steps = Del2 => req'[r].steps = Del1) /\ (q.steps = DynDel3 => req'[r].steps = DynDel2)
    BY <1>1, <1>2, DeleteLists, StepFrame
  <2>2. req'[r].steps \in {Del1, DynDel2}
        /\ req'[r].steps \notin {Save2, MigC3, Save1, MigC2, DynDel1, Del2} \cup Updates \cup Migrations
    BY <1>2, <2>1, SaveLists, DeleteLists, MigrateLists, MigrateProvLists DEF Migrations, Updates
  <2>3. o = "client" => WorkClient(req[r])'
    BY <1>1, <2>2 DEF WorkClient, Updates
  <2>4. o = "reg" => WorkReg(req[r])'
    <3>1. o = "reg" /\ req'[r].steps = Del1 => cReg = None
      BY <1>2, <1>6, <2>1, DeleteLists DEF Work, WorkReg
    <3> QED BY <1>1, <1>3, <2>2, <3>1 DEF WorkReg, Updates
  <2> QED BY <1>4, <2>1, <2>3, <2>4 DEF Work
<1>7. Size(q.steps) # 1 => Progress(req[r])'
  BY <1>1, <1>4, StepProgress
<1> HIDE DEF q
<1> QED BY <1>1, <1>3, <1>4, <1>5, <1>6, <1>7, RequestStepInv DEF q

\* The client's copy goes.
LEMMA ForgottenClientInv ==
    ASSUME SInv, NEW r \in Requests, ForgottenClient(r)
    PROVE  SInv'
<1> DEFINE q == req[r]
<1>1. Active(r) /\ Done(r) /\ First(q.steps) = "client_forget" /\ cClient' = None
      /\ UNCHANGED <<rows, cReg, cKey, provCaches>>
  BY DEF ForgottenClient, Head1, First
<1>2. Shape(q) /\ q.steps \in {Del1, DynDel2}
  BY <1>1, AtHead, StepFrame
<1>3. UNCHANGED <<active, stale, client, reg, apikey, provider, cReg, cKey, cProv, cAll, cTemplate, ghost>>
  BY <1>1, StepFrame DEF rows, provCaches
<1>4. q.own = {"client", "reg"} /\ q.to = None /\ q.tell = [o \in {"client", "reg"} |-> None]
  BY <1>2, KindOf DEF Deletes, Deleting
<1>5. SecretsTypeOK' /\ LabelInv' /\ cClient' \in {None} \cup ClientRows /\ cReg' \in {None} \cup Secret
      /\ cAll' \in {None} \cup SUBSET ProviderRecords
  BY <1>1, <1>3 DEF SInv, StateInv, SecretsTypeOK, LabelInv, Truthful, Labelled
<1>6. ASSUME NEW o \in q.own \ spoilt, Work(o, q)
      PROVE  IF Size(q.steps) = 1 THEN Rest(o)' ELSE Work(o, req[r])'
  <2>1. o \in {"client", "reg"} /\ Answer(q, o) = None
    BY <1>4 DEF Answer
  <2>2. CASE q.steps = Del1
    <3>1. Size(q.steps) = 1 /\ told'[o] = None
      BY <1>1, <2>1, <2>2, StepFrame, DeleteLists DEF Owners
    <3>2. o = "reg" => reg = None /\ cReg = None
      BY <1>6, <2>2 DEF Work, WorkReg
    <3> QED BY <1>1, <1>3, <2>1, <3>1, <3>2 DEF Rest, RestClient, RestReg, Has, HasToken
  <2>3. CASE q.steps = DynDel2
    <3>1. Size(q.steps) # 1 /\ req'[r].steps = DynDel1
      BY <1>1, <2>3, StepFrame, DeleteLists
    <3>2. req'[r].steps \notin {Save2, MigC3, Save1, MigC2, Del2, Del1} \cup Updates \cup Migrations
      BY <3>1, SaveLists, DeleteLists, MigrateLists, MigrateProvLists DEF Migrations, Updates
    <3>3. o = "client" => WorkClient(req[r])'
      BY <1>1, <1>3, <1>6, <2>3, <3>1, <3>2 DEF Work, WorkClient, Updates
    <3>4. o = "reg" => WorkReg(req[r])'
      BY <1>3, <1>6, <2>3, <3>2 DEF Work, WorkReg, Updates
    <3> QED BY <2>1, <3>1, <3>3, <3>4 DEF Work
  <2> QED BY <1>2, <2>2, <2>3
<1>7. Size(q.steps) # 1 => Progress(req[r])'
  BY <1>1, <1>4, StepProgress
<1> HIDE DEF q
<1> QED BY <1>1, <1>3, <1>4, <1>5, <1>6, <1>7, RequestStepInv DEF q

\* The registration token's copy goes.
LEMMA ForgottenRegInv ==
    ASSUME SInv, NEW r \in Requests, ForgottenReg(r)
    PROVE  SInv'
<1> DEFINE q == req[r]
<1>1. Active(r) /\ Done(r) /\ First(q.steps) = "reg_forget" /\ cReg' = None
      /\ UNCHANGED <<rows, cClient, cKey, provCaches>>
  BY DEF ForgottenReg, Head1, First
<1>2. Shape(q) /\ q.steps = DynDel1 /\ Size(q.steps) = 1
  BY <1>1, AtHead, StepFrame, DeleteLists
<1>3. UNCHANGED <<active, stale, client, reg, apikey, provider, cClient, cKey, cProv, cAll, cTemplate, ghost>>
  BY <1>1, StepFrame DEF rows, provCaches
<1>4. q.own = {"client", "reg"} /\ q.tell = [o \in {"client", "reg"} |-> None]
  BY <1>2, KindOf DEF Deletes, Deleting
<1>5. SecretsTypeOK' /\ LabelInv' /\ cClient' \in {None} \cup ClientRows /\ cReg' \in {None} \cup Secret
      /\ cAll' \in {None} \cup SUBSET ProviderRecords
  BY <1>1, <1>3 DEF SInv, StateInv, SecretsTypeOK, LabelInv, Truthful, Labelled
<1>6. ASSUME NEW o \in q.own \ spoilt, Work(o, q)
      PROVE  Rest(o)'
  <2>1. o \in {"client", "reg"} /\ Answer(q, o) = None
    BY <1>4 DEF Answer
  <2>2. told'[o] = None
    BY <1>1, <1>2, <2>1, StepFrame DEF Owners
  <2>3. (o = "client" => client = None /\ cClient = None) /\ (o = "reg" => reg = None)
    BY <1>2, <1>6 DEF Work, WorkClient, WorkReg
  <2> QED BY <1>1, <1>3, <2>1, <2>2, <2>3 DEF Rest, RestClient, RestReg, Has, HasToken
<1>7. client # None /\ cClient # None => cClient.dyn = client.dyn
  BY DEF SInv, DynInv
<1> HIDE DEF q
<1> QED BY <1>1, <1>2, <1>3, <1>4, <1>5, <1>6, <1>7, RequestStepInv DEF q

\* An API key's row is written or deleted.
LEMMA KeyRowInv ==
    ASSUME SInv, NEW r \in Requests, KeyRow(r)
    PROVE  SInv'
<1> DEFINE q == req[r]
<1>1. Active(r) /\ Done(r) /\ First(q.steps) \in {"key_row", "key_delete"}
      /\ apikey' = (IF apikey = None THEN None ELSE q.x)
      /\ UNCHANGED <<client, reg, provider, caches>>
  BY DEF KeyRow, Head1, First
<1>2. Shape(q) /\ q.steps \in {Key2, KeyDel2, MigK3}
  BY <1>1, AtHead, StepFrame
<1>3. UNCHANGED <<active, stale, client, reg, provider, cClient, cReg, cKey, cProv, cAll, cTemplate, ghost>>
  BY <1>1, StepFrame DEF caches, clientCaches, provCaches
<1>4. /\ q.steps = Key2 => KeySaving(q)
      /\ q.steps = KeyDel2 => KeyDeleting(q)
      /\ q.steps = MigK3 => Migrating(q)
  BY <1>2, KindOf DEF Migrations
<1>5. /\ (q.x \in ApiKeyRows /\ Truthful(q.x)) \/ q.x = None
      /\ "apikey" \in q.own
  BY <1>2, <1>4 DEF KeySaving, KeyDeleting, Migrating
<1>6. SecretsTypeOK' /\ LabelInv' /\ cClient' \in {None} \cup ClientRows /\ cReg' \in {None} \cup Secret
      /\ cAll' \in {None} \cup SUBSET ProviderRecords
  BY <1>1, <1>3, <1>5 DEF SInv, StateInv, SecretsTypeOK, LabelInv, Truthful, Labelled
<1>7. client # None /\ cClient # None => cClient.dyn = client.dyn
  BY DEF SInv, DynInv
<1>8. /\ Size(q.steps) # 1 /\ told' = told /\ req'[r].x = q.x /\ req'[r].to = q.to
      /\ \A o \in Owners : Answer(req[r], o)' = Answer(q, o)
      /\ q.steps \in {Key2, KeyDel2} => req'[r].steps = Key1
      /\ q.steps = MigK3 => req'[r].steps = MigK2
  BY <1>1, <1>2, KeyLists, MigrateLists, StepFrame
<1>9. ASSUME NEW o \in q.own \ spoilt, Work(o, q)
      PROVE  Work(o, req[r])'
  <2>1. CASE o = "apikey"
    <3>1. Has(apikey', Answer(q, "apikey"))
      <4>1. CASE q.steps \in {Key2, MigK3}
        BY <1>1, <1>9, <2>1, <4>1 DEF Work, WorkKey
      <4>2. CASE q.steps = KeyDel2
        BY <1>1, <1>4, <4>2 DEF KeyDeleting, Answer, Tell, Has
      <4> QED BY <1>2, <4>1, <4>2
    <3>2. req'[r].steps \in {Key1, MigK2} /\ req'[r].steps \notin {Key2, MigK3, KeyFill1} \cup (Migrations \ {MigK3, MigK2})
      BY <1>2, <1>8, KeyLists, MigrateLists, MigrateProvLists DEF Migrations
    <3>3. Answer(req[r], "apikey")' = Answer(q, "apikey")
      BY <1>8 DEF Owners
    <3> QED BY <2>1, <3>1, <3>2, <3>3 DEF Work, WorkKey, Has
  <2>2. CASE o # "apikey"
    <3>1. q.steps = MigK3 /\ o \in {"client", "provider"}
      BY <1>2, <1>4, <2>2 DEF KeySaving, KeyDeleting, Migrating
    <3>2. SameView(o) /\ MigK3 \in Migrations \ Current(o) /\ MigK2 \in Migrations \ Current(o)
      BY <1>3, <1>8, <3>1, MigrateLists, MigrateProvLists DEF SameView, Migrations, Current
    <3> QED BY <1>8, <1>9, <3>1, <3>2, MigrationKeeps
  <2> QED BY <2>1, <2>2
<1>10. Progress(q) => Progress(req[r])'
  <2>1. CASE q.steps \in {Key2, KeyDel2}
    BY <1>1, <1>4, <1>8, <2>1, StepProgress DEF KeySaving, KeyDeleting
  <2>2. CASE q.steps = MigK3
    <3>1. KeyDone(q.to)'
      BY <1>1, <1>4, <1>8, <2>2 DEF Migrating, Truthful, KeyDone
    <3> QED BY <1>3, <1>8, <2>2, <3>1, MigrateLists, MigrateProvLists DEF Progress, ClientDone, KeyDone, Migrations
  <2> QED BY <1>2, <2>1, <2>2
<1> HIDE DEF q
<1> QED BY <1>1, <1>3, <1>5, <1>6, <1>7, <1>8, <1>9, <1>10, RequestStepInv DEF q

\* An API key is put into the cache or removed from it.
LEMMA CachedKeyInv ==
    ASSUME SInv, NEW r \in Requests, CachedKey(r)
    PROVE  SInv'
<1> DEFINE q == req[r]
<1>1. Active(r) /\ Done(r) /\ First(q.steps) \in {"key_cache", "key_forget"}
      /\ (First(q.steps) = "key_cache" => cKey' = q.x) /\ (First(q.steps) # "key_cache" => cKey' = None)
      /\ UNCHANGED <<rows, clientCaches, provCaches>>
  BY DEF CachedKey, Head1, First
<1>2. Shape(q) /\ q.steps \in {KeyFill1, Key1, MigK2}
  BY <1>1, AtHead, StepFrame
<1>3. UNCHANGED <<active, stale, client, reg, apikey, provider, cClient, cReg, cProv, cAll, cTemplate, ghost>>
  BY <1>1, StepFrame DEF rows, clientCaches, provCaches
<1>4. /\ q.steps = KeyFill1 => KeyFilling(q)
      /\ q.steps = Key1 => KeySaving(q) \/ KeyDeleting(q)
      /\ q.steps = MigK2 => Migrating(q)
  BY <1>2, KindOf DEF Migrations
<1>5. "apikey" \in q.own
  BY <1>2, <1>4 DEF KeyFilling, KeySaving, KeyDeleting, Migrating
<1>6. SecretsTypeOK' /\ LabelInv' /\ cClient' \in {None} \cup ClientRows /\ cReg' \in {None} \cup Secret
      /\ cAll' \in {None} \cup SUBSET ProviderRecords
  BY <1>3 DEF SInv, StateInv, SecretsTypeOK, LabelInv, Truthful, Labelled
<1>7. client # None /\ cClient # None => cClient.dyn = client.dyn
  BY DEF SInv, DynInv
<1>8. ASSUME NEW o \in q.own \ spoilt, Work(o, q)
      PROVE  IF Size(q.steps) = 1 THEN Rest(o)' ELSE Work(o, req[r])'
  <2>1. CASE q.steps \in {KeyFill1, Key1}
    <3>1. o = "apikey" /\ Size(q.steps) = 1
      BY <1>4, <2>1, KeyLists DEF KeyFilling, KeySaving, KeyDeleting
    <3>2. told'["apikey"] = Answer(q, "apikey")
      BY <1>1, <3>1, StepFrame DEF Owners
    <3>3. q.steps = KeyFill1 => Answer(q, "apikey") = told["apikey"]
      BY <1>4 DEF KeyFilling, Quietly, Answer
    <3>4. q.steps = KeyFill1 => apikey # None /\ cKey' = into_api_key(apikey) /\ Has(apikey, told["apikey"])
      BY <1>1, <1>8, <3>1, KeyLists DEF Work, WorkKey
    <3>5. q.steps = Key1 => cKey' = None /\ Has(apikey, Answer(q, "apikey"))
      BY <1>1, <1>8, <3>1, KeyLists DEF Work, WorkKey
    <3> QED BY <1>3, <2>1, <3>1, <3>2, <3>3, <3>4, <3>5 DEF Rest, RestKey, Has, into_api_key
  <2>2. CASE q.steps = MigK2
    <3>1. Size(q.steps) # 1 /\ req'[r].steps = MigK1 /\ told' = told /\ cKey' = None
      BY <1>1, <2>2, MigrateLists, StepFrame
    <3>2. o \in {"client", "apikey", "provider"} /\ q.tell = Quietly
      BY <1>4, <2>2 DEF Migrating
    <3>3. MigK1 \in Migrations \ Current(o)
      BY <3>2, MigrateLists, MigrateProvLists DEF Migrations, Current
    <3>4. CASE o = "apikey"
      <4>1. Has(apikey, told["apikey"])
        BY <1>8, <2>2, <3>2, <3>4 DEF Work, WorkKey, Answer, Quietly
      <4>2. Rest(o)'
        BY <1>3, <3>1, <3>4, <4>1 DEF Rest, RestKey, Has
      <4> QED BY <3>1, <3>2, <3>3, <4>2, WillRestInMigration
    <3>5. CASE o # "apikey"
      <4>1. SameView(o) /\ MigK2 \in Migrations \ Current(o)
        BY <1>3, <3>1, <3>2, <3>5, MigrateLists, MigrateProvLists DEF SameView, Migrations, Current
      <4> QED BY <1>8, <2>2, <3>1, <3>2, <3>3, <4>1, MigrationKeeps
    <3> QED BY <3>4, <3>5
  <2> QED BY <1>2, <2>1, <2>2
<1>9. Size(q.steps) # 1 /\ Progress(q) => Progress(req[r])'
  <2>1. CASE q.steps \in {KeyFill1, Key1}
    BY <2>1, KeyLists
  <2>2. CASE q.steps = MigK2
    <3>1. Size(q.steps) # 1 => req'[r].steps = MigK1 /\ req'[r].to = q.to
      BY <1>1, <2>2, MigrateLists, StepFrame
    <3> QED BY <1>3, <2>2, <3>1, MigrateLists, MigrateProvLists DEF Progress, ClientDone, KeyDone, Migrations
  <2> QED BY <1>2, <2>1, <2>2
<1> HIDE DEF q
<1> QED BY <1>1, <1>3, <1>5, <1>6, <1>7, <1>8, <1>9, RequestStepInv DEF q

\* What a step on the row or a copy of a provider has to show
LEMMA ProviderStepInv ==
    ASSUME SInv, NEW r \in Requests, Active(r), Done(r),
           UNCHANGED <<client, reg, apikey, cClient, cReg, cKey, stale>>,
           provider' \in {None} \cup ProviderRecords, cAll' \in {None} \cup SUBSET ProviderRecords,
           req[r].steps \in ProvSaves \cup ProvDeletes \cup {MigP5, MigP4, MigP3, MigP2},
           "provider" \notin spoilt /\ WorkProvider(req[r]) =>
               IF Size(req[r].steps) = 1 THEN RestProvider' ELSE WorkProvider(req[r])',
           req[r].steps = MigP5 => ProvDone(req[r].to)',
           req[r].to # None /\ req[r].steps # MigP5 => provider' = provider
    PROVE  SInv'
<1> DEFINE q == req[r]
<1>1. Shape(q) /\ active' = active
  BY StepFrame
<1>2. \/ q.own = {"provider"} /\ q.to = None
      \/ q.steps \in {MigP5, MigP4, MigP3, MigP2} /\ Migrating(q)
  <2>1. CASE q.steps \in ProvSaves \cup ProvDeletes
    BY <1>1, <2>1, KindOf DEF ProvSaving, ProvDeleting
  <2>2. CASE q.steps \in {MigP5, MigP4, MigP3, MigP2}
    BY <1>1, <2>2, KindOf DEF Migrations
  <2> QED BY <2>1, <2>2
<1>3. "provider" \in q.own
  BY <1>2 DEF Migrating
<1>4. SecretsTypeOK' /\ LabelInv' /\ cClient' \in {None} \cup ClientRows /\ cReg' \in {None} \cup Secret
  BY <1>1 DEF SInv, StateInv, SecretsTypeOK, LabelInv, Truthful, Labelled
<1>5. client # None /\ cClient # None => cClient.dyn = client.dyn
  BY DEF SInv, DynInv
<1>6. Migrating(q) /\ q.steps \in {MigP5, MigP4, MigP3, MigP2} =>
        Size(q.steps) # 1 /\ req'[r].to = q.to /\ told' = told /\ req'[r].steps \in {MigP4, MigP3, MigP2, MigP1}
  BY MigrateProvLists, StepFrame
<1>7. ASSUME NEW o \in q.own \ spoilt, Work(o, q)
      PROVE  IF Size(q.steps) = 1 THEN Rest(o)' ELSE Work(o, req[r])'
  <2>1. CASE o = "provider"
    <3>1. WorkProvider(q)
      BY <1>7, <2>1 DEF Work
    <3>2. CASE Size(q.steps) = 1
      BY <2>1, <3>1, <3>2 DEF Rest
    <3>3. CASE Size(q.steps) # 1
      BY <2>1, <3>1, <3>3 DEF Work
    <3> QED BY <3>2, <3>3
  <2>2. CASE o # "provider"
    <3>1. q.steps \in {MigP5, MigP4, MigP3, MigP2} /\ Migrating(q) /\ o \in {"client", "apikey"}
      BY <1>2, <2>2 DEF Migrating
    <3>2. SameView(o) /\ {MigP5, MigP4, MigP3, MigP2, MigP1} \subseteq Migrations \ Current(o)
      BY <1>6, <3>1, MigrateLists, MigrateProvLists DEF SameView, Migrations, Current
    <3> QED BY <1>6, <1>7, <3>1, <3>2, MigrationKeeps
  <2> QED BY <2>1, <2>2
<1>8. Size(q.steps) # 1 /\ Progress(q) => Progress(req[r])'
  <2>1. CASE q.to = None
    BY <2>1, StepProgress
  <2>2. CASE q.steps \in {MigP5, MigP4, MigP3, MigP2} /\ Migrating(q)
    <3> SUFFICES ASSUME Progress(q) PROVE Progress(req[r])'
      OBVIOUS
    <3>1. ClientDone(q.to) /\ KeyDone(q.to) /\ (q.steps # MigP5 => ProvDone(q.to))
      BY <2>2, MigrateLists, MigrateProvLists DEF Progress, Migrations
    <3>2. req'[r].to = q.to
      BY <1>6, <2>2
    <3>3. ClientDone(req[r].to)' /\ KeyDone(req[r].to)'
      BY <3>1, <3>2 DEF ClientDone, KeyDone
    <3>4. ProvDone(req[r].to)'
      BY <2>2, <3>1, <3>2, ConstantsOK DEF ProvDone, Migrating
    <3> QED BY <3>3, <3>4 DEF Progress
  <2> QED BY <1>2, <2>1, <2>2
<1> HIDE DEF q
<1> QED BY <1>1, <1>3, <1>4, <1>5, <1>7, <1>8, RequestStepInv DEF q

\* A provider's row is written or deleted.
LEMMA ProviderRowInv ==
    ASSUME SInv, NEW r \in Requests, ProviderRow(r)
    PROVE  SInv'
<1> DEFINE q == req[r]
<1>1. Active(r) /\ Done(r) /\ First(q.steps) \in {"provider_row", "provider_insert", "provider_delete"}
      /\ provider' = (IF provider = None /\ First(q.steps) = "provider_row" THEN None ELSE q.x)
      /\ UNCHANGED <<client, reg, apikey, caches>>
  BY DEF ProviderRow, Head1, First
<1>2. Shape(q) /\ q.steps \in {Prov4, ProvNew4, ProvDel4, MigP5}
  BY <1>1, AtHead, StepFrame
<1>3. UNCHANGED <<stale, client, reg, apikey, cClient, cReg, cKey, cProv, cAll, cTemplate>>
  BY <1>1, StepFrame DEF caches, clientCaches, provCaches
<1>4. /\ q.steps \in {Prov4, ProvNew4} => ProvSaving(q)
      /\ q.steps = ProvDel4 => ProvDeleting(q)
      /\ q.steps = MigP5 => Migrating(q)
  BY <1>2, KindOf DEF Migrations
<1>5. q.x \in {None} \cup ProviderRecords
  BY <1>2, <1>4 DEF ProvSaving, ProvDeleting, Migrating
<1>6. provider' \in {None} \cup ProviderRecords /\ cAll' \in {None} \cup SUBSET ProviderRecords
  BY <1>1, <1>3, <1>5 DEF SInv, StateInv
<1>7. /\ Size(q.steps) # 1 /\ req'[r].x = q.x /\ req'[r].to = q.to
      /\ Answer(req[r], "provider")' = Answer(q, "provider")
      /\ req'[r].steps \in {Prov3, ProvDel3, MigP4} /\ (req'[r].steps = ProvDel3 <=> q.steps = ProvDel4)
  BY <1>1, <1>2, ProvLists, ProvDeleteLists, MigrateProvLists, StepFrame DEF Owners
<1>8. WorkProvider(q) => WorkProvider(req[r])'
  <2> SUFFICES ASSUME WorkProvider(q) PROVE WorkProvider(req[r])'
    OBVIOUS
  <2>1. /\ q.steps # ProvDel4 => /\ ghost' => provider' = None
                                 /\ ~ghost' => provider' = q.x /\ Has(q.x, Answer(q, "provider"))
        /\ q.steps = ProvDel4 => provider' = None
    <3>1. CASE q.steps \in {Prov4, MigP5}
      <4>1. First(q.steps) = "provider_row" /\ (ghost' <=> provider = None)
        BY <1>1, <3>1, ProvLists, MigrateProvLists, StepFrame
      <4> QED BY <1>1, <3>1, <4>1, ProvLists, ProvDeleteLists, MigrateProvLists DEF WorkProvider
    <3>2. CASE q.steps = ProvNew4
      <4>1. First(q.steps) = "provider_insert" /\ ghost' = ghost
        BY <1>1, <3>2, ProvLists, StepFrame
      <4>2. ~ghost'
        BY <3>2, <4>1 DEF WorkProvider
      <4> QED BY <1>1, <3>2, <4>1, <4>2, ProvLists, ProvDeleteLists DEF WorkProvider
    <3>3. CASE q.steps = ProvDel4
      BY <1>1, <1>4, <3>3, ProvDeleteLists DEF ProvDeleting
    <3> QED BY <1>2, <3>1, <3>2, <3>3
  <2>2. req'[r].steps \notin {Prov4, ProvNew4, MigP5, Prov2, ProvDel2, MigP3, Prov1, ProvDel1, MigP2}
                             \cup (Migrations \ {MigP5, MigP4, MigP3, MigP2})
    BY <1>7, ProvLists, ProvDeleteLists, MigrateLists, MigrateProvLists DEF Migrations
  <2>3. req'[r].steps = ProvDel3 => req'[r].steps \notin {Prov3, Prov2, Prov1, MigP4, MigP3, MigP2}
    BY ProvLists, ProvDeleteLists, MigrateProvLists
  <2>5. req'[r].steps # ProvDel3 => req'[r].steps \notin {ProvDel3, ProvDel2, ProvDel1}
    BY <1>7, ProvLists, ProvDeleteLists, MigrateProvLists
  <2> QED BY <1>7, <2>1, <2>2, <2>3, <2>5 DEF WorkProvider, Written, Has
<1>9. q.steps = MigP5 => ProvDone(q.to)'
  BY <1>1, <1>4, <1>7 DEF Migrating, ProvDone
<1>10. q.steps # MigP5 => q.to = None
  BY <1>2, <1>4 DEF ProvSaving, ProvDeleting
<1> HIDE DEF q
<1> QED BY <1>1, <1>2, <1>3, <1>6, <1>7, <1>8, <1>9, <1>10, ProviderStepInv DEF q, ProvSaves, ProvDeletes

\* The copies of the lists go.
LEMMA DroppedAllInv ==
    ASSUME SInv, NEW r \in Requests, DroppedAll(r)
    PROVE  SInv'
<1> DEFINE q == req[r]
<1>1. Active(r) /\ Done(r) /\ First(q.steps) = "provider_drop" /\ cAll' = None /\ cTemplate' = None
      /\ UNCHANGED <<rows, clientCaches, cKey, cProv>>
  BY DEF DroppedAll, Head1, First, Dropped
<1>2. Shape(q) /\ q.steps \in {Prov3, ProvDel3, MigP4}
  BY <1>1, AtHead, StepFrame
<1>3. UNCHANGED <<stale, client, reg, apikey, provider, cClient, cReg, cKey, cProv, ghost>>
  BY <1>1, StepFrame DEF rows, clientCaches
<1>4. provider' \in {None} \cup ProviderRecords /\ cAll' \in {None} \cup SUBSET ProviderRecords
  BY <1>1, <1>3 DEF SInv, StateInv, SecretsTypeOK
<1>5. /\ Size(q.steps) # 1 /\ req'[r].x = q.x
      /\ Answer(req[r], "provider")' = Answer(q, "provider")
      /\ req'[r].steps \in {Prov2, ProvDel2, MigP3} /\ (req'[r].steps = ProvDel2 <=> q.steps = ProvDel3)
  BY <1>1, <1>2, ProvLists, ProvDeleteLists, MigrateProvLists, StepFrame DEF Owners
<1>6. WorkProvider(q) => WorkProvider(req[r])'
  <2>1. WorkProvider(q) => /\ q.steps # ProvDel3 => Written(q)
                           /\ q.steps = ProvDel3 => provider = None
    BY <1>2 DEF WorkProvider
  <2>2. req'[r].steps \notin {Prov4, ProvNew4, MigP5, Prov1, ProvDel1, MigP2}
                             \cup (Migrations \ {MigP5, MigP4, MigP3, MigP2})
    BY <1>5, ProvLists, ProvDeleteLists, MigrateLists, MigrateProvLists DEF Migrations
  <2>3. req'[r].steps = ProvDel2 => req'[r].steps \notin {Prov3, Prov2, Prov1, MigP4, MigP3, MigP2}
    BY ProvLists, ProvDeleteLists, MigrateProvLists
  <2>4. req'[r].steps # ProvDel2 => req'[r].steps \notin {ProvDel3, ProvDel2, ProvDel1}
    BY <1>5, ProvLists, ProvDeleteLists, MigrateProvLists
  <2> QED BY <1>1, <1>3, <1>5, <2>1, <2>2, <2>3, <2>4 DEF WorkProvider, Written, Has
<1>7. q.steps # MigP5
  BY <1>2, ProvLists, ProvDeleteLists, MigrateProvLists
<1> HIDE DEF q
<1> QED BY <1>1, <1>2, <1>3, <1>4, <1>5, <1>6, <1>7, ProviderStepInv DEF q, ProvSaves, ProvDeletes

\* The copies of the lists are made again, from the rows if nothing interferes.
LEMMA FilledTemplateInv ==
    ASSUME SInv, NEW r \in Requests, FilledTemplate(r)
    PROVE  SInv'
<1> DEFINE q == req[r]
<1>1. Active(r) /\ Done(r) /\ First(q.steps) = "provider_fill"
      /\ cAll' = FindAll /\ cTemplate' = (IF cTemplate = None THEN Template(FindAll) ELSE cTemplate)
      /\ UNCHANGED <<rows, clientCaches, cKey, cProv>>
  BY DEF FilledTemplate, Head1, First
<1>2. Shape(q) /\ q.steps \in {Prov2, ProvDel2, MigP3}
  BY <1>1, AtHead, StepFrame
<1>3. UNCHANGED <<stale, client, reg, apikey, provider, cClient, cReg, cKey, cProv, ghost>>
  BY <1>1, StepFrame DEF rows, clientCaches
<1>4. provider' \in {None} \cup ProviderRecords /\ cAll' \in {None} \cup SUBSET ProviderRecords
  BY <1>1, <1>3 DEF SInv, StateInv, SecretsTypeOK, FindAll, ProviderRows
<1>5. /\ Size(q.steps) # 1 => /\ req'[r].x = q.x
                              /\ Answer(req[r], "provider")' = Answer(q, "provider")
                              /\ req'[r].steps \in {Prov1, ProvDel1, MigP2}
                              /\ req'[r].steps = ProvDel1 <=> q.steps = ProvDel2
      /\ Size(q.steps) # 1
  BY <1>1, <1>2, ProvLists, ProvDeleteLists, MigrateProvLists, StepFrame DEF Owners
<1>6. WorkProvider(q) => WorkProvider(req[r])'
  <2> SUFFICES ASSUME WorkProvider(q) PROVE WorkProvider(req[r])'
    OBVIOUS
  <2>1. /\ cAll = None /\ cTemplate = None
        /\ q.steps # ProvDel2 => Written(q)
        /\ q.steps = ProvDel2 => provider = None
    BY <1>2 DEF WorkProvider
  <2>2. cAll' = ProviderRows /\ cTemplate' = Template(ProviderRows)
    BY <1>1, <2>1 DEF FindAll
  <2>3. ProviderRows' = ProviderRows
    BY <1>3 DEF ProviderRows
  <2>4. Template(ProviderRows)' = Template(ProviderRows)
    BY <2>3 DEF Template
  <2>5. req'[r].steps \notin {Prov4, ProvNew4, MigP5, Prov2, ProvDel2, MigP3}
                             \cup (Migrations \ {MigP5, MigP4, MigP3, MigP2})
    BY <1>5, ProvLists, ProvDeleteLists, MigrateLists, MigrateProvLists DEF Migrations
  <2>6. req'[r].steps = ProvDel1 => req'[r].steps \notin {Prov3, Prov2, Prov1, MigP4, MigP3, MigP2}
    BY ProvLists, ProvDeleteLists, MigrateProvLists
  <2>7. req'[r].steps # ProvDel1 => req'[r].steps \notin {ProvDel3, ProvDel2, ProvDel1}
    BY <1>5, ProvLists, ProvDeleteLists, MigrateProvLists
  <2> QED BY <1>3, <1>5, <2>1, <2>2, <2>3, <2>4, <2>5, <2>6, <2>7 DEF WorkProvider, Written, Has
<1>7. q.steps # MigP5
  BY <1>2, ProvLists, ProvDeleteLists, MigrateProvLists
<1> HIDE DEF q
<1> QED BY <1>1, <1>2, <1>3, <1>4, <1>5, <1>6, <1>7, ProviderStepInv DEF q, ProvSaves, ProvDeletes

\* The copy of a provider is written or removed.
LEMMA CachedProviderInv ==
    ASSUME SInv, NEW r \in Requests, CachedProvider(r)
    PROVE  SInv'
<1> DEFINE q == req[r]
<1>1. Active(r) /\ Done(r) /\ First(q.steps) \in {"provider_cache", "provider_forget"}
      /\ cProv' = (IF First(q.steps) = "provider_cache" THEN q.x ELSE None)
      /\ UNCHANGED <<rows, clientCaches, cKey, cAll, cTemplate>>
  BY DEF CachedProvider, Head1, First
<1>2. Shape(q) /\ q.steps \in {Prov1, ProvDel1, MigP2}
  BY <1>1, AtHead, StepFrame
<1>3. UNCHANGED <<stale, client, reg, apikey, provider, cClient, cReg, cKey, cAll, cTemplate>>
  BY <1>1, StepFrame DEF rows, clientCaches
<1>4. provider' \in {None} \cup ProviderRecords /\ cAll' \in {None} \cup SUBSET ProviderRecords
  BY <1>3 DEF SInv, StateInv, SecretsTypeOK
<1>5. q.steps = MigP2 => Migrating(q)
  BY <1>2, KindOf DEF Migrations
<1>6. WorkProvider(q) => IF Size(q.steps) = 1 THEN RestProvider' ELSE WorkProvider(req[r])'
  <2> SUFFICES ASSUME WorkProvider(q)
               PROVE  IF Size(q.steps) = 1 THEN RestProvider' ELSE WorkProvider(req[r])'
    OBVIOUS
  <2>1. /\ cAll = ProviderRows /\ cTemplate = Template(ProviderRows)
        /\ q.steps \in {Prov1, MigP2} => Written(q)
        /\ q.steps = ProvDel1 => provider = None
    BY <1>2 DEF WorkProvider
  <2>2. ProviderRows' = ProviderRows
    BY <1>3 DEF ProviderRows
  <2>3. Template(ProviderRows)' = Template(ProviderRows)
    BY <2>2 DEF Template
  <2>4. told'["provider"] = Answer(q, "provider") => RestProvider'
    <3> SUFFICES ASSUME told'["provider"] = Answer(q, "provider") PROVE RestProvider'
      OBVIOUS
    <3>1. CASE q.steps \in {Prov1, MigP2}
      <4>1. First(q.steps) = "provider_cache" /\ ghost' = ghost
        BY <1>1, <3>1, ProvLists, MigrateProvLists, StepFrame
      <4>2. cProv' = q.x
        BY <1>1, <4>1
      <4> QED BY <1>3, <2>1, <2>2, <2>3, <3>1, <4>1, <4>2 DEF RestProvider, Written, Has
    <3>2. CASE q.steps = ProvDel1
      <4>1. First(q.steps) = "provider_forget" /\ ~ghost'
        BY <1>1, <3>2, ProvDeleteLists, StepFrame
      <4>2. cProv' = None
        BY <1>1, <4>1
      <4>3. Answer(q, "provider") = None
        BY <1>2, <3>2, KindOf DEF ProvDeleting, Tell, Answer
      <4> QED BY <1>3, <2>1, <2>2, <2>3, <3>2, <4>1, <4>2, <4>3 DEF RestProvider, Has
    <3> QED BY <1>2, <3>1, <3>2
  <2>5. CASE q.steps \in {Prov1, ProvDel1}
    BY <1>1, <2>4, <2>5, ProvLists, ProvDeleteLists, StepFrame DEF Owners
  <2>6. CASE q.steps = MigP2
    <3>1. Size(q.steps) # 1 /\ told' = told /\ req'[r].steps = MigP1
      BY <1>1, <2>6, MigrateProvLists, StepFrame
    <3>2. Answer(q, "provider") = told["provider"]
      BY <1>5, <2>6 DEF Migrating, Quietly, Answer
    <3>3. MigP1 \in Migrations \ Current("provider")
      BY MigrateProvLists DEF Migrations, Current
    <3>4. Work("provider", req[r])' <=> Rest("provider")'
      BY <3>1, <3>3, WillRestInMigration
    <3> QED BY <2>4, <3>1, <3>2, <3>4 DEF Work, Rest
  <2> QED BY <1>2, <2>5, <2>6
<1>7. q.steps # MigP5
  BY <1>2, ProvLists, ProvDeleteLists, MigrateProvLists
<1> HIDE DEF q
<1> QED BY <1>1, <1>2, <1>3, <1>4, <1>6, <1>7, ProviderStepInv DEF q, ProvSaves, ProvDeletes

\* The client's row is written.
LEMMA ClientRowInv ==
    ASSUME SInv, NEW r \in Requests, ClientRow(r)
    PROVE  SInv'
<1> DEFINE q == req[r]
           Unlabelled == q.to = None /\ client' # None /\ ~Labelled(client')
<1>1. Active(r) /\ First(q.steps) = "client_row" /\ client' = (IF client = None THEN None ELSE q.x)
      /\ req' = [req EXCEPT ![r].steps = Tail(q.steps)]
      /\ UNCHANGED <<active, reg, apikey, provider, caches, fresh, told, target, ghost, ops, spoilt>>
  BY DEF ClientRow, Head1, First
<1>2. stale' = Unlabelled
  BY DEF ClientRow
<1>3. Shape(q) /\ q.steps \in {Save2, MigC3} /\ DOMAIN req = Requests
  BY <1>1, AtHead DEF SInv, ReqInv
<1>4. DOMAIN q = {"steps", "own", "x", "t", "tell", "to"}
  BY <1>3 DEF Shape
<1>5. /\ DOMAIN req' = Requests /\ \A s \in Requests \ {r} : req'[s] = req[s]
      /\ DOMAIN req'[r] = DOMAIN q /\ req'[r].steps = After(q.steps) /\ req'[r].own = q.own /\ req'[r].x = q.x
      /\ req'[r].t = q.t /\ req'[r].tell = q.tell /\ req'[r].to = q.to
  BY <1>1, <1>3, <1>4 DEF After
<1>6. /\ Size(q.steps) # 1
      /\ q.steps = Save2 => req'[r].steps = Save1
      /\ q.steps = MigC3 => req'[r].steps = MigC2
  BY <1>3, <1>5, SaveLists, MigrateLists
<1>7. Shape(req'[r]) /\ (Keeps(req'[r]) => Keeps(q)) /\ req'[r] # NoOp
  <2> HIDE DEF q
  <2>1. Shape(req'[r]) /\ (Keeps(req'[r]) => Keeps(q))
    BY <1>3, <1>5, <1>6, NextShape
  <2> QED BY <2>1, AtHead DEF NoOp
<1>8. UNCHANGED <<active, reg, apikey, provider, cClient, cReg, cKey, cProv, cAll, cTemplate, told, ghost, spoilt>>
  BY <1>1 DEF caches, clientCaches, provCaches
<1>9. /\ q.steps = Save2 => Saving(q)
      /\ q.steps = MigC3 => Migrating(q)
  BY <1>3, KindOf DEF Migrations, Saves
<1>10. q.x \in ClientRows /\ Keeps(q) /\ "client" \in q.own /\ q.x # None
  BY <1>3, <1>9, ConstantsOK DEF Keeps, Saves, Saving, Migrating
<1>11. client # None => q.x.dyn = client.dyn /\ (cClient # None => cClient.dyn = client.dyn)
  BY <1>1, <1>10 DEF SInv, DynInv
<1>12. SecretsTypeOK' /\ cClient' \in {None} \cup ClientRows /\ cReg' \in {None} \cup Secret
       /\ cAll' \in {None} \cup SUBSET ProviderRecords
  BY <1>1, <1>8, <1>10, <1>11 DEF SInv, StateInv, SecretsTypeOK
<1>13. LabelInv'
  <2>1. q.to # None => Labelled(q.x)
    BY <1>3, <1>9 DEF Saving, Migrating, Labelled
  <2>2. client' # None => Unlabelled \/ Labelled(client')
    BY <1>1, <2>1
  <2>3. client' # None => stale' \/ Labelled(client')
    BY <1>2, <2>2, Zenon
  <2>4. apikey' # None => Truthful(apikey')
    BY <1>8 DEF SInv, LabelInv
  <2> QED BY <2>3, <2>4 DEF LabelInv
<1>14. \A o \in Owners : Answer(req[r], o)' = Answer(q, o)
  BY <1>5, <1>8 DEF Answer
<1>15. ASSUME NEW o \in q.own \ spoilt, Work(o, q)
       PROVE  Work(o, req[r])'
  <2>1. CASE o = "client"
    <3>1. client' = q.x /\ Has(q.x, Answer(q, "client"))
      BY <1>1, <1>3, <1>15, <2>1 DEF Work, WorkClient
    <3>2. req'[r].steps \notin {Save2, MigC3, Del1, DynDel2, DynDel1} \cup Updates \cup (Migrations \ {MigC3, MigC2})
      BY <1>3, <1>6, SaveLists, DeleteLists, MigrateLists, MigrateProvLists DEF Migrations, Updates
    <3>3. Answer(req[r], "client")' = Answer(q, "client")
      BY <1>14 DEF Owners
    <3> QED BY <1>5, <2>1, <3>1, <3>2, <3>3 DEF Work, WorkClient, Updates, Has
  <2>2. CASE o # "client"
    <3>1. q.steps = MigC3 /\ o \in {"apikey", "provider"}
      BY <1>3, <1>9, <2>2 DEF Saving, Migrating
    <3>2. SameView(o) /\ MigC3 \in Migrations \ Current(o) /\ MigC2 \in Migrations \ Current(o)
      BY <1>8, <3>1, MigrateLists, MigrateProvLists DEF SameView, Migrations, Current
    <3> QED BY <1>6, <1>15, <3>1, <3>2, MigrationKeeps
  <2> QED BY <2>1, <2>2
<1>16. Progress(req[r])'
  <2>1. CASE q.steps = Save2
    <3>1. req'[r].steps \notin Migrations
      BY <1>6, <2>1, SaveLists, MigrateLists, MigrateProvLists DEF Migrations
    <3> QED BY <3>1 DEF Progress, Migrations
  <2>2. CASE q.steps = MigC3
    <3>1. ClientDone(req[r].to)'
      BY <1>1, <1>5, <1>9, <2>2 DEF Migrating, ClientDone
    <3>2. req'[r].steps \notin {MigK2, MigK1, MigP5, MigP4, MigP3, MigP2, MigP1}
      BY <1>6, <2>2, MigrateLists, MigrateProvLists
    <3> QED BY <3>1, <3>2 DEF Progress
  <2> QED BY <1>3, <2>1, <2>2
<1>17. target' = None /\ spoilt \subseteq Owners /\ UNCHANGED <<fresh, ops>> /\ told' \in [Owners -> {None} \cup Nat]
  BY <1>1 DEF SInv, StateInv, MigInv
<1>18. Shape(req[r])' /\ (Keeps(req[r])' => Keeps(req[r]))
  BY <1>7
<1>19. client' # None => client # None /\ client' = q.x
  BY <1>1
<1> HIDE DEF q
<1> QED BY <1>1, <1>5, <1>7, <1>8, <1>10, <1>11, <1>12, <1>13, <1>15, <1>16, <1>17, <1>18, <1>19, AnyStepInv DEF q

\* What a step of a migration that only chooses what to do next has to show
LEMMA ChooseInv ==
    ASSUME SInv, NEW r \in Requests, Active(r), Migrating(req[r]), req[r].steps \in {MigC1, MigK1},
           DOMAIN req' = Requests, \A s \in Requests \ {r} : req'[s] = req[s],
           DOMAIN req'[r] = DOMAIN req[r], req'[r].own = req[r].own, req'[r].tell = req[r].tell,
           req'[r].to = req[r].to,
           req'[r].steps \in {MigK3, MigK1, MigP5, MigP1}, Migrating(req'[r]),
           UNCHANGED <<active, rows, clientCaches, cKey, cProv, cTemplate, fresh, secretsHistory>>,
           cAll' \in {None} \cup SUBSET ProviderRecords,
           \A o \in {"client", "apikey", "provider"} \ spoilt : Work(o, req[r]) => Work(o, req[r])',
           spoilt = {} => Progress(req[r])'
    PROVE  SInv'
<1>1. UNCHANGED <<active, client, reg, apikey, provider, cClient, cReg, cKey, cProv, cTemplate, fresh,
                  told, stale, target, ghost, ops, spoilt>>
  BY DEF rows, clientCaches, secretsHistory
<1>2. Shape(req[r]) /\ req[r].own = {"client", "apikey", "provider"}
  BY DEF SInv, ReqInv, Migrating
<1>3. Shape(req[r])'
  BY <1>2 DEF Shape
<1>4. Shape(req'[r]) /\ ~Keeps(req'[r]) /\ req'[r] # NoOp
  <2>1. Shape(req'[r])
    BY <1>3
  <2>2. ~Keeps(req'[r])
    BY SaveLists, MigrateLists, MigrateProvLists DEF Keeps, Saves, Updates
  <2> QED BY <2>1, <2>2, AtHead DEF NoOp
<1>5. ~Keeps(req[r])'
  BY <1>4
<1>6. SecretsTypeOK' /\ LabelInv' /\ cClient' \in {None} \cup ClientRows /\ cReg' \in {None} \cup Secret
  BY <1>1 DEF SInv, StateInv, SecretsTypeOK, LabelInv, Truthful, Labelled
<1>7. client # None /\ cClient # None => cClient.dyn = client.dyn
  BY DEF SInv, DynInv
<1>8. target' = None /\ spoilt \subseteq Owners /\ told' \in [Owners -> {None} \cup Nat]
  BY <1>1 DEF SInv, StateInv, MigInv
<1>9. \A o \in Owners \ req[r].own : told'[o] = told[o]
  BY <1>1
<1> QED BY <1>1, <1>2, <1>3, <1>4, <1>5, <1>6, <1>7, <1>8, <1>9, AnyStepInv

\* The migration reads the API key.
LEMMA MigrateKeysInv ==
    ASSUME SInv, NEW r \in Requests, MigrateKeys(r)
    PROVE  SInv'
<1> DEFINE q == req[r]
           todo == apikey # None /\ apikey.kid # q.to
           enc(sec) == EncWith(sec, q.to)
           row == [sec |-> enc(apikey.sec), acc |-> enc(apikey.acc), kid |-> q.to]
<1>1. Active(r) /\ First(q.steps) = "migrate_keys" /\ UNCHANGED <<active, rows, caches, fresh, secretsHistory>>
      /\ req' = [req EXCEPT ![r].steps = (IF todo THEN SaveKey ELSE <<>>) \o <<"migrate_providers">>,
                            ![r].x = IF todo THEN row ELSE None]
  BY DEF MigrateKeys, Head1, First
<1>2. Shape(q) /\ q.steps = MigC1 /\ DOMAIN req = Requests
  BY <1>1, AtHead DEF SInv, ReqInv
<1>3. Migrating(q) /\ DOMAIN q = {"steps", "own", "x", "t", "tell", "to"}
  BY <1>2, KindOf DEF Migrations, Shape
<1>4. q.own = {"client", "apikey", "provider"} /\ q.to \in EncKeys /\ q.tell = Quietly
  BY <1>3 DEF Migrating
<1>5. (IF todo THEN SaveKey ELSE <<>>) \o <<"migrate_providers">> = IF todo THEN MigK3 ELSE MigK1
  <2> HIDE DEF todo
  <2>1. CASE todo
    BY <2>1, Joined, Zenon
  <2>2. CASE ~todo
    BY <2>2, Joined, Zenon
  <2> QED BY <2>1, <2>2
<1>6. /\ DOMAIN req' = Requests /\ \A s \in Requests \ {r} : req'[s] = req[s]
      /\ DOMAIN req'[r] = DOMAIN q /\ req'[r].own = q.own
      /\ req'[r].tell = q.tell /\ req'[r].to = q.to
      /\ req'[r].steps = (IF todo THEN MigK3 ELSE MigK1)
      /\ req'[r].x = IF todo THEN row ELSE None
  BY <1>1, <1>2, <1>3, <1>5
<1>7. UNCHANGED <<active, client, reg, apikey, provider, cClient, cReg, cKey, cProv, cAll, cTemplate, stale, told,
                  ghost, spoilt>>
  BY <1>1 DEF rows, caches, clientCaches, provCaches, secretsHistory
<1>8. todo => /\ row \in ApiKeyRows /\ Truthful(row) /\ row.kid = q.to
              /\ row.sec # None /\ row.sec.v = apikey.sec.v
  <2> SUFFICES ASSUME todo PROVE /\ row \in ApiKeyRows /\ Truthful(row) /\ row.kid = q.to
                                 /\ row.sec # None /\ row.sec.v = apikey.sec.v
    OBVIOUS
  <2>1. apikey.sec \in Secret /\ apikey.acc \in Secret
    BY DEF SInv, StateInv, SecretsTypeOK, ApiKeyRows
  <2>2. \A s \in Secret : enc(s) \in Secret /\ enc(s).k = q.to /\ enc(s).v = s.v
    BY <1>4 DEF EncWith, Secret
  <2> HIDE DEF enc
  <2> QED BY <1>4, <2>1, <2>2, ConstantsOK DEF ApiKeyRows, Truthful
<1> HIDE DEF row
<1>9. Migrating(req'[r])
  BY <1>4, <1>6, <1>8, MigrateLists, MigrateProvLists DEF Migrating, Migrations
<1>10. ASSUME NEW o \in {"client", "apikey", "provider"} \ spoilt, Work(o, q)
       PROVE  Work(o, req[r])'
  <2>1. SameView(o) /\ MigC1 \in Migrations \ Current(o) /\ MigK1 \in Migrations \ Current(o)
        /\ (o # "apikey" => MigK3 \in Migrations \ Current(o))
    BY <1>7, MigrateLists, MigrateProvLists DEF SameView, Migrations, Current
  <2>2. CASE o # "apikey" \/ ~todo
    BY <1>2, <1>6, <1>10, <2>1, <2>2, MigrationKeeps
  <2>3. CASE o = "apikey" /\ todo
    <3>1. Has(apikey, told["apikey"])
      BY <1>2, <1>10, <2>1, <2>3, RestsInMigration DEF Rest, RestKey
    <3>2. Answer(req[r], "apikey")' = told["apikey"]
      BY <1>4, <1>6, <1>7 DEF Answer, Quietly
    <3>3. req'[r].steps = MigK3 /\ req'[r].steps \notin {Key1, KeyFill1, MigK2} \cup (Migrations \ {MigK3, MigK2})
      BY <1>6, <2>3, KeyLists, MigrateLists, MigrateProvLists DEF Migrations
    <3>4. apikey' # None /\ Has(req'[r].x, told["apikey"])
      <4>1. apikey' # None /\ req'[r].x = row
        BY <1>6, <1>7, <2>3
      <4>2. row # None
        BY <1>8, <2>3, ConstantsOK
      <4> QED BY <1>8, <2>3, <3>1, <4>1, <4>2 DEF Has
    <3> QED BY <2>3, <3>2, <3>3, <3>4 DEF Work, WorkKey
  <2> QED BY <2>2, <2>3
<1>11. spoilt = {} => Progress(req[r])'
  <2> SUFFICES ASSUME spoilt = {} PROVE Progress(req[r])'
    OBVIOUS
  <2>1. ClientDone(q.to)
    BY <1>1, <1>2, MigrateLists DEF SInv, MigInv, Progress, Migrations
  <2>2. ClientDone(req[r].to)'
    BY <1>6, <1>7, <2>1 DEF ClientDone
  <2>3. CASE todo
    <3>1. req'[r].steps \notin {MigK2, MigK1, MigP5, MigP4, MigP3, MigP2, MigP1}
      BY <1>6, <2>3, MigrateLists, MigrateProvLists
    <3> QED BY <2>2, <3>1 DEF Progress
  <2>4. CASE ~todo
    <3>1. KeyDone(req[r].to)'
      BY <1>6, <1>7, <2>4 DEF SInv, LabelInv, Truthful, KeyDone
    <3>2. req'[r].steps \notin {MigP4, MigP3, MigP2, MigP1}
      BY <1>6, <2>4, MigrateLists, MigrateProvLists
    <3> QED BY <2>2, <3>1, <3>2 DEF Progress
  <2> QED BY <2>3, <2>4
<1>12. cAll' \in {None} \cup SUBSET ProviderRecords
  BY <1>7 DEF SInv, StateInv
<1>13. UNCHANGED <<active, rows, clientCaches, cKey, cProv, cTemplate, fresh, secretsHistory>>
  BY <1>1 DEF caches, provCaches
<1>14. req'[r].steps \in {MigK3, MigK1, MigP5, MigP1}
  BY <1>6
<1> HIDE DEF q, todo
<1> QED BY <1>1, <1>2, <1>3, <1>6, <1>9, <1>10, <1>11, <1>12, <1>13, <1>14, ChooseInv DEF q

\* The migration reads the provider, maybe from the cached list.
LEMMA MigrateProvidersInv ==
    ASSUME SInv, NEW r \in Requests, MigrateProviders(r)
    PROVE  SInv'
<1> DEFINE q == req[r]
           none == ProvidersToMigrate = {}
           p == CHOOSE x \in ProvidersToMigrate : TRUE
           row == [p EXCEPT !.sec = EncWith(p.sec, q.to)]
<1>1. Active(r) /\ First(q.steps) = "migrate_providers" /\ cAll' = FindAll
      /\ UNCHANGED <<active, rows, clientCaches, cKey, cProv, cTemplate, fresh, secretsHistory>>
      /\ req' = [req EXCEPT ![r].steps = (IF none THEN <<>> ELSE SaveProvider) \o <<"migrated">>,
                            ![r].x = IF none THEN None ELSE row]
  BY DEF MigrateProviders, Head1, First
<1>2. Shape(q) /\ q.steps = MigK1 /\ DOMAIN req = Requests
  BY <1>1, AtHead DEF SInv, ReqInv
<1>3. Migrating(q) /\ DOMAIN q = {"steps", "own", "x", "t", "tell", "to"}
  BY <1>2, KindOf DEF Migrations, Shape
<1>4. q.own = {"client", "apikey", "provider"} /\ q.to \in EncKeys /\ q.tell = Quietly
  BY <1>3 DEF Migrating
<1>5. (IF none THEN <<>> ELSE SaveProvider) \o <<"migrated">> = IF none THEN MigP1 ELSE MigP5
  <2> HIDE DEF none
  <2>1. CASE none
    BY <2>1, Joined, Zenon
  <2>2. CASE ~none
    BY <2>2, Joined, Zenon
  <2> QED BY <2>1, <2>2
<1>6. UNCHANGED <<active, client, reg, apikey, provider, cClient, cReg, cKey, cProv, cTemplate, stale, told, ghost,
                  spoilt>>
  BY <1>1 DEF rows, clientCaches, secretsHistory
<1>7. FindAll \subseteq ProviderRecords
  BY DEF SInv, StateInv, SecretsTypeOK, FindAll, ProviderRows
<1>8. ~none => /\ p \in FindAll /\ p.sec \in Secret
               /\ row \in ProviderRecords /\ row.sec # None /\ row.sec.k = q.to /\ row.sec.v = p.sec.v
  <2> SUFFICES ASSUME ~none
               PROVE  /\ p \in FindAll /\ p.sec \in Secret
                      /\ row \in ProviderRecords /\ row.sec # None /\ row.sec.k = q.to /\ row.sec.v = p.sec.v
    OBVIOUS
  <2>1. p \in ProvidersToMigrate
    OBVIOUS
  <2>2. p \in FindAll /\ p.sec # None
    BY <2>1 DEF ProvidersToMigrate
  <2>3. p \in ProviderRecords /\ p.sec \in Secret
    BY <1>7, <2>2 DEF ProviderRecords
  <2> DEFINE new == EncWith(p.sec, q.to)
  <2>4. new \in Secret /\ new.k = q.to /\ new.v = p.sec.v
    BY <1>4, <2>3 DEF EncWith, Secret
  <2> HIDE DEF new, p
  <2>5. row = [p EXCEPT !.sec = new]
    BY DEF new
  <2>6. row \in ProviderRecords /\ row.sec = new
    BY <2>3, <2>4, <2>5 DEF ProviderRecords
  <2> QED BY <2>2, <2>3, <2>4, <2>6, ConstantsOK
<1> HIDE DEF row, p, none
<1>9. /\ DOMAIN req' = Requests /\ \A s \in Requests \ {r} : req'[s] = req[s]
      /\ DOMAIN req'[r] = DOMAIN q /\ req'[r].own = q.own
      /\ req'[r].tell = q.tell /\ req'[r].to = q.to
      /\ req'[r].steps = (IF none THEN MigP1 ELSE MigP5)
      /\ req'[r].x = IF none THEN None ELSE row
  BY <1>1, <1>2, <1>3, <1>5
<1>10. Migrating(req'[r])
  BY <1>4, <1>8, <1>9, MigrateLists, MigrateProvLists DEF Migrating, Migrations
<1>11. Work("provider", q) => RestProvider /\ FindAll = ProviderRows
  <2>1. MigK1 \in Migrations \ Current("provider")
    BY MigrateLists, MigrateProvLists DEF Migrations, Current
  <2> QED BY <1>2, <2>1, RestsInMigration DEF Rest, RestProvider, FindAll
<1>12. ASSUME NEW o \in {"client", "apikey", "provider"} \ spoilt, Work(o, q)
       PROVE  Work(o, req[r])'
  <2>1. CASE o # "provider"
    <3>1. SameView(o) /\ {MigK1, MigP1, MigP5} \subseteq Migrations \ Current(o)
      BY <1>6, <2>1, MigrateLists, MigrateProvLists DEF SameView, Migrations, Current
    <3> QED BY <1>2, <1>9, <1>12, <3>1, MigrationKeeps
  <2>2. CASE o = "provider"
    <3>1. RestProvider /\ FindAll = ProviderRows
      BY <1>11, <1>12, <2>2
    <3>2. CASE none
      <4>1. ProviderRows' = ProviderRows
        BY <1>6 DEF ProviderRows
      <4>2. Template(ProviderRows)' = Template(ProviderRows)
        BY <4>1 DEF Template
      <4>3. Rest(o)'
        BY <1>1, <1>6, <2>2, <3>1, <4>1, <4>2 DEF Rest, RestProvider, Has
      <4>4. req'[r].steps \in Migrations \ Current(o)
        BY <1>9, <2>2, <3>2, MigrateLists, MigrateProvLists DEF Migrations, Current
      <4> QED BY <4>3, <4>4, WillRestInMigration
    <3>3. CASE ~none
      <4>1. provider # None /\ p = provider
        BY <1>8, <3>1, <3>3 DEF ProviderRows
      <4>2. Answer(req[r], "provider")' = told["provider"]
        BY <1>4, <1>6, <1>9 DEF Answer, Quietly
      <4>3. req'[r].steps = MigP5 /\ req'[r].x = row
            /\ req'[r].steps \notin ProvSaves \cup ProvDeletes \cup (Migrations \ {MigP5})
        BY <1>9, <3>3, ProvLists, ProvDeleteLists, MigrateLists, MigrateProvLists
           DEF Migrations, ProvSaves, ProvDeletes
      <4>4. row # None
        BY <1>8, <3>3, ConstantsOK
      <4>5. Has(row, told["provider"])
        BY <1>8, <3>1, <3>3, <4>1, <4>4 DEF RestProvider, Has
      <4>6. MigP5 \in Migrations /\ MigP4 \in Migrations /\ MigP3 \in Migrations /\ MigP2 \in Migrations
        BY DEF Migrations
      <4>7. WorkProvider(req[r])'
        BY <1>6, <4>1, <4>2, <4>3, <4>5, <4>6, MigrateProvLists DEF WorkProvider, ProvSaves, ProvDeletes
      <4> QED BY <2>2, <4>7 DEF Work
    <3> QED BY <3>2, <3>3
  <2> QED BY <2>1, <2>2
<1>13. spoilt = {} => Progress(req[r])'
  <2> SUFFICES ASSUME spoilt = {} PROVE Progress(req[r])'
    OBVIOUS
  <2>1. ClientDone(q.to) /\ KeyDone(q.to)
    BY <1>1, <1>2, MigrateLists DEF SInv, MigInv, Progress, Migrations
  <2>2. ClientDone(req[r].to)' /\ KeyDone(req[r].to)'
    BY <1>6, <1>9, <2>1 DEF ClientDone, KeyDone
  <2>3. CASE ~none
    <3>1. req'[r].steps \notin {MigP4, MigP3, MigP2, MigP1}
      BY <1>9, <2>3, MigrateLists, MigrateProvLists
    <3> QED BY <2>2, <3>1 DEF Progress
  <2>4. CASE none
    <3>1. Work("provider", q)
      BY <1>1, <1>4 DEF SInv, OwnerInv, Owners
    <3>2. provider # None => provider.sec = None
      BY <1>11, <2>4, <3>1 DEF none, ProvidersToMigrate, ProviderRows
    <3>3. ProvDone(req[r].to)'
      BY <1>6, <3>2 DEF ProvDone
    <3> QED BY <2>2, <3>3 DEF Progress
  <2> QED BY <2>3, <2>4
<1>14. cAll' \in {None} \cup SUBSET ProviderRecords /\ req'[r].steps \in {MigK3, MigK1, MigP5, MigP1}
  BY <1>1, <1>7, <1>9
<1> HIDE DEF q
<1> QED BY <1>1, <1>2, <1>3, <1>9, <1>10, <1>12, <1>13, <1>14, ChooseInv DEF q

\* A migration ends.
LEMMA MigratedInv ==
    ASSUME SInv, NEW r \in Requests, Migrated(r)
    PROVE  SInv'
<1> DEFINE q == req[r]
<1>1. Active(r) /\ First(q.steps) = "migrated" /\ req' = [req EXCEPT ![r] = NoOp]
      /\ target' = (IF spoilt = {} THEN q.to ELSE None)
      /\ UNCHANGED <<active, rows, caches, fresh, told, stale, ghost, ops, spoilt>>
  BY DEF Migrated, Head1, First
<1>2. Shape(q) /\ q.steps = MigP1 /\ DOMAIN req = Requests
  BY <1>1, AtHead DEF SInv, ReqInv
<1>3. q.own = {"client", "apikey", "provider"} /\ q.to \in EncKeys /\ q.steps \in Migrations
  BY <1>2, KindOf DEF Migrations, Migrating
<1>4. UNCHANGED <<active, client, reg, apikey, provider, cClient, cReg, cKey, cProv, cAll, cTemplate, stale, told,
                  spoilt, fresh, ghost, ops>>
  BY <1>1 DEF rows, caches, clientCaches, provCaches
<1>5. DOMAIN req' = Requests /\ (\A s \in Requests \ {r} : req'[s] = req[s]) /\ req'[r] = NoOp
  BY <1>1, <1>2
<1>6. SecretsTypeOK' /\ LabelInv' /\ cClient' \in {None} \cup ClientRows /\ cReg' \in {None} \cup Secret
      /\ cAll' \in {None} \cup SUBSET ProviderRecords
      /\ spoilt \subseteq Owners /\ told' \in [Owners -> {None} \cup Nat]
  BY <1>4 DEF SInv, StateInv, SecretsTypeOK, LabelInv, Truthful, Labelled
<1>7. client # None /\ cClient # None => cClient.dyn = client.dyn
  BY DEF SInv, DynInv
<1>8. ASSUME NEW o \in q.own, Work(o, q)
      PROVE  Rest(o)'
  <2>1. SameView(o) /\ MigP1 \in Migrations \ Current(o)
    BY <1>3, <1>4, MigrateLists, MigrateProvLists DEF SameView, Migrations, Current
  <2>2. Rest(o)
    BY <1>2, <1>3, <1>8, <2>1, RestsInMigration
  <2> QED BY <1>3, <2>1, <2>2, SameRest DEF Owners
<1>9. ASSUME target' # None
      PROVE  target' \in EncKeys /\ spoilt = {} /\ (ClientDone(target) /\ KeyDone(target) /\ ProvDone(target))'
  <2>1. spoilt = {} /\ target' = q.to
    BY <1>1, <1>9
  <2>2. Progress(q)
    BY <1>1, <2>1 DEF SInv, MigInv
  <2>3. ClientDone(q.to) /\ KeyDone(q.to) /\ ProvDone(q.to)
    BY <1>2, <2>2, MigrateLists, MigrateProvLists DEF Progress, Migrations
  <2> QED BY <1>3, <1>4, <2>1, <2>3 DEF ClientDone, KeyDone, ProvDone
<1> HIDE DEF q
<1> QED BY <1>1, <1>3, <1>4, <1>5, <1>6, <1>7, <1>8, <1>9, AnyStepInv DEF q

\* A request fails.
LEMMA FailInv ==
    ASSUME SInv, NEW r \in Requests, Fail(r)
    PROVE  SInv'
<1> DEFINE q == req[r]
<1>1. Active(r) /\ req' = [req EXCEPT ![r] = NoOp] /\ spoilt' = spoilt \cup q.own
      /\ UNCHANGED <<active, rows, caches, fresh, told, stale, target, ghost, ops>>
  BY DEF Fail
<1>2. Shape(q) /\ DOMAIN req = Requests /\ spoilt \subseteq Owners
  BY <1>1 DEF SInv, StateInv, ReqInv
<1>3. q.own \subseteq Owners /\ target' = None
  BY <1>1, <1>2, Owning DEF SInv, MigInv
<1>4. UNCHANGED <<active, client, reg, apikey, provider, cClient, cReg, cKey, cProv, cAll, cTemplate, stale, told,
                  fresh, ghost, ops>>
  BY <1>1 DEF rows, caches, clientCaches, provCaches
<1>5. DOMAIN req' = Requests /\ (\A s \in Requests \ {r} : req'[s] = req[s]) /\ req'[r] = NoOp
  BY <1>1, <1>2
<1>6. SecretsTypeOK' /\ LabelInv' /\ cClient' \in {None} \cup ClientRows /\ cReg' \in {None} \cup Secret
      /\ cAll' \in {None} \cup SUBSET ProviderRecords /\ told' \in [Owners -> {None} \cup Nat]
  BY <1>4 DEF SInv, StateInv, SecretsTypeOK, LabelInv, Truthful, Labelled
<1>7. client # None /\ cClient # None => cClient.dyn = client.dyn
  BY DEF SInv, DynInv
<1> HIDE DEF q
<1> QED BY <1>1, <1>2, <1>3, <1>4, <1>5, <1>6, <1>7, AnyStepInv DEF q

-----------------------------------------------------------------------------
\* Requests that begin

\* Two requests for one owner overlap.
LEMMA BeginFrame ==
    ASSUME SInv, NEW r \in Requests, NEW op, Begin(r, op)
    PROVE  /\ req' = [req EXCEPT ![r] = op] /\ req'[r] = op /\ ~Active(r)
           /\ DOMAIN req' = Requests /\ \A s \in Requests \ {r} : req'[s] = req[s]
           /\ spoilt \subseteq spoilt' /\ spoilt' \subseteq spoilt \cup op.own
           /\ \A s \in Requests \ {r}, o \in op.own : Active(s) /\ o \in req[s].own => o \in spoilt'
           /\ ops < MaxOps /\ ops' = ops + 1 /\ target' = None
           /\ First(op.steps) # "provider_insert" => ghost' = ghost
           /\ First(op.steps) = "provider_insert" => ~ghost'
<1>1. DOMAIN req = Requests
  BY DEF SInv, ReqInv
<1>2. spoilt' = spoilt \cup Overlapping(r, op.own)
  BY DEF Begin
<1>3. Overlapping(r, op.own) \subseteq op.own
  BY DEF Overlapping
<1>4. \A s \in Requests \ {r}, o \in op.own : Active(s) /\ o \in req[s].own => o \in Overlapping(r, op.own)
  BY DEF Overlapping
<1>5. /\ First(op.steps) # "provider_insert" => ghost' = ghost
      /\ First(op.steps) = "provider_insert" => ~ghost'
  BY Zenon DEF Begin, First
<1>6. req' = [req EXCEPT ![r] = op] /\ ~Active(r) /\ ops < MaxOps /\ ops' = ops + 1 /\ target' = None
  BY DEF Begin
<1> QED BY <1>1, <1>2, <1>3, <1>4, <1>5, <1>6

\* What the first step of a request has to show
LEMMA BeginInv ==
    ASSUME SInv, NEW r \in Requests, NEW op, Shape(op), Begin(r, op),
           UNCHANGED <<active, client, reg, apikey, provider, cKey, cAll, cTemplate, told, stale>>,
           fresh' \in {fresh, fresh + 1, fresh + 2}, "provider" \in op.own \/ cProv' = cProv,
           cClient' \in {cClient, client}, cReg' \in {cReg, reg},
           "client" \in op.own \/ cClient' = cClient, "reg" \in op.own \/ cReg' = cReg,
           Keeps(op) /\ client # None => op.x.dyn = client.dyn,
           \A o \in op.own : Rest(o) => Work(o, req[r])',
           Progress(req[r])'
    PROVE  SInv'
<1>1. /\ req'[r] = op /\ ~Active(r) /\ DOMAIN req' = Requests /\ \A s \in Requests \ {r} : req'[s] = req[s]
      /\ spoilt \subseteq spoilt' /\ spoilt' \subseteq spoilt \cup op.own
      /\ \A s \in Requests \ {r}, o \in op.own : Active(s) /\ o \in req[s].own => o \in spoilt'
      /\ ops < MaxOps /\ ops' = ops + 1 /\ target' = None
  BY BeginFrame
<1>2. op.own \subseteq Owners /\ op.own \cap {"client", "apikey", "provider"} # {}
  BY Owning
<1>3. StateInv'
  <2>1. SecretsTypeOK'
    BY DEF SInv, StateInv, SecretsTypeOK
  <2>2. cClient' \in {None} \cup ClientRows /\ cReg' \in {None} \cup Secret
        /\ cAll' \in {None} \cup SUBSET ProviderRecords /\ told' \in [Owners -> {None} \cup Nat]
    BY DEF SInv, StateInv, SecretsTypeOK
  <2>3. fresh' \in Nat /\ ops' \in 0 .. MaxOps /\ fresh' <= 2 * ops' + 1
    BY <1>1, ConstantsOK DEF SInv, StateInv
  <2>4. spoilt' \subseteq Owners
    BY <1>1, <1>2 DEF SInv, StateInv
  <2> QED BY <1>1, <2>1, <2>2, <2>3, <2>4 DEF StateInv
<1>4. ReqInv'
  <2> SUFFICES ASSUME NEW s \in Requests, Active(s)' PROVE Shape(req[s])'
    BY <1>1 DEF ReqInv
  <2>1. CASE s = r
    <3>1. Shape(req'[r])
      BY <1>1
    <3> QED BY <2>1, <3>1
  <2>2. CASE s # r
    <3>1. Shape(req[s]) /\ req'[s] = req[s]
      BY <1>1, <2>2 DEF SInv, ReqInv, Active
    <3> QED BY <3>1
  <2> QED BY <2>1, <2>2
<1>5. LabelInv'
  BY DEF SInv, LabelInv, Truthful, Labelled
<1>6. DynInv'
  <2>1. client' # None /\ cClient' # None => cClient'.dyn = client'.dyn
    BY DEF SInv, DynInv
  <2>2. ASSUME client' # None, NEW s \in Requests, Active(s)', Keeps(req[s])'
        PROVE  req'[s].x.dyn = client'.dyn
    <3>1. CASE s = r
      <4>1. Keeps(req'[r])
        BY <2>2, <3>1
      <4> QED BY <1>1, <2>2, <3>1, <4>1
    <3>2. CASE s # r
      <4>1. Active(s) /\ req'[s] = req[s]
        BY <1>1, <2>2, <3>2 DEF Active
      <4>2. Keeps(req[s])
        BY <2>2, <4>1 DEF Keeps
      <4> QED BY <2>2, <4>1, <4>2 DEF SInv, DynInv
    <3> QED BY <3>1, <3>2
  <2> QED BY <2>1, <2>2 DEF DynInv
<1>7. BusyInv'
  <2> SUFFICES ASSUME NEW o \in Owners \ spoilt', NEW s \in Requests, NEW t \in Requests,
                      Active(s)', Active(t)', o \in req'[s].own, o \in req'[t].own, s # t
               PROVE  FALSE
    BY DEF BusyInv
  <2>1. CASE s # r /\ t # r
    BY <1>1, <2>1 DEF SInv, BusyInv, Active
  <2>2. CASE s = r \/ t = r
    BY <1>1, <2>2 DEF Active
  <2> QED BY <2>1, <2>2
<1>8. OwnerInv'
  <2> SUFFICES ASSUME NEW o \in Owners \ spoilt'
               PROVE  (Free(o) => Rest(o))' /\ \A s \in Requests : Active(s)' /\ o \in req'[s].own => Work(o, req[s])'
    BY DEF OwnerInv
  <2>1. o \notin spoilt
    BY <1>1
  <2>2. CASE o \in op.own
    <3>1. Free(o)
      BY <1>1, <2>2 DEF Free
    <3>2. Work(o, req[r])'
      BY <2>1, <2>2, <3>1 DEF SInv, OwnerInv
    <3>3. ASSUME NEW s \in Requests, Active(s)', o \in req'[s].own PROVE s = r
      BY <1>1, <3>1, <3>3 DEF Free, Active
    <3>4. op # NoOp
      BY AtHead DEF NoOp
    <3>5. ~Free(o)'
      BY <1>1, <2>2, <3>4 DEF Free, Active
    <3> QED BY <3>2, <3>3, <3>5
  <2>3. CASE o \notin op.own
    <3>1. SameView(o)
      <4>1. o = "provider" => ghost' = ghost
        BY <2>3, AtHead, KindOf, BeginFrame DEF ProvSaving
      <4> QED BY <2>3, <4>1 DEF SameView
    <3>2. Free(o)' => Free(o)
      BY <1>1 DEF Free, Active
    <3>3. ASSUME NEW s \in Requests, Active(s)', o \in req'[s].own PROVE Work(o, req[s])'
      <4>1. s # r /\ req'[s] = req[s]
        BY <1>1, <2>3, <3>3
      <4>2. Work(o, req[s])
        BY <2>1, <3>3, <4>1 DEF SInv, OwnerInv, Active
      <4> QED BY <3>1, <4>1, <4>2, SameWork
    <3>4. Free(o) => Rest(o)
      BY <2>1 DEF SInv, OwnerInv
    <3> QED BY <3>1, <3>2, <3>3, <3>4, SameRest
  <2> QED BY <2>2, <2>3
<1>9. MigInv'
  <2> SUFFICES ASSUME spoilt' = {}, NEW s \in Requests, Active(s)' PROVE Progress(req[s])'
    BY <1>1 DEF MigInv
  <2>1. CASE s = r
    BY <2>1
  <2>2. CASE s # r
    <3>1. Active(s) /\ req'[s] = req[s]
      BY <1>1, <2>2 DEF Active
    <3>2. req[s].steps \in Migrations => req[s].own = {"client", "apikey", "provider"}
      BY <3>1, KindOf DEF SInv, ReqInv, Migrating
    <3>3. req[s].steps \notin Migrations
      BY <1>1, <1>2, <2>2, <3>1, <3>2
    <3> QED BY <3>1, <3>3 DEF Progress, Migrations
  <2> QED BY <2>1, <2>2
<1> QED BY <1>3, <1>4, <1>5, <1>6, <1>7, <1>8, <1>9 DEF SInv

\* A request in one step: what has to be shown of it
LEMMA SingleInv ==
    ASSUME SInv, NEW own \in SUBSET Owners, Single(own), own \cap {"client", "apikey", "provider"} # {},
           SecretsTypeOK', cClient' \in {None} \cup ClientRows, cReg' \in {None} \cup Secret,
           cAll' \in {None} \cup SUBSET ProviderRecords,
           fresh' \in {fresh, fresh + 1, fresh + 2}, told' \in [Owners -> {None} \cup Nat],
           LabelInv', DynInv',
           \A o \in Owners : SameView(o) \/ ((o \in own \/ Free(o)) /\ (Rest(o) => Rest(o)'))
    PROVE  SInv'
<1> DEFINE over == UNION {own \cap req[q].own : q \in {x \in Requests : Active(x)}}
<1>1. req' = req /\ spoilt' = spoilt \cup over /\ ops < MaxOps /\ ops' = ops + 1 /\ target' = None
  BY DEF Single
<1>2. over \subseteq own /\ \A s \in Requests, o \in own : Active(s) /\ o \in req[s].own => o \in over
  OBVIOUS
<1> HIDE DEF over
<1>3. \A s \in Requests : Active(s)' = Active(s)
  BY <1>1 DEF Active
<1>4. StateInv'
  <2>1. fresh' \in Nat /\ ops' \in 0 .. MaxOps /\ fresh' <= 2 * ops' + 1
    BY <1>1, ConstantsOK DEF SInv, StateInv
  <2>2. spoilt' \subseteq Owners
    BY <1>1, <1>2 DEF SInv, StateInv
  <2> QED BY <1>1, <2>1, <2>2 DEF StateInv
<1>5. ReqInv'
  <2> SUFFICES ASSUME NEW s \in Requests, Active(s)' PROVE Shape(req[s])'
    BY <1>1 DEF ReqInv, SInv
  <2>1. Shape(req[s]) /\ req'[s] = req[s]
    BY <1>1, <1>3 DEF SInv, ReqInv
  <2> QED BY <2>1
<1>6. BusyInv'
  BY <1>1, <1>3 DEF SInv, BusyInv
<1>7. OwnerInv'
  <2> SUFFICES ASSUME NEW o \in Owners \ spoilt'
               PROVE  (Free(o) => Rest(o))' /\ \A s \in Requests : Active(s)' /\ o \in req'[s].own => Work(o, req[s])'
    BY DEF OwnerInv
  <2>1. o \notin spoilt /\ Free(o)' = Free(o)
    BY <1>1, <1>3 DEF Free
  <2>2. CASE SameView(o)
    <3>1. ASSUME NEW s \in Requests, Active(s)', o \in req'[s].own PROVE Work(o, req[s])'
      <4>1. Work(o, req[s]) /\ req'[s] = req[s]
        BY <1>1, <1>3, <2>1, <3>1 DEF SInv, OwnerInv
      <4> QED BY <2>2, <4>1, SameWork
    <3>2. Free(o) => Rest(o)
      BY <2>1 DEF SInv, OwnerInv
    <3> QED BY <2>1, <2>2, <3>1, <3>2, SameRest
  <2>3. CASE ~SameView(o)
    <3>1. Free(o)
      BY <1>1, <1>2, <2>3 DEF Free
    <3>2. Rest(o)'
      BY <2>1, <2>3, <3>1 DEF SInv, OwnerInv
    <3>3. \A s \in Requests : ~(Active(s)' /\ o \in req'[s].own)
      BY <1>1, <1>3, <3>1 DEF Free
    <3> QED BY <3>2, <3>3
  <2> QED BY <2>2, <2>3
<1>8. MigInv'
  <2> SUFFICES ASSUME spoilt' = {}, NEW s \in Requests, Active(s) PROVE Progress(req[s])'
    BY <1>1, <1>3 DEF MigInv
  <2>1. req[s].steps \in Migrations => req[s].own = {"client", "apikey", "provider"}
    BY KindOf DEF SInv, ReqInv, Migrating
  <2>2. req[s].steps \notin Migrations
    BY <1>1, <1>2, <2>1
  <2> QED BY <1>1, <2>2 DEF Progress, Migrations
<1> QED BY <1>4, <1>5, <1>6, <1>7, <1>8 DEF SInv

\* Random values are never used up.
LEMMA FreshSecrets ==
    ASSUME SInv, ops < MaxOps
    PROVE  /\ fresh \in Nat /\ fresh + 1 \in Nat
           /\ Enc(fresh) \in Secret /\ Enc(fresh).v = fresh /\ Enc(fresh).k = active
           /\ Enc(fresh + 1) \in Secret /\ Enc(fresh + 1).v = fresh + 1
           /\ Enc(fresh) # None /\ Enc(fresh + 1) # None
<1>1. fresh \in Nat /\ fresh <= 2 * ops + 1 /\ ops \in Nat /\ MaxOps \in Nat /\ active \in EncKeys
  BY ConstantsOK DEF SInv, StateInv, SecretsTypeOK
<1>2. fresh \in 0 .. (2 * MaxOps) /\ fresh + 1 \in 0 .. (2 * MaxOps)
  BY <1>1
<1>3. Enc(fresh) \in Secret /\ Enc(fresh + 1) \in Secret
  BY <1>1, <1>2 DEF Enc, Secret
<1>4. Enc(fresh).v = fresh /\ Enc(fresh).k = active /\ Enc(fresh + 1).v = fresh + 1
  BY DEF Enc
<1> QED BY <1>1, <1>3, <1>4, ConstantsOK

\* What Client::find returns
LEMMA FoundClient ==
    ASSUME SInv, FindClient # None
    PROVE  /\ FindClient \in ClientRows /\ FindClient \in {cClient, client}
           /\ client # None => FindClient.dyn = client.dyn
           /\ RestClient => client # None /\ FindClient = client
<1>1. FindClient \in {cClient, client} /\ (cClient = None => FindClient = client) /\ (cClient # None => FindClient = cClient)
  BY DEF FindClient
<1>2. FindClient \in ClientRows
  BY <1>1 DEF SInv, StateInv, SecretsTypeOK
<1>3. client # None => FindClient.dyn = client.dyn
  BY <1>1 DEF SInv, DynInv
<1>4. RestClient => client # None /\ FindClient = client
  BY <1>1 DEF RestClient
<1> QED BY <1>1, <1>2, <1>3, <1>4

\* A request that works on the registration token or a copy of the client works on the client.
LEMMA WorksOnClient ==
    ASSUME NEW q, Shape(q), "reg" \in q.own \/ Keeps(q)
    PROVE  "client" \in q.own
<1>1. "reg" \in q.own => "client" \in q.own
  BY DEF Shape, Saving, Updating, Deleting, KeySaving, KeyDeleting, KeyFilling, ProvSaving, ProvDeleting, Migrating
<1>2. Keeps(q) => "client" \in q.own
  BY KindOf DEF Keeps, Saves, Migrations, Saving, Updating, Migrating
<1> QED BY <1>1, <1>2

\* A client is created.
LEMMA create_clientInv ==
    ASSUME SInv, NEW conf \in BOOLEAN, create_client(conf)
    PROVE  SInv'
<1>1. ops < MaxOps /\ client = None /\ NewId /\ Single({"client"})
  BY DEF create_client, Single, NewId
<1>2. UNCHANGED <<active, reg, apikey, provider, cKey, cProv, cAll, cTemplate, ghost>> /\ cReg' = None
      /\ fresh' = fresh + 1 /\ req' = req
  BY DEF create_client, provCaches, Single
<1>3. client' = [dyn |-> FALSE, sec |-> IF conf THEN Enc(fresh) ELSE None, kid |-> IF conf THEN active ELSE None]
  BY DEF create_client, generate_new_secret
<1>4. client' \in ClientRows /\ client'.dyn = FALSE /\ (client'.sec # None => client'.kid = client'.sec.k)
  BY <1>1, <1>3, FreshSecrets DEF ClientRows, SInv, StateInv, SecretsTypeOK
<1>5. told' = Told(Tell("client", None))
  BY DEF create_client
<1>6. told' \in [Owners -> {None} \cup Nat] /\ told'["client"] = None /\ \A o \in Owners \ {"client"} : told'[o] = told[o]
  BY <1>5 DEF Told, Tell, SInv, StateInv, Owners
<1>7. cClient' = IF cClient # None /\ cClient.dyn THEN None ELSE cClient
  BY DEF create_client
<1>8. reg = None
  BY <1>1 DEF SInv, StateInv, SecretsTypeOK
<1>9. SecretsTypeOK' /\ cClient' \in {None} \cup ClientRows /\ cReg' \in {None} \cup Secret
      /\ cAll' \in {None} \cup SUBSET ProviderRecords
  BY <1>2, <1>4, <1>7, <1>8 DEF SInv, StateInv, SecretsTypeOK
<1>10. LabelInv'
  BY <1>2, <1>4 DEF SInv, LabelInv, Labelled, Truthful
<1>11. \A s \in Requests : Active(s) => "client" \notin req[s].own /\ "reg" \notin req[s].own /\ ~Keeps(req[s])
  BY <1>1, WorksOnClient DEF NewId, SInv, ReqInv
<1>12. DynInv'
  <2>1. cClient' # None => cClient' \in ClientRows /\ ~cClient'.dyn
    BY <1>7, <1>9
  <2>2. cClient' # None => cClient'.dyn = client'.dyn
    BY <1>4, <2>1 DEF ClientRows
  <2>3. \A s \in Requests : ~(Active(s)' /\ Keeps(req[s])')
    BY <1>2, <1>11 DEF Active, Keeps
  <2> QED BY <2>2, <2>3 DEF DynInv
<1>13. ASSUME NEW o \in Owners
       PROVE  SameView(o) \/ ((o \in {"client"} \/ Free(o)) /\ (Rest(o) => Rest(o)'))
  <2>1. CASE o = "client"
    BY <1>1, <1>6, <1>7, <2>1 DEF Rest, RestClient, Has
  <2>2. CASE o = "reg"
    BY <1>2, <1>6, <1>11, <2>2 DEF Free, Rest, RestReg, HasToken, Owners
  <2>3. CASE o \in {"apikey", "provider"}
    BY <1>2, <1>6, <2>3 DEF SameView
  <2> QED BY <2>1, <2>2, <2>3 DEF Owners
<1>14. {"client"} \in SUBSET Owners
  BY DEF Owners
<1> QED BY <1>1, <1>2, <1>6, <1>9, <1>10, <1>12, <1>13, <1>14, SingleInv

\* A dynamic client is registered.
LEMMA create_dynamicInv ==
    ASSUME SInv, NEW conf \in BOOLEAN, create_dynamic(conf)
    PROVE  SInv'
<1>1. ops < MaxOps /\ client = None /\ NewId /\ Single({"client", "reg"})
  BY DEF create_dynamic, Single, NewId
<1>2. UNCHANGED <<active, apikey, provider, cKey, cProv, cAll, cTemplate, ghost>> /\ cReg' = None /\ cClient' = None
      /\ fresh' = fresh + 2 /\ req' = req /\ reg' = Enc(fresh + 1)
  BY DEF create_dynamic, provCaches, Single, NewToken
<1>3. client' = [dyn |-> TRUE, sec |-> IF conf THEN Enc(fresh) ELSE None, kid |-> IF conf THEN active ELSE None]
  BY DEF create_dynamic, try_from_dyn_reg, generate_new_secret
<1>4. client' \in ClientRows /\ client'.dyn = TRUE /\ (client'.sec # None => client'.kid = client'.sec.k)
      /\ client'.sec = (IF conf THEN Enc(fresh) ELSE None) /\ client' # None
  <2>1. client' \in ClientRows /\ client'.dyn = TRUE /\ (client'.sec # None => client'.kid = client'.sec.k)
    BY <1>1, <1>3, FreshSecrets DEF ClientRows, SInv, StateInv, SecretsTypeOK
  <2>2. client'.sec = IF conf THEN Enc(fresh) ELSE None
    BY <1>3
  <2> QED BY <2>1, <2>2, ConstantsOK
<1>5. told' = [told EXCEPT !["client"] = IF conf THEN fresh ELSE None, !["reg"] = fresh + 1]
  BY DEF create_dynamic
<1>6. told' \in [Owners -> {None} \cup Nat] /\ told'["client"] = (IF conf THEN fresh ELSE None) /\ told'["reg"] = fresh + 1
      /\ \A o \in {"apikey", "provider"} : told'[o] = told[o]
  BY <1>1, <1>5, FreshSecrets DEF SInv, StateInv, Owners
<1>7. SecretsTypeOK' /\ cClient' \in {None} \cup ClientRows /\ cReg' \in {None} \cup Secret
      /\ cAll' \in {None} \cup SUBSET ProviderRecords
  BY <1>1, <1>2, <1>4, FreshSecrets DEF SInv, StateInv, SecretsTypeOK
<1>8. LabelInv'
  BY <1>2, <1>4 DEF SInv, LabelInv, Labelled, Truthful
<1>9. DynInv'
  <2>1. \A s \in Requests : Active(s) => ~Keeps(req[s])
    BY <1>1, WorksOnClient DEF NewId, SInv, ReqInv
  <2> QED BY <1>2, <2>1 DEF DynInv, Active, Keeps
<1>10. ASSUME NEW o \in Owners
       PROVE  SameView(o) \/ ((o \in {"client", "reg"} \/ Free(o)) /\ (Rest(o) => Rest(o)'))
  <2>1. CASE o = "client"
    BY <1>1, <1>2, <1>4, <1>6, <2>1, FreshSecrets DEF Rest, RestClient, Has
  <2>2. CASE o = "reg"
    BY <1>1, <1>2, <1>6, <2>2, FreshSecrets DEF Rest, RestReg, HasToken
  <2>3. CASE o \in {"apikey", "provider"}
    BY <1>2, <1>6, <2>3 DEF SameView
  <2> QED BY <2>1, <2>2, <2>3 DEF Owners
<1>11. {"client", "reg"} \in SUBSET Owners
  BY DEF Owners
<1> QED BY <1>1, <1>2, <1>6, <1>7, <1>8, <1>9, <1>10, <1>11, SingleInv

\* A request that reads the client, and maybe answers with its secret
LEMMA ReadClientInv ==
    ASSUME SInv, NEW own \in {{"client"}, {"client", "reg"}}, Single(own), FindClient # None, cClient' = FindClient,
           cReg' \in {cReg, reg}, "reg" \in own \/ cReg' = cReg,
           UNCHANGED <<active, client, reg, apikey, provider, cKey, cProv, cAll, cTemplate, fresh, stale>>,
           \/ told' = told
           \/ FindClient.sec # None /\ told' = Told(Tell("client", FindClient.sec.v))
    PROVE  SInv'
<1>1. FindClient \in ClientRows /\ FindClient \in {cClient, client}
      /\ (client # None => FindClient.dyn = client.dyn) /\ (RestClient => client # None /\ FindClient = client)
  BY FoundClient
<1>2. told' \in [Owners -> {None} \cup Nat] /\ \A o \in Owners \ {"client"} : told'[o] = told[o]
  <2>1. told \in [Owners -> {None} \cup Nat] /\ (FindClient.sec # None => FindClient.sec.v \in Nat)
    BY <1>1 DEF SInv, StateInv, ClientRows, Secret
  <2> QED BY <2>1 DEF Told, Tell
<1>3. SecretsTypeOK' /\ LabelInv' /\ cClient' \in {None} \cup ClientRows /\ cReg' \in {None} \cup Secret
      /\ cAll' \in {None} \cup SUBSET ProviderRecords
  BY <1>1 DEF SInv, StateInv, SecretsTypeOK, LabelInv, Labelled, Truthful
<1>4. req' = req /\ ghost' = ghost
  BY DEF Single
<1>5. DynInv'
  BY <1>1, <1>4 DEF SInv, DynInv, Active, Keeps
<1>6. ASSUME NEW o \in Owners
      PROVE  SameView(o) \/ ((o \in own \/ Free(o)) /\ (Rest(o) => Rest(o)'))
  <2>1. CASE o = "client"
    <3>1. \/ told'["client"] = told["client"]
          \/ FindClient.sec # None /\ told'["client"] = FindClient.sec.v
      <4>1. \A v : Told(Tell("client", v))["client"] = v
        BY DEF Told, Tell, Owners
      <4>2. told' = Told(Tell("client", FindClient.sec.v)) => told'["client"] = FindClient.sec.v
        BY <4>1, Zenon
      <4>3. told' = told => told'["client"] = told["client"]
        OBVIOUS
      <4> QED BY <4>2, <4>3, Zenon
    <3> QED BY <1>1, <2>1, <3>1 DEF Rest, RestClient, Has
  <2>2. CASE o = "reg"
    BY <1>2, <2>2 DEF SameView, Rest, RestReg, HasToken, Owners
  <2>3. CASE o \in {"apikey", "provider"}
    BY <1>2, <1>4, <2>3 DEF SameView, Owners
  <2> QED BY <2>1, <2>2, <2>3 DEF Owners
<1>7. own \in SUBSET Owners /\ own \cap {"client", "apikey", "provider"} # {}
  BY DEF Owners
<1> QED BY <1>1, <1>2, <1>3, <1>5, <1>6, <1>7, SingleInv

\* The administrator reads a client's secret.
LEMMA get_client_secretInv ==
    ASSUME SInv, get_client_secret
    PROVE  SInv'
BY ReadClientInv DEF get_client_secret, rows, provCaches

\* A client logs in with its secret.
LEMMA grant_type_credentialsInv ==
    ASSUME SInv, grant_type_credentials
    PROVE  SInv'
BY ReadClientInv DEF grant_type_credentials, validate_secret, rows, provCaches

\* A dynamic client reads itself.
LEMMA get_clients_dynInv ==
    ASSUME SInv, get_clients_dyn
    PROVE  SInv'
<1>1. FindReg \in {cReg, reg}
  BY DEF FindReg
<1> QED BY <1>1, ReadClientInv DEF get_clients_dyn, rows, provCaches

\* An API key is created.
LEMMA create_api_keyInv ==
    ASSUME SInv, create_api_key
    PROVE  SInv'
<1>1. ops < MaxOps /\ apikey = None /\ Single({"apikey"}) /\ req' = req /\ fresh' = fresh + 1
  BY DEF create_api_key, Single
<1>2. UNCHANGED <<active, client, reg, provider, cClient, cReg, cKey, cProv, cAll, cTemplate, stale, ghost>>
  BY DEF create_api_key, Single, caches, clientCaches, provCaches
<1>3. apikey' = [sec |-> Enc(fresh), acc |-> Enc(fresh), kid |-> active]
  BY DEF create_api_key
<1>4. apikey' \in ApiKeyRows /\ Truthful(apikey') /\ apikey' # None /\ apikey'.sec # None /\ apikey'.sec.v = fresh
  BY <1>1, <1>3, FreshSecrets, ConstantsOK DEF ApiKeyRows, Truthful, SInv, StateInv, SecretsTypeOK
<1>5. told' = Told(Tell("apikey", fresh))
  BY DEF create_api_key
<1>6. told' \in [Owners -> {None} \cup Nat] /\ told'["apikey"] = fresh /\ \A o \in Owners \ {"apikey"} : told'[o] = told[o]
  BY <1>1, <1>5, FreshSecrets DEF Told, Tell, SInv, StateInv, Owners
<1>7. SecretsTypeOK' /\ LabelInv' /\ cClient' \in {None} \cup ClientRows /\ cReg' \in {None} \cup Secret
      /\ cAll' \in {None} \cup SUBSET ProviderRecords
  BY <1>2, <1>4 DEF SInv, StateInv, SecretsTypeOK, LabelInv, Labelled
<1>8. DynInv'
  BY <1>1, <1>2 DEF SInv, DynInv, Active, Keeps
<1>9. ASSUME NEW o \in Owners
      PROVE  SameView(o) \/ ((o \in {"apikey"} \/ Free(o)) /\ (Rest(o) => Rest(o)'))
  <2>1. CASE o = "apikey"
    BY <1>1, <1>2, <1>4, <1>6, <2>1 DEF Rest, RestKey, Has
  <2>2. CASE o # "apikey"
    BY <1>2, <1>6, <2>2 DEF SameView, Owners
  <2> QED BY <2>1, <2>2
<1>10. {"apikey"} \in SUBSET Owners
  BY DEF Owners
<1> QED BY <1>1, <1>2, <1>6, <1>7, <1>8, <1>9, <1>10, SingleInv

\* A request that only reads the provider into the caches
LEMMA ReadProviderInv ==
    ASSUME SInv, Single({"provider"}),
           UNCHANGED <<active, client, reg, apikey, provider, cClient, cReg, cKey, fresh, stale, told>>,
           cAll' \in {None} \cup SUBSET ProviderRecords, RestProvider => RestProvider'
    PROVE  SInv'
<1>1. req' = req
  BY DEF Single
<1>2. SecretsTypeOK' /\ LabelInv' /\ cClient' \in {None} \cup ClientRows /\ cReg' \in {None} \cup Secret
      /\ told' \in [Owners -> {None} \cup Nat]
  BY DEF SInv, StateInv, SecretsTypeOK, LabelInv, Labelled, Truthful
<1>3. DynInv'
  BY <1>1 DEF SInv, DynInv, Active, Keeps
<1>4. ASSUME NEW o \in Owners
      PROVE  SameView(o) \/ ((o \in {"provider"} \/ Free(o)) /\ (Rest(o) => Rest(o)'))
  <2>1. CASE o = "provider"
    BY <2>1 DEF Rest
  <2>2. CASE o # "provider"
    BY <2>2 DEF SameView, Owners
  <2> QED BY <2>1, <2>2
<1>5. {"provider"} \in SUBSET Owners
  BY DEF Owners
<1> QED BY <1>2, <1>3, <1>4, <1>5, SingleInv

\* A login with the provider
LEMMA find_providerInv ==
    ASSUME SInv, find_provider
    PROVE  SInv'
<1>1. UNCHANGED <<active, client, reg, apikey, provider, cClient, cReg, cKey, cAll, cTemplate, fresh, stale, told>>
      /\ provider # None /\ cProv' = provider /\ Single({"provider"}) /\ ghost' = ghost
  BY DEF find_provider, Single, rows, clientCaches
<1>2. ProviderRows' = ProviderRows
  BY <1>1 DEF ProviderRows
<1>3. Template(ProviderRows)' = Template(ProviderRows)
  BY <1>2 DEF Template
<1>4. RestProvider => RestProvider'
  BY <1>1, <1>2, <1>3 DEF RestProvider, Has
<1>5. cAll' \in {None} \cup SUBSET ProviderRecords
  BY <1>1 DEF SInv, StateInv
<1> QED BY <1>1, <1>4, <1>5, ReadProviderInv

\* The login page
LEMMA get_all_json_templateInv ==
    ASSUME SInv, get_all_json_template
    PROVE  SInv'
<1>1. UNCHANGED <<active, client, reg, apikey, provider, cClient, cReg, cKey, cProv, fresh, stale, told>>
      /\ cAll' = FindAll /\ cTemplate' = Template(FindAll) /\ Single({"provider"}) /\ ghost' = ghost
  BY DEF get_all_json_template, Single, rows, clientCaches
<1>2. ProviderRows' = ProviderRows
  BY <1>1 DEF ProviderRows
<1>3. Template(ProviderRows)' = Template(ProviderRows)
  BY <1>2 DEF Template
<1>4. RestProvider => FindAll = ProviderRows
  BY DEF RestProvider, FindAll
<1>5. RestProvider => RestProvider'
  BY <1>1, <1>2, <1>3, <1>4 DEF RestProvider, Has
<1>6. cAll' \in {None} \cup SUBSET ProviderRecords
  BY <1>1 DEF SInv, StateInv, SecretsTypeOK, FindAll, ProviderRows
<1> QED BY <1>1, <1>5, <1>6, ReadProviderInv

\* What a request holds when it begins
LEMMA OpFields ==
    ASSUME NEW steps, NEW own, NEW x, NEW t, NEW tell, NEW op, op = Op(steps, own, x, t, tell)
    PROVE  /\ DOMAIN op = {"steps", "own", "x", "t", "tell", "to"}
           /\ op.steps = steps /\ op.own = own /\ op.x = x /\ op.t = t /\ op.tell = tell /\ op.to = None
BY DEF Op

\* What a request may answer with
LEMMA Answers ==
    /\ DOMAIN Quietly = {}
    /\ \A o, v : DOMAIN Tell(o, v) = {o} /\ Tell(o, v)[o] = v
BY DEF Quietly, Tell

\* A client is saved with a new secret, or the one it had.
LEMMA SaveClientInv ==
    ASSUME SInv, NEW r \in Requests, FindClient # None, NEW sec \in {None} \cup Secret, NEW tell,
           \/ sec = FindClient.sec /\ tell = Quietly
           \/ tell = Tell("client", None)
           \/ sec # None /\ tell = Tell("client", sec.v),
           Begin(r, Op(SaveClient, {"client"}, [FindClient EXCEPT !.sec = sec], None, tell)),
           cClient' = FindClient, fresh' = fresh + 1,
           UNCHANGED <<active, rows, cReg, cKey, provCaches, told, stale>>
    PROVE  SInv'
<1> DEFINE row == [FindClient EXCEPT !.sec = sec]
           op == Op(SaveClient, {"client"}, row, None, tell)
<1>1. UNCHANGED <<active, client, reg, apikey, provider, cReg, cKey, cProv, cAll, cTemplate, told, stale>>
  BY DEF rows, provCaches
<1>2. FindClient \in ClientRows /\ FindClient \in {cClient, client}
      /\ (client # None => FindClient.dyn = client.dyn) /\ (RestClient => client # None /\ FindClient = client)
  BY FoundClient
<1>3. row \in ClientRows /\ row.dyn = FindClient.dyn /\ row.sec = sec /\ row # None
  <2>1. row \in ClientRows /\ row.dyn = FindClient.dyn /\ row.sec = sec
    BY <1>2 DEF ClientRows
  <2> QED BY <2>1, ConstantsOK
<1> HIDE DEF row
<1>4. DOMAIN op = {"steps", "own", "x", "t", "tell", "to"} /\ op.steps = Save2 /\ op.own = {"client"} /\ op.x = row
      /\ op.tell = tell /\ op.to = None
  BY OpFields DEF SaveClient, Save2
<1>5. Begin(r, op)
  BY DEF row
<1> HIDE DEF op
<1>6. req'[r] = op
  BY <1>5, BeginFrame
<1>0. \/ sec = FindClient.sec /\ DOMAIN tell = {}
      \/ DOMAIN tell = {"client"} /\ tell["client"] = None
      \/ sec # None /\ DOMAIN tell = {"client"} /\ tell["client"] = sec.v
  <2>1. CASE sec = FindClient.sec /\ tell = Quietly
    BY <2>1, Answers
  <2>2. CASE tell = Tell("client", None)
    BY <2>2, Answers, Zenon
  <2>3. CASE sec # None /\ tell = Tell("client", sec.v)
    BY <2>3, Answers, Zenon
  <2> QED BY <2>1, <2>2, <2>3
<1>7. Shape(op)
  <2>1. sec # None => sec.v \in Nat
    BY DEF Secret
  <2>2. DOMAIN tell \subseteq {"client"} /\ \A o \in DOMAIN tell : tell[o] \in {None} \cup Nat
    BY <1>0, <2>1
  <2> QED BY <1>3, <1>4, <2>2 DEF Shape, Saving, Saves
<1>8. Save2 \notin {Save1, MigC2, Upd2, Upd1, Del1, DynDel2, DynDel1} \cup Updates \cup Migrations
  BY SaveLists, DeleteLists, MigrateLists, MigrateProvLists DEF Updates, Migrations
<1>9. ASSUME NEW o \in op.own, Rest(o)
      PROVE  Work(o, req[r])'
  <2>1. o = "client" /\ RestClient
    BY <1>4, <1>9 DEF Rest
  <2>2. client # None /\ FindClient = client /\ Has(client, told["client"])
    BY <1>2, <2>1 DEF RestClient
  <2>3. Answer(req[r], "client")' = Answer(op, "client")
    BY <1>1, <1>6 DEF Answer
  <2>4. \/ sec = client.sec /\ Answer(op, "client") = told["client"]
        \/ Answer(op, "client") = None
        \/ sec # None /\ Answer(op, "client") = sec.v
    BY <1>0, <1>4, <2>2 DEF Answer
  <2>5. Has(row, Answer(op, "client"))
    BY <1>3, <2>2, <2>4 DEF Has
  <2>6. WorkClient(req[r])'
    BY <1>1, <1>4, <1>6, <1>8, <2>2, <2>3, <2>5 DEF WorkClient, Migrations, Updates
  <2> QED BY <2>1, <2>6 DEF Work
<1>10. Progress(req[r])'
  BY <1>4, <1>6, <1>8 DEF Progress, Migrations
<1> QED BY <1>1, <1>2, <1>3, <1>4, <1>5, <1>7, <1>9, <1>10, BeginInv

\* The administrator changes a client.
LEMMA update_clientInv ==
    ASSUME SInv, NEW r \in Requests, NEW conf \in BOOLEAN, update_client(r, conf)
    PROVE  SInv'
<1> DEFINE c == FindClient
           sec == IF ~conf THEN None ELSE IF c.sec = None THEN Enc(fresh) ELSE c.sec
           tell == IF sec = c.sec THEN Quietly ELSE Tell("client", None)
<1>1. /\ c # None /\ cClient' = c /\ fresh' = fresh + 1
      /\ UNCHANGED <<active, rows, cReg, cKey, provCaches, told, stale>>
      /\ Begin(r, Op(SaveClient, {"client"}, [c EXCEPT !.sec = sec], None, tell))
  BY DEF update_client, generate_new_secret
<1>2. ops < MaxOps
  BY <1>1 DEF Begin
<1>3. c.sec \in {None} \cup Secret
  BY <1>1, FoundClient DEF ClientRows
<1>4. sec \in {None} \cup Secret
  BY <1>2, <1>3, FreshSecrets
<1>5. (sec = c.sec /\ tell = Quietly) \/ tell = Tell("client", None)
  OBVIOUS
<1> HIDE DEF sec, tell
<1> QED BY <1>1, <1>4, <1>5, SaveClientInv

\* The administrator asks for a new secret.
LEMMA put_generate_client_secretInv ==
    ASSUME SInv, NEW r \in Requests, put_generate_client_secret(r)
    PROVE  SInv'
<1> DEFINE sec == Enc(fresh)
           tell == Tell("client", fresh)
<1>1. /\ FindClient # None /\ cClient' = FindClient /\ fresh' = fresh + 1
      /\ UNCHANGED <<active, rows, cReg, cKey, provCaches, told, stale>>
      /\ Begin(r, Op(SaveClient, {"client"}, [FindClient EXCEPT !.sec = sec], None, tell))
  BY DEF put_generate_client_secret, generate_new_secret
<1>2. ops < MaxOps
  BY <1>1 DEF Begin
<1>3. sec \in {None} \cup Secret /\ sec # None /\ tell = Tell("client", sec.v)
  BY <1>2, FreshSecrets
<1> HIDE DEF sec, tell
<1> QED BY <1>1, <1>3, SaveClientInv

\* A dynamic client updates itself.
LEMMA update_dynamicInv ==
    ASSUME SInv, NEW r \in Requests, NEW conf \in BOOLEAN, NEW rotate \in BOOLEAN, update_dynamic(r, conf, rotate)
    PROVE  SInv'
<1> DEFINE c == FindClient
           new == try_from_dyn_reg(conf)
           t == Rotated(rotate)
           tell == [o \in {"client"} \cup (IF rotate THEN {"reg"} ELSE {}) |->
                      IF o = "reg" THEN t.v ELSE IF conf THEN new.sec.v ELSE None]
           op == Op(Upd3, {"client", "reg"}, new, t, tell)
<1>1. /\ ValidToken /\ c # None /\ c.dyn /\ cReg' = FindReg /\ cClient' = c /\ fresh' = fresh + 2
      /\ UNCHANGED <<active, rows, cKey, provCaches, told, stale>>
      /\ Begin(r, op)
  BY DEF update_dynamic, Upd3
<1>2. ops < MaxOps
  BY <1>1 DEF Begin
<1>3. UNCHANGED <<active, client, reg, apikey, provider, cKey, cProv, cAll, cTemplate, told, stale>>
  BY <1>1 DEF rows, provCaches
<1>4. c \in ClientRows /\ c \in {cClient, client}
      /\ (client # None => c.dyn = client.dyn) /\ (RestClient => client # None /\ c = client)
  BY <1>1, FoundClient
<1>5. new = [dyn |-> TRUE, sec |-> IF conf THEN Enc(fresh) ELSE None, kid |-> IF conf THEN active ELSE None]
  BY DEF try_from_dyn_reg, generate_new_secret
<1>6. new \in ClientRows /\ new.dyn = TRUE /\ Labelled(new) /\ (conf => new.sec # None /\ new.sec.v = fresh) /\ new # None
  <2>1. new \in ClientRows /\ new.dyn = TRUE /\ Labelled(new) /\ (conf => new.sec # None /\ new.sec.v = fresh)
    BY <1>2, <1>5, FreshSecrets DEF ClientRows, Labelled, SInv, StateInv, SecretsTypeOK
  <2> QED BY <2>1, ConstantsOK
<1>7. FindReg \in {cReg, reg} /\ FindReg \in Secret /\ FindReg.v = told["reg"] /\ (RestReg => reg # None /\ FindReg = reg)
  BY <1>1 DEF ValidToken, FindReg, RestReg, SInv, StateInv, SecretsTypeOK
<1>8. t \in Secret /\ t.v \in Nat /\ t # None /\ (~rotate => t.v = told["reg"])
  <2>1. t \in Secret /\ (~rotate => t.v = told["reg"])
    BY <1>2, <1>7, FreshSecrets DEF Rotated
  <2> HIDE DEF t
  <2> QED BY <2>1, ConstantsOK DEF Secret
<1> HIDE DEF t, new, c
<1>9. /\ DOMAIN tell \subseteq {"client", "reg"} /\ \A o \in DOMAIN tell : tell[o] \in {None} \cup Nat
      /\ "client" \in DOMAIN tell /\ (conf => tell["client"] = new.sec.v) /\ (~conf => tell["client"] = None)
      /\ "reg" \in DOMAIN tell <=> rotate
      /\ "reg" \in DOMAIN tell => tell["reg"] = t.v
  <2>1. fresh \in Nat
    BY DEF SInv, StateInv
  <2> QED BY <1>6, <1>8, <2>1
<1> HIDE DEF tell
<1>10. DOMAIN op = {"steps", "own", "x", "t", "tell", "to"} /\ op.steps = Upd3 /\ op.own = {"client", "reg"} /\ op.x = new
       /\ op.t = t /\ op.tell = tell /\ op.to = None
  BY OpFields
<1> HIDE DEF op
<1>11. req'[r] = op
  BY <1>1, BeginFrame
<1>12. Shape(op)
  BY <1>6, <1>8, <1>9, <1>10 DEF Shape, Updating, Updates
<1>13. Upd3 \notin {Save2, Save1, MigC3, MigC2, Upd2, Upd1, Del2, Del1, DynDel2, DynDel1} \cup Migrations
  BY SaveLists, DeleteLists, MigrateLists, MigrateProvLists DEF Migrations
<1>14. \A o \in Owners : Answer(req[r], o)' = Answer(op, o)
  BY <1>3, <1>11 DEF Answer
<1>15. ASSUME NEW o \in op.own, Rest(o)
       PROVE  Work(o, req[r])'
  <2>1. CASE o = "client"
    <3>1. client # None
      BY <1>4, <1>15, <2>1 DEF Rest
    <3>2. Has(new, Answer(op, "client"))
      BY <1>6, <1>9, <1>10 DEF Has, Answer
    <3>3. WorkClient(req[r])'
      BY <1>3, <1>10, <1>11, <1>13, <1>14, <3>1, <3>2 DEF WorkClient, Updates, Owners
    <3> QED BY <2>1, <3>3 DEF Work
  <2>2. CASE o = "reg"
    <3>1. reg # None
      BY <1>7, <1>15, <2>2 DEF Rest
    <3>2. HasToken(t, Answer(op, "reg"))
      BY <1>8, <1>9, <1>10 DEF HasToken, Answer
    <3>3. WorkReg(req[r])'
      BY <1>3, <1>10, <1>11, <1>13, <1>14, <3>1, <3>2 DEF WorkReg, Updates, Owners
    <3> QED BY <2>2, <3>3 DEF Work
  <2> QED BY <1>10, <2>1, <2>2
<1>16. Progress(req[r])'
  BY <1>10, <1>11, <1>13 DEF Progress, Migrations
<1>17. client # None => op.x.dyn = client.dyn
  BY <1>1, <1>4, <1>6, <1>10 DEF ClientRows
<1> QED BY <1>1, <1>3, <1>4, <1>7, <1>10, <1>12, <1>15, <1>16, <1>17, BeginInv

\* A client is deleted.
LEMMA delete_clientInv ==
    ASSUME SInv, NEW r \in Requests, delete_client(r)
    PROVE  SInv'
<1> DEFINE c == FindClient
           steps == IF c.dyn THEN DynDel3 ELSE Del2
           tell == [o \in {"client", "reg"} |-> None]
           op == Op(steps, {"client", "reg"}, c, None, tell)
<1>1. /\ c # None /\ cClient' = c
      /\ UNCHANGED <<active, rows, cReg, cKey, provCaches, fresh, told, stale>>
      /\ Begin(r, Op(<<"client_delete", "client_forget">> \o (IF c.dyn THEN <<"reg_forget">> ELSE <<>>),
                     {"client", "reg"}, c, None, tell))
  BY DEF delete_client
<1>2. <<"client_delete", "client_forget">> \o (IF c.dyn THEN <<"reg_forget">> ELSE <<>>) = steps
  <2> HIDE DEF c
  <2>1. CASE c.dyn
    BY <2>1, Joined, Zenon
  <2>2. CASE ~c.dyn
    BY <2>2, Joined, Zenon
  <2> QED BY <2>1, <2>2
<1>3. Begin(r, op)
  BY <1>1, <1>2, Zenon
<1>4. UNCHANGED <<active, client, reg, apikey, provider, cReg, cKey, cProv, cAll, cTemplate, told, stale, fresh>>
  BY <1>1 DEF rows, provCaches
<1>5. c \in ClientRows /\ c \in {cClient, client} /\ (client # None => c.dyn = client.dyn)
  BY <1>1, FoundClient
<1> HIDE DEF c
<1>6. steps \in {DynDel3, Del2} /\ (steps = Del2 => ~c.dyn)
  BY DeleteLists
<1> HIDE DEF steps
<1>7. DOMAIN op = {"steps", "own", "x", "t", "tell", "to"} /\ op.steps = steps /\ op.own = {"client", "reg"} /\ op.x = c
      /\ op.tell = tell /\ op.to = None
  BY OpFields
<1> HIDE DEF op
<1>8. req'[r] = op
  BY <1>3, BeginFrame
<1>9. Shape(op)
  BY <1>6, <1>7 DEF Shape, Deleting, Deletes
<1>10. steps \notin {Save2, Save1, MigC3, MigC2, Upd2, Upd1, Del1, DynDel2, DynDel1} \cup Updates \cup Migrations
  BY <1>6, SaveLists, DeleteLists, MigrateLists, MigrateProvLists DEF Updates, Migrations
<1>11. ASSUME NEW o \in op.own, Rest(o)
       PROVE  Work(o, req[r])'
  <2>1. CASE o = "client"
    <3>1. WorkClient(req[r])'
      BY <1>7, <1>8, <1>10 DEF WorkClient, Updates
    <3> QED BY <2>1, <3>1 DEF Work
  <2>2. CASE o = "reg"
    <3>1. steps = Del2 => reg = None
      BY <1>5, <1>6 DEF SInv, StateInv, SecretsTypeOK
    <3>2. steps = Del2 => cReg' = None
      BY <1>4, <1>11, <2>2, <3>1 DEF Rest, RestReg
    <3>3. WorkReg(req[r])'
      BY <1>7, <1>8, <1>10, <3>2 DEF WorkReg, Updates
    <3> QED BY <2>2, <3>3 DEF Work
  <2> QED BY <1>7, <2>1, <2>2
<1>12. Progress(req[r])'
  BY <1>7, <1>8, <1>10 DEF Progress, Migrations
<1>13. ~Keeps(op)
  BY <1>7, <1>10 DEF Keeps, Saves, Migrations
<1> QED BY <1>1, <1>3, <1>4, <1>5, <1>7, <1>9, <1>11, <1>12, <1>13, BeginInv

\* An API key is saved with a new secret, or the one it had.
LEMMA SaveKeyInv ==
    ASSUME SInv, NEW r \in Requests, apikey # None, NEW row \in ApiKeyRows, Truthful(row), NEW tell,
           \/ row.sec.v = apikey.sec.v /\ tell = Quietly
           \/ tell = Tell("apikey", row.sec.v),
           Begin(r, Op(SaveKey, {"apikey"}, row, None, tell)), fresh' = fresh + 1,
           UNCHANGED <<active, rows, caches, told, stale>>
    PROVE  SInv'
<1> DEFINE op == Op(SaveKey, {"apikey"}, row, None, tell)
<1>1. UNCHANGED <<active, client, reg, apikey, provider, cClient, cReg, cKey, cProv, cAll, cTemplate, told, stale>>
  BY DEF rows, caches, clientCaches, provCaches
<1>2. \/ row.sec.v = apikey.sec.v /\ DOMAIN tell = {}
      \/ DOMAIN tell = {"apikey"} /\ tell["apikey"] = row.sec.v
  <2>1. CASE tell = Quietly
    BY <2>1, Answers
  <2>2. CASE tell = Tell("apikey", row.sec.v)
    BY <2>2, Answers, Zenon
  <2> QED BY <2>1, <2>2, Answers
<1>3. DOMAIN op = {"steps", "own", "x", "t", "tell", "to"} /\ op.steps = Key2 /\ op.own = {"apikey"} /\ op.x = row
      /\ op.tell = tell /\ op.to = None
  BY OpFields DEF SaveKey, Key2
<1>4. Begin(r, op)
  OBVIOUS
<1> HIDE DEF op
<1>5. req'[r] = op
  BY <1>4, BeginFrame
<1>6. row # None /\ row.sec # None /\ row.sec.v \in Nat
  <2>1. row.sec \in Secret
    BY DEF ApiKeyRows
  <2> QED BY <2>1, ConstantsOK DEF Secret
<1>7. Shape(op)
  BY <1>2, <1>3, <1>6 DEF Shape, KeySaving
<1>8. Key2 \notin {Key1, KeyFill1, MigK3, MigK2} \cup Migrations
  BY KeyLists, MigrateLists, MigrateProvLists DEF Migrations
<1>9. ASSUME NEW o \in op.own, Rest(o)
      PROVE  Work(o, req[r])'
  <2>1. o = "apikey" /\ Has(apikey, told["apikey"])
    BY <1>3, <1>9 DEF Rest, RestKey
  <2>2. Answer(req[r], "apikey")' = Answer(op, "apikey")
    BY <1>1, <1>5 DEF Answer
  <2>3. \/ row.sec.v = apikey.sec.v /\ Answer(op, "apikey") = told["apikey"]
        \/ Answer(op, "apikey") = row.sec.v
    BY <1>2, <1>3 DEF Answer
  <2>4. Has(row, Answer(op, "apikey"))
    BY <1>6, <2>1, <2>3 DEF Has
  <2>5. WorkKey(req[r])'
    BY <1>1, <1>3, <1>5, <1>8, <2>2, <2>4 DEF WorkKey
  <2> QED BY <2>1, <2>5 DEF Work
<1>10. Progress(req[r])'
  BY <1>3, <1>5, <1>8 DEF Progress, Migrations
<1>11. ~Keeps(op)
  BY <1>3, SaveLists, KeyLists, MigrateLists DEF Keeps, Saves, Updates
<1> QED BY <1>1, <1>3, <1>4, <1>7, <1>9, <1>10, <1>11, BeginInv

\* Any value encrypted now
LEMMA Encrypted ==
    ASSUME SInv, NEW v \in 0 .. (2 * MaxOps)
    PROVE  Enc(v) \in Secret /\ Enc(v).v = v /\ Enc(v).k = active
BY DEF Enc, Secret, SInv, StateInv, SecretsTypeOK

\* The values of an API key
LEMMA KeyValues ==
    ASSUME SInv, apikey # None
    PROVE  apikey.sec.v \in 0 .. (2 * MaxOps) /\ apikey.acc.v \in 0 .. (2 * MaxOps)
BY DEF SInv, StateInv, SecretsTypeOK, ApiKeyRows, Secret

\* A new secret of an API key
LEMMA generate_secretInv ==
    ASSUME SInv, NEW r \in Requests, generate_secret(r)
    PROVE  SInv'
<1> DEFINE a == Enc(fresh)
           b == Enc(apikey.acc.v)
           row == [sec |-> a, acc |-> b, kid |-> active]
           tell == Tell("apikey", fresh)
<1>1. apikey # None /\ Begin(r, Op(SaveKey, {"apikey"}, row, None, tell)) /\ fresh' = fresh + 1
      /\ UNCHANGED <<active, rows, caches, told, stale>>
  BY DEF generate_secret
<1>2. a \in Secret /\ a.v = fresh /\ a.k = active
  BY <1>1, FreshSecrets DEF Begin
<1>3. b \in Secret /\ b.k = active
  BY <1>1, KeyValues, Encrypted
<1>4. active \in EncKeys
  BY DEF SInv, StateInv, SecretsTypeOK
<1> HIDE DEF a, b
<1>5. row \in ApiKeyRows /\ Truthful(row) /\ row.sec.v = fresh
  BY <1>2, <1>3, <1>4 DEF ApiKeyRows, Truthful
<1> HIDE DEF row
<1>6. tell = Tell("apikey", row.sec.v)
  BY <1>5
<1> HIDE DEF tell
<1> QED BY <1>1, <1>5, <1>6, SaveKeyInv

\* New access rights of an API key
LEMMA update_api_keyInv ==
    ASSUME SInv, NEW r \in Requests, update_api_key(r)
    PROVE  SInv'
<1> DEFINE a == Enc(apikey.sec.v)
           b == Enc(fresh)
           row == [sec |-> a, acc |-> b, kid |-> active]
<1>1. apikey # None /\ Begin(r, Op(SaveKey, {"apikey"}, row, None, Quietly)) /\ fresh' = fresh + 1
      /\ UNCHANGED <<active, rows, caches, told, stale>>
  BY DEF update_api_key, UpdatedKey
<1>2. b \in Secret /\ b.k = active
  BY <1>1, FreshSecrets, Encrypted DEF Begin, Enc
<1>3. a \in Secret /\ a.k = active /\ a.v = apikey.sec.v
  BY <1>1, KeyValues, Encrypted
<1>4. active \in EncKeys
  BY DEF SInv, StateInv, SecretsTypeOK
<1> HIDE DEF a, b
<1>5. row \in ApiKeyRows /\ Truthful(row) /\ row.sec.v = apikey.sec.v
  BY <1>2, <1>3, <1>4 DEF ApiKeyRows, Truthful
<1> HIDE DEF row
<1> QED BY <1>1, <1>5, SaveKeyInv

\* An API key is deleted.
LEMMA delete_api_keyInv ==
    ASSUME SInv, NEW r \in Requests, delete_api_key(r)
    PROVE  SInv'
<1> DEFINE tell == Tell("apikey", None)
           op == Op(KeyDel2, {"apikey"}, None, None, tell)
<1>1. Begin(r, op) /\ UNCHANGED <<active, rows, caches, fresh, told, stale>>
  BY DEF delete_api_key, KeyDel2
<1>2. UNCHANGED <<active, client, reg, apikey, provider, cClient, cReg, cKey, cProv, cAll, cTemplate, fresh, told, stale>>
  BY <1>1 DEF rows, caches, clientCaches, provCaches
<1>3. DOMAIN tell = {"apikey"} /\ tell["apikey"] = None
  BY Answers, Zenon
<1>4. DOMAIN op = {"steps", "own", "x", "t", "tell", "to"} /\ op.steps = KeyDel2 /\ op.own = {"apikey"} /\ op.x = None
      /\ op.tell = tell /\ op.to = None
  BY OpFields
<1> HIDE DEF op
<1>5. req'[r] = op
  BY <1>1, BeginFrame
<1>6. Shape(op)
  <2>1. KeyDeleting(op)
    BY <1>4 DEF KeyDeleting
  <2> HIDE DEF tell
  <2> QED BY <1>3, <1>4, <2>1 DEF Shape
<1>7. KeyDel2 \notin {Key2, Key1, KeyFill1, MigK3, MigK2} \cup Migrations
  BY KeyLists, MigrateLists, MigrateProvLists DEF Migrations
<1>8. ASSUME NEW o \in op.own PROVE Work(o, req[r])'
  <2>1. WorkKey(req[r])'
    BY <1>4, <1>5, <1>7 DEF WorkKey
  <2> QED BY <1>4, <2>1 DEF Work
<1>9. Progress(req[r])'
  BY <1>4, <1>5, <1>7 DEF Progress, Migrations
<1>10. ~Keeps(op)
  BY <1>4, SaveLists, KeyLists, MigrateLists DEF Keeps, Saves, Updates
<1> QED BY <1>1, <1>2, <1>4, <1>6, <1>8, <1>9, <1>10, BeginInv

\* An API key is read for the cache.
LEMMA api_key_from_token_validatedInv ==
    ASSUME SInv, NEW r \in Requests, api_key_from_token_validated(r)
    PROVE  SInv'
<1> DEFINE copy == into_api_key(apikey)
           op == Op(KeyFill1, {"apikey"}, copy, None, Quietly)
<1>1. apikey # None /\ Begin(r, op) /\ UNCHANGED <<active, rows, caches, fresh, told, stale>>
  BY DEF api_key_from_token_validated, KeyFill1
<1>2. UNCHANGED <<active, client, reg, apikey, provider, cClient, cReg, cKey, cProv, cAll, cTemplate, fresh, told, stale>>
  BY <1>1 DEF rows, caches, clientCaches, provCaches
<1>3. copy = into_api_key(apikey')
  BY <1>2
<1> HIDE DEF copy
<1>4. DOMAIN op = {"steps", "own", "x", "t", "tell", "to"} /\ op.steps = KeyFill1 /\ op.own = {"apikey"} /\ op.x = copy
      /\ op.tell = Quietly /\ op.to = None
  BY OpFields
<1> HIDE DEF op
<1>5. req'[r] = op
  BY <1>1, BeginFrame
<1>6. Shape(op)
  BY <1>4, Answers DEF Shape, KeyFilling
<1>7. KeyFill1 \notin {Key2, Key1, MigK3, MigK2} \cup Migrations
  BY KeyLists, MigrateLists, MigrateProvLists DEF Migrations
<1>8. ASSUME NEW o \in op.own, Rest(o) PROVE Work(o, req[r])'
  <2>1. o = "apikey" /\ Has(apikey, told["apikey"])
    BY <1>4, <1>8 DEF Rest, RestKey
  <2>2. WorkKey(req[r])'
    BY <1>1, <1>2, <1>3, <1>4, <1>5, <1>7, <2>1 DEF WorkKey, Has
  <2> QED BY <2>1, <2>2 DEF Work
<1>9. Progress(req[r])'
  BY <1>4, <1>5, <1>7 DEF Progress, Migrations
<1>10. ~Keeps(op)
  BY <1>4, SaveLists, KeyLists, MigrateLists DEF Keeps, Saves, Updates
<1> QED BY <1>1, <1>2, <1>4, <1>6, <1>8, <1>9, <1>10, BeginInv

\* A request on the provider begins.
LEMMA BeginProviderInv ==
    ASSUME SInv, NEW r \in Requests, NEW steps, NEW x, NEW v \in {None} \cup Nat,
           \/ /\ steps \in {Prov4, ProvNew4} /\ x \in ProviderRecords
              /\ v # None => x.sec # None /\ x.sec.v = v
           \/ steps = ProvDel4 /\ x = None /\ v = None,
           Begin(r, Op(steps, {"provider"}, x, None, Tell("provider", v))),
           fresh' \in {fresh, fresh + 1},
           UNCHANGED <<active, rows, clientCaches, cKey, cAll, cTemplate, told, stale>>
    PROVE  SInv'
<1> DEFINE tell == Tell("provider", v)
           op == Op(steps, {"provider"}, x, None, tell)
<1>1. Begin(r, op)
      /\ UNCHANGED <<active, client, reg, apikey, provider, cClient, cReg, cKey, cAll, cTemplate, told, stale>>
  BY DEF rows, clientCaches
<1>2. DOMAIN tell = {"provider"} /\ tell["provider"] = v
  BY Answers, Zenon
<1>3. DOMAIN op = {"steps", "own", "x", "t", "tell", "to"} /\ op.steps = steps /\ op.own = {"provider"} /\ op.x = x
      /\ op.tell = tell /\ op.to = None
  BY OpFields
<1> HIDE DEF op
<1>4. req'[r] = op
  BY <1>1, BeginFrame
<1>5. Shape(op)
  <2>1. ProvSaving(op) \/ ProvDeleting(op)
    BY <1>3 DEF ProvSaving, ProvSaves, ProvDeleting, ProvDeletes
  <2> HIDE DEF tell
  <2> QED BY <1>2, <1>3, <2>1 DEF Shape
<1> HIDE DEF tell
<1>6. steps \in {Prov4, ProvNew4, ProvDel4}
      /\ steps \notin {Prov3, Prov2, Prov1, ProvDel3, ProvDel2, ProvDel1, MigP5, MigP4, MigP3, MigP2} \cup Migrations
  <2>1. steps \in {Prov4, ProvNew4, ProvDel4}
    OBVIOUS
  <2> QED BY <2>1, ProvLists, ProvDeleteLists, MigrateLists, MigrateProvLists DEF Migrations
<1>7. Answer(req[r], "provider")' = v
  BY <1>2, <1>3, <1>4 DEF Answer
<1>8. ASSUME NEW o \in op.own PROVE Work(o, req[r])'
  <2>1. steps \in {Prov4, ProvNew4} => Has(x, v)
    <3>1. steps \in {Prov4, ProvNew4} => x \in ProviderRecords
      BY ProvLists, ProvDeleteLists
    <3> QED BY <3>1, ConstantsOK, ProvLists, ProvDeleteLists DEF Has
  <2>2. steps = ProvNew4 => ~ghost'
    BY <1>1, <1>3, ProvLists, BeginFrame
  <2>3. WorkProvider(req[r])'
    BY <1>1, <1>3, <1>4, <1>6, <1>7, <2>1, <2>2 DEF WorkProvider
  <2> QED BY <1>3, <2>3 DEF Work
<1>9. Progress(req[r])'
  BY <1>3, <1>4, <1>6 DEF Progress, Migrations
<1>10. ~Keeps(op)
  BY <1>3, <1>6, SaveLists, ProvLists, ProvDeleteLists, MigrateLists DEF Keeps, Saves, Updates
<1> QED BY <1>1, <1>3, <1>5, <1>8, <1>9, <1>10, BeginInv

\* The values the administrator gives
LEMMA ProviderValues ==
    ASSUME SInv, ops < MaxOps, NEW on \in BOOLEAN, NEW secret \in {fresh, None}
    PROVE  LET p == try_from_id_req(on, secret)
           IN  /\ p \in ProviderRecords /\ secret \in {None} \cup Nat
               /\ secret # None => p.sec # None /\ p.sec.v = secret
<1> DEFINE sec == IF secret = None THEN None ELSE Enc(secret)
           p == [on |-> on, sec |-> sec]
<1>1. sec \in {None} \cup Secret /\ (secret # None => sec # None /\ sec.v = secret) /\ secret \in {None} \cup Nat
  BY FreshSecrets
<1>2. try_from_id_req(on, secret) = p
  BY DEF try_from_id_req
<1> HIDE DEF sec
<1>3. p \in ProviderRecords /\ p.sec = sec
  BY <1>1 DEF ProviderRecords
<1> HIDE DEF p
<1> QED BY <1>1, <1>2, <1>3

\* The administrator adds a provider.
LEMMA post_providerInv ==
    ASSUME SInv, NEW r \in Requests, NEW on \in BOOLEAN, NEW secret \in {fresh, None}, post_provider(r, on, secret)
    PROVE  SInv'
<1> DEFINE p == try_from_id_req(on, secret)
<1>1. /\ Begin(r, Op(<<"provider_insert">> \o Tail(SaveProvider), {"provider"}, p, None, Tell("provider", secret)))
      /\ fresh' = fresh + 1 /\ UNCHANGED <<active, rows, clientCaches, cKey, cAll, cTemplate, told, stale>>
  BY DEF post_provider
<1>2. Begin(r, Op(ProvNew4, {"provider"}, p, None, Tell("provider", secret)))
  BY <1>1, Joined, Zenon
<1>3. ops < MaxOps
  BY <1>2 DEF Begin
<1>4. p \in ProviderRecords /\ secret \in {None} \cup Nat /\ (secret # None => p.sec # None /\ p.sec.v = secret)
  BY <1>3, ProviderValues
<1> HIDE DEF p
<1> QED BY <1>1, <1>2, <1>4, BeginProviderInv

\* The administrator saves a provider, which may be gone.
LEMMA put_providerInv ==
    ASSUME SInv, NEW r \in Requests, NEW on \in BOOLEAN, NEW secret \in {fresh, None}, put_provider(r, on, secret)
    PROVE  SInv'
<1> DEFINE p == try_from_id_req(on, secret)
<1>1. /\ Begin(r, Op(SaveProvider, {"provider"}, p, None, Tell("provider", secret)))
      /\ fresh' = fresh + 1 /\ UNCHANGED <<active, rows, caches, told, stale>>
  BY DEF put_provider
<1>2. Begin(r, Op(Prov4, {"provider"}, p, None, Tell("provider", secret)))
  BY <1>1 DEF SaveProvider, Prov4
<1>3. ops < MaxOps
  BY <1>2 DEF Begin
<1>4. p \in ProviderRecords /\ secret \in {None} \cup Nat /\ (secret # None => p.sec # None /\ p.sec.v = secret)
  BY <1>3, ProviderValues
<1>5. UNCHANGED <<active, rows, clientCaches, cKey, cAll, cTemplate, told, stale>>
  BY <1>1 DEF caches, provCaches
<1> HIDE DEF p
<1> QED BY <1>1, <1>2, <1>4, <1>5, BeginProviderInv

\* A provider is deleted.
LEMMA delete_providerInv ==
    ASSUME SInv, NEW r \in Requests, delete_provider(r)
    PROVE  SInv'
<1>1. Begin(r, Op(ProvDel4, {"provider"}, None, None, Tell("provider", None)))
      /\ UNCHANGED <<active, rows, caches, fresh, told, stale>>
  BY DEF delete_provider, ProvDel4
<1>2. UNCHANGED <<active, rows, clientCaches, cKey, cAll, cTemplate, told, stale>>
  BY <1>1 DEF caches, provCaches
<1> QED BY <1>1, <1>2, BeginProviderInv

\* A migration begins.
LEMMA migrate_encryption_algInv ==
    ASSUME SInv, NEW r \in Requests, NEW k \in EncKeys, migrate_encryption_alg(r, k)
    PROVE  SInv'
<1> DEFINE todo == ClientsToMigrate(k)
           sec == EncWith(client.sec, k)
           c == [client EXCEPT !.sec = sec, !.kid = k]
           own == {"client", "apikey", "provider"}
           all == Op((IF todo THEN SaveClient ELSE <<>>) \o <<"migrate_keys">>, own, IF todo THEN c ELSE None, None, Quietly)
           op == [all EXCEPT !.to = k]
<1>1. Begin(r, op) /\ UNCHANGED <<active, rows, caches, fresh, told, stale>>
  BY DEF migrate_encryption_alg
<1>2. UNCHANGED <<active, client, reg, apikey, provider, cClient, cReg, cKey, cProv, cAll, cTemplate, fresh, told, stale>>
  BY <1>1 DEF rows, caches, clientCaches, provCaches
<1>3. (IF todo THEN SaveClient ELSE <<>>) \o <<"migrate_keys">> = IF todo THEN MigC3 ELSE MigC1
  <2> HIDE DEF todo
  <2>1. CASE todo
    BY <2>1, Joined, Zenon
  <2>2. CASE ~todo
    BY <2>2, Joined, Zenon
  <2> QED BY <2>1, <2>2
<1>4. todo => /\ client # None /\ c \in ClientRows /\ c.dyn = client.dyn /\ c.sec = sec /\ c.kid = k
              /\ sec \in Secret /\ sec # None /\ sec.k = k /\ sec.v = client.sec.v /\ c # None
  <2> SUFFICES ASSUME todo
               PROVE  /\ client # None /\ c \in ClientRows /\ c.dyn = client.dyn /\ c.sec = sec /\ c.kid = k
                      /\ sec \in Secret /\ sec # None /\ sec.k = k /\ sec.v = client.sec.v /\ c # None
    OBVIOUS
  <2>1. client # None /\ client.sec # None /\ client \in ClientRows
    BY DEF ClientsToMigrate, SInv, StateInv, SecretsTypeOK
  <2>2. client.sec \in Secret
    BY <2>1 DEF ClientRows
  <2>3. sec \in Secret /\ sec.k = k /\ sec.v = client.sec.v
    BY <2>2 DEF EncWith, Secret
  <2> HIDE DEF sec
  <2>4. c \in ClientRows /\ c.dyn = client.dyn /\ c.sec = sec /\ c.kid = k
    BY <2>1, <2>3 DEF ClientRows
  <2> QED BY <2>1, <2>3, <2>4, ConstantsOK
<1> HIDE DEF c
<1>5. DOMAIN all = {"steps", "own", "x", "t", "tell", "to"} /\ all.steps = (IF todo THEN MigC3 ELSE MigC1)
      /\ all.own = own /\ all.x = (IF todo THEN c ELSE None) /\ all.tell = Quietly
  <2> DEFINE list == (IF todo THEN SaveClient ELSE <<>>) \o <<"migrate_keys">>
             x == IF todo THEN c ELSE None
  <2>1. all = Op(list, own, x, None, Quietly)
    OBVIOUS
  <2>2. list = (IF todo THEN MigC3 ELSE MigC1) /\ x = IF todo THEN c ELSE None
    BY <1>3
  <2> HIDE DEF list, x, all, own
  <2>3. DOMAIN all = {"steps", "own", "x", "t", "tell", "to"} /\ all.steps = list
        /\ all.own = own /\ all.x = x /\ all.tell = Quietly
    BY <2>1, OpFields
  <2> QED BY <2>2, <2>3
<1> HIDE DEF all
<1>6. DOMAIN op = {"steps", "own", "x", "t", "tell", "to"} /\ op.steps = (IF todo THEN MigC3 ELSE MigC1)
      /\ op.own = own /\ op.x = (IF todo THEN c ELSE None) /\ op.tell = Quietly /\ op.to = k
  BY <1>5
<1> HIDE DEF op
<1>7. req'[r] = op /\ ghost' = ghost
  BY <1>1, <1>6, MigrateLists, BeginFrame
<1>8. op.steps \in {MigC3, MigC1} /\ (op.steps = MigC3 <=> todo)
      /\ op.steps \notin {MigC2, MigK3, MigK2, MigK1, MigP5, MigP4, MigP3, MigP2, MigP1}
  BY <1>6, MigrateLists, MigrateProvLists
<1> HIDE DEF todo
<1>9. Shape(op)
  <2>1. Migrating(op)
    BY <1>4, <1>6, <1>8 DEF Migrating, Migrations
  <2> QED BY <1>6, <2>1, Answers DEF Shape
<1>10. ASSUME NEW o \in op.own, Rest(o)
       PROVE  Work(o, req[r])'
  <2>1. SameView(o) /\ MigC1 \in Migrations \ Current(o) /\ (o # "client" => MigC3 \in Migrations \ Current(o))
    BY <1>2, <1>6, <1>7, MigrateLists, MigrateProvLists DEF SameView, Migrations, Current
  <2>2. CASE o # "client" \/ ~todo
    <3>1. Rest(o)'
      BY <1>6, <1>10, <2>1, SameRest DEF Owners
    <3>2. req'[r].steps \in Migrations \ Current(o)
      BY <1>7, <1>8, <2>1, <2>2
    <3> QED BY <1>6, <3>1, <3>2, WillRestInMigration
  <2>3. CASE o = "client" /\ todo
    <3>1. cClient \in {None, client} /\ Has(client, told["client"])
      BY <1>10, <2>3 DEF Rest, RestClient
    <3>2. Answer(req[r], "client")' = told["client"]
      BY <1>2, <1>6, <1>7, Answers DEF Answer
    <3>3. req'[r].steps = MigC3 /\ req'[r].x = c /\ client # None
      BY <1>4, <1>6, <1>7, <2>3
    <3>4. MigC3 \notin {Save2, Save1, MigC2, Del1, DynDel2, DynDel1} \cup Updates \cup (Migrations \ {MigC3, MigC2})
      BY SaveLists, DeleteLists, MigrateLists, MigrateProvLists DEF Updates, Migrations
    <3>5. Has(c, told["client"])
      BY <1>4, <2>3, <3>1 DEF Has
    <3>6. WorkClient(req[r])'
      BY <1>2, <3>1, <3>2, <3>3, <3>4, <3>5 DEF WorkClient, Updates
    <3> QED BY <2>3, <3>6 DEF Work
  <2> QED BY <2>2, <2>3
<1>11. Progress(req[r])'
  <2>1. ~todo => ClientDone(k)'
    BY <1>2 DEF todo, ClientsToMigrate, ClientDone, SInv, LabelInv, Labelled
  <2>2. req'[r].to = k /\ (req'[r].steps = MigC3 <=> todo)
        /\ req'[r].steps \notin {MigK2, MigK1, MigP5, MigP4, MigP3, MigP2, MigP1}
    BY <1>6, <1>7, <1>8
  <2> QED BY <2>1, <2>2 DEF Progress
<1>12. Keeps(op) /\ client # None => op.x.dyn = client.dyn
  <2>1. Keeps(op) => todo
    BY <1>8, SaveLists, MigrateLists DEF Keeps, Saves, Updates
  <2> QED BY <1>4, <1>6, <2>1
<1> QED BY <1>1, <1>2, <1>6, <1>9, <1>10, <1>11, <1>12, BeginInv

-----------------------------------------------------------------------------
\* rauthy is started again.
LEMMA RestartInv ==
    ASSUME SInv, Restart
    PROVE  SInv'
<1>1. /\ ops < MaxOps /\ ops' = ops + 1 /\ active' \in EncKeys
      /\ cClient' = None /\ cReg' = None /\ cKey' = None /\ cProv' = None /\ cAll' = None /\ cTemplate' = None
      /\ req' = [r \in Requests |-> NoOp] /\ spoilt' = {} /\ target' = None /\ ghost' = FALSE
      /\ UNCHANGED <<client, reg, apikey, provider, fresh, stale>>
  BY DEF Restart, rows
<1>2. told' = [o \in Owners |-> IF o \in spoilt \/ ~Free(o) \/ (o = "provider" /\ ghost) THEN None ELSE told[o]]
  <2>1. \A o \in Owners : (\E r \in Requests : Active(r) /\ o \in req[r].own) <=> ~Free(o)
    BY DEF Free
  <2>2. told' = [o \in Owners |-> IF \/ o \in spoilt \/ \E r \in Requests : Active(r) /\ o \in req[r].own
                                     \/ o = "provider" /\ ghost
                                  THEN None ELSE told[o]]
    BY DEF Restart
  <2> QED BY <2>1, <2>2
<1>3. \A r \in Requests : ~Active(r)'
  BY <1>1 DEF Active
<1>4. told' \in [Owners -> {None} \cup Nat]
  BY <1>2 DEF SInv, StateInv
<1>5. StateInv'
  <2>1. SecretsTypeOK'
    BY <1>1 DEF SInv, StateInv, SecretsTypeOK
  <2>2. fresh' \in Nat /\ ops' \in 0 .. MaxOps /\ fresh' <= 2 * ops' + 1
    BY <1>1, ConstantsOK DEF SInv, StateInv
  <2> QED BY <1>1, <1>4, <2>1, <2>2 DEF StateInv
<1>6. ReqInv' /\ BusyInv' /\ MigInv'
  BY <1>1, <1>3 DEF ReqInv, BusyInv, MigInv
<1>7. LabelInv' /\ DynInv'
  BY <1>1, <1>3 DEF SInv, LabelInv, DynInv, Labelled, Truthful
<1>8. OwnerInv'
  <2> SUFFICES ASSUME NEW o \in Owners PROVE Rest(o)'
    BY <1>3 DEF OwnerInv
  <2>1. told'[o] = None \/ (told'[o] = told[o] /\ Rest(o) /\ ~(o = "provider" /\ ghost))
    BY <1>2 DEF SInv, OwnerInv
  <2> QED BY <1>1, <2>1 DEF Rest, RestClient, RestReg, RestKey, RestProvider, Has, HasToken
<1> QED BY <1>5, <1>6, <1>7, <1>8 DEF SInv

\* At the start
LEMMA SecretsInitInv ==
    ASSUME SecretsInit
    PROVE  SInv
<1>1. PICK s \in InitStores :
         /\ active = s.active /\ client = s.client /\ reg = s.reg /\ apikey = s.apikey /\ provider = s.provider
         /\ told = [o \in Owners |->
                      CASE o = "client" -> IF s.client = None \/ s.client.sec = None THEN None ELSE s.client.sec.v
                        [] o = "reg" -> IF s.reg = None THEN None ELSE s.reg.v
                        [] o = "apikey" -> IF s.apikey = None THEN None ELSE s.apikey.sec.v
                        [] o = "provider" -> IF s.provider = None \/ s.provider.sec = None THEN None
                                             ELSE s.provider.sec.v]
  BY DEF SecretsInit
<1>2. /\ cClient = None /\ cReg = None /\ cKey = None /\ cProv = None /\ cAll = None /\ cTemplate = None
      /\ req = [r \in Requests |-> NoOp]
      /\ fresh = 1 /\ target = None /\ ghost = FALSE /\ ops = 0 /\ spoilt = {}
  BY DEF SecretsInit
<1>3. /\ active \in EncKeys
      /\ client \in {None} \cup {c \in ClientRows : Labelled(c)}
      /\ reg \in {None} \cup Secret /\ (reg # None => client # None /\ client.dyn)
      /\ apikey \in {None} \cup {e \in ApiKeyRows : e.kid = e.sec.k /\ e.kid = e.acc.k}
      /\ provider \in {None} \cup ProviderRecords
  BY <1>1, StoresOK, Zenon
<1>4. /\ told["client"] = IF client = None \/ client.sec = None THEN None ELSE client.sec.v
      /\ told["reg"] = IF reg = None THEN None ELSE reg.v
      /\ told["apikey"] = IF apikey = None THEN None ELSE apikey.sec.v
      /\ told["provider"] = IF provider = None \/ provider.sec = None THEN None ELSE provider.sec.v
  BY <1>1 DEF Owners
<1>5. told \in [Owners -> {None} \cup Nat]
  <2>1. /\ client # None /\ client.sec # None => client.sec.v \in Nat
        /\ reg # None => reg.v \in Nat
        /\ apikey # None => apikey.sec.v \in Nat
        /\ provider # None /\ provider.sec # None => provider.sec.v \in Nat
    BY <1>3 DEF ClientRows, ApiKeyRows, ProviderRecords, Secret
  <2>2. \A o \in Owners : told[o] \in {None} \cup Nat
    BY <1>4, <2>1 DEF Owners
  <2> DEFINE f(o) == CASE o = "client" -> IF s.client = None \/ s.client.sec = None THEN None ELSE s.client.sec.v
                       [] o = "reg" -> IF s.reg = None THEN None ELSE s.reg.v
                       [] o = "apikey" -> IF s.apikey = None THEN None ELSE s.apikey.sec.v
                       [] o = "provider" -> IF s.provider = None \/ s.provider.sec = None THEN None
                                            ELSE s.provider.sec.v
  <2>4. told = [o \in Owners |-> f(o)]
    BY <1>1
  <2> HIDE DEF f
  <2>3. DOMAIN told = Owners /\ told = [o \in Owners |-> told[o]]
    BY <2>4
  <2> QED BY <2>2, <2>3
<1>6. \A r \in Requests : ~Active(r)
  BY <1>2 DEF Active
<1>7. StateInv
  <2>1. SecretsTypeOK
    BY <1>3 DEF SecretsTypeOK
  <2> QED BY <1>2, <1>5, <2>1, ConstantsOK DEF StateInv
<1>8. ReqInv /\ BusyInv /\ MigInv /\ LabelInv /\ DynInv
  BY <1>2, <1>3, <1>6 DEF ReqInv, BusyInv, MigInv, LabelInv, DynInv, Truthful
<1>9. OwnerInv
  <2>1. apikey # None => apikey.sec # None
    BY <1>3, ConstantsOK DEF ApiKeyRows
  <2> QED BY <1>2, <1>4, <1>6, <2>1
     DEF OwnerInv, Rest, RestClient, RestReg, RestKey, RestProvider, Has, HasToken, Owners
<1> QED BY <1>7, <1>8, <1>9 DEF SInv

\* Nothing happens.
LEMMA SecretsStutter ==
    ASSUME SInv, UNCHANGED secretsVars
    PROVE  SInv'
<1>1. UNCHANGED <<active, client, reg, apikey, provider, cClient, cReg, cKey, cProv, cAll, cTemplate, req, fresh, told,
                  stale, target, ghost, ops, spoilt>>
  BY DEF secretsVars, rows, caches, clientCaches, provCaches, secretsHistory
<1>2. StateInv' /\ LabelInv' /\ DynInv' /\ BusyInv'
  <2>1. StateInv'
    BY <1>1 DEF SInv, StateInv, SecretsTypeOK
  <2>2. LabelInv' /\ DynInv' /\ BusyInv'
    BY <1>1 DEF SInv, LabelInv, DynInv, BusyInv, Active, Keeps, Labelled, Truthful
  <2> QED BY <2>1, <2>2
<1>3. ReqInv'
  <2> SUFFICES ASSUME NEW s \in Requests, Active(s)' PROVE Shape(req[s])'
    BY <1>1 DEF SInv, ReqInv
  <2>1. Shape(req[s]) /\ req'[s] = req[s]
    BY <1>1 DEF SInv, ReqInv, Active
  <2> QED BY <2>1
<1>4. OwnerInv'
  <2> SUFFICES ASSUME NEW o \in Owners \ spoilt
               PROVE  (Free(o) => Rest(o))' /\ \A s \in Requests : Active(s)' /\ o \in req'[s].own => Work(o, req[s])'
    BY <1>1 DEF OwnerInv
  <2>1. SameView(o) /\ (Free(o)' <=> Free(o))
    BY <1>1 DEF SameView, Free, Active
  <2>2. ASSUME NEW s \in Requests, Active(s)', o \in req'[s].own PROVE Work(o, req[s])'
    <3>1. Work(o, req[s]) /\ req'[s] = req[s]
      BY <1>1, <2>2 DEF SInv, OwnerInv, Active
    <3> QED BY <2>1, <3>1, SameWork
  <2> QED BY <2>1, <2>2, SameRest DEF SInv, OwnerInv
<1>5. MigInv'
  <2>1. ASSUME spoilt = {}, NEW s \in Requests, Active(s)' PROVE Progress(req[s])'
    BY <1>1, <2>1 DEF SInv, MigInv, Active, Progress, ClientDone, KeyDone, ProvDone
  <2>2. ASSUME target' # None
        PROVE  (\A s \in Requests : ~Active(s))' /\ (ClientDone(target) /\ KeyDone(target) /\ ProvDone(target))'
    BY <1>1, <2>2 DEF SInv, MigInv, Active, ClientDone, KeyDone, ProvDone
  <2> QED BY <1>1, <2>1, <2>2 DEF MigInv
<1> QED BY <1>2, <1>3, <1>4, <1>5 DEF SInv

\* A step of any request
LEMMA SecretsStepInv ==
    ASSUME SInv, NEW r \in Requests, Step(r)
    PROVE  SInv'
BY ClientRowInv, CachedClientInv, CachedRegInv, CommitDynamicInv, DeletedClientInv, ForgottenClientInv, ForgottenRegInv,
   KeyRowInv, CachedKeyInv, ProviderRowInv, DroppedAllInv, FilledTemplateInv, CachedProviderInv, MigrateKeysInv,
   MigrateProvidersInv, MigratedInv DEF Step

\* The beginning of any request
LEMMA SecretsRequestInv ==
    ASSUME SInv, NEW r \in Requests,
           ClientRequest(r) \/ DynRequest(r) \/ ApiKeyRequest(r) \/ ProviderRequest(r)
    PROVE  SInv'
<1>1. CASE ClientRequest(r)
  BY <1>1, create_clientInv, update_clientInv, put_generate_client_secretInv, get_client_secretInv,
     grant_type_credentialsInv, delete_clientInv DEF ClientRequest
<1>2. CASE DynRequest(r)
  <2>1. ASSUME NEW conf \in BOOLEAN, NEW rotate \in AutoRotate, update_dynamic(r, conf, rotate) PROVE SInv'
    BY <2>1, update_dynamicInv, ConstantsOK
  <2> QED BY <1>2, <2>1, create_dynamicInv, get_clients_dynInv DEF DynRequest
<1>3. CASE ApiKeyRequest(r)
  BY <1>3, create_api_keyInv, generate_secretInv, update_api_keyInv, delete_api_keyInv, api_key_from_token_validatedInv
     DEF ApiKeyRequest
<1>4. CASE ProviderRequest(r)
  BY <1>4, post_providerInv, put_providerInv, delete_providerInv, find_providerInv, get_all_json_templateInv DEF ProviderRequest
<1> QED BY <1>1, <1>2, <1>3, <1>4

\* SInv is an invariant: each owner is at rest or in the hands of one request, unless two
\* requests overlapped or one failed, and a migration knows what it has done.
THEOREM SecretsInvariant == SecretsSpec => []SInv
<1>1. SecretsInit => SInv
  BY SecretsInitInv
<1>2. SInv /\ [SecretsNext]_secretsVars => SInv'
  <2> SUFFICES ASSUME SInv, [SecretsNext]_secretsVars PROVE SInv'
    OBVIOUS
  <2>1. CASE UNCHANGED secretsVars
    BY <2>1, SecretsStutter
  <2>2. CASE Restart
    BY <2>2, RestartInv
  <2>3. ASSUME NEW r \in Requests, Step(r) \/ Fail(r) PROVE SInv'
    BY <2>3, SecretsStepInv, FailInv
  <2>5. ASSUME NEW r \in Requests, NEW k \in EncKeys, migrate_encryption_alg(r, k) PROVE SInv'
    BY <2>5, migrate_encryption_algInv
  <2>4. ASSUME NEW r \in Requests, ClientRequest(r) \/ DynRequest(r) \/ ApiKeyRequest(r) \/ ProviderRequest(r) PROVE SInv'
    BY <2>4, SecretsRequestInv
  <2> QED BY <2>1, <2>2, <2>3, <2>4, <2>5 DEF SecretsNext
<1> QED BY <1>1, <1>2, PTL DEF SecretsSpec

\* Whom nobody works on
LEMMA AtRest ==
    ASSUME SInv, NEW o \in Owners, Quiet(o)
    PROVE  Rest(o)
BY DEF SInv, OwnerInv, Quiet, Free

\* The secret an owner was told last is the one its row and the cached copy have, whatever
\* was rotated, shown, migrated or deleted before, as long as its requests came one after
\* the other and none failed half way (clients.rs, clients_dyn.rs, api_keys.rs,
\* auth_providers.rs); what was said of a provider without a row is the exception.
THEOREM ToldSecretWorksAlways == SecretsSpec => []ToldSecretWorks
<1>1. SInv => ToldSecretWorks
  <2> SUFFICES ASSUME SInv PROVE ToldSecretWorks
    OBVIOUS
  <2>1. /\ Quiet("client") => RestClient
        /\ Quiet("reg") => RestReg
        /\ Quiet("apikey") => RestKey
        /\ Quiet("provider") => RestProvider
    BY AtRest DEF Owners, Rest
  <2> QED BY <2>1 DEF ToldSecretWorks, RestClient, RestReg, RestKey, RestProvider, Has, HasToken, validate_secret, FindClient
<1> QED BY <1>1, SecretsInvariant, PTL

\* No copy of a client, a registration token, an API key or a provider outlives what the row
\* holds, the lists of the providers included, once the requests for it have ended; only
\* the copy of a provider that was saved after its deletion (auth_providers.rs) has none.
THEOREM CachesAgreeAlways == SecretsSpec => []CachesAgree
<1>1. SInv => CachesAgree
  <2> SUFFICES ASSUME SInv PROVE CachesAgree
    OBVIOUS
  <2>1. /\ Quiet("client") => RestClient
        /\ Quiet("reg") => RestReg
        /\ Quiet("apikey") => RestKey
        /\ Quiet("provider") => RestProvider
    BY AtRest DEF Owners, Rest
  <2> QED BY <2>1 DEF CachesAgree, RestClient, RestReg, RestKey, RestProvider
<1> QED BY <1>1, SecretsInvariant, PTL

\* enc_key_id of an API key names the key of both its values (api_keys.rs), and the rows
\* are well-formed, also when requests overlap or fail and the active key changes.
THEOREM EncKeyIdTruthfulAlways == SecretsSpec => []EncKeyIdTruthful
<1>1. SInv => EncKeyIdTruthful
  BY DEF SInv, StateInv, LabelInv, Truthful, EncKeyIdTruthful
<1> QED BY <1>1, SecretsInvariant, PTL

\* A migration (encryption.rs) that was alone leaves nothing under another key, except for
\* a client whose secret_kid did not name its key before.
THEOREM MigrationCompleteAlways == SecretsSpec => []MigrationComplete
<1>1. SInv => MigrationComplete
  BY DEF SInv, MigInv, ClientDone, KeyDone, ProvDone, MigrationComplete
<1> QED BY <1>1, SecretsInvariant, PTL
=============================================================================
