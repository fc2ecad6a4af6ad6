------------------------- MODULE JwksStartupProofs --------------------------
(***************************************************************************)
(* Proofs about the signing keys: Jwks, for any algorithms, requests and   *)
(* rotators, and Startup, which saves the first of them, for any replicas  *)
(* and deployments.                                                        *)
(*                                                                         *)
(* Jwks rests on one set: the oldest keys, one per algorithm, are the same *)
(* for ever.  A new key is younger than any key of its algorithm, and      *)
(* jwks_cleanup deletes only keys that have an older one.  Whatever signs  *)
(* a token, caches the signing key or remembers a key that was looked up   *)
(* holds one of them, and every list of public keys has them all.          *)
(***************************************************************************)
EXTENDS Jwks, Startup, TLAPS

Oldest == {k \in jwks : \A j \in jwks : j.alg = k.alg => k.at <= j.at}

\* No key is from the future, and every algorithm has one.
TableInv ==
    /\ \A k \in jwks : k.at <= clock
    /\ \A a \in Algs : \E k \in jwks : k.alg = a

\* A key that jwks_cleanup is to delete has an older one of its algorithm.
CleanInv == \A k \in todo : \E j \in jwks : j.alg = k.alg /\ j.at < k.at

\* What signs or has signed is one of the oldest keys.
SignInv ==
    /\ signed \subseteq Oldest
    /\ \A a \in Algs : latest[a] \in Oldest \cup {None}
    /\ \A p \in Requests : req[p].op = "sign" => req[p].keys \subseteq Oldest

\* The lists of public keys have all of the oldest keys.
ListInv ==
    /\ \A ks \in certs : Oldest \subseteq ks
    /\ \A p \in Requests : req[p].op = "certs" => Oldest \subseteq req[p].keys

\* A relying party looks only oldest keys up, and has those it was told of.
ClientInv ==
    /\ rp.kid \in Oldest \cup {None}
    /\ rpRecent \subseteq Oldest
    /\ rpRecent \ rpFailed \subseteq rpKeys
    /\ refused = {}

IInv == TypeOK /\ TableInv /\ CleanInv /\ SignInv /\ ListInv /\ ClientInv

-----------------------------------------------------------------------------
\* The first keys are keys: the bound admits one per algorithm.
LEMMA FirstKeysType == FirstKeys \subseteq Keys
BY RotationOrder DEF FirstKeys, Keys

\* What a request may wait with
LEMMA WaitingType ==
    /\ NoRequest \in Waiting
    /\ \A ks \in SUBSET Keys, o \in {"sign", "find", "certs"}, b \in BOOLEAN :
          [op |-> o, keys |-> ks, rp |-> b] \in Waiting
BY DEF NoRequest, Waiting

\* The next-state relation, action by action
LEMMA Actions ==
    ASSUME Next
    PROVE  \/ \E a \in Algs : SignCached(a)
           \/ \E a \in Algs, p \in Requests : SignRead(p, a)
           \/ \E p \in Requests : SignPut(p)
           \/ \E p \in Requests : VerifyPut(p)
           \/ \E p \in Requests : CertsPut(p)
           \/ \E k \in signed : TokensExpire(k)
           \/ \E k \in signed, p \in Requests : VerifyRead(p, k)
           \/ CacheExpires
           \/ \E r \in Rotators : RotateStep(r)
           \/ \E r \in Rotators : RotateFails(r)
           \/ CleanupRead
           \/ \E k \in todo : CleanupDelete(k)
           \/ CleanupUncache
           \/ NewJwksUri
           \/ RpUpdate
           \/ RpFails
           \/ RpPanic
           \/ CertsCached
           \/ \E k \in signed : RpGet(k)
           \/ \E k \in rpRecent : RpForgets(k)
           \/ \E p \in Requests, mine \in BOOLEAN : CertsRead(p, mine)
BY DEF Next, Sign, Put, Rotate, Cleanup, Client

-----------------------------------------------------------------------------
\* A lookup of the relying party that ends keeps the types of its state.
LEMMA AnswerType ==
    ASSUME TypeOK, NEW ks \in SUBSET Keys, NEW f \in BOOLEAN, RpAnswer(ks, f)
    PROVE  /\ rpUri' \in BOOLEAN /\ rpKeys' \subseteq Keys /\ rpRecent' \subseteq Keys
           /\ rp' \in [wait : {"none", "ask", "answer", "dead"}, kid : Keys \cup {None}]
           /\ rpFailed' \subseteq Keys
           /\ refused' \subseteq {"issuer", "client"} \X Keys
<1> DEFINE kid == IF rp.kid = None THEN {} ELSE {rp.kid}
<1>1. kid \subseteq Keys
  BY DEF TypeOK
<1> HIDE DEF kid
<1>2. /\ rpKeys' = ks /\ rp' = RpIdle /\ rpUri' = rpUri
      /\ rpRecent' = rpRecent \cup kid
      /\ rpFailed' = IF f THEN rpFailed \cup kid ELSE rpFailed \ kid
      /\ refused' = refused \cup {<<"client", k>> : k \in kid \ (ks \cup rpFailed')}
  BY DEF RpAnswer, kid
<1> QED BY <1>1, <1>2 DEF TypeOK, RpIdle

\* Every step keeps the shape of the state.
LEMMA TypeStep == TypeOK /\ [Next]_vars => TypeOK'
<1> SUFFICES ASSUME TypeOK, [Next]_vars PROVE TypeOK'
  OBVIOUS
<1> USE DEF caches, cleaner, client
<1>1. CASE \E a \in Algs : SignCached(a)
  BY <1>1 DEF TypeOK, SignCached
<1>2. CASE \E a \in Algs, p \in Requests : SignRead(p, a)
  <2> PICK a \in Algs, p \in Requests : SignRead(p, a)
    BY <1>2
  <2>1. PICK k \in FirstOf(a) : req' = [req EXCEPT ![p] = [op |-> "sign", keys |-> {k}, rp |-> FALSE]]
    BY DEF SignRead
  <2>2. {k} \in SUBSET Keys
    BY DEF FirstOf, Of, TypeOK
  <2>3. req' \in [Requests -> Waiting]
    BY <2>1, <2>2, WaitingType DEF TypeOK
  <2> QED BY <2>3 DEF SignRead, TypeOK
<1>3. CASE \E p \in Requests : SignPut(p)
  <2> PICK p \in Requests : SignPut(p)
    BY <1>3
  <2>1. PICK k \in req[p].keys : latest' = [latest EXCEPT ![k.alg] = k] /\ signed' = signed \cup {k}
    BY DEF SignPut
  <2>2. k \in Keys
    BY DEF TypeOK, Waiting
  <2>3. req' \in [Requests -> Waiting]
    BY WaitingType DEF SignPut, Done, TypeOK
  <2>4. latest' \in [Algs -> Keys \cup {None}]
    BY <2>1, <2>2 DEF TypeOK, Keys
  <2> QED BY <2>1, <2>2, <2>3, <2>4 DEF SignPut, TypeOK
<1>4. CASE \E p \in Requests : VerifyPut(p)
  BY <1>4, WaitingType DEF VerifyPut, Done, TypeOK, Waiting
<1>5. CASE \E p \in Requests : CertsPut(p)
  <2> PICK p \in Requests : CertsPut(p)
    BY <1>5
  <2>1. req[p].keys \in SUBSET Keys
    BY DEF TypeOK, Waiting
  <2>2. req' \in [Requests -> Waiting]
    BY WaitingType DEF CertsPut, Done, TypeOK
  <2>3. CASE req[p].rp /\ RpAnswer(req[p].keys, FALSE)
    BY <2>1, <2>2, <2>3, AnswerType DEF CertsPut, TypeOK
  <2>4. CASE ~req[p].rp /\ UNCHANGED <<client, refused>>
    BY <2>1, <2>2, <2>4 DEF CertsPut, TypeOK
  <2> QED BY <2>3, <2>4 DEF CertsPut
<1>6. CASE \E k \in signed : TokensExpire(k)
  BY <1>6 DEF TypeOK, TokensExpire
<1>7. CASE \E k \in signed, p \in Requests : VerifyRead(p, k)
  <2> PICK k \in signed, p \in Requests : VerifyRead(p, k)
    BY <1>7
  <2>1. k \in Keys /\ {k} \in SUBSET Keys
    BY DEF TypeOK
  <2>2. req' \in [Requests -> Waiting]
    BY <2>1, WaitingType DEF VerifyRead, TypeOK
  <2>3. refused' \subseteq {"issuer", "client"} \X Keys
    BY <2>1 DEF VerifyRead, TypeOK
  <2> QED BY <2>2, <2>3 DEF VerifyRead, TypeOK
<1>8. CASE CacheExpires
  BY <1>8 DEF TypeOK, CacheExpires
<1>9. CASE \E r \in Rotators : RotateStep(r)
  <2> PICK r \in Rotators : RotateStep(r)
    BY <1>9
  <2>0. Steps \in Nat /\ rot[r] \in 0 .. 2 * Steps
    BY RotationOrder DEF Steps, TypeOK
  <2>1. rot' \in [Rotators -> 0 .. 2 * Steps]
    BY <2>0 DEF RotateStep, TypeOK
  <2>2. CASE SaveKey(r)
    <3>1. rot[r] + 1 \in 1 .. Len(Rotation)
      BY <2>0, <2>2 DEF SaveKey, Steps
    <3>2. [alg |-> Rotation[rot[r] + 1], at |-> clock + 1] \in Keys
      BY <2>2, <3>1, RotationOrder DEF SaveKey, Keys, TypeOK
    <3>3. jwks' \subseteq Keys
      BY <2>2, <3>2 DEF SaveKey, TypeOK
    <3>4. clock' \in 0 .. MaxKeys
      BY <2>2, RotationOrder DEF SaveKey, TypeOK
    <3> QED BY <2>1, <2>2, <3>3, <3>4 DEF SaveKey, RotateStep, TypeOK
  <2>3. CASE ClearLatest(r)
    BY <2>1, <2>3 DEF ClearLatest, RotateStep, TypeOK
  <2>4. CASE ClearCerts(r)
    BY <2>1, <2>4 DEF ClearCerts, RotateStep, TypeOK
  <2> QED BY <2>2, <2>3, <2>4 DEF RotateStep
<1>10. CASE \E r \in Rotators : RotateFails(r)
  BY <1>10, RotationOrder DEF TypeOK, RotateFails, Steps
<1>11. CASE CleanupRead
  BY <1>11 DEF TypeOK, CleanupRead, ToDelete
<1>12. CASE \E k \in todo : CleanupDelete(k)
  BY <1>12 DEF TypeOK, CleanupDelete
<1>13. CASE CleanupUncache
  BY <1>13 DEF TypeOK, CleanupUncache
<1>14. CASE NewJwksUri
  BY <1>14 DEF TypeOK, NewJwksUri
<1>15. CASE RpUpdate
  BY <1>15 DEF TypeOK, RpUpdate
<1>16. CASE RpFails
  <2>1. req' \in [Requests -> Waiting]
    <3>1. \A w \in Waiting : [w EXCEPT !.rp = FALSE] \in Waiting
      BY DEF Waiting
    <3> QED BY <1>16, <3>1 DEF RpFails, TypeOK
  <2> QED BY <1>16, <2>1, AnswerType DEF RpFails, TypeOK
<1>17. CASE CertsCached
  <2>1. PICK ks \in certs : RpAnswer(ks, FALSE)
    BY <1>17 DEF CertsCached
  <2>2. ks \in SUBSET Keys
    BY DEF TypeOK
  <2> QED BY <1>17, <2>1, <2>2, AnswerType DEF CertsCached, TypeOK
<1>18. CASE \E k \in signed : RpGet(k)
  <2> PICK k \in signed : RpGet(k)
    BY <1>18
  <2>1. k \in Keys
    BY DEF TypeOK
  <2>2. refused' \subseteq {"issuer", "client"} \X Keys
    BY <2>1 DEF RpGet, TypeOK
  <2> QED BY <2>1, <2>2 DEF RpGet, TypeOK
<1>19. CASE \E k \in rpRecent : RpForgets(k)
  BY <1>19 DEF TypeOK, RpForgets
<1>20. CASE \E p \in Requests, mine \in BOOLEAN : CertsRead(p, mine)
  <2> PICK p \in Requests, mine \in BOOLEAN : CertsRead(p, mine)
    BY <1>20
  <2>1. req' \in [Requests -> Waiting]
    BY WaitingType DEF CertsRead, TypeOK
  <2>2. rp' \in [wait : {"none", "ask", "answer", "dead"}, kid : Keys \cup {None}]
    BY DEF CertsRead, TypeOK
  <2> QED BY <2>1, <2>2 DEF CertsRead, TypeOK
<1>21. CASE RpPanic
  <2>1. req' \in [Requests -> Waiting]
    <3>1. \A w \in Waiting : [w EXCEPT !.rp = FALSE] \in Waiting
      BY DEF Waiting
    <3> QED BY <1>21, <3>1 DEF RpPanic, TypeOK
  <2>2. rp' \in [wait : {"none", "ask", "answer", "dead"}, kid : Keys \cup {None}]
    BY <1>21 DEF RpPanic, RpDead
  <2> QED BY <1>21, <2>1, <2>2 DEF RpPanic, TypeOK
<1>22. CASE UNCHANGED vars
  BY <1>22 DEF TypeOK, vars
<1> QED BY Actions, <1>1, <1>2, <1>3, <1>4, <1>5, <1>6, <1>7, <1>8, <1>9, <1>10, <1>11,
           <1>12, <1>13, <1>14, <1>15, <1>16, <1>17, <1>18, <1>19, <1>20, <1>21, <1>22

-----------------------------------------------------------------------------
\* Every step leaves the oldest keys the oldest: rotate_jwks adds younger ones, and
\* jwks_cleanup deletes keys that have an older one.
LEMMA OldestStep ==
    ASSUME TypeOK, TableInv, CleanInv, [Next]_vars
    PROVE  Oldest' = Oldest /\ TableInv' /\ CleanInv'
<1> USE DEF caches, cleaner, client
<1>a. ASSUME jwks' = jwks, clock' = clock, todo' \subseteq todo
      PROVE  Oldest' = Oldest /\ TableInv' /\ CleanInv'
  BY <1>a DEF Oldest, TableInv, CleanInv
<1>1. CASE \E r \in Rotators : RotateStep(r)
  <2> PICK r \in Rotators : RotateStep(r)
    BY <1>1
  <2>1. CASE SaveKey(r)
    <3> DEFINE new == [alg |-> Rotation[rot[r] + 1], at |-> clock + 1]
    <3>1. jwks' = jwks \cup {new} /\ clock' = clock + 1 /\ todo' = todo
      BY <2>1 DEF SaveKey, RotateStep
    <3>2. rot[r] + 1 \in 1 .. Len(Rotation)
      BY <2>1, RotationOrder DEF SaveKey, Steps, TypeOK
    <3>3. new.alg \in Algs /\ new.at = clock + 1
      BY <3>2, RotationOrder
    <3> HIDE DEF new
    <3>4. clock \in Nat /\ \A k \in jwks : k.at \in Nat /\ k.at <= clock
      BY RotationOrder DEF TypeOK, TableInv, Keys
    <3>5. PICK old \in jwks : old.alg = new.alg
      BY <3>3 DEF TableInv
    <3>6. Oldest' = Oldest
      BY <3>1, <3>3, <3>4, <3>5 DEF Oldest
    <3>7. TableInv'
      BY <3>1, <3>3, <3>4 DEF TableInv
    <3>8. CleanInv'
      BY <3>1 DEF CleanInv
    <3> QED BY <3>6, <3>7, <3>8
  <2>2. CASE ClearLatest(r)
    BY <1>a, <2>2 DEF ClearLatest, RotateStep
  <2>3. CASE ClearCerts(r)
    BY <1>a, <2>3 DEF ClearCerts, RotateStep
  <2> QED BY <2>1, <2>2, <2>3 DEF RotateStep
<1>2. CASE CleanupRead
  <2>1. jwks' = jwks /\ clock' = clock /\ \E t \in 0 .. clock : todo' = ToDelete(t)
    BY <1>2 DEF CleanupRead
  <2>2. CleanInv'
    BY <2>1 DEF CleanInv, ToDelete, Of
  <2> QED BY <2>1, <2>2 DEF Oldest, TableInv
<1>3. CASE \E k \in todo : CleanupDelete(k)
  <2> PICK k \in todo : CleanupDelete(k)
    BY <1>3
  <2>1. CASE jwks' = jwks
    BY <1>a, <2>1 DEF CleanupDelete
  <2>2. CASE jwks' = jwks \ {k}
    <3>1. clock' = clock /\ todo' = todo \ {k}
      BY DEF CleanupDelete
    <3>2. PICK j \in jwks : j.alg = k.alg /\ j.at < k.at
      BY DEF CleanInv
    <3>3. j \in jwks' /\ \A x \in jwks \cup todo : x.at \in Nat
      BY <2>2, <3>2 DEF TypeOK, Keys
    <3>4. Oldest' = Oldest
      BY <2>2, <3>2, <3>3 DEF Oldest
    <3>5. TableInv'
      BY <2>2, <3>1, <3>2, <3>3 DEF TableInv
    <3>6. CleanInv'
      <4> SUFFICES ASSUME NEW x \in todo
                   PROVE  \E y \in jwks' : y.alg = x.alg /\ y.at < x.at
        BY <3>1 DEF CleanInv
      <4>1. PICK y \in jwks : y.alg = x.alg /\ y.at < x.at
        BY DEF CleanInv
      <4>2. CASE y # k
        BY <2>2, <4>1, <4>2
      <4>3. CASE y = k
        BY <3>2, <3>3, <4>1, <4>3
      <4> QED BY <4>2, <4>3
    <3> QED BY <3>4, <3>5, <3>6
  <2> QED BY <2>1, <2>2 DEF CleanupDelete
<1>4. CASE ~(\E r \in Rotators : RotateStep(r)) /\ ~CleanupRead /\ ~(\E k \in todo : CleanupDelete(k))
  <2>1. jwks' = jwks /\ clock' = clock /\ todo' = todo
    BY <1>4, Actions DEF SignCached, SignRead, SignPut, VerifyPut, CertsPut, TokensExpire,
       VerifyRead, CacheExpires, RotateFails, CleanupUncache, NewJwksUri, RpUpdate, RpFails, RpPanic,
       CertsCached, RpGet, RpForgets, CertsRead, vars
  <2> QED BY <1>a, <2>1
<1> QED BY <1>1, <1>2, <1>3, <1>4

-----------------------------------------------------------------------------
\* What the end of a lookup of the relying party leaves, when it has got a list with
\* all of the oldest keys, or has not reached the issuer
LEMMA AnswerStep ==
    ASSUME ClientInv, NEW ks, NEW f \in BOOLEAN, RpAnswer(ks, f),
           ~f => Oldest \subseteq ks, f => ks = rpKeys, Oldest' = Oldest
    PROVE  ClientInv'
<1> DEFINE kid == IF rp.kid = None THEN {} ELSE {rp.kid}
<1>1. kid \subseteq Oldest
  BY DEF ClientInv
<1> HIDE DEF kid
<1>2. /\ rpKeys' = ks /\ rp' = RpIdle
      /\ rpRecent' = rpRecent \cup kid
      /\ rpFailed' = IF f THEN rpFailed \cup kid ELSE rpFailed \ kid
      /\ refused' = refused \cup {<<"client", k>> : k \in kid \ (ks \cup rpFailed')}
  BY DEF RpAnswer, kid
<1>3. rp'.kid = None
  BY <1>2 DEF RpIdle
<1>4. kid \ (ks \cup rpFailed') = {}
  BY <1>1, <1>2
<1>5. refused' = {}
  BY <1>2, <1>4 DEF ClientInv
<1>6. rpRecent' \ rpFailed' \subseteq rpKeys'
  BY <1>1, <1>2 DEF ClientInv
<1> QED BY <1>1, <1>2, <1>3, <1>5, <1>6 DEF ClientInv

\* The step of each action, given that the oldest keys are the same after it
LEMMA InvStep == IInv /\ [Next]_vars => IInv'
<1> SUFFICES ASSUME IInv, [Next]_vars PROVE IInv'
  OBVIOUS
<1>t. TypeOK /\ TypeOK'
  BY TypeStep DEF IInv
<1>o. Oldest' = Oldest /\ TableInv' /\ CleanInv'
  BY OldestStep DEF IInv
<1>i. SignInv /\ ListInv /\ ClientInv /\ Oldest \subseteq jwks
  BY DEF IInv, Oldest
<1> SUFFICES SignInv' /\ ListInv' /\ ClientInv'
  BY <1>t, <1>o DEF IInv
<1> USE DEF caches, cleaner, client
<1>1. CASE \E a \in Algs : SignCached(a)
  <2> PICK a \in Algs : SignCached(a)
    BY <1>1
  <2>1. latest[a] \in Oldest
    BY <1>i DEF SignCached, SignInv
  <2> QED BY <1>o, <1>i, <2>1 DEF SignCached, SignInv, ListInv, ClientInv
<1>2. CASE \E a \in Algs, p \in Requests : SignRead(p, a)
  <2> PICK a \in Algs, p \in Requests : SignRead(p, a)
    BY <1>2
  <2>1. PICK k \in FirstOf(a) : req' = [req EXCEPT ![p] = [op |-> "sign", keys |-> {k}, rp |-> FALSE]]
    BY DEF SignRead
  <2>2. k \in Oldest
    BY DEF FirstOf, Of, Oldest
  <2>3. \A q \in Requests : req'[q] = IF q = p THEN [op |-> "sign", keys |-> {k}, rp |-> FALSE] ELSE req[q]
    BY <2>1, <1>t DEF TypeOK
  <2> QED BY <1>o, <1>i, <2>2, <2>3 DEF SignRead, SignInv, ListInv, ClientInv
<1>3. CASE \E p \in Requests : SignPut(p)
  <2> PICK p \in Requests : SignPut(p)
    BY <1>3
  <2>1. PICK k \in req[p].keys : latest' = [latest EXCEPT ![k.alg] = k] /\ signed' = signed \cup {k}
    BY DEF SignPut
  <2>2. k \in Oldest
    BY <1>i, <2>1 DEF SignPut, SignInv
  <2>3. \A q \in Requests : req'[q] = IF q = p THEN NoRequest ELSE req[q]
    BY <1>t DEF SignPut, Done, TypeOK
  <2>4. \A a \in Algs : latest'[a] \in Oldest \cup {None}
    BY <1>t, <1>i, <2>1, <2>2 DEF TypeOK, SignInv
  <2> QED BY <1>o, <1>i, <2>1, <2>2, <2>3, <2>4 DEF SignPut, SignInv, ListInv, ClientInv, NoRequest
<1>4. CASE \E p \in Requests : VerifyPut(p)
  <2> PICK p \in Requests : VerifyPut(p)
    BY <1>4
  <2>1. \A q \in Requests : req'[q] = IF q = p THEN NoRequest ELSE req[q]
    BY <1>t DEF VerifyPut, Done, TypeOK
  <2> QED BY <1>o, <1>i, <2>1 DEF VerifyPut, SignInv, ListInv, ClientInv, NoRequest
<1>5. CASE \E p \in Requests : CertsPut(p)
  <2> PICK p \in Requests : CertsPut(p)
    BY <1>5
  <2>1. Oldest \subseteq req[p].keys
    BY <1>i DEF CertsPut, ListInv
  <2>2. \A q \in Requests : req'[q] = IF q = p THEN NoRequest ELSE req[q]
    BY <1>t DEF CertsPut, Done, TypeOK
  <2>3. SignInv' /\ ListInv'
    BY <1>o, <1>i, <2>1, <2>2 DEF CertsPut, SignInv, ListInv, NoRequest
  <2>4. CASE req[p].rp /\ RpAnswer(req[p].keys, FALSE)
    BY <1>o, <1>i, <2>1, <2>3, <2>4, AnswerStep
  <2>5. CASE ~req[p].rp /\ UNCHANGED <<client, refused>>
    BY <1>o, <1>i, <2>3, <2>5 DEF ClientInv
  <2> QED BY <2>4, <2>5 DEF CertsPut
<1>6. CASE \E k \in signed : TokensExpire(k)
  BY <1>6, <1>o, <1>i DEF TokensExpire, SignInv, ListInv, ClientInv
<1>7. CASE \E k \in signed, p \in Requests : VerifyRead(p, k)
  <2> PICK k \in signed, p \in Requests : VerifyRead(p, k)
    BY <1>7
  <2>1. k \in jwks
    BY <1>i DEF SignInv
  <2>2. refused' = refused /\ req' = [req EXCEPT ![p] = [op |-> "find", keys |-> {k}, rp |-> FALSE]]
    BY <2>1 DEF VerifyRead
  <2>3. \A q \in Requests : req'[q] = IF q = p THEN [op |-> "find", keys |-> {k}, rp |-> FALSE] ELSE req[q]
    BY <1>t, <2>2 DEF TypeOK
  <2> QED BY <1>o, <1>i, <2>2, <2>3 DEF VerifyRead, SignInv, ListInv, ClientInv
<1>8. CASE CacheExpires
  BY <1>8, <1>t, <1>o, <1>i DEF CacheExpires, SignInv, ListInv, ClientInv, TypeOK
<1>9. CASE \E r \in Rotators : RotateStep(r)
  <2> PICK r \in Rotators : RotateStep(r)
    BY <1>9
  <2>1. /\ signed' = signed /\ req' = req /\ certs' \subseteq certs
        /\ \A a \in Algs : latest'[a] \in {latest[a], None}
        /\ UNCHANGED <<client, refused>>
    BY <1>t DEF RotateStep, SaveKey, ClearLatest, ClearCerts, TypeOK
  <2> QED BY <1>o, <1>i, <2>1 DEF SignInv, ListInv, ClientInv
<1>10. CASE \/ \E r \in Rotators : RotateFails(r)
            \/ CleanupRead \/ CleanupUncache \/ NewJwksUri
            \/ \E k \in todo : CleanupDelete(k)
  <2>1. UNCHANGED <<signed, latest, req, certs, rp, rpRecent, rpFailed, rpKeys, refused>>
    BY <1>10 DEF RotateFails, CleanupRead, CleanupUncache, CleanupDelete, NewJwksUri
  <2> QED BY <1>o, <1>i, <2>1 DEF SignInv, ListInv, ClientInv
<1>11. CASE RpUpdate
  BY <1>11, <1>o, <1>i DEF RpUpdate, SignInv, ListInv, ClientInv
<1>12. CASE RpFails
  <2>1. ClientInv'
    BY <1>12, <1>o, <1>i, AnswerStep DEF RpFails
  <2>2. \A w \in Waiting : [w EXCEPT !.rp = FALSE].op = w.op /\ [w EXCEPT !.rp = FALSE].keys = w.keys
    BY DEF Waiting
  <2>3. \A p \in Requests : req'[p].op = req[p].op /\ req'[p].keys = req[p].keys
    BY <1>12, <1>t, <2>2 DEF RpFails, TypeOK
  <2> QED BY <1>12, <1>o, <1>i, <2>1, <2>3 DEF RpFails, SignInv, ListInv
<1>13. CASE CertsCached
  <2>1. PICK ks \in certs : RpAnswer(ks, FALSE)
    BY <1>13 DEF CertsCached
  <2>2. Oldest \subseteq ks
    BY <1>i DEF ListInv
  <2>3. ClientInv'
    BY <1>o, <1>i, <2>1, <2>2, AnswerStep
  <2> QED BY <1>13, <1>o, <1>i, <2>3 DEF CertsCached, SignInv, ListInv
<1>14. CASE \E k \in signed : RpGet(k)
  <2> PICK k \in signed : RpGet(k)
    BY <1>14
  <2>1. k \in Oldest
    BY <1>i DEF SignInv
  <2>2. SignInv' /\ ListInv'
    BY <1>o, <1>i DEF RpGet, SignInv, ListInv
  <2>3. CASE k \in rpRecent
    <3>1. k \in rpFailed
      BY <1>i, <2>3 DEF RpGet, ClientInv
    <3>2. {k} \ rpFailed = {}
      BY <3>1
    <3>3. refused' = {} /\ UNCHANGED client
      BY <1>i, <2>3, <3>2 DEF RpGet, ClientInv
    <3> QED BY <1>o, <1>i, <2>2, <3>3 DEF ClientInv
  <2>4. CASE k \notin rpRecent /\ ~rpUri
    BY <1>o, <1>i, <2>1, <2>2, <2>4 DEF RpGet, ClientInv
  <2>5. CASE k \notin rpRecent /\ rpUri
    <3>1. rp' = [wait |-> "ask", kid |-> k] /\ UNCHANGED <<rpKeys, rpRecent, rpFailed, refused>>
      BY <2>5 DEF RpGet
    <3>2. rp'.kid = k
      BY <3>1
    <3> QED BY <1>o, <1>i, <2>1, <2>2, <3>1, <3>2 DEF ClientInv
  <2> QED BY <2>3, <2>4, <2>5
<1>15. CASE \E k \in rpRecent : RpForgets(k)
  BY <1>15, <1>o, <1>i DEF RpForgets, SignInv, ListInv, ClientInv
<1>16. CASE \E p \in Requests, mine \in BOOLEAN : CertsRead(p, mine)
  <2> PICK p \in Requests, mine \in BOOLEAN : CertsRead(p, mine)
    BY <1>16
  <2>1. \A q \in Requests : req'[q] = IF q = p THEN [op |-> "certs", keys |-> jwks, rp |-> mine] ELSE req[q]
    BY <1>t DEF CertsRead, TypeOK
  <2>2. rp'.kid = rp.kid
    <3>1. rp \in [wait : {"none", "ask", "answer", "dead"}, kid : Keys \cup {None}]
      BY <1>t DEF TypeOK
    <3>2. [rp EXCEPT !.wait = "answer"].kid = rp.kid
      BY <3>1
    <3> QED BY <3>2 DEF CertsRead
  <2> QED BY <1>o, <1>i, <2>1, <2>2 DEF CertsRead, SignInv, ListInv, ClientInv
<1>17. CASE RpPanic
  <2>1. ClientInv'
    BY <1>17, <1>i DEF RpPanic, RpDead, ClientInv
  <2>2. \A w \in Waiting : [w EXCEPT !.rp = FALSE].op = w.op /\ [w EXCEPT !.rp = FALSE].keys = w.keys
    BY DEF Waiting
  <2>3. \A p \in Requests : req'[p].op = req[p].op /\ req'[p].keys = req[p].keys
    BY <1>17, <1>t, <2>2 DEF RpPanic, TypeOK
  <2> QED BY <1>17, <1>o, <1>i, <2>1, <2>3 DEF RpPanic, SignInv, ListInv
<1>18. CASE UNCHANGED vars
  BY <1>18, <1>o, <1>i DEF vars, SignInv, ListInv, ClientInv
<1> QED BY Actions, <1>1, <1>2, <1>3, <1>4, <1>5, <1>6, <1>7, <1>8, <1>9, <1>10, <1>11,
           <1>12, <1>13, <1>14, <1>15, <1>16, <1>17, <1>18

-----------------------------------------------------------------------------
\* The invariant holds of the keys that migrate_init_prod has created.
LEMMA InvInit == Init => IInv
<1> SUFFICES ASSUME Init PROVE IInv
  OBVIOUS
<1>0. Len(Rotation) \in Nat /\ Len(Rotation) <= MaxKeys /\ MaxKeys \in Nat
  BY RotationOrder
<1>1. TypeOK
  <2>1. req \in [Requests -> Waiting]
    BY WaitingType DEF Init
  <2>2. rot \in [Rotators -> 0 .. 2 * Steps]
    BY <1>0 DEF Init, Steps
  <2>3. jwks \subseteq Keys /\ clock \in 0 .. MaxKeys
    BY <1>0, FirstKeysType DEF Init
  <2>4. latest \in [Algs -> Keys \cup {None}]
    BY DEF Init
  <2>5. rp \in [wait : {"none", "ask", "answer", "dead"}, kid : Keys \cup {None}]
    BY DEF Init, RpIdle
  <2> QED BY <2>1, <2>2, <2>3, <2>4, <2>5 DEF Init, TypeOK
<1>2. TableInv
  <2>1. \A k \in FirstKeys : k.at <= Len(Rotation)
    BY <1>0 DEF FirstKeys
  <2>2. \A a \in Algs : \E k \in FirstKeys : k.alg = a
    <3> TAKE a \in Algs
    <3>1. PICK i \in 1 .. Len(Rotation) : Rotation[i] = a
      BY RotationOrder
    <3>2. [alg |-> Rotation[i], at |-> i] \in FirstKeys
      BY DEF FirstKeys
    <3> QED BY <3>1, <3>2
  <2> QED BY <2>1, <2>2 DEF Init, TableInv
<1>3. SignInv /\ ListInv
  BY DEF Init, SignInv, ListInv, NoRequest
<1> QED BY <1>1, <1>2, <1>3 DEF Init, IInv, CleanInv, ClientInv, RpIdle

\* The invariant holds in every behaviour.
LEMMA Invariance == Spec => []IInv
BY InvInit, InvStep, PTL DEF Spec

\* The state of the keys, their caches, rotate_jwks, jwks_cleanup and the handler of
\* rauthy-client keeps its shape.
THEOREM TypeCorrect == Spec => []TypeOK
<1>1. IInv => TypeOK
  BY DEF IInv
<1> QED BY <1>1, Invariance, PTL

\* find_latest never panics: jwks_cleanup leaves a key of every algorithm, whatever
\* rotations overlap, fail or are still running.
THEOREM KeyForEveryAlg == Spec => []SigningKeyThere
<1>1. IInv => SigningKeyThere
  BY DEF IInv, TableInv, SigningKeyThere, Of
<1> QED BY <1>1, Invariance, PTL

\* No valid token is refused for want of its key: not by validate_token, and by
\* rauthy-client only after a lookup that did not reach the issuer.
THEOREM NoValidTokenRefused == Spec => []ValidTokensAccepted
<1>1. IInv => ValidTokensAccepted
  BY DEF IInv, ClientInv, ValidTokensAccepted
<1> QED BY <1>1, Invariance, PTL

\* Every list of public keys that find_pk has cached, or read and is about to cache,
\* has the keys of all valid tokens and the cached signing keys of find_latest.
THEOREM Published == Spec => []SignersPublished
<1>1. IInv => SignersPublished
  <2> SUFFICES ASSUME IInv PROVE SignersPublished
    OBVIOUS
  <2>1. signed \cup {latest[a] : a \in {b \in Algs : latest[b] # None}} \subseteq Oldest
    BY DEF IInv, SignInv
  <2>2. \A ks \in {req[p].keys : p \in {q \in Requests : req[q].op = "certs"}} \cup certs :
           Oldest \subseteq ks
    BY DEF IInv, ListInv
  <2> QED BY <2>1, <2>2 DEF SignersPublished
<1> QED BY <1>1, Invariance, PTL

-----------------------------------------------------------------------------
\* A step of Jwks is a step of SigningKeys, or changes neither the keys nor which of
\* them have valid tokens.
LEMMA StepImplements == IInv /\ [Next]_vars => [Abstract!Step]_(Abstract!keyVars)
<1> SUFFICES ASSUME IInv, [Next]_vars PROVE Abstract!Step \/ UNCHANGED <<jwks, signed>>
  BY DEF Abstract!keyVars
<1>i. TypeOK /\ CleanInv /\ SignInv /\ Oldest \subseteq jwks /\ jwks \subseteq Keys
  BY DEF IInv, TypeOK, Oldest
<1>1. CASE \E a \in Algs : SignCached(a)
  <2> PICK a \in Algs : SignCached(a)
    BY <1>1
  <2>1. latest[a] \in jwks /\ signed' = signed \cup {latest[a]} /\ jwks' = jwks
    BY <1>i DEF SignCached, SignInv
  <2> QED BY <1>i, <2>1 DEF Abstract!Step, Abstract!Sign
<1>2. CASE \E p \in Requests : SignPut(p)
  <2> PICK p \in Requests : SignPut(p)
    BY <1>2
  <2>1. PICK k \in req[p].keys : signed' = signed \cup {k}
    BY DEF SignPut
  <2>2. k \in jwks /\ jwks' = jwks
    BY <1>i, <2>1 DEF SignPut, SignInv
  <2> QED BY <1>i, <2>1, <2>2 DEF Abstract!Step, Abstract!Sign
<1>3. CASE \E k \in signed : TokensExpire(k)
  BY <1>3, <1>i DEF TokensExpire, TypeOK, Abstract!Step, Abstract!Lapse
<1>4. CASE \E r \in Rotators : RotateStep(r)
  <2> PICK r \in Rotators : RotateStep(r)
    BY <1>4
  <2>1. CASE SaveKey(r)
    <3> DEFINE new == [alg |-> Rotation[rot[r] + 1], at |-> clock + 1]
    <3>1. jwks' = jwks \cup {new} /\ signed' = signed
      BY <2>1 DEF SaveKey, RotateStep
    <3>2. new \in jwks'
      BY <3>1
    <3>3. TypeOK'
      BY TypeStep, <1>i
    <3>4. new \in Keys
      BY <3>2, <3>3 DEF TypeOK
    <3> HIDE DEF new
    <3> QED BY <3>1, <3>4 DEF Abstract!Step, Abstract!Add
  <2>2. CASE ClearLatest(r) \/ ClearCerts(r)
    BY <2>2 DEF ClearLatest, ClearCerts, RotateStep
  <2> QED BY <2>1, <2>2 DEF RotateStep
<1>5. CASE \E k \in todo : CleanupDelete(k)
  <2> PICK k \in todo : CleanupDelete(k)
    BY <1>5
  <2>1. CASE jwks' = jwks
    BY <2>1 DEF CleanupDelete
  <2>2. CASE jwks' = jwks \ {k}
    <3>1. PICK j \in jwks : j.alg = k.alg /\ j.at < k.at
      BY <1>i DEF CleanInv
    <3>2. k \in Keys /\ j \in Keys
      BY <1>i DEF TypeOK
    <3>3. k \notin Oldest
      BY <3>1, <3>2 DEF Oldest, Keys
    <3>4. k \notin signed /\ signed' = signed
      BY <1>i, <3>3 DEF CleanupDelete, SignInv
    <3> QED BY <2>2, <3>2, <3>4 DEF Abstract!Step, Abstract!Retire
  <2> QED BY <2>1, <2>2 DEF CleanupDelete
<1>6. CASE /\ ~(\E a \in Algs : SignCached(a)) /\ ~(\E p \in Requests : SignPut(p))
           /\ ~(\E k \in signed : TokensExpire(k)) /\ ~(\E r \in Rotators : RotateStep(r))
           /\ ~(\E k \in todo : CleanupDelete(k))
  BY <1>6, Actions DEF SignRead, VerifyPut, CertsPut, VerifyRead, CacheExpires, RotateFails,
     CleanupRead, CleanupUncache, NewJwksUri, RpUpdate, RpFails, RpPanic, CertsCached, RpGet, RpForgets,
     CertsRead, vars
<1> QED BY <1>1, <1>2, <1>3, <1>4, <1>5, <1>6

\* The signing keys of rauthy implement SigningKeys: tokens are signed with keys that
\* are in the table, and jwks_cleanup deletes none that a valid token was signed with.
THEOREM Implements == Spec => KeepsPromise
<1>1. Init => Abstract!Start
  BY FirstKeysType DEF Init, Abstract!Start
<1> QED BY <1>1, Invariance, StepImplements, PTL DEF Spec, KeepsPromise, Abstract!Promise

-----------------------------------------------------------------------------
(***************************************************************************)
(* Startup.  Nodes without HA_MODE are alone, and only they restore; so a  *)
(* step of a restore has the files for itself, and connected nodes share   *)
(* a database that is whole.  There a key stands for everything that       *)
(* migrate_init_prod does before it saves one, in every copy of a database *)
(* too.  MIGRATE_DB_FROM runs alone as well: each table has a place in the *)
(* order of the copy, after the tables its rows belong to.                 *)
(***************************************************************************)

\* The steps of check_restore_backup once a backup has been fetched, and those with a
\* connection to the database
Restoring == {"keep", "keeping", "remove", "switch", "copying", "open", "back", "clean"}
Copied == {"lockout", "upsert", "serving", "vacuum", "push"}
Initialised == {"api_key", "api_secret", "save", "migrate", "delete", "insert"} \cup Copied
Connected == {"version", "init", "client", "users", "admin"} \cup Initialised
Phases == {"off", "restore", "connect"} \cup Restoring \cup Connected

StartOptions == [restore : {"none", "file", "s3"}, from : {"none", "sqlite", "postgres"}]
Torns == {"keeping", "copying", "open", "back"}

StateInv ==
    /\ StartupTypeOK /\ env \in Deployments
    /\ pc \in [Nodes -> Phases] /\ opt \in [Nodes -> StartOptions]
    /\ orig \in Databases \cup {Missing}

\* Where the next key to save and the next table to copy are
Placed(n) ==
    /\ pc[n] = "save" => at[n] \in 1 .. Len(KeyOrder)
    /\ pc[n] \in {"delete", "insert"} => Migrates(n) /\ at[n] \in 1 .. Len(Order(opt[n].from))
    /\ pc[n] \notin {"save", "delete", "insert"} => at[n] = 1

PlaceInv == \A n \in Nodes : Placed(n)

\* A node that restores a backup is alone, and so is one without HA_MODE
AloneInv ==
    /\ \A n \in Nodes : pc[n] \in Restoring => env.type = "sqlite" /\ ~env.ha
    /\ \A n \in Nodes : pc[n] \in Connected => ~(env.ha /\ env.type = "sqlite") /\ Whole(db)
    /\ env.ha /\ env.type = "sqlite" => backups = {} /\ s3 = {}
    /\ ~env.ha => \A n, m \in Nodes : pc[n] # "off" /\ pc[m] # "off" => n = m

\* A database with a key has no development credentials, wherever it is kept
Safe(d) == Whole(d) =>
    /\ d.keys # {} => d.dev = {} /\ d.admin # "builtin"
    /\ d.moved => d.admin # "builtin"

Cleared(n) ==
    /\ pc[n] = "users" => "init_client" \notin db.dev
    /\ pc[n] = "admin" => db.dev = {}
    /\ pc[n] \in Initialised => db.dev = {} /\ db.admin # "builtin"

CredInv ==
    /\ Safe(db) /\ Safe(bkp) /\ Safe(tmp)
    /\ \A d \in backups \cup s3 : Safe(d)
    /\ \A n \in Nodes : Cleared(n)

OrigInv ==
    faults \cap Torns = {} =>
        /\ (\A n \in Nodes : pc[n] # "keeping") => orig \in {Missing, bkp}
        /\ \A n \in Nodes : pc[n] = "keeping" => orig \in {Missing, db}
        /\ \A n \in Nodes : pc[n] = "clean" => orig = Missing
        /\ db = Torn /\ (\A n \in Nodes : pc[n] \notin {"copying", "open", "back"}) => orig = Missing

\* What MIGRATE_DB_FROM has copied so far
CopiedTo(n, k) ==
    /\ \A i \in 1 .. k : db.tables[Order(opt[n].from)[i].table] = "src"
    /\ \A i \in 1 .. k : Order(opt[n].from)[i].table = "jwks" => db.keys = KeyAlgs

\* The rows of users, the fifth table, have been deleted, and the devices with them.
PastUsers(n) == (pc[n] = "delete" /\ at[n] > 5) \/ (pc[n] = "insert" /\ at[n] >= 5) \/ pc[n] \in Copied
NoDevices(d) == \A t \in NotCopied : d.tables[t] = "empty"

CopyOk(n) ==
    Migrates(n) =>
        /\ PastUsers(n) => NoDevices(db)
        /\ pc[n] \in {"delete", "insert"} => CopiedTo(n, at[n] - 1)
        /\ pc[n] \in Copied => CopiedTo(n, Len(Order(opt[n].from)))
        /\ pc[n] \in Copied \ {"lockout"} => db.rauthy \/ "lockout" \in faults

CopyInv == \A n \in Nodes : CopyOk(n)

SInv == StateInv /\ PlaceInv /\ AloneInv /\ CredInv /\ OrigInv /\ CopyInv

-----------------------------------------------------------------------------
\* Databases and what the steps make of them

\* A new database is one, with all its columns.
LEMMA FreshType == Fresh \in Databases /\ Whole(Fresh)
<1>1. Fresh \in Databases
  BY DEF Fresh, Databases
<1> QED BY <1>1, FileKinds DEF Whole

\* A database is not a missing or torn file.
LEMMA WholeDatabase == ASSUME NEW d \in Databases PROVE Whole(d) /\ d # Missing /\ d # Torn
BY FileKinds DEF Whole

\* A file that is whole is a database.
LEMMA WholeType == ASSUME StateInv, NEW d \in {db, bkp, tmp} \cup backups \cup s3, Whole(d) PROVE d \in Databases
BY DEF StateInv, StartupTypeOK, Whole

\* Touching rows keeps the tables typed.
LEMMA TouchedType ==
    ASSUME NEW d \in Databases, NEW ts
    PROVE  Touched(d, ts) \in [Tables -> {"own", "empty", "part", "src"}]
<1>1. d.tables \in [Tables -> {"own", "empty", "part", "src"}]
  BY DEF Databases
<1> QED BY <1>1 DEF Touched

\* DELETE FROM a table leaves a database, brings no development credential back and empties
\* the tables that belong to it.
LEMMA EmptiedType ==
    ASSUME NEW d \in Databases, NEW t
    PROVE  /\ Emptied(d, t) \in Databases
           /\ Emptied(d, t).dev \subseteq d.dev
           /\ d.admin # "builtin" => Emptied(d, t).admin # "builtin"
           /\ Emptied(d, t).keys # {} => d.keys # {}
           /\ Emptied(d, t).moved => d.moved
           /\ Emptied(d, t).keys = IF t = "jwks" THEN {} ELSE d.keys
           /\ \A u \in Tables : Emptied(d, t).tables[u] =
                 IF u = t \/ u \in OwnedBy(t) THEN "empty"
                 ELSE IF t = "auth_providers" /\ u = "users" THEN Touched(d, {u})[u] ELSE d.tables[u]
<1> DEFINE e == Emptied(d, t)
           tb == [u \in Tables |-> IF u = t \/ u \in OwnedBy(t) THEN "empty"
                            ELSE IF t = "auth_providers" /\ u = "users" THEN Touched(d, {u})[u]
                            ELSE d.tables[u]]
           dv == IF t = "clients" THEN d.dev \ {"init_client"}
                 ELSE IF t = "users" THEN d.dev \ {"dev_users"} ELSE d.dev
<1>1. d.tables \in [Tables -> {"own", "empty", "part", "src"}]
  BY DEF Databases
<1>2. \A u \in Tables : Touched(d, {u})[u] \in {"own", "empty", "part", "src"}
  BY TouchedType
<1>3. tb \in [Tables -> {"own", "empty", "part", "src"}]
  BY <1>1, <1>2
<1>4. dv \subseteq d.dev
  OBVIOUS
<1> DEFINE ks == IF t = "jwks" THEN {} ELSE d.keys
           ad == IF t = "users" THEN "none" ELSE d.admin
           mv == d.moved /\ t # "users"
           ak == IF t = "api_keys" THEN "none" ELSE d.apiKey
           ry == d.rauthy /\ t # "clients"
           vs == IF t = "config" THEN "none" ELSE d.version
<1>5. e = [tables |-> tb, keys |-> ks, dev |-> dv, admin |-> ad, moved |-> mv, apiKey |-> ak,
           rauthy |-> ry, version |-> vs]
  BY Zenon DEF Emptied
<1>b. ks \subseteq KeyAlgs /\ ad \in {"builtin", "set", "none"} /\ ak \in {"none", "created", "known"}
      /\ vs \in {"none", "outdated", "app"} /\ dv \in SUBSET {"init_client", "dev_users"}
  BY DEF Databases
<1>c. mv \in BOOLEAN /\ ry \in BOOLEAN
  OBVIOUS
<1> HIDE DEF e, tb, dv, ks, ad, mv, ak, ry, vs
<1>6. e \in Databases
  BY <1>3, <1>b, <1>c, <1>5 DEF Databases
<1>7. e.tables = tb /\ e.dev = dv /\ e.keys = ks /\ e.admin = ad /\ e.moved = mv
  BY <1>5
<1>8. (e.moved => d.moved) /\ (d.admin # "builtin" => e.admin # "builtin")
  BY <1>7 DEF mv, ad
<1>9. e.keys = (IF t = "jwks" THEN {} ELSE d.keys) /\ e.dev \subseteq d.dev
  BY <1>4, <1>7 DEF ks
<1>10. \A u \in Tables : e.tables[u] = IF u = t \/ u \in OwnedBy(t) THEN "empty"
                 ELSE IF t = "auth_providers" /\ u = "users" THEN Touched(d, {u})[u] ELSE d.tables[u]
  BY <1>7 DEF tb
<1> QED BY <1>6, <1>8, <1>9, <1>10 DEF e

\* The other tables keep their rows.
LEMMA EmptiedKeeps ==
    ASSUME NEW d \in Databases, NEW t, NEW u \in Tables, u # t, u \notin OwnedBy(t),
           t = "auth_providers" => u # "users"
    PROVE  Emptied(d, t).tables[u] = d.tables[u]
BY DEF Emptied

\* Inserting rows changes that one table; only jwks brings keys, only users an administrator.
LEMMA FilledType ==
    ASSUME NEW d \in Databases, NEW t \in Tables, NEW all \in BOOLEAN, env \in Deployments
    PROVE  /\ Filled(d, t, all) \in Databases
           /\ Filled(d, t, all).dev = d.dev
           /\ d.admin # "builtin" => Filled(d, t, all).admin # "builtin"
           /\ t # "jwks" => Filled(d, t, all).keys = d.keys
           /\ \A u \in Tables \ {t} : Filled(d, t, all).tables[u] = d.tables[u]
           /\ all => /\ Filled(d, t, all).tables[t] = "src"
                     /\ t = "jwks" => Filled(d, t, all).keys = KeyAlgs
<1>1. KeyOrder[1] \in KeyAlgs
  BY Bounds DEF KeyAlgs
<1>2. env.srcVersion \in {"outdated", "app"}
  BY Bounds
<1>3. d.tables \in [Tables -> {"own", "empty", "part", "src"}]
  BY DEF Databases
<1> DEFINE f == Filled(d, t, all)
           tb == [d.tables EXCEPT ![t] = IF all THEN "src" ELSE "part"]
           ks == IF t # "jwks" THEN d.keys ELSE IF all THEN KeyAlgs ELSE {KeyOrder[1]}
<1>4. tb \in [Tables -> {"own", "empty", "part", "src"}]
  BY <1>3
<1>5. ks \subseteq KeyAlgs
  BY <1>1 DEF Databases
<1> DEFINE ad == IF t = "users" THEN "set" ELSE d.admin
           ak == IF t = "api_keys" /\ env.srcKey THEN "known" ELSE d.apiKey
           vs == IF t = "config" THEN env.srcVersion ELSE d.version
<1>6. f = [d EXCEPT !.tables = tb, !.keys = ks, !.admin = ad, !.apiKey = ak, !.version = vs]
  BY Zenon DEF Filled
<1>7. ad \in {"builtin", "set", "none"} /\ ak \in {"none", "created", "known"}
      /\ vs \in {"none", "outdated", "app"}
  BY <1>2 DEF Databases
<1> HIDE DEF f, tb, ks, ad, ak, vs
<1>8. f \in Databases
  BY <1>4, <1>5, <1>6, <1>7 DEF Databases
<1>9. f.dev = d.dev /\ f.admin = ad /\ f.keys = ks /\ f.tables = tb
  BY <1>6 DEF Databases
<1>10. (d.admin # "builtin" => f.admin # "builtin") /\ (t # "jwks" => f.keys = d.keys)
  BY <1>9 DEF ad, ks
<1>11. \A u \in Tables \ {t} : f.tables[u] = d.tables[u]
  BY <1>3, <1>9 DEF tb
<1>12. all => f.tables[t] = "src" /\ (t = "jwks" => f.keys = KeyAlgs)
  BY <1>3, <1>9 DEF tb, ks
<1> QED BY <1>8, <1>9, <1>10, <1>11, <1>12 DEF f

-----------------------------------------------------------------------------
\* The place of each table in the order of the copy
Rank == [config |-> 1, api_keys |-> 2, auth_providers |-> 3, auth_provider_logos |-> 4,
         users |-> 5, passkeys |-> 6, clients |-> 7, clients_dyn |-> 8, client_logos |-> 9, colors |-> 10,
         groups |-> 11, jwks |-> 12, magic_links |-> 13, refresh_tokens |-> 14,
         roles |-> 15, scopes |-> 16, events |-> 17, user_attr_config |-> 18, user_attr_values |-> 19,
         users_values |-> 20, sessions |-> 21, recent_passwords |-> 22, webids |-> 23]

Entries == [table : DOMAIN Rank, upsert : BOOLEAN]
\* Tables one after the other, the first one with the number after k, the last one with number m
InPlace(s, k, m) ==
    s \in Seq(Entries) /\ k + Len(s) = m /\ \A i \in 1 .. Len(s) : Rank[s[i].table] = k + i

\* Two parts of the order, one after the other
LEMMA Joined ==
    ASSUME NEW s, NEW t, NEW k, NEW m, InPlace(s, 0, k), InPlace(t, k, m)
    PROVE  InPlace(s \o t, 0, m)
<1>1. s \in Seq(Entries) /\ t \in Seq(Entries) /\ k = Len(s) /\ m = k + Len(t)
  BY DEF InPlace
<1>2. s \o t \in Seq(Entries) /\ Len(s \o t) = Len(s) + Len(t)
  BY <1>1
<1>3. ASSUME NEW i \in 1 .. Len(s \o t) PROVE Rank[(s \o t)[i].table] = 0 + i
  <2>1. CASE i <= Len(s)
    <3>1. (s \o t)[i] = s[i] /\ i \in 1 .. Len(s)
      BY <1>1, <1>2, <2>1
    <3> QED BY <3>1 DEF InPlace
  <2>2. CASE i > Len(s)
    <3>1. (s \o t)[i] = t[i - Len(s)] /\ i - Len(s) \in 1 .. Len(t) /\ Len(s) \in Nat
      BY <1>1, <1>2, <2>2
    <3>2. Rank[t[i - Len(s)].table] = k + (i - Len(s))
      BY <3>1 DEF InPlace
    <3> QED BY <1>1, <3>1, <3>2
  <2> QED BY <1>1, <1>2, <2>1, <2>2
<1> QED BY <1>1, <1>2, <1>3 DEF InPlace

\* Every table has one of 23 places.
LEMMA RankType ==
   /\ DOMAIN Rank = {"config", "api_keys", "auth_providers", "auth_provider_logos", "users", "passkeys",
       "clients", "clients_dyn", "client_logos", "colors", "groups", "jwks", "magic_links", "refresh_tokens",
       "roles", "scopes", "events", "user_attr_config", "user_attr_values", "users_values", "sessions",
       "recent_passwords", "webids"}
   /\ Rank \in [DOMAIN Rank -> 1 .. 23]
BY DEF Rank

\* The parts of the order in which tables are read from SQLite are in place.
LEMMA SqliteParts ==
    /\ InPlace(SqliteProviders, 0, 4)
    /\ InPlace(SqliteUsers, 4, 6)
    /\ InPlace(SqliteClients, 6, 10)
    /\ InPlace(SqliteKeys, 10, 14)
    /\ InPlace(SqliteRoles, 14, 19)
    /\ InPlace(SqliteUserData, 19, 23)
<1>1. InPlace(SqliteProviders, 0, 4)
  <2>1. SqliteProviders \in Seq(Entries)
    BY RankType DEF SqliteProviders, Entries, Table
  <2> QED BY <2>1 DEF SqliteProviders, InPlace, Rank, Table
<1>2. InPlace(SqliteUsers, 4, 6)
  <2>1. SqliteUsers \in Seq(Entries)
    BY RankType DEF SqliteUsers, Entries, Table
  <2> QED BY <2>1 DEF SqliteUsers, InPlace, Rank, Table
<1>3. InPlace(SqliteClients, 6, 10)
  <2>1. SqliteClients \in Seq(Entries)
    BY RankType DEF SqliteClients, Entries, Table
  <2> QED BY <2>1 DEF SqliteClients, InPlace, Rank, Table
<1>4. InPlace(SqliteKeys, 10, 14)
  <2>1. SqliteKeys \in Seq(Entries)
    BY RankType DEF SqliteKeys, Entries, Table
  <2> QED BY <2>1 DEF SqliteKeys, InPlace, Rank, Table
<1>5. InPlace(SqliteRoles, 14, 19)
  <2>1. SqliteRoles \in Seq(Entries)
    BY RankType DEF SqliteRoles, Entries, Table
  <2> QED BY <2>1 DEF SqliteRoles, InPlace, Rank, Table
<1>6. InPlace(SqliteUserData, 19, 23)
  <2>1. SqliteUserData \in Seq(Entries)
    BY RankType DEF SqliteUserData, Entries, Table
  <2> QED BY <2>1 DEF SqliteUserData, InPlace, Rank, Table
<1> QED BY <1>1, <1>2, <1>3, <1>4, <1>5, <1>6

\* So are those for Postgres.
LEMMA PostgresParts ==
    /\ InPlace(PostgresProviders, 0, 4)
    /\ InPlace(PostgresUsers, 4, 6)
    /\ InPlace(PostgresClients, 6, 10)
    /\ InPlace(PostgresKeys, 10, 14)
    /\ InPlace(PostgresRoles, 14, 19)
    /\ InPlace(PostgresUserData, 19, 23)
<1>1. InPlace(PostgresProviders, 0, 4)
  <2>1. PostgresProviders \in Seq(Entries)
    BY RankType DEF PostgresProviders, Entries, Table, Upsert
  <2> QED BY <2>1 DEF PostgresProviders, InPlace, Rank, Table, Upsert
<1>2. InPlace(PostgresUsers, 4, 6)
  <2>1. PostgresUsers \in Seq(Entries)
    BY RankType DEF PostgresUsers, Entries, Table, Upsert
  <2> QED BY <2>1 DEF PostgresUsers, InPlace, Rank, Table, Upsert
<1>3. InPlace(PostgresClients, 6, 10)
  <2>1. PostgresClients \in Seq(Entries)
    BY RankType DEF PostgresClients, Entries, Table, Upsert
  <2> QED BY <2>1 DEF PostgresClients, InPlace, Rank, Table, Upsert
<1>4. InPlace(PostgresKeys, 10, 14)
  <2>1. PostgresKeys \in Seq(Entries)
    BY RankType DEF PostgresKeys, Entries, Table, Upsert
  <2> QED BY <2>1 DEF PostgresKeys, InPlace, Rank, Table, Upsert
<1>5. InPlace(PostgresRoles, 14, 19)
  <2>1. PostgresRoles \in Seq(Entries)
    BY RankType DEF PostgresRoles, Entries, Table, Upsert
  <2> QED BY <2>1 DEF PostgresRoles, InPlace, Rank, Table, Upsert
<1>6. InPlace(PostgresUserData, 19, 23)
  <2>1. PostgresUserData \in Seq(Entries)
    BY RankType DEF PostgresUserData, Entries, Table, Upsert
  <2> QED BY <2>1 DEF PostgresUserData, InPlace, Rank, Table, Upsert
<1> QED BY <1>1, <1>2, <1>3, <1>4, <1>5, <1>6

\* Both orders put every table in its place.
LEMMA OrderInPlace ==
    ASSUME NEW f \in {"sqlite", "postgres"}
    PROVE  InPlace(Order(f), 0, 23)
<1>1. CASE f = "sqlite"
  <2>1. InPlace(SqliteProviders \o SqliteUsers, 0, 6)
    BY SqliteParts, Joined, Zenon
  <2>2. InPlace(SqliteProviders \o SqliteUsers \o SqliteClients, 0, 10)
    BY SqliteParts, Joined, <2>1, Zenon
  <2>3. InPlace(SqliteProviders \o SqliteUsers \o SqliteClients \o SqliteKeys, 0, 14)
    BY SqliteParts, Joined, <2>2, Zenon
  <2>4. InPlace(SqliteProviders \o SqliteUsers \o SqliteClients \o SqliteKeys \o SqliteRoles, 0, 19)
    BY SqliteParts, Joined, <2>3, Zenon
  <2>5. InPlace(SqliteProviders \o SqliteUsers \o SqliteClients \o SqliteKeys \o SqliteRoles \o SqliteUserData, 0, 23)
    BY SqliteParts, Joined, <2>4, Zenon
  <2> QED BY <1>1, <2>5 DEF Order
<1>2. CASE f = "postgres"
  <2>1. InPlace(PostgresProviders \o PostgresUsers, 0, 6)
    BY PostgresParts, Joined, Zenon
  <2>2. InPlace(PostgresProviders \o PostgresUsers \o PostgresClients, 0, 10)
    BY PostgresParts, Joined, <2>1, Zenon
  <2>3. InPlace(PostgresProviders \o PostgresUsers \o PostgresClients \o PostgresKeys, 0, 14)
    BY PostgresParts, Joined, <2>2, Zenon
  <2>4. InPlace(PostgresProviders \o PostgresUsers \o PostgresClients \o PostgresKeys \o PostgresRoles, 0, 19)
    BY PostgresParts, Joined, <2>3, Zenon
  <2>5. InPlace(PostgresProviders \o PostgresUsers \o PostgresClients \o PostgresKeys \o PostgresRoles \o PostgresUserData, 0, 23)
    BY PostgresParts, Joined, <2>4, Zenon
  <2> QED BY <1>2, <2>5 DEF Order
<1> QED BY <1>1, <1>2

\* What a sequence in place has at each index
LEMMA InPlaceAt ==
    ASSUME NEW s, NEW m, InPlace(s, 0, m)
    PROVE  /\ Len(s) = m /\ DOMAIN s = 1 .. m
           /\ \A i \in 1 .. m : s[i].table \in DOMAIN Rank /\ Rank[s[i].table] = i
<1>1. s \in Seq(Entries) /\ Len(s) = m
  BY DEF InPlace
<1>2. m \in Nat /\ s \in [1 .. m -> Entries]
  BY <1>1
<1>3. ASSUME NEW x \in Entries PROVE x.table \in DOMAIN Rank
  BY DEF Entries
<1>4. ASSUME NEW i \in 1 .. m PROVE Rank[s[i].table] = i /\ s[i] \in Entries
  <2>1. Rank[s[i].table] = 0 + i
    BY <1>1 DEF InPlace
  <2> QED BY <1>2, <2>1
<1> QED BY <1>1, <1>2, <1>3, <1>4

\* The table at each place of either order
LEMMA OrderAt ==
    ASSUME NEW f \in {"sqlite", "postgres"}
    PROVE  /\ Len(Order(f)) = 23 /\ DOMAIN Order(f) = 1 .. 23
           /\ \A i \in 1 .. 23 : Order(f)[i].table \in DOMAIN Rank /\ Rank[Order(f)[i].table] = i
BY OrderInPlace, InPlaceAt, Zenon

\* No two tables share a place.
LEMMA RankInjective == \A a, b \in DOMAIN Rank : Rank[a] = Rank[b] => a = b
BY DEF Rank

\* Rows of a table are never taken along by the tables that come after it.
LEMMA OwnersFirst ==
    ASSUME NEW p \in DOMAIN Rank, NEW t \in OwnedBy(p) \cap DOMAIN Rank
    PROVE  Rank[p] < Rank[t]
BY DEF OwnedBy, Owned, Rank

\* The tables of one order are those of the other.
LEMMA TablesRanked == CopiedTables = DOMAIN Rank /\ Tables = DOMAIN Rank \cup NotCopied /\ NotCopied \cap DOMAIN Rank = {}
<1>1. DOMAIN Copies = 1 .. 23 /\ \A i \in 1 .. 23 : Copies[i].table \in DOMAIN Rank /\ Rank[Copies[i].table] = i
  BY OrderAt DEF Copies
<1>3. ASSUME NEW t \in DOMAIN Rank PROVE t \in CopiedTables
  <2>1. Rank[t] \in 1 .. 23
    BY RankType
  <2>2. Rank[Copies[Rank[t]].table] = Rank[t] /\ Copies[Rank[t]].table \in DOMAIN Rank
    BY <2>1, <1>1
  <2> QED BY <2>1, <2>2, <1>1, RankInjective DEF CopiedTables
<1>4. CopiedTables = DOMAIN Rank
  BY <1>1, <1>3 DEF CopiedTables
<1>5. NotCopied \cap DOMAIN Rank = {}
  BY DEF NotCopied, Rank
<1> QED BY <1>4, <1>5 DEF Tables

-----------------------------------------------------------------------------
\* Steps of three kinds: those that leave the files alone, those of a node that restores a
\* backup, and those of a node that is connected

\* Without HA_MODE no two nodes run.
LEMMA Alone ==
    ASSUME SInv, NEW n \in Nodes, NEW m \in Nodes, ~env.ha, pc[n] # "off", m # n
    PROVE  pc[m] = "off"
BY DEF SInv, AloneInv

\* A step that leaves the files alone: a start, or its end
LEMMA IdleStep ==
    ASSUME SInv, NEW n \in Nodes, NEW to \in {"off", "restore", "connect"}, pc' = [pc EXCEPT ![n] = to],
           UNCHANGED <<env, files, orig>>,
           opt' \in [Nodes -> StartOptions], \A m \in Nodes \ {n} : opt'[m] = opt[m],
           at' \in [Nodes -> Nat], at'[n] = 1, \A m \in Nodes \ {n} : at'[m] = at[m],
           starts' \in 0 .. MaxStarts,
           seen' \in [Nodes -> {"none", "outdated", "app"}], sched' \in [Nodes -> BOOLEAN],
           to # "off" => env.ha \/ \A m \in Nodes : pc[m] = "off",
           faults \subseteq faults', pc[n] \in Torns => pc[n] \in faults'
    PROVE  SInv'
<1> USE DEF files
<1>1. StateInv'
  BY DEF SInv, StateInv, StartupTypeOK, Phases
<1>2. \A m \in Nodes : pc'[m] = IF m = n THEN to ELSE pc[m]
  BY DEF SInv, StateInv
<1>3. PlaceInv'
  <2> SUFFICES ASSUME NEW m \in Nodes PROVE Placed(m)'
    BY DEF PlaceInv
  <2>1. CASE m = n
    BY <1>2, <2>1 DEF Placed
  <2>2. CASE m # n
    <3>1. Placed(m)
      BY DEF SInv, PlaceInv
    <3> QED BY <1>2, <2>2, <3>1 DEF Placed, Migrates
  <2> QED BY <2>1, <2>2
<1>4. AloneInv'
  <2>1. \A m \in Nodes : pc'[m] \in Restoring \cup Connected => pc[m] = pc'[m]
    BY <1>2 DEF Restoring, Connected, Initialised, Copied
  <2>2. (~env.ha => \A k, m \in Nodes : pc[k] # "off" /\ pc[m] # "off" => k = m)'
    BY <1>2 DEF SInv, AloneInv
  <2> QED BY <2>1, <2>2 DEF SInv, AloneInv
<1>5. CredInv'
  BY <1>2 DEF SInv, CredInv, Cleared, Initialised, Copied, Safe
<1>6. OrigInv'
  <2> SUFFICES ASSUME faults' \cap Torns = {} PROVE OrigInv!2'
    BY DEF OrigInv
  <2>1. pc[n] \notin Torns /\ faults \cap Torns = {}
    OBVIOUS
  <2>2. OrigInv!2
    BY <2>1 DEF SInv, OrigInv
  <2> QED BY <1>2, <2>1, <2>2 DEF Torns
<1>7. CopyInv'
  <2> SUFFICES ASSUME NEW m \in Nodes PROVE CopyOk(m)'
    BY DEF CopyInv
  <2>1. CASE m = n
    BY <1>2, <2>1 DEF CopyOk, PastUsers, NoDevices, Copied
  <2>2. CASE m # n
    <3>1. CopyOk(m)
      BY DEF SInv, CopyInv
    <3>2. pc'[m] = pc[m] /\ opt'[m] = opt[m] /\ at'[m] = at[m] /\ db' = db
      BY <1>2, <2>2
    <3>3. ASSUME NEW k, CopiedTo(m, k) PROVE CopiedTo(m, k)'
      BY <3>2, <3>3 DEF CopiedTo
    <3>4. CopiedTo(m, at[m] - 1) => CopiedTo(m, at[m] - 1)'
      BY <3>2, <3>3
    <3>5. CopiedTo(m, Len(Order(opt[m].from))) => CopiedTo(m, Len(Order(opt[m].from)))'
      BY <3>2, <3>3
    <3> QED BY <3>1, <3>2, <3>4, <3>5 DEF CopyOk, PastUsers, NoDevices, Migrates
  <2> QED BY <2>1, <2>2
<1> QED BY <1>1, <1>3, <1>4, <1>5, <1>6, <1>7 DEF SInv

\* A step of check_restore_backup only copies files, and nobody is connected meanwhile.
LEMMA RestoreStep ==
    ASSUME SInv, NEW n \in Nodes, NEW to \in {"off", "connect"} \cup Restoring, pc' = [pc EXCEPT ![n] = to],
           pc[n] \in {"restore"} \cup Restoring, env.type = "sqlite", ~env.ha,
           UNCHANGED <<env, starts>>, opt' \in [Nodes -> StartOptions],
           at' \in [Nodes -> Nat], at'[n] = 1, \A m \in Nodes \ {n} : at'[m] = at[m],
           seen' \in [Nodes -> {"none", "outdated", "app"}], sched' \in [Nodes -> BOOLEAN],
           {db', bkp', tmp'} \cup backups' \cup s3' \subseteq {db, bkp, tmp, Missing, Torn} \cup backups \cup s3,
           orig' \in Databases \cup {Missing}
    PROVE  StateInv' /\ PlaceInv' /\ AloneInv' /\ CredInv' /\ CopyInv'
<1>1. StateInv'
  BY DEF SInv, StateInv, StartupTypeOK, Phases
<1>2. \A m \in Nodes : pc'[m] = IF m = n THEN to ELSE "off"
  <2>1. pc[n] # "off"
    BY DEF Restoring
  <2> QED BY <2>1, Alone DEF SInv, StateInv
<1>3. PlaceInv'
  <2> SUFFICES ASSUME NEW m \in Nodes PROVE Placed(m)'
    BY DEF PlaceInv
  <2>1. CASE m = n
    BY <1>2, <2>1 DEF Placed, Restoring
  <2>2. CASE m # n
    <3>1. Placed(m) /\ pc[m] = "off"
      BY <2>2, Alone DEF SInv, PlaceInv, Restoring
    <3> QED BY <1>2, <2>2, <3>1 DEF Placed
  <2> QED BY <2>1, <2>2
<1>4. AloneInv'
  BY <1>2 DEF AloneInv, Restoring, Connected, Initialised, Copied
<1>5. CredInv'
  <2>1. \A d \in {db, bkp, tmp, Missing, Torn} \cup backups \cup s3 : Safe(d)
    BY DEF SInv, CredInv, Safe, Whole
  <2>2. \A d \in {db', bkp', tmp'} \cup backups' \cup s3' : Safe(d)
    BY <2>1
  <2>3. \A m \in Nodes : Cleared(m)'
    BY <1>2 DEF Cleared, Restoring, Initialised, Copied
  <2> QED BY <2>2, <2>3 DEF CredInv, Safe
<1>6. CopyInv'
  BY <1>2 DEF CopyInv, CopyOk, PastUsers, NoDevices, Copied, Restoring
<1> QED BY <1>1, <1>3, <1>4, <1>5, <1>6

\* A step of a connected node, which may change the database all nodes share
LEMMA ConnectedStep ==
    ASSUME SInv, NEW n \in Nodes, NEW to \in Connected, pc' = [pc EXCEPT ![n] = to],
           pc[n] \in {"connect"} \cup Connected, ~(env.ha /\ env.type = "sqlite"),
           UNCHANGED <<env, opt, starts, bkp, tmp, orig>>,
           db # Torn, db' \in Databases, Safe(db'),
           \/ db = Missing
           \/ db'.dev \subseteq db.dev /\ (db.admin # "builtin" => db'.admin # "builtin"),
           backups' \cup s3' \subseteq backups \cup s3 \cup {Torn, db},
           at' \in [Nodes -> Nat], \A m \in Nodes \ {n} : at'[m] = at[m],
           seen' \in [Nodes -> {"none", "outdated", "app"}], sched' \in [Nodes -> BOOLEAN],
           faults \subseteq faults', Placed(n)', Cleared(n)', CopyOk(n)'
    PROVE  SInv'
<1>1. StateInv'
  BY DEF SInv, StateInv, StartupTypeOK, Phases
<1>2. \A m \in Nodes : pc'[m] = IF m = n THEN to ELSE pc[m]
  BY DEF SInv, StateInv
<1>3. PlaceInv'
  <2> SUFFICES ASSUME NEW m \in Nodes, m # n PROVE Placed(m)'
    BY DEF PlaceInv
  <2>1. Placed(m)
    BY DEF SInv, PlaceInv
  <2> QED BY <1>2, <2>1 DEF Placed, Migrates
<1>4. pc[n] # "off" /\ pc[n] \notin Restoring /\ to \notin Restoring /\ to # "off"
  BY DEF Connected, Initialised, Copied, Restoring
<1>5. \A m \in Nodes : pc[m] \notin Restoring
  BY <1>4, Alone DEF SInv, AloneInv, Restoring
<1>6. Whole(db')
  BY WholeDatabase
<1>7. AloneInv'
  <2>1. (\A m \in Nodes : pc[m] \in Restoring => env.type = "sqlite" /\ ~env.ha)'
    BY <1>2, <1>4, <1>5
  <2>2. (\A m \in Nodes : pc[m] \in Connected => ~(env.ha /\ env.type = "sqlite") /\ Whole(db))'
    BY <1>6 DEF Whole
  <2>3. (~env.ha => \A k, m \in Nodes : pc[k] # "off" /\ pc[m] # "off" => k = m)'
    BY <1>2, <1>4 DEF SInv, AloneInv
  <2> QED BY <2>1, <2>2, <2>3 DEF AloneInv
<1>8. CredInv'
  <2>1. \A d \in backups' \cup s3' : Safe(d)
    BY DEF SInv, CredInv, Safe, Whole
  <2>2. (Safe(db) /\ Safe(bkp) /\ Safe(tmp))'
    BY DEF SInv, CredInv, Safe, Whole
  <2>3. ASSUME NEW m \in Nodes, m # n PROVE Cleared(m)'
    <3>1. Cleared(m) /\ pc'[m] = pc[m]
      BY <1>2, <2>3 DEF SInv, CredInv
    <3>2. CASE db = Missing
      <4>1. pc[m] \notin Connected
        BY <3>2 DEF SInv, AloneInv, Whole
      <4> QED BY <3>1, <4>1 DEF Cleared, Connected
    <3>3. CASE db # Missing
      BY <3>1, <3>3 DEF Cleared
    <3> QED BY <3>2, <3>3
  <2> QED BY <2>1, <2>2, <2>3 DEF CredInv, Safe, Whole
<1>9. OrigInv'
  <2> SUFFICES ASSUME faults' \cap Torns = {} PROVE OrigInv!2'
    BY DEF OrigInv
  <2>1. OrigInv!2
    BY DEF SInv, OrigInv
  <2>2. \A m \in Nodes : pc[m] \notin {"keeping", "clean"} /\ pc'[m] \notin {"keeping", "clean"}
    BY <1>2, <1>4, <1>5 DEF Restoring
  <2>3. db' # Torn
    BY WholeDatabase
  <2> QED BY <2>1, <2>2, <2>3
<1>10. CopyInv'
  <2> SUFFICES ASSUME NEW m \in Nodes, m # n PROVE CopyOk(m)'
    BY DEF CopyInv
  <2>1. CASE env.ha
    BY <2>1 DEF CopyOk, PastUsers, NoDevices, Migrates
  <2>2. CASE ~env.ha
    <3>1. pc'[m] = "off"
      BY <1>2, <1>4, <2>2, Alone
    <3> QED BY <3>1 DEF CopyOk, PastUsers, NoDevices, Copied
  <2> QED BY <2>1, <2>2
<1> QED BY <1>1, <1>3, <1>7, <1>8, <1>9, <1>10 DEF SInv

-----------------------------------------------------------------------------
\* Starts, their ends, and the restore of a backup

\* main
LEMMA StartStep == ASSUME SInv, NEW n \in Nodes, Start(n) PROVE SInv'
<1> PICK r \in {"none", "file", "s3"}, f \in {"none", "sqlite", "postgres"} :
         /\ opt' = [opt EXCEPT ![n] = [restore |-> r, from |-> f]]
         /\ Goto(n, IF r = "none" THEN "connect" ELSE "restore")
  BY DEF Start
<1> DEFINE to == IF r = "none" THEN "connect" ELSE "restore"
<1>1. to \in {"off", "restore", "connect"} /\ pc' = [pc EXCEPT ![n] = to]
  BY DEF Goto
<1> HIDE DEF to
<1>2. opt' \in [Nodes -> StartOptions] /\ \A m \in Nodes \ {n} : opt'[m] = opt[m]
  BY DEF SInv, StateInv, StartOptions
<1>3. pc[n] = "off" /\ starts' \in 0 .. MaxStarts /\ (env.ha \/ \A m \in Nodes : pc[m] = "off")
      /\ UNCHANGED <<env, files, at, seen, sched, orig, faults>>
  BY Bounds DEF SInv, StateInv, StartupTypeOK, Start
<1>4. at[n] = 1
  BY <1>3 DEF SInv, PlaceInv, Placed
<1>5. /\ at' \in [Nodes -> Nat] /\ at'[n] = 1 /\ \A m \in Nodes \ {n} : at'[m] = at[m]
      /\ seen' \in [Nodes -> {"none", "outdated", "app"}] /\ sched' \in [Nodes -> BOOLEAN]
  BY <1>3, <1>4 DEF SInv, StateInv, StartupTypeOK
<1>6. pc[n] \notin Torns
  BY <1>3 DEF Torns
<1> QED BY <1>1, <1>2, <1>3, <1>5, <1>6, IdleStep

\* What is left of a node that is down
LEMMA DownStep ==
    ASSUME SInv, NEW n \in Nodes, Down(n)
    PROVE  /\ pc' = [pc EXCEPT ![n] = "off"] /\ opt' \in [Nodes -> StartOptions]
           /\ \A m \in Nodes \ {n} : opt'[m] = opt[m]
           /\ at' \in [Nodes -> Nat] /\ at'[n] = 1 /\ \A m \in Nodes \ {n} : at'[m] = at[m]
           /\ seen' \in [Nodes -> {"none", "outdated", "app"}] /\ sched' \in [Nodes -> BOOLEAN]
BY DEF SInv, StateInv, StartupTypeOK, Down, Goto, NoOptions, StartOptions

\* A kill or a panic, wherever it happens
LEMMA CrashStep == ASSUME SInv, NEW n \in Nodes, Crash(n) PROVE SInv'
<1>1. /\ UNCHANGED <<env, files, orig>> /\ starts' \in 0 .. MaxStarts
      /\ faults \subseteq faults' /\ (pc[n] \in Torns => pc[n] \in faults')
  BY DEF SInv, StateInv, StartupTypeOK, Crash
<1>2. Down(n)
  BY DEF Crash
<1> QED BY <1>1, <1>2, DownStep, IdleStep

\* A step of check_restore_backup goes on where the one before ended, and copies files.
LEMMA OnRestore ==
    ASSUME SInv, NEW n \in Nodes, pc[n] \in Restoring
    PROVE  /\ env.type = "sqlite" /\ ~env.ha /\ at[n] = 1
           /\ \A m \in Nodes \ {n} : pc[m] = "off"
BY Alone DEF SInv, AloneInv, PlaceInv, Placed, Restoring

\* What Step leaves alone
LEMMA StepFrame ==
    ASSUME SInv, NEW n \in Nodes, NEW from, NEW to, Step(n, from, to)
    PROVE  /\ pc' = [pc EXCEPT ![n] = to] /\ UNCHANGED <<env, opt, at, seen, sched, starts, faults>>
           /\ pc[n] = from /\ opt' \in [Nodes -> StartOptions] /\ at' \in [Nodes -> Nat]
           /\ seen' \in [Nodes -> {"none", "outdated", "app"}] /\ sched' \in [Nodes -> BOOLEAN]
           /\ \A m \in Nodes : pc'[m] = IF m = n THEN to ELSE pc[m]
BY DEF SInv, StateInv, StartupTypeOK, Step, Goto

\* Step, for check_restore_backup
LEMMA RestoreFrame ==
    ASSUME SInv, NEW n \in Nodes, NEW from \in {"restore"} \cup Restoring, NEW to \in {"connect"} \cup Restoring,
           Step(n, from, to), from = "restore" => env.type = "sqlite" /\ ~env.ha,
           {db', bkp', tmp'} \cup backups' \cup s3' \subseteq {db, bkp, tmp, Missing, Torn} \cup backups \cup s3,
           orig' \in Databases \cup {Missing}
    PROVE  StateInv' /\ PlaceInv' /\ AloneInv' /\ CredInv' /\ CopyInv'
<1>1. env.type = "sqlite" /\ ~env.ha /\ at[n] = 1
  BY OnRestore, StepFrame DEF SInv, PlaceInv, Placed, Restoring
<1> QED BY <1>1, StepFrame, RestoreStep

\* The backup is fetched to .restore.
LEMMA RestoreFetchStep == ASSUME SInv, NEW n \in Nodes, RestoreFetch(n) PROVE SInv'
<1>1. Step(n, "restore", "keep") /\ env.type = "sqlite" /\ UNCHANGED <<db, bkp, backups, s3, orig>>
      /\ tmp' \in backups \cup s3
  BY DEF RestoreFetch
<1>2. ~env.ha
  BY <1>1 DEF SInv, AloneInv
<1>3. orig' \in Databases \cup {Missing} /\ "keep" \in Restoring
  BY <1>1 DEF SInv, StateInv, Restoring
<1>4. StateInv' /\ PlaceInv' /\ AloneInv' /\ CredInv' /\ CopyInv'
  BY <1>1, <1>2, <1>3, RestoreFrame
<1>5. OrigInv'
  BY <1>1, StepFrame DEF SInv, OrigInv
<1> QED BY <1>4, <1>5 DEF SInv

\* The copy to .bkp begins: a torn database is no original.
LEMMA KeepBeginStep == ASSUME SInv, NEW n \in Nodes, KeepBegin(n) PROVE SInv'
<1>1. Step(n, "keep", "keeping") /\ UNCHANGED <<db, tmp, backups, s3>> /\ bkp' = Torn
      /\ (Whole(db) \/ db = Torn) /\ orig' = IF Whole(db) THEN db ELSE orig
  BY DEF KeepBegin
<1>2. "keep" \in Restoring /\ "keeping" \in Restoring
  BY DEF Restoring
<1>3. orig' \in Databases \cup {Missing}
  BY <1>1, WholeType DEF SInv, StateInv
<1>4. StateInv' /\ PlaceInv' /\ AloneInv' /\ CredInv' /\ CopyInv'
  BY <1>1, <1>2, <1>3, RestoreFrame
<1>5. OrigInv'
  <2>1. pc[n] = "keep" /\ \A m \in Nodes \ {n} : pc[m] = "off"
    BY <1>1, <1>2, StepFrame, OnRestore
  <2>2. \A m \in Nodes : pc'[m] = IF m = n THEN "keeping" ELSE "off"
    BY <1>1, <2>1, StepFrame
  <2>3. faults \cap Torns = {} /\ db = Torn => orig = Missing
    BY <2>1 DEF SInv, OrigInv
  <2> QED BY <1>1, <2>2, <2>3, StepFrame, FileKinds DEF OrigInv, Whole
<1> QED BY <1>4, <1>5 DEF SInv

\* There is no database to keep.
LEMMA KeepNothingStep == ASSUME SInv, NEW n \in Nodes, KeepNothing(n) PROVE SInv'
<1>1. Step(n, "keep", "remove") /\ UNCHANGED <<db, bkp, tmp, backups, s3, orig>>
  BY DEF KeepNothing, files
<1>2. "keep" \in Restoring /\ "remove" \in Restoring /\ orig' \in Databases \cup {Missing}
  BY <1>1 DEF Restoring, SInv, StateInv
<1>4. StateInv' /\ PlaceInv' /\ AloneInv' /\ CredInv' /\ CopyInv'
  BY <1>1, <1>2, RestoreFrame
<1>5. OrigInv'
  BY <1>1, StepFrame DEF SInv, OrigInv
<1> QED BY <1>4, <1>5 DEF SInv

\* The copy to .bkp is complete.
LEMMA KeepEndStep == ASSUME SInv, NEW n \in Nodes, KeepEnd(n) PROVE SInv'
<1>1. Step(n, "keeping", "remove") /\ UNCHANGED <<db, tmp, backups, s3, orig>> /\ bkp' = db
  BY DEF KeepEnd
<1>2. "keeping" \in Restoring /\ "remove" \in Restoring /\ orig' \in Databases \cup {Missing}
  BY <1>1 DEF Restoring, SInv, StateInv
<1>4. StateInv' /\ PlaceInv' /\ AloneInv' /\ CredInv' /\ CopyInv'
  BY <1>1, <1>2, RestoreFrame
<1>5. OrigInv'
  <2>1. pc[n] = "keeping" /\ \A m \in Nodes \ {n} : pc[m] = "off"
    BY <1>1, <1>2, StepFrame, OnRestore
  <2>2. \A m \in Nodes : pc'[m] = IF m = n THEN "remove" ELSE "off"
    BY <1>1, <2>1, StepFrame
  <2> QED BY <1>1, <2>1, <2>2, StepFrame DEF SInv, OrigInv
<1> QED BY <1>4, <1>5 DEF SInv

\* The copy to .bkp fails, which is ignored.
LEMMA KeepFailsStep == ASSUME SInv, NEW n \in Nodes, KeepFails(n) PROVE SInv'
<1>1. /\ pc' = [pc EXCEPT ![n] = "remove"] /\ pc[n] = "keeping" /\ "keeping" \in faults'
      /\ UNCHANGED <<env, db, bkp, tmp, backups, s3, opt, at, seen, sched, starts, orig>>
  BY DEF KeepFails, Goto, files
<1>2. "keeping" \in Restoring /\ "remove" \in Restoring /\ orig' \in Databases \cup {Missing}
  BY <1>1 DEF Restoring, SInv, StateInv
<1>3. env.type = "sqlite" /\ ~env.ha /\ at[n] = 1
  BY <1>1, <1>2, OnRestore
<1>4. opt' \in [Nodes -> StartOptions] /\ at' \in [Nodes -> Nat]
           /\ seen' \in [Nodes -> {"none", "outdated", "app"}] /\ sched' \in [Nodes -> BOOLEAN]
  BY <1>1 DEF SInv, StateInv, StartupTypeOK
<1>5. StateInv' /\ PlaceInv' /\ AloneInv' /\ CredInv' /\ CopyInv'
  BY <1>1, <1>2, <1>3, <1>4, RestoreStep
<1>6. OrigInv'
  BY <1>1 DEF OrigInv, Torns
<1> QED BY <1>5, <1>6 DEF SInv

\* The database is removed.
LEMMA RemoveCurrentStep == ASSUME SInv, NEW n \in Nodes, RemoveCurrent(n) PROVE SInv'
<1>1. Step(n, "remove", "switch") /\ UNCHANGED <<bkp, tmp, backups, s3, orig>> /\ db' = Missing
  BY DEF RemoveCurrent, files
<1>2. "remove" \in Restoring /\ "switch" \in {"connect"} \cup Restoring /\ orig' \in Databases \cup {Missing}
  BY <1>1 DEF Restoring, SInv, StateInv
<1>3. StateInv' /\ PlaceInv' /\ AloneInv' /\ CredInv' /\ CopyInv'
  BY <1>1, <1>2, RestoreFrame
<1>4. OrigInv'
  <2>1. pc[n] = "remove" /\ \A m \in Nodes \ {n} : pc[m] = "off"
    BY <1>1, <1>2, StepFrame, OnRestore
  <2>2. \A m \in Nodes : pc'[m] = IF m = n THEN "switch" ELSE "off"
    BY <1>1, <2>1, StepFrame
  <2> QED BY <1>1, <2>1, <2>2, StepFrame, FileKinds DEF SInv, OrigInv
<1> QED BY <1>3, <1>4 DEF SInv

\* The copy of .restore over it begins.
LEMMA SwitchBeginStep == ASSUME SInv, NEW n \in Nodes, SwitchBegin(n) PROVE SInv'
<1>1. Step(n, "switch", "copying") /\ UNCHANGED <<bkp, tmp, backups, s3, orig>> /\ db' = Torn
  BY DEF SwitchBegin, files
<1>2. "switch" \in Restoring /\ "copying" \in {"connect"} \cup Restoring /\ orig' \in Databases \cup {Missing}
  BY <1>1 DEF Restoring, SInv, StateInv
<1>3. StateInv' /\ PlaceInv' /\ AloneInv' /\ CredInv' /\ CopyInv'
  BY <1>1, <1>2, RestoreFrame
<1>4. OrigInv'
  <2>1. pc[n] = "switch" /\ \A m \in Nodes \ {n} : pc[m] = "off"
    BY <1>1, <1>2, StepFrame, OnRestore
  <2>2. \A m \in Nodes : pc'[m] = IF m = n THEN "copying" ELSE "off"
    BY <1>1, <2>1, StepFrame
  <2> QED BY <1>1, <2>1, <2>2, StepFrame DEF SInv, OrigInv
<1> QED BY <1>3, <1>4 DEF SInv

\* The copy of .restore is complete.
LEMMA SwitchEndStep == ASSUME SInv, NEW n \in Nodes, SwitchEnd(n) PROVE SInv'
<1>1. Step(n, "copying", "open") /\ UNCHANGED <<bkp, tmp, backups, s3, orig>> /\ db' = tmp
  BY DEF SwitchEnd, files
<1>2. "copying" \in Restoring /\ "open" \in {"connect"} \cup Restoring /\ orig' \in Databases \cup {Missing}
  BY <1>1 DEF Restoring, SInv, StateInv
<1>3. StateInv' /\ PlaceInv' /\ AloneInv' /\ CredInv' /\ CopyInv'
  BY <1>1, <1>2, RestoreFrame
<1>4. OrigInv'
  <2>1. pc[n] = "copying" /\ \A m \in Nodes \ {n} : pc[m] = "off"
    BY <1>1, <1>2, StepFrame, OnRestore
  <2>2. \A m \in Nodes : pc'[m] = IF m = n THEN "open" ELSE "off"
    BY <1>1, <2>1, StepFrame
  <2> QED BY <1>1, <2>1, <2>2, StepFrame DEF SInv, OrigInv
<1> QED BY <1>3, <1>4 DEF SInv

\* The restored database opens.
LEMMA RestoreAcceptStep == ASSUME SInv, NEW n \in Nodes, RestoreAccept(n) PROVE SInv'
<1>1. Step(n, "open", "clean") /\ UNCHANGED <<db, bkp, tmp, backups, s3>> /\ orig' = Missing
  BY DEF RestoreAccept, files
<1>2. "open" \in Restoring /\ "clean" \in {"connect"} \cup Restoring /\ orig' \in Databases \cup {Missing}
  BY <1>1 DEF Restoring, SInv, StateInv
<1>3. StateInv' /\ PlaceInv' /\ AloneInv' /\ CredInv' /\ CopyInv'
  BY <1>1, <1>2, RestoreFrame
<1>4. OrigInv'
  <2>1. pc[n] = "open" /\ \A m \in Nodes \ {n} : pc[m] = "off"
    BY <1>1, <1>2, StepFrame, OnRestore
  <2>2. \A m \in Nodes : pc'[m] = IF m = n THEN "clean" ELSE "off"
    BY <1>1, <2>1, StepFrame
  <2> QED BY <1>1, <2>1, <2>2, StepFrame DEF SInv, OrigInv
<1> QED BY <1>3, <1>4 DEF SInv

\* It does not open.
LEMMA RestoreRejectStep == ASSUME SInv, NEW n \in Nodes, RestoreReject(n) PROVE SInv'
<1>1. Step(n, "open", "back") /\ UNCHANGED <<bkp, tmp, backups, s3, orig>> /\ db' = Torn
  BY DEF RestoreReject, files
<1>2. "open" \in Restoring /\ "back" \in {"connect"} \cup Restoring /\ orig' \in Databases \cup {Missing}
  BY <1>1 DEF Restoring, SInv, StateInv
<1>3. StateInv' /\ PlaceInv' /\ AloneInv' /\ CredInv' /\ CopyInv'
  BY <1>1, <1>2, RestoreFrame
<1>4. OrigInv'
  <2>1. pc[n] = "open" /\ \A m \in Nodes \ {n} : pc[m] = "off"
    BY <1>1, <1>2, StepFrame, OnRestore
  <2>2. \A m \in Nodes : pc'[m] = IF m = n THEN "back" ELSE "off"
    BY <1>1, <2>1, StepFrame
  <2> QED BY <1>1, <2>1, <2>2, StepFrame DEF SInv, OrigInv
<1> QED BY <1>3, <1>4 DEF SInv

\* .bkp is removed.
LEMMA RestoreCleanStep == ASSUME SInv, NEW n \in Nodes, RestoreClean(n) PROVE SInv'
<1>1. Step(n, "clean", "connect") /\ UNCHANGED <<db, tmp, backups, s3, orig>> /\ bkp' = Missing
  BY DEF RestoreClean, files
<1>2. "clean" \in Restoring /\ "connect" \in {"connect"} \cup Restoring /\ orig' \in Databases \cup {Missing}
  BY <1>1 DEF Restoring, SInv, StateInv
<1>3. StateInv' /\ PlaceInv' /\ AloneInv' /\ CredInv' /\ CopyInv'
  BY <1>1, <1>2, RestoreFrame
<1>4. OrigInv'
  <2>1. pc[n] = "clean" /\ \A m \in Nodes \ {n} : pc[m] = "off"
    BY <1>1, <1>2, StepFrame, OnRestore
  <2>2. \A m \in Nodes : pc'[m] = IF m = n THEN "connect" ELSE "off"
    BY <1>1, <2>1, StepFrame
  <2> QED BY <1>1, <2>1, <2>2, StepFrame DEF SInv, OrigInv
<1> QED BY <1>3, <1>4 DEF SInv

\* .bkp is copied back, and the start ends.
LEMMA CopyBackStep == ASSUME SInv, NEW n \in Nodes, CopyBack(n) PROVE SInv'
<1>1. /\ pc[n] = "back" /\ Down(n) /\ db' = bkp
      /\ UNCHANGED <<env, bkp, tmp, backups, s3, starts, orig, faults>>
  BY DEF CopyBack
<1>2. "back" \in Restoring /\ orig' \in Databases \cup {Missing}
  BY <1>1 DEF Restoring, SInv, StateInv
<1>3. env.type = "sqlite" /\ ~env.ha /\ \A m \in Nodes \ {n} : pc[m] = "off"
  BY <1>1, <1>2, OnRestore
<1>4. StateInv' /\ PlaceInv' /\ AloneInv' /\ CredInv' /\ CopyInv'
  BY <1>1, <1>2, <1>3, DownStep, RestoreStep
<1>5. OrigInv'
  <2>1. \A m \in Nodes : pc'[m] = "off"
    BY <1>1, <1>3, DownStep DEF SInv, StateInv
  <2>2. orig # Torn
    BY FileKinds DEF SInv, StateInv
  <2>3. \A m \in Nodes : pc[m] # "keeping"
    BY <1>1, <1>3
  <2> QED BY <1>1, <2>1, <2>2, <2>3 DEF SInv, OrigInv
<1> QED BY <1>4, <1>5 DEF SInv

\* All of check_restore_backup
LEMMA RestoreSteps == ASSUME SInv, NEW n \in Nodes, Restore(n) PROVE SInv'
BY RestoreFetchStep, KeepBeginStep, KeepNothingStep, KeepEndStep, KeepFailsStep, RemoveCurrentStep,
   SwitchBeginStep, SwitchEndStep, RestoreAcceptStep, RestoreRejectStep, CopyBackStep, RestoreCleanStep
   DEF Restore

-----------------------------------------------------------------------------
\* The steps of a node that is connected

\* What a connected node finds
LEMMA OnDb ==
    ASSUME SInv, NEW n \in Nodes, pc[n] \in Connected
    PROVE  /\ ~(env.ha /\ env.type = "sqlite") /\ db \in Databases /\ db # Torn /\ db # Missing
           /\ Safe(db) /\ Cleared(n) /\ Placed(n) /\ CopyOk(n)
           /\ db.keys # {} => db.dev = {} /\ db.admin # "builtin"
           /\ db.moved => db.admin # "builtin"
<1>1. ~(env.ha /\ env.type = "sqlite") /\ Whole(db)
  BY DEF SInv, AloneInv
<1>2. db \in Databases /\ db # Torn /\ db # Missing
  BY <1>1, WholeType DEF Whole, SInv
<1>3. Safe(db) /\ Cleared(n) /\ Placed(n) /\ CopyOk(n)
  BY DEF SInv, CredInv, PlaceInv, CopyInv
<1> QED BY <1>1, <1>2, <1>3 DEF Safe

\* A step that changes the database, and neither what is left to do nor the other files
LEMMA DbStepInv ==
    ASSUME SInv, NEW n \in Nodes, NEW from \in {"connect"} \cup Connected, NEW to \in Connected, NEW d \in Databases,
           DbStep(n, from, to, d), ~(env.ha /\ env.type = "sqlite"), db # Torn,
           \/ db = Missing
           \/ d.dev \subseteq db.dev /\ (db.admin # "builtin" => d.admin # "builtin"),
           d.keys # {} => d.dev = {} /\ d.admin # "builtin",
           d.moved => d.admin # "builtin",
           to = "users" => "init_client" \notin d.dev,
           to = "admin" => d.dev = {},
           to \in Initialised => d.dev = {} /\ d.admin # "builtin",
           Placed(n)', CopyOk(n)'
    PROVE  SInv'
<1>1. Step(n, from, to) /\ db' = d /\ UNCHANGED <<bkp, tmp, backups, s3, orig>>
  BY DEF DbStep
<1>2. Cleared(n)'
  BY <1>1, StepFrame DEF Cleared
<1>3. Safe(db')
  BY <1>1 DEF Safe
<1> QED BY <1>1, <1>2, <1>3, StepFrame, ConnectedStep

\* Before and after MIGRATE_DB_FROM a node is at the first place.
LEMMA FirstPlace ==
    ASSUME SInv, NEW n \in Nodes, NEW from, NEW to, Step(n, from, to), from \notin {"save", "delete", "insert"},
           to \notin {"delete", "insert"}
    PROVE  Placed(n)'
<1>1. at[n] = 1 /\ at' = at /\ pc'[n] = to
  BY StepFrame DEF SInv, PlaceInv, Placed
<1>2. 1 \in 1 .. Len(KeyOrder)
  BY Bounds
<1> QED BY <1>1, <1>2 DEF Placed

\* Nothing is promised before MIGRATE_DB_FROM begins.
LEMMA NothingCopied ==
    ASSUME SInv, NEW n \in Nodes, NEW from, NEW to, Step(n, from, to), to \notin {"delete", "insert"} \cup Copied
    PROVE  CopyOk(n)'
BY StepFrame DEF CopyOk, PastUsers, NoDevices, Copied

\* The connection, and the schema of a new database
LEMMA ConnectStep == ASSUME SInv, NEW n \in Nodes, Connect(n) PROVE SInv'
<1> DEFINE d == IF db = Missing THEN Fresh ELSE db
<1>1. Opens /\ DbStep(n, "connect", "version", d) /\ Step(n, "connect", "version")
  BY DEF Connect, DbStep
<1>2. ~(env.ha /\ env.type = "sqlite") /\ db # Torn
  BY <1>1 DEF Opens
<1>3. d \in Databases
  BY <1>2, FreshType, WholeType DEF Whole, SInv
<1>4. d.keys # {} => d.dev = {} /\ d.admin # "builtin"
  <2>1. CASE db = Missing
    BY <2>1 DEF Fresh
  <2>2. CASE db # Missing
    BY <1>2, <2>2 DEF SInv, CredInv, Safe, Whole
  <2> QED BY <2>1, <2>2
<1>5. d.moved => d.admin # "builtin"
  <2>1. CASE db = Missing
    BY <2>1 DEF Fresh
  <2>2. CASE db # Missing
    BY <1>2, <2>2 DEF SInv, CredInv, Safe, Whole
  <2> QED BY <2>1, <2>2
<1>6. Placed(n)' /\ CopyOk(n)'
  BY <1>1, FirstPlace, NothingCopied DEF Copied
<1>7. "version" \in Connected /\ "version" \notin Initialised
  BY DEF Connected, Initialised, Copied
<1>8. db = Missing \/ (d.dev \subseteq db.dev /\ (db.admin # "builtin" => d.admin # "builtin"))
  <2>1. db = Missing \/ d = db
    OBVIOUS
  <2> HIDE DEF d
  <2>2. CASE d = db
    BY <2>2
  <2> QED BY <2>1, <2>2
<1> HIDE DEF d
<1> QED BY <1>1, <1>2, <1>3, <1>4, <1>5, <1>6, <1>7, <1>8, DbStepInv

\* DbVersion::check_app_version
LEMMA CheckVersionStep == ASSUME SInv, NEW n \in Nodes, CheckVersion(n) PROVE SInv'
<1>1. /\ pc[n] = "version" /\ pc' = [pc EXCEPT ![n] = "init"]
      /\ UNCHANGED <<env, files, opt, at, sched, starts, orig, faults>>
  BY DEF CheckVersion, Goto
<1>2. "version" \in Connected /\ "init" \in Connected /\ "init" \notin Initialised /\ "init" \notin Copied
  BY DEF Connected, Initialised, Copied
<1>3. /\ ~(env.ha /\ env.type = "sqlite") /\ db \in Databases /\ db # Torn /\ Safe(db)
      /\ Placed(n)
  BY <1>1, <1>2, OnDb
<1>4. pc'[n] = "init" /\ at' \in [Nodes -> Nat] /\ sched' \in [Nodes -> BOOLEAN]
      /\ seen' \in [Nodes -> {"none", "outdated", "app"}]
  BY <1>1, <1>3 DEF CheckVersion, SInv, StateInv, StartupTypeOK, Databases
<1>5. Placed(n)' /\ Cleared(n)' /\ CopyOk(n)'
  BY <1>1, <1>2, <1>3, <1>4 DEF Placed, Cleared, CopyOk, PastUsers, NoDevices
<1>6. db' \in Databases /\ Safe(db') /\ db'.dev \subseteq db.dev /\ (db.admin # "builtin" => db'.admin # "builtin")
  BY <1>1, <1>3 DEF files
<1> QED BY <1>1, <1>2, <1>3, <1>4, <1>5, <1>6, ConnectedStep DEF files

\* A database with a key is initialised, and by CredInv without development credentials.
LEMMA InitCheckStep == ASSUME SInv, NEW n \in Nodes, InitCheck(n) PROVE SInv'
<1> DEFINE to == IF db.keys = {} THEN "client" ELSE "migrate"
<1>1. DbStep(n, "init", to, db) /\ Step(n, "init", to)
  BY DEF InitCheck, DbStep
<1>2. "init" \in Connected /\ to \in Connected /\ to \notin {"delete", "insert", "users", "admin"} \cup Copied
      /\ (to \in Initialised => db.keys # {})
  BY DEF Connected, Initialised, Copied
<1> HIDE DEF to
<1>3. pc[n] \in Connected
  BY <1>1, <1>2, StepFrame
<1>4. Placed(n)' /\ CopyOk(n)'
  BY <1>1, <1>2, FirstPlace, NothingCopied
<1> QED BY <1>1, <1>2, <1>3, <1>4, OnDb, DbStepInv

\* init_client is deleted.
LEMMA DropClientStep == ASSUME SInv, NEW n \in Nodes, DropClient(n) PROVE SInv'
<1> DEFINE d == [db EXCEPT !.dev = @ \ {"init_client"}]
<1>1. DbStep(n, "client", "users", d) /\ Step(n, "client", "users")
  BY DEF DropClient, DbStep
<1>2. "client" \in Connected /\ "users" \in Connected /\ "users" \notin Initialised \cup Copied
  BY DEF Connected, Initialised, Copied
<1>3. pc[n] \in Connected
  BY <1>1, <1>2, StepFrame
<1>4. Placed(n)' /\ CopyOk(n)'
  BY <1>1, <1>2, FirstPlace, NothingCopied
<1>5. d \in Databases /\ d.dev = db.dev \ {"init_client"} /\ d.admin = db.admin /\ d.keys = db.keys /\ d.moved = db.moved
  BY <1>3, OnDb DEF Databases
<1> HIDE DEF d
<1>6. d.dev \subseteq db.dev /\ "init_client" \notin d.dev
  BY <1>5
<1>7. d.keys # {} => d.dev = {} /\ d.admin # "builtin"
  BY <1>3, <1>5, <1>6, OnDb
<1> QED BY <1>1, <1>2, <1>3, <1>4, <1>5, <1>6, <1>7, OnDb, DbStepInv

\* The development users are deleted.
LEMMA DropUsersStep == ASSUME SInv, NEW n \in Nodes, DropUsers(n) PROVE SInv'
<1> DEFINE d == [db EXCEPT !.dev = @ \ {"dev_users"}]
<1>1. DbStep(n, "users", "admin", d) /\ Step(n, "users", "admin")
  BY DEF DropUsers, DbStep
<1>2. "users" \in Connected /\ "admin" \in Connected /\ "admin" \notin Initialised \cup Copied
  BY DEF Connected, Initialised, Copied
<1>3. pc[n] \in Connected /\ pc[n] = "users"
  BY <1>1, <1>2, StepFrame
<1>4. Placed(n)' /\ CopyOk(n)'
  BY <1>1, <1>2, FirstPlace, NothingCopied
<1>5. d \in Databases /\ d.dev = db.dev \ {"dev_users"} /\ d.admin = db.admin /\ d.keys = db.keys /\ d.moved = db.moved
  BY <1>3, OnDb DEF Databases
<1> HIDE DEF d
<1>6. d.dev \subseteq db.dev /\ d.dev = {}
  BY <1>3, <1>5, OnDb DEF Cleared, Databases
<1>7. d.keys # {} => d.dev = {} /\ d.admin # "builtin"
  BY <1>3, <1>5, <1>6, OnDb
<1> QED BY <1>1, <1>2, <1>3, <1>4, <1>5, <1>6, <1>7, OnDb, DbStepInv

\* The first administrator that is there has a password of its own from here on.
LEMMA SetAdminStep == ASSUME SInv, NEW n \in Nodes, SetAdmin(n) PROVE SInv'
<1> DEFINE to == IF env.apiKey THEN "api_key" ELSE "save"
           u == [db EXCEPT !.admin = "set", !.moved = env.ownEmail, !.tables = Touched(db, {"users"})]
           d == IF db.moved \/ db.admin = "none" THEN db ELSE u
<1>1. DbStep(n, "admin", to, d) /\ Step(n, "admin", to)
  BY DEF SetAdmin, DbStep
<1>2. "admin" \in Connected /\ to \in Initialised /\ to \in Connected
      /\ to \notin {"delete", "insert", "users", "admin"} \cup Copied
  BY DEF Connected, Initialised, Copied
<1> HIDE DEF to
<1>3. pc[n] \in Connected /\ pc[n] = "admin"
  BY <1>1, <1>2, StepFrame
<1>4. Placed(n)' /\ CopyOk(n)'
  BY <1>1, <1>2, FirstPlace, NothingCopied
<1>5. env.ownEmail \in BOOLEAN
  BY Bounds DEF SInv, StateInv
<1>6. u \in Databases /\ u.dev = db.dev /\ u.admin = "set" /\ u.keys = db.keys
  BY <1>3, <1>5, OnDb, TouchedType DEF Databases
<1> HIDE DEF u
<1>7. d \in Databases /\ d.dev = db.dev /\ d.admin # "builtin" /\ d.keys = db.keys
  BY <1>3, <1>6, OnDb
<1>8. db.dev = {}
  BY <1>3, OnDb DEF Cleared
<1> HIDE DEF d
<1> QED BY <1>1, <1>2, <1>3, <1>4, <1>7, <1>8, OnDb, DbStepInv

\* After that, a step that leaves the credentials alone
LEMMA LaterStep ==
    ASSUME SInv, NEW n \in Nodes, NEW from \in Initialised, NEW to \in Initialised, NEW d \in Databases,
           DbStep(n, from, to, d), d.dev \subseteq db.dev, db.admin # "builtin" => d.admin # "builtin",
           Placed(n)', CopyOk(n)'
    PROVE  SInv'
<1>1. Step(n, from, to)
  BY DEF DbStep
<1>2. from \in Connected /\ to \in Connected /\ to \notin {"users", "admin"}
  BY DEF Connected, Initialised, Copied
<1>3. pc[n] = from /\ pc[n] \in Connected
  BY <1>1, <1>2, StepFrame
<1>4. d.dev = {} /\ d.admin # "builtin"
  BY <1>3, OnDb DEF Cleared
<1> QED BY <1>1, <1>2, <1>3, <1>4, OnDb, DbStepInv

\* BOOTSTRAP_API_KEY
LEMMA CreateApiKeyStep == ASSUME SInv, NEW n \in Nodes, CreateApiKey(n) PROVE SInv'
<1> DEFINE d == [db EXCEPT !.apiKey = "created", !.tables = Touched(db, {"api_keys"})]
<1>1. DbStep(n, "api_key", "api_secret", d) /\ Step(n, "api_key", "api_secret")
  BY DEF CreateApiKey, DbStep
<1>2. "api_key" \in Initialised /\ "api_secret" \in Initialised /\ "api_secret" \notin {"delete", "insert"} \cup Copied
  BY DEF Initialised, Copied
<1>3. pc[n] \in Connected
  BY <1>1, <1>2, StepFrame DEF Connected
<1>4. Placed(n)' /\ CopyOk(n)'
  BY <1>1, <1>2, FirstPlace, NothingCopied
<1>5. d \in Databases /\ d.dev = db.dev /\ d.admin = db.admin
  BY <1>3, OnDb, TouchedType DEF Databases
<1> HIDE DEF d
<1> QED BY <1>1, <1>2, <1>4, <1>5, LaterStep

\* BOOTSTRAP_API_KEY_SECRET
LEMMA SetApiSecretStep == ASSUME SInv, NEW n \in Nodes, SetApiSecret(n) PROVE SInv'
<1> PICK k \in {"created", "known"} : DbStep(n, "api_secret", "save", [db EXCEPT !.apiKey = k])
  BY DEF SetApiSecret
<1> DEFINE d == [db EXCEPT !.apiKey = k]
<1>1. DbStep(n, "api_secret", "save", d) /\ Step(n, "api_secret", "save")
  BY DEF DbStep
<1>2. "api_secret" \in Initialised /\ "save" \in Initialised /\ "save" \notin {"delete", "insert"} \cup Copied
  BY DEF Initialised, Copied
<1>3. pc[n] \in Connected
  BY <1>1, <1>2, StepFrame DEF Connected
<1>4. Placed(n)' /\ CopyOk(n)'
  BY <1>1, <1>2, FirstPlace, NothingCopied
<1>5. d \in Databases /\ d.dev = db.dev /\ d.admin = db.admin
  BY <1>3, OnDb DEF Databases
<1> HIDE DEF d
<1> QED BY <1>1, <1>2, <1>4, <1>5, LaterStep

\* A key is saved when the credentials are gone.
LEMMA SaveKeyStep == ASSUME SInv, NEW n \in Nodes, SaveFirstKey(n) PROVE SInv'
<1> DEFINE d == [db EXCEPT !.keys = @ \cup {KeyOrder[at[n]]}, !.tables = Touched(db, {"jwks"})]
           to == IF at[n] = Len(KeyOrder) THEN "migrate" ELSE "save"
<1>1. pc[n] = "save" /\ db' = d /\ UNCHANGED <<env, bkp, tmp, backups, s3, opt, seen, sched, starts, orig, faults>>
  BY DEF SaveFirstKey
<1>2. pc' = [pc EXCEPT ![n] = to] /\ at' = [at EXCEPT ![n] = IF at[n] = Len(KeyOrder) THEN 1 ELSE @ + 1]
  BY <1>1 DEF SaveFirstKey, Goto, SInv, StateInv
<1>3. "save" \in Connected /\ to \in Connected /\ "save" \in Initialised /\ to \in {"save", "migrate"}
      /\ to \notin {"users", "admin"} \cup Copied
  BY DEF Connected, Initialised, Copied
<1>4. at[n] \in 1 .. Len(KeyOrder) /\ Len(KeyOrder) \in Nat
  BY <1>1, <1>3, OnDb, Bounds DEF Placed
<1>5. KeyOrder[at[n]] \in KeyAlgs
  BY <1>4, Bounds DEF KeyAlgs
<1>6. d \in Databases /\ d.dev = db.dev /\ d.admin = db.admin
  BY <1>1, <1>3, <1>5, OnDb, TouchedType DEF Databases
<1>7. d.dev = {} /\ d.admin # "builtin"
  BY <1>1, <1>3, <1>6, OnDb DEF Cleared
<1>8. Placed(n)'
  <2>1. pc'[n] = to /\ at'[n] = IF at[n] = Len(KeyOrder) THEN 1 ELSE at[n] + 1
    BY <1>2 DEF SInv, StateInv, StartupTypeOK
  <2> QED BY <1>4, <2>1 DEF Placed
<1>9. at' \in [Nodes -> Nat] /\ (\A m \in Nodes \ {n} : at'[m] = at[m]) /\ pc'[n] = to
  BY <1>2 DEF SInv, StateInv, StartupTypeOK
<1> HIDE DEF d, to
<1>10. CopyOk(n)' /\ Cleared(n)'
  BY <1>1, <1>3, <1>7, <1>9 DEF CopyOk, PastUsers, NoDevices, Cleared
<1>11. db' \in Databases /\ Safe(db') /\ db'.dev \subseteq db.dev /\ (db.admin # "builtin" => db'.admin # "builtin")
  BY <1>1, <1>6, <1>7 DEF Safe
<1>12. seen' \in [Nodes -> {"none", "outdated", "app"}] /\ sched' \in [Nodes -> BOOLEAN]
  BY <1>1 DEF SInv, StateInv, StartupTypeOK
<1> QED BY <1>1, <1>2, <1>3, <1>8, <1>9, <1>10, <1>11, <1>12, OnDb, ConnectedStep

\* All of migrate_init_prod
LEMMA InitProdSteps == ASSUME SInv, NEW n \in Nodes, InitProd(n) PROVE SInv'
BY InitCheckStep, DropClientStep, DropUsersStep, SetAdminStep, CreateApiKeyStep, SetApiSecretStep, SaveKeyStep
   DEF InitProd

-----------------------------------------------------------------------------
\* MIGRATE_DB_FROM, and what follows it

\* The table that is copied, and its place
LEMMA CopyPlace ==
    ASSUME SInv, NEW n \in Nodes, pc[n] \in {"delete", "insert"}
    PROVE  /\ Migrates(n) /\ opt[n].from \in {"sqlite", "postgres"}
           /\ at[n] \in 1 .. 23 /\ Copying(n).table \in CopiedTables /\ Copying(n).table \in Tables
           /\ Copying(n) = Order(opt[n].from)[at[n]] /\ Rank[Copying(n).table] = at[n]
           /\ Len(Order(opt[n].from)) = 23
<1>1. Migrates(n) /\ at[n] \in 1 .. Len(Order(opt[n].from))
  BY DEF SInv, PlaceInv, Placed
<1>2. opt[n].from \in {"sqlite", "postgres"}
  BY <1>1 DEF SInv, StateInv, StartOptions, Migrates
<1> DEFINE f == opt[n].from
           o == Order(f)
<1>3. Len(o) = 23 /\ \A i \in 1 .. 23 : o[i].table \in DOMAIN Rank /\ Rank[o[i].table] = i
  BY <1>2, OrderAt
<1>4. Copying(n) = o[at[n]]
  BY DEF Copying
<1> HIDE DEF o
<1>5. at[n] \in 1 .. 23
  BY <1>1, <1>3 DEF o
<1> QED BY <1>1, <1>2, <1>3, <1>4, <1>5, TablesRanked DEF o

\* Copying a table leaves those that were copied before it as they are.
LEMMA CopiedBefore ==
    ASSUME SInv, NEW n \in Nodes, pc[n] \in {"delete", "insert"}, NEW i \in 1 .. (at[n] - 1)
    PROVE  /\ Order(opt[n].from)[i].table \in Tables
           /\ Order(opt[n].from)[i].table # Copying(n).table
           /\ Order(opt[n].from)[i].table \notin OwnedBy(Copying(n).table)
           /\ Copying(n).table = "auth_providers" => Order(opt[n].from)[i].table # "users"
<1> DEFINE t == Order(opt[n].from)[i].table
           u == Copying(n).table
<1>1. opt[n].from \in {"sqlite", "postgres"} /\ at[n] \in 1 .. 23 /\ u \in CopiedTables /\ Rank[u] = at[n]
  BY CopyPlace
<1>2. i \in 1 .. 23 /\ i < at[n]
  BY <1>1
<1>3. t \in DOMAIN Rank /\ Rank[t] = i
  BY <1>1, <1>2, OrderAt
<1>4. u \in DOMAIN Rank /\ t \in Tables
  BY <1>1, <1>3, TablesRanked
<1> HIDE DEF t, u
<1>5. t # u
  BY <1>1, <1>2, <1>3
<1>6. t \notin OwnedBy(u)
  <2> SUFFICES ASSUME t \in OwnedBy(u) PROVE FALSE
    OBVIOUS
  <2>1. Rank[u] < Rank[t]
    BY <1>3, <1>4, OwnersFirst
  <2> QED BY <1>1, <1>2, <1>3, <2>1
<1>7. u = "auth_providers" => t # "users"
  <2>1. Rank["auth_providers"] = 3 /\ Rank["users"] = 5
    BY DEF Rank
  <2> QED BY <1>1, <1>2, <1>3, <2>1
<1> QED BY <1>4, <1>5, <1>6, <1>7 DEF t, u

\* Whether MIGRATE_DB_FROM is set and heeded
LEMMA MigrateCheckStep == ASSUME SInv, NEW n \in Nodes, MigrateCheck(n) PROVE SInv'
<1> DEFINE to == IF Migrates(n) THEN "delete" ELSE "lockout"
<1>1. DbStep(n, "migrate", to, db) /\ Step(n, "migrate", to)
  BY DEF MigrateCheck, DbStep
<1>2. "migrate" \in Initialised /\ to \in Initialised
  BY DEF Initialised, Copied
<1>3. pc[n] \in Connected /\ pc'[n] = to /\ at' = at /\ opt' = opt /\ env' = env /\ at[n] = 1
  BY <1>1, <1>2, StepFrame DEF Connected, SInv, PlaceInv, Placed
<1>4. Migrates(n) => Len(Order(opt[n].from)) = 23
  BY OrderAt DEF SInv, StateInv, StartOptions, Migrates
<1>5. Placed(n)' /\ CopyOk(n)'
  <2>1. CASE Migrates(n)
    <3>1. pc'[n] = "delete" /\ Migrates(n)'
      BY <1>3, <2>1 DEF Migrates
    <3>2. CopiedTo(n, at[n] - 1)'
      BY <1>3 DEF CopiedTo
    <3>3. Placed(n)'
      <4>1. at'[n] = 1 /\ Order(opt[n].from)' = Order(opt[n].from)
        BY <1>3
      <4>2. (at[n] \in 1 .. Len(Order(opt[n].from)))'
        <5>1. Len(Order(opt[n].from))' = 23
          BY <1>4, <2>1, <4>1
        <5> HIDE DEF to
        <5> QED BY <4>1, <5>1
      <4> HIDE DEF to
      <4> QED BY <3>1, <4>2 DEF Placed
    <3>4. CopyOk(n)'
      <4>1. ~PastUsers(n)'
        BY <1>3, <3>1 DEF PastUsers, Copied
      <4> HIDE DEF to
      <4> QED BY <3>1, <3>2, <4>1 DEF CopyOk, Copied
    <3> QED BY <3>3, <3>4
  <2>2. CASE ~Migrates(n)
    <3>1. pc'[n] = "lockout" /\ ~Migrates(n)'
      BY <1>3, <2>2 DEF Migrates
    <3> QED BY <1>3, <3>1 DEF Placed, CopyOk, PastUsers, NoDevices
  <2> QED BY <2>1, <2>2
<1> HIDE DEF to
<1> QED BY <1>1, <1>2, <1>3, <1>5, OnDb, LaterStep

\* The rows of the next table are deleted, with those that belong to them.
LEMMA DeleteRowsStep == ASSUME SInv, NEW n \in Nodes, DeleteRows(n) PROVE SInv'
<1> DEFINE t == Copying(n).table
           d == Emptied(db, t)
<1>1. DbStep(n, "delete", "insert", d) /\ Step(n, "delete", "insert") /\ db' = d
  BY DEF DeleteRows, DbStep
<1>2. "delete" \in Initialised /\ "insert" \in Initialised /\ "insert" \notin Copied
  BY DEF Initialised, Copied
<1>3. pc[n] \in Connected /\ pc[n] = "delete" /\ pc'[n] = "insert" /\ at' = at /\ opt' = opt /\ env' = env
  BY <1>1, <1>2, StepFrame DEF Connected
<1>4. db \in Databases /\ Placed(n) /\ CopyOk(n)
  BY <1>3, OnDb
<1>5. Placed(n)'
  BY <1>3, <1>4 DEF Placed, Migrates
<1>6. /\ d \in Databases /\ d.dev \subseteq db.dev /\ (db.admin # "builtin" => d.admin # "builtin")
      /\ d.keys = (IF t = "jwks" THEN {} ELSE db.keys)
      /\ \A u \in Tables : u # t /\ u \notin OwnedBy(t) /\ ~(t = "auth_providers" /\ u = "users") =>
                               d.tables[u] = db.tables[u]
  <2> HIDE DEF t
  <2>1. d \in Databases /\ d.dev \subseteq db.dev /\ (db.admin # "builtin" => d.admin # "builtin")
        /\ d.keys = (IF t = "jwks" THEN {} ELSE db.keys)
    BY <1>4, EmptiedType
  <2>2. ASSUME NEW u \in Tables, u # t, u \notin OwnedBy(t), ~(t = "auth_providers" /\ u = "users")
        PROVE  d.tables[u] = db.tables[u]
    BY <1>4, <2>2, EmptiedKeeps
  <2> QED BY <2>1, <2>2
<1> HIDE DEF d
<1>7. CopiedTo(n, at[n] - 1)
  BY <1>3, <1>4, CopyPlace DEF CopyOk, PastUsers, NoDevices
<1>8. CopiedTo(n, at[n] - 1)'
  <2> DEFINE o == Order(opt[n].from)
  <2>1. ASSUME NEW i \in 1 .. (at[n] - 1) PROVE d.tables[o[i].table] = "src" /\ (o[i].table = "jwks" => d.keys = KeyAlgs)
    <3>1. o[i].table \in Tables /\ o[i].table # t /\ o[i].table \notin OwnedBy(t)
          /\ ~(t = "auth_providers" /\ o[i].table = "users")
      BY <1>3, CopiedBefore
    <3>2. db.tables[o[i].table] = "src" /\ (o[i].table = "jwks" => db.keys = KeyAlgs)
      BY <1>7 DEF CopiedTo
    <3> HIDE DEF o, t
    <3> QED BY <1>6, <3>1, <3>2
  <2> HIDE DEF t
  <2> QED BY <1>1, <1>3, <2>1 DEF CopiedTo
<1>10. NoDevices(d) \/ at[n] < 5
  <2>1. Rank[t] = at[n] /\ at[n] \in 1 .. 23 /\ t \in DOMAIN Rank
    BY <1>3, CopyPlace, TablesRanked
  <2>2. CASE t = "users"
    <3>1. ASSUME NEW v \in NotCopied PROVE v \in Tables /\ v \in OwnedBy("users")
      BY DEF NotCopied, Tables, OwnedBy, Owned
    <3>2. ASSUME NEW v \in NotCopied PROVE d.tables[v] = "empty"
      <4> HIDE DEF t
      <4>1. Emptied(db, t).tables[v] = "empty"
        BY <1>4, <2>2, <3>1, EmptiedType
      <4> QED BY <4>1 DEF d
    <3> QED BY <3>2 DEF NoDevices
  <2>3. CASE t # "users" /\ at[n] >= 5
    <3>1. at[n] > 5
      <4>1. "users" \in DOMAIN Rank /\ Rank["users"] = 5
        BY DEF Rank
      <4> QED BY <2>1, <2>3, <4>1, RankInjective
    <3>2. NoDevices(db)
      BY <1>3, <1>4, <3>1, CopyPlace DEF CopyOk, PastUsers
    <3>3. ASSUME NEW v \in NotCopied PROVE d.tables[v] = "empty"
      <4>1. v \in Tables /\ db.tables[v] = "empty" /\ v # "users"
        BY <3>2 DEF NoDevices, Tables, NotCopied
      <4> HIDE DEF t
      <4>2. CASE v = t \/ v \in OwnedBy(t)
        <5>1. Emptied(db, t).tables[v] = "empty"
          BY <1>4, <4>1, <4>2, EmptiedType
        <5> QED BY <5>1 DEF d
      <4>3. CASE v # t /\ v \notin OwnedBy(t)
        BY <1>6, <4>1, <4>3
      <4> QED BY <4>2, <4>3
    <3> QED BY <3>3 DEF NoDevices
  <2> QED BY <2>1, <2>2, <2>3
<1>9. CopyOk(n)'
  BY <1>1, <1>2, <1>3, <1>8, <1>10, CopyPlace DEF CopyOk, PastUsers, NoDevices
<1> QED BY <1>1, <1>2, <1>5, <1>6, <1>9, LaterStep

\* What filling a table leaves of the tables before it
LEMMA FillStep ==
    ASSUME SInv, NEW n \in Nodes, pc[n] = "insert", NEW all \in BOOLEAN,
           db' = Filled(db, Copying(n).table, all), opt' = opt
    PROVE  /\ db' \in Databases /\ db'.dev = db.dev /\ (db.admin # "builtin" => db'.admin # "builtin")
           /\ \A i \in 1 .. (at[n] - 1) :
                 /\ db'.tables[Order(opt[n].from)[i].table] = "src"
                 /\ Order(opt[n].from)[i].table = "jwks" => db'.keys = KeyAlgs
           /\ at[n] >= 5 => NoDevices(db')
           /\ all => /\ db'.tables[Copying(n).table] = "src"
                     /\ Copying(n).table = "jwks" => db'.keys = KeyAlgs
<1> DEFINE t == Copying(n).table
           o == Order(opt[n].from)
<1>1. pc[n] \in Connected /\ t \in Tables /\ env \in Deployments
  BY CopyPlace DEF Connected, Initialised, SInv, StateInv
<1>2. db \in Databases /\ CopyOk(n) /\ db.tables \in [Tables -> {"own", "empty", "part", "src"}]
  BY <1>1, OnDb DEF Databases
<1>3. CopiedTo(n, at[n] - 1)
  BY <1>2, CopyPlace DEF CopyOk, PastUsers, NoDevices
<1>4. /\ db' \in Databases /\ db'.dev = db.dev /\ (db.admin # "builtin" => db'.admin # "builtin")
      /\ t # "jwks" => db'.keys = db.keys
      /\ \A u \in Tables \ {t} : db'.tables[u] = db.tables[u]
      /\ all => db'.tables[t] = "src" /\ (t = "jwks" => db'.keys = KeyAlgs)
  <2> DEFINE f == Filled(db, t, all)
  <2> HIDE DEF t
  <2>1. db' = f
    BY DEF t
  <2>2. /\ f \in Databases /\ f.dev = db.dev /\ (db.admin # "builtin" => f.admin # "builtin")
        /\ t # "jwks" => f.keys = db.keys
        /\ \A u \in Tables \ {t} : f.tables[u] = db.tables[u]
        /\ all => f.tables[t] = "src" /\ (t = "jwks" => f.keys = KeyAlgs)
    BY <1>1, <1>2, FilledType
  <2> HIDE DEF f
  <2> QED BY <2>1, <2>2
<1>5. ASSUME NEW i \in 1 .. (at[n] - 1)
      PROVE  db'.tables[o[i].table] = "src" /\ (o[i].table = "jwks" => db'.keys = KeyAlgs)
  <2>1. o[i].table \in Tables /\ o[i].table # t
    BY CopiedBefore
  <2>2. db.tables[o[i].table] = "src" /\ (o[i].table = "jwks" => db.keys = KeyAlgs)
    BY <1>3 DEF CopiedTo
  <2> HIDE DEF o, t
  <2> QED BY <1>2, <1>4, <2>1, <2>2
<1>6. ASSUME at[n] >= 5 PROVE NoDevices(db')
  <2>1. NoDevices(db)
    BY <1>2, <1>6, CopyPlace DEF CopyOk, PastUsers
  <2>2. ASSUME NEW v \in NotCopied PROVE v \in Tables \ {t}
    BY CopyPlace, TablesRanked
  <2> HIDE DEF t
  <2> QED BY <1>4, <2>1, <2>2 DEF NoDevices
<1> QED BY <1>4, <1>5, <1>6 DEF t

\* Some rows of a table are inserted.
LEMMA InsertSomeStep == ASSUME SInv, NEW n \in Nodes, InsertSome(n) PROVE SInv'
<1> DEFINE d == Filled(db, Copying(n).table, FALSE)
<1>1. DbStep(n, "insert", "insert", d) /\ Step(n, "insert", "insert") /\ db' = d
  BY DEF InsertSome, DbStep
<1>2. "insert" \in Initialised /\ "insert" \notin Copied
  BY DEF Initialised, Copied
<1>3. pc[n] = "insert" /\ pc'[n] = "insert" /\ at' = at /\ opt' = opt /\ env' = env
  BY <1>1, <1>2, StepFrame
<1>4. Placed(n)'
  BY <1>3 DEF SInv, PlaceInv, Placed, Migrates
<1>5. d \in Databases /\ d.dev = db.dev /\ (db.admin # "builtin" => d.admin # "builtin")
  BY <1>1, <1>3, FillStep
<1>6. CopiedTo(n, at[n] - 1)' /\ (at[n] >= 5 => NoDevices(db'))
  BY <1>1, <1>3, FillStep DEF CopiedTo
<1>7. CopyOk(n)'
  BY <1>2, <1>3, <1>6 DEF CopyOk, PastUsers, NoDevices
<1> HIDE DEF d
<1> QED BY <1>1, <1>2, <1>4, <1>5, <1>7, LaterStep

\* The last row of a table is inserted.
LEMMA InsertLastStep == ASSUME SInv, NEW n \in Nodes, InsertLast(n) PROVE SInv'
<1> DEFINE last == at[n] = Len(Order(opt[n].from))
           to == IF last THEN "lockout" ELSE "delete"
           next == IF last THEN 1 ELSE at[n] + 1
<1>1. /\ pc[n] = "insert" /\ db' = Filled(db, Copying(n).table, TRUE)
      /\ UNCHANGED <<env, bkp, tmp, backups, s3, opt, seen, sched, starts, orig, faults>>
  BY DEF InsertLast
<1>2. pc' = [pc EXCEPT ![n] = to] /\ at' = [at EXCEPT ![n] = next]
  BY DEF InsertLast, Goto
<1>3. /\ Migrates(n) /\ at[n] \in 1 .. 23 /\ Len(Order(opt[n].from)) = 23
      /\ Copying(n) = Order(opt[n].from)[at[n]]
  BY <1>1, CopyPlace
<1>4. to \in Connected /\ to \in Initialised /\ to \notin {"users", "admin"} /\ "insert" \in Connected
      /\ "insert" \in Initialised
  BY DEF Connected, Initialised, Copied
<1>5. /\ db' \in Databases /\ db'.dev = db.dev /\ (db.admin # "builtin" => db'.admin # "builtin")
      /\ \A i \in 1 .. (at[n] - 1) :
            /\ db'.tables[Order(opt[n].from)[i].table] = "src"
            /\ Order(opt[n].from)[i].table = "jwks" => db'.keys = KeyAlgs
      /\ db'.tables[Copying(n).table] = "src"
      /\ Copying(n).table = "jwks" => db'.keys = KeyAlgs
      /\ at[n] >= 5 => NoDevices(db')
  BY <1>1, FillStep
<1>6. pc'[n] = to /\ at'[n] = next /\ at' \in [Nodes -> Nat] /\ \A m \in Nodes \ {n} : at'[m] = at[m]
  BY <1>2, <1>3 DEF SInv, StateInv, StartupTypeOK
<1>7. Placed(n)'
  BY <1>1, <1>3, <1>6 DEF Placed, Migrates
<1>8. \A i \in 1 .. at[n] : /\ db'.tables[Order(opt[n].from)[i].table] = "src"
                            /\ Order(opt[n].from)[i].table = "jwks" => db'.keys = KeyAlgs
  <2>1. \A i \in 1 .. at[n] : i \in 1 .. (at[n] - 1) \/ i = at[n]
    BY <1>3
  <2> QED BY <1>3, <1>5, <2>1
<1>9. CopyOk(n)'
  <2>1. opt' = opt /\ env' = env
    BY <1>1
  <2>2. CASE last
    <3>1. CopiedTo(n, Len(Order(opt[n].from)))'
      BY <1>3, <1>8, <2>1, <2>2 DEF CopiedTo
    <3>2. pc'[n] = "lockout"
      BY <1>6, <2>2
    <3>3. NoDevices(db')
      BY <1>3, <1>5, <2>2
    <3> QED BY <3>1, <3>2, <3>3 DEF CopyOk, NoDevices
  <2>3. CASE ~last
    <3>1. at'[n] - 1 = at[n] /\ pc'[n] = "delete"
      BY <1>3, <1>6, <2>3
    <3>2. CopiedTo(n, at[n] - 1)'
      BY <1>8, <2>1, <3>1 DEF CopiedTo
    <3>3. PastUsers(n)' => NoDevices(db')
      <4>1. at'[n] > 5 => at[n] >= 5
        BY <1>3, <3>1, <1>6
      <4> QED BY <1>5, <3>1, <4>1 DEF PastUsers, Copied
    <3> QED BY <3>1, <3>2, <3>3 DEF CopyOk, NoDevices, Copied
  <2> QED BY <2>2, <2>3
<1>10. Cleared(n)' /\ Safe(db')
  <2>1. db.dev = {} /\ db.admin # "builtin"
    BY <1>1, <1>4, OnDb DEF Cleared
  <2> QED BY <1>4, <1>5, <1>6, <2>1 DEF Cleared, Safe
<1>11. seen' \in [Nodes -> {"none", "outdated", "app"}] /\ sched' \in [Nodes -> BOOLEAN]
  BY <1>1 DEF SInv, StateInv, StartupTypeOK
<1> HIDE DEF to
<1> QED BY <1>1, <1>2, <1>4, <1>5, <1>6, <1>7, <1>9, <1>10, <1>11, OnDb, ConnectedStep

\* All of MIGRATE_DB_FROM
LEMMA MigrateSteps == ASSUME SInv, NEW n \in Nodes, Migrate(n) PROVE SInv'
BY MigrateCheckStep, DeleteRowsStep, InsertSomeStep, InsertLastStep DEF Migrate

\* What follows the copy leaves its tables as they are.
LEMMA CopiedStays ==
    ASSUME SInv, NEW n \in Nodes, pc[n] \in Copied, pc'[n] \in Copied \ {"lockout"}, UNCHANGED <<env, opt>>,
           db'.tables = db.tables, db'.keys = db.keys, faults \subseteq faults',
           pc[n] = "lockout" => db'.rauthy \/ "lockout" \in faults',
           pc[n] # "lockout" => db'.rauthy = db.rauthy
    PROVE  CopyOk(n)'
<1> SUFFICES ASSUME Migrates(n)
             PROVE  /\ CopiedTo(n, Len(Order(opt[n].from)))' /\ (db'.rauthy \/ "lockout" \in faults')
                    /\ NoDevices(db')
  BY DEF CopyOk, NoDevices, Migrates, Copied
<1>1. CopiedTo(n, Len(Order(opt[n].from))) /\ NoDevices(db) /\ (pc[n] # "lockout" => db.rauthy \/ "lockout" \in faults)
  BY DEF SInv, CopyInv, CopyOk, PastUsers, NoDevices
<1>2. CopiedTo(n, Len(Order(opt[n].from)))'
  BY <1>1 DEF CopiedTo
<1>3. db'.rauthy \/ "lockout" \in faults'
  BY <1>1
<1>4. NoDevices(db')
  BY <1>1 DEF NoDevices
<1> QED BY <1>2, <1>3, <1>4

\* A step of a node that has copied everything, or had nothing to copy
LEMMA AfterStep ==
    ASSUME SInv, NEW n \in Nodes, pc[n] \in Copied, NEW to \in Copied \ {"lockout"},
           pc' = [pc EXCEPT ![n] = to], UNCHANGED <<env, opt, at, starts, bkp, tmp, orig>>,
           db' \in Databases, db'.tables = db.tables, db'.keys = db.keys, db'.dev = db.dev,
           db'.admin = db.admin, faults \subseteq faults',
           pc[n] = "lockout" => db'.rauthy \/ "lockout" \in faults',
           pc[n] # "lockout" => db'.rauthy = db.rauthy,
           seen' = seen, sched' \in [Nodes -> BOOLEAN],
           backups' \cup s3' \subseteq backups \cup s3 \cup {Torn, db}
    PROVE  SInv'
<1>1. pc'[n] = to /\ at' \in [Nodes -> Nat] /\ seen' \in [Nodes -> {"none", "outdated", "app"}]
  BY DEF SInv, StateInv, StartupTypeOK
<1>2. pc[n] \in Initialised /\ pc[n] \in Connected /\ to \in Initialised /\ to \in Connected
  BY DEF Initialised, Connected
<1>3. db.dev = {} /\ db.admin # "builtin" /\ Placed(n)
  BY <1>2, OnDb DEF Cleared
<1>4. CopyOk(n)'
  BY <1>1, CopiedStays
<1>5. Placed(n)' /\ Cleared(n)'
  BY <1>1, <1>3 DEF Placed, Cleared, Copied
<1>6. Safe(db')
  BY <1>3 DEF Safe
<1> QED BY <1>1, <1>2, <1>3, <1>4, <1>5, <1>6, OnDb, ConnectedStep

\* DbStep as AfterStep sees it
LEMMA AfterFrame ==
    ASSUME SInv, NEW n \in Nodes, NEW from \in Copied, NEW to, Step(n, from, to)
    PROVE  /\ pc[n] = from /\ pc' = [pc EXCEPT ![n] = to] /\ UNCHANGED <<env, opt, at, starts, seen>>
           /\ faults \subseteq faults' /\ sched' \in [Nodes -> BOOLEAN] /\ db \in Databases
<1>1. pc[n] \in Connected
  BY StepFrame DEF Connected, Initialised
<1> QED BY <1>1, StepFrame, OnDb

\* anti_lockout
LEMMA AntiLockoutStep == ASSUME SInv, NEW n \in Nodes, AntiLockout(n) PROVE SInv'
<1> DEFINE d == [db EXCEPT !.rauthy = TRUE]
<1>1. Step(n, "lockout", "upsert") /\ db' = d /\ UNCHANGED <<bkp, tmp, backups, s3, orig>>
  BY DEF AntiLockout, DbStep
<1>2. "lockout" \in Copied /\ "upsert" \in Copied \ {"lockout"}
  BY DEF Copied
<1>3. /\ pc[n] = "lockout" /\ pc' = [pc EXCEPT ![n] = "upsert"] /\ UNCHANGED <<env, opt, at, starts, seen>>
      /\ faults \subseteq faults' /\ sched' \in [Nodes -> BOOLEAN] /\ db \in Databases
  BY <1>1, <1>2, AfterFrame
<1>4. d \in Databases /\ d.tables = db.tables /\ d.keys = db.keys /\ d.dev = db.dev /\ d.admin = db.admin
  BY <1>3 DEF Databases
<1>5. d.rauthy
  BY <1>3 DEF Databases
<1> HIDE DEF d
<1> QED BY <1>1, <1>2, <1>3, <1>4, <1>5, AfterStep

\* anti_lockout fails, which is logged.
LEMMA AntiLockoutFailsStep == ASSUME SInv, NEW n \in Nodes, AntiLockoutFails(n) PROVE SInv'
<1>1. /\ pc[n] = "lockout" /\ pc' = [pc EXCEPT ![n] = "upsert"] /\ "lockout" \in faults' /\ faults \subseteq faults'
      /\ UNCHANGED <<env, db, bkp, tmp, backups, s3, opt, at, seen, sched, starts, orig>>
  BY DEF AntiLockoutFails, Goto, files
<1>2. "lockout" \in Copied /\ "upsert" \in Copied \ {"lockout"} /\ "lockout" \in Connected
  BY DEF Copied, Initialised, Connected
<1>3. db \in Databases /\ sched' \in [Nodes -> BOOLEAN]
  BY <1>1, <1>2, OnDb DEF SInv, StateInv, StartupTypeOK
<1> QED BY <1>1, <1>2, <1>3, AfterStep

\* DbVersion::upsert
LEMMA UpsertVersionStep == ASSUME SInv, NEW n \in Nodes, UpsertVersion(n) PROVE SInv'
<1> DEFINE d == IF seen[n] = "app" THEN db ELSE [db EXCEPT !.version = "app"]
<1>1. Step(n, "upsert", "serving") /\ db' = d /\ UNCHANGED <<bkp, tmp, backups, s3, orig>>
  BY DEF UpsertVersion, DbStep
<1>2. "upsert" \in Copied /\ "serving" \in Copied \ {"lockout"}
  BY DEF Copied
<1>3. /\ pc[n] = "upsert" /\ pc' = [pc EXCEPT ![n] = "serving"] /\ UNCHANGED <<env, opt, at, starts, seen>>
      /\ faults \subseteq faults' /\ sched' \in [Nodes -> BOOLEAN] /\ db \in Databases
  BY <1>1, <1>2, AfterFrame
<1>4. /\ d \in Databases /\ d.tables = db.tables /\ d.keys = db.keys /\ d.dev = db.dev /\ d.admin = db.admin
      /\ d.rauthy = db.rauthy
  BY <1>3 DEF Databases
<1> HIDE DEF d
<1> QED BY <1>1, <1>2, <1>3, <1>4, AfterStep

\* scheduler_main
LEMMA SchedulersStep == ASSUME SInv, NEW n \in Nodes, Schedulers(n) PROVE SInv'
<1>1. /\ pc[n] = "serving" /\ sched' = [sched EXCEPT ![n] = TRUE]
      /\ UNCHANGED <<env, db, bkp, tmp, backups, s3, pc, opt, at, seen, starts, orig, faults>>
  BY DEF Schedulers, files
<1>2. "serving" \in Copied \ {"lockout"} /\ "serving" \in Connected
  BY DEF Copied, Initialised, Connected
<1>3. db \in Databases /\ sched' \in [Nodes -> BOOLEAN] /\ pc' = [pc EXCEPT ![n] = "serving"]
  BY <1>1, <1>2, OnDb DEF SInv, StateInv, StartupTypeOK
<1> QED BY <1>1, <1>2, <1>3, AfterStep

\* backup_db copies the database, and only that.
LEMMA BackupSteps == ASSUME SInv, NEW n \in Nodes, Backup(n) PROVE SInv'
<1> USE DEF Copied
<1>1. CASE BackupBegin(n)
  <2>1. Step(n, "serving", "vacuum") /\ UNCHANGED <<db, bkp, tmp, s3, orig>> /\ backups' = backups \cup {Torn}
    BY <1>1 DEF BackupBegin
  <2> QED BY <2>1, AfterFrame, AfterStep
<1>2. CASE BackupEnd(n)
  <2>1. Step(n, "vacuum", "push") /\ UNCHANGED <<db, bkp, tmp, s3, orig>> /\ backups' \subseteq backups \cup {db}
    BY <1>2 DEF BackupEnd
  <2> QED BY <2>1, AfterFrame, AfterStep
<1>3. CASE BackupPush(n)
  <2>1. Step(n, "push", "serving") /\ UNCHANGED <<db, bkp, tmp, backups, orig>> /\ s3' \subseteq s3 \cup {db}
    BY <1>3 DEF BackupPush
  <2> QED BY <2>1, AfterFrame, AfterStep
<1> QED BY <1>1, <1>2, <1>3 DEF Backup

-----------------------------------------------------------------------------

\* The invariant holds before the first start,
LEMMA SInvInit == StartupInit => SInv
<1> SUFFICES ASSUME StartupInit PROVE SInv
  OBVIOUS
<1> USE DEF StartupInit
<1>1. StateInv
  BY Bounds DEF StateInv, StartupTypeOK, Phases, StartOptions, NoOptions
<1>2. PlaceInv
  BY DEF PlaceInv, Placed
<1>3. AloneInv
  BY DEF AloneInv, Restoring, Connected, Initialised, Copied
<1>4. CredInv
  BY DEF CredInv, Safe, Whole, Cleared, Initialised, Copied
<1>5. OrigInv
  BY FileKinds DEF OrigInv
<1>6. CopyInv
  BY DEF CopyInv, CopyOk, PastUsers, NoDevices, Copied
<1> QED BY <1>1, <1>2, <1>3, <1>4, <1>5, <1>6 DEF SInv

\* while nothing happens,
LEMMA SInvStutter == SInv /\ UNCHANGED startupVars => SInv'
<1> SUFFICES ASSUME SInv, UNCHANGED startupVars PROVE SInv'
  OBVIOUS
<1> USE DEF startupVars, files
<1>1. StateInv'
  BY DEF SInv, StateInv, StartupTypeOK
<1>2. PlaceInv'
  BY DEF SInv, PlaceInv, Placed, Migrates
<1>3. AloneInv'
  BY DEF SInv, AloneInv, Whole
<1>4. CredInv'
  BY DEF SInv, CredInv, Safe, Whole, Cleared
<1>5. OrigInv'
  BY DEF SInv, OrigInv
<1>6. CopyInv'
  BY DEF SInv, CopyInv, CopyOk, PastUsers, NoDevices, CopiedTo, Migrates
<1> QED BY <1>1, <1>2, <1>3, <1>4, <1>5, <1>6 DEF SInv

\* and after every step of every node.
LEMMA SInvNext == SInv /\ [StartupNext]_startupVars => SInv'
<1> SUFFICES ASSUME SInv, [StartupNext]_startupVars PROVE SInv'
  OBVIOUS
<1>1. CASE StartupNext
  <2> PICK n \in Nodes : NodeNext(n)
    BY <1>1 DEF StartupNext
  <2> QED BY StartStep, CrashStep, RestoreSteps, ConnectStep, CheckVersionStep, InitProdSteps, MigrateSteps,
             AntiLockoutStep, AntiLockoutFailsStep, UpsertVersionStep, SchedulersStep, BackupSteps
             DEF NodeNext
<1>2. CASE UNCHANGED startupVars
  BY <1>2, SInvStutter
<1> QED BY <1>1, <1>2

\* So it always holds.
LEMMA SInvAlways == StartupSpec => []SInv
BY SInvInit, SInvNext, PTL DEF StartupSpec

\* A node that serves has all of the start behind it.
LEMMA ServingCopied == ASSUME NEW n \in Nodes, Serving(n) PROVE pc[n] \in Copied \ {"lockout"} /\ pc[n] \in Initialised
BY DEF Serving, Copied, Initialised

\* For any replicas, keys and deployments: no node answers requests while a development
\* account, init_client or the password of the repository is there, because the first key is
\* saved after everything else in migrate_init_prod and restores copy whole files only.
THEOREM NoDefaultCredentialsAlways == StartupSpec => []NoDefaultCredentials
<1>1. SInv => NoDefaultCredentials
  BY ServingCopied DEF SInv, CredInv, Cleared, NoDefaultCredentials
<1> QED BY <1>1, SInvAlways, PTL

\* For any number of starts, backups and restores: the database a restore replaces is in its
\* place or in .bkp until the backup has been opened, unless a copy failed or was cut short.
THEOREM OriginalKeptAlways == StartupSpec => []OriginalKept
<1>1. SInv => OriginalKept
  <2> SUFFICES ASSUME SInv, orig # Missing, faults \cap Torns = {} PROVE orig \in {db, bkp}
    BY DEF OriginalKept, Torns
  <2> QED BY DEF SInv, OrigInv
<1> QED BY <1>1, SInvAlways, PTL

\* For any deployment: a node that serves after MIGRATE_DB_FROM has all rows of every table
\* that is copied, because no table is emptied after one that belongs to it has been filled;
\* and no devices, because those go with the users and nothing brings them back.
THEOREM MigratedWholeAlways == StartupSpec => []MigratedWhole
<1>1. SInv => MigratedWhole
  <2> SUFFICES ASSUME SInv, NEW n \in Nodes, Serving(n), Migrates(n)
               PROVE  /\ \A t \in Tables : db.tables[t] = IF t \in NotCopied THEN "empty" ELSE "src"
                      /\ db.keys = KeyAlgs
                      /\ db.rauthy \/ "lockout" \in faults
    BY DEF MigratedWhole, SInv, StateInv
  <2> DEFINE o == Order(opt[n].from)
  <2>1. opt[n].from \in {"sqlite", "postgres"}
    BY DEF SInv, StateInv, StartOptions, Migrates
  <2>2. Len(o) = 23 /\ \A i \in 1 .. 23 : o[i].table \in DOMAIN Rank /\ Rank[o[i].table] = i
    BY <2>1, OrderAt
  <2>3. CopiedTo(n, Len(o)) /\ NoDevices(db) /\ (db.rauthy \/ "lockout" \in faults)
    BY ServingCopied DEF SInv, CopyInv, CopyOk, PastUsers, NoDevices
  <2>4. \A i \in 1 .. 23 : db.tables[o[i].table] = "src" /\ (o[i].table = "jwks" => db.keys = KeyAlgs)
    BY <2>2, <2>3 DEF CopiedTo
  <2> HIDE DEF o
  <2>5. ASSUME NEW t \in CopiedTables PROVE \E i \in 1 .. 23 : o[i].table = t
    <3>1. t \in DOMAIN Rank /\ Rank[t] \in 1 .. 23
      BY TablesRanked, RankType
    <3>2. o[Rank[t]].table \in DOMAIN Rank /\ Rank[o[Rank[t]].table] = Rank[t]
      BY <2>2, <3>1
    <3>3. o[Rank[t]].table = t
      BY <3>1, <3>2, RankInjective
    <3> QED BY <3>1, <3>3
  <2>6. "jwks" \in CopiedTables
    BY TablesRanked, RankType
  <2>7. \A t \in Tables : db.tables[t] = IF t \in NotCopied THEN "empty" ELSE "src"
    <3> SUFFICES ASSUME NEW t \in Tables PROVE db.tables[t] = IF t \in NotCopied THEN "empty" ELSE "src"
      OBVIOUS
    <3>1. CASE t \in NotCopied
      BY <2>3, <3>1 DEF NoDevices
    <3>2. CASE t \notin NotCopied
      BY <2>4, <2>5, <3>2 DEF Tables
    <3> QED BY <3>1, <3>2
  <2>8. db.keys = KeyAlgs
    BY <2>4, <2>5, <2>6
  <2> QED BY <2>3, <2>7, <2>8
<1> QED BY <1>1, SInvAlways, PTL
=============================================================================
