--------------------------- MODULE AccountsProofs ---------------------------
(***************************************************************************)
(* Proofs about Accounts, for any number of requests, addresses, passwords,*)
(* links and passkeys, and any password policy.                            *)
(*                                                                         *)
(* Shape: a request is a program, one of finitely many lists of steps, and *)
(* holds what its steps need; every copy of the user, in the row, a cache  *)
(* or a request, follows the policy for the expiry of passwords.           *)
(*                                                                         *)
(* Links: of a link that is not spoilt, at most one request is at work;    *)
(* before the change the link stands for it was never used, and after it   *)
(* the link is dead or about to be.                                        *)
(*                                                                         *)
(* Calm: as long as no request met another one or failed, at most one is   *)
(* at work, and how far its program is tells which of the row and the      *)
(* caches are ahead, under which addresses the stale copies are, and       *)
(* whether the newest recent password is the one of the row already.       *)
(***************************************************************************)
EXTENDS Accounts, FiniteSetTheorems, SequenceTheorems, TLAPS

-----------------------------------------------------------------------------
\* The inductive invariant

\* What a request may have left to do, by what it is about to write.
BeforeRow ==
    {<<"recent", "spend", "row", "cache">>, <<"spend", "row", "cache">>, <<"row", "cache">>,
     <<"row", "cache", "spend">>, <<"mail", "row", "cache">>, <<"recent", "row", "cache">>,
     <<"relink", "recent", "row", "cache">>, <<"relink", "row", "cache">>}
AfterRow == {<<"cache">>, <<"cache", "spend">>}
BeforeCache ==
    {<<"cache", "drop", "insert">>,
     <<"cache", "drop", "insert", "spend", "refetch", "row", "cache">>,
     <<"cache", "delete">>, <<"drop", "cache", "commit", "code">>, <<"cache", "commit", "code">>}
Inserting ==
    {<<"drop", "insert">>, <<"insert">>,
     <<"drop", "insert", "spend", "refetch", "row", "cache">>,
     <<"insert", "spend", "refetch", "row", "cache">>}
Deleting == {<<"drop", "delete">>, <<"delete">>}
Committing == Inserting \cup Deleting \cup {<<"commit", "code">>}
Removing == {<<"remove", "forget">>, <<"forget">>}
Reading ==
    {<<"bind">>, <<"spend">>, <<"mail">>, <<"spend", "mail">>, <<"code">>,
     <<"spend", "refetch", "row", "cache">>, <<"refetch", "row", "cache">>,
     <<"drop", "unflag", "cache", "delete">>, <<"unflag", "cache", "delete">>}
Programs ==
    BeforeRow \cup AfterRow \cup BeforeCache \cup Committing \cup Removing \cup Reading
    \cup {<<"check">>}

\* The columns of a request that its steps read
NeedsUser == BeforeRow \cup AfterRow \cup BeforeCache \cup Removing \cup {<<"commit", "code">>, <<"check">>}
NeedsLink ==
    {<<"bind">>, <<"recent", "spend", "row", "cache">>, <<"spend", "row", "cache">>,
     <<"row", "cache", "spend">>, <<"cache", "spend">>, <<"spend">>, <<"spend", "mail">>,
     <<"cache", "drop", "insert", "spend", "refetch", "row", "cache">>,
     <<"drop", "insert", "spend", "refetch", "row", "cache">>,
     <<"insert", "spend", "refetch", "row", "cache">>, <<"spend", "refetch", "row", "cache">>}
MayHaveLink == NeedsLink \cup {<<"check">>, <<"row", "cache">>, <<"cache">>, <<"mail">>,
                               <<"refetch", "row", "cache">>}
NeedsPassword ==
    {<<"check">>, <<"recent", "spend", "row", "cache">>, <<"spend", "row", "cache">>,
     <<"recent", "row", "cache">>, <<"relink", "recent", "row", "cache">>}
NoPassword ==
    {<<"row", "cache", "spend">>, <<"mail", "row", "cache">>, <<"relink", "row", "cache">>}
NeedsKey == {<<"cache", "drop", "insert">>,
             <<"cache", "drop", "insert", "spend", "refetch", "row", "cache">>,
             <<"drop", "unflag", "cache", "delete">>, <<"unflag", "cache", "delete">>,
             <<"cache", "delete">>} \cup Inserting \cup Deleting
NeedsUsage == {<<"mail">>, <<"spend", "mail">>, <<"mail", "row", "cache">>}
NeedsEmail == {<<"relink", "recent", "row", "cache">>, <<"relink", "row", "cache">>}

Copies == {u \in Users : Policy(u)} \cup {None}

Held == [steps : Programs, u : Copies, old : Emails \cup {None}, l : Links \cup {None},
         ml : MagicLinks \cup Browsers \cup Emails \cup {None}, pwd : Passwords \cup {None},
         key : Keys \cup {"NewUser", "PasswordReset", None}]

\* A request holds what its steps need.
HeldOK(q) ==
    /\ q \in Held
    /\ q.steps \in NeedsUser => q.u # None
    /\ q.steps \in NeedsLink => q.l \in Links /\ q.ml \in MagicLinks
    /\ q.steps \notin MayHaveLink => q.l = None
    /\ q.steps = <<"bind">> => q.ml.cookie \in Browsers
    /\ q.steps = <<"check">> => q.l \in Links /\ q.ml \in Browsers
    /\ q.steps \in NeedsPassword => q.pwd \in Passwords
    /\ q.steps \in NoPassword => q.pwd = None
    /\ q.steps \in NeedsKey => q.key \in Keys
    /\ q.steps \in NeedsUsage => q.key \in {"NewUser", "PasswordReset"}
    /\ q.steps \in NeedsEmail => q.ml \in Emails

\* The state is well-formed, and every copy of the user follows the policy.
ShapeInv ==
    /\ TypeOK
    /\ user \in Copies /\ byId \in Copies /\ byEmail \in [Emails -> Copies]
    /\ recent \in Seq(Passwords) \cup {None} /\ used \in Seq(Passwords)
    /\ links \in [Links -> MagicLinks \cup {None}] /\ seen \subseteq Browsers \X Links
    /\ uses \in [Links -> Nat]
    /\ regs \subseteq Keys /\ challenge \subseteq Keys
    /\ DOMAIN req = Requests
    /\ \A r \in Requests : req[r] = Idle \/ HeldOK(req[r])

\* The programs that come before the change a link stands for, and those that
\* come after it with the link still to spend
Unspent == {<<"bind">>} \cup BeforeRow \cup BeforeCache \cup Inserting
Spending == {<<"cache", "spend">>, <<"spend">>, <<"spend", "refetch", "row", "cache">>}

OnLink(r, l) == Active(r) /\ req[r].l = l
Usable(l) == links[l] # None /\ links[l].live

\* What a request with link l knows of it: the change was not made yet; the CSRF token
\* was checked; a password reset has spent the link before it writes the row.
LinkHeld(q, l) ==
    /\ q.steps \in Unspent => uses[l] = 0
    /\ q.steps \in BeforeRow /\ q.steps # <<"row", "cache", "spend">> =>
         \E b \in Browsers : <<b, l>> \in seen
    /\ q.steps = <<"row", "cache">> => ~Usable(l)

\* One request at a time uses link l, and will spend it or has done so.
LinkInv(l) ==
    /\ \A r, p \in Requests : OnLink(r, l) /\ OnLink(p, l) => r = p
    /\ uses[l] <= 1
    /\ uses[l] = 1 /\ Usable(l) => \E r \in Requests : OnLink(r, l) /\ req[r].steps \in Spending
    /\ \A r \in Requests : OnLink(r, l) => LinkHeld(req[r], l)

OneShotInv == \A l \in Links : l \notin spoilt => LinkInv(l)

\* The cached copies are the user u, under its address.
CopiesAre(u) ==
    /\ byId \in {None, u}
    /\ \A e \in Emails : byEmail[e] # None => byEmail[e] = u /\ u.email = e

\* The cached copies are under the addresses the request will write.
OnlyAt(q) == \A e \in Emails : byEmail[e] # None => e \in {q.u.email, q.old}

Unflagging == {<<"drop", "unflag", "cache", "delete">>, <<"unflag", "cache", "delete">>}
SavingKey == {<<"drop", "cache", "commit", "code">>, <<"cache", "commit", "code">>, <<"commit", "code">>}
Uncached == {<<"unflag", "cache", "delete">>, <<"cache", "delete">>, <<"delete">>}

\* What a request that works alone has done and will do.
Phase(q) ==
    /\ q.steps \in Reading => CopiesAre(user) /\ (q.steps \in Unflagging => q.old = None)
    /\ q.steps = <<"check">> => CopiesAre(user) /\ user # None /\ q.u = user
    /\ q.steps \in BeforeRow =>
         /\ CopiesAre(user) /\ user # None /\ q.u.mfa = user.mfa
         /\ user.email = IF q.old = None THEN q.u.email ELSE q.old
         /\ q.pwd # None => q.u.email # q.old
    /\ q.steps \in AfterRow => user = q.u /\ OnlyAt(q)
    /\ q.steps \in BeforeCache =>
         CopiesAre(user) /\ user # None /\ q.u.email = user.email /\ q.old = None
    /\ q.steps \in Committing =>
         IF q.u = None THEN CopiesAre(user) ELSE CopiesAre(q.u) /\ user # None
    /\ q.steps \in Deleting =>
         IF q.u = None THEN user # None /\ user.mfa => keys \ {q.key} # {} ELSE ~q.u.mfa
    /\ q.steps = <<"cache", "delete">> => ~q.u.mfa
    /\ q.steps \in SavingKey => user # None /\ q.u.mfa = user.mfa
    /\ q.steps \in Uncached => pkList = None
    /\ q.steps \in Removing => q.old = None
    /\ q.steps = <<"remove", "forget">> => CopiesAre(user) /\ q.u = user
    /\ q.steps = <<"forget">> => user = None /\ OnlyAt(q)

\* The recent passwords are the newest of all, and enough of them are kept.
RecentOf(s) ==
    /\ Unrepeated(s)
    /\ IF recent = None THEN s = <<>>
       ELSE /\ Len(recent) <= Len(s)
            /\ \A i \in 1 .. Len(recent) : recent[i] = s[i]
            /\ Len(recent) = Len(s) \/ Len(recent) >= RecentReq

\* The new password is saved among the recent ones before it is in the row.
Saved(q) == q.pwd # None /\ q.steps \in {<<"spend", "row", "cache">>, <<"row", "cache">>}
Kept(q) == RecentOf(IF Saved(q) THEN <<q.pwd>> \o used ELSE used)

AtRest == CopiesAre(user) /\ RecentOf(used)
KeysKept ==
    /\ user # None /\ user.mfa => keys # {}
    /\ user # None /\ pkList # None => pkList \subseteq keys

\* No two requests overlapped, and none failed.
Calm ==
    /\ \A r, p \in Requests : Active(r) /\ Active(p) => r = p
    /\ KeysKept
    /\ (\A r \in Requests : ~Active(r)) => AtRest
    /\ \A r \in Requests : Active(r) => Phase(req[r]) /\ Kept(req[r])

CalmInv == "user" \notin spoilt => Calm

-----------------------------------------------------------------------------
\* Programs of requests

\* Two sequences joined are a third that has the elements of both.
LEMMA Joined ==
    ASSUME NEW S, NEW s \in Seq(S), NEW t \in Seq(S), NEW u \in Seq(S),
           Len(u) = Len(s) + Len(t), \A i \in 1 .. Len(s) : s[i] = u[i],
           \A i \in 1 .. Len(t) : t[i] = u[Len(s) + i]
    PROVE  s \o t = u
<1>1. /\ s \o t \in Seq(S) /\ Len(s \o t) = Len(u)
      /\ \A i \in 1 .. Len(s) + Len(t) : (s \o t)[i] = IF i <= Len(s) THEN s[i] ELSE t[i - Len(s)]
  BY ConcatProperties
<1>2. Len(s) \in Nat /\ Len(t) \in Nat
  OBVIOUS
<1>3. ASSUME NEW i \in 1 .. Len(u) PROVE (s \o t)[i] = u[i]
  <2>1. CASE i <= Len(s)
    BY <1>1, <1>2, <2>1
  <2>2. CASE ~(i <= Len(s))
    <3>1. i - Len(s) \in 1 .. Len(t) /\ Len(s) + (i - Len(s)) = i
      BY <1>2, <2>2
    <3>2. t[i - Len(s)] = u[Len(s) + (i - Len(s))]
      BY <3>1
    <3> QED
      BY <1>1, <1>2, <2>2, <3>1, <3>2
  <2> QED
    BY <2>1, <2>2
<1> QED
  BY <1>1, <1>3, SeqEqual

\* One step and one step
LEMMA Join11 ==
    ASSUME NEW a, NEW b
    PROVE  <<a>> \o <<b>> = <<a, b>>
<1> DEFINE S == {a, b}
           s == <<a>>
           t == <<b>>
           u == <<a, b>>
<1>1. s \in Seq(S) /\ t \in Seq(S) /\ u \in Seq(S) /\ Len(s) = 1 /\ Len(t) = 1 /\ Len(u) = 2
  OBVIOUS
<1>2. /\ s[1] = u[1]
      /\ t[1] = u[2]
  OBVIOUS
<1> HIDE DEF S, s, t, u
<1>3. s \o t = u
  <2>1. \A i \in 1 .. Len(s) : s[i] = u[i]
    BY <1>1, <1>2
  <2>2. \A i \in 1 .. Len(t) : t[i] = u[Len(s) + i]
    BY <1>1, <1>2
  <2>3. s \in Seq(S) /\ t \in Seq(S) /\ u \in Seq(S) /\ Len(u) = Len(s) + Len(t)
    BY <1>1
  <2> QED
    BY <2>1, <2>2, <2>3, Joined
<1> QED
  BY <1>3 DEF s, t, u

\* One step and two
LEMMA Join12 ==
    ASSUME NEW a, NEW b, NEW c
    PROVE  <<a>> \o <<b, c>> = <<a, b, c>>
<1> DEFINE S == {a, b, c}
           s == <<a>>
           t == <<b, c>>
           u == <<a, b, c>>
<1>1. s \in Seq(S) /\ t \in Seq(S) /\ u \in Seq(S) /\ Len(s) = 1 /\ Len(t) = 2 /\ Len(u) = 3
  OBVIOUS
<1>2. /\ s[1] = u[1]
      /\ t[1] = u[2] /\ t[2] = u[3]
  OBVIOUS
<1> HIDE DEF S, s, t, u
<1>3. s \o t = u
  <2>1. \A i \in 1 .. Len(s) : s[i] = u[i]
    BY <1>1, <1>2
  <2>2. \A i \in 1 .. Len(t) : t[i] = u[Len(s) + i]
    BY <1>1, <1>2
  <2>3. s \in Seq(S) /\ t \in Seq(S) /\ u \in Seq(S) /\ Len(u) = Len(s) + Len(t)
    BY <1>1
  <2> QED
    BY <2>1, <2>2, <2>3, Joined
<1> QED
  BY <1>3 DEF s, t, u

\* Two steps and two
LEMMA Join22 ==
    ASSUME NEW a, NEW b, NEW c, NEW d
    PROVE  <<a, b>> \o <<c, d>> = <<a, b, c, d>>
<1> DEFINE S == {a, b, c, d}
           s == <<a, b>>
           t == <<c, d>>
           u == <<a, b, c, d>>
<1>1. s \in Seq(S) /\ t \in Seq(S) /\ u \in Seq(S) /\ Len(s) = 2 /\ Len(t) = 2 /\ Len(u) = 4
  OBVIOUS
<1>2. /\ s[1] = u[1] /\ s[2] = u[2]
      /\ t[1] = u[3] /\ t[2] = u[4]
  OBVIOUS
<1> HIDE DEF S, s, t, u
<1>3. s \o t = u
  <2>1. \A i \in 1 .. Len(s) : s[i] = u[i]
    BY <1>1, <1>2
  <2>2. \A i \in 1 .. Len(t) : t[i] = u[Len(s) + i]
    BY <1>1, <1>2
  <2>3. s \in Seq(S) /\ t \in Seq(S) /\ u \in Seq(S) /\ Len(u) = Len(s) + Len(t)
    BY <1>1
  <2> QED
    BY <2>1, <2>2, <2>3, Joined
<1> QED
  BY <1>3 DEF s, t, u

\* Two steps and four
LEMMA Join24 ==
    ASSUME NEW a, NEW b, NEW c, NEW d, NEW e, NEW f
    PROVE  <<a, b>> \o <<c, d, e, f>> = <<a, b, c, d, e, f>>
<1> DEFINE S == {a, b, c, d, e, f}
           s == <<a, b>>
           t == <<c, d, e, f>>
           u == <<a, b, c, d, e, f>>
<1>1. s \in Seq(S) /\ t \in Seq(S) /\ u \in Seq(S) /\ Len(s) = 2 /\ Len(t) = 4 /\ Len(u) = 6
  OBVIOUS
<1>2. /\ s[1] = u[1] /\ s[2] = u[2]
      /\ t[1] = u[3] /\ t[2] = u[4] /\ t[3] = u[5] /\ t[4] = u[6]
  OBVIOUS
<1> HIDE DEF S, s, t, u
<1>3. s \o t = u
  <2>1. \A i \in 1 .. Len(s) : s[i] = u[i]
    BY <1>1, <1>2
  <2>2. \A i \in 1 .. Len(t) : t[i] = u[Len(s) + i]
    BY <1>1, <1>2
  <2>3. s \in Seq(S) /\ t \in Seq(S) /\ u \in Seq(S) /\ Len(u) = Len(s) + Len(t)
    BY <1>1
  <2> QED
    BY <2>1, <2>2, <2>3, Joined
<1> QED
  BY <1>3 DEF s, t, u

\* Three steps and four
LEMMA Join34 ==
    ASSUME NEW a, NEW b, NEW c, NEW d, NEW e, NEW f, NEW g
    PROVE  <<a, b, c>> \o <<d, e, f, g>> = <<a, b, c, d, e, f, g>>
<1> DEFINE S == {a, b, c, d, e, f, g}
           s == <<a, b, c>>
           t == <<d, e, f, g>>
           u == <<a, b, c, d, e, f, g>>
<1>1. s \in Seq(S) /\ t \in Seq(S) /\ u \in Seq(S) /\ Len(s) = 3 /\ Len(t) = 4 /\ Len(u) = 7
  OBVIOUS
<1>2. /\ s[1] = u[1] /\ s[2] = u[2] /\ s[3] = u[3]
      /\ t[1] = u[4] /\ t[2] = u[5] /\ t[3] = u[6] /\ t[4] = u[7]
  OBVIOUS
<1> HIDE DEF S, s, t, u
<1>3. s \o t = u
  <2>1. \A i \in 1 .. Len(s) : s[i] = u[i]
    BY <1>1, <1>2
  <2>2. \A i \in 1 .. Len(t) : t[i] = u[Len(s) + i]
    BY <1>1, <1>2
  <2>3. s \in Seq(S) /\ t \in Seq(S) /\ u \in Seq(S) /\ Len(u) = Len(s) + Len(t)
    BY <1>1
  <2> QED
    BY <2>1, <2>2, <2>3, Joined
<1> QED
  BY <1>3 DEF s, t, u

\* The programs that handlers put together from parts.
LEMMA JoinedSteps ==
    /\ <<"mail">> \o SaveUser = <<"mail", "row", "cache">>
    /\ <<"recent">> \o SaveUser = <<"recent", "row", "cache">>
    /\ <<"relink">> \o SaveUser = <<"relink", "row", "cache">>
    /\ <<"relink">> \o <<"recent">> = <<"relink", "recent">>
    /\ <<"relink", "recent">> \o SaveUser = <<"relink", "recent", "row", "cache">>
    /\ <<"recent", "spend">> \o SaveUser = <<"recent", "spend", "row", "cache">>
    /\ <<"cache">> \o <<"drop", "insert">> = <<"cache", "drop", "insert">>
    /\ <<"spend", "refetch">> \o SaveUser = <<"spend", "refetch", "row", "cache">>
    /\ <<"drop", "insert">> \o <<"spend", "refetch", "row", "cache">>
         = <<"drop", "insert", "spend", "refetch", "row", "cache">>
    /\ <<"cache", "drop", "insert">> \o <<"spend", "refetch", "row", "cache">>
         = <<"cache", "drop", "insert", "spend", "refetch", "row", "cache">>
<1>1. SaveUser = <<"row", "cache">>
  BY DEF SaveUser
<1>2. <<"mail">> \o <<"row", "cache">> = <<"mail", "row", "cache">>
  BY Join12
<1>3. <<"recent">> \o <<"row", "cache">> = <<"recent", "row", "cache">>
  BY Join12
<1>4. <<"relink">> \o <<"row", "cache">> = <<"relink", "row", "cache">>
  BY Join12
<1>5. <<"relink">> \o <<"recent">> = <<"relink", "recent">>
  BY Join11
<1>6. <<"relink", "recent">> \o <<"row", "cache">> = <<"relink", "recent", "row", "cache">>
  BY Join22
<1>7. <<"recent", "spend">> \o <<"row", "cache">> = <<"recent", "spend", "row", "cache">>
  BY Join22
<1>8. <<"cache">> \o <<"drop", "insert">> = <<"cache", "drop", "insert">>
  BY Join12
<1>9. <<"spend", "refetch">> \o <<"row", "cache">> = <<"spend", "refetch", "row", "cache">>
  BY Join22
<1>10. <<"drop", "insert">> \o <<"spend", "refetch", "row", "cache">>
         = <<"drop", "insert", "spend", "refetch", "row", "cache">>
  BY Join24
<1>11. <<"cache", "drop", "insert">> \o <<"spend", "refetch", "row", "cache">>
         = <<"cache", "drop", "insert", "spend", "refetch", "row", "cache">>
  BY Join34
<1> QED
  BY <1>1, <1>2, <1>3, <1>4, <1>5, <1>6, <1>7, <1>8, <1>9, <1>10, <1>11

\* A program that has nothing in front or behind is itself.
LEMMA JoinedNothing ==
    /\ <<>> \o SaveUser = <<"row", "cache">>
    /\ <<>> \o <<"recent">> = <<"recent">>
    /\ <<"relink">> \o <<>> = <<"relink">>
    /\ <<>> \o <<>> = <<>>
    /\ <<>> \o <<"drop", "insert">> = <<"drop", "insert">>
    /\ <<"drop", "insert">> \o <<>> = <<"drop", "insert">>
    /\ <<"cache", "drop", "insert">> \o <<>> = <<"cache", "drop", "insert">>
<1> DEFINE S == {"row", "cache", "recent", "relink", "drop", "insert"}
<1>1. /\ <<>> \in Seq(S) /\ <<"row", "cache">> \in Seq(S) /\ <<"recent">> \in Seq(S)
      /\ <<"relink">> \in Seq(S) /\ <<"drop", "insert">> \in Seq(S)
      /\ <<"cache", "drop", "insert">> \in Seq(S)
  OBVIOUS
<1> HIDE DEF S
<1>2. SaveUser = <<"row", "cache">>
  BY DEF SaveUser
<1> QED
  BY <1>1, <1>2, ConcatEmptySeq

\* The next step tells which programs are possible.
LEMMA Heads ==
    ASSUME NEW s \in Programs
    PROVE  /\ s # <<>>
           /\ Head(s) = "bind" => s = <<"bind">>
           /\ Head(s) = "check" => s = <<"check">>
           /\ Head(s) = "recent" =>
                s \in {<<"recent", "spend", "row", "cache">>, <<"recent", "row", "cache">>}
           /\ Head(s) = "spend" =>
                s \in {<<"spend", "row", "cache">>, <<"spend">>, <<"spend", "mail">>,
                       <<"spend", "refetch", "row", "cache">>}
           /\ Head(s) = "mail" => s \in {<<"mail">>, <<"mail", "row", "cache">>}
           /\ Head(s) = "relink" =>
                s \in {<<"relink", "recent", "row", "cache">>, <<"relink", "row", "cache">>}
           /\ Head(s) = "row" => s \in {<<"row", "cache">>, <<"row", "cache", "spend">>}
           /\ Head(s) = "cache" =>
                s \in AfterRow \cup (BeforeCache \ {<<"drop", "cache", "commit", "code">>})
           /\ Head(s) = "drop" =>
                s \in {<<"drop", "insert">>, <<"drop", "insert", "spend", "refetch", "row", "cache">>,
                       <<"drop", "delete">>, <<"drop", "unflag", "cache", "delete">>,
                       <<"drop", "cache", "commit", "code">>}
           /\ Head(s) = "unflag" => s = <<"unflag", "cache", "delete">>
           /\ Head(s) = "insert" =>
                s \in {<<"insert">>, <<"insert", "spend", "refetch", "row", "cache">>}
           /\ Head(s) = "delete" => s = <<"delete">>
           /\ Head(s) = "commit" => s = <<"commit", "code">>
           /\ Head(s) = "refetch" => s = <<"refetch", "row", "cache">>
           /\ Head(s) = "code" => s = <<"code">>
           /\ Head(s) = "remove" => s = <<"remove", "forget">>
           /\ Head(s) = "forget" => s = <<"forget">>
<1> USE DEF Programs, BeforeRow, AfterRow, BeforeCache, Committing, Inserting, Deleting, Removing,
            Reading
<1>1. s # <<>>
  <2>1. \A t \in BeforeRow \cup AfterRow \cup BeforeCache : t # <<>> OBVIOUS
  <2>2. \A t \in Inserting : t # <<>> OBVIOUS
  <2>3. \A t \in Deleting \cup {<<"commit", "code">>} : t # <<>> OBVIOUS
  <2>4. <<"check">> # <<>> /\ \A t \in Removing : t # <<>> OBVIOUS
  <2>5. \A t \in Reading : t # <<>> OBVIOUS
  <2> HIDE DEF BeforeRow, AfterRow, BeforeCache, Inserting, Deleting, Removing, Reading
  <2> QED BY <2>1, <2>2, <2>3, <2>4, <2>5
<1>2. Head(s) = "bind" => s = <<"bind">> OBVIOUS
<1>3. Head(s) = "check" => s = <<"check">> OBVIOUS
<1>4. Head(s) = "recent" =>
        s \in {<<"recent", "spend", "row", "cache">>, <<"recent", "row", "cache">>} OBVIOUS
<1>5. Head(s) = "spend" =>
        s \in {<<"spend", "row", "cache">>, <<"spend">>, <<"spend", "mail">>,
               <<"spend", "refetch", "row", "cache">>} OBVIOUS
<1>6. Head(s) = "mail" => s \in {<<"mail">>, <<"mail", "row", "cache">>} OBVIOUS
<1>7. Head(s) = "relink" =>
        s \in {<<"relink", "recent", "row", "cache">>, <<"relink", "row", "cache">>} OBVIOUS
<1>8. Head(s) = "row" => s \in {<<"row", "cache">>, <<"row", "cache", "spend">>} OBVIOUS
<1>9. Head(s) = "cache" =>
        s \in AfterRow \cup (BeforeCache \ {<<"drop", "cache", "commit", "code">>}) OBVIOUS
<1>10. Head(s) = "drop" =>
         s \in {<<"drop", "insert">>, <<"drop", "insert", "spend", "refetch", "row", "cache">>,
                <<"drop", "delete">>, <<"drop", "unflag", "cache", "delete">>,
                <<"drop", "cache", "commit", "code">>} OBVIOUS
<1>11. Head(s) = "unflag" => s = <<"unflag", "cache", "delete">> OBVIOUS
<1>12. Head(s) = "insert" =>
         s \in {<<"insert">>, <<"insert", "spend", "refetch", "row", "cache">>} OBVIOUS
<1>13. /\ Head(s) = "delete" => s = <<"delete">>
       /\ Head(s) = "commit" => s = <<"commit", "code">> OBVIOUS
<1>14. /\ Head(s) = "refetch" => s = <<"refetch", "row", "cache">>
       /\ Head(s) = "code" => s = <<"code">> OBVIOUS
<1>15. /\ Head(s) = "remove" => s = <<"remove", "forget">>
       /\ Head(s) = "forget" => s = <<"forget">> OBVIOUS
<1> QED
  BY <1>1, <1>2, <1>3, <1>4, <1>5, <1>6, <1>7, <1>8, <1>9, <1>10, <1>11, <1>12, <1>13, <1>14, <1>15

\* What is left after a step is a program, and needs nothing new but after the
\* steps that read the user again.
LEMMA Tails ==
    ASSUME NEW s \in Programs, Len(s) # 1,
           s \notin {<<"unflag", "cache", "delete">>, <<"refetch", "row", "cache">>}
    PROVE  /\ Tail(s) \in Programs
           /\ Tail(s) \in NeedsUser => s \in NeedsUser
           /\ Tail(s) \in NeedsLink => s \in NeedsLink
           /\ Tail(s) \notin MayHaveLink => s \notin MayHaveLink
           /\ Tail(s) \notin {<<"bind">>, <<"check">>}
           /\ Tail(s) \in NeedsPassword => s \in NeedsPassword
           /\ Tail(s) \notin NoPassword /\ Tail(s) \notin NeedsEmail
           /\ Tail(s) \in NeedsKey => s \in NeedsKey
           /\ Tail(s) \in NeedsUsage => s \in NeedsUsage
<1> USE DEF Programs, BeforeRow, AfterRow, BeforeCache, Committing, Inserting, Deleting, Removing,
            Reading, NeedsUser, NeedsLink, MayHaveLink, NeedsPassword, NoPassword, NeedsEmail,
            NeedsKey, NeedsUsage
<1>1. CASE s = <<"recent", "spend", "row", "cache">>
  <2>1. Tail(s) = <<"spend", "row", "cache">> BY <1>1
  <2> QED BY <1>1, <2>1
<1>2. CASE s = <<"spend", "row", "cache">>
  <2>1. Tail(s) = <<"row", "cache">> BY <1>2
  <2> QED BY <1>2, <2>1
<1>3. CASE s = <<"row", "cache">>
  <2>1. Tail(s) = <<"cache">> BY <1>3
  <2> QED BY <1>3, <2>1
<1>4. CASE s = <<"row", "cache", "spend">>
  <2>1. Tail(s) = <<"cache", "spend">> BY <1>4
  <2> QED BY <1>4, <2>1
<1>5. CASE s = <<"mail", "row", "cache">>
  <2>1. Tail(s) = <<"row", "cache">> BY <1>5
  <2> QED BY <1>5, <2>1
<1>6. CASE s = <<"recent", "row", "cache">>
  <2>1. Tail(s) = <<"row", "cache">> BY <1>6
  <2> QED BY <1>6, <2>1
<1>7. CASE s = <<"relink", "recent", "row", "cache">>
  <2>1. Tail(s) = <<"recent", "row", "cache">> BY <1>7
  <2> QED BY <1>7, <2>1
<1>8. CASE s = <<"relink", "row", "cache">>
  <2>1. Tail(s) = <<"row", "cache">> BY <1>8
  <2> QED BY <1>8, <2>1
<1>9. CASE s = <<"cache", "spend">>
  <2>1. Tail(s) = <<"spend">> BY <1>9
  <2> QED BY <1>9, <2>1
<1>10. CASE s = <<"cache", "drop", "insert">>
  <2>1. Tail(s) = <<"drop", "insert">> BY <1>10
  <2> QED BY <1>10, <2>1
<1>11. CASE s = <<"cache", "drop", "insert", "spend", "refetch", "row", "cache">>
  <2>1. Tail(s) = <<"drop", "insert", "spend", "refetch", "row", "cache">> BY <1>11
  <2> QED BY <1>11, <2>1
<1>12. CASE s = <<"cache", "delete">>
  <2>1. Tail(s) = <<"delete">> BY <1>12
  <2> QED BY <1>12, <2>1
<1>13. CASE s = <<"drop", "cache", "commit", "code">>
  <2>1. Tail(s) = <<"cache", "commit", "code">> BY <1>13
  <2> QED BY <1>13, <2>1
<1>14. CASE s = <<"cache", "commit", "code">>
  <2>1. Tail(s) = <<"commit", "code">> BY <1>14
  <2> QED BY <1>14, <2>1
<1>15. CASE s = <<"drop", "insert">>
  <2>1. Tail(s) = <<"insert">> BY <1>15
  <2> QED BY <1>15, <2>1
<1>16. CASE s = <<"drop", "insert", "spend", "refetch", "row", "cache">>
  <2>1. Tail(s) = <<"insert", "spend", "refetch", "row", "cache">> BY <1>16
  <2> QED BY <1>16, <2>1
<1>17. CASE s = <<"insert", "spend", "refetch", "row", "cache">>
  <2>1. Tail(s) = <<"spend", "refetch", "row", "cache">> BY <1>17
  <2> QED BY <1>17, <2>1
<1>18. CASE s = <<"drop", "delete">>
  <2>1. Tail(s) = <<"delete">> BY <1>18
  <2> QED BY <1>18, <2>1
<1>19. CASE s = <<"commit", "code">>
  <2>1. Tail(s) = <<"code">> BY <1>19
  <2> QED BY <1>19, <2>1
<1>20. CASE s = <<"remove", "forget">>
  <2>1. Tail(s) = <<"forget">> BY <1>20
  <2> QED BY <1>20, <2>1
<1>21. CASE s = <<"spend", "mail">>
  <2>1. Tail(s) = <<"mail">> BY <1>21
  <2> QED BY <1>21, <2>1
<1>22. CASE s = <<"spend", "refetch", "row", "cache">>
  <2>1. Tail(s) = <<"refetch", "row", "cache">> BY <1>22
  <2> QED BY <1>22, <2>1
<1>23. CASE s = <<"drop", "unflag", "cache", "delete">>
  <2>1. Tail(s) = <<"unflag", "cache", "delete">> BY <1>23
  <2> QED BY <1>23, <2>1
<1>24. s \notin {<<"bind">>, <<"check">>, <<"cache">>, <<"insert">>, <<"delete">>, <<"spend">>,
                <<"mail">>, <<"code">>, <<"forget">>}
  OBVIOUS
<1> QED
  BY <1>1, <1>2, <1>3, <1>4, <1>5, <1>6, <1>7, <1>8, <1>9, <1>10, <1>11, <1>12, <1>13, <1>14, <1>15, <1>16, <1>17, <1>18, <1>19, <1>20, <1>21, <1>22, <1>23, <1>24
-----------------------------------------------------------------------------
\* Copies of the user and what requests hold

\* The copies that can be read are copies of the user.
LEMMA FindType ==
    ASSUME ShapeInv
    PROVE  Find \in Copies /\ \A e \in Emails : FindByEmail(e) \in Copies
BY DEF ShapeInv, Find, FindByEmail, Copies

\* A copy of the user with a new password follows the policy.
LEMMA WithPasswordType ==
    ASSUME NEW u \in Copies, u # None, NEW p \in Passwords
    PROVE  /\ WithPassword(u, p) \in Copies /\ WithPassword(u, p) # None
           /\ WithPassword(u, p).email = u.email /\ WithPassword(u, p).mfa = u.mfa
<1>1. u \in Users /\ p # None
  BY ConstantsOK DEF Copies
<1> DEFINE w == [u EXCEPT !.pwd = p, !.exp = ~(NoExpiry /\ u.mfa)]
<1>2. /\ w \in Users /\ w.pwd = p /\ w.mfa = u.mfa /\ w.email = u.email
      /\ w.exp = ~(NoExpiry /\ u.mfa)
  BY <1>1 DEF Users
<1>3. WithPassword(u, p) = w
  BY DEF WithPassword
<1> HIDE DEF w
<1>4. Policy(w)
  BY <1>1, <1>2 DEF Policy
<1> QED
  BY <1>2, <1>3, <1>4, ConstantsOK DEF Copies

\* A copy of the user under another address
LEMMA WithEmailType ==
    ASSUME NEW u \in Copies, u # None, NEW e \in Emails
    PROVE  /\ [u EXCEPT !.email = e] \in Copies /\ [u EXCEPT !.email = e] # None
           /\ [u EXCEPT !.email = e].email = e /\ [u EXCEPT !.email = e].mfa = u.mfa
<1>1. u \in Users /\ Policy(u)
  BY DEF Copies
<1> DEFINE w == [u EXCEPT !.email = e]
<1>2. /\ w \in Users /\ w.pwd = u.pwd /\ w.mfa = u.mfa /\ w.email = e /\ w.exp = u.exp
  BY <1>1 DEF Users
<1> HIDE DEF w
<1>3. Policy(w)
  BY <1>1, <1>2 DEF Policy
<1> QED
  BY <1>2, <1>3, ConstantsOK DEF Copies, w

\* The copies that passkeys make of a user follow the policy.
LEMMA MfaTypes ==
    ASSUME NEW u \in Copies, u # None
    PROVE  /\ WithoutMfa(u) \in Copies /\ WithoutMfa(u) # None
           /\ WithoutMfa(u).email = u.email /\ ~WithoutMfa(u).mfa
           /\ ~u.mfa => WithMfa(u) \in Copies /\ WithMfa(u) # None /\ WithMfa(u).email = u.email
<1>1. u \in Users /\ Policy(u)
  BY DEF Copies
<1> DEFINE w == [u EXCEPT !.mfa = FALSE, !.exp = u.pwd # None]
           v == [u EXCEPT !.mfa = TRUE, !.exp = u.exp /\ ~(u.pwd = None \/ NoExpiry)]
<1>2. w \in Users /\ w.pwd = u.pwd /\ w.mfa = FALSE /\ w.email = u.email /\ w.exp = (u.pwd # None)
  BY <1>1 DEF Users
<1>3. /\ v \in Users /\ v.pwd = u.pwd /\ v.mfa = TRUE /\ v.email = u.email
      /\ v.exp = (u.exp /\ ~(u.pwd = None \/ NoExpiry))
  BY <1>1, ConstantsOK DEF Users
<1>4. WithoutMfa(u) = w /\ WithMfa(u) = v
  BY DEF WithoutMfa, WithMfa
<1> HIDE DEF w, v
<1>5. Policy(w)
  BY <1>2 DEF Policy
<1>6. ASSUME ~u.mfa PROVE Policy(v)
  <2>1. u.exp = (u.pwd # None)
    BY <1>1, <1>6 DEF Policy
  <2> QED
    BY <1>3, <2>1, ConstantsOK DEF Policy
<1> QED
  BY <1>2, <1>3, <1>4, <1>5, <1>6, ConstantsOK DEF Copies

\* A user without a password, and one without a provider
LEMMA ConvertedTypes ==
    ASSUME NEW u \in Copies, u # None
    PROVE  /\ [u EXCEPT !.pwd = None, !.exp = FALSE] \in Copies
           /\ [u EXCEPT !.pwd = None, !.exp = FALSE] # None
           /\ [u EXCEPT !.pwd = None, !.exp = FALSE].email = u.email
           /\ [u EXCEPT !.pwd = None, !.exp = FALSE].mfa = u.mfa
           /\ [u EXCEPT !.fed = FALSE] \in Copies /\ [u EXCEPT !.fed = FALSE] # None
           /\ [u EXCEPT !.fed = FALSE].email = u.email /\ [u EXCEPT !.fed = FALSE].mfa = u.mfa
<1>1. u \in Users /\ Policy(u)
  BY DEF Copies
<1> DEFINE w == [u EXCEPT !.pwd = None, !.exp = FALSE]
           v == [u EXCEPT !.fed = FALSE]
<1>2. w \in Users /\ w.pwd = None /\ w.mfa = u.mfa /\ w.email = u.email /\ w.exp = FALSE
  BY <1>1 DEF Users
<1>3. v \in Users /\ v.pwd = u.pwd /\ v.mfa = u.mfa /\ v.email = u.email /\ v.exp = u.exp
  BY <1>1 DEF Users
<1> HIDE DEF w, v
<1>4. Policy(w) /\ Policy(v)
  BY <1>1, <1>2, <1>3 DEF Policy
<1> QED
  BY <1>2, <1>3, <1>4, ConstantsOK DEF Copies, w, v

\* A new user follows the policy.
LEMMA NewUserType ==
    ASSUME NEW e \in Emails, NEW fed \in BOOLEAN
    PROVE  NewUser(e, fed) \in Copies /\ NewUser(e, fed) # None /\ ~NewUser(e, fed).mfa
<1> DEFINE w == [email |-> e, pwd |-> None, mfa |-> FALSE, fed |-> fed, exp |-> FALSE]
<1>1. w \in Users /\ w.pwd = None /\ w.exp = FALSE /\ w.mfa = FALSE
  BY DEF Users
<1> HIDE DEF w
<1>2. Policy(w)
  BY <1>1 DEF Policy
<1> QED
  BY <1>1, <1>2, ConstantsOK DEF Copies, NewUser, w

\* A link that is written back keeps what it is for.
LEMMA SavedLinkType ==
    ASSUME ShapeInv, NEW l \in Links, NEW ml, ml.cookie \in Browsers \cup {None}, ml.live \in BOOLEAN
    PROVE  /\ SavedLink(l, ml) \in [Links -> MagicLinks \cup {None}]
           /\ \A k \in Links : k # l => SavedLink(l, ml)[k] = links[k]
           /\ \A k \in Links : SavedLink(l, ml)[k] = None <=> links[k] = None
           /\ links[l] # None => SavedLink(l, ml)[l].live = ml.live
<1>1. links \in [Links -> MagicLinks \cup {None}]
  BY DEF ShapeInv
<1>2. CASE links[l] = None
  BY <1>1, <1>2 DEF SavedLink
<1>3. CASE links[l] # None
  <2>1. links[l] \in MagicLinks
    BY <1>1, <1>3
  <2> DEFINE w == [links[l] EXCEPT !.cookie = ml.cookie, !.live = ml.live]
  <2>2. w \in MagicLinks /\ w.live = ml.live
    BY <2>1 DEF MagicLinks
  <2>3. SavedLink(l, ml) = [links EXCEPT ![l] = w]
    BY <1>1, <1>3, <2>1 DEF SavedLink
  <2> HIDE DEF w
  <2> QED
    BY <1>1, <1>3, <2>2, <2>3, ConstantsOK
<1> QED
  BY <1>2, <1>3

\* A request after a step that reads nothing new.
After(q, w) ==
    /\ w.steps = Tail(q.steps) /\ w.u = q.u /\ w.old = q.old /\ w.l = q.l /\ w.ml = q.ml
    /\ w.pwd = q.pwd /\ w.key = q.key

\* It holds what the steps left need.
LEMMA AfterHeld ==
    ASSUME NEW q, HeldOK(q), Len(q.steps) # 1,
           q.steps \notin {<<"unflag", "cache", "delete">>, <<"refetch", "row", "cache">>}
    PROVE  HeldOK([q EXCEPT !.steps = Tail(@)]) /\ After(q, [q EXCEPT !.steps = Tail(@)])
<1>1. q \in Held /\ q.steps \in Programs
  BY DEF HeldOK, Held
<1> DEFINE s == q.steps
           t == Tail(s)
<1>2. /\ t \in Programs
      /\ t \in NeedsUser => s \in NeedsUser
      /\ t \in NeedsLink => s \in NeedsLink
      /\ t \notin MayHaveLink => s \notin MayHaveLink
      /\ t \notin {<<"bind">>, <<"check">>}
      /\ t \in NeedsPassword => s \in NeedsPassword
      /\ t \notin NoPassword /\ t \notin NeedsEmail
      /\ t \in NeedsKey => s \in NeedsKey
      /\ t \in NeedsUsage => s \in NeedsUsage
  BY <1>1, Tails
<1> DEFINE w == [q EXCEPT !.steps = t]
<1> HIDE DEF t
<1>3. w \in Held /\ w.steps = t /\ w.u = q.u /\ w.old = q.old /\ w.l = q.l /\ w.ml = q.ml
      /\ w.pwd = q.pwd /\ w.key = q.key
  BY <1>1, <1>2 DEF Held
<1>4. w = [q EXCEPT !.steps = Tail(@)]
  BY DEF t
<1> HIDE DEF w
<1>5. HeldOK(w)
  BY <1>2, <1>3 DEF HeldOK
<1>6. After(q, w)
  BY <1>3 DEF After, t
<1> QED
  BY <1>4, <1>5, <1>6

\* The record of one request changes.
LEMMA OneOp ==
    ASSUME ShapeInv, NEW r \in Requests, NEW w, req' = [req EXCEPT ![r] = w]
    PROVE  /\ DOMAIN req' = Requests /\ req'[r] = w
           /\ \A p \in Requests : p # r => req'[p] = req[p]
           /\ w = Idle \/ HeldOK(w) => \A p \in Requests : req'[p] = Idle \/ HeldOK(req'[p])
BY DEF ShapeInv

\* A request that holds something is active, and its next step is its first one.
LEMMA HeldActive ==
    ASSUME NEW q, HeldOK(q)
    PROVE  q # Idle /\ q.steps \in Programs
<1>1. q.steps \in Programs
  BY DEF HeldOK, Held
<1>2. q.steps # <<>>
  BY <1>1, Heads
<1> QED
  BY <1>1, <1>2 DEF Idle

\* The next step of an active request
LEMMA NextStep ==
    ASSUME ShapeInv, NEW r \in Requests, Head1(r) # "none"
    PROVE  /\ Active(r) /\ HeldOK(req[r]) /\ req[r].steps \in Programs
           /\ Head1(r) = Head(req[r].steps)
<1>1. req[r] # Idle
  BY DEF Head1
<1>2. HeldOK(req[r])
  BY <1>1 DEF ShapeInv
<1> QED
  BY <1>1, <1>2, HeldActive DEF Active, Head1

\* What Done does.
LEMMA DoneType ==
    ASSUME ShapeInv, NEW r \in Requests, HeldOK(req[r]), Done(r),
           req[r].steps \notin {<<"unflag", "cache", "delete">>, <<"refetch", "row", "cache">>}
    PROVE  \E w : /\ req' = [req EXCEPT ![r] = w]
                  /\ IF Len(req[r].steps) = 1 THEN w = Idle ELSE HeldOK(w) /\ After(req[r], w)
<1>1. CASE Len(req[r].steps) = 1
  BY <1>1 DEF Done
<1>2. CASE Len(req[r].steps) # 1
  <2>1. PICK w : w = [req[r] EXCEPT !.steps = Tail(@)]
    OBVIOUS
  <2>2. req' = [req EXCEPT ![r] = w]
    BY <1>2, <2>1 DEF Done
  <2>3. HeldOK(w) /\ After(req[r], w)
    BY <1>2, <2>1, AfterHeld
  <2> QED
    BY <1>2, <2>2, <2>3
<1> QED
  BY <1>1, <1>2
-----------------------------------------------------------------------------
\* The beginning of a request

\* The programs that requests begin with; those of the second set use a link.
LinkPrograms ==
    {<<"bind">>, <<"row", "cache", "spend">>,
     <<"cache", "drop", "insert", "spend", "refetch", "row", "cache">>,
     <<"drop", "insert", "spend", "refetch", "row", "cache">>}
Starting ==
    {<<"check">>, <<"mail">>, <<"spend", "mail">>, <<"mail", "row", "cache">>, <<"row", "cache">>,
     <<"recent", "row", "cache">>, <<"relink", "recent", "row", "cache">>,
     <<"relink", "row", "cache">>, <<"cache", "drop", "insert">>, <<"drop", "insert">>,
     <<"drop", "unflag", "cache", "delete">>, <<"drop", "delete">>,
     <<"drop", "cache", "commit", "code">>, <<"code">>, <<"remove", "forget">>} \cup LinkPrograms

\* What a request begins with, from a copy v of the user
FromCopy(op, v) ==
    /\ v # None /\ (v \in {Find, user} \/ \E e \in Emails : v = FindByEmail(e))
    /\ op.steps \in {<<"check">>, <<"drop", "cache", "commit", "code">>, <<"remove", "forget">>} => op.u = v
    /\ op.steps \in BeforeRow =>
         /\ v.email = (IF op.old = None THEN op.u.email ELSE op.old) /\ op.u.mfa = v.mfa
         /\ op.pwd # None => op.u.email # op.old
    /\ op.steps \in BeforeCache => op.u.email = v.email

\* What all requests do when they begin
Starts(r, op) ==
    /\ Begin(r, op) /\ HeldOK(op) /\ op.steps \in Starting
    /\ UNCHANGED <<store, seen, challenge>>
    /\ byId' \in {byId, Find} /\ pkList' \in {pkList, find_for_user, find_for_user_with_uv}
    /\ \/ byEmail' = byEmail
       \/ \E e \in Emails : /\ FindByEmail(e) # None
                            /\ byEmail' = [byEmail EXCEPT ![e] = FindByEmail(e)]
    /\ regs' \subseteq regs /\ codes' \in Nat
    /\ op.steps \in LinkPrograms => op.l \in Links /\ links[op.l] # None /\ links[op.l].live
    /\ op.l # None => op.steps \in LinkPrograms \cup {<<"check">>, <<"mail">>, <<"spend", "mail">>}
    /\ op.steps \in NeedsUser => \E v : FromCopy(op, v)
    /\ op.steps \in Inserting \cup Deleting => op.u = None
    /\ op.steps = <<"drop", "delete">> => ~IsLast
    /\ op.steps = <<"row", "cache">> => op.pwd = None
    /\ op.steps \in BeforeCache \cup Removing \cup Unflagging => op.old = None

\* handle_get_pwd_reset
LEMMA BindStarts ==
    ASSUME ShapeInv, NEW r \in Requests, NEW b \in Browsers, NEW l \in Links,
           handle_get_pwd_reset(r, b, l)
    PROVE  \E op : Starts(r, op)
<1> USE DEF Programs, BeforeRow, AfterRow, BeforeCache, Inserting, Deleting, Committing, Removing,
            Reading, NeedsUser, NeedsLink, MayHaveLink, NeedsPassword, NoPassword, NeedsKey,
            NeedsUsage, NeedsEmail, LinkPrograms, Starting, Unflagging
<1>1. PICK ml : ml = [links[l] EXCEPT !.cookie = b]
  OBVIOUS
<1>2. links[l] \in MagicLinks /\ links[l] # None /\ links[l].live /\ Find # None
  BY DEF handle_get_pwd_reset, ValidLink, ShapeInv
<1>3. ml \in MagicLinks /\ ml.cookie = b
  BY <1>1, <1>2 DEF MagicLinks
<1>4. PICK op : op = Op(<<"bind">>, None, None, l, ml, None, None)
  OBVIOUS
<1>5. /\ op \in Held /\ op.steps = <<"bind">> /\ op.u = None /\ op.l = l /\ op.ml = ml
      /\ op.old = None
  BY <1>3, <1>4 DEF Op, Held, Copies
<1>6. HeldOK(op)
  BY <1>3, <1>5 DEF HeldOK
<1>7. Begin(r, op) /\ UNCHANGED <<store, byEmail, pkList, webauthn, seen>> /\ byId' = Find
  BY <1>1, <1>4 DEF handle_get_pwd_reset
<1>8. codes' \in Nat
  BY <1>7 DEF ShapeInv, TypeOK, webauthn
<1>9. /\ op.steps \in Starting \cap LinkPrograms
      /\ op.steps \notin NeedsUser \cup {<<"drop", "delete">>, <<"row", "cache">>}
  BY <1>5
<1>10. UNCHANGED <<store, seen, challenge>> /\ regs' \subseteq regs
  BY <1>7 DEF webauthn
<1> HIDE DEF Starting, LinkPrograms, Inserting, Deleting, NeedsUser, BeforeCache, Removing, Unflagging
<1> QED
  BY <1>2, <1>5, <1>6, <1>7, <1>8, <1>9, <1>10 DEF Starts

\* handle_put_user_password_reset
LEMMA ResetStarts ==
    ASSUME ShapeInv, NEW r \in Requests, NEW b \in Browsers, NEW l \in Links, NEW p \in Passwords,
           handle_put_user_password_reset(r, b, l, p)
    PROVE  \E op : Starts(r, op)
<1> USE DEF Programs, BeforeRow, AfterRow, BeforeCache, Inserting, Deleting, Committing, Removing,
            Reading, NeedsUser, NeedsLink, MayHaveLink, NeedsPassword, NoPassword, NeedsKey,
            NeedsUsage, NeedsEmail, LinkPrograms, Starting, Unflagging
<1>1. PICK op : op = Op(<<"check">>, Find, None, l, b, p, None)
  OBVIOUS
<1>2. Find \in Copies /\ Find # None
  BY FindType DEF handle_put_user_password_reset
<1>3. /\ op \in Held /\ op.steps = <<"check">> /\ op.u = Find /\ op.l = l /\ op.ml = b
      /\ op.pwd = p /\ op.old = None
  BY <1>1, <1>2 DEF Op, Held, Copies
<1>4. HeldOK(op)
  BY <1>2, <1>3 DEF HeldOK
<1>5. Begin(r, op) /\ UNCHANGED <<store, byEmail, pkList, webauthn, seen>> /\ byId' = Find
  BY <1>1 DEF handle_put_user_password_reset
<1>6. codes' \in Nat
  BY <1>5 DEF ShapeInv, TypeOK, webauthn
<1>7. FromCopy(op, Find)
  BY <1>2, <1>3 DEF FromCopy
<1> QED
  BY <1>3, <1>4, <1>5, <1>6, <1>7 DEF Starts, webauthn

\* User::confirm_email_address
LEMMA ConfirmStarts ==
    ASSUME ShapeInv, NEW r \in Requests, NEW b \in Browsers, NEW l \in Links,
           confirm_email_address(r, b, l)
    PROVE  \E op : Starts(r, op)
<1> USE DEF Programs, BeforeRow, AfterRow, BeforeCache, Inserting, Deleting, Committing, Removing,
            Reading, NeedsUser, NeedsLink, MayHaveLink, NeedsPassword, NoPassword, NeedsKey,
            NeedsUsage, NeedsEmail, LinkPrograms, Starting, Unflagging
<1>1. /\ links[l] \in MagicLinks /\ links[l] # None /\ links[l].live /\ Find # None
      /\ links[l].usage = "EmailChange"
  BY DEF confirm_email_address, ValidLink, ShapeInv
<1>2. links[l].email \in Emails
  BY <1>1 DEF MagicLinks
<1>3. Find \in Copies /\ Find.email \in Emails
  <2>1. Find \in Copies
    BY FindType
  <2> QED
    BY <1>1, <2>1 DEF Copies, Users
<1>4. PICK u : u = [Find EXCEPT !.email = links[l].email]
  OBVIOUS
<1>5. u \in Copies /\ u # None /\ u.mfa = Find.mfa
  BY <1>1, <1>2, <1>3, <1>4, WithEmailType
<1>6. PICK op : op = Op(<<"row", "cache", "spend">>, u, Find.email, l, links[l], None, None)
  OBVIOUS
<1>7. /\ op \in Held /\ op.steps = <<"row", "cache", "spend">> /\ op.u = u /\ op.l = l
      /\ op.ml = links[l] /\ op.pwd = None /\ op.old = Find.email
  BY <1>1, <1>3, <1>5, <1>6 DEF Op, Held, Copies
<1>8. HeldOK(op)
  BY <1>1, <1>5, <1>7 DEF HeldOK
<1>9. Begin(r, op) /\ UNCHANGED <<store, byEmail, pkList, webauthn, seen>> /\ byId' = Find
  BY <1>4, <1>6 DEF confirm_email_address
<1>10. codes' \in Nat
  BY <1>9 DEF ShapeInv, TypeOK, webauthn
<1>11. FromCopy(op, Find)
  <2>1. Find.email = IF op.old = None THEN op.u.email ELSE op.old
    BY <1>3, <1>7, ConstantsOK
  <2> QED
    BY <1>1, <1>5, <1>7, <2>1 DEF FromCopy
<1>12. op.steps \notin BeforeCache \cup Removing \cup Unflagging
  BY <1>7
<1> QED
  BY <1>1, <1>7, <1>8, <1>9, <1>10, <1>11, <1>12 DEF Starts, webauthn

\* User::request_password_reset
LEMMA RequestResetStarts ==
    ASSUME ShapeInv, NEW r \in Requests, NEW e \in Emails, request_password_reset(r, e)
    PROVE  \E op : Starts(r, op)
<1> USE DEF Programs, BeforeRow, AfterRow, BeforeCache, Inserting, Deleting, Committing, Removing,
            Reading, NeedsUser, NeedsLink, MayHaveLink, NeedsPassword, NoPassword, NeedsKey,
            NeedsUsage, NeedsEmail, LinkPrograms, Starting, Unflagging
<1>1. PICK u : u = FindByEmail(e)
  OBVIOUS
<1>2. PICK usage : usage = IF u.pwd = None /\ ~u.mfa THEN "NewUser" ELSE "PasswordReset"
  OBVIOUS
<1>3. u \in Copies /\ u # None /\ usage \in {"NewUser", "PasswordReset"}
  BY <1>1, <1>2, FindType DEF request_password_reset
<1>4. /\ UNCHANGED <<store, byId, pkList, webauthn, seen>>
      /\ byEmail' = [byEmail EXCEPT ![e] = FindByEmail(e)] /\ FindByEmail(e) # None
  BY DEF request_password_reset
<1>5. codes' \in Nat
  BY <1>4 DEF ShapeInv, TypeOK, webauthn
<1>6. \/ Begin(r, Op(<<"mail">>, u, None, None, None, None, usage))
      \/ \E l \in Links, s \in {<<"spend", "mail">>, <<"mail">>} :
            links[l] # None /\ Begin(r, Op(s, u, None, l, links[l], None, usage))
  <2>1. \/ Begin(r, Op(<<"mail">>, u, None, None, None, None, usage))
        \/ \E l \in Links : /\ links[l] # None
                            /\ Begin(r, Op(IF links[l].live THEN <<"spend", "mail">> ELSE <<"mail">>,
                                           u, None, l, IF l = None THEN None ELSE links[l], None, usage))
    BY <1>1, <1>2 DEF request_password_reset
  <2> QED
    BY <2>1, ConstantsOK
<1>7. ASSUME NEW l \in Links \cup {None}, NEW ml \in MagicLinks \cup {None},
             NEW s \in {<<"spend", "mail">>, <<"mail">>},
             s = <<"spend", "mail">> => l \in Links /\ ml \in MagicLinks,
             Begin(r, Op(s, u, None, l, ml, None, usage))
      PROVE  \E op : Starts(r, op)
  <2>1. PICK op : op = Op(s, u, None, l, ml, None, usage)
    OBVIOUS
  <2>2. /\ op \in Held /\ op.steps = s /\ op.u = u /\ op.l = l /\ op.ml = ml /\ op.key = usage
        /\ op.old = None
    BY <1>3, <1>7, <2>1 DEF Op, Held, Copies
  <2>3. HeldOK(op)
    BY <1>3, <1>7, <2>2 DEF HeldOK
  <2>4. Begin(r, op)
    BY <1>7, <2>1
  <2>5. op.steps \in {<<"spend", "mail">>, <<"mail">>}
    BY <2>2
  <2>6. /\ op.steps \in Starting \ (LinkPrograms \cup Inserting \cup Deleting \cup NeedsUser)
        /\ op.steps \notin {<<"drop", "delete">>, <<"row", "cache">>}
    BY <2>5
  <2>7. UNCHANGED <<store, seen, challenge>> /\ regs' \subseteq regs
    BY <1>4 DEF webauthn
  <2> HIDE DEF Starting, LinkPrograms, Inserting, Deleting, NeedsUser, BeforeCache, Removing, Unflagging
  <2> QED
    BY <1>4, <1>5, <2>2, <2>3, <2>4, <2>5, <2>6, <2>7 DEF Starts
<1>8. \A l \in Links : links[l] # None => links[l] \in MagicLinks
  BY DEF ShapeInv
<1> QED
  BY <1>6, <1>7, <1>8

\* grant_type_password
LEMMA PasswordStarts ==
    ASSUME ShapeInv, NEW r \in Requests, NEW e \in Emails, NEW p \in Passwords,
           NEW expired \in BOOLEAN, grant_type_password(r, e, p, expired)
    PROVE  \E op : Starts(r, op)
<1> USE DEF Programs, BeforeRow, AfterRow, BeforeCache, Inserting, Deleting, Committing, Removing,
            Reading, NeedsUser, NeedsLink, MayHaveLink, NeedsPassword, NoPassword, NeedsKey,
            NeedsUsage, NeedsEmail, LinkPrograms, Starting, Unflagging
<1>1. PICK u : u = FindByEmail(e)
  OBVIOUS
<1>2. PICK s : s = validate_password(u, p, expired) \o SaveUser
  OBVIOUS
<1>3. s \in {<<"mail", "row", "cache">>, <<"row", "cache">>}
  BY <1>2, JoinedSteps, JoinedNothing DEF validate_password
<1>4. u \in Copies /\ u # None
  BY <1>1, FindType DEF grant_type_password
<1>5. PICK op : op = Op(s, u, None, None, None, None, "PasswordReset")
  OBVIOUS
<1>6. /\ op \in Held /\ op.steps = s /\ op.u = u /\ op.l = None /\ op.pwd = None
      /\ op.key = "PasswordReset" /\ op.old = None
  BY <1>3, <1>4, <1>5 DEF Op, Held, Copies
<1>7. HeldOK(op)
  BY <1>3, <1>4, <1>6 DEF HeldOK
<1>8. /\ Begin(r, op) /\ UNCHANGED <<store, byId, pkList, webauthn, seen>>
      /\ byEmail' = [byEmail EXCEPT ![e] = FindByEmail(e)] /\ FindByEmail(e) # None
  BY <1>1, <1>2, <1>5 DEF grant_type_password
<1>9. codes' \in Nat
  BY <1>8 DEF ShapeInv, TypeOK, webauthn
<1>10. FromCopy(op, u)
  <2>1. op.steps \notin {<<"check">>, <<"drop", "cache", "commit", "code">>, <<"remove", "forget">>}
    BY <1>3, <1>6
  <2> HIDE DEF BeforeRow, BeforeCache
  <2> QED
    BY <1>1, <1>4, <1>6, <2>1 DEF FromCopy
<1>11. /\ op.steps \in {<<"mail", "row", "cache">>, <<"row", "cache">>}
       /\ op.l = None /\ op.pwd = None
  BY <1>3, <1>6
<1>12. /\ op.steps \in Starting \ (LinkPrograms \cup Inserting \cup Deleting)
       /\ op.steps # <<"drop", "delete">>
  BY <1>11
<1>13. UNCHANGED <<store, seen, challenge>> /\ regs' \subseteq regs
  BY <1>8 DEF webauthn
<1> HIDE DEF Starting, LinkPrograms, Inserting, Deleting, NeedsUser, BeforeCache, Removing, Unflagging
<1> QED
  BY <1>6, <1>7, <1>8, <1>9, <1>10, <1>11, <1>12, <1>13 DEF Starts

\* User::update
LEMMA UpdateStarts ==
    ASSUME ShapeInv, NEW r \in Requests, NEW e \in Emails, NEW p \in Passwords \cup {None},
           update(r, e, p)
    PROVE  \E op : Starts(r, op)
<1> USE DEF Programs, BeforeRow, AfterRow, BeforeCache, Inserting, Deleting, Committing, Removing,
            Reading, NeedsUser, NeedsLink, MayHaveLink, NeedsPassword, NoPassword, NeedsKey,
            NeedsUsage, NeedsEmail, LinkPrograms, Starting, Unflagging
<1>1. PICK s : s = IF p = None THEN SaveUser ELSE <<"recent">> \o SaveUser
  OBVIOUS
<1>2. s = IF p = None THEN <<"row", "cache">> ELSE <<"recent", "row", "cache">>
  BY <1>1, JoinedSteps DEF SaveUser
<1>3. Find \in Copies /\ Find # None /\ Find.email \in Emails
  <2>1. Find \in Copies /\ Find # None
    BY FindType DEF update
  <2> QED
    BY <2>1 DEF Copies, Users
<1>4. PICK v : v = IF p = None THEN Find ELSE WithPassword(Find, p)
  OBVIOUS
<1>5. v \in Copies /\ v # None /\ v.mfa = Find.mfa /\ v.email = Find.email
  BY <1>3, <1>4, WithPasswordType
<1>6. PICK u : u = [v EXCEPT !.email = e]
  OBVIOUS
<1>7. u \in Copies /\ u # None /\ u.mfa = Find.mfa /\ u.email = e
  BY <1>5, <1>6, WithEmailType
<1>8. PICK old : old = IF e = Find.email THEN None ELSE Find.email
  OBVIOUS
<1>9. PICK op : op = Op(s, u, old, None, None, p, None)
  OBVIOUS
<1>10. old \in Emails \cup {None} /\ Find.email \in {u.email, old}
  BY <1>3, <1>7, <1>8
<1>11. /\ op \in Held /\ op.steps = s /\ op.u = u /\ op.l = None /\ op.pwd = p /\ op.old = old
  BY <1>2, <1>7, <1>9, <1>10 DEF Op, Held, Copies
<1>12. HeldOK(op)
  BY <1>2, <1>7, <1>11 DEF HeldOK
<1>13. Begin(r, op) /\ UNCHANGED <<store, byEmail, pkList, webauthn, seen>> /\ byId' = Find
  BY <1>1, <1>4, <1>6, <1>8, <1>9 DEF update
<1>14. codes' \in Nat
  BY <1>13 DEF ShapeInv, TypeOK, webauthn
<1>15. FromCopy(op, Find)
  <2>1. op.steps \notin {<<"check">>, <<"drop", "cache", "commit", "code">>, <<"remove", "forget">>} \cup BeforeCache
    BY <1>2, <1>11
  <2>2. Find.email = (IF op.old = None THEN op.u.email ELSE op.old) /\ op.u.email # op.old
    BY <1>3, <1>7, <1>8, <1>11, ConstantsOK
  <2> HIDE DEF BeforeRow, BeforeCache
  <2> QED
    BY <1>3, <1>7, <1>11, <2>1, <2>2 DEF FromCopy
<1>16. op.steps \in {<<"row", "cache">>, <<"recent", "row", "cache">>}
       /\ (op.steps = <<"row", "cache">> => op.pwd = None)
  BY <1>2, <1>11
<1>17. op.steps \notin BeforeCache \cup Removing \cup Unflagging
  BY <1>16
<1> QED
  BY <1>11, <1>12, <1>13, <1>14, <1>15, <1>16, <1>17 DEF Starts, webauthn

\* User::update_self_req
LEMMA UpdateSelfStarts ==
    ASSUME ShapeInv, NEW r \in Requests, NEW e \in Emails, NEW p \in Passwords \cup {None},
           NEW cur \in Passwords \cup {None}, update_self_req(r, p, cur, e)
    PROVE  \E op : Starts(r, op)
<1> USE DEF Programs, BeforeRow, AfterRow, BeforeCache, Inserting, Deleting, Committing, Removing,
            Reading, NeedsUser, NeedsLink, MayHaveLink, NeedsPassword, NoPassword, NeedsKey,
            NeedsUsage, NeedsEmail, LinkPrograms, Starting, Unflagging
<1>1. PICK s : s = ((IF e # Find.email THEN <<"relink">> ELSE <<>>)
                     \o (IF p # None THEN <<"recent">> ELSE <<>>)) \o SaveUser
  OBVIOUS
<1>2. /\ p # None => s \in {<<"relink", "recent", "row", "cache">>, <<"recent", "row", "cache">>}
      /\ p = None => s \in {<<"relink", "row", "cache">>, <<"row", "cache">>}
  BY <1>1, JoinedSteps, JoinedNothing
<1>3. Find \in Copies /\ Find # None
  BY FindType DEF update_self_req
<1>4. PICK u : u = IF p = None THEN Find ELSE WithPassword(Find, p)
  OBVIOUS
<1>5. u \in Copies /\ u # None /\ u.mfa = Find.mfa /\ u.email = Find.email
  BY <1>3, <1>4, WithPasswordType
<1>6. PICK op : op = Op(s, u, None, None, e, p, None)
  OBVIOUS
<1>7. s \in Programs
  BY <1>2
<1>8. /\ op \in Held /\ op.steps = s /\ op.u = u /\ op.l = None /\ op.pwd = p /\ op.ml = e
      /\ op.old = None
  BY <1>5, <1>6, <1>7 DEF Op, Held, Copies
<1>9. HeldOK(op)
  BY <1>2, <1>5, <1>8 DEF HeldOK
<1>10. Begin(r, op) /\ UNCHANGED <<store, byEmail, pkList, regs, challenge, seen>> /\ byId' = Find
  BY <1>1, <1>4, <1>6 DEF update_self_req
<1>11. codes' \in Nat
  <2>1. codes \in Nat
    BY DEF ShapeInv, TypeOK
  <2>2. p # None /\ cur = None => codes > 0
    BY DEF update_self_req
  <2> QED
    BY <2>1, <2>2 DEF update_self_req
<1>12. FromCopy(op, Find)
  <2>1. op.steps \notin {<<"check">>, <<"drop", "cache", "commit", "code">>, <<"remove", "forget">>} \cup BeforeCache
    BY <1>2, <1>8
  <2>2. op.u.email # op.old
    BY <1>5, <1>8, ConstantsOK DEF Copies, Users
  <2> HIDE DEF BeforeRow, BeforeCache
  <2> QED
    BY <1>3, <1>5, <1>8, <2>1, <2>2 DEF FromCopy
<1>13. op.steps \in {<<"relink", "recent", "row", "cache">>, <<"recent", "row", "cache">>,
                     <<"relink", "row", "cache">>, <<"row", "cache">>}
       /\ (op.steps = <<"row", "cache">> => op.pwd = None)
  BY <1>2, <1>8
<1> QED
  BY <1>8, <1>9, <1>10, <1>11, <1>12, <1>13 DEF Starts

\* User::convert_to_passkey and User::provider_unlink
LEMMA ConvertStarts ==
    ASSUME ShapeInv, NEW r \in Requests, convert_to_passkey(r) \/ provider_unlink(r)
    PROVE  \E op : Starts(r, op)
<1> USE DEF Programs, BeforeRow, AfterRow, BeforeCache, Inserting, Deleting, Committing, Removing,
            Reading, NeedsUser, NeedsLink, MayHaveLink, NeedsPassword, NoPassword, NeedsKey,
            NeedsUsage, NeedsEmail, LinkPrograms, Starting, Unflagging
<1>1. Find \in Copies /\ Find # None
  BY FindType DEF convert_to_passkey, provider_unlink
<1>2. PICK u \in {[Find EXCEPT !.pwd = None, !.exp = FALSE], [Find EXCEPT !.fed = FALSE]} :
         Begin(r, Op(<<"row", "cache">>, u, None, None, None, None, None))
  BY DEF convert_to_passkey, provider_unlink, SaveUser
<1>3. u \in Copies /\ u # None /\ u.mfa = Find.mfa /\ u.email = Find.email
  BY <1>1, <1>2, ConvertedTypes
<1>4. PICK op : op = Op(<<"row", "cache">>, u, None, None, None, None, None)
  OBVIOUS
<1>5. /\ op \in Held /\ op.steps = <<"row", "cache">> /\ op.u = u /\ op.l = None /\ op.pwd = None
      /\ op.old = None
  BY <1>3, <1>4 DEF Op, Held, Copies
<1>6. HeldOK(op)
  BY <1>3, <1>5 DEF HeldOK
<1>7. /\ Begin(r, op) /\ UNCHANGED <<store, byEmail, webauthn, seen>> /\ byId' = Find
      /\ pkList' \in {pkList, find_for_user_with_uv}
  BY <1>2, <1>4 DEF convert_to_passkey, provider_unlink
<1>8. codes' \in Nat
  BY <1>7 DEF ShapeInv, TypeOK, webauthn
<1>9. FromCopy(op, Find)
  BY <1>1, <1>3, <1>5 DEF FromCopy
<1> QED
  BY <1>5, <1>6, <1>7, <1>8, <1>9 DEF Starts, webauthn

\* webauthn::reg_finish, with or without a link
LEMMA RegFinishStarts ==
    ASSUME ShapeInv, NEW r \in Requests, NEW k \in Keys, NEW l \in Links \cup {None}, reg_finish(r, l, k),
           l # None => links[l] # None /\ links[l].live
    PROVE  \E op : Starts(r, op)
<1> USE DEF Programs, BeforeRow, AfterRow, BeforeCache, Inserting, Deleting, Committing, Removing,
            Reading, NeedsUser, NeedsLink, MayHaveLink, NeedsPassword, NoPassword, NeedsKey,
            NeedsUsage, NeedsEmail, LinkPrograms, Starting, Unflagging
<1>1. PICK s : s = ((IF Find.mfa THEN <<>> ELSE <<"cache">>) \o <<"drop", "insert">>)
                     \o (IF l # None THEN <<"spend", "refetch">> \o SaveUser ELSE <<>>)
  OBVIOUS
<1>2. s = IF Find.mfa
          THEN IF l # None THEN <<"drop", "insert", "spend", "refetch", "row", "cache">>
               ELSE <<"drop", "insert">>
          ELSE IF l # None THEN <<"cache", "drop", "insert", "spend", "refetch", "row", "cache">>
               ELSE <<"cache", "drop", "insert">>
  BY <1>1, JoinedSteps, JoinedNothing
<1>3. Find \in Copies /\ Find # None
  BY FindType DEF reg_finish
<1>4. PICK u : u = IF Find.mfa THEN None ELSE WithMfa(Find)
  OBVIOUS
<1>5. u \in Copies /\ (Find.mfa => u = None) /\ (~Find.mfa => u # None /\ u.email = Find.email)
  BY <1>3, <1>4, MfaTypes DEF Copies
<1>6. PICK ml : ml = IF l = None THEN None ELSE links[l]
  OBVIOUS
<1>7. l # None => ml \in MagicLinks
  BY <1>6 DEF ShapeInv
<1>8. PICK op : op = Op(s, u, None, l, ml, None, k)
  OBVIOUS
<1>9. s \in Programs
  BY <1>2
<1>10. /\ op \in Held /\ op.steps = s /\ op.u = u /\ op.l = l /\ op.pwd = None /\ op.ml = ml
       /\ op.old = None /\ op.key = k
  BY <1>5, <1>6, <1>7, <1>8, <1>9 DEF Op, Held, Copies
<1>11. HeldOK(op)
  BY <1>2, <1>5, <1>7, <1>10 DEF HeldOK
<1>12. /\ Begin(r, op) /\ UNCHANGED <<store, byEmail, pkList, challenge, codes, seen>> /\ byId' = Find
       /\ regs' \subseteq regs
  BY <1>1, <1>4, <1>6, <1>8 DEF reg_finish
<1>13. codes' \in Nat
  BY <1>12 DEF ShapeInv, TypeOK
<1>14. op.steps \in NeedsUser => FromCopy(op, Find)
  BY <1>2, <1>3, <1>5, <1>10 DEF FromCopy
<1>15. /\ op.steps \in Starting
       /\ op.steps \in LinkPrograms => op.l \in Links /\ links[op.l] # None /\ links[op.l].live
       /\ op.l # None => op.steps \in LinkPrograms
       /\ op.steps \in Inserting \cup Deleting => op.u = None
       /\ op.steps \notin {<<"drop", "delete">>, <<"row", "cache">>}
  BY <1>2, <1>5, <1>10
<1> HIDE DEF Programs, BeforeRow, AfterRow, BeforeCache, Inserting, Deleting, Committing, Removing,
            Reading, NeedsUser, NeedsLink, MayHaveLink, NeedsPassword, NoPassword, NeedsKey,
            NeedsUsage, NeedsEmail, LinkPrograms, Starting, Unflagging
<1> QED
  BY <1>10, <1>11, <1>12, <1>13, <1>14, <1>15 DEF Starts

\* delete_webauthn
LEMMA DeleteKeyStarts ==
    ASSUME ShapeInv, NEW r \in Requests, NEW k \in Keys, delete_webauthn(r, k)
    PROVE  \E op : Starts(r, op)
<1> USE DEF Programs, BeforeRow, AfterRow, BeforeCache, Inserting, Deleting, Committing, Removing,
            Reading, NeedsUser, NeedsLink, MayHaveLink, NeedsPassword, NoPassword, NeedsKey,
            NeedsUsage, NeedsEmail, LinkPrograms, Starting, Unflagging
<1>1. PICK s : s = IF IsLast THEN <<"drop", "unflag", "cache", "delete">> ELSE <<"drop", "delete">>
  OBVIOUS
<1>2. PICK op : op = Op(s, None, None, None, None, None, k)
  OBVIOUS
<1>3. /\ op \in Held /\ op.steps = s /\ op.u = None /\ op.l = None /\ op.key = k /\ op.old = None
  BY <1>1, <1>2 DEF Op, Held, Copies
<1>4. HeldOK(op)
  BY <1>1, <1>3 DEF HeldOK
<1>5. Begin(r, op) /\ UNCHANGED <<store, byId, byEmail, webauthn, seen>> /\ pkList' = find_for_user
  BY <1>1, <1>2 DEF delete_webauthn
<1>6. codes' \in Nat
  BY <1>5 DEF ShapeInv, TypeOK, webauthn
<1> QED
  BY <1>1, <1>3, <1>4, <1>5, <1>6 DEF Starts, webauthn

\* webauthn::auth_finish
LEMMA AuthFinishStarts ==
    ASSUME ShapeInv, NEW r \in Requests, NEW k \in Keys, auth_finish(r, k)
    PROVE  \E op : Starts(r, op)
<1> USE DEF Programs, BeforeRow, AfterRow, BeforeCache, Inserting, Deleting, Committing, Removing,
            Reading, NeedsUser, NeedsLink, MayHaveLink, NeedsPassword, NoPassword, NeedsKey,
            NeedsUsage, NeedsEmail, LinkPrograms, Starting, Unflagging
<1>1. PICK s : s = IF k \in find_for_user THEN <<"drop", "cache", "commit", "code">> ELSE <<"code">>
  OBVIOUS
<1>2. Find \in Copies /\ Find # None
  BY FindType DEF auth_finish
<1>3. PICK op : op = Op(s, Find, None, None, None, None, k)
  OBVIOUS
<1>4. /\ op \in Held /\ op.steps = s /\ op.u = Find /\ op.l = None /\ op.key = k /\ op.old = None
  BY <1>1, <1>2, <1>3 DEF Op, Held, Copies
<1>5. HeldOK(op)
  BY <1>1, <1>2, <1>4 DEF HeldOK
<1>6. /\ Begin(r, op) /\ UNCHANGED <<store, byEmail, webauthn, seen>> /\ byId' = Find
      /\ pkList' = find_for_user
  BY <1>1, <1>3 DEF auth_finish
<1>7. codes' \in Nat
  BY <1>6 DEF ShapeInv, TypeOK, webauthn
<1>8. FromCopy(op, Find)
  BY <1>1, <1>2, <1>4 DEF FromCopy
<1> QED
  BY <1>1, <1>4, <1>5, <1>6, <1>7, <1>8 DEF Starts, webauthn

\* User::delete and user_expiry_checker
LEMMA DeleteStarts ==
    ASSUME ShapeInv, NEW r \in Requests, delete(r) \/ user_expiry_checker(r)
    PROVE  \E op : Starts(r, op)
<1> USE DEF Programs, BeforeRow, AfterRow, BeforeCache, Inserting, Deleting, Committing, Removing,
            Reading, NeedsUser, NeedsLink, MayHaveLink, NeedsPassword, NoPassword, NeedsKey,
            NeedsUsage, NeedsEmail, LinkPrograms, Starting, Unflagging
<1>1. PICK u \in {Find, user} : /\ u # None
                                /\ Begin(r, Op(<<"remove", "forget">>, u, None, None, None, None, None))
  BY DEF delete, user_expiry_checker
<1>2. u \in Copies
  BY <1>1, FindType DEF ShapeInv
<1>3. PICK op : op = Op(<<"remove", "forget">>, u, None, None, None, None, None)
  OBVIOUS
<1>4. /\ op \in Held /\ op.steps = <<"remove", "forget">> /\ op.u = u /\ op.l = None
      /\ op.old = None
  BY <1>2, <1>3 DEF Op, Held, Copies
<1>5. HeldOK(op)
  BY <1>1, <1>4 DEF HeldOK
<1>6. Begin(r, op) /\ UNCHANGED <<store, caches, webauthn, seen>>
  BY <1>1, <1>3 DEF delete, user_expiry_checker
<1>7. codes' \in Nat
  BY <1>6 DEF ShapeInv, TypeOK, webauthn
<1>8. FromCopy(op, u)
  BY <1>1, <1>4 DEF FromCopy
<1> QED
  BY <1>4, <1>5, <1>6, <1>7, <1>8 DEF Starts, webauthn, caches

\* Whatever the user, an administrator or a browser with a link asks for
LEMMA RequestStarts ==
    ASSUME ShapeInv, NEW r \in Requests,
           \/ UserRequest(r) \/ user_expiry_checker(r)
           \/ \E k \in Keys : delete_webauthn(r, k) \/ auth_finish(r, k) \/ reg_finish(r, None, k)
           \/ \E b \in Browsers, l \in Links :
                \/ handle_get_pwd_reset(r, b, l) \/ confirm_email_address(r, b, l)
                \/ \E p \in Passwords : handle_put_user_password_reset(r, b, l, p)
                \/ \E k \in Keys : handle_put_user_passkey_finish(r, b, l, k)
    PROVE  \E op : Starts(r, op)
<1>1. CASE UserRequest(r)
  BY <1>1, RequestResetStarts, UpdateStarts, UpdateSelfStarts, PasswordStarts, ConvertStarts,
     DeleteStarts DEF UserRequest
<1>2. CASE user_expiry_checker(r)
  BY <1>2, DeleteStarts
<1>3. ASSUME NEW k \in Keys, delete_webauthn(r, k) \/ auth_finish(r, k) \/ reg_finish(r, None, k)
      PROVE  \E op : Starts(r, op)
  BY <1>3, DeleteKeyStarts, AuthFinishStarts, RegFinishStarts
<1>4. ASSUME NEW b \in Browsers, NEW l \in Links, NEW k \in Keys,
             handle_put_user_passkey_finish(r, b, l, k)
      PROVE  \E op : Starts(r, op)
  BY <1>4, RegFinishStarts DEF handle_put_user_passkey_finish, ValidLink
<1>5. ASSUME NEW b \in Browsers, NEW l \in Links,
             \/ handle_get_pwd_reset(r, b, l) \/ confirm_email_address(r, b, l)
             \/ \E p \in Passwords : handle_put_user_password_reset(r, b, l, p)
      PROVE  \E op : Starts(r, op)
  BY <1>5, BindStarts, ConfirmStarts, ResetStarts
<1> QED
  BY <1>1, <1>2, <1>3, <1>4, <1>5
-----------------------------------------------------------------------------
\* The shape of the state

\* What the shape says of all variables but the requests
Tables ==
    /\ user \in Copies /\ byId \in Copies /\ byEmail \in [Emails -> Copies]
    /\ keys \subseteq Keys /\ pkList \in (SUBSET Keys) \cup {None}
    /\ codes \in Nat /\ ops \in 0 .. MaxOps
    /\ recent \in Seq(Passwords) \cup {None} /\ used \in Seq(Passwords)
    /\ links \in [Links -> MagicLinks \cup {None}] /\ seen \subseteq Browsers \X Links
    /\ uses \in [Links -> Nat]
    /\ regs \subseteq Keys /\ challenge \subseteq Keys
    /\ user = None => keys = {} /\ recent = None /\ \A l \in Links : links[l] = None

Records == DOMAIN req = Requests /\ \A r \in Requests : req[r] = Idle \/ HeldOK(req[r])

\* The shape is these two.
LEMMA ShapeParts == ShapeInv <=> Tables /\ Records
<1>1. Copies \subseteq Users \cup {None}
  BY DEF Copies
<1> QED
  BY <1>1 DEF ShapeInv, TypeOK, Tables, Records

\* After a step too.
LEMMA ShapePartsNext == ShapeInv' <=> Tables' /\ Records'
<1>1. Copies \subseteq Users \cup {None}
  BY DEF Copies
<1> QED
  BY <1>1 DEF ShapeInv, TypeOK, Tables, Records

\* One request changes its record.
LEMMA RecordsNext ==
    ASSUME ShapeInv, NEW r \in Requests, NEW w, req' = [req EXCEPT ![r] = w], w = Idle \/ HeldOK(w)
    PROVE  Records'
BY OneOp DEF Records

\* The lists of passkeys that can be read have only passkeys.
LEMMA KeyLists ==
    ASSUME Tables
    PROVE  find_for_user \in SUBSET Keys /\ find_for_user_with_uv \in SUBSET Keys
<1>1. CASE pkList = None
  <2>1. find_for_user = keys /\ find_for_user_with_uv = keys \cap UV
    BY <1>1 DEF find_for_user, find_for_user_with_uv
  <2>2. keys \subseteq Keys
    BY DEF Tables
  <2> QED
    BY <2>1, <2>2
<1>2. CASE pkList # None
  <2>1. find_for_user = pkList /\ find_for_user_with_uv = pkList
    BY <1>2 DEF find_for_user, find_for_user_with_uv
  <2>2. pkList \in SUBSET Keys
    BY <1>2 DEF Tables
  <2> QED
    BY <2>1, <2>2
<1> QED
  BY <1>1, <1>2

\* A request begins.
LEMMA ShapeStarts ==
    ASSUME ShapeInv, NEW r \in Requests, NEW op, Starts(r, op)
    PROVE  ShapeInv'
<1>1. Tables
  BY ShapeParts
<1>2. Find \in Copies /\ \A e \in Emails : FindByEmail(e) \in Copies
  BY FindType
<1>3. Records'
  BY RecordsNext DEF Starts, Begin
<1>4. UNCHANGED <<user, keys, recent, links, seen, challenge, uses, used>>
  BY DEF Starts, Begin, store
<1>5. ops' \in 0 .. MaxOps
  BY <1>1, ConstantsOK DEF Starts, Begin, Tables
<1>6. byId' \in Copies /\ byEmail' \in [Emails -> Copies]
  BY <1>1, <1>2 DEF Starts, Tables
<1>7. pkList' \in (SUBSET Keys) \cup {None}
  BY <1>1 DEF Starts, Tables, find_for_user, find_for_user_with_uv
<1>8. regs' \subseteq Keys /\ codes' \in Nat
  BY <1>1 DEF Starts, Tables
<1>9. Tables'
  BY <1>1, <1>4, <1>5, <1>6, <1>7, <1>8 DEF Tables
<1> QED
  BY <1>3, <1>9, ShapePartsNext

\* MagicLink::create takes a link that was never used.
LEMMA NewLink ==
    ASSUME ShapeInv, NEW usage \in {"NewUser", "PasswordReset"}, CreateLink(usage, None), Unused # {}
    PROVE  \E n \in Unused : /\ n \in Links /\ links' = [links EXCEPT ![n] = Link(usage, None)]
                             /\ links' \in [Links -> MagicLinks \cup {None}]
<1>1. PICK n : n = CHOOSE l \in Unused : TRUE
  OBVIOUS
<1>2. n \in Unused
  BY <1>1
<1>3. n \in Links
  BY <1>2 DEF Unused
<1>4. Link(usage, None) \in MagicLinks
  BY DEF Link, MagicLinks
<1>5. links' = [links EXCEPT ![n] = Link(usage, None)]
  BY <1>1 DEF CreateLink
<1> QED
  BY <1>2, <1>3, <1>4, <1>5 DEF ShapeInv

\* Requests that do their work in one step
LEMMA ShapeSingles ==
    ASSUME ShapeInv,
           \/ \E k \in Keys : reg_start(k)
           \/ auth_start \/ Registration \/ ListKeys \/ magic_link_cleanup
           \/ \E l \in Links : Expire(l)
    PROVE  ShapeInv'
<1>1. Tables /\ Records
  BY ShapeParts
<1>2. Find \in Copies
  BY FindType
<1>3. ops < MaxOps /\ ops' = ops + 1 => ops' \in 0 .. MaxOps
  BY <1>1, ConstantsOK DEF Tables
<1>4. ASSUME req' = req, Tables' PROVE ShapeInv'
  <2>1. Records'
    BY <1>1, <1>4 DEF Records
  <2> QED
    BY <1>4, <2>1, ShapePartsNext
<1>5. ASSUME NEW k \in Keys, reg_start(k) PROVE ShapeInv'
  <2>1. Tables'
    BY <1>1, <1>2, <1>3, <1>5 DEF reg_start, Single, Tables, store
  <2> QED
    BY <1>4, <1>5, <2>1 DEF reg_start, Single
<1>6. CASE auth_start
  <2>1. find_for_user \in SUBSET Keys /\ find_for_user_with_uv \in SUBSET Keys
    BY <1>1, KeyLists
  <2>2. pkList' \in SUBSET Keys /\ challenge' = pkList'
    BY <1>6, <2>1 DEF auth_start
  <2>3. /\ byId' = Find /\ UNCHANGED <<store, byEmail, regs, codes, seen, uses, used, req>>
        /\ ops < MaxOps /\ ops' = ops + 1
    BY <1>6 DEF auth_start, Single
  <2>4. Tables'
    BY <1>1, <1>2, <1>3, <2>2, <2>3 DEF Tables, store
  <2> QED
    BY <1>4, <2>3, <2>4
<1>7. ASSUME NEW e \in Emails, NEW fed \in BOOLEAN, create(e, fed) PROVE ShapeInv'
  <2>1. user' \in Copies /\ user' # None
    BY <1>7, NewUserType DEF create
  <2>2. links' \in [Links -> MagicLinks \cup {None}]
    <3>1. CASE fed
      BY <1>1, <1>7, <3>1 DEF create, Tables
    <3>2. CASE ~fed
      BY <1>7, <3>2, NewLink DEF create
    <3> QED
      BY <3>1, <3>2
  <2>3. /\ byId' = None /\ pkList' = None /\ regs' = {} /\ challenge' = {} /\ codes' = 0
        /\ UNCHANGED <<keys, recent, byEmail, seen, uses, used, req>>
        /\ ops < MaxOps /\ ops' = ops + 1
    BY <1>7 DEF create, Single
  <2>4. /\ byId' \in Copies /\ byEmail' \in [Emails -> Copies] /\ keys' \subseteq Keys
        /\ recent' \in Seq(Passwords) \cup {None} /\ used' \in Seq(Passwords)
        /\ seen' \subseteq Browsers \X Links /\ uses' \in [Links -> Nat]
    BY <1>1, <2>3 DEF Tables, Copies
  <2>5. /\ pkList' \in (SUBSET Keys) \cup {None} /\ regs' \subseteq Keys /\ challenge' \subseteq Keys
        /\ codes' \in Nat /\ ops' \in 0 .. MaxOps
    BY <1>3, <2>3
  <2>6. Tables'
    BY <2>1, <2>2, <2>4, <2>5 DEF Tables
  <2> QED
    BY <1>4, <2>3, <2>6
<1>8. CASE ListKeys
  <2>1. Tables'
    BY <1>1, <1>3, <1>8 DEF ListKeys, Single, Tables, store, webauthn
  <2> QED
    BY <1>4, <1>8, <2>1 DEF ListKeys, Single
<1>9. CASE magic_link_cleanup
  <2>1. links' = [l \in Links |-> IF links[l] # None /\ ~links[l].live THEN None ELSE links[l]]
    BY <1>9 DEF magic_link_cleanup
  <2>2. links' \in [Links -> MagicLinks \cup {None}] /\ \A l \in Links : links'[l] \in {None, links[l]}
    BY <1>1, <2>1 DEF Tables
  <2>3. UNCHANGED <<user, keys, recent, byId, byEmail, pkList, regs, challenge, codes, seen, req, ops,
                    uses, used>>
    BY <1>9 DEF magic_link_cleanup, caches, webauthn, history
  <2>4. Tables'
    BY <1>1, <2>2, <2>3 DEF Tables
  <2> QED
    BY <1>4, <2>3, <2>4
<1>10. ASSUME NEW l \in Links, Expire(l) PROVE ShapeInv'
  <2>1. PICK ml : ml = [links[l] EXCEPT !.live = FALSE]
    OBVIOUS
  <2>2. links[l] \in MagicLinks /\ links[l] # None
    BY <1>1, <1>10 DEF Expire, Tables
  <2>3. ml \in MagicLinks
    BY <2>1, <2>2 DEF MagicLinks
  <2>4. links' = [links EXCEPT ![l] = ml]
    BY <1>1, <1>10, <2>1 DEF Expire, Tables
  <2>5. links' \in [Links -> MagicLinks \cup {None}] /\ user # None
    BY <1>1, <2>2, <2>3, <2>4 DEF Tables
  <2>6. /\ UNCHANGED <<user, keys, recent, byId, byEmail, pkList, regs, challenge, codes, seen, req,
                       uses, used>>
        /\ ops < MaxOps /\ ops' = ops + 1
    BY <1>10 DEF Expire, caches, webauthn
  <2>7. Tables'
    BY <1>1, <1>3, <2>5, <2>6 DEF Tables
  <2> QED
    BY <1>4, <2>6, <2>7
<1> QED
  BY <1>5, <1>6, <1>7, <1>8, <1>9, <1>10 DEF Registration

\* The step of a request that reads nothing new.
LEMMA StepDone ==
    ASSUME ShapeInv, NEW r \in Requests, Head1(r) \notin {"none", "unflag", "refetch"}, Done(r)
    PROVE  /\ Active(r) /\ HeldOK(req[r]) /\ req[r].steps \in Programs
           /\ Head1(r) = Head(req[r].steps)
           /\ Records'
           /\ \E w : /\ req' = [req EXCEPT ![r] = w]
                     /\ IF Len(req[r].steps) = 1 THEN w = Idle ELSE HeldOK(w) /\ After(req[r], w)
<1>1. /\ Active(r) /\ HeldOK(req[r]) /\ req[r].steps \in Programs /\ Head1(r) = Head(req[r].steps)
  BY NextStep
<1>2. /\ Head(<<"unflag", "cache", "delete">>) = "unflag"
      /\ Head(<<"refetch", "row", "cache">>) = "refetch"
  OBVIOUS
<1>3. req[r].steps \notin {<<"unflag", "cache", "delete">>, <<"refetch", "row", "cache">>}
  BY <1>1, <1>2
<1>4. PICK w : /\ req' = [req EXCEPT ![r] = w]
               /\ IF Len(req[r].steps) = 1 THEN w = Idle ELSE HeldOK(w) /\ After(req[r], w)
  BY <1>1, <1>3, DoneType
<1>5. Records'
  BY <1>4, RecordsNext
<1> QED
  BY <1>1, <1>4, <1>5

\* What a password reset holds after its check.
LEMMA CheckStep ==
    ASSUME ShapeInv, NEW r \in Requests, Check(r)
    PROVE  /\ Active(r) /\ HeldOK(req[r]) /\ req[r].steps = <<"check">>
           /\ codes' \in Nat /\ UNCHANGED <<store, caches, regs, challenge, seen, history>>
           /\ \E w : /\ req' = [req EXCEPT ![r] = w]
                     /\ \/ w = Idle
                        \/ /\ HeldOK(w) /\ w.steps = <<"recent", "spend", "row", "cache">>
                           /\ w.u.email = req[r].u.email /\ w.u.mfa = req[r].u.mfa
                           /\ w.old = None /\ w.l = req[r].l /\ w.pwd = req[r].pwd
                           /\ links[w.l] # None /\ links[w.l].live
                           /\ \E b \in Browsers : <<b, w.l>> \in seen
<1> USE DEF Programs, BeforeRow, AfterRow, BeforeCache, Inserting, Deleting, Committing, Removing,
            Reading, NeedsUser, NeedsLink, MayHaveLink, NeedsPassword, NoPassword, NeedsKey,
            NeedsUsage, NeedsEmail
<1>1. Head1(r) = "check"
  BY DEF Check
<1>2. Active(r) /\ HeldOK(req[r]) /\ req[r].steps = <<"check">>
  BY <1>1, NextStep, Heads
<1>3. PICK q : q = req[r]
  OBVIOUS
<1>4. /\ q.u \in Copies /\ q.u # None /\ q.l \in Links /\ q.ml \in Browsers /\ q.pwd \in Passwords
  BY <1>2, <1>3 DEF HeldOK, Held
<1>5. codes' \in Nat
  <2>1. codes \in Nat
    BY DEF ShapeInv, TypeOK
  <2> QED
    BY <2>1 DEF Check
<1>6. UNCHANGED <<store, caches, regs, challenge, seen, history>>
  BY DEF Check
<1>7. PICK ml : ml = links[q.l]
  OBVIOUS
<1>8. CASE ml # None /\ ValidLink(ml, q.ml, q.l, TRUE)
  <2>1. PICK u : u = WithPassword(q.u, q.pwd)
    OBVIOUS
  <2>2. u \in Copies /\ u # None /\ u.email = q.u.email /\ u.mfa = q.u.mfa
    BY <1>4, <2>1, WithPasswordType
  <2>3. PICK w : w = Op(<<"recent", "spend", "row", "cache">>, u, None, q.l, ml, q.pwd, None)
    OBVIOUS
  <2>4. ml \in MagicLinks
    BY <1>4, <1>7, <1>8 DEF ShapeInv
  <2>5. /\ w \in Held /\ w.steps = <<"recent", "spend", "row", "cache">> /\ w.u = u /\ w.l = q.l
        /\ w.pwd = q.pwd /\ w.old = None /\ w.ml = ml
    BY <1>4, <2>2, <2>3, <2>4 DEF Op, Held, Copies
  <2>6. HeldOK(w)
    BY <1>4, <2>2, <2>4, <2>5 DEF HeldOK
  <2>7. req' = [req EXCEPT ![r] = w]
    BY <1>3, <1>7, <1>8, <2>1, <2>3, JoinedSteps DEF Check
  <2>8. links[w.l] # None /\ links[w.l].live /\ \E b \in Browsers : <<b, w.l>> \in seen
    BY <1>4, <1>7, <1>8, <2>5 DEF ValidLink
  <2>9. /\ w.u.email = req[r].u.email /\ w.u.mfa = req[r].u.mfa
        /\ w.l = req[r].l /\ w.pwd = req[r].pwd
    BY <1>3, <2>2, <2>5
  <2> HIDE DEF Programs, BeforeRow, AfterRow, BeforeCache, Inserting, Deleting, Committing, Removing,
            Reading, NeedsUser, NeedsLink, MayHaveLink, NeedsPassword, NoPassword, NeedsKey,
            NeedsUsage, NeedsEmail
  <2> QED
    BY <1>2, <1>5, <1>6, <2>5, <2>6, <2>7, <2>8, <2>9
<1>9. CASE ~(ml # None /\ ValidLink(ml, q.ml, q.l, TRUE))
  <2>1. req' = [req EXCEPT ![r] = Idle]
    BY <1>3, <1>7, <1>9 DEF Check
  <2> QED
    BY <1>2, <1>5, <1>6, <2>1
<1> QED
  BY <1>8, <1>9

\* Between the code and the recent passwords of a password reset
LEMMA ShapeCheck ==
    ASSUME ShapeInv, NEW r \in Requests, Check(r)
    PROVE  ShapeInv'
<1>1. Tables
  BY ShapeParts
<1>2. codes' \in Nat /\ UNCHANGED <<store, caches, regs, challenge, seen, history>>
  BY CheckStep
<1>3. Records'
  BY CheckStep, RecordsNext
<1>4. Tables'
  BY <1>1, <1>2 DEF Tables, store, caches, history
<1> QED
  BY <1>3, <1>4, ShapePartsNext

\* The steps that write a link
LEMMA ShapeLinks ==
    ASSUME ShapeInv, NEW r \in Requests, Bind(r) \/ Spend(r) \/ Mail(r) \/ Relink(r)
    PROVE  /\ ShapeInv' /\ Done(r) /\ \A l \in Links : user = None => links'[l] = None
<1>1. Tables
  BY ShapeParts
<1>2. Done(r) /\ Head1(r) \in {"bind", "spend", "mail", "relink"}
  BY DEF Bind, Spend, Mail, Relink
<1>3. /\ HeldOK(req[r]) /\ req[r].steps \in Programs /\ Head1(r) = Head(req[r].steps) /\ Records'
  BY <1>2, StepDone
<1>4. UNCHANGED <<user, keys, recent, byId, byEmail, pkList, regs, challenge, codes, ops, uses, used>>
  BY DEF Bind, Spend, Mail, Relink, caches, webauthn, history
<1>5. PICK q : q = req[r]
  OBVIOUS
<1>6. ASSUME links' \in [Links -> MagicLinks \cup {None}], seen' \subseteq Browsers \X Links,
             \A l \in Links : user = None => links'[l] = None
      PROVE  ShapeInv' /\ Done(r) /\ \A l \in Links : user = None => links'[l] = None
  <2>1. Tables'
    BY <1>1, <1>4, <1>6 DEF Tables
  <2> QED
    BY <1>2, <1>3, <1>6, <2>1, ShapePartsNext
<1>7. CASE Bind(r)
  <2>1. q.steps = <<"bind">>
    BY <1>3, <1>5, <1>7, Heads DEF Bind
  <2>2. q.l \in Links /\ q.ml \in MagicLinks /\ q.ml.cookie \in Browsers
    BY <1>3, <1>5, <2>1 DEF HeldOK, NeedsLink
  <2>3. q.ml.live \in BOOLEAN
    BY <2>2 DEF MagicLinks
  <2>4. links' = SavedLink(q.l, q.ml) /\ seen' = seen \cup {<<q.ml.cookie, q.l>>}
    BY <1>5, <1>7 DEF Bind
  <2>5. /\ links' \in [Links -> MagicLinks \cup {None}]
        /\ \A l \in Links : links'[l] = None <=> links[l] = None
    BY <2>2, <2>3, <2>4, SavedLinkType
  <2>6. seen' \subseteq Browsers \X Links
    BY <1>1, <2>2, <2>4 DEF Tables
  <2> QED
    BY <1>1, <1>6, <2>5, <2>6 DEF Tables
<1>8. CASE Spend(r)
  <2>1. q.steps \in {<<"spend", "row", "cache">>, <<"spend">>, <<"spend", "mail">>,
                     <<"spend", "refetch", "row", "cache">>}
    BY <1>3, <1>5, <1>8, Heads DEF Spend
  <2>2. q.steps \in NeedsLink
    BY <2>1 DEF NeedsLink
  <2>3. q.l \in Links /\ q.ml \in MagicLinks
    BY <1>3, <1>5, <2>2 DEF HeldOK
  <2>4. PICK ml : ml = [q.ml EXCEPT !.live = FALSE]
    OBVIOUS
  <2>5. ml.cookie \in Browsers \cup {None} /\ ml.live \in BOOLEAN
    BY <2>3, <2>4 DEF MagicLinks
  <2>6. links' = SavedLink(q.l, ml) /\ seen' = seen
    BY <1>5, <1>8, <2>4 DEF Spend
  <2>7. /\ links' \in [Links -> MagicLinks \cup {None}]
        /\ \A l \in Links : links'[l] = None <=> links[l] = None
    BY <2>3, <2>5, <2>6, SavedLinkType
  <2> QED
    BY <1>1, <1>6, <2>6, <2>7 DEF Tables
<1>9. CASE Mail(r)
  <2>1. q.steps \in {<<"mail">>, <<"mail", "row", "cache">>}
    BY <1>3, <1>5, <1>9, Heads DEF Mail
  <2>2. q.steps \in NeedsUsage
    BY <2>1 DEF NeedsUsage
  <2>3. q.key \in {"NewUser", "PasswordReset"}
    BY <1>3, <1>5, <2>2 DEF HeldOK
  <2>4. seen' = seen /\ Unused # {}
    BY <1>9 DEF Mail
  <2>5. CASE user = None
    <3>1. links' = links
      BY <1>9, <2>5 DEF Mail
    <3> QED
      BY <1>1, <1>6, <2>4, <3>1 DEF Tables
  <2>6. CASE user # None
    <3>1. CreateLink(q.key, None)
      BY <1>5, <1>9, <2>6 DEF Mail
    <3>2. links' \in [Links -> MagicLinks \cup {None}]
      BY <2>3, <2>4, <3>1, NewLink
    <3> QED
      BY <1>1, <1>6, <2>4, <2>6, <3>2 DEF Tables
  <2> QED
    BY <2>5, <2>6
<1>10. CASE Relink(r)
  <2>1. q.steps \in {<<"relink", "recent", "row", "cache">>, <<"relink", "row", "cache">>}
    BY <1>3, <1>5, <1>10, Heads DEF Relink
  <2>2. q.steps \in NeedsEmail
    BY <2>1 DEF NeedsEmail
  <2>3. q.ml \in Emails
    BY <1>3, <1>5, <2>2 DEF HeldOK
  <2>4. PICK left : left = [l \in Links |-> IF links[l] # None /\ links[l].usage = "EmailChange"
                                            THEN None ELSE links[l]]
    OBVIOUS
  <2>5. left \in [Links -> MagicLinks \cup {None}] /\ \A l \in Links : left[l] \in {None, links[l]}
    BY <1>1, <2>4 DEF Tables
  <2>6. PICK n : n = CHOOSE l \in {l \in Unused : left[l] = None} : TRUE
    OBVIOUS
  <2>7. /\ seen' = seen
        /\ links' = IF user = None THEN left ELSE [left EXCEPT ![n] = Link("EmailChange", q.ml)]
    BY <1>5, <1>10, <2>4, <2>6 DEF Relink
  <2>8. Link("EmailChange", q.ml) \in MagicLinks
    BY <2>3 DEF Link, MagicLinks
  <2> QED
    BY <1>1, <1>6, <2>5, <2>7, <2>8 DEF Tables
<1> QED
  BY <1>7, <1>8, <1>9, <1>10

\* RecentPasswordsEntity::save and create
LEMMA ShapeRecent ==
    ASSUME ShapeInv, NEW r \in Requests, Recent(r)
    PROVE  ShapeInv'
<1>1. Tables
  BY ShapeParts
<1>2. Head1(r) = "recent"
  BY DEF Recent
<1>3. HeldOK(req[r]) /\ req[r].steps \in Programs /\ Head1(r) = Head(req[r].steps)
  BY <1>2, NextStep
<1>4. req[r].steps \in NeedsPassword
  <2>1. req[r].steps \in {<<"recent", "spend", "row", "cache">>, <<"recent", "row", "cache">>}
    BY <1>2, <1>3, Heads
  <2> QED
    BY <2>1 DEF NeedsPassword
<1>5. PICK p : p = req[r].pwd
  OBVIOUS
<1>6. p \in Passwords
  BY <1>3, <1>4, <1>5 DEF HeldOK
<1>7. Records'
  <2>1. CASE Done(r)
    BY <1>2, <2>1, StepDone
  <2>2. CASE req' = [req EXCEPT ![r] = Idle]
    BY <2>2, RecordsNext
  <2> QED
    BY <2>1, <2>2 DEF Recent
<1>8. WithRecent(p) \in Seq(Passwords)
  <2>1. CASE recent = None
    BY <1>6, <2>1 DEF WithRecent
  <2>2. CASE recent # None
    <3>1. recent \in Seq(Passwords)
      BY <1>1, <2>2 DEF Tables
    <3>2. Compared(recent) \in Seq(Passwords)
      <4>1. CASE RecentReq = 1 \/ Len(recent) < RecentReq
        BY <3>1, <4>1 DEF Compared
      <4>2. CASE ~(RecentReq = 1 \/ Len(recent) < RecentReq)
        <5>1. Len(recent) \in Nat /\ RecentReq \in Nat \ {0}
          BY <3>1, ConstantsOK
        <5>2. 1 \in 1 .. Len(recent) + 1 /\ RecentReq - 1 \in 1 - 1 .. Len(recent)
          BY <4>2, <5>1
        <5>3. Compared(recent) = SubSeq(recent, 1, RecentReq - 1)
          BY <4>2 DEF Compared
        <5>4. SubSeq(recent, 1, RecentReq - 1) \in Seq(Passwords)
          BY <3>1, <5>2, SubSeqProperties
        <5> QED
          BY <5>3, <5>4
      <4> QED
        BY <4>1, <4>2
    <3>3. <<p>> \in Seq(Passwords)
      BY <1>6
    <3>4. WithRecent(p) = <<p>> \o Compared(recent)
      BY <2>2 DEF WithRecent
    <3> HIDE DEF Compared
    <3> QED
      BY <3>2, <3>3, <3>4, ConcatProperties
  <2> QED
    BY <2>1, <2>2
<1>9. recent' \in Seq(Passwords) \cup {None} /\ (user = None => recent' = recent)
  BY <1>1, <1>5, <1>8 DEF Recent, Tables
<1>10. UNCHANGED <<user, keys, links, byId, byEmail, pkList, regs, challenge, codes, seen, ops, uses, used>>
  BY DEF Recent, caches, webauthn, history
<1>11. Tables'
  BY <1>1, <1>9, <1>10 DEF Tables
<1> QED
  BY <1>7, <1>11, ShapePartsNext

\* How often a link has changed the account
LEMMA CountedType ==
    ASSUME ShapeInv, NEW q, q.l \in Links \cup {None}
    PROVE  /\ Counted(q) \in [Links -> Nat]
           /\ \A l \in Links : Counted(q)[l] = IF user # None /\ q.l = l THEN uses[l] + 1 ELSE uses[l]
<1>1. uses \in [Links -> Nat] /\ None \notin Links
  BY ConstantsOK DEF ShapeInv
<1>2. CASE user # None /\ q.l # None
  <2>1. Counted(q) = [uses EXCEPT ![q.l] = uses[q.l] + 1]
    BY <1>1, <1>2 DEF Counted
  <2> QED
    BY <1>1, <1>2, <2>1
<1>3. CASE ~(user # None /\ q.l # None)
  BY <1>1, <1>3 DEF Counted
<1> QED
  BY <1>2, <1>3

\* User::save, the row
LEMMA ShapeRow ==
    ASSUME ShapeInv, NEW r \in Requests, Row(r)
    PROVE  ShapeInv'
<1>1. Tables
  BY ShapeParts
<1>2. Head1(r) = "row"
  BY DEF Row
<1>3. HeldOK(req[r]) /\ req[r].steps \in Programs /\ Head1(r) = Head(req[r].steps)
  BY <1>2, NextStep
<1>4. PICK q : q = req[r]
  OBVIOUS
<1>5. q.steps \in NeedsUser
  <2>1. q.steps \in {<<"row", "cache">>, <<"row", "cache", "spend">>}
    BY <1>2, <1>3, <1>4, Heads
  <2> QED
    BY <2>1 DEF NeedsUser, BeforeRow
<1>6. /\ q.u \in Copies /\ q.u # None /\ q.l \in Links \cup {None} /\ q.pwd \in Passwords \cup {None}
  BY <1>3, <1>4, <1>5 DEF HeldOK, Held
<1>7. Records'
  <2>1. CASE Done(r)
    BY <1>2, <2>1, StepDone
  <2>2. CASE req' = [req EXCEPT ![r] = Idle]
    BY <2>2, RecordsNext
  <2> QED
    BY <2>1, <2>2 DEF Row
<1>8. Counted(q) \in [Links -> Nat]
  BY <1>6, CountedType
<1>9. q.pwd # None => <<q.pwd>> \o used \in Seq(Passwords)
  <2>1. q.pwd # None => <<q.pwd>> \in Seq(Passwords)
    BY <1>6
  <2> QED
    BY <1>1, <2>1, ConcatProperties DEF Tables
<1>10. /\ user' \in {user, IF user = None THEN None ELSE q.u} /\ uses' \in {uses, Counted(q)}
       /\ used' \in {used} \/ (q.pwd # None /\ used' = <<q.pwd>> \o used)
  BY <1>4 DEF Row, Accepted
<1>11. /\ user' \in Copies /\ (user' = None => user = None)
       /\ uses' \in [Links -> Nat] /\ used' \in Seq(Passwords)
  BY <1>1, <1>6, <1>8, <1>9, <1>10 DEF Tables
<1>12. UNCHANGED <<keys, recent, links, byId, byEmail, pkList, regs, challenge, codes, seen, ops>>
  BY DEF Row, caches, webauthn
<1>13. Tables'
  BY <1>1, <1>11, <1>12 DEF Tables
<1> QED
  BY <1>7, <1>13, ShapePartsNext

\* The steps that write or drop what is cached, and the code of auth_finish
LEMMA ShapeCaches ==
    ASSUME ShapeInv, NEW r \in Requests, Cache(r) \/ Drop(r) \/ Code(r) \/ Forget(r)
    PROVE  ShapeInv' /\ Done(r)
<1>1. Tables
  BY ShapeParts
<1>2. Done(r) /\ Head1(r) \in {"cache", "drop", "code", "forget"}
  BY DEF Cache, Drop, Code, Forget
<1>3. /\ HeldOK(req[r]) /\ req[r].steps \in Programs /\ Head1(r) = Head(req[r].steps) /\ Records'
  BY <1>2, StepDone
<1>4. UNCHANGED <<user, keys, recent, links, seen, regs, challenge, ops, uses, used>>
  BY DEF Cache, Drop, Code, Forget, store, webauthn, history
<1>5. PICK q : q = req[r]
  OBVIOUS
<1>6. ASSUME byId' \in Copies, byEmail' \in [Emails -> Copies], pkList' \in (SUBSET Keys) \cup {None},
             codes' \in Nat
      PROVE  ShapeInv' /\ Done(r)
  <2>1. Tables'
    BY <1>1, <1>4, <1>6 DEF Tables
  <2> QED
    BY <1>2, <1>3, <2>1, ShapePartsNext
<1>7. None \in Copies
  BY DEF Copies
<1>8. CASE Cache(r)
  <2>1. q.steps \in NeedsUser
    <3>1. q.steps \in AfterRow \cup (BeforeCache \ {<<"drop", "cache", "commit", "code">>})
      BY <1>3, <1>5, <1>8, Heads DEF Cache
    <3> QED
      BY <3>1 DEF NeedsUser
  <2>2. q.u \in Copies /\ q.u # None
    BY <1>3, <1>5, <2>1 DEF HeldOK, Held
  <2>3. byId' = q.u /\ byEmail' = CachedByEmail(q) /\ pkList' = pkList /\ codes' = codes
    BY <1>5, <1>8 DEF Cache, webauthn
  <2>4. CachedByEmail(q) \in [Emails -> Copies]
    BY <1>1, <1>7, <2>2 DEF CachedByEmail, Tables
  <2> QED
    BY <1>1, <1>6, <2>2, <2>3, <2>4 DEF Tables
<1>9. CASE Drop(r)
  BY <1>1, <1>6, <1>9 DEF Drop, Tables, webauthn
<1>10. CASE Code(r)
  BY <1>1, <1>6, <1>10 DEF Code, Tables, caches
<1>11. CASE Forget(r)
  <2>1. byId' = None /\ byEmail' = [byEmail EXCEPT ![q.u.email] = None] /\ UNCHANGED <<pkList, codes>>
    BY <1>5, <1>11 DEF Forget, webauthn
  <2> QED
    BY <1>1, <1>6, <1>7, <2>1 DEF Tables
<1> QED
  BY <1>8, <1>9, <1>10, <1>11

\* The transaction of a passkey
LEMMA ShapeCommit ==
    ASSUME ShapeInv, NEW r \in Requests, Commit(r)
    PROVE  ShapeInv' /\ Done(r)
<1>1. Tables
  BY ShapeParts
<1>2. Done(r) /\ Head1(r) \in {"insert", "delete", "commit"}
  BY DEF Commit
<1>3. /\ HeldOK(req[r]) /\ req[r].steps \in Programs /\ Head1(r) = Head(req[r].steps) /\ Records'
  BY <1>2, StepDone
<1>4. PICK q : q = req[r]
  OBVIOUS
<1>5. q.u \in Copies /\ q.l \in Links \cup {None}
  BY <1>3, <1>4 DEF HeldOK, Held
<1>6. Head1(r) = "insert" => q.key \in Keys
  <2>1. Head1(r) = "insert" => q.steps \in NeedsKey
    BY <1>3, <1>4, Heads DEF NeedsKey, Inserting
  <2> QED
    BY <1>3, <1>4, <2>1 DEF HeldOK
<1>7. /\ user' = IF user = None \/ q.u = None THEN user ELSE q.u
      /\ keys' = KeysAfter(q, Head1(r)) /\ uses' = Counted(q)
      /\ UNCHANGED <<recent, links, byId, byEmail, pkList, regs, challenge, codes, seen, ops, used>>
  BY <1>4 DEF Commit, caches, webauthn
<1>8. keys' \subseteq Keys /\ (user = None /\ keys = {} => keys' = {})
  BY <1>1, <1>6, <1>7 DEF KeysAfter, Tables
<1>9. user' \in Copies /\ (user' = None => user = None) /\ uses' \in [Links -> Nat]
  BY <1>1, <1>5, <1>7, CountedType DEF Tables
<1>10. Tables'
  BY <1>1, <1>7, <1>8, <1>9 DEF Tables
<1> QED
  BY <1>2, <1>3, <1>10, ShapePartsNext

\* What delete_webauthn holds after the user was read.
LEMMA UnflagStep ==
    ASSUME ShapeInv, NEW r \in Requests, Unflag(r)
    PROVE  /\ Active(r) /\ HeldOK(req[r]) /\ req[r].steps = <<"unflag", "cache", "delete">>
           /\ byId' = Find /\ Find # None /\ Find \in Copies
           /\ UNCHANGED <<store, byEmail, pkList, webauthn, seen, history>>
           /\ \E w : /\ req' = [req EXCEPT ![r] = w] /\ HeldOK(w) /\ w.steps = <<"cache", "delete">>
                     /\ w.u.email = Find.email /\ ~w.u.mfa
                     /\ w.old = req[r].old /\ w.l = req[r].l /\ w.pwd = req[r].pwd
<1> USE DEF Programs, BeforeRow, AfterRow, BeforeCache, Inserting, Deleting, Committing, Removing,
            Reading, NeedsUser, NeedsLink, MayHaveLink, NeedsPassword, NoPassword, NeedsKey,
            NeedsUsage, NeedsEmail
<1>1. Head1(r) = "unflag" /\ byId' = Find /\ Find # None
      /\ UNCHANGED <<store, byEmail, pkList, webauthn, seen, history>>
  BY DEF Unflag
<1>2. Active(r) /\ HeldOK(req[r]) /\ req[r].steps = <<"unflag", "cache", "delete">>
  BY <1>1, NextStep, Heads
<1>3. Find \in Copies
  BY FindType
<1>4. PICK u : u = WithoutMfa(Find)
  OBVIOUS
<1>5. u \in Copies /\ u # None /\ u.email = Find.email /\ ~u.mfa
  BY <1>1, <1>3, <1>4, MfaTypes
<1>6. PICK q : q = req[r]
  OBVIOUS
<1>7. PICK w : w = [q EXCEPT !.steps = Tail(q.steps), !.u = u]
  OBVIOUS
<1>8. Tail(q.steps) = <<"cache", "delete">> /\ q \in Held /\ q.key \in Keys /\ q.l = None
  <2>1. Tail(<<"unflag", "cache", "delete">>) = <<"cache", "delete">>
    OBVIOUS
  <2>2. q.steps \in NeedsKey /\ q.steps \notin MayHaveLink
    BY <1>2, <1>6
  <2> HIDE DEF Programs, NeedsUser, NeedsLink, MayHaveLink, NeedsPassword, NoPassword, NeedsKey,
            NeedsUsage, NeedsEmail
  <2> QED
    BY <1>2, <1>6, <2>1, <2>2 DEF HeldOK
<1>9. /\ w \in Held /\ w.steps = <<"cache", "delete">> /\ w.u = u /\ w.old = q.old /\ w.l = q.l
      /\ w.pwd = q.pwd /\ w.key = q.key
  BY <1>5, <1>7, <1>8 DEF Held
<1>10. HeldOK(w)
  BY <1>5, <1>8, <1>9 DEF HeldOK
<1>11. req' = [req EXCEPT ![r] = w]
  BY <1>4, <1>6, <1>7 DEF Unflag, ShapeInv
<1> QED
  BY <1>1, <1>2, <1>3, <1>5, <1>6, <1>9, <1>10, <1>11

\* What handle_put_user_passkey_finish holds after the user was read again.
LEMMA RefetchStep ==
    ASSUME ShapeInv, NEW r \in Requests, Refetch(r)
    PROVE  /\ Active(r) /\ HeldOK(req[r]) /\ req[r].steps = <<"refetch", "row", "cache">>
           /\ byId' = Find /\ Find # None /\ Find \in Copies
           /\ UNCHANGED <<store, byEmail, pkList, webauthn, seen, history>>
           /\ \E w : /\ req' = [req EXCEPT ![r] = w] /\ HeldOK(w) /\ w.steps = <<"row", "cache">>
                     /\ w.u = Find /\ w.old = None /\ w.l = None /\ w.pwd = None
<1> USE DEF Programs, BeforeRow, AfterRow, BeforeCache, Inserting, Deleting, Committing, Removing,
            Reading, NeedsUser, NeedsLink, MayHaveLink, NeedsPassword, NoPassword, NeedsKey,
            NeedsUsage, NeedsEmail
<1>1. Head1(r) = "refetch" /\ byId' = Find /\ Find # None
      /\ UNCHANGED <<store, byEmail, pkList, webauthn, seen, history>>
  BY DEF Refetch
<1>2. Active(r) /\ HeldOK(req[r]) /\ req[r].steps = <<"refetch", "row", "cache">>
  BY <1>1, NextStep, Heads
<1>3. Find \in Copies
  BY FindType
<1>4. PICK w : w = Op(<<"row", "cache">>, Find, None, None, None, None, None)
  OBVIOUS
<1>5. /\ w \in Held /\ w.steps = <<"row", "cache">> /\ w.u = Find /\ w.old = None /\ w.l = None
      /\ w.pwd = None
  BY <1>3, <1>4 DEF Op, Held
<1>6. HeldOK(w)
  BY <1>1, <1>5 DEF HeldOK
<1>7. req' = [req EXCEPT ![r] = w]
  BY <1>4 DEF Refetch, SaveUser
<1> QED
  BY <1>1, <1>2, <1>3, <1>5, <1>6, <1>7

\* The steps that read the user again
LEMMA ShapeReads ==
    ASSUME ShapeInv, NEW r \in Requests, Unflag(r) \/ Refetch(r)
    PROVE  ShapeInv'
<1>1. Tables
  BY ShapeParts
<1>2. Records'
  BY UnflagStep, RefetchStep, RecordsNext
<1>3. byId' \in Copies /\ UNCHANGED <<store, byEmail, pkList, webauthn, seen, history>>
  BY UnflagStep, RefetchStep
<1>4. Tables'
  BY <1>1, <1>3 DEF Tables, store, webauthn, history
<1> QED
  BY <1>2, <1>4, ShapePartsNext

\* User::delete, the row
LEMMA ShapeRemove ==
    ASSUME ShapeInv, NEW r \in Requests, Remove(r)
    PROVE  ShapeInv' /\ Done(r)
<1>1. Tables
  BY ShapeParts
<1>2. Done(r) /\ Head1(r) = "remove"
  BY DEF Remove
<1>3. Records'
  BY <1>2, StepDone
<1>4. /\ user' = None /\ keys' = {} /\ recent' = None /\ links' = [l \in Links |-> None] /\ used' = <<>>
      /\ UNCHANGED <<byId, byEmail, pkList, regs, challenge, codes, seen, ops, uses>>
  BY DEF Remove, caches, webauthn
<1>5. /\ user' \in Copies /\ keys' \subseteq Keys /\ recent' \in Seq(Passwords) \cup {None}
      /\ links' \in [Links -> MagicLinks \cup {None}] /\ used' \in Seq(Passwords)
      /\ \A l \in Links : links'[l] = None
  BY <1>4 DEF Copies
<1>6. Tables'
  BY <1>1, <1>4, <1>5 DEF Tables
<1> QED
  BY <1>2, <1>3, <1>6, ShapePartsNext

\* A failure leaves everything else as it is.
LEMMA ShapeFail ==
    ASSUME ShapeInv, NEW r \in Requests, Fail(r)
    PROVE  ShapeInv'
<1>1. Tables
  BY ShapeParts
<1>2. Records'
  BY RecordsNext DEF Fail
<1>3. Tables'
  BY <1>1 DEF Fail, Tables, store, caches, webauthn
<1> QED
  BY <1>2, <1>3, ShapePartsNext

\* Init
LEMMA ShapeInit == Init => ShapeInv
<1> SUFFICES ASSUME Init PROVE ShapeInv
  OBVIOUS
<1>1. PICK a \in InitAccounts :
        /\ user = a.user /\ keys = a.keys /\ links = a.links /\ recent = a.recent /\ seen = a.seen
        /\ used = IF a.recent = None THEN <<>> ELSE a.recent
  BY DEF Init
<1>2. /\ a.user \in Users \cup {None} /\ a.keys \subseteq Keys
      /\ a.recent \in Seq(Passwords) \cup {None} /\ a.links \in [Links -> MagicLinks \cup {None}]
      /\ a.seen \subseteq Browsers \X Links
      /\ a.user = None => a.keys = {} /\ a.recent = None /\ \A l \in Links : a.links[l] = None
      /\ a.user # None => Policy(a.user)
  BY <1>1, InitAccountsOK
<1>3. /\ user \in Copies /\ keys \subseteq Keys
      /\ recent \in Seq(Passwords) \cup {None} /\ links \in [Links -> MagicLinks \cup {None}]
      /\ seen \subseteq Browsers \X Links /\ used \in Seq(Passwords)
      /\ user = None => keys = {} /\ recent = None /\ \A l \in Links : links[l] = None
  BY <1>1, <1>2 DEF Copies
<1>4. /\ byId = None /\ byEmail = [e \in Emails |-> None] /\ pkList = None
      /\ regs = {} /\ challenge = {} /\ codes = 0 /\ req = [r \in Requests |-> Idle] /\ ops = 0
      /\ uses = [l \in Links |-> 0]
  BY DEF Init
<1>5. /\ byId \in Copies /\ byEmail \in [Emails -> Copies] /\ pkList \in (SUBSET Keys) \cup {None}
      /\ regs \subseteq Keys /\ challenge \subseteq Keys /\ uses \in [Links -> Nat]
  BY <1>4 DEF Copies
<1>6. codes \in Nat /\ ops \in 0 .. MaxOps
  BY <1>4, ConstantsOK
<1>7. Tables
  BY <1>3, <1>5, <1>6 DEF Tables
<1>8. Records
  BY <1>4 DEF Records
<1> QED
  BY <1>7, <1>8, ShapeParts

\* How the steps are told apart.
Begins(r) ==
    \/ UserRequest(r) \/ user_expiry_checker(r)
    \/ \E k \in Keys : delete_webauthn(r, k) \/ auth_finish(r, k) \/ reg_finish(r, None, k)
    \/ \E b \in Browsers, l \in Links :
         \/ handle_get_pwd_reset(r, b, l) \/ confirm_email_address(r, b, l)
         \/ \E p \in Passwords : handle_put_user_password_reset(r, b, l, p)
         \/ \E k \in Keys : handle_put_user_passkey_finish(r, b, l, k)
Singles ==
    \/ \E k \in Keys : reg_start(k)
    \/ auth_start \/ Registration \/ ListKeys \/ magic_link_cleanup
    \/ \E l \in Links : Expire(l)

\* Every step begins a request, goes on with one, ends one, or is a request by itself.
LEMMA Cases ==
    ASSUME ShapeInv, Next
    PROVE  \/ Singles
           \/ \E r \in Requests : Step(r) \/ Fail(r) \/ \E op : Starts(r, op)
<1>1. ASSUME NEW r \in Requests, Begins(r) PROVE \E op : Starts(r, op)
  BY <1>1, RequestStarts DEF Begins
<1>2. \/ Singles
      \/ \E r \in Requests : Step(r) \/ Fail(r) \/ Begins(r)
  BY DEF Next, Singles, Begins, LinkRequest, PasskeyRequest, handle_put_user_passkey_start
<1> QED
  BY <1>1, <1>2

\* What was spoilt stays so.
LEMMA SpoiltGrows ==
    ASSUME ShapeInv, Next
    PROVE  spoilt \subseteq spoilt'
<1>1. CASE Singles
  BY <1>1 DEF Singles, reg_start, auth_start, Registration, create, ListKeys, magic_link_cleanup,
              Expire, Single, history
<1>2. ASSUME NEW r \in Requests, Step(r) PROVE spoilt' = spoilt
  BY <1>2 DEF Step, Check, Bind, Recent, Spend, Mail, Relink, Row, Cache, Drop, Unflag, Commit,
              Refetch, Code, Remove, Forget, history
<1>3. ASSUME NEW r \in Requests, Fail(r) \/ \E op : Starts(r, op) PROVE spoilt \subseteq spoilt'
  BY <1>3 DEF Fail, Starts, Begin
<1> QED
  BY <1>1, <1>2, <1>3, Cases

\* Every step keeps the shape.
LEMMA ShapeNext ==
    ASSUME ShapeInv, [Next]_vars
    PROVE  ShapeInv'
<1>1. CASE Next
  <2>1. CASE Singles
    BY <2>1, ShapeSingles DEF Singles
  <2>2. ASSUME NEW r \in Requests, Step(r) PROVE ShapeInv'
    BY <2>2, ShapeCheck, ShapeLinks, ShapeRecent, ShapeRow, ShapeCaches, ShapeCommit, ShapeReads,
       ShapeRemove DEF Step
  <2>3. ASSUME NEW r \in Requests, Fail(r) \/ \E op : Starts(r, op) PROVE ShapeInv'
    BY <2>3, ShapeFail, ShapeStarts
  <2> QED
    BY <1>1, <2>1, <2>2, <2>3, Cases
<1>2. CASE UNCHANGED vars
  <2>1. Tables'
    BY <1>2, ShapeParts DEF vars, store, caches, webauthn, history, Tables
  <2>2. Records'
    BY <1>2, ShapeParts DEF vars, Records
  <2> QED
    BY <2>1, <2>2, ShapePartsNext
<1> QED
  BY <1>1, <1>2

\* The state is well-formed, and nothing is left of an account that is gone.
THEOREM AccountTyping == Spec => []TypeOK
<1>1. ShapeInv => TypeOK
  BY DEF ShapeInv
<1> QED
  BY <1>1, ShapeInit, ShapeNext, PTL DEF Spec

\* A password expires, unless passkeys lift that (ExpiryFollowsPolicy).
THEOREM AccountExpiry == Spec => []ExpiryFollowsPolicy
<1>1. ShapeInv => ExpiryFollowsPolicy
  BY DEF ShapeInv, Copies, ExpiryFollowsPolicy
<1> QED
  BY <1>1, ShapeInit, ShapeNext, PTL DEF Spec

-----------------------------------------------------------------------------
\* Links change the account once

\* Nothing happens to the requests that use link l, and the link does not become
\* usable again.
LEMMA LinkElsewhere ==
    ASSUME ShapeInv, NEW l \in Links, LinkInv(l), uses'[l] = uses[l], seen \subseteq seen',
           Usable(l)' => Usable(l) \/ (uses[l] = 0 /\ \A b \in Browsers : <<b, l>> \notin seen),
           \A p \in Requests : \/ req'[p] = req[p]
                               \/ /\ req[p] = Idle \/ req[p].l # l
                                  /\ req'[p] = Idle \/ req'[p].l # l
    PROVE  LinkInv(l)'
<1>1. \A p \in Requests : OnLink(p, l)' <=> OnLink(p, l)
  BY DEF OnLink, Active
<1>2. \A p \in Requests : OnLink(p, l) => req'[p] = req[p]
  BY DEF OnLink, Active
<1>3. ASSUME NEW p \in Requests, OnLink(p, l)' PROVE LinkHeld(req[p], l)'
  <2>1. LinkHeld(req[p], l) /\ req'[p] = req[p]
    BY <1>1, <1>2, <1>3 DEF LinkInv
  <2>2. PICK q : q = req[p] /\ q = req'[p]
    BY <2>1
  <2>3. q.steps \in Unspent => uses'[l] = 0
    BY <2>1, <2>2 DEF LinkHeld
  <2>4. q.steps \in BeforeRow /\ q.steps # <<"row", "cache", "spend">> =>
          /\ \E b \in Browsers : <<b, l>> \in seen
          /\ \E b \in Browsers : <<b, l>> \in seen'
    BY <2>1, <2>2 DEF LinkHeld
  <2>5. ASSUME q.steps = <<"row", "cache">> PROVE ~Usable(l)'
    <3>1. q.steps \in BeforeRow /\ q.steps # <<"row", "cache", "spend">>
      BY <2>5 DEF BeforeRow
    <3>2. ~Usable(l)
      BY <2>1, <2>2, <2>5 DEF LinkHeld
    <3> QED
      BY <2>4, <3>1, <3>2
  <2> QED
    BY <2>2, <2>3, <2>4, <2>5 DEF LinkHeld
<1>4. ASSUME uses'[l] = 1, Usable(l)' PROVE \E p \in Requests : OnLink(p, l)' /\ req'[p].steps \in Spending
  <2>1. uses[l] = 1 /\ Usable(l)
    BY <1>4
  <2>2. PICK p \in Requests : OnLink(p, l) /\ req[p].steps \in Spending
    BY <2>1 DEF LinkInv
  <2> QED
    BY <1>1, <1>2, <2>2
<1>5. \A p, q \in Requests : OnLink(p, l)' /\ OnLink(q, l)' => p = q
  BY <1>1 DEF LinkInv
<1>6. uses'[l] <= 1
  BY DEF LinkInv
<1> QED
  BY <1>3, <1>4, <1>5, <1>6 DEF LinkInv

\* Only request r uses link l, and goes on with record w.
LEMMA LinkHere ==
    ASSUME ShapeInv, NEW l \in Links, NEW r \in Requests, NEW w, req' = [req EXCEPT ![r] = w],
           \A p \in Requests : OnLink(p, l) => p = r,
           uses'[l] \in {0, 1}, w # Idle /\ w.l = l => LinkHeld(w, l)',
           uses'[l] = 1 /\ Usable(l)' => w # Idle /\ w.l = l /\ w.steps \in Spending
    PROVE  LinkInv(l)'
<1>1. req'[r] = w /\ \A p \in Requests : p # r => req'[p] = req[p]
  BY OneOp
<1>2. \A p \in Requests : OnLink(p, l)' => p = r
  BY <1>1 DEF OnLink, Active
<1>3. OnLink(r, l)' <=> w # Idle /\ w.l = l
  BY <1>1 DEF OnLink, Active
<1>4. \A p \in Requests : OnLink(p, l)' => LinkHeld(req[p], l)'
  <2>1. ASSUME NEW p \in Requests, OnLink(p, l)' PROVE LinkHeld(req[p], l)'
    <3>1. req'[p] = w /\ w # Idle /\ w.l = l
      BY <1>1, <1>2, <1>3, <2>1
    <3>2. LinkHeld(w, l)'
      BY <3>1
    <3> QED
      BY <3>1, <3>2 DEF LinkHeld
  <2> QED
    BY <2>1
<1> QED
  BY <1>1, <1>2, <1>3, <1>4 DEF LinkInv

\* A request that uses a link is the only one; if the link could be used again,
\* it is about to spend it.
LEMMA LinkSole ==
    ASSUME ShapeInv, NEW l \in Links, LinkInv(l), NEW r \in Requests, OnLink(r, l)
    PROVE  /\ \A p \in Requests : OnLink(p, l) => p = r
           /\ uses[l] \in {0, 1} /\ LinkHeld(req[r], l)
           /\ uses[l] = 1 /\ Usable(l) => req[r].steps \in Spending
<1>1. uses[l] \in Nat
  BY DEF ShapeInv
<1>2. /\ \A p \in Requests : OnLink(p, l) => p = r
      /\ uses[l] <= 1 /\ LinkHeld(req[r], l)
      /\ uses[l] = 1 /\ Usable(l) => req[r].steps \in Spending
  BY DEF LinkInv
<1> QED
  BY <1>1, <1>2

\* A request begins.
LEMMA OneShotStarts ==
    ASSUME ShapeInv, NEW l \in Links, LinkInv(l), l \notin spoilt', NEW r \in Requests, NEW op,
           Starts(r, op)
    PROVE  LinkInv(l)'
<1>1. /\ req' = [req EXCEPT ![r] = op] /\ req[r] = Idle /\ UNCHANGED <<uses, links, seen>>
      /\ spoilt' = spoilt \cup Overlapping(r, op.l)
  BY DEF Starts, Begin, Active, store
<1>2. req'[r] = op /\ \A p \in Requests : p # r => req'[p] = req[p]
  BY <1>1, OneOp
<1>3. CASE op.l # l
  <2>1. Usable(l)' <=> Usable(l)
    BY <1>1 DEF Usable
  <2> QED
    BY <1>1, <1>2, <1>3, <2>1, LinkElsewhere
<1>4. CASE op.l = l
  <2>1. \A p \in Requests : OnLink(p, l) => p = r
    BY <1>1, <1>4, ConstantsOK DEF OnLink, Overlapping
  <2>2. ~OnLink(r, l)
    BY <1>1 DEF OnLink, Active
  <2>3. uses[l] \in {0, 1} /\ (uses[l] = 1 => ~Usable(l))
    BY <2>1, <2>2 DEF LinkInv, ShapeInv
  <2>4. op.steps \in LinkPrograms \cup {<<"check">>, <<"mail">>, <<"spend", "mail">>}
    BY <1>4, ConstantsOK DEF Starts
  <2>5. op.steps \in LinkPrograms => uses[l] = 0
    BY <1>4, <2>3 DEF Starts, Usable
  <2>6. /\ op.steps \in Unspent => op.steps \in LinkPrograms
        /\ op.steps \in BeforeRow => op.steps = <<"row", "cache", "spend">>
        /\ op.steps # <<"row", "cache">>
    BY <2>4 DEF Unspent, LinkPrograms, BeforeRow, BeforeCache, Inserting
  <2>7. LinkHeld(op, l)'
    BY <1>1, <2>5, <2>6 DEF LinkHeld
  <2>8. uses'[l] \in {0, 1} /\ ~(uses'[l] = 1 /\ Usable(l)')
    BY <1>1, <2>3 DEF Usable
  <2> QED
    BY <1>1, <2>1, <2>7, <2>8, LinkHere
<1> QED
  BY <1>3, <1>4

\* A new link is one that was never used.
LEMMA OneShotNewLink ==
    ASSUME ShapeInv, NEW l \in Links, NEW usage, CreateLink(usage, None), Unused # {}
    PROVE  Usable(l)' => Usable(l) \/ (uses[l] = 0 /\ \A b \in Browsers : <<b, l>> \notin seen)
<1>1. PICK n : n = CHOOSE k \in Unused : TRUE
  OBVIOUS
<1>2. n \in Unused
  BY <1>1
<1>3. links' = [links EXCEPT ![n] = Link(usage, None)]
  BY <1>1 DEF CreateLink
<1>4. l # n => links'[l] = links[l]
  BY <1>3 DEF ShapeInv
<1>5. l = n => uses[l] = 0 /\ \A b \in Browsers : <<b, l>> \notin seen
  BY <1>2 DEF Unused
<1> QED
  BY <1>4, <1>5 DEF Usable

\* Requests that do their work in one step
LEMMA OneShotSingles ==
    ASSUME ShapeInv, NEW l \in Links, LinkInv(l), Singles
    PROVE  LinkInv(l)'
<1>1. ASSUME req' = req, uses' = uses, seen' = seen,
             Usable(l)' => Usable(l) \/ (uses[l] = 0 /\ \A b \in Browsers : <<b, l>> \notin seen)
      PROVE  LinkInv(l)'
  <2>1. uses'[l] = uses[l] /\ seen \subseteq seen' /\ \A p \in Requests : req'[p] = req[p]
    BY <1>1
  <2> QED
    BY <1>1, <2>1, LinkElsewhere
<1>2. links' = links => (Usable(l)' <=> Usable(l))
  BY DEF Usable
<1>3. ASSUME NEW k \in Keys, reg_start(k) PROVE LinkInv(l)'
  BY <1>1, <1>2, <1>3 DEF reg_start, Single, store
<1>4. CASE auth_start \/ ListKeys
  BY <1>1, <1>2, <1>4 DEF auth_start, ListKeys, Single, store
<1>5. ASSUME NEW e \in Emails, NEW fed \in BOOLEAN, create(e, fed) PROVE LinkInv(l)'
  <2>1. req' = req /\ uses' = uses /\ seen' = seen
    BY <1>5 DEF create, Single
  <2>2. CASE fed
    BY <1>1, <1>2, <1>5, <2>1, <2>2 DEF create
  <2>3. CASE ~fed
    <3>1. CreateLink("NewUser", None) /\ Unused # {}
      BY <1>5, <2>3 DEF create
    <3> QED
      BY <1>1, <2>1, <3>1, OneShotNewLink
  <2> QED
    BY <2>2, <2>3
<1>6. CASE magic_link_cleanup
  <2>1. req' = req /\ uses' = uses /\ seen' = seen
    BY <1>6 DEF magic_link_cleanup, history
  <2>2. Usable(l)' => Usable(l)
    BY <1>6 DEF magic_link_cleanup, Usable
  <2> QED
    BY <1>1, <2>1, <2>2
<1>7. ASSUME NEW k \in Links, Expire(k) PROVE LinkInv(l)'
  <2>1. req' = req /\ uses' = uses /\ seen' = seen
    BY <1>7 DEF Expire
  <2>2. links[k] \in MagicLinks
    BY <1>7 DEF Expire, ShapeInv
  <2>3. PICK ml : ml = [links[k] EXCEPT !.live = FALSE]
    OBVIOUS
  <2>4. links' = [links EXCEPT ![k] = ml] /\ ml.live = FALSE
    BY <1>7, <2>2, <2>3 DEF Expire, ShapeInv, MagicLinks
  <2>5. Usable(l)' => Usable(l)
    BY <2>4 DEF Usable, ShapeInv
  <2> QED
    BY <1>1, <2>1, <2>5
<1> QED
  BY <1>3, <1>4, <1>5, <1>6, <1>7 DEF Singles, Registration

\* A request that fails spoils its link.
LEMMA OneShotFail ==
    ASSUME ShapeInv, NEW l \in Links, LinkInv(l), l \notin spoilt', NEW r \in Requests, Fail(r)
    PROVE  LinkInv(l)'
<1>1. /\ req' = [req EXCEPT ![r] = Idle] /\ UNCHANGED <<uses, links, seen>>
      /\ spoilt' = spoilt \cup {"user"} \cup {req[r].l : q \in {x \in {r} : req[x].l # None}}
  BY DEF Fail, store
<1>2. req[r].l # l
  BY <1>1, ConstantsOK
<1>3. req'[r] = Idle /\ \A p \in Requests : p # r => req'[p] = req[p]
  BY <1>1, OneOp
<1>4. Usable(l)' <=> Usable(l)
  BY <1>1 DEF Usable
<1> QED
  BY <1>1, <1>2, <1>3, <1>4, LinkElsewhere

\* A request takes a step: either link l is not its own, or it is the only one that uses it.
LEMMA LinkStep ==
    ASSUME ShapeInv, NEW l \in Links, LinkInv(l), NEW r \in Requests, Active(r), NEW w,
           req' = [req EXCEPT ![r] = w], w = Idle \/ w.l \in {req[r].l, None}, seen \subseteq seen',
           req[r].l # l =>
             /\ uses'[l] = uses[l]
             /\ Usable(l)' => Usable(l) \/ (uses[l] = 0 /\ \A b \in Browsers : <<b, l>> \notin seen),
           req[r].l = l =>
             /\ uses'[l] \in {0, 1} /\ (w # Idle /\ w.l = l => LinkHeld(w, l)')
             /\ uses'[l] = 1 /\ Usable(l)' => w # Idle /\ w.l = l /\ w.steps \in Spending
    PROVE  LinkInv(l)'
<1>1. CASE req[r].l # l
  <2>1. w = Idle \/ w.l # l
    BY <1>1, ConstantsOK
  <2>2. \A p \in Requests : \/ req'[p] = req[p]
                            \/ /\ req[p] = Idle \/ req[p].l # l
                               /\ req'[p] = Idle \/ req'[p].l # l
    BY <1>1, <2>1, OneOp
  <2> QED
    BY <1>1, <2>2, LinkElsewhere
<1>2. CASE req[r].l = l
  <2>1. \A p \in Requests : OnLink(p, l) => p = r
    BY <1>2, LinkSole DEF OnLink
  <2> QED
    BY <1>2, <2>1, LinkHere
<1> QED
  BY <1>1, <1>2

\* The record of a request after a step that reads nothing new
LEMMA DoneRecord ==
    ASSUME ShapeInv, NEW r \in Requests, Head1(r) \notin {"none", "unflag", "refetch"}, Done(r)
    PROVE  /\ Active(r) /\ HeldOK(req[r]) /\ req[r].steps \in Programs
           /\ Head1(r) = Head(req[r].steps)
           /\ \E w : /\ req' = [req EXCEPT ![r] = w] /\ (w = Idle \/ w.l \in {req[r].l, None})
                     /\ IF Len(req[r].steps) = 1 THEN w = Idle ELSE w # Idle /\ After(req[r], w)
<1>1. /\ Active(r) /\ HeldOK(req[r]) /\ req[r].steps \in Programs
      /\ Head1(r) = Head(req[r].steps)
  BY StepDone
<1>2. PICK w : /\ req' = [req EXCEPT ![r] = w]
               /\ IF Len(req[r].steps) = 1 THEN w = Idle ELSE HeldOK(w) /\ After(req[r], w)
  BY StepDone
<1>3. w = Idle \/ (w # Idle /\ w.l = req[r].l)
  BY <1>2, HeldActive DEF After
<1>4. Len(req[r].steps) # 1 => w # Idle
  BY <1>2, HeldActive
<1> QED
  BY <1>1, <1>2, <1>3, <1>4

\* The check of a password reset: a usable link was not used before.
LEMMA OneShotCheck ==
    ASSUME ShapeInv, NEW l \in Links, LinkInv(l), NEW r \in Requests, Check(r)
    PROVE  LinkInv(l)'
<1>1. /\ Active(r) /\ req[r].steps = <<"check">> /\ UNCHANGED <<links, seen, uses>>
  BY CheckStep DEF store, history
<1>2. PICK w : /\ req' = [req EXCEPT ![r] = w]
               /\ \/ w = Idle
                  \/ /\ HeldOK(w) /\ w.steps = <<"recent", "spend", "row", "cache">> /\ w.l = req[r].l
                     /\ links[w.l] # None /\ links[w.l].live
                     /\ \E b \in Browsers : <<b, w.l>> \in seen
  BY CheckStep
<1>3. Usable(l)' <=> Usable(l)
  BY <1>1 DEF Usable
<1>4. ASSUME req[r].l = l
      PROVE  /\ uses'[l] \in {0, 1} /\ (w # Idle /\ w.l = l => LinkHeld(w, l)')
             /\ ~(uses'[l] = 1 /\ Usable(l)')
  <2>1. uses[l] \in {0, 1} /\ (uses[l] = 1 /\ Usable(l) => req[r].steps \in Spending)
    BY <1>1, <1>4, LinkSole DEF OnLink
  <2>2. <<"check">> \notin Spending
    BY DEF Spending
  <2>3. ~(uses[l] = 1 /\ Usable(l))
    BY <1>1, <2>1, <2>2
  <2>4. ASSUME w # Idle, w.l = l PROVE LinkHeld(w, l)'
    <3>1. uses'[l] = 0
      BY <1>1, <1>2, <2>1, <2>3, <2>4 DEF Usable
    <3>2. w.steps # <<"row", "cache">> /\ \E b \in Browsers : <<b, l>> \in seen'
      BY <1>1, <1>2, <2>4
    <3> QED
      BY <3>1, <3>2 DEF LinkHeld
  <2> QED
    BY <1>1, <1>3, <2>1, <2>3, <2>4
<1> QED
  BY <1>1, <1>2, <1>3, <1>4, LinkStep

\* The GET of a link writes all of it back, but nothing was done with the link before.
LEMMA OneShotBind ==
    ASSUME ShapeInv, NEW l \in Links, LinkInv(l), NEW r \in Requests, Bind(r)
    PROVE  LinkInv(l)'
<1>1. /\ Head1(r) = "bind" /\ Done(r) /\ links' = SavedLink(req[r].l, req[r].ml)
      /\ seen \subseteq seen' /\ uses' = uses
  BY DEF Bind, history
<1>2. Active(r) /\ HeldOK(req[r]) /\ req[r].steps = <<"bind">>
  BY <1>1, DoneRecord, Heads
<1>3. req' = [req EXCEPT ![r] = Idle]
  BY <1>1, <1>2, DoneRecord
<1>4. /\ req[r].l \in Links /\ req[r].ml \in MagicLinks
  BY <1>2 DEF HeldOK, NeedsLink
<1>5. req[r].ml.cookie \in Browsers \cup {None} /\ req[r].ml.live \in BOOLEAN
  BY <1>4 DEF MagicLinks
<1>6. req[r].l # l => links'[l] = links[l]
  BY <1>1, <1>4, <1>5, SavedLinkType
<1>7. req[r].l # l => (Usable(l)' <=> Usable(l))
  BY <1>6 DEF Usable
<1>8. ASSUME req[r].l = l PROVE uses'[l] = 0
  <2>1. LinkHeld(req[r], l)
    BY <1>2, <1>8, LinkSole DEF OnLink
  <2>2. req[r].steps \in Unspent
    BY <1>2 DEF Unspent
  <2> QED
    BY <1>1, <2>1, <2>2 DEF LinkHeld
<1>9. PICK w : w = Idle
  OBVIOUS
<1>10. req' = [req EXCEPT ![r] = w]
  BY <1>3, <1>9
<1>11. req[r].l = l =>
         /\ uses'[l] \in {0, 1} /\ (w # Idle /\ w.l = l => LinkHeld(w, l)')
         /\ uses'[l] = 1 /\ Usable(l)' => w # Idle /\ w.l = l /\ w.steps \in Spending
  BY <1>8, <1>9
<1>12. uses'[l] = uses[l]
  BY <1>1
<1> QED
  BY <1>1, <1>2, <1>7, <1>9, <1>10, <1>11, <1>12, LinkStep

\* A refused password ends the request before the link is spent.
LEMMA OneShotRecent ==
    ASSUME ShapeInv, NEW l \in Links, LinkInv(l), NEW r \in Requests, Recent(r)
    PROVE  LinkInv(l)'
<1>1. Head1(r) = "recent" /\ UNCHANGED <<links, seen, uses>>
  BY DEF Recent, history
<1>2. /\ Active(r)
      /\ req[r].steps \in {<<"recent", "spend", "row", "cache">>, <<"recent", "row", "cache">>}
      /\ req[r].steps \notin MayHaveLink => req[r].l = None
  <2>1. Active(r) /\ HeldOK(req[r]) /\ req[r].steps \in Programs /\ Head1(r) = Head(req[r].steps)
    BY <1>1, NextStep
  <2> QED
    BY <1>1, <2>1, Heads DEF HeldOK
<1>3. PICK w : /\ req' = [req EXCEPT ![r] = w]
               /\ w = Idle \/ (w.steps = Tail(req[r].steps) /\ w.l = req[r].l)
  <2>1. CASE Done(r)
    BY <1>1, <2>1, DoneRecord DEF After
  <2>2. CASE req' = [req EXCEPT ![r] = Idle]
    BY <2>2
  <2> QED
    BY <2>1, <2>2 DEF Recent
<1>4. Usable(l)' <=> Usable(l)
  BY <1>1 DEF Usable
<1>5. ASSUME req[r].l = l PROVE uses'[l] = 0 /\ (w # Idle => LinkHeld(w, l)')
  <2>1. LinkHeld(req[r], l)
    BY <1>2, <1>5, LinkSole DEF OnLink
  <2>2. req[r].steps = <<"recent", "spend", "row", "cache">>
    BY <1>2, <1>5, ConstantsOK DEF MayHaveLink, NeedsLink
  <2>3. req[r].steps \in Unspent /\ req[r].steps \in BeforeRow /\ req[r].steps # <<"row", "cache", "spend">>
    BY <2>2 DEF Unspent, BeforeRow
  <2>4. uses[l] = 0 /\ \E b \in Browsers : <<b, l>> \in seen
    BY <2>1, <2>3 DEF LinkHeld
  <2>5. w # Idle => w.steps = <<"spend", "row", "cache">>
    BY <1>3, <2>2
  <2> QED
    BY <1>1, <2>4, <2>5 DEF LinkHeld
<1>6. req[r].l = l =>
        /\ uses'[l] \in {0, 1} /\ (w # Idle /\ w.l = l => LinkHeld(w, l)')
        /\ uses'[l] = 1 /\ Usable(l)' => w # Idle /\ w.l = l /\ w.steps \in Spending
  BY <1>5
<1>7. uses'[l] = uses[l] /\ seen \subseteq seen' /\ (w = Idle \/ w.l \in {req[r].l, None})
  BY <1>1, <1>3
<1> QED
  BY <1>2, <1>3, <1>4, <1>6, <1>7, LinkStep

\* MagicLink::invalidate
LEMMA OneShotSpend ==
    ASSUME ShapeInv, NEW l \in Links, LinkInv(l), NEW r \in Requests, Spend(r)
    PROVE  LinkInv(l)'
<1>1. /\ Head1(r) = "spend" /\ Done(r) /\ UNCHANGED <<seen, uses>>
      /\ links' = SavedLink(req[r].l, [req[r].ml EXCEPT !.live = FALSE])
  BY DEF Spend, history
<1>2. /\ Active(r) /\ HeldOK(req[r])
      /\ req[r].steps \in {<<"spend", "row", "cache">>, <<"spend">>, <<"spend", "mail">>,
                           <<"spend", "refetch", "row", "cache">>}
  BY <1>1, DoneRecord, Heads
<1>3. PICK w : /\ req' = [req EXCEPT ![r] = w] /\ (w = Idle \/ w.l \in {req[r].l, None})
               /\ w = Idle \/ w.steps = Tail(req[r].steps)
  BY <1>1, DoneRecord DEF After
<1>4. /\ req[r].l \in Links /\ req[r].ml \in MagicLinks
  <2>1. req[r].steps \in NeedsLink
    BY <1>2 DEF NeedsLink
  <2> QED
    BY <1>2, <2>1 DEF HeldOK
<1>5. PICK ml : ml = [req[r].ml EXCEPT !.live = FALSE]
  OBVIOUS
<1>6. ml.cookie \in Browsers \cup {None} /\ ml.live = FALSE /\ ml.live \in BOOLEAN
  BY <1>4, <1>5 DEF MagicLinks
<1>7. /\ req[r].l # l => links'[l] = links[l]
      /\ req[r].l = l => links'[l] = None \/ links'[l].live = FALSE
  <2>1. links' = SavedLink(req[r].l, ml)
    BY <1>1, <1>5
  <2>2. /\ \A k \in Links : k # req[r].l => links'[k] = links[k]
        /\ links[req[r].l] # None => links'[req[r].l].live = ml.live
        /\ \A k \in Links : links'[k] = None <=> links[k] = None
    BY <1>4, <1>6, <2>1, SavedLinkType
  <2> QED
    BY <1>6, <2>2
<1>8. /\ req[r].l # l => (Usable(l)' <=> Usable(l))
      /\ req[r].l = l => ~Usable(l)'
  BY <1>7 DEF Usable
<1>9. ASSUME req[r].l = l PROVE uses'[l] \in {0, 1} /\ (w # Idle => LinkHeld(w, l)')
  <2>1. LinkHeld(req[r], l) /\ uses[l] \in {0, 1}
    BY <1>2, <1>9, LinkSole DEF OnLink
  <2>2. CASE req[r].steps = <<"spend", "row", "cache">>
    <3>1. req[r].steps \in Unspent /\ req[r].steps \in BeforeRow /\ req[r].steps # <<"row", "cache", "spend">>
      BY <2>2 DEF Unspent, BeforeRow
    <3>2. uses[l] = 0 /\ \E b \in Browsers : <<b, l>> \in seen
      BY <2>1, <3>1 DEF LinkHeld
    <3> QED
      BY <1>1, <1>8, <1>9, <3>2 DEF LinkHeld
  <2>3. CASE req[r].steps # <<"spend", "row", "cache">>
    <3>1. w # Idle => w.steps \in {<<>>, <<"mail">>, <<"refetch", "row", "cache">>}
      <4>1. /\ Tail(<<"spend">>) = <<>> /\ Tail(<<"spend", "mail">>) = <<"mail">>
            /\ Tail(<<"spend", "refetch", "row", "cache">>) = <<"refetch", "row", "cache">>
        OBVIOUS
      <4>2. req[r].steps \in {<<"spend">>, <<"spend", "mail">>, <<"spend", "refetch", "row", "cache">>}
        BY <1>2, <2>3
      <4> QED
        BY <1>3, <4>1, <4>2
    <3>2. w # Idle => w.steps \notin Unspent /\ w.steps \notin BeforeRow /\ w.steps # <<"row", "cache">>
      <4>1. \A t \in Unspent : t # <<>>
        BY DEF Unspent, BeforeRow, BeforeCache, Inserting
      <4>2. <<"mail">> \notin Unspent /\ <<"refetch", "row", "cache">> \notin Unspent
        BY DEF Unspent, BeforeRow, BeforeCache, Inserting
      <4>3. BeforeRow \subseteq Unspent /\ <<"row", "cache">> \in Unspent
        BY DEF Unspent, BeforeRow
      <4> QED
        BY <3>1, <4>1, <4>2, <4>3
    <3> QED
      BY <1>1, <2>1, <3>2 DEF LinkHeld
  <2> QED
    BY <2>2, <2>3
<1> QED
  BY <1>1, <1>2, <1>3, <1>8, <1>9, LinkStep

\* A new link for the inbox
LEMMA OneShotMail ==
    ASSUME ShapeInv, NEW l \in Links, LinkInv(l), NEW r \in Requests, Mail(r)
    PROVE  LinkInv(l)'
<1>1. Head1(r) = "mail" /\ Done(r) /\ UNCHANGED <<seen, uses>>
  BY DEF Mail, history
<1>2. /\ Active(r) /\ HeldOK(req[r]) /\ req[r].steps \in {<<"mail">>, <<"mail", "row", "cache">>}
  BY <1>1, DoneRecord, Heads
<1>3. PICK w : /\ req' = [req EXCEPT ![r] = w] /\ (w = Idle \/ w.l \in {req[r].l, None})
               /\ Len(req[r].steps) = 1 => w = Idle
  BY <1>1, DoneRecord
<1>4. Usable(l)' => Usable(l) \/ (uses[l] = 0 /\ \A b \in Browsers : <<b, l>> \notin seen)
  <2>1. CASE user = None
    BY <2>1 DEF Mail, Usable
  <2>2. CASE user # None
    BY <2>2, OneShotNewLink DEF Mail
  <2> QED
    BY <2>1, <2>2
<1>5. ASSUME req[r].l = l PROVE w = Idle /\ uses'[l] \in {0, 1} /\ ~(uses'[l] = 1 /\ Usable(l)')
  <2>1. req[r].steps = <<"mail">>
    BY <1>2, <1>5, ConstantsOK DEF HeldOK, MayHaveLink, NeedsLink
  <2>2. uses[l] \in {0, 1} /\ (uses[l] = 1 /\ Usable(l) => req[r].steps \in Spending)
    BY <1>2, <1>5, LinkSole DEF OnLink
  <2>3. req[r].steps \notin Spending
    BY <2>1 DEF Spending
  <2>4. w = Idle
    BY <1>3, <2>1
  <2> QED
    BY <1>1, <1>4, <2>2, <2>3, <2>4
<1> QED
  BY <1>1, <1>2, <1>3, <1>4, <1>5, LinkStep

\* The steps of requests that have no link, of other requests too: a link that is
\* there afterwards was there before, or is new.
LEMMA OneShotNone ==
    ASSUME ShapeInv, NEW l \in Links, LinkInv(l), NEW r \in Requests,
           Relink(r) \/ Code(r) \/ Remove(r) \/ Forget(r) \/ Unflag(r)
    PROVE  LinkInv(l)'
<1> USE DEF MayHaveLink, NeedsLink
<1>1. seen' = seen /\ uses' = uses
  BY DEF Relink, Code, Remove, Forget, Unflag, history
<1>2. CASE Relink(r)
  <2>1. Done(r) /\ Head1(r) = "relink"
    BY <1>2 DEF Relink
  <2>2. /\ Active(r) /\ HeldOK(req[r])
        /\ req[r].steps \in {<<"relink", "recent", "row", "cache">>, <<"relink", "row", "cache">>}
    BY <2>1, DoneRecord, Heads
  <2>3. req[r].l = None
    BY <2>2 DEF HeldOK
  <2>4. PICK w : /\ req' = [req EXCEPT ![r] = w] /\ (w = Idle \/ w.l \in {req[r].l, None})
    BY <2>1, DoneRecord
  <2>5. Usable(l)' => Usable(l) \/ (uses[l] = 0 /\ \A b \in Browsers : <<b, l>> \notin seen)
    <3>1. PICK left : left = [k \in Links |-> IF links[k] # None /\ links[k].usage = "EmailChange"
                                              THEN None ELSE links[k]]
      OBVIOUS
    <3>2. PICK n : n = CHOOSE k \in {k \in Unused : left[k] = None} : TRUE
      OBVIOUS
    <3>3. /\ {k \in Unused : left[k] = None} # {}
          /\ links' = IF user = None THEN left ELSE [left EXCEPT ![n] = Link("EmailChange", req[r].ml)]
      BY <1>2, <3>1, <3>2 DEF Relink
    <3>4. n \in Unused
      BY <3>2, <3>3
    <3>5. l # n => links'[l] = left[l]
      BY <3>1, <3>3
    <3>6. left[l] \in {None, links[l]}
      BY <3>1
    <3>7. l = n => uses[l] = 0 /\ \A b \in Browsers : <<b, l>> \notin seen
      BY <3>4 DEF Unused
    <3> QED
      BY <3>5, <3>6, <3>7 DEF Usable
  <2> QED
    BY <1>1, <2>2, <2>3, <2>4, <2>5, LinkStep, ConstantsOK
<1>3. CASE Code(r) \/ Remove(r) \/ Forget(r)
  <2>1. Done(r) /\ Head1(r) \in {"code", "remove", "forget"}
    BY <1>3 DEF Code, Remove, Forget
  <2>2. /\ Active(r) /\ HeldOK(req[r])
        /\ req[r].steps \in {<<"code">>, <<"remove", "forget">>, <<"forget">>}
    BY <2>1, DoneRecord, Heads
  <2>3. req[r].l = None
    BY <2>2 DEF HeldOK
  <2>4. PICK w : /\ req' = [req EXCEPT ![r] = w] /\ (w = Idle \/ w.l \in {req[r].l, None})
    BY <2>1, DoneRecord
  <2>5. Usable(l)' => Usable(l)
    BY <1>3 DEF Code, Remove, Forget, Usable, store
  <2> QED
    BY <1>1, <2>2, <2>3, <2>4, <2>5, LinkStep, ConstantsOK
<1>4. CASE Unflag(r)
  <2>1. Active(r) /\ HeldOK(req[r]) /\ req[r].steps = <<"unflag", "cache", "delete">>
    BY <1>4, UnflagStep
  <2>2. req[r].l = None
    BY <2>1 DEF HeldOK
  <2>3. PICK w : req' = [req EXCEPT ![r] = w] /\ w.l = req[r].l
    BY <1>4, UnflagStep
  <2>4. Usable(l)' => Usable(l)
    BY <1>4 DEF Unflag, Usable, store
  <2> QED
    BY <1>1, <2>1, <2>2, <2>3, <2>4, LinkStep, ConstantsOK
<1> QED
  BY <1>2, <1>3, <1>4

\* The user is read again after the link was spent.
LEMMA OneShotRefetch ==
    ASSUME ShapeInv, NEW l \in Links, LinkInv(l), NEW r \in Requests, Refetch(r)
    PROVE  LinkInv(l)'
<1>1. Active(r) /\ req[r].steps = <<"refetch", "row", "cache">> /\ UNCHANGED <<links, seen, uses>>
  BY RefetchStep DEF store, history
<1>2. PICK w : req' = [req EXCEPT ![r] = w] /\ w.l = None
  BY RefetchStep
<1>3. Usable(l)' <=> Usable(l)
  BY <1>1 DEF Usable
<1>4. ASSUME req[r].l = l PROVE uses'[l] \in {0, 1} /\ ~(uses'[l] = 1 /\ Usable(l)')
  <2>1. uses[l] \in {0, 1} /\ (uses[l] = 1 /\ Usable(l) => req[r].steps \in Spending)
    BY <1>1, <1>4, LinkSole DEF OnLink
  <2>2. req[r].steps \notin Spending
    BY <1>1 DEF Spending
  <2> QED
    BY <1>1, <1>3, <2>1, <2>2
<1> QED
  BY <1>1, <1>2, <1>3, <1>4, LinkStep, ConstantsOK

\* The row is written: a password reset has spent its link, the confirmation of an
\* address is about to.
LEMMA OneShotRow ==
    ASSUME ShapeInv, NEW l \in Links, LinkInv(l), NEW r \in Requests, Row(r)
    PROVE  LinkInv(l)'
<1>1. Head1(r) = "row" /\ UNCHANGED <<links, seen>>
  BY DEF Row
<1>2. /\ Active(r) /\ HeldOK(req[r]) /\ req[r].steps \in {<<"row", "cache">>, <<"row", "cache", "spend">>}
  <2>1. Active(r) /\ HeldOK(req[r]) /\ req[r].steps \in Programs /\ Head1(r) = Head(req[r].steps)
    BY <1>1, NextStep
  <2> QED
    BY <1>1, <2>1, Heads
<1>3. PICK w : /\ req' = [req EXCEPT ![r] = w]
               /\ \/ w = Idle /\ uses' = uses
                  \/ w # Idle /\ uses' = Counted(req[r]) /\ w.steps = Tail(req[r].steps) /\ w.l = req[r].l
  <2>1. CASE Done(r) /\ uses' = Counted(req[r])
    <3>1. Len(req[r].steps) # 1
      BY <1>2
    <3> QED
      BY <1>1, <2>1, <3>1, DoneRecord DEF After
  <2>2. CASE req' = [req EXCEPT ![r] = Idle] /\ uses' = uses
    BY <2>2
  <2> QED
    BY <2>1, <2>2 DEF Row
<1>4. Usable(l)' <=> Usable(l)
  BY <1>1 DEF Usable
<1>5. req[r].l \in Links \cup {None}
  BY <1>2 DEF HeldOK, Held
<1>6. Counted(req[r])[l] = IF user # None /\ req[r].l = l THEN uses[l] + 1 ELSE uses[l]
  BY <1>5, CountedType
<1>7. req[r].l # l => uses'[l] = uses[l]
  BY <1>3, <1>6
<1>8. ASSUME req[r].l = l
      PROVE  /\ uses'[l] \in {0, 1} /\ (w # Idle /\ w.l = l => LinkHeld(w, l)')
             /\ uses'[l] = 1 /\ Usable(l)' => w # Idle /\ w.l = l /\ w.steps \in Spending
  <2>1. LinkHeld(req[r], l)
    BY <1>2, <1>8, LinkSole DEF OnLink
  <2>2. req[r].steps \in Unspent
    BY <1>2 DEF Unspent, BeforeRow
  <2>3. uses[l] = 0
    BY <2>1, <2>2 DEF LinkHeld
  <2>4. uses'[l] \in {0, 1} /\ (uses'[l] = 1 => w # Idle /\ w.l = l)
    BY <1>3, <1>6, <1>8, <2>3
  <2>5. /\ Tail(<<"row", "cache">>) = <<"cache">>
        /\ Tail(<<"row", "cache", "spend">>) = <<"cache", "spend">>
    OBVIOUS
  <2>6. ASSUME w # Idle PROVE LinkHeld(w, l)'
    <3>1. w.steps \in {<<"cache">>, <<"cache", "spend">>}
      BY <1>2, <1>3, <2>5, <2>6
    <3>2. w.steps \notin Unspent
      BY <3>1 DEF Unspent, BeforeRow, BeforeCache, Inserting
    <3>3. BeforeRow \subseteq Unspent /\ <<"row", "cache">> \in BeforeRow
      BY DEF Unspent, BeforeRow
    <3> QED
      BY <3>2, <3>3 DEF LinkHeld
  <2>7. ASSUME uses'[l] = 1, Usable(l)' PROVE w.steps \in Spending
    <3>1. req[r].steps # <<"row", "cache">>
      BY <1>4, <2>1, <2>7 DEF LinkHeld
    <3>2. w.steps = <<"cache", "spend">>
      BY <1>2, <1>3, <2>4, <2>5, <2>7, <3>1
    <3> QED
      BY <3>2 DEF Spending
  <2> QED
    BY <2>4, <2>6, <2>7
<1>9. seen \subseteq seen' /\ (w = Idle \/ w.l \in {req[r].l, None})
  BY <1>1, <1>3
<1> QED
  BY <1>2, <1>3, <1>4, <1>7, <1>8, <1>9, LinkStep

\* The caches, and the passkeys of a new user before they are inserted
LEMMA OneShotCache ==
    ASSUME ShapeInv, NEW l \in Links, LinkInv(l), NEW r \in Requests, Cache(r) \/ Drop(r)
    PROVE  LinkInv(l)'
<1>1. /\ Head1(r) \in {"cache", "drop"} /\ Done(r) /\ UNCHANGED <<links, seen, uses>>
  BY DEF Cache, Drop, store, history
<1>2. /\ Active(r) /\ HeldOK(req[r]) /\ req[r].steps \in Programs /\ Head(req[r].steps) \in {"cache", "drop"}
  BY <1>1, DoneRecord
<1>3. PICK w : /\ req' = [req EXCEPT ![r] = w] /\ (w = Idle \/ w.l \in {req[r].l, None})
               /\ IF Len(req[r].steps) = 1 THEN w = Idle ELSE w # Idle /\ After(req[r], w)
  BY <1>1, DoneRecord
<1>4. Usable(l)' <=> Usable(l)
  BY <1>1 DEF Usable
<1>5. ASSUME req[r].l = l
      PROVE  /\ uses'[l] \in {0, 1} /\ (w # Idle /\ w.l = l => LinkHeld(w, l)')
             /\ uses'[l] = 1 /\ Usable(l)' => w # Idle /\ w.l = l /\ w.steps \in Spending
  <2>1. LinkHeld(req[r], l) /\ uses[l] \in {0, 1} /\ (uses[l] = 1 /\ Usable(l) => req[r].steps \in Spending)
    BY <1>2, <1>5, LinkSole DEF OnLink
  <2>2. req[r].steps \in MayHaveLink
    BY <1>2, <1>5, ConstantsOK DEF HeldOK
  <2>3. req[r].steps \in {<<"cache">>, <<"cache", "spend">>,
                          <<"cache", "drop", "insert", "spend", "refetch", "row", "cache">>,
                          <<"drop", "insert", "spend", "refetch", "row", "cache">>}
    BY <1>2, <2>2 DEF MayHaveLink, NeedsLink
  <2>4. CASE req[r].steps = <<"cache">>
    <3>1. w = Idle /\ req[r].steps \notin Spending
      BY <1>3, <2>4 DEF Spending
    <3> QED
      BY <1>1, <1>4, <2>1, <3>1
  <2>5. CASE req[r].steps = <<"cache", "spend">>
    <3>1. w # Idle /\ w.steps = <<"spend">> /\ w.l = l
      BY <1>3, <1>5, <2>5 DEF After
    <3>2. w.steps \in Spending /\ w.steps \notin Unspent
      BY <3>1 DEF Spending, Unspent, BeforeRow, BeforeCache, Inserting
    <3>3. BeforeRow \subseteq Unspent /\ <<"row", "cache">> \in BeforeRow
      BY DEF Unspent, BeforeRow
    <3>4. LinkHeld(w, l)'
      BY <3>2, <3>3 DEF LinkHeld
    <3> QED
      BY <1>1, <2>1, <3>1, <3>2, <3>4
  <2>6. CASE req[r].steps \in {<<"cache", "drop", "insert", "spend", "refetch", "row", "cache">>,
                               <<"drop", "insert", "spend", "refetch", "row", "cache">>}
    <3>1. req[r].steps \in Unspent
      BY <2>6 DEF Unspent, BeforeCache, Inserting
    <3>2. uses'[l] = 0
      BY <1>1, <2>1, <3>1 DEF LinkHeld
    <3>3. w # Idle => w.steps \in {<<"drop", "insert", "spend", "refetch", "row", "cache">>,
                                   <<"insert", "spend", "refetch", "row", "cache">>}
      <4>1. w # Idle => w.steps = Tail(req[r].steps)
        BY <1>3 DEF After
      <4>2. /\ Tail(<<"cache", "drop", "insert", "spend", "refetch", "row", "cache">>)
                 = <<"drop", "insert", "spend", "refetch", "row", "cache">>
            /\ Tail(<<"drop", "insert", "spend", "refetch", "row", "cache">>)
                 = <<"insert", "spend", "refetch", "row", "cache">>
        OBVIOUS
      <4> QED
        BY <2>6, <4>1, <4>2
    <3>4. w # Idle => w.steps \notin BeforeRow /\ w.steps # <<"row", "cache">>
      BY <3>3 DEF BeforeRow
    <3>5. w # Idle => LinkHeld(w, l)'
      BY <3>2, <3>4 DEF LinkHeld
    <3> QED
      BY <3>2, <3>5
  <2> QED
    BY <2>3, <2>4, <2>5, <2>6
<1>6. uses'[l] = uses[l] /\ seen \subseteq seen'
  BY <1>1
<1> QED
  BY <1>2, <1>3, <1>4, <1>5, <1>6, LinkStep

\* The first passkey of a new user is inserted, and the link is spent next.
LEMMA OneShotCommit ==
    ASSUME ShapeInv, NEW l \in Links, LinkInv(l), NEW r \in Requests, Commit(r)
    PROVE  LinkInv(l)'
<1>1. /\ Head1(r) \in {"insert", "delete", "commit"} /\ Done(r) /\ UNCHANGED <<links, seen>>
      /\ uses' = Counted(req[r])
  BY DEF Commit
<1>2. /\ Active(r) /\ HeldOK(req[r]) /\ req[r].steps \in Programs
      /\ Head(req[r].steps) \in {"insert", "delete", "commit"}
  BY <1>1, DoneRecord
<1>3. PICK w : /\ req' = [req EXCEPT ![r] = w] /\ (w = Idle \/ w.l \in {req[r].l, None})
               /\ IF Len(req[r].steps) = 1 THEN w = Idle ELSE w # Idle /\ After(req[r], w)
  BY <1>1, DoneRecord
<1>4. Usable(l)' <=> Usable(l)
  BY <1>1 DEF Usable
<1>5. req[r].l \in Links \cup {None}
  BY <1>2 DEF HeldOK, Held
<1>6. uses'[l] = IF user # None /\ req[r].l = l THEN uses[l] + 1 ELSE uses[l]
  BY <1>1, <1>5, CountedType
<1>7. ASSUME req[r].l = l
      PROVE  /\ uses'[l] \in {0, 1} /\ (w # Idle /\ w.l = l => LinkHeld(w, l)')
             /\ w # Idle /\ w.l = l /\ w.steps \in Spending
  <2>1. LinkHeld(req[r], l)
    BY <1>2, <1>7, LinkSole DEF OnLink
  <2>2. req[r].steps \in MayHaveLink
    BY <1>2, <1>7, ConstantsOK DEF HeldOK
  <2>3. req[r].steps = <<"insert", "spend", "refetch", "row", "cache">>
    BY <1>2, <2>2 DEF MayHaveLink, NeedsLink
  <2>4. req[r].steps \in Unspent
    BY <2>3 DEF Unspent, Inserting
  <2>5. uses[l] = 0
    BY <2>1, <2>4 DEF LinkHeld
  <2>6. w # Idle /\ w.l = l /\ w.steps = <<"spend", "refetch", "row", "cache">>
    BY <1>3, <1>7, <2>3 DEF After
  <2>7. w.steps \in Spending /\ w.steps \notin Unspent
    BY <2>6 DEF Spending, Unspent, BeforeRow, BeforeCache, Inserting
  <2>8. BeforeRow \subseteq Unspent /\ <<"row", "cache">> \in BeforeRow
    BY DEF Unspent, BeforeRow
  <2>9. LinkHeld(w, l)'
    BY <2>7, <2>8 DEF LinkHeld
  <2> QED
    BY <1>6, <2>5, <2>6, <2>7, <2>9
<1>8. seen \subseteq seen' /\ (req[r].l # l => uses'[l] = uses[l])
  BY <1>1, <1>6
<1> QED
  BY <1>2, <1>3, <1>4, <1>7, <1>8, LinkStep

\* Every step keeps what is known of the links that are not spoilt.
LEMMA OneShotNext ==
    ASSUME ShapeInv, OneShotInv, [Next]_vars
    PROVE  OneShotInv'
<1> SUFFICES ASSUME NEW l \in Links, l \notin spoilt' PROVE LinkInv(l)'
  BY DEF OneShotInv
<1>1. CASE Next
  <2>1. \/ Singles \/ \E r \in Requests : Step(r) \/ Fail(r) \/ \E op : Starts(r, op)
    BY <1>1, Cases
  <2>2. spoilt \subseteq spoilt'
    BY <1>1, SpoiltGrows
  <2>3. LinkInv(l)
    BY <2>2 DEF OneShotInv
  <2>4. CASE Singles
    BY <2>3, <2>4, OneShotSingles
  <2>5. ASSUME NEW r \in Requests, Step(r) PROVE LinkInv(l)'
    BY <2>3, <2>5, OneShotCheck, OneShotBind, OneShotRecent, OneShotSpend, OneShotMail, OneShotNone,
       OneShotRow, OneShotCache, OneShotCommit, OneShotRefetch DEF Step
  <2>6. ASSUME NEW r \in Requests, Fail(r) \/ \E op : Starts(r, op) PROVE LinkInv(l)'
    BY <2>3, <2>6, OneShotFail, OneShotStarts
  <2> QED
    BY <2>1, <2>4, <2>5, <2>6
<1>2. CASE UNCHANGED vars
  <2>1. UNCHANGED <<uses, seen, links, req, spoilt>>
    BY <1>2 DEF vars, store, history
  <2>2. LinkInv(l) /\ (Usable(l)' <=> Usable(l))
    BY <2>1 DEF OneShotInv, Usable
  <2>3. uses'[l] = uses[l] /\ seen \subseteq seen' /\ \A p \in Requests : req'[p] = req[p]
    BY <2>1
  <2> QED
    BY <2>2, <2>3, LinkElsewhere
<1> QED
  BY <1>1, <1>2

\* No link was used when the instance starts.
LEMMA OneShotInit == Init => OneShotInv
<1> SUFFICES ASSUME Init, NEW l \in Links PROVE LinkInv(l)
  BY DEF OneShotInv
<1>1. uses[l] = 0 /\ \A r \in Requests : ~OnLink(r, l)
  BY DEF Init, OnLink, Active
<1> QED
  BY <1>1 DEF LinkInv

\* A magic link changes the account at most once, unless two of its requests
\* overlapped or one failed midway (LinkOneShot).
THEOREM AccountLinkOneShot == Spec => []LinkOneShot
<1>1. Init => ShapeInv /\ OneShotInv
  BY ShapeInit, OneShotInit
<1>2. ShapeInv /\ OneShotInv /\ [Next]_vars => (ShapeInv /\ OneShotInv)'
  BY ShapeNext, OneShotNext
<1>3. OneShotInv => LinkOneShot
  BY DEF OneShotInv, LinkInv, LinkOneShot
<1> QED
  BY <1>1, <1>2, <1>3, PTL DEF Spec

-----------------------------------------------------------------------------
\* Requests that do not overlap

\* A password that differs from the compared ones keeps the history without repetition.
LEMMA RecentSaved ==
    ASSUME NEW s \in Seq(Passwords), recent \in Seq(Passwords) \cup {None}, RecentOf(s),
           NEW p \in Passwords, Acceptable(p), recent' = WithRecent(p)
    PROVE  RecentOf(<<p>> \o s)'
<1>1. PICK t : t = <<p>> \o s
  OBVIOUS
<1>2. <<p>> \in Seq(Passwords) /\ Len(<<p>>) = 1 /\ <<p>>[1] = p
  OBVIOUS
<1>3. /\ t \in Seq(Passwords) /\ Len(t) = 1 + Len(s) /\ Len(s) \in Nat
      /\ \A i \in 1 .. 1 + Len(s) : t[i] = IF i <= 1 THEN p ELSE s[i - 1]
  <2>1. /\ t \in Seq(Passwords) /\ Len(t) = Len(<<p>>) + Len(s)
        /\ \A i \in 1 .. Len(<<p>>) + Len(s) :
             t[i] = IF i <= Len(<<p>>) THEN <<p>>[i] ELSE s[i - Len(<<p>>)]
    BY <1>1, <1>2, ConcatProperties
  <2> QED
    BY <1>2, <2>1
<1>4. RecentReq \in Nat \ {0}
  BY ConstantsOK
<1>5. ASSUME NEW c \in Seq(Passwords), Len(c) <= Len(s), \A i \in 1 .. Len(c) : c[i] = s[i],
             \A i \in 1 .. Len(c) : c[i] # p, recent' = <<p>> \o c,
             Len(c) = Len(s) \/ Len(c) + 1 >= RecentReq
      PROVE  RecentOf(t)'
  <2>1. /\ recent' \in Seq(Passwords) /\ Len(recent') = 1 + Len(c) /\ Len(c) \in Nat
        /\ \A i \in 1 .. 1 + Len(c) : recent'[i] = IF i <= 1 THEN p ELSE c[i - 1]
    <3>1. /\ recent' \in Seq(Passwords) /\ Len(recent') = Len(<<p>>) + Len(c)
          /\ \A i \in 1 .. Len(<<p>>) + Len(c) :
               recent'[i] = IF i <= Len(<<p>>) THEN <<p>>[i] ELSE c[i - Len(<<p>>)]
      BY <1>2, <1>5, ConcatProperties
    <3> QED
      BY <1>2, <3>1
  <2>2. recent' # None
    BY <2>1, ConstantsOK
  <2>3. \A i \in 1 .. Len(recent') : recent'[i] = t[i]
    <3>1. ASSUME NEW i \in 1 .. 1 + Len(c) PROVE recent'[i] = t[i]
      <4>1. i \in 1 .. 1 + Len(s)
        BY <1>3, <1>5, <2>1
      <4>2. CASE i <= 1
        BY <1>3, <2>1, <4>1, <4>2
      <4>3. CASE ~(i <= 1)
        <5>1. i - 1 \in 1 .. Len(c)
          BY <2>1, <4>3
        <5> QED
          BY <1>3, <1>5, <2>1, <4>1, <4>3, <5>1
      <4> QED
        BY <4>2, <4>3
    <3> QED
      BY <2>1, <3>1
  <2>4. Unrepeated(t)
    <3>1. ASSUME NEW i \in 1 .. 1 + Len(s), NEW j \in 1 .. 1 + Len(s), i < j, j - i < RecentReq
          PROVE  t[i] # t[j]
      <4>1. t[j] = s[j - 1] /\ j - 1 \in 1 .. Len(s)
        BY <1>3, <3>1
      <4>2. CASE i = 1
        <5>1. j - 1 \in 1 .. Len(c)
          BY <1>3, <1>4, <1>5, <2>1, <3>1, <4>2
        <5>2. s[j - 1] # p
          BY <1>5, <5>1
        <5> QED
          BY <1>3, <4>1, <4>2, <5>2
      <4>3. CASE i # 1
        <5>1. t[i] = s[i - 1] /\ i - 1 \in 1 .. Len(s)
          BY <1>3, <3>1, <4>3
        <5>2. i - 1 < j - 1 /\ (j - 1) - (i - 1) < RecentReq
          BY <1>3, <1>4, <3>1
        <5>3. s[i - 1] # s[j - 1]
          <6>1. \A x, y \in 1 .. Len(s) : x < y /\ y - x < RecentReq => s[x] # s[y]
            <7>1. Unrepeated(s)
              BY DEF RecentOf
            <7>2. DOMAIN s = 1 .. Len(s)
              OBVIOUS
            <7> QED
              BY <7>1, <7>2 DEF Unrepeated
          <6> QED
            BY <4>1, <5>1, <5>2, <6>1
        <5> QED
          BY <4>1, <5>1, <5>3
      <4> QED
        BY <4>2, <4>3
    <3>2. DOMAIN t = 1 .. 1 + Len(s)
      BY <1>3
    <3> QED
      BY <3>1, <3>2 DEF Unrepeated
  <2>5. Len(recent') <= Len(t) /\ (Len(recent') = Len(t) \/ Len(recent') >= RecentReq)
    BY <1>3, <1>4, <1>5, <2>1
  <2> QED
    BY <2>2, <2>3, <2>4, <2>5 DEF RecentOf, Unrepeated
<1>6. RecentOf(t)'
  <2>1. CASE recent = None
    <3>1. s = <<>> /\ recent' = <<p>>
      BY <2>1 DEF RecentOf, WithRecent
    <3>2. PICK c : c = s
      OBVIOUS
    <3>3. c \in Seq(Passwords) /\ Len(c) = 0 /\ Len(s) = 0
      BY <3>1, <3>2
    <3>4. <<p>> \o c = <<p>>
      BY <1>2, <3>1, <3>2, ConcatEmptySeq
    <3>5. /\ Len(c) <= Len(s) /\ (\A i \in 1 .. Len(c) : c[i] = s[i] /\ c[i] # p)
          /\ recent' = <<p>> \o c /\ Len(c) = Len(s)
      BY <3>1, <3>3, <3>4
    <3> QED
      BY <1>5, <3>3, <3>5
  <2>2. CASE recent # None
    <3>1. /\ recent \in Seq(Passwords) /\ Len(recent) \in Nat /\ DOMAIN recent = 1 .. Len(recent)
      BY <2>2
    <3>2. /\ Len(recent) <= Len(s) /\ \A i \in 1 .. Len(recent) : recent[i] = s[i]
          /\ Len(recent) = Len(s) \/ Len(recent) >= RecentReq
      BY <2>2 DEF RecentOf
    <3>3. PICK c : c = Compared(recent)
      OBVIOUS
    <3>4. recent' = <<p>> \o c /\ \A i \in DOMAIN c : recent[i] # p
      BY <2>2, <3>3 DEF WithRecent, Acceptable
    <3>5. CASE RecentReq = 1 \/ Len(recent) < RecentReq
      <4>1. c = recent
        BY <3>3, <3>5 DEF Compared
      <4>2. Len(c) = Len(s) \/ Len(c) + 1 >= RecentReq
        BY <1>3, <1>4, <3>1, <3>2, <3>5, <4>1
      <4> QED
        BY <1>5, <3>1, <3>2, <3>4, <4>1, <4>2
    <3>6. CASE ~(RecentReq = 1 \/ Len(recent) < RecentReq)
      <4>1. c = SubSeq(recent, 1, RecentReq - 1)
        BY <3>3, <3>6 DEF Compared
      <4>2. 1 \in 1 .. Len(recent) + 1 /\ RecentReq - 1 \in 1 - 1 .. Len(recent)
        BY <1>4, <3>1, <3>6
      <4>3. /\ c \in Seq(Passwords) /\ Len(c) = (IF 1 <= RecentReq - 1 THEN (RecentReq - 1) - 1 + 1 ELSE 0)
            /\ \A i \in 1 .. (RecentReq - 1) - 1 + 1 : c[i] = recent[1 + i - 1]
        BY <3>1, <4>1, <4>2, SubSeqProperties
      <4>4. Len(c) = RecentReq - 1 /\ \A i \in 1 .. Len(c) : c[i] = recent[i]
        <5>1. Len(c) = RecentReq - 1 /\ (RecentReq - 1) - 1 + 1 = RecentReq - 1
          BY <1>4, <3>6, <4>3
        <5>2. ASSUME NEW i \in 1 .. Len(c) PROVE c[i] = recent[i]
          <6>1. i \in 1 .. (RecentReq - 1) - 1 + 1 /\ 1 + i - 1 = i
            BY <1>4, <5>1
          <6> QED
            BY <4>3, <6>1
        <5> QED
          BY <5>1, <5>2
      <4>5. Len(c) <= Len(s) /\ Len(c) + 1 >= RecentReq /\ \A i \in 1 .. Len(c) : i \in 1 .. Len(recent)
        BY <1>3, <1>4, <3>1, <3>2, <3>6, <4>4
      <4>6. DOMAIN c = 1 .. Len(c)
        BY <4>3
      <4>7. \A i \in 1 .. Len(c) : c[i] = s[i] /\ c[i] # p
        BY <3>2, <3>4, <4>4, <4>5, <4>6
      <4> QED
        BY <1>5, <3>4, <4>3, <4>5, <4>7
    <3> QED
      BY <3>5, <3>6
  <2> QED
    BY <2>1, <2>2
<1> QED
  BY <1>1, <1>6

\* The list of passkeys had two: one is left when another goes.
LEMMA NotLast ==
    ASSUME NEW S, S \subseteq keys, keys \subseteq Keys, ~(Cardinality(S) < 2), NEW k
    PROVE  keys \ {k} # {}
<1>1. IsFiniteSet(S)
  BY FS_Subset, ConstantsOK
<1>2. SUFFICES ASSUME keys \ {k} = {} PROVE FALSE
  OBVIOUS
<1>3. S \subseteq {k}
  BY <1>2
<1>4. IsFiniteSet({k}) /\ Cardinality({k}) = 1
  BY FS_Singleton
<1>5. Cardinality(S) <= Cardinality({k}) /\ Cardinality(S) \in Nat
  BY <1>1, <1>3, <1>4, FS_Subset, FS_CardinalityType
<1> QED
  BY <1>4, <1>5

\* The kinds of programs are different.
LEMMA Disjoint ==
    ASSUME NEW s
    PROVE  /\ s \in Reading =>
                s \notin BeforeRow \cup AfterRow \cup BeforeCache \cup Committing \cup Removing \cup {<<"check">>}
           /\ s \in BeforeRow =>
                s \notin AfterRow \cup BeforeCache \cup Committing \cup Removing \cup {<<"check">>}
           /\ s \in AfterRow => s \notin BeforeCache \cup Committing \cup Removing \cup {<<"check">>}
           /\ s \in BeforeCache => s \notin Committing \cup Removing \cup {<<"check">>}
           /\ s \in Committing => s \notin Removing \cup {<<"check">>}
           /\ s \in Removing => s # <<"check">>
           /\ s \in Deleting => s \in Committing
           /\ s \in SavingKey => s \in BeforeCache \cup Committing
           /\ s \in Uncached => s \in Reading \cup BeforeCache \cup Committing
           /\ s \in Unflagging => s \in Reading
           /\ s = <<"cache", "delete">> => s \in BeforeCache
           /\ s = <<"remove", "forget">> => s \in Removing
           /\ s = <<"forget">> => s \in Removing
           /\ s \in {<<"spend", "row", "cache">>, <<"row", "cache">>} => s \in BeforeRow
<1> USE DEF Programs, BeforeRow, AfterRow, BeforeCache, Committing, Inserting, Deleting, Removing,
            Reading, SavingKey, Uncached, Unflagging
<1>1. s \in Reading =>
        s \notin BeforeRow \cup AfterRow \cup BeforeCache \cup Committing \cup Removing \cup {<<"check">>}
  <2>1. s \in Reading => s \notin BeforeRow OBVIOUS
  <2>2. s \in Reading => s \notin AfterRow \cup BeforeCache OBVIOUS
  <2>3. s \in Reading => s \notin Committing OBVIOUS
  <2>4. s \in Reading => s \notin Removing \cup {<<"check">>} OBVIOUS
  <2> HIDE DEF BeforeRow, AfterRow, BeforeCache, Committing, Removing, Reading
  <2> QED BY <2>1, <2>2, <2>3, <2>4
<1>2. s \in BeforeRow =>
        s \notin AfterRow \cup BeforeCache \cup Committing \cup Removing \cup {<<"check">>}
  <2>1. s \in BeforeRow => s \notin AfterRow \cup BeforeCache OBVIOUS
  <2>2. s \in BeforeRow => s \notin Committing OBVIOUS
  <2>3. s \in BeforeRow => s \notin Removing \cup {<<"check">>} OBVIOUS
  <2> HIDE DEF BeforeRow, AfterRow, BeforeCache, Committing, Removing, Reading
  <2> QED BY <2>1, <2>2, <2>3
<1>3. s \in AfterRow => s \notin BeforeCache \cup Committing \cup Removing \cup {<<"check">>} OBVIOUS
<1>4. s \in BeforeCache => s \notin Committing \cup Removing \cup {<<"check">>} OBVIOUS
<1>5. s \in Committing => s \notin Removing \cup {<<"check">>} OBVIOUS
<1>6. s \in Removing => s # <<"check">> OBVIOUS
<1>7. s \in Deleting => s \in Committing OBVIOUS
<1>8. s \in SavingKey => s \in BeforeCache \cup Committing OBVIOUS
<1>9. s \in Uncached => s \in Reading \cup BeforeCache \cup Committing OBVIOUS
<1>10. s \in Unflagging => s \in Reading OBVIOUS
<1>11. /\ s = <<"cache", "delete">> => s \in BeforeCache
       /\ s = <<"remove", "forget">> => s \in Removing
       /\ s = <<"forget">> => s \in Removing
       /\ s \in {<<"spend", "row", "cache">>, <<"row", "cache">>} => s \in BeforeRow OBVIOUS
<1> HIDE DEF BeforeRow, AfterRow, BeforeCache, Committing, Deleting, Removing, Reading, SavingKey, Uncached,
             Unflagging
<1> QED
  BY <1>1, <1>2, <1>3, <1>4, <1>5, <1>6, <1>7, <1>8, <1>9, <1>10, <1>11

\* What has to be shown for a request that only reads next
LEMMA PhaseReading ==
    ASSUME NEW w, w.steps \in Reading, CopiesAre(user)', w.steps \in Unflagging => w.old = None,
           w.steps \in Uncached => pkList' = None
    PROVE  Phase(w)' /\ ~Saved(w)
BY Disjoint DEF Phase, Saved

\* Before the row is written
LEMMA PhaseRow ==
    ASSUME NEW w, w.steps \in BeforeRow, CopiesAre(user)', user' # None, w.u.mfa = user'.mfa,
           user'.email = (IF w.old = None THEN w.u.email ELSE w.old), w.pwd # None => w.u.email # w.old
    PROVE  Phase(w)'
BY Disjoint DEF Phase

\* After the row was written
LEMMA PhaseAfter ==
    ASSUME NEW w, w.steps \in AfterRow, user' = w.u, OnlyAt(w)'
    PROVE  Phase(w)' /\ ~Saved(w)
BY Disjoint DEF Phase, Saved

\* Before the caches are written ahead of the row
LEMMA PhaseCache ==
    ASSUME NEW w, w.steps \in BeforeCache, CopiesAre(user)', user' # None, w.u.email = user'.email,
           w.old = None, w.steps = <<"cache", "delete">> => ~w.u.mfa,
           w.steps \in SavingKey => w.u.mfa = user'.mfa, w.steps \in Uncached => pkList' = None
    PROVE  Phase(w)' /\ ~Saved(w)
BY Disjoint DEF Phase, Saved

\* Before the transaction of a passkey commits
LEMMA PhaseCommit ==
    ASSUME NEW w, w.steps \in Committing,
           IF w.u = None THEN CopiesAre(user)' ELSE CopiesAre(w.u)' /\ user' # None,
           w.steps \in Deleting =>
             IF w.u = None THEN user' # None /\ user'.mfa => keys' \ {w.key} # {} ELSE ~w.u.mfa,
           w.steps \in SavingKey => user' # None /\ w.u.mfa = user'.mfa,
           w.steps \in Uncached => pkList' = None
    PROVE  Phase(w)' /\ ~Saved(w)
BY Disjoint DEF Phase, Saved

\* Before and after the user is deleted
LEMMA PhaseRemove ==
    ASSUME NEW w, w.steps \in Removing, w.old = None,
           w.steps = <<"remove", "forget">> => CopiesAre(user)' /\ w.u = user',
           w.steps = <<"forget">> => user' = None /\ OnlyAt(w)'
    PROVE  Phase(w)' /\ ~Saved(w)
BY Disjoint DEF Phase, Saved

\* Before the check of a password reset
LEMMA PhaseCheck ==
    ASSUME NEW w, w.steps = <<"check">>, CopiesAre(user)', user' # None, w.u = user'
    PROVE  Phase(w)' /\ ~Saved(w)
BY Disjoint DEF Phase, Saved

\* Request r works alone, and goes on with record w.
LEMMA CalmHere ==
    ASSUME ShapeInv, NEW r \in Requests, NEW w, req' = [req EXCEPT ![r] = w],
           \A p \in Requests : Active(p) => p = r, KeysKept',
           w = Idle => AtRest', w # Idle => Phase(w)' /\ Kept(w)'
    PROVE  Calm'
<1>1. req'[r] = w /\ \A p \in Requests : p # r => req'[p] = req[p]
  BY OneOp
<1>2. \A p \in Requests : Active(p)' => p = r
  BY <1>1 DEF Active
<1>3. Active(r)' <=> w # Idle
  BY <1>1 DEF Active
<1>4. ASSUME NEW p \in Requests, Active(p)' PROVE Phase(req[p])' /\ Kept(req[p])'
  <2>1. req'[p] = w /\ w # Idle
    BY <1>1, <1>2, <1>3, <1>4
  <2>2. Phase(w)' /\ Kept(w)'
    BY <2>1
  <2>3. Phase(req[p])'
    BY <2>1, <2>2 DEF Phase, OnlyAt, CopiesAre
  <2>4. Kept(req[p])'
    BY <2>1, <2>2 DEF Kept, Saved
  <2> QED
    BY <2>3, <2>4
<1>5. (\A p \in Requests : ~Active(p)') => AtRest'
  BY <1>3
<1>6. \A p, q \in Requests : Active(p)' /\ Active(q)' => p = q
  BY <1>2
<1> QED
  BY <1>4, <1>5, <1>6 DEF Calm

\* A request that works alone
LEMMA CalmSole ==
    ASSUME Calm, NEW r \in Requests, Active(r)
    PROVE  /\ \A p \in Requests : Active(p) => p = r
           /\ KeysKept /\ Phase(req[r]) /\ Kept(req[r])
BY DEF Calm

\* Nothing that requests work on changes.
LEMMA CalmSame ==
    ASSUME Calm, UNCHANGED <<user, byId, byEmail, keys, pkList, recent, used, req>>
    PROVE  Calm'
<1>1. \A p \in Requests : Active(p)' <=> Active(p)
  BY DEF Active
<1>2. KeysKept'
  BY DEF Calm, KeysKept
<1>3. AtRest => AtRest'
  BY DEF AtRest, CopiesAre, RecentOf, Unrepeated
<1>4. ASSUME NEW p \in Requests, Active(p) PROVE Phase(req[p])' /\ Kept(req[p])'
  <2>1. Phase(req[p]) /\ Kept(req[p])
    BY <1>4 DEF Calm
  <2>2. Phase(req[p])'
    BY <2>1 DEF Phase, CopiesAre, OnlyAt
  <2>3. Kept(req[p])'
    <3>1. PICK s : s = IF Saved(req[p]) THEN <<req[p].pwd>> \o used ELSE used
      OBVIOUS
    <3>2. s = (IF Saved(req[p]) THEN <<req[p].pwd>> \o used ELSE used)'
      BY <3>1 DEF Saved
    <3>3. RecentOf(s)
      BY <2>1, <3>1 DEF Kept
    <3>4. RecentOf(s)'
      BY <3>3 DEF RecentOf, Unrepeated
    <3> QED
      BY <3>2, <3>4 DEF Kept
  <2> QED
    BY <2>2, <2>3
<1> QED
  BY <1>1, <1>2, <1>3, <1>4 DEF Calm

\* While no request is at work, every copy that can be read is the user.
LEMMA RestReads ==
    ASSUME ShapeInv, CopiesAre(user)
    PROVE  /\ Find = user
           /\ \A e \in Emails : FindByEmail(e) # None => FindByEmail(e) = user /\ user.email = e
BY DEF CopiesAre, Find, FindByEmail, ShapeInv

\* A read fills a cache with the user.
LEMMA RestFills ==
    ASSUME ShapeInv, CopiesAre(user), user' = user, byId' \in {byId, Find},
           \/ byEmail' = byEmail
           \/ \E e \in Emails : /\ FindByEmail(e) # None
                                /\ byEmail' = [byEmail EXCEPT ![e] = FindByEmail(e)]
    PROVE  CopiesAre(user)'
<1>1. byId' \in {None, user'}
  BY RestReads DEF CopiesAre
<1>2. byEmail \in [Emails -> Copies]
  BY DEF ShapeInv
<1>3. ASSUME NEW d \in Emails, byEmail'[d] # None PROVE byEmail'[d] = user' /\ user'.email = d
  <2>1. CASE byEmail' = byEmail
    BY <1>3, <2>1 DEF CopiesAre
  <2>2. ASSUME NEW e \in Emails, FindByEmail(e) # None, byEmail' = [byEmail EXCEPT ![e] = FindByEmail(e)]
        PROVE  byEmail'[d] = user' /\ user'.email = d
    <3>1. FindByEmail(e) = user /\ user.email = e
      BY <2>2, RestReads
    <3> QED
      BY <1>2, <1>3, <2>2, <3>1 DEF CopiesAre
  <2> QED
    BY <2>1, <2>2
<1> QED
  BY <1>1, <1>3 DEF CopiesAre

\* A list of passkeys that is read has only passkeys of the user.
LEMMA RestLists ==
    ASSUME ShapeInv, KeysKept, user # None
    PROVE  find_for_user \subseteq keys /\ find_for_user_with_uv \subseteq keys
<1>1. CASE pkList = None
  BY <1>1 DEF find_for_user, find_for_user_with_uv
<1>2. CASE pkList # None
  BY <1>2 DEF find_for_user, find_for_user_with_uv, KeysKept
<1> QED
  BY <1>1, <1>2

\* A request begins while no other is at work.
LEMMA CalmStarts ==
    ASSUME ShapeInv, Calm, "user" \notin spoilt', NEW r \in Requests, NEW op, Starts(r, op)
    PROVE  Calm'
<1>1. /\ req' = [req EXCEPT ![r] = op] /\ req[r] = Idle
      /\ spoilt' = spoilt \cup Overlapping(r, op.l)
      /\ UNCHANGED <<user, keys, recent, used>>
  BY DEF Starts, Begin, Active, store
<1>2. \A p \in Requests : Active(p) => p = r
  BY <1>1 DEF Overlapping
<1>3. \A p \in Requests : ~Active(p)
  BY <1>1, <1>2 DEF Active
<1>4. CopiesAre(user) /\ RecentOf(used) /\ KeysKept
  BY <1>3 DEF Calm, AtRest
<1>5. CopiesAre(user)'
  BY <1>1, <1>4, RestFills DEF Starts
<1>6. KeysKept'
  <2>1. user # None => find_for_user \subseteq keys /\ find_for_user_with_uv \subseteq keys
    BY <1>4, RestLists
  <2>2. pkList' \in {pkList, find_for_user, find_for_user_with_uv}
    BY DEF Starts
  <2> QED
    BY <1>1, <1>4, <2>1, <2>2 DEF KeysKept
<1>7. HeldOK(op) /\ op.steps \in Starting /\ op # Idle
  BY HeldActive DEF Starts
<1>8. \A v : FromCopy(op, v) => v = user /\ user # None
  BY <1>4, RestReads DEF FromCopy
<1>9. op.steps \in NeedsUser => FromCopy(op, user) /\ user # None
  BY <1>8 DEF Starts
<1>10. /\ op.steps \in Inserting \cup Deleting => op.u = None
       /\ op.steps = <<"row", "cache">> => op.pwd = None
       /\ op.steps = <<"drop", "delete">> => ~IsLast
       /\ op.steps \in BeforeCache \cup Removing \cup Unflagging => op.old = None
  BY DEF Starts
<1>11. op.steps # <<"spend", "row", "cache">> /\ op.steps \notin Uncached
  BY <1>7 DEF Starting, LinkPrograms, Uncached
<1>12. ~Saved(op)
  BY <1>10, <1>11 DEF Saved
<1>13. Kept(op)'
  BY <1>1, <1>4, <1>12 DEF Kept, Saved, RecentOf, Unrepeated
<1>14. Phase(op)'
  <2>1. CASE op.steps \in Reading
    BY <1>5, <1>10, <1>11, <2>1, PhaseReading
  <2>2. CASE op.steps = <<"check">>
    <3>1. op.steps \in NeedsUser
      BY <2>2 DEF NeedsUser
    <3>2. op.u = user /\ user # None
      BY <1>9, <2>2, <3>1 DEF FromCopy
    <3> QED
      BY <1>1, <1>5, <2>2, <3>2, PhaseCheck
  <2>3. CASE op.steps \in BeforeRow
    <3>1. op.steps \in NeedsUser
      BY <2>3 DEF NeedsUser
    <3>2. /\ user # None /\ op.u.mfa = user.mfa
          /\ user.email = (IF op.old = None THEN op.u.email ELSE op.old)
          /\ op.pwd # None => op.u.email # op.old
      BY <1>9, <2>3, <3>1 DEF FromCopy
    <3> QED
      BY <1>1, <1>5, <2>3, <3>2, PhaseRow
  <2>4. CASE op.steps \in BeforeCache
    <3>1. op.steps \in NeedsUser
      BY <2>4 DEF NeedsUser
    <3>2. user # None /\ op.u.email = user.email /\ op.old = None
      BY <1>9, <1>10, <2>4, <3>1 DEF FromCopy
    <3>3. op.steps # <<"cache", "delete">>
      BY <1>7 DEF Starting, LinkPrograms
    <3>4. op.steps \in SavingKey => op.u.mfa = user.mfa
      <4>1. op.steps \in SavingKey => op.steps = <<"drop", "cache", "commit", "code">>
        BY <1>7 DEF Starting, LinkPrograms, SavingKey
      <4>2. op.steps = <<"drop", "cache", "commit", "code">> => op.u = user
        BY <1>9, <3>1 DEF FromCopy
      <4> QED
        BY <4>1, <4>2
    <3> QED
      BY <1>1, <1>5, <1>11, <2>4, <3>2, <3>3, <3>4, PhaseCache
  <2>5. CASE op.steps \in Committing
    <3>1. op.steps \in Inserting \cup Deleting /\ op.steps \notin SavingKey
      BY <1>7, <2>5 DEF Committing, Starting, LinkPrograms, SavingKey, Inserting, Deleting
    <3>2. op.u = None
      BY <1>10, <3>1
    <3>3. ASSUME op.steps \in Deleting, user # None PROVE keys \ {op.key} # {}
      <4>1. op.steps = <<"drop", "delete">>
        BY <1>7, <3>3 DEF Starting, LinkPrograms, Deleting
      <4>2. ~(Cardinality(find_for_user) < 2)
        BY <1>10, <4>1 DEF IsLast
      <4>3. find_for_user \subseteq keys
        BY <1>4, <3>3, RestLists
      <4>4. keys \subseteq Keys
        BY DEF ShapeInv, TypeOK
      <4> QED
        BY <4>2, <4>3, <4>4, NotLast
    <3> QED
      BY <1>1, <1>5, <1>11, <2>5, <3>1, <3>2, <3>3, PhaseCommit
  <2>6. CASE op.steps \in Removing
    <3>1. op.steps = <<"remove", "forget">>
      BY <1>7, <2>6 DEF Starting, LinkPrograms, Removing
    <3>2. op.steps \in NeedsUser
      BY <2>6 DEF NeedsUser
    <3>3. op.u = user /\ user # None
      BY <1>9, <3>1, <3>2 DEF FromCopy
    <3>4. op.steps # <<"forget">>
      BY <3>1
    <3> QED
      BY <1>1, <1>5, <1>10, <2>6, <3>3, <3>4, PhaseRemove
  <2>7. op.steps \notin AfterRow
    BY <1>7 DEF Starting, LinkPrograms, AfterRow
  <2>8. op.steps \in Programs
    BY <1>7, HeldActive
  <2> QED
    BY <2>1, <2>2, <2>3, <2>4, <2>5, <2>6, <2>7, <2>8 DEF Programs
<1> QED
  BY <1>1, <1>2, <1>6, <1>7, <1>13, <1>14, CalmHere

\* The recent passwords of a request that goes on, and of one that ends
LEMMA KeptSame ==
    ASSUME NEW q, NEW w, Kept(q), UNCHANGED <<recent, used>>, Saved(w) <=> Saved(q),
           Saved(q) => w.pwd = q.pwd
    PROVE  Kept(w)' /\ (~Saved(q) => RecentOf(used)')
<1>1. PICK s : s = IF Saved(q) THEN <<q.pwd>> \o used ELSE used
  OBVIOUS
<1>2. s = (IF Saved(w) THEN <<w.pwd>> \o used' ELSE used')
  BY <1>1
<1>3. RecentOf(s)
  BY <1>1 DEF Kept
<1>4. RecentOf(s)'
  BY <1>3 DEF RecentOf, Unrepeated
<1>5. Saved(w)' <=> Saved(w)
  BY DEF Saved
<1> QED
  BY <1>2, <1>4, <1>5 DEF Kept

\* A request that has nothing saved yet ends.
LEMMA KeptRest ==
    ASSUME NEW q, Kept(q), UNCHANGED <<recent, used>>, ~Saved(q)
    PROVE  RecentOf(used)'
BY KeptSame

\* The state that the requests share stays as it is.
LEMMA CalmKeys ==
    ASSUME KeysKept, UNCHANGED <<user, keys>>, pkList' \in {pkList, None}
    PROVE  KeysKept'
BY DEF KeysKept

\* The check of a password reset
LEMMA CalmCheck ==
    ASSUME ShapeInv, Calm, NEW r \in Requests, Check(r)
    PROVE  Calm'
<1>1. PICK q : q = req[r]
  OBVIOUS
<1>2. /\ Active(r) /\ HeldOK(q) /\ q.steps = <<"check">>
      /\ UNCHANGED <<user, keys, recent, byId, byEmail, pkList, used>>
  BY <1>1, CheckStep DEF store, caches, history
<1>3. /\ \A p \in Requests : Active(p) => p = r
      /\ KeysKept /\ Phase(q) /\ Kept(q)
  BY <1>1, <1>2, CalmSole
<1>4. PICK w : /\ req' = [req EXCEPT ![r] = w]
               /\ \/ w = Idle
                  \/ /\ w.steps = <<"recent", "spend", "row", "cache">>
                     /\ w.u.email = q.u.email /\ w.u.mfa = q.u.mfa /\ w.old = None
  BY <1>1, CheckStep
<1>5. CopiesAre(user) /\ user # None /\ q.u = user
  BY <1>2, <1>3 DEF Phase
<1>6. CopiesAre(user)'
  BY <1>2, <1>5 DEF CopiesAre
<1>7. KeysKept'
  BY <1>2, <1>3, CalmKeys
<1>8. ~Saved(q)
  BY <1>2 DEF Saved
<1>9. w = Idle => AtRest'
  BY <1>2, <1>3, <1>6, <1>8, KeptRest DEF AtRest
<1>10. ASSUME w # Idle PROVE Phase(w)' /\ Kept(w)'
  <2>1. w.steps \in BeforeRow /\ ~Saved(w)
    BY <1>4, <1>10 DEF BeforeRow, Saved
  <2>2. user.email # None
    BY <1>5, ConstantsOK DEF ShapeInv, TypeOK, Users
  <2>3. Phase(w)'
    BY <1>2, <1>4, <1>5, <1>6, <1>10, <2>1, <2>2, PhaseRow
  <2>4. Kept(w)'
    BY <1>2, <1>3, <1>8, <2>1, KeptSame
  <2> QED
    BY <2>3, <2>4
<1> QED
  BY <1>3, <1>4, <1>7, <1>9, <1>10, CalmHere

\* Steps that write links or codes only
LEMMA CalmPass ==
    ASSUME ShapeInv, Calm, NEW r \in Requests, Done(r),
           Head1(r) \in {"bind", "spend", "mail", "relink", "code"},
           UNCHANGED <<user, keys, recent, byId, byEmail, pkList, used>>
    PROVE  Calm'
<1>1. PICK q : q = req[r]
  OBVIOUS
<1>2. /\ Active(r) /\ HeldOK(q) /\ q.steps \in Programs
      /\ Head(q.steps) \in {"bind", "spend", "mail", "relink", "code"}
  BY <1>1, DoneRecord
<1>3. PICK w : /\ req' = [req EXCEPT ![r] = w]
               /\ IF Len(q.steps) = 1 THEN w = Idle ELSE w # Idle /\ After(q, w)
  BY <1>1, DoneRecord
<1>4. /\ \A p \in Requests : Active(p) => p = r
      /\ KeysKept /\ Phase(q) /\ Kept(q)
  BY <1>1, <1>2, CalmSole
<1>5. KeysKept'
  BY <1>4, CalmKeys
<1>6. CASE q.steps \in {<<"bind">>, <<"code">>, <<"spend">>, <<"mail">>, <<"spend", "mail">>,
                        <<"spend", "refetch", "row", "cache">>}
  <2>1. q.steps \in Reading /\ ~Saved(q)
    BY <1>6 DEF Reading, Saved
  <2>2. CopiesAre(user)'
    BY <1>4, <2>1 DEF Phase, CopiesAre
  <2>3. RecentOf(used)'
    BY <1>4, <2>1, KeptRest
  <2>4. ASSUME w # Idle PROVE Phase(w)' /\ Kept(w)'
    <3>1. q.steps \in {<<"spend", "mail">>, <<"spend", "refetch", "row", "cache">>}
      BY <1>3, <1>6, <2>4
    <3>2. w.steps = Tail(q.steps)
      BY <1>3, <2>4 DEF After
    <3>3. w.steps \in {<<"mail">>, <<"refetch", "row", "cache">>}
      <4>1. Tail(<<"spend", "mail">>) = <<"mail">>
        OBVIOUS
      <4>2. Tail(<<"spend", "refetch", "row", "cache">>) = <<"refetch", "row", "cache">>
        OBVIOUS
      <4> QED
        BY <3>1, <3>2, <4>1, <4>2
    <3>4. w.steps \in Reading /\ w.steps \notin Unflagging /\ w.steps \notin Uncached
      BY <3>3 DEF Reading, Unflagging, Uncached
    <3>5. Phase(w)' /\ ~Saved(w)
      BY <2>2, <3>4, PhaseReading
    <3>6. Kept(w)'
      BY <1>4, <2>1, <3>5, KeptSame
    <3> QED
      BY <3>5, <3>6
  <2> QED
    BY <1>3, <1>4, <1>5, <2>2, <2>3, <2>4, CalmHere DEF AtRest
<1>7. CASE q.steps \in {<<"spend", "row", "cache">>, <<"mail", "row", "cache">>,
                        <<"relink", "recent", "row", "cache">>, <<"relink", "row", "cache">>}
  <2>1. q.steps \in BeforeRow
    BY <1>7 DEF BeforeRow
  <2>2. /\ CopiesAre(user) /\ user # None /\ q.u.mfa = user.mfa
        /\ user.email = (IF q.old = None THEN q.u.email ELSE q.old)
        /\ q.pwd # None => q.u.email # q.old
    BY <1>4, <2>1 DEF Phase
  <2>3. CopiesAre(user)'
    BY <2>2 DEF CopiesAre
  <2>4. w # Idle /\ After(q, w)
    BY <1>3, <1>7
  <2>5. w.steps = IF q.steps = <<"relink", "recent", "row", "cache">> THEN <<"recent", "row", "cache">>
                  ELSE <<"row", "cache">>
    <3>1. /\ Tail(<<"spend", "row", "cache">>) = <<"row", "cache">>
          /\ Tail(<<"mail", "row", "cache">>) = <<"row", "cache">>
          /\ Tail(<<"relink", "row", "cache">>) = <<"row", "cache">>
          /\ Tail(<<"relink", "recent", "row", "cache">>) = <<"recent", "row", "cache">>
      OBVIOUS
    <3> QED
      BY <1>7, <2>4, <3>1 DEF After
  <2>6. w.steps \in BeforeRow
    BY <2>5 DEF BeforeRow
  <2>7. w.u = q.u /\ w.old = q.old /\ w.pwd = q.pwd
    BY <2>4 DEF After
  <2>8. Phase(w)'
    BY <2>2, <2>3, <2>6, <2>7, PhaseRow
  <2>9. Saved(w) <=> Saved(q)
    <3>1. CASE q.steps = <<"spend", "row", "cache">>
      BY <2>5, <2>7, <3>1 DEF Saved
    <3>2. CASE q.steps = <<"relink", "recent", "row", "cache">>
      BY <2>5, <3>2 DEF Saved
    <3>3. CASE q.steps \in {<<"mail", "row", "cache">>, <<"relink", "row", "cache">>}
      <4>1. q.steps \in NoPassword
        BY <3>3 DEF NoPassword
      <4>2. q.pwd = None
        BY <1>2, <4>1 DEF HeldOK
      <4> QED
        BY <2>7, <4>2 DEF Saved
    <3> QED
      BY <1>7, <3>1, <3>2, <3>3
  <2>10. Kept(w)'
    BY <1>4, <2>7, <2>9, KeptSame
  <2> QED
    BY <1>3, <1>4, <1>5, <2>4, <2>8, <2>10, CalmHere
<1>8. q.steps \in {<<"bind">>, <<"code">>, <<"spend">>, <<"mail">>, <<"spend", "mail">>,
                   <<"spend", "refetch", "row", "cache">>, <<"spend", "row", "cache">>,
                   <<"mail", "row", "cache">>, <<"relink", "recent", "row", "cache">>,
                   <<"relink", "row", "cache">>}
  BY <1>2, Heads
<1> QED
  BY <1>6, <1>7, <1>8

\* The new password is saved among the recent ones, or refused.
LEMMA CalmRecent ==
    ASSUME ShapeInv, Calm, NEW r \in Requests, Recent(r)
    PROVE  Calm'
<1>1. PICK q : q = req[r]
  OBVIOUS
<1>2. Head1(r) = "recent" /\ UNCHANGED <<user, keys, byId, byEmail, pkList, used>>
  BY DEF Recent, caches, history
<1>3. /\ Active(r) /\ HeldOK(q)
      /\ q.steps \in {<<"recent", "spend", "row", "cache">>, <<"recent", "row", "cache">>}
  <2>1. Active(r) /\ HeldOK(q) /\ q.steps \in Programs /\ Head1(r) = Head(q.steps)
    BY <1>1, <1>2, NextStep
  <2> QED
    BY <1>2, <2>1, Heads
<1>4. /\ \A p \in Requests : Active(p) => p = r
      /\ KeysKept /\ Phase(q) /\ Kept(q)
  BY <1>1, <1>3, CalmSole
<1>5. KeysKept'
  BY <1>2, <1>4, CalmKeys
<1>6. q.steps \in BeforeRow /\ q.steps \in NeedsPassword /\ ~Saved(q)
  BY <1>3 DEF BeforeRow, NeedsPassword, Saved
<1>7. /\ CopiesAre(user) /\ user # None /\ q.u.mfa = user.mfa
      /\ user.email = (IF q.old = None THEN q.u.email ELSE q.old)
      /\ q.pwd # None => q.u.email # q.old
  BY <1>4, <1>6 DEF Phase
<1>8. CopiesAre(user)'
  BY <1>2, <1>7 DEF CopiesAre
<1>9. q.pwd \in Passwords /\ q.pwd # None
  BY <1>3, <1>6, ConstantsOK DEF HeldOK
<1>10. CASE Acceptable(q.pwd) /\ Done(r) /\ recent' = WithRecent(q.pwd)
  <2>1. PICK w : /\ req' = [req EXCEPT ![r] = w]
                 /\ IF Len(q.steps) = 1 THEN w = Idle ELSE w # Idle /\ After(q, w)
    BY <1>1, <1>2, <1>10, DoneRecord
  <2>2. w # Idle /\ After(q, w)
    BY <1>3, <2>1
  <2>3. w.steps \in {<<"spend", "row", "cache">>, <<"row", "cache">>}
    <3>1. /\ Tail(<<"recent", "spend", "row", "cache">>) = <<"spend", "row", "cache">>
          /\ Tail(<<"recent", "row", "cache">>) = <<"row", "cache">>
      OBVIOUS
    <3> QED
      BY <1>3, <2>2, <3>1 DEF After
  <2>4. w.steps \in BeforeRow
    BY <2>3 DEF BeforeRow
  <2>5. w.u = q.u /\ w.old = q.old /\ w.pwd = q.pwd
    BY <2>2 DEF After
  <2>6. Phase(w)'
    BY <1>2, <1>7, <1>8, <2>4, <2>5, PhaseRow
  <2>7. PICK s : s = used
    OBVIOUS
  <2>8. RecentOf(s) /\ s \in Seq(Passwords) /\ recent \in Seq(Passwords) \cup {None}
    BY <1>4, <1>6, <2>7 DEF Kept, ShapeInv
  <2>9. RecentOf(<<q.pwd>> \o s)'
    BY <1>9, <1>10, <2>8, RecentSaved
  <2>10. Saved(w) /\ Saved(w)'
    BY <1>9, <2>3, <2>5 DEF Saved
  <2>11. <<q.pwd>> \o s = IF Saved(w)' THEN <<w.pwd>> \o used' ELSE used'
    BY <1>2, <2>5, <2>7, <2>10
  <2>12. Kept(w)'
    BY <2>9, <2>11 DEF Kept
  <2> QED
    BY <1>4, <1>5, <2>1, <2>2, <2>6, <2>12, CalmHere
<1>11. CASE req' = [req EXCEPT ![r] = Idle] /\ recent' = recent
  <2>1. AtRest'
    BY <1>2, <1>4, <1>6, <1>8, <1>11, KeptRest DEF AtRest
  <2> QED
    BY <1>4, <1>5, <1>11, <2>1, CalmHere
<1> QED
  BY <1>1, <1>7, <1>10, <1>11 DEF Recent

\* User::save, the row: a new address that is not free ends the request; its password
\* stays among the recent ones.
LEMMA CalmRow ==
    ASSUME ShapeInv, Calm, NEW r \in Requests, Row(r)
    PROVE  Calm'
<1>1. PICK q : q = req[r]
  OBVIOUS
<1>2. Head1(r) = "row" /\ UNCHANGED <<keys, recent, byId, byEmail, pkList>>
  BY DEF Row, caches
<1>3. /\ Active(r) /\ HeldOK(q) /\ q.steps \in {<<"row", "cache">>, <<"row", "cache", "spend">>}
  <2>1. Active(r) /\ HeldOK(q) /\ q.steps \in Programs /\ Head1(r) = Head(q.steps)
    BY <1>1, <1>2, NextStep
  <2> QED
    BY <1>2, <2>1, Heads
<1>4. /\ \A p \in Requests : Active(p) => p = r
      /\ KeysKept /\ Phase(q) /\ Kept(q)
  BY <1>1, <1>3, CalmSole
<1>5. q.steps \in BeforeRow /\ q.steps \in NeedsUser
  BY <1>3 DEF BeforeRow, NeedsUser
<1>6. /\ CopiesAre(user) /\ user # None /\ q.u.mfa = user.mfa
      /\ user.email = (IF q.old = None THEN q.u.email ELSE q.old)
      /\ q.pwd # None => q.u.email # q.old
  BY <1>4, <1>5 DEF Phase
<1>7. q.u # None /\ q.u \in Copies
  BY <1>3, <1>5 DEF HeldOK, Held
<1>8. used' = IF q.pwd # None THEN <<q.pwd>> \o used ELSE used
  BY <1>1, <1>6 DEF Row, Accepted
<1>9. Saved(q) <=> q.pwd # None
  <2>1. q.steps = <<"row", "cache", "spend">> => q.steps \in NoPassword
    BY DEF NoPassword
  <2>2. q.steps = <<"row", "cache", "spend">> => q.pwd = None
    BY <1>3, <2>1 DEF HeldOK
  <2> QED
    BY <1>3, <2>2 DEF Saved
<1>10. RecentOf(used)'
  <2>1. PICK s : s = used'
    OBVIOUS
  <2>2. RecentOf(s)
    BY <1>4, <1>8, <1>9, <2>1 DEF Kept
  <2>3. RecentOf(s)'
    BY <1>2, <2>2 DEF RecentOf, Unrepeated
  <2> QED
    BY <2>1, <2>3
<1>11. CASE Done(r) /\ user' = q.u
  <2>1. PICK w : /\ req' = [req EXCEPT ![r] = w]
                 /\ IF Len(q.steps) = 1 THEN w = Idle ELSE w # Idle /\ After(q, w)
    BY <1>1, <1>2, <1>11, DoneRecord
  <2>2. w # Idle /\ After(q, w)
    BY <1>3, <2>1
  <2>3. w.steps \in AfterRow
    <3>1. /\ Tail(<<"row", "cache">>) = <<"cache">>
          /\ Tail(<<"row", "cache", "spend">>) = <<"cache", "spend">>
      OBVIOUS
    <3>2. w.steps \in {<<"cache">>, <<"cache", "spend">>}
      BY <1>3, <2>2, <3>1 DEF After
    <3> QED
      BY <3>2 DEF AfterRow
  <2>4. w.u = q.u /\ w.old = q.old
    BY <2>2 DEF After
  <2>5. OnlyAt(w)'
    BY <1>2, <1>6, <2>4 DEF OnlyAt, CopiesAre
  <2>6. Phase(w)' /\ ~Saved(w)
    BY <1>11, <2>3, <2>4, <2>5, PhaseAfter
  <2>7. KeysKept'
    BY <1>2, <1>4, <1>6, <1>11 DEF KeysKept
  <2>10. ~Saved(w)'
    BY <2>6 DEF Saved
  <2>11. Kept(w)'
    BY <1>10, <2>10 DEF Kept
  <2> QED
    BY <1>4, <2>1, <2>2, <2>6, <2>7, <2>11, CalmHere
<1>12. CASE req' = [req EXCEPT ![r] = Idle] /\ UNCHANGED user
  <2>6. CopiesAre(user)'
    BY <1>2, <1>6, <1>12 DEF CopiesAre
  <2>8. KeysKept'
    BY <1>2, <1>4, <1>12, CalmKeys
  <2>9. AtRest'
    BY <1>10, <2>6 DEF AtRest
  <2> QED
    BY <1>4, <1>12, <2>8, <2>9, CalmHere
<1>13. \/ Done(r) /\ user' = q.u
       \/ req' = [req EXCEPT ![r] = Idle] /\ UNCHANGED user
  BY <1>1, <1>6 DEF Row
<1> QED
  BY <1>11, <1>12, <1>13

\* What the caches are after User::save wrote them.
LEMMA CachedCopies ==
    ASSUME ShapeInv, NEW q, q.u \in Copies, q.u # None, OnlyAt(q), byId' = q.u, byEmail' = CachedByEmail(q)
    PROVE  CopiesAre(q.u)'
<1>1. q.u.email \in Emails
  BY DEF Copies, Users
<1>2. ASSUME NEW e \in Emails, byEmail'[e] # None PROVE byEmail'[e] = q.u /\ q.u.email = e
  <2>1. byEmail'[e] = IF e = q.u.email THEN q.u ELSE IF e = q.old THEN None ELSE byEmail[e]
    BY DEF CachedByEmail
  <2> QED
    BY <1>2, <2>1 DEF OnlyAt
<1> QED
  BY <1>1, <1>2 DEF CopiesAre

\* The caches of User::save
LEMMA CalmCache ==
    ASSUME ShapeInv, Calm, NEW r \in Requests, Cache(r)
    PROVE  Calm'
<1>1. PICK q : q = req[r]
  OBVIOUS
<1>2. /\ Head1(r) = "cache" /\ Done(r) /\ byId' = q.u /\ byEmail' = CachedByEmail(q)
      /\ UNCHANGED <<user, keys, recent, pkList, used>>
  BY <1>1 DEF Cache, store, history
<1>3. /\ Active(r) /\ HeldOK(q) /\ q.steps \in Programs /\ Head(q.steps) = "cache"
  BY <1>1, <1>2, DoneRecord
<1>4. PICK w : /\ req' = [req EXCEPT ![r] = w]
               /\ IF Len(q.steps) = 1 THEN w = Idle ELSE w # Idle /\ After(q, w)
  BY <1>1, <1>2, DoneRecord
<1>5. /\ \A p \in Requests : Active(p) => p = r
      /\ KeysKept /\ Phase(q) /\ Kept(q)
  BY <1>1, <1>3, CalmSole
<1>6. KeysKept'
  BY <1>2, <1>5, CalmKeys
<1>7. q.steps \in AfterRow \cup (BeforeCache \ {<<"drop", "cache", "commit", "code">>})
  BY <1>3, Heads
<1>8. q.u # None /\ q.u \in Copies /\ q.old \in Emails \cup {None}
  <2>1. q.steps \in NeedsUser
    BY <1>7 DEF NeedsUser
  <2> QED
    BY <1>3, <2>1 DEF HeldOK, Held
<1>9. ~Saved(q)
  BY <1>7 DEF Saved, AfterRow, BeforeCache
<1>10. RecentOf(used)'
  BY <1>2, <1>5, <1>9, KeptRest
<1>11. CASE q.steps \in AfterRow
  <2>1. user = q.u /\ OnlyAt(q)
    BY <1>5, <1>11 DEF Phase
  <2>2. CopiesAre(q.u)'
    BY <1>2, <1>8, <2>1, CachedCopies
  <2>3. CopiesAre(user)'
    BY <1>2, <2>1, <2>2 DEF CopiesAre
  <2>4. ASSUME w # Idle PROVE Phase(w)' /\ Kept(w)'
    <3>1. q.steps = <<"cache", "spend">> /\ w.steps = Tail(q.steps)
      BY <1>4, <1>11, <2>4 DEF AfterRow, After
    <3>2. w.steps = <<"spend">>
      BY <3>1
    <3>3. w.steps \in Reading /\ w.steps \notin Unflagging /\ w.steps \notin Uncached
      BY <3>2 DEF Reading, Unflagging, Uncached
    <3>4. Phase(w)' /\ ~Saved(w)
      BY <2>3, <3>3, PhaseReading
    <3>5. Kept(w)'
      BY <1>2, <1>5, <1>9, <3>4, KeptSame
    <3> QED
      BY <3>4, <3>5
  <2> QED
    BY <1>4, <1>5, <1>6, <1>10, <2>3, <2>4, CalmHere DEF AtRest
<1>12. CASE q.steps \in BeforeCache \ {<<"drop", "cache", "commit", "code">>}
  <2>1. /\ CopiesAre(user) /\ user # None /\ q.u.email = user.email /\ q.old = None
        /\ q.steps = <<"cache", "delete">> => ~q.u.mfa /\ pkList = None
        /\ q.steps = <<"cache", "commit", "code">> => q.u.mfa = user.mfa
    <3>1. /\ q.steps = <<"cache", "delete">> => q.steps \in Uncached
          /\ q.steps = <<"cache", "commit", "code">> => q.steps \in SavingKey
      BY DEF Uncached, SavingKey
    <3> QED
      BY <1>5, <1>12, <3>1 DEF Phase
  <2>2. OnlyAt(q)
    BY <2>1 DEF OnlyAt, CopiesAre
  <2>3. CopiesAre(q.u)'
    BY <1>2, <1>8, <2>2, CachedCopies
  <2>4. w # Idle /\ After(q, w)
    BY <1>4, <1>12 DEF BeforeCache
  <2>5. w.steps \in {<<"drop", "insert">>, <<"drop", "insert", "spend", "refetch", "row", "cache">>,
                     <<"delete">>, <<"commit", "code">>}
        /\ (w.steps = <<"delete">> => q.steps = <<"cache", "delete">>)
        /\ (w.steps = <<"commit", "code">> => q.steps = <<"cache", "commit", "code">>)
    <3>1. /\ Tail(<<"cache", "drop", "insert">>) = <<"drop", "insert">>
          /\ Tail(<<"cache", "drop", "insert", "spend", "refetch", "row", "cache">>)
               = <<"drop", "insert", "spend", "refetch", "row", "cache">>
          /\ Tail(<<"cache", "delete">>) = <<"delete">>
          /\ Tail(<<"cache", "commit", "code">>) = <<"commit", "code">>
      OBVIOUS
    <3>2. q.steps \in {<<"cache", "drop", "insert">>,
                       <<"cache", "drop", "insert", "spend", "refetch", "row", "cache">>,
                       <<"cache", "delete">>, <<"cache", "commit", "code">>}
      BY <1>12 DEF BeforeCache
    <3>3. w.steps = Tail(q.steps)
      BY <2>4 DEF After
    <3>4. CASE q.steps = <<"cache", "drop", "insert">>
      BY <3>1, <3>3, <3>4
    <3>5. CASE q.steps = <<"cache", "drop", "insert", "spend", "refetch", "row", "cache">>
      BY <3>1, <3>3, <3>5
    <3>6. CASE q.steps = <<"cache", "delete">>
      BY <3>1, <3>3, <3>6
    <3>7. CASE q.steps = <<"cache", "commit", "code">>
      BY <3>1, <3>3, <3>7
    <3> QED
      BY <3>2, <3>4, <3>5, <3>6, <3>7
  <2>6. w.steps \in Committing
    BY <2>5 DEF Committing, Inserting, Deleting
  <2>7. w.u = q.u
    BY <2>4 DEF After
  <2>8. /\ w.steps \in Deleting => w.steps = <<"delete">>
        /\ w.steps \in SavingKey => w.steps = <<"commit", "code">>
        /\ w.steps \in Uncached => w.steps = <<"delete">>
    BY <2>5 DEF Deleting, SavingKey, Uncached
  <2>9. CopiesAre(w.u)' /\ user' # None /\ w.u # None
    BY <1>2, <1>8, <2>1, <2>3, <2>7
  <2>10. /\ w.steps \in Deleting => ~w.u.mfa
         /\ w.steps \in SavingKey => user' # None /\ w.u.mfa = user'.mfa
         /\ w.steps \in Uncached => pkList' = None
    BY <1>2, <2>1, <2>5, <2>7, <2>8
  <2>11. Phase(w)' /\ ~Saved(w)
    BY <2>6, <2>9, <2>10, PhaseCommit
  <2>12. Kept(w)'
    BY <1>2, <1>5, <1>9, <2>11, KeptSame
  <2> QED
    BY <1>4, <1>5, <1>6, <2>4, <2>11, <2>12, CalmHere
<1> QED
  BY <1>7, <1>11, <1>12

\* The cached list of passkeys is dropped.
LEMMA CalmDrop ==
    ASSUME ShapeInv, Calm, NEW r \in Requests, Drop(r)
    PROVE  Calm'
<1>1. PICK q : q = req[r]
  OBVIOUS
<1>2. /\ Head1(r) = "drop" /\ Done(r) /\ pkList' = None
      /\ UNCHANGED <<user, keys, recent, byId, byEmail, used>>
  BY DEF Drop, store, history
<1>3. /\ Active(r) /\ HeldOK(q)
      /\ q.steps \in {<<"drop", "insert">>, <<"drop", "insert", "spend", "refetch", "row", "cache">>,
                      <<"drop", "delete">>, <<"drop", "unflag", "cache", "delete">>,
                      <<"drop", "cache", "commit", "code">>}
  BY <1>1, <1>2, DoneRecord, Heads
<1>4. PICK w : /\ req' = [req EXCEPT ![r] = w]
               /\ IF Len(q.steps) = 1 THEN w = Idle ELSE w # Idle /\ After(q, w)
  BY <1>1, <1>2, DoneRecord
<1>5. /\ \A p \in Requests : Active(p) => p = r
      /\ KeysKept /\ Phase(q) /\ Kept(q)
  BY <1>1, <1>3, CalmSole
<1>6. KeysKept'
  BY <1>2, <1>5, CalmKeys
<1>7. w # Idle /\ After(q, w)
  BY <1>3, <1>4
<1>8. w.steps = Tail(q.steps) /\ w.u = q.u /\ w.old = q.old /\ w.key = q.key
  BY <1>7 DEF After
<1>9. ~Saved(q)
  BY <1>3 DEF Saved
<1>10. Phase(w)' /\ ~Saved(w)
  <2>1. CASE q.steps \in {<<"drop", "insert">>, <<"drop", "insert", "spend", "refetch", "row", "cache">>}
    <3>1. /\ Tail(<<"drop", "insert">>) = <<"insert">>
          /\ Tail(<<"drop", "insert", "spend", "refetch", "row", "cache">>)
               = <<"insert", "spend", "refetch", "row", "cache">>
      OBVIOUS
    <3>2. w.steps \in {<<"insert">>, <<"insert", "spend", "refetch", "row", "cache">>}
      BY <1>8, <2>1, <3>1
    <3>3. /\ w.steps \in Committing /\ w.steps \notin Deleting /\ w.steps \notin SavingKey
          /\ q.steps \in Committing
      BY <2>1, <3>2 DEF Committing, Inserting, Deleting, SavingKey
    <3>4. IF q.u = None THEN CopiesAre(user) ELSE CopiesAre(q.u) /\ user # None
      BY <1>5, <3>3 DEF Phase
    <3>5. IF w.u = None THEN CopiesAre(user)' ELSE CopiesAre(w.u)' /\ user' # None
      BY <1>2, <1>8, <3>4 DEF CopiesAre
    <3> QED
      BY <1>2, <3>3, <3>5, PhaseCommit
  <2>2. CASE q.steps = <<"drop", "delete">>
    <3>1. w.steps = <<"delete">>
      BY <1>8, <2>2
    <3>2. /\ w.steps \in Committing /\ w.steps \notin SavingKey
          /\ q.steps \in Committing /\ q.steps \in Deleting
      BY <2>2, <3>1 DEF Committing, Deleting, SavingKey
    <3>3. /\ IF q.u = None THEN CopiesAre(user) ELSE CopiesAre(q.u) /\ user # None
          /\ IF q.u = None THEN user # None /\ user.mfa => keys \ {q.key} # {} ELSE ~q.u.mfa
      BY <1>5, <3>2 DEF Phase
    <3>4. IF w.u = None THEN CopiesAre(user)' ELSE CopiesAre(w.u)' /\ user' # None
      BY <1>2, <1>8, <3>3 DEF CopiesAre
    <3>5. IF w.u = None THEN user' # None /\ user'.mfa => keys' \ {w.key} # {} ELSE ~w.u.mfa
      BY <1>2, <1>8, <3>3
    <3> QED
      BY <1>2, <3>2, <3>4, <3>5, PhaseCommit
  <2>3. CASE q.steps = <<"drop", "unflag", "cache", "delete">>
    <3>1. w.steps = <<"unflag", "cache", "delete">>
      BY <1>8, <2>3
    <3>2. w.steps \in Reading /\ q.steps \in Reading /\ q.steps \in Unflagging
      BY <2>3, <3>1 DEF Reading, Unflagging
    <3>3. CopiesAre(user) /\ q.old = None
      BY <1>5, <3>2 DEF Phase
    <3>4. CopiesAre(user)'
      BY <1>2, <3>3 DEF CopiesAre
    <3> QED
      BY <1>2, <1>8, <3>2, <3>3, <3>4, PhaseReading
  <2>4. CASE q.steps = <<"drop", "cache", "commit", "code">>
    <3>1. w.steps = <<"cache", "commit", "code">>
      BY <1>8, <2>4
    <3>2. /\ w.steps \in BeforeCache /\ q.steps \in BeforeCache /\ q.steps \in SavingKey
          /\ w.steps # <<"cache", "delete">>
      BY <2>4, <3>1 DEF BeforeCache, SavingKey
    <3>3. CopiesAre(user) /\ user # None /\ q.u.email = user.email /\ q.old = None /\ q.u.mfa = user.mfa
      BY <1>5, <3>2 DEF Phase
    <3>4. CopiesAre(user)'
      BY <1>2, <3>3 DEF CopiesAre
    <3> QED
      BY <1>2, <1>8, <3>2, <3>3, <3>4, PhaseCache
  <2> QED
    BY <1>3, <2>1, <2>2, <2>3, <2>4
<1>11. Kept(w)'
  BY <1>2, <1>5, <1>9, <1>10, KeptSame
<1> QED
  BY <1>4, <1>5, <1>6, <1>7, <1>10, <1>11, CalmHere
\* delete_webauthn reads the user after the passkey was chosen: the copy is the user
\* itself, and the list that was cached is gone.
LEMMA CalmUnflag ==
    ASSUME ShapeInv, Calm, NEW r \in Requests, Unflag(r)
    PROVE  Calm'
<1>1. PICK q : q = req[r]
  OBVIOUS
<1>2. /\ Active(r) /\ HeldOK(q) /\ q.steps = <<"unflag", "cache", "delete">>
      /\ byId' = Find /\ Find # None
      /\ UNCHANGED <<user, keys, recent, byEmail, pkList, used>>
  BY <1>1, UnflagStep DEF store, history
<1>3. PICK w : /\ req' = [req EXCEPT ![r] = w] /\ HeldOK(w) /\ w.steps = <<"cache", "delete">>
               /\ w.u.email = Find.email /\ ~w.u.mfa /\ w.old = q.old /\ w.pwd = q.pwd
  BY <1>1, UnflagStep
<1>4. /\ \A p \in Requests : Active(p) => p = r
      /\ KeysKept /\ Phase(q) /\ Kept(q)
  BY <1>1, <1>2, CalmSole
<1>5. q.steps \in Reading /\ q.steps \in Unflagging /\ q.steps \in Uncached /\ ~Saved(q)
  BY <1>2 DEF Reading, Unflagging, Uncached, Saved
<1>6. CopiesAre(user) /\ q.old = None /\ pkList = None
  BY <1>4, <1>5 DEF Phase
<1>7. Find = user
  BY <1>6, RestReads
<1>8. CopiesAre(user)'
  BY <1>2, <1>6, RestFills
<1>9. KeysKept'
  BY <1>2, <1>4, CalmKeys
<1>10. w.steps \in BeforeCache /\ w.steps \notin SavingKey
  BY <1>3 DEF BeforeCache, SavingKey
<1>11. user' # None /\ w.u.email = user'.email /\ w.old = None /\ pkList' = None
  BY <1>2, <1>3, <1>6, <1>7
<1>12. Phase(w)' /\ ~Saved(w)
  BY <1>3, <1>8, <1>10, <1>11, PhaseCache
<1>13. Kept(w)'
  BY <1>2, <1>4, <1>5, <1>12, KeptSame
<1>14. w # Idle
  BY <1>3, HeldActive
<1> QED
  BY <1>3, <1>4, <1>9, <1>12, <1>13, <1>14, CalmHere

\* handle_put_user_passkey_finish reads the user again and saves it as it is.
LEMMA CalmRefetch ==
    ASSUME ShapeInv, Calm, NEW r \in Requests, Refetch(r)
    PROVE  Calm'
<1>1. PICK q : q = req[r]
  OBVIOUS
<1>2. /\ Active(r) /\ HeldOK(q) /\ q.steps = <<"refetch", "row", "cache">>
      /\ byId' = Find /\ Find # None
      /\ UNCHANGED <<user, keys, recent, byEmail, pkList, used>>
  BY <1>1, RefetchStep DEF store, history
<1>3. PICK w : /\ req' = [req EXCEPT ![r] = w] /\ HeldOK(w) /\ w.steps = <<"row", "cache">>
               /\ w.u = Find /\ w.old = None /\ w.pwd = None
  BY <1>1, RefetchStep
<1>4. /\ \A p \in Requests : Active(p) => p = r
      /\ KeysKept /\ Phase(q) /\ Kept(q)
  BY <1>1, <1>2, CalmSole
<1>5. q.steps \in Reading /\ ~Saved(q) /\ ~Saved(w)
  BY <1>2, <1>3 DEF Reading, Saved
<1>6. CopiesAre(user)
  BY <1>4, <1>5 DEF Phase
<1>7. Find = user
  BY <1>6, RestReads
<1>8. CopiesAre(user)'
  BY <1>2, <1>6, RestFills
<1>9. KeysKept'
  BY <1>2, <1>4, CalmKeys
<1>10. w.steps \in BeforeRow
  BY <1>3 DEF BeforeRow
<1>11. user' # None /\ w.u = user' /\ w.old = None
  BY <1>2, <1>3, <1>7
<1>12. Phase(w)'
  BY <1>3, <1>8, <1>10, <1>11, PhaseRow
<1>13. Kept(w)'
  BY <1>2, <1>4, <1>5, KeptSame
<1>14. w # Idle
  BY <1>3, HeldActive
<1> QED
  BY <1>3, <1>4, <1>9, <1>12, <1>13, <1>14, CalmHere
\* What the commit of a passkey does to the row and to the passkeys of the user
LEMMA CommitWrites ==
    ASSUME ShapeInv, Calm, NEW r \in Requests, Commit(r), NEW q, q = req[r]
    PROVE  /\ Active(r) /\ HeldOK(q) /\ Done(r) /\ UNCHANGED <<recent, byId, byEmail, pkList, used>>
           /\ q.steps \in Committing /\ CopiesAre(user)' /\ KeysKept'
           /\ q.steps \in {<<"insert">>, <<"insert", "spend", "refetch", "row", "cache">>,
                           <<"delete">>, <<"commit", "code">>}
<1>1. /\ Head1(r) \in {"insert", "delete", "commit"} /\ Done(r)
      /\ user' = (IF user = None \/ q.u = None THEN user ELSE q.u)
      /\ keys' = KeysAfter(q, Head1(r))
      /\ UNCHANGED <<recent, byId, byEmail, pkList, used>>
  BY DEF Commit, caches
<1>2. Active(r) /\ HeldOK(q) /\ q.steps \in Programs /\ Head1(r) = Head(q.steps)
  BY <1>1, NextStep
<1>3. q.steps \in {<<"insert">>, <<"insert", "spend", "refetch", "row", "cache">>,
                   <<"delete">>, <<"commit", "code">>}
  BY <1>1, <1>2, Heads
<1>4. q.steps \in Committing
  BY <1>3 DEF Committing, Inserting, Deleting
<1>5. KeysKept /\ Phase(q)
  BY <1>2, CalmSole
<1>6. IF q.u = None THEN CopiesAre(user) ELSE CopiesAre(q.u) /\ user # None
  BY <1>4, <1>5 DEF Phase
<1>7. CopiesAre(user)'
  BY <1>1, <1>6 DEF CopiesAre
<1>8. KeysKept'
  <2>1. CASE q.steps \in {<<"insert">>, <<"insert", "spend", "refetch", "row", "cache">>}
    <3>1. Head1(r) = "insert"
      BY <1>2, <2>1
    <3>2. user # None => keys' = keys \cup {q.key}
      BY <1>1, <3>1 DEF KeysAfter
    <3>3. user = None => user' = None
      BY <1>1
    <3> QED
      BY <1>1, <1>5, <3>2, <3>3 DEF KeysKept
  <2>2. CASE q.steps = <<"delete">>
    <3>1. Head1(r) = "delete"
      BY <1>2, <2>2
    <3>2. keys' = keys \ {q.key}
      BY <1>1, <3>1 DEF KeysAfter
    <3>3. q.steps \in Deleting /\ q.steps \in Uncached
      BY <2>2 DEF Deleting, Uncached
    <3>4. /\ IF q.u = None THEN user # None /\ user.mfa => keys \ {q.key} # {} ELSE ~q.u.mfa
          /\ pkList = None
      BY <1>5, <3>3 DEF Phase
    <3> QED
      BY <1>1, <3>2, <3>4 DEF KeysKept
  <2>3. CASE q.steps = <<"commit", "code">>
    <3>1. Head1(r) = "commit"
      BY <1>2, <2>3
    <3>2. keys' = keys
      BY <1>1, <3>1 DEF KeysAfter
    <3>3. q.steps \in SavingKey /\ q.steps \in NeedsUser
      BY <2>3 DEF SavingKey, NeedsUser
    <3>4. user # None /\ q.u.mfa = user.mfa /\ q.u # None
      BY <1>2, <1>5, <3>3 DEF Phase, HeldOK
    <3> QED
      BY <1>1, <1>5, <3>2, <3>4 DEF KeysKept
  <2> QED
    BY <1>3, <2>1, <2>2, <2>3
<1> QED
  BY <1>1, <1>2, <1>3, <1>4, <1>7, <1>8

\* The transaction of a passkey commits: the row catches up with the cached copies.
LEMMA CalmCommit ==
    ASSUME ShapeInv, Calm, NEW r \in Requests, Commit(r)
    PROVE  Calm'
<1>1. PICK q : q = req[r]
  OBVIOUS
<1>2. /\ Active(r) /\ HeldOK(q) /\ Done(r) /\ UNCHANGED <<recent, byId, byEmail, pkList, used>>
      /\ q.steps \in Committing /\ CopiesAre(user)' /\ KeysKept'
      /\ q.steps \in {<<"insert">>, <<"insert", "spend", "refetch", "row", "cache">>,
                      <<"delete">>, <<"commit", "code">>}
  BY <1>1, CommitWrites
<1>3. Head1(r) \in {"insert", "delete", "commit"}
  BY DEF Commit
<1>4. PICK w : /\ req' = [req EXCEPT ![r] = w]
               /\ IF Len(q.steps) = 1 THEN w = Idle ELSE w # Idle /\ After(q, w)
  BY <1>1, <1>2, <1>3, DoneRecord
<1>5. /\ \A p \in Requests : Active(p) => p = r
      /\ Phase(q) /\ Kept(q)
  BY <1>1, <1>2, CalmSole
<1>6. ~Saved(q)
  BY <1>2 DEF Saved
<1>7. RecentOf(used)'
  BY <1>2, <1>5, <1>6, KeptRest
<1>8. ASSUME w # Idle PROVE Phase(w)' /\ Kept(w)'
  <2>1. q.steps \in {<<"insert", "spend", "refetch", "row", "cache">>, <<"commit", "code">>}
    BY <1>2, <1>4, <1>8
  <2>2. w.steps = Tail(q.steps)
    BY <1>4, <1>8 DEF After
  <2>3. /\ Tail(<<"insert", "spend", "refetch", "row", "cache">>) = <<"spend", "refetch", "row", "cache">>
        /\ Tail(<<"commit", "code">>) = <<"code">>
    OBVIOUS
  <2>4. w.steps \in {<<"spend", "refetch", "row", "cache">>, <<"code">>}
    BY <2>1, <2>2, <2>3
  <2>5. w.steps \in Reading /\ w.steps \notin Unflagging /\ w.steps \notin Uncached
    BY <2>4 DEF Reading, Unflagging, Uncached
  <2>6. Phase(w)' /\ ~Saved(w)
    BY <1>2, <2>5, PhaseReading
  <2>7. Kept(w)'
    BY <1>2, <1>5, <1>6, <2>6, KeptSame
  <2> QED
    BY <2>6, <2>7
<1>9. AtRest'
  BY <1>2, <1>7 DEF AtRest
<1> QED
  BY <1>2, <1>4, <1>5, <1>8, <1>9, CalmHere

\* User::delete, the row: what is cached is under the address the request holds.
LEMMA CalmRemove ==
    ASSUME ShapeInv, Calm, NEW r \in Requests, Remove(r)
    PROVE  Calm'
<1>1. PICK q : q = req[r]
  OBVIOUS
<1>2. /\ Head1(r) = "remove" /\ Done(r) /\ user' = None /\ keys' = {} /\ recent' = None /\ used' = <<>>
      /\ UNCHANGED <<byId, byEmail, pkList>>
  BY DEF Remove, caches
<1>3. Active(r) /\ HeldOK(q) /\ q.steps = <<"remove", "forget">>
  <2>1. Active(r) /\ HeldOK(q) /\ q.steps \in Programs /\ Head1(r) = Head(q.steps)
    BY <1>1, <1>2, NextStep
  <2> QED
    BY <1>2, <2>1, Heads
<1>4. PICK w : /\ req' = [req EXCEPT ![r] = w]
               /\ IF Len(q.steps) = 1 THEN w = Idle ELSE w # Idle /\ After(q, w)
  BY <1>1, <1>2, DoneRecord
<1>5. w # Idle /\ w.steps = <<"forget">> /\ w.u = q.u /\ w.old = q.old
  <2>1. Tail(<<"remove", "forget">>) = <<"forget">>
    OBVIOUS
  <2>2. Len(q.steps) = 2
    BY <1>3
  <2> QED
    BY <1>3, <1>4, <2>1, <2>2 DEF After
<1>6. /\ \A p \in Requests : Active(p) => p = r
      /\ Phase(q)
  BY <1>1, <1>3, CalmSole
<1>7. q.steps \in Removing
  BY <1>3 DEF Removing
<1>8. CopiesAre(user) /\ q.u = user /\ q.old = None
  BY <1>3, <1>6, <1>7 DEF Phase
<1>9. OnlyAt(w)'
  BY <1>2, <1>5, <1>8 DEF OnlyAt, CopiesAre
<1>10. w.steps \in Removing /\ w.steps # <<"remove", "forget">>
  BY <1>5 DEF Removing
<1>11. Phase(w)' /\ ~Saved(w)
  BY <1>2, <1>5, <1>8, <1>9, <1>10, PhaseRemove
<1>12. Kept(w)'
  <2>1. PICK s : s = <<>>
    OBVIOUS
  <2>2. RecentOf(s)'
    BY <1>2, <2>1 DEF RecentOf, Unrepeated
  <2>3. ~Saved(w)'
    BY <1>11 DEF Saved
  <2> QED
    BY <1>2, <2>1, <2>2, <2>3 DEF Kept
<1>13. KeysKept'
  BY <1>2 DEF KeysKept
<1> QED
  BY <1>4, <1>5, <1>6, <1>11, <1>12, <1>13, CalmHere

\* User::delete, the cached copies: none is left.
LEMMA CalmForget ==
    ASSUME ShapeInv, Calm, NEW r \in Requests, Forget(r)
    PROVE  Calm'
<1>1. PICK q : q = req[r]
  OBVIOUS
<1>2. /\ Head1(r) = "forget" /\ Done(r) /\ byId' = None /\ byEmail' = [byEmail EXCEPT ![q.u.email] = None]
      /\ UNCHANGED <<user, keys, recent, pkList, used>>
  BY <1>1 DEF Forget, store, history
<1>3. Active(r) /\ HeldOK(q) /\ q.steps = <<"forget">>
  <2>1. Active(r) /\ HeldOK(q) /\ q.steps \in Programs /\ Head1(r) = Head(q.steps)
    BY <1>1, <1>2, NextStep
  <2> QED
    BY <1>2, <2>1, Heads
<1>4. req' = [req EXCEPT ![r] = Idle]
  <2>1. Len(q.steps) = 1
    BY <1>3
  <2> QED
    BY <1>1, <1>2, <2>1, DoneRecord
<1>5. /\ \A p \in Requests : Active(p) => p = r
      /\ KeysKept /\ Phase(q) /\ Kept(q)
  BY <1>1, <1>3, CalmSole
<1>6. q.steps \in Removing /\ q.steps \in NeedsUser /\ ~Saved(q)
  BY <1>3 DEF Removing, NeedsUser, Saved
<1>7. user = None /\ OnlyAt(q) /\ q.old = None
  BY <1>3, <1>5, <1>6 DEF Phase
<1>8. q.u # None /\ q.u \in Copies
  BY <1>3, <1>6 DEF HeldOK, Held
<1>9. q.u.email \in Emails /\ byEmail \in [Emails -> Copies]
  BY <1>8 DEF Copies, Users, ShapeInv
<1>10. \A e \in Emails : byEmail'[e] = None
  <2>1. None \notin Emails
    BY ConstantsOK
  <2> QED
    BY <1>2, <1>7, <1>9, <2>1 DEF OnlyAt
<1>11. CopiesAre(user)'
  BY <1>2, <1>10 DEF CopiesAre
<1>12. RecentOf(used)'
  BY <1>2, <1>5, <1>6, KeptRest
<1>13. KeysKept'
  BY <1>2, <1>5, CalmKeys
<1> QED
  BY <1>4, <1>5, <1>11, <1>12, <1>13, CalmHere DEF AtRest
\* No request is at work, and none begins.
LEMMA CalmRest ==
    ASSUME \A r \in Requests : ~Active(r), req' = req, KeysKept', AtRest'
    PROVE  Calm'
<1>1. \A r \in Requests : ~Active(r)'
  BY DEF Active
<1> QED
  BY <1>1 DEF Calm

\* A request of one step spoils what it meets.
LEMMA SingleAlone ==
    ASSUME Calm, Single, "user" \notin spoilt'
    PROVE  /\ \A r \in Requests : ~Active(r)
           /\ KeysKept /\ CopiesAre(user) /\ RecentOf(used) /\ UNCHANGED <<req, used>>
<1>1. /\ spoilt' = spoilt \cup {"user" : r \in {x \in Requests : Active(x)}}
      /\ UNCHANGED <<req, used>>
  BY DEF Single
<1>2. \A r \in Requests : ~Active(r)
  BY <1>1
<1> QED
  BY <1>1, <1>2 DEF Calm, AtRest

\* The recent passwords stay as they are.
LEMMA RecentSame ==
    ASSUME RecentOf(used), UNCHANGED <<recent, used>>
    PROVE  RecentOf(used)'
BY DEF RecentOf, Unrepeated

\* User::create: nothing is left of the user before.
LEMMA CalmCreate ==
    ASSUME ShapeInv, Calm, "user" \notin spoilt', NEW e \in Emails, NEW fed \in BOOLEAN, create(e, fed)
    PROVE  Calm'
<1>1. /\ Single /\ user = None /\ user' = NewUser(e, fed) /\ byId' = None /\ pkList' = None
      /\ UNCHANGED <<keys, recent, byEmail>>
  BY DEF create
<1>2. /\ \A r \in Requests : ~Active(r)
      /\ CopiesAre(user) /\ RecentOf(used) /\ UNCHANGED <<req, used>>
  BY <1>1, SingleAlone
<1>3. \A d \in Emails : byEmail[d] = None
  BY <1>1, <1>2 DEF CopiesAre
<1>4. CopiesAre(user)'
  BY <1>1, <1>3 DEF CopiesAre
<1>5. KeysKept'
  <2>1. ~user'.mfa
    BY <1>1 DEF NewUser
  <2> QED
    BY <1>1, <2>1 DEF KeysKept
<1>6. AtRest'
  BY <1>1, <1>2, <1>4, RecentSame DEF AtRest
<1> QED
  BY <1>2, <1>5, <1>6, CalmRest

\* Requests that change something in one step, and the schedulers
LEMMA CalmSingles ==
    ASSUME ShapeInv, Calm, "user" \notin spoilt', Singles
    PROVE  Calm'
<1>1. ASSUME NEW k \in Keys, reg_start(k) PROVE Calm'
  <2>1. Single /\ byId' = Find /\ UNCHANGED <<user, keys, recent, byEmail, pkList>>
    BY <1>1 DEF reg_start, store
  <2>2. /\ \A r \in Requests : ~Active(r)
        /\ KeysKept /\ CopiesAre(user) /\ RecentOf(used) /\ UNCHANGED <<req, used>>
    BY <2>1, SingleAlone
  <2>3. CopiesAre(user)'
    BY <2>1, <2>2, RestFills
  <2>4. KeysKept'
    BY <2>1, <2>2, CalmKeys
  <2>5. AtRest'
    BY <2>1, <2>2, <2>3, RecentSame DEF AtRest
  <2> QED
    BY <2>2, <2>4, <2>5, CalmRest
<1>2. CASE auth_start
  <2>1. /\ Single /\ Find # None /\ byId' = Find /\ pkList' \in {find_for_user, find_for_user_with_uv}
        /\ UNCHANGED <<user, keys, recent, byEmail>>
    BY <1>2 DEF auth_start, store
  <2>2. /\ \A r \in Requests : ~Active(r)
        /\ KeysKept /\ CopiesAre(user) /\ RecentOf(used) /\ UNCHANGED <<req, used>>
    BY <2>1, SingleAlone
  <2>3. CopiesAre(user)'
    BY <2>1, <2>2, RestFills
  <2>4. user # None
    BY <2>1, <2>2, RestReads
  <2>5. pkList' \subseteq keys
    BY <2>1, <2>2, <2>4, RestLists
  <2>6. KeysKept'
    BY <2>1, <2>2, <2>5 DEF KeysKept
  <2>7. AtRest'
    BY <2>1, <2>2, <2>3, RecentSame DEF AtRest
  <2> QED
    BY <2>2, <2>6, <2>7, CalmRest
<1>3. CASE Registration
  BY <1>3, CalmCreate DEF Registration
<1>4. CASE ListKeys
  <2>1. Single /\ pkList' = keys /\ UNCHANGED <<user, keys, recent, byId, byEmail>>
    BY <1>4 DEF ListKeys, store
  <2>2. /\ \A r \in Requests : ~Active(r)
        /\ KeysKept /\ CopiesAre(user) /\ RecentOf(used) /\ UNCHANGED <<req, used>>
    BY <2>1, SingleAlone
  <2>3. CopiesAre(user)'
    BY <2>1, <2>2 DEF CopiesAre
  <2>4. KeysKept'
    BY <2>1, <2>2 DEF KeysKept
  <2>5. AtRest'
    BY <2>1, <2>2, <2>3, RecentSame DEF AtRest
  <2> QED
    BY <2>2, <2>4, <2>5, CalmRest
<1>5. CASE magic_link_cleanup
  <2>1. UNCHANGED <<user, byId, byEmail, keys, pkList, recent, used, req>>
    BY <1>5 DEF magic_link_cleanup, caches, history
  <2> QED
    BY <2>1, CalmSame
<1>6. ASSUME NEW l \in Links, Expire(l) PROVE Calm'
  <2>1. UNCHANGED <<user, byId, byEmail, keys, pkList, recent, used, req>>
    BY <1>6 DEF Expire, caches
  <2> QED
    BY <2>1, CalmSame
<1> QED
  BY <1>1, <1>2, <1>3, <1>4, <1>5, <1>6 DEF Singles

\* The steps that write links or codes only
LEMMA CalmLinks ==
    ASSUME ShapeInv, Calm, NEW r \in Requests, Bind(r) \/ Spend(r) \/ Mail(r) \/ Relink(r) \/ Code(r)
    PROVE  Calm'
<1>1. Done(r) /\ Head1(r) \in {"bind", "spend", "mail", "relink", "code"}
  BY DEF Bind, Spend, Mail, Relink, Code
<1>2. UNCHANGED <<user, keys, recent, byId, byEmail, pkList, used>>
  BY DEF Bind, Spend, Mail, Relink, Code, store, caches, history
<1> QED
  BY <1>1, <1>2, CalmPass

\* Every step of requests that neither overlap nor fail keeps what is known of them.
LEMMA CalmNext ==
    ASSUME ShapeInv, CalmInv, [Next]_vars
    PROVE  CalmInv'
<1> SUFFICES ASSUME "user" \notin spoilt' PROVE Calm'
  BY DEF CalmInv
<1>1. CASE Next
  <2>1. Calm
    BY <1>1, SpoiltGrows DEF CalmInv
  <2>2. CASE Singles
    BY <2>1, <2>2, CalmSingles
  <2>3. ASSUME NEW r \in Requests, Step(r) PROVE Calm'
    BY <2>1, <2>3, CalmCheck, CalmLinks, CalmRecent, CalmRow, CalmCache, CalmDrop, CalmUnflag,
       CalmCommit, CalmRefetch, CalmRemove, CalmForget DEF Step
  <2>4. ASSUME NEW r \in Requests, Fail(r) PROVE FALSE
    BY <2>4 DEF Fail
  <2>5. ASSUME NEW r \in Requests, NEW op, Starts(r, op) PROVE Calm'
    BY <2>1, <2>5, CalmStarts
  <2> QED
    BY <1>1, <2>2, <2>3, <2>4, <2>5, Cases
<1>2. CASE UNCHANGED vars
  <2>1. UNCHANGED <<user, byId, byEmail, keys, pkList, recent, used, req, spoilt>>
    BY <1>2 DEF vars, store, caches, history
  <2>2. Calm
    BY <2>1 DEF CalmInv
  <2> QED
    BY <2>1, <2>2, CalmSame
<1> QED
  BY <1>1, <1>2

\* Nothing is cached when the instance starts.
LEMMA CalmInit == Init => CalmInv
<1> SUFFICES ASSUME Init PROVE Calm
  BY DEF CalmInv
<1>1. PICK a \in InitAccounts :
        /\ user = a.user /\ keys = a.keys /\ recent = a.recent
        /\ used = IF a.recent = None THEN <<>> ELSE a.recent
  BY DEF Init
<1>2. /\ a.user # None => (a.user.mfa => a.keys # {})
      /\ a.recent # None => a.recent \in Seq(Passwords) /\ Unrepeated(a.recent)
  BY <1>1, InitAccountsOK
<1>3. /\ byId = None /\ byEmail = [e \in Emails |-> None] /\ pkList = None
      /\ req = [r \in Requests |-> Idle]
  BY DEF Init
<1>4. \A r \in Requests : ~Active(r)
  BY <1>3 DEF Active
<1>5. CopiesAre(user)
  BY <1>3 DEF CopiesAre
<1>6. KeysKept
  BY <1>1, <1>2, <1>3 DEF KeysKept
<1>7. RecentOf(used)
  <2>1. CASE recent = None
    BY <1>1, <2>1 DEF RecentOf, Unrepeated
  <2>2. CASE recent # None
    <3>1. used = recent /\ recent \in Seq(Passwords) /\ Unrepeated(recent)
      BY <1>1, <1>2, <2>2
    <3>2. Len(recent) \in Nat
      BY <3>1
    <3> QED
      BY <2>2, <3>1, <3>2 DEF RecentOf
  <2> QED
    BY <2>1, <2>2
<1> QED
  BY <1>4, <1>5, <1>6, <1>7 DEF Calm, AtRest

\* The invariant of requests that neither overlap nor fail
LEMMA CalmAlways == Spec => [](ShapeInv /\ CalmInv)
<1>1. Init => ShapeInv /\ CalmInv
  BY ShapeInit, CalmInit
<1>2. ShapeInv /\ CalmInv /\ [Next]_vars => (ShapeInv /\ CalmInv)'
  BY ShapeNext, CalmNext
<1> QED
  BY <1>1, <1>2, PTL DEF Spec

\* While no request is at work and none overlapped another or failed, both cached
\* copies are the row in all but the language, under the address the user has now (CopiesAgree).
THEOREM AccountCopiesAgree == Spec => []CopiesAgree
<1>1. ShapeInv /\ CalmInv => CopiesAgree
  <2> SUFFICES ASSUME ShapeInv, CalmInv PROVE CopiesAgree
    OBVIOUS
  <2>1. TypeOK
    BY DEF ShapeInv
  <2>2. ASSUME Quiet PROVE CopiesAre(user)
    BY <2>2 DEF Quiet, CalmInv, Calm, AtRest
  <2> QED
    BY <2>1, <2>2 DEF CopiesAgree, CopiesAre
<1> QED
  BY <1>1, CalmAlways, PTL

\* A user who must show a passkey has one (MfaHasKey).
THEOREM AccountMfaHasKey == Spec => []MfaHasKey
<1>1. ShapeInv /\ CalmInv => MfaHasKey
  BY DEF MfaHasKey, Quiet, CalmInv, Calm, KeysKept
<1> QED
  BY <1>1, CalmAlways, PTL

\* No password is accepted again while it is one of the last RecentReq - 1, those refused
\* with their address included (NotReused, User::apply_password_rules, User::save).
THEOREM AccountNotReused == Spec => []NotReused
<1>1. ShapeInv /\ CalmInv => NotReused
  BY DEF NotReused, Quiet, CalmInv, Calm, AtRest, RecentOf
<1> QED
  BY <1>1, CalmAlways, PTL
=============================================================================
