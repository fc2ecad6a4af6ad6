---------------------- MODULE DirectoryBlacklistProofs ----------------------
(***************************************************************************)
(* Proofs about IpBlacklist, for any number of nodes, IPs and concurrent   *)
(* logins, any thresholds, and any loss, delay and reordering of events;   *)
(* and about Directory, for any names, rows and concurrent requests of     *)
(* administrators.                                                         *)
(***************************************************************************)
EXTENDS IpBlacklist, Directory, SequenceTheorems, TLAPS

\* A login that has been counted at threshold t and not answered yet
Pending(ip, t) ==
    \E r \in Requests : login[r] # Idle /\ login[r].ip = ip /\ login[r].count = t

\* The number c of failed logins of an IP, wherever it is read, is justified: so
\* many logins failed, and every threshold up to c has blacklisted or will.
Supported(ip, c) ==
    /\ c <= failures[ip]
    /\ "restarted" \notin faults =>
          \A t \in Levels : c >= t => <<ip, t>> \in announced \/ Pending(ip, t)

LoginInv ==
    \A r \in Requests : login[r] # Idle =>
        /\ login[r].step = "login" => login[r].count = 0
        /\ login[r].step = "answer" => Supported(login[r].ip, login[r].count)

FailedInv == \A n \in Nodes, ip \in Ips : failed[n][ip] # None => Supported(ip, failed[n][ip])

TasksInv == \A e \in tasks : e.typ = "InvalidLogins" => Supported(e.ip, e.data)

RouterInv ==
    \A n \in Nodes : \A i \in 1 .. Len(router[n]) :
        router[n][i].typ = "InvalidLogins" => Supported(router[n][i].ip, router[n][i].data)

CountInv == TypeOK /\ LoginInv /\ FailedInv /\ TasksInv /\ RouterInv

-----------------------------------------------------------------------------
\* Type correctness

\* A running login holds a node, an IP and a counter.
LEMMA LoginType ==
    ASSUME TypeOK, NEW r \in Requests, login[r].step \in {"login", "answer"}
    PROVE  /\ login[r] \in Running /\ login[r] # Idle
           /\ login[r].node \in Nodes /\ login[r].ip \in Ips /\ login[r].count \in Nat
<1>1. login[r] \in Running /\ login[r] # Idle
  BY DEF TypeOK, Idle
<1> QED
  BY <1>1 DEF Running

\* What LoginCheck answers
LEMMA CountedType ==
    ASSUME TypeOK, NEW n \in Nodes, NEW ip \in Ips
    PROVE  Counted(n, ip) \in Nat /\ Counted(n, ip) > 0
           /\ (failed[n][ip] = None => Counted(n, ip) = 1)
           /\ (failed[n][ip] # None => Counted(n, ip) = failed[n][ip] + 1)
<1>1. failed[n][ip] \in Nat \cup {None}
  BY DEF TypeOK
<1> QED
  BY <1>1 DEF Counted

\* A level is a positive number that blacklists when it is reached.
LEMMA LevelsFacts ==
    /\ Levels \subseteq Nat \ {0}
    /\ \A c \in Nat : LevelsAt(c) \subseteq Levels
    /\ \A t \in Levels : t \in LevelsAt(t)
BY IpBlacklistAssumption DEF Levels, LevelsAt

\* The initial state is well-typed.
LEMMA TypeInit == Init => TypeOK
<1> SUFFICES ASSUME Init PROVE TypeOK
  OBVIOUS
<1>1. router \in [Nodes -> Seq(Event)]
  BY DEF Init
<1>2. \A r \in Requests : login[r].step # "answer"
  BY DEF Init, Idle
<1> QED
  BY <1>1, <1>2 DEF Init, TypeOK

\* The new record of one login is its only change, and keeps the type.
LEMMA OneLogin ==
    ASSUME TypeOK, NEW r \in Requests, NEW new \in {Idle} \cup Running,
           new.step = "answer" => new.count > 0,
           login' = [login EXCEPT ![r] = new]
    PROVE  /\ login' \in [Requests -> {Idle} \cup Running]
           /\ \A q \in Requests : login'[q].step = "answer" => login'[q].count > 0
           /\ login'[r] = new /\ \A q \in Requests : q # r => login'[q] = login[q]
BY DEF TypeOK

\* The events a failed login sends
Answers(r) ==
    {[node |-> login[r].node, typ |-> "InvalidLogins", ip |-> login[r].ip,
      data |-> login[r].count]}
    \cup {[node |-> login[r].node, typ |-> "IpBlacklisted", ip |-> login[r].ip,
           data |-> now + BlockFor[l]] : l \in LevelsAt(login[r].count)}

\* Answer in a form that names what it sends
LEMMA AnswerFacts ==
    ASSUME TypeOK, NEW r \in Requests, Answer(r)
    PROVE  /\ login[r].step = "answer"
           /\ Answers(r) \subseteq Event
           /\ tasks' = tasks \cup Answers(r) /\ tasks' \subseteq Event
           /\ announced' = announced \cup {<<login[r].ip, l>> : l \in LevelsAt(login[r].count)}
           /\ announced' \subseteq Ips \X Levels
           /\ login' = [login EXCEPT ![r] = Idle]
           /\ UNCHANGED <<now, maps, checker, router, listening, failures, faults>>
<1>1. login[r].step = "answer" /\ login[r].node \in Nodes /\ login[r].ip \in Ips
      /\ login[r].count \in Nat
  BY LoginType DEF Answer
<1>2. LevelsAt(login[r].count) \subseteq Levels
  BY <1>1, LevelsFacts
<1>3. \A l \in LevelsAt(login[r].count) : now + BlockFor[l] \in Nat
  BY <1>2, IpBlacklistAssumption DEF TypeOK
<1>4. Answers(r) \subseteq Event
  BY <1>1, <1>3 DEF Answers, Event
<1>5. tasks' = tasks \cup Answers(r)
  BY DEF Answer, Send, Answers
<1>6. announced' = announced \cup {<<login[r].ip, l>> : l \in LevelsAt(login[r].count)}
  BY DEF Answer
<1>7. announced' \subseteq Ips \X Levels
  BY <1>1, <1>2, <1>6 DEF TypeOK
<1> QED
  BY <1>1, <1>4, <1>5, <1>6, <1>7 DEF Answer, TypeOK

\* Everything a router forwards is an event, and forwarding keeps the channel.
LEMMA RouteFacts ==
    ASSUME TypeOK, NEW n \in Nodes, Route(n)
    PROVE  /\ Head(router[n]) \in Event
           /\ Head(router[n]) = router[n][1] /\ Len(router[n]) > 0
           /\ router' \in [Nodes -> Seq(Event)]
           /\ router'[n] = Tail(router[n])
           /\ \A m \in Nodes : m # n => router'[m] = router[m]
<1>1. router[n] \in Seq(Event) /\ router[n] # <<>>
  BY DEF TypeOK, Route
<1>2. Head(router[n]) \in Event /\ Tail(router[n]) \in Seq(Event)
      /\ Head(router[n]) = router[n][1] /\ Len(router[n]) > 0
  BY <1>1
<1> QED
  BY <1>2 DEF TypeOK, Route

\* Every action keeps the state well-typed.
LEMMA TypeNext == TypeOK /\ [Next]_vars => TypeOK'
<1> SUFFICES ASSUME TypeOK, [Next]_vars PROVE TypeOK'
  OBVIOUS
<1> USE IpBlacklistAssumption
<1>1. ASSUME NEW r \in Requests, NEW n \in Nodes, NEW ip \in Ips, Request(r, n, ip) PROVE TypeOK'
  <2> DEFINE new == [step |-> "login", node |-> n, ip |-> ip, count |-> 0]
  <2>1. new \in Running /\ new.step # "answer"
    BY DEF Running
  <2>2. login' = [login EXCEPT ![r] = new]
    BY <1>1 DEF Request
  <2> HIDE DEF new
  <2>3. /\ login' \in [Requests -> {Idle} \cup Running]
        /\ \A q \in Requests : login'[q].step = "answer" => login'[q].count > 0
    BY <2>1, <2>2, OneLogin
  <2> QED
    BY <1>1, <2>3 DEF Request, TypeOK, maps, history
<1>2. ASSUME NEW r \in Requests, LoginEnds(r) PROVE TypeOK'
  <2>1. /\ login[r] \in Running /\ login[r].node \in Nodes /\ login[r].ip \in Ips
        /\ login[r].step = "login"
    BY <1>2, LoginType DEF LoginEnds, LoginSucceeds, LoginEndsUncounted, LoginFails
  <2>2. CASE LoginFails(r)
    <3> DEFINE c == Counted(login[r].node, login[r].ip)
               new == [login[r] EXCEPT !.step = "answer", !.count = c]
    <3>1. c \in Nat /\ c > 0
      BY <2>1, CountedType
    <3>2. failed' = [failed EXCEPT ![login[r].node][login[r].ip] = c]
      BY <2>2 DEF LoginFails
    <3>3. login' = [login EXCEPT ![r] = new]
      BY <2>2, Zenon DEF LoginFails
    <3>4. failures' \in [Ips -> Nat]
      BY <2>1, <2>2 DEF LoginFails, TypeOK
    <3> HIDE DEF c
    <3>5. failed' \in [Nodes -> [Ips -> Nat \cup {None}]]
      BY <2>1, <3>1, <3>2 DEF TypeOK
    <3>6. new \in Running /\ new.count > 0
      BY <2>1, <3>1 DEF Running
    <3> HIDE DEF new
    <3>7. /\ login' \in [Requests -> {Idle} \cup Running]
          /\ \A q \in Requests : login'[q].step = "answer" => login'[q].count > 0
      BY <3>3, <3>6, OneLogin
    <3> QED
      BY <2>2, <3>4, <3>5, <3>7 DEF LoginFails, TypeOK
  <2>3. CASE LoginSucceeds(r) \/ LoginEndsUncounted(r)
    <3>1. login' = [login EXCEPT ![r] = Idle]
      BY <2>3 DEF LoginSucceeds, LoginEndsUncounted
    <3>2. Idle.step # "answer"
      BY DEF Idle
    <3>3. /\ login' \in [Requests -> {Idle} \cup Running]
          /\ \A q \in Requests : login'[q].step = "answer" => login'[q].count > 0
      BY <3>1, <3>2, OneLogin
    <3>4. failed' \in [Nodes -> [Ips -> Nat \cup {None}]]
      <4>1. \/ failed' = failed
            \/ failed' = [failed EXCEPT ![login[r].node][login[r].ip] = None]
        BY <2>3 DEF LoginSucceeds, LoginEndsUncounted, maps
      <4>2. ASSUME NEW n \in Nodes, NEW ip \in Ips, failed' = [failed EXCEPT ![n][ip] = None]
            PROVE  failed' \in [Nodes -> [Ips -> Nat \cup {None}]]
        BY <4>2 DEF TypeOK
      <4> QED
        BY <2>1, <4>1, <4>2 DEF TypeOK
    <3> QED
      BY <2>3, <3>3, <3>4 DEF LoginSucceeds, LoginEndsUncounted, TypeOK, maps, history
  <2> QED
    BY <1>2, <2>2, <2>3 DEF LoginEnds
<1>3. ASSUME NEW r \in Requests, Answer(r) PROVE TypeOK'
  <2>1. Idle.step # "answer"
    BY DEF Idle
  <2>2. /\ login' \in [Requests -> {Idle} \cup Running]
        /\ \A q \in Requests : login'[q].step = "answer" => login'[q].count > 0
    BY <1>3, <2>1, AnswerFacts, OneLogin
  <2> QED
    BY <1>3, <2>2, AnswerFacts DEF TypeOK, maps
<1>4. ASSUME NEW n \in Nodes, NEW ip \in Ips, NEW exp \in Nat,
             PostBlacklist(n, ip, exp) \/ DeleteBlacklist(n, ip)
      PROVE  TypeOK'
  <2>1. /\ [node |-> n, typ |-> "IpBlacklisted", ip |-> ip, data |-> exp] \in Event
        /\ [node |-> n, typ |-> "IpBlacklistRemoved", ip |-> ip, data |-> 0] \in Event
    BY DEF Event
  <2>2. tasks' \subseteq Event
    BY <1>4, <2>1 DEF PostBlacklist, DeleteBlacklist, Send, TypeOK
  <2> QED
    BY <1>4, <2>2 DEF PostBlacklist, DeleteBlacklist, TypeOK, maps, history
<1>5. ASSUME NEW e \in tasks, Publish(e) PROVE TypeOK'
  <2>1. e \in Event
    BY DEF TypeOK
  <2>2. \A n \in Nodes : Append(router[n], e) \in Seq(Event) /\ router[n] \in Seq(Event)
    BY <2>1 DEF TypeOK
  <2>3. router' \in [Nodes -> Seq(Event)]
    BY <1>5, <2>2 DEF Publish
  <2> QED
    BY <1>5, <2>3 DEF Publish, TypeOK, maps, history
<1>6. ASSUME NEW n \in Nodes, Route(n) PROVE TypeOK'
  <2> DEFINE e == Head(router[n])
  <2>1. /\ e \in Event /\ e.ip \in Ips /\ e.data \in Nat
        /\ e.typ \in {"InvalidLogins", "IpBlacklisted", "IpBlacklistRemoved"}
        /\ router' \in [Nodes -> Seq(Event)]
    BY <1>6, RouteFacts DEF Event
  <2>2. FailedSet(n, e) \in Nat /\ Started(n) \in {"running", "aborting", "finished"}
    BY <2>1 DEF FailedSet, Started, TypeOK
  <2>3. /\ failed' \in [Nodes -> [Ips -> Nat \cup {None}]]
        /\ blacklist' \in [Nodes -> [Ips -> Nat \cup {None}]]
        /\ checker' \in [Nodes -> {"running", "aborting", "finished"}]
    <3>0. \/ /\ failed' = [failed EXCEPT ![n][e.ip] = FailedSet(n, e)]
             /\ blacklist' = blacklist /\ checker' = checker
          \/ /\ blacklist' = [blacklist EXCEPT ![n][e.ip] = e.data]
             /\ checker' = [checker EXCEPT ![n] = Started(n)]
             /\ failed' = failed
          \/ /\ blacklist' = [blacklist EXCEPT ![n][e.ip] = None]
             /\ failed' = failed /\ checker' = checker
      BY <1>6 DEF Route
    <3> HIDE DEF e
    <3>1. CASE failed' = [failed EXCEPT ![n][e.ip] = FailedSet(n, e)]
               /\ blacklist' = blacklist /\ checker' = checker
      BY <2>1, <2>2, <3>1 DEF TypeOK
    <3>2. CASE /\ blacklist' = [blacklist EXCEPT ![n][e.ip] = e.data]
               /\ checker' = [checker EXCEPT ![n] = Started(n)]
               /\ failed' = failed
      BY <2>1, <2>2, <3>2 DEF TypeOK
    <3>3. CASE /\ blacklist' = [blacklist EXCEPT ![n][e.ip] = None]
               /\ failed' = failed /\ checker' = checker
      BY <2>1, <3>3 DEF TypeOK
    <3> QED
      BY <3>0, <3>1, <3>2, <3>3
  <2> QED
    BY <1>6, <2>1, <2>3 DEF Route, TypeOK, history
<1>7. ASSUME NEW n \in Nodes, Disconnect(n) \/ Connect(n) PROVE TypeOK'
  BY <1>7 DEF Disconnect, Connect, TypeOK, maps, history
<1>8. ASSUME NEW n \in Nodes, CheckExp(n) \/ CheckerFinishes(n) PROVE TypeOK'
  <2>1. Left(n) \in [Ips -> Nat \cup {None}]
    BY DEF Left, TypeOK
  <2>2. CheckerAfter(n) \in {"running", "aborting", "finished"}
    BY DEF CheckerAfter, TypeOK
  <2>3. blacklist' \in [Nodes -> [Ips -> Nat \cup {None}]]
    BY <1>8, <2>1 DEF CheckExp, CheckerFinishes, TypeOK, maps
  <2>4. checker' \in [Nodes -> {"running", "aborting", "finished"}]
    BY <1>8, <2>2 DEF CheckExp, CheckerFinishes, TypeOK
  <2> QED
    BY <1>8, <2>3, <2>4 DEF CheckExp, CheckerFinishes, TypeOK, maps, history
<1>9. ASSUME NEW n \in Nodes, Restart(n) PROVE TypeOK'
  <2>1. [ip \in Ips |-> None] \in [Ips -> Nat \cup {None}]
    OBVIOUS
  <2>2. /\ blacklist' \in [Nodes -> [Ips -> Nat \cup {None}]]
        /\ failed' \in [Nodes -> [Ips -> Nat \cup {None}]]
        /\ checker' \in [Nodes -> {"running", "aborting", "finished"}]
    BY <1>9, <2>1 DEF Restart, TypeOK
  <2>3. router' \in [Nodes -> Seq(Event)]
    BY <1>9 DEF Restart, TypeOK
  <2>4. login' \in [Requests -> {Idle} \cup Running]
    BY <1>9 DEF Restart, TypeOK
  <2>5. \A q \in Requests : login'[q].step = "answer" => login'[q].count > 0
    BY <1>9 DEF Restart, TypeOK, Idle
  <2>6. listening' \subseteq Nodes /\ tasks' \subseteq Event
    BY <1>9 DEF Restart, TypeOK
  <2> QED
    BY <1>9, <2>2, <2>3, <2>4, <2>5, <2>6 DEF Restart, TypeOK
<1>10. CASE Tick
  BY <1>10 DEF Tick, TypeOK, maps, history
<1>11. CASE UNCHANGED vars
  BY <1>11 DEF vars, TypeOK, maps, history
<1>12. ASSUME NEW n \in Nodes, NEW ip \in Ips, DeleteBlacklist(n, ip) PROVE TypeOK'
  BY <1>4, <1>12
<1>13. ASSUME NEW n \in Nodes, NEW ip \in Ips, NEW exp \in BlockUntil,
              PostBlacklist(n, ip, exp)
       PROVE  TypeOK'
  <2>1. exp \in Nat
    OBVIOUS
  <2> QED
    BY <1>4, <1>13, <2>1
<1> QED
  BY <1>1, <1>2, <1>3, <1>5, <1>6, <1>7, <1>8, <1>9, <1>10, <1>11, <1>12, <1>13 DEF Next

\* The state of the handlers, channels and tasks stays well-formed for any number
\* of nodes, and a failed login is answered with a positive counter.
THEOREM TypeCorrect == Spec => []TypeOK
BY TypeInit, TypeNext, PTL DEF Spec

-----------------------------------------------------------------------------
\* The counters

\* The initial state
LEMMA CountInit == Init => CountInv
<1> SUFFICES ASSUME Init PROVE CountInv
  OBVIOUS
<1>1. TypeOK
  BY TypeInit
<1>2. LoginInv /\ FailedInv /\ TasksInv
  BY DEF Init, LoginInv, FailedInv, TasksInv
<1>3. RouterInv
  <2> SUFFICES ASSUME NEW n \in Nodes, NEW i \in 1 .. Len(router[n]) PROVE FALSE
    BY DEF RouterInv
  <2>1. router[n] = <<>>
    BY DEF Init
  <2> QED
    BY <2>1
<1> QED
  BY <1>1, <1>2, <1>3 DEF CountInv

\* A justified number stays so when the logins in flight and what was announced
\* only grow.
LEMMA SupportedKept ==
    ASSUME TypeOK, TypeOK', faults \subseteq faults', announced \subseteq announced',
           \A ip \in Ips : failures[ip] <= failures'[ip],
           \A ip \in Ips, t \in Levels : Pending(ip, t) => Pending(ip, t)' \/ <<ip, t>> \in announced'
    PROVE  \A ip \in Ips, c \in Nat : Supported(ip, c) => Supported(ip, c)'
<1> TAKE ip \in Ips, c \in Nat
<1> HAVE Supported(ip, c)
<1>1. c <= failures'[ip]
  <2>1. failures[ip] \in Nat /\ failures'[ip] \in Nat /\ failures[ip] <= failures'[ip]
    BY DEF TypeOK
  <2> QED
    BY <2>1 DEF Supported
<1>2. ASSUME "restarted" \notin faults', NEW t \in Levels, c >= t
      PROVE  <<ip, t>> \in announced' \/ Pending(ip, t)'
  BY <1>2 DEF Supported
<1> QED
  BY <1>1, <1>2 DEF Supported

\* Every step but a restart, which voids the claim about thresholds, keeps
\* justified numbers justified.
LEMMA SupportedStep ==
    ASSUME CountInv, TypeOK', [Next]_vars
    PROVE  \A ip \in Ips, c \in Nat : Supported(ip, c) => Supported(ip, c)'
<1> DEFINE Kept == \A ip \in Ips, t \in Levels :
                       Pending(ip, t) => Pending(ip, t)' \/ <<ip, t>> \in announced'
           Grows == /\ faults \subseteq faults' /\ announced \subseteq announced'
                    /\ \A ip \in Ips : failures[ip] <= failures'[ip]
<1>0. TypeOK /\ LoginInv /\ Levels \subseteq Nat \ {0}
  BY LevelsFacts DEF CountInv
<1>1. Grows /\ Kept => \A ip \in Ips, c \in Nat : Supported(ip, c) => Supported(ip, c)'
  BY <1>0, SupportedKept
<1>2. UNCHANGED <<failures, announced>> /\ faults \subseteq faults' => Grows
  BY <1>0 DEF TypeOK
<1>3. UNCHANGED login => Kept
  BY DEF Pending
<1>4. ASSUME NEW r \in Requests, LoginEnds(r) PROVE Grows /\ Kept
  <2>1. login[r].step = "login" /\ login[r] # Idle /\ login[r].ip \in Ips
    BY <1>0, <1>4, LoginType DEF LoginEnds, LoginSucceeds, LoginEndsUncounted, LoginFails
  <2>2. login[r].count = 0
    BY <1>0, <2>1 DEF LoginInv
  <2>3. \A q \in Requests : q # r => login'[q] = login[q]
    BY <1>0, <1>4 DEF LoginEnds, LoginSucceeds, LoginEndsUncounted, LoginFails, TypeOK
  <2>4. Kept
    <3> SUFFICES ASSUME NEW ip \in Ips, NEW t \in Levels, Pending(ip, t) PROVE Pending(ip, t)'
      OBVIOUS
    <3>1. PICK q \in Requests : login[q] # Idle /\ login[q].ip = ip /\ login[q].count = t
      BY DEF Pending
    <3>2. q # r
      BY <1>0, <2>2, <3>1
    <3> QED
      BY <2>3, <3>1, <3>2 DEF Pending
  <2>5. Grows
    <3>1. faults' = faults /\ announced' = announced
      BY <1>4 DEF LoginEnds, LoginSucceeds, LoginEndsUncounted, LoginFails, history
    <3>2. failures' = failures \/ failures' = [failures EXCEPT ![login[r].ip] = @ + 1]
      BY <1>4 DEF LoginEnds, LoginSucceeds, LoginEndsUncounted, LoginFails, history
    <3>3. failures \in [Ips -> Nat]
      BY <1>0 DEF TypeOK
    <3>4. ASSUME NEW ip \in Ips PROVE failures[ip] <= failures'[ip]
      <4>1. failures[ip] \in Nat /\ failures[login[r].ip] \in Nat
        BY <2>1, <3>3
      <4>2. failures'[ip] = failures[ip] \/ failures'[ip] = failures[ip] + 1
        BY <2>1, <3>2, <3>3
      <4> QED
        BY <4>1, <4>2
    <3> QED
      BY <3>1, <3>4
  <2> QED
    BY <2>4, <2>5
<1>5. ASSUME NEW r \in Requests, Answer(r) PROVE Grows /\ Kept
  <2>1. /\ login' = [login EXCEPT ![r] = Idle]
        /\ announced' = announced \cup {<<login[r].ip, l>> : l \in LevelsAt(login[r].count)}
        /\ UNCHANGED <<failures, faults>>
    BY <1>0, <1>5, AnswerFacts
  <2>2. \A q \in Requests : q # r => login'[q] = login[q]
    BY <1>0, <2>1 DEF TypeOK
  <2>3. Kept
    <3> SUFFICES ASSUME NEW ip \in Ips, NEW t \in Levels, Pending(ip, t),
                        <<ip, t>> \notin announced'
                 PROVE  Pending(ip, t)'
      OBVIOUS
    <3>1. PICK q \in Requests : login[q] # Idle /\ login[q].ip = ip /\ login[q].count = t
      BY DEF Pending
    <3>2. q # r
      <4>1. t \in LevelsAt(t)
        BY LevelsFacts
      <4> QED
        BY <2>1, <3>1, <4>1
    <3> QED
      BY <2>2, <3>1, <3>2 DEF Pending
  <2>4. Grows
    BY <1>0, <2>1 DEF TypeOK
  <2> QED
    BY <2>3, <2>4
<1>6. ASSUME NEW r \in Requests, NEW n \in Nodes, NEW ip \in Ips, Request(r, n, ip)
      PROVE  Grows /\ Kept
  <2>1. login[r] = Idle /\ (\A q \in Requests : q # r => login'[q] = login[q])
    BY <1>0, <1>6 DEF Request, TypeOK
  <2>2. UNCHANGED <<failures, announced, faults>>
    BY <1>6 DEF Request, history
  <2> QED
    BY <1>2, <2>1, <2>2 DEF Pending
<1>7. ASSUME NEW n \in Nodes, Restart(n)
      PROVE  \A ip \in Ips, c \in Nat : Supported(ip, c) => Supported(ip, c)'
  <2>1. "restarted" \in faults' /\ failures' = failures
    BY <1>7 DEF Restart
  <2> QED
    BY <2>1 DEF Supported
<1>8. \/ \E n \in Nodes, ip \in Ips :
            DeleteBlacklist(n, ip) \/ \E exp \in BlockUntil : PostBlacklist(n, ip, exp)
      \/ \E e \in tasks : Publish(e)
      \/ \E n \in Nodes : \/ Route(n) \/ Disconnect(n) \/ Connect(n)
                          \/ CheckExp(n) \/ CheckerFinishes(n)
      \/ Tick \/ UNCHANGED vars
      => UNCHANGED <<login, failures, announced>> /\ faults \subseteq faults'
  BY DEF DeleteBlacklist, PostBlacklist, Publish, Route, Disconnect, Connect, CheckExp,
         CheckerFinishes, Tick, vars, history
<1> QED
  BY <1>1, <1>2, <1>3, <1>4, <1>5, <1>6, <1>7, <1>8 DEF Next
\* The counter that a failed login gets is justified: the login itself stands
\* for the threshold it reaches, the old counter for the lower ones.
LEMMA CountedSupported ==
    ASSUME CountInv, TypeOK', NEW r \in Requests, LoginFails(r),
           NEW n \in Nodes, NEW ip \in Ips, n = login[r].node, ip = login[r].ip,
           NEW c \in Nat, c = Counted(n, ip),
           \A jp \in Ips, d \in Nat : Supported(jp, d) => Supported(jp, d)'
    PROVE  Supported(ip, c)'
<1>0. TypeOK /\ FailedInv /\ Levels \subseteq Nat
  BY LevelsFacts DEF CountInv
<1>1. login[r] \in Running /\ login'[r] = [login[r] EXCEPT !.step = "answer", !.count = c]
  BY <1>0, LoginType DEF LoginFails, TypeOK
<1>2. login'[r] # Idle /\ login'[r].ip = ip /\ login'[r].count = c
  BY <1>1 DEF Running, Idle
<1>3. failures[ip] \in Nat /\ failures'[ip] = failures[ip] + 1
  BY <1>0 DEF LoginFails, TypeOK
<1>4. CASE failed[n][ip] = None
  <2>1. c = 1
    BY <1>0, <1>4, CountedType
  <2>2. c <= failures'[ip]
    BY <1>3, <2>1
  <2>3. \A t \in Levels : c >= t => t = c
    BY <2>1, LevelsFacts
  <2> QED
    BY <1>2, <2>2, <2>3 DEF Supported, Pending
<1>5. CASE failed[n][ip] # None
  <2> DEFINE d == failed[n][ip]
  <2>1. d \in Nat /\ c = d + 1
    BY <1>0, <1>5, CountedType DEF TypeOK
  <2>2. Supported(ip, d)
    BY <1>0, <1>5 DEF FailedInv
  <2>3. c <= failures'[ip]
    BY <1>3, <2>1, <2>2 DEF Supported
  <2> HIDE DEF d
  <2>4. ASSUME "restarted" \notin faults', NEW t \in Levels, c >= t
        PROVE  <<ip, t>> \in announced' \/ Pending(ip, t)'
    <3>1. CASE t = c
      BY <1>2, <3>1 DEF Pending
    <3>2. CASE t # c
      <4>1. d >= t
        BY <1>0, <2>1, <2>4, <3>2
      <4>2. \A k \in Nat : Supported(ip, k) => Supported(ip, k)'
        OBVIOUS
      <4>3. ASSUME NEW k \in Nat, Supported(ip, k), k >= t
            PROVE  <<ip, t>> \in announced' \/ Pending(ip, t)'
        BY <2>4, <4>2, <4>3 DEF Supported
      <4> QED
        BY <2>1, <2>2, <4>1, <4>3
    <3> QED
      BY <3>1, <3>2
  <2> QED
    BY <2>3, <2>4 DEF Supported
<1> QED
  BY <1>4, <1>5
\* Every step keeps every number of failed logins justified.
LEMMA CountNext == CountInv /\ [Next]_vars => CountInv'
<1> SUFFICES ASSUME CountInv, [Next]_vars PROVE CountInv'
  OBVIOUS
<1>1. TypeOK /\ LoginInv /\ FailedInv /\ TasksInv /\ RouterInv
  BY DEF CountInv
<1>2. TypeOK'
  BY <1>1, TypeNext
<1>3. \A ip \in Ips, c \in Nat : Supported(ip, c) => Supported(ip, c)'
  BY <1>2, SupportedStep
\* what is not touched stays justified
<1>4. ASSUME NEW q \in Requests, login'[q] = login[q], login[q].step = "answer"
      PROVE  Supported(login[q].ip, login[q].count)'
  <2>1. login[q] # Idle /\ login[q].ip \in Ips /\ login[q].count \in Nat
    BY <1>1, <1>4, LoginType
  <2>2. Supported(login[q].ip, login[q].count)
    BY <1>1, <1>4, <2>1 DEF LoginInv
  <2>3. ASSUME NEW ip \in Ips, NEW c \in Nat, Supported(ip, c), ip = login'[q].ip, c = login'[q].count
        PROVE  Supported(login[q].ip, login[q].count)'
    BY <1>3, <2>3 DEF Supported
  <2> QED
    BY <1>4, <2>1, <2>2, <2>3
<1>5. (\A q \in Requests : login'[q] = login[q] \/ login'[q] = Idle) => LoginInv'
  <2> SUFFICES ASSUME \A q \in Requests : login'[q] = login[q] \/ login'[q] = Idle,
                      NEW q \in Requests, login'[q] # Idle
               PROVE  /\ login'[q].step = "login" => login'[q].count = 0
                      /\ login'[q].step = "answer" => Supported(login[q].ip, login[q].count)'
    BY DEF LoginInv
  <2>1. login'[q] = login[q]
    OBVIOUS
  <2> QED
    BY <1>1, <1>4, <2>1 DEF LoginInv
<1>6. ASSUME \A n \in Nodes, ip \in Ips :
                \/ failed'[n][ip] = failed[n][ip] \/ failed'[n][ip] = None
                \/ \E c \in Nat : failed'[n][ip] = c /\ Supported(ip, c)'
      PROVE  FailedInv'
  <2> SUFFICES ASSUME NEW n \in Nodes, NEW ip \in Ips, failed'[n][ip] # None
               PROVE  Supported(ip, failed[n][ip])'
    BY DEF FailedInv
  <2>1. ASSUME NEW c \in Nat, failed'[n][ip] = c, Supported(ip, c)'
        PROVE  Supported(ip, failed[n][ip])'
    BY <2>1 DEF Supported
  <2>2. CASE failed'[n][ip] = failed[n][ip]
    <3>1. failed[n][ip] \in Nat /\ Supported(ip, failed[n][ip])
      BY <1>1, <2>2 DEF FailedInv, TypeOK
    <3>2. ASSUME NEW c \in Nat, c = failed[n][ip], Supported(ip, c)
          PROVE  Supported(ip, failed[n][ip])'
      BY <1>3, <2>1, <2>2, <3>2
    <3> QED
      BY <3>1, <3>2
  <2> QED
    BY <1>6, <2>1, <2>2
<1>7. ASSUME NEW e \in Event, e.typ = "InvalidLogins" => Supported(e.ip, e.data)
      PROVE  e.typ = "InvalidLogins" => Supported(e.ip, e.data)'
  BY <1>3, <1>7 DEF Event
<1>8. ASSUME \A e \in tasks' : e \in tasks \/ e.typ # "InvalidLogins" PROVE TasksInv'
  BY <1>1, <1>7, <1>8 DEF TasksInv, TypeOK
<1>9. ASSUME \A n \in Nodes : \A i \in 1 .. Len(router'[n]) : \E e \in Event :
                /\ router'[n][i] = e
                /\ e.typ = "InvalidLogins" => Supported(e.ip, e.data)
      PROVE  RouterInv'
  <2> SUFFICES ASSUME NEW n \in Nodes, NEW i \in 1 .. Len(router'[n]),
                      router'[n][i].typ = "InvalidLogins"
               PROVE  Supported(router[n][i].ip, router[n][i].data)'
    BY DEF RouterInv
  <2>1. ASSUME NEW e \in Event, e = router'[n][i], e.typ = "InvalidLogins", Supported(e.ip, e.data)
        PROVE  Supported(router[n][i].ip, router[n][i].data)'
    BY <1>7, <2>1 DEF Supported
  <2> QED
    BY <1>9, <2>1
<1>10. \A n \in Nodes : \A i \in 1 .. Len(router[n]) :
          /\ router[n][i] \in Event
          /\ router[n][i].typ = "InvalidLogins" => Supported(router[n][i].ip, router[n][i].data)
  BY <1>1 DEF RouterInv, TypeOK
<1>11. UNCHANGED router => RouterInv'
  BY <1>9, <1>10
<1>12. UNCHANGED login => LoginInv'
  BY <1>5
<1>13. UNCHANGED failed => FailedInv'
  BY <1>6
<1>14. UNCHANGED tasks => TasksInv'
  BY <1>8
<1> DEFINE Rest == LoginInv' /\ FailedInv' /\ TasksInv' /\ RouterInv'
<1>15. ASSUME NEW r \in Requests, NEW n \in Nodes, NEW ip \in Ips, Request(r, n, ip) PROVE Rest
  <2>1. UNCHANGED <<failed, tasks, router>>
    BY <1>15 DEF Request, maps
  <2>2. LoginInv'
    <3>1. login'[r].step = "login" /\ login'[r].count = 0
      BY <1>1, <1>15 DEF Request, TypeOK
    <3>2. \A q \in Requests : q # r => login'[q] = login[q]
      BY <1>1, <1>15 DEF Request, TypeOK
    <3> SUFFICES ASSUME NEW q \in Requests, login'[q] # Idle
                 PROVE  /\ login'[q].step = "login" => login'[q].count = 0
                        /\ login'[q].step = "answer" => Supported(login[q].ip, login[q].count)'
      BY DEF LoginInv
    <3> QED
      BY <1>1, <1>4, <3>1, <3>2 DEF LoginInv
  <2> QED
    BY <1>11, <1>13, <1>14, <2>1, <2>2
<1>16. ASSUME NEW r \in Requests, LoginEnds(r) PROVE Rest
  <2>0. UNCHANGED <<tasks, router>>
    BY <1>16 DEF LoginEnds, LoginSucceeds, LoginEndsUncounted, LoginFails
  <2>1. login[r] \in Running /\ login[r].node \in Nodes /\ login[r].ip \in Ips
    BY <1>1, <1>16, LoginType DEF LoginEnds, LoginSucceeds, LoginEndsUncounted, LoginFails
  <2>2. CASE LoginFails(r)
    <3>1. PICK n \in Nodes, ip \in Ips, c \in Nat :
             n = login[r].node /\ ip = login[r].ip /\ c = Counted(n, ip)
      BY <1>1, <2>1, CountedType
    <3>2. Supported(ip, c)'
      BY <1>2, <1>3, <2>2, <3>1, CountedSupported
    <3>3. failed' = [failed EXCEPT ![n][ip] = c]
      BY <2>2, <3>1 DEF LoginFails
    <3>4. login' = [login EXCEPT ![r] = [login[r] EXCEPT !.step = "answer", !.count = c]]
      BY <2>2, <3>1 DEF LoginFails
    <3>5. FailedInv'
      <4>1. \A m \in Nodes, jp \in Ips :
               failed'[m][jp] = IF m = n /\ jp = ip THEN c ELSE failed[m][jp]
        BY <1>1, <3>3 DEF TypeOK
      <4> QED
        BY <1>6, <3>2, <4>1
    <3>6. LoginInv'
      <4>1. login'[r].step = "answer" /\ login'[r].ip = ip /\ login'[r].count = c
        BY <1>1, <2>1, <3>1, <3>4 DEF TypeOK, Running
      <4>2. Supported(login[r].ip, login[r].count)'
        BY <3>2, <4>1 DEF Supported
      <4>3. \A q \in Requests : q # r => login'[q] = login[q]
        BY <1>1, <3>4 DEF TypeOK
      <4> SUFFICES ASSUME NEW q \in Requests, login'[q] # Idle
                   PROVE  /\ login'[q].step = "login" => login'[q].count = 0
                          /\ login'[q].step = "answer" => Supported(login[q].ip, login[q].count)'
        BY DEF LoginInv
      <4>4. CASE q = r
        BY <4>1, <4>2, <4>4
      <4>5. CASE q # r
        BY <1>1, <1>4, <4>3, <4>5 DEF LoginInv
      <4> QED
        BY <4>4, <4>5
    <3> QED
      BY <1>11, <1>14, <2>0, <3>5, <3>6
  <2>3. CASE LoginSucceeds(r) \/ LoginEndsUncounted(r)
    <3>1. \A q \in Requests : login'[q] = login[q] \/ login'[q] = Idle
      BY <1>1, <2>3 DEF LoginSucceeds, LoginEndsUncounted, TypeOK
    <3>2. \/ failed' = failed
          \/ failed' = [failed EXCEPT ![login[r].node][login[r].ip] = None]
      BY <2>3 DEF LoginSucceeds, LoginEndsUncounted, maps
    <3>3. \A m \in Nodes, jp \in Ips : failed'[m][jp] = failed[m][jp] \/ failed'[m][jp] = None
      <4>1. ASSUME NEW n \in Nodes, NEW ip \in Ips, failed' = [failed EXCEPT ![n][ip] = None],
                   NEW m \in Nodes, NEW jp \in Ips
            PROVE  failed'[m][jp] = failed[m][jp] \/ failed'[m][jp] = None
        BY <1>1, <4>1 DEF TypeOK
      <4> QED
        BY <2>1, <3>2, <4>1
    <3> QED
      BY <1>5, <1>6, <1>11, <1>14, <2>0, <3>1, <3>3
  <2> QED
    BY <1>16, <2>2, <2>3 DEF LoginEnds
<1>17. ASSUME NEW r \in Requests, Answer(r) PROVE Rest
  <2>1. /\ login[r].step = "answer" /\ tasks' = tasks \cup Answers(r)
        /\ login' = [login EXCEPT ![r] = Idle]
        /\ UNCHANGED <<failed, router>>
    BY <1>1, <1>17, AnswerFacts DEF maps
  <2>2. \A q \in Requests : login'[q] = login[q] \/ login'[q] = Idle
    BY <1>1, <2>1 DEF TypeOK
  <2>3. login[r].ip \in Ips /\ login[r].count \in Nat /\ login[r] # Idle
    BY <1>1, <2>1, LoginType
  <2>4. Supported(login[r].ip, login[r].count)
    BY <1>1, <2>1, <2>3 DEF LoginInv
  <2>5. \A e \in Answers(r) : e.typ = "InvalidLogins" => e.ip = login[r].ip /\ e.data = login[r].count
    BY DEF Answers
  <2>6. \A e \in Answers(r) : e.typ = "InvalidLogins" => Supported(e.ip, e.data)
    BY <2>4, <2>5
  <2>7. Answers(r) \subseteq Event /\ tasks \subseteq Event
    BY <1>1, <1>17, AnswerFacts DEF TypeOK
  <2>8. TasksInv'
    BY <1>1, <1>7, <2>1, <2>6, <2>7 DEF TasksInv
  <2> QED
    BY <1>5, <1>11, <1>13, <2>1, <2>2, <2>8
<1>18. ASSUME NEW n \in Nodes, NEW ip \in Ips, NEW exp \in Nat,
              PostBlacklist(n, ip, exp) \/ DeleteBlacklist(n, ip)
       PROVE  Rest
  <2>1. \A e \in tasks' : e \in tasks \/ e.typ # "InvalidLogins"
    BY <1>18 DEF PostBlacklist, DeleteBlacklist, Send
  <2>2. UNCHANGED <<failed, login, router>>
    BY <1>18 DEF PostBlacklist, DeleteBlacklist, maps
  <2> QED
    BY <1>8, <1>11, <1>12, <1>13, <2>1, <2>2
<1>19. ASSUME NEW e \in tasks, Publish(e) PROVE Rest
  <2>1. e \in Event /\ (e.typ = "InvalidLogins" => Supported(e.ip, e.data))
    BY <1>1 DEF TasksInv, TypeOK
  <2>2. RouterInv'
    <3>1. ASSUME NEW n \in Nodes, NEW i \in 1 .. Len(router'[n])
          PROVE  router'[n][i] = e \/ (i \in 1 .. Len(router[n]) /\ router'[n][i] = router[n][i])
      <4>1. router[n] \in Seq(Event)
        BY <1>1 DEF TypeOK
      <4>2. router'[n] = router[n] \/ router'[n] = Append(router[n], e)
        BY <1>19 DEF Publish
      <4> QED
        BY <4>1, <4>2
    <3> QED
      BY <1>9, <1>10, <2>1, <3>1
  <2>3. tasks' \subseteq tasks /\ UNCHANGED <<failed, login>>
    BY <1>19 DEF Publish, maps
  <2> QED
    BY <1>8, <1>12, <1>13, <2>2, <2>3
<1>20. ASSUME NEW n \in Nodes, Route(n) PROVE Rest
  <2>1. /\ Head(router[n]) \in Event /\ Head(router[n]) = router[n][1] /\ Len(router[n]) > 0
        /\ router'[n] = Tail(router[n]) /\ \A m \in Nodes : m # n => router'[m] = router[m]
    BY <1>1, <1>20, RouteFacts
  <2>2. RouterInv'
    <3>1. ASSUME NEW m \in Nodes, NEW i \in 1 .. Len(router'[m])
          PROVE  \E j \in 1 .. Len(router[m]) : router'[m][i] = router[m][j]
      <4>1. router[m] \in Seq(Event)
        BY <1>1 DEF TypeOK
      <4>2. CASE m = n
        <5>0. router[m] # <<>> /\ router'[m] = Tail(router[m])
          BY <2>1, <4>2
        <5>1. /\ Len(Tail(router[m])) = Len(router[m]) - 1
              /\ \A j \in 1 .. Len(Tail(router[m])) : Tail(router[m])[j] = router[m][j + 1]
          BY <4>1, <5>0, HeadTailProperties
        <5>2. i + 1 \in 1 .. Len(router[m]) /\ router'[m][i] = router[m][i + 1]
          BY <4>1, <5>0, <5>1
        <5> QED
          BY <5>2
      <4>3. CASE m # n
        BY <2>1, <4>3
      <4> QED
        BY <4>2, <4>3
    <3> QED
      BY <1>9, <1>10, <3>1
  <2>3. FailedInv'
    <3>1. PICK e \in Event : e = Head(router[n])
      BY <2>1
    <3>2. e.ip \in Ips /\ e.data \in Nat /\ (e.typ = "InvalidLogins" => Supported(e.ip, e.data))
      BY <1>1, <2>1, <3>1 DEF RouterInv, Event
    <3>3. failed[n][e.ip] \in Nat \cup {None}
      BY <1>1, <3>2 DEF TypeOK
    <3>4. \/ UNCHANGED failed
          \/ e.typ = "InvalidLogins" /\ failed' = [failed EXCEPT ![n][e.ip] = FailedSet(n, e)]
      BY <1>20, <3>1 DEF Route
    <3>5. ASSUME e.typ = "InvalidLogins"
          PROVE  \E c \in Nat : FailedSet(n, e) = c /\ Supported(e.ip, c)
      BY <1>1, <3>2, <3>3, <3>5 DEF FailedSet, FailedInv
    <3>6. CASE e.typ = "InvalidLogins" /\ failed' = [failed EXCEPT ![n][e.ip] = FailedSet(n, e)]
      <4>1. PICK c \in Nat : FailedSet(n, e) = c /\ Supported(e.ip, c)
        BY <3>5, <3>6
      <4>2. Supported(e.ip, c)'
        BY <1>3, <3>2, <4>1
      <4>3. ASSUME NEW m \in Nodes, NEW jp \in Ips
            PROVE  failed'[m][jp] = failed[m][jp]
                   \/ (m = n /\ jp = e.ip /\ failed'[m][jp] = c)
        BY <1>1, <3>2, <3>6, <4>1 DEF TypeOK
      <4> QED
        BY <1>6, <4>2, <4>3
    <3> QED
      BY <1>13, <3>4, <3>6
  <2> QED
    BY <1>12, <1>14, <1>20, <2>2, <2>3 DEF Route
<1>21. ASSUME NEW n \in Nodes, Restart(n) PROVE Rest
  <2>1. LoginInv'
    <3>1. \A q \in Requests : login'[q] = login[q] \/ login'[q] = Idle
      BY <1>21 DEF Restart
    <3> QED
      BY <1>5, <3>1
  <2>2. FailedInv'
    <3>1. \A m \in Nodes, ip \in Ips : failed'[m][ip] = failed[m][ip] \/ failed'[m][ip] = None
      BY <1>1, <1>21 DEF Restart, TypeOK
    <3> QED
      BY <1>6, <3>1
  <2>3. TasksInv'
    BY <1>8, <1>21 DEF Restart
  <2>4. RouterInv'
    <3>1. \A m \in Nodes : router'[m] = router[m] \/ router'[m] = <<>>
      BY <1>1, <1>21 DEF Restart, TypeOK
    <3>2. ASSUME NEW m \in Nodes, NEW i \in 1 .. Len(router'[m])
          PROVE  router'[m] = router[m]
      BY <3>1
    <3> QED
      BY <1>9, <1>10, <3>2
  <2> QED
    BY <2>1, <2>2, <2>3, <2>4
<1>22. ASSUME NEW n \in Nodes,
              Disconnect(n) \/ Connect(n) \/ CheckExp(n) \/ CheckerFinishes(n)
       PROVE  Rest
  <2>1. UNCHANGED <<login, failed, tasks, router>>
    BY <1>22 DEF Disconnect, Connect, CheckExp, CheckerFinishes, maps
  <2> QED
    BY <1>11, <1>12, <1>13, <1>14, <2>1
<1>23. ASSUME Tick PROVE Rest
  <2>1. UNCHANGED <<login, failed, tasks, router>>
    BY <1>23 DEF Tick, maps
  <2> QED
    BY <1>11, <1>12, <1>13, <1>14, <2>1
<1>24. ASSUME NEW n \in Nodes, NEW ip \in Ips, DeleteBlacklist(n, ip) PROVE Rest
  BY <1>18, <1>24
<1>25. ASSUME NEW n \in Nodes, NEW ip \in Ips, NEW exp \in BlockUntil,
              PostBlacklist(n, ip, exp)
       PROVE  Rest
  <2>1. exp \in Nat
    BY IpBlacklistAssumption
  <2> QED
    BY <1>18, <1>25, <2>1
<1>26. ASSUME UNCHANGED vars PROVE Rest
  <2>1. login' = login /\ failed' = failed /\ tasks' = tasks /\ router' = router
    BY <1>26 DEF vars, maps
  <2> QED
    BY <1>11, <1>12, <1>13, <1>14, <2>1
<1> HIDE DEF Rest
<1>27. Rest
  BY <1>15, <1>16, <1>17, <1>19, <1>20, <1>21, <1>22, <1>23, <1>24, <1>25, <1>26 DEF Next
<1> QED
  BY <1>2, <1>27 DEF CountInv, Rest

\* No counter of a node is ever higher than the number of logins that failed from
\* the IP, however many nodes exchange their counters through late, lost and
\* reordered events (LoginCheck, LoginFailedSet).
THEOREM CountersBounded == Spec => []CounterBounded
<1>1. CountInv => CounterBounded
  BY DEF CountInv, FailedInv, Supported, CounterBounded
<1> QED
  BY <1>1, CountInit, CountNext, PTL DEF Spec

\* For any thresholds and number of nodes, and unless a node was restarted: a
\* counter is at or above a threshold only if a login has blacklisted its IP at
\* this threshold or is about to, so jumps of the counters skip none
\* (handle_login_delay compares with the thresholds by equality).
THEOREM ThresholdsNotSkipped == Spec => []ThresholdsAnnounced
<1>1. CountInv => ThresholdsAnnounced
  BY DEF CountInv, FailedInv, Supported, Pending, ThresholdsAnnounced
<1> QED
  BY <1>1, CountInit, CountNext, PTL DEF Spec

-----------------------------------------------------------------------------
(***************************************************************************)
(* Directory.  A table that is not spoilt is at rest, each of its cached   *)
(* copies being empty or what the table holds, or it is in the hands of    *)
(* one request.  Then the step of the request says which copies are ahead  *)
(* of the table (written before the commit), and that the list still to    *)
(* write is what the table holds already.  What the names look like, and   *)
(* what replacing them in a string does, plays no part.                    *)
(***************************************************************************)

Working(r) == req[r] # NoOp

Fields == {"op", "kind", "step", "old", "new", "copy", "holder"}
IsRow(x) == DOMAIN x = {"id", "name", "attrs"}
IsAttr(x) == x = Row(x.name, x.name, <<>>)

\* What a request carries: its rows keep their id when they are renamed, attributes are
\* named by their id, and the copy of a user or a client has its fields.
Creates(q) == q.kind \in Kinds /\ q.op = "create" /\ q.step \in {"insert", "list", "after"}
Changes(q) ==
    q.kind \in Kinds /\ q.op \in {"delete", "rename"} /\ q.step \in {"save", "commit", "list", "after"}
Puts(q) == q.kind \in {"user", "client", "values"} /\ q.op \in {"put", "delete"} /\ q.step \in {"row", "cache"}
Shape(q) ==
    /\ DOMAIN q = Fields
    /\ Creates(q) \/ Changes(q) \/ Puts(q)
    /\ q.step = "after" => More(q)
    /\ IsRow(q.old) /\ IsRow(q.new)
    /\ q.kind \in Kinds /\ q.kind # "attrs" /\ q.op = "rename" => q.new.id = q.old.id
    /\ q.kind \in {"attrs", "values"} => IsAttr(q.new)
    /\ q.kind = "attrs" /\ q.op # "create" => IsAttr(q.old)
    /\ q.kind \in {"roles", "groups"} => q.holder = Null \/ DOMAIN q.holder = {"roles", "groups"}
    /\ q.kind = "user" => DOMAIN q.holder = {"roles", "groups"}
    /\ q.kind = "scopes" => q.holder = Null \/ DOMAIN q.holder = {"scopes", "default_scopes"}
    /\ q.kind = "client" => DOMAIN q.holder = {"scopes", "default_scopes"}

ReqInv == DOMAIN req = Handlers /\ \A r \in Handlers : Working(r) => Shape(req[r])

CacheNames == {"user", "client", "values", "wellknown"}
StateInv == DirectoryTypeOK /\ DOMAIN cached = CacheNames

\* Two requests for one table spoil it.
Tables == Kinds \cup {"user", "client", "values"}
BusyInv ==
    \A t \in Tables \ spoilt, r, s \in Handlers :
        Working(r) /\ Working(s) /\ t \in Uses(req[r].kind) /\ t \in Uses(req[s].kind) => r = s

\* A table that no request works on
ListRight(k) == list[k] \in {Null, rows[k]}
KnownRight == cached.wellknown \in {Null, Names(rows["scopes"])}
UserRight == cached.user \in {Null, user}
ClientRight == cached.client \in {Null, client}
ValuesRight == cached.values \in {Null, values}
Rest(t) ==
    /\ t \in Kinds => ListRight(t)
    /\ t = "scopes" => KnownRight
    /\ t = "user" => UserRight
    /\ t = "client" => ClientRight
    /\ t = "values" => ValuesRight

\* The row is written, and the list still to write is what the table holds.
Ready(k, q) ==
    IF q.op = "create" /\ k # "attrs" THEN rows[k] = q.copy \cup {q.new}
    ELSE \A l \in {FindAll(k), rows[k]} :
            rows[k] = IF q.op = "create" THEN l \cup {q.new} ELSE NewRows(l, q)

\* What holds of the table that a request creates, renames or deletes a row of
WorkOwn(k, q) ==
    /\ q.step # "list" => ListRight(k)
    /\ q.step = "insert" /\ k # "attrs" => q.copy = rows[k]
    /\ q.step = "list" => Ready(k, q)
    /\ k = "scopes" =>
          /\ q.step \in {"insert", "save", "commit"} \/ ~More(q) => KnownRight
          /\ q.step \in {"save", "commit"} /\ q.op = "rename" => q.old \in rows["scopes"]

\* of the mappings of the scopes when an attribute is renamed or deleted
WorkMappings(q) ==
    /\ KnownRight
    /\ IF q.step = "commit" THEN list["scopes"] \in {Null, WithMappings(rows["scopes"], q.holder)}
       ELSE ListRight("scopes")

\* of the user, the client and the values
WorkUser(q) ==
    /\ q.step \in {"insert", "save", "row", "list"} => UserRight
    /\ q.step = "commit" => IF q.holder = Null THEN UserRight ELSE cached.user = q.holder
    /\ q.step = "cache" => user = q.holder
WorkClient(q) ==
    /\ q.step \in {"insert", "save", "row", "list", "after"} => ClientRight
    /\ q.step = "commit" => IF q.holder = Null THEN ClientRight ELSE cached.client = q.holder
    /\ q.step = "cache" => client = q.holder
WorkValues(q) ==
    /\ q.step \in {"insert", "save", "commit", "row"} => ValuesRight
    /\ q.step \in {"list", "after"} => (q.op = "rename" /\ q.old.name \in q.copy) \/ ValuesRight
    /\ q.step = "commit" /\ q.op = "delete" /\ q.old.name \in values => cached.values = Null
    /\ q.step \in {"save", "commit"} /\ q.op = "rename" => q.copy = values
    /\ q.step = "cache" => values = q.holder

Work(t, q) ==
    /\ t \in Kinds => IF t = q.kind THEN WorkOwn(t, q)
                      ELSE IF t = "scopes" /\ q.kind = "attrs" THEN WorkMappings(q)
                      ELSE Rest(t)
    /\ t = "user" => WorkUser(q)
    /\ t = "client" => WorkClient(q)
    /\ t = "values" => WorkValues(q)

\* A table that is not spoilt is right, or one request is at work on it.
TableInv ==
    \A t \in Tables \ spoilt :
        /\ t \notin InUse => Rest(t)
        /\ \A r \in Handlers : Working(r) /\ t \in Uses(req[r].kind) => Work(t, req[r])

DInv == StateInv /\ ReqInv /\ BusyInv /\ TableInv
-----------------------------------------------------------------------------
\* The tables that each kind of request uses
LEMMA UsesOf ==
    /\ Uses("roles") = {"roles", "user"} /\ Uses("groups") = {"groups", "user"}
    /\ Uses("scopes") = {"scopes", "client", "attrs"} /\ Uses("attrs") = {"attrs", "scopes", "values"}
    /\ Uses("user") = {"user", "roles", "groups"} /\ Uses("client") = {"client", "scopes"}
    /\ Uses("values") = {"values", "attrs"}
BY DEF Uses

\* No kind of request uses anything else.
LEMMA UsesTables ==
    ASSUME NEW k \in Tables
    PROVE  Uses(k) \subseteq Tables
BY UsesOf DEF Tables, Kinds

\* A request that runs is of one of the seven kinds.
LEMMA KindOf ==
    ASSUME NEW q, Shape(q)
    PROVE  q.kind \in Tables /\ DOMAIN q = Fields
BY DEF Shape, Creates, Changes, Puts, Tables

\* A table is in use when a running request uses it.
LEMMA InUseIff ==
    ASSUME NEW t
    PROVE  t \in InUse <=> \E r \in Handlers : Working(r) /\ t \in Uses(req[r].kind)
BY DEF InUse, Working

\* What the claims about table t depend on
SameTable(t) ==
    /\ t \in Kinds => rows'[t] = rows[t] /\ list'[t] = list[t]
    /\ t = "scopes" => cached'.wellknown = cached.wellknown
    /\ t = "user" => user' = user /\ cached'.user = cached.user
    /\ t = "client" => client' = client /\ cached'.client = cached.client
    /\ t = "values" => values' = values /\ cached'.values = cached.values

\* A table at rest stays so when nothing of it changes,
LEMMA SameRest ==
    ASSUME NEW t \in Tables, SameTable(t), Rest(t)
    PROVE  Rest(t)'
BY DEF Tables, Kinds, SameTable, Rest, ListRight, KnownRight, UserRight, ClientRight, ValuesRight, Names

\* and so does the work of a request on it.
LEMMA SameWork ==
    ASSUME NEW t \in Tables, SameTable(t), NEW s \in Handlers, req'[s] = req[s], Work(t, req[s])
    PROVE  Work(t, req[s])'
<1>1. Rest(t) => Rest(t)'
  BY SameRest
<1>2. CASE t \in Kinds
  <2>1. ListRight(t) => ListRight(t)'
    BY <1>2 DEF SameTable, ListRight
  <2>2. t = "scopes" => (KnownRight => KnownRight')
    BY <1>2 DEF SameTable, KnownRight, Names
  <2>3. Ready(t, req[s]) => Ready(t, req[s])'
    <3>1. FindAll(t)' = FindAll(t) /\ rows'[t] = rows[t]
      BY <1>2 DEF SameTable, FindAll
    <3>2. \A l : NewRows(l, req'[s]) = NewRows(l, req[s])
      OBVIOUS
    <3> QED BY <3>1, <3>2 DEF Ready
  <2>4. WorkOwn(t, req[s]) => WorkOwn(t, req[s])'
    <3>1. More(req[s])' <=> More(req[s])
      BY DEF More
    <3>2. req'[s] = req[s] /\ rows'[t] = rows[t]
      BY <1>2 DEF SameTable
    <3>3. SUFFICES ASSUME WorkOwn(t, req[s])
                   PROVE  WorkOwn(t, req[s])'
      OBVIOUS
    <3> USE DEF WorkOwn
    <3>4. (req[s].step # "list" => ListRight(t))' /\ (req[s].step = "list" => Ready(t, req[s]))'
      BY <2>1, <2>3, <3>2, <3>3
    <3>5. (req[s].step = "insert" /\ t # "attrs" => req[s].copy = rows[t])'
      BY <3>2, <3>3
    <3>6. ASSUME t = "scopes"
          PROVE  /\ (req[s].step \in {"insert", "save", "commit"} \/ ~More(req[s]) => KnownRight)'
                 /\ (req[s].step \in {"save", "commit"} /\ req[s].op = "rename" => req[s].old \in rows["scopes"])'
      BY <2>2, <3>1, <3>2, <3>3, <3>6
    <3> QED BY <3>4, <3>5, <3>6
  <2>5. t = "scopes" => (WorkMappings(req[s]) => WorkMappings(req[s])')
    BY <1>2, <2>1, <2>2 DEF WorkMappings, WithMappings, SameTable
  <2>6. t \notin {"user", "client", "values"}
    BY <1>2 DEF Kinds
  <2> QED BY <1>1, <1>2, <2>4, <2>5, <2>6 DEF Work
<1>3. CASE t = "user"
  BY <1>3 DEF SameTable, Work, WorkUser, UserRight, Kinds
<1>4. CASE t = "client"
  BY <1>4 DEF SameTable, Work, WorkClient, ClientRight, Kinds
<1>5. CASE t = "values"
  BY <1>5 DEF SameTable, Work, WorkValues, ValuesRight, Kinds
<1> QED BY <1>2, <1>3, <1>4, <1>5 DEF Tables

\* A step of a running request leaves the tables alone that it does not use; then it is
\* enough to see what it does to the others.
LEMMA TablesStep ==
    ASSUME DInv, NEW r \in Handlers, Working(r),
           DOMAIN req' = Handlers, \A s \in Handlers \ {r} : req'[s] = req[s],
           req'[r] = NoOp \/ req'[r].kind = req[r].kind, spoilt \subseteq spoilt',
           \A t \in Tables \ Uses(req[r].kind) : SameTable(t),
           \A t \in Uses(req[r].kind) \ spoilt' :
               IF req'[r] = NoOp THEN Work(t, req[r]) => Rest(t)' ELSE Work(t, req[r]) => Work(t, req[r])'
    PROVE  BusyInv' /\ TableInv'
<1>1. ASSUME NEW s \in Handlers, Working(s)'
      PROVE  Working(s) /\ req'[s].kind = req[s].kind
  BY <1>1 DEF Working
<1>2. BusyInv'
  <2> SUFFICES ASSUME NEW t \in Tables \ spoilt', NEW a \in Handlers, NEW b \in Handlers,
                      Working(a)', Working(b)', t \in Uses(req'[a].kind), t \in Uses(req'[b].kind)
               PROVE  a = b
    BY DEF BusyInv, Uses
  <2> QED BY <1>1 DEF DInv, BusyInv
<1>3. ASSUME NEW t \in Tables \ spoilt'
      PROVE  /\ t \notin InUse' => Rest(t)'
             /\ \A s \in Handlers : Working(s)' /\ t \in Uses(req'[s].kind) => Work(t, req[s])'
  <2>1. t \in Tables \ spoilt
    OBVIOUS
  <2>2. t \in InUse' <=> \E s \in Handlers : Working(s)' /\ t \in Uses(req'[s].kind)
    BY DEF InUse, Working, Uses
  <2>3. CASE t \in Uses(req[r].kind)
    <3>1. \A s \in Handlers \ {r} : Working(s) => t \notin Uses(req[s].kind)
      BY <2>1, <2>3 DEF DInv, BusyInv
    <3>2. Work(t, req[r])
      BY <2>1, <2>3 DEF DInv, TableInv
    <3>3. IF req'[r] = NoOp THEN Rest(t)' ELSE Work(t, req[r])'
      BY <2>3, <3>2
    <3>4. \A s \in Handlers : Working(s)' /\ t \in Uses(req'[s].kind) => s = r
      BY <1>1, <3>1
    <3>5. Working(r)' => t \in Uses(req'[r].kind)
      BY <1>1, <2>3
    <3>6. Working(r)' <=> req'[r] # NoOp
      BY DEF Working
    <3> QED BY <2>2, <3>3, <3>4, <3>5, <3>6
  <2>4. CASE t \notin Uses(req[r].kind)
    <3>1. SameTable(t)
      BY <2>4
    <3>2. ASSUME NEW s \in Handlers, Working(s)', t \in Uses(req'[s].kind)
          PROVE  Work(t, req[s])'
      <4>1. s # r
        BY <1>1, <2>4, <3>2
      <4>2. Work(t, req[s])
        BY <1>1, <2>1, <3>2 DEF DInv, TableInv
      <4> QED BY <3>1, <4>1, <4>2, SameWork
    <3>3. ASSUME t \notin InUse'
          PROVE  Rest(t)'
      <4>1. \A s \in Handlers \ {r} : Working(s) => Working(s)' /\ req'[s] = req[s]
        BY DEF Working
      <4>2. t \notin InUse
        BY <2>2, <2>4, <3>3, <4>1, InUseIff
      <4>3. Rest(t)
        BY <2>1, <4>2 DEF DInv, TableInv
      <4> QED BY <3>1, <4>3, SameRest
    <3> QED BY <3>2, <3>3
  <2> QED BY <2>3, <2>4
<1>4. TableInv'
  BY <1>3 DEF TableInv, Uses
<1> QED BY <1>2, <1>4

\* A request that has not written anything finds the table at rest.
LEMMA RestWork ==
    ASSUME NEW t \in Tables, NEW q, Rest(t)', q.step \in {"insert", "save", "row"},
           t = q.kind /\ q.step = "insert" /\ t # "attrs" => q.copy = rows'[t],
           t = q.kind /\ t = "scopes" /\ q.op = "rename" => q.old \in rows'["scopes"],
           t = "values" /\ q.op = "rename" => q.copy = values',
           NEW r \in Handlers, req'[r] = q
    PROVE  Work(t, req[r])'
<1>1. CASE t \in Kinds
  <2>1. t \notin {"user", "client", "values"} /\ ListRight(t)' /\ (t = "scopes" => KnownRight')
    BY <1>1 DEF Kinds, Rest
  <2>2. WorkOwn(t, q)' \/ t # q.kind
    BY <1>1, <2>1 DEF WorkOwn
  <2>3. t = "scopes" => WorkMappings(q)'
    BY <2>1 DEF WorkMappings
  <2> QED BY <1>1, <2>1, <2>2, <2>3 DEF Work
<1>2. CASE t = "user"
  BY <1>2 DEF Rest, Work, WorkUser, UserRight, Kinds
<1>3. CASE t = "client"
  BY <1>3 DEF Rest, Work, WorkClient, ClientRight, Kinds
<1>4. CASE t = "values"
  BY <1>4 DEF Rest, Work, WorkValues, ValuesRight, Kinds
<1> QED BY <1>1, <1>2, <1>3, <1>4 DEF Tables

\* A request begins: it finds the tables it uses at rest, or spoils them.
LEMMA BeginInv ==
    ASSUME DInv, NEW r \in Handlers, NEW op, Begin(r, op), Shape(op), op.step \in {"insert", "save", "row"},
           UNCHANGED <<tables, cached>>, DOMAIN list' = Kinds,
           \A k \in Kinds : list'[k] = list[k] \/ (k \in Uses(op.kind) /\ list'[k] = FindAll(k)),
           op.step = "insert" /\ op.kind # "attrs" => op.copy = FindAll(op.kind),
           op.kind = "scopes" /\ op.op = "rename" => op.old \in rows["scopes"],
           op.kind = "attrs" /\ op.op = "rename" => op.copy = values
    PROVE  DInv'
<1>1. /\ req[r] = NoOp /\ ops < MaxOps /\ ops' = ops + 1 /\ req' = [req EXCEPT ![r] = op]
      /\ spoilt' = spoilt \cup (Uses(op.kind) \cap InUse)
  BY DEF Begin
<1>2. DOMAIN req' = Handlers /\ req'[r] = op /\ \A s \in Handlers \ {r} : req'[s] = req[s]
  BY <1>1 DEF DInv, ReqInv
<1>3. op # NoOp /\ op.kind \in Tables /\ Uses(op.kind) \subseteq Tables /\ op.op \in {"create", "delete", "rename", "put"}
  <2>1. op.step # "idle" /\ NoOp.step = "idle"
    BY DEF NoOp
  <2>2. op.kind \in Tables
    BY KindOf
  <2> QED BY <2>1, <2>2, UsesTables DEF Shape, Creates, Changes, Puts
<1>4. ReqInv'
  <2> SUFFICES ASSUME NEW s \in Handlers, Working(s)' PROVE Shape(req[s])'
    BY <1>2 DEF ReqInv
  <2>1. Shape(req'[s])
    BY <1>2 DEF DInv, ReqInv, Working
  <2> QED BY <2>1 DEF Shape, Creates, Changes, Puts, More, IsRow, IsAttr, Row
<1>5. StateInv'
  <2>1. ops \in 0 .. MaxOps
    BY DEF DInv, StateInv, DirectoryTypeOK
  <2>2. ops' \in 0 .. MaxOps
    BY <1>1, <2>1, InitialOK
  <2> QED BY <1>1, <2>2 DEF DInv, StateInv, DirectoryTypeOK, tables, WellFormed, Names, Row
<1>6. Working(r)' /\ ~Working(r) /\ \A s \in Handlers \ {r} : Working(s)' <=> Working(s)
  BY <1>1, <1>2, <1>3 DEF Working
<1>7. BusyInv'
  <2> SUFFICES ASSUME NEW t \in Tables \ spoilt', NEW a \in Handlers, NEW b \in Handlers,
                      Working(a)', Working(b)', t \in Uses(req'[a].kind), t \in Uses(req'[b].kind)
               PROVE  a = b
    BY DEF BusyInv, Uses
  <2>1. \A s \in Handlers \ {r} : Working(s) /\ t \in Uses(req[s].kind) => t \in InUse
    BY InUseIff
  <2>2. t \notin spoilt /\ ~(t \in Uses(op.kind) /\ t \in InUse)
    BY <1>1
  <2> QED BY <1>2, <1>6, <2>1, <2>2 DEF DInv, BusyInv
<1>8. ASSUME NEW t \in Tables \ spoilt'
      PROVE  /\ t \notin InUse' => Rest(t)'
             /\ \A s \in Handlers : Working(s)' /\ t \in Uses(req'[s].kind) => Work(t, req[s])'
  <2>1. t \in Tables \ spoilt
    BY <1>1
  <2>2. t \in InUse' <=> \E s \in Handlers : Working(s)' /\ t \in Uses(req'[s].kind)
    BY DEF InUse, Working, Uses
  <2>3. CASE t \in Uses(op.kind)
    <3>1. t \notin InUse
      BY <1>1, <2>3
    <3>2. Rest(t)
      BY <2>1, <3>1 DEF DInv, TableInv
    <3>3. rows' = rows /\ user' = user /\ client' = client /\ values' = values /\ cached' = cached
      BY DEF tables
    <3>4. t \in Kinds => FindAll(t) = rows[t] /\ list'[t] \in {Null, rows[t]}
      BY <3>2 DEF Rest, ListRight, FindAll
    <3>5. Rest(t)'
      BY <3>2, <3>3, <3>4 DEF Rest, ListRight, KnownRight, UserRight, ClientRight, ValuesRight, Names
    <3>6. t = "values" /\ op.op = "rename" => op.kind = "attrs"
      BY <2>3, UsesOf DEF Shape, Creates, Changes, Puts, Kinds
    <3>7. t = op.kind /\ op.step = "insert" /\ t # "attrs" => op.copy = rows'[t]
      BY <3>3, <3>4 DEF Shape, Creates, Changes, Puts
    <3>8. Work(t, req[r])'
      BY <1>2, <3>3, <3>5, <3>6, <3>7, RestWork
    <3>9. \A s \in Handlers \ {r} : Working(s) => t \notin Uses(req[s].kind)
      BY <3>1, InUseIff
    <3>10. \A s \in Handlers : Working(s)' /\ t \in Uses(req'[s].kind) => s = r
      BY <1>2, <1>6, <3>9
    <3> QED BY <3>5, <3>8, <3>10
  <2>4. CASE t \notin Uses(op.kind)
    <3>1. SameTable(t)
      BY <2>4 DEF SameTable, tables
    <3>2. ASSUME NEW s \in Handlers, Working(s)', t \in Uses(req'[s].kind)
          PROVE  Work(t, req[s])'
      <4>1. s # r
        BY <1>2, <2>4, <3>2
      <4>2. Work(t, req[s]) /\ req'[s] = req[s]
        BY <1>2, <1>6, <2>1, <3>2, <4>1 DEF DInv, TableInv
      <4> QED BY <3>1, <4>1, <4>2, SameWork
    <3>3. ASSUME t \notin InUse'
          PROVE  Rest(t)'
      <4>1. t \notin InUse
        BY <1>2, <1>6, <2>2, <3>3, InUseIff
      <4>2. Rest(t)
        BY <2>1, <4>1 DEF DInv, TableInv
      <4> QED BY <3>1, <4>2, SameRest
    <3> QED BY <3>2, <3>3
  <2> QED BY <2>3, <2>4
<1>9. TableInv'
  BY <1>8 DEF TableInv, Uses
<1> QED BY <1>4, <1>5, <1>7, <1>9 DEF DInv

-----------------------------------------------------------------------------
\* The requests begin

\* A request holds what it was begun with.
LEMMA OpFields ==
    ASSUME NEW op, NEW k, NEW step, NEW old, NEW new, NEW copy, NEW holder
    PROVE  LET q == Op(op, k, step, old, new, copy, holder) IN
           /\ DOMAIN q = Fields
           /\ q.op = op /\ q.kind = k /\ q.step = step /\ q.old = old /\ q.new = new
           /\ q.copy = copy /\ q.holder = holder
BY DEF Op, Fields

\* A row has its three fields, and the row of an attribute has its name as id.
LEMMA RowFields ==
    ASSUME NEW id, NEW name, NEW attrs
    PROVE  /\ IsRow(Row(id, name, attrs)) /\ Row(id, name, attrs).id = id
           /\ IsAttr(Row(name, name, <<>>)) /\ IsRow(NoRow)
BY DEF IsRow, IsAttr, Row, NoRow

\* The reads of lists that a request makes at its beginning
LEMMA FilledLists ==
    ASSUME NEW ks, list' = Filled(ks), NEW us, ks \cap Kinds \subseteq us
    PROVE  DOMAIN list' = Kinds /\ \A k \in Kinds : list'[k] = list[k] \/ (k \in us /\ list'[k] = FindAll(k))
BY DEF Filled

\* Role::create and Group::create read the list and begin.
LEMMA CreateRoleInv ==
    ASSUME DInv, NEW r \in Handlers, NEW k \in {"roles", "groups"}, NEW name, CreateRole(r, k, name)
    PROVE  DInv'
<1> DEFINE new == Row(FreshId, name, <<>>)
           q == Op("create", k, "insert", NoRow, new, FindAll(k), Null)
<1>1. Begin(r, q) /\ list' = Filled({k}) /\ UNCHANGED <<tables, cached>>
  BY DEF CreateRole
<1>2. /\ DOMAIN q = Fields /\ q.op = "create" /\ q.kind = k /\ q.step = "insert" /\ q.old = NoRow /\ q.new = new
      /\ q.copy = FindAll(k) /\ q.holder = Null
  BY OpFields
<1>3. IsRow(new) /\ IsRow(NoRow)
  BY RowFields
<1> HIDE DEF q, new
<1>4. Shape(q)
  BY <1>2, <1>3 DEF Shape, Creates, Kinds
<1>5. {k} \cap Kinds \subseteq Uses(q.kind)
  BY <1>2, UsesOf
<1>6. DOMAIN list' = Kinds /\ \A j \in Kinds : list'[j] = list[j] \/ (j \in Uses(q.kind) /\ list'[j] = FindAll(j))
  BY <1>1, <1>5, FilledLists
<1> QED BY <1>1, <1>2, <1>4, <1>6, BeginInv

\* Scope::create reads the lists of scopes and attributes and begins.
LEMMA CreateScopeInv ==
    ASSUME DInv, NEW r \in Handlers, NEW name, NEW wanted, CreateScope(r, name, wanted)
    PROVE  DInv'
<1> DEFINE new == Row(FreshId, name, CleanUpAttrs(wanted))
           q == Op("create", "scopes", "insert", NoRow, new, FindAll("scopes"), Null)
<1>1. Begin(r, q) /\ list' = Filled({"scopes", "attrs"}) /\ UNCHANGED <<tables, cached>>
  BY DEF CreateScope
<1>2. /\ DOMAIN q = Fields /\ q.op = "create" /\ q.kind = "scopes" /\ q.step = "insert" /\ q.old = NoRow
      /\ q.new = new /\ q.copy = FindAll("scopes") /\ q.holder = Null
  BY OpFields
<1>3. IsRow(new) /\ IsRow(NoRow)
  BY RowFields
<1> HIDE DEF q, new
<1>4. Shape(q)
  BY <1>2, <1>3 DEF Shape, Creates, Kinds
<1>5. {"scopes", "attrs"} \cap Kinds \subseteq Uses(q.kind)
  BY <1>2, UsesOf
<1>6. DOMAIN list' = Kinds /\ \A j \in Kinds : list'[j] = list[j] \/ (j \in Uses(q.kind) /\ list'[j] = FindAll(j))
  BY <1>1, <1>5, FilledLists
<1> QED BY <1>1, <1>2, <1>4, <1>6, BeginInv

\* UserAttrConfigEntity::create begins; it reads no list.
LEMMA CreateAttrInv ==
    ASSUME DInv, NEW r \in Handlers, NEW name, CreateAttr(r, name)
    PROVE  DInv'
<1> DEFINE new == Row(name, name, <<>>)
           q == Op("create", "attrs", "insert", NoRow, new, {}, Null)
<1>1. Begin(r, q) /\ UNCHANGED <<list, tables, cached>>
  BY DEF CreateAttr
<1>2. /\ DOMAIN q = Fields /\ q.op = "create" /\ q.kind = "attrs" /\ q.step = "insert" /\ q.old = NoRow
      /\ q.new = new
  BY OpFields
<1>3. IsRow(new) /\ IsRow(NoRow) /\ IsAttr(new)
  BY RowFields
<1> HIDE DEF q, new
<1>4. Shape(q)
  BY <1>2, <1>3 DEF Shape, Creates, Kinds
<1>5. DOMAIN list' = Kinds /\ \A j \in Kinds : list'[j] = list[j]
  BY <1>1 DEF DInv, StateInv, DirectoryTypeOK
<1> QED BY <1>1, <1>2, <1>4, <1>5, BeginInv

\* Deleting or renaming a role or a group: the user that is saved keeps its fields.
LEMMA ChangeHoldersInv ==
    ASSUME DInv, NEW r \in Handlers, NEW k \in {"roles", "groups"}, NEW op \in {"delete", "rename"},
           NEW x, NEW new, IsRow(x), IsRow(new), new.id = x.id,
           NEW holder, holder = Null \/ DOMAIN holder = {"roles", "groups"},
           Begin(r, Op(op, k, "save", x, new, {}, holder)), UNCHANGED <<tables, list, cached>>
    PROVE  DInv'
<1> DEFINE q == Op(op, k, "save", x, new, {}, holder)
<1>1. Begin(r, q) /\ UNCHANGED <<tables, list, cached>>
  OBVIOUS
<1>2. /\ DOMAIN q = Fields /\ q.op = op /\ q.kind = k /\ q.step = "save" /\ q.old = x
      /\ q.new = new /\ q.holder = holder
  BY OpFields
<1> HIDE DEF q
<1>3. Shape(q)
  BY <1>2 DEF Shape, Changes, Kinds
<1>4. DOMAIN list' = Kinds /\ \A j \in Kinds : list'[j] = list[j]
  BY <1>1 DEF DInv, StateInv, DirectoryTypeOK
<1> QED BY <1>1, <1>2, <1>3, <1>4, BeginInv

\* Role::delete begins with the users that have the role.
LEMMA DeleteRoleInv ==
    ASSUME DInv, NEW r \in Handlers, NEW x \in rows["roles"], DeleteRole(r, x)
    PROVE  DInv'
<1> DEFINE holder == IF IsIn(x.name, user.roles) THEN [user EXCEPT !.roles = WithoutEntry(@, x.name)] ELSE Null
<1>1. Begin(r, Op("delete", "roles", "save", x, x, {}, holder)) /\ UNCHANGED <<tables, list, cached>>
  BY DEF DeleteRole
<1>2. IsRow(x) /\ (holder = Null \/ DOMAIN holder = {"roles", "groups"})
  BY DEF DInv, StateInv, DirectoryTypeOK, WellFormed, Kinds, IsRow
<1> HIDE DEF holder
<1> QED BY <1>1, <1>2, ChangeHoldersInv

\* Group::delete begins with the users that are in the group.
LEMMA DeleteGroupInv ==
    ASSUME DInv, NEW r \in Handlers, NEW x \in rows["groups"], DeleteGroup(r, x)
    PROVE  DInv'
<1> DEFINE holder == IF IsIn(x.name, user.groups) THEN [user EXCEPT !.groups = WithoutEntry(@, x.name)] ELSE Null
<1>1. Begin(r, Op("delete", "groups", "save", x, x, {}, holder)) /\ UNCHANGED <<tables, list, cached>>
  BY DEF DeleteGroup
<1>2. IsRow(x) /\ (holder = Null \/ DOMAIN holder = {"roles", "groups"})
  BY DEF DInv, StateInv, DirectoryTypeOK, WellFormed, Kinds, IsRow
<1> HIDE DEF holder
<1> QED BY <1>1, <1>2, ChangeHoldersInv

\* A user with a renamed role or group keeps its fields.
LEMMA RenamedFields ==
    ASSUME DInv, NEW f \in {"roles", "groups"}, NEW old, NEW name
    PROVE  Renamed(f, old, name) = Null \/ DOMAIN Renamed(f, old, name) = {"roles", "groups"}
BY DEF Renamed, DInv, StateInv, DirectoryTypeOK

\* Role::update begins.
LEMMA UpdateRoleInv ==
    ASSUME DInv, NEW r \in Handlers, NEW x \in rows["roles"], NEW name, UpdateRole(r, x, name)
    PROVE  DInv'
<1> DEFINE new == [x EXCEPT !.name = name]
<1>1. /\ Begin(r, Op("rename", "roles", "save", x, new, {}, Renamed("roles", x.name, name)))
      /\ UNCHANGED <<tables, list, cached>>
  BY DEF UpdateRole
<1>2. IsRow(x) /\ IsRow(new) /\ new.id = x.id
  BY DEF DInv, StateInv, DirectoryTypeOK, WellFormed, Kinds, IsRow
<1> HIDE DEF new
<1>3. Renamed("roles", x.name, name) = Null \/ DOMAIN Renamed("roles", x.name, name) = {"roles", "groups"}
  BY RenamedFields
<1> QED BY <1>1, <1>2, <1>3, ChangeHoldersInv

\* Group::update begins.
LEMMA UpdateGroupInv ==
    ASSUME DInv, NEW r \in Handlers, NEW x \in rows["groups"], NEW name, UpdateGroup(r, x, name)
    PROVE  DInv'
<1> DEFINE new == [x EXCEPT !.name = name]
<1>1. /\ Begin(r, Op("rename", "groups", "save", x, new, {}, Renamed("groups", x.name, name)))
      /\ UNCHANGED <<tables, list, cached>>
  BY DEF UpdateGroup
<1>2. IsRow(x) /\ IsRow(new) /\ new.id = x.id
  BY DEF DInv, StateInv, DirectoryTypeOK, WellFormed, Kinds, IsRow
<1> HIDE DEF new
<1>3. Renamed("groups", x.name, name) = Null \/ DOMAIN Renamed("groups", x.name, name) = {"roles", "groups"}
  BY RenamedFields
<1> QED BY <1>1, <1>2, <1>3, ChangeHoldersInv

\* Deleting or renaming a scope
LEMMA ChangeScopeInv ==
    ASSUME DInv, NEW r \in Handlers, NEW op \in {"delete", "rename"},
           NEW x \in rows["scopes"], NEW new, IsRow(new), new.id = x.id,
           NEW holder, holder = Null \/ DOMAIN holder = {"scopes", "default_scopes"},
           Begin(r, Op(op, "scopes", "save", x, new, {}, holder)), UNCHANGED <<tables, cached>>,
           list' = list \/ list' = Filled({"attrs"})
    PROVE  DInv'
<1> DEFINE q == Op(op, "scopes", "save", x, new, {}, holder)
<1>1. Begin(r, q) /\ UNCHANGED <<tables, cached>>
  OBVIOUS
<1>2. /\ DOMAIN q = Fields /\ q.op = op /\ q.kind = "scopes" /\ q.step = "save" /\ q.old = x
      /\ q.new = new /\ q.holder = holder
  BY OpFields
<1> HIDE DEF q
<1>3. IsRow(x)
  BY DEF DInv, StateInv, DirectoryTypeOK, WellFormed, Kinds, IsRow
<1>4. Shape(q)
  BY <1>2, <1>3 DEF Shape, Changes, Kinds
<1>5. {"attrs"} \cap Kinds \subseteq Uses(q.kind)
  BY <1>2, UsesOf
<1>6. DOMAIN list' = Kinds /\ \A j \in Kinds : list'[j] = list[j] \/ (j \in Uses(q.kind) /\ list'[j] = FindAll(j))
  <2>1. CASE list' = list
    BY <2>1 DEF DInv, StateInv, DirectoryTypeOK
  <2>2. CASE list' = Filled({"attrs"})
    BY <1>5, <2>2, FilledLists
  <2> QED BY <2>1, <2>2
<1> QED BY <1>1, <1>2, <1>4, <1>6, BeginInv

\* Scope::delete begins with the clients that have the scope.
LEMMA DeleteScopeInv ==
    ASSUME DInv, NEW r \in Handlers, NEW x \in rows["scopes"], DeleteScope(r, x)
    PROVE  DInv'
<1> DEFINE holder == IF CarriesScope(x.name) THEN ClientWithoutScope(x.name) ELSE Null
<1>1. Begin(r, Op("delete", "scopes", "save", x, x, {}, holder)) /\ UNCHANGED <<tables, list, cached>>
  BY DEF DeleteScope
<1>2. DOMAIN ClientWithoutScope(x.name) = {"scopes", "default_scopes"}
  BY DEF ClientWithoutScope, DInv, StateInv, DirectoryTypeOK
<1>3. IsRow(x) /\ (holder = Null \/ DOMAIN holder = {"scopes", "default_scopes"})
  BY <1>2 DEF DInv, StateInv, DirectoryTypeOK, WellFormed, Kinds, IsRow
<1> HIDE DEF holder
<1> QED BY <1>1, <1>3, ChangeScopeInv

\* Scope::update reads the list of attributes and begins.
LEMMA UpdateScopeInv ==
    ASSUME DInv, NEW r \in Handlers, NEW x \in rows["scopes"], NEW name, NEW wanted, UpdateScope(r, x, name, wanted)
    PROVE  DInv'
<1> DEFINE new == Row(x.id, name, CleanUpAttrs(wanted))
           holder == IF name # x.name /\ CarriesScope(x.name)
                     THEN [f \in DOMAIN client |-> Replaced(client[f], x.name, name)] ELSE Null
<1>1. /\ Begin(r, Op("rename", "scopes", "save", x, new, {}, holder)) /\ UNCHANGED <<tables, cached>>
      /\ list' = Filled({"attrs"})
  BY DEF UpdateScope
<1>2. IsRow(new) /\ new.id = x.id
  BY RowFields
<1>3. holder = Null \/ DOMAIN holder = {"scopes", "default_scopes"}
  BY DEF DInv, StateInv, DirectoryTypeOK
<1> HIDE DEF holder, new
<1> QED BY <1>1, <1>2, <1>3, ChangeScopeInv

\* Deleting or renaming an attribute
LEMMA ChangeAttrInv ==
    ASSUME DInv, NEW r \in Handlers, NEW op \in {"delete", "rename"}, NEW x, NEW new,
           IsRow(x), IsRow(new), IsAttr(x), IsAttr(new), NEW copy, op = "rename" => copy = values, NEW holder,
           Begin(r, Op(op, "attrs", "save", x, new, copy, holder)), UNCHANGED <<tables, cached>>,
           list' = Filled({"scopes"})
    PROVE  DInv'
<1> DEFINE q == Op(op, "attrs", "save", x, new, copy, holder)
<1>1. Begin(r, q) /\ UNCHANGED <<tables, cached>>
  OBVIOUS
<1>2. /\ DOMAIN q = Fields /\ q.op = op /\ q.kind = "attrs" /\ q.step = "save" /\ q.old = x
      /\ q.new = new /\ q.copy = copy
  BY OpFields
<1> HIDE DEF q
<1>3. Shape(q)
  BY <1>2 DEF Shape, Changes, Kinds
<1>4. {"scopes"} \cap Kinds \subseteq Uses(q.kind)
  BY <1>2, UsesOf
<1>5. DOMAIN list' = Kinds /\ \A j \in Kinds : list'[j] = list[j] \/ (j \in Uses(q.kind) /\ list'[j] = FindAll(j))
  BY <1>4, FilledLists
<1> QED BY <1>1, <1>2, <1>3, <1>5, BeginInv

\* UserAttrConfigEntity::delete reads the list of scopes and begins.
LEMMA DeleteAttrInv ==
    ASSUME DInv, NEW r \in Handlers, NEW name, DeleteAttr(r, name)
    PROVE  DInv'
<1> DEFINE x == Row(name, name, <<>>)
           holder == {[y EXCEPT !.attrs = WithoutMapping(@, name)] : y \in Mapping(name)}
<1>1. /\ Begin(r, Op("delete", "attrs", "save", x, x, {}, holder)) /\ UNCHANGED <<tables, cached>>
      /\ list' = Filled({"scopes"})
  BY DEF DeleteAttr
<1>2. IsRow(x) /\ IsAttr(x)
  BY RowFields
<1> HIDE DEF x, holder
<1> QED BY <1>1, <1>2, ChangeAttrInv

\* UserAttrConfigEntity::update does so too, and keeps the users with a value.
LEMMA UpdateAttrInv ==
    ASSUME DInv, NEW r \in Handlers, NEW old, NEW name, UpdateAttr(r, old, name)
    PROVE  DInv'
<1> DEFINE x == Row(old, old, <<>>)
           new == Row(name, name, <<>>)
           holder == {[y EXCEPT !.attrs = Replaced(@, old, name)] : y \in Mapping(old)}
<1>1. /\ Begin(r, Op("rename", "attrs", "save", x, new, values, holder)) /\ UNCHANGED <<tables, cached>>
      /\ list' = Filled({"scopes"})
  BY DEF UpdateAttr
<1>2. IsRow(x) /\ IsAttr(x) /\ IsRow(new) /\ IsAttr(new)
  BY RowFields
<1> HIDE DEF x, new, holder
<1> QED BY <1>1, <1>2, ChangeAttrInv

\* The rows that carry the names
LEMMA UpdateUserInv ==
    ASSUME DInv, NEW r \in Handlers, NEW roles, NEW groups, UpdateUser(r, roles, groups)
    PROVE  DInv'
<1> DEFINE new == [roles |-> Joined(FindAll("roles"), roles), groups |-> Joined(FindAll("groups"), groups)]
           q == Op("put", "user", "row", NoRow, NoRow, {}, new)
<1>1. Begin(r, q) /\ list' = Filled({"roles", "groups"}) /\ UNCHANGED <<tables, cached>>
  BY DEF UpdateUser
<1>2. DOMAIN q = Fields /\ q.op = "put" /\ q.kind = "user" /\ q.step = "row" /\ q.old = NoRow /\ q.new = NoRow
      /\ q.holder = new
  BY OpFields
<1>3. DOMAIN new = {"roles", "groups"} /\ IsRow(NoRow)
  BY RowFields
<1> HIDE DEF q, new
<1>4. Shape(q)
  BY <1>2, <1>3 DEF Shape, Puts, Kinds
<1>5. {"roles", "groups"} \cap Kinds \subseteq Uses(q.kind)
  BY <1>2, UsesOf
<1>6. DOMAIN list' = Kinds /\ \A j \in Kinds : list'[j] = list[j] \/ (j \in Uses(q.kind) /\ list'[j] = FindAll(j))
  BY <1>1, <1>5, FilledLists
<1> QED BY <1>1, <1>2, <1>4, <1>6, BeginInv

\* update_client reads the list of scopes and begins.
LEMMA UpdateClientInv ==
    ASSUME DInv, NEW r \in Handlers, NEW scopes, NEW defaults, UpdateClient(r, scopes, defaults)
    PROVE  DInv'
<1> DEFINE new == [scopes |-> SanitizeScopes(scopes), default_scopes |-> SanitizeScopes(defaults)]
           q == Op("put", "client", "row", NoRow, NoRow, {}, new)
<1>1. Begin(r, q) /\ list' = Filled({"scopes"}) /\ UNCHANGED <<tables, cached>>
  BY DEF UpdateClient
<1>2. DOMAIN q = Fields /\ q.op = "put" /\ q.kind = "client" /\ q.step = "row" /\ q.old = NoRow /\ q.new = NoRow
      /\ q.holder = new
  BY OpFields
<1>3. DOMAIN new = {"scopes", "default_scopes"} /\ IsRow(NoRow)
  BY RowFields
<1> HIDE DEF q, new
<1>4. Shape(q)
  BY <1>2, <1>3 DEF Shape, Puts, Kinds
<1>5. {"scopes"} \cap Kinds \subseteq Uses(q.kind)
  BY <1>2, UsesOf
<1>6. DOMAIN list' = Kinds /\ \A j \in Kinds : list'[j] = list[j] \/ (j \in Uses(q.kind) /\ list'[j] = FindAll(j))
  BY <1>1, <1>5, FilledLists
<1> QED BY <1>1, <1>2, <1>4, <1>6, BeginInv

\* UserAttrValueEntity::update_for_user begins.
LEMMA UpdateValueInv ==
    ASSUME DInv, NEW r \in Handlers, NEW key, NEW set \in BOOLEAN, UpdateValue(r, key, set)
    PROVE  DInv'
<1> DEFINE new == Row(key, key, <<>>)
           op == IF set THEN "put" ELSE "delete"
           q == Op(op, "values", "row", NoRow, new, {}, {})
<1>1. Begin(r, q) /\ UNCHANGED <<tables, list, cached>>
  BY DEF UpdateValue
<1>2. DOMAIN q = Fields /\ q.op = op /\ q.kind = "values" /\ q.step = "row" /\ q.old = NoRow /\ q.new = new
  BY OpFields
<1>3. IsRow(new) /\ IsAttr(new) /\ IsRow(NoRow) /\ op \in {"put", "delete"}
  BY RowFields
<1> HIDE DEF q, new, op
<1>4. Shape(q)
  BY <1>2, <1>3 DEF Shape, Puts, Kinds
<1>5. DOMAIN list' = Kinds /\ \A j \in Kinds : list'[j] = list[j]
  BY <1>1 DEF DInv, StateInv, DirectoryTypeOK
<1> QED BY <1>1, <1>2, <1>4, <1>5, BeginInv

-----------------------------------------------------------------------------
\* The steps of a running request

\* The other requests keep their shape.
LEMMA ReqStep ==
    ASSUME ReqInv, NEW r \in Handlers, DOMAIN req' = Handlers, \A s \in Handlers \ {r} : req'[s] = req[s],
           req'[r] = NoOp \/ Shape(req'[r])
    PROVE  ReqInv'
<1> SUFFICES ASSUME NEW s \in Handlers, Working(s)' PROVE Shape(req[s])'
  BY DEF ReqInv
<1>1. Shape(req'[s])
  BY DEF ReqInv, Working
<1> QED BY <1>1 DEF Shape, Creates, Changes, Puts, More, IsRow, IsAttr, Row

\* A request that goes on to its next step
LEMMA NextStep ==
    ASSUME NEW q, Shape(q), NEW p, DOMAIN p = Fields, p.op = q.op, p.kind = q.kind, p.old = q.old, p.new = q.new,
           p.holder = q.holder \/ q.kind = "values",
           Creates(p) \/ Changes(p) \/ Puts(p), p.step = "after" => More(q)
    PROVE  Shape(p)
<1>1. More(p) <=> More(q)
  BY DEF More
<1> QED BY <1>1 DEF Shape

\* Going on changes nothing of a request but its step,
LEMMA StepTo ==
    ASSUME ReqInv, NEW r \in Handlers, Working(r), NEW step, req' = [req EXCEPT ![r].step = step], step # "idle"
    PROVE  /\ DOMAIN req' = Handlers /\ \A s \in Handlers \ {r} : req'[s] = req[s]
           /\ Shape(req[r]) /\ DOMAIN req'[r] = Fields /\ req'[r].step = step /\ req'[r] # NoOp
           /\ req'[r].op = req[r].op /\ req'[r].kind = req[r].kind /\ req'[r].old = req[r].old
           /\ req'[r].new = req[r].new /\ req'[r].copy = req[r].copy /\ req'[r].holder = req[r].holder
<1>1. DOMAIN req = Handlers /\ Shape(req[r]) /\ DOMAIN req[r] = Fields
  BY KindOf DEF ReqInv
<1>2. req'[r].step = step /\ NoOp.step = "idle"
  BY <1>1 DEF Fields, NoOp
<1> QED BY <1>1, <1>2 DEF Fields

\* and its end nothing of the others.
LEMMA EndOf ==
    ASSUME ReqInv, NEW r \in Handlers, Working(r), req' = [req EXCEPT ![r] = NoOp]
    PROVE  DOMAIN req' = Handlers /\ req'[r] = NoOp /\ Shape(req[r]) /\ \A s \in Handlers \ {r} : req'[s] = req[s]
BY DEF ReqInv

\* A request is at one of its steps, so it is running.
LEMMA AtStep ==
    ASSUME NEW r \in Handlers, req[r].step # "idle"
    PROVE  Working(r)
BY DEF Working, NoOp

\* A request that has not written anything leaves its tables at rest.
LEMMA WorkRest ==
    ASSUME NEW q, Shape(q), q.step \in {"insert", "save", "row"}, NEW t \in Tables, Work(t, q)
    PROVE  Rest(t)
<1>1. CASE t \in Kinds /\ t = q.kind
  <2>1. WorkOwn(t, q) /\ t \notin {"user", "client", "values"}
    BY <1>1 DEF Work, Kinds
  <2>2. q.step \in {"insert", "save"}
    BY <1>1, <2>1 DEF Shape, Creates, Changes, Puts
  <2>3. ListRight(t) /\ (t = "scopes" => KnownRight)
    BY <2>1, <2>2 DEF WorkOwn
  <2> QED BY <2>1, <2>3 DEF Rest
<1>2. CASE t \in Kinds /\ t # q.kind
  <2>1. t \notin {"user", "client", "values"} /\ (Rest(t) \/ (t = "scopes" /\ WorkMappings(q)))
    BY <1>2 DEF Work, Kinds
  <2> QED BY <2>1 DEF Rest, WorkMappings
<1>3. CASE t = "user"
  BY <1>3 DEF Work, WorkUser, Rest, Kinds
<1>4. CASE t = "client"
  BY <1>4 DEF Work, WorkClient, Rest, Kinds
<1>5. CASE t = "values"
  BY <1>5 DEF Work, WorkValues, Rest, Kinds
<1> QED BY <1>1, <1>2, <1>3, <1>4, <1>5 DEF Tables

\* The insert makes the copy of the list with the new row the right list, or ends the request.
LEMMA InsertInv ==
    ASSUME DInv, NEW r \in Handlers, Insert(r)
    PROVE  DInv'
<1> DEFINE q == req[r]
           k == q.kind
<1>1. Working(r) /\ q.step = "insert"
  BY AtStep DEF Insert
<1>2. Shape(q) /\ k \in Kinds /\ q.op = "create" /\ IsRow(q.new)
  BY <1>1 DEF DInv, ReqInv, Shape, Creates, Changes, Puts
<1>3. UNCHANGED <<user, client, values, list, cached, ops, spoilt>>
  BY DEF Insert, directoryHistory
<1>4. CASE /\ \A x \in rows[k] : x.id # q.new.id
           /\ rows' = [rows EXCEPT ![k] = @ \cup {q.new}]
           /\ req' = [req EXCEPT ![r].step = "list"]
  <2>1. /\ DOMAIN req' = Handlers /\ \A s \in Handlers \ {r} : req'[s] = req[s]
        /\ DOMAIN req'[r] = Fields /\ req'[r].step = "list" /\ req'[r] # NoOp
        /\ req'[r].op = q.op /\ req'[r].kind = q.kind /\ req'[r].old = q.old
        /\ req'[r].new = q.new /\ req'[r].copy = q.copy /\ req'[r].holder = q.holder
    BY <1>1, <1>4, StepTo DEF DInv
  <2>2. Shape(req'[r])
    BY <1>2, <2>1, NextStep DEF Creates
  <2>3. ReqInv'
    BY <2>1, <2>2, ReqStep DEF DInv
  <2>4. rows'[k] = rows[k] \cup {q.new} /\ DOMAIN rows' = Kinds /\ \A j \in Kinds \ {k} : rows'[j] = rows[j]
    BY <1>2, <1>4 DEF DInv, StateInv, DirectoryTypeOK, WellFormed
  <2>5. StateInv'
    <3>1. WellFormed(rows')
      <4>1. \A j \in Kinds : \A x \in rows'[j] : DOMAIN x = {"id", "name", "attrs"}
        BY <1>2, <2>4 DEF DInv, StateInv, DirectoryTypeOK, WellFormed, IsRow
      <4>2. \A j \in Kinds : \A x, y \in rows'[j] : x.id = y.id => x = y
        BY <1>2, <1>4, <2>4 DEF DInv, StateInv, DirectoryTypeOK, WellFormed
      <4>3. \A x \in rows'["attrs"] : x = Row(x.name, x.name, <<>>)
        BY <1>2, <2>4 DEF DInv, StateInv, DirectoryTypeOK, WellFormed, Shape, IsAttr, Kinds
      <4> QED BY <2>4, <4>1, <4>2, <4>3 DEF WellFormed
    <3>2. values' \subseteq Names(rows'["attrs"])
      BY <1>3, <2>4 DEF DInv, StateInv, DirectoryTypeOK, Names, Kinds
    <3> QED BY <1>3, <3>1, <3>2 DEF DInv, StateInv, DirectoryTypeOK, WellFormed, Names, Row
  <2>6. ASSUME NEW t \in Tables \ Uses(k) PROVE SameTable(t)
    <3>1. k \in Uses(k)
      BY <1>2, UsesOf DEF Kinds
    <3> QED BY <1>3, <2>4, <3>1 DEF SameTable
  <2>7. ASSUME NEW t \in Uses(k), Work(t, q) PROVE Work(t, req[r])'
    <3>1. CASE t = k
      <4>1. WorkOwn(t, q) /\ t \notin {"user", "client", "values"}
        BY <1>2, <2>7, <3>1 DEF Work, Kinds
      <4>2. ListRight(t) /\ (t # "attrs" => q.copy = rows[t])
        BY <1>1, <4>1 DEF WorkOwn
      <4>3. FindAll(t)' \in {rows[t], rows'[t]}
        BY <1>3, <4>2 DEF FindAll, ListRight
      <4>4. Ready(t, req[r])'
        BY <1>2, <2>1, <2>4, <3>1, <4>2, <4>3 DEF Ready
      <4>5. t = "scopes" => More(req'[r])
        BY <1>2, <2>1, <3>1 DEF More
      <4>6. WorkOwn(t, req[r])'
        BY <2>1, <4>4, <4>5 DEF WorkOwn, More
      <4> QED BY <1>2, <2>1, <3>1, <4>1, <4>6 DEF Work
    <3>2. CASE t # k /\ t \in Kinds
      <4>1. t # "user" /\ t # "client" /\ t # "values"
        BY <3>2 DEF Kinds
      <4>2. SameTable(t)
        BY <1>3, <2>4, <3>2, <4>1 DEF SameTable
      <4>3. CASE t = "scopes" /\ k = "attrs"
        <5>1. ListRight(t)' /\ KnownRight'
          BY <1>1, <2>7, <3>2, <4>2, <4>3 DEF Work, WorkMappings, SameTable, ListRight, KnownRight, Names
        <5> QED BY <2>1, <3>2, <4>1, <4>3, <5>1 DEF Work, WorkMappings
      <4>4. CASE ~(t = "scopes" /\ k = "attrs")
        <5>1. Rest(t)'
          BY <2>7, <3>2, <4>2, <4>4, SameRest DEF Work, Tables
        <5> QED BY <2>1, <3>2, <4>1, <4>4, <5>1 DEF Work
      <4> QED BY <4>3, <4>4
    <3>3. CASE t = "user"
      BY <1>1, <1>3, <2>1, <2>7, <3>3 DEF Work, WorkUser, UserRight, Kinds
    <3>4. CASE t = "client"
      BY <1>1, <1>3, <2>1, <2>7, <3>4 DEF Work, WorkClient, ClientRight, Kinds
    <3>5. CASE t = "values"
      BY <1>1, <1>3, <2>1, <2>7, <3>5 DEF Work, WorkValues, ValuesRight, Kinds
    <3> QED BY <1>2, <2>7, <3>1, <3>2, <3>3, <3>4, <3>5, UsesTables DEF Tables
  <2>8. BusyInv' /\ TableInv'
    <3> HIDE DEF q, k
    <3> QED BY <1>1, <1>3, <2>1, <2>6, <2>7, TablesStep DEF q, k
  <2> QED BY <2>3, <2>5, <2>8 DEF DInv
<1>5. CASE req' = [req EXCEPT ![r] = NoOp] /\ UNCHANGED rows
  <2>1. DOMAIN req' = Handlers /\ req'[r] = NoOp /\ \A s \in Handlers \ {r} : req'[s] = req[s]
    BY <1>1, <1>5, EndOf DEF DInv
  <2>2. ReqInv'
    BY <2>1, ReqStep DEF DInv
  <2>3. StateInv'
    BY <1>3, <1>5 DEF DInv, StateInv, DirectoryTypeOK, WellFormed, Names, Row
  <2>4. ASSUME NEW t \in Tables PROVE SameTable(t)
    BY <1>3, <1>5 DEF SameTable
  <2>5. ASSUME NEW t \in Uses(k), Work(t, q) PROVE Rest(t)'
    <3>1. t \in Tables
      BY <1>2, UsesTables DEF Tables
    <3>2. Rest(t)
      BY <1>1, <1>2, <2>5, <3>1, WorkRest
    <3> QED BY <2>4, <3>1, <3>2, SameRest
  <2>6. BusyInv' /\ TableInv'
    <3> HIDE DEF q, k
    <3> QED BY <1>1, <1>3, <2>1, <2>4, <2>5, TablesStep DEF q, k
  <2> QED BY <2>2, <2>3, <2>6 DEF DInv
<1> QED BY <1>4, <1>5 DEF Insert

\* What a request does to a table that it only reads
LEMMA WorkReads ==
    ASSUME NEW r \in Handlers, NEW t \in Kinds, SameTable(t), t # req[r].kind, req'[r].kind = req[r].kind,
           ~(t = "scopes" /\ req[r].kind = "attrs"), Work(t, req[r])
    PROVE  Work(t, req[r])' /\ Rest(t)'
<1>1. t # "user" /\ t # "client" /\ t # "values" /\ t \in Tables
  BY DEF Kinds, Tables
<1>2. Rest(t)
  BY DEF Work
<1>3. Rest(t)'
  BY <1>1, <1>2, SameRest
<1> QED BY <1>1, <1>3 DEF Work

\* User::save, Client::save and Scope::update_mapping_only write what the commit will make true.
LEMMA SaveInv ==
    ASSUME DInv, NEW r \in Handlers, Save(r)
    PROVE  DInv'
<1> DEFINE q == req[r]
           k == q.kind
<1>1. Working(r) /\ q.step = "save"
  BY AtStep DEF Save
<1>2. Shape(q) /\ k \in Kinds /\ q.op \in {"delete", "rename"}
  BY <1>1 DEF DInv, ReqInv, Shape, Creates, Changes, Puts
<1>3. UNCHANGED <<rows, user, client, values, ops, spoilt>> /\ req' = [req EXCEPT ![r].step = "commit"]
  BY DEF Save, directoryHistory, tables
<1>4. /\ DOMAIN req' = Handlers /\ \A s \in Handlers \ {r} : req'[s] = req[s]
      /\ DOMAIN req'[r] = Fields /\ req'[r].step = "commit" /\ req'[r] # NoOp
      /\ req'[r].op = q.op /\ req'[r].kind = q.kind /\ req'[r].old = q.old
      /\ req'[r].new = q.new /\ req'[r].copy = q.copy /\ req'[r].holder = q.holder
  BY <1>1, <1>3, StepTo DEF DInv
<1>5. Shape(req'[r])
  BY <1>2, <1>4, NextStep DEF Changes
<1>6. ReqInv'
  BY <1>4, <1>5, ReqStep DEF DInv
<1>7. DOMAIN cached = CacheNames /\ DOMAIN list = Kinds
  BY DEF DInv, StateInv, DirectoryTypeOK
<1>8. k \in {"roles", "groups"} =>
          /\ list' = list /\ DOMAIN cached' = CacheNames
          /\ cached'.user = IF q.holder = Null THEN cached.user ELSE q.holder
          /\ \A c \in CacheNames \ {"user"} : cached'[c] = cached[c]
  BY <1>7 DEF Save, CacheNames
<1>9. k = "scopes" =>
          /\ list' = list /\ DOMAIN cached' = CacheNames
          /\ cached'.client = IF q.holder = Null THEN cached.client ELSE q.holder
          /\ \A c \in CacheNames \ {"client"} : cached'[c] = cached[c]
  BY <1>7 DEF Save, CacheNames
<1>10. k = "attrs" =>
          /\ DOMAIN list' = Kinds /\ DOMAIN cached' = CacheNames
          /\ list'["scopes"] = IF q.holder = {} THEN list["scopes"] ELSE WithMappings(FindAll("scopes"), q.holder)
          /\ \A j \in Kinds \ {"scopes"} : list'[j] = list[j]
          /\ \A c \in CacheNames \ {"values"} : cached'[c] = cached[c]
          /\ cached'.values = IF q.op = "delete" /\ q.old.name \in values THEN Null ELSE cached.values
  BY <1>2, <1>7 DEF Save, CacheNames, Kinds
<1>11. k \in {"roles", "groups", "scopes", "attrs"}
  BY <1>2 DEF Kinds
<1>12. StateInv'
  <2>1. DOMAIN list' = Kinds /\ DOMAIN cached' = CacheNames
    BY <1>7, <1>8, <1>9, <1>10, <1>11
  <2> QED BY <1>3, <2>1 DEF DInv, StateInv, DirectoryTypeOK, WellFormed, Names, Row
<1>13. ASSUME NEW t \in Tables \ Uses(k) PROVE SameTable(t)
  BY <1>3, <1>8, <1>9, <1>10, <1>11, UsesOf DEF SameTable, CacheNames, Tables, Kinds
<1>14. ASSUME NEW t \in Uses(k), Work(t, q) PROVE Work(t, req[r])'
  <2>1. t \in Tables
    BY <1>2, UsesTables DEF Tables
  <2>2. Rest(t)
    BY <1>1, <1>2, <1>14, <2>1, WorkRest
  <2>3. CASE t = k
    <3>1. WorkOwn(t, q) /\ t \notin {"user", "client", "values"}
      BY <1>2, <1>14, <2>3 DEF Work, Kinds
    <3>2. list'[t] = list[t] /\ rows'[t] = rows[t] /\ (t = "scopes" => cached'.wellknown = cached.wellknown)
      BY <1>3, <1>8, <1>9, <1>10, <1>11, <2>3 DEF CacheNames, Kinds
    <3>3. WorkOwn(t, req[r])'
      BY <1>1, <1>4, <2>3, <3>1, <3>2 DEF WorkOwn, ListRight, KnownRight, Names
    <3> QED BY <1>2, <1>4, <2>3, <3>1, <3>3 DEF Work
  <2>4. CASE t = "scopes" /\ k = "attrs"
    <3>1. ListRight("scopes") /\ KnownRight
      BY <2>2, <2>4 DEF Rest, Kinds
    <3>2. KnownRight'
      BY <1>3, <1>10, <2>4, <3>1 DEF KnownRight, Names, CacheNames
    <3>3. FindAll("scopes") = rows["scopes"]
      BY <3>1 DEF FindAll, ListRight
    <3>4. q.holder = {} => WithMappings(rows["scopes"], q.holder) = rows["scopes"]
      BY DEF WithMappings
    <3>5. list'["scopes"] \in {Null, WithMappings(rows["scopes"], q.holder)}
      BY <1>10, <2>4, <3>1, <3>3, <3>4 DEF ListRight
    <3>6. list'["scopes"] \in {Null, WithMappings(rows'["scopes"], req'[r].holder)}
      BY <1>3, <1>4, <3>5
    <3> QED BY <1>4, <2>4, <3>2, <3>6 DEF Work, WorkMappings, Kinds
  <2>5. CASE t \in Kinds /\ t # k /\ ~(t = "scopes" /\ k = "attrs")
    <3>1. SameTable(t)
      BY <1>3, <1>8, <1>9, <1>10, <1>11, <1>14, <2>5, UsesOf DEF SameTable, CacheNames, Kinds
    <3> QED BY <1>4, <1>14, <2>5, <3>1, WorkReads
  <2>6. CASE t = "user"
    <3>1. k \in {"roles", "groups"}
      BY <1>11, <1>14, <2>6, UsesOf
    <3> QED BY <1>3, <1>4, <1>8, <2>2, <2>6, <3>1 DEF Rest, Work, WorkUser, UserRight, Kinds
  <2>7. CASE t = "client"
    <3>1. k = "scopes"
      BY <1>11, <1>14, <2>7, UsesOf
    <3> QED BY <1>3, <1>4, <1>9, <2>2, <2>7, <3>1 DEF Rest, Work, WorkClient, ClientRight, Kinds
  <2>8. CASE t = "values"
    <3>1. k = "attrs"
      BY <1>11, <1>14, <2>8, UsesOf
    <3>2. q.op = "rename" => q.copy = values
      BY <1>1, <1>14, <2>8 DEF Work, WorkValues
    <3> QED BY <1>3, <1>4, <1>10, <2>2, <2>8, <3>1, <3>2 DEF Rest, Work, WorkValues, ValuesRight, Kinds
  <2> QED BY <2>1, <2>3, <2>4, <2>5, <2>6, <2>7, <2>8 DEF Tables
<1>15. BusyInv' /\ TableInv'
  <2> HIDE DEF q, k
  <2> QED BY <1>1, <1>3, <1>4, <1>13, <1>14, TablesStep DEF q, k
<1> QED BY <1>6, <1>12, <1>15 DEF DInv

-----------------------------------------------------------------------------
\* The operators that change tables

\* Leaving a row out or writing it over twice is as good as once.
LEMMA NewRowsTwice ==
    ASSUME NEW table, NEW q, q.op = "delete" \/ IsRow(q.new)
    PROVE  NewRows(NewRows(table, q), q) = NewRows(table, q)
<1>1. CASE q.op = "delete"
  BY <1>1 DEF NewRows
<1>2. CASE q.op # "delete"
  <2> DEFINE f(x) == IF x.id = q.old.id THEN q.new ELSE x
  <2>1. \A T : NewRows(T, q) = {f(x) : x \in T}
    BY <1>2 DEF NewRows
  <2>2. \A x : f(f(x)) = f(x)
    OBVIOUS
  <2> HIDE DEF f
  <2>3. {f(x) : x \in {f(y) : y \in table}} = {f(x) : x \in table}
    BY <2>2
  <2> QED BY <2>1, <2>3
<1> QED BY <1>1, <1>2

\* The mappings of a scope are not its id or its name.
LEMMA WithMappingsKeeps ==
    ASSUME NEW table, \A x \in table : DOMAIN x = {"id", "name", "attrs"}, NEW changed
    PROVE  /\ \A x \in WithMappings(table, changed) :
                 DOMAIN x = {"id", "name", "attrs"} /\ \E y \in table : x.id = y.id /\ x.name = y.name
           /\ \A y \in table : \E x \in WithMappings(table, changed) : x.id = y.id /\ x.name = y.name
           /\ (\A x, y \in table : x.id = y.id => x = y) =>
                 \A x, y \in WithMappings(table, changed) : x.id = y.id => x = y
<1> DEFINE f(x) == IF \E y \in changed : y.id = x.id
                   THEN [x EXCEPT !.attrs = (CHOOSE y \in changed : y.id = x.id).attrs] ELSE x
<1>1. WithMappings(table, changed) = {f(x) : x \in table}
  BY DEF WithMappings
<1>2. \A x \in table : DOMAIN f(x) = {"id", "name", "attrs"} /\ f(x).id = x.id /\ f(x).name = x.name
  OBVIOUS
<1> HIDE DEF f
<1> QED BY <1>1, <1>2

\* So the well-known scopes stay the same when mappings change.
LEMMA WithMappingsNames ==
    ASSUME NEW table, \A x \in table : DOMAIN x = {"id", "name", "attrs"}, NEW changed
    PROVE  Names(WithMappings(table, changed)) = Names(table)
BY WithMappingsKeeps DEF Names

\* A changed table is well-formed.
LEMMA NewRowsKeeps ==
    ASSUME NEW table, \A x \in table : IsRow(x), \A x, y \in table : x.id = y.id => x = y,
           NEW q, IsRow(q.new), q.op \in {"delete", "rename"}
    PROVE  /\ \A x \in NewRows(table, q) : IsRow(x)
           /\ (q.op = "rename" => q.new.id = q.old.id) =>
                 \A x, y \in NewRows(table, q) : x.id = y.id => x = y
           /\ (\A x \in table : IsAttr(x)) /\ IsAttr(q.new) => \A x \in NewRows(table, q) : IsAttr(x)
<1>1. CASE q.op = "delete"
  BY <1>1 DEF NewRows
<1>2. CASE q.op = "rename"
  BY <1>2 DEF NewRows
<1> QED BY <1>1, <1>2

\* The foreign key of the values: they follow their attribute, or go with it.
LEMMA CascadedKeeps ==
    ASSUME NEW table, \A x \in table : IsAttr(x), values \subseteq Names(table),
           NEW q, IsAttr(q.old), IsAttr(q.new), q.op \in {"delete", "rename"}
    PROVE  Cascaded(q) \subseteq Names(NewRows(table, q))
<1> SUFFICES ASSUME NEW v \in Cascaded(q) PROVE \E x \in NewRows(table, q) : x.name = v
  BY DEF Names
<1>1. \A x : IsAttr(x) => x.id = x.name
  BY DEF IsAttr, Row
<1>2. CASE v \in values /\ v # q.old.name
  <2>1. PICK x \in table : x.name = v
    BY <1>2 DEF Names
  <2>2. x.id # q.old.id
    BY <1>1, <1>2, <2>1
  <2>3. x \in NewRows(table, q)
    BY <2>2 DEF NewRows
  <2> QED BY <2>1, <2>3
<1>3. CASE q.op = "rename" /\ v = q.new.name /\ q.old.name \in values
  <2>1. PICK x \in table : x.name = q.old.name
    BY <1>3 DEF Names
  <2>2. x.id = q.old.id
    BY <1>1, <2>1
  <2>3. q.new \in NewRows(table, q)
    BY <1>3, <2>2 DEF NewRows
  <2> QED BY <1>3, <2>3
<1> QED BY <1>2, <1>3 DEF Cascaded

\* Renaming a row to the name it has leaves the names as they were.
LEMMA SameNames ==
    ASSUME NEW table, \A x, y \in table : x.id = y.id => x = y, NEW q, q.op = "rename", q.old \in table,
           q.new.name = q.old.name
    PROVE  Names(NewRows(table, q)) = Names(table)
<1> DEFINE f(x) == IF x.id = q.old.id THEN q.new ELSE x
<1>1. NewRows(table, q) = {f(x) : x \in table}
  BY DEF NewRows
<1>2. \A x \in table : f(x).name = x.name
  OBVIOUS
<1> HIDE DEF f
<1> QED BY <1>1, <1>2 DEF Names

\* The commit makes the caches written before it true, and the list left to write the right one.
LEMMA CommitInv ==
    ASSUME DInv, NEW r \in Handlers, Commit(r)
    PROVE  DInv'
<1> DEFINE q == req[r]
           k == q.kind
<1>1. Working(r) /\ q.step = "commit"
  BY AtStep DEF Commit
<1>2. Shape(q) /\ k \in Kinds /\ q.op \in {"delete", "rename"} /\ IsRow(q.old) /\ IsRow(q.new)
  BY <1>1 DEF DInv, ReqInv, Shape, Creates, Changes, Puts
<1>3. UNCHANGED <<list, cached, ops, spoilt>> /\ req' = [req EXCEPT ![r].step = "list"]
  BY DEF Commit, directoryHistory
<1>4. /\ DOMAIN req' = Handlers /\ \A s \in Handlers \ {r} : req'[s] = req[s]
      /\ DOMAIN req'[r] = Fields /\ req'[r].step = "list" /\ req'[r] # NoOp
      /\ req'[r].op = q.op /\ req'[r].kind = q.kind /\ req'[r].old = q.old
      /\ req'[r].new = q.new /\ req'[r].copy = q.copy /\ req'[r].holder = q.holder
  BY <1>1, <1>3, StepTo DEF DInv
<1>5. Shape(req'[r])
  BY <1>2, <1>4, NextStep DEF Changes
<1>6. ReqInv'
  BY <1>4, <1>5, ReqStep DEF DInv
<1>7. /\ DOMAIN rows' = Kinds /\ rows'[k] = NewRows(rows[k], q)
      /\ k = "attrs" => rows'["scopes"] = WithMappings(rows["scopes"], q.holder)
      /\ \A j \in Kinds \ {k} : ~(j = "scopes" /\ k = "attrs") => rows'[j] = rows[j]
  BY <1>2 DEF Commit, Kinds
<1>8. /\ user' = IF k \in {"roles", "groups"} /\ q.holder # Null THEN q.holder ELSE user
      /\ client' = IF k = "scopes" /\ q.holder # Null THEN q.holder ELSE client
      /\ values' = IF k = "attrs" THEN Cascaded(q) ELSE values
  BY DEF Commit
<1>9. k \in {"roles", "groups", "scopes", "attrs"}
  BY <1>2 DEF Kinds
<1>10. WellFormed(rows)
  BY DEF DInv, StateInv, DirectoryTypeOK
<1>11. \A j \in Kinds : (\A x \in rows[j] : IsRow(x)) /\ (\A x, y \in rows[j] : x.id = y.id => x = y)
  BY <1>10 DEF WellFormed, IsRow
<1>12. \A x \in rows["attrs"] : IsAttr(x)
  BY <1>10 DEF WellFormed, IsAttr
<1>13. k = "attrs" => IsAttr(q.old) /\ IsAttr(q.new)
  BY <1>2 DEF Shape
<1>14. StateInv'
  <2>1. /\ \A x \in NewRows(rows[k], q) : IsRow(x)
        /\ (q.op = "rename" => q.new.id = q.old.id) =>
                 \A x, y \in NewRows(rows[k], q) : x.id = y.id => x = y
        /\ k = "attrs" => \A x \in NewRows(rows[k], q) : IsAttr(x)
    <3> HIDE DEF q, k
    <3>1. \A x \in rows[k] : IsRow(x)
      BY <1>2, <1>11
    <3>2. \A x, y \in rows[k] : x.id = y.id => x = y
      BY <1>2, <1>11
    <3>3. k = "attrs" => (\A x \in rows[k] : IsAttr(x)) /\ IsAttr(q.new)
      BY <1>12, <1>13
    <3> QED BY <1>2, <3>1, <3>2, <3>3, NewRowsKeeps
  <2>2. \A x, y \in rows'[k] : x.id = y.id => x = y
    <3>1. CASE k = "attrs"
      BY <1>7, <2>1, <3>1 DEF IsAttr, Row
    <3>2. CASE k # "attrs"
      BY <1>2, <1>7, <2>1, <3>2 DEF Shape
    <3> QED BY <3>1, <3>2
  <2>3. k = "attrs" => /\ \A x \in rows'["scopes"] : IsRow(x)
                       /\ \A x, y \in rows'["scopes"] : x.id = y.id => x = y
    <3>1. \A x \in rows["scopes"] : DOMAIN x = {"id", "name", "attrs"}
      BY <1>11 DEF IsRow, Kinds
    <3>2. \A x, y \in rows["scopes"] : x.id = y.id => x = y
      BY <1>11 DEF Kinds
    <3> QED BY <1>7, <3>1, <3>2, WithMappingsKeeps DEF IsRow
  <2>4. \A x \in rows'["attrs"] : IsAttr(x)
    BY <1>7, <1>9, <1>12, <2>1 DEF Kinds
  <2>5. \A j \in Kinds : (\A x \in rows'[j] : IsRow(x)) /\ (\A x, y \in rows'[j] : x.id = y.id => x = y)
    <3> SUFFICES ASSUME NEW j \in Kinds
                 PROVE  (\A x \in rows'[j] : IsRow(x)) /\ (\A x, y \in rows'[j] : x.id = y.id => x = y)
      OBVIOUS
    <3>1. CASE j = k
      BY <1>7, <2>1, <2>2, <3>1
    <3>2. CASE j = "scopes" /\ k = "attrs"
      BY <2>3, <3>2
    <3>3. CASE j # k /\ ~(j = "scopes" /\ k = "attrs")
      BY <1>7, <1>11, <3>3
    <3> QED BY <3>1, <3>2, <3>3
  <2>6. WellFormed(rows')
    BY <1>7, <2>4, <2>5 DEF WellFormed, IsRow, IsAttr
  <2>7. values' \subseteq Names(rows'["attrs"])
    <3>1. values \subseteq Names(rows["attrs"])
      BY DEF DInv, StateInv, DirectoryTypeOK
    <3>2. CASE k = "attrs"
      <4> HIDE DEF q, k
      <4>1. Cascaded(q) \subseteq Names(NewRows(rows["attrs"], q))
        BY <1>2, <1>12, <1>13, <3>1, <3>2, CascadedKeeps
      <4> QED BY <1>7, <1>8, <3>2, <4>1
    <3>3. CASE k # "attrs"
      <4>1. rows'["attrs"] = rows["attrs"] /\ values' = values
        BY <1>7, <1>8, <3>3 DEF Kinds
      <4> QED BY <3>1, <4>1
    <3> QED BY <3>2, <3>3
  <2>8. DOMAIN user' = {"roles", "groups"} /\ DOMAIN client' = {"scopes", "default_scopes"}
    <3>1. DOMAIN user = {"roles", "groups"} /\ DOMAIN client = {"scopes", "default_scopes"}
      BY DEF DInv, StateInv, DirectoryTypeOK
    <3> QED BY <1>2, <1>8, <3>1 DEF Shape
  <2>9. DOMAIN list' = Kinds /\ ops' \in 0 .. MaxOps /\ DOMAIN cached' = CacheNames
    BY <1>3 DEF DInv, StateInv, DirectoryTypeOK
  <2> QED BY <2>6, <2>7, <2>8, <2>9 DEF StateInv, DirectoryTypeOK, WellFormed, Names, Row
<1>15. ASSUME NEW t \in Tables \ Uses(k) PROVE SameTable(t)
  <2>1. t # k /\ ~(t = "scopes" /\ k = "attrs")
    BY <1>9, UsesOf
  <2>2. t = "user" => user' = user
    BY <1>8, <1>9, UsesOf
  <2>3. t = "client" => client' = client
    BY <1>8, <1>9, UsesOf
  <2>4. t = "values" => values' = values
    BY <1>8, <1>9, UsesOf
  <2> QED BY <1>3, <1>7, <2>1, <2>2, <2>3, <2>4 DEF SameTable
<1>16. ASSUME NEW t \in Uses(k), Work(t, q) PROVE Work(t, req[r])'
  <2>1. t \in Tables
    BY <1>2, UsesTables DEF Tables
  <2>2. CASE t = k
    <3>1. WorkOwn(t, q) /\ t \notin {"user", "client", "values"}
      BY <1>2, <1>16, <2>2 DEF Work, Kinds
    <3>2. ListRight(t)
      BY <1>1, <3>1 DEF WorkOwn
    <3>3. FindAll(t)' \in {rows[t], rows'[t]}
      BY <1>3, <3>2 DEF FindAll, ListRight
    <3>4. NewRows(NewRows(rows[t], q), q) = NewRows(rows[t], q)
      <4> HIDE DEF q, k
      <4> QED BY <1>2, NewRowsTwice
    <3>5. \A T : NewRows(T, req'[r]) = NewRows(T, q)
      BY <1>4 DEF NewRows
    <3>6. Ready(t, req[r])'
      <4>1. \A l \in {FindAll(t)', rows'[t]} : rows'[t] = NewRows(l, req'[r])
        BY <1>7, <2>2, <3>3, <3>4, <3>5
      <4> QED BY <1>2, <1>4, <4>1 DEF Ready
    <3>7. t = "scopes" /\ ~More(req'[r]) => KnownRight'
      <4> SUFFICES ASSUME t = "scopes", ~More(req'[r]) PROVE KnownRight'
        OBVIOUS
      <4>1. q.op = "rename" /\ q.new.name = q.old.name
        BY <1>2, <1>4, <2>2 DEF More
      <4>2. KnownRight /\ q.old \in rows["scopes"]
        BY <1>1, <3>1, <4>1 DEF WorkOwn
      <4>3. Names(rows'["scopes"]) = Names(rows["scopes"])
        <5>1. rows'["scopes"] = NewRows(rows["scopes"], q)
          BY <1>7, <2>2
        <5>2. \A x, y \in rows["scopes"] : x.id = y.id => x = y
          BY <1>11 DEF Kinds
        <5> HIDE DEF q, k
        <5> QED BY <4>1, <4>2, <5>1, <5>2, SameNames
      <4> QED BY <1>3, <4>2, <4>3 DEF KnownRight
    <3>8. WorkOwn(t, req[r])'
      BY <1>4, <3>6, <3>7 DEF WorkOwn, More
    <3> QED BY <1>2, <1>4, <2>2, <3>1, <3>8 DEF Work
  <2>3. CASE t = "scopes" /\ k = "attrs"
    <3>1. KnownRight /\ list["scopes"] \in {Null, WithMappings(rows["scopes"], q.holder)}
      BY <1>1, <1>16, <2>3 DEF Work, WorkMappings, Kinds
    <3>2. ListRight("scopes")'
      BY <1>3, <1>7, <2>3, <3>1 DEF ListRight
    <3>3. Names(rows'["scopes"]) = Names(rows["scopes"])
      <4>1. \A x \in rows["scopes"] : DOMAIN x = {"id", "name", "attrs"}
        BY <1>11 DEF IsRow, Kinds
      <4>2. Names(WithMappings(rows["scopes"], q.holder)) = Names(rows["scopes"])
        BY <4>1, WithMappingsNames
      <4> QED BY <1>7, <2>3, <4>2
    <3>4. KnownRight'
      BY <1>3, <3>1, <3>3 DEF KnownRight
    <3> QED BY <1>4, <2>3, <3>2, <3>4 DEF Work, WorkMappings, Kinds
  <2>4. CASE t \in Kinds /\ t # k /\ ~(t = "scopes" /\ k = "attrs")
    <3>1. SameTable(t)
      BY <1>3, <1>7, <2>4 DEF SameTable, Kinds
    <3> QED BY <1>4, <1>16, <2>4, <3>1, WorkReads
  <2>5. CASE t = "user"
    <3>1. k \in {"roles", "groups"}
      BY <1>9, <1>16, <2>5, UsesOf
    <3> QED BY <1>1, <1>3, <1>4, <1>8, <1>16, <2>5, <3>1 DEF Work, WorkUser, UserRight, Kinds
  <2>6. CASE t = "client"
    <3>1. k = "scopes"
      BY <1>9, <1>16, <2>6, UsesOf
    <3> QED BY <1>1, <1>3, <1>4, <1>8, <1>16, <2>6, <3>1 DEF Work, WorkClient, ClientRight, Kinds
  <2>7. CASE t = "values"
    <3>1. k = "attrs"
      BY <1>9, <1>16, <2>7, UsesOf
    <3>2. WorkValues(q)
      BY <1>16, <2>7 DEF Work
    <3>3. WorkValues(req[r])'
      BY <1>1, <1>2, <1>3, <1>4, <1>8, <3>1, <3>2 DEF WorkValues, ValuesRight, Cascaded
    <3> QED BY <2>7, <3>3 DEF Work, Kinds
  <2> QED BY <2>1, <2>2, <2>3, <2>4, <2>5, <2>6, <2>7 DEF Tables
<1>17. BusyInv' /\ TableInv'
  <2> HIDE DEF q, k
  <2> QED BY <1>1, <1>3, <1>4, <1>15, <1>16, TablesStep DEF q, k
<1> QED BY <1>6, <1>14, <1>17 DEF DInv

\* The new list is what the table holds; then the request ends or has one more entry to write.
LEMMA CacheListInv ==
    ASSUME DInv, NEW r \in Handlers, CacheList(r)
    PROVE  DInv'
<1> DEFINE q == req[r]
           k == q.kind
<1>1. Working(r) /\ q.step = "list"
  BY AtStep DEF CacheList
<1>2. Shape(q) /\ k \in Kinds /\ DOMAIN q = Fields /\ q.op \in {"create", "delete", "rename"}
  BY <1>1 DEF DInv, ReqInv, Shape, Creates, Changes, Puts
<1>3. UNCHANGED <<rows, user, client, values, cached, ops, spoilt>>
  BY DEF CacheList, directoryHistory, tables
<1>4. /\ DOMAIN list' = Kinds /\ list'[k] = NewList(q) /\ \A j \in Kinds \ {k} : list'[j] = list[j]
  BY <1>2 DEF CacheList, DInv, StateInv, DirectoryTypeOK
<1>5. DOMAIN req = Handlers
  BY DEF DInv, ReqInv
<1>6. req' = [req EXCEPT ![r] = IF More(q) THEN [q EXCEPT !.step = "after"] ELSE NoOp]
  BY DEF CacheList
<1>7. /\ DOMAIN req' = Handlers /\ \A s \in Handlers \ {r} : req'[s] = req[s]
      /\ ~More(q) => req'[r] = NoOp
      /\ More(q) => req'[r] = [q EXCEPT !.step = "after"]
  BY <1>5, <1>6
<1>8. More(q) =>
          /\ DOMAIN req'[r] = Fields /\ req'[r].step = "after" /\ req'[r] # NoOp
          /\ req'[r].op = q.op /\ req'[r].kind = q.kind /\ req'[r].old = q.old
          /\ req'[r].new = q.new /\ req'[r].copy = q.copy /\ req'[r].holder = q.holder
  <2> SUFFICES ASSUME More(q)
               PROVE  /\ DOMAIN req'[r] = Fields /\ req'[r].step = "after" /\ req'[r] # NoOp
                      /\ req'[r].op = q.op /\ req'[r].kind = q.kind /\ req'[r].old = q.old
                      /\ req'[r].new = q.new /\ req'[r].copy = q.copy /\ req'[r].holder = q.holder
    OBVIOUS
  <2>1. req'[r].step = "after" /\ NoOp.step = "idle"
    BY <1>2, <1>7 DEF Fields, NoOp
  <2> QED BY <1>2, <1>7, <2>1 DEF Fields
<1>9. More(q) => Shape(req'[r])
  BY <1>2, <1>8, NextStep DEF Creates, Changes
<1>10. ReqInv'
  BY <1>7, <1>9, ReqStep DEF DInv
<1>11. StateInv'
  BY <1>3, <1>4 DEF DInv, StateInv, DirectoryTypeOK, WellFormed, Names, Row
<1>12. ASSUME NEW t \in Tables \ Uses(k) PROVE SameTable(t)
  <2>1. t # k
    BY <1>2, UsesOf DEF Kinds
  <2> QED BY <1>3, <1>4, <2>1 DEF SameTable
<1>13. ASSUME NEW t \in Uses(k), Work(t, q)
       PROVE  /\ ~More(q) => Rest(t)'
              /\ More(q) => Work(t, req[r])'
  <2>1. t \in Tables
    BY <1>2, UsesTables DEF Tables
  <2>2. CASE t = k
    <3>1. WorkOwn(t, q) /\ t \notin {"user", "client", "values"}
      BY <1>2, <1>13, <2>2 DEF Work, Kinds
    <3>2. Ready(t, q)
      BY <1>1, <3>1 DEF WorkOwn
    <3>3. NewList(q) = rows[t]
      <4>1. CASE q.op = "create"
        BY <2>2, <3>2, <4>1 DEF Ready, NewList
      <4>2. CASE q.op # "create"
        <5>1. rows[t] = NewRows(FindAll(t), q)
          BY <3>2, <4>2 DEF Ready
        <5>2. NewList(q) = NewRows(FindAll(t), q)
          BY <2>2, <4>2 DEF NewList
        <5> QED BY <5>1, <5>2
      <4> QED BY <4>1, <4>2
    <3>4. ListRight(t)'
      BY <1>3, <1>4, <2>2, <3>3 DEF ListRight
    <3>5. t = "scopes" /\ ~More(q) => KnownRight'
      BY <1>3, <3>1 DEF WorkOwn, KnownRight, Names
    <3>6. ~More(q) => Rest(t)'
      BY <3>1, <3>4, <3>5 DEF Rest
    <3>7. More(q) => More(req'[r])
      BY <1>8 DEF More
    <3>8. More(q) => WorkOwn(t, req[r])'
      BY <1>8, <3>4, <3>7 DEF WorkOwn, More
    <3> QED BY <1>2, <1>8, <2>2, <3>1, <3>6, <3>8 DEF Work
  <2>3. CASE t = "scopes" /\ k = "attrs"
    <3>1. KnownRight /\ ListRight("scopes")
      BY <1>1, <1>13, <2>3 DEF Work, WorkMappings, Kinds
    <3>2. list'["scopes"] = list["scopes"]
      BY <1>4, <2>3 DEF Kinds
    <3>3. KnownRight' /\ ListRight("scopes")'
      BY <1>3, <3>1, <3>2 DEF KnownRight, ListRight, Names
    <3>4. Rest(t)'
      BY <2>3, <3>3 DEF Rest, Kinds
    <3>5. More(q) => Work(t, req[r])'
      BY <1>8, <2>3, <3>3 DEF Work, WorkMappings, Kinds
    <3> QED BY <3>4, <3>5
  <2>4. CASE t \in Kinds /\ t # k /\ ~(t = "scopes" /\ k = "attrs")
    <3>1. SameTable(t)
      BY <1>3, <1>4, <2>4 DEF SameTable, Kinds
    <3>2. Rest(t)
      BY <1>13, <2>4 DEF Work
    <3>3. Rest(t)'
      BY <2>1, <3>1, <3>2, SameRest
    <3>4. More(q) => Work(t, req[r])'
      BY <1>8, <1>13, <2>4, <3>1, WorkReads
    <3> QED BY <3>3, <3>4
  <2>5. CASE t = "user"
    <3>1. k \in {"roles", "groups"}
      BY <1>2, <1>13, <2>5, UsesOf DEF Kinds
    <3>2. ~More(q)
      BY <3>1 DEF More
    <3> QED BY <1>1, <1>3, <1>13, <2>5, <3>2 DEF Rest, Work, WorkUser, UserRight, Kinds
  <2>6. CASE t = "client"
    <3>1. ClientRight
      BY <1>1, <1>13, <2>6 DEF Work, WorkClient
    <3>2. ClientRight'
      BY <1>3, <3>1 DEF ClientRight
    <3> QED BY <1>8, <2>6, <3>2 DEF Rest, Work, WorkClient, Kinds
  <2>7. CASE t = "values"
    <3>1. k = "attrs"
      BY <1>2, <1>13, <2>7, UsesOf DEF Kinds
    <3>2. WorkValues(q)
      BY <1>13, <2>7 DEF Work
    <3>3. ~More(q) => ValuesRight'
      BY <1>1, <1>3, <3>1, <3>2 DEF WorkValues, ValuesRight, More
    <3>4. More(q) => WorkValues(req[r])'
      BY <1>1, <1>3, <1>8, <3>2 DEF WorkValues, ValuesRight
    <3> QED BY <2>7, <3>3, <3>4 DEF Rest, Work, Kinds
  <2> QED BY <2>1, <2>2, <2>3, <2>4, <2>5, <2>6, <2>7 DEF Tables
<1>14. BusyInv' /\ TableInv'
  <2> HIDE DEF q, k
  <2>1. req'[r] = NoOp <=> ~More(q)
    BY <1>7, <1>8
  <2> QED BY <1>1, <1>3, <1>7, <1>8, <1>12, <1>13, <2>1, TablesStep DEF q, k
<1> QED BY <1>10, <1>11, <1>14 DEF DInv

\* WellKnown::rebuild, or the values of a renamed attribute are dropped, and the request ends.
LEMMA AfterInv ==
    ASSUME DInv, NEW r \in Handlers, After(r)
    PROVE  DInv'
<1> DEFINE q == req[r]
           k == q.kind
<1>1. Working(r) /\ q.step = "after"
  BY AtStep DEF After
<1>2. Shape(q) /\ k \in {"scopes", "attrs"} /\ q.op \in {"create", "delete", "rename"} /\ (k = "attrs" => q.op = "rename")
  BY <1>1 DEF DInv, ReqInv, Shape, Creates, Changes, Puts, More
<1>3. UNCHANGED <<rows, user, client, values, ops, spoilt>> /\ req' = [req EXCEPT ![r] = NoOp]
  BY DEF After, directoryHistory, tables
<1>4. DOMAIN req' = Handlers /\ req'[r] = NoOp /\ \A s \in Handlers \ {r} : req'[s] = req[s]
  BY <1>1, <1>3, EndOf DEF DInv
<1>5. ReqInv'
  BY <1>4, ReqStep DEF DInv
<1>6. DOMAIN cached = CacheNames /\ DOMAIN list = Kinds
  BY DEF DInv, StateInv, DirectoryTypeOK
<1>7. k = "scopes" =>
          /\ DOMAIN list' = Kinds /\ DOMAIN cached' = CacheNames
          /\ cached'.wellknown = Names(FindAll("scopes"))
          /\ \A c \in CacheNames \ {"wellknown"} : cached'[c] = cached[c]
          /\ list'["scopes"] = FindAll("scopes") /\ \A j \in Kinds \ {"scopes"} : list'[j] = list[j]
  BY <1>6 DEF After, CacheNames, Filled, Kinds
<1>8. k = "attrs" =>
          /\ list' = list /\ DOMAIN cached' = CacheNames
          /\ cached'.values = IF q.old.name \in q.copy THEN Null ELSE cached.values
          /\ \A c \in CacheNames \ {"values"} : cached'[c] = cached[c]
  BY <1>6 DEF After, CacheNames
<1>9. StateInv'
  <2>1. DOMAIN list' = Kinds /\ DOMAIN cached' = CacheNames
    BY <1>2, <1>6, <1>7, <1>8
  <2> QED BY <1>3, <2>1 DEF DInv, StateInv, DirectoryTypeOK, WellFormed, Names, Row
<1>10. ASSUME NEW t \in Tables \ Uses(k) PROVE SameTable(t)
  BY <1>2, <1>3, <1>7, <1>8, UsesOf DEF SameTable, CacheNames, Tables, Kinds
<1>11. ASSUME NEW t \in Uses(k), Work(t, q) PROVE Rest(t)'
  <2>1. t \in Tables
    BY <1>2, UsesTables DEF Tables, Kinds
  <2>2. CASE t = k
    <3>1. WorkOwn(t, q) /\ t \in Kinds /\ t \notin {"user", "client", "values"}
      BY <1>2, <1>11, <2>2 DEF Work, Kinds
    <3>2. ListRight(t)
      BY <1>1, <3>1 DEF WorkOwn
    <3>3. FindAll(t) = rows[t]
      BY <3>2 DEF FindAll, ListRight
    <3>4. ListRight(t)' /\ (t = "scopes" => KnownRight')
      BY <1>2, <1>3, <1>7, <1>8, <2>2, <3>2, <3>3 DEF ListRight, KnownRight, Names
    <3> QED BY <3>1, <3>4 DEF Rest
  <2>3. CASE t = "scopes" /\ k = "attrs"
    <3>1. KnownRight /\ ListRight("scopes")
      BY <1>1, <1>11, <2>3 DEF Work, WorkMappings, Kinds
    <3> QED BY <1>3, <1>8, <2>3, <3>1 DEF KnownRight, ListRight, Names, Rest, Kinds, CacheNames
  <2>4. CASE t \in Kinds /\ t # k /\ ~(t = "scopes" /\ k = "attrs")
    <3>1. t = "attrs" /\ k = "scopes"
      BY <1>2, <1>11, <2>4, UsesOf DEF Kinds
    <3>2. SameTable(t)
      BY <1>3, <1>7, <3>1 DEF SameTable, Kinds
    <3>3. Rest(t)
      BY <1>11, <2>4 DEF Work
    <3> QED BY <2>1, <3>2, <3>3, SameRest
  <2>5. CASE t = "user"
    BY <1>2, <1>11, <2>5, UsesOf
  <2>6. CASE t = "client"
    <3>1. k = "scopes" /\ ClientRight
      BY <1>1, <1>2, <1>11, <2>6, UsesOf DEF Work, WorkClient
    <3> QED BY <1>3, <1>7, <2>6, <3>1 DEF Rest, ClientRight, Kinds, CacheNames
  <2>7. CASE t = "values"
    <3>1. k = "attrs" /\ WorkValues(q)
      BY <1>2, <1>11, <2>7, UsesOf DEF Work
    <3>2. ValuesRight'
      BY <1>1, <1>2, <1>3, <1>8, <3>1 DEF WorkValues, ValuesRight
    <3> QED BY <2>7, <3>2 DEF Rest, Kinds
  <2> QED BY <2>1, <2>2, <2>3, <2>4, <2>5, <2>6, <2>7 DEF Tables
<1>12. BusyInv' /\ TableInv'
  <2> HIDE DEF q, k
  <2> QED BY <1>1, <1>3, <1>4, <1>10, <1>11, TablesStep DEF q, k
<1> QED BY <1>5, <1>9, <1>12 DEF DInv

\* The tables that a request which only assigns names does not write
LEMMA PutReads ==
    ASSUME NEW r \in Handlers, NEW t \in Kinds, SameTable(t), req[r].kind \in {"user", "client", "values"},
           req'[r] = NoOp \/ req'[r].kind = req[r].kind, Work(t, req[r])
    PROVE  IF req'[r] = NoOp THEN Rest(t)' ELSE Work(t, req[r])'
<1>1. t # req[r].kind /\ t \in Tables
  BY DEF Kinds, Tables
<1>2. Rest(t)
  BY <1>1 DEF Work
<1>3. Rest(t)'
  BY <1>1, <1>2, SameRest
<1>4. req'[r].kind = req[r].kind => Work(t, req[r])'
  BY <1>1, WorkReads
<1> QED BY <1>3, <1>4

\* The row of a user, a client or a value is written.
LEMMA WriteRowInv ==
    ASSUME DInv, NEW r \in Handlers, WriteRow(r)
    PROVE  DInv'
<1> DEFINE q == req[r]
           k == q.kind
<1>1. Working(r) /\ q.step = "row"
  BY AtStep DEF WriteRow
<1>2. Shape(q) /\ k \in {"user", "client", "values"} /\ q.op \in {"put", "delete"} /\ DOMAIN q = Fields
  BY <1>1 DEF DInv, ReqInv, Shape, Creates, Changes, Puts
<1>3. UNCHANGED <<rows, list, cached, ops, spoilt>>
  BY DEF WriteRow
<1>4. /\ k = "user" => user' = q.holder /\ UNCHANGED <<client, values>>
      /\ k = "client" => client' = q.holder /\ UNCHANGED <<user, values>>
      /\ k = "values" => UNCHANGED <<user, client>>
  BY DEF WriteRow
<1>5. k \in {"user", "client"} => req' = [req EXCEPT ![r].step = "cache"]
  BY DEF WriteRow
<1>6. k = "values" =>
         \/ /\ q.op = "delete" \/ q.new \in rows["attrs"]
            /\ values' = IF q.op = "put" THEN values \cup {q.new.name} ELSE values \ {q.new.name}
            /\ req' = [req EXCEPT ![r] = [q EXCEPT !.step = "cache", !.holder = values']]
         \/ req' = [req EXCEPT ![r] = NoOp] /\ values' = values
  BY DEF WriteRow
<1>7. DOMAIN req = Handlers
  BY DEF DInv, ReqInv
<1>8. DOMAIN req' = Handlers /\ \A s \in Handlers \ {r} : req'[s] = req[s]
  BY <1>2, <1>5, <1>6, <1>7
<1>9. k \in {"user", "client"} =>
         /\ DOMAIN req'[r] = Fields /\ req'[r].step = "cache" /\ req'[r] # NoOp
         /\ req'[r].op = q.op /\ req'[r].kind = q.kind /\ req'[r].old = q.old /\ req'[r].new = q.new
         /\ req'[r].holder = q.holder
  BY <1>1, <1>5, StepTo DEF DInv
<1>10. k = "values" =>
         \/ /\ DOMAIN req'[r] = Fields /\ req'[r].step = "cache" /\ req'[r] # NoOp
            /\ req'[r].op = q.op /\ req'[r].kind = q.kind /\ req'[r].old = q.old /\ req'[r].new = q.new
            /\ req'[r].holder = values'
         \/ req'[r] = NoOp /\ values' = values
  <2> SUFFICES ASSUME k = "values",
                      req' = [req EXCEPT ![r] = [q EXCEPT !.step = "cache", !.holder = values']]
               PROVE  /\ DOMAIN req'[r] = Fields /\ req'[r].step = "cache" /\ req'[r] # NoOp
                      /\ req'[r].op = q.op /\ req'[r].kind = q.kind /\ req'[r].old = q.old /\ req'[r].new = q.new
                      /\ req'[r].holder = values'
    BY <1>6, <1>7
  <2>1. req'[r] = [q EXCEPT !.step = "cache", !.holder = values']
    BY <1>7
  <2>2. req'[r].step = "cache" /\ NoOp.step = "idle"
    BY <1>2, <2>1 DEF Fields, NoOp
  <2>3. DOMAIN req'[r] = Fields
    BY <1>2, <2>1
  <2>4. req'[r].op = q.op /\ req'[r].kind = q.kind
    BY <1>2, <2>1 DEF Fields
  <2>5. req'[r].old = q.old /\ req'[r].new = q.new
    BY <1>2, <2>1 DEF Fields
  <2>6. req'[r].holder = values'
    BY <1>2, <2>1 DEF Fields
  <2> QED BY <2>2, <2>3, <2>4, <2>5, <2>6
<1>11. req'[r] = NoOp \/ (Shape(req'[r]) /\ req'[r].kind = q.kind /\ req'[r].step = "cache")
  <2>1. ASSUME DOMAIN req'[r] = Fields, req'[r].step = "cache", req'[r].op = q.op, req'[r].kind = q.kind,
               req'[r].old = q.old, req'[r].new = q.new, req'[r].holder = q.holder \/ q.kind = "values"
        PROVE  Shape(req'[r])
    <3>1. Puts(req'[r])
      BY <1>2, <2>1 DEF Puts
    <3> QED BY <1>2, <2>1, <3>1, NextStep
  <2> QED BY <1>2, <1>9, <1>10, <2>1
<1>12. ReqInv'
  BY <1>8, <1>11, ReqStep DEF DInv
<1>13. StateInv'
  <2>1. DOMAIN user' = {"roles", "groups"} /\ DOMAIN client' = {"scopes", "default_scopes"}
    <3>1. DOMAIN user = {"roles", "groups"} /\ DOMAIN client = {"scopes", "default_scopes"}
      BY DEF DInv, StateInv, DirectoryTypeOK
    <3> QED BY <1>2, <1>4, <3>1 DEF Shape
  <2>2. values' \subseteq Names(rows["attrs"])
    <3>1. values \subseteq Names(rows["attrs"])
      BY DEF DInv, StateInv, DirectoryTypeOK
    <3>2. k \in {"user", "client"} => values' = values
      BY <1>4
    <3> QED BY <1>2, <1>6, <3>1, <3>2 DEF Names
  <2> QED BY <1>3, <2>1, <2>2 DEF DInv, StateInv, DirectoryTypeOK, WellFormed, Names, Row
<1>14. ASSUME NEW t \in Kinds PROVE SameTable(t)
  BY <1>3 DEF SameTable, Kinds
<1>15. ASSUME NEW t \in Tables \ Uses(k) PROVE SameTable(t)
  <2>1. t # k
    BY <1>2, UsesOf
  <2> QED BY <1>2, <1>3, <1>4, <1>14, <2>1 DEF SameTable, Tables
<1>16. ASSUME NEW t \in Uses(k), Work(t, q)
       PROVE  IF req'[r] = NoOp THEN Rest(t)' ELSE Work(t, req[r])'
  <2>1. t \in Kinds \/ t = k
    BY <1>2, <1>16, UsesOf DEF Kinds
  <2>2. CASE t \in Kinds
    BY <1>2, <1>11, <1>14, <1>16, <2>2, PutReads
  <2>3. CASE t = k /\ k = "user"
    BY <1>4, <1>9, <2>3 DEF Work, WorkUser, Kinds
  <2>4. CASE t = k /\ k = "client"
    BY <1>4, <1>9, <2>4 DEF Work, WorkClient, Kinds
  <2>5. CASE t = k /\ k = "values"
    <3>1. ValuesRight
      BY <1>1, <1>16, <2>5 DEF Work, WorkValues
    <3>2. CASE req'[r] = NoOp
      <4>1. values' = values
        BY <1>10, <2>5, <3>2
      <4> QED BY <1>3, <2>5, <3>1, <3>2, <4>1 DEF Rest, ValuesRight, Kinds
    <3>3. CASE req'[r] # NoOp
      BY <1>10, <2>5, <3>3 DEF Work, WorkValues, Kinds
    <3> QED BY <3>2, <3>3
  <2> QED BY <1>2, <2>1, <2>2, <2>3, <2>4, <2>5
<1>17. BusyInv' /\ TableInv'
  <2> HIDE DEF q, k
  <2>1. \A t \in Uses(k) \ spoilt' :
            IF req'[r] = NoOp THEN Work(t, q) => Rest(t)' ELSE Work(t, q) => Work(t, req[r])'
    BY <1>16
  <2> QED BY <1>1, <1>3, <1>8, <1>11, <1>15, <2>1, TablesStep DEF q, k
<1> QED BY <1>12, <1>13, <1>17 DEF DInv

\* The copy that was written is cached.
LEMMA CacheRowInv ==
    ASSUME DInv, NEW r \in Handlers, CacheRow(r)
    PROVE  DInv'
<1> DEFINE q == req[r]
           k == q.kind
<1>1. Working(r) /\ q.step = "cache"
  BY AtStep DEF CacheRow
<1>2. Shape(q) /\ k \in {"user", "client", "values"}
  BY <1>1 DEF DInv, ReqInv, Shape, Creates, Changes, Puts
<1>3. UNCHANGED <<rows, user, client, values, list, ops, spoilt>> /\ req' = [req EXCEPT ![r] = NoOp]
  BY DEF CacheRow, tables, directoryHistory
<1>4. DOMAIN req' = Handlers /\ req'[r] = NoOp /\ \A s \in Handlers \ {r} : req'[s] = req[s]
  BY <1>1, <1>3, EndOf DEF DInv
<1>5. ReqInv'
  BY <1>4, ReqStep DEF DInv
<1>6. DOMAIN cached' = CacheNames /\ cached'[k] = q.holder /\ \A c \in CacheNames \ {k} : cached'[c] = cached[c]
  BY <1>2 DEF CacheRow, CacheNames, DInv, StateInv
<1>7. StateInv'
  BY <1>3, <1>6 DEF DInv, StateInv, DirectoryTypeOK, WellFormed, Names, Row
<1>8. ASSUME NEW t \in Kinds PROVE SameTable(t)
  BY <1>2, <1>3, <1>6 DEF SameTable, Kinds, CacheNames
<1>9. ASSUME NEW t \in Tables \ Uses(k) PROVE SameTable(t)
  <2>1. t # k
    BY <1>2, UsesOf
  <2> QED BY <1>2, <1>3, <1>6, <1>8, <2>1 DEF SameTable, Tables, CacheNames
<1>10. ASSUME NEW t \in Uses(k), Work(t, q) PROVE Rest(t)'
  <2>1. t \in Kinds \/ t = k
    BY <1>2, <1>10, UsesOf DEF Kinds
  <2>2. CASE t \in Kinds
    BY <1>2, <1>4, <1>8, <1>10, <2>2, PutReads
  <2>3. CASE t = k /\ k = "user"
    BY <1>1, <1>3, <1>6, <1>10, <2>3 DEF Work, WorkUser, UserRight, Rest, Kinds
  <2>4. CASE t = k /\ k = "client"
    BY <1>1, <1>3, <1>6, <1>10, <2>4 DEF Work, WorkClient, ClientRight, Rest, Kinds
  <2>5. CASE t = k /\ k = "values"
    BY <1>1, <1>3, <1>6, <1>10, <2>5 DEF Work, WorkValues, ValuesRight, Rest, Kinds
  <2> QED BY <1>2, <2>1, <2>2, <2>3, <2>4, <2>5
<1>11. BusyInv' /\ TableInv'
  <2> HIDE DEF q, k
  <2> QED BY <1>1, <1>3, <1>4, <1>9, <1>10, TablesStep DEF q, k
<1> QED BY <1>5, <1>7, <1>11 DEF DInv

\* A request fails: before its first write its tables are at rest, afterwards they are spoilt.
LEMMA FailInv ==
    ASSUME DInv, NEW r \in Handlers, Fail(r)
    PROVE  DInv'
<1> DEFINE q == req[r]
           k == q.kind
<1>1. Working(r) /\ req' = [req EXCEPT ![r] = NoOp] /\ UNCHANGED <<rows, user, client, values, list, cached, ops>>
  BY DEF Fail, Working, tables
<1>2. spoilt' = IF q.step \in {"insert", "row", "save"} THEN spoilt ELSE spoilt \cup Uses(k)
  BY DEF Fail
<1>3. DOMAIN req' = Handlers /\ req'[r] = NoOp /\ Shape(q) /\ \A s \in Handlers \ {r} : req'[s] = req[s]
  BY <1>1, EndOf DEF DInv
<1>4. ReqInv'
  BY <1>3, ReqStep DEF DInv
<1>5. StateInv'
  BY <1>1 DEF DInv, StateInv, DirectoryTypeOK, WellFormed, Names, Row
<1>6. ASSUME NEW t \in Tables PROVE SameTable(t)
  BY <1>1 DEF SameTable
<1>7. ASSUME NEW t \in Uses(k) \ spoilt', Work(t, q) PROVE Rest(t)'
  <2>1. t \in Tables /\ q.step \in {"insert", "row", "save"}
    BY <1>2, <1>3, KindOf, UsesTables
  <2>2. Rest(t)
    BY <1>3, <1>7, <2>1, WorkRest
  <2> QED BY <1>6, <2>1, <2>2, SameRest
<1>8. BusyInv' /\ TableInv'
  <2>1. spoilt \subseteq spoilt'
    BY <1>2
  <2> HIDE DEF q, k
  <2> QED BY <1>1, <1>3, <1>6, <1>7, <2>1, TablesStep DEF q, k
<1> QED BY <1>4, <1>5, <1>8 DEF DInv

-----------------------------------------------------------------------------
\* Steps of no request

\* A step outside of the requests has to keep the tables at rest and the work on them.
LEMMA TablesOther ==
    ASSUME DInv, req' = req, spoilt \subseteq spoilt',
           \A t \in Tables \ spoilt' :
               /\ t \notin InUse /\ Rest(t) => Rest(t)'
               /\ \A s \in Handlers : Working(s) /\ t \in Uses(req[s].kind) /\ Work(t, req[s]) => Work(t, req[s])'
    PROVE  ReqInv' /\ BusyInv' /\ TableInv'
<1>1. ReqInv'
  BY DEF DInv, ReqInv, Working, Shape, Creates, Changes, Puts, More, IsRow, IsAttr, Row
<1>2. BusyInv'
  <2> SUFFICES ASSUME NEW t \in Tables \ spoilt', NEW a \in Handlers, NEW b \in Handlers,
                      Working(a)', Working(b)', t \in Uses(req'[a].kind), t \in Uses(req'[b].kind)
               PROVE  a = b
    BY DEF BusyInv, Uses
  <2>1. Working(a) /\ Working(b) /\ t \in Uses(req[a].kind) /\ t \in Uses(req[b].kind)
    BY DEF Working
  <2> QED BY <2>1 DEF DInv, BusyInv
<1>3. ASSUME NEW t \in Tables \ spoilt'
      PROVE  /\ t \notin InUse' => Rest(t)'
             /\ \A s \in Handlers : Working(s)' /\ t \in Uses(req'[s].kind) => Work(t, req[s])'
  <2>1. t \in Tables \ spoilt
    OBVIOUS
  <2>2. InUse' = InUse
    BY DEF InUse, Uses
  <2>3. \A s \in Handlers : Working(s)' <=> Working(s)
    BY DEF Working
  <2>4. t \notin InUse => Rest(t)
    BY <2>1 DEF DInv, TableInv
  <2>5. \A s \in Handlers : Working(s) /\ t \in Uses(req[s].kind) => Work(t, req[s])
    BY <2>1 DEF DInv, TableInv
  <2>6. t \notin InUse /\ Rest(t) => Rest(t)'
    OBVIOUS
  <2>7. \A s \in Handlers : Working(s) /\ t \in Uses(req[s].kind) /\ Work(t, req[s]) => Work(t, req[s])'
    OBVIOUS
  <2> QED BY <2>2, <2>3, <2>4, <2>5, <2>6, <2>7
<1>4. TableInv'
  BY <1>3 DEF TableInv, Uses
<1> QED BY <1>1, <1>2, <1>4

\* A read fills the cache from a table at rest, or spoils it.
LEMMA ReadInv ==
    ASSUME DInv, NEW c \in DOMAIN cached, Read(c)
    PROVE  DInv'
<1> DEFINE t0 == IF c = "wellknown" THEN "scopes" ELSE c
<1>1. /\ UNCHANGED <<rows, user, client, values, req>> /\ ops < MaxOps /\ ops' = ops + 1
      /\ list' = IF c = "wellknown" THEN Filled({"scopes"}) ELSE list
  BY DEF Read, tables
<1>2. spoilt' = spoilt \cup ({t0} \cap InUse)
  BY DEF Read
<1>3. DOMAIN cached = CacheNames /\ DOMAIN list = Kinds /\ c \in CacheNames
  BY DEF DInv, StateInv, DirectoryTypeOK
<1>4. /\ DOMAIN cached' = CacheNames /\ \A d \in CacheNames \ {c} : cached'[d] = cached[d]
      /\ c = "user" => cached'.user = user
      /\ c = "client" => cached'.client = client
      /\ c = "values" => cached'.values = values
      /\ c = "wellknown" => cached'.wellknown = Names(FindAll("scopes"))
  BY <1>3 DEF Read, CacheNames
<1>5. /\ DOMAIN list' = Kinds /\ \A k \in Kinds \ {t0} : list'[k] = list[k]
      /\ t0 = "scopes" => list'["scopes"] = FindAll("scopes") /\ c = "wellknown"
  BY <1>1, <1>3 DEF Filled, CacheNames, Kinds
<1>6. StateInv'
  <2>1. ops \in 0 .. MaxOps
    BY DEF DInv, StateInv, DirectoryTypeOK
  <2>2. ops' \in 0 .. MaxOps
    BY <1>1, <2>1, InitialOK
  <2> QED BY <1>1, <1>4, <1>5, <2>2 DEF DInv, StateInv, DirectoryTypeOK, WellFormed, Names, Row
<1>7. t0 \in {"user", "client", "values", "scopes"}
  BY <1>3 DEF CacheNames
<1>8. ASSUME NEW t \in Tables \ spoilt'
      PROVE  /\ t \notin InUse /\ Rest(t) => Rest(t)'
             /\ \A s \in Handlers : Working(s) /\ t \in Uses(req[s].kind) /\ Work(t, req[s]) => Work(t, req[s])'
  <2>1. CASE t # t0
    <3>1. SameTable(t)
      <4>1. t \in Kinds => list'[t] = list[t]
        BY <1>5, <2>1
      <4>2. /\ t = "scopes" => c # "wellknown" /\ "wellknown" \in CacheNames
            /\ t = "user" => c # "user" /\ "user" \in CacheNames
            /\ t = "client" => c # "client" /\ "client" \in CacheNames
            /\ t = "values" => c # "values" /\ "values" \in CacheNames
        BY <2>1 DEF CacheNames
      <4> QED BY <1>1, <1>4, <4>1, <4>2 DEF SameTable
    <3>2. Rest(t) => Rest(t)'
      BY <3>1, SameRest
    <3>3. \A s \in Handlers : Work(t, req[s]) => Work(t, req[s])'
      BY <1>1, <3>1, SameWork
    <3> QED BY <3>2, <3>3
  <2>2. CASE t = t0
    <3>1. t \notin InUse
      BY <1>2, <2>2
    <3>2. \A s \in Handlers : ~(Working(s) /\ t \in Uses(req[s].kind))
      BY <3>1, InUseIff
    <3>3. ASSUME Rest(t) PROVE Rest(t)'
      <4>1. CASE t = "scopes"
        <5>1. ListRight("scopes") /\ c = "wellknown"
          BY <1>5, <2>2, <3>3, <4>1 DEF Rest, Kinds
        <5>2. FindAll("scopes") = rows["scopes"]
          BY <5>1 DEF FindAll, ListRight
        <5>3. ListRight("scopes")' /\ KnownRight'
          BY <1>1, <1>4, <1>5, <2>2, <4>1, <5>1, <5>2 DEF ListRight, KnownRight, Names
        <5> QED BY <4>1, <5>3 DEF Rest, Kinds
      <4>2. CASE t = "user"
        <5>1. c = "user"
          BY <2>2, <4>2
        <5> QED BY <1>1, <1>4, <4>2, <5>1 DEF Rest, UserRight, Kinds
      <4>3. CASE t = "client"
        <5>1. c = "client"
          BY <2>2, <4>3
        <5> QED BY <1>1, <1>4, <4>3, <5>1 DEF Rest, ClientRight, Kinds
      <4>4. CASE t = "values"
        <5>1. c = "values"
          BY <2>2, <4>4
        <5> QED BY <1>1, <1>4, <4>4, <5>1 DEF Rest, ValuesRight, Kinds
      <4> QED BY <1>7, <2>2, <4>1, <4>2, <4>3, <4>4
    <3> QED BY <3>2, <3>3
  <2> QED BY <2>1, <2>2
<1>9. ReqInv' /\ BusyInv' /\ TableInv'
  <2>1. spoilt \subseteq spoilt'
    BY <1>2
  <2> HIDE DEF t0
  <2> QED BY <1>1, <1>8, <2>1, TablesOther
<1> QED BY <1>6, <1>9 DEF DInv

\* A list that expires is read again from the table.
LEMMA ExpireInv ==
    ASSUME DInv, NEW k \in Kinds, Expire(k)
    PROVE  DInv'
<1>1. /\ UNCHANGED <<rows, user, client, values, cached, req, spoilt>> /\ ops < MaxOps /\ ops' = ops + 1
  BY DEF Expire, tables
<1>2. DOMAIN list' = Kinds /\ list'[k] = Null /\ \A j \in Kinds \ {k} : list'[j] = list[j]
  BY DEF Expire, DInv, StateInv, DirectoryTypeOK
<1>3. StateInv'
  <2>1. ops \in 0 .. MaxOps
    BY DEF DInv, StateInv, DirectoryTypeOK
  <2>2. ops' \in 0 .. MaxOps
    BY <1>1, <2>1, InitialOK
  <2> QED BY <1>1, <1>2, <2>2 DEF DInv, StateInv, DirectoryTypeOK, WellFormed, Names, Row
<1>4. ASSUME NEW t \in Tables \ spoilt'
      PROVE  /\ t \notin InUse /\ Rest(t) => Rest(t)'
             /\ \A s \in Handlers : Working(s) /\ t \in Uses(req[s].kind) /\ Work(t, req[s]) => Work(t, req[s])'
  <2>1. CASE t # k
    <3>1. SameTable(t)
      BY <1>1, <1>2, <2>1 DEF SameTable
    <3>2. Rest(t) => Rest(t)'
      BY <3>1, SameRest
    <3>3. \A s \in Handlers : Work(t, req[s]) => Work(t, req[s])'
      BY <1>1, <3>1, SameWork
    <3> QED BY <3>2, <3>3
  <2>2. CASE t = k
    <3>1. ListRight(t)' /\ FindAll(t)' = rows'[t] /\ t \notin {"user", "client", "values"}
      BY <1>2, <2>2 DEF ListRight, FindAll, Kinds
    <3>2. KnownRight => KnownRight'
      BY <1>1 DEF KnownRight, Names
    <3>3. Rest(t) => Rest(t)'
      BY <2>2, <3>1, <3>2 DEF Rest
    <3>4. ASSUME NEW s \in Handlers, Work(t, req[s]) PROVE Work(t, req[s])'
      <4>1. req'[s] = req[s] /\ rows' = rows
        BY <1>1
      <4>2. ASSUME WorkOwn(t, req[s]) PROVE WorkOwn(t, req[s])'
        <5>1. \A l : NewRows(l, req'[s]) = NewRows(l, req[s])
          BY <4>1
        <5>2. Ready(t, req[s]) => Ready(t, req[s])'
          BY <3>1, <4>1, <5>1 DEF Ready
        <5>3. More(req[s])' <=> More(req[s])
          BY <4>1 DEF More
        <5>4. (req[s].step # "list" => ListRight(t))' /\ (req[s].step = "list" => Ready(t, req[s]))'
          BY <3>1, <4>1, <4>2, <5>2 DEF WorkOwn
        <5>5. (req[s].step = "insert" /\ t # "attrs" => req[s].copy = rows[t])'
          BY <4>1, <4>2 DEF WorkOwn
        <5>6. ASSUME t = "scopes"
              PROVE  /\ (req[s].step \in {"insert", "save", "commit"} \/ ~More(req[s]) => KnownRight)'
                     /\ (req[s].step \in {"save", "commit"} /\ req[s].op = "rename" => req[s].old \in rows["scopes"])'
          BY <3>2, <4>1, <4>2, <5>3, <5>6 DEF WorkOwn
        <5> QED BY <5>4, <5>5, <5>6 DEF WorkOwn
      <4>3. t = "scopes" /\ WorkMappings(req[s]) => WorkMappings(req[s])'
        BY <1>2, <2>2, <3>1, <3>2, <4>1 DEF WorkMappings
      <4> QED BY <3>1, <3>3, <3>4, <4>1, <4>2, <4>3 DEF Work
    <3> QED BY <3>3, <3>4
  <2> QED BY <2>1, <2>2
<1>5. ReqInv' /\ BusyInv' /\ TableInv'
  BY <1>1, <1>4, TablesOther
<1> QED BY <1>3, <1>5 DEF DInv

\* Nothing is cached at the start.
LEMMA DirectoryInitInv == DirectoryInit => DInv
<1> SUFFICES ASSUME DirectoryInit PROVE DInv
  OBVIOUS
<1>1. \A r \in Handlers : ~Working(r)
  BY DEF DirectoryInit, Working
<1>2. StateInv
  BY InitialOK DEF DirectoryInit, StateInv, DirectoryTypeOK, CacheNames
<1>3. ReqInv
  BY <1>1 DEF DirectoryInit, ReqInv
<1>4. BusyInv
  BY <1>1 DEF BusyInv
<1>5. TableInv
  <2> SUFFICES ASSUME NEW t \in Tables PROVE Rest(t)
    BY <1>1 DEF TableInv
  <2> QED BY DEF DirectoryInit, Rest, ListRight, KnownRight, UserRight, ClientRight, ValuesRight
<1> QED BY <1>2, <1>3, <1>4, <1>5 DEF DInv

\* DInv is an invariant: a table is right in every cache or in the hands of one request,
\* unless two overlapped or one failed.
THEOREM DirectoryInvariant == DirectorySpec => []DInv
<1>1. DirectoryInit => DInv
  BY DirectoryInitInv
<1>2. DInv /\ [DirectoryNext]_directoryVars => DInv'
  <2> SUFFICES ASSUME DInv, [DirectoryNext]_directoryVars PROVE DInv'
    OBVIOUS
  <2>1. CASE UNCHANGED directoryVars
    <3>1. UNCHANGED <<rows, user, client, values, list, cached, req, ops, spoilt>>
      BY <2>1 DEF directoryVars, tables, directoryHistory
    <3>2. StateInv'
      BY <3>1 DEF DInv, StateInv, DirectoryTypeOK, WellFormed, Names, Row
    <3>3. ASSUME NEW t \in Tables PROVE SameTable(t)
      BY <3>1 DEF SameTable
    <3>4. ASSUME NEW t \in Tables
          PROVE  (Rest(t) => Rest(t)') /\ \A s \in Handlers : Work(t, req[s]) => Work(t, req[s])'
      BY <3>1, <3>3, SameRest, SameWork
    <3>5. ReqInv' /\ BusyInv' /\ TableInv'
      BY <3>1, <3>4, TablesOther
    <3> QED BY <3>2, <3>5 DEF DInv
  <2>2. ASSUME NEW r \in Handlers, Step(r) \/ Fail(r) PROVE DInv'
    BY <2>2, InsertInv, SaveInv, CommitInv, CacheListInv, AfterInv, WriteRowInv, CacheRowInv, FailInv DEF Step
  <2>3. ASSUME NEW r \in Handlers, RoleRequest(r) \/ GroupRequest(r) PROVE DInv'
    BY <2>3, CreateRoleInv, UpdateRoleInv, DeleteRoleInv, UpdateGroupInv, DeleteGroupInv
       DEF RoleRequest, GroupRequest, CreateGroup
  <2>4. ASSUME NEW r \in Handlers, ScopeRequest(r) PROVE DInv'
    BY <2>4, CreateScopeInv, UpdateScopeInv, DeleteScopeInv DEF ScopeRequest
  <2>5. ASSUME NEW r \in Handlers, AttrRequest(r) PROVE DInv'
    BY <2>5, CreateAttrInv, UpdateAttrInv, DeleteAttrInv DEF AttrRequest
  <2>6. ASSUME NEW r \in Handlers, NEW name \in NewNames["attrs"], NEW set \in BOOLEAN, UpdateValue(r, name, set)
        PROVE  DInv'
    BY <2>6, UpdateValueInv
  <2>7. ASSUME NEW r \in Handlers, NEW want \in UserRequests, UpdateUser(r, want[1], want[2]) PROVE DInv'
    BY <2>7, UpdateUserInv
  <2>8. ASSUME NEW r \in Handlers, NEW want \in ClientRequests, UpdateClient(r, want[1], want[2]) PROVE DInv'
    BY <2>8, UpdateClientInv
  <2>9. ASSUME NEW c \in DOMAIN cached, Read(c) PROVE DInv'
    BY <2>9, ReadInv
  <2>10. ASSUME NEW k \in Kinds, Expire(k) PROVE DInv'
    BY <2>10, ExpireInv
  <2> QED BY <2>1, <2>2, <2>3, <2>4, <2>5, <2>6, <2>7, <2>8, <2>9, <2>10 DEF DirectoryNext
<1> QED BY <1>1, <1>2, PTL DEF DirectorySpec

-----------------------------------------------------------------------------
\* The attributes that the cached list has twice

AttrIds == {x.id : x \in rows["attrs"]}

\* A request has changed the table of attributes and will write the list next.
Listing(r) == req[r].step = "list" /\ req[r].kind = "attrs"

\* What will be twice in it, at most
Later(q) == IF q.op = "create" THEN twice \cup {q.new.id} ELSE NewTwice(q)

\* An attribute that is twice in the list exists, or the request that has deleted or
\* renamed it is about to write the list.
TwiceInv ==
    "attrs" \notin spoilt =>
        IF \E r \in Handlers : Listing(r)
        THEN \A r \in Handlers : Listing(r) => Later(req[r]) \subseteq AttrIds
        ELSE twice \subseteq AttrIds

\* Nothing to show when no request begins or stops to write the list.
LEMMA TwiceKept ==
    ASSUME TwiceInv, rows'["attrs"] = rows["attrs"], twice' = twice, spoilt \subseteq spoilt',
           \A s \in Handlers : (Listing(s)' <=> Listing(s)) /\ (Listing(s) => req'[s] = req[s])
    PROVE  TwiceInv'
<1>1. AttrIds' = AttrIds
  BY DEF AttrIds
<1>2. \A s \in Handlers : Listing(s) /\ req[s].kind = "attrs" => Later(req[s])' = Later(req[s])
  BY DEF Later, NewTwice, Listing
<1> QED BY <1>1, <1>2 DEF TwiceInv, Listing

\* A request that begins is not about to write a list.
LEMMA TwiceBegin ==
    ASSUME TwiceInv, DOMAIN req = Handlers, NEW r \in Handlers, NEW op, Begin(r, op),
           op.step \in {"insert", "save", "row"}, UNCHANGED rows
    PROVE  TwiceInv'
<1>1. DOMAIN req' = Handlers /\ req'[r] = op /\ \A s \in Handlers \ {r} : req'[s] = req[s]
  BY DEF Begin
<1>2. req[r].step = "idle" /\ twice' = twice /\ spoilt \subseteq spoilt'
  BY DEF Begin, NoOp
<1>3. \A s \in Handlers : (Listing(s)' <=> Listing(s)) /\ (Listing(s) => req'[s] = req[s])
  BY <1>1, <1>2 DEF Listing
<1> QED BY <1>2, <1>3, TwiceKept

\* The requests of administrators begin so.
LEMMA TwiceRequest ==
    ASSUME TwiceInv, DOMAIN req = Handlers, NEW r \in Handlers,
           \/ RoleRequest(r) \/ GroupRequest(r) \/ ScopeRequest(r) \/ AttrRequest(r)
           \/ \E name \in NewNames["attrs"], set \in BOOLEAN : UpdateValue(r, name, set)
           \/ \E want \in UserRequests : UpdateUser(r, want[1], want[2])
           \/ \E want \in ClientRequests : UpdateClient(r, want[1], want[2])
    PROVE  TwiceInv'
<1>1. ASSUME NEW op, NEW k, NEW st, NEW old, NEW new, NEW copy, NEW holder,
             st \in {"insert", "save", "row"}, Begin(r, Op(op, k, st, old, new, copy, holder)), UNCHANGED rows
      PROVE  TwiceInv'
  <2>1. Op(op, k, st, old, new, copy, holder).step = st
    BY DEF Op
  <2> QED BY <1>1, <2>1, TwiceBegin
<1>2. ASSUME NEW k, NEW name, CreateRole(r, k, name) PROVE TwiceInv'
  BY <1>1, <1>2 DEF CreateRole, tables
<1>3. ASSUME NEW x, DeleteRole(r, x) PROVE TwiceInv'
  BY <1>1, <1>3 DEF DeleteRole, tables
<1>4. ASSUME NEW x, DeleteGroup(r, x) PROVE TwiceInv'
  BY <1>1, <1>4 DEF DeleteGroup, tables
<1>7. ASSUME NEW x, NEW name, UpdateRole(r, x, name) PROVE TwiceInv'
  BY <1>1, <1>7 DEF UpdateRole, tables
<1>8. ASSUME NEW x, NEW name, UpdateGroup(r, x, name) PROVE TwiceInv'
  BY <1>1, <1>8 DEF UpdateGroup, tables
<1>9. ASSUME NEW name, NEW w, CreateScope(r, name, w) PROVE TwiceInv'
  BY <1>1, <1>9 DEF CreateScope, tables
<1>10. ASSUME NEW x, NEW name, NEW w, UpdateScope(r, x, name, w) PROVE TwiceInv'
  BY <1>1, <1>10 DEF UpdateScope, tables
<1>11. ASSUME NEW x, DeleteScope(r, x) PROVE TwiceInv'
  BY <1>1, <1>11 DEF DeleteScope, tables
<1>12. ASSUME NEW name, CreateAttr(r, name) \/ DeleteAttr(r, name) PROVE TwiceInv'
  BY <1>1, <1>12 DEF CreateAttr, DeleteAttr, tables
<1>13. ASSUME NEW old, NEW name, UpdateAttr(r, old, name) PROVE TwiceInv'
  BY <1>1, <1>13 DEF UpdateAttr, tables
<1>5. ASSUME NEW name, NEW set, UpdateValue(r, name, set) PROVE TwiceInv'
  BY <1>1, <1>5 DEF UpdateValue, tables
<1>6. ASSUME NEW a, NEW b, UpdateUser(r, a, b) \/ UpdateClient(r, a, b) PROVE TwiceInv'
  BY <1>1, <1>6 DEF UpdateUser, UpdateClient, tables
<1>14. RoleRequest(r) \/ GroupRequest(r) => TwiceInv'
  BY <1>2, <1>3, <1>4, <1>7, <1>8 DEF RoleRequest, GroupRequest, CreateGroup
<1>15. ScopeRequest(r) \/ AttrRequest(r) => TwiceInv'
  BY <1>9, <1>10, <1>11, <1>12, <1>13 DEF ScopeRequest, AttrRequest
<1> QED BY <1>5, <1>6, <1>14, <1>15

\* The steps that neither change the table of attributes nor write its list
LEMMA TwiceOther ==
    ASSUME DInv, TwiceInv, NEW r \in Handlers,
           \/ Save(r) \/ After(r) \/ WriteRow(r) \/ CacheRow(r) \/ Fail(r)
    PROVE  TwiceInv'
<1>1. DOMAIN req = Handlers /\ (req[r].step # "idle" => Shape(req[r])) /\ rows' = rows /\ twice' = twice
  BY AtStep DEF DInv, ReqInv, Save, After, WriteRow, CacheRow, Fail, tables
<1>2. CASE Fail(r)
  <2>1. /\ DOMAIN req' = Handlers /\ req'[r] = NoOp /\ \A s \in Handlers \ {r} : req'[s] = req[s]
        /\ spoilt \subseteq spoilt'
    BY <1>1, <1>2 DEF Fail
  <2>2. CASE Listing(r)
    <3>1. spoilt' = spoilt \cup Uses("attrs")
      BY <1>2, <2>2 DEF Fail, Listing
    <3> QED BY <3>1, UsesOf DEF TwiceInv
  <2>3. CASE ~Listing(r)
    <3>1. NoOp.step = "idle"
      BY DEF NoOp
    <3>2. \A s \in Handlers : (Listing(s)' <=> Listing(s)) /\ (Listing(s) => req'[s] = req[s])
      BY <2>1, <2>3, <3>1 DEF Listing
    <3> QED BY <1>1, <2>1, <3>2, TwiceKept
  <2> QED BY <2>2, <2>3
<1>3. CASE Save(r) \/ After(r) \/ WriteRow(r) \/ CacheRow(r)
  <2>1. spoilt' = spoilt /\ req[r].step \in {"save", "after", "row", "cache"}
    BY <1>3 DEF Save, After, WriteRow, CacheRow, directoryHistory
  <2>2. DOMAIN req[r] = Fields
    BY <1>1, <2>1, KindOf
  <2>3. DOMAIN req' = Handlers /\ (\A s \in Handlers \ {r} : req'[s] = req[s]) /\ req'[r].step # "list"
    <3>1. CASE Save(r)
      BY <1>1, <2>2, <3>1 DEF Save, Fields
    <3>2. CASE After(r) \/ CacheRow(r)
      BY <1>1, <3>2 DEF After, CacheRow, NoOp
    <3>3. CASE WriteRow(r)
      <4>1. \/ req' = [req EXCEPT ![r] = NoOp] \/ req' = [req EXCEPT ![r].step = "cache"]
            \/ req' = [req EXCEPT ![r] = [req[r] EXCEPT !.step = "cache", !.holder = values']]
        BY <3>3 DEF WriteRow
      <4>2. CASE req' = [req EXCEPT ![r] = NoOp]
        BY <1>1, <4>2 DEF NoOp
      <4>3. CASE req' = [req EXCEPT ![r].step = "cache"]
        BY <1>1, <2>2, <4>3 DEF Fields
      <4>4. CASE req' = [req EXCEPT ![r] = [req[r] EXCEPT !.step = "cache", !.holder = values']]
        <5>1. [req[r] EXCEPT !.step = "cache", !.holder = values'].step = "cache"
          BY <2>2 DEF Fields
        <5> QED BY <1>1, <4>4, <5>1
      <4> QED BY <4>1, <4>2, <4>3, <4>4
    <3> QED BY <1>3, <3>1, <3>2, <3>3
  <2>4. \A s \in Handlers : (Listing(s)' <=> Listing(s)) /\ (Listing(s) => req'[s] = req[s])
    BY <2>1, <2>3 DEF Listing
  <2> QED BY <1>1, <2>1, <2>4, TwiceKept
<1> QED BY <1>2, <1>3

\* No two requests for attributes write the list of a table that is not spoilt.
LEMMA OneListing ==
    ASSUME DInv, "attrs" \notin spoilt, NEW r \in Handlers, NEW s \in Handlers, req[r].step # "idle",
           req[r].kind = "attrs", Listing(s)
    PROVE  r = s
<1>1. Working(r) /\ Working(s) /\ req[s].kind = "attrs"
  BY AtStep DEF Listing
<1>2. "attrs" \in Uses(req[r].kind) /\ "attrs" \in Uses(req[s].kind) /\ "attrs" \in Tables
  BY <1>1, UsesOf DEF Tables, Kinds
<1> QED BY <1>1, <1>2 DEF DInv, BusyInv

\* The insert adds the attribute that may be pushed twice.
LEMMA TwiceInsert ==
    ASSUME DInv, TwiceInv, NEW r \in Handlers, Insert(r)
    PROVE  TwiceInv'
<1>1. Working(r) /\ req[r].step = "insert" /\ UNCHANGED <<twice, spoilt>>
  BY AtStep DEF Insert, directoryHistory
<1>2. DOMAIN req = Handlers /\ Shape(req[r]) /\ DOMAIN req[r] = Fields /\ req[r].kind \in Kinds /\ req[r].op = "create"
  BY <1>1, KindOf DEF DInv, ReqInv, Shape, Creates, Changes, Puts
<1>3. CASE rows' = [rows EXCEPT ![req[r].kind] = @ \cup {req[r].new}] /\ req' = [req EXCEPT ![r].step = "list"]
  <2>1. /\ DOMAIN req' = Handlers /\ \A s \in Handlers \ {r} : req'[s] = req[s]
        /\ req'[r].step = "list" /\ req'[r].op = "create" /\ req'[r].kind = req[r].kind /\ req'[r].new = req[r].new
    BY <1>1, <1>2, <1>3, StepTo DEF DInv
  <2>2. CASE req[r].kind # "attrs"
    <3>1. rows'["attrs"] = rows["attrs"]
      BY <1>3, <2>2 DEF DInv, StateInv, DirectoryTypeOK, WellFormed, Kinds
    <3>2. \A s \in Handlers : (Listing(s)' <=> Listing(s)) /\ (Listing(s) => req'[s] = req[s])
      BY <2>1, <2>2 DEF Listing
    <3> QED BY <1>1, <3>1, <3>2, TwiceKept
  <2>3. CASE req[r].kind = "attrs" /\ "attrs" \notin spoilt
    <3>1. rows'["attrs"] = rows["attrs"] \cup {req[r].new}
      BY <1>3, <2>3 DEF DInv, StateInv, DirectoryTypeOK, WellFormed, Kinds
    <3>2. \A s \in Handlers : Listing(s) => s = r
      BY <1>1, <2>3, OneListing
    <3>3. twice \subseteq AttrIds
      BY <1>1, <2>3, <3>2 DEF TwiceInv, Listing
    <3>4. \A s \in Handlers : Listing(s)' => s = r
      BY <2>1, <3>2 DEF Listing
    <3>5. Later(req[r])' \subseteq AttrIds'
      BY <1>1, <2>1, <3>1, <3>3 DEF Later, AttrIds
    <3>6. Listing(r)'
      BY <2>1, <2>3 DEF Listing
    <3> QED BY <3>4, <3>5, <3>6 DEF TwiceInv
  <2> QED BY <1>1, <2>2, <2>3 DEF TwiceInv
<1>4. CASE req' = [req EXCEPT ![r] = NoOp] /\ UNCHANGED rows
  <2>1. DOMAIN req' = Handlers /\ req'[r].step = "idle" /\ \A s \in Handlers \ {r} : req'[s] = req[s]
    BY <1>2, <1>4 DEF NoOp
  <2>2. \A s \in Handlers : (Listing(s)' <=> Listing(s)) /\ (Listing(s) => req'[s] = req[s])
    BY <1>1, <2>1 DEF Listing
  <2> QED BY <1>1, <1>4, <2>2, TwiceKept
<1> QED BY <1>3, <1>4 DEF Insert

\* The commit deletes or renames the attribute that the new list will not have twice any more.
LEMMA TwiceCommit ==
    ASSUME DInv, TwiceInv, NEW r \in Handlers, Commit(r)
    PROVE  TwiceInv'
<1>1. /\ Working(r) /\ req[r].step = "commit" /\ UNCHANGED <<twice, spoilt>>
      /\ req' = [req EXCEPT ![r].step = "list"]
  BY AtStep DEF Commit, directoryHistory
<1>2. Shape(req[r]) /\ req[r].kind \in Kinds /\ req[r].op \in {"delete", "rename"}
  BY <1>1 DEF DInv, ReqInv, Shape, Creates, Changes, Puts
<1>3. /\ DOMAIN req' = Handlers /\ \A s \in Handlers \ {r} : req'[s] = req[s]
      /\ req'[r].step = "list" /\ req'[r].op = req[r].op /\ req'[r].kind = req[r].kind
      /\ req'[r].old = req[r].old /\ req'[r].new = req[r].new
  BY <1>1, StepTo DEF DInv
<1>4. CASE req[r].kind # "attrs"
  <2>1. rows'["attrs"] = rows["attrs"]
    BY <1>4 DEF Commit, Kinds
  <2>2. \A s \in Handlers : (Listing(s)' <=> Listing(s)) /\ (Listing(s) => req'[s] = req[s])
    BY <1>3, <1>4 DEF Listing
  <2> QED BY <1>1, <2>1, <2>2, TwiceKept
<1>5. CASE req[r].kind = "attrs" /\ "attrs" \notin spoilt
  <2>1. rows'["attrs"] = NewRows(rows["attrs"], req[r])
    BY <1>5 DEF Commit, Kinds
  <2>2. \A s \in Handlers : Listing(s) => s = r
    BY <1>1, <1>5, OneListing
  <2>3. twice \subseteq AttrIds
    BY <1>1, <1>5, <2>2 DEF TwiceInv, Listing
  <2>4. \A s \in Handlers : Listing(s)' => s = r
    BY <1>3, <2>2 DEF Listing
  <2>5. CASE req[r].op = "delete"
    <3>1. Later(req[r])' = twice \ {req[r].old.id}
      BY <1>1, <1>3, <1>5, <2>5 DEF Later, NewTwice
    <3>2. AttrIds' = AttrIds \ {req[r].old.id}
      BY <2>1, <2>5 DEF AttrIds, NewRows
    <3> QED BY <1>3, <1>5, <2>3, <2>4, <3>1, <3>2 DEF TwiceInv, Listing
  <2>6. CASE req[r].op = "rename"
    <3>1. Later(req[r])' = IF req[r].old.id \notin twice THEN twice \ {req[r].old.id}
                           ELSE (twice \ {req[r].old.id}) \cup {req[r].new.id}
      BY <1>1, <1>3, <1>5, <2>6 DEF Later, NewTwice
    <3>2. rows'["attrs"] = {IF x.id = req[r].old.id THEN req[r].new ELSE x : x \in rows["attrs"]}
      BY <2>1, <2>6 DEF NewRows
    <3>3. \A i \in AttrIds : IF i = req[r].old.id THEN req[r].new.id \in AttrIds' ELSE i \in AttrIds'
      BY <3>2 DEF AttrIds
    <3>4. Later(req[r])' \subseteq AttrIds'
      BY <2>3, <3>1, <3>3
    <3> QED BY <1>3, <1>5, <2>4, <3>4 DEF TwiceInv, Listing
  <2> QED BY <1>2, <2>5, <2>6
<1> QED BY <1>1, <1>4, <1>5 DEF TwiceInv

\* The list is written.
LEMMA TwiceCacheList ==
    ASSUME DInv, TwiceInv, NEW r \in Handlers, CacheList(r)
    PROVE  TwiceInv'
<1>1. /\ Working(r) /\ req[r].step = "list" /\ UNCHANGED <<rows, spoilt>> /\ twice' = NewTwice(req[r])
      /\ req' = [req EXCEPT ![r] = IF More(req[r]) THEN [req[r] EXCEPT !.step = "after"] ELSE NoOp]
  BY AtStep DEF CacheList, directoryHistory, tables
<1>2. DOMAIN req = Handlers /\ DOMAIN req[r] = Fields
  BY <1>1, KindOf DEF DInv, ReqInv
<1>3. DOMAIN req' = Handlers /\ (\A s \in Handlers \ {r} : req'[s] = req[s]) /\ req'[r].step # "list"
  BY <1>1, <1>2 DEF NoOp, Fields
<1>4. CASE req[r].kind # "attrs"
  <2>1. twice' = twice
    BY <1>1, <1>4 DEF NewTwice
  <2>2. \A s \in Handlers : (Listing(s)' <=> Listing(s)) /\ (Listing(s) => req'[s] = req[s])
    BY <1>3, <1>4 DEF Listing
  <2> QED BY <1>1, <2>1, <2>2, TwiceKept
<1>5. CASE req[r].kind = "attrs" /\ "attrs" \notin spoilt
  <2>1. Later(req[r]) \subseteq AttrIds
    BY <1>1, <1>5 DEF TwiceInv, Listing
  <2>2. twice' \subseteq Later(req[r])
    BY <1>1, <1>5 DEF Later, NewTwice
  <2>3. \A s \in Handlers : Listing(s) => s = r
    BY <1>1, <1>5, OneListing
  <2>4. \A s \in Handlers : ~Listing(s)'
    BY <1>3, <2>3 DEF Listing
  <2>5. AttrIds' = AttrIds
    BY <1>1 DEF AttrIds
  <2> QED BY <2>1, <2>2, <2>4, <2>5 DEF TwiceInv
<1> QED BY <1>1, <1>4, <1>5 DEF TwiceInv

\* A list that expires has nothing twice.
LEMMA TwiceExpire ==
    ASSUME TwiceInv, NEW k \in Kinds, Expire(k)
    PROVE  TwiceInv'
<1>1. UNCHANGED <<rows, req, spoilt>> /\ twice' = IF k = "attrs" THEN {} ELSE twice
  BY DEF Expire, tables
<1>2. CASE k # "attrs"
  <2>1. \A s \in Handlers : (Listing(s)' <=> Listing(s)) /\ (Listing(s) => req'[s] = req[s])
    BY <1>1 DEF Listing
  <2> QED BY <1>1, <1>2, <2>1, TwiceKept
<1>3. CASE k = "attrs"
  <2>1. twice' = {} /\ AttrIds' = AttrIds
    BY <1>1, <1>3 DEF AttrIds
  <2>2. ASSUME NEW s \in Handlers, Listing(s), Later(req[s]) \subseteq AttrIds
        PROVE  Later(req[s])' \subseteq AttrIds'
    BY <1>1, <2>1, <2>2 DEF Later, NewTwice, Listing
  <2> QED BY <1>1, <2>1, <2>2 DEF TwiceInv, Listing
<1> QED BY <1>2, <1>3

\* TwiceInv is an invariant.
LEMMA TwiceAlways == DirectorySpec => []TwiceInv
<1>1. DirectoryInit => TwiceInv
  BY DEF DirectoryInit, TwiceInv, Listing, NoOp
<1>2. DInv /\ TwiceInv /\ [DirectoryNext]_directoryVars => TwiceInv'
  <2> SUFFICES ASSUME DInv, TwiceInv, [DirectoryNext]_directoryVars PROVE TwiceInv'
    OBVIOUS
  <2>1. CASE UNCHANGED directoryVars
    <3>1. UNCHANGED <<rows, twice, req, spoilt>>
      BY <2>1 DEF directoryVars, tables, directoryHistory
    <3>2. \A s \in Handlers : (Listing(s)' <=> Listing(s)) /\ (Listing(s) => req'[s] = req[s])
      BY <3>1 DEF Listing
    <3> QED BY <3>1, <3>2, TwiceKept
  <2>2. ASSUME NEW r \in Handlers, Step(r) \/ Fail(r) PROVE TwiceInv'
    BY <2>2, TwiceInsert, TwiceOther, TwiceCommit, TwiceCacheList DEF Step
  <2>3. ASSUME NEW r \in Handlers,
               \/ RoleRequest(r) \/ GroupRequest(r) \/ ScopeRequest(r) \/ AttrRequest(r)
               \/ \E name \in NewNames["attrs"], set \in BOOLEAN : UpdateValue(r, name, set)
               \/ \E want \in UserRequests : UpdateUser(r, want[1], want[2])
               \/ \E want \in ClientRequests : UpdateClient(r, want[1], want[2])
        PROVE  TwiceInv'
    BY <2>3, TwiceRequest DEF DInv, ReqInv
  <2>4. ASSUME NEW c \in DOMAIN cached, Read(c) PROVE TwiceInv'
    <3>1. UNCHANGED <<rows, twice, req>> /\ spoilt \subseteq spoilt'
      BY <2>4 DEF Read, tables
    <3>2. \A s \in Handlers : (Listing(s)' <=> Listing(s)) /\ (Listing(s) => req'[s] = req[s])
      BY <3>1 DEF Listing
    <3> QED BY <3>1, <3>2, TwiceKept
  <2>5. ASSUME NEW k \in Kinds, Expire(k) PROVE TwiceInv'
    BY <2>5, TwiceExpire
  <2> QED BY <2>1, <2>2, <2>3, <2>4, <2>5 DEF DirectoryNext
<1> QED BY <1>1, <1>2, DirectoryInvariant, PTL DEF DirectorySpec

\* The tables are well-formed: an id names one row, and no value is left without its
\* attribute (the foreign key of user_attr_values), whatever requests overlap or fail.
THEOREM DirectoryTypeCorrect == DirectorySpec => []DirectoryTypeOK
<1>1. DInv => DirectoryTypeOK
  BY DEF DInv, StateInv
<1> QED BY <1>1, DirectoryInvariant, PTL

\* After any number of requests, each list, user, client, set of values and the well-known
\* document in a cache has what the tables hold, and an attribute that is twice in its
\* list exists, unless requests for these tables
\* overlapped or failed midway (roles.rs, groups.rs, scopes.rs, user_attr.rs, well_known.rs).
THEOREM DirectoryCachesAgree == DirectorySpec => []CachesAgree
<1>1. DInv /\ TwiceInv => CachesAgree
  <2> SUFFICES ASSUME DInv, TwiceInv PROVE CachesAgree
    OBVIOUS
  <2>1. \A t \in Tables : t \notin spoilt \cup InUse => Rest(t)
    BY DEF DInv, TableInv
  <2>2. \A ts : Quiet(ts) => \A t \in ts : t \notin spoilt \cup InUse
    BY DEF Quiet
  <2>3. ASSUME NEW k \in Kinds, Quiet({k}) PROVE list[k] \in {Null, rows[k]}
    BY <2>1, <2>2, <2>3 DEF Rest, ListRight, Tables
  <2>4. Quiet({"user"}) => cached.user \in {Null, user}
    BY <2>1, <2>2 DEF Rest, UserRight, Tables
  <2>5. Quiet({"client"}) => cached.client \in {Null, client}
    BY <2>1, <2>2 DEF Rest, ClientRight, Tables
  <2>6. Quiet({"values", "attrs"}) => cached.values \in {Null, values}
    BY <2>1, <2>2 DEF Rest, ValuesRight, Tables
  <2>7. Quiet({"scopes"}) => cached.wellknown \in {Null, Names(rows["scopes"])}
    BY <2>1, <2>2 DEF Rest, KnownRight, Tables, Kinds
  <2>8. ASSUME Quiet({"attrs"}) PROVE twice \subseteq {x.id : x \in rows["attrs"]}
    <3>1. "attrs" \notin spoilt /\ "attrs" \notin InUse
      BY <2>2, <2>8
    <3>2. \A r \in Handlers : ~Listing(r)
      BY <3>1, InUseIff, AtStep, UsesOf DEF Listing
    <3> QED BY <3>1, <3>2 DEF TwiceInv, AttrIds
  <2> QED BY <2>3, <2>4, <2>5, <2>6, <2>7, <2>8 DEF CachesAgree
<1> QED BY <1>1, DirectoryInvariant, TwiceAlways, PTL
=============================================================================
