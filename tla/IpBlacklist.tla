---------------------------- MODULE IpBlacklist -----------------------------
(***************************************************************************)
(* Failed logins and the blacklist of IPs.                                 *)
(*                                                                         *)
(* On each node one task (ip_blacklist_handler::run) owns the blacklist    *)
(* and the counters of failed logins; an expiry checker wakes it up and is *)
(* aborted when the blacklist is empty.  A failed login counts itself with *)
(* a LoginCheck and then sends events (handle_login_delay).  Each event is *)
(* published by a task of its own (EventListener::listen), to the router   *)
(* of this node, or in HA mode through Postgres to the routers of all      *)
(* nodes that are listening, and the router forwards it to the handler.    *)
(*                                                                         *)
(* The handler's channel is FIFO and everything that touches its maps goes *)
(* through it, so a message is taken to be handled when it is sent.  That  *)
(* a request is dropped while it waits for the answer of the handler and   *)
(* the running average of the login time are left out.                     *)
(***************************************************************************)
EXTENDS Integers, Sequences, FiniteSets

CONSTANTS
    Nodes,
    Ha,          \* HA_MODE; a single node without it
    Ips,
    Requests,    \* concurrently executing logins
    Thresholds,  \* failed logins in a row that blacklist: 7, 10, 15, 20
    Always,      \* from here on every failed login blacklists: 25
    BlockFor,    \* how long: 60, 600, 900, 3600 and 86400 seconds
    BlockUntil,  \* the times an administrator may block an IP until
    None,
    Faults,      \* which of "restarted" and "disconnected" may happen to nodes
    MaxFails,    \* bound on the failed logins per IP
    MaxPending,  \* bound on the pending events when an admin sends another one
    StopTime,    \* requests start before that,
    MaxTime      \* and the clock goes on until all blacklistings have expired

Levels == Thresholds \cup {Always}

ASSUME IpBlacklistAssumption ==
    /\ Thresholds \subseteq Nat \ {0} /\ Always \in Nat \ {0}
    /\ \A t \in Thresholds : t < Always
    /\ BlockFor \in [Levels -> Nat] /\ BlockUntil \subseteq Nat
    /\ None \notin Nat
    /\ Ha \in BOOLEAN /\ (~Ha => Cardinality(Nodes) = 1)
    /\ Faults \subseteq {"restarted", "disconnected"}
    /\ MaxFails \in Nat /\ MaxPending \in Nat /\ StopTime \in Nat /\ MaxTime \in Nat

VARIABLES
    now,
    blacklist,  \* data_blacklist of each node: IP -> exp or None
    failed,     \* data_failed_logins of each node: IP -> counter or None
    checker,    \* the expiry checker of each node
    login,      \* per login: its step and the counter it was answered
    tasks,      \* events that are not published yet
    router,     \* the channel of each node's router
    listening,  \* the nodes whose router gets events
    failures,   \* history: failed logins of an IP
    announced,  \* history: <<ip, level>> a failed login has blacklisted
    faults      \* history: whether a node was restarted or disconnected

maps == <<blacklist, failed>>
history == <<failures, announced, faults>>
vars == <<now, maps, checker, login, tasks, router, listening, history>>

\* struct Event, as far as the router looks at it
Event == [node : Nodes, typ : {"InvalidLogins", "IpBlacklisted", "IpBlacklistRemoved"},
          ip : Ips, data : Nat]
Idle == [step |-> "idle"]
Running == [step : {"login", "answer"}, node : Nodes, ip : Ips, count : Nat]

\* tx_events.send_async, and the task that listen spawns for each event; equal
\* events that are pending at the same time are one
Send(new) == tasks' = tasks \cup new

-----------------------------------------------------------------------------
\* handle_login_delay

Blocked(n, ip) == blacklist[n][ip] # None /\ blacklist[n][ip] > now

\* The blacklist middleware lets a request pass.
Request(r, n, ip) ==
    /\ login[r] = Idle /\ now < StopTime
    /\ ~Blocked(n, ip)
    /\ login' = [login EXCEPT ![r] = [step |-> "login", node |-> n, ip |-> ip, count |-> 0]]
    /\ UNCHANGED <<now, maps, checker, tasks, router, listening, history>>

\* A success: IpBlacklistReq::LoginFailedDelete
LoginSucceeds(r) ==
    /\ login[r].step = "login"
    /\ failed' = [failed EXCEPT ![login[r].node][login[r].ip] = None]
    /\ login' = [login EXCEPT ![r] = Idle]
    /\ UNCHANGED <<now, blacklist, checker, tasks, router, listening, failures, announced,
                   faults>>

\* An error that is not delayed: nothing is counted.
LoginEndsUncounted(r) ==
    /\ login[r].step = "login"
    /\ login' = [login EXCEPT ![r] = Idle]
    /\ UNCHANGED <<now, maps, checker, tasks, router, listening, history>>

\* IpBlacklistReq::LoginCheck with increase_counter
Counted(n, ip) == IF failed[n][ip] = None THEN 1 ELSE failed[n][ip] + 1

LevelsAtExclusive(count) == IF count > Always THEN {Always} ELSE Thresholds \cap {count}

\* The level at which a counter blacklists
LevelsAt(count) == IF count >= Always THEN {Always} ELSE Thresholds \cap {count}

LoginFails(r) ==
    LET n == login[r].node
        ip == login[r].ip
        count == Counted(n, ip)
    IN  /\ login[r].step = "login"
        /\ failures[ip] < MaxFails
        /\ failed' = [failed EXCEPT ![n][ip] = count]
        /\ login' = [login EXCEPT ![r] = [@ EXCEPT !.step = "answer", !.count = count]]
        /\ failures' = [failures EXCEPT ![ip] = @ + 1]
        /\ UNCHANGED <<now, blacklist, checker, tasks, router, listening, announced, faults>>

\* Event::invalid_login, and Event::ip_blacklisted at the thresholds
Answer(r) ==
    LET n == login[r].node
        ip == login[r].ip
        count == login[r].count
    IN  /\ login[r].step = "answer"
        /\ Send({[node |-> n, typ |-> "InvalidLogins", ip |-> ip,
                  data |-> count]}
                \cup {[node |-> n, typ |-> "IpBlacklisted", ip |-> ip,
                       data |-> now + BlockFor[l]] : l \in LevelsAt(count)})
        /\ announced' = announced \cup {<<ip, l>> : l \in LevelsAt(count)}
        /\ login' = [login EXCEPT ![r] = Idle]
        /\ UNCHANGED <<now, maps, checker, router, listening, failures, faults>>

-----------------------------------------------------------------------------
\* post_blacklist and delete_blacklist

MayPost ==
    /\ now < StopTime
    /\ \A n \in Nodes : Cardinality(tasks) + Len(router[n]) < MaxPending

PostBlacklist(n, ip, exp) ==
    /\ MayPost
    /\ Send({[node |-> n, typ |-> "IpBlacklisted", ip |-> ip, data |-> exp]})
    /\ UNCHANGED <<now, maps, checker, login, router, listening, history>>

DeleteBlacklist(n, ip) ==
    /\ MayPost
    /\ Send({[node |-> n, typ |-> "IpBlacklistRemoved", ip |-> ip, data |-> 0]})
    /\ UNCHANGED <<now, maps, checker, login, router, listening, history>>

-----------------------------------------------------------------------------
\* EventListener

PublishOnce(e) ==
    /\ tasks' = tasks \ {e}
    /\ \/ UNCHANGED router
       \/ router' = [n \in Nodes |-> IF n \in listening THEN Append(router[n], e) ELSE router[n]]
    /\ UNCHANGED <<now, maps, checker, login, listening, history>>

\* handle_event_si, handle_event_ha: the insert into the table and pg_notify are
\* repeated until they succeed; who is not listening misses the event.
Publish(e) ==
    /\ tasks' = tasks \ {e}
    /\ router' = [n \in Nodes |-> IF n \in listening THEN Append(router[n], e) ELSE router[n]]
    /\ UNCHANGED <<now, maps, checker, login, listening, history>>

\* IpBlacklistReq::LoginFailedSet
FailedSet(n, e) ==
    IF failed[n][e.ip] # None /\ failed[n][e.ip] > e.data THEN failed[n][e.ip] ELSE e.data

\* IpBlacklistReq::Blacklist starts a new checker if the last one has finished.
Started(n) == IF checker[n] = "finished" THEN "running" ELSE checker[n]

\* router, and what the handler does with the message the router forwards
Route(n) ==
    /\ router[n] # <<>>
    /\ router' = [router EXCEPT ![n] = Tail(@)]
    /\ LET e == Head(router[n])
       IN  \/ /\ e.typ = "InvalidLogins"
              /\ failed' = [failed EXCEPT ![n][e.ip] = FailedSet(n, e)]
              /\ UNCHANGED <<blacklist, checker>>
           \/ /\ e.typ = "IpBlacklisted"
              /\ blacklist' = [blacklist EXCEPT ![n][e.ip] = e.data]
              /\ checker' = [checker EXCEPT ![n] = Started(n)]
              /\ UNCHANGED failed
           \/ /\ e.typ = "IpBlacklistRemoved"
              /\ blacklist' = [blacklist EXCEPT ![n][e.ip] = None]
              /\ UNCHANGED <<failed, checker>>
    /\ UNCHANGED <<now, login, tasks, listening, history>>

\* pg_listener loses its connection, or opens a new one
Disconnect(n) ==
    /\ "disconnected" \in Faults
    /\ Ha /\ n \in listening
    /\ listening' = listening \ {n}
    /\ faults' = faults \cup {"disconnected"}
    /\ UNCHANGED <<now, maps, checker, login, tasks, router, failures, announced>>

Connect(n) ==
    /\ n \notin listening
    /\ listening' = listening \cup {n}
    /\ UNCHANGED <<now, maps, checker, login, tasks, router, history>>

-----------------------------------------------------------------------------
\* The expiry of entries

\* An entry is removed only once its time is over.
Left(n) == [ip \in Ips |-> IF blacklist[n][ip] # None /\ now > blacklist[n][ip]
                           THEN None ELSE blacklist[n][ip]]

CheckerAfterIdle(n) == IF Left(n) = blacklist[n] THEN "aborting" ELSE checker[n]

\* CheckExp aborts the checker when nothing is left.
CheckerAfter(n) == IF \A ip \in Ips : Left(n)[ip] = None THEN "aborting" ELSE checker[n]

\* spawn_exp_checker sends CheckExp, also while its abort is under way.
CheckExp(n) ==
    /\ checker[n] # "finished"
    /\ blacklist' = [blacklist EXCEPT ![n] = Left(n)]
    /\ checker' = [checker EXCEPT ![n] = CheckerAfter(n)]
    /\ UNCHANGED <<now, failed, login, tasks, router, listening, history>>

\* abort() only asks the task to stop: is_finished() holds some time later.
CheckerFinishes(n) ==
    /\ checker[n] = "aborting"
    /\ checker' = [checker EXCEPT ![n] = "finished"]
    /\ UNCHANGED <<now, maps, login, tasks, router, listening, history>>

-----------------------------------------------------------------------------
\* A node is restarted: all of this lives in memory.
Restart(n) ==
    /\ "restarted" \in Faults
    /\ blacklist' = [blacklist EXCEPT ![n] = [ip \in Ips |-> None]]
    /\ failed' = [failed EXCEPT ![n] = [ip \in Ips |-> None]]
    /\ checker' = [checker EXCEPT ![n] = "running"]
    /\ login' = [r \in Requests |->
                   IF login[r] # Idle /\ login[r].node = n THEN Idle ELSE login[r]]
    /\ tasks' = {e \in tasks : e.node # n}
    /\ router' = [router EXCEPT ![n] = <<>>]
    /\ listening' = IF Ha THEN listening \ {n} ELSE listening
    /\ faults' = faults \cup {"restarted"}
    /\ UNCHANGED <<now, failures, announced>>

\* The bound StopTime: no request is running any more when the clock goes on.
Tick ==
    /\ now < MaxTime
    /\ now = StopTime => \A r \in Requests : login[r] = Idle
    /\ now' = now + 1
    /\ UNCHANGED <<maps, checker, login, tasks, router, listening, history>>

Init ==
    /\ now = 0
    /\ blacklist = [n \in Nodes |-> [ip \in Ips |-> None]]
    /\ failed = [n \in Nodes |-> [ip \in Ips |-> None]]
    /\ checker = [n \in Nodes |-> "running"]
    /\ login = [r \in Requests |-> Idle]
    /\ tasks = {}
    /\ router = [n \in Nodes |-> <<>>]
    /\ listening = IF Ha THEN {} ELSE Nodes
    /\ failures = [ip \in Ips |-> 0]
    /\ announced = {} /\ faults = {}

LoginEnds(r) == LoginSucceeds(r) \/ LoginEndsUncounted(r) \/ LoginFails(r)

Next ==
    \/ \E r \in Requests, n \in Nodes, ip \in Ips : Request(r, n, ip)
    \/ \E r \in Requests : LoginEnds(r) \/ Answer(r)
    \/ \E n \in Nodes, ip \in Ips :
          DeleteBlacklist(n, ip) \/ \E exp \in BlockUntil : PostBlacklist(n, ip, exp)
    \/ \E e \in tasks : Publish(e)
    \/ \E n \in Nodes : \/ Route(n) \/ Disconnect(n) \/ Connect(n)
                        \/ CheckExp(n) \/ CheckerFinishes(n) \/ Restart(n)
    \/ Tick

Spec == Init /\ [][Next]_vars

\* The runtime polls every task that is ready; the clock goes on; a handler ends.
Fairness ==
    /\ \A r \in Requests : WF_vars(LoginEnds(r)) /\ WF_vars(Answer(r))
    /\ WF_vars(\E e \in tasks : Publish(e))
    /\ \A n \in Nodes :
          /\ WF_vars(Route(n))
          /\ WF_vars(checker[n] = "running" /\ CheckExp(n))
          /\ WF_vars(CheckerFinishes(n))
    /\ WF_vars(Tick)

FairSpec == Spec /\ Fairness

-----------------------------------------------------------------------------
\* The state is well-formed, and the answer to a failed login has counted it
\* (LoginCheck), whatever was reset or set meanwhile.
TypeOK ==
    /\ now \in Nat
    /\ blacklist \in [Nodes -> [Ips -> Nat \cup {None}]]
    /\ failed \in [Nodes -> [Ips -> Nat \cup {None}]]
    /\ checker \in [Nodes -> {"running", "aborting", "finished"}]
    /\ login \in [Requests -> {Idle} \cup Running]
    /\ \A r \in Requests : login[r].step = "answer" => login[r].count > 0
    /\ tasks \subseteq Event
    /\ router \in [Nodes -> Seq(Event)]
    /\ listening \subseteq Nodes
    /\ failures \in [Ips -> Nat]
    /\ announced \subseteq Ips \X Levels
    /\ faults \subseteq {"restarted", "disconnected"}

\* However the nodes exchange their counters, with lost, late and reordered
\* events: no counter says more than the failed logins there were
\* (LoginCheck, LoginFailedSet).
CounterBounded ==
    \A n \in Nodes, ip \in Ips : failed[n][ip] # None => failed[n][ip] <= failures[ip]

\* The thresholds blacklist on equality only, and events make counters jump:
\* still no counter gets past a threshold unless some login has blacklisted the
\* IP at this threshold, or is about to (handle_login_delay).  A node that is
\* restarted in between can lose that login.
ThresholdsAnnounced ==
    "restarted" \notin faults =>
        \A n \in Nodes, ip \in Ips, t \in Levels :
            failed[n][ip] # None /\ failed[n][ip] >= t =>
                \/ <<ip, t>> \in announced
                \/ \E r \in Requests : login[r] # Idle /\ login[r].ip = ip /\ login[r].count = t

\* A login that reaches a threshold gets its IP blacklisted on its node, unless
\* the node restarts or misses the event (handle_event_si, handle_event_ha).
ThresholdBlocks ==
    \A n \in Nodes, ip \in Ips :
        (\E r \in Requests : login[r].step = "answer" /\ login[r].node = n
                               /\ login[r].ip = ip /\ LevelsAt(login[r].count) # {})
            ~> (blacklist[n][ip] # None \/ faults # {} \/ n \notin listening)

\* As long as a checker is running, every entry goes in the end.
CheckedEntriesGo ==
    \A n \in Nodes, ip \in Ips :
        (blacklist[n][ip] # None /\ checker[n] = "running") ~> blacklist[n][ip] = None
=============================================================================
