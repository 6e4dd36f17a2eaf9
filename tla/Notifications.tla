--------------------------- MODULE Notifications ---------------------------
(***************************************************************************)
(* The outbox of notifications: handlers queue deliveries of an event to   *)
(* the team's routes, people configure and delete routes, and workers      *)
(* claim deliveries, send them and record what came of it.                 *)
(*                                                                         *)
(* Queueing reads the routes without a lock and inserts later, under a     *)
(* lock per route and event; the event may be queued again, under another  *)
(* idempotency key, by another handler.  A worker commits its claim before *)
(* it sends and its result after; it may stop in between, and its claim    *)
(* may be called stale while it is still sending: a batch is claimed at    *)
(* the one instant its cycle began, and sends of up to ten seconds each    *)
(* can outlast the five minutes after which another worker gives a claim   *)
(* up.  A message may arrive although its request failed.                  *)
(***************************************************************************)
EXTENDS Integers, FiniteSets

CONSTANTS
    Routes,
    Queuers,       \* handlers that queue the event
    Workers,
    MaxDeliveries, \* bound on the deliveries queued
    MaxVersion,    \* bound on the versions of a route
    MaxAttempts,   \* attempts of a delivery: 5 in the code
    None

ASSUME NotificationsAssumption ==
    /\ MaxDeliveries \in Nat /\ MaxVersion \in Nat \ {0} /\ MaxAttempts \in Nat \ {0}
    /\ None \notin Routes

Deliveries == 1 .. MaxDeliveries
Waiting == {"PENDING", "RETRY_WAIT"}
Settled == {"SENT", "OUTCOME_UNKNOWN", "DEAD_LETTER", "CANCELLED"}

VARIABLES
    enabled, subscribed, deleted, version,  \* of each route
    seen,      \* the routes a queuer read, with the version each had; None while it has not
    queued,    \* deliveries inserted
    route, routeVersion, status, attempts,  \* of each delivery
    due,       \* deliveries whose next attempt's time has come
    worker,    \* what each worker does: idle, sending, answered
    task,      \* the delivery it claimed, with the number of the attempt
    answer,    \* what its request came to
    arrived    \* how often each message reached its recipient

routeVars == <<enabled, subscribed, deleted, version>>
deliveryVars == <<queued, route, routeVersion, status, attempts, due>>
workerVars == <<worker, task, answer>>
vars == <<routeVars, seen, deliveryVars, workerVars, arrived>>

NoTask == [delivery |-> 0, attempt |-> 0]

Init ==
    /\ enabled \in SUBSET Routes /\ subscribed = Routes /\ deleted = {}
    /\ version = [r \in Routes |-> 1]
    /\ seen = [q \in Queuers |-> None]
    /\ queued = 0
    /\ route = [d \in Deliveries |-> None] /\ routeVersion = [d \in Deliveries |-> 0]
    /\ status = [d \in Deliveries |-> "NONE"] /\ attempts = [d \in Deliveries |-> 0]
    /\ due = {}
    /\ worker = [w \in Workers |-> "idle"] /\ task = [w \in Workers |-> NoTask]
    /\ answer = [w \in Workers |-> "none"]
    /\ arrived = [d \in Deliveries |-> 0]

-----------------------------------------------------------------------------
\* Routes.
Configure(r, on, subscribes) ==
    /\ r \notin deleted /\ version[r] < MaxVersion
    /\ enabled' = IF on THEN enabled \cup {r} ELSE enabled \ {r}
    /\ subscribed' = IF subscribes THEN subscribed \cup {r} ELSE subscribed \ {r}
    /\ version' = [version EXCEPT ![r] = @ + 1]
    /\ UNCHANGED <<deleted, seen, deliveryVars, workerVars, arrived>>

OnRoute(r, statuses) == {d \in 1 .. queued : route[d] = r /\ status[d] \in statuses}

NothingInFlight(r) == OnRoute(r, {"SENDING"}) = {}

\* Fault: a deleted route stays enabled.
StaysEnabled(r) == enabled
WithoutRoute(r) == enabled \ {r}

Delete(r) ==
    /\ r \notin deleted /\ version[r] < MaxVersion /\ NothingInFlight(r)
    /\ deleted' = deleted \cup {r} /\ enabled' = WithoutRoute(r)
    /\ version' = [version EXCEPT ![r] = @ + 1]
    /\ status' = [d \in Deliveries |->
                     IF d \in OnRoute(r, Waiting) THEN "CANCELLED" ELSE status[d]]
    /\ UNCHANGED <<subscribed, seen, queued, route, routeVersion, attempts, due, workerVars,
                   arrived>>

-----------------------------------------------------------------------------
\* Queueing.
ReadRoutes(q) ==
    /\ seen[q] = None
    /\ seen' = [seen EXCEPT ![q] = {<<r, version[r]>> : r \in enabled \cap subscribed}]
    /\ UNCHANGED <<routeVars, deliveryVars, workerVars, arrived>>

\* One is not queued again for a route as it was read.
Unqueued(to) == ~\E d \in 1 .. queued : <<route[d], routeVersion[d]>> = to

Enqueue(q, to) ==
    /\ seen[q] # None /\ to \in seen[q]
    /\ seen' = [seen EXCEPT ![q] = @ \ {to}]
    /\ IF Unqueued(to)
       THEN /\ queued < MaxDeliveries /\ queued' = queued + 1
            /\ route' = [route EXCEPT ![queued + 1] = to[1]]
            /\ routeVersion' = [routeVersion EXCEPT ![queued + 1] = to[2]]
            /\ status' = [status EXCEPT ![queued + 1] = "PENDING"]
            /\ due' = due \cup {queued + 1}
       ELSE UNCHANGED <<queued, route, routeVersion, status, due>>
    /\ UNCHANGED <<routeVars, attempts, workerVars, arrived>>

-----------------------------------------------------------------------------
\* Workers.
GivenUp == "OUTCOME_UNKNOWN"

\* Fault: a worker gives up its own claims only.
OwnClaim(w, d) == status[d] = "SENDING" /\ task[w].delivery = d
StaleClaim(w, d) == status[d] = "SENDING"

RecoverStaleClaim(w, d) ==
    /\ worker[w] = "idle" /\ StaleClaim(w, d)
    /\ status' = [status EXCEPT ![d] = GivenUp]
    /\ UNCHANGED <<routeVars, seen, queued, route, routeVersion, attempts, due, workerVars,
                   arrived>>

ComesDue(d) ==
    /\ status[d] = "RETRY_WAIT" /\ d \notin due
    /\ due' = due \cup {d}
    /\ UNCHANGED <<routeVars, seen, queued, route, routeVersion, status, attempts, workerVars,
                   arrived>>

Claimable(w, d) == worker[w] = "idle" /\ status[d] \in Waiting /\ d \in due

Routed(d) == route[d] \in enabled \cap subscribed /\ version[route[d]] = routeVersion[d]

\* The route has gone or changed, or its configuration cannot be read.
ClaimRefused(w, d) ==
    /\ Claimable(w, d)
    /\ status' = [status EXCEPT ![d] = IF Routed(d) THEN "DEAD_LETTER" ELSE "CANCELLED"]
    /\ UNCHANGED <<routeVars, seen, queued, route, routeVersion, attempts, due, workerVars,
                   arrived>>

Claim(w, d) ==
    /\ Claimable(w, d) /\ Routed(d)
    /\ status' = [status EXCEPT ![d] = "SENDING"]
    /\ attempts' = [attempts EXCEPT ![d] = @ + 1]
    /\ due' = due \ {d}
    /\ worker' = [worker EXCEPT ![w] = "sending"]
    /\ task' = [task EXCEPT ![w] = [delivery |-> d, attempt |-> attempts[d] + 1]]
    /\ UNCHANGED <<routeVars, seen, queued, route, routeVersion, answer, arrived>>

\* What a request comes to: the recipient may have the message although no answer came, or one
\* that cannot be read.
Outcomes(d, came) ==
    \/ came \in {"sent", "unknown", "rejected"}
       /\ arrived' = [arrived EXCEPT ![d] = @ + 1]
    \/ came \in {"limited", "rejected", "unknown"} /\ UNCHANGED arrived

Send(w) ==
    /\ worker[w] = "sending" /\ worker' = [worker EXCEPT ![w] = "answered"]
    /\ \E came \in {"sent", "limited", "rejected", "unknown"} :
          /\ answer' = [answer EXCEPT ![w] = came]
          /\ Outcomes(task[w].delivery, came)
    /\ UNCHANGED <<routeVars, seen, deliveryVars, task>>

\* Fault: a request without an answer is sent again.
RetriedIfUnanswered(d, came) ==
    IF came \in {"limited", "unknown"} /\ attempts[d] < MaxAttempts THEN "RETRY_WAIT"
    ELSE IF came = "sent" THEN "SENT" ELSE "DEAD_LETTER"
Final(d, came) ==
    CASE came = "sent"     -> "SENT"
      [] came = "unknown"  -> "OUTCOME_UNKNOWN"
      [] came = "limited"  -> IF attempts[d] < MaxAttempts THEN "RETRY_WAIT" ELSE "DEAD_LETTER"
      [] came = "rejected" -> "DEAD_LETTER"

HoldsClaim(w) ==
    status[task[w].delivery] = "SENDING" /\ attempts[task[w].delivery] = task[w].attempt

Stops(w) ==
    /\ worker' = [worker EXCEPT ![w] = "idle"] /\ task' = [task EXCEPT ![w] = NoTask]
    /\ answer' = [answer EXCEPT ![w] = "none"]

\* A result that comes too late ends the worker's process, which starts again.
Finalize(w) ==
    /\ worker[w] = "answered" /\ Stops(w)
    /\ LET d == task[w].delivery IN
       status' = IF HoldsClaim(w) THEN [status EXCEPT ![d] = Final(d, answer[w])] ELSE status
    /\ UNCHANGED <<routeVars, seen, queued, route, routeVersion, attempts, due, arrived>>

Crash(w) ==
    /\ worker[w] # "idle" /\ Stops(w)
    /\ UNCHANGED <<routeVars, seen, deliveryVars, arrived>>

WorkerStep(w) ==
    \/ \E d \in Deliveries : RecoverStaleClaim(w, d) \/ ClaimRefused(w, d) \/ Claim(w, d)
    \/ Send(w) \/ Finalize(w)

Next ==
    \/ \E r \in Routes, on, subscribes \in BOOLEAN : Configure(r, on, subscribes)
    \/ \E r \in Routes : Delete(r)
    \/ \E q \in Queuers : ReadRoutes(q)
    \/ \E q \in Queuers, to \in Routes \X (1 .. MaxVersion) : Enqueue(q, to)
    \/ \E d \in Deliveries : ComesDue(d)
    \/ \E w \in Workers : WorkerStep(w) \/ Crash(w)

\* Worker processes are restarted and run their cycle again and again; retries come due.
Fairness ==
    /\ \A w \in Workers : WF_vars(WorkerStep(w))
    /\ \A d \in Deliveries : WF_vars(ComesDue(d))

Spec == Init /\ [][Next]_vars /\ Fairness

-----------------------------------------------------------------------------
\* Every state component has its type.
TypeOK ==
    /\ enabled \subseteq Routes /\ subscribed \subseteq Routes /\ deleted \subseteq Routes
    /\ enabled \cap deleted = {}
    /\ version \in [Routes -> 1 .. MaxVersion]
    /\ \A q \in Queuers : seen[q] = None \/ seen[q] \subseteq Routes \X (1 .. MaxVersion)
    /\ queued \in 0 .. MaxDeliveries
    /\ route \in [Deliveries -> Routes \cup {None}]
    /\ routeVersion \in [Deliveries -> 0 .. MaxVersion]
    /\ status \in [Deliveries -> {"NONE", "SENDING"} \cup Waiting \cup Settled]
    /\ attempts \in [Deliveries -> 0 .. MaxAttempts]
    /\ due \subseteq Deliveries
    /\ worker \in [Workers -> {"idle", "sending", "answered"}]
    /\ task \in [Workers -> [delivery : 0 .. MaxDeliveries, attempt : 0 .. MaxAttempts]]
    /\ answer \in [Workers -> {"none", "sent", "limited", "rejected", "unknown"}]
    /\ arrived \in [Deliveries -> Nat]

\* A message reaches its recipient at most once, though it is attempted several times by several
\* workers that stop and give up each other's claims; what is recorded as sent has arrived, and
\* what is cancelled never did.  However many handlers queue the event at once, each version of a
\* route gets one delivery of it.
ArrivesOnce ==
    /\ \A d \in Deliveries :
          /\ arrived[d] <= 1
          /\ status[d] = "SENT" => arrived[d] = 1
          /\ status[d] \in {"CANCELLED", "NONE"} \cup Waiting => arrived[d] = 0
    /\ \A d, e \in 1 .. queued :
          route[d] = route[e] /\ routeVersion[d] = routeVersion[e] => d = e

\* A delivery is a fence written ahead of its message: the message arrives only once its delivery
\* is queued, for the route and the version recorded then, and at most once.
DeliveryJournal ==
    INSTANCE WriteAhead
    WITH Keys <- Deliveries, Records <- Routes \X (1 .. MaxVersion), effects <- arrived,
         journal <- [d \in Deliveries |->
                        IF status[d] = "NONE" THEN {} ELSE {<<route[d], routeVersion[d]>>}]

ImplementsWriteAhead == DeliveryJournal!Spec

\* Every delivery that is queued is settled in the end, whichever workers stop on the way.
EveryDeliverySettles ==
    \A d \in Deliveries : status[d] # "NONE" ~> status[d] \in Settled
=============================================================================
