--------------------------- MODULE ReviewDesk_proofs ---------------------------
(***************************************************************************)
(* What follows from a proposal: a message arrives once, a vote was cast   *)
(* on a message that did, and risk is taken within its limits.             *)
(*                                                                         *)
(* At most one worker works on a delivery: it is claimed only while it     *)
(* waits, and it waits again only when the worker that holds the present   *)
(* attempt has recorded that nothing arrived.  A claim that was given up   *)
(* by another worker is settled for good, so the late sender finds no      *)
(* successor.  What is recorded as sent stays so, and the bot's memory is  *)
(* of such messages only.                                                  *)
(*                                                                         *)
(* Of new risk, nothing the holder of the capacity lock has tested changes *)
(* until it commits: limits, reservations, units and the intents of the    *)
(* authorization are written by those who wait for it, and what a switch   *)
(* writes it does not look at.  A switch that holds the team's row finds   *)
(* no unresolved intent in the mode it leaves, and none is made while it   *)
(* does.  A sum of amounts is a number of units, so that what the provers  *)
(* know of finite sets is enough to reason about it.                       *)
(***************************************************************************)
EXTENDS MCReviewDesk, FiniteSetTheorems, TLAPS

DeliveryTypes ==
    /\ enabled \subseteq Routes /\ subscribed \subseteq Routes /\ deleted \subseteq Routes
    /\ enabled \cap deleted = {}
    /\ version \in [Routes -> 1 .. MaxVersion]
    /\ seen \in [Queuers -> {None} \cup SUBSET (Routes \X (1 .. MaxVersion))]
    /\ queued \in 0 .. MaxDeliveries
    /\ route \in [Deliveries -> Routes \cup {None}]
    /\ routeVersion \in [Deliveries -> 0 .. MaxVersion]
    /\ status \in [Deliveries -> {"NONE", "SENDING"} \cup Waiting \cup Settled]
    /\ attempts \in [Deliveries -> 0 .. MaxAttempts]
    /\ due \subseteq Deliveries
    /\ worker \in [Workers -> {"idle", "sending", "answered"}]
    /\ task \in [Workers -> [delivery : 0 .. MaxDeliveries, attempt : 0 .. MaxAttempts]]
    /\ answer \in [Workers -> {"none", "sent", "limited", "rejected", "unknown"}]
    /\ arrived \in [Deliveries -> Nat]

\* One delivery: what is recorded of it, and whether its message has arrived.
Recorded(d) ==
    /\ status[d] = "NONE" <=> d > queued
    /\ status[d] # "NONE" => route[d] \in Routes
    /\ status[d] \in {"NONE", "PENDING"} => attempts[d] = 0
    /\ status[d] \in Waiting => attempts[d] < MaxAttempts
    /\ arrived[d] <= 1
    /\ status[d] = "SENT" => arrived[d] = 1
    /\ status[d] \in {"CANCELLED", "NONE"} \cup Waiting => arrived[d] = 0

\* A worker and the delivery it claimed, which waits for its answer or was given up by another.
WorksOn(w, d) ==
    /\ d \in Deliveries /\ status[d] \in {"SENDING", "OUTCOME_UNKNOWN"}
    /\ worker[w] = "sending" => arrived[d] = 0
    /\ worker[w] = "answered" => /\ answer[w] = "sent" => arrived[d] = 1
                                 /\ answer[w] = "limited" => arrived[d] = 0
                                 /\ answer[w] # "none"

Busy(w) == worker[w] # "idle"

Working == \A w \in Workers : Busy(w) => WorksOn(w, task[w].delivery)

OneWorker ==
    \A w, v \in Workers :
        Busy(w) /\ Busy(v) /\ task[w].delivery = task[v].delivery => w = v

OneEach ==
    \A d, e \in 1 .. queued :
        route[d] = route[e] /\ routeVersion[d] = routeVersion[e] => d = e

DeliveryInv ==
    DeliveryTypes /\ (\A d \in Deliveries : Recorded(d)) /\ Working /\ OneWorker /\ OneEach

-----------------------------------------------------------------------------
(***************************************************************************)
(* Deliveries                                                              *)
(***************************************************************************)
LEMMA DeliveryInitHolds == Init => DeliveryInv
<1> SUFFICES ASSUME Init PROVE DeliveryInv
  OBVIOUS
<1>1. 0 \in 0 .. MaxDeliveries /\ 0 \in 0 .. MaxVersion /\ 0 \in 0 .. MaxAttempts
      /\ 1 \in 1 .. MaxVersion
  BY NotificationsAssumption
<1>2. DeliveryTypes
  BY <1>1 DEF Init, DeliveryTypes, NoTask
<1>3. \A d \in Deliveries : Recorded(d)
  BY NotificationsAssumption DEF Init, Recorded, Deliveries, Waiting
<1> QED BY <1>2, <1>3 DEF Init, DeliveryInv, Working, OneWorker, OneEach, Busy

\* A step that records nothing of a delivery and leaves the workers alone.
LEMMA QuietStep ==
    ASSUME DeliveryInv, DeliveryTypes',
           UNCHANGED <<queued, route, routeVersion, status, attempts, workerVars, arrived>>
    PROVE  DeliveryInv'
BY DEF DeliveryInv, Recorded, Working, WorksOn, OneWorker, OneEach, Busy, workerVars

\* A step that settles deliveries nobody works on, or gives claims up.
LEMMA SettlingStep ==
    ASSUME DeliveryInv, DeliveryTypes',
           \A d \in Deliveries :
               \/ status'[d] = status[d]
               \/ status[d] \in Waiting /\ status'[d] \in {"CANCELLED", "DEAD_LETTER"}
               \/ status[d] = "SENDING" /\ status'[d] = "OUTCOME_UNKNOWN",
           UNCHANGED <<queued, route, routeVersion, attempts, workerVars, arrived>>
    PROVE  DeliveryInv'
<1>1. \A d \in Deliveries : Recorded(d)'
  BY DEF DeliveryInv, Recorded, Waiting
<1>2. Working'
  BY DEF DeliveryInv, Working, WorksOn, Busy, Waiting, workerVars
<1>3. OneWorker' /\ OneEach'
  BY DEF DeliveryInv, OneWorker, OneEach, Busy, workerVars
<1> QED BY <1>1, <1>2, <1>3 DEF DeliveryInv

LEMMA RouteStepHolds ==
    ASSUME DeliveryInv, NEW r \in Routes, NEW on, NEW subscribes,
           Configure(r, on, subscribes) \/ Delete(r)
    PROVE  DeliveryInv'
<1>1. version[r] + 1 \in 1 .. MaxVersion
  BY NotificationsAssumption DEF Configure, Delete, DeliveryInv, DeliveryTypes
<1>2. CASE Configure(r, on, subscribes)
  <2>1. DeliveryTypes'
    BY <1>1, <1>2 DEF Configure, DeliveryInv, DeliveryTypes, deliveryVars, workerVars
  <2> QED BY <1>2, <2>1, QuietStep DEF Configure, deliveryVars
<1>3. CASE Delete(r)
  <2>1. status' \in [Deliveries -> {"NONE", "SENDING"} \cup Waiting \cup Settled]
    BY <1>3 DEF Delete, DeliveryInv, DeliveryTypes, Settled
  <2>2. DeliveryTypes'
    BY <1>1, <1>3, <2>1 DEF Delete, WithoutRoute, DeliveryInv, DeliveryTypes, workerVars
  <2>3. \A d \in Deliveries : \/ status'[d] = status[d]
                              \/ status[d] \in Waiting /\ status'[d] = "CANCELLED"
    BY <1>3 DEF Delete, OnRoute
  <2> QED BY <1>3, <2>2, <2>3, SettlingStep DEF Delete
<1> QED BY <1>2, <1>3

LEMMA ReadRoutesHolds ==
    ASSUME DeliveryInv, NEW q \in Queuers, ReadRoutes(q) PROVE DeliveryInv'
<1>1. {<<r, version[r]>> : r \in enabled \cap subscribed} \in SUBSET (Routes \X (1 .. MaxVersion))
  BY DEF DeliveryInv, DeliveryTypes
<1>2. seen' \in [Queuers -> {None} \cup SUBSET (Routes \X (1 .. MaxVersion))]
  BY <1>1 DEF ReadRoutes, DeliveryInv, DeliveryTypes
<1>3. DeliveryTypes'
  BY <1>2 DEF ReadRoutes, DeliveryInv, DeliveryTypes, routeVars, deliveryVars, workerVars
<1> QED BY <1>3, QuietStep DEF ReadRoutes, deliveryVars

LEMMA EnqueueHolds ==
    ASSUME DeliveryInv, NEW q \in Queuers, NEW to \in Routes \X (1 .. MaxVersion),
           Enqueue(q, to), NEW n, n = queued + 1
    PROVE  DeliveryInv'
<1>1. seen' \in [Queuers -> {None} \cup SUBSET (Routes \X (1 .. MaxVersion))]
  <2>1. seen[q] \in SUBSET (Routes \X (1 .. MaxVersion))
    BY DEF Enqueue, DeliveryInv, DeliveryTypes
  <2> QED BY <2>1 DEF Enqueue, DeliveryInv, DeliveryTypes
<1>2. CASE UNCHANGED <<queued, route, routeVersion, status, due>>
  <2>1. DeliveryTypes'
    BY <1>1, <1>2 DEF Enqueue, DeliveryInv, DeliveryTypes, routeVars, workerVars
  <2> QED BY <1>2, <2>1, QuietStep DEF Enqueue
<1>3. CASE /\ Unqueued(to) /\ queued < MaxDeliveries /\ queued' = n
           /\ route' = [route EXCEPT ![n] = to[1]]
           /\ routeVersion' = [routeVersion EXCEPT ![n] = to[2]]
           /\ status' = [status EXCEPT ![n] = "PENDING"]
           /\ due' = due \cup {n}
  <2>1. /\ queued \in Nat /\ n \in Nat /\ n \in Deliveries /\ n \in 1 .. n /\ MaxAttempts > 0
        /\ \A d \in Deliveries : d > n <=> d > queued /\ d # n
        /\ \A d \in 1 .. n : d \in 1 .. queued \/ d = n
        /\ \A d \in 1 .. queued : d \in Deliveries /\ d # n
    BY <1>3, NotificationsAssumption DEF DeliveryInv, DeliveryTypes, Deliveries
  <2>2. to[1] \in Routes /\ to[2] \in 0 .. MaxVersion
    BY NotificationsAssumption
  <2>3. /\ queued' \in 0 .. MaxDeliveries
        /\ route' \in [Deliveries -> Routes \cup {None}]
        /\ routeVersion' \in [Deliveries -> 0 .. MaxVersion]
        /\ status' \in [Deliveries -> {"NONE", "SENDING"} \cup Waiting \cup Settled]
        /\ due' \subseteq Deliveries
    <3>1. queued' \in 0 .. MaxDeliveries
      BY <1>3, <2>1 DEF Deliveries
    <3> QED BY <1>3, <2>1, <2>2, <3>1 DEF DeliveryInv, DeliveryTypes, Waiting
  <2>4. DeliveryTypes'
    BY <1>1, <2>3 DEF Enqueue, DeliveryInv, DeliveryTypes, routeVars, workerVars
  <2>5. /\ route'[n] = to[1] /\ routeVersion'[n] = to[2] /\ status'[n] = "PENDING"
        /\ \A d \in Deliveries \ {n} : /\ route'[d] = route[d] /\ status'[d] = status[d]
                                       /\ routeVersion'[d] = routeVersion[d]
        /\ attempts' = attempts /\ arrived' = arrived /\ UNCHANGED workerVars
    BY <1>3, <2>1 DEF Enqueue, DeliveryInv, DeliveryTypes
  <2>6. status[n] = "NONE" /\ attempts[n] = 0 /\ arrived[n] = 0
    <3>1. Recorded(n) /\ n > queued
      BY <2>1 DEF DeliveryInv
    <3> QED BY <3>1 DEF Recorded
  <2>7. Recorded(n)'
    <3>1. ~(n > n)
      BY <2>1
    <3> QED BY <1>3, <2>1, <2>2, <2>5, <2>6, <3>1 DEF Recorded
  <2>8. ASSUME NEW d \in Deliveries \ {n} PROVE Recorded(d)'
    <3>1. Recorded(d) /\ (d > n <=> d > queued)
      BY <2>1 DEF DeliveryInv
    <3> QED BY <1>3, <2>5, <3>1 DEF Recorded
  <2>9. Working'
    <3> SUFFICES ASSUME NEW w \in Workers, Busy(w)' PROVE WorksOn(w, task[w].delivery)'
      BY DEF Working
    <3>1. Busy(w) /\ WorksOn(w, task[w].delivery) /\ task'[w] = task[w]
      BY <2>5 DEF DeliveryInv, Working, Busy, workerVars
    <3>2. task[w].delivery \in Deliveries \ {n}
      BY <2>6, <3>1 DEF WorksOn
    <3> QED BY <2>5, <3>1, <3>2 DEF WorksOn, workerVars
  <2>10. OneWorker'
    BY <2>5 DEF DeliveryInv, OneWorker, Busy, workerVars
  <2>11. OneEach'
    <3>1. \A d \in 1 .. queued : ~(route[d] = to[1] /\ routeVersion[d] = to[2])
      BY <1>3 DEF Unqueued
    <3> QED BY <1>3, <2>1, <2>5, <3>1 DEF DeliveryInv, OneEach
  <2> QED BY <2>4, <2>7, <2>8, <2>9, <2>10, <2>11 DEF DeliveryInv
<1> QED BY <1>2, <1>3 DEF Enqueue

LEMMA WaitingStepHolds ==
    ASSUME DeliveryInv, NEW w \in Workers, NEW d \in Deliveries,
           RecoverStaleClaim(w, d) \/ ComesDue(d) \/ ClaimRefused(w, d)
    PROVE  DeliveryInv'
<1>1. CASE ComesDue(d)
  <2>1. DeliveryTypes'
    BY <1>1 DEF ComesDue, DeliveryInv, DeliveryTypes, routeVars, workerVars
  <2> QED BY <1>1, <2>1, QuietStep DEF ComesDue
<1>2. CASE RecoverStaleClaim(w, d) \/ ClaimRefused(w, d)
  <2>1. /\ \/ status[d] = "SENDING" /\ status' = [status EXCEPT ![d] = "OUTCOME_UNKNOWN"]
           \/ /\ status[d] \in Waiting
              /\ \/ status' = [status EXCEPT ![d] = "DEAD_LETTER"]
                 \/ status' = [status EXCEPT ![d] = "CANCELLED"]
        /\ UNCHANGED <<routeVars, seen, queued, route, routeVersion, attempts, due, workerVars,
                       arrived>>
    BY <1>2 DEF RecoverStaleClaim, ClaimRefused, StaleClaim, Claimable, GivenUp
  <2>2. status' \in [Deliveries -> {"NONE", "SENDING"} \cup Waiting \cup Settled]
    BY <2>1 DEF DeliveryInv, DeliveryTypes, Settled
  <2>3. DeliveryTypes'
    BY <2>1, <2>2 DEF DeliveryInv, DeliveryTypes, routeVars, workerVars
  <2>4. \A e \in Deliveries :
            \/ status'[e] = status[e]
            \/ status[e] \in Waiting /\ status'[e] \in {"CANCELLED", "DEAD_LETTER"}
            \/ status[e] = "SENDING" /\ status'[e] = "OUTCOME_UNKNOWN"
    BY <2>1 DEF DeliveryInv, DeliveryTypes
  <2> QED BY <2>1, <2>3, <2>4, SettlingStep
<1> QED BY <1>1, <1>2

LEMMA ClaimHolds ==
    ASSUME DeliveryInv, NEW w \in Workers, NEW d \in Deliveries, Claim(w, d)
    PROVE  DeliveryInv'
<1> DEFINE n == attempts[d] + 1
<1>1. Recorded(d) /\ status[d] \in Waiting /\ worker[w] = "idle"
  BY DEF DeliveryInv, Claim, Claimable
<1>2. /\ d \in 0 .. MaxDeliveries /\ n \in 0 .. MaxAttempts /\ arrived[d] = 0
      /\ route[d] \in Routes /\ ~(d > queued)
  <2>1. attempts[d] < MaxAttempts /\ arrived[d] = 0 /\ route[d] \in Routes /\ ~(d > queued)
    BY <1>1 DEF Recorded, Waiting
  <2>2. attempts[d] \in 0 .. MaxAttempts /\ d \in 0 .. MaxDeliveries
    BY NotificationsAssumption DEF DeliveryInv, DeliveryTypes, Deliveries
  <2>3. n \in 0 .. MaxAttempts
    BY <2>1, <2>2, NotificationsAssumption
  <2> QED BY <2>1, <2>2, <2>3
<1>3. /\ status'[d] = "SENDING" /\ worker'[w] = "sending" /\ task'[w].delivery = d
      /\ \A e \in Deliveries \ {d} : status'[e] = status[e] /\ attempts'[e] = attempts[e]
      /\ \A v \in Workers \ {w} : worker'[v] = worker[v] /\ task'[v] = task[v]
      /\ UNCHANGED <<routeVars, seen, queued, route, routeVersion, answer, arrived>>
  BY DEF Claim, DeliveryInv, DeliveryTypes
<1>4. DeliveryTypes'
  <2>1. status' \in [Deliveries -> {"NONE", "SENDING"} \cup Waiting \cup Settled]
    BY DEF Claim, DeliveryInv, DeliveryTypes
  <2>2. attempts' \in [Deliveries -> 0 .. MaxAttempts] /\ due' \subseteq Deliveries
    BY <1>2 DEF Claim, DeliveryInv, DeliveryTypes
  <2>3. worker' \in [Workers -> {"idle", "sending", "answered"}]
    BY DEF Claim, DeliveryInv, DeliveryTypes
  <2>4. [delivery |-> d, attempt |-> n]
            \in [delivery : 0 .. MaxDeliveries, attempt : 0 .. MaxAttempts]
    BY <1>2
  <2>5. task' \in [Workers -> [delivery : 0 .. MaxDeliveries, attempt : 0 .. MaxAttempts]]
    BY <2>4 DEF Claim, DeliveryInv, DeliveryTypes
  <2> QED BY <1>3, <2>1, <2>2, <2>3, <2>5 DEF DeliveryInv, DeliveryTypes, routeVars
<1> HIDE DEF n
<1>5. \A v \in Workers : Busy(v) => task[v].delivery \in Deliveries \ {d}
  BY <1>1 DEF DeliveryInv, Working, WorksOn, Waiting
<1>6. ASSUME NEW e \in Deliveries PROVE Recorded(e)'
  <2>1. CASE e = d
    BY <1>2, <1>3, <2>1 DEF Recorded, Waiting
  <2>2. CASE e # d
    BY <1>3, <2>2 DEF Recorded, DeliveryInv
  <2> QED BY <2>1, <2>2
<1>7. Working'
  <2> SUFFICES ASSUME NEW v \in Workers, Busy(v)' PROVE WorksOn(v, task[v].delivery)'
    BY DEF Working
  <2>1. CASE v = w
    BY <1>2, <1>3, <2>1 DEF WorksOn
  <2>2. CASE v # w
    <3>1. Busy(v) /\ WorksOn(v, task[v].delivery) /\ task[v].delivery \in Deliveries \ {d}
      BY <1>3, <1>5, <2>2 DEF Busy, DeliveryInv, Working
    <3> QED BY <1>3, <2>2, <3>1 DEF WorksOn
  <2> QED BY <2>1, <2>2
<1>8. OneWorker'
  BY <1>3, <1>5 DEF DeliveryInv, OneWorker, Busy
<1>9. OneEach'
  BY <1>3 DEF DeliveryInv, OneEach
<1> QED BY <1>4, <1>6, <1>7, <1>8, <1>9 DEF DeliveryInv

LEMMA SendHolds ==
    ASSUME DeliveryInv, NEW w \in Workers, Send(w), NEW d, d = task[w].delivery
    PROVE  DeliveryInv'
<1>1. /\ WorksOn(w, d) /\ Recorded(d) /\ d \in Deliveries /\ arrived[d] = 0 /\ Busy(w)
      /\ status[d] \in {"SENDING", "OUTCOME_UNKNOWN"}
  BY DEF DeliveryInv, Send, Working, WorksOn, Busy
<1>2. PICK came \in {"sent", "limited", "rejected", "unknown"} :
         answer' = [answer EXCEPT ![w] = came] /\ Outcomes(d, came)
  BY DEF Send
<1>3. /\ worker'[w] = "answered" /\ answer'[w] = came
      /\ \A v \in Workers \ {w} : worker'[v] = worker[v] /\ answer'[v] = answer[v]
      /\ UNCHANGED <<routeVars, seen, deliveryVars, task>>
  BY <1>2 DEF Send, DeliveryInv, DeliveryTypes
<1>4. /\ arrived' \in [Deliveries -> Nat] /\ arrived'[d] \in {0, 1}
      /\ came = "sent" => arrived'[d] = 1
      /\ came = "limited" => arrived'[d] = 0
      /\ \A e \in Deliveries \ {d} : arrived'[e] = arrived[e]
  BY <1>1, <1>2 DEF Outcomes, DeliveryInv, DeliveryTypes
<1>5. DeliveryTypes'
  <2>1. /\ worker' \in [Workers -> {"idle", "sending", "answered"}]
        /\ answer' \in [Workers -> {"none", "sent", "limited", "rejected", "unknown"}]
    BY <1>2 DEF Send, DeliveryInv, DeliveryTypes
  <2> QED BY <1>3, <1>4, <2>1 DEF DeliveryInv, DeliveryTypes, routeVars, deliveryVars
<1>6. ASSUME NEW e \in Deliveries PROVE Recorded(e)'
  <2>1. CASE e = d
    BY <1>1, <1>3, <1>4, <2>1 DEF Recorded, Waiting, deliveryVars
  <2>2. CASE e # d
    BY <1>3, <1>4, <2>2 DEF Recorded, DeliveryInv, deliveryVars
  <2> QED BY <2>1, <2>2
<1>7. Working'
  <2> SUFFICES ASSUME NEW v \in Workers, Busy(v)' PROVE WorksOn(v, task[v].delivery)'
    BY DEF Working
  <2>1. CASE v = w
    BY <1>1, <1>3, <1>4, <2>1 DEF WorksOn, deliveryVars
  <2>2. CASE v # w
    <3>1. Busy(v) /\ WorksOn(v, task[v].delivery)
      BY <1>3, <2>2 DEF Busy, DeliveryInv, Working
    <3>2. task[v].delivery \in Deliveries \ {d}
      BY <1>1, <2>2, <3>1 DEF DeliveryInv, OneWorker, WorksOn
    <3> QED BY <1>3, <1>4, <2>2, <3>1, <3>2 DEF WorksOn, deliveryVars
  <2> QED BY <2>1, <2>2
<1>8. OneWorker'
  BY <1>1, <1>3 DEF DeliveryInv, OneWorker, Busy
<1>9. OneEach'
  BY <1>3 DEF DeliveryInv, OneEach, deliveryVars
<1> QED BY <1>5, <1>6, <1>7, <1>8, <1>9 DEF DeliveryInv

LEMMA EndHolds ==
    ASSUME DeliveryInv, NEW w \in Workers, Finalize(w) \/ Crash(w), NEW d, d = task[w].delivery
    PROVE  DeliveryInv'
<1>1. /\ Busy(w) /\ WorksOn(w, d) /\ Recorded(d) /\ d \in Deliveries
      /\ status[d] \in {"SENDING", "OUTCOME_UNKNOWN"}
  BY DEF DeliveryInv, Finalize, Crash, Working, WorksOn, Busy
<1>2. /\ worker'[w] = "idle"
      /\ \A v \in Workers \ {w} : /\ worker'[v] = worker[v] /\ answer'[v] = answer[v]
                                  /\ task'[v] = task[v]
      /\ UNCHANGED <<routeVars, seen, queued, route, routeVersion, attempts, due, arrived>>
  BY DEF Finalize, Crash, Stops, DeliveryInv, DeliveryTypes, deliveryVars
<1>3. \/ status' = status
      \/ /\ worker[w] = "answered" /\ answer[w] # "none" /\ status[d] = "SENDING"
         /\ status' = [status EXCEPT ![d] = Final(d, answer[w])]
  BY <1>1 DEF Finalize, Crash, HoldsClaim, deliveryVars, WorksOn
<1>4. /\ status' \in [Deliveries -> {"NONE", "SENDING"} \cup Waiting \cup Settled]
      /\ \A e \in Deliveries \ {d} : status'[e] = status[e]
      /\ Recorded(d)'
  <2>1. CASE status' = status
    BY <1>1, <1>2, <2>1 DEF Recorded, DeliveryInv, DeliveryTypes
  <2>2. ASSUME NEW final \in Waiting \cup Settled, final \notin {"PENDING", "CANCELLED"},
               status' = [status EXCEPT ![d] = final],
               final = "RETRY_WAIT" => attempts[d] < MaxAttempts /\ arrived[d] = 0,
               final = "SENT" => arrived[d] = 1
        PROVE  /\ status' \in [Deliveries -> {"NONE", "SENDING"} \cup Waiting \cup Settled]
               /\ \A e \in Deliveries \ {d} : status'[e] = status[e]
               /\ Recorded(d)'
    <3>1. status' \in [Deliveries -> {"NONE", "SENDING"} \cup Waiting \cup Settled]
      BY <2>2 DEF DeliveryInv, DeliveryTypes
    <3>2. status'[d] = final /\ \A e \in Deliveries \ {d} : status'[e] = status[e]
      BY <1>1, <2>2 DEF DeliveryInv, DeliveryTypes
    <3>3. final # "NONE" /\ status[d] # "NONE"
      BY <1>1, <2>2 DEF Waiting, Settled
    <3>4. Recorded(d)'
      BY <1>1, <1>2, <2>2, <3>2, <3>3 DEF Recorded, Waiting
    <3> QED BY <3>1, <3>2, <3>4
  <2>3. CASE /\ worker[w] = "answered" /\ answer[w] # "none"
             /\ status' = [status EXCEPT ![d] = Final(d, answer[w])]
    <3>1. answer[w] \in {"sent", "limited", "rejected", "unknown"}
      BY <2>3 DEF DeliveryInv, DeliveryTypes
    <3>2. CASE answer[w] = "sent"
      <4>1. arrived[d] = 1 /\ Final(d, answer[w]) = "SENT"
        BY <1>1, <2>3, <3>2 DEF WorksOn, Final
      <4> QED BY <2>2, <2>3, <4>1 DEF Settled
    <3>3. CASE answer[w] = "limited"
      <4>1. /\ arrived[d] = 0
            /\ Final(d, answer[w])
                  = IF attempts[d] < MaxAttempts THEN "RETRY_WAIT" ELSE "DEAD_LETTER"
        BY <1>1, <2>3, <3>3 DEF WorksOn, Final
      <4> QED BY <2>2, <2>3, <4>1 DEF Settled, Waiting
    <3>4. CASE answer[w] = "rejected"
      <4>1. Final(d, answer[w]) = "DEAD_LETTER"
        BY <3>4 DEF Final
      <4> QED BY <2>2, <2>3, <4>1 DEF Settled
    <3>5. CASE answer[w] = "unknown"
      <4>1. Final(d, answer[w]) = "OUTCOME_UNKNOWN"
        BY <3>5 DEF Final
      <4> QED BY <2>2, <2>3, <4>1 DEF Settled
    <3> QED BY <3>1, <3>2, <3>3, <3>4, <3>5
  <2> QED BY <1>3, <2>1, <2>3
<1>5. DeliveryTypes'
  <2>1. NoTask \in [delivery : 0 .. MaxDeliveries, attempt : 0 .. MaxAttempts]
    BY NotificationsAssumption DEF NoTask
  <2>2. /\ worker' \in [Workers -> {"idle", "sending", "answered"}]
        /\ task' \in [Workers -> [delivery : 0 .. MaxDeliveries, attempt : 0 .. MaxAttempts]]
        /\ answer' \in [Workers -> {"none", "sent", "limited", "rejected", "unknown"}]
    <3>1. Stops(w)
      BY DEF Finalize, Crash
    <3>2. /\ worker \in [Workers -> {"idle", "sending", "answered"}]
          /\ task \in [Workers -> [delivery : 0 .. MaxDeliveries, attempt : 0 .. MaxAttempts]]
          /\ answer \in [Workers -> {"none", "sent", "limited", "rejected", "unknown"}]
      BY DEF DeliveryInv, DeliveryTypes
    <3> QED BY <2>1, <3>1, <3>2 DEF Stops
  <2>3. /\ UNCHANGED <<enabled, subscribed, deleted, version>>
        /\ UNCHANGED <<seen, queued, route, routeVersion, attempts, due, arrived>>
    BY <1>2 DEF routeVars
  <2>4. status' \in [Deliveries -> {"NONE", "SENDING"} \cup Waiting \cup Settled]
    BY <1>4
  <2> QED BY <2>2, <2>3, <2>4 DEF DeliveryInv, DeliveryTypes
<1>6. \A e \in Deliveries : Recorded(e)'
  <2> SUFFICES ASSUME NEW e \in Deliveries \ {d} PROVE Recorded(e)'
    BY <1>4
  <2> QED BY <1>2, <1>4 DEF Recorded, DeliveryInv
<1>7. \A v \in Workers : Busy(v)' => v # w /\ Busy(v) /\ task[v].delivery \in Deliveries \ {d}
  BY <1>1, <1>2 DEF Busy, DeliveryInv, OneWorker, Working, WorksOn
<1>8. Working'
  <2> SUFFICES ASSUME NEW v \in Workers, Busy(v)' PROVE WorksOn(v, task[v].delivery)'
    BY DEF Working
  <2>1. WorksOn(v, task[v].delivery) /\ v # w /\ task[v].delivery \in Deliveries \ {d}
    BY <1>7 DEF DeliveryInv, Working
  <2> QED BY <1>2, <1>4, <2>1 DEF WorksOn
<1>9. OneWorker'
  BY <1>2, <1>7 DEF DeliveryInv, OneWorker
<1>10. OneEach'
  BY <1>2 DEF DeliveryInv, OneEach
<1> QED BY <1>5, <1>6, <1>8, <1>9, <1>10 DEF DeliveryInv

LEMMA DeliveryNextHolds == DeliveryInv /\ [Next]_vars => DeliveryInv'
<1>1. ASSUME DeliveryInv, UNCHANGED vars PROVE DeliveryInv'
  <2>1. DeliveryTypes'
    BY <1>1 DEF DeliveryInv, DeliveryTypes, vars, routeVars, deliveryVars, workerVars
  <2> QED BY <1>1, <2>1, QuietStep DEF vars, deliveryVars
<1>2. ASSUME DeliveryInv, NEW q \in Queuers, NEW to \in Routes \X (1 .. MaxVersion), Enqueue(q, to)
      PROVE  DeliveryInv'
  BY <1>2, EnqueueHolds
<1>3. ASSUME DeliveryInv, NEW d \in Deliveries, ComesDue(d) PROVE DeliveryInv'
  <2>1. DeliveryTypes'
    BY <1>3 DEF ComesDue, DeliveryInv, DeliveryTypes, routeVars, workerVars
  <2> QED BY <1>3, <2>1, QuietStep DEF ComesDue
<1>4. ASSUME DeliveryInv, NEW w \in Workers, WorkerStep(w) \/ Crash(w) PROVE DeliveryInv'
  BY <1>4, WaitingStepHolds, ClaimHolds, SendHolds, EndHolds DEF WorkerStep
<1> QED
  BY <1>1, <1>2, <1>3, <1>4, RouteStepHolds, ReadRoutesHolds DEF Next

LEMMA DeliveryInvariance == Spec => []DeliveryInv
BY DeliveryInitHolds, DeliveryNextHolds, PTL DEF Spec

LEMMA DeliveryInvSuffices == DeliveryInv => TypeOK /\ ArrivesOnce
<1> SUFFICES ASSUME DeliveryInv PROVE TypeOK /\ ArrivesOnce
  OBVIOUS
<1>1. \A q \in Queuers : seen[q] = None \/ seen[q] \subseteq Routes \X (1 .. MaxVersion)
  BY DEF DeliveryInv, DeliveryTypes
<1>2. TypeOK
  BY <1>1 DEF DeliveryInv, DeliveryTypes, TypeOK
<1>3. ArrivesOnce
  BY DEF DeliveryInv, Recorded, OneEach, ArrivesOnce
<1> QED BY <1>2, <1>3

\* A message reaches its recipient at most once, sent means arrived and cancelled means it never
\* did, for any number of routes, handlers, workers, attempts and crashes; and a version of a route
\* gets one delivery of the event (claim_notification, finalize_notification, queue_notification).
THEOREM MessagesArriveOnce == Spec => []ArrivesOnce
BY DeliveryInvariance, DeliveryInvSuffices, PTL

\* Type correctness of the outbox.
THEOREM OutboxTypesHold == Spec => []TypeOK
BY DeliveryInvariance, DeliveryInvSuffices, PTL

\* The outbox implements the abstract fence: a delivery precedes its message, keeps the route it
\* was queued for, and lets the message arrive once.
THEOREM DeliveryIsWriteAhead == Spec => ImplementsWriteAhead
<1> DEFINE journal == [d \in Deliveries |->
                         IF status[d] = "NONE" THEN {} ELSE {<<route[d], routeVersion[d]>>}]
<1>1. Init => DeliveryJournal!Init
  BY DEF Init, DeliveryJournal!Init
<1>2. DeliveryInv /\ DeliveryInv' /\ [Next]_vars => [DeliveryJournal!Next]_<<journal, arrived>>
  <2> SUFFICES ASSUME DeliveryInv, DeliveryInv', [Next]_vars
               PROVE  DeliveryJournal!Next \/ UNCHANGED <<journal, arrived>>
    OBVIOUS
  <2>1. ASSUME UNCHANGED <<queued, route, routeVersion>> PROVE UNCHANGED journal
    BY <2>1 DEF DeliveryInv, Recorded
  <2>2. ASSUME NEW q \in Queuers, NEW to \in Routes \X (1 .. MaxVersion), Enqueue(q, to)
        PROVE  DeliveryJournal!Next \/ UNCHANGED <<journal, arrived>>
    <3>1. CASE Unqueued(to)
      <4>1. /\ queued < MaxDeliveries /\ queued' = queued + 1
            /\ route' = [route EXCEPT ![queued + 1] = to[1]]
            /\ routeVersion' = [routeVersion EXCEPT ![queued + 1] = to[2]]
            /\ UNCHANGED arrived
        BY <2>2, <3>1 DEF Enqueue
      <4>2. PICK n \in Deliveries : n = queued + 1
        BY <4>1, NotificationsAssumption DEF DeliveryInv, DeliveryTypes, Deliveries
      <4>3. \A d \in Deliveries : /\ d > queued' <=> d > queued /\ d # n
                                  /\ n > queued
        BY <4>1, <4>2 DEF DeliveryInv, DeliveryTypes, Deliveries
      <4>4. status[n] = "NONE" /\ status'[n] # "NONE"
        BY <4>3 DEF DeliveryInv, Recorded
      <4>5. \A d \in Deliveries \ {n} : status'[d] = "NONE" <=> status[d] = "NONE"
        BY <4>3 DEF DeliveryInv, Recorded
      <4>6. /\ route'[n] = to[1] /\ routeVersion'[n] = to[2]
            /\ \A d \in Deliveries \ {n} : /\ route'[d] = route[d]
                                           /\ routeVersion'[d] = routeVersion[d]
        BY <4>1, <4>2 DEF DeliveryInv, DeliveryTypes
      <4>7. journal[n] = {} /\ journal' = [journal EXCEPT ![n] = {to}]
        <5>1. to = <<to[1], to[2]>>
          OBVIOUS
        <5>2. journal[n] = {} /\ journal'[n] = {to}
          BY <4>4, <4>6, <5>1
        <5>3. \A d \in Deliveries \ {n} : journal'[d] = journal[d]
          BY <4>5, <4>6
        <5> QED
          BY <5>2, <5>3
      <4> QED
        BY <4>1, <4>7 DEF DeliveryJournal!Next, DeliveryJournal!Record
    <3>2. CASE ~Unqueued(to)
      BY <2>1, <2>2, <3>2 DEF Enqueue
    <3> QED
      BY <3>1, <3>2
  <2>3. ASSUME NEW w \in Workers, Send(w)
        PROVE  DeliveryJournal!Next \/ UNCHANGED <<journal, arrived>>
    <3>1. PICK d \in Deliveries : d = task[w].delivery
      BY <2>3 DEF Send, DeliveryInv, Working, WorksOn, Busy
    <3>2. arrived[d] = 0 /\ status[d] # "NONE" /\ UNCHANGED deliveryVars
      BY <2>3, <3>1 DEF Send, DeliveryInv, Working, WorksOn, Busy
    <3>3. journal[d] # {} /\ UNCHANGED journal
      BY <3>2 DEF deliveryVars
    <3>4. UNCHANGED arrived \/ arrived' = [arrived EXCEPT ![d] = 1]
      BY <2>3, <3>1, <3>2 DEF Send, Outcomes
    <3> QED
      BY <3>2, <3>3, <3>4 DEF DeliveryJournal!Next, DeliveryJournal!Act
  <2>4. ASSUME NEW w \in Workers, WorkerStep(w) \/ Crash(w), ~Send(w)
        PROVE  UNCHANGED <<queued, route, routeVersion, arrived>>
    BY <2>4 DEF WorkerStep, RecoverStaleClaim, ClaimRefused, Claim, Finalize, Crash, deliveryVars
  <2>5. ASSUME \/ \E r \in Routes, on, subscribes \in BOOLEAN : Configure(r, on, subscribes)
               \/ \E r \in Routes : Delete(r)
               \/ \E q \in Queuers : ReadRoutes(q)
               \/ \E d \in Deliveries : ComesDue(d)
               \/ UNCHANGED vars
        PROVE  UNCHANGED <<queued, route, routeVersion, arrived>>
    BY <2>5 DEF Configure, Delete, ReadRoutes, ComesDue, vars, deliveryVars
  <2> QED
    BY <2>1, <2>2, <2>3, <2>4, <2>5 DEF Next
<1> QED
  BY <1>1, <1>2, DeliveryInvariance, PTL DEF Spec, ImplementsWriteAhead, DeliveryJournal!Spec

-----------------------------------------------------------------------------
(***************************************************************************)
(* The bot                                                                 *)
(***************************************************************************)
BotInv ==
    /\ DeliveryInv /\ BotTypeOK
    /\ \A d \in Deliveries, a \in Decisions :
          <<d, "confirm", a>> \in updates \cup handled => <<d, a>> \in confirmed
    /\ VotedOnItsPrompt

\* What is recorded as sent is never touched again.
LEMMA SentStays ==
    ASSUME DeliveryInv, [Next]_vars, NEW d \in Deliveries, status[d] = "SENT"
    PROVE  status'[d] = "SENT" /\ route'[d] = route[d]
<1>1. status \in [Deliveries -> {"NONE", "SENDING"} \cup Waiting \cup Settled] /\ d <= queued
  BY DEF DeliveryInv, DeliveryTypes, Recorded, Deliveries
<1>2. "SENT" \notin Waiting
  BY DEF Waiting
<1>3. CASE UNCHANGED <<status, route>>
  BY <1>3
<1>4. ASSUME NEW r \in Routes, Delete(r) PROVE status'[d] = "SENT" /\ route'[d] = route[d]
  BY <1>2, <1>4 DEF Delete, OnRoute
<1>5. ASSUME NEW q \in Queuers, NEW to, Enqueue(q, to)
      PROVE  status'[d] = "SENT" /\ route'[d] = route[d]
  <2>1. d # queued + 1 /\ route \in [Deliveries -> Routes \cup {None}]
    BY <1>1, NotificationsAssumption DEF DeliveryInv, DeliveryTypes, Deliveries
  <2>2. CASE UNCHANGED <<route, status>>
    BY <2>2
  <2>3. CASE /\ route' = [route EXCEPT ![queued + 1] = to[1]]
             /\ status' = [status EXCEPT ![queued + 1] = "PENDING"]
    BY <1>1, <2>1, <2>3
  <2> QED BY <1>5, <2>2, <2>3 DEF Enqueue
<1>6. ASSUME NEW w \in Workers, NEW e \in Deliveries,
             RecoverStaleClaim(w, e) \/ ClaimRefused(w, e) \/ Claim(w, e)
      PROVE  status'[d] = "SENT" /\ route'[d] = route[d]
  <2>1. e # d /\ UNCHANGED route
    BY <1>2, <1>6 DEF RecoverStaleClaim, ClaimRefused, Claim, Claimable, StaleClaim
  <2>2. \E st : status' = [status EXCEPT ![e] = st]
    BY <1>6 DEF RecoverStaleClaim, ClaimRefused, Claim
  <2> QED BY <1>1, <2>1, <2>2
<1>7. ASSUME NEW w \in Workers, Finalize(w) PROVE status'[d] = "SENT" /\ route'[d] = route[d]
  <2>1. CASE status' = status
    BY <1>7, <2>1 DEF Finalize
  <2>2. CASE /\ HoldsClaim(w)
             /\ status' = [status EXCEPT ![task[w].delivery]
                             = Final(task[w].delivery, answer[w])]
    <3>1. task[w].delivery # d
      BY <2>2 DEF HoldsClaim
    <3> QED BY <1>1, <1>7, <2>2, <3>1 DEF Finalize
  <2> QED BY <1>7, <2>1, <2>2 DEF Finalize
<1>8. CASE UNCHANGED vars
  BY <1>3, <1>8 DEF vars, deliveryVars
<1>9. CASE Next
  <2>1. ASSUME NEW r \in Routes, NEW on, NEW subscribes, Configure(r, on, subscribes)
        PROVE  UNCHANGED <<status, route>>
    BY <2>1 DEF Configure, deliveryVars
  <2>2. ASSUME NEW q \in Queuers, ReadRoutes(q) PROVE UNCHANGED <<status, route>>
    BY <2>2 DEF ReadRoutes, deliveryVars
  <2>3. ASSUME NEW e \in Deliveries, ComesDue(e) PROVE UNCHANGED <<status, route>>
    BY <2>3 DEF ComesDue
  <2>4. ASSUME NEW w \in Workers, Send(w) \/ Crash(w) PROVE UNCHANGED <<status, route>>
    BY <2>4 DEF Send, Crash, deliveryVars
  <2> QED BY <1>3, <1>4, <1>5, <1>6, <1>7, <1>9, <2>1, <2>2, <2>3, <2>4 DEF Next, WorkerStep
<1> QED BY <1>8, <1>9

LEMMA BotInitHolds == ReviewInit => BotInv
<1> SUFFICES ASSUME ReviewInit PROVE BotInv
  OBVIOUS
<1>1. DeliveryInv
  BY DeliveryInitHolds DEF ReviewInit
<1> QED BY <1>1 DEF ReviewInit, BotInv, BotTypeOK, VotedOnItsPrompt

LEMMA DeskStepHolds == BotInv /\ [Next]_vars /\ UNCHANGED botVars => BotInv'
<1> SUFFICES ASSUME BotInv, [Next]_vars, UNCHANGED botVars PROVE BotInv'
  OBVIOUS
<1>1. DeliveryInv /\ DeliveryInv'
  BY DeliveryNextHolds DEF BotInv
<1>2. \A d \in Deliveries : status[d] = "SENT" => status'[d] = "SENT" /\ route'[d] = route[d]
  BY <1>1, SentStays
<1>3. BotTypeOK'
  <2>1. \A m \in memory : m[1] \in Deliveries /\ status[m[1]] = "SENT"
    BY DEF BotInv, BotTypeOK
  <2> QED BY <1>2, <2>1 DEF BotInv, BotTypeOK, botVars
<1>4. VotedOnItsPrompt'
  <2> SUFFICES ASSUME NEW r \in Routes, vote[r] # "none"
               PROVE  \E d \in 1 .. queued' : /\ route'[d] = r /\ status'[d] = "SENT"
                                              /\ arrived'[d] = 1
                                              /\ <<d, vote[r]>> \in confirmed
    BY DEF VotedOnItsPrompt, botVars
  <2>1. PICK d \in 1 .. queued : /\ route[d] = r /\ status[d] = "SENT"
                                 /\ <<d, vote[r]>> \in confirmed
    BY DEF BotInv, VotedOnItsPrompt
  <2>2. d \in Deliveries
    BY <1>1, <2>1, NotificationsAssumption DEF DeliveryInv, DeliveryTypes, Deliveries
  <2>3. status'[d] = "SENT" /\ route'[d] = r /\ Recorded(d)'
    BY <1>1, <1>2, <2>1, <2>2 DEF DeliveryInv
  <2>4. arrived'[d] = 1 /\ d \in 1 .. queued'
    BY <1>1, <2>2, <2>3, NotificationsAssumption
       DEF Recorded, DeliveryInv, DeliveryTypes, Deliveries
  <2> QED BY <2>1, <2>3, <2>4
<1> QED BY <1>1, <1>3, <1>4 DEF BotInv, botVars

\* A step of the bot leaves the outbox alone.
LEMMA OutboxStays ==
    ASSUME DeliveryInv, UNCHANGED vars
    PROVE  DeliveryInv' /\ UNCHANGED <<status, route, arrived, queued>>
<1>1. DeliveryInv'
  BY DeliveryNextHolds
<1> QED BY <1>1 DEF vars, deliveryVars

LEMMA ButtonsHold ==
    ASSUME BotInv, NEW d \in Deliveries, CardArrives(d) \/ PressButton(d)
    PROVE  BotInv'
<1>1. DeliveryInv' /\ UNCHANGED <<status, route, arrived, queued>>
  BY OutboxStays DEF BotInv, CardArrives, PressButton
<1>2. UNCHANGED <<handled, memory, moved, vote>> /\ BotTypeOK
  BY DEF CardArrives, PressButton, BotInv
<1>3. CASE CardArrives(d)
  BY <1>1, <1>2, <1>3 DEF CardArrives, BotInv, BotTypeOK, VotedOnItsPrompt
<1>4. CASE PressButton(d)
  <2>1. PICK p \in Buttons(d) :
            /\ updates' = updates \cup {p}
            /\ confirmed' = IF p[2] = "confirm" THEN confirmed \cup {<<d, p[3]>>} ELSE confirmed
    BY <1>4 DEF PressButton
  <2>2. \E stage \in {"source", "confirm", "cancel"}, a \in Decisions : p = <<d, stage, a>>
    <3>1. card[d] \in {"source"} \cup Decisions
      BY <1>4 DEF PressButton, BotInv, BotTypeOK
    <3> QED BY <2>1, <3>1 DEF Buttons
  <2>3. confirmed \subseteq confirmed' /\ confirmed' \subseteq Deliveries \X Decisions
    BY <1>2, <2>1, <2>2 DEF BotTypeOK
  <2>4. updates' \cup handled' \subseteq Press /\ UNCHANGED card
    BY <1>2, <1>4, <2>1, <2>2 DEF BotTypeOK, Press, PressButton
  <2>5. BotTypeOK'
    BY <1>1, <1>2, <2>3, <2>4 DEF BotTypeOK
  <2>6. ASSUME NEW e \in Deliveries, NEW a \in Decisions,
               <<e, "confirm", a>> \in updates' \cup handled'
        PROVE  <<e, a>> \in confirmed'
    BY <1>2, <2>1, <2>2, <2>3, <2>6 DEF BotInv
  <2>7. VotedOnItsPrompt'
    BY <1>1, <1>2, <2>3 DEF BotInv, VotedOnItsPrompt
  <2> QED BY <1>1, <2>5, <2>6, <2>7 DEF BotInv
<1> QED BY <1>3, <1>4

\* A press the bot takes stays one it knows of.
LEMMA TakesHolds ==
    ASSUME BotInv, NEW p, Takes(p)
    PROVE  updates' \cup handled' = updates \cup handled /\ p \in Press
BY DEF Takes, BotInv, BotTypeOK

LEMMA KnownIsSent ==
    ASSUME BotInv, NEW d, NEW a, Known(d, a)
    PROVE  status[d] = "SENT"
BY DEF BotInv, BotTypeOK, Known, Resolves, Delivered

LEMMA EditHolds ==
    ASSUME BotInv, NEW d \in Deliveries, NEW shows \in {"none", "source"} \cup Decisions,
           Edit(d, shows)
    PROVE  card' \in [Deliveries -> {"none", "source"} \cup Decisions]
BY DEF BotInv, BotTypeOK, Edit

LEMMA HandleHolds ==
    ASSUME BotInv, NEW d \in Deliveries, NEW a \in Decisions,
           HandleSource(d, a) \/ HandleCancel(d, a)
    PROVE  BotInv'
<1>1. DeliveryInv' /\ UNCHANGED <<status, route, arrived, queued>>
  BY OutboxStays DEF BotInv, HandleSource, HandleCancel
<1>2. UNCHANGED <<confirmed, moved, vote>> /\ updates' \cup handled' = updates \cup handled
  BY TakesHolds DEF HandleSource, HandleCancel
<1>3. card' \in [Deliveries -> {"none", "source"} \cup Decisions]
  <2>1. CASE card' = card
    BY <2>1 DEF BotInv, BotTypeOK
  <2>2. CASE Edit(d, a) \/ Edit(d, "source")
    BY <2>2, EditHolds
  <2> QED BY <2>1, <2>2 DEF HandleSource, HandleCancel
<1>4. \/ memory' = memory
      \/ memory' = memory \cup {<<d, a>>} /\ status[d] = "SENT"
  <2>1. CASE HandleCancel(d, a)
    BY <2>1 DEF HandleCancel
  <2>2. CASE HandleSource(d, a)
    <3>1. CASE Resolves(d)
      BY <2>2, <3>1 DEF HandleSource, Resolves, Delivered
    <3>2. CASE ~Resolves(d)
      BY <2>2, <3>2 DEF HandleSource
    <3> QED BY <3>1, <3>2
  <2> QED BY <2>1, <2>2
<1>5. memory' \subseteq Deliveries \X Decisions /\ \A m \in memory' : status[m[1]] = "SENT"
  <2>1. memory \subseteq Deliveries \X Decisions /\ \A m \in memory : status[m[1]] = "SENT"
    BY DEF BotInv, BotTypeOK
  <2> QED BY <1>4, <2>1
<1>6. BotTypeOK'
  BY <1>1, <1>2, <1>3, <1>5 DEF BotInv, BotTypeOK
<1>7. VotedOnItsPrompt'
  BY <1>1, <1>2 DEF BotInv, VotedOnItsPrompt
<1> QED BY <1>1, <1>2, <1>6, <1>7 DEF BotInv

LEMMA ConfirmHolds ==
    ASSUME BotInv, NEW d \in Deliveries, NEW a \in Decisions, HandleConfirm(d, a)
    PROVE  BotInv'
<1>1. DeliveryInv' /\ UNCHANGED <<status, route, arrived, queued>>
  BY OutboxStays DEF BotInv, HandleConfirm
<1>2. UNCHANGED <<confirmed, memory>> /\ updates' \cup handled' = updates \cup handled
  BY TakesHolds DEF HandleConfirm
<1>3. card' \in [Deliveries -> {"none", "source"} \cup Decisions]
  <2>1. CASE card' = card
    BY <2>1 DEF BotInv, BotTypeOK
  <2>2. CASE Edit(d, "none")
    BY <2>2, EditHolds
  <2> QED BY <2>1, <2>2 DEF HandleConfirm
<1>4. \/ UNCHANGED <<vote, moved>>
      \/ /\ status[d] = "SENT" /\ moved' = TRUE
         /\ vote' = [vote EXCEPT ![route[d]] = a]
  BY KnownIsSent DEF HandleConfirm
<1>5. <<d, a>> \in confirmed
  BY DEF HandleConfirm, Takes, BotInv
<1>6. status[d] = "SENT" => route[d] \in Routes /\ arrived[d] = 1 /\ d \in 1 .. queued
  <2>1. Recorded(d)
    BY DEF BotInv, DeliveryInv
  <2> QED BY <2>1, NotificationsAssumption
          DEF Recorded, Deliveries, BotInv, DeliveryInv, DeliveryTypes
<1>7. vote \in [Routes -> {"none"} \cup Decisions] /\ moved \in BOOLEAN
  BY DEF BotInv, BotTypeOK
<1>8. vote' \in [Routes -> {"none"} \cup Decisions] /\ moved' \in BOOLEAN
  BY <1>4, <1>7
<1>9. BotTypeOK'
  BY <1>1, <1>2, <1>3, <1>8 DEF BotInv, BotTypeOK
<1>10. VotedOnItsPrompt'
  <2>1. CASE UNCHANGED <<vote, moved>>
    BY <1>1, <1>2, <2>1 DEF BotInv, VotedOnItsPrompt
  <2>2. CASE status[d] = "SENT" /\ vote' = [vote EXCEPT ![route[d]] = a]
    <3>1. \A r \in Routes \ {route[d]} : vote'[r] = vote[r]
      BY <1>7, <2>2
    <3>2. vote'[route[d]] = a
      BY <1>6, <1>7, <2>2
    <3> QED BY <1>1, <1>2, <1>5, <1>6, <2>2, <3>1, <3>2 DEF BotInv, VotedOnItsPrompt
  <2> QED BY <1>4, <2>1, <2>2
<1> QED BY <1>1, <1>2, <1>9, <1>10 DEF BotInv

LEMMA PollHolds == BotInv /\ (Poll \/ Restart \/ ChangesElsewhere) => BotInv'
<1> SUFFICES ASSUME BotInv, Poll \/ Restart \/ ChangesElsewhere PROVE BotInv'
  OBVIOUS
<1>1. DeliveryInv' /\ UNCHANGED <<status, route, arrived, queued>>
  BY OutboxStays DEF BotInv, Poll, Restart, ChangesElsewhere
<1>2. /\ UNCHANGED <<card, confirmed, vote>> /\ moved' \in {moved, TRUE}
      /\ updates' \cup handled' \subseteq updates \cup handled
      /\ memory' \subseteq memory
  BY DEF Poll, Restart, ChangesElsewhere
<1>3. BotTypeOK'
  BY <1>1, <1>2 DEF BotInv, BotTypeOK
<1>4. VotedOnItsPrompt'
  BY <1>1, <1>2 DEF BotInv, VotedOnItsPrompt
<1> QED BY <1>1, <1>2, <1>3, <1>4 DEF BotInv

LEMMA BotNextHolds == BotInv /\ [ReviewNext]_reviewVars => BotInv'
<1>1. ASSUME BotInv, UNCHANGED reviewVars PROVE BotInv'
  BY <1>1, DeskStepHolds DEF reviewVars
<1>2. ASSUME BotInv, Next /\ UNCHANGED botVars PROVE BotInv'
  BY <1>2, DeskStepHolds
<1>3. ASSUME BotInv, BotNext PROVE BotInv'
  BY <1>3, ButtonsHold, HandleHolds, ConfirmHolds, PollHolds DEF BotNext
<1> QED BY <1>1, <1>2, <1>3 DEF ReviewNext

LEMMA BotInvariance == ReviewSpec => []BotInv
BY BotInitHolds, BotNextHolds, PTL DEF ReviewSpec

\* A vote cast through the bot was confirmed by a press on a message that is recorded as sent to
\* the voter's own route and did arrive there: for any number of presses, updates delivered again
\* after a restart, and failed edits (_handle_callback, _confirm in telegram_updates).
THEOREM VotesHold == ReviewSpec => []VotedOnItsPrompt
<1>1. BotInv => VotedOnItsPrompt
  BY DEF BotInv
<1> QED BY <1>1, BotInvariance, PTL

\* Type correctness of the bot; what it remembers for confirmation has been delivered.
THEOREM BotTypesHold == ReviewSpec => []BotTypeOK
<1>1. BotInv => BotTypeOK
  BY DEF BotInv
<1> QED BY <1>1, BotInvariance, PTL

\* The bot changes nothing of the outbox: what it promises holds beside the bot too.
THEOREM MessagesArriveOnceInReview == ReviewSpec => []ArrivesOnce
<1>1. BotInv => ArrivesOnce
  BY DeliveryInvSuffices DEF BotInv
<1> QED BY <1>1, BotInvariance, PTL

-----------------------------------------------------------------------------
(***************************************************************************)
(* New risk                                                                *)
(***************************************************************************)
Held == {"checked", "invalidated", "read"}

\* One call: what it has come to, and what its intent was bound in.
CallFits(c) ==
    /\ auth[c] # "NONE" => pc[c] = "done" /\ op[c] = "ISSUE"
    /\ auth[c] = "NONE" => grant[c] = 0
    /\ pc[c] # "done" => intent[c] = "NONE"
    /\ pc[c] \in {"entered", "locked"} \/ intent[c] # "NONE" =>
          under[c] \in Calls /\ op[c] \in {"INITIAL", "ADD"}
    /\ c \in bound => intent[c] # "NONE" /\ (intent[c] = "READY" => mode = Environment[of[c]])

\* What the holder of the capacity lock has tested is so until it commits.
HolderFits(c) ==
    pc[c] = "locked" =>
        /\ size[c] \in Quantities
        /\ requested[under[c]] + size[c] <= grant[under[c]]
        /\ Occupied(Calls) + size[c] <= total
        /\ Occupied(InScope(of[c])) + size[c] <= perScope
        /\ AllResolved(under[c])
        /\ op[c] = "INITIAL" => FirstOf(c, under[c])
        /\ op[c] = "ADD" => adds[under[c]] < AllowedAdds

StandingUnder(a) == {i \in Calls : under[i] = a /\ intent[i] \in {"READY", "SENT", "FILLED"}}

GrantFits(a) ==
    Cardinality(Units(size, StandingUnder(a))) <= requested[a] /\ requested[a] <= grant[a]

OneUnresolved ==
    \A i, j \in Calls :
        under[i] = under[j] /\ intent[i] \in Unresolved /\ intent[j] \in Unresolved => i = j

AddsRemain ==
    \A i \in Calls : op[i] = "ADD" /\ intent[i] \in Unresolved => adds[under[i]] < AllowedAdds

\* While a switch holds the team's row there is no unresolved intent in the mode it leaves, so
\* that it finds none to cancel.
SwitchesFit ==
    \A s \in Admins :
        /\ \A i \in Calls :
              switch[s] \in Held /\ intent[i] \in Unresolved => Environment[of[i]] # sawMode[s]
        /\ \A a \in gone[s] : auth[a] # "NONE"
        /\ found[s] = {}

RiskInv ==
    /\ RiskTypeOK
    /\ \A c \in Calls : CallFits(c) /\ HolderFits(c) /\ GrantFits(c)
    /\ OneUnresolved /\ AddsRemain /\ OneInitialPerProposal /\ SwitchesFit

-----------------------------------------------------------------------------
(***************************************************************************)
(* Sums, as numbers of units                                               *)
(***************************************************************************)
LEMMA UnitsFinite ==
    ASSUME NEW amount, NEW calls \in SUBSET Calls
    PROVE  /\ IsFiniteSet(Units(amount, calls))
           /\ Cardinality(Units(amount, calls)) \in Nat
<1>1. IsFiniteSet(calls) /\ IsFiniteSet(Quantities)
  BY FS_Subset, FS_Interval, NewRiskAssumption DEF Quantities
<1>2. IsFiniteSet(calls \X Quantities)
  BY <1>1, FS_Product
<1>3. IsFiniteSet(Units(amount, calls))
  BY <1>2, FS_Subset DEF Units
<1> QED BY <1>3, FS_CardinalityType

\* A sum does not grow if no amount does.
LEMMA UnitsShrink ==
    ASSUME NEW before, NEW after, NEW calls \in SUBSET Calls, NEW fewer \in SUBSET calls,
           \A i \in fewer : before[i] \in Nat /\ after[i] \in Nat /\ after[i] <= before[i]
    PROVE  Cardinality(Units(after, fewer)) <= Cardinality(Units(before, calls))
<1>1. Units(after, fewer) \subseteq Units(before, calls)
  BY NewRiskAssumption DEF Units, Quantities
<1> QED BY <1>1, UnitsFinite, FS_Subset

LEMMA UpTo ==
    ASSUME NEW n \in Nat
    PROVE  IsFiniteSet(1 .. n) /\ Cardinality(1 .. n) = n
<1>1. /\ IsFiniteSet(1 .. n)
      /\ Cardinality(1 .. n) = IF 1 > n THEN 0 ELSE n - 1 + 1
  BY FS_Interval
<1> QED BY <1>1

LEMMA UnitsOfOne ==
    ASSUME NEW amount, NEW c \in Calls, amount[c] \in 0 .. MaxQuantity
    PROVE  Cardinality(Units(amount, {c})) = amount[c]
<1>1. amount[c] \in Nat /\ amount[c] <= MaxQuantity /\ MaxQuantity \in Nat
  BY NewRiskAssumption
<1>2. Units(amount, {c}) = {c} \X (1 .. amount[c])
  <2>1. ASSUME NEW u, u \in Units(amount, {c}) PROVE u \in {c} \X (1 .. amount[c])
    BY <1>1, <2>1 DEF Units, Quantities
  <2>2. ASSUME NEW k \in 1 .. amount[c] PROVE <<c, k>> \in Units(amount, {c})
    BY <1>1, <2>2 DEF Units, Quantities
  <2> QED BY <2>1, <2>2
<1>3. Cardinality({c} \X (1 .. amount[c])) = 1 * amount[c]
  <2>1. IsFiniteSet(1 .. amount[c]) /\ Cardinality(1 .. amount[c]) = amount[c]
    BY <1>1, UpTo
  <2>2. IsFiniteSet({c}) /\ Cardinality({c}) = 1
    BY FS_Singleton
  <2> QED BY <2>1, <2>2, FS_Product
<1> QED BY <1>1, <1>2, <1>3

\* The sum with one call more, or less.
LEMMA UnitsOfOneMore ==
    ASSUME NEW amount, NEW calls \in SUBSET Calls, NEW c \in Calls, c \notin calls,
           amount[c] \in 0 .. MaxQuantity
    PROVE  Cardinality(Units(amount, calls \cup {c}))
             = Cardinality(Units(amount, calls)) + amount[c]
<1>1. /\ Units(amount, calls \cup {c}) = Units(amount, calls) \cup Units(amount, {c})
      /\ Units(amount, calls) \cap Units(amount, {c}) = {}
  BY DEF Units
<1>2. /\ IsFiniteSet(Units(amount, calls)) /\ IsFiniteSet(Units(amount, {c}))
      /\ Cardinality(Units(amount, calls)) \in Nat
  BY UnitsFinite
<1>3. Cardinality(Units(amount, {c})) = amount[c]
  BY UnitsOfOne
<1>4. Cardinality(Units(amount, calls \cup {c}))
        = Cardinality(Units(amount, calls)) + Cardinality(Units(amount, {c})) - Cardinality({})
  BY <1>1, <1>2, FS_Union
<1> QED BY <1>2, <1>3, <1>4, FS_EmptySet, NewRiskAssumption

\* The sum when the amount of one call changes.
LEMMA UnitsChange ==
    ASSUME NEW before, NEW after, NEW calls \in SUBSET Calls, NEW c \in Calls,
           \A i \in Calls : before[i] \in 0 .. MaxQuantity /\ after[i] \in 0 .. MaxQuantity,
           \A i \in Calls \ {c} : after[i] = before[i]
    PROVE  /\ Cardinality(Units(after, calls)) <= Cardinality(Units(before, calls)) + after[c]
           /\ c \notin calls => Units(after, calls) = Units(before, calls)
<1>1. CASE c \notin calls
  <2>1. Units(after, calls) = Units(before, calls)
    BY <1>1 DEF Units
  <2> QED BY <1>1, <2>1, UnitsFinite, NewRiskAssumption
<1>2. CASE c \in calls
  <2> DEFINE rest == calls \ {c}
  <2>1. rest \in SUBSET Calls /\ rest \subseteq calls /\ c \notin rest /\ rest \cup {c} = calls
    BY <1>2
  <2>2. Cardinality(Units(after, rest \cup {c})) = Cardinality(Units(after, rest)) + after[c]
    BY <2>1, UnitsOfOneMore
  <2>3. Cardinality(Units(after, rest)) <= Cardinality(Units(before, calls))
    BY <2>1, UnitsShrink, NewRiskAssumption
  <2>4. /\ Cardinality(Units(after, rest)) \in Nat /\ Cardinality(Units(before, calls)) \in Nat
        /\ after[c] \in Nat
    BY <2>1, UnitsFinite, NewRiskAssumption
  <2>5. Cardinality(Units(after, calls)) = Cardinality(Units(after, rest)) + after[c]
    BY <2>1, <2>2
  <2> HIDE DEF rest
  <2> QED BY <1>2, <2>3, <2>4, <2>5
<1> QED BY <1>1, <1>2

-----------------------------------------------------------------------------
LEMMA RiskInitHolds == RiskInit => RiskInv
<1> SUFFICES ASSUME RiskInit PROVE RiskInv
  OBVIOUS
<1>1. RiskTypeOK
  BY NewRiskAssumption DEF RiskInit, RiskTypeOK, Modes, Open, Unresolved
<1>2. ASSUME NEW c \in Calls PROVE CallFits(c) /\ HolderFits(c) /\ GrantFits(c)
  <2>1. StandingUnder(c) = {}
    BY DEF RiskInit, StandingUnder
  <2>2. Units(size, StandingUnder(c)) = {}
    BY <2>1 DEF Units
  <2>3. /\ auth[c] = "NONE" /\ grant[c] = 0 /\ requested[c] = 0
        /\ pc[c] = "idle" /\ intent[c] = "NONE"
    BY DEF RiskInit
  <2>4. c \notin bound
    BY DEF RiskInit
  <2>5. CallFits(c) /\ HolderFits(c)
    BY <2>3, <2>4 DEF CallFits, HolderFits
  <2>6. GrantFits(c)
    BY <2>2, <2>3, FS_EmptySet DEF GrantFits
  <2> QED BY <2>5, <2>6
<1> QED BY <1>1, <1>2 DEF RiskInit, RiskInv, OneUnresolved, AddsRemain, OneInitialPerProposal,
                          SwitchesFit, Unresolved, Held

\* The types that sums and comparisons rest on.
LEMMA RiskNumbers ==
    ASSUME RiskTypeOK
    PROVE  /\ \A c \in Calls : /\ size[c] \in 0 .. MaxQuantity /\ risk[c] \in 0 .. MaxQuantity
                               /\ requested[c] \in 0 .. MaxQuantity
                               /\ grant[c] \in 0 .. MaxQuantity
                               /\ adds[c] \in 0 .. AllowedAdds
           /\ total \in Nat /\ perScope \in Nat
           /\ MaxQuantity \in Nat /\ AllowedAdds \in Nat
           /\ \A calls \in SUBSET Calls : /\ Occupied(calls) \in Nat
                                          /\ Cardinality(Units(size, calls)) \in Nat
<1>1. <<total, perScope>> \in Nat \X Nat
  BY NewRiskAssumption DEF RiskTypeOK
<1>2. \A calls \in SUBSET Calls : /\ Occupied(calls) \in Nat
                                  /\ Cardinality(Units(size, calls)) \in Nat
  BY UnitsFinite DEF Occupied
<1>3. MaxQuantity \in Nat /\ AllowedAdds \in Nat /\ total \in Nat /\ perScope \in Nat
  BY <1>1, NewRiskAssumption
<1>4. \A c \in Calls : /\ size[c] \in 0 .. MaxQuantity /\ risk[c] \in 0 .. MaxQuantity
                       /\ requested[c] \in 0 .. MaxQuantity
                       /\ grant[c] \in 0 .. MaxQuantity
                       /\ adds[c] \in 0 .. AllowedAdds
  BY DEF RiskTypeOK
<1> QED BY <1>2, <1>3, <1>4

\* A step that makes no intent and changes no reservation: the policy, the binding and dispatch of
\* intents, and what a switch does.
LEMMA IntentsMove ==
    ASSUME RiskInv, RiskTypeOK',
           UNCHANGED <<callVars, grant, requested, adds, under, size, risk, pc, lock>>,
           \A c \in Calls : auth'[c] = "NONE" <=> auth[c] = "NONE",
           UNCHANGED policyVars \/ lock = NoCall,
           \A i \in Calls :
               \/ intent'[i] = intent[i]
               \/ intent[i] \in Unresolved /\ intent'[i] \in {"SENT", "CANCELLED"},
           \A i \in Calls : i \in bound' => /\ intent[i] # "NONE"
                                            /\ intent'[i] = "READY" => mode' = Environment[of[i]],
           SwitchesFit'
    PROVE  RiskInv'
<1>1. \A i \in Calls : /\ intent'[i] \in Unresolved => intent[i] \in Unresolved
                       /\ intent'[i] = "NONE" <=> intent[i] = "NONE"
  BY DEF Unresolved
<1>2. ASSUME NEW c \in Calls PROVE CallFits(c)'
  <2>1. CallFits(c)
    BY DEF RiskInv
  <2> QED BY <1>1, <2>1 DEF CallFits, callVars
<1>3. ASSUME NEW c \in Calls PROVE HolderFits(c)'
  <2>1. HolderFits(c)
    BY DEF RiskInv
  <2>2. pc[c] = "locked" => lock # NoCall
    BY NewRiskAssumption DEF RiskInv, RiskTypeOK
  <2>3. SUFFICES ASSUME pc[c] = "locked" PROVE HolderFits(c)'
    BY DEF HolderFits
  <2>4. UNCHANGED <<total, perScope, op, of, risk, requested, grant, adds, size, under>>
    BY <2>2, <2>3 DEF policyVars, callVars
  <2>5. Occupied(Calls)' = Occupied(Calls) /\ Occupied(InScope(of[c]))' = Occupied(InScope(of[c]))
    BY <2>4 DEF Occupied, InScope
  <2>6. AllResolved(under[c])' /\ (op[c] = "INITIAL" => FirstOf(c, under[c])')
    BY <1>1, <2>1, <2>3, <2>4 DEF HolderFits, AllResolved, FirstOf
  <2> QED BY <2>1, <2>3, <2>4, <2>5, <2>6 DEF HolderFits
<1>4. ASSUME NEW a \in Calls PROVE GrantFits(a)'
  <2>1. GrantFits(a)
    BY DEF RiskInv
  <2>2. StandingUnder(a)' \in SUBSET StandingUnder(a)
    BY DEF StandingUnder, Unresolved
  <2>3. StandingUnder(a) \in SUBSET Calls
    BY DEF StandingUnder
  <2>4. \A i \in Calls : size[i] \in Nat
    BY RiskNumbers DEF RiskInv
  <2>5. Cardinality(Units(size, StandingUnder(a)')) <= Cardinality(Units(size, StandingUnder(a)))
    BY <2>2, <2>3, <2>4, UnitsShrink
  <2>6. /\ Cardinality(Units(size, StandingUnder(a)')) \in Nat
        /\ Cardinality(Units(size, StandingUnder(a))) \in Nat
        /\ requested[a] \in Nat
    BY <2>2, <2>3, RiskNumbers DEF RiskInv
  <2>7. Units(size, StandingUnder(a))' = Units(size, StandingUnder(a)')
    BY DEF Units
  <2> QED BY <2>1, <2>5, <2>6, <2>7 DEF GrantFits
<1>5. OneUnresolved' /\ AddsRemain' /\ OneInitialPerProposal'
  BY <1>1 DEF RiskInv, OneUnresolved, AddsRemain, OneInitialPerProposal, callVars
<1> QED BY <1>2, <1>3, <1>4, <1>5 DEF RiskInv

\* A step of a call that has made no intent: it enters, takes the lock or gives up.
LEMMA CallMoves ==
    ASSUME RiskInv, RiskTypeOK', NEW c \in Calls, intent[c] = "NONE",
           UNCHANGED <<callVars, policyVars, teamVars, authVars, intent, risk, switchVars>>,
           \A d \in Calls \ {c} : UNCHANGED <<pc[d], under[d], size[d]>>,
           CallFits(c)', HolderFits(c)'
    PROVE  RiskInv'
<1>1. UNCHANGED <<op, of, total, perScope, mode, bound, auth, grant, requested, adds, switch,
                  sawMode>>
  BY DEF callVars, policyVars, teamVars, authVars, switchVars
<1>2. ASSUME NEW d \in Calls \ {c} PROVE CallFits(d)' /\ HolderFits(d)'
  <2>1. CallFits(d) /\ HolderFits(d)
    BY DEF RiskInv
  <2>2. /\ Occupied(Calls)' = Occupied(Calls)
        /\ Occupied(InScope(of[d]))' = Occupied(InScope(of[d]))
    BY <1>1 DEF Occupied, InScope
  <2>3. CallFits(d)'
    BY <1>1, <2>1 DEF CallFits
  <2>4. SUFFICES ASSUME pc[d] = "locked" PROVE HolderFits(d)'
    BY <2>3 DEF HolderFits
  <2>5. AllResolved(under[d])'
    BY <1>1, <2>1, <2>4 DEF AllResolved, HolderFits, Unresolved
  <2>6. op[d] = "INITIAL" => FirstOf(d, under[d])'
    BY <1>1, <2>1, <2>4 DEF FirstOf, HolderFits
  <2> QED BY <1>1, <2>1, <2>2, <2>4, <2>5, <2>6 DEF HolderFits
<1>3. ASSUME NEW a \in Calls PROVE GrantFits(a)'
  <2>1. GrantFits(a)
    BY DEF RiskInv
  <2>2. StandingUnder(a)' = StandingUnder(a) /\ c \notin StandingUnder(a)
    BY DEF StandingUnder
  <2>3. Units(size, StandingUnder(a))' = Units(size, StandingUnder(a))
    BY <2>2 DEF Units, StandingUnder
  <2> QED BY <1>1, <2>1, <2>3 DEF GrantFits
<1>4. OneUnresolved' /\ AddsRemain' /\ OneInitialPerProposal'
  BY <1>1 DEF RiskInv, OneUnresolved, AddsRemain, OneInitialPerProposal, Unresolved
<1>5. SwitchesFit'
  <2>1. UNCHANGED <<switch, gone, found, sawMode, auth, intent, of>>
    BY <1>1 DEF switchVars, authVars
  <2> QED BY <2>1 DEF RiskInv, SwitchesFit
<1> QED BY <1>2, <1>3, <1>4, <1>5 DEF RiskInv

-----------------------------------------------------------------------------
LEMMA PolicyHolds ==
    ASSUME RiskInv, NEW limits \in Limits, ConfigurePolicy(limits)
    PROVE  RiskInv'
<1>1. \A a \in Calls : auth'[a] = IF auth[a] = "ACTIVE" THEN "INACTIVE" ELSE auth[a]
  BY DEF ConfigurePolicy
<1>2. <<total', perScope'>> \in Limits
  <2>1. limits = <<limits[1], limits[2]>>
    BY NewRiskAssumption
  <2> QED BY <2>1 DEF ConfigurePolicy
<1>3. auth' \in [Calls -> {"NONE", "ACTIVE", "INACTIVE"}]
  BY <1>1 DEF ConfigurePolicy, RiskInv, RiskTypeOK
<1>4. /\ UNCHANGED <<op, of, mode, teamVersion, bound, grant, requested, adds, campaign>>
      /\ UNCHANGED <<intent, under, size, risk, pc, lock, switch, sawMode, sawVersion, gone>>
      /\ UNCHANGED found /\ lock = NoCall
  BY DEF ConfigurePolicy, callVars, teamVars, intentVars, switchVars
<1>5. RiskTypeOK'
  BY <1>2, <1>3, <1>4 DEF RiskInv, RiskTypeOK
<1>6. \A i \in Calls : i \in bound' => /\ intent[i] # "NONE"
                                       /\ intent'[i] = "READY" => mode' = Environment[of[i]]
  BY <1>4 DEF RiskInv, CallFits
<1>7. SwitchesFit'
  <2>1. \A a \in Calls : auth'[a] = "NONE" <=> auth[a] = "NONE"
    BY <1>1
  <2>2. \A s \in Admins : gone[s] \subseteq Calls
    BY DEF RiskInv, RiskTypeOK
  <2> QED BY <1>4, <2>1, <2>2 DEF RiskInv, SwitchesFit
<1> QED BY <1>1, <1>4, <1>5, <1>6, <1>7, IntentsMove DEF callVars

LEMMA IssueHolds ==
    ASSUME RiskInv, NEW a \in Calls, NEW q \in Quantities, Issue(a, q)
    PROVE  RiskInv'
<1>1. /\ UNCHANGED <<op, of, total, perScope, mode, teamVersion, bound, requested, adds>>
      /\ UNCHANGED <<campaign, intent, under, size, risk, lock, switch, sawMode, sawVersion, gone>>
      /\ UNCHANGED found /\ lock = NoCall /\ pc[a] = "idle" /\ op[a] = "ISSUE"
      /\ auth' = [auth EXCEPT ![a] = "ACTIVE"] /\ grant' = [grant EXCEPT ![a] = q]
      /\ pc' = [pc EXCEPT ![a] = "done"]
  BY DEF Issue, callVars, policyVars, teamVars, intentVars, switchVars
<1>2. q \in 0 .. MaxQuantity
  BY NewRiskAssumption DEF Quantities
<1>3. /\ auth \in [Calls -> {"NONE", "ACTIVE", "INACTIVE"}] /\ grant \in [Calls -> 0 .. MaxQuantity]
      /\ pc \in [Calls -> {"idle", "entered", "locked", "done"}]
      /\ \A c \in Calls : pc[c] = "locked" <=> lock = c
  BY DEF RiskInv, RiskTypeOK
<1>4. /\ auth' \in [Calls -> {"NONE", "ACTIVE", "INACTIVE"}]
      /\ grant' \in [Calls -> 0 .. MaxQuantity]
      /\ pc' \in [Calls -> {"idle", "entered", "locked", "done"}]
      /\ \A c \in Calls : pc'[c] = "locked" <=> lock' = c
      /\ \A c \in Calls : pc'[c] # "locked"
  BY <1>1, <1>2, <1>3, NewRiskAssumption
<1>5. RiskTypeOK'
  BY <1>1, <1>4 DEF RiskInv, RiskTypeOK
<1>6. auth[a] = "NONE" /\ grant[a] = 0
  BY <1>1, <1>3 DEF RiskInv, CallFits
<1>7. ASSUME NEW c \in Calls PROVE CallFits(c)' /\ HolderFits(c)'
  <2>1. CallFits(c)
    BY DEF RiskInv
  <2>2. CASE c = a
    BY <1>1, <1>3, <1>4, <2>1, <2>2 DEF CallFits, HolderFits
  <2>3. CASE c # a
    BY <1>1, <1>3, <1>4, <2>1, <2>3 DEF CallFits, HolderFits
  <2> QED BY <2>2, <2>3
<1>8. ASSUME NEW c \in Calls PROVE GrantFits(c)'
  <2>1. GrantFits(c) /\ requested[c] \in Nat
    BY RiskNumbers DEF RiskInv
  <2>2. Units(size, StandingUnder(c))' = Units(size, StandingUnder(c))
    BY <1>1 DEF StandingUnder, Units
  <2>3. requested[c] <= grant'[c]
    <3>1. CASE c = a
      BY <1>1, <1>2, <1>3, <1>6, <2>1, <3>1, NewRiskAssumption DEF GrantFits
    <3>2. CASE c # a
      BY <1>1, <1>3, <2>1, <3>2 DEF GrantFits
    <3> QED BY <3>1, <3>2
  <2> QED BY <1>1, <2>1, <2>2, <2>3 DEF GrantFits
<1>9. OneUnresolved' /\ AddsRemain' /\ OneInitialPerProposal' /\ SwitchesFit'
  BY <1>1 DEF RiskInv, OneUnresolved, AddsRemain, OneInitialPerProposal, SwitchesFit
<1> QED BY <1>5, <1>7, <1>8, <1>9 DEF RiskInv

LEMMA EnterHolds ==
    ASSUME RiskInv, NEW c \in Calls, NEW a \in Calls, Enter(c, a)
    PROVE  RiskInv'
<1>1. /\ UNCHANGED <<callVars, policyVars, teamVars, authVars, intent, risk, switchVars>>
      /\ UNCHANGED <<campaign, size, lock>>
      /\ under' = [under EXCEPT ![c] = a] /\ pc' = [pc EXCEPT ![c] = "entered"]
      /\ pc[c] = "idle" /\ op[c] \in {"INITIAL", "ADD"}
  BY DEF Enter
<1>2. /\ under \in [Calls -> Calls \cup {NoCall}]
      /\ pc \in [Calls -> {"idle", "entered", "locked", "done"}]
      /\ \A d \in Calls : pc[d] = "locked" <=> lock = d
      /\ CallFits(c)
  BY DEF RiskInv, RiskTypeOK
<1>3. /\ under' \in [Calls -> Calls \cup {NoCall}]
      /\ pc' \in [Calls -> {"idle", "entered", "locked", "done"}]
      /\ \A d \in Calls : pc'[d] = "locked" <=> lock' = d
      /\ under'[c] = a /\ pc'[c] = "entered"
      /\ \A d \in Calls \ {c} : UNCHANGED <<pc[d], under[d], size[d]>>
  BY <1>1, <1>2
<1>4. RiskTypeOK'
  BY <1>1, <1>3 DEF RiskInv, RiskTypeOK, callVars, policyVars, teamVars, authVars, switchVars
<1>5. intent[c] = "NONE" /\ auth[c] = "NONE"
  BY <1>1, <1>2 DEF CallFits
<1>6. CallFits(c)' /\ HolderFits(c)'
  BY <1>1, <1>2, <1>3, <1>5
     DEF CallFits, HolderFits, callVars, authVars, teamVars
<1> QED BY <1>1, <1>3, <1>4, <1>5, <1>6, CallMoves

LEMMA AbortHolds ==
    ASSUME RiskInv, NEW c \in Calls, Abort(c)
    PROVE  RiskInv'
<1>1. /\ UNCHANGED <<callVars, policyVars, teamVars, authVars, intent, risk, switchVars>>
      /\ UNCHANGED campaign /\ pc[c] \in {"entered", "locked"}
      /\ under' = [under EXCEPT ![c] = NoCall] /\ pc' = [pc EXCEPT ![c] = "idle"]
      /\ size' = [size EXCEPT ![c] = 0]
      /\ lock' = IF lock = c THEN NoCall ELSE lock
  BY DEF Abort
<1>2. /\ under \in [Calls -> Calls \cup {NoCall}] /\ size \in [Calls -> 0 .. MaxQuantity]
      /\ pc \in [Calls -> {"idle", "entered", "locked", "done"}]
      /\ lock \in Calls \cup {NoCall} /\ \A d \in Calls : pc[d] = "locked" <=> lock = d
      /\ CallFits(c)
  BY DEF RiskInv, RiskTypeOK
<1>3. /\ under' \in [Calls -> Calls \cup {NoCall}] /\ size' \in [Calls -> 0 .. MaxQuantity]
      /\ pc' \in [Calls -> {"idle", "entered", "locked", "done"}]
      /\ under'[c] = NoCall /\ pc'[c] = "idle"
      /\ \A d \in Calls \ {c} : UNCHANGED <<pc[d], under[d], size[d]>>
  BY <1>1, <1>2, NewRiskAssumption
<1>4. lock' \in Calls \cup {NoCall} /\ \A d \in Calls : pc'[d] = "locked" <=> lock' = d
  BY <1>1, <1>2, <1>3, NewRiskAssumption
<1>5. RiskTypeOK'
  BY <1>1, <1>3, <1>4 DEF RiskInv, RiskTypeOK, callVars, policyVars, teamVars, authVars, switchVars
<1>6. intent[c] = "NONE" /\ auth[c] = "NONE"
  BY <1>1, <1>2 DEF CallFits
<1>7. CallFits(c)' /\ HolderFits(c)'
  BY <1>1, <1>2, <1>3, <1>6 DEF CallFits, HolderFits, callVars, authVars, teamVars
<1> QED BY <1>1, <1>3, <1>5, <1>6, <1>7, CallMoves

LEMMA LockHolds ==
    ASSUME RiskInv, NEW c \in Calls, NEW q \in Quantities, Lock(c, q)
    PROVE  RiskInv'
<1>1. /\ UNCHANGED <<callVars, policyVars, teamVars, authVars, intent, risk, switchVars>>
      /\ UNCHANGED <<campaign, under>> /\ pc[c] = "entered" /\ lock = NoCall
      /\ pc' = [pc EXCEPT ![c] = "locked"] /\ size' = [size EXCEPT ![c] = q] /\ lock' = c
      /\ MayCreate(c, under[c], q)
  BY DEF Lock, CapacityFree
<1>2. /\ size \in [Calls -> 0 .. MaxQuantity]
      /\ pc \in [Calls -> {"idle", "entered", "locked", "done"}]
      /\ \A d \in Calls : pc[d] = "locked" <=> lock = d
      /\ CallFits(c)
  BY DEF RiskInv, RiskTypeOK
<1>3. q \in 0 .. MaxQuantity
  BY NewRiskAssumption DEF Quantities
<1>4. /\ size' \in [Calls -> 0 .. MaxQuantity]
      /\ pc' \in [Calls -> {"idle", "entered", "locked", "done"}]
      /\ size'[c] = q /\ pc'[c] = "locked"
      /\ \A d \in Calls \ {c} : UNCHANGED <<pc[d], under[d], size[d]>>
      /\ \A d \in Calls : pc'[d] = "locked" <=> lock' = d
  BY <1>1, <1>2, <1>3, NewRiskAssumption
<1>5. RiskTypeOK'
  BY <1>1, <1>4 DEF RiskInv, RiskTypeOK, callVars, policyVars, teamVars, authVars, switchVars
<1>6. intent[c] = "NONE" /\ auth[c] = "NONE" /\ op[c] \in {"INITIAL", "ADD"} /\ under[c] \in Calls
  BY <1>1, <1>2 DEF CallFits
<1>7. CallFits(c)'
  BY <1>1, <1>2, <1>4, <1>6 DEF CallFits, callVars, authVars, teamVars
<1>8. /\ UNCHANGED <<op, of, total, perScope, grant, requested, adds, intent>>
      /\ Occupied(Calls)' = Occupied(Calls) /\ Occupied(InScope(of[c]))' = Occupied(InScope(of[c]))
  BY <1>1 DEF callVars, policyVars, authVars, Occupied, InScope
<1>9. /\ requested[under[c]] + q <= grant[under[c]]
      /\ Occupied(Calls) + q <= total /\ Occupied(InScope(of[c])) + q <= perScope
      /\ AllResolved(under[c])
      /\ op[c] = "INITIAL" => FirstOf(c, under[c])
      /\ op[c] = "ADD" => adds[under[c]] < AllowedAdds
  BY <1>1, <1>6 DEF MayCreate, WithinLimits, MayAdd
<1>10. AllResolved(under[c])' /\ (op[c] = "INITIAL" => FirstOf(c, under[c])')
  BY <1>1, <1>8, <1>9 DEF AllResolved, FirstOf
<1>11. HolderFits(c)'
  BY <1>1, <1>4, <1>8, <1>9, <1>10 DEF HolderFits
<1> QED BY <1>1, <1>4, <1>5, <1>6, <1>7, <1>11, CallMoves

\* The holder of the lock stands alone, and what it tested is still so.
LEMMA CreateHolds ==
    ASSUME RiskInv, NEW c \in Calls, CreateIntent(c), NEW a, a = under[c]
    PROVE  RiskInv'
<1>1. /\ UNCHANGED <<op, of, total, perScope, mode, teamVersion, bound, auth, grant, adds, under>>
      /\ UNCHANGED <<size, switch, sawMode, sawVersion, gone, found>>
      /\ requested' = [requested EXCEPT ![a] = @ + size[c]]
      /\ campaign' = IF campaign[a] = "NONE" THEN [campaign EXCEPT ![a] = "OPENING"] ELSE campaign
      /\ intent' = [intent EXCEPT ![c] = "READY"] /\ risk' = [risk EXCEPT ![c] = size[c]]
      /\ pc' = [pc EXCEPT ![c] = "done"] /\ lock' = NoCall
      /\ pc[c] = "locked" /\ TeamFree
  BY DEF CreateIntent, callVars, policyVars, teamVars, switchVars
<1>2. /\ requested \in [Calls -> 0 .. MaxQuantity] /\ risk \in [Calls -> 0 .. MaxQuantity]
      /\ intent \in [Calls -> Unresolved \cup {"NONE", "FILLED", "CANCELLED"}]
      /\ campaign \in [Calls -> Open \cup {"NONE", "CLOSED"}]
      /\ pc \in [Calls -> {"idle", "entered", "locked", "done"}]
      /\ \A d \in Calls : pc[d] = "locked" <=> lock = d
  BY DEF RiskInv, RiskTypeOK
<1>3. CallFits(c) /\ HolderFits(c) /\ a \in Calls /\ intent[c] = "NONE"
  BY <1>1 DEF RiskInv, CallFits
<1>4. /\ size[c] \in 1 .. MaxQuantity /\ requested[a] + size[c] <= grant[a]
      /\ AllResolved(a) /\ (op[c] = "INITIAL" => FirstOf(c, a))
      /\ op[c] = "ADD" => adds[a] < AllowedAdds
      /\ op[c] \in {"INITIAL", "ADD"}
  BY <1>1, <1>3 DEF HolderFits, CallFits, Quantities
<1>5. /\ size[c] \in Nat /\ requested[a] \in Nat /\ grant[a] \in Nat
      /\ grant[a] <= MaxQuantity /\ MaxQuantity \in Nat
  BY <1>3, RiskNumbers DEF RiskInv
<1>6. /\ requested' \in [Calls -> 0 .. MaxQuantity] /\ requested'[a] = requested[a] + size[c]
      /\ \A b \in Calls \ {a} : requested'[b] = requested[b]
  BY <1>1, <1>2, <1>3, <1>4, <1>5
<1>7. /\ intent' \in [Calls -> Unresolved \cup {"NONE", "FILLED", "CANCELLED"}]
      /\ intent'[c] = "READY" /\ \A d \in Calls \ {c} : intent'[d] = intent[d]
      /\ campaign' \in [Calls -> Open \cup {"NONE", "CLOSED"}]
  BY <1>1, <1>2 DEF Unresolved, Open
<1>8. risk' \in [Calls -> 0 .. MaxQuantity]
  BY <1>1, <1>2, <1>4
<1>9. /\ pc' \in [Calls -> {"idle", "entered", "locked", "done"}]
      /\ pc'[c] = "done" /\ \A d \in Calls \ {c} : pc'[d] = pc[d]
      /\ \A d \in Calls : pc'[d] # "locked"
      /\ lock' = NoCall
  BY <1>1, <1>2
<1>10. RiskTypeOK'
  <2>1. \A d \in Calls : pc'[d] = "locked" <=> lock' = d
    BY <1>9, NewRiskAssumption
  <2> QED BY <1>1, <1>6, <1>7, <1>8, <1>9, <2>1 DEF RiskInv, RiskTypeOK
<1>11. ASSUME NEW d \in Calls PROVE CallFits(d)' /\ HolderFits(d)'
  <2>1. CallFits(d) /\ auth[c] = "NONE" /\ c \notin bound
    BY <1>1, <1>3 DEF CallFits, RiskInv
  <2>2. CallFits(d)'
    BY <1>1, <1>3, <1>4, <1>7, <1>9, <2>1 DEF CallFits
  <2> QED BY <1>9, <2>2 DEF HolderFits
<1>12. ASSUME NEW b \in Calls PROVE GrantFits(b)'
  <2>1. /\ GrantFits(b) /\ requested[b] \in Nat /\ StandingUnder(b) \in SUBSET Calls
        /\ Cardinality(Units(size, StandingUnder(b))) \in Nat
    BY RiskNumbers DEF RiskInv, StandingUnder
  <2>2. CASE b = a
    <3>1. StandingUnder(b)' = StandingUnder(b) \cup {c} /\ c \notin StandingUnder(b)
      BY <1>1, <1>3, <1>7, <2>2 DEF StandingUnder
    <3>2. Cardinality(Units(size, StandingUnder(b) \cup {c}))
            = Cardinality(Units(size, StandingUnder(b))) + size[c]
      BY <1>5, <1>4, <2>1, <3>1, UnitsOfOneMore
    <3>3. Units(size, StandingUnder(b))' = Units(size, StandingUnder(b) \cup {c})
      BY <1>1, <3>1 DEF Units
    <3> QED BY <1>1, <1>4, <1>5, <1>6, <2>1, <2>2, <3>2, <3>3 DEF GrantFits
  <2>3. CASE b # a
    <3>1. StandingUnder(b)' = StandingUnder(b)
      BY <1>1, <1>7, <1>3, <2>3 DEF StandingUnder
    <3>2. Units(size, StandingUnder(b))' = Units(size, StandingUnder(b))
      BY <1>1, <3>1 DEF Units
    <3> QED BY <1>1, <1>6, <2>1, <2>3, <3>2 DEF GrantFits
  <2> QED BY <2>2, <2>3
<1>13. OneUnresolved'
  <2>1. \A i \in Calls \ {c} : under[i] = a => intent[i] \notin Unresolved
    BY <1>4 DEF AllResolved
  <2> QED BY <1>1, <1>7, <2>1 DEF RiskInv, OneUnresolved
<1>14. AddsRemain'
  BY <1>1, <1>4, <1>7 DEF RiskInv, AddsRemain
<1>15. OneInitialPerProposal'
  BY <1>1, <1>4, <1>7 DEF RiskInv, OneInitialPerProposal, FirstOf
<1>16. SwitchesFit'
  <2>1. \A s \in Admins : switch[s] \notin Held
    BY <1>1 DEF TeamFree, Held
  <2> QED BY <1>1, <2>1 DEF RiskInv, SwitchesFit
<1> QED BY <1>10, <1>11, <1>12, <1>13, <1>14, <1>15, <1>16 DEF RiskInv

\* Nobody holds the capacity lock.
LEMMA NoHolder ==
    ASSUME RiskInv, ~ReservationsHeld, UNCHANGED pc
    PROVE  \A c \in Calls : HolderFits(c)'
BY DEF ReservationsHeld, HolderFits

LEMMA FillHolds ==
    ASSUME RiskInv, NEW i \in Calls, Fill(i)
    PROVE  RiskInv'
<1>1. /\ UNCHANGED <<op, of, total, perScope, mode, teamVersion, bound, auth, grant, requested>>
      /\ UNCHANGED <<under, size, risk, pc, lock, switch, sawMode, sawVersion, gone, found>>
      /\ intent[i] = "SENT" /\ ~ReservationsHeld
      /\ op[i] = "ADD" => adds[under[i]] < AllowedAdds
      /\ intent' = [intent EXCEPT ![i] = "FILLED"]
      /\ campaign' = [campaign EXCEPT ![under[i]] = "OPEN"]
      /\ adds' = IF op[i] = "ADD" THEN [adds EXCEPT ![under[i]] = @ + 1] ELSE adds
  BY DEF Fill, callVars, policyVars, teamVars, switchVars
<1>2. /\ adds \in [Calls -> 0 .. AllowedAdds] /\ AllowedAdds \in Nat
      /\ intent \in [Calls -> Unresolved \cup {"NONE", "FILLED", "CANCELLED"}]
      /\ campaign \in [Calls -> Open \cup {"NONE", "CLOSED"}]
      /\ under[i] \in Calls
  BY <1>1, NewRiskAssumption DEF RiskInv, RiskTypeOK, CallFits
<1>3. /\ intent' \in [Calls -> Unresolved \cup {"NONE", "FILLED", "CANCELLED"}]
      /\ intent'[i] = "FILLED" /\ \A d \in Calls \ {i} : intent'[d] = intent[d]
      /\ campaign' \in [Calls -> Open \cup {"NONE", "CLOSED"}]
  BY <1>1, <1>2 DEF Open
<1>4. /\ adds' \in [Calls -> 0 .. AllowedAdds]
      /\ \A a \in Calls : a # under[i] \/ op[i] # "ADD" => adds'[a] = adds[a]
  <2>1. CASE op[i] = "ADD"
    <3>1. adds[under[i]] + 1 \in 0 .. AllowedAdds
      BY <1>1, <1>2, <2>1
    <3> QED BY <1>1, <1>2, <2>1, <3>1
  <2>2. CASE op[i] # "ADD"
    BY <1>1, <1>2, <2>2
  <2> QED BY <2>1, <2>2
<1>5. RiskTypeOK'
  BY <1>1, <1>3, <1>4 DEF RiskInv, RiskTypeOK
<1>6. ASSUME NEW d \in Calls PROVE CallFits(d)'
  <2>1. CallFits(d)
    BY DEF RiskInv
  <2> QED BY <1>1, <1>3, <2>1 DEF CallFits
<1>7. ASSUME NEW a \in Calls PROVE GrantFits(a)'
  <2>1. StandingUnder(a)' = StandingUnder(a)
    BY <1>1, <1>3 DEF StandingUnder
  <2>2. Units(size, StandingUnder(a))' = Units(size, StandingUnder(a))
    BY <1>1, <2>1 DEF Units
  <2> QED BY <1>1, <2>2 DEF GrantFits, RiskInv
<1>8. OneUnresolved' /\ SwitchesFit'
  BY <1>1, <1>3 DEF RiskInv, OneUnresolved, SwitchesFit, Unresolved
\* No other addition under the authorization waits for the unit that was consumed.
<1>9. AddsRemain'
  <2> SUFFICES ASSUME NEW j \in Calls, op[j] = "ADD", intent'[j] \in Unresolved
               PROVE  adds'[under[j]] < AllowedAdds
    BY <1>1 DEF AddsRemain
  <2>1. j # i /\ intent[j] \in Unresolved /\ intent[i] \in Unresolved
    BY <1>1, <1>3 DEF Unresolved
  <2>2. under[j] # under[i] /\ under[j] \in Calls
    BY <2>1 DEF RiskInv, OneUnresolved, CallFits, Unresolved
  <2> QED BY <1>4, <2>1, <2>2 DEF RiskInv, AddsRemain
<1>10. OneInitialPerProposal'
  BY <1>1, <1>3 DEF RiskInv, OneInitialPerProposal
<1> QED BY <1>1, <1>5, <1>6, <1>7, <1>8, <1>9, <1>10, NoHolder DEF RiskInv

LEMMA ReleaseHolds ==
    ASSUME RiskInv, NEW i \in Calls, NEW flat, Release(i, flat), NEW a, a = under[i]
    PROVE  RiskInv'
<1>1. /\ UNCHANGED <<op, of, total, perScope, mode, teamVersion, bound, auth, grant, adds>>
      /\ UNCHANGED <<under, size, pc, lock, switch, sawMode, sawVersion, gone, found>>
      /\ intent[i] \in Unresolved /\ ~ReservationsHeld /\ requested[a] >= size[i]
      /\ intent' = [intent EXCEPT ![i] = "CANCELLED"] /\ risk' = [risk EXCEPT ![i] = 0]
      /\ requested' = [requested EXCEPT ![a] = @ - size[i]]
      /\ campaign' = IF flat /\ op[i] = "INITIAL" THEN [campaign EXCEPT ![a] = "CLOSED"]
                     ELSE campaign
  BY DEF Release, Releasable, callVars, policyVars, teamVars, switchVars
<1>2. /\ requested \in [Calls -> 0 .. MaxQuantity] /\ risk \in [Calls -> 0 .. MaxQuantity]
      /\ intent \in [Calls -> Unresolved \cup {"NONE", "FILLED", "CANCELLED"}]
      /\ campaign \in [Calls -> Open \cup {"NONE", "CLOSED"}]
      /\ a \in Calls /\ size[i] \in 0 .. MaxQuantity /\ MaxQuantity \in Nat
  BY <1>1, NewRiskAssumption DEF RiskInv, RiskTypeOK, CallFits, Unresolved
<1>3. /\ requested' \in [Calls -> 0 .. MaxQuantity] /\ requested'[a] = requested[a] - size[i]
      /\ \A b \in Calls \ {a} : requested'[b] = requested[b]
  BY <1>1, <1>2
<1>4. /\ intent' \in [Calls -> Unresolved \cup {"NONE", "FILLED", "CANCELLED"}]
      /\ intent'[i] = "CANCELLED" /\ \A d \in Calls \ {i} : intent'[d] = intent[d]
      /\ campaign' \in [Calls -> Open \cup {"NONE", "CLOSED"}]
      /\ risk' \in [Calls -> 0 .. MaxQuantity]
  BY <1>1, <1>2 DEF Open
<1>5. RiskTypeOK'
  BY <1>1, <1>3, <1>4 DEF RiskInv, RiskTypeOK
<1>6. ASSUME NEW d \in Calls PROVE CallFits(d)'
  <2>1. CallFits(d)
    BY DEF RiskInv
  <2> QED BY <1>1, <1>4, <2>1 DEF CallFits, Unresolved
<1>7. ASSUME NEW b \in Calls PROVE GrantFits(b)'
  <2>1. /\ GrantFits(b) /\ requested[b] \in Nat /\ grant[b] \in Nat
        /\ StandingUnder(b) \in SUBSET Calls
        /\ Cardinality(Units(size, StandingUnder(b))) \in Nat
    BY RiskNumbers DEF RiskInv, StandingUnder
  <2>2. CASE b = a
    <3>1. /\ i \in StandingUnder(b) /\ StandingUnder(b)' = StandingUnder(b) \ {i}
          /\ (StandingUnder(b) \ {i}) \cup {i} = StandingUnder(b)
      BY <1>1, <1>4, <2>2 DEF StandingUnder, Unresolved
    <3>2. Cardinality(Units(size, (StandingUnder(b) \ {i}) \cup {i}))
            = Cardinality(Units(size, StandingUnder(b) \ {i})) + size[i]
      BY <1>2, <2>1, UnitsOfOneMore
    <3>3. Cardinality(Units(size, StandingUnder(b) \ {i})) \in Nat
      BY <2>1, UnitsFinite
    <3>4. Units(size, StandingUnder(b))' = Units(size, StandingUnder(b) \ {i})
      BY <1>1, <3>1 DEF Units
    <3>5. Cardinality(Units(size, StandingUnder(b))) - size[i] <= requested[b] - size[i]
      BY <1>2, <2>1 DEF GrantFits
    <3>6. /\ Cardinality(Units(size, StandingUnder(b) \ {i})) <= requested'[b]
          /\ requested'[b] <= grant[b]
      <4>1. size[i] \in Nat
        BY <1>2
      <4>2. requested'[b] = requested[b] - size[i]
        BY <1>3, <2>2
      <4>3. requested[b] <= grant[b]
        BY <2>1 DEF GrantFits
      <4>4. Cardinality(Units(size, StandingUnder(b)))
              = Cardinality(Units(size, StandingUnder(b) \ {i})) + size[i]
        BY <3>1, <3>2
      <4> QED BY <2>1, <3>3, <3>5, <4>1, <4>2, <4>3, <4>4
    <3> QED BY <1>1, <3>4, <3>6 DEF GrantFits
  <2>3. CASE b # a
    <3>1. StandingUnder(b)' = StandingUnder(b)
      BY <1>1, <1>4, <2>3 DEF StandingUnder
    <3>2. Units(size, StandingUnder(b))' = Units(size, StandingUnder(b))
      BY <1>1, <3>1 DEF Units
    <3> QED BY <1>1, <1>3, <2>1, <2>3, <3>2 DEF GrantFits
  <2> QED BY <2>2, <2>3
<1>8. OneUnresolved' /\ SwitchesFit' /\ AddsRemain'
  BY <1>1, <1>4 DEF RiskInv, OneUnresolved, SwitchesFit, AddsRemain, Unresolved
<1>9. OneInitialPerProposal'
  BY <1>1, <1>4 DEF RiskInv, OneInitialPerProposal, Unresolved
<1> QED BY <1>1, <1>5, <1>6, <1>7, <1>8, <1>9, NoHolder DEF RiskInv

LEMMA CloseHolds ==
    ASSUME RiskInv, NEW a \in Calls, Close(a)
    PROVE  RiskInv'
<1>1. /\ UNCHANGED <<op, of, total, perScope, mode, teamVersion, bound, auth, grant, requested>>
      /\ UNCHANGED <<adds, intent, under, size, pc, lock, switch, sawMode, sawVersion, gone, found>>
      /\ ~ReservationsHeld
      /\ campaign' = [campaign EXCEPT ![a] = "CLOSED"]
      /\ risk' = [i \in Calls |-> IF under[i] = a THEN 0 ELSE risk[i]]
  BY DEF Close, callVars, policyVars, teamVars, authVars, switchVars
<1>2. /\ risk \in [Calls -> 0 .. MaxQuantity]
      /\ campaign \in [Calls -> Open \cup {"NONE", "CLOSED"}]
  BY DEF RiskInv, RiskTypeOK
<1>3. risk' \in [Calls -> 0 .. MaxQuantity] /\ campaign' \in [Calls -> Open \cup {"NONE", "CLOSED"}]
  BY <1>1, <1>2, NewRiskAssumption
<1>4. RiskTypeOK'
  BY <1>1, <1>3 DEF RiskInv, RiskTypeOK
<1>5. ASSUME NEW d \in Calls PROVE CallFits(d)' /\ GrantFits(d)'
  <2>1. Units(size, StandingUnder(d))' = Units(size, StandingUnder(d))
    BY <1>1 DEF Units, StandingUnder
  <2> QED BY <1>1, <2>1 DEF RiskInv, CallFits, GrantFits
<1>6. OneUnresolved' /\ AddsRemain' /\ OneInitialPerProposal' /\ SwitchesFit'
  BY <1>1 DEF RiskInv, OneUnresolved, AddsRemain, OneInitialPerProposal, SwitchesFit
<1> QED BY <1>1, <1>4, <1>5, <1>6, NoHolder DEF RiskInv

LEMMA BindHolds ==
    ASSUME RiskInv, NEW i \in Calls, Bind(i) \/ Dispatch(i)
    PROVE  RiskInv'
<1>1. /\ UNCHANGED <<op, of, total, perScope, mode, teamVersion, auth, grant, requested>>
      /\ UNCHANGED <<adds, campaign, under, size, risk, pc, lock>>
      /\ UNCHANGED <<switch, sawMode, sawVersion, gone, found>>
      /\ intent[i] = "READY"
  BY DEF Bind, Dispatch, callVars, policyVars, teamVars, authVars, intentVars, switchVars
<1>2. intent \in [Calls -> Unresolved \cup {"NONE", "FILLED", "CANCELLED"}] /\ bound \subseteq Calls
  BY DEF RiskInv, RiskTypeOK
<1>3. /\ intent' \in [Calls -> Unresolved \cup {"NONE", "FILLED", "CANCELLED"}]
      /\ \A d \in Calls \ {i} : intent'[d] = intent[d]
      /\ intent'[i] \in {"READY", "SENT"}
      /\ bound' \subseteq Calls
  <2>1. CASE Bind(i)
    BY <1>1, <1>2, <2>1 DEF Bind, intentVars
  <2>2. CASE Dispatch(i)
    BY <1>2, <2>2 DEF Dispatch, Unresolved
  <2> QED BY <2>1, <2>2
<1>4. RiskTypeOK'
  BY <1>1, <1>3 DEF RiskInv, RiskTypeOK
<1>5. ASSUME NEW j \in Calls, j \in bound'
      PROVE  intent[j] # "NONE" /\ (intent'[j] = "READY" => mode' = Environment[of[j]])
  <2>1. CallFits(j)
    BY DEF RiskInv
  <2>2. CASE Bind(i)
    BY <1>1, <1>3, <1>5, <2>1, <2>2 DEF Bind, CallFits
  <2>3. CASE Dispatch(i)
    BY <1>1, <1>3, <1>5, <2>1, <2>3 DEF Dispatch, CallFits
  <2> QED BY <2>2, <2>3
<1>6. SwitchesFit'
  BY <1>1, <1>3 DEF RiskInv, SwitchesFit, Unresolved
<1>7. ASSUME NEW j \in Calls
      PROVE  \/ intent'[j] = intent[j]
             \/ intent[j] \in Unresolved /\ intent'[j] \in {"SENT", "CANCELLED"}
  BY <1>1, <1>3 DEF Unresolved
<1> QED BY <1>1, <1>4, <1>5, <1>6, <1>7, IntentsMove DEF callVars, policyVars

\* What a switch does before it commits changes only what it remembers.
LEMMA SwitchStepHolds ==
    ASSUME RiskInv, NEW s \in Admins,
           \/ SwitchBegins(s) \/ SwitchChecks(s) \/ SwitchInvalidates(s)
           \/ SwitchReadsIntents(s) \/ SwitchAborts(s)
    PROVE  RiskInv'
<1>1. /\ UNCHANGED <<op, of, total, perScope, mode, teamVersion, bound, auth, grant, requested>>
      /\ UNCHANGED <<adds, campaign, intent, under, size, risk, pc, lock>>
  BY DEF SwitchBegins, SwitchChecks, SwitchInvalidates, SwitchReadsIntents, SwitchAborts, callVars,
         policyVars, teamVars, authVars, intentVars
<1>2. /\ switch \in [Admins -> {"idle", "begun"} \cup Held]
      /\ sawMode \in [Admins -> Modes] /\ sawVersion \in [Admins -> 0 .. MaxTeamVersion]
      /\ gone \in [Admins -> SUBSET Calls] /\ found \in [Admins -> SUBSET Calls]
      /\ \A t \in Admins : gone[t] # {} => switch[t] \in {"invalidated", "read"}
      /\ mode \in Modes /\ teamVersion \in 1 .. MaxTeamVersion
  BY DEF RiskInv, RiskTypeOK, Held
<1>3. /\ switch' \in [Admins -> {"idle", "begun"} \cup Held]
      /\ sawMode' \in [Admins -> Modes] /\ sawVersion' \in [Admins -> 0 .. MaxTeamVersion]
      /\ gone' \in [Admins -> SUBSET Calls] /\ found' \in [Admins -> SUBSET Calls]
      /\ \A t \in Admins : gone'[t] # {} => switch'[t] \in {"invalidated", "read"}
  <2>1. CASE SwitchBegins(s)
    BY <1>2, <2>1, NewRiskAssumption DEF SwitchBegins
  <2>2. CASE SwitchChecks(s)
    <3>1. PICK to \in {"idle", "checked"} : switch' = [switch EXCEPT ![s] = to]
      BY <2>2 DEF SwitchChecks
    <3>2. /\ UNCHANGED <<sawMode, sawVersion, gone, found>>
          /\ switch[s] = "begun"
      BY <2>2 DEF SwitchChecks
    <3> QED BY <1>2, <3>1, <3>2 DEF Held
  <2>3. CASE SwitchInvalidates(s)
    <3>1. Standing(sawMode[s]) \in SUBSET Calls
      BY DEF Standing
    <3> QED BY <1>2, <2>3, <3>1 DEF SwitchInvalidates, Held
  <2>4. CASE SwitchReadsIntents(s)
    BY <1>2, <2>4 DEF SwitchReadsIntents, Held
  <2>5. CASE SwitchAborts(s)
    BY <1>2, <2>5 DEF SwitchAborts
  <2> QED BY <2>1, <2>2, <2>3, <2>4, <2>5
<1>4. RiskTypeOK'
  BY <1>1, <1>3 DEF RiskInv, RiskTypeOK, Held
<1>5. SwitchesFit'
  <2>1. ASSUME SwitchChecks(s), NEW i \in Calls, switch'[s] \in Held, intent[i] \in Unresolved
        PROVE  Environment[of[i]] # sawMode[s]
    <3>1. ~Blocked(sawMode[s])
      BY <1>2, <2>1 DEF SwitchChecks, Held
    <3> QED BY <2>1, <3>1 DEF Blocked
  <2>2. ASSUME NEW t \in Admins, t # s \/ ~SwitchChecks(s), switch'[t] \in Held
        PROVE  switch[t] \in Held /\ sawMode'[t] = sawMode[t]
    BY <1>2, <2>2 DEF SwitchBegins, SwitchChecks, SwitchInvalidates, SwitchReadsIntents,
                      SwitchAborts, Held
  <2>3. SwitchChecks(s) => UNCHANGED sawMode
    BY DEF SwitchChecks
  <2>4. ASSUME NEW t \in Admins PROVE \A a \in gone'[t] : auth[a] # "NONE"
    <3>1. \A a \in gone[t] : auth[a] # "NONE"
      BY DEF RiskInv, SwitchesFit
    <3>2. \A a \in gone'[t] : a \in gone[t] \/ a \in Standing(sawMode[s])
      BY <1>2 DEF SwitchBegins, SwitchChecks, SwitchInvalidates, SwitchReadsIntents, SwitchAborts
    <3> QED BY <3>1, <3>2 DEF Standing
  <2>5. ASSUME NEW t \in Admins PROVE found'[t] = {}
    <3>1. found[t] = {}
      BY DEF RiskInv, SwitchesFit
    <3>2. CASE SwitchReadsIntents(s)
      <4>1. {i \in Calls : intent[i] = "READY" /\ Environment[of[i]] = sawMode[s]} = {}
        BY <3>2 DEF SwitchReadsIntents, RiskInv, SwitchesFit, Unresolved, Held
      <4> QED BY <1>2, <3>1, <3>2, <4>1 DEF SwitchReadsIntents
    <3>3. CASE ~SwitchReadsIntents(s)
      BY <1>2, <3>1, <3>3 DEF SwitchBegins, SwitchChecks, SwitchInvalidates, SwitchAborts
    <3> QED BY <3>2, <3>3
  <2>6. ASSUME NEW t \in Admins, NEW i \in Calls, switch'[t] \in Held, intent[i] \in Unresolved
        PROVE  Environment[of[i]] # sawMode'[t]
    <3>1. CASE t = s /\ SwitchChecks(s)
      BY <2>1, <2>3, <2>6, <3>1
    <3>2. CASE t # s \/ ~SwitchChecks(s)
      BY <2>2, <2>6, <3>2 DEF RiskInv, SwitchesFit
    <3> QED BY <3>1, <3>2
  <2> QED BY <1>1, <2>4, <2>5, <2>6 DEF SwitchesFit
<1>6. \A i \in Calls : i \in bound' => /\ intent[i] # "NONE"
                                       /\ intent'[i] = "READY" => mode' = Environment[of[i]]
  BY <1>1 DEF RiskInv, CallFits
<1> QED BY <1>1, <1>4, <1>5, <1>6, IntentsMove DEF callVars, policyVars

\* It leaves no unresolved intent in the mode it leaves: those there are were made in the other.
LEMMA SwitchCommitsHolds ==
    ASSUME RiskInv, NEW s \in Admins, SwitchCommits(s)
    PROVE  RiskInv'
<1>1. /\ UNCHANGED <<op, of, total, perScope, bound, grant, requested>>
      /\ UNCHANGED <<adds, campaign, under, size, risk, pc, lock, sawMode, sawVersion>>
      /\ switch[s] = "read" /\ sawVersion[s] < MaxTeamVersion
      /\ mode' = CHOOSE m \in Modes : m # sawMode[s]
      /\ teamVersion' = sawVersion[s] + 1
      /\ gone' = [gone EXCEPT ![s] = {}] /\ found' = [found EXCEPT ![s] = {}]
      /\ switch' = [switch EXCEPT ![s] = "idle"]
  BY DEF SwitchCommits, callVars, policyVars
<1>2. /\ \A a \in Calls : auth'[a] = IF a \in gone[s] THEN "INACTIVE" ELSE auth[a]
      /\ \A i \in Calls : intent'[i] = IF i \in found[s] THEN "CANCELLED" ELSE intent[i]
      /\ DOMAIN auth' = Calls /\ DOMAIN intent' = Calls
      /\ auth' = [a \in Calls |-> auth'[a]] /\ intent' = [i \in Calls |-> intent'[i]]
  BY DEF SwitchCommits
<1>3. (\A a \in gone[s] : auth[a] # "NONE") /\ found[s] = {}
  BY DEF RiskInv, SwitchesFit
<1>4. \A i \in Calls : intent'[i] = intent[i]
  BY <1>2, <1>3
<1>5. /\ switch \in [Admins -> {"idle", "begun"} \cup Held]
      /\ sawMode \in [Admins -> Modes] /\ sawVersion \in [Admins -> 0 .. MaxTeamVersion]
      /\ gone \in [Admins -> SUBSET Calls] /\ found \in [Admins -> SUBSET Calls]
      /\ \A t \in Admins : gone[t] # {} => switch[t] \in {"invalidated", "read"}
      /\ auth \in [Calls -> {"NONE", "ACTIVE", "INACTIVE"}]
      /\ intent \in [Calls -> Unresolved \cup {"NONE", "FILLED", "CANCELLED"}]
      /\ of \in [Calls -> ProposalIds]
  BY DEF RiskInv, RiskTypeOK, Held
<1>6. mode' \in Modes /\ mode' # sawMode[s] /\ sawMode[s] \in Modes
  BY <1>1, <1>5 DEF Modes
<1>7. /\ switch' \in [Admins -> {"idle", "begun"} \cup Held]
      /\ gone' \in [Admins -> SUBSET Calls] /\ found' \in [Admins -> SUBSET Calls]
      /\ \A t \in Admins : gone'[t] # {} => switch'[t] \in {"invalidated", "read"}
      /\ \A t \in Admins : /\ gone'[t] \subseteq gone[t] /\ found'[t] \subseteq found[t]
                           /\ switch'[t] \in Held => switch[t] \in Held
  BY <1>1, <1>5 DEF Held
<1>8. /\ auth' \in [Calls -> {"NONE", "ACTIVE", "INACTIVE"}]
      /\ \A a \in Calls : auth'[a] = "NONE" <=> auth[a] = "NONE"
      /\ intent' \in [Calls -> Unresolved \cup {"NONE", "FILLED", "CANCELLED"}]
  BY <1>2, <1>3, <1>4, <1>5
<1>9. teamVersion' \in 1 .. MaxTeamVersion
  BY <1>1, <1>5, NewRiskAssumption
<1>10. RiskTypeOK'
  BY <1>1, <1>6, <1>7, <1>8, <1>9 DEF RiskInv, RiskTypeOK, Held
<1>11. ASSUME NEW i \in Calls, i \in bound'
       PROVE  intent[i] # "NONE" /\ (intent'[i] = "READY" => mode' = Environment[of[i]])
  <2>1. intent[i] # "NONE"
    BY <1>1, <1>11 DEF RiskInv, CallFits
  <2>2. intent[i] = "READY" => Environment[of[i]] # sawMode[s]
    BY <1>1 DEF RiskInv, SwitchesFit, Unresolved, Held
  <2>3. Environment[of[i]] \in Modes
    BY <1>5, NewRiskAssumption
  <2> QED BY <1>4, <1>6, <2>1, <2>2, <2>3 DEF Modes
<1>12. SwitchesFit'
  <2> SUFFICES ASSUME NEW t \in Admins
               PROVE  /\ \A i \in Calls : switch'[t] \in Held /\ intent'[i] \in Unresolved
                                          => Environment[of[i]] # sawMode[t]
                      /\ \A a \in gone'[t] : auth'[a] # "NONE"
                      /\ found'[t] = {}
    BY <1>1 DEF SwitchesFit
  <2>1. gone[t] \subseteq Calls
    BY <1>5
  <2> QED BY <1>4, <1>7, <1>8, <2>1 DEF RiskInv, SwitchesFit
<1> QED BY <1>1, <1>4, <1>8, <1>10, <1>11, <1>12, IntentsMove DEF callVars, policyVars

LEMMA RiskNextHolds == RiskInv /\ [RiskNext]_riskVars => RiskInv'
<1>1. ASSUME RiskInv, UNCHANGED riskVars PROVE RiskInv'
  <2>1. /\ UNCHANGED <<op, of, total, perScope, mode, teamVersion, bound>>
        /\ UNCHANGED <<auth, grant, requested, adds>>
    BY <1>1 DEF riskVars, callVars, policyVars, teamVars, authVars
  <2>2. /\ UNCHANGED <<campaign, intent, under, size, risk, pc, lock>>
        /\ UNCHANGED <<switch, sawMode, sawVersion, gone, found>>
    BY <1>1 DEF riskVars, intentVars, switchVars
  <2>3. RiskTypeOK'
    BY <1>1, <2>1, <2>2 DEF RiskInv, RiskTypeOK
  <2>4. SwitchesFit'
    BY <1>1, <2>1, <2>2 DEF RiskInv, SwitchesFit
  <2>5. \A i \in Calls : i \in bound' => /\ intent[i] # "NONE"
                                         /\ intent'[i] = "READY" => mode' = Environment[of[i]]
    BY <1>1, <2>1, <2>2 DEF RiskInv, CallFits
  <2> QED BY <1>1, <2>1, <2>2, <2>3, <2>4, <2>5, IntentsMove DEF callVars, policyVars
<1>2. ASSUME RiskInv, NEW c \in Calls, NEW q \in Quantities, Issue(c, q) \/ Lock(c, q)
      PROVE  RiskInv'
  BY <1>2, IssueHolds, LockHolds
<1>3. ASSUME RiskInv, NEW c \in Calls, NEW a \in Calls, Enter(c, a) PROVE RiskInv'
  BY <1>3, EnterHolds
<1>4. ASSUME RiskInv, NEW c \in Calls,
             \/ CreateIntent(c) \/ Abort(c) \/ Bind(c) \/ Dispatch(c) \/ Fill(c) \/ Close(c)
             \/ \E flat \in BOOLEAN : Release(c, flat)
      PROVE  RiskInv'
  BY <1>4, CreateHolds, AbortHolds, BindHolds, FillHolds, CloseHolds, ReleaseHolds
<1>5. ASSUME RiskInv, NEW s \in Admins,
             \/ SwitchBegins(s) \/ SwitchChecks(s) \/ SwitchInvalidates(s)
             \/ SwitchReadsIntents(s) \/ SwitchCommits(s) \/ SwitchAborts(s)
      PROVE  RiskInv'
  BY <1>5, SwitchStepHolds, SwitchCommitsHolds
<1> QED BY <1>1, <1>2, <1>3, <1>4, <1>5, PolicyHolds DEF RiskNext

LEMMA RiskInvariance == RiskSpec => []RiskInv
BY RiskInitHolds, RiskNextHolds, PTL DEF RiskSpec

\* What the lock protects: the reservation that is made fits the limits in force as it is made.
LEMMA CapacityStep ==
    ASSUME RiskInv, [RiskNext]_riskVars, risk' # risk
    PROVE  /\ Occupied(Calls)' > Occupied(Calls) => Occupied(Calls)' <= total'
           /\ \A p \in ProposalIds :
                 Occupied(InScope(p))' > Occupied(InScope(p)) =>
                 Occupied(InScope(p))' <= perScope'
<1>1. risk \in [Calls -> 0 .. MaxQuantity] /\ risk' \in [Calls -> 0 .. MaxQuantity]
  BY RiskNextHolds DEF RiskInv, RiskTypeOK
<1>2. ASSUME UNCHANGED of, \A i \in Calls : risk'[i] <= risk[i], NEW calls \in SUBSET Calls
      PROVE  ~(Cardinality(Units(risk', calls)) > Cardinality(Units(risk, calls)))
  <2>1. Cardinality(Units(risk', calls)) <= Cardinality(Units(risk, calls))
    BY <1>1, <1>2, UnitsShrink, NewRiskAssumption
  <2>2. /\ Cardinality(Units(risk', calls)) \in Nat /\ Cardinality(Units(risk, calls)) \in Nat
    BY UnitsFinite
  <2> QED BY <2>1, <2>2
<1>3. CASE UNCHANGED of /\ \A i \in Calls : risk'[i] <= risk[i]
  <2>1. ~(Occupied(Calls)' > Occupied(Calls))
    BY <1>2, <1>3 DEF Occupied, Units
  <2>2. \A p \in ProposalIds : ~(Occupied(InScope(p))' > Occupied(InScope(p)))
    BY <1>2, <1>3 DEF Occupied, InScope, Units
  <2> QED BY <2>1, <2>2
<1>4. ASSUME NEW c \in Calls, CreateIntent(c)
      PROVE  /\ Occupied(Calls)' <= total'
             /\ \A p \in ProposalIds :
                   \/ Occupied(InScope(p))' = Occupied(InScope(p))
                   \/ Occupied(InScope(p))' <= perScope'
  <2>1. /\ UNCHANGED <<op, of, total, perScope, size>> /\ pc[c] = "locked"
        /\ risk' = [risk EXCEPT ![c] = size[c]]
    BY <1>4 DEF CreateIntent, callVars, policyVars
  <2>2. HolderFits(c) /\ size[c] \in Nat /\ total \in Nat /\ perScope \in Nat
    BY RiskNumbers DEF RiskInv
  <2>3. risk'[c] = size[c] /\ \A i \in Calls \ {c} : risk'[i] = risk[i]
    BY <1>1, <2>1
  <2>4. ASSUME NEW calls \in SUBSET Calls
        PROVE  /\ Cardinality(Units(risk', calls)) <= Cardinality(Units(risk, calls)) + size[c]
               /\ Cardinality(Units(risk', calls)) \in Nat
               /\ Cardinality(Units(risk, calls)) \in Nat
               /\ c \notin calls => Units(risk', calls) = Units(risk, calls)
    BY <1>1, <2>3, UnitsChange, UnitsFinite
  <2>5. Occupied(Calls)' <= total'
    <3>1. Cardinality(Units(risk, Calls)) + size[c] <= total
      BY <2>1, <2>2 DEF HolderFits, Occupied
    <3>2. Cardinality(Units(risk', Calls)) <= total
      BY <2>2, <2>4, <3>1
    <3>3. Units(risk, Calls)' = Units(risk', Calls)
      BY DEF Units
    <3> QED BY <2>1, <3>2, <3>3 DEF Occupied
  <2>6. ASSUME NEW p \in ProposalIds
        PROVE  \/ Occupied(InScope(p))' = Occupied(InScope(p))
               \/ Occupied(InScope(p))' <= perScope'
    <3>1. InScope(p) \in SUBSET Calls /\ InScope(p)' = InScope(p)
      BY <2>1 DEF InScope
    <3>2. Units(risk, InScope(p))' = Units(risk', InScope(p))
      BY <3>1 DEF Units
    <3>3. CASE c \notin InScope(p)
      BY <2>4, <3>1, <3>2, <3>3 DEF Occupied
    <3>4. CASE c \in InScope(p)
      <4>1. InScope(of[c]) = InScope(p)
        BY <3>4 DEF InScope
      <4>2. Cardinality(Units(risk, InScope(p))) + size[c] <= perScope
        BY <2>1, <2>2, <4>1 DEF HolderFits, Occupied
      <4>3. Cardinality(Units(risk', InScope(p))) <= perScope
        BY <2>2, <2>4, <3>1, <4>2
      <4> QED BY <2>1, <3>2, <4>3 DEF Occupied
    <3> QED BY <3>3, <3>4
  <2> QED BY <2>5, <2>6
<1>5. ASSUME NEW c \in Calls, CreateIntent(c)
      PROVE  \A p \in ProposalIds :
                 Occupied(InScope(p))' > Occupied(InScope(p)) =>
                 Occupied(InScope(p))' <= perScope'
  <2> SUFFICES ASSUME NEW p \in ProposalIds, Occupied(InScope(p))' > Occupied(InScope(p))
               PROVE  Occupied(InScope(p))' <= perScope'
    OBVIOUS
  <2>1. InScope(p) \in SUBSET Calls
    BY DEF InScope
  <2>2. Occupied(InScope(p)) \in Nat
    BY <2>1, RiskNumbers DEF RiskInv
  <2> QED BY <1>4, <1>5, <2>2
<1>6. ASSUME NEW c \in Calls, NEW flat, Release(c, flat)
      PROVE  UNCHANGED of /\ \A i \in Calls : risk'[i] <= risk[i]
  BY <1>1, <1>6, NewRiskAssumption DEF Release, callVars
<1>7. ASSUME NEW a \in Calls, Close(a)
      PROVE  UNCHANGED of /\ \A i \in Calls : risk'[i] <= risk[i]
  <2>1. \A i \in Calls : risk'[i] = IF under[i] = a THEN 0 ELSE risk[i]
    BY <1>7 DEF Close
  <2>2. \A i \in Calls : risk[i] \in Nat
    BY <1>1
  <2> QED BY <1>7, <2>1, <2>2 DEF Close, callVars
<1>8. \/ \E c \in Calls : CreateIntent(c)
      \/ \E c \in Calls : Close(c)
      \/ \E c \in Calls, flat \in BOOLEAN : Release(c, flat)
  <2>1. ASSUME NEW c \in Calls, NEW q,
               \/ Issue(c, q) \/ Lock(c, q) \/ Abort(c) \/ Bind(c) \/ Dispatch(c) \/ Fill(c)
               \/ Enter(c, q) \/ ConfigurePolicy(q)
        PROVE  UNCHANGED risk
    BY <2>1 DEF Issue, Lock, Abort, Bind, Dispatch, Fill, Enter, ConfigurePolicy, intentVars
  <2>2. ASSUME NEW s \in Admins,
               \/ SwitchBegins(s) \/ SwitchChecks(s) \/ SwitchInvalidates(s)
               \/ SwitchReadsIntents(s) \/ SwitchCommits(s) \/ SwitchAborts(s)
        PROVE  UNCHANGED risk
    BY <2>2 DEF SwitchBegins, SwitchChecks, SwitchInvalidates, SwitchReadsIntents, SwitchCommits,
                SwitchAborts, intentVars
  <2>3. ASSUME NEW limits, ConfigurePolicy(limits) PROVE UNCHANGED risk
    BY <2>3 DEF ConfigurePolicy, intentVars
  <2>4. UNCHANGED riskVars => UNCHANGED risk
    BY DEF riskVars, intentVars
  <2> QED BY <2>1, <2>2, <2>3, <2>4 DEF RiskNext
<1> QED BY <1>3, <1>4, <1>5, <1>6, <1>7, <1>8

\* An intent is sent only by its dispatch, whose worker was bound in the mode there still is.
LEMMA ModeStep ==
    ASSUME RiskInv, [RiskNext]_riskVars, NEW i \in Calls, intent[i] = "READY", intent'[i] = "SENT"
    PROVE  mode = Environment[of[i]]
<1>1. intent \in [Calls -> Unresolved \cup {"NONE", "FILLED", "CANCELLED"}]
  BY DEF RiskInv, RiskTypeOK
<1>2. ASSUME NEW c \in Calls, NEW q,
             \/ Issue(c, q) \/ Lock(c, q) \/ Abort(c) \/ Bind(c) \/ Enter(c, q) \/ Close(c)
      PROVE  FALSE
  BY <1>2 DEF Issue, Lock, Abort, Bind, Enter, Close, intentVars
<1>3. ASSUME NEW c \in Calls, CreateIntent(c) \/ Fill(c) \/ \E flat \in BOOLEAN : Release(c, flat)
      PROVE  FALSE
  <2>1. PICK st \in {"READY", "FILLED", "CANCELLED"} : intent' = [intent EXCEPT ![c] = st]
    BY <1>3 DEF CreateIntent, Fill, Release
  <2> QED BY <1>1, <2>1
<1>4. ASSUME NEW s \in Admins,
             \/ SwitchBegins(s) \/ SwitchChecks(s) \/ SwitchInvalidates(s)
             \/ SwitchReadsIntents(s) \/ SwitchCommits(s) \/ SwitchAborts(s)
      PROVE  FALSE
  <2>1. intent'[i] \in {intent[i], "CANCELLED"}
    BY <1>4 DEF SwitchBegins, SwitchChecks, SwitchInvalidates, SwitchReadsIntents, SwitchCommits,
                SwitchAborts, intentVars
  <2> QED BY <2>1
<1>5. ASSUME NEW limits, ConfigurePolicy(limits) PROVE FALSE
  BY <1>5 DEF ConfigurePolicy, intentVars
<1>6. UNCHANGED riskVars => FALSE
  BY DEF riskVars, intentVars
<1>7. PICK c \in Calls : Dispatch(c)
  BY <1>2, <1>3, <1>4, <1>5, <1>6 DEF RiskNext
<1>8. c = i
  BY <1>1, <1>7 DEF Dispatch
<1> QED BY <1>7, <1>8 DEF Dispatch, RiskInv, CallFits

\* Type correctness of authorizations, intents and switches.
THEOREM RiskTypesHold == RiskSpec => []RiskTypeOK
<1>1. RiskInv => RiskTypeOK
  BY DEF RiskInv
<1> QED BY <1>1, RiskInvariance, PTL

\* No reservation is made that takes the team, or an account, over the limits in force when it is
\* made: for any calls that create intents at once, and limits that are lowered and raised
\* (lock_risk_capacity, evaluate_risk).
THEOREM CapacityHolds == RiskSpec => CapacityRespected
<1>1. RiskInv /\ [RiskNext]_riskVars =>
        [/\ Occupied(Calls)' > Occupied(Calls) => Occupied(Calls)' <= total'
         /\ \A p \in ProposalIds :
               Occupied(InScope(p))' > Occupied(InScope(p)) =>
               Occupied(InScope(p))' <= perScope']_risk
  BY CapacityStep
<1> QED BY <1>1, RiskInvariance, PTL DEF RiskSpec, CapacityRespected

\* An approved proposal enters the market once, whatever number of callers and retries
\* ask for it (create_order_intent).
THEOREM OneInitialHolds == RiskSpec => []OneInitialPerProposal
<1>1. RiskInv => OneInitialPerProposal
  BY DEF RiskInv
<1> QED BY <1>1, RiskInvariance, PTL

LEMMA GrantsFit == RiskInv => GrantRespected
<1> SUFFICES ASSUME RiskInv PROVE GrantRespected
  OBVIOUS
<1>1. ASSUME NEW a \in Calls
      PROVE  Cardinality(Units(size, StandingUnder(a))) <= grant[a]
  <2>1. StandingUnder(a) \in SUBSET Calls
    BY DEF StandingUnder
  <2>2. /\ Cardinality(Units(size, StandingUnder(a))) \in Nat
        /\ requested[a] \in Nat /\ grant[a] \in Nat
    BY <2>1, RiskNumbers DEF RiskInv
  <2>3. GrantFits(a)
    BY DEF RiskInv
  <2> QED BY <2>2, <2>3 DEF GrantFits
<1> QED BY <1>1 DEF GrantRespected, StandingUnder, RiskInv, AddsRemain

\* What stands under an authorization stays within its quantity, and an ADD finds its unit: for
\* any history of intents that are released and created anew (consume_add_unit).
THEOREM GrantsHold == RiskSpec => []GrantRespected
BY GrantsFit, RiskInvariance, PTL

\* An order is dispatched in the team's current mode, for any number of administrators whose
\* switches begin with a stale view of it (set_team_execution_mode, dispatch_order_intent).
THEOREM ModeHolds == RiskSpec => DispatchMatchesMode
<1>1. RiskInv /\ [RiskNext]_riskVars =>
        [\A i \in Calls : intent[i] = "READY" /\ intent'[i] = "SENT" =>
            mode = Environment[of[i]]]_riskVars
  BY ModeStep
<1> QED BY <1>1, RiskInvariance, PTL DEF RiskSpec, DispatchMatchesMode

-----------------------------------------------------------------------------
(***************************************************************************)
(* Outbox, bot and new risk side by side.  The bot's module has the outbox *)
(* in it; risk is taken apart from both.                                   *)
(***************************************************************************)
Foci == {"outbox", "choice", "pair", "risk"}

DeskInv == BotInv /\ RiskInv /\ focus \in Foci

LEMMA DeskInitHolds == DeskInit => DeskInv
<1>1. DeskInit => ReviewInit /\ RiskInit /\ focus \in Foci
  BY DEF DeskInit, Foci
<1> QED
  BY <1>1, BotInitHolds, RiskInitHolds DEF DeskInv

\* Each step is one of the bot's module or one of new risk, while the other rests.
LEMMA DeskStepsAreTheirs ==
    focus \in Foci /\ [DeskNext]_deskVars
        => [ReviewNext]_reviewVars /\ [RiskNext]_riskVars /\ UNCHANGED focus
<1> SUFFICES ASSUME focus \in Foci, [DeskNext]_deskVars
             PROVE  [ReviewNext]_reviewVars /\ [RiskNext]_riskVars /\ UNCHANGED focus
  OBVIOUS
<1>1. CASE UNCHANGED deskVars
  BY <1>1 DEF deskVars
<1>2. CASE DeskNext
  <2>1. UNCHANGED focus
    BY <1>2 DEF DeskNext
  <2>2. CASE focus = "outbox"
    BY <1>2, <2>2 DEF DeskNext, OutboxStep, ReviewNext
  <2>3. CASE focus \in {"choice", "pair"}
    BY <1>2, <2>3 DEF DeskNext, BotStep
  <2>4. CASE focus = "risk"
    BY <1>2, <2>4 DEF DeskNext, RiskStep
  <2> QED
    BY <2>1, <2>2, <2>3, <2>4 DEF Foci
<1> QED
  BY <1>1, <1>2

LEMMA DeskStepHoldsTogether == DeskInv /\ [DeskNext]_deskVars => DeskInv'
BY DeskStepsAreTheirs, BotNextHolds, RiskNextHolds DEF DeskInv

\* Outbox, bot and new risk together keep every type.
THEOREM DeskTypesHold == DeskSpec => []DeskTypesOK
<1>1. DeskInv => DeskTypesOK
  BY DeliveryInvSuffices DEF DeskInv, BotInv, RiskInv, DeskTypesOK
<1> QED
  BY <1>1, DeskInitHolds, DeskStepHoldsTogether, PTL DEF DeskSpec

\* What holds of each alone holds of them together.
THEOREM DeskComposed ==
    DeskSpec => /\ [](ArrivesOnce /\ VotedOnItsPrompt /\ OneInitialPerProposal /\ GrantRespected)
                /\ CapacityRespected /\ DispatchMatchesMode
<1>1. DeskInv => ArrivesOnce /\ VotedOnItsPrompt /\ OneInitialPerProposal /\ GrantRespected
  BY DeliveryInvSuffices, GrantsFit DEF DeskInv, BotInv, RiskInv
<1>2. RiskInv /\ [RiskNext]_riskVars =>
        [/\ Occupied(Calls)' > Occupied(Calls) => Occupied(Calls)' <= total'
         /\ \A p \in ProposalIds :
               Occupied(InScope(p))' > Occupied(InScope(p)) =>
               Occupied(InScope(p))' <= perScope']_risk
  BY CapacityStep
<1>3. RiskInv /\ [RiskNext]_riskVars =>
        [\A i \in Calls : intent[i] = "READY" /\ intent'[i] = "SENT" =>
            mode = Environment[of[i]]]_riskVars
  BY ModeStep
<1>4. DeskInv /\ [DeskNext]_deskVars => RiskInv /\ [RiskNext]_riskVars
  BY DeskStepsAreTheirs DEF DeskInv
<1> QED
  BY <1>1, <1>2, <1>3, <1>4, DeskInitHolds, DeskStepHoldsTogether, PTL
     DEF DeskSpec, CapacityRespected, DispatchMatchesMode
================================================================================
