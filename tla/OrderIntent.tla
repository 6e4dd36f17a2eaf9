---------------------------- MODULE OrderIntent ----------------------------
(***************************************************************************)
(* The durable rows of one campaign in one execution scope, and the        *)
(* control-plane handlers that write them: its order intents with their    *)
(* risk reservations, the venue orders and fills bound to them, the        *)
(* campaign status, the position fact and the latest reconciliation run.   *)
(* Every handler is one database transaction, and all but the recording of *)
(* RPC messages lock the intent's row before they read it.                 *)
(*                                                                         *)
(* Quantities are counted in units: an entry is frozen at Full units; an   *)
(* exit of Full units stands for the whole position.  CANCELLED stands for *)
(* REJECTED too: the handlers treat the two terminal statuses alike.  The  *)
(* statuses PENDING, RESERVED and SENT are declared by the code and set by *)
(* none of its handlers, so no intent has them here.  ADD and REDUCE       *)
(* intents are not modelled: one entry, then exits of the whole position.  *)
(***************************************************************************)
EXTENDS SenderLease

CONSTANTS
    Initial,    \* the INITIAL intent, created together with the campaign
    Exits       \* EXIT intents that may be created

Intents == {Initial} \cup Exits
Full == 2

ASSUME IntentsAssumption == Initial \notin Exits /\ None \notin Exits

IntentStatus ==
    {"NONE", "READY", "DISPATCHING", "PARTIALLY_FILLED", "FILLED", "UNKNOWN", "CANCELLED"}

Active == {"READY", "DISPATCHING", "PARTIALLY_FILLED", "UNKNOWN"}   \* ACTIVE_INTENT_STATUSES
\* Fault: a dispatching intent may be released.
ReleasableDispatching == {"READY", "DISPATCHING", "PARTIALLY_FILLED"}

Releasable == {"READY", "PARTIALLY_FILLED"}                         \* RELEASABLE_INTENT_STATUSES
Terminal == {"FILLED", "CANCELLED"}

ReservationStatus == {"NONE", "RESERVED", "OPEN", "UNKNOWN", "RELEASED"}
Occupied == {"RESERVED", "OPEN", "UNKNOWN"}                         \* OCCUPIED_RESERVATION_STATUSES

CampaignStatus == {"OPENING", "OPEN", "CLOSING", "UNKNOWN", "CLOSED"}

(***************************************************************************)
(* A venue order row.  `id` says where its identity comes from: the        *)
(* placeholder record_freqtrade_unknown writes, the native id written by   *)
(* the executor (whose client id is not the venue's), or a row the facts   *)
(* reported first.                                                         *)
(***************************************************************************)
OrderRow ==
    [id      : {"NONE", "PLACEHOLDER", "RECORDED", "OBSERVED"},
     status  : {"NONE", "SENT", "PARTIALLY_FILLED", "FILLED", "CANCELLED", "UNKNOWN"},
     ordered : 0..Full,
     filled  : 0..Full]

NoOrder == [id |-> "NONE", status |-> "NONE", ordered |-> 0, filled |-> 0]

VARIABLES
    status,         \* order_intents.status, "NONE" before the intent exists
    reservation,    \* status of the intent's risk reservation, "NONE" for exits
    campaign,       \* campaigns.status
    newRisk,        \* authorization active and unexpired, system state NORMAL
    order,          \* the venue order row bound to each intent
    stray,          \* the unbound row with the native id of the intent's order
    fills,          \* units of venue_fills bound to the intent
    strayFills,     \* units of venue_fills of its order that are still unbound
    facts,          \* the position fact: quantity and freshness
    counted,        \* authorization.used_quantity still counts the entry
    latestExit,     \* the EXIT intent created last
    seen            \* what the latest run was completed after:
                    \* the POSITION fact, the latest EXIT intent's last update

intentVars == <<status, reservation, campaign, newRisk, counted, latestExit>>
orderVars == <<order, stray, fills, strayFills>>
factVars == <<facts, seen>>
rowVars == <<intentVars, orderVars, factVars>>

RowsTypeOK ==
    /\ status \in [Intents -> IntentStatus]
    /\ reservation \in [Intents -> ReservationStatus]
    /\ campaign \in CampaignStatus
    /\ newRisk \in BOOLEAN
    /\ counted \in BOOLEAN
    /\ order \in [Intents -> OrderRow]
    /\ stray \in [Intents -> OrderRow]
    /\ fills \in [Intents -> 0..Full]
    /\ strayFills \in [Intents -> 0..Full]
    /\ facts \in [qty : 0..Full, fresh : BOOLEAN]
    /\ latestExit \in Exits \cup {None}
    /\ seen \subseteq {"POSITION", "EXIT"}

\* create_order_intent has just created the campaign with its INITIAL intent.
RowsInit ==
    /\ status = [i \in Intents |-> IF i = Initial THEN "READY" ELSE "NONE"]
    /\ reservation = [i \in Intents |-> IF i = Initial THEN "RESERVED" ELSE "NONE"]
    /\ campaign = "OPENING"
    /\ newRisk = TRUE
    /\ counted = TRUE
    /\ order = [i \in Intents |-> NoOrder]
    /\ stray = [i \in Intents |-> NoOrder]
    /\ fills = [i \in Intents |-> 0]
    /\ strayFills = [i \in Intents |-> 0]
    /\ facts = [qty |-> 0, fresh |-> TRUE]
    /\ latestExit = None
    /\ seen = {}

\* A write to the latest EXIT intent's row is later than the latest run.
Touch(i) == seen' = IF i = latestExit THEN seen \ {"EXIT"} ELSE seen

\* Write a status to a reservation, if the intent has one.
Reserve(i, s) ==
    reservation' = IF reservation[i] = "NONE" THEN reservation
                                              ELSE [reservation EXCEPT ![i] = s]

SetStatus(i, s) == status' = [status EXCEPT ![i] = s]

NoActiveIntent == \A i \in Intents : status[i] \notin Active

-----------------------------------------------------------------------------
(***************************************************************************)
(* Intent creation                                                         *)
(***************************************************************************)

\* create_reduction_intent to a zero target, create_automatic_exit_intent.
\* Neither looks at the campaign's status.
CreateExit(i) ==
    /\ i \in Exits /\ status[i] = "NONE"
    /\ facts.fresh /\ facts.qty > 0
    /\ NoActiveIntent
    /\ SetStatus(i, "READY")
    /\ campaign' = "CLOSING"
    /\ latestExit' = i
    /\ seen' = seen \ {"EXIT"}
    /\ UNCHANGED <<reservation, newRisk, counted, orderVars, facts, leaseVars>>

(***************************************************************************)
(* Operator decisions about an intent                                      *)
(***************************************************************************)

\* mark_intent_unknown
MarkUnknown(i) ==
    /\ status[i] \in Active \ {"UNKNOWN"}
    /\ SetStatus(i, "UNKNOWN")
    /\ Reserve(i, "UNKNOWN")
    /\ order' = IF order[i] = NoOrder THEN order ELSE [order EXCEPT ![i].status = "UNKNOWN"]
    /\ campaign' = "UNKNOWN"
    /\ Touch(i)
    /\ UNCHANGED <<newRisk, counted, latestExit, stray, fills, strayFills, facts, leaseVars>>

\* release_unfilled_intent closes the campaign of an INITIAL intent when a
\* MATCH not older than the fresh flat position says nothing is at the venue.
ClosesUnfilled(i) ==
    /\ i = Initial
    /\ facts.fresh /\ facts.qty = 0
    /\ run.match /\ "POSITION" \in seen

\* Releasing occupied risk gives its quantity back to the authorization, which
\* is refused (AUTHORIZATION_USAGE_INVALID) when it was given back before.
MayGiveBack(i) == reservation[i] \in Occupied => counted

\* release_unfilled_intent: "unfilled" means no bound venue_fills row.
Release(i) ==
    /\ status[i] \in Releasable
    /\ fills[i] = 0
    /\ reservation[i] # "UNKNOWN"
    /\ MayGiveBack(i)
    /\ counted' = (counted /\ reservation[i] \notin Occupied)
    /\ SetStatus(i, "CANCELLED")
    /\ Reserve(i, "RELEASED")
    /\ order' = IF order[i] = NoOrder THEN order ELSE [order EXCEPT ![i].status = "CANCELLED"]
    /\ campaign' = IF ClosesUnfilled(i) THEN "CLOSED" ELSE campaign
    /\ newRisk' = (newRisk /\ ~ClosesUnfilled(i))
    /\ Touch(i)
    /\ UNCHANGED <<latestExit, stray, fills, strayFills, facts, leaseVars>>

(***************************************************************************)
(* Reconciliation and closing                                              *)
(***************************************************************************)

\* The signed sum of the campaign's fills; an exit's stand for the whole position.
FilledPosition == IF \E x \in Exits : fills[x] > 0 THEN 0 ELSE fills[Initial]

IntentReconciles(i) ==
    /\ status[i] \notin {"UNKNOWN", "DISPATCHING"}
    /\ reservation[i] # "UNKNOWN"
    /\ order[i] = NoOrder => status[i] \notin {"PARTIALLY_FILLED", "FILLED"}
    /\ order[i] # NoOrder => /\ order[i].filled = fills[i]
                             /\ order[i].status # "UNKNOWN"

\* What reconcile_scope compares, as far as these rows tell.  A closed
\* campaign's rows are not looked at; its instrument must then be flat.
Reconciles ==
    /\ facts.fresh
    /\ \A i \in Intents : stray[i].status \notin {"SENT", "PARTIALLY_FILLED", "UNKNOWN"}
    /\ IF campaign = "CLOSED"
       THEN facts.qty = 0
       ELSE /\ \A i \in Intents : IntentReconciles(i)
            /\ FilledPosition = facts.qty

\* reconcile_scope: equity, protection and order freshness may also keep the
\* result from being MATCH.
Reconcile ==
    /\ \E match \in {FALSE, Reconciles} : StoreRun(match)
    /\ seen' = {"POSITION", "EXIT"}
    /\ UNCHANGED <<lease, intentVars, orderVars, facts>>

\* close_campaign
Close ==
    /\ campaign # "CLOSED"
    /\ facts.fresh /\ facts.qty = 0
    /\ latestExit # None
    /\ status[latestExit] \in Terminal
    /\ run.match /\ seen = {"POSITION", "EXIT"}
    /\ \A i \in Intents : reservation[i] \notin {"UNKNOWN", "RESERVED"}
    /\ reservation' = [i \in Intents |-> IF reservation[i] = "OPEN" THEN "RELEASED"
                                                                    ELSE reservation[i]]
    /\ newRisk' = FALSE
    /\ campaign' = "CLOSED"
    /\ UNCHANGED <<status, counted, latestExit, orderVars, factVars, leaseVars>>

\* pause_new_risk, a tightened system state, or the authorization expiring.
StopNewRisk ==
    /\ newRisk
    /\ newRisk' = FALSE
    /\ UNCHANGED <<status, reservation, campaign, counted, latestExit, orderVars, factVars, leaseVars>>

\* The position fact grows older than max_fact_age.
FactsAge ==
    /\ facts.fresh
    /\ facts' = [facts EXCEPT !.fresh = FALSE]
    /\ UNCHANGED <<intentVars, orderVars, seen, leaseVars>>
=============================================================================
