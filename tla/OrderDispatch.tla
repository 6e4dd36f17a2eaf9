--------------------------- MODULE OrderDispatch ---------------------------
(***************************************************************************)
(* Controlled execution of order intents: executors (automation workers    *)
(* and API requests) take the sender lease, prepare an intent, persist the *)
(* dispatch, hand the order to the venue, query what became of it and      *)
(* record the outcome, while snapshots are ingested, operators decide      *)
(* about intents, the lease expires and executors stop at any point.       *)
(*                                                                         *)
(* An executor is one call of execute_intent.  Its steps are the database  *)
(* transactions and venue requests whose order matters; what it keeps      *)
(* between them (token, account version, dispatch mode, the trade found)   *)
(* is read once and used later, however stale it has become.  Reading the  *)
(* worker binding and validating the intent boundary are one step: the     *)
(* binding's account version is compared again before anything is written. *)
(***************************************************************************)
EXTENDS FactIngestion

CONSTANTS
    Executors,      \* concurrent calls of execute_intent
    OwnerOf,        \* the owner_id each of them acts for
    Automation,     \* AUTOMATIC_EXECUTION_OWNER
    MaxVersion,     \* bound of the model: changes of the exchange account row
    MaxCrashes       \* bound of the model: calls that die before their end

Dispatches == [owner : Owners, version : 0..MaxVersion]

ASSUME ExecutorsAssumption ==
    /\ OwnerOf \in [Executors -> Owners]
    /\ MaxVersion \in Nat /\ MaxCrashes \in Nat
    /\ None \notin Dispatches

VARIABLES
    version,    \* exchange_accounts.version
    dispatch,   \* the durable dispatch of an intent: its owner, whose
                \* idempotency key it is stored under, and the account version
    posts,      \* order requests issued to the venue for each intent
    exec,       \* the executors' local state
    crashes      \* calls that died so far

dispatchVars == <<version, dispatch, posts>>
execVars == <<exec, crashes>>
vars == <<leaseVars, rowVars, venueVars, snap, dispatchVars, execVars>>

Idle == [pc |-> "idle", intent |-> None, token |-> 0, version |-> 0, found |-> 0]

TypeOK ==
    /\ LeaseTypeOK
    /\ RowsTypeOK
    /\ FactsTypeOK
    /\ version \in 0..MaxVersion
    /\ dispatch \in [Intents -> Dispatches \cup {None}]
    /\ posts \in [Intents -> Nat]
    /\ exec \in [Executors ->
          [pc      : {"idle", "taken", "prepared", "send", "query", "record", "unknown"},
           intent  : Intents \cup {None},
           token   : 0..MaxToken,
           version : 0..MaxVersion,
           found   : 0..Full]]
    /\ crashes \in 0..MaxCrashes

Init ==
    /\ LeaseInit
    /\ RowsInit
    /\ FactsInit
    /\ version = 0
    /\ dispatch = [i \in Intents |-> None]
    /\ posts = [i \in Intents |-> 0]
    /\ exec = [e \in Executors |-> Idle]
    /\ crashes = 0

-----------------------------------------------------------------------------
(***************************************************************************)
(* Executors                                                               *)
(***************************************************************************)

Finish(e) == exec' = [exec EXCEPT ![e] = Idle]

Goto(e, pc) == exec' = [exec EXCEPT ![e].pc = pc]

\* validate_sender_lease.  The clock it compares with was read before the
\* transaction began, so only owner and token are certain to be current.
Holds(e) == lease.owner = OwnerOf[e] /\ lease.token = exec[e].token

Recoverable == {"DISPATCHING", "PARTIALLY_FILLED", "UNKNOWN"}

\* _automatic_intents: what the automation picks up.
Automatic(i) ==
    \/ status[i] = "READY"
    \/ status[i] \in Recoverable /\ dispatch[i] # None

\* AutomaticExecutionWorker._acquire_sender chooses the acquisition by the
\* kind of work; an operator has acquire_sender only.
AcquireBy(o, i) ==
    IF o # Automation THEN AcquireSender(o)
    ELSE IF status[i] # "READY" THEN dispatch[i].owner = o /\ AcquireRecoverySender(o)
    ELSE IF i \in Exits THEN AcquireReduceOnlySender(o)
    ELSE AcquireSender(o)

Take(e, i) ==
    /\ exec[e].pc = "idle"
    /\ status[i] # "NONE"
    /\ OwnerOf[e] = Automation => Automatic(i)
    /\ AcquireBy(OwnerOf[e], i)
    /\ exec' = [exec EXCEPT ![e] = [Idle EXCEPT !.pc = "taken", !.intent = i,
                                                !.token = lease'.token]]
    /\ UNCHANGED <<rowVars, venueVars, snap, dispatchVars, crashes>>

\* _validate_freqtrade_intent_boundary: what an unsent entry needs.
NewRiskAllowed ==
    /\ newRisk
    /\ facts.fresh /\ facts.qty = 0
    /\ \A i \in Intents : reservation[i] # "UNKNOWN"

MayPrepare(e) ==
    LET i == exec[e].intent
    IN  /\ Holds(e)
        /\ status[i] \in {"READY", "FILLED"} \cup Recoverable
        /\ status[i] = "READY" /\ i = Initial => NewRiskAllowed
        /\ i \in Exits /\ dispatch[i] = None => Position(venue) > 0

\* freqtrade_worker_binding, prepare_freqtrade_order and, for an exit not yet
\* dispatched, the lookup of the open trade it closes.
Prepare(e) ==
    /\ exec[e].pc = "taken"
    /\ MayPrepare(e)
    /\ exec' = [exec EXCEPT ![e].pc = "prepared", ![e].version = version]
    /\ UNCHANGED <<leaseVars, rowVars, venueVars, snap, dispatchVars, crashes>>

\* start_freqtrade_dispatch: a READY intent without a dispatch gets one, and
\* the caller may send; its own stored dispatch is replayed as a query.
MayStart(e) ==
    /\ Holds(e) /\ exec[e].version = version
    /\ dispatch[exec[e].intent] = None
    /\ status[exec[e].intent] = "READY"

MayReplay(e) ==
    /\ Holds(e) /\ exec[e].version = version
    /\ dispatch[exec[e].intent] = [owner |-> OwnerOf[e], version |-> version]
    /\ status[exec[e].intent] \in {"FILLED"} \cup Recoverable

StartNew(e) ==
    LET i == exec[e].intent
    IN  /\ exec[e].pc = "prepared"
        /\ MayStart(e)
        /\ SetStatus(i, "DISPATCHING")
        /\ dispatch' = [dispatch EXCEPT ![i] = [owner |-> OwnerOf[e], version |-> version]]
        /\ Touch(i)
        /\ Goto(e, "send")
        /\ UNCHANGED <<leaseVars, reservation, campaign, newRisk, counted, latestExit, orderVars, facts,
                       venueVars, snap, version, posts, crashes>>

\* Fault: replaying a stored dispatch lets its caller send again.
ReplayResends(e) ==
    /\ exec[e].pc = "prepared"
    /\ MayReplay(e)
    /\ Goto(e, "send")
    /\ UNCHANGED <<leaseVars, rowVars, venueVars, snap, dispatchVars, crashes>>

StartReplay(e) ==
    /\ exec[e].pc = "prepared"
    /\ MayReplay(e)
    /\ IF status[exec[e].intent] = "FILLED" THEN Finish(e) ELSE Goto(e, "query")
    /\ UNCHANGED <<leaseVars, rowVars, venueVars, snap, dispatchVars, crashes>>

\* force_enter, force_exit: the order request is issued.  The binding was
\* validated once more (Refused), but may have changed again.  An exit whose
\* trade is gone is only queried.
Post(e) ==
    LET i == exec[e].intent
    IN  /\ exec[e].pc = "send"
        /\ IF i \in Exits /\ Position(venue) = 0
           THEN UNCHANGED <<venue, posts>>
           ELSE /\ VenueBecomes(i, "INFLIGHT")
                /\ posts' = [posts EXCEPT ![i] = @ + 1]
        /\ Goto(e, "query")
        /\ UNCHANGED <<leaseVars, rowVars, rpc, snap, version, dispatch, crashes>>

\* recover_entry, recover_exit: poll until the order's outcome shows, or until
\* the confirmation timeout.  An entry is found through its open trade.
Shows(i) ==
    /\ venue[i] \in VenueFills
    /\ i = Initial => Position(venue) > 0

Find(e) ==
    LET i == exec[e].intent
    IN  /\ exec[e].pc = "query"
        /\ Shows(i)
        /\ exec' = [exec EXCEPT ![e].pc = "record", ![e].found = Filled(venue[i])]
        /\ UNCHANGED <<leaseVars, rowVars, venueVars, snap, dispatchVars, crashes>>

\* A trade that shows the entry's order unfinished is refused.
Unfinished(i) == i = Initial /\ venue[i] \in {"OPEN", "CUT"}

\* The outcome stays unconfirmed, or an entry's native stop does.
TimeOut(e) ==
    LET i == exec[e].intent
    IN  /\ exec[e].pc = "query"
        /\ Shows(i) => i = Initial
        /\ ~Unfinished(i)
        /\ Goto(e, "unknown")
        /\ UNCHANGED <<leaseVars, rowVars, venueVars, snap, dispatchVars, crashes>>

\* An unbound row with the native id must agree, and leaves no second row for it.
MayRecord(e) ==
    LET i == exec[e].intent
    IN  /\ Holds(e)
        /\ stray[i] # NoOrder => order[i] = NoOrder /\ stray[i].filled = exec[e].found

\* record_freqtrade_order.  Neither the intent's, the reservation's nor the
\* campaign's current status is looked at.
RecordOrder(e) ==
    LET i == exec[e].intent
        whole == exec[e].found = Full
        row == [id |-> IF "OBSERVED" \in {order[i].id, stray[i].id} THEN "OBSERVED" ELSE "RECORDED",
                status |-> IF whole THEN "FILLED" ELSE "PARTIALLY_FILLED",
                ordered |-> Full,
                filled |-> exec[e].found]
    IN  /\ exec[e].pc = "record"
        /\ MayRecord(e)
        /\ order' = [order EXCEPT ![i] = row]
        /\ stray' = [stray EXCEPT ![i] = NoOrder]
        /\ SetStatus(i, row.status)
        /\ Reserve(i, "OPEN")
        /\ campaign' = IF i \in Exits THEN "CLOSING" ELSE "OPEN"
        /\ Touch(i)
        /\ Finish(e)
        /\ UNCHANGED <<leaseVars, newRisk, counted, latestExit, fills, strayFills, facts, venueVars, snap,
                       dispatchVars, crashes>>

\* record_freqtrade_unknown
RecordUnknown(e) ==
    LET i == exec[e].intent
    IN  /\ exec[e].pc = "unknown"
        /\ Holds(e)
        /\ IF status[i] = "UNKNOWN"
           THEN UNCHANGED <<status, reservation, campaign, order, seen>>
           ELSE /\ SetStatus(i, "UNKNOWN")
                /\ Reserve(i, "UNKNOWN")
                /\ campaign' = "UNKNOWN"
                /\ order' = [order EXCEPT ![i] =
                                IF @ = NoOrder
                                THEN [id |-> "PLACEHOLDER", status |-> "UNKNOWN",
                                      ordered |-> Full, filled |-> 0]
                                ELSE [@ EXCEPT !.status = "UNKNOWN"]]
                /\ Touch(i)
        /\ Finish(e)
        /\ UNCHANGED <<leaseVars, newRisk, counted, latestExit, stray, fills, strayFills, facts, venueVars,
                       snap, dispatchVars, crashes>>

\* A check fails and the call ends with an error; nothing is undone.
Refused(e) ==
    /\ \/ exec[e].pc = "taken" /\ ~MayPrepare(e)
       \/ exec[e].pc = "prepared" /\ ~MayStart(e) /\ ~MayReplay(e)
       \/ exec[e].pc \in {"send", "query"} /\ exec[e].version # version
       \/ exec[e].pc = "query" /\ Unfinished(exec[e].intent)
       \/ exec[e].pc = "record" /\ ~MayRecord(e)
       \/ exec[e].pc = "unknown" /\ ~Holds(e)
    /\ Finish(e)
    /\ UNCHANGED <<leaseVars, rowVars, venueVars, snap, dispatchVars, crashes>>

\* The process dies, or the worker fails in a way that is no unknown outcome.
Crash(e) ==
    /\ exec[e].pc # "idle"
    /\ crashes < MaxCrashes
    /\ crashes' = crashes + 1
    /\ Finish(e)
    /\ UNCHANGED <<leaseVars, rowVars, venueVars, snap, dispatchVars>>

-----------------------------------------------------------------------------
(***************************************************************************)
(* Everything else                                                         *)
(***************************************************************************)

\* record_freqtrade_rpc_event for an entry_cancel or exit_cancel that belongs
\* to the dispatch: the intent's outcome is unknown, whatever it was before.
\* It reads the intent without its lock, and writes over what was recorded
\* meanwhile as it does over what was recorded before: this is its write.
RpcCancel(i) ==
    /\ i \in rpc
    /\ rpc' = rpc \ {i}
    /\ dispatch[i] # None /\ dispatch[i].version = version
    /\ SetStatus(i, "UNKNOWN")
    /\ Reserve(i, "UNKNOWN")
    /\ campaign' = "UNKNOWN"
    /\ Touch(i)
    /\ UNCHANGED <<leaseVars, newRisk, counted, latestExit, orderVars, facts, venue, snap, dispatchVars,
                   execVars>>

\* The exchange account row changes: verified again, reconfigured, or blocked
\* by an RPC message that belongs to no dispatch.
AccountChanges ==
    /\ version < MaxVersion
    /\ version' = version + 1
    /\ UNCHANGED <<leaseVars, rowVars, venueVars, snap, dispatch, posts, execVars>>

Executor(e) ==
    \/ \E i \in Intents : Take(e, i)
    \/ Prepare(e) \/ StartNew(e) \/ StartReplay(e) \/ Post(e)
    \/ Find(e) \/ TimeOut(e) \/ RecordOrder(e) \/ RecordUnknown(e) \/ Refused(e)

Operator ==
    /\ \/ \E i \in Intents : CreateExit(i) \/ MarkUnknown(i) \/ Release(i)
       \/ Reconcile \/ Close \/ StopNewRisk
    /\ UNCHANGED <<venueVars, snap, dispatchVars, execVars>>

Facts ==
    /\ ReadSnapshot \/ StoreSnapshot \/ RefuseSnapshot
    /\ UNCHANGED <<dispatchVars, execVars>>

Venue ==
    /\ \E i \in Intents : VenueAccepts(i) \/ VenueExecutes(i) \/ VenueCancels(i)
    /\ UNCHANGED <<dispatchVars, execVars>>

Clock ==
    \/ FactsAge /\ UNCHANGED <<venueVars, snap, dispatchVars, execVars>>
    \/ (LeaseExpires \/ RunAges) /\ UNCHANGED <<rowVars, venueVars, snap, dispatchVars, execVars>>

Next ==
    \/ \E e \in Executors : Executor(e) \/ Crash(e)
    \/ Operator \/ Facts \/ Venue \/ Clock \/ AccountChanges
    \/ \E i \in Intents : RpcCancel(i)

Spec == Init /\ [][Next]_vars

-----------------------------------------------------------------------------
(***************************************************************************)
(* Safety                                                                  *)
(***************************************************************************)

\* At most one order request is ever issued for an intent: whatever executors
\* race for it, replay their dispatch, crash before or after the request or
\* lose the lease, the durable dispatch lets only its first caller send.
AtMostOnePost == \A i \in Intents : posts[i] <= 1

\* The dispatch is a fence written ahead of the order request: it is committed
\* before the request is issued, who made it under which account version never
\* changes afterwards, and the request is issued at most once, whatever
\* executors race for the intent, replay the dispatch, crash before or after
\* the request or lose the lease.
DispatchJournal ==
    INSTANCE WriteAhead
    WITH Keys <- Intents, Records <- Dispatches, effects <- posts,
         journal <- [i \in Intents |-> {dispatch[i]} \ {None}]

ImplementsWriteAhead == DispatchJournal!Spec

\* The lease row implements the fence here too, where executors hold its tokens.
SenderFence ==
    INSTANCE Fence
    WITH Holders <- Owners, NoHolder <- None, epoch <- lease.token,
         holder <- IF lease.live THEN lease.owner ELSE None

ImplementsFence == SenderFence!Spec

\* A call whose lease was taken over, so that it fails validate_sender_lease,
\* never passes it again, however long it goes on and whoever acquires.
SupersededStays ==
    [][\A e \in Executors :
          exec[e].pc # "idle" /\ ~Holds(e) /\ exec'[e].pc # "idle" => ~Holds(e)']_vars

MayStillPost(i) == \E e \in Executors : exec[e].pc = "send" /\ exec[e].intent = i

AtVenue(i) == MayStillPost(i) \/ venue[i] \in {"INFLIGHT", "OPEN"}

ClosedPartly(i) == venue[i] = "PARTIAL"

\* An intent that is recorded as cancelled has no order that still works and
\* never gets one: release_unfilled_intent does not race with a dispatch, and a
\* snapshot does not take an order for cancelled that is merely not listed.
\* None of it was filled, unless its order was closed with part of its amount
\* before the fill was known (FilledIntentKeepsRisk).
CancelledIsUnfilled ==
    \A i \in Intents : status[i] = "CANCELLED" =>
        ~AtVenue(i) /\ (Filled(venue[i]) = 0 \/ ClosedPartly(i))

\* Risk stays reserved while the entry may still get exposure at the venue,
\* through unknown outcomes, snapshots, releases and closing; and, unless the
\* entry was closed with part of its amount, while it has any.
RiskCoversExposure ==
    /\ AtVenue(Initial) => reservation[Initial] \in Occupied
    /\ Position(venue) > 0 => reservation[Initial] \in Occupied \/ ClosedPartly(Initial)

\* A campaign is CLOSED only when none of its intents can trade any more and,
\* with the same exception, the account is flat, although close_campaign and
\* release_unfilled_intent look at facts and at a reconciliation run, never at
\* the venue.
ClosedMeansFlat ==
    campaign = "CLOSED" =>
        /\ \A i \in Intents : ~AtVenue(i)
        /\ Position(venue) = 0 \/ ClosedPartly(Initial)

\* At most one order of a campaign works at the venue, or may still be sent: no
\* exit races with its entry, and no two exits close the position twice.
OneOrderWorks == \A i, j \in Intents : AtVenue(i) /\ AtVenue(j) => i = j

\* UNKNOWN risk is released only on the venue's word that the order was
\* cancelled: not by a timeout, by the order's absence from a snapshot, by an
\* operator's release or by closing the campaign.
UnknownRiskNeedsProof ==
    [][\A i \in Intents :
          reservation[i] = "UNKNOWN" /\ reservation'[i] = "RELEASED"
             => venue[i] = "CANCELLED"]_vars

(***************************************************************************)
(* What the source says and the late outcome of a query breaks             *)
(***************************************************************************)

\* "CLOSED is absorbing" (_ingest_read_only_snapshot).
ClosedIsAbsorbing == [][campaign = "CLOSED" => campaign' = "CLOSED"]_campaign

\* "filled intent cannot release all risk" (release_unfilled_intent): the risk
\* of an entry whose order row shows a filled quantity is released only after
\* an exit.
FilledIntentKeepsRisk ==
    order[Initial].filled > 0 /\ latestExit = None => reservation[Initial] # "RELEASED"

-----------------------------------------------------------------------------
(***************************************************************************)
(* Liveness                                                                *)
(***************************************************************************)

\* The workers' loops take every step that stays possible; a query that can
\* find the outcome again and again finds it; and the fill history, fetched
\* with every snapshot, is not missing for ever.
CompleteRead == ReadSnapshot /\ snap'.history /\ UNCHANGED <<dispatchVars, execVars>>

Fairness ==
    /\ \A e \in Executors : WF_vars(Executor(e)) /\ SF_vars(Find(e))
    /\ WF_vars(Facts) /\ SF_vars(CompleteRead)

LiveSpec == Spec /\ Fairness

AccountChanged(i) == dispatch[i] # None /\ dispatch[i].version # version

\* A dispatched order that was filled is recorded as filled, although the
\* query timed out, the executor crashed, or the lease expired and the
\* unresolved intent keeps every reconciliation from being MATCH.  Only a
\* change of the account after the dispatch may prevent it: every replay of
\* start_freqtrade_dispatch then conflicts with what the first one recorded.
FilledGetsRecorded ==
    \A i \in Intents :
        dispatch[i] # None /\ venue[i] \in VenueFills
            ~> status[i] = "FILLED" \/ AccountChanged(i)
=============================================================================
