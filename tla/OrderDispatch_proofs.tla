------------------------ MODULE OrderDispatch_proofs ------------------------
(***************************************************************************)
(* Proofs about OrderDispatch, for any set of executors and owners, any    *)
(* set of exits, any way entries are filled and any bounds.  Five          *)
(* invariants build on each other:                                         *)
(*   Typed         the types of rows, venue and calls;                     *)
(*   PostInv       at most one order request is issued for an intent;      *)
(*   KnowledgeInv  what rows, calls and snapshots say of an order was so   *)
(*                 when they learnt it, and orders only move forward;      *)
(*   ClearInv      an intent is cancelled before its dispatch, or after    *)
(*                 its order was closed with part of its amount;           *)
(*   ExitInv       one exit is ever dispatched, and what is closed or      *)
(*                 released is over.                                       *)
(* LeaseInv is about the tokens in the hands of calls.  WholeInv adds what *)
(* holds where entries fill wholly.                                        *)
(***************************************************************************)
EXTENDS OrderDispatch, TLAPS

-----------------------------------------------------------------------------
(***************************************************************************)
(* Types                                                                   *)
(***************************************************************************)

\* An acquisition, the passing of time and a stored run keep the lease typed.
LEMMA ExtendTypes ==
    ASSUME LeaseTypeOK, NEW o \in Owners, Extend(o)
    PROVE  LeaseTypeOK'
<1> USE MaxTokenAssumption
<1>1. lease.token \in 0..MaxToken
  BY DEF LeaseTypeOK
<1>2. run' \in [match : BOOLEAN, takeover : BOOLEAN]
  BY DEF LeaseTypeOK, Extend
<1>3. CASE Renews(o)
  <2>1. lease' = [token |-> lease.token, owner |-> o, live |-> TRUE]
    BY <1>3 DEF Extend
  <2> QED
    BY <1>1, <1>2, <2>1 DEF LeaseTypeOK
<1>4. CASE ~Renews(o)
  <2>1. lease' = [token |-> lease.token + 1, owner |-> o, live |-> TRUE]
    BY <1>4 DEF Extend
  <2>2. lease.token < MaxToken
    BY <1>4 DEF Extend
  <2> QED
    BY <1>1, <1>2, <2>1, <2>2 DEF LeaseTypeOK
<1> QED
  BY <1>3, <1>4

LEMMA AcquireTypes ==
    ASSUME LeaseTypeOK, NEW o \in Owners, NEW i \in Intents, AcquireBy(o, i)
    PROVE  LeaseTypeOK'
BY ExtendTypes DEF AcquireBy, AcquireSender, AcquireRecoverySender, AcquireReduceOnlySender

LEMMA ClockTypes ==
    ASSUME LeaseTypeOK,
           LeaseExpires \/ RunAges \/ \E match \in BOOLEAN : lease' = lease /\ StoreRun(match)
    PROVE  LeaseTypeOK'
<1>1. ASSUME LeaseExpires
      PROVE  LeaseTypeOK'
  BY <1>1 DEF LeaseTypeOK, LeaseExpires
<1>2. ASSUME RunAges
      PROVE  LeaseTypeOK'
  BY <1>2 DEF LeaseTypeOK, RunAges
<1>3. ASSUME NEW match \in BOOLEAN, lease' = lease, StoreRun(match)
      PROVE  LeaseTypeOK'
  <2>1. (~lease.live) \in BOOLEAN
    OBVIOUS
  <2> QED
    BY <1>3, <2>1 DEF LeaseTypeOK, StoreRun
<1> QED
  BY <1>1, <1>2, <1>3

\* Quantities of the venue are within the frozen quantity.
LEMMA FilledType == \A s : Filled(s) \in 0..Full /\ FirstTrade(s) \in 0..Full
BY DEF Filled, FirstTrade, Full

LEMMA PositionType == \A v : Position(v) \in 0..Full
BY FilledType DEF Position, Full

LEMMA NoOrderType == NoOrder \in OrderRow
BY DEF NoOrder, OrderRow, Full

\* Writing a status, a reservation or the time stamp keeps the rows typed.
LEMMA SetStatusType ==
    ASSUME RowsTypeOK, NEW i \in Intents, NEW s \in IntentStatus, SetStatus(i, s)
    PROVE  status' \in [Intents -> IntentStatus]
BY DEF RowsTypeOK, SetStatus

LEMMA ReserveType ==
    ASSUME RowsTypeOK, NEW i \in Intents, NEW s \in ReservationStatus, Reserve(i, s)
    PROVE  reservation' \in [Intents -> ReservationStatus]
BY DEF RowsTypeOK, Reserve

LEMMA OrderStatusType ==
    ASSUME RowsTypeOK, NEW i \in Intents,
           NEW s \in {"NONE", "SENT", "PARTIALLY_FILLED", "FILLED", "CANCELLED", "UNKNOWN"}
    PROVE  [order EXCEPT ![i].status = s] \in [Intents -> OrderRow]
<1>1. order[i] \in OrderRow
  BY DEF RowsTypeOK
<1>2. [order[i] EXCEPT !.status = s] \in OrderRow
  BY <1>1 DEF OrderRow
<1> QED
  BY <1>2 DEF RowsTypeOK

LEMMA TouchType ==
    ASSUME RowsTypeOK, NEW i \in Intents, Touch(i)
    PROVE  seen' \subseteq {"POSITION", "EXIT"}
BY DEF RowsTypeOK, Touch

\* The handlers of OrderIntent.
LEMMA CreateExitTypes ==
    ASSUME RowsTypeOK, NEW i \in Intents, CreateExit(i)
    PROVE  RowsTypeOK'
BY DEF CreateExit, RowsTypeOK, SetStatus, IntentStatus, CampaignStatus, orderVars

LEMMA MarkUnknownTypes ==
    ASSUME RowsTypeOK, NEW i \in Intents, MarkUnknown(i)
    PROVE  RowsTypeOK'
<1>1. order' \in [Intents -> OrderRow]
  BY OrderStatusType DEF MarkUnknown, RowsTypeOK
<1>2. /\ status' \in [Intents -> IntentStatus]
      /\ reservation' \in [Intents -> ReservationStatus]
      /\ seen' \subseteq {"POSITION", "EXIT"}
  BY SetStatusType, ReserveType, TouchType DEF MarkUnknown, IntentStatus, ReservationStatus
<1> QED
  BY <1>1, <1>2 DEF MarkUnknown, RowsTypeOK, CampaignStatus

LEMMA ReleaseTypes ==
    ASSUME RowsTypeOK, NEW i \in Intents, Release(i)
    PROVE  RowsTypeOK'
<1>1. order' \in [Intents -> OrderRow]
  BY OrderStatusType DEF Release, RowsTypeOK
<1>2. /\ status' \in [Intents -> IntentStatus]
      /\ reservation' \in [Intents -> ReservationStatus]
      /\ seen' \subseteq {"POSITION", "EXIT"}
  BY SetStatusType, ReserveType, TouchType DEF Release, IntentStatus, ReservationStatus
<1>3. campaign' \in CampaignStatus /\ newRisk' \in BOOLEAN /\ counted' \in BOOLEAN
  BY DEF Release, RowsTypeOK, CampaignStatus
<1> QED
  BY <1>1, <1>2, <1>3 DEF Release, RowsTypeOK

LEMMA ReconcileTypes ==
    ASSUME RowsTypeOK, Reconcile
    PROVE  RowsTypeOK'
BY DEF Reconcile, RowsTypeOK, intentVars, orderVars

LEMMA CloseTypes ==
    ASSUME RowsTypeOK, Close
    PROVE  RowsTypeOK'
BY DEF Close, RowsTypeOK, orderVars, factVars, ReservationStatus, CampaignStatus

LEMMA AgeTypes ==
    ASSUME RowsTypeOK, StopNewRisk \/ FactsAge
    PROVE  RowsTypeOK'
BY DEF StopNewRisk, FactsAge, RowsTypeOK, intentVars, orderVars, factVars

-----------------------------------------------------------------------------
\* Ingestion: what a stored snapshot leaves of each row.
LEMMA VenueTypes ==
    ASSUME FactsTypeOK, NEW i \in Intents,
           VenueAccepts(i) \/ VenueExecutes(i) \/ VenueCancels(i)
    PROVE  FactsTypeOK'
BY EntryOutcomesAssumption
   DEF VenueAccepts, VenueExecutes, VenueCancels, VenueBecomes, FactsTypeOK, VenueStatus, VenueFills

LEMMA ReadTypes ==
    ASSUME FactsTypeOK, ReadSnapshot
    PROVE  FactsTypeOK'
BY DEF ReadSnapshot, FactsTypeOK, Snapshots, venueVars

LEMMA ListedRowType == \A s : ListedRow(s) \in OrderRow
<1> SUFFICES ASSUME NEW s PROVE ListedRow(s) \in OrderRow
  OBVIOUS
<1>1. ListedStatus(s) \in {"SENT", "FILLED", "CANCELLED"}
  BY DEF ListedStatus
<1> QED
  BY <1>1, FilledType DEF ListedRow, OrderRow, Full

LEMMA BoundOrderType ==
    ASSUME RowsTypeOK, NEW s, NEW i \in Intents, NEW recent
    PROVE  BoundOrder(s, i, recent) \in OrderRow
BY ListedRowType, FilledType DEF BoundOrder, ListedOrder, RowsTypeOK, OrderRow

LEMMA StrayOrderType ==
    ASSUME RowsTypeOK, NEW s, NEW i \in Intents
    PROVE  StrayOrder(s, i) \in OrderRow
<1>1. ListedStray(s, i) \in OrderRow
  BY ListedRowType DEF ListedStray, RowsTypeOK
<1>2. Reported(s, i) \in 0..Full
  BY FilledType DEF Reported, Full
<1> QED
  BY <1>1, <1>2 DEF StrayOrder, OrderRow

LEMMA OutcomeType ==
    ASSUME NEW o, NEW n
    PROVE  Outcome(o, n) \in {"UNKNOWN", "FILLED", "CANCELLED", "PARTIALLY_FILLED", "KEEP"}
BY DEF Outcome

Results ==
    [outcome : {"UNKNOWN", "FILLED", "CANCELLED", "PARTIALLY_FILLED", "KEEP"},
     filled  : 0..Full,
     order   : OrderRow]

LEMMA SettledType ==
    ASSUME RowsTypeOK, NEW s, NEW i \in Intents, NEW recent
    PROVE  Settled(s, i, recent) \in Results
<1> DEFINE o == BoundOrder(s, i, recent)
           n == FillsAfter(s, i, recent)
           out == Outcome(o, n)
<1>1. o \in OrderRow
  BY BoundOrderType
<1>2. n \in 0..Full
  BY FilledType DEF FillsAfter, Reported, RowsTypeOK, Full
<1>3. out \in {"UNKNOWN", "FILLED", "CANCELLED", "PARTIALLY_FILLED", "KEEP"}
  BY OutcomeType
<1> HIDE DEF o, n, out
<1>4. [o EXCEPT !.filled = IF @ > n THEN @ ELSE n,
                !.status = IF out \in {"FILLED", "PARTIALLY_FILLED"} THEN out ELSE @] \in OrderRow
  BY <1>1, <1>2, <1>3 DEF OrderRow
<1> QED
  BY <1>1, <1>2, <1>3, <1>4 DEF Settled, Results, o, n, out

LEMMA CoveredType ==
    ASSUME NEW s, NEW i, NEW row \in OrderRow, NEW n \in 0..Full
    PROVE  Covered(s, i, row, n) \in OrderRow
BY DEF Covered, OrderRow, Full

LEMMA CampaignAfterType ==
    ASSUME NEW c \in CampaignStatus, NEW i, NEW r
    PROVE  CampaignAfter(c, i, r) \in CampaignStatus
BY DEF CampaignAfter, CampaignStatus

LEMMA CampaignsAfterType ==
    ASSUME RowsTypeOK, NEW results, NEW c \in CampaignsAfter(results)
    PROVE  c \in CampaignStatus
BY CampaignAfterType DEF CampaignsAfter, RowsTypeOK

LEMMA StoreTypes ==
    ASSUME RowsTypeOK, FactsTypeOK, StoreSnapshot
    PROVE  RowsTypeOK' /\ FactsTypeOK'
<1>1. PICK recent \in BOOLEAN :
        LET after == [i \in Intents |-> Settled(snap, i, recent)]
        IN  /\ status' = [i \in Intents |-> IF after[i].outcome = "KEEP" THEN status[i]
                                                                 ELSE after[i].outcome]
            /\ reservation' = [i \in Intents |-> ReservationAfter(i, after[i])]
            /\ counted' = (counted /\ \A i \in Intents : ~GivesBack(i, after[i]))
            /\ campaign' \in CampaignsAfter(after)
            /\ order' = [i \in Intents |-> Covered(snap, i, after[i].order, after[i].filled)]
            /\ stray' = [i \in Intents |-> Covered(snap, i, StrayOrder(snap, i), 0)]
            /\ fills' = [i \in Intents |-> after[i].filled]
            /\ strayFills' = [i \in Intents |-> StrayFillsAfter(snap, i, recent)]
  BY DEF StoreSnapshot
<1> DEFINE after == [i \in Intents |-> Settled(snap, i, recent)]
<1>2. \A i \in Intents : after[i] \in Results
  BY SettledType
<1> HIDE DEF after
<1>3. status' \in [Intents -> IntentStatus] /\ fills' \in [Intents -> 0..Full]
  BY <1>1, <1>2 DEF after, Results, RowsTypeOK, IntentStatus
<1>4. reservation' \in [Intents -> ReservationStatus]
  BY <1>1 DEF after, RowsTypeOK, ReservationAfter, ReservationStatus
<1>5. campaign' \in CampaignStatus /\ counted' \in BOOLEAN
  BY <1>1, CampaignsAfterType DEF after
<1>6. order' \in [Intents -> OrderRow]
  BY <1>1, <1>2, CoveredType DEF after, Results
<1>7. stray' \in [Intents -> OrderRow]
  BY <1>1, StrayOrderType, CoveredType DEF Full
<1>8. strayFills' \in [Intents -> 0..Full]
  BY <1>1, FilledType DEF StrayFillsAfter, Reported, RowsTypeOK, Full
<1>9. facts' \in [qty : 0..Full, fresh : BOOLEAN] /\ seen' \subseteq {"POSITION", "EXIT"}
  BY PositionType DEF StoreSnapshot, RowsTypeOK
<1>10. newRisk' = newRisk /\ latestExit' = latestExit /\ UNCHANGED venueVars /\ snap' = None
  BY DEF StoreSnapshot
<1> QED
  BY <1>3, <1>4, <1>5, <1>6, <1>7, <1>8, <1>9, <1>10 DEF RowsTypeOK, FactsTypeOK, venueVars

-----------------------------------------------------------------------------
(***************************************************************************)
(* Executors                                                               *)
(***************************************************************************)

Calls ==
    [pc      : {"idle", "taken", "prepared", "send", "query", "record", "unknown"},
     intent  : Intents \cup {None},
     token   : 0..MaxToken,
     version : 0..MaxVersion,
     found   : 0..Full]

\* A call under way works on an intent.
CallsHaveIntents == \A e \in Executors : exec[e].pc # "idle" => exec[e].intent \in Intents

Typed == TypeOK /\ CallsHaveIntents

LEMMA IdleType == Idle \in Calls
BY MaxTokenAssumption, ExecutorsAssumption DEF Idle, Calls, Full

\* What the steps of a call do to the executors' local state.
LEMMA FinishTypes ==
    ASSUME Typed, NEW e \in Executors, Finish(e)
    PROVE  exec' \in [Executors -> Calls] /\ CallsHaveIntents'
<1>1. exec \in [Executors -> Calls]
  BY DEF Typed, TypeOK, Calls
<1> QED
  BY <1>1, IdleType DEF Typed, CallsHaveIntents, Finish, Idle

LEMMA GotoTypes ==
    ASSUME Typed, NEW e \in Executors, exec[e].pc # "idle",
           NEW pc \in {"send", "query", "unknown"}, Goto(e, pc)
    PROVE  exec' \in [Executors -> Calls] /\ CallsHaveIntents'
<1>1. exec \in [Executors -> Calls]
  BY DEF Typed, TypeOK, Calls
<1>2. [exec[e] EXCEPT !.pc = pc] \in Calls
  BY <1>1 DEF Calls
<1>3. [exec[e] EXCEPT !.pc = pc].intent = exec[e].intent
  BY <1>1 DEF Calls
<1> QED
  BY <1>1, <1>2, <1>3 DEF Typed, CallsHaveIntents, Goto

LEMMA TakeTypes ==
    ASSUME Typed, NEW e \in Executors, NEW i \in Intents, Take(e, i)
    PROVE  Typed'
<1>1. LeaseTypeOK'
  BY AcquireTypes, ExecutorsAssumption DEF Take, Typed, TypeOK
<1>2. exec \in [Executors -> Calls]
  BY DEF Typed, TypeOK, Calls
<1>3. [Idle EXCEPT !.pc = "taken", !.intent = i, !.token = lease'.token] \in Calls
  BY <1>1, IdleType DEF Calls, LeaseTypeOK
<1>4. exec' \in [Executors -> Calls] /\ CallsHaveIntents'
  BY <1>2, <1>3 DEF Take, Typed, CallsHaveIntents, Idle
<1> QED
  BY <1>1, <1>4
     DEF Take, Typed, TypeOK, Calls, RowsTypeOK, FactsTypeOK, rowVars, intentVars, orderVars,
         factVars, venueVars, dispatchVars

LEMMA PrepareTypes ==
    ASSUME Typed, NEW e \in Executors, Prepare(e)
    PROVE  Typed'
<1>1. exec \in [Executors -> Calls] /\ version \in 0..MaxVersion
  BY DEF Typed, TypeOK, Calls
<1>2. [exec[e] EXCEPT !.pc = "prepared", !.version = version] \in Calls
  BY <1>1 DEF Calls
<1>3. exec' \in [Executors -> Calls] /\ CallsHaveIntents'
  BY <1>1, <1>2 DEF Prepare, Typed, CallsHaveIntents, Calls
<1> QED
  BY <1>3
     DEF Prepare, Typed, TypeOK, Calls, LeaseTypeOK, RowsTypeOK, FactsTypeOK, leaseVars, rowVars,
         intentVars, orderVars, factVars, venueVars, dispatchVars

LEMMA StartNewTypes ==
    ASSUME Typed, NEW e \in Executors, StartNew(e)
    PROVE  Typed'
<1>1. exec[e].intent \in Intents
  BY DEF StartNew, Typed, CallsHaveIntents
<1>2. exec' \in [Executors -> Calls] /\ CallsHaveIntents'
  BY GotoTypes DEF StartNew
<1>3. /\ status' \in [Intents -> IntentStatus]
      /\ seen' \subseteq {"POSITION", "EXIT"}
  BY <1>1, SetStatusType, TouchType DEF StartNew, Typed, TypeOK, IntentStatus
<1>4. dispatch' \in [Intents -> Dispatches \cup {None}]
  BY <1>1, ExecutorsAssumption DEF StartNew, Typed, TypeOK, Dispatches
<1> QED
  BY <1>2, <1>3, <1>4
     DEF StartNew, Typed, TypeOK, Calls, LeaseTypeOK, RowsTypeOK, FactsTypeOK, leaseVars,
         orderVars, venueVars

LEMMA CallOnlyTypes ==
    ASSUME Typed, exec' \in [Executors -> Calls] /\ CallsHaveIntents',
           UNCHANGED <<leaseVars, rowVars, venueVars, snap, dispatchVars>>,
           crashes' \in 0..MaxCrashes
    PROVE  Typed'
BY DEF Typed, TypeOK, Calls, LeaseTypeOK, RowsTypeOK, FactsTypeOK, leaseVars, rowVars,
       intentVars, orderVars, factVars, venueVars, dispatchVars

LEMMA QueryTypes ==
    ASSUME Typed, NEW e \in Executors,
           StartReplay(e) \/ Find(e) \/ TimeOut(e) \/ Refused(e) \/ Crash(e)
    PROVE  Typed'
<1>1. CASE StartReplay(e)
  BY <1>1, FinishTypes, GotoTypes, CallOnlyTypes DEF StartReplay, Typed, TypeOK
<1>2. CASE TimeOut(e)
  BY <1>2, GotoTypes, CallOnlyTypes DEF TimeOut, Typed, TypeOK
<1>3. CASE Refused(e)
  BY <1>3, FinishTypes, CallOnlyTypes DEF Refused, Typed, TypeOK
<1>4. CASE Crash(e)
  <2>1. crashes' \in 0..MaxCrashes
    BY <1>4, ExecutorsAssumption DEF Crash, Typed, TypeOK
  <2> QED
    BY <1>4, <2>1, FinishTypes, CallOnlyTypes DEF Crash
<1>5. CASE Find(e)
  <2>1. exec \in [Executors -> Calls] /\ exec[e].intent \in Intents
    BY <1>5 DEF Find, Typed, TypeOK, Calls, CallsHaveIntents
  <2>2. [exec[e] EXCEPT !.pc = "record", !.found = Filled(venue[exec[e].intent])] \in Calls
    BY <2>1, FilledType DEF Calls
  <2>3. exec' \in [Executors -> Calls] /\ CallsHaveIntents'
    BY <1>5, <2>1, <2>2 DEF Find, Typed, CallsHaveIntents, Calls
  <2> QED
    BY <1>5, <2>3, CallOnlyTypes DEF Find, Typed, TypeOK
<1> QED
  BY <1>1, <1>2, <1>3, <1>4, <1>5

LEMMA PostTypes ==
    ASSUME Typed, NEW e \in Executors, Post(e)
    PROVE  Typed'
<1>1. exec[e].intent \in Intents
  BY DEF Post, Typed, CallsHaveIntents
<1>2. exec' \in [Executors -> Calls] /\ CallsHaveIntents'
  BY GotoTypes DEF Post
<1>3. venue' \in [Intents -> VenueStatus] /\ posts' \in [Intents -> Nat]
  BY <1>1 DEF Post, VenueBecomes, Typed, TypeOK, FactsTypeOK, VenueStatus
<1> QED
  BY <1>2, <1>3
     DEF Post, Typed, TypeOK, Calls, LeaseTypeOK, RowsTypeOK, FactsTypeOK, leaseVars, rowVars,
         intentVars, orderVars, factVars

LEMMA RecordOrderTypes ==
    ASSUME Typed, NEW e \in Executors, RecordOrder(e)
    PROVE  Typed'
<1> DEFINE i == exec[e].intent
<1>1. i \in Intents /\ exec[e].found \in 0..Full
  BY DEF RecordOrder, Typed, TypeOK, CallsHaveIntents
<1>2. exec' \in [Executors -> Calls] /\ CallsHaveIntents'
  BY FinishTypes DEF RecordOrder
<1>3. /\ order' \in [Intents -> OrderRow]
      /\ stray' \in [Intents -> OrderRow]
  BY <1>1, NoOrderType DEF RecordOrder, Typed, TypeOK, RowsTypeOK, OrderRow, Full
<1>4. status' \in [Intents -> IntentStatus]
  BY <1>1 DEF RecordOrder, Typed, TypeOK, RowsTypeOK, SetStatus, IntentStatus
<1>5. reservation' \in [Intents -> ReservationStatus] /\ seen' \subseteq {"POSITION", "EXIT"}
  BY <1>1, ReserveType, TouchType DEF RecordOrder, Typed, TypeOK, ReservationStatus
<1>6. campaign' \in CampaignStatus
  BY DEF RecordOrder, CampaignStatus
<1> QED
  BY <1>2, <1>3, <1>4, <1>5, <1>6
     DEF RecordOrder, Typed, TypeOK, Calls, LeaseTypeOK, RowsTypeOK, FactsTypeOK, leaseVars,
         venueVars, dispatchVars

LEMMA RecordUnknownTypes ==
    ASSUME Typed, NEW e \in Executors, RecordUnknown(e)
    PROVE  Typed'
<1> DEFINE i == exec[e].intent
<1>1. i \in Intents /\ order[i] \in OrderRow
  BY DEF RecordUnknown, Typed, TypeOK, RowsTypeOK, CallsHaveIntents
<1>2. exec' \in [Executors -> Calls] /\ CallsHaveIntents'
  BY FinishTypes DEF RecordUnknown
<1>3. CASE status[i] = "UNKNOWN"
  BY <1>2, <1>3
     DEF RecordUnknown, Typed, TypeOK, Calls, LeaseTypeOK, RowsTypeOK, FactsTypeOK, leaseVars,
         venueVars, dispatchVars
<1>4. CASE status[i] # "UNKNOWN"
  <2>1. /\ [id |-> "PLACEHOLDER", status |-> "UNKNOWN", ordered |-> Full, filled |-> 0] \in OrderRow
        /\ [order[i] EXCEPT !.status = "UNKNOWN"] \in OrderRow
    BY <1>1 DEF OrderRow, Full
  <2>2. order' \in [Intents -> OrderRow]
    BY <1>1, <1>4, <2>1 DEF RecordUnknown, Typed, TypeOK, RowsTypeOK
  <2>3. /\ status' \in [Intents -> IntentStatus]
        /\ reservation' \in [Intents -> ReservationStatus]
        /\ seen' \subseteq {"POSITION", "EXIT"}
    BY <1>1, <1>4, SetStatusType, ReserveType, TouchType
       DEF RecordUnknown, Typed, TypeOK, IntentStatus, ReservationStatus
  <2>4. campaign' \in CampaignStatus
    BY <1>4 DEF RecordUnknown, CampaignStatus
  <2> QED
    BY <1>2, <2>2, <2>3, <2>4
       DEF RecordUnknown, Typed, TypeOK, Calls, LeaseTypeOK, RowsTypeOK, FactsTypeOK, leaseVars,
           venueVars, dispatchVars
<1> QED
  BY <1>3, <1>4

LEMMA ExecutorTypes ==
    ASSUME Typed, NEW e \in Executors, Executor(e) \/ Crash(e)
    PROVE  Typed'
BY TakeTypes, PrepareTypes, StartNewTypes, QueryTypes, PostTypes, RecordOrderTypes,
   RecordUnknownTypes DEF Executor

-----------------------------------------------------------------------------
\* Everything else leaves the executors alone.
LEMMA OthersTypes ==
    ASSUME Typed, UNCHANGED execVars, LeaseTypeOK', RowsTypeOK', FactsTypeOK',
           UNCHANGED dispatchVars \/ AccountChanges
    PROVE  Typed'
<1>1. version' \in 0..MaxVersion /\ UNCHANGED <<dispatch, posts>>
  BY ExecutorsAssumption DEF Typed, TypeOK, AccountChanges, dispatchVars
<1> QED
  BY <1>1 DEF Typed, TypeOK, CallsHaveIntents, execVars

LEMMA SameTypes ==
    /\ LeaseTypeOK /\ UNCHANGED leaseVars => LeaseTypeOK'
    /\ RowsTypeOK /\ UNCHANGED rowVars => RowsTypeOK'
    /\ FactsTypeOK /\ UNCHANGED <<venueVars, snap>> => FactsTypeOK'
BY DEF LeaseTypeOK, RowsTypeOK, FactsTypeOK, leaseVars, rowVars, intentVars, orderVars, factVars,
       venueVars

LEMMA OperatorTypes ==
    ASSUME Typed, Operator
    PROVE  Typed'
<1>1. FactsTypeOK' /\ UNCHANGED execVars /\ UNCHANGED dispatchVars
  BY SameTypes DEF Operator, Typed, TypeOK
<1>2. RowsTypeOK'
  BY CreateExitTypes, MarkUnknownTypes, ReleaseTypes, ReconcileTypes, CloseTypes, AgeTypes
     DEF Operator, Typed, TypeOK
<1>3. LeaseTypeOK'
  <2>1. CASE Reconcile
    <3>1. PICK match \in {FALSE, Reconciles} : StoreRun(match)
      BY <2>1 DEF Reconcile
    <3>2. match \in BOOLEAN
      BY <3>1, Zenon DEF Reconciles
    <3> QED
      BY <2>1, <3>1, <3>2, ClockTypes DEF Reconcile, Typed, TypeOK
  <2>2. CASE ~Reconcile
    BY <2>2, SameTypes
       DEF Operator, CreateExit, MarkUnknown, Release, Close, StopNewRisk, Typed, TypeOK
  <2> QED
    BY <2>1, <2>2
<1> QED
  BY <1>1, <1>2, <1>3, OthersTypes

LEMMA FactsTypes ==
    ASSUME Typed, Facts
    PROVE  Typed'
<1>1. UNCHANGED execVars /\ UNCHANGED dispatchVars
  BY DEF Facts
<1>2. CASE ReadSnapshot
  BY <1>1, <1>2, ReadTypes, SameTypes, OthersTypes DEF ReadSnapshot, Typed, TypeOK
<1>3. CASE StoreSnapshot
  BY <1>1, <1>3, StoreTypes, SameTypes, OthersTypes DEF StoreSnapshot, Typed, TypeOK
<1>4. CASE RefuseSnapshot
  <2>1. FactsTypeOK'
    BY <1>4 DEF RefuseSnapshot, Typed, TypeOK, FactsTypeOK, venueVars
  <2> QED
    BY <1>1, <1>4, <2>1, SameTypes, OthersTypes DEF RefuseSnapshot, Typed, TypeOK
<1> QED
  BY <1>2, <1>3, <1>4 DEF Facts

LEMMA VenueStepTypes ==
    ASSUME Typed, Venue
    PROVE  Typed'
<1>1. UNCHANGED execVars /\ UNCHANGED dispatchVars /\ UNCHANGED leaseVars /\ UNCHANGED rowVars
  BY DEF Venue, VenueAccepts, VenueExecutes, VenueCancels
<1>2. FactsTypeOK'
  BY VenueTypes DEF Venue, Typed, TypeOK
<1> QED
  BY <1>1, <1>2, SameTypes, OthersTypes DEF Typed, TypeOK

LEMMA ClockStepTypes ==
    ASSUME Typed, Clock
    PROVE  Typed'
<1>1. UNCHANGED execVars /\ UNCHANGED dispatchVars /\ UNCHANGED <<venueVars, snap>>
  BY DEF Clock
<1>2. CASE FactsAge
  BY <1>1, <1>2, AgeTypes, SameTypes, OthersTypes DEF FactsAge, Typed, TypeOK
<1>3. CASE (LeaseExpires \/ RunAges) /\ UNCHANGED rowVars
  BY <1>1, <1>3, ClockTypes, SameTypes, OthersTypes DEF Typed, TypeOK
<1> QED
  BY <1>2, <1>3 DEF Clock

LEMMA RpcCancelTypes ==
    ASSUME Typed, NEW i \in Intents, RpcCancel(i)
    PROVE  Typed'
<1>1. /\ status' \in [Intents -> IntentStatus]
      /\ reservation' \in [Intents -> ReservationStatus]
      /\ seen' \subseteq {"POSITION", "EXIT"}
  BY SetStatusType, ReserveType, TouchType
     DEF RpcCancel, Typed, TypeOK, IntentStatus, ReservationStatus
<1>2. RowsTypeOK'
  BY <1>1 DEF RpcCancel, Typed, TypeOK, RowsTypeOK, CampaignStatus, orderVars
<1>3. FactsTypeOK'
  BY DEF RpcCancel, Typed, TypeOK, FactsTypeOK
<1> QED
  BY <1>2, <1>3, SameTypes, OthersTypes DEF RpcCancel, Typed, TypeOK

LEMMA InitTypes == Init => Typed
<1> SUFFICES ASSUME Init PROVE Typed
  OBVIOUS
<1>1. LeaseTypeOK
  BY MaxTokenAssumption DEF Init, LeaseInit, LeaseTypeOK
<1>2. RowsTypeOK
  BY NoOrderType
     DEF Init, RowsInit, RowsTypeOK, IntentStatus, ReservationStatus, CampaignStatus, Full
<1>3. FactsTypeOK
  BY DEF Init, FactsInit, FactsTypeOK, VenueStatus
<1>4. /\ version \in 0..MaxVersion /\ crashes \in 0..MaxCrashes
      /\ dispatch \in [Intents -> Dispatches \cup {None}] /\ posts \in [Intents -> Nat]
      /\ exec \in [Executors -> Calls] /\ CallsHaveIntents
  BY IdleType, ExecutorsAssumption DEF Init, Idle, CallsHaveIntents
<1> QED
  BY <1>1, <1>2, <1>3, <1>4 DEF Typed, TypeOK, Calls

LEMMA NextTypes == Typed /\ [Next]_vars => Typed'
<1> SUFFICES ASSUME Typed, [Next]_vars PROVE Typed'
  OBVIOUS
<1>1. CASE AccountChanges
  BY <1>1, SameTypes, OthersTypes DEF AccountChanges, Typed, TypeOK
<1>2. CASE UNCHANGED vars
  BY <1>2, SameTypes, OthersTypes DEF vars, Typed, TypeOK
<1> QED
  BY <1>1, <1>2, ExecutorTypes, OperatorTypes, FactsTypes, VenueStepTypes, ClockStepTypes,
     RpcCancelTypes DEF Next

\* Every reachable state of the composition is well typed: the rows, whatever
\* a snapshot leaves of them, the lease, the venue and the executors' state.
THEOREM TypeCorrect == Spec => []TypeOK
<1>1. Spec => []Typed
  BY InitTypes, NextTypes, PTL DEF Spec
<1> QED
  BY <1>1, PTL DEF Typed

-----------------------------------------------------------------------------
(***************************************************************************)
(* The lease among executors.  A token in a call's hands is not above the  *)
(* row's, and the row's own is in the hands of its owner only.             *)
(***************************************************************************)
LeaseKnown ==
    /\ lease.live => lease.token > 0
    /\ lease.token > 0 => lease.owner \in Owners

TokensBelow ==
    \A e \in Executors :
        exec[e].pc # "idle" =>
            /\ exec[e].token <= lease.token
            /\ exec[e].token = lease.token => lease.owner = OwnerOf[e]

LeaseInv == Typed /\ LeaseKnown /\ TokensBelow

\* An acquisition keeps a live owner's token and otherwise issues the next one.
LEMMA ExtendIssues ==
    ASSUME LeaseTypeOK, LeaseKnown, NEW o \in Owners, Extend(o)
    PROVE  /\ lease'.owner = o /\ lease'.live /\ lease'.token > 0
           /\ \/ lease'.token = lease.token /\ lease.owner = o /\ lease.live
              \/ lease'.token = lease.token + 1 /\ ~lease.live
<1>1. lease.token \in Nat /\ lease.live \in BOOLEAN
  BY MaxTokenAssumption DEF LeaseTypeOK
<1>2. lease' = [token |-> IF Renews(o) THEN lease.token ELSE lease.token + 1,
                owner |-> o, live |-> TRUE]
  BY DEF Extend
<1>3. Renews(o) => lease.live /\ lease.owner = o /\ lease.token > 0
  BY DEF Renews, LeaseKnown
<1>4. ~Renews(o) => ~lease.live
  BY DEF Extend, HeldByOther, Renews
<1> QED
  BY <1>1, <1>2, <1>3, <1>4

LEMMA TakeExtends ==
    ASSUME LeaseInv, NEW e \in Executors, NEW i \in Intents, Take(e, i)
    PROVE  /\ OwnerOf[e] \in Owners /\ Extend(OwnerOf[e])
           /\ exec[e].pc = "idle"
           /\ exec' = [exec EXCEPT ![e] = [Idle EXCEPT !.pc = "taken", !.intent = i,
                                                       !.token = lease'.token]]
BY ExecutorsAssumption
   DEF Take, AcquireBy, AcquireSender, AcquireRecoverySender, AcquireReduceOnlySender

\* Every other step leaves the lease or lets it expire, and no call gets a token.
TokensStay ==
    \A e \in Executors :
        exec'[e].pc # "idle" => exec[e].pc # "idle" /\ exec'[e].token = exec[e].token

LEMMA OtherSteps ==
    ASSUME Typed, [Next]_vars,
           \A e \in Executors, i \in Intents : ~Take(e, i)
    PROVE  (lease' = lease \/ LeaseExpires) /\ TokensStay
<1> USE DEF Typed, TypeOK
<1>1. ASSUME UNCHANGED exec
      PROVE  TokensStay
  BY <1>1 DEF TokensStay
<1>2. ASSUME NEW e \in Executors, Finish(e)
      PROVE  TokensStay
  BY <1>2 DEF Finish, Idle, TokensStay
<1>3. ASSUME NEW e \in Executors, NEW pc, exec[e].pc # "idle", Goto(e, pc)
      PROVE  TokensStay
  BY <1>3 DEF Goto, TokensStay
<1>4. ASSUME NEW e \in Executors, Executor(e) \/ Crash(e)
      PROVE  lease' = lease /\ TokensStay
  <2>1. CASE Crash(e) \/ Refused(e) \/ RecordOrder(e) \/ RecordUnknown(e)
    BY <2>1, <1>2 DEF Crash, Refused, RecordOrder, RecordUnknown, leaseVars
  <2>2. CASE Prepare(e)
    BY <2>2 DEF Prepare, TokensStay, leaseVars
  <2>3. CASE StartNew(e)
    BY <2>3, <1>3 DEF StartNew, leaseVars
  <2>4. CASE StartReplay(e)
    BY <2>4, <1>2, <1>3 DEF StartReplay, leaseVars
  <2>5. CASE Post(e) \/ TimeOut(e)
    BY <2>5, <1>2, <1>3 DEF Post, TimeOut, leaseVars
  <2>6. CASE Find(e)
    BY <2>6 DEF Find, TokensStay, leaseVars
  <2> QED
    BY <1>4, <2>1, <2>2, <2>3, <2>4, <2>5, <2>6 DEF Executor
<1>5. CASE Operator \/ AccountChanges \/ \E i \in Intents : RpcCancel(i)
  BY <1>5, <1>1 DEF Operator, CreateExit, MarkUnknown, Release, Reconcile, Close, StopNewRisk,
       AccountChanges, RpcCancel, execVars, leaseVars
<1>6. CASE Facts \/ Venue
  BY <1>6, <1>1 DEF Facts, ReadSnapshot, StoreSnapshot, RefuseSnapshot, Venue, VenueAccepts,
       VenueExecutes, VenueCancels, execVars, leaseVars
<1>7. CASE Clock
  BY <1>7, <1>1 DEF Clock, FactsAge, RunAges, execVars, leaseVars
<1>8. CASE UNCHANGED vars
  BY <1>8, <1>1 DEF vars, execVars, leaseVars
<1> QED
  BY <1>4, <1>5, <1>6, <1>7, <1>8 DEF Next

LEMMA LeaseStep == LeaseInv /\ [Next]_vars => LeaseInv'
<1> SUFFICES ASSUME LeaseInv, [Next]_vars PROVE LeaseInv'
  OBVIOUS
<1>1. Typed' /\ Typed /\ lease.token \in Nat /\ \A e \in Executors : exec[e].token \in Nat
  BY NextTypes, MaxTokenAssumption DEF LeaseInv, Typed, TypeOK, LeaseTypeOK
<1>2. ASSUME NEW e \in Executors, NEW i \in Intents, Take(e, i)
      PROVE  LeaseKnown' /\ TokensBelow'
  <2>1. /\ OwnerOf[e] \in Owners
        /\ lease'.owner = OwnerOf[e] /\ lease'.token > 0
        /\ \/ lease'.token = lease.token /\ lease.owner = OwnerOf[e]
           \/ lease'.token = lease.token + 1
    BY <1>2, TakeExtends, ExtendIssues DEF LeaseInv, Typed, TypeOK
  <2>2. \A f \in Executors : exec'[f] = IF f = e THEN [Idle EXCEPT !.pc = "taken", !.intent = i,
                                                                   !.token = lease'.token]
                                        ELSE exec[f]
    <3>1. exec' = [exec EXCEPT ![e] = [Idle EXCEPT !.pc = "taken", !.intent = i,
                                                   !.token = lease'.token]]
      BY <1>2, TakeExtends
    <3>2. DOMAIN exec = Executors
      BY <1>1 DEF Typed, TypeOK
    <3> QED
      BY <3>1, <3>2
  <2>3. exec'[e].token = lease'.token
    BY <2>2 DEF Idle
  <2> QED
    BY <1>1, <2>1, <2>2, <2>3 DEF LeaseInv, LeaseKnown, TokensBelow
<1>3. CASE \A e \in Executors, i \in Intents : ~Take(e, i)
  <2>1. lease'.token = lease.token /\ lease'.owner = lease.owner /\ (lease'.live => lease.live)
    BY <1>1, <1>3, OtherSteps DEF LeaseExpires, Typed, TypeOK, LeaseTypeOK
  <2> QED
    BY <1>1, <1>3, <2>1, OtherSteps DEF LeaseInv, LeaseKnown, TokensBelow, TokensStay
<1> QED
  BY <1>1, <1>2, <1>3 DEF LeaseInv

LEMMA LeaseInitially == Init => LeaseInv
BY InitTypes DEF Init, LeaseInit, Idle, LeaseInv, LeaseKnown, TokensBelow

\* Whatever executors do with its tokens, the lease implements the abstract fence.
THEOREM SendersAreFenced == Spec => ImplementsFence
<1> DEFINE holder == IF lease.live THEN lease.owner ELSE None
<1>1. Init => SenderFence!Init
  BY DEF Init, LeaseInit, SenderFence!Init
<1>2. LeaseInv /\ [Next]_vars => [SenderFence!Next]_<<lease.token, holder>>
  <2> SUFFICES ASSUME LeaseInv, [Next]_vars
               PROVE  SenderFence!Next \/ UNCHANGED <<lease.token, holder>>
    OBVIOUS
  <2>1. ASSUME NEW e \in Executors, NEW i \in Intents, Take(e, i)
        PROVE  SenderFence!Next \/ UNCHANGED <<lease.token, holder>>
    BY <2>1, TakeExtends, ExtendIssues
       DEF LeaseInv, Typed, TypeOK, SenderFence!Next, SenderFence!Grant
  <2>2. ASSUME LeaseExpires
        PROVE  SenderFence!Next
    BY <2>2, NoneAssumption
       DEF LeaseExpires, LeaseInv, Typed, TypeOK, LeaseTypeOK, LeaseKnown, SenderFence!Next,
           SenderFence!Lapse
  <2> QED
    BY <2>1, <2>2, OtherSteps DEF LeaseInv
<1> QED
  BY <1>1, <1>2, LeaseInitially, LeaseStep, PTL DEF Spec, ImplementsFence, SenderFence!Spec

\* A call whose lease was taken over never passes the test again.
THEOREM SupersededStayOut == Spec => SupersededStays
<1>1. LeaseInv /\ LeaseInv' /\ [Next]_vars =>
        [\A e \in Executors :
            exec[e].pc # "idle" /\ ~Holds(e) /\ exec'[e].pc # "idle" => ~Holds(e)']_vars
  <2> SUFFICES ASSUME LeaseInv, LeaseInv', [Next]_vars, NEW e \in Executors,
                      exec[e].pc # "idle", ~Holds(e), exec'[e].pc # "idle"
               PROVE  ~Holds(e)'
    OBVIOUS
  <2>1. LeaseTypeOK /\ LeaseTypeOK' /\ exec[e].token \in 0..MaxToken /\ DOMAIN exec = Executors
    BY DEF LeaseInv, Typed, TypeOK
  <2>2. lease.token \in Nat /\ lease'.token \in Nat /\ exec[e].token \in Nat
    BY <2>1, MaxTokenAssumption DEF LeaseTypeOK
  <2>3. exec[e].token < lease.token
    BY <2>2 DEF LeaseInv, TokensBelow, Holds
  <2>4. ASSUME NEW f \in Executors, NEW i \in Intents, Take(f, i)
        PROVE  lease'.token >= lease.token /\ exec'[e].token = exec[e].token
    <3>1. lease'.token = lease.token \/ lease'.token = lease.token + 1
      BY <2>1, <2>4, TakeExtends, ExtendIssues DEF LeaseInv
    <3>2. e # f
      BY <2>4, TakeExtends
    <3>3. exec'[e] = exec[e]
      BY <2>1, <2>4, <3>2, TakeExtends
    <3> QED
      BY <2>2, <3>1, <3>3
  <2>5. ASSUME \A f \in Executors, i \in Intents : ~Take(f, i)
        PROVE  lease'.token >= lease.token /\ exec'[e].token = exec[e].token
    BY <2>1, <2>2, <2>5, OtherSteps DEF LeaseInv, LeaseTypeOK, LeaseExpires, TokensStay
  <2> QED
    BY <2>2, <2>3, <2>4, <2>5 DEF Holds
<1> QED
  BY <1>1, LeaseInitially, LeaseStep, PTL DEF Spec, SupersededStays

-----------------------------------------------------------------------------
(***************************************************************************)
(* At most one request per intent.  The right to send is a state of one    *)
(* call; it comes only with the first durable dispatch and is spent by the *)
(* request, so a request already issued excludes every such call.          *)
(***************************************************************************)
Sends(e, i) == exec[e].pc = "send" /\ exec[e].intent = i

\* Nothing is sent without a dispatch.
DispatchFirst ==
    \A i \in Intents : dispatch[i] = None => posts[i] = 0 /\ \A e \in Executors : ~Sends(e, i)

\* One call may send, and only before the request.
OneSender ==
    \A i \in Intents, e \in Executors : Sends(e, i) =>
        /\ posts[i] = 0
        /\ \A f \in Executors : Sends(f, i) => f = e

PostInv == Typed /\ DispatchFirst /\ OneSender /\ AtMostOnePost

\* Only StartNew lets a call send, only Post issues a request, and nothing
\* withdraws a dispatch.
LEMMA QuietStep ==
    ASSUME PostInv, Typed', UNCHANGED <<dispatch, posts>>,
           \A e \in Executors, i \in Intents : Sends(e, i)' => Sends(e, i)
    PROVE  PostInv'
BY DEF PostInv, DispatchFirst, OneSender, AtMostOnePost

LEMMA CallStep ==
    ASSUME Typed, NEW e \in Executors, NEW c, c.pc # "send", exec' = [exec EXCEPT ![e] = c]
    PROVE  \A f \in Executors, i \in Intents : Sends(f, i)' => Sends(f, i)
BY DEF Typed, TypeOK, Sends

LEMMA GotoStep ==
    ASSUME Typed, NEW e \in Executors, NEW pc, pc # "send", Goto(e, pc)
    PROVE  \A f \in Executors, i \in Intents : Sends(f, i)' => Sends(f, i)
BY DEF Typed, TypeOK, Goto, Sends

LEMMA FinishStep ==
    ASSUME Typed, NEW e \in Executors, Finish(e)
    PROVE  \A f \in Executors, i \in Intents : Sends(f, i)' => Sends(f, i)
BY CallStep DEF Finish, Idle

LEMMA StartNewStep ==
    ASSUME PostInv, NEW e \in Executors, StartNew(e)
    PROVE  PostInv'
<1> DEFINE i == exec[e].intent
<1>1. i \in Intents /\ dispatch[i] = None /\ Typed'
  BY StartNewTypes DEF StartNew, MayStart, PostInv, Typed, CallsHaveIntents
<1>2. posts[i] = 0 /\ \A f \in Executors : ~Sends(f, i)
  BY <1>1 DEF PostInv, DispatchFirst
<1>3. \A f \in Executors, j \in Intents : Sends(f, j)' => Sends(f, j) \/ (f = e /\ j = i)
  BY DEF StartNew, Goto, Sends, PostInv, Typed, TypeOK
<1>4. [owner |-> OwnerOf[e], version |-> version] # None
  BY ExecutorsAssumption DEF PostInv, Typed, TypeOK, Dispatches
<1>5. /\ posts' = posts
      /\ \A j \in Intents : dispatch'[j] = None => dispatch[j] = None /\ j # i
  BY <1>1, <1>4 DEF StartNew, PostInv, Typed, TypeOK
<1>6. DispatchFirst'
  BY <1>3, <1>5 DEF PostInv, DispatchFirst
<1>7. OneSender'
  BY <1>1, <1>2, <1>3, <1>5 DEF PostInv, OneSender
<1> QED
  BY <1>1, <1>5, <1>6, <1>7 DEF PostInv, AtMostOnePost

LEMMA PostStep ==
    ASSUME PostInv, NEW e \in Executors, Post(e)
    PROVE  PostInv'
<1> DEFINE i == exec[e].intent
<1>1. i \in Intents /\ Sends(e, i) /\ Typed'
  BY PostTypes DEF Post, Sends, PostInv, Typed, CallsHaveIntents
<1>2. posts[i] = 0 /\ \A f \in Executors : Sends(f, i) => f = e
  BY <1>1 DEF PostInv, OneSender
<1>3. \A f \in Executors, j \in Intents : Sends(f, j)' => Sends(f, j) /\ f # e
  BY DEF Post, Goto, Sends, PostInv, Typed, TypeOK
<1>4. /\ dispatch' = dispatch
      /\ posts'[i] \in {0, 1}
      /\ \A j \in Intents \ {i} : posts'[j] = posts[j]
  BY <1>1, <1>2 DEF Post, PostInv, Typed, TypeOK
<1>5. dispatch[i] # None
  BY <1>1 DEF PostInv, DispatchFirst
<1>6. DispatchFirst'
  BY <1>3, <1>4, <1>5 DEF PostInv, DispatchFirst
<1>7. OneSender'
  BY <1>1, <1>2, <1>3, <1>4 DEF PostInv, OneSender
<1>8. AtMostOnePost'
  BY <1>4 DEF PostInv, AtMostOnePost
<1> QED
  BY <1>1, <1>6, <1>7, <1>8 DEF PostInv

LEMMA ExecutorStep ==
    ASSUME PostInv, NEW e \in Executors, Executor(e) \/ Crash(e)
    PROVE  PostInv'
<1>1. Typed /\ Typed'
  BY ExecutorTypes DEF PostInv
<1>2. ASSUME NEW i \in Intents, Take(e, i)
      PROVE  PostInv'
  <2>1. [Idle EXCEPT !.pc = "taken", !.intent = i, !.token = lease'.token].pc # "send"
    BY DEF Idle
  <2>2. UNCHANGED <<dispatch, posts>>
    BY <1>2 DEF Take, dispatchVars
  <2>3. \A f \in Executors, j \in Intents : Sends(f, j)' => Sends(f, j)
    BY <1>1, <1>2, <2>1, CallStep DEF Take
  <2> QED
    BY <1>1, <2>2, <2>3, QuietStep
<1>3. CASE Prepare(e)
  <2>1. \A f \in Executors, i \in Intents : Sends(f, i)' => Sends(f, i)
    BY <1>1, <1>3 DEF Prepare, Sends, Typed, TypeOK
  <2> QED
    BY <1>1, <1>3, <2>1, QuietStep DEF Prepare, dispatchVars
<1>4. CASE Find(e)
  <2>1. \A f \in Executors, i \in Intents : Sends(f, i)' => Sends(f, i)
    BY <1>1, <1>4 DEF Find, Sends, Typed, TypeOK
  <2> QED
    BY <1>1, <1>4, <2>1, QuietStep DEF Find, dispatchVars
<1>5. CASE StartReplay(e)
  BY <1>1, <1>5, FinishStep, GotoStep, QuietStep DEF StartReplay, dispatchVars
<1>6. CASE TimeOut(e)
  BY <1>1, <1>6, GotoStep, QuietStep DEF TimeOut, dispatchVars
<1>7. CASE RecordOrder(e)
  BY <1>1, <1>7, FinishStep, QuietStep DEF RecordOrder, dispatchVars
<1>8. CASE RecordUnknown(e)
  BY <1>1, <1>8, FinishStep, QuietStep DEF RecordUnknown, dispatchVars
<1>9. CASE Refused(e)
  BY <1>1, <1>9, FinishStep, QuietStep DEF Refused, dispatchVars
<1>10. CASE Crash(e)
  BY <1>1, <1>10, FinishStep, QuietStep DEF Crash, dispatchVars
<1> QED
  BY <1>2, <1>3, <1>4, <1>5, <1>6, <1>7, <1>8, <1>9, <1>10, StartNewStep, PostStep DEF Executor

LEMMA OtherStep ==
    ASSUME PostInv, Typed', UNCHANGED <<exec, dispatch, posts>>
    PROVE  PostInv'
<1>1. \A e \in Executors, i \in Intents : Sends(e, i)' => Sends(e, i)
  BY DEF Sends
<1> QED
  BY <1>1, QuietStep

LEMMA NextPosts == PostInv /\ [Next]_vars => PostInv'
<1> SUFFICES ASSUME PostInv, [Next]_vars PROVE PostInv'
  OBVIOUS
<1>1. Typed'
  BY NextTypes DEF PostInv
<1>2. CASE \E e \in Executors : Executor(e) \/ Crash(e)
  BY <1>2, ExecutorStep
<1>3. CASE Operator \/ Facts \/ Venue \/ Clock \/ AccountChanges
           \/ (\E i \in Intents : RpcCancel(i)) \/ UNCHANGED vars
  <2>1. UNCHANGED <<exec, dispatch, posts>>
    BY <1>3 DEF Operator, Facts, Venue, Clock, AccountChanges, RpcCancel, vars, execVars,
                dispatchVars
  <2> QED
    BY <1>1, <2>1, OtherStep
<1> QED
  BY <1>2, <1>3 DEF Next

\* At most one order request is ever issued for an intent, for any number of
\* executors and owners, whatever happens to the lease, the account and the
\* processes.
THEOREM PostsOnce == Spec => []AtMostOnePost
<1>1. Init => PostInv
  BY InitTypes
     DEF Init, PostInv, DispatchFirst, OneSender, AtMostOnePost, Sends, Idle
<1> QED
  BY <1>1, NextPosts, PTL DEF Spec, PostInv

\* The durable dispatch implements the abstract fence: it precedes the order
\* request, stays as it was made, and lets one request be issued.
THEOREM DispatchIsWriteAhead == Spec => ImplementsWriteAhead
<1> DEFINE journal == [i \in Intents |-> {dispatch[i]} \ {None}]
<1>1. Init => DispatchJournal!Init
  BY DEF Init, DispatchJournal!Init
<1>2. PostInv /\ [Next]_vars => [DispatchJournal!Next]_<<journal, posts>>
  <2> SUFFICES ASSUME PostInv, [Next]_vars
               PROVE  DispatchJournal!Next \/ UNCHANGED <<journal, posts>>
    OBVIOUS
  <2>1. CASE UNCHANGED <<dispatch, posts>>
    BY <2>1
  <2>2. ASSUME NEW e \in Executors, StartNew(e)
        PROVE  DispatchJournal!Next
    <3>1. PICK i \in Intents : i = exec[e].intent
      BY <2>2 DEF StartNew, PostInv, Typed, CallsHaveIntents
    <3>2. PICK r \in Dispatches : r = [owner |-> OwnerOf[e], version |-> version]
      BY ExecutorsAssumption DEF PostInv, Typed, TypeOK, Dispatches
    <3>3. /\ dispatch[i] = None /\ r # None
          /\ dispatch' = [dispatch EXCEPT ![i] = r]
          /\ UNCHANGED posts
      BY <2>2, <3>1, <3>2, ExecutorsAssumption DEF StartNew, MayStart
    <3>4. journal[i] = {} /\ journal' = [journal EXCEPT ![i] = {r}]
      BY <3>3 DEF PostInv, Typed, TypeOK
    <3> QED
      BY <3>3, <3>4 DEF DispatchJournal!Next, DispatchJournal!Record
  <2>3. ASSUME NEW e \in Executors, Post(e)
        PROVE  DispatchJournal!Next \/ UNCHANGED <<journal, posts>>
    <3> DEFINE i == exec[e].intent
    <3>1. i \in Intents /\ Sends(e, i)
      BY <2>3 DEF Post, Sends, PostInv, Typed, CallsHaveIntents
    <3>2. posts[i] = 0 /\ dispatch[i] # None /\ UNCHANGED dispatch
      BY <2>3, <3>1 DEF PostInv, DispatchFirst, OneSender, Post
    <3>3. CASE UNCHANGED posts
      BY <3>2, <3>3
    <3>4. CASE posts' = [posts EXCEPT ![i] = @ + 1]
      <4>1. posts' = [posts EXCEPT ![i] = 1]
        BY <3>1, <3>2, <3>4 DEF PostInv, Typed, TypeOK
      <4>2. journal[i] # {} /\ UNCHANGED journal
        BY <3>1, <3>2
      <4> QED
        BY <3>1, <3>2, <4>1, <4>2 DEF DispatchJournal!Next, DispatchJournal!Act
    <3> QED
      BY <2>3, <3>3, <3>4 DEF Post
  <2>4. ASSUME NEW e \in Executors, Executor(e) \/ Crash(e), ~StartNew(e), ~Post(e)
        PROVE  UNCHANGED <<dispatch, posts>>
    BY <2>4 DEF Executor, Take, Prepare, StartReplay, Find, TimeOut, RecordOrder, RecordUnknown,
                Refused, Crash, dispatchVars
  <2> QED
    BY <2>1, <2>2, <2>3, <2>4
       DEF Next, Operator, Facts, Venue, Clock, AccountChanges, RpcCancel, vars, dispatchVars
<1>3. Init => PostInv
  BY InitTypes
     DEF Init, PostInv, DispatchFirst, OneSender, AtMostOnePost, Sends, Idle
<1> QED
  BY <1>1, <1>2, <1>3, NextPosts, PTL DEF Spec, ImplementsWriteAhead, DispatchJournal!Spec

-----------------------------------------------------------------------------
(***************************************************************************)
(* What the rows know of the venue.  An order only moves forward there, so *)
(* what was found, listed or fetched earlier stays true although it is     *)
(* written late: a row that says filled is of an order that was filled,    *)
(* and the row bound to an intent is listed as cancelled by no snapshot.   *)
(***************************************************************************)
ClosedAtVenue == VenueFills \cup {"CANCELLED", "CUT"}

\* An order that once had status s may now have status v.
Earlier(s, v) ==
    \/ s \in {v, "NONE"}
    \/ s = "INFLIGHT" /\ v # "NONE"
    \/ s = "OPEN" /\ v \in ClosedAtVenue

\* What a call found is still so; only a dispatched intent is past "prepared".
CallSound(e) ==
    LET i == exec[e].intent
    IN  /\ exec[e].pc # "idle" => status[i] # "NONE"
        /\ exec[e].pc \in {"send", "query", "record", "unknown"} => dispatch[i] # None
        /\ exec[e].pc = "record" => venue[i] \in VenueFills /\ exec[e].found = Filled(venue[i])

\* An intent that was not dispatched has no order; the row of one that was
\* says filled, or can be listed, only if the order was filled.
RowSound(i) ==
    /\ dispatch[i] = None => /\ order[i] = NoOrder /\ fills[i] = 0
                             /\ status[i] \in {"NONE", "READY", "UNKNOWN", "CANCELLED"}
    /\ dispatch[i] # None => status[i] \notin {"NONE", "READY"}
    /\ order[i].id = "OBSERVED" => venue[i] \in VenueFills
    /\ order[i].status = "CANCELLED" => venue[i] \in VenueFills /\ reservation[i] # "UNKNOWN"
    /\ fills[i] > 0 => Filled(venue[i]) > 0
    /\ status[i] = "PARTIALLY_FILLED" /\ fills[i] = 0 => venue[i] \in VenueFills
    /\ status[i] = "FILLED" => Filled(venue[i]) > 0

\* What is told of an order was so, and is so unless it was still open.
VenueSound(i) ==
    /\ posts[i] = 0 => venue[i] = "NONE"
    /\ i \in rpc => venue[i] \in {"CANCELLED", "CUT"}
    /\ snap # None => /\ Earlier(snap.venue[i], venue[i])
                      /\ i \in snap.listed => snap.venue[i] \in ClosedAtVenue \cup {"OPEN"}

KnowledgeInv ==
    /\ PostInv
    /\ \A e \in Executors : CallSound(e)
    /\ \A i \in Intents : RowSound(i) /\ VenueSound(i)

LEMMA EarlierFacts ==
    ASSUME NEW s, NEW v, Earlier(s, v)
    PROVE  /\ s \in VenueFills => v = s
           /\ Filled(s) > 0 => v = s
           /\ s \in {"CANCELLED", "CUT"} => v = s
           /\ \A w : Earlier(v, w) => Earlier(s, w)
BY DEF Earlier, ClosedAtVenue, VenueFills, Filled, Full

\* An intent's own dispatch is for good, and so is its row.
LEMMA DispatchStep ==
    ASSUME Typed, Typed', [Next]_vars, NEW i \in Intents
    PROVE  /\ dispatch[i] # None => dispatch'[i] # None
           /\ dispatch'[i] # None => \/ dispatch[i] # None
                                     \/ \E e \in Executors : StartNew(e) /\ exec[e].intent = i
<1>1. ASSUME NEW e \in Executors, StartNew(e)
      PROVE  /\ dispatch[i] # None => dispatch'[i] # None
             /\ dispatch'[i] # None => dispatch[i] # None \/ exec[e].intent = i
  <2>1. exec[e].intent \in Intents /\ dispatch[exec[e].intent] = None
    BY <1>1 DEF StartNew, MayStart, Typed, CallsHaveIntents
  <2>2. exec[e].intent # i => dispatch'[i] = dispatch[i]
    BY <1>1, <2>1 DEF StartNew, Typed, TypeOK
  <2> QED
    BY <2>1, <2>2
<1>2. CASE ~\E e \in Executors : StartNew(e)
  <2>1. dispatch' = dispatch
    BY <1>2 DEF Next, Executor, Take, Prepare, StartReplay, Post, Find, TimeOut, RecordOrder,
                RecordUnknown, Refused, Crash, Operator, Facts, Venue, Clock, AccountChanges,
                RpcCancel, vars, execVars, dispatchVars
  <2> QED
    BY <2>1
<1> QED
  BY <1>1, <1>2

\* Orders change by a request or by what the venue does.
LEMMA VenueMoves ==
    ASSUME [Next]_vars
    PROVE  \/ \E e \in Executors : Post(e)
           \/ \E j \in Intents : VenueAccepts(j) \/ VenueExecutes(j) \/ VenueCancels(j)
           \/ UNCHANGED venue
BY DEF Next, Executor, Take, Prepare, StartNew, StartReplay, Find, TimeOut, RecordOrder,
       RecordUnknown, Refused, Crash, Operator, Facts, Venue, Clock, AccountChanges, RpcCancel,
       ReadSnapshot, StoreSnapshot, RefuseSnapshot, vars, venueVars

\* Orders move forward: a request is issued for an intent that has none.
LEMMA VenueStep ==
    ASSUME KnowledgeInv, Typed', [Next]_vars, NEW i \in Intents
    PROVE  Earlier(venue[i], venue'[i])
<1>1. ASSUME NEW e \in Executors, Post(e)
      PROVE  Earlier(venue[i], venue'[i])
  <2>1. exec[e].intent \in Intents
    BY <1>1 DEF Post, KnowledgeInv, PostInv, Typed, CallsHaveIntents
  <2>2. posts[exec[e].intent] = 0
    BY <1>1, <2>1 DEF Post, KnowledgeInv, PostInv, OneSender, Sends
  <2>3. venue[exec[e].intent] = "NONE"
    BY <2>1, <2>2 DEF KnowledgeInv, VenueSound
  <2> QED
    BY <1>1, <2>1, <2>3
       DEF Post, VenueBecomes, Earlier, KnowledgeInv, PostInv, Typed, TypeOK, FactsTypeOK
<1>2. ASSUME NEW j \in Intents, VenueAccepts(j) \/ VenueExecutes(j) \/ VenueCancels(j)
      PROVE  Earlier(venue[i], venue'[i])
  <2>1. venue \in [Intents -> VenueStatus]
    BY DEF KnowledgeInv, PostInv, Typed, TypeOK, FactsTypeOK
  <2> QED
    BY <1>2, <2>1, EntryOutcomesAssumption
       DEF VenueAccepts, VenueExecutes, VenueCancels, VenueBecomes, Earlier, ClosedAtVenue,
           VenueFills
<1>3. CASE UNCHANGED venue
  BY <1>3 DEF Earlier
<1> QED
  BY <1>1, <1>2, <1>3, VenueMoves

\* Snapshots come from reading and go when they are stored or refused.
LEMMA SnapshotSteps ==
    ASSUME [Next]_vars
    PROVE  ReadSnapshot \/ snap' \in {snap, None}
BY DEF Next, Executor, Take, Prepare, StartNew, StartReplay, Post, Find, TimeOut, RecordOrder,
       RecordUnknown, Refused, Crash, Operator, Facts, Venue, Clock, AccountChanges, RpcCancel,
       StoreSnapshot, RefuseSnapshot, VenueAccepts, VenueExecutes, VenueCancels, vars

LEMMA VenueSoundStep ==
    ASSUME KnowledgeInv, Typed', [Next]_vars, NEW i \in Intents
    PROVE  VenueSound(i)'
<1>1. Typed /\ VenueSound(i) /\ Earlier(venue[i], venue'[i])
  BY VenueStep DEF KnowledgeInv, PostInv
<1>2. posts'[i] = 0 => venue'[i] = "NONE"
  <2>1. ASSUME NEW e \in Executors, Post(e)
        PROVE  posts'[i] = 0 => venue'[i] = "NONE"
    <3>1. exec[e].intent \in Intents /\ posts[i] \in Nat
      BY <1>1, <2>1 DEF Post, Typed, TypeOK, CallsHaveIntents
    <3>2. CASE venue' = venue /\ posts' = posts
      BY <1>1, <3>2 DEF VenueSound
    <3>3. CASE /\ VenueBecomes(exec[e].intent, "INFLIGHT")
               /\ posts' = [posts EXCEPT ![exec[e].intent] = @ + 1]
      BY <1>1, <3>1, <3>3 DEF VenueSound, VenueBecomes, Typed, TypeOK, FactsTypeOK
    <3> QED
      BY <2>1, <3>2, <3>3 DEF Post
  <2>2. ASSUME NEW j \in Intents, VenueAccepts(j) \/ VenueExecutes(j) \/ VenueCancels(j),
               posts' = posts
        PROVE  posts'[i] = 0 => venue'[i] = "NONE"
    BY <1>1, <2>2
       DEF VenueAccepts, VenueExecutes, VenueCancels, VenueBecomes, VenueSound, Typed, TypeOK,
           FactsTypeOK
  <2>3. \/ \E e \in Executors : Post(e)
        \/ /\ posts' = posts
           /\ \E j \in Intents : VenueAccepts(j) \/ VenueExecutes(j) \/ VenueCancels(j)
        \/ UNCHANGED <<posts, venue>>
    BY DEF Next, Executor, Take, Prepare, StartNew, StartReplay, Find, TimeOut, RecordOrder,
           RecordUnknown, Refused, Crash, Operator, Facts, Venue, Clock, AccountChanges, RpcCancel,
           ReadSnapshot, StoreSnapshot, RefuseSnapshot, vars, venueVars, dispatchVars
  <2> QED
    BY <1>1, <2>1, <2>2, <2>3 DEF VenueSound
<1>3. i \in rpc' => venue'[i] \in {"CANCELLED", "CUT"}
  <2>1. ASSUME NEW j \in Intents, VenueCancels(j)
        PROVE  i \in rpc' => i \in rpc \/ venue'[i] \in {"CANCELLED", "CUT"}
    BY <1>1, <2>1 DEF VenueCancels, VenueBecomes, Typed, TypeOK, FactsTypeOK
  <2>2. (\E j \in Intents : VenueCancels(j)) \/ rpc' \subseteq rpc
    BY DEF Next, Executor, Take, Prepare, StartNew, StartReplay, Post, Find, TimeOut, RecordOrder,
           RecordUnknown, Refused, Crash, Operator, Facts, Venue, Clock, AccountChanges, RpcCancel,
           ReadSnapshot, StoreSnapshot, RefuseSnapshot, VenueAccepts, VenueExecutes, vars,
           venueVars
  <2> QED
    BY <1>1, <2>1, <2>2, EarlierFacts DEF VenueSound
<1>4. snap' # None => /\ Earlier(snap'.venue[i], venue'[i])
                      /\ i \in snap'.listed => snap'.venue[i] \in ClosedAtVenue \cup {"OPEN"}
  <2>1. CASE ReadSnapshot
    BY <1>1, <2>1 DEF ReadSnapshot, Earlier, ClosedAtVenue, venueVars
  <2>2. CASE snap' = snap
    BY <1>1, <2>2, EarlierFacts DEF VenueSound
  <2> QED
    BY <2>1, <2>2, SnapshotSteps
<1> QED
  BY <1>2, <1>3, <1>4 DEF VenueSound

\* No row disappears.
LEMMA StatusStays ==
    ASSUME Typed, Typed', [Next]_vars, NEW i \in Intents, status[i] # "NONE"
    PROVE  status'[i] # "NONE"
<1>1. ASSUME StoreSnapshot
      PROVE  status'[i] # "NONE"
  <2>1. PICK recent \in BOOLEAN :
          status' = [j \in Intents |-> IF Settled(snap, j, recent).outcome = "KEEP" THEN status[j]
                                       ELSE Settled(snap, j, recent).outcome]
    BY <1>1 DEF StoreSnapshot
  <2>2. Settled(snap, i, recent).outcome # "NONE"
    BY SettledType DEF Results, Typed, TypeOK
  <2> QED
    BY <2>1, <2>2
<1>2. ASSUME NEW j \in Intents, NEW s, s # "NONE", SetStatus(j, s)
      PROVE  status'[i] # "NONE"
  BY <1>2 DEF SetStatus, Typed, TypeOK, RowsTypeOK
<1>3. ASSUME NEW e \in Executors, StartNew(e) \/ RecordOrder(e) \/ RecordUnknown(e)
      PROVE  status'[i] # "NONE"
  <2>1. exec[e].intent \in Intents
    BY <1>3 DEF StartNew, RecordOrder, RecordUnknown, Typed, CallsHaveIntents
  <2> QED
    BY <1>2, <1>3, <2>1 DEF StartNew, RecordOrder, RecordUnknown
<1>4. ASSUME NEW j \in Intents, CreateExit(j) \/ MarkUnknown(j) \/ Release(j) \/ RpcCancel(j)
      PROVE  status'[i] # "NONE"
  BY <1>2, <1>4 DEF CreateExit, MarkUnknown, Release, RpcCancel
<1>5. \/ StoreSnapshot
      \/ \E e \in Executors : StartNew(e) \/ RecordOrder(e) \/ RecordUnknown(e)
      \/ \E j \in Intents : CreateExit(j) \/ MarkUnknown(j) \/ Release(j) \/ RpcCancel(j)
      \/ UNCHANGED status
  BY DEF Next, Executor, Take, Prepare, StartReplay, Post, Find, TimeOut, Refused, Crash, Operator,
         Facts, Venue, Clock, AccountChanges, ReadSnapshot, RefuseSnapshot, VenueAccepts,
         VenueExecutes, VenueCancels, Reconcile, Close, StopNewRisk, FactsAge, vars, rowVars,
         intentVars
<1> QED
  BY <1>1, <1>3, <1>4, <1>5

LEMMA CallSoundStep ==
    ASSUME KnowledgeInv, Typed', [Next]_vars, NEW e \in Executors
    PROVE  CallSound(e)'
<1> DEFINE i == exec[e].intent
<1>1. /\ Typed /\ CallSound(e)
      /\ exec \in [Executors -> Calls] /\ exec[e] \in Calls
      /\ exec[e].pc # "idle" => i \in Intents
  BY DEF KnowledgeInv, PostInv, Typed, TypeOK, Calls, CallsHaveIntents
<1>2. ASSUME i \in Intents
      PROVE  /\ status[i] # "NONE" => status'[i] # "NONE"
             /\ dispatch[i] # None => dispatch'[i] # None
             /\ venue[i] \in VenueFills => venue'[i] = venue[i]
  <2>1. Earlier(venue[i], venue'[i])
    BY <1>2, VenueStep DEF KnowledgeInv, PostInv
  <2> QED
    BY <1>1, <1>2, <2>1, StatusStays, DispatchStep, EarlierFacts
<1>3. CASE exec'[e].pc = "idle"
  BY <1>3 DEF CallSound
<1>4. CASE exec'[e] = exec[e]
  BY <1>1, <1>2, <1>3, <1>4 DEF CallSound
<1>5. ASSUME exec'[e].intent = i, exec[e].pc # "idle",
             exec'[e].pc \in {"taken", "prepared"}
      PROVE  CallSound(e)'
  BY <1>1, <1>2, <1>5 DEF CallSound
<1>6. ASSUME exec'[e].intent = i, exec[e].pc # "idle", dispatch'[i] # None,
             exec'[e].pc \in {"send", "query", "unknown"}
      PROVE  CallSound(e)'
  BY <1>1, <1>2, <1>6 DEF CallSound
<1>7. ASSUME NEW j \in Intents, Take(e, j)
      PROVE  CallSound(e)'
  <2>1. exec'[e].intent = j /\ exec'[e].pc = "taken" /\ status'[j] # "NONE"
    BY <1>1, <1>7, StatusStays DEF Take, Idle
  <2> QED
    BY <2>1 DEF CallSound
<1>8. CASE Prepare(e)
  BY <1>1, <1>5, <1>8 DEF Prepare, Calls
<1>9. CASE StartNew(e)
  <2>1. [owner |-> OwnerOf[e], version |-> version] # None
    BY <1>1, ExecutorsAssumption DEF Typed, TypeOK, Dispatches
  <2>2. dispatch'[i] # None
    BY <1>1, <1>9, <2>1 DEF StartNew, Typed, TypeOK
  <2> QED
    BY <1>1, <1>6, <1>9, <2>2 DEF StartNew, Goto, Calls
<1>10. CASE StartReplay(e)
  <2>1. [owner |-> OwnerOf[e], version |-> version] # None
    BY <1>1, ExecutorsAssumption DEF Typed, TypeOK, Dispatches
  <2>2. dispatch'[i] # None
    BY <1>1, <1>2, <1>10, <2>1 DEF StartReplay, MayReplay
  <2> QED
    BY <1>1, <1>3, <1>6, <1>10, <2>2 DEF StartReplay, Goto, Finish, Idle, Calls
<1>11. CASE Post(e) \/ TimeOut(e)
  <2>1. dispatch'[i] # None
    BY <1>1, <1>2, <1>11 DEF Post, TimeOut, CallSound
  <2> QED
    BY <1>1, <1>6, <1>11, <2>1 DEF Post, TimeOut, Goto, Calls
<1>12. CASE Find(e)
  <2>1. /\ exec'[e].intent = i /\ exec'[e].pc = "record" /\ exec'[e].found = Filled(venue[i])
        /\ venue[i] \in VenueFills
    BY <1>1, <1>12 DEF Find, Shows, Calls
  <2>2. dispatch'[i] # None /\ status'[i] # "NONE" /\ venue'[i] = venue[i]
    BY <1>1, <1>2, <1>12, <2>1 DEF Find, CallSound
  <2> QED
    BY <2>1, <2>2 DEF CallSound
<1>13. CASE RecordOrder(e) \/ RecordUnknown(e) \/ Refused(e) \/ Crash(e)
  BY <1>1, <1>3, <1>13 DEF RecordOrder, RecordUnknown, Refused, Crash, Finish, Idle
<1>14. ASSUME NEW f \in Executors \ {e}, Executor(f) \/ Crash(f)
       PROVE  exec'[e] = exec[e]
  BY <1>1, <1>14
     DEF Executor, Take, Prepare, StartNew, StartReplay, Post, Find, TimeOut, RecordOrder,
         RecordUnknown, Refused, Crash, Finish, Goto
<1>15. \/ \E f \in Executors : Executor(f) \/ Crash(f)
       \/ UNCHANGED exec
  BY DEF Next, Operator, Facts, Venue, Clock, AccountChanges, RpcCancel, vars, execVars
<1> QED
  BY <1>4, <1>7, <1>8, <1>9, <1>10, <1>11, <1>12, <1>13, <1>14, <1>15 DEF Executor

-----------------------------------------------------------------------------
\* What a snapshot leaves of one row.
\* The row a snapshot finds bound is that of a dispatched intent, is not listed as cancelled,
\* and has fills only if the order was filled.
LEMMA BoundSound ==
    ASSUME Typed, NEW i \in Intents, RowSound(i), VenueSound(i), snap # None, NEW recent \in BOOLEAN
    PROVE  /\ order[i] = NoOrder => BoundOrder(snap, i, recent) = NoOrder
           /\ BoundOrder(snap, i, recent).id = "OBSERVED" => order[i].id = "OBSERVED"
           /\ BoundOrder(snap, i, recent).status = "CANCELLED" => order[i].status = "CANCELLED"
           /\ order[i] = NoOrder => FillsAfter(snap, i, recent) = fills[i]
           /\ FillsAfter(snap, i, recent) > 0 => Filled(venue[i]) > 0
           /\ FillsAfter(snap, i, recent) = 0 => fills[i] = 0
<1> DEFINE o == BoundOrder(snap, i, recent)
           n == FillsAfter(snap, i, recent)
<1>1. Earlier(snap.venue[i], venue[i])
  BY DEF VenueSound
<1>2. order[i] = NoOrder => o = NoOrder
  BY DEF BoundOrder, Adopts, ListedOrder, NoOrder
<1>3. o.id = "OBSERVED" => order[i].id = "OBSERVED"
  BY DEF BoundOrder, ListedOrder
<1>4. o.status = "CANCELLED" => order[i].status = "CANCELLED"
  <2>1. CASE i \in snap.listed /\ order[i].id = "OBSERVED"
    <3>1. venue[i] \in VenueFills
      BY <2>1 DEF RowSound
    <3>2. snap.venue[i] \notin {"CANCELLED", "CUT"}
      BY <1>1, <3>1, EarlierFacts DEF VenueFills
    <3>3. snap.venue[i] \in VenueFills \cup {"OPEN"}
      BY <2>1, <3>2 DEF VenueSound, ClosedAtVenue
    <3>4. ListedRow(snap.venue[i]).status # "CANCELLED"
      BY <3>3 DEF ListedRow, ListedStatus, VenueFills
    <3> QED
      BY <2>1, <3>4 DEF BoundOrder, ListedOrder
  <2>2. CASE ~(i \in snap.listed /\ order[i].id = "OBSERVED")
    BY <2>2 DEF BoundOrder, ListedOrder
  <2> QED
    BY <2>1, <2>2
<1>5. Reported(snap, i) \in 0..Full /\ fills[i] \in 0..Full
  BY FilledType DEF Reported, Full, Typed, TypeOK, RowsTypeOK
<1>6. Reported(snap, i) > 0 => Filled(venue[i]) > 0
  BY <1>1, EarlierFacts DEF Reported
<1>7. n > 0 => Filled(venue[i]) > 0
  BY <1>5, <1>6 DEF FillsAfter, RowSound
<1>8. n = 0 => fills[i] = 0
  BY <1>5 DEF FillsAfter, BindsFills, Full
<1>9. order[i] = NoOrder => n = fills[i]
  BY <1>2 DEF FillsAfter, BindsFills, NoOrder
<1> QED
  BY <1>2, <1>3, <1>4, <1>7, <1>8, <1>9

\* How the outcome of an intent and the row after it depend on the bound row.
LEMMA SettledFacts ==
    ASSUME Typed, NEW i \in Intents, NEW s, NEW recent
    PROVE  LET o == BoundOrder(s, i, recent)
               n == FillsAfter(s, i, recent)
               r == Settled(s, i, recent)
               row == Covered(s, i, r.order, r.filled)
           IN  /\ r.filled = n /\ n \in 0..Full
               /\ o = NoOrder => r.outcome = "KEEP" /\ row = NoOrder
               /\ r.outcome = "FILLED" => n > 0
               /\ r.outcome = "PARTIALLY_FILLED" => n > 0 /\ n # Full
               /\ r.outcome = "CANCELLED" => o.status = "CANCELLED"
               /\ r.outcome = "UNKNOWN" => o.status = "UNKNOWN"
               /\ row.id = o.id
               /\ row.status = "CANCELLED" => o.status = "CANCELLED"
<1> DEFINE o == BoundOrder(s, i, recent)
           n == FillsAfter(s, i, recent)
           r == Settled(s, i, recent)
           row == Covered(s, i, r.order, r.filled)
<1>1. o \in OrderRow /\ r \in Results
  BY BoundOrderType, SettledType DEF Typed, TypeOK
<1>2. r.filled = n /\ n \in 0..Full
  BY <1>1 DEF Settled, Results
<1>3. r.outcome \in {"KEEP", Outcome(o, n)} /\ (o = NoOrder => r.outcome = "KEEP" /\ r.order = o)
  BY DEF Settled
<1>4. r.order.id = o.id /\ (r.order.status = "CANCELLED" => o.status = "CANCELLED")
  <2>1. r.order \in {o, [o EXCEPT !.filled = IF @ > n THEN @ ELSE n,
                                  !.status = IF Outcome(o, n) \in {"FILLED", "PARTIALLY_FILLED"}
                                             THEN Outcome(o, n) ELSE @]}
    BY DEF Settled
  <2> QED
    BY <1>1, <2>1 DEF OrderRow
<1>5. /\ Outcome(o, n) = "FILLED" => n > 0
      /\ Outcome(o, n) = "PARTIALLY_FILLED" => n > 0 /\ n # Full
      /\ Outcome(o, n) = "CANCELLED" => o.status = "CANCELLED"
      /\ Outcome(o, n) = "UNKNOWN" => o.status = "UNKNOWN"
  BY <1>2 DEF Outcome, Full
<1> HIDE DEF o, n, r
<1>6. row.id = r.order.id /\ (row.status = "CANCELLED" => r.order.status = "CANCELLED")
  <2>1. r.order \in OrderRow
    BY <1>1 DEF Results
  <2> QED
    BY <2>1 DEF Covered, OrderRow
<1>7. r.order = NoOrder => row = NoOrder
  BY DEF Covered, NoOrder
<1> QED
  BY <1>2, <1>3, <1>4, <1>5, <1>6, <1>7 DEF o, n, r

LEMMA RowSoundStored ==
    ASSUME KnowledgeInv, Typed', StoreSnapshot, dispatch' = dispatch, NEW i \in Intents
    PROVE  /\ RowSound(i)'
           /\ reservation[i] = "UNKNOWN" => reservation'[i] # "RELEASED"
           /\ status'[i] = "READY" => status[i] = "READY"
<1>1. PICK recent \in BOOLEAN :
        LET after == [j \in Intents |-> Settled(snap, j, recent)]
        IN  /\ status' = [j \in Intents |-> IF after[j].outcome = "KEEP" THEN status[j]
                                                                 ELSE after[j].outcome]
            /\ reservation' = [j \in Intents |-> ReservationAfter(j, after[j])]
            /\ order' = [j \in Intents |-> Covered(snap, j, after[j].order, after[j].filled)]
            /\ fills' = [j \in Intents |-> after[j].filled]
  BY DEF StoreSnapshot
<1> DEFINE o == BoundOrder(snap, i, recent)
           n == FillsAfter(snap, i, recent)
           r == Settled(snap, i, recent)
<1>2. /\ status'[i] = IF r.outcome = "KEEP" THEN status[i] ELSE r.outcome
      /\ reservation'[i] = ReservationAfter(i, r)
      /\ order'[i] = Covered(snap, i, r.order, r.filled)
      /\ fills'[i] = r.filled
      /\ venue'[i] = venue[i]
  BY <1>1 DEF StoreSnapshot, venueVars
<1>3. Typed /\ RowSound(i) /\ VenueSound(i) /\ snap # None
  BY DEF KnowledgeInv, PostInv, StoreSnapshot
<1>4. /\ order[i] = NoOrder => o = NoOrder
      /\ o.id = "OBSERVED" => order[i].id = "OBSERVED"
      /\ o.status = "CANCELLED" => order[i].status = "CANCELLED"
      /\ order[i] = NoOrder => n = fills[i]
      /\ n > 0 => Filled(venue[i]) > 0
      /\ n = 0 => fills[i] = 0
  BY <1>3, BoundSound
<1>5. /\ r.filled = n /\ n \in 0..Full
      /\ o = NoOrder => r.outcome = "KEEP" /\ order'[i] = NoOrder
      /\ r.outcome = "FILLED" => n > 0
      /\ r.outcome = "PARTIALLY_FILLED" => n > 0 /\ n # Full
      /\ r.outcome = "CANCELLED" => o.status = "CANCELLED"
      /\ r.outcome = "UNKNOWN" => o.status = "UNKNOWN"
      /\ order'[i].id = o.id
      /\ order'[i].status = "CANCELLED" => o.status = "CANCELLED"
  BY <1>2, <1>3, SettledFacts
<1>6. r.outcome \in {"UNKNOWN", "FILLED", "CANCELLED", "PARTIALLY_FILLED", "KEEP"}
  BY <1>3, SettledType DEF Results, Typed, TypeOK
<1> HIDE DEF o, n, r
<1>7. order'[i].status = "CANCELLED" =>
        /\ order[i].status = "CANCELLED" /\ reservation[i] # "UNKNOWN"
        /\ reservation'[i] # "UNKNOWN"
  <2>1. order'[i].status = "CANCELLED" => order[i].status = "CANCELLED" /\ r.outcome # "UNKNOWN"
    BY <1>4, <1>5
  <2> QED
    BY <1>2, <1>3, <2>1 DEF RowSound, ReservationAfter
<1>8. reservation[i] = "UNKNOWN" => reservation'[i] # "RELEASED"
  <2>1. reservation[i] = "UNKNOWN" => r.outcome # "CANCELLED"
    BY <1>3, <1>4, <1>5 DEF RowSound
  <2>2. r.outcome \in {"FILLED", "PARTIALLY_FILLED"} => r.filled > 0
    BY <1>5
  <2> QED
    BY <1>2, <1>6, <2>1, <2>2 DEF ReservationAfter
<1>9. dispatch[i] = None => /\ order'[i] = NoOrder /\ fills'[i] = fills[i]
                            /\ status'[i] = status[i]
  BY <1>2, <1>3, <1>4, <1>5 DEF RowSound
<1>10. /\ status'[i] \in {status[i], "UNKNOWN", "FILLED", "CANCELLED", "PARTIALLY_FILLED"}
       /\ fills'[i] > 0 => Filled(venue[i]) > 0
       /\ fills'[i] = 0 => fills[i] = 0
       /\ status'[i] = "FILLED" => status[i] = "FILLED" \/ n > 0
       /\ status'[i] = "PARTIALLY_FILLED" => status[i] = "PARTIALLY_FILLED" \/ n > 0
  BY <1>2, <1>4, <1>5, <1>6
<1>11. RowSound(i)'
  BY <1>2, <1>3, <1>4, <1>5, <1>7, <1>9, <1>10 DEF RowSound
<1> QED
  BY <1>8, <1>10, <1>11

\* A row that no step writes keeps what is said of it.
LEMMA RowRests ==
    ASSUME NEW i \in Intents, RowSound(i), Earlier(venue[i], venue'[i]),
           status'[i] = status[i], order'[i] = order[i], fills'[i] = fills[i],
           dispatch'[i] = dispatch[i], reservation'[i] = "UNKNOWN" => reservation[i] = "UNKNOWN"
    PROVE  RowSound(i)'
BY EarlierFacts DEF RowSound

\* The steps of calls and of operators, on the row they write and on the others.
LEMMA RowSoundCalls ==
    ASSUME KnowledgeInv, Typed', [Next]_vars, NEW e \in Executors,
           StartNew(e) \/ RecordOrder(e) \/ RecordUnknown(e), NEW i \in Intents
    PROVE  /\ RowSound(i)'
           /\ reservation[i] = "UNKNOWN" => reservation'[i] # "RELEASED"
           /\ status'[i] # "READY" \/ status[i] = "READY"
<1> DEFINE j == exec[e].intent
<1>1. /\ Typed /\ TypeOK /\ RowSound(i) /\ CallSound(e) /\ Earlier(venue[i], venue'[i])
      /\ j \in Intents
  BY VenueStep
     DEF KnowledgeInv, PostInv, Typed, CallsHaveIntents, StartNew, RecordOrder, RecordUnknown
<1>2. /\ status \in [Intents -> IntentStatus] /\ order \in [Intents -> OrderRow]
      /\ reservation \in [Intents -> ReservationStatus]
      /\ dispatch \in [Intents -> Dispatches \cup {None}]
  BY <1>1 DEF TypeOK, RowsTypeOK
<1>3. CASE StartNew(e)
  <2>1. /\ order' = order /\ fills' = fills /\ reservation' = reservation /\ venue' = venue
        /\ status' = [status EXCEPT ![j] = "DISPATCHING"]
        /\ dispatch' = [dispatch EXCEPT ![j] = [owner |-> OwnerOf[e], version |-> version]]
        /\ status[j] = "READY"
    BY <1>3 DEF StartNew, MayStart, SetStatus, orderVars, venueVars
  <2>2. [owner |-> OwnerOf[e], version |-> version] # None
    BY <1>1, ExecutorsAssumption DEF Typed, TypeOK, Dispatches
  <2>3. CASE i = j
    <3>1. status'[i] = "DISPATCHING" /\ dispatch'[i] # None /\ dispatch[i] = None
      BY <1>1, <1>2, <2>1, <2>2, <2>3, <1>3 DEF StartNew, MayStart
    <3> QED
      BY <1>1, <2>1, <3>1 DEF RowSound, NoOrder
  <2>4. CASE i # j
    <3>1. status'[i] = status[i] /\ dispatch'[i] = dispatch[i]
      BY <1>2, <2>1, <2>4
    <3> QED
      BY <1>1, <2>1, <3>1, RowRests
  <2> QED
    BY <1>2, <2>1, <2>3, <2>4
<1>4. CASE RecordOrder(e)
  <2>1. /\ venue[j] \in VenueFills /\ dispatch[j] # None
        /\ exec[e].found = Filled(venue[j])
    BY <1>1, <1>4 DEF RecordOrder, CallSound
  <2>2. /\ fills' = fills /\ venue' = venue /\ dispatch' = dispatch
        /\ reservation' = IF reservation[j] = "NONE" THEN reservation
                          ELSE [reservation EXCEPT ![j] = "OPEN"]
    BY <1>4 DEF RecordOrder, Reserve, venueVars, dispatchVars
  <2>3. Filled(venue[j]) > 0
    BY <2>1 DEF VenueFills, Filled, Full
  <2>4. CASE i = j
    <3>1. /\ status'[i] \in {"FILLED", "PARTIALLY_FILLED"}
          /\ order'[i].status \in {"FILLED", "PARTIALLY_FILLED"}
      BY <1>2, <1>4, <2>4 DEF RecordOrder, SetStatus
    <3>2. reservation'[i] # "RELEASED" \/ reservation[i] = "RELEASED"
      BY <1>2, <2>2, <2>4
    <3> QED
      BY <1>1, <2>1, <2>2, <2>3, <2>4, <3>1, <3>2 DEF RowSound
  <2>5. CASE i # j
    <3>1. status'[i] = status[i] /\ order'[i] = order[i] /\ reservation'[i] = reservation[i]
      BY <1>2, <1>4, <2>2, <2>5 DEF RecordOrder, SetStatus
    <3> QED
      BY <1>1, <2>2, <3>1, RowRests
  <2> QED
    BY <2>4, <2>5
<1>5. CASE RecordUnknown(e)
  <2>1. /\ fills' = fills /\ venue' = venue /\ dispatch' = dispatch /\ dispatch[j] # None
    BY <1>1, <1>5 DEF RecordUnknown, venueVars, dispatchVars, CallSound
  <2>2. CASE UNCHANGED <<status, reservation, campaign, order, seen>>
    BY <1>1, <2>1, <2>2, RowRests
  <2>3. CASE /\ SetStatus(j, "UNKNOWN") /\ Reserve(j, "UNKNOWN")
             /\ order' = [order EXCEPT ![j] = IF @ = NoOrder
                                THEN [id |-> "PLACEHOLDER", status |-> "UNKNOWN",
                                      ordered |-> Full, filled |-> 0]
                                ELSE [@ EXCEPT !.status = "UNKNOWN"]]
    <3>1. CASE i = j
      <4>1. status'[i] = "UNKNOWN" /\ reservation'[i] # "RELEASED"
        BY <1>2, <2>3, <3>1 DEF SetStatus, Reserve, ReservationStatus
      <4>2. order'[i].status = "UNKNOWN" /\ order'[i].id \in {order[i].id, "PLACEHOLDER"}
        BY <1>2, <2>3, <3>1 DEF OrderRow
      <4> QED
        BY <1>1, <2>1, <3>1, <4>1, <4>2 DEF RowSound
    <3>2. CASE i # j
      <4>1. status'[i] = status[i] /\ order'[i] = order[i] /\ reservation'[i] = reservation[i]
        BY <1>2, <2>3, <3>2 DEF SetStatus, Reserve
      <4> QED
        BY <1>1, <2>1, <4>1, RowRests
    <3> QED
      BY <3>1, <3>2
  <2> QED
    BY <1>5, <2>2, <2>3 DEF RecordUnknown
<1> QED
  BY <1>3, <1>4, <1>5

LEMMA RowSoundRows ==
    ASSUME KnowledgeInv, Typed', [Next]_vars, NEW j \in Intents, NEW i \in Intents,
           \/ (CreateExit(j) \/ MarkUnknown(j) \/ Release(j)) /\ UNCHANGED <<venue, dispatch>>
           \/ RpcCancel(j)
    PROVE  /\ RowSound(i)'
           /\ reservation[i] = "UNKNOWN" => reservation'[i] # "RELEASED"
           /\ status'[i] = "READY" => status[i] = "READY" \/ (i = j /\ CreateExit(j))
<1>1. /\ Typed /\ RowSound(i) /\ RowSound(j) /\ VenueSound(j)
      /\ Earlier(venue[i], venue'[i])
  BY VenueStep DEF KnowledgeInv, PostInv
<1>2. /\ status \in [Intents -> IntentStatus] /\ order \in [Intents -> OrderRow]
      /\ reservation \in [Intents -> ReservationStatus]
  BY <1>1 DEF Typed, TypeOK, RowsTypeOK
<1>3. fills' = fills /\ venue' = venue /\ dispatch' = dispatch
  BY DEF CreateExit, MarkUnknown, Release, RpcCancel, orderVars, dispatchVars
<1>4. CASE i # j
  <2>1. status'[i] = status[i] /\ order'[i] = order[i] /\ reservation'[i] = reservation[i]
    BY <1>2, <1>4
       DEF CreateExit, MarkUnknown, Release, RpcCancel, SetStatus, Reserve, orderVars
  <2> QED
    BY <1>1, <1>3, <2>1, RowRests
<1>5. CASE i = j /\ CreateExit(j)
  <2>1. /\ status[i] = "NONE" /\ status'[i] = "READY"
        /\ order' = order /\ reservation' = reservation
    BY <1>2, <1>5 DEF CreateExit, SetStatus, orderVars
  <2> QED
    BY <1>1, <1>3, <1>5, <2>1 DEF RowSound
<1>6. CASE i = j /\ MarkUnknown(j)
  <2>1. /\ status[i] # "NONE" /\ status'[i] = "UNKNOWN" /\ reservation'[i] # "RELEASED"
    BY <1>2, <1>6 DEF MarkUnknown, SetStatus, Reserve, ReservationStatus, Active
  <2>2. \/ order[i] = NoOrder /\ order'[i] = NoOrder
        \/ order[i] # NoOrder /\ order'[i].status = "UNKNOWN" /\ order'[i].id = order[i].id
    BY <1>2, <1>6 DEF MarkUnknown, OrderRow
  <2> QED
    BY <1>1, <1>3, <1>6, <2>1, <2>2 DEF RowSound, NoOrder
<1>7. CASE i = j /\ Release(j)
  <2>1. /\ status[i] \in {"READY", "PARTIALLY_FILLED"} /\ fills[i] = 0
        /\ status'[i] = "CANCELLED"
        /\ reservation[i] # "UNKNOWN" /\ reservation'[i] # "UNKNOWN"
    BY <1>2, <1>7 DEF Release, Releasable, SetStatus, Reserve, ReservationStatus
  <2>2. \/ order[i] = NoOrder /\ order'[i] = NoOrder
        \/ order[i] # NoOrder /\ order'[i].id = order[i].id
    BY <1>2, <1>7 DEF Release, OrderRow
  <2>3. order[i] # NoOrder => venue[i] \in VenueFills
    BY <1>1, <2>1 DEF RowSound
  <2> QED
    BY <1>1, <1>3, <1>7, <2>1, <2>2, <2>3 DEF RowSound, NoOrder
<1>8. CASE i = j /\ RpcCancel(j)
  <2>1. /\ status'[i] = "UNKNOWN" /\ reservation'[i] # "RELEASED" /\ order' = order
        /\ dispatch[i] # None
    BY <1>2, <1>8 DEF RpcCancel, SetStatus, Reserve, ReservationStatus, orderVars
  <2>2. venue[i] \notin VenueFills
    BY <1>1, <1>8 DEF RpcCancel, VenueSound, VenueFills
  <2> QED
    BY <1>1, <1>3, <2>1, <2>2 DEF RowSound
<1> QED
  BY <1>4, <1>5, <1>6, <1>7, <1>8

\* The steps that write rows.
LEMMA RowSteps ==
    ASSUME [Next]_vars
    PROVE  \/ StoreSnapshot /\ dispatch' = dispatch
           \/ \E e \in Executors : StartNew(e) \/ RecordOrder(e) \/ RecordUnknown(e)
           \/ \E j \in Intents : \/ /\ CreateExit(j) \/ MarkUnknown(j) \/ Release(j)
                                    /\ UNCHANGED <<venue, dispatch>>
                                 \/ RpcCancel(j)
           \/ /\ UNCHANGED <<status, order, fills, dispatch>>
              /\ reservation' = reservation \/ Close
BY DEF Next, Executor, Take, Prepare, StartReplay, Post, Find, TimeOut, Refused, Crash, Operator,
       Facts, Venue, Clock, AccountChanges, ReadSnapshot, RefuseSnapshot, VenueAccepts,
       VenueExecutes, VenueCancels, Reconcile, Close, StopNewRisk, FactsAge, vars, rowVars,
       intentVars, orderVars, venueVars, dispatchVars

LEMMA RowSoundStep ==
    ASSUME KnowledgeInv, Typed', [Next]_vars, NEW i \in Intents
    PROVE  /\ RowSound(i)'
           /\ reservation[i] = "UNKNOWN" => reservation'[i] # "RELEASED"
           /\ status'[i] = "READY" => status[i] = "READY" \/ CreateExit(i)
<1>1. Typed /\ RowSound(i) /\ Earlier(venue[i], venue'[i])
  BY VenueStep DEF KnowledgeInv, PostInv
<1>2. CASE StoreSnapshot /\ dispatch' = dispatch
  BY <1>2, RowSoundStored
<1>3. ASSUME NEW e \in Executors, StartNew(e) \/ RecordOrder(e) \/ RecordUnknown(e)
      PROVE  /\ RowSound(i)'
             /\ reservation[i] = "UNKNOWN" => reservation'[i] # "RELEASED"
             /\ status'[i] = "READY" => status[i] = "READY" \/ CreateExit(i)
  BY <1>3, RowSoundCalls
<1>4. ASSUME NEW j \in Intents,
             \/ /\ CreateExit(j) \/ MarkUnknown(j) \/ Release(j)
                /\ UNCHANGED <<venue, dispatch>>
             \/ RpcCancel(j)
      PROVE  /\ RowSound(i)'
             /\ reservation[i] = "UNKNOWN" => reservation'[i] # "RELEASED"
             /\ status'[i] = "READY" => status[i] = "READY" \/ CreateExit(i)
  BY <1>4, RowSoundRows
<1>5. ASSUME UNCHANGED <<status, order, fills, dispatch>>, reservation' = reservation \/ Close
      PROVE  /\ RowSound(i)'
             /\ reservation[i] = "UNKNOWN" => reservation'[i] # "RELEASED"
             /\ status'[i] = "READY" => status[i] = "READY" \/ CreateExit(i)
  <2>1. reservation'[i] \in {"UNKNOWN", "RELEASED"} =>
          \/ reservation[i] = reservation'[i]
          \/ reservation[i] = "OPEN" /\ reservation'[i] = "RELEASED"
    BY <1>1, <1>5 DEF Close, Typed, TypeOK, RowsTypeOK
  <2> QED
    BY <1>1, <1>5, <2>1, RowRests
<1> QED
  BY <1>2, <1>3, <1>4, <1>5, RowSteps

LEMMA KnowledgeStep == KnowledgeInv /\ [Next]_vars => KnowledgeInv'
<1> SUFFICES ASSUME KnowledgeInv, [Next]_vars PROVE KnowledgeInv'
  OBVIOUS
<1>1. PostInv' /\ Typed'
  BY NextPosts DEF KnowledgeInv, PostInv
<1>2. \A e \in Executors : CallSound(e)'
  BY <1>1, CallSoundStep
<1>3. \A i \in Intents : RowSound(i)' /\ VenueSound(i)'
  BY <1>1, RowSoundStep, VenueSoundStep
<1> QED
  BY <1>1, <1>2, <1>3 DEF KnowledgeInv

LEMMA KnowledgeInit == Init => KnowledgeInv
<1> SUFFICES ASSUME Init PROVE KnowledgeInv
  OBVIOUS
<1>1. PostInv
  BY InitTypes DEF Init, PostInv, DispatchFirst, OneSender, AtMostOnePost, Sends, Idle
<1>2. \A e \in Executors : CallSound(e)
  BY DEF Init, CallSound, Idle
<1>3. \A i \in Intents : VenueSound(i)
  BY DEF Init, FactsInit, VenueSound
<1>4. \A i \in Intents : RowSound(i)
  BY DEF Init, RowsInit, FactsInit, RowSound, NoOrder, VenueFills
<1> QED
  BY <1>1, <1>2, <1>3, <1>4 DEF KnowledgeInv

\* UNKNOWN risk is released only on the venue's word.  Here even more holds: nothing the code does
\* releases it, since a row that is listed as cancelled is bound to no intent.
THEOREM UnknownRiskHolds == Spec => UnknownRiskNeedsProof
<1>1. KnowledgeInv /\ [Next]_vars =>
        [\A i \in Intents : reservation[i] = "UNKNOWN" /\ reservation'[i] = "RELEASED"
                               => venue[i] = "CANCELLED"]_vars
  <2> SUFFICES ASSUME KnowledgeInv, [Next]_vars
               PROVE  \A i \in Intents : reservation[i] = "UNKNOWN" => reservation'[i] # "RELEASED"
    OBVIOUS
  <2>1. Typed'
    BY NextPosts DEF KnowledgeInv, PostInv
  <2> QED
    BY <2>1, RowSoundStep
<1> QED
  BY <1>1, KnowledgeInit, KnowledgeStep, PTL DEF Spec, UnknownRiskNeedsProof

-----------------------------------------------------------------------------
(***************************************************************************)
(* What cancellation means.  An intent is cancelled before it was          *)
(* dispatched, or after its order was closed at the venue with part of its *)
(* amount: release_unfilled_intent takes PARTIALLY_FILLED without a known  *)
(* fill, which only record_freqtrade_order writes, for an order that is    *)
(* over.  Only the entry's order can end with part of its amount.          *)
(***************************************************************************)
RowClear(i) ==
    /\ i # Initial => venue[i] \notin {"PARTIAL", "CUT"}
    /\ status[i] = "PARTIALLY_FILLED" /\ fills[i] = 0 => ClosedPartly(i)
    /\ order[i].status = "CANCELLED" => ClosedPartly(i)
    /\ status[i] = "CANCELLED" => dispatch[i] = None \/ ClosedPartly(i)

ClearInv == KnowledgeInv /\ \A i \in Intents : RowClear(i)

\* An order that was closed with part of its amount stays so; exits never are.
LEMMA VenueClearStep ==
    ASSUME ClearInv, Typed', [Next]_vars, NEW i \in Intents
    PROVE  /\ ClosedPartly(i) => ClosedPartly(i)'
           /\ i # Initial => venue'[i] \notin {"PARTIAL", "CUT"}
<1>1. /\ venue \in [Intents -> VenueStatus] /\ RowClear(i)
      /\ Earlier(venue[i], venue'[i])
  BY VenueStep DEF ClearInv, KnowledgeInv, PostInv, Typed, TypeOK, FactsTypeOK
<1>2. ClosedPartly(i) => ClosedPartly(i)'
  BY <1>1, EarlierFacts DEF ClosedPartly, VenueFills
<1>3. ASSUME NEW e \in Executors, Post(e), i # Initial
      PROVE  venue'[i] \notin {"PARTIAL", "CUT"}
  BY <1>1, <1>3 DEF Post, VenueBecomes, RowClear
<1>4. ASSUME NEW j \in Intents, VenueAccepts(j) \/ VenueExecutes(j) \/ VenueCancels(j), i # Initial
      PROVE  venue'[i] \notin {"PARTIAL", "CUT"}
  BY <1>1, <1>4 DEF VenueAccepts, VenueExecutes, VenueCancels, VenueBecomes, RowClear
<1> QED
  BY <1>1, <1>2, <1>3, <1>4, VenueMoves DEF RowClear

\* Part of the amount, found or listed, is the part an order was closed with.
LEMMA PartOfAmount ==
    ASSUME NEW s \in VenueFills
    PROVE  Filled(s) # Full <=> s = "PARTIAL"
BY DEF VenueFills, Filled, Full

\* A snapshot cancels only what was released after it was closed with part of its amount.
LEMMA RowClearStored ==
    ASSUME ClearInv, Typed', [Next]_vars, StoreSnapshot, dispatch' = dispatch, NEW i \in Intents
    PROVE  /\ RowClear(i)'
           /\ dispatch[i] = None => status'[i] = status[i]
           /\ reservation'[i] = "RELEASED" => reservation[i] = "RELEASED" \/ ClosedPartly(i)'
<1>1. PICK recent \in BOOLEAN :
        LET after == [j \in Intents |-> Settled(snap, j, recent)]
        IN  /\ status' = [j \in Intents |-> IF after[j].outcome = "KEEP" THEN status[j]
                                                                 ELSE after[j].outcome]
            /\ reservation' = [j \in Intents |-> ReservationAfter(j, after[j])]
            /\ order' = [j \in Intents |-> Covered(snap, j, after[j].order, after[j].filled)]
            /\ fills' = [j \in Intents |-> after[j].filled]
  BY DEF StoreSnapshot
<1> DEFINE o == BoundOrder(snap, i, recent)
           n == FillsAfter(snap, i, recent)
           r == Settled(snap, i, recent)
<1>2. /\ status'[i] = IF r.outcome = "KEEP" THEN status[i] ELSE r.outcome
      /\ reservation'[i] = ReservationAfter(i, r)
      /\ order'[i] = Covered(snap, i, r.order, r.filled)
      /\ fills'[i] = r.filled
  BY <1>1
<1>3. /\ Typed /\ RowSound(i) /\ RowClear(i) /\ VenueSound(i) /\ snap # None
      /\ ClosedPartly(i) => ClosedPartly(i)'
      /\ i # Initial => venue'[i] \notin {"PARTIAL", "CUT"}
  BY VenueClearStep DEF ClearInv, KnowledgeInv, PostInv, StoreSnapshot
<1>4. /\ order[i] = NoOrder => o = NoOrder
      /\ o.status = "CANCELLED" => ClosedPartly(i)
      /\ n = 0 => fills[i] = 0
  BY <1>3, BoundSound DEF RowClear
<1>5. /\ r.filled = n /\ n \in 0..Full
      /\ o = NoOrder => r.outcome = "KEEP"
      /\ r.outcome = "FILLED" => n > 0
      /\ r.outcome = "PARTIALLY_FILLED" => n > 0
      /\ r.outcome = "CANCELLED" => o.status = "CANCELLED"
      /\ order'[i].status = "CANCELLED" => o.status = "CANCELLED"
  BY <1>2, <1>3, SettledFacts
<1>6. r.outcome \in {"UNKNOWN", "FILLED", "CANCELLED", "PARTIALLY_FILLED", "KEEP"}
  BY <1>3, SettledType DEF Results, Typed, TypeOK
<1> HIDE DEF o, n, r
<1>7. dispatch[i] = None => status'[i] = status[i]
  BY <1>2, <1>3, <1>4, <1>5 DEF RowSound
<1>8. reservation'[i] = "RELEASED" => reservation[i] = "RELEASED" \/ ClosedPartly(i)'
  <2>1. r.outcome \in {"FILLED", "PARTIALLY_FILLED"} => r.filled > 0
    BY <1>5
  <2> QED
    BY <1>2, <1>3, <1>4, <1>5, <1>6, <2>1 DEF ReservationAfter
<1>9. status'[i] = "PARTIALLY_FILLED" /\ fills'[i] = 0 => ClosedPartly(i)'
  BY <1>2, <1>3, <1>4, <1>5 DEF RowClear
<1>10. status'[i] = "CANCELLED" => dispatch'[i] = None \/ ClosedPartly(i)'
  BY <1>2, <1>3, <1>4, <1>5 DEF RowClear
<1>11. order'[i].status = "CANCELLED" => ClosedPartly(i)'
  BY <1>3, <1>4, <1>5
<1> QED
  BY <1>3, <1>7, <1>8, <1>9, <1>10, <1>11 DEF RowClear

LEMMA RowClearCalls ==
    ASSUME ClearInv, Typed', [Next]_vars, NEW e \in Executors,
           StartNew(e) \/ RecordOrder(e) \/ RecordUnknown(e), NEW i \in Intents
    PROVE  /\ RowClear(i)'
           /\ status[i] = "CANCELLED" /\ dispatch[i] = None =>
                status'[i] = "CANCELLED" /\ dispatch'[i] = None
           /\ reservation'[i] = "RELEASED" => reservation[i] = "RELEASED"
<1> DEFINE j == exec[e].intent
<1>1. /\ Typed /\ TypeOK /\ RowClear(i) /\ RowSound(i) /\ CallSound(e) /\ j \in Intents
      /\ ClosedPartly(i) => ClosedPartly(i)'
      /\ i # Initial => venue'[i] \notin {"PARTIAL", "CUT"}
  BY VenueClearStep
     DEF ClearInv, KnowledgeInv, PostInv, Typed, CallsHaveIntents, StartNew, RecordOrder,
         RecordUnknown
<1>2. /\ status \in [Intents -> IntentStatus] /\ order \in [Intents -> OrderRow]
      /\ reservation \in [Intents -> ReservationStatus]
      /\ dispatch \in [Intents -> Dispatches \cup {None}]
  BY <1>1 DEF TypeOK, RowsTypeOK
<1>3. /\ fills' = fills
      /\ i # j => /\ status'[i] = status[i] /\ order'[i] = order[i]
                  /\ dispatch'[i] = dispatch[i] /\ reservation'[i] = reservation[i]
  BY <1>2 DEF StartNew, RecordOrder, RecordUnknown, SetStatus, Reserve, orderVars, dispatchVars
<1>4. CASE i # j
  BY <1>1, <1>3, <1>4 DEF RowClear
<1>5. CASE i = j /\ StartNew(e)
  <2>1. /\ status[i] = "READY" /\ status'[i] = "DISPATCHING" /\ order' = order
        /\ reservation' = reservation
    BY <1>1, <1>2, <1>5 DEF StartNew, MayStart, SetStatus, orderVars
  <2> QED
    BY <1>1, <1>3, <2>1 DEF RowClear
<1>6. CASE i = j /\ RecordOrder(e)
  <2>1. /\ venue[i] \in VenueFills /\ exec[e].found = Filled(venue[i])
        /\ dispatch[i] # None /\ dispatch' = dispatch
    BY <1>1, <1>6 DEF RecordOrder, CallSound, dispatchVars
  <2>2. /\ status'[i] = IF exec[e].found = Full THEN "FILLED" ELSE "PARTIALLY_FILLED"
        /\ order'[i].status = status'[i]
    BY <1>2, <1>6 DEF RecordOrder, SetStatus
  <2>3. reservation'[i] = "RELEASED" => reservation[i] = "RELEASED"
    BY <1>2, <1>6 DEF RecordOrder, Reserve
  <2>4. status'[i] = "PARTIALLY_FILLED" => ClosedPartly(i)
    BY <2>1, <2>2, PartOfAmount DEF ClosedPartly
  <2> QED
    BY <1>1, <1>3, <2>1, <2>2, <2>3, <2>4 DEF RowClear
<1>7. CASE i = j /\ RecordUnknown(e)
  <2>1. dispatch[i] # None /\ dispatch' = dispatch
    BY <1>1, <1>7 DEF RecordUnknown, CallSound, dispatchVars
  <2>2. /\ status'[i] = "UNKNOWN"
        /\ order'[i].status \in {order[i].status, "UNKNOWN"}
        /\ reservation'[i] = "RELEASED" => reservation[i] = "RELEASED"
    BY <1>2, <1>7 DEF RecordUnknown, SetStatus, Reserve, OrderRow
  <2> QED
    BY <1>1, <1>3, <2>1, <2>2 DEF RowClear
<1> QED
  BY <1>4, <1>5, <1>6, <1>7

LEMMA RowClearRows ==
    ASSUME ClearInv, Typed', [Next]_vars, NEW j \in Intents, NEW i \in Intents,
           \/ (CreateExit(j) \/ MarkUnknown(j) \/ Release(j)) /\ UNCHANGED <<venue, dispatch>>
           \/ RpcCancel(j)
    PROVE  /\ RowClear(i)'
           /\ status[i] = "CANCELLED" /\ dispatch[i] = None =>
                status'[i] = "CANCELLED" /\ dispatch'[i] = None
           /\ reservation'[i] = "RELEASED" => reservation[i] = "RELEASED" \/ Release(i)
<1>1. /\ Typed /\ RowSound(i) /\ RowClear(i)
  BY DEF ClearInv, KnowledgeInv, PostInv
<1>2. /\ status \in [Intents -> IntentStatus] /\ order \in [Intents -> OrderRow]
      /\ reservation \in [Intents -> ReservationStatus]
  BY <1>1 DEF Typed, TypeOK, RowsTypeOK
<1>3. /\ fills' = fills /\ venue' = venue /\ dispatch' = dispatch
      /\ ClosedPartly(i)' = ClosedPartly(i)
  BY DEF CreateExit, MarkUnknown, Release, RpcCancel, orderVars, dispatchVars, ClosedPartly
<1>4. CASE i # j
  <2>1. status'[i] = status[i] /\ order'[i] = order[i] /\ reservation'[i] = reservation[i]
    BY <1>2, <1>4
       DEF CreateExit, MarkUnknown, Release, RpcCancel, SetStatus, Reserve, orderVars
  <2> QED
    BY <1>1, <1>3, <2>1 DEF RowClear
<1>5. CASE i = j /\ CreateExit(j)
  <2>1. /\ status[i] = "NONE" /\ status'[i] = "READY"
        /\ order' = order /\ reservation' = reservation
    BY <1>2, <1>5 DEF CreateExit, SetStatus, orderVars
  <2> QED
    BY <1>1, <1>3, <1>5, <2>1 DEF RowClear
<1>6. CASE i = j /\ (MarkUnknown(j) \/ RpcCancel(j))
  <2>1. ~(status[i] = "CANCELLED" /\ dispatch[i] = None)
    BY <1>1, <1>6 DEF MarkUnknown, RpcCancel, Active
  <2>2. /\ status'[i] = "UNKNOWN"
        /\ reservation'[i] = "RELEASED" => reservation[i] = "RELEASED"
        /\ order'[i].status \in {order[i].status, "UNKNOWN"}
    BY <1>2, <1>6
       DEF MarkUnknown, RpcCancel, SetStatus, Reserve, ReservationStatus, OrderRow, orderVars
  <2> QED
    BY <1>1, <1>3, <2>1, <2>2 DEF RowClear
<1>7. CASE i = j /\ Release(j)
  <2>1. /\ status[i] \in {"READY", "PARTIALLY_FILLED"} /\ fills[i] = 0
        /\ status'[i] = "CANCELLED"
    BY <1>1, <1>2, <1>7 DEF Release, Releasable, SetStatus
  <2>2. status[i] = "READY" => dispatch[i] = None /\ order[i] = NoOrder
    BY <1>1, <2>1 DEF RowSound
  <2>3. order[i] = NoOrder => order'[i] = NoOrder
    BY <1>7 DEF Release
  <2> QED
    BY <1>1, <1>3, <1>7, <2>1, <2>2, <2>3 DEF RowClear, NoOrder
<1> QED
  BY <1>4, <1>5, <1>6, <1>7

LEMMA RowClearStep ==
    ASSUME ClearInv, Typed', [Next]_vars, NEW i \in Intents
    PROVE  /\ RowClear(i)'
           /\ status[i] = "CANCELLED" /\ dispatch[i] = None =>
                status'[i] = "CANCELLED" /\ dispatch'[i] = None
           /\ reservation'[i] = "RELEASED" =>
                reservation[i] = "RELEASED" \/ Release(i) \/ Close \/ ClosedPartly(i)'
<1>1. /\ RowClear(i) /\ (ClosedPartly(i) => ClosedPartly(i)')
      /\ i # Initial => venue'[i] \notin {"PARTIAL", "CUT"}
  BY VenueClearStep DEF ClearInv
<1>2. ASSUME UNCHANGED <<status, order, fills, dispatch>>, reservation' = reservation \/ Close
      PROVE  /\ RowClear(i)'
             /\ status[i] = "CANCELLED" /\ dispatch[i] = None =>
                  status'[i] = "CANCELLED" /\ dispatch'[i] = None
             /\ reservation'[i] = "RELEASED" => reservation[i] = "RELEASED" \/ Close
  BY <1>1, <1>2 DEF RowClear
<1> QED
  BY <1>2, RowSteps, RowClearStored, RowClearCalls, RowClearRows

LEMMA ClearStep == ClearInv /\ [Next]_vars => ClearInv'
<1> SUFFICES ASSUME ClearInv, [Next]_vars PROVE ClearInv'
  OBVIOUS
<1>1. KnowledgeInv' /\ Typed'
  BY KnowledgeStep DEF ClearInv, KnowledgeInv, PostInv
<1>2. \A i \in Intents : RowClear(i)'
  BY <1>1, RowClearStep
<1> QED
  BY <1>1, <1>2 DEF ClearInv

LEMMA ClearInit == Init => ClearInv
<1> SUFFICES ASSUME Init PROVE ClearInv
  OBVIOUS
<1>1. \A i \in Intents : RowClear(i)
  BY DEF Init, RowsInit, FactsInit, RowClear, NoOrder
<1> QED
  BY <1>1, KnowledgeInit DEF ClearInv

\* An intent that was not dispatched has nothing at the venue, and nobody may send for it.
LEMMA UndispatchedRests ==
    ASSUME KnowledgeInv, NEW i \in Intents, dispatch[i] = None
    PROVE  venue[i] = "NONE" /\ ~AtVenue(i)
<1>1. posts[i] = 0 /\ ~MayStillPost(i)
  BY DEF KnowledgeInv, PostInv, DispatchFirst, Sends, MayStillPost
<1>2. venue[i] = "NONE"
  BY <1>1 DEF KnowledgeInv, VenueSound
<1> QED
  BY <1>1, <1>2 DEF AtVenue

\* An order that is over at the venue was sent by a call that may not send again.
LEMMA ClosedRests ==
    ASSUME KnowledgeInv, NEW i \in Intents, Filled(venue[i]) > 0 \/ ClosedPartly(i)
    PROVE  dispatch[i] # None /\ ~AtVenue(i) /\ Filled(venue[i]) > 0
<1>1. venue[i] \notin {"NONE", "INFLIGHT", "OPEN"} /\ Filled(venue[i]) > 0
  BY DEF Filled, ClosedPartly, Full
<1>2. posts[i] # 0 /\ dispatch[i] # None
  BY <1>1, UndispatchedRests DEF KnowledgeInv, VenueSound
<1>3. ~MayStillPost(i)
  BY <1>2 DEF KnowledgeInv, PostInv, OneSender, Sends, MayStillPost
<1> QED
  BY <1>1, <1>2, <1>3 DEF AtVenue

\* An intent that is recorded as cancelled has no order at the venue and never gets one:
\* release_unfilled_intent and start_freqtrade_dispatch exclude each other, and of what was
\* dispatched only an order that is over can be released.
THEOREM CancelledHolds == Spec => []CancelledIsUnfilled
<1>1. ClearInv => CancelledIsUnfilled
  <2> SUFFICES ASSUME ClearInv, NEW i \in Intents, status[i] = "CANCELLED"
               PROVE  ~AtVenue(i) /\ (Filled(venue[i]) = 0 \/ ClosedPartly(i))
    BY DEF CancelledIsUnfilled
  <2>1. CASE dispatch[i] = None
    BY <2>1, UndispatchedRests DEF ClearInv, Filled
  <2>2. CASE ClosedPartly(i)
    BY <2>2, ClosedRests DEF ClearInv
  <2> QED
    BY <2>1, <2>2 DEF ClearInv, RowClear
<1> QED
  BY <1>1, ClearInit, ClearStep, PTL DEF Spec

-----------------------------------------------------------------------------
(***************************************************************************)
(* Exits.  The position fact may be stale, but snapshots are stored in the *)
(* order they are read: once one has shown the entry filled, a flat one    *)
(* proves an exit.  Nothing but a fact that shows the entry creates an     *)
(* exit, so whoever closes a campaign on a flat fact is right.  And of all *)
(* exits one is ever dispatched: another is created only when the last is  *)
(* settled, and an exit that is prepared for the first time must find the  *)
(* position open.                                                          *)
(***************************************************************************)
ExitFilled == \E x \in Exits : Filled(venue[x]) > 0

EntryShown ==
    /\ Filled(venue[Initial]) > 0
    /\ snap # None => Filled(snap.venue[Initial]) > 0

ExitsFollowEntry ==
    /\ \A x \in Exits : status[x] # "NONE" => latestExit # None
    /\ facts.qty > 0 \/ latestExit # None => EntryShown
    /\ latestExit # None => facts.qty > 0 \/ ExitFilled

ReadyExitIsNext ==
    \A x, y \in Exits : x # y /\ status[x] = "READY" =>
        status[y] # "READY" /\ (dispatch[y] # None => Filled(venue[y]) > 0)

OneExitDispatched == \A x, y \in Exits : dispatch[x] # None /\ dispatch[y] # None => x = y

PreparedExitIsFirst ==
    \A e \in Executors, x \in Exits :
        exec[e].pc = "prepared" /\ exec[e].intent = x /\ status[x] = "READY" =>
            \A y \in Exits : dispatch[y] = None

\* The entry was cancelled before it was dispatched.
NeverSent == status[Initial] = "CANCELLED" /\ dispatch[Initial] = None

\* The trade is over, never began, or its entry was closed with part of its amount.
Over == ExitFilled \/ NeverSent \/ ClosedPartly(Initial)

ReleasedWhenOver ==
    /\ reservation[Initial] # "NONE"
    /\ reservation[Initial] = "RELEASED" => Over
    /\ campaign = "CLOSED" => ExitFilled \/ (latestExit = None /\ Over)

ExitInv ==
    /\ ClearInv
    /\ ExitsFollowEntry /\ ReadyExitIsNext /\ OneExitDispatched /\ PreparedExitIsFirst
    /\ ReleasedWhenOver

LEMMA ExitFilledStays ==
    ASSUME KnowledgeInv, Typed', [Next]_vars
    PROVE  /\ \A i \in Intents : Filled(venue[i]) > 0 => Filled(venue'[i]) > 0
           /\ ExitFilled => ExitFilled'
<1>1. \A i \in Intents : Filled(venue[i]) > 0 => venue'[i] = venue[i]
  BY VenueStep, EarlierFacts
<1> QED
  BY <1>1 DEF ExitFilled, Intents

\* A flat position after the entry was filled is an exit that was filled.
LEMMA FlatMeansExit ==
    ASSUME NEW v
    PROVE  /\ Position(v) > 0 => /\ Filled(v[Initial]) > 0
                                 /\ \A x \in Exits : ~(Filled(v[x]) > 0)
           /\ Position(v) = 0 /\ Filled(v[Initial]) > 0 => \E x \in Exits : Filled(v[x]) > 0
BY DEF Position

\* An exit's row appears with CreateExit.
LEMMA RowAppears ==
    ASSUME KnowledgeInv, Typed', [Next]_vars, NEW i \in Intents, status[i] = "NONE",
           status'[i] # "NONE"
    PROVE  CreateExit(i)
<1>1. /\ Typed /\ RowSound(i) /\ VenueSound(i) /\ status \in [Intents -> IntentStatus]
      /\ dispatch[i] = None /\ order[i] = NoOrder
  BY DEF KnowledgeInv, PostInv, Typed, TypeOK, RowsTypeOK, RowSound
<1>2. CASE StoreSnapshot
  <2>1. PICK recent \in BOOLEAN :
          status' = [j \in Intents |-> IF Settled(snap, j, recent).outcome = "KEEP" THEN status[j]
                                       ELSE Settled(snap, j, recent).outcome]
    BY <1>2 DEF StoreSnapshot
  <2>2. BoundOrder(snap, i, recent) = NoOrder
    BY <1>1, <1>2, BoundSound DEF StoreSnapshot
  <2>3. Settled(snap, i, recent).outcome = "KEEP"
    BY <1>1, <2>2, SettledFacts
  <2> QED
    BY <2>1, <2>3
<1>3. ASSUME NEW e \in Executors, StartNew(e) \/ RecordOrder(e) \/ RecordUnknown(e)
      PROVE  FALSE
  <2>1. exec[e].intent \in Intents /\ CallSound(e)
    BY <1>1, <1>3
       DEF StartNew, RecordOrder, RecordUnknown, Typed, CallsHaveIntents, KnowledgeInv
  <2>2. exec[e].intent # i
    BY <1>1, <1>3, <2>1 DEF StartNew, RecordOrder, RecordUnknown, MayStart, CallSound
  <2> QED
    BY <1>1, <1>3, <2>1, <2>2 DEF StartNew, RecordOrder, RecordUnknown, SetStatus
<1>4. ASSUME NEW j \in Intents, CreateExit(j) \/ MarkUnknown(j) \/ Release(j) \/ RpcCancel(j)
      PROVE  CreateExit(i)
  BY <1>1, <1>4 DEF CreateExit, MarkUnknown, Release, RpcCancel, SetStatus, Active, Releasable
<1> QED
  BY <1>2, <1>3, <1>4, RowSteps

LEMMA ExitsFollowEntryStep ==
    ASSUME ExitInv, Typed', [Next]_vars
    PROVE  ExitsFollowEntry'
<1>1. /\ KnowledgeInv /\ ExitsFollowEntry
      /\ \A i \in Intents : VenueSound(i)
      /\ Initial \in Intents /\ Exits \subseteq Intents
  BY DEF ExitInv, ClearInv, KnowledgeInv, Intents
<1>2. /\ Filled(venue[Initial]) > 0 => Filled(venue'[Initial]) > 0
      /\ ExitFilled => ExitFilled'
  BY <1>1, ExitFilledStays
<1>3. snap' \in {snap, None} \/ snap'.venue = venue
  <2>1. CASE ReadSnapshot
    BY <2>1 DEF ReadSnapshot
  <2> QED
    BY <2>1, SnapshotSteps
<1>4. EntryShown => EntryShown'
  BY <1>2, <1>3 DEF EntryShown
<1>5. \/ StoreSnapshot /\ latestExit' = latestExit
      \/ \E x \in Intents : CreateExit(x)
      \/ facts'.qty = facts.qty /\ latestExit' = latestExit
  <2>1. facts \in [qty : 0..Full, fresh : BOOLEAN]
    BY <1>1 DEF KnowledgeInv, PostInv, Typed, TypeOK, RowsTypeOK
  <2> QED
    BY <2>1
       DEF Next, Executor, Take, Prepare, StartNew, StartReplay, Post, Find, TimeOut, RecordOrder,
           RecordUnknown, Refused, Crash, Operator, Facts, Venue, Clock, AccountChanges, RpcCancel,
           ReadSnapshot, StoreSnapshot, RefuseSnapshot, VenueAccepts, VenueExecutes, VenueCancels,
           MarkUnknown, Release, Reconcile, Close, StopNewRisk, FactsAge, vars, rowVars,
           intentVars, factVars
<1>6. ASSUME NEW x \in Intents, CreateExit(x)
      PROVE  facts' = facts /\ facts.qty > 0 /\ latestExit' # None
  BY <1>6, IntentsAssumption DEF CreateExit
<1>7. \A x \in Exits : status'[x] # "NONE" => latestExit' # None
  <2> SUFFICES ASSUME NEW x \in Exits, status'[x] # "NONE" PROVE latestExit' # None
    OBVIOUS
  <2>1. CASE status[x] = "NONE"
    BY <1>1, <1>6, <2>1, RowAppears
  <2>2. CASE status[x] # "NONE"
    BY <1>1, <1>5, <1>6, <2>2 DEF ExitsFollowEntry
  <2> QED
    BY <2>1, <2>2
<1>8. CASE StoreSnapshot /\ latestExit' = latestExit
  <2>1. facts'.qty = Position(snap.venue) /\ snap' = None /\ snap # None /\ venue' = venue
    BY <1>8 DEF StoreSnapshot, venueVars
  <2>2. \A i \in Intents : Filled(snap.venue[i]) > 0 => Filled(venue[i]) > 0
    BY <1>1, <2>1, EarlierFacts DEF VenueSound
  <2>3. facts'.qty > 0 => EntryShown'
    BY <1>1, <2>1, <2>2, FlatMeansExit DEF EntryShown
  <2>4. latestExit # None => facts'.qty > 0 \/ ExitFilled
    <3>1. Position(snap.venue) \in 0..Full
      BY PositionType
    <3>2. latestExit # None => Filled(snap.venue[Initial]) > 0
      BY <1>1, <2>1 DEF ExitsFollowEntry, EntryShown
    <3>3. Position(snap.venue) = 0 /\ Filled(snap.venue[Initial]) > 0 => ExitFilled
      BY <1>1, <2>2, FlatMeansExit DEF ExitFilled
    <3> QED
      BY <2>1, <3>1, <3>2, <3>3 DEF Full
  <2> QED
    BY <1>1, <1>2, <1>4, <1>7, <1>8, <2>3, <2>4 DEF ExitsFollowEntry
<1>9. ASSUME NEW x \in Intents, CreateExit(x)
      PROVE  ExitsFollowEntry'
  BY <1>1, <1>4, <1>6, <1>7, <1>9 DEF ExitsFollowEntry
<1>10. CASE facts'.qty = facts.qty /\ latestExit' = latestExit
  BY <1>1, <1>2, <1>4, <1>7, <1>10 DEF ExitsFollowEntry
<1> QED
  BY <1>5, <1>8, <1>9, <1>10

\* What becomes READY, and what is dispatched, while an exit is READY.
LEMMA ReadyExits ==
    ASSUME ExitInv, Typed', [Next]_vars, NEW x \in Exits, status[x] = "READY"
    PROVE  /\ dispatch[x] = None
           /\ \A y \in Exits : status'[y] = "READY" => status[y] = "READY"
           /\ \A y \in Exits \ {x} : dispatch'[y] # None => dispatch[y] # None
<1>1. KnowledgeInv /\ Typed /\ x \in Intents /\ Exits \subseteq Intents /\ ReadyExitIsNext
  BY DEF ExitInv, ClearInv, KnowledgeInv, PostInv, Intents
<1>2. dispatch[x] = None
  BY <1>1 DEF KnowledgeInv, RowSound
<1>3. \A y \in Intents : ~CreateExit(y)
  BY <1>1 DEF CreateExit, NoActiveIntent, Active
<1>4. \A y \in Exits : status'[y] = "READY" => status[y] = "READY"
  BY <1>1, <1>3, RowSoundStep
<1>5. ASSUME NEW y \in Exits \ {x}, dispatch'[y] # None
      PROVE  dispatch[y] # None
  <2>1. ASSUME NEW e \in Executors, StartNew(e), exec[e].intent = y
        PROVE  FALSE
    <3>1. status[y] = "READY"
      BY <2>1 DEF StartNew, MayStart
    <3> QED
      BY <1>1, <1>5, <3>1 DEF ReadyExitIsNext
  <2> QED
    BY <1>1, <1>5, <2>1, DispatchStep
<1> QED
  BY <1>2, <1>4, <1>5

LEMMA ReadyExitStep ==
    ASSUME ExitInv, Typed', [Next]_vars
    PROVE  ReadyExitIsNext'
<1> SUFFICES ASSUME NEW x \in Exits, NEW y \in Exits, x # y, status'[x] = "READY"
             PROVE  status'[y] # "READY" /\ (dispatch'[y] # None => Filled(venue'[y]) > 0)
  BY DEF ReadyExitIsNext
<1>1. /\ KnowledgeInv /\ Typed /\ ReadyExitIsNext
      /\ x \in Intents /\ y \in Intents /\ RowSound(y) /\ RowClear(y)
  BY DEF ExitInv, ClearInv, KnowledgeInv, PostInv, Intents
<1>2. Filled(venue[y]) > 0 => Filled(venue'[y]) > 0
  BY <1>1, ExitFilledStays
<1>3. CASE status[x] = "READY"
  BY <1>1, <1>2, <1>3, ReadyExits DEF ReadyExitIsNext
<1>4. CASE CreateExit(x)
  <2>1. status[y] \notin Active /\ status'[y] = status[y]
    BY <1>1, <1>4 DEF CreateExit, NoActiveIntent, SetStatus, Typed, TypeOK, RowsTypeOK
  <2>2. dispatch'[y] # None => dispatch[y] # None
    <3>1. ASSUME NEW e \in Executors, StartNew(e), exec[e].intent = y
          PROVE  FALSE
      BY <2>1, <3>1 DEF StartNew, MayStart, Active
    <3> QED
      BY <1>1, <3>1, DispatchStep
  <2>3. dispatch[y] # None => status[y] = "FILLED"
    <3>1. status[y] \in IntentStatus /\ y # Initial
      BY <1>1, IntentsAssumption DEF Typed, TypeOK, RowsTypeOK
    <3> QED
      BY <1>1, <2>1, <3>1 DEF RowSound, RowClear, IntentStatus, Active, ClosedPartly
  <2> QED
    BY <1>1, <1>2, <2>1, <2>2, <2>3 DEF RowSound, Active
<1> QED
  BY <1>1, <1>3, <1>4, RowSoundStep

LEMMA OneExitStep ==
    ASSUME ExitInv, Typed', [Next]_vars
    PROVE  OneExitDispatched'
<1>1. /\ KnowledgeInv /\ Typed /\ OneExitDispatched /\ PreparedExitIsFirst
      /\ Exits \subseteq Intents
  BY DEF ExitInv, ClearInv, KnowledgeInv, PostInv, Intents
<1>2. ASSUME NEW x \in Exits, NEW y \in Exits, dispatch[x] = None, dispatch'[x] # None,
             dispatch'[y] # None
      PROVE  x = y
  <2>1. PICK e \in Executors : StartNew(e) /\ exec[e].intent = x
    BY <1>1, <1>2, DispatchStep
  <2>2. status[x] = "READY" /\ exec[e].pc = "prepared"
    BY <2>1 DEF StartNew, MayStart
  <2>3. dispatch[y] = None
    BY <1>1, <2>1, <2>2 DEF PreparedExitIsFirst
  <2>4. dispatch' = [dispatch EXCEPT ![x] = [owner |-> OwnerOf[e], version |-> version]]
    BY <2>1 DEF StartNew
  <2> QED
    BY <1>1, <1>2, <2>3, <2>4 DEF Typed, TypeOK
<1> QED
  BY <1>1, <1>2 DEF OneExitDispatched

LEMMA PreparedExitStep ==
    ASSUME ExitInv, Typed', [Next]_vars
    PROVE  PreparedExitIsFirst'
<1> SUFFICES ASSUME NEW e \in Executors, NEW x \in Exits, NEW y \in Exits,
                    exec'[e].pc = "prepared", exec'[e].intent = x, status'[x] = "READY"
             PROVE  dispatch'[y] = None
  BY DEF PreparedExitIsFirst
<1>1. /\ KnowledgeInv /\ Typed /\ PreparedExitIsFirst /\ ReadyExitIsNext
      /\ x \in Intents /\ y \in Intents /\ CallSound(e)
      /\ exec \in [Executors -> Calls] /\ exec[e] \in Calls
  BY DEF ExitInv, ClearInv, KnowledgeInv, PostInv, Intents, Typed, TypeOK, Calls
<1>2. \/ exec[e].pc = "prepared" /\ exec[e].intent = x
      \/ Prepare(e) /\ exec[e].intent = x
  <2>1. ASSUME NEW f \in Executors, Executor(f) \/ Crash(f), f # e
        PROVE  exec'[e] = exec[e]
    BY <1>1, <2>1
       DEF Executor, Take, Prepare, StartNew, StartReplay, Post, Find, TimeOut, RecordOrder,
           RecordUnknown, Refused, Crash, Finish, Goto
  <2>2. CASE Prepare(e)
    BY <1>1, <2>2 DEF Prepare, Calls
  <2>3. ASSUME Executor(e) \/ Crash(e), ~Prepare(e)
        PROVE  FALSE
    <3>1. Finish(e) => exec'[e].pc = "idle"
      BY <1>1 DEF Finish, Idle
    <3>2. \A pc \in {"send", "query", "unknown"} : Goto(e, pc) => exec'[e].pc = pc
      BY <1>1 DEF Goto, Calls
    <3>3. ASSUME NEW i \in Intents, Take(e, i)
          PROVE  exec'[e].pc = "taken"
      BY <1>1, <3>3 DEF Take, Idle
    <3>4. Find(e) => exec'[e].pc = "record"
      BY <1>1 DEF Find, Calls
    <3> QED
      BY <2>3, <3>1, <3>2, <3>3, <3>4
         DEF Executor, StartNew, StartReplay, Post, TimeOut, RecordOrder, RecordUnknown, Refused,
             Crash
  <2>4. (\E f \in Executors : Executor(f) \/ Crash(f)) \/ exec' = exec
    BY DEF Next, Operator, Facts, Venue, Clock, AccountChanges, RpcCancel, vars, execVars
  <2> QED
    BY <2>1, <2>2, <2>3, <2>4
<1>3. status[x] # "NONE"
  BY <1>1, <1>2 DEF CallSound, Prepare
<1>4. status[x] = "READY"
  BY <1>1, <1>3, RowSoundStep DEF CreateExit
<1>5. dispatch[y] = None
  <2>1. CASE exec[e].pc = "prepared" /\ exec[e].intent = x
    BY <1>1, <1>4, <2>1 DEF PreparedExitIsFirst
  <2>2. CASE Prepare(e) /\ exec[e].intent = x
    <3>1. dispatch[x] = None
      BY <1>4, ReadyExits
    <3>2. Position(venue) > 0
      BY <2>2, <3>1 DEF Prepare, MayPrepare
    <3>3. ~(Filled(venue[y]) > 0)
      BY <3>2, FlatMeansExit
    <3> QED
      BY <1>1, <1>4, <3>1, <3>3 DEF ReadyExitIsNext
  <2> QED
    BY <1>2, <2>1, <2>2
<1>6. CASE y # x
  BY <1>4, <1>5, <1>6, ReadyExits
<1>7. CASE y = x
  <2>1. RowSound(x)'
    BY <1>1, RowSoundStep
  <2> QED
    BY <1>7, <2>1 DEF RowSound
<1> QED
  BY <1>6, <1>7

-----------------------------------------------------------------------------
\* A snapshot closes no campaign.
LEMMA CampaignsAfterClosed ==
    ASSUME NEW results, "CLOSED" \in CampaignsAfter(results)
    PROVE  campaign = "CLOSED"
<1>1. \A c, i, r : CampaignAfter(c, i, r) = "CLOSED" => c = "CLOSED"
  BY DEF CampaignAfter
<1> QED
  BY <1>1 DEF CampaignsAfter

LEMMA ClosingSteps ==
    ASSUME [Next]_vars, campaign' = "CLOSED"
    PROVE  \/ campaign = "CLOSED" \/ Close
           \/ Release(Initial)
<1>1. CASE StoreSnapshot
  <2>1. \E results : campaign' \in CampaignsAfter(results)
    BY <1>1 DEF StoreSnapshot
  <2> QED
    BY <2>1, CampaignsAfterClosed
<1>2. ASSUME NEW i \in Intents, Release(i)
      PROVE  campaign = "CLOSED" \/ Release(Initial)
  BY <1>2 DEF Release, ClosesUnfilled
<1>3. \/ StoreSnapshot \/ Close \/ campaign' = campaign \/ campaign' # "CLOSED"
      \/ \E i \in Intents : Release(i)
  BY DEF Next, Executor, Take, Prepare, StartNew, StartReplay, Post, Find, TimeOut, RecordOrder,
         RecordUnknown, Refused, Crash, Operator, Facts, Venue, Clock, AccountChanges, RpcCancel,
         ReadSnapshot, RefuseSnapshot, VenueAccepts, VenueExecutes, VenueCancels, CreateExit,
         MarkUnknown, Reconcile, StopNewRisk, FactsAge, vars, rowVars, intentVars
<1> QED
  BY <1>1, <1>2, <1>3

\* Closing a campaign needs a flat fact.
LEMMA ClosingIsOver ==
    ASSUME ExitInv, Typed', [Next]_vars, campaign' = "CLOSED", campaign # "CLOSED"
    PROVE  /\ latestExit' = latestExit
           /\ ExitFilled \/ (latestExit = None /\ Over')
<1>1. /\ ClearInv /\ KnowledgeInv /\ Typed /\ ExitsFollowEntry
      /\ Initial \in Intents /\ ClearInv'
  BY ClearStep DEF ExitInv, ClearInv, KnowledgeInv, PostInv, Intents
<1>2. Close \/ Release(Initial)
  BY ClosingSteps
<1>3. facts.qty = 0 /\ latestExit' = latestExit
  BY <1>2 DEF Close, Release, ClosesUnfilled
<1>4. latestExit # None => ExitFilled
  BY <1>1, <1>3 DEF ExitsFollowEntry
<1>5. CASE Close
  BY <1>3, <1>4, <1>5 DEF Close
<1>6. CASE Release(Initial)
  <2>1. status'[Initial] = "CANCELLED"
    BY <1>1, <1>6 DEF Release, SetStatus, Typed, TypeOK, RowsTypeOK
  <2>2. Over'
    BY <1>1, <2>1 DEF Over, NeverSent, ClearInv, RowClear
  <2> QED
    BY <1>3, <1>4, <2>2
<1> QED
  BY <1>2, <1>5, <1>6

\* A campaign that stays closed gets no new exit.
LEMMA ClosedGetsNoExit ==
    ASSUME Typed, [Next]_vars, campaign = "CLOSED", campaign' = "CLOSED"
    PROVE  latestExit' = latestExit
BY DEF Next, Executor, Take, Prepare, StartNew, StartReplay, Post, Find, TimeOut, RecordOrder,
       RecordUnknown, Refused, Crash, Operator, Facts, Venue, Clock, AccountChanges, RpcCancel,
       ReadSnapshot, StoreSnapshot, RefuseSnapshot, VenueAccepts, VenueExecutes, VenueCancels,
       CreateExit, MarkUnknown, Release, Reconcile, Close, StopNewRisk, FactsAge, vars, rowVars,
       intentVars

LEMMA OverStep ==
    ASSUME ExitInv, Typed', [Next]_vars
    PROVE  ReleasedWhenOver'
<1>1. /\ ClearInv /\ KnowledgeInv /\ Typed /\ ReleasedWhenOver /\ ExitsFollowEntry
      /\ Initial \in Intents /\ ClearInv'
  BY ClearStep DEF ExitInv, ClearInv, KnowledgeInv, PostInv, Intents
<1>2. (ExitFilled => ExitFilled') /\ (Over => Over')
  BY <1>1, ExitFilledStays, RowClearStep, VenueClearStep DEF Over, NeverSent
<1>3. ASSUME Release(Initial)
      PROVE  Over'
  <2>1. status'[Initial] = "CANCELLED"
    BY <1>1, <1>3 DEF Release, SetStatus, Typed, TypeOK, RowsTypeOK
  <2> QED
    BY <1>1, <2>1 DEF Over, NeverSent, ClearInv, RowClear
<1>4. ASSUME Close
      PROVE  Over
  BY <1>1, <1>4 DEF Close, ExitsFollowEntry, Over
<1>5. reservation'[Initial] # "NONE"
  <2>1. reservation \in [Intents -> ReservationStatus] /\ reservation[Initial] # "NONE"
    BY <1>1 DEF ReleasedWhenOver, Typed, TypeOK, RowsTypeOK
  <2>2. ASSUME NEW i, NEW s \in {"OPEN", "UNKNOWN", "RELEASED"}, Reserve(i, s)
        PROVE  reservation'[Initial] # "NONE"
    BY <1>1, <2>1, <2>2 DEF Reserve
  <2>3. CASE StoreSnapshot
    <3>1. \E r : reservation'[Initial] = ReservationAfter(Initial, r)
      BY <1>1, <2>3 DEF StoreSnapshot
    <3> QED
      BY <2>1, <3>1 DEF ReservationAfter
  <2>4. CASE Close
    BY <1>1, <2>1, <2>4 DEF Close
  <2>5. CASE \E e \in Executors : StartNew(e) \/ RecordOrder(e) \/ RecordUnknown(e)
    BY <2>1, <2>2, <2>5 DEF StartNew, RecordOrder, RecordUnknown
  <2>6. CASE \E i \in Intents : CreateExit(i) \/ MarkUnknown(i) \/ Release(i) \/ RpcCancel(i)
    BY <2>1, <2>2, <2>6 DEF CreateExit, MarkUnknown, Release, RpcCancel
  <2> QED
    BY <2>1, <2>3, <2>4, <2>5, <2>6, RowSteps
<1>6. reservation'[Initial] = "RELEASED" => Over'
  BY <1>1, <1>2, <1>3, <1>4, RowClearStep DEF ReleasedWhenOver, Over
<1>7. campaign' = "CLOSED" => ExitFilled' \/ (latestExit' = None /\ Over')
  BY <1>1, <1>2, ClosingIsOver, ClosedGetsNoExit DEF ReleasedWhenOver
<1> QED
  BY <1>5, <1>6, <1>7 DEF ReleasedWhenOver

LEMMA ExitStep == ExitInv /\ [Next]_vars => ExitInv'
<1> SUFFICES ASSUME ExitInv, [Next]_vars PROVE ExitInv'
  OBVIOUS
<1>1. ClearInv' /\ Typed'
  BY ClearStep DEF ExitInv, ClearInv, KnowledgeInv, PostInv
<1> QED
  BY <1>1, ExitsFollowEntryStep, ReadyExitStep, OneExitStep, PreparedExitStep, OverStep
     DEF ExitInv

LEMMA ExitInit == Init => ExitInv
<1> SUFFICES ASSUME Init PROVE ExitInv
  OBVIOUS
<1>1. ClearInv
  BY ClearInit
<1>2. \A x \in Exits : status[x] = "NONE" /\ dispatch[x] = None
  BY IntentsAssumption DEF Init, RowsInit, Intents
<1>3. facts.qty = 0 /\ latestExit = None /\ reservation[Initial] = "RESERVED"
      /\ campaign = "OPENING"
  BY DEF Init, RowsInit, Intents
<1> QED
  BY <1>1, <1>2, <1>3
     DEF ExitInv, ExitsFollowEntry, ReadyExitIsNext, OneExitDispatched, PreparedExitIsFirst,
         ReleasedWhenOver

LEMMA ExitHolds == Spec => []ExitInv
  BY ExitInit, ExitStep, PTL DEF Spec

-----------------------------------------------------------------------------
(***************************************************************************)
(* What follows for the venue.                                             *)
(***************************************************************************)
\* An exit that is dispatched has an entry that was filled.
LEMMA DispatchedExit ==
    ASSUME ExitInv, NEW x \in Exits, dispatch[x] # None
    PROVE  ~AtVenue(Initial)
<1>1. KnowledgeInv /\ Initial \in Intents /\ x \in Intents
  BY DEF ExitInv, ClearInv, Intents
<1>2. Filled(venue[Initial]) > 0
  BY <1>1 DEF ExitInv, ExitsFollowEntry, EntryShown, KnowledgeInv, RowSound
<1> QED
  BY <1>1, <1>2, ClosedRests

\* Once an exit was filled nothing is, or gets, at the venue.
LEMMA ExitFilledIsFlat ==
    ASSUME ExitInv, ExitFilled
    PROVE  Position(venue) = 0 /\ \A i \in Intents : ~AtVenue(i)
<1>1. /\ KnowledgeInv /\ OneExitDispatched /\ Exits \subseteq Intents
      /\ \A i \in Intents : i # Initial => i \in Exits
  BY DEF ExitInv, ClearInv, Intents
<1>2. PICK x \in Exits : Filled(venue[x]) > 0
  BY DEF ExitFilled
<1>3. dispatch[x] # None /\ ~AtVenue(x)
  BY <1>1, <1>2, ClosedRests
<1>4. ASSUME NEW i \in Intents
      PROVE  ~AtVenue(i)
  <2>1. CASE dispatch[i] = None
    BY <1>1, <2>1, UndispatchedRests
  <2>2. CASE dispatch[i] # None /\ i \in Exits
    BY <1>1, <1>3, <2>2 DEF OneExitDispatched
  <2>3. CASE i = Initial
    BY <1>3, <2>3, DispatchedExit
  <2> QED
    BY <1>1, <2>1, <2>2, <2>3
<1>5. Position(venue) = 0
  BY <1>2 DEF Position
<1> QED
  BY <1>4, <1>5

\* The same while there is no exit and the entry was cancelled or closed with part of its
\* amount, except that the part is held.
LEMMA OverWithoutExit ==
    ASSUME ExitInv, Over, ~ExitFilled
    PROVE  /\ ~AtVenue(Initial)
           /\ Position(venue) = 0 \/ ClosedPartly(Initial)
           /\ latestExit = None => \A i \in Intents : ~AtVenue(i)
<1>1. /\ KnowledgeInv /\ Exits \subseteq Intents /\ Initial \in Intents
      /\ \A i \in Intents : i # Initial => i \in Exits
  BY DEF ExitInv, ClearInv, Intents
<1>2. ~AtVenue(Initial) /\ (Position(venue) = 0 \/ ClosedPartly(Initial))
  <2>1. CASE NeverSent
    BY <1>1, <2>1, UndispatchedRests DEF NeverSent, Position, Filled
  <2>2. CASE ClosedPartly(Initial)
    BY <1>1, <2>2, ClosedRests
  <2> QED
    BY <2>1, <2>2 DEF Over
<1>3. ASSUME latestExit = None, NEW i \in Exits
      PROVE  ~AtVenue(i)
  <2>1. dispatch[i] = None
    BY <1>1, <1>3 DEF ExitInv, ExitsFollowEntry, KnowledgeInv, RowSound
  <2> QED
    BY <1>1, <2>1, UndispatchedRests
<1> QED
  BY <1>1, <1>2, <1>3

\* Risk stays reserved as long as the entry may get exposure, and as long as it has any unless it
\* was closed with part of its amount: whatever is released, closed, marked unknown, recorded late
\* or read from stale snapshots, for any number of exits, callers and account changes.
THEOREM RiskCovers == Spec => []RiskCoversExposure
<1>1. ExitInv => RiskCoversExposure
  <2> SUFFICES ASSUME ExitInv, reservation[Initial] \notin Occupied
               PROVE  ~AtVenue(Initial) /\ (Position(venue) = 0 \/ ClosedPartly(Initial))
    BY PositionType DEF RiskCoversExposure, Full
  <2>1. reservation[Initial] = "RELEASED" /\ Initial \in Intents
    BY DEF ExitInv, ReleasedWhenOver, ClearInv, KnowledgeInv, PostInv, Typed, TypeOK, RowsTypeOK,
           Intents, ReservationStatus, Occupied
  <2>2. Over
    BY <2>1 DEF ExitInv, ReleasedWhenOver
  <2> QED
    BY <2>1, <2>2, ExitFilledIsFlat, OverWithoutExit
<1> QED
  BY <1>1, ExitHolds, PTL

\* A campaign that is CLOSED has nothing working at the venue and never gets anything there,
\* although close_campaign and release_unfilled_intent see facts only; it is flat, unless its
\* entry was closed with part of its amount.
THEOREM ClosedIsFlat == Spec => []ClosedMeansFlat
<1>1. ExitInv => ClosedMeansFlat
  BY ExitFilledIsFlat, OverWithoutExit DEF ExitInv, ReleasedWhenOver, ClosedMeansFlat
<1> QED
  BY <1>1, ExitHolds, PTL

\* An exit is created when its entry is filled and the last exit settled, so of all intents of a
\* campaign one at most has an order at the venue.
THEOREM OneOrderWorksHolds == Spec => []OneOrderWorks
<1>1. ExitInv => OneOrderWorks
  <2> SUFFICES ASSUME ExitInv, NEW i \in Intents, NEW j \in Intents, AtVenue(i), AtVenue(j)
               PROVE  i = j
    BY DEF OneOrderWorks
  <2>1. /\ KnowledgeInv /\ OneExitDispatched
        /\ i # Initial => i \in Exits
        /\ j # Initial => j \in Exits
    BY DEF ExitInv, ClearInv, Intents
  <2>2. dispatch[i] # None /\ dispatch[j] # None
    BY <2>1, UndispatchedRests
  <2> QED
    BY <2>1, <2>2, DispatchedExit DEF OneExitDispatched
<1> QED
  BY <1>1, ExitHolds, PTL

-----------------------------------------------------------------------------
(***************************************************************************)
(* Where entries fill wholly, at once or in several trades, the exception  *)
(* never arises.                                                           *)
(***************************************************************************)
EntriesFillWholly == "PARTIAL" \notin EntryOutcomes

WholeInv == ExitInv /\ EntriesFillWholly /\ ~ClosedPartly(Initial)

LEMMA WholeStep == WholeInv /\ [Next]_vars => WholeInv'
<1> SUFFICES ASSUME WholeInv, [Next]_vars PROVE WholeInv'
  OBVIOUS
<1>1. ExitInv' /\ EntriesFillWholly'
  BY ExitStep DEF WholeInv, EntriesFillWholly
<1>2. /\ venue \in [Intents -> VenueStatus] /\ venue[Initial] # "PARTIAL"
      /\ EntriesFillWholly /\ Initial \in Intents
  BY DEF WholeInv, ExitInv, ClearInv, KnowledgeInv, PostInv, Typed, TypeOK, FactsTypeOK, Intents,
         ClosedPartly
<1>3. ASSUME NEW e \in Executors, Post(e)
      PROVE  venue'[Initial] # "PARTIAL"
  BY <1>2, <1>3 DEF Post, VenueBecomes
<1>4. ASSUME NEW j \in Intents, VenueAccepts(j) \/ VenueExecutes(j) \/ VenueCancels(j)
      PROVE  venue'[Initial] # "PARTIAL"
  BY <1>2, <1>4 DEF VenueAccepts, VenueExecutes, VenueCancels, VenueBecomes, EntriesFillWholly
<1>5. venue'[Initial] # "PARTIAL"
  BY <1>2, <1>3, <1>4, VenueMoves
<1> QED
  BY <1>1, <1>5 DEF WholeInv, ClosedPartly

\* Then risk covers all exposure, and a closed campaign is flat, without exception.
THEOREM WholeEntriesAreCovered ==
    ASSUME EntriesFillWholly
    PROVE  Spec => [](/\ AtVenue(Initial) \/ Position(venue) > 0
                            => reservation[Initial] \in Occupied
                      /\ campaign = "CLOSED" => Position(venue) = 0)
<1>1. Init => WholeInv
  BY ExitInit DEF WholeInv, Init, FactsInit, ClosedPartly, Intents
<1>2. WholeInv => ~ClosedPartly(Initial)
  BY DEF WholeInv
<1> QED
  BY <1>1, <1>2, WholeStep, RiskCovers, ClosedIsFlat, PTL
     DEF Spec, RiskCoversExposure, ClosedMeansFlat
=============================================================================
