--------------------------- MODULE FactIngestion ---------------------------
(***************************************************************************)
(* The venue as the program sees it, and the ingestion of read-only        *)
(* account snapshots into the rows of OrderIntent.  A snapshot is read at  *)
(* the venue at one moment and stored later, in one transaction that is    *)
(* applied whole or rejected whole.                                        *)
(*                                                                         *)
(* The venue side (the Freqtrade worker and the exchange behind it) is     *)
(* external: it does with an order whatever an exchange may do.            *)
(***************************************************************************)
EXTENDS OrderIntent

CONSTANTS
    EntryOutcomes,  \* how an entry may execute, a subset of VenueFills
    FactsWorker     \* whether the facts worker runs in this instance

VenueFills == {"FILLED", "SPLIT", "PARTIAL"}

ASSUME EntryOutcomesAssumption == EntryOutcomes \subseteq VenueFills /\ FactsWorker \in BOOLEAN

VARIABLES
    venue,      \* what became of each intent's order at the venue
    rpc,        \* intents with an entry_cancel or exit_cancel message on its way
    snap        \* the snapshot read and not yet stored, or None

venueVars == <<venue, rpc>>

(***************************************************************************)
(* INFLIGHT: the order request was issued and nothing is known; LOST: it   *)
(* never became an order; SPLIT: filled in two trades; PARTIAL: closed     *)
(* with part of its amount; CUT: cancelled after part of it was filled.    *)
(***************************************************************************)
VenueStatus == {"NONE", "INFLIGHT", "LOST", "OPEN", "CANCELLED", "CUT"} \cup VenueFills

Filled(s) == IF s \in {"FILLED", "SPLIT"} THEN Full ELSE IF s \in {"PARTIAL", "CUT"} THEN 1 ELSE 0

\* The first trade of an order, which is all of it unless it was split.
FirstTrade(s) == IF s = "SPLIT" THEN 1 ELSE Filled(s)

Position(v) == IF \E x \in Exits : Filled(v[x]) > 0 THEN 0 ELSE Filled(v[Initial])

Snapshots == [venue : [Intents -> VenueStatus], listed : SUBSET Intents, history : BOOLEAN]

FactsTypeOK ==
    /\ venue \in [Intents -> VenueStatus]
    /\ rpc \subseteq Intents
    /\ snap \in Snapshots \cup {None}

FactsInit ==
    /\ venue = [i \in Intents |-> "NONE"]
    /\ rpc = {}
    /\ snap = None

-----------------------------------------------------------------------------
(***************************************************************************)
(* The venue                                                               *)
(***************************************************************************)

VenueBecomes(i, s) == venue' = [venue EXCEPT ![i] = s]

VenueAccepts(i) ==
    /\ venue[i] = "INFLIGHT"
    /\ \E s \in {"OPEN", "LOST"} : VenueBecomes(i, s)
    /\ UNCHANGED <<rpc, snap, rowVars, leaseVars>>

VenueExecutes(i) ==
    /\ venue[i] = "OPEN"
    /\ \E s \in IF i = Initial THEN EntryOutcomes ELSE {"FILLED"} : VenueBecomes(i, s)
    /\ i \in Exits => Position(venue) > 0
    /\ UNCHANGED <<rpc, snap, rowVars, leaseVars>>

\* Freqtrade cancels an order that stays open too long and says so by RPC.
VenueCancels(i) ==
    /\ venue[i] = "OPEN"
    /\ \E s \in IF i = Initial /\ "PARTIAL" \in EntryOutcomes THEN {"CANCELLED", "CUT"}
                                                              ELSE {"CANCELLED"} :
          VenueBecomes(i, s)
    /\ rpc' = rpc \cup {i}
    /\ UNCHANGED <<snap, rowVars, leaseVars>>

-----------------------------------------------------------------------------
(***************************************************************************)
(* Reading a snapshot                                                      *)
(***************************************************************************)

\* Open orders are always listed; a closed one is while the order stream's
\* last update for it is merged into the snapshot.  The fill history is
\* fetched separately and may be missing.
ReadSnapshot ==
    /\ FactsWorker /\ snap = None
    /\ LET open == {i \in Intents : venue[i] = "OPEN"}
           closed == {i \in Intents : venue[i] \in VenueFills \cup {"CANCELLED", "CUT"}}
       IN  \E more \in SUBSET closed, history \in BOOLEAN :
              snap' = [venue |-> venue, listed |-> open \cup more, history |-> history]
    /\ UNCHANGED <<venueVars, rowVars, leaseVars>>

(***************************************************************************)
(* Storing it: _ingest_read_only_snapshot, then _cover_absent_positions.   *)
(* The operators below say what each part leaves of one intent's rows.     *)
(***************************************************************************)

ListedStatus(s) ==
    CASE s = "OPEN" -> "SENT"
      [] s \in VenueFills -> "FILLED"
      [] OTHER -> "CANCELLED"

ListedRow(s) ==
    [id |-> "OBSERVED", status |-> ListedStatus(s), ordered |-> Full, filled |-> Filled(s)]

Reported(s, i) == IF s.history THEN Filled(s.venue[i]) ELSE 0

\* Orders: a listed order updates the row with its native id, or gets an
\* unbound row.
ListedStray(s, i) ==
    IF i \in s.listed /\ order[i].id # "OBSERVED" THEN ListedRow(s.venue[i]) ELSE stray[i]

ListedOrder(s, i) ==
    IF i \in s.listed /\ order[i].id = "OBSERVED" THEN ListedRow(s.venue[i]) ELSE order[i]

\* Fills: a late fill without any order row of its own is given to the one
\* UNKNOWN placeholder within five minutes, which takes the trade's size.
Adopts(s, i, recent) ==
    /\ recent
    /\ Reported(s, i) > 0
    /\ ListedStray(s, i) = NoOrder
    /\ order[i].id = "PLACEHOLDER" /\ order[i].status = "UNKNOWN" /\ order[i].filled = 0
    /\ status[i] = "UNKNOWN"

BoundOrder(s, i, recent) ==
    IF Adopts(s, i, recent)
    THEN [id |-> "RECORDED", status |-> "FILLED",
          ordered |-> FirstTrade(s.venue[i]), filled |-> FirstTrade(s.venue[i])]
    ELSE ListedOrder(s, i)

BindsFills(s, i, recent) ==
    Reported(s, i) > 0 /\ BoundOrder(s, i, recent).id \in {"RECORDED", "OBSERVED"}

FillsAfter(s, i, recent) ==
    IF BindsFills(s, i, recent) THEN Reported(s, i) ELSE fills[i]

StrayFillsAfter(s, i, recent) ==
    CASE BindsFills(s, i, recent) -> 0
      [] Reported(s, i) > 0 /\ ~BindsFills(s, i, recent) -> Reported(s, i)
      [] OTHER -> strayFills[i]

StrayOrder(s, i) ==
    LET row == ListedStray(s, i)
    IN  IF row = NoOrder \/ Reported(s, i) = 0 THEN row
        ELSE [row EXCEPT !.filled = IF @ > Reported(s, i) THEN @ ELSE Reported(s, i),
                         !.status = IF Reported(s, i) = row.ordered THEN "FILLED" ELSE @]

\* Bound orders: what the order row and the fills say of the intent.
Outcome(o, filled) ==
    LET complete == filled = Full \/ (o.status = "FILLED" /\ filled > 0 /\ filled = o.ordered)
    IN  CASE o.status = "UNKNOWN" -> "UNKNOWN"
          [] o.status # "UNKNOWN" /\ complete -> "FILLED"
          [] o.status = "CANCELLED" /\ ~complete -> "CANCELLED"
          [] o.status \notin {"UNKNOWN", "CANCELLED"} /\ ~complete /\ filled > 0 ->
                "PARTIALLY_FILLED"
          [] OTHER -> "KEEP"

Settled(s, i, recent) ==
    LET o == BoundOrder(s, i, recent)
        filled == FillsAfter(s, i, recent)
        outcome == Outcome(o, filled)
    IN  [outcome |-> IF o = NoOrder \/ campaign = "CLOSED" THEN "KEEP" ELSE outcome,
         filled  |-> filled,
         order   |-> IF o = NoOrder \/ campaign = "CLOSED" THEN o
                     ELSE [o EXCEPT !.filled = IF @ > filled THEN @ ELSE filled,
                                    !.status = IF outcome \in {"FILLED", "PARTIALLY_FILLED"}
                                               THEN outcome ELSE @]]

\* Fault: a settled intent gives its risk back although it was filled.
ReleasedWhenSettled(i, r) ==
    IF reservation[i] = "NONE" \/ r.outcome = "KEEP" THEN reservation[i]
    ELSE IF r.outcome = "UNKNOWN" THEN "UNKNOWN" ELSE "RELEASED"

ReservationAfter(i, r) ==
    IF reservation[i] = "NONE" \/ r.outcome = "KEEP" THEN reservation[i]
    ELSE IF r.outcome = "UNKNOWN" THEN "UNKNOWN"
    ELSE IF r.filled > 0 THEN "OPEN" ELSE "RELEASED"

CampaignAfter(c, i, r) ==
    CASE r.outcome = "UNKNOWN" -> "UNKNOWN"
      [] r.outcome \notin {"KEEP", "UNKNOWN"} /\ r.filled > 0 ->
            IF i \in Exits THEN "CLOSING" ELSE IF c = "CLOSING" THEN c ELSE "OPEN"
      [] OTHER -> c

\* Fault: an order that is not listed is taken for cancelled.
AbsenceIsCancellation(s, i, row, filled) ==
    IF row.status \in {"SENT", "PARTIALLY_FILLED", "UNKNOWN"} /\ i \notin s.listed
    THEN [row EXCEPT !.status = "CANCELLED"] ELSE row

\* _cover_absent_positions: an unresolved row that is not listed is filled
\* when its fills say so; absence is no proof of cancellation.
Covered(s, i, row, filled) ==
    IF row.status \notin {"SENT", "PARTIALLY_FILLED", "UNKNOWN"} THEN row
    ELSE IF i \in s.listed /\ row.id = "OBSERVED" THEN row
    ELSE IF filled >= row.ordered THEN [row EXCEPT !.status = "FILLED", !.filled = row.ordered]
    ELSE [row EXCEPT !.status = "UNKNOWN"]

\* release_zero_fill_in_session gives occupied risk back.
GivesBack(i, r) == reservation[i] \in Occupied /\ r.outcome = "CANCELLED" /\ r.filled = 0

\* The reasons for which the whole snapshot is refused.
Conflicts(s, recent) ==
    \E i \in Intents :
        LET o == BoundOrder(s, i, recent)
        IN  \/ i \in s.listed /\ order[i].id = "RECORDED"            \* <venue>_FACT_CONFLICT
            \/ o # NoOrder /\ FillsAfter(s, i, recent) > o.ordered   \* ORDER_INTENT_OVERFILLED
            \/ /\ o # NoOrder /\ campaign = "CLOSED"                 \* CLOSED_CAMPAIGN_...
               /\ ~(status[i] \in Terminal /\ o.status \in Terminal)
            \/ GivesBack(i, Settled(s, i, recent)) /\ ~counted      \* AUTHORIZATION_USAGE_INVALID

\* What the bound orders, taken one after the other in no particular order,
\* leave of the campaign.  Only the outcome taken last counts, except that a
\* filled entry leaves a campaign that is closing as it is.
CampaignsAfter(results) ==
    LET moved == {i \in Intents : results[i].outcome # "KEEP"}
        Before(i) == IF moved = {i} THEN {campaign}
                     ELSE {CampaignAfter(campaign, k, results[k]) : k \in moved \ {i}}
    IN  IF moved = {} THEN {campaign}
        ELSE UNION {{CampaignAfter(c, i, results[i]) : c \in Before(i)} : i \in moved}

StoreSnapshot ==
    /\ snap # None
    /\ \E recent \in BOOLEAN :
          LET after == [i \in Intents |-> Settled(snap, i, recent)]
          IN  /\ ~Conflicts(snap, recent)
              /\ status' = [i \in Intents |-> IF after[i].outcome = "KEEP" THEN status[i]
                                                                  ELSE after[i].outcome]
              /\ reservation' = [i \in Intents |-> ReservationAfter(i, after[i])]
              /\ counted' = (counted /\ \A i \in Intents : ~GivesBack(i, after[i]))
              /\ campaign' \in CampaignsAfter(after)
              /\ order' = [i \in Intents |->
                              Covered(snap, i, after[i].order, after[i].filled)]
              /\ stray' = [i \in Intents |-> Covered(snap, i, StrayOrder(snap, i), 0)]
              /\ fills' = [i \in Intents |-> after[i].filled]
              /\ strayFills' = [i \in Intents |-> StrayFillsAfter(snap, i, recent)]
    /\ facts' = [qty |-> Position(snap.venue), fresh |-> TRUE]
    /\ seen' = {e \in seen : e = "EXIT" /\ (latestExit # None =>
                                            status'[latestExit] = status[latestExit])}
    /\ snap' = None
    /\ UNCHANGED <<newRisk, latestExit, venueVars, leaseVars>>

RefuseSnapshot ==
    /\ snap # None
    /\ \E recent \in BOOLEAN : Conflicts(snap, recent)
    /\ snap' = None
    /\ UNCHANGED <<venueVars, rowVars, leaseVars>>
=============================================================================
