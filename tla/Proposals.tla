----------------------------- MODULE Proposals -----------------------------
(***************************************************************************)
(* Trade proposals: requests that create, reuse and submit them, and the   *)
(* people who review them.                                                 *)
(*                                                                         *)
(* Every request here asks for the same trade, which is where creating     *)
(* and reusing differ: a manual request and one the runtime makes for a    *)
(* resonance (SYSTEM) reuse an active proposal of that trade, a request    *)
(* made from a signal or by an agent does not.  A request may be sent      *)
(* again at any time under its idempotency key.  Its route creates, reads  *)
(* and submits in three transactions and may stop between them; a signal's *)
(* and an agent's proposal is submitted as it is created.  Each action but *)
(* Read is one handler's transaction, under the proposal's row lock or an  *)
(* advisory lock on the trade.                                             *)
(*                                                                         *)
(* A handler tests expiry against an instant taken before its transaction: *)
(* a proposal that has lapsed may still pass for a live one.  A review     *)
(* carries the version its reviewer saw and is refused unless that is the  *)
(* present one; versions only grow, so a refused review leaves no trace.   *)
(***************************************************************************)
EXTENDS Integers, FiniteSets

CONSTANTS
    People,        \* members who propose and review
    Service,       \* the principal under which the runtime proposes
    Requests,      \* requests, told apart by their idempotency keys
    MaxProposals,  \* bound on the proposals created
    None

ASSUME ProposalsAssumption ==
    /\ MaxProposals \in Nat /\ Service \notin People /\ None \notin Requests

Ids == 1 .. MaxProposals   \* in the order of their creation
Active == {"DRAFT", "PENDING_REVIEW"}

VARIABLES
    kind,      \* of each request: MANUAL, SIGNAL, SYSTEM or AGENT
    by,        \* who makes it
    high,      \* whether the trade is of the HIGH risk tier
    count,     \* proposals created
    status,
    origin,    \* the request a proposal was created for
    askers,    \* its proposer and those whose requests reused it
    approvals, refusals,  \* who voted
    lapsed,    \* proposals past their expiry
    used,      \* the signal has a proposal
    receipt,   \* the proposal stored for a request's key, or 0
    route,     \* how far the request's route is: idle, created, drafted
    reply,     \* the proposal the route holds, or 0
    replies    \* every proposal the request was answered with

requestVars == <<kind, by, high>>
voteVars == <<approvals, refusals>>
routeVars == <<route, reply, replies>>
reviewVars ==
    <<requestVars, count, status, origin, askers, voteVars, lapsed, used, receipt, routeVars>>

Kinds == {"MANUAL", "SIGNAL", "SYSTEM", "AGENT"}
\* The runtime and the one-click route propose as a service, everything else is a person's.
MayMake(u, k) == u = Service <=> k = "SYSTEM"

ReviewInit ==
    /\ kind \in [Requests -> Kinds] /\ by \in [Requests -> People \cup {Service}]
    /\ \A r \in Requests : MayMake(by[r], kind[r])
    /\ high \in BOOLEAN
    /\ count = 0
    /\ status = [p \in Ids |-> "NONE"] /\ origin = [p \in Ids |-> None]
    /\ askers = [p \in Ids |-> {}]
    /\ approvals = [p \in Ids |-> {}] /\ refusals = [p \in Ids |-> {}]
    /\ lapsed = {} /\ used = FALSE
    /\ receipt = [r \in Requests |-> 0]
    /\ route = [r \in Requests |-> "idle"] /\ reply = [r \in Requests |-> 0]
    /\ replies = [r \in Requests |-> {}]

-----------------------------------------------------------------------------
Proposer(p) == by[origin[p]]

\* The source of a proposal: a signal is taken up by a person.
IsManual(r) == kind[r] \in {"MANUAL", "SIGNAL"}
Deduplicates(r) == kind[r] \in {"MANUAL", "SYSTEM"}

SameSource(r, p) ==
    IF kind[r] = "SYSTEM" THEN kind[origin[p]] = "SYSTEM" ELSE IsManual(origin[p])

\* Fault: a draft does not count as active.
PendingLike(r, past) ==
    {p \in 1 .. count : status[p] = "PENDING_REVIEW" /\ p \notin past /\ SameSource(r, p)}
\* The active proposals a request would reuse, past being those that its instant finds expired.
ActiveLike(r, past) ==
    {p \in 1 .. count : status[p] \in Active /\ p \notin past /\ SameSource(r, p)}
Oldest(ps) == CHOOSE p \in ps : \A q \in ps : p <= q

Answer(r, p) ==
    /\ route' = [route EXCEPT ![r] = "created"] /\ reply' = [reply EXCEPT ![r] = p]
    /\ replies' = [replies EXCEPT ![r] = @ \cup {p}]

Returns(r) ==
    route' = [route EXCEPT ![r] = "idle"] /\ reply' = [reply EXCEPT ![r] = 0]

Replay(r) ==
    /\ route[r] = "idle" /\ receipt[r] # 0
    /\ Answer(r, receipt[r])
    /\ UNCHANGED <<requestVars, count, status, origin, askers, voteVars, lapsed, used, receipt>>

\* Fault: reusing a proposal stores no receipt.
StoresNoReceipt(r) == FALSE
\* Reuse by the runtime stores no receipt.
StoresReceipt(r) == kind[r] # "SYSTEM"

Reuse(r, past) ==
    /\ route[r] = "idle" /\ receipt[r] = 0
    /\ Deduplicates(r) /\ ActiveLike(r, past) # {}
    /\ LET p == Oldest(ActiveLike(r, past)) IN
       /\ askers' = [askers EXCEPT ![p] = @ \cup {by[r]}]
       /\ receipt' = IF StoresReceipt(r) THEN [receipt EXCEPT ![r] = p] ELSE receipt
       /\ Answer(r, p)
    /\ UNCHANGED <<requestVars, count, status, origin, voteVars, lapsed, used>>

SignalUnused(r) == kind[r] = "SIGNAL" => ~used

Create(r, past) ==
    /\ route[r] = "idle" /\ receipt[r] = 0
    /\ SignalUnused(r)
    /\ Deduplicates(r) => ActiveLike(r, past) = {}
    /\ count < MaxProposals /\ count' = count + 1
    /\ status' = [status EXCEPT ![count + 1] =
                     IF Deduplicates(r) THEN "DRAFT" ELSE "PENDING_REVIEW"]
    /\ origin' = [origin EXCEPT ![count + 1] = r]
    /\ askers' = [askers EXCEPT ![count + 1] = {by[r]}]
    /\ used' = (used \/ kind[r] = "SIGNAL")
    /\ receipt' = [receipt EXCEPT ![r] = count + 1]
    /\ Answer(r, count + 1)
    /\ UNCHANGED <<requestVars, voteVars, lapsed>>

\* The route reads the proposal, and goes on to submit a draft.
Read(r) ==
    /\ route[r] = "created"
    /\ IF status[reply[r]] = "DRAFT" /\ Deduplicates(r)
       THEN route' = [route EXCEPT ![r] = "drafted"] /\ UNCHANGED reply
       ELSE Returns(r)
    /\ UNCHANGED <<requestVars, count, status, origin, askers, voteVars, lapsed, used, receipt,
                   replies>>

\* Refused for anyone but the proposer, and unless it is a draft: the call ends.  Expiry is
\* tested before the status is.
Submit(r, expired) ==
    /\ route[r] = "drafted" /\ Returns(r)
    /\ LET p == reply[r] IN
       status' = IF Proposer(p) # by[r] THEN status
                 ELSE IF p \in expired THEN [status EXCEPT ![p] = "EXPIRED"]
                 ELSE IF status[p] = "DRAFT" THEN [status EXCEPT ![p] = "PENDING_REVIEW"]
                 ELSE status
    /\ UNCHANGED <<requestVars, count, origin, askers, voteVars, lapsed, used, receipt, replies>>

Stop(r) ==
    /\ route[r] # "idle" /\ Returns(r)
    /\ UNCHANGED <<requestVars, count, status, origin, askers, voteVars, lapsed, used, receipt,
                   replies>>

-----------------------------------------------------------------------------
MayReview(u, p) == u \notin askers[p]

\* Fault: one approval is enough.
OneApproval == 1
Required == IF high THEN 2 ELSE 1

ExpireInReview(u, p) ==
    /\ p <= count /\ MayReview(u, p) /\ p \in lapsed
    /\ status' = [status EXCEPT ![p] = "EXPIRED"]
    /\ UNCHANGED <<requestVars, count, origin, askers, voteVars, lapsed, used, receipt, routeVars>>

Reviewable(p) == status[p] = "PENDING_REVIEW"

\* Fault: a reviewer's earlier vote is not looked for.
Again(u, p) == TRUE
FirstVote(u, p) == u \notin approvals[p] \cup refusals[p]

Votes(u, p) ==
    /\ p <= count /\ MayReview(u, p) /\ Reviewable(p) /\ FirstVote(u, p)
    /\ UNCHANGED <<requestVars, count, origin, askers, lapsed, used, receipt, routeVars>>

Approve(u, p) ==
    /\ Votes(u, p)
    /\ approvals' = [approvals EXCEPT ![p] = @ \cup {u}]
    /\ status' = IF Cardinality(approvals'[p]) >= Required
                 THEN [status EXCEPT ![p] = "APPROVED"] ELSE status
    /\ UNCHANGED refusals

Reject(u, p) ==
    /\ Votes(u, p)
    /\ refusals' = [refusals EXCEPT ![p] = @ \cup {u}]
    /\ status' = [status EXCEPT ![p] = "REJECTED"]
    /\ UNCHANGED approvals

-----------------------------------------------------------------------------
\* The one kept: the oldest of those with a vote, or of all.
Canonical(ps) ==
    LET voted == {p \in ps : approvals[p] \cup refusals[p] # {}}
    IN  Oldest(IF voted = {} THEN ps ELSE voted)

Surplus(ps) == ps \ {Canonical(ps)}

\* At startup, and before the runtime proposes: the active proposals of one trade become one.
Consolidate(r, past) ==
    /\ Deduplicates(r)
    /\ LET ps == ActiveLike(r, past) IN
       /\ Cardinality(ps) > 1
       /\ status' = [p \in Ids |-> IF p \in Surplus(ps) THEN "EXPIRED" ELSE status[p]]
       /\ askers' = IF kind[r] = "SYSTEM" THEN askers
                    ELSE [askers EXCEPT ![Canonical(ps)] =
                             @ \cup {Proposer(p) : p \in Surplus(ps)}]
    /\ UNCHANGED <<requestVars, count, origin, voteVars, lapsed, used, receipt, routeVars>>

Lapse(p) ==
    /\ p <= count /\ p \notin lapsed
    /\ lapsed' = lapsed \cup {p}
    /\ UNCHANGED <<requestVars, count, status, origin, askers, voteVars, used, receipt, routeVars>>

ReviewNext ==
    \/ \E r \in Requests : Replay(r) \/ Read(r) \/ Stop(r)
    \/ \E r \in Requests, past \in SUBSET lapsed :
          Reuse(r, past) \/ Create(r, past) \/ Submit(r, past) \/ Consolidate(r, past)
    \/ \E u \in People, p \in Ids : ExpireInReview(u, p) \/ Approve(u, p) \/ Reject(u, p)
    \/ \E p \in Ids : Lapse(p)

ReviewSpec == ReviewInit /\ [][ReviewNext]_reviewVars

-----------------------------------------------------------------------------
\* Every state component has its type, and a reviewer one vote.
ReviewTypeOK ==
    /\ kind \in [Requests -> Kinds] /\ by \in [Requests -> People \cup {Service}]
    /\ high \in BOOLEAN /\ count \in 0 .. MaxProposals
    /\ status \in [Ids -> Active \cup {"NONE", "APPROVED", "REJECTED", "EXPIRED"}]
    /\ origin \in [Ids -> Requests \cup {None}]
    /\ askers \in [Ids -> SUBSET (People \cup {Service})]
    /\ approvals \in [Ids -> SUBSET People] /\ refusals \in [Ids -> SUBSET People]
    /\ lapsed \subseteq Ids /\ used \in BOOLEAN
    /\ receipt \in [Requests -> 0 .. MaxProposals]
    /\ route \in [Requests -> {"idle", "created", "drafted"}]
    /\ reply \in [Requests -> 0 .. MaxProposals]
    /\ replies \in [Requests -> SUBSET Ids]
    /\ \A p \in Ids : /\ p <= count <=> status[p] # "NONE"
                      /\ approvals[p] \cap refusals[p] = {}

\* An approved proposal was approved by as many people as its tier asks for, its proposer not
\* among them and nobody's refusal on it, whatever was reused, consolidated or retried meanwhile
\* (review_proposal).
ApprovedByOthers ==
    \A p \in 1 .. count : status[p] = "APPROVED" =>
        /\ Cardinality(approvals[p] \ {Proposer(p)}) >= IF high THEN 2 ELSE 1
        /\ Proposer(p) \notin approvals[p]
        /\ refusals[p] = {}

\* There is one proposal where one is meant.  Of two of the same trade that are both active and
\* unexpired, the later was not made by a manual request while the earlier one was there to be
\* reused (the advisory lock of create_proposal), whichever routes stopped after creating a draft;
\* an earlier proposal that is active now was active ever since.  A signal is used for one
\* proposal at most, whoever takes it up and however often.
OneProposalEach ==
    \A p, q \in 1 .. count : p < q =>
        /\ IsManual(origin[p]) /\ kind[origin[q]] = "MANUAL" /\ status[p] \in Active => p \in lapsed
        /\ ~(kind[origin[p]] = "SIGNAL" /\ kind[origin[q]] = "SIGNAL")

\* However often a person's or an agent's request is sent, it is answered with one proposal, even
\* when that proposal was another's and has since been decided (save_receipt in both branches).
AnsweredWithOne ==
    \A r \in Requests : kind[r] # "SYSTEM" => Cardinality(replies[r]) <= 1
=============================================================================
