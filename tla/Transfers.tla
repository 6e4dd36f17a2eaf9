----------------------------- MODULE Transfers -----------------------------
(***************************************************************************)
(* Transfers of capital between a team's vault and its account at a venue: *)
(* a proposal that two others approve, one authorization, one transfer.    *)
(* The three rows bind each other one to one, and are one t here.          *)
(*                                                                         *)
(* Each handler is one transaction.  What its caller read before is read   *)
(* again under the row's lock, except the status of a release about to be  *)
(* executed: preparing holds the releases between the two.  Every amount   *)
(* is one unit.  All transfers are of one environment, vault and account.  *)
(*                                                                         *)
(* TESTNET transfers are submitted to a mock, and a person reports what    *)
(* became of them.  LIVE ones are plans of transactions that a wallet      *)
(* signs; the chain shows each transaction under its hash, and a person    *)
(* hands in the hash.  A fact, a snapshot of a balance, is what its source *)
(* says: other money moves too.  That one is too old for a call is a       *)
(* refusal that may come at any time.                                      *)
(***************************************************************************)
EXTENDS Naturals, FiniteSets

CONSTANTS
    Transfers, Persons, Hashes,
    Nobody,      \* no person, no hash
    MaxBalance   \* bound on what a fact says may be withdrawn

ASSUME TransfersAssumption ==
    /\ MaxBalance \in Nat /\ Nobody \notin Persons \cup Hashes
    /\ IsFiniteSet(Transfers)

VARIABLES
    environment,
    direction, purpose, proposer, proposal, votes,  \* the proposal; who approves it
    lapsed,         \* what has passed its expiry
    authorization,
    transfer,       \* the status of the transfer
    transport,      \* the stage of its plan
    request,        \* the hash that requested the release
    confirmed,      \* the hashes counted for it
    overcharged,    \* releases whose fee is above the authorized one
    preparing,
    chain,          \* the transactions: what kind, for which request
    withdrawable, condition, shows,  \* of the facts of the vault and the account
    trading, match, \* the account's positions and orders; the latest reconciliation
    enabled, policy

proposalVars == <<direction, purpose, proposer, proposal, votes>>
stageVars == <<transport, request, confirmed, overcharged, preparing>>
factVars == <<withdrawable, condition, shows>>
tradingVars == <<trading, match, enabled, policy>>
capitalVars == <<environment, proposalVars, lapsed, authorization, transfer, stageVars, chain,
                 factVars, tradingVars>>

Locations == {"VAULT", "VENUE"}
Capabilities == {"CAPITAL_TRANSFER", "AUTOMATION"}
Source(t) == IF direction[t] = "VAULT_TO_VENUE" THEN "VAULT" ELSE "VENUE"
Destination(t) == IF direction[t] = "VAULT_TO_VENUE" THEN "VENUE" ELSE "VAULT"

\* A fact is unknown, or known with who controls the place, whether it takes deposits, or both.
Conditions == {"UNKNOWN", "KNOWN", "CONTROLLED", "OPEN", "READY"}
Controlled(l) == condition[l] \in {"CONTROLLED", "READY"}
TakesDeposits(l) == condition[l] \in {"OPEN", "READY"}
Occupied == {"SOURCE_RESERVED", "SUBMITTED", "IN_FLIGHT", "DESTINATION_CONFIRMED", "UNKNOWN",
             "MANUAL_REQUIRED"}
Event(k, r) == [kind |-> k, request |-> r]
NoEvent == Event("NONE", Nobody)

\* What the database and the world may hold before there is any transfer.
ScopeInit ==
    /\ environment \in {"TESTNET", "LIVE"}
    /\ withdrawable \in [Locations -> 0 .. MaxBalance]
    /\ condition \in [Locations -> Conditions]
    /\ shows = [l \in Locations |-> {}] /\ chain = [h \in Hashes |-> NoEvent]
    /\ trading \in {"OPEN", "FLAT", "CLOSED"} /\ match \in BOOLEAN
    /\ enabled \in SUBSET Capabilities /\ policy = FALSE

ProposalInit ==
    /\ proposer = [t \in Transfers |-> Nobody] /\ proposal = [t \in Transfers |-> "NONE"]
    /\ votes = [t \in Transfers |-> {}] /\ authorization = [t \in Transfers |-> "NONE"]

MoveInit ==
    /\ direction \in [Transfers -> {"VAULT_TO_VENUE", "VENUE_TO_VAULT"}]
    /\ purpose = [t \in Transfers |-> "MANUAL_TRANSFER"] /\ lapsed = {}
    /\ transfer = [t \in Transfers |-> "NONE"] /\ transport = [t \in Transfers |-> "NONE"]
    /\ request = [t \in Transfers |-> Nobody] /\ confirmed = [t \in Transfers |-> {}]
    /\ overcharged = {} /\ preparing = {}

TransferInit == ScopeInit /\ ProposalInit /\ MoveInit

-----------------------------------------------------------------------------
\* From the proposal to the authorization.
SetProposal(t, s) == proposal' = [proposal EXCEPT ![t] = s]
SetTransfer(t, s) == transfer' = [transfer EXCEPT ![t] = s]
Valid(t, what) == <<t, what>> \notin lapsed
afterProposal == <<environment, authorization, transfer, stageVars, chain, factVars, tradingVars>>

CreateTransferProposal(t, p) ==
    /\ proposal[t] = "NONE"
    /\ SetProposal(t, "DRAFT") /\ proposer' = [proposer EXCEPT ![t] = p]
    /\ UNCHANGED <<direction, purpose, votes, lapsed, afterProposal>>

\* Expired, a proposal is refused; that it is marked so is undone with the refusal.
SubmitTransferProposal(t) ==
    /\ proposal[t] = "DRAFT" /\ Valid(t, "PROPOSAL")
    /\ SetProposal(t, "PENDING_REVIEW")
    /\ UNCHANGED <<direction, purpose, proposer, votes, lapsed, afterProposal>>

\* Fault: proposers may review what they proposed.
MayReviewOwn(t, p) == p \notin votes[t]
MayReview(t, p) == p # proposer[t] /\ p \notin votes[t]

\* A review names the version it was made for; one of an older version is refused.
ReviewTransferProposal(t, p) ==
    /\ proposal[t] = "PENDING_REVIEW" /\ Valid(t, "PROPOSAL") /\ MayReview(t, p)
    /\ \/ SetProposal(t, "REJECTED") /\ UNCHANGED votes
       \/ /\ votes' = [votes EXCEPT ![t] = @ \cup {p}]
          /\ SetProposal(t, IF Cardinality(votes'[t]) >= 2 THEN "APPROVED" ELSE proposal[t])
    /\ UNCHANGED <<direction, purpose, proposer, lapsed, afterProposal>>

\* The authorization expires with the proposal at the latest.
IssueTransferAuthorization(t, p) ==
    /\ proposal[t] = "APPROVED" /\ Valid(t, "PROPOSAL") /\ p # proposer[t]
    /\ authorization[t] = "NONE"
    /\ authorization' = [authorization EXCEPT ![t] = "ACTIVE"]
    /\ UNCHANGED <<environment, proposalVars, lapsed, transfer, stageVars, chain, factVars,
                   tradingVars>>

\* A policy of TESTNET proposes sweeps and refills while nothing else owns the scope.  It also
\* refuses a vault that can only be read, whose control is known.
Standing(t) == proposal[t] \in {"DRAFT", "PENDING_REVIEW", "APPROVED"}
Unowned ==
    \A t \in Transfers : /\ transfer[t] \notin Occupied
                         /\ purpose[t] = "AUTOMATIC" => ~Standing(t)

CreateAutomationCandidate(t, p) ==
    /\ environment = "TESTNET" /\ policy /\ "AUTOMATION" \in enabled
    /\ trading = "CLOSED" /\ match /\ Unowned
    /\ Controlled("VAULT") /\ TakesDeposits("VENUE")
    /\ proposal[t] = "NONE"
    /\ purpose' = [purpose EXCEPT ![t] = "AUTOMATIC"]
    /\ SetProposal(t, "PENDING_REVIEW") /\ proposer' = [proposer EXCEPT ![t] = p]
    /\ UNCHANGED <<direction, votes, lapsed, afterProposal>>

-----------------------------------------------------------------------------
\* The transfer takes its amount from what the source's fact says may be withdrawn, less
\* what others of the same source have taken.
Owned(l) == {t \in Transfers : Source(t) = l /\ transfer[t] \in Occupied}

ReserveCapitalTransfer(t, p) ==
    /\ authorization[t] = "ACTIVE" /\ Valid(t, "AUTHORIZATION") /\ p # proposer[t]
    /\ environment = "LIVE" => "CAPITAL_TRANSFER" \in enabled
    /\ trading # "OPEN" /\ (direction[t] = "VENUE_TO_VAULT" => match)
    /\ Controlled(Source(t)) /\ TakesDeposits(Destination(t))
    /\ Cardinality(Owned(Source(t))) < withdrawable[Source(t)]
    /\ authorization' = [authorization EXCEPT ![t] = "USED"]
    /\ SetTransfer(t, "SOURCE_RESERVED")
    /\ UNCHANGED <<environment, proposalVars, lapsed, stageVars, chain, factVars, tradingVars>>

untouched == <<environment, proposalVars, lapsed, authorization, tradingVars>>

\* The mock's identity for a transfer is always the same; a person's repeated call goes on
\* where the first one stopped.
RecordMockSubmission(t) ==
    /\ environment = "TESTNET" /\ transfer[t] = "SOURCE_RESERVED"
    /\ SetTransfer(t, "SUBMITTED")
    /\ UNCHANGED <<untouched, stageVars, chain, factVars>>

May == [SUBMITTED |-> {"IN_FLIGHT", "UNKNOWN", "FAILED_SOURCE_RESTORED"},
        IN_FLIGHT |-> {"DESTINATION_CONFIRMED", "UNKNOWN"},
        UNKNOWN |-> {"IN_FLIGHT", "DESTINATION_CONFIRMED", "MANUAL_REQUIRED",
                     "FAILED_SOURCE_RESTORED"},
        MANUAL_REQUIRED |-> {"IN_FLIGHT", "DESTINATION_CONFIRMED", "FAILED_SOURCE_RESTORED"}]

\* No fact recorded so far is as late as what happens to t now.
Overtakes(t) == shows' = [l \in Locations |-> shows[l] \ {t}]

\* A person says what became of a transfer, of whichever environment; that it has arrived,
\* with a fee and an amount the authorization allows.
RecordObservation(t) ==
    /\ transfer[t] \in DOMAIN May
    /\ \E s \in May[transfer[t]] :
        /\ SetTransfer(t, s) /\ Overtakes(t)
        /\ overcharged' = IF s = "DESTINATION_CONFIRMED" THEN overcharged \ {t} ELSE overcharged
    /\ UNCHANGED <<untouched, transport, request, confirmed, preparing, chain, withdrawable,
                   condition>>

-----------------------------------------------------------------------------
\* Plans of transactions, and their receipts.
SetTransport(t, s) == transport' = [transport EXCEPT ![t] = s]
besidesTransport == <<untouched, request, confirmed, overcharged, chain, factVars>>

PrepareTransfer(t) ==
    /\ environment = "LIVE" /\ transfer[t] = "SOURCE_RESERVED" /\ transport[t] = "NONE"
    /\ SetTransport(t, IF Source(t) = "VAULT" THEN "RELEASE_REQUEST_PLAN_READY"
                       ELSE "DEPOSIT_PLAN_READY")
    /\ UNCHANGED <<besidesTransport, transfer, preparing>>

PrepareExecution(t) ==
    /\ transport[t] = "RELEASE_REQUEST_CONFIRMED" /\ transfer[t] = "IN_FLIGHT"
    /\ Valid(t, "REQUEST")
    /\ preparing' = preparing \cup {t}
    /\ UNCHANGED <<besidesTransport, transfer, transport>>

Awaiting(t) ==
    transport[t] = "RELEASE_REQUEST_CONFIRMED" /\ transfer[t] \in {"IN_FLIGHT", "MANUAL_REQUIRED"}

\* The prepared plan is stored, refused, or lost with the call.
RecordExecutionPlan(t) ==
    /\ t \in preparing /\ preparing' = preparing \ {t}
    /\ (Awaiting(t) /\ SetTransport(t, "RELEASE_EXECUTION_PLAN_READY")) \/ UNCHANGED transport
    /\ UNCHANGED <<besidesTransport, transfer>>

PlanCancellation(t) ==
    /\ Awaiting(t) /\ SetTransport(t, "RELEASE_CANCELLATION_PLAN_READY")
    /\ UNCHANGED <<besidesTransport, transfer, preparing>>

Kind == [DEPOSIT_PLAN_READY |-> "DEPOSIT",
         RELEASE_REQUEST_PLAN_READY |-> "RELEASE_REQUEST",
         RELEASE_EXECUTION_PLAN_READY |-> "RELEASE_EXECUTION",
         RELEASE_CANCELLATION_PLAN_READY |-> "RELEASE_CANCELLATION"]

\* A wallet signs a plan, maybe more than once; a request is executed or cancelled once.
SignTransaction(t, h) ==
    /\ transport[t] \in DOMAIN Kind /\ chain[h] = NoEvent
    /\ LET event == Event(Kind[transport[t]], request[t])
       IN  /\ request[t] # Nobody => \A g \in Hashes : chain[g].request # request[t]
           /\ event.kind = "RELEASE_EXECUTION" => Valid(t, "REQUEST")
           /\ chain' = [chain EXCEPT ![h] = event]
    /\ UNCHANGED <<untouched, transfer, stageVars, factVars>>

\* Fault: a transaction counts although another transfer has claimed it.
UnboundHere(t, h) == h \notin confirmed[t]
Unbound(t, h) == \A s \in Transfers : h \notin confirmed[s]

\* What a receipt makes of the transfer, whatever was observed of it meanwhile.
ConfirmDeposit(t) ==
    /\ SetTransport(t, "DEPOSIT_CONFIRMED") /\ SetTransfer(t, "DESTINATION_CONFIRMED")
    /\ UNCHANGED <<request, overcharged>>
ConfirmRequest(t, h) ==
    /\ SetTransport(t, "RELEASE_REQUEST_CONFIRMED") /\ request' = [request EXCEPT ![t] = h]
    /\ \/ SetTransfer(t, "IN_FLIGHT") /\ UNCHANGED overcharged
       \/ SetTransfer(t, "MANUAL_REQUIRED") /\ overcharged' = overcharged \cup {t}
ConfirmExecution(t) ==
    /\ t \notin overcharged
    /\ SetTransport(t, "RELEASE_EXECUTION_CONFIRMED") /\ SetTransfer(t, "IN_FLIGHT")
    /\ UNCHANGED <<request, overcharged>>
ConfirmCancellation(t) ==
    /\ SetTransport(t, "RELEASE_CANCELLED") /\ SetTransfer(t, "FAILED_SOURCE_RESTORED")
    /\ UNCHANGED <<request, overcharged>>

\* The latest event is of the block's time now: facts recorded before may be as late, or not.
DatedByBlock(t) ==
    \E late \in SUBSET Locations :
        shows' = [l \in Locations |-> IF l \in late THEN shows[l] \cup {t} ELSE shows[l] \ {t}]

RecordReceipt(t, h) ==
    /\ transport[t] \in DOMAIN Kind /\ chain[h] = Event(Kind[transport[t]], request[t])
    /\ Unbound(t, h)
    /\ confirmed' = [confirmed EXCEPT ![t] = @ \cup {h}]
    /\ DatedByBlock(t)
    /\ CASE chain[h].kind = "DEPOSIT" -> ConfirmDeposit(t)
         [] chain[h].kind = "RELEASE_REQUEST" -> ConfirmRequest(t, h)
         [] chain[h].kind = "RELEASE_EXECUTION" -> ConfirmExecution(t)
         [] chain[h].kind = "RELEASE_CANCELLATION" -> ConfirmCancellation(t)
    /\ UNCHANGED <<untouched, preparing, chain, withdrawable, condition>>

-----------------------------------------------------------------------------
\* Facts, and what follows from them.  A fact that is not older than t's latest event has the
\* balance t leaves, or has not; other money may have made it so.
Settleable(t) ==
    \/ transfer[t] = "DESTINATION_CONFIRMED"
    \/ transfer[t] = "IN_FLIGHT" /\ transport[t] = "RELEASE_EXECUTION_CONFIRMED"

ReconcileCapitalTransfer(t) ==
    /\ Settleable(t)
    /\ \A l \in Locations : condition[l] # "UNKNOWN" /\ t \in shows[l]
    /\ SetTransfer(t, "SETTLED")
    /\ UNCHANGED <<untouched, stageVars, chain, factVars>>

FactBecomes(l, c) ==
    /\ \E amount \in 0 .. MaxBalance, which \in SUBSET Transfers :
        /\ withdrawable' = [withdrawable EXCEPT ![l] = amount]
        /\ shows' = [shows EXCEPT ![l] = which]
    /\ condition' = [condition EXCEPT ![l] = c]
    /\ UNCHANGED <<untouched, transfer, stageVars, chain>>

RecordBalance(l) == \E c \in Conditions : FactBecomes(l, c)

\* Of a vault of LIVE the chain says all there is to know, and nothing may be withdrawn from
\* one that is not controlled.
RecordVaultSnapshot == environment = "LIVE" /\ FactBecomes("VAULT", "READY")

besidesScope == <<environment, proposalVars, lapsed, authorization, transfer, stageVars, chain,
                  factVars>>

\* Positions or orders are open; none is; and every campaign is closed besides.
Trade ==
    /\ trading' \in {"OPEN", "FLAT", "CLOSED"} \ {trading}
    /\ UNCHANGED <<match, enabled, policy, besidesScope>>

ReconcileScope ==
    /\ match' = (trading # "OPEN")
    /\ UNCHANGED <<trading, enabled, policy, besidesScope>>

SetPolicy ==
    /\ environment = "TESTNET" /\ policy' = TRUE
    /\ UNCHANGED <<trading, match, enabled, besidesScope>>

SwitchCapability ==
    /\ \E k \in Capabilities :
        enabled' = IF k \in enabled THEN enabled \ {k} ELSE enabled \cup {k}
    /\ UNCHANGED <<trading, match, policy, besidesScope>>

\* Time passes the expiry of a proposal (its authorization goes first), or of a request.
Expires(t) ==
    /\ \/ proposal[t] # "NONE" /\ lapsed' = lapsed \cup {<<t, "PROPOSAL">>, <<t, "AUTHORIZATION">>}
       \/ authorization[t] # "NONE" /\ lapsed' = lapsed \cup {<<t, "AUTHORIZATION">>}
       \/ request[t] # Nobody /\ lapsed' = lapsed \cup {<<t, "REQUEST">>}
    /\ UNCHANGED <<environment, proposalVars, authorization, transfer, stageVars, chain, factVars,
                   tradingVars>>

TransferNext ==
    \/ \E t \in Transfers, p \in Persons :
        \/ CreateTransferProposal(t, p) \/ ReviewTransferProposal(t, p)
        \/ IssueTransferAuthorization(t, p) \/ CreateAutomationCandidate(t, p)
        \/ ReserveCapitalTransfer(t, p)
    \/ \E t \in Transfers :
        \/ SubmitTransferProposal(t) \/ RecordMockSubmission(t) \/ RecordObservation(t)
        \/ PrepareTransfer(t) \/ PrepareExecution(t) \/ RecordExecutionPlan(t)
        \/ PlanCancellation(t) \/ ReconcileCapitalTransfer(t) \/ Expires(t)
    \/ \E t \in Transfers, h \in Hashes : SignTransaction(t, h) \/ RecordReceipt(t, h)
    \/ \E l \in Locations : RecordBalance(l)
    \/ RecordVaultSnapshot \/ Trade \/ ReconcileScope \/ SetPolicy \/ SwitchCapability

TransferSpec == TransferInit /\ [][TransferNext]_capitalVars

-----------------------------------------------------------------------------
(* Type: every variable has its values. *)
TransferTypeOK ==
    /\ environment \in {"TESTNET", "LIVE"}
    /\ direction \in [Transfers -> {"VAULT_TO_VENUE", "VENUE_TO_VAULT"}]
    /\ purpose \in [Transfers -> {"MANUAL_TRANSFER", "AUTOMATIC"}]
    /\ proposer \in [Transfers -> Persons \cup {Nobody}]
    /\ proposal \in [Transfers -> {"NONE", "DRAFT", "PENDING_REVIEW", "APPROVED", "REJECTED"}]
    /\ votes \in [Transfers -> SUBSET Persons]
    /\ lapsed \subseteq Transfers \X {"PROPOSAL", "AUTHORIZATION", "REQUEST"}
    /\ authorization \in [Transfers -> {"NONE", "ACTIVE", "USED"}]
    /\ transfer \in [Transfers -> Occupied \cup {"NONE", "SETTLED", "FAILED_SOURCE_RESTORED"}]
    /\ transport \in [Transfers -> {"NONE", "DEPOSIT_CONFIRMED", "RELEASE_REQUEST_CONFIRMED",
                                    "RELEASE_EXECUTION_CONFIRMED", "RELEASE_CANCELLED"}
                                   \cup DOMAIN Kind]
    /\ request \in [Transfers -> Hashes \cup {Nobody}]
    /\ confirmed \in [Transfers -> SUBSET Hashes]
    /\ overcharged \subseteq Transfers /\ preparing \subseteq Transfers
    /\ \A h \in Hashes : chain[h].request \in Hashes \cup {Nobody}
    /\ withdrawable \in [Locations -> 0 .. MaxBalance]
    /\ condition \in [Locations -> Conditions]
    /\ shows \in [Locations -> SUBSET Transfers]
    /\ trading \in {"OPEN", "FLAT", "CLOSED"} /\ match \in BOOLEAN /\ policy \in BOOLEAN
    /\ enabled \subseteq Capabilities

(* One payment never completes two transfers, although deposits of one amount into one      *)
(* vault look alike and any hash may be handed in for any of them: what is confirmed as     *)
(* delivered has a transaction of its own (record_notilt_receipt).                          *)
PaidOnItsOwn ==
    \A t \in Transfers :
        transport[t] \in {"DEPOSIT_CONFIRMED", "RELEASE_EXECUTION_CONFIRMED"} =>
            \E h \in confirmed[t] :
                /\ chain[h].kind \in {"DEPOSIT", "RELEASE_EXECUTION"}
                /\ \A s \in Transfers \ {t} : h \notin confirmed[s]

(* Whoever proposes, approves, authorizes and reserves, and however transfers of one source *)
(* overlap: capital is taken only for what two others approved, and all that is neither     *)
(* settled nor given back fits into what the source's fact allows.                          *)
ReservesSoundly ==
    [][\A t \in Transfers : transfer[t] = "NONE" /\ transfer'[t] # "NONE" =>
        LET unsettled == {s \in Transfers : /\ Source(s) = Source(t)
                                            /\ transfer'[s] \notin {"NONE", "SETTLED",
                                                                    "FAILED_SOURCE_RESTORED"}}
        IN  /\ Cardinality(votes[t] \ {proposer[t]}) >= 2
            /\ Cardinality(unsettled) <= withdrawable[Source(t)]]_capitalVars
=============================================================================
