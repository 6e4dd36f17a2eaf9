------------------------- MODULE CapitalOperation -------------------------
(***************************************************************************)
(* Direct capital operations: the rows of direct_capital_operations and    *)
(* every handler by which people move them on: unsigned previews, results  *)
(* of their wallets, receipts verified on chain or in a venue's ledger.    *)
(*                                                                         *)
(* Each handler is one transaction under the row's lock.  It is called     *)
(* with the version its caller read and refuses any other, so what a       *)
(* version is for is only this: has the operation changed since?           *)
(* fresh[o] holds the calls in progress for which it has not.  Calls that  *)
(* only read between reading the version and recording are one step.       *)
(*                                                                         *)
(* The list of stages is only ever appended to and searched, so it is a    *)
(* set of pairs of a leg of the path and what is recorded of it; of the    *)
(* wallet requests for Hyperliquid, where the latest counts, plan is the   *)
(* latest.  Which blockers remain is left open: a preview that finds none  *)
(* makes the plan ready.  Amounts, addresses and the expiry of previews    *)
(* may refuse a call at any time and need no state.                        *)
(***************************************************************************)
EXTENDS Integers

CONSTANTS
    Ops,            \* operations
    Paths, Providers,  \* the paths and treasuries operations are created with
    Workers,        \* replicas of the continuation worker
    Browsers,       \* requests of people that write to Binance
    None

Calls == Workers \cup Browsers

ASSUME CapitalAssumption ==
    /\ Paths \subseteq {"VAULT_TO_BINANCE", "VAULT_TO_HYPERLIQUID", "BINANCE_TO_VAULT",
                        "HYPERLIQUID_TO_VAULT"}
    /\ Providers \subseteq {"SAFE_SPENDING_LIMIT", "NOTILT_VAULT"}
    /\ Workers \cap Browsers = {}
    /\ None \notin Calls

Leg ==
    {"TREASURY_WITHDRAWAL", "NOTILT_RELEASE_REQUEST", "NOTILT_RELEASE_EXECUTION",
     "NOTILT_DESTINATION_TRANSFER", "TREASURY_DEPOSIT", "HYPERLIQUID_DEPOSIT",
     "HYPERLIQUID_WITHDRAWAL", "HYPERLIQUID_CLASS_TRANSFER", "BINANCE_DEPOSIT",
     "BINANCE_WITHDRAWAL"}
\* What really happens: to each leg on chain or at the venue, and in the ledger of Hyperliquid,
\* where a deposit appears after, and a withdrawal before, it is on chain.
Effects == Leg \cup {"LEDGER_ENTRY"}
\* What is looked for; attempts, cancellations and exhaustion are recorded and never read.
Recorded == {"PREVIEWED", "SUBMITTED", "LEDGER", "ARBITRUM", "CONFIRMED"}
Status == {"BLOCKED", "UNSIGNED_PLAN_READY", "AWAITING_RECEIPT", "UNKNOWN", "SETTLED"}
ReceiptStatus == {"NOT_SUBMITTED", "PENDING", "UNKNOWN", "CONFIRMED"}

VARIABLES
    path, provider,  \* frozen when the operation is created
    stages, plan, status, receipt,
    expired,    \* operations past expires_at
    due,        \* receipt_next_due_at: "NONE", "LATER" or "NOW"
    attempts,   \* receipt_attempt_count
    poll,       \* receipt_poll_token: the call that holds the lease
    leased,     \* operations whose lease of 90 seconds has not lapsed
    fresh,      \* calls whose version of the operation is still current
    moved,      \* what has happened, of the effects
    gate        \* the CAPITAL_TRANSFER gate

scopeVars == <<path, provider>>
rowVars == <<stages, plan, status, receipt>>
pollVars == <<due, attempts, poll, leased>>
operationVars == <<scopeVars, rowVars, expired, pollVars, fresh, moved, gate>>

OperationInit ==
    /\ path \in [Ops -> Paths] /\ provider \in [Ops -> Providers]
    /\ stages = [o \in Ops |-> {}] /\ plan = [o \in Ops |-> "NONE"]
    /\ status = [o \in Ops |-> "BLOCKED"] /\ receipt = [o \in Ops |-> "NOT_SUBMITTED"]
    /\ expired = {} /\ leased = {}
    /\ due = [o \in Ops |-> "NONE"] /\ attempts = [o \in Ops |-> 0]
    /\ poll = [o \in Ops |-> None] /\ fresh = [o \in Ops |-> {}]
    /\ moved = [o \in Ops |-> {}] /\ gate \in {"ENABLED", "DISABLED"}

-----------------------------------------------------------------------------
Outbound(o) == path[o] \in {"VAULT_TO_BINANCE", "VAULT_TO_HYPERLIQUID"}
Has(o, leg, what) == <<leg, what>> \in stages[o]

\* Append a stage, change the statuses, and raise the version.
Enter(o, leg, what) == stages' = [stages EXCEPT ![o] = @ \cup {<<leg, what>>}]
SetStatus(o, s, r) ==
    /\ status' = [status EXCEPT ![o] = s]
    /\ receipt' = [receipt EXCEPT ![o] = r]
NewVersion(o) == fresh' = [fresh EXCEPT ![o] = {}]

\* A confirmation is recorded once; the version rises only then.
Confirm(o, leg, what) ==
    /\ Enter(o, leg, what)
    /\ fresh' = IF Has(o, leg, what) THEN fresh ELSE [fresh EXCEPT ![o] = {}]

\* The plan is ready if the preview leaves no blocker, whatever the status was.
ReadyIfUnblocked(o) ==
    /\ UNCHANGED status \/ status' = [status EXCEPT ![o] = "UNSIGNED_PLAN_READY"]
    /\ UNCHANGED receipt

Preview(o, leg) ==
    /\ o \notin expired
    /\ Enter(o, leg, "PREVIEWED")
    /\ NewVersion(o)
    /\ UNCHANGED <<scopeVars, expired, pollVars, moved, gate>>

RecordUnsignedPreview(o) ==
    /\ provider[o] = "NOTILT_VAULT" /\ path[o] # "BINANCE_TO_VAULT"
    /\ \/ Preview(o, IF Outbound(o) THEN "TREASURY_WITHDRAWAL" ELSE "TREASURY_DEPOSIT")
       \/ /\ Outbound(o) /\ Has(o, "NOTILT_RELEASE_REQUEST", "CONFIRMED")
          /\ Preview(o, "NOTILT_RELEASE_EXECUTION")
    /\ UNCHANGED <<plan, status, receipt>>

RecordNotiltDestinationPreview(o) ==
    /\ provider[o] = "NOTILT_VAULT" /\ path[o] = "VAULT_TO_BINANCE"
    /\ Has(o, "NOTILT_RELEASE_EXECUTION", "CONFIRMED")
    /\ Preview(o, "NOTILT_DESTINATION_TRANSFER")
    /\ status' = [status EXCEPT ![o] = "UNSIGNED_PLAN_READY"]
    /\ UNCHANGED <<plan, receipt>>

\* It clears none of the blockers of an outcome that is unknown.
RecordSafePreview(o) ==
    /\ provider[o] = "SAFE_SPENDING_LIMIT" /\ path[o] # "BINANCE_TO_VAULT"
    /\ Preview(o, IF Outbound(o) THEN "TREASURY_WITHDRAWAL" ELSE "TREASURY_DEPOSIT")
    /\ ReadyIfUnblocked(o) /\ (status[o] = "UNKNOWN" => status' = status)
    /\ UNCHANGED plan

RecordBinancePreview(o) ==
    /\ \/ path[o] = "VAULT_TO_BINANCE" /\ Preview(o, "BINANCE_DEPOSIT")
       \/ path[o] = "BINANCE_TO_VAULT" /\ Preview(o, "BINANCE_WITHDRAWAL")
    /\ ReadyIfUnblocked(o)
    /\ UNCHANGED plan

HyperliquidLegs(o) ==
    CASE path[o] = "VAULT_TO_HYPERLIQUID" -> {"HYPERLIQUID_DEPOSIT"}
      [] path[o] = "HYPERLIQUID_TO_VAULT" ->
            {"HYPERLIQUID_WITHDRAWAL", "HYPERLIQUID_CLASS_TRANSFER"}
      [] OTHER -> {}

\* A deposit is prepared when the treasury's transfer is confirmed; nothing is prepared
\* once a wallet has submitted.
RecordHyperliquidPreview(o, leg) ==
    /\ leg \in HyperliquidLegs(o) /\ gate = "ENABLED"
    /\ leg = "HYPERLIQUID_DEPOSIT" => Has(o, "TREASURY_WITHDRAWAL", "CONFIRMED")
    /\ \A l \in HyperliquidLegs(o) : ~Has(o, l, "SUBMITTED")
    /\ Preview(o, leg)
    /\ plan' = [plan EXCEPT ![o] = leg]
    /\ status' = [status EXCEPT ![o] = "UNSIGNED_PLAN_READY"]
    /\ UNCHANGED receipt

-----------------------------------------------------------------------------
WalletLegs(o) ==
    HyperliquidLegs(o) \cup
    CASE path[o] = "VAULT_TO_BINANCE" ->
            {"TREASURY_WITHDRAWAL", "NOTILT_RELEASE_EXECUTION", "NOTILT_DESTINATION_TRANSFER"}
      [] path[o] = "VAULT_TO_HYPERLIQUID" -> {"TREASURY_WITHDRAWAL", "NOTILT_RELEASE_EXECUTION"}
      [] path[o] = "HYPERLIQUID_TO_VAULT" -> {"TREASURY_DEPOSIT"}
      [] OTHER -> {}

\* The transfer that delivers the funds to Binance.
Delivery(o) ==
    IF provider[o] = "NOTILT_VAULT" THEN "NOTILT_DESTINATION_TRANSFER" ELSE "TREASURY_WITHDRAWAL"

Previewed(o, leg) ==
    IF leg \in HyperliquidLegs(o) THEN plan[o] # "NONE" ELSE Has(o, leg, "PREVIEWED")

\* A person reports that the wallet has sent a transaction; the delivery to Binance is
\* scheduled for the worker.
WalletSubmitted(o, leg) ==
    /\ leg \in WalletLegs(o) /\ o \notin expired /\ gate = "ENABLED"
    /\ ~Has(o, leg, "SUBMITTED") /\ Previewed(o, leg)
    /\ leg \in HyperliquidLegs(o) => plan[o] = leg
    /\ leg = "NOTILT_RELEASE_EXECUTION" => Has(o, "NOTILT_RELEASE_REQUEST", "CONFIRMED")
    /\ Enter(o, leg, "SUBMITTED")
    /\ SetStatus(o, "AWAITING_RECEIPT", "PENDING")
    /\ IF path[o] = "VAULT_TO_BINANCE" /\ leg = Delivery(o)
       THEN due' = [due EXCEPT ![o] = "LATER"] /\ attempts' = [attempts EXCEPT ![o] = 0]
       ELSE UNCHANGED <<due, attempts>>
    /\ NewVersion(o)
    /\ UNCHANGED <<scopeVars, plan, expired, poll, leased, moved, gate>>

WalletCancelled(o, leg) ==
    /\ leg \in WalletLegs(o) /\ o \notin expired /\ Previewed(o, leg)
    /\ SetStatus(o, "BLOCKED", "NOT_SUBMITTED")
    /\ NewVersion(o)
    /\ UNCHANGED <<scopeVars, stages, plan, expired, pollVars, moved, gate>>

-----------------------------------------------------------------------------
\* Expired operations accept receipts only of what was submitted before.
AcceptsReceipt(o) == o \in expired => status[o] = "AWAITING_RECEIPT"

receiptFrame == <<scopeVars, plan, expired, pollVars, moved, gate>>

TreasuryWithdrawalReceipt(o) ==
    /\ provider[o] = "SAFE_SPENDING_LIMIT" /\ Outbound(o)
    /\ path[o] = "VAULT_TO_BINANCE" => Has(o, "BINANCE_DEPOSIT", "PREVIEWED")
    /\ Has(o, "TREASURY_WITHDRAWAL", "SUBMITTED") /\ "TREASURY_WITHDRAWAL" \in moved[o]
    /\ Confirm(o, "TREASURY_WITHDRAWAL", "CONFIRMED")
    /\ SetStatus(o, "AWAITING_RECEIPT", "PENDING")
    /\ UNCHANGED receiptFrame

\* The release's request, or, once its execution is submitted, its execution.
NotiltReceipt(o) ==
    /\ provider[o] = "NOTILT_VAULT" /\ Outbound(o) /\ o \notin expired
    /\ IF Has(o, "NOTILT_RELEASE_EXECUTION", "SUBMITTED")
       THEN /\ "NOTILT_RELEASE_EXECUTION" \in moved[o]
            /\ Has(o, "NOTILT_RELEASE_REQUEST", "CONFIRMED")
            /\ Confirm(o, "NOTILT_RELEASE_EXECUTION", "CONFIRMED")
       ELSE /\ Has(o, "TREASURY_WITHDRAWAL", "SUBMITTED") /\ "TREASURY_WITHDRAWAL" \in moved[o]
            /\ Confirm(o, "NOTILT_RELEASE_REQUEST", "CONFIRMED")
    /\ SetStatus(o, "AWAITING_RECEIPT", "PENDING")
    /\ UNCHANGED receiptFrame

TreasuryReceipt(o) ==
    /\ path[o] = "HYPERLIQUID_TO_VAULT" /\ AcceptsReceipt(o)
    /\ Has(o, "TREASURY_DEPOSIT", "SUBMITTED") /\ "TREASURY_DEPOSIT" \in moved[o]
    /\ Confirm(o, "TREASURY_DEPOSIT", "CONFIRMED")
    /\ IF \A how \in {"LEDGER", "ARBITRUM"} : Has(o, "HYPERLIQUID_WITHDRAWAL", how)
       THEN SetStatus(o, "SETTLED", "CONFIRMED")
       ELSE SetStatus(o, "AWAITING_RECEIPT", "PENDING")
    /\ UNCHANGED receiptFrame

\* Fault: the ledger and the chain settle a withdrawal that has yet to reach the vault.
TreasurySettlesAlways(o) == TRUE

\* The treasury's side, without which the venue's receipts settle nothing.
TreasurySettles(o) ==
    \/ path[o] = "VAULT_TO_HYPERLIQUID" /\ Has(o, "TREASURY_WITHDRAWAL", "CONFIRMED")
    \/ /\ path[o] = "HYPERLIQUID_TO_VAULT"
       /\ provider[o] = "SAFE_SPENDING_LIMIT" \/ Has(o, "TREASURY_DEPOSIT", "CONFIRMED")

\* What each kind of receipt looks for: a deposit's entry in the ledger and a withdrawal's credit
\* on chain may be found by amount and time alone.  A class transfer is only booked.
Effect(leg, how) ==
    IF how = "LEDGER" /\ leg # "HYPERLIQUID_CLASS_TRANSFER" THEN "LEDGER_ENTRY" ELSE leg

HyperliquidReceipt(o, leg, how) ==
    /\ leg \in HyperliquidLegs(o) /\ AcceptsReceipt(o)
    /\ leg = "HYPERLIQUID_CLASS_TRANSFER" => how = "LEDGER"
    /\ Has(o, leg, "SUBMITTED") /\ Effect(leg, how) \in moved[o]
    /\ Confirm(o, leg, how)
    /\ IF leg = "HYPERLIQUID_CLASS_TRANSFER" THEN SetStatus(o, "BLOCKED", "CONFIRMED")
       ELSE IF Has(o, leg, CHOOSE h \in {"LEDGER", "ARBITRUM"} : h # how) /\ TreasurySettles(o)
       THEN SetStatus(o, "SETTLED", "CONFIRMED")
       ELSE SetStatus(o, "AWAITING_RECEIPT", "PENDING")
    /\ UNCHANGED receiptFrame

-----------------------------------------------------------------------------
\* Outside: a submitted transaction takes effect, time passes, the gate is switched.
Moves(o, leg, how) ==
    /\ leg \in WalletLegs(o) /\ Has(o, leg, "SUBMITTED")
    /\ how = "LEDGER" => leg \in HyperliquidLegs(o)
    /\ moved' = [moved EXCEPT ![o] = @ \cup {Effect(leg, how)}]
    /\ UNCHANGED <<scopeVars, rowVars, expired, pollVars, fresh, gate>>

Expire(o) ==
    /\ o \notin expired
    /\ expired' = expired \cup {o}
    /\ UNCHANGED <<scopeVars, rowVars, pollVars, fresh, moved, gate>>

LeaseLapses(o) ==
    /\ o \in leased
    /\ leased' = leased \ {o}
    /\ UNCHANGED <<scopeVars, rowVars, expired, due, attempts, poll, fresh, moved, gate>>

\* The worker's lease, taken five minutes before, has lapsed by then.
ComesDue(o) ==
    /\ due[o] = "LATER" /\ o \notin leased
    /\ due' = [due EXCEPT ![o] = "NOW"]
    /\ UNCHANGED <<scopeVars, rowVars, expired, attempts, poll, leased, fresh, moved, gate>>

SwitchGate ==
    /\ gate' = IF gate = "ENABLED" THEN "DISABLED" ELSE "ENABLED"
    /\ UNCHANGED <<scopeVars, rowVars, expired, pollVars, fresh, moved>>

OperationNext ==
    \/ \E o \in Ops :
        \/ RecordUnsignedPreview(o) \/ RecordNotiltDestinationPreview(o)
        \/ RecordSafePreview(o)
        \/ \E leg \in HyperliquidLegs(o) : RecordHyperliquidPreview(o, leg)
        \/ \E leg \in WalletLegs(o) :
            \/ WalletSubmitted(o, leg) \/ WalletCancelled(o, leg)
            \/ \E how \in {"LEDGER", "ARBITRUM"} : Moves(o, leg, how)
        \/ TreasuryWithdrawalReceipt(o) \/ NotiltReceipt(o) \/ TreasuryReceipt(o)
        \/ \E leg \in HyperliquidLegs(o), how \in {"LEDGER", "ARBITRUM"} :
            HyperliquidReceipt(o, leg, how)
        \/ Expire(o) \/ LeaseLapses(o) \/ ComesDue(o)
    \/ SwitchGate
=============================================================================
