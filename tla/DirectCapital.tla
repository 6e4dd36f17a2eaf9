--------------------------- MODULE DirectCapital ---------------------------
(***************************************************************************)
(* What writes to Binance for the direct capital operations.               *)
(*                                                                         *)
(* A withdrawal is requested by a person: ClaimWithdrawal commits an       *)
(* outbox row before the request is sent, and its outcome is recorded      *)
(* under the version the claim produced.  A deposit is carried on by the   *)
(* workers of capital_runtime.py once it is due: a worker leases the       *)
(* operation, checks the deposit, claims the outbox row of the transfer    *)
(* from Spot to USD-M, sends it, and settles the operation when history    *)
(* shows the transfer.  Once the operation is no longer scheduled, a       *)
(* person may verify the deposit too; that call sends the transfer with    *)
(* neither outbox nor worker.                                              *)
(*                                                                         *)
(* A call may stop between any two of its transactions and requests.  A    *)
(* request may be executed and its answer lost.  History shows a transfer  *)
(* some time after it was made, and is searched by amount from an instant  *)
(* on: the one transfer found is taken to be the operation's.  Ops stands  *)
(* for operations of one account and one amount, which is where that       *)
(* matters.                                                                *)
(***************************************************************************)
EXTENDS CapitalOperation, Sequences, FiniteSets

CONSTANTS
    MaxAttempts,  \* checks of a deposit before it is given up: 10 in the code
    MaxPosts      \* bound on the transfers posted

ASSUME DirectCapitalAssumption ==
    /\ MaxAttempts \in Nat \ {0} /\ MaxPosts \in Nat
    /\ None \notin Ops

VARIABLES
    outbox,   \* the row of binance_capital_outbox: the withdrawal's or the transfer's
    pc, on,   \* where each call is, and with which operation
    token,    \* the token of its lease: a worker's own, or a request's idempotency key
    since,    \* the instant from which it searches history for its transfer
    writes,   \* requests sent under the outbox row of each operation
    posted,   \* transfers Binance executed, in order: the operations they were for
    shown,    \* those that history shows
    outboxAt, preparedAt  \* how many there were at the row's creation, at the latest preflight

callVars == <<pc, on, token, since>>
transferVars == <<posted, shown, outboxAt, preparedAt>>
vars == <<operationVars, outbox, callVars, writes, transferVars>>

Init ==
    /\ OperationInit
    /\ outbox = [o \in Ops |-> "NONE"]
    /\ pc = [c \in Calls |-> "idle"] /\ on = [c \in Calls |-> None]
    /\ token = [c \in Calls |-> None] /\ since = [c \in Calls |-> 0]
    /\ writes = [o \in Ops |-> 0]
    /\ posted = <<>> /\ shown = {}
    /\ outboxAt = [o \in Ops |-> 0] /\ preparedAt = [o \in Ops |-> 0]

-----------------------------------------------------------------------------
Goes(c, where) == pc' = [pc EXCEPT ![c] = where]
Begins(c, o, where, key, from) ==
    /\ pc' = [pc EXCEPT ![c] = where] /\ on' = [on EXCEPT ![c] = o]
    /\ token' = [token EXCEPT ![c] = key] /\ since' = [since EXCEPT ![c] = from]
\* The call ends, or its process stops.
Ends(c) == Begins(c, None, "idle", None, 0)
SetOutbox(o, s) == outbox' = [outbox EXCEPT ![o] = s]
IsFresh(c) == c \in fresh[on[c]]
Holds(c) == poll[on[c]] = token[c]
Release(o) == poll' = [poll EXCEPT ![o] = None] /\ leased' = leased \ {o}

elsewhere == <<writes, transferVars>>
-----------------------------------------------------------------------------
\* Withdrawals.  The row is committed before anything is sent, and never twice.
MayWithdraw(o) == outbox[o] = "NONE"

ClaimWithdrawal(c, o) ==
    /\ pc[c] = "idle"
    /\ path[o] = "BINANCE_TO_VAULT" /\ o \notin expired /\ gate = "ENABLED"
    /\ Has(o, "BINANCE_WITHDRAWAL", "PREVIEWED") /\ MayWithdraw(o)
    /\ SetOutbox(o, "ATTEMPTING")
    /\ SetStatus(o, "UNKNOWN", "UNKNOWN")
    /\ fresh' = [fresh EXCEPT ![o] = {c}]
    /\ Begins(c, o, "withdraw", None, 0)
    /\ UNCHANGED <<scopeVars, stages, plan, expired, pollVars, moved, gate, elsewhere>>

\* The request, with the transfer from USD-M to Spot that it may need first, is refused before
\* anything is sent, or sent; sent, it is answered with Binance's id of it, or not.
Withdraw(c) ==
    /\ pc[c] = "withdraw"
    /\ \/ Goes(c, "failed") /\ UNCHANGED writes
       \/ /\ Goes(c, "record") \/ Goes(c, "failed")
          /\ writes' = [writes EXCEPT ![on[c]] = @ + 1]
    /\ UNCHANGED <<operationVars, outbox, on, token, since, transferVars>>

\* Binance completes a withdrawal it was sent, however it answered, some time later.
WithdrawalCompletes(o) ==
    /\ path[o] = "BINANCE_TO_VAULT" /\ writes[o] > 0
    /\ moved' = [moved EXCEPT ![o] = @ \cup {"BINANCE_WITHDRAWAL"}]
    /\ UNCHANGED <<scopeVars, rowVars, expired, pollVars, fresh, gate, outbox, callVars, elsewhere>>

RecordSubmission(c) ==
    /\ pc[c] = "record" /\ Ends(c)
    /\ IF IsFresh(c) /\ outbox[on[c]] = "ATTEMPTING"
       THEN /\ SetOutbox(on[c], "CONFIRMED")
            /\ Enter(on[c], "BINANCE_WITHDRAWAL", "SUBMITTED")
            /\ SetStatus(on[c], "AWAITING_RECEIPT", "PENDING")
            /\ NewVersion(on[c])
       ELSE UNCHANGED <<outbox, stages, status, receipt, fresh>>
    /\ UNCHANGED <<scopeVars, plan, expired, pollVars, moved, gate, elsewhere>>

\* Fault: a failed request is taken for one that was never sent.
FailedReceiptAsUnsent == "NOT_SUBMITTED"
FailedReceipt == "UNKNOWN"

RecordFailure(c) ==
    /\ pc[c] = "failed" /\ path[on[c]] = "BINANCE_TO_VAULT" /\ Ends(c)
    /\ IF IsFresh(c) /\ outbox[on[c]] = "ATTEMPTING"
       THEN /\ SetOutbox(on[c], "UNKNOWN")
            /\ SetStatus(on[c], "UNKNOWN", FailedReceipt)
            /\ NewVersion(on[c])
       ELSE UNCHANGED <<outbox, status, receipt, fresh>>
    /\ UNCHANGED <<scopeVars, stages, plan, expired, pollVars, moved, gate, elsewhere>>

\* A person verifies the withdrawal: in Binance's ledger by the order's id, and on chain.
WithdrawalReceipt(o) ==
    /\ path[o] = "BINANCE_TO_VAULT" /\ AcceptsReceipt(o)
    /\ Has(o, "BINANCE_WITHDRAWAL", "SUBMITTED") /\ "BINANCE_WITHDRAWAL" \in moved[o]
    /\ Confirm(o, "BINANCE_WITHDRAWAL", "CONFIRMED")
    /\ SetStatus(o, "SETTLED", "CONFIRMED")
    /\ UNCHANGED <<scopeVars, plan, expired, pollVars, moved, gate, outbox, callVars, elsewhere>>

-----------------------------------------------------------------------------
\* Deposits.  What history shows of the amount since an instant.
InHistory(from) == {t \in shown : t > from}

\* Fault: a check is begun once more after the last.
AttemptsRemainAtLimit(o) == attempts[o] <= MaxAttempts
AttemptsRemain(o) == attempts[o] < MaxAttempts

\* A worker leases an operation that is due; one whose preflight or account is gone is given
\* up and left unknown.
ClaimDue(w) ==
    /\ w \in Workers /\ pc[w] = "idle"
    /\ \E o \in Ops :
        /\ path[o] = "VAULT_TO_BINANCE" /\ due[o] = "NOW" /\ AttemptsRemain(o)
        /\ status[o] = "AWAITING_RECEIPT" /\ receipt[o] = "PENDING" /\ o \notin leased
        /\ NewVersion(o)
        /\ \/ /\ SetStatus(o, "UNKNOWN", "UNKNOWN")
              /\ due' = [due EXCEPT ![o] = "NONE"]
              /\ UNCHANGED <<attempts, poll, leased, callVars>>
           \/ /\ Has(o, "BINANCE_DEPOSIT", "PREVIEWED")
              /\ poll' = [poll EXCEPT ![o] = w] /\ leased' = leased \cup {o}
              /\ attempts' = [attempts EXCEPT ![o] = @ + 1]
              /\ due' = [due EXCEPT ![o] = "LATER"]
              /\ Begins(w, o, "check", w, 0)
              /\ UNCHANGED <<status, receipt>>
    /\ UNCHANGED <<scopeVars, stages, plan, expired, moved, gate, outbox, elsewhere>>

\* Fault: an attempt that was interrupted is made again.
SubmitsAgain(o) == outbox[o] \in {"NONE", "ATTEMPTING"}
Submits(o) == outbox[o] = "NONE"

\* The worker has found the deposit and claims the transfer's row.  The first claim sends the
\* transfer; any later one only searches history for it.
ClaimTransfer(w) ==
    /\ w \in Workers /\ pc[w] = "check"
    /\ Holds(w) /\ gate = "ENABLED" /\ Delivery(on[w]) \in moved[on[w]]
    /\ outboxAt' = IF outbox[on[w]] = "NONE"
                   THEN [outboxAt EXCEPT ![on[w]] = Len(posted)] ELSE outboxAt
    /\ since' = [since EXCEPT ![w] = outboxAt'[on[w]]]
    /\ IF Submits(on[w]) THEN SetOutbox(on[w], "ATTEMPTING") /\ Goes(w, "look")
       ELSE IF outbox[on[w]] = "CONFIRMED" THEN UNCHANGED outbox /\ Goes(w, "confirm")
       ELSE SetOutbox(on[w], "UNKNOWN") /\ Goes(w, "reconcile")
    /\ UNCHANGED <<operationVars, on, token, writes, posted, shown, preparedAt>>

\* The deposit is not found, the gate is off, or the lease is lost.
CheckFails(w) ==
    /\ w \in Workers /\ pc[w] = "check" /\ Goes(w, "finish")
    /\ UNCHANGED <<operationVars, outbox, on, token, since, elsewhere>>

\* The stages a verification goes by, as its caller has read them.
Verifiable(o) == Has(o, Delivery(o), "SUBMITTED") /\ Has(o, "BINANCE_DEPOSIT", "PREVIEWED")

\* A person verifies a deposit that is not scheduled (any more).  Requests with one key share
\* one lease, which is taken before anything is checked.
AcquirePoll(c, o, key) ==
    /\ pc[c] = "idle" /\ path[o] = "VAULT_TO_BINANCE" /\ due[o] = "NONE"
    /\ poll[o] \in {None, key} \/ o \notin leased
    /\ poll' = [poll EXCEPT ![o] = key] /\ leased' = leased \cup {o}
    /\ fresh' = [fresh EXCEPT ![o] = @ \cup {c}]
    /\ Begins(c, o, IF Verifiable(o) THEN "look" ELSE "failed", key, preparedAt[o])
    /\ UNCHANGED <<scopeVars, rowVars, expired, due, attempts, moved, gate, outbox, elsewhere>>

\* Binance's history before the transfer is sent: one of the amount is taken for the
\* operation's, more than one is an error.  A person's call has found the deposit by then.
Look(c) ==
    /\ pc[c] = "look"
    /\ c \in Browsers => Delivery(on[c]) \in moved[on[c]]
    /\ Goes(c, CASE InHistory(since[c]) = {} -> "post"
                 [] Cardinality(InHistory(since[c])) = 1 -> "confirm"
                 [] OTHER -> "failed")
    /\ UNCHANGED <<operationVars, outbox, on, token, since, elsewhere>>

PostTransfer(c) ==
    /\ pc[c] = "post"
    /\ writes' = IF c \in Workers THEN [writes EXCEPT ![on[c]] = @ + 1] ELSE writes
    /\ \/ /\ Len(posted) < MaxPosts
          /\ posted' = Append(posted, on[c])
          /\ Goes(c, "reconcile") \/ Goes(c, "failed")
       \/ UNCHANGED posted /\ Goes(c, "failed")
    /\ UNCHANGED <<operationVars, outbox, on, token, since, shown, outboxAt, preparedAt>>

Reconcile(c) ==
    /\ pc[c] = "reconcile"
    /\ Goes(c, IF Cardinality(InHistory(since[c])) = 1 THEN "confirm" ELSE "failed")
    /\ UNCHANGED <<operationVars, outbox, on, token, since, elsewhere>>

\* A read or a request fails, or what was looked for is not there; or the call meets an error
\* nothing expected: then it does not even mark the outbox row.
Fails(c) ==
    /\ pc[c] \in {"look", "post", "reconcile", "confirm"}
    /\ Goes(c, "failed") \/ (c \in Workers /\ Goes(c, "finish"))
    /\ UNCHANGED <<operationVars, outbox, on, token, since, elsewhere>>

\* The worker settles the operation, if it still holds the lease.
ConfirmContinuation(w) ==
    /\ w \in Workers /\ pc[w] = "confirm"
    /\ IF Holds(w)
       THEN /\ SetOutbox(on[w], "CONFIRMED")
            /\ Enter(on[w], "BINANCE_DEPOSIT", "CONFIRMED")
            /\ SetStatus(on[w], "SETTLED", "CONFIRMED")
            /\ due' = [due EXCEPT ![on[w]] = "NONE"]
            /\ Release(on[w]) /\ NewVersion(on[w]) /\ Ends(w)
       ELSE /\ Goes(w, "failed")
            /\ UNCHANGED <<stages, status, receipt, due, poll, leased, fresh, outbox, on, token,
                           since>>
    /\ UNCHANGED <<scopeVars, plan, expired, attempts, moved, gate, elsewhere>>

Marks(o) == outbox[o] # "CONFIRMED"

\* No lease is needed to mark the outcome of the transfer unknown.
MarkUnknown(w) ==
    /\ w \in Workers /\ pc[w] = "failed" /\ Goes(w, "finish")
    /\ outbox' = IF outbox[on[w]] # "NONE" /\ Marks(on[w])
                 THEN [outbox EXCEPT ![on[w]] = "UNKNOWN"] ELSE outbox
    /\ UNCHANGED <<operationVars, on, token, since, elsewhere>>

\* The check ends without a result; after the last the deposit is given up.
FinishCheck(w) ==
    /\ w \in Workers /\ pc[w] = "finish" /\ Ends(w)
    /\ IF Holds(w)
       THEN /\ Release(on[w]) /\ NewVersion(on[w])
            /\ IF attempts[on[w]] >= MaxAttempts
               THEN /\ SetStatus(on[w], "UNKNOWN", "UNKNOWN")
                    /\ due' = [due EXCEPT ![on[w]] = "NONE"]
               ELSE UNCHANGED <<status, receipt, due>>
       ELSE UNCHANGED <<poll, leased, fresh, status, receipt, due>>
    /\ UNCHANGED <<scopeVars, stages, plan, expired, attempts, moved, gate, outbox, elsewhere>>

\* A person's call settles the operation, if nothing has changed it meanwhile.
RecordDeposit(c) ==
    /\ c \in Browsers /\ pc[c] = "confirm" /\ Goes(c, "finish")
    /\ IF IsFresh(c) /\ due[on[c]] = "NONE" /\ AcceptsReceipt(on[c])
       THEN /\ Confirm(on[c], "BINANCE_DEPOSIT", "CONFIRMED")
            /\ SetStatus(on[c], "SETTLED", "CONFIRMED")
       ELSE UNCHANGED <<stages, status, receipt, fresh>>
    /\ UNCHANGED <<scopeVars, plan, expired, pollVars, moved, gate, outbox, on, token, since,
                   elsewhere>>

\* However a person's check of a deposit ends, it gives back the lease.
ReleasePoll(c) ==
    /\ c \in Browsers /\ pc[c] \in {"failed", "finish"} /\ Ends(c)
    /\ path[on[c]] = "VAULT_TO_BINANCE"
    /\ IF Holds(c) THEN Release(on[c]) ELSE UNCHANGED <<poll, leased>>
    /\ fresh' = [fresh EXCEPT ![on[c]] = @ \ {c}]
    /\ UNCHANGED <<scopeVars, rowVars, expired, due, attempts, moved, gate, outbox, elsewhere>>

-----------------------------------------------------------------------------
Crash(c) ==
    /\ pc[c] # "idle" /\ Ends(c)
    /\ fresh' = [o \in Ops |-> fresh[o] \ {c}]
    /\ UNCHANGED <<scopeVars, rowVars, expired, pollVars, moved, gate, outbox, elsewhere>>

HistoryShows ==
    /\ \E t \in 1..Len(posted) : t \notin shown /\ shown' = shown \cup {t}
    /\ UNCHANGED <<operationVars, outbox, callVars, writes, posted, outboxAt, preparedAt>>

\* A preflight may clear the blocker of a withdrawal that was refused for want of credentials,
\* and of no other outcome that is unknown.
ClearsUnknown(o) == path[o] = "BINANCE_TO_VAULT" /\ outbox[o] = "UNKNOWN" /\ writes[o] = 0

\* Everything else that happens to the operations.  A preflight carries its instant.
Elsewhere ==
    \/ OperationNext /\ UNCHANGED <<outbox, callVars, elsewhere>>
    \/ \E o \in Ops :
        /\ RecordBinancePreview(o)
        /\ status[o] = "UNKNOWN" /\ ~ClearsUnknown(o) => status' = status
        /\ preparedAt' = [preparedAt EXCEPT ![o] = Len(posted)]
        /\ UNCHANGED <<outbox, callVars, writes, posted, shown, outboxAt>>
    \/ \E o \in Ops : WithdrawalReceipt(o) \/ WithdrawalCompletes(o)

WorkerStep(w) ==
    \/ ClaimDue(w) \/ ClaimTransfer(w) \/ CheckFails(w)
    \/ ConfirmContinuation(w) \/ MarkUnknown(w) \/ FinishCheck(w)

BrowserStep(c) ==
    \/ \E o \in Ops : ClaimWithdrawal(c, o)
    \/ \E o \in Ops, key \in Browsers : AcquirePoll(c, o, key)
    \/ Withdraw(c) \/ RecordSubmission(c) \/ RecordFailure(c)
    \/ RecordDeposit(c) \/ ReleasePoll(c)

CallStep(c) == Look(c) \/ PostTransfer(c) \/ Reconcile(c) \/ Fails(c) \/ Crash(c)

Next ==
    \/ \E w \in Workers : WorkerStep(w)
    \/ \E c \in Browsers : BrowserStep(c)
    \/ \E c \in Calls : CallStep(c)
    \/ HistoryShows \/ Elsewhere

Spec == Init /\ [][Next]_vars

-----------------------------------------------------------------------------
(* Type: every variable has its values, and no deposit is checked more often than allowed. *)
TypeOK ==
    /\ path \in [Ops -> Paths] /\ provider \in [Ops -> Providers]
    /\ stages \in [Ops -> SUBSET (Leg \X Recorded)]
    /\ plan \in [Ops -> {"NONE"} \cup Leg]
    /\ status \in [Ops -> Status] /\ receipt \in [Ops -> ReceiptStatus]
    /\ expired \subseteq Ops /\ leased \subseteq Ops
    /\ due \in [Ops -> {"NONE", "LATER", "NOW"}] /\ attempts \in [Ops -> 0..MaxAttempts]
    /\ poll \in [Ops -> Calls \cup {None}] /\ fresh \in [Ops -> SUBSET Calls]
    /\ moved \in [Ops -> SUBSET Effects] /\ gate \in {"ENABLED", "DISABLED"}
    /\ outbox \in [Ops -> {"NONE", "ATTEMPTING", "UNKNOWN", "CONFIRMED"}]
    /\ pc \in [Calls -> {"idle", "withdraw", "record", "failed", "check", "look", "post",
                         "reconcile", "confirm", "finish"}]
    /\ on \in [Calls -> Ops \cup {None}] /\ token \in [Calls -> Calls \cup {None}]
    /\ since \in [Calls -> 0..MaxPosts] /\ writes \in [Ops -> Nat]
    /\ posted \in Seq(Ops) /\ Len(posted) <= MaxPosts /\ shown \subseteq 1..Len(posted)
    /\ outboxAt \in [Ops -> 0..MaxPosts] /\ preparedAt \in [Ops -> 0..MaxPosts]

(* The fence of a withdrawal: whatever fails, stops or repeats, one operation sends Binance *)
(* at most one withdrawal request (claim_direct_capital_binance_withdrawal_submission).     *)
WithdrawnOnce == \A o \in Ops : path[o] = "BINANCE_TO_VAULT" => writes[o] <= 1

(* The fence of the workers' transfer: however many workers check a deposit, and however    *)
(* often they are interrupted, they send at most one transfer for it.                       *)
ContinuedOnce == \A o \in Ops : path[o] = "VAULT_TO_BINANCE" => writes[o] <= 1

(* Both fences: no operation has two requests to move money sent under an outbox row.  The  *)
(* transfer of a person's verification is sent without one, and is not among them.          *)
SentOnce == WithdrawnOnce /\ ContinuedOnce

(* The outbox row is a fence written ahead of both: it is committed before the request is   *)
(* sent, the instant from which history is searched for the request never changes, and the  *)
(* request is sent at most once.                                                            *)
CapitalJournal ==
    INSTANCE WriteAhead
    WITH Keys <- Ops, Records <- 0..MaxPosts, effects <- writes,
         journal <- [o \in Ops |-> IF outbox[o] = "NONE" THEN {} ELSE {outboxAt[o]}]

ImplementsWriteAhead == CapitalJournal!Spec

(* An operation that says nothing was submitted sent no withdrawal: a failed or interrupted *)
(* request leaves its outcome unknown.                                                      *)
NotSubmittedIsUnsent ==
    \A o \in Ops : path[o] = "BINANCE_TO_VAULT" /\ receipt[o] = "NOT_SUBMITTED" => writes[o] = 0

(* What must have happened for the funds to be where the path ends. *)
Needed(o) ==
    CASE path[o] = "VAULT_TO_BINANCE" -> {Delivery(o)}
      [] path[o] = "BINANCE_TO_VAULT" -> {"BINANCE_WITHDRAWAL"}
      [] path[o] = "VAULT_TO_HYPERLIQUID" ->
            {"TREASURY_WITHDRAWAL", "HYPERLIQUID_DEPOSIT", "LEDGER_ENTRY"}
      [] path[o] = "HYPERLIQUID_TO_VAULT" ->
            {"HYPERLIQUID_WITHDRAWAL", "LEDGER_ENTRY"} \cup
            (IF provider[o] = "NOTILT_VAULT" THEN {"TREASURY_DEPOSIT"} ELSE {})

(* Settlement is never ahead of the money: in whatever order the receipts of the legs are   *)
(* verified, a settled operation has moved its funds all the way.                           *)
SettledIsMoved == \A o \in Ops : status[o] = "SETTLED" => Needed(o) \subseteq moved[o]

(* A confirmed request to Binance stays confirmed, whichever worker, overtaken or late,     *)
(* reports what.                                                                            *)
ConfirmationStays ==
    [][\A o \in Ops : outbox[o] = "CONFIRMED" => outbox'[o] = "CONFIRMED"]_vars
=============================================================================
