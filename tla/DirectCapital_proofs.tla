------------------------ MODULE DirectCapital_proofs ------------------------
(***************************************************************************)
(* Proofs about DirectCapital and Transfers, for any operations, workers,  *)
(* requests, transfers, people and bounds.                                 *)
(*                                                                         *)
(* That no operation has two requests sent under its outbox row is not     *)
(* inductive: what keeps it is that a call that is about to send one       *)
(* stands alone, found the row missing, created it, and has yet to send.   *)
(* Fence says so of withdrawals and transfers at once.  What else is       *)
(* proved has its argument where it begins.                                *)
(***************************************************************************)
EXTENDS MCDirectCapital, FiniteSetTheorems, TLAPS

OutboxStatus == {"NONE", "ATTEMPTING", "UNKNOWN", "CONFIRMED"}
Place == {"idle", "withdraw", "record", "failed", "check", "look", "post", "reconcile",
          "confirm", "finish"}

\* The part of the type invariant the proofs need.
Types ==
    /\ outbox \in [Ops -> OutboxStatus]
    /\ pc \in [Calls -> Place] /\ on \in [Calls -> Ops \cup {None}]
    /\ writes \in [Ops -> Nat]
    /\ \A c \in Calls : pc[c] # "idle" => on[c] \in Ops

\* Calls that will send a request under an outbox row before they do anything else with it.
Sends(c) == pc[c] = "withdraw" \/ (c \in Workers /\ pc[c] \in {"look", "post"})

Fence ==
    /\ \A o \in Ops : writes[o] <= 1 /\ (outbox[o] = "NONE" => writes[o] = 0)
    /\ \A c \in Calls : Sends(c) => outbox[on[c]] # "NONE" /\ writes[on[c]] = 0
    /\ \A c, d \in Calls : Sends(c) /\ Sends(d) /\ on[c] = on[d] => c = d

Inv == Types /\ Fence

fenceVars == <<outbox, pc, on, writes>>

\* What people do with an operation changes no outbox row and no call.
LEMMA OperationKeepsFence == Elsewhere => UNCHANGED fenceVars
<1> SUFFICES ASSUME Elsewhere PROVE UNCHANGED fenceVars
  OBVIOUS
<1>1. CASE OperationNext /\ UNCHANGED <<outbox, callVars, elsewhere>>
  BY <1>1 DEF fenceVars, callVars, elsewhere
<1>2. ASSUME NEW o \in Ops, UNCHANGED <<outbox, callVars, writes, posted, shown, outboxAt>>
      PROVE  UNCHANGED fenceVars
  BY <1>2 DEF fenceVars, callVars
<1>3. ASSUME NEW o \in Ops, WithdrawalReceipt(o) \/ WithdrawalCompletes(o)
      PROVE  UNCHANGED fenceVars
  BY <1>3 DEF WithdrawalReceipt, WithdrawalCompletes, fenceVars, callVars, elsewhere
<1> QED
  BY <1>1, <1>2, <1>3 DEF Elsewhere

LEMMA InitInv == Init => Inv
  BY DirectCapitalAssumption
  DEF Init, Inv, Types, Fence, Sends, OutboxStatus, Place, Calls

\* A call moves to a place where it sends nothing, and no row is touched.
LEMMA Passes ==
    ASSUME Inv, NEW c \in Calls, NEW p \in Place,
           pc' = [pc EXCEPT ![c] = p], UNCHANGED on, p = "idle" \/ pc[c] # "idle",
           p \in {"withdraw", "look", "post"} => c \notin Workers \/ Sends(c),
           p # "withdraw",
           outbox' \in [Ops -> OutboxStatus],
           \A o \in Ops : outbox[o] # "NONE" => outbox'[o] # "NONE",
           UNCHANGED writes
    PROVE  Inv'
<1>1. Types'
  BY DEF Inv, Types, Calls
<1>2. \A d \in Calls : Sends(d)' => Sends(d)
  BY DEF Inv, Types, Sends
<1>3. \A d \in Calls : Sends(d) => on[d] \in Ops
  BY DEF Inv, Types, Sends
<1> QED
  BY <1>1, <1>2, <1>3 DEF Inv, Fence

\* A call ends.
LEMMA Leaves ==
    ASSUME Inv, NEW c \in Calls, Ends(c),
           outbox' \in [Ops -> OutboxStatus],
           \A o \in Ops : outbox[o] # "NONE" => outbox'[o] # "NONE",
           UNCHANGED writes
    PROVE  Inv'
<1>1. Types'
  BY DEF Inv, Types, Ends, Begins, Place
<1>2. \A d \in Calls : Sends(d)' => Sends(d) /\ on'[d] = on[d]
  BY DEF Inv, Types, Sends, Ends, Begins
<1>3. \A d \in Calls : Sends(d) => on[d] \in Ops
  BY DEF Inv, Types, Sends
<1> QED
  BY <1>1, <1>2, <1>3 DEF Inv, Fence

\* A call takes up an operation, to send nothing yet.
LEMMA TakesUp ==
    ASSUME Inv, NEW c \in Calls, NEW o \in Ops, NEW p \in {"check", "look", "failed"},
           NEW key, NEW from, Begins(c, o, p, key, from), p = "look" => c \notin Workers,
           UNCHANGED <<outbox, writes>>
    PROVE  Inv'
<1>1. Types'
  BY DEF Inv, Types, Begins, Place
<1>2. \A d \in Calls : Sends(d)' => Sends(d) /\ on'[d] = on[d]
  BY DEF Inv, Types, Sends, Begins
<1>3. \A d \in Calls : Sends(d) => on[d] \in Ops
  BY DEF Inv, Types, Sends
<1> QED
  BY <1>1, <1>2, <1>3 DEF Inv, Fence

\* A call creates the row of an operation, and is the only one to send under it.
LEMMA Creates ==
    ASSUME Inv, NEW c \in Calls, NEW o \in Ops, NEW p \in {"withdraw", "look"},
           outbox[o] = "NONE", SetOutbox(o, "ATTEMPTING"),
           pc' = [pc EXCEPT ![c] = p], on' = [on EXCEPT ![c] = o],
           UNCHANGED writes
    PROVE  Inv'
<1>1. Types'
  BY DEF Inv, Types, SetOutbox, Place, OutboxStatus
<1>2. \A d \in Calls : Sends(d) => on[d] \in Ops /\ on[d] # o
  BY DEF Inv, Types, Sends, Fence
<1>3. \A d \in Calls \ {c} : Sends(d)' => Sends(d) /\ on'[d] = on[d]
  BY DEF Inv, Types, Sends
<1>4. on'[c] = o
  BY DEF Inv, Types
<1>5. outbox'[o] # "NONE" /\ \A a \in Ops : a # o => outbox'[a] = outbox[a]
  BY DEF Inv, Types, SetOutbox
<1>6. writes[o] = 0
  BY DEF Inv, Fence
<1>7. \A a \in Ops : writes'[a] <= 1 /\ (outbox'[a] = "NONE" => writes'[a] = 0)
  BY <1>5 DEF Inv, Fence
<1>8. \A d \in Calls : Sends(d)' => outbox'[on'[d]] # "NONE" /\ writes'[on'[d]] = 0
  BY <1>2, <1>3, <1>4, <1>5, <1>6 DEF Inv, Fence
<1>9. \A d, e \in Calls : Sends(d)' /\ Sends(e)' /\ on'[d] = on'[e] => d = e
  BY <1>2, <1>3, <1>4 DEF Inv, Fence
<1> QED
  BY <1>1, <1>7, <1>8, <1>9 DEF Inv, Fence

\* A call sends its request, and sends no other.
LEMMA SendsOne ==
    ASSUME Inv, NEW c \in Calls, Sends(c), NEW p \in {"record", "failed", "reconcile"},
           pc' = [pc EXCEPT ![c] = p], writes' = [writes EXCEPT ![on[c]] = @ + 1],
           UNCHANGED <<outbox, on>>
    PROVE  Inv'
<1>1. on[c] \in Ops /\ writes[on[c]] = 0 /\ outbox[on[c]] # "NONE"
  BY DEF Inv, Types, Sends, Fence
<1>2. Types'
  BY <1>1 DEF Inv, Types, Place
<1>3. \A d \in Calls : Sends(d)' => Sends(d) /\ d # c
  BY DEF Inv, Types, Sends
<1>4. \A d \in Calls : Sends(d)' => on[d] \in Ops /\ on[d] # on[c]
  BY <1>3 DEF Inv, Types, Sends, Fence
<1>5. writes'[on[c]] = 1 /\ \A a \in Ops : a # on[c] => writes'[a] = writes[a]
  BY <1>1 DEF Inv, Types
<1> QED
  BY <1>1, <1>2, <1>3, <1>4, <1>5 DEF Inv, Fence

-----------------------------------------------------------------------------
LEMMA BrowserKeepsInv ==
    ASSUME Inv, NEW c \in Browsers, BrowserStep(c)
    PROVE  Inv'
<1> c \in Calls /\ c \notin Workers
  BY CapitalAssumption DEF Calls
<1>1. ASSUME NEW o \in Ops, ClaimWithdrawal(c, o)
      PROVE  Inv'
  <2>1. outbox[o] = "NONE" /\ SetOutbox(o, "ATTEMPTING") /\ UNCHANGED writes
    BY <1>1 DEF ClaimWithdrawal, MayWithdraw, elsewhere
  <2>2. pc' = [pc EXCEPT ![c] = "withdraw"] /\ on' = [on EXCEPT ![c] = o]
    BY <1>1 DEF ClaimWithdrawal, Begins
  <2> QED
    BY <2>1, <2>2, Creates
<1>2. ASSUME NEW o \in Ops, NEW key \in Browsers, AcquirePoll(c, o, key)
      PROVE  Inv'
  <2>1. (IF Verifiable(o) THEN "look" ELSE "failed") \in {"check", "look", "failed"}
    OBVIOUS
  <2> QED
    BY <1>2, <2>1, TakesUp DEF AcquirePoll, elsewhere
<1>3. CASE Withdraw(c)
  <2>1. Sends(c) /\ UNCHANGED <<outbox, on>>
    BY <1>3 DEF Withdraw, Sends
  <2>2. CASE Goes(c, "failed") /\ UNCHANGED writes
    BY <1>3, <2>1, <2>2, Passes DEF Withdraw, Goes, Inv, Types, Place
  <2>3. ASSUME NEW p \in {"record", "failed"}, Goes(c, p),
               writes' = [writes EXCEPT ![on[c]] = @ + 1]
        PROVE  Inv'
    BY <2>1, <2>3, SendsOne DEF Goes
  <2> QED
    BY <1>3, <2>2, <2>3 DEF Withdraw
<1>4. CASE RecordSubmission(c)
  <2>1. outbox' \in [Ops -> OutboxStatus] /\ Ends(c) /\ UNCHANGED writes
    BY <1>4 DEF RecordSubmission, elsewhere, SetOutbox, Inv, Types, OutboxStatus
  <2>2. \A o \in Ops : outbox[o] # "NONE" => outbox'[o] # "NONE"
    BY <1>4 DEF RecordSubmission, SetOutbox, Inv, Types
  <2> QED
    BY <2>1, <2>2, Leaves
<1>5. CASE RecordFailure(c)
  <2>1. outbox' \in [Ops -> OutboxStatus] /\ Ends(c) /\ UNCHANGED writes
    BY <1>5 DEF RecordFailure, elsewhere, SetOutbox, Inv, Types, OutboxStatus
  <2>2. \A o \in Ops : outbox[o] # "NONE" => outbox'[o] # "NONE"
    BY <1>5 DEF RecordFailure, SetOutbox, Inv, Types
  <2> QED
    BY <2>1, <2>2, Leaves
<1>6. CASE RecordDeposit(c)
  BY <1>6, Passes DEF RecordDeposit, elsewhere, Goes, Inv, Types, Place
<1>7. CASE ReleasePoll(c)
  BY <1>7, Leaves DEF ReleasePoll, elsewhere, Inv, Types
<1> QED
  BY <1>1, <1>2, <1>3, <1>4, <1>5, <1>6, <1>7 DEF BrowserStep

LEMMA WorkerKeepsInv ==
    ASSUME Inv, NEW w \in Workers, WorkerStep(w)
    PROVE  Inv'
<1> w \in Calls
  BY DEF Calls
<1>1. CASE ClaimDue(w)
  <2>1. CASE UNCHANGED callVars
    BY <1>1, <2>1 DEF ClaimDue, callVars, elsewhere, Inv, Types, Fence, Sends
  <2>2. ASSUME NEW o \in Ops, Begins(w, o, "check", w, 0)
        PROVE  Inv'
    BY <1>1, <2>2, TakesUp DEF ClaimDue, elsewhere
  <2> QED
    BY <1>1, <2>1, <2>2 DEF ClaimDue
<1>2. CASE ClaimTransfer(w)
  <2>1. pc[w] = "check" /\ on[w] \in Ops /\ UNCHANGED <<on, writes>>
    BY <1>2 DEF ClaimTransfer, Inv, Types
  <2>2. CASE Submits(on[w])
    <3>1. outbox[on[w]] = "NONE" /\ SetOutbox(on[w], "ATTEMPTING") /\ Goes(w, "look")
      BY <1>2, <2>2 DEF ClaimTransfer, Submits
    <3>2. on' = [on EXCEPT ![w] = on[w]]
      BY <2>1 DEF Inv, Types
    <3> QED
      BY <2>1, <3>1, <3>2, Creates DEF Goes
  <2>3. CASE ~Submits(on[w]) /\ outbox[on[w]] = "CONFIRMED"
    BY <1>2, <2>1, <2>3, Passes DEF ClaimTransfer, Goes, Inv, Types, Place
  <2>4. CASE ~Submits(on[w]) /\ outbox[on[w]] # "CONFIRMED"
    <3>1. SetOutbox(on[w], "UNKNOWN") /\ Goes(w, "reconcile") /\ outbox[on[w]] # "NONE"
      BY <1>2, <2>4 DEF ClaimTransfer, Submits
    <3>2. outbox' \in [Ops -> OutboxStatus]
      BY <3>1 DEF SetOutbox, Inv, Types, OutboxStatus
    <3>3. \A o \in Ops : outbox[o] # "NONE" => outbox'[o] # "NONE"
      BY <3>1 DEF SetOutbox, Inv, Types
    <3> QED
      BY <2>1, <3>1, <3>2, <3>3, Passes DEF Goes, Place
  <2> QED
    BY <2>2, <2>3, <2>4
<1>3. CASE CheckFails(w)
  BY <1>3, Passes DEF CheckFails, elsewhere, Goes, Inv, Types, Place
<1>4. CASE ConfirmContinuation(w)
  <2>1. pc[w] = "confirm" /\ on[w] \in Ops /\ UNCHANGED writes
    BY <1>4 DEF ConfirmContinuation, elsewhere, Inv, Types
  <2>2. CASE ~Holds(w)
    BY <1>4, <2>1, <2>2, Passes DEF ConfirmContinuation, Goes, Inv, Types, Place
  <2>3. CASE Holds(w)
    <3>1. SetOutbox(on[w], "CONFIRMED") /\ Ends(w)
      BY <1>4, <2>3 DEF ConfirmContinuation
    <3>2. outbox' \in [Ops -> OutboxStatus]
      BY <3>1 DEF SetOutbox, Inv, Types, OutboxStatus
    <3>3. \A o \in Ops : outbox[o] # "NONE" => outbox'[o] # "NONE"
      BY <3>1 DEF SetOutbox, Inv, Types
    <3> QED
      BY <2>1, <3>1, <3>2, <3>3, Leaves
  <2> QED
    BY <2>2, <2>3
<1>5. CASE MarkUnknown(w)
  <2>1. pc[w] = "failed" /\ Goes(w, "finish") /\ UNCHANGED <<on, writes>>
    BY <1>5 DEF MarkUnknown, elsewhere
  <2>2. outbox' \in [Ops -> OutboxStatus]
    BY <1>5 DEF MarkUnknown, Inv, Types, OutboxStatus
  <2>3. \A o \in Ops : outbox[o] # "NONE" => outbox'[o] # "NONE"
    BY <1>5 DEF MarkUnknown, Inv, Types
  <2> QED
    BY <2>1, <2>2, <2>3, Passes DEF Goes, Place
<1>6. CASE FinishCheck(w)
  BY <1>6, Leaves DEF FinishCheck, elsewhere, Inv, Types
<1> QED
  BY <1>1, <1>2, <1>3, <1>4, <1>5, <1>6 DEF WorkerStep

LEMMA CallKeepsInv ==
    ASSUME Inv, NEW c \in Calls, CallStep(c)
    PROVE  Inv'
<1>1. CASE Look(c)
  <2> DEFINE p == CASE InHistory(since[c]) = {} -> "post"
                    [] Cardinality(InHistory(since[c])) = 1 -> "confirm"
                    [] OTHER -> "failed"
  <2>1. pc[c] = "look" /\ pc' = [pc EXCEPT ![c] = p] /\ UNCHANGED <<outbox, on, writes>>
    BY <1>1 DEF Look, Goes, elsewhere
  <2>2. p \in {"post", "confirm", "failed"}
    OBVIOUS
  <2> HIDE DEF p
  <2> QED
    BY <2>1, <2>2, Passes DEF Inv, Types, Place, Sends
<1>2. CASE PostTransfer(c)
  <2>1. pc[c] = "post" /\ UNCHANGED <<outbox, on>>
    BY <1>2 DEF PostTransfer
  <2>2. PICK p \in {"reconcile", "failed"} : pc' = [pc EXCEPT ![c] = p]
    BY <1>2 DEF PostTransfer, Goes
  <2>3. CASE c \in Workers
    BY <1>2, <2>1, <2>2, <2>3, SendsOne DEF PostTransfer, Sends
  <2>4. CASE c \notin Workers
    BY <1>2, <2>1, <2>2, <2>4, Passes DEF PostTransfer, Inv, Types, Place
  <2> QED
    BY <2>3, <2>4
<1>3. CASE Reconcile(c)
  BY <1>3, Passes DEF Reconcile, elsewhere, Goes, Inv, Types, Place
<1>4. CASE Fails(c)
  <2>1. PICK p \in {"failed", "finish"} : pc' = [pc EXCEPT ![c] = p]
    BY <1>4 DEF Fails, Goes
  <2> QED
    BY <1>4, <2>1, Passes DEF Fails, elsewhere, Inv, Types, Place
<1>5. CASE Crash(c)
  BY <1>5, Leaves DEF Crash, elsewhere, Inv, Types
<1> QED
  BY <1>1, <1>2, <1>3, <1>4, <1>5 DEF CallStep

LEMMA UnchangedKeepsInv ==
    ASSUME Inv, UNCHANGED fenceVars
    PROVE  Inv'
  BY DEF Inv, Types, Fence, Sends, fenceVars

LEMMA FenceStep == Inv /\ [Next]_vars => Inv'
<1> SUFFICES ASSUME Inv, [Next]_vars PROVE Inv'
  OBVIOUS
<1>1. CASE \E w \in Workers : WorkerStep(w)
  BY <1>1, WorkerKeepsInv
<1>2. CASE \E c \in Browsers : BrowserStep(c)
  BY <1>2, BrowserKeepsInv
<1>3. CASE \E c \in Calls : CallStep(c)
  BY <1>3, CallKeepsInv
<1>4. CASE HistoryShows
  BY <1>4, UnchangedKeepsInv DEF HistoryShows, fenceVars, callVars
<1>5. CASE Elsewhere
  BY <1>5, OperationKeepsFence, UnchangedKeepsInv
<1>6. CASE UNCHANGED vars
  BY <1>6, UnchangedKeepsInv DEF vars, fenceVars, callVars
<1> QED
  BY <1>1, <1>2, <1>3, <1>4, <1>5, <1>6 DEF Next

(* However calls of workers and people interleave, stop and repeat, one that is about to send *)
(* a request stands alone, and the outbox row under which it sends has sent none yet.         *)
THEOREM FenceHolds == Spec => []Inv
  BY InitInv, FenceStep, PTL DEF Spec

(* One withdrawal request at most, for any requests of people and any interruptions. *)
THEOREM WithdrawnOnceHolds == Spec => []WithdrawnOnce
<1>1. Inv => WithdrawnOnce
  BY DEF Inv, Fence, WithdrawnOnce
<1> QED
  BY <1>1, FenceHolds, PTL

(* One transfer at most by the workers, for any number of workers and attempts. *)
THEOREM ContinuedOnceHolds == Spec => []ContinuedOnce
<1>1. Inv => ContinuedOnce
  BY DEF Inv, Fence, ContinuedOnce
<1> QED
  BY <1>1, FenceHolds, PTL

(* The two together: the property the runs check. *)
THEOREM SentOnceHolds == Spec => []SentOnce
  BY WithdrawnOnceHolds, ContinuedOnceHolds, PTL DEF SentOnce

-----------------------------------------------------------------------------
(* A confirmed row of the outbox stays confirmed: rows are changed under ATTEMPTING, NONE *)
(* or by a mark that leaves confirmations alone.                                         *)
THEOREM ConfirmationStaysHolds == Spec => ConfirmationStays
<1>1. ASSUME Inv, [Next]_vars, NEW o \in Ops, outbox[o] = "CONFIRMED"
      PROVE  outbox'[o] = "CONFIRMED"
  <2> USE <1>1 DEF Inv, Types
  <2>1. CASE UNCHANGED outbox
    BY <2>1
  <2>2. ASSUME NEW c \in Browsers, BrowserStep(c)
        PROVE  outbox'[o] = "CONFIRMED"
    BY <2>2 DEF BrowserStep, ClaimWithdrawal, MayWithdraw, AcquirePoll, Withdraw,
         RecordSubmission, RecordFailure, RecordDeposit, ReleasePoll, SetOutbox
  <2>3. ASSUME NEW w \in Workers, WorkerStep(w)
        PROVE  outbox'[o] = "CONFIRMED"
    BY <2>3 DEF WorkerStep, ClaimDue, ClaimTransfer, Submits, CheckFails, ConfirmContinuation,
         MarkUnknown, Marks, FinishCheck, SetOutbox
  <2>4. ASSUME NEW c \in Calls, CallStep(c)
        PROVE  UNCHANGED outbox
    BY <2>4 DEF CallStep, Look, PostTransfer, Reconcile, Fails, Crash
  <2>5. CASE HistoryShows
    BY <2>5 DEF HistoryShows
  <2>6. CASE Elsewhere
    BY <2>6, OperationKeepsFence DEF fenceVars
  <2>7. CASE UNCHANGED vars
    BY <2>7 DEF vars
  <2> QED
    BY <2>1, <2>2, <2>3, <2>4, <2>5, <2>6, <2>7 DEF Next
<1>2. Inv /\ [Next]_vars =>
        [\A o \in Ops : outbox[o] = "CONFIRMED" => outbox'[o] = "CONFIRMED"]_vars
  BY <1>1
<1> QED
  BY <1>2, FenceHolds, PTL DEF Spec, ConfirmationStays

-----------------------------------------------------------------------------
\* Once a withdrawal was attempted, its operation never says again that nothing was submitted.
Attempted ==
    /\ path \in [Ops -> Paths] /\ receipt \in [Ops -> ReceiptStatus]
    /\ \A w \in Workers : pc[w] # "idle" => path[on[w]] = "VAULT_TO_BINANCE"
    /\ \A o \in Ops : path[o] = "BINANCE_TO_VAULT" /\ outbox[o] # "NONE" =>
            receipt[o] # "NOT_SUBMITTED"

\* What happens to receipts of withdrawals, whatever happens.
ReceiptStep ==
    /\ UNCHANGED path /\ receipt' \in [Ops -> ReceiptStatus]
    /\ \A o \in Ops : path[o] = "BINANCE_TO_VAULT" /\ receipt[o] # "NOT_SUBMITTED" =>
            receipt'[o] # "NOT_SUBMITTED"

LEMMA SetsReceipt ==
    ASSUME Attempted, UNCHANGED path, NEW o \in Ops, NEW s, NEW r \in ReceiptStatus,
           SetStatus(o, s, r), r = "NOT_SUBMITTED" => path[o] # "BINANCE_TO_VAULT"
    PROVE  ReceiptStep
  BY DEF Attempted, SetStatus, ReceiptStep

LEMMA KeepsReceipt ==
    ASSUME Attempted, UNCHANGED <<path, receipt>>
    PROVE  ReceiptStep
  BY DEF Attempted, ReceiptStep

LEMMA OperationReceiptStep ==
    ASSUME Attempted, Elsewhere
    PROVE  ReceiptStep
<1> USE DEF scopeVars, ReceiptStatus
<1>1. ASSUME NEW o \in Ops,
             \/ RecordUnsignedPreview(o) \/ RecordNotiltDestinationPreview(o)
             \/ RecordSafePreview(o) \/ RecordBinancePreview(o)
             \/ \E leg \in HyperliquidLegs(o) : RecordHyperliquidPreview(o, leg)
      PROVE  ReceiptStep
  BY <1>1, KeepsReceipt DEF RecordUnsignedPreview, RecordNotiltDestinationPreview,
       RecordSafePreview, RecordBinancePreview, RecordHyperliquidPreview, Preview, ReadyIfUnblocked
<1>2. ASSUME NEW o \in Ops, NEW leg \in WalletLegs(o), WalletSubmitted(o, leg)
      PROVE  ReceiptStep
  BY <1>2, SetsReceipt DEF WalletSubmitted
<1>3. ASSUME NEW o \in Ops, NEW leg \in WalletLegs(o), WalletCancelled(o, leg)
      PROVE  ReceiptStep
  <2>1. path[o] # "BINANCE_TO_VAULT"
    BY <1>3 DEF WalletLegs, HyperliquidLegs
  <2> QED
    BY <1>3, <2>1, SetsReceipt DEF WalletCancelled
<1>4. ASSUME NEW o \in Ops, TreasuryWithdrawalReceipt(o) \/ NotiltReceipt(o) \/ TreasuryReceipt(o)
      PROVE  ReceiptStep
  BY <1>4, SetsReceipt DEF TreasuryWithdrawalReceipt, NotiltReceipt, TreasuryReceipt, receiptFrame
<1>5. ASSUME NEW o \in Ops, NEW leg \in HyperliquidLegs(o), NEW how \in {"LEDGER", "ARBITRUM"},
             HyperliquidReceipt(o, leg, how)
      PROVE  ReceiptStep
  BY <1>5, SetsReceipt DEF HyperliquidReceipt, receiptFrame
<1>6. ASSUME NEW o \in Ops,
             \/ \E leg \in WalletLegs(o), how \in {"LEDGER", "ARBITRUM"} : Moves(o, leg, how)
             \/ WithdrawalCompletes(o)
             \/ Expire(o) \/ LeaseLapses(o) \/ ComesDue(o) \/ SwitchGate
      PROVE  ReceiptStep
  BY <1>6, KeepsReceipt
  DEF Moves, WithdrawalCompletes, Expire, LeaseLapses, ComesDue, SwitchGate, rowVars
<1>7. CASE SwitchGate
  BY <1>7, KeepsReceipt DEF SwitchGate, rowVars
<1>8. ASSUME NEW o \in Ops, WithdrawalReceipt(o)
      PROVE  ReceiptStep
  BY <1>8, SetsReceipt DEF WithdrawalReceipt
<1>9. OperationNext => ReceiptStep
  BY <1>1, <1>2, <1>3, <1>4, <1>5, <1>6, <1>7 DEF OperationNext
<1> QED
  BY <1>1, <1>6, <1>8, <1>9 DEF Elsewhere

LEMMA CallReceiptStep ==
    ASSUME Attempted, Types,
           \/ \E w \in Workers : WorkerStep(w)
           \/ \E c \in Browsers : BrowserStep(c)
           \/ \E c \in Calls : CallStep(c)
           \/ HistoryShows
    PROVE  ReceiptStep
<1> USE DEF scopeVars, rowVars, ReceiptStatus
<1>1. ASSUME NEW w \in Workers, WorkerStep(w)
      PROVE  ReceiptStep
  <2> w \in Calls
    BY DEF Calls
  <2>1. CASE ClaimDue(w)
    BY <2>1, SetsReceipt, KeepsReceipt DEF ClaimDue
  <2>2. CASE ClaimTransfer(w) \/ CheckFails(w) \/ MarkUnknown(w)
    BY <2>2, KeepsReceipt DEF ClaimTransfer, CheckFails, MarkUnknown, operationVars
  <2>3. CASE ConfirmContinuation(w)
    <3>1. on[w] \in Ops /\ UNCHANGED path
      BY <2>3 DEF ConfirmContinuation, Types
    <3> QED
      BY <2>3, <3>1, SetsReceipt, KeepsReceipt DEF ConfirmContinuation
  <2>4. CASE FinishCheck(w)
    <3>1. on[w] \in Ops /\ UNCHANGED path
      BY <2>4 DEF FinishCheck, Types
    <3> QED
      BY <2>4, <3>1, SetsReceipt, KeepsReceipt DEF FinishCheck
  <2> QED
    BY <1>1, <2>1, <2>2, <2>3, <2>4 DEF WorkerStep
<1>2. ASSUME NEW c \in Browsers, BrowserStep(c)
      PROVE  ReceiptStep
  <2> c \in Calls
    BY DEF Calls
  <2>1. ASSUME NEW o \in Ops, ClaimWithdrawal(c, o)
        PROVE  ReceiptStep
    BY <2>1, SetsReceipt DEF ClaimWithdrawal
  <2>2. ASSUME NEW o \in Ops, NEW key \in Browsers, AcquirePoll(c, o, key)
        PROVE  ReceiptStep
    BY <2>2, KeepsReceipt DEF AcquirePoll
  <2>3. CASE Withdraw(c) \/ ReleasePoll(c)
    BY <2>3, KeepsReceipt DEF Withdraw, ReleasePoll, operationVars
  <2>4. CASE RecordSubmission(c)
    <3>1. on[c] \in Ops /\ UNCHANGED path
      BY <2>4 DEF RecordSubmission, Types
    <3> QED
      BY <2>4, <3>1, SetsReceipt, KeepsReceipt DEF RecordSubmission
  <2>5. CASE RecordFailure(c)
    <3>1. on[c] \in Ops /\ UNCHANGED path
      BY <2>5 DEF RecordFailure, Types
    <3> QED
      BY <2>5, <3>1, SetsReceipt, KeepsReceipt DEF RecordFailure, FailedReceipt
  <2>6. CASE RecordDeposit(c)
    <3>1. on[c] \in Ops /\ UNCHANGED path
      BY <2>6 DEF RecordDeposit, Types
    <3> QED
      BY <2>6, <3>1, SetsReceipt, KeepsReceipt DEF RecordDeposit
  <2> QED
    BY <1>2, <2>1, <2>2, <2>3, <2>4, <2>5, <2>6 DEF BrowserStep
<1>3. ASSUME NEW c \in Calls, CallStep(c)
      PROVE  ReceiptStep
  BY <1>3, KeepsReceipt DEF CallStep, Look, PostTransfer, Reconcile, Fails, Crash, operationVars
<1>4. CASE HistoryShows
  BY <1>4, KeepsReceipt DEF HistoryShows, operationVars
<1> QED
  BY <1>1, <1>2, <1>3, <1>4

\* The workers work on deposits, and a row of a withdrawal appears with its receipt unknown.
LEMMA AttemptedStep == Inv /\ Attempted /\ [Next]_vars => Attempted'
<1> SUFFICES ASSUME Inv, Attempted, [Next]_vars PROVE Attempted'
  OBVIOUS
<1> USE DEF Inv, Types
<1> DEFINE Q == /\ \A w \in Workers : pc'[w] # "idle" => path[on'[w]] = "VAULT_TO_BINANCE"
                /\ \A o \in Ops :
                    path[o] = "BINANCE_TO_VAULT" /\ outbox[o] = "NONE" /\ outbox'[o] # "NONE" =>
                        receipt'[o] # "NOT_SUBMITTED"
<1>1. ReceiptStep
  <2>1. CASE UNCHANGED vars
    BY <2>1, KeepsReceipt DEF vars, operationVars, scopeVars, rowVars
  <2> QED
    BY <2>1, CallReceiptStep, OperationReceiptStep DEF Next
<1>2. CASE UNCHANGED <<outbox, pc, on>>
  <2>1. Q
    BY <1>2 DEF Attempted
  <2> QED
    BY <1>1, <1>2, <2>1 DEF Attempted, ReceiptStep
<1>3. ASSUME NEW c \in Browsers, BrowserStep(c)
      PROVE  Attempted'
  <2>1. \A w \in Workers : pc'[w] = pc[w] /\ on'[w] = on[w]
    <3>1. c \notin Workers
      BY CapitalAssumption
    <3> QED
      BY <1>3, <3>1 DEF BrowserStep, ClaimWithdrawal, AcquirePoll, Withdraw, RecordSubmission,
           RecordFailure, RecordDeposit, ReleasePoll, Begins, Ends, Goes, Calls
  <2>2. ASSUME NEW o \in Ops, outbox[o] = "NONE", outbox'[o] # "NONE"
        PROVE  receipt'[o] # "NOT_SUBMITTED"
    <3>1. PICK a \in Ops : ClaimWithdrawal(c, a)
      BY <1>3, <2>2 DEF BrowserStep, AcquirePoll, Withdraw, RecordSubmission, RecordFailure,
           RecordDeposit, ReleasePoll, SetOutbox
    <3> QED
      BY <2>2, <3>1 DEF ClaimWithdrawal, SetOutbox, SetStatus, Attempted
  <2> QED
    BY <1>1, <2>1, <2>2 DEF Attempted, ReceiptStep
<1>4. ASSUME NEW w \in Workers, WorkerStep(w)
      PROVE  Attempted'
  <2> w \in Calls
    BY DEF Calls
  <2>1. \A v \in Workers : pc'[v] # "idle" => path[on'[v]] = "VAULT_TO_BINANCE"
    BY <1>4 DEF WorkerStep, ClaimDue, ClaimTransfer, CheckFails, ConfirmContinuation,
         MarkUnknown, FinishCheck, Begins, Ends, Goes, callVars, Calls, Attempted
  <2>2. ASSUME NEW o \in Ops, outbox[o] = "NONE", outbox'[o] # "NONE"
        PROVE  path[o] = "VAULT_TO_BINANCE"
    BY <1>4, <2>2 DEF WorkerStep, ClaimDue, ClaimTransfer, CheckFails, ConfirmContinuation,
         MarkUnknown, FinishCheck, SetOutbox, Attempted
  <2> QED
    BY <1>1, <2>1, <2>2 DEF Attempted, ReceiptStep
<1>5. ASSUME NEW c \in Calls, CallStep(c)
      PROVE  Attempted'
  <2>1. UNCHANGED outbox
    BY <1>5 DEF CallStep, Look, PostTransfer, Reconcile, Fails, Crash
  <2>2. \A w \in Workers : pc'[w] # "idle" => pc[w] # "idle" /\ on'[w] = on[w]
    BY <1>5 DEF CallStep, Look, PostTransfer, Reconcile, Fails, Crash, Goes, Ends, Begins, Calls
  <2> QED
    BY <1>1, <2>1, <2>2 DEF Attempted, ReceiptStep
<1>6. CASE HistoryShows \/ Elsewhere \/ UNCHANGED vars
  BY <1>2, <1>6, OperationKeepsFence DEF HistoryShows, callVars, fenceVars, vars
<1> QED
  BY <1>3, <1>4, <1>5, <1>6 DEF Next

LEMMA AttemptedInit == Init => Attempted
  BY DEF Init, OperationInit, Attempted, ReceiptStatus, Calls

LEMMA AttemptedHolds == Spec => []Attempted
  BY AttemptedInit, AttemptedStep, FenceHolds, PTL DEF Spec

(* A withdrawal that says nothing was submitted has sent nothing, however it failed. *)
THEOREM NotSubmittedIsUnsentHolds == Spec => []NotSubmittedIsUnsent
<1>1. Inv /\ Attempted => NotSubmittedIsUnsent
  BY DEF Inv, Fence, Attempted, NotSubmittedIsUnsent
<1> QED
  BY <1>1, AttemptedHolds, FenceHolds, PTL

-----------------------------------------------------------------------------
(***************************************************************************)
(* Settlement and the money.                                               *)
(*                                                                         *)
(* What settles an operation is either proof that a leg has moved, which   *)
(* its stages keep, or a call that has found the deposit: both last, as    *)
(* funds that have moved stay moved.                                       *)
(***************************************************************************)
Proofs == {"CONFIRMED", "LEDGER", "ARBITRUM"}
Proven == {"TREASURY_WITHDRAWAL", "TREASURY_DEPOSIT", "HYPERLIQUID_DEPOSIT",
           "HYPERLIQUID_WITHDRAWAL"}

RowEvidence ==
    /\ path \in [Ops -> Paths] /\ provider \in [Ops -> Providers]
    /\ stages \in [Ops -> SUBSET (Leg \X Recorded)]
    /\ status \in [Ops -> Status] /\ moved \in [Ops -> SUBSET Effects]
    /\ \A o \in Ops, leg \in Proven, how \in Proofs :
          Has(o, leg, how) => Effect(leg, how) \in moved[o]
    /\ SettledIsMoved

Arrived(o) == path[o] = "VAULT_TO_BINANCE" /\ Delivery(o) \in moved[o]

\* A worker has found the deposit before it looks for the transfer, a person's call after.
Found(c) == pc[c] \in {"post", "reconcile", "confirm"} \/ (c \in Workers /\ pc[c] = "look")

CallEvidence ==
    \A c \in Calls : /\ Found(c) => Arrived(on[c])
                     /\ pc[c] = "look" => path[on[c]] = "VAULT_TO_BINANCE"

\* What a step may do to an operation.
Proceeds(o) ==
    /\ UNCHANGED scopeVars
    /\ \/ UNCHANGED stages
       \/ \E leg \in Leg, how \in Recorded :
             /\ Enter(o, leg, how)
             /\ leg \in Proven /\ how \in Proofs => Effect(leg, how) \in moved[o]
    /\ \/ UNCHANGED status
       \/ \E s \in Status :
             /\ status' = [status EXCEPT ![o] = s]
             /\ s = "SETTLED" => Needed(o) \subseteq moved[o]
    /\ \/ UNCHANGED moved
       \/ \E effect \in Effects : moved' = [moved EXCEPT ![o] = @ \cup {effect}]

MovesOn == (UNCHANGED <<scopeVars, stages, status, moved>>) \/ \E o \in Ops : Proceeds(o)

LEMMA MovesOnHolds ==
    ASSUME RowEvidence, MovesOn
    PROVE  /\ RowEvidence' /\ UNCHANGED scopeVars
           /\ \A o \in Ops : moved[o] \subseteq moved'[o]
<1>1. CASE UNCHANGED <<scopeVars, stages, status, moved>>
  BY <1>1 DEF RowEvidence, scopeVars, Has, SettledIsMoved, Needed, Delivery
<1>2. ASSUME NEW o \in Ops, Proceeds(o)
      PROVE  /\ RowEvidence' /\ UNCHANGED scopeVars
             /\ \A a \in Ops : moved[a] \subseteq moved'[a]
  <2>1. UNCHANGED scopeVars /\ path' = path /\ provider' = provider
    BY <1>2 DEF Proceeds, scopeVars
  <2>2. moved' \in [Ops -> SUBSET Effects] /\ \A a \in Ops : moved[a] \subseteq moved'[a]
    BY <1>2 DEF Proceeds, RowEvidence
  <2>3. stages' \in [Ops -> SUBSET (Leg \X Recorded)] /\ status' \in [Ops -> Status]
    BY <1>2 DEF Proceeds, RowEvidence, Enter
  <2>4. ASSUME NEW a \in Ops, NEW leg \in Proven, NEW how \in Proofs, Has(a, leg, how)'
        PROVE  Effect(leg, how) \in moved'[a]
    <3>1. CASE Has(a, leg, how)
      BY <2>2, <3>1 DEF RowEvidence
    <3>2. CASE ~Has(a, leg, how)
      <4>1. Effect(leg, how) \in moved[a]
        BY <1>2, <2>4, <3>2 DEF Proceeds, Enter, Has, RowEvidence
      <4> QED BY <2>2, <4>1
    <3> QED BY <3>1, <3>2
  <2>5. ASSUME NEW a \in Ops, status'[a] = "SETTLED"
        PROVE  Needed(a)' \subseteq moved'[a]
    <3>1. Needed(a)' = Needed(a)
      BY <2>1 DEF Needed, Delivery
    <3>2. Needed(a) \subseteq moved[a]
      <4>1. CASE status[a] = "SETTLED"
        BY <4>1 DEF RowEvidence, SettledIsMoved
      <4>2. CASE status[a] # "SETTLED"
        BY <1>2, <2>5, <4>2 DEF Proceeds, RowEvidence
      <4> QED BY <4>1, <4>2
    <3> QED BY <2>2, <3>1, <3>2
  <2>6. SettledIsMoved'
    BY <2>5 DEF SettledIsMoved
  <2> QED BY <2>1, <2>2, <2>3, <2>4, <2>6 DEF RowEvidence
<1> QED BY <1>1, <1>2 DEF MovesOn

LEMMA PeopleMoveOn ==
    ASSUME RowEvidence, Elsewhere
    PROVE  MovesOn
<1> USE DEF Leg, Recorded, Status, Proven, Proofs
<1>1. ASSUME NEW o \in Ops, NEW leg \in Leg, Preview(o, leg),
             UNCHANGED status \/ status' = [status EXCEPT ![o] = "UNSIGNED_PLAN_READY"]
      PROVE  MovesOn
  BY <1>1 DEF Preview, MovesOn, Proceeds
<1>2. ASSUME NEW o \in Ops,
             \/ RecordUnsignedPreview(o) \/ RecordNotiltDestinationPreview(o)
             \/ RecordSafePreview(o) \/ RecordBinancePreview(o)
      PROVE  MovesOn
  <2>1. CASE RecordUnsignedPreview(o)
    BY <1>1, <2>1 DEF RecordUnsignedPreview
  <2>2. CASE RecordNotiltDestinationPreview(o)
    BY <1>1, <2>2 DEF RecordNotiltDestinationPreview
  <2>3. CASE RecordSafePreview(o)
    BY <1>1, <2>3 DEF RecordSafePreview, ReadyIfUnblocked
  <2>4. CASE RecordBinancePreview(o)
    BY <1>1, <2>4 DEF RecordBinancePreview, ReadyIfUnblocked
  <2> QED BY <1>2, <2>1, <2>2, <2>3, <2>4
<1>3. \A o \in Ops : HyperliquidLegs(o) \subseteq Leg /\ WalletLegs(o) \subseteq Leg
  BY DEF HyperliquidLegs, WalletLegs
<1>4. ASSUME NEW o \in Ops, NEW leg \in HyperliquidLegs(o), RecordHyperliquidPreview(o, leg)
      PROVE  MovesOn
  BY <1>1, <1>3, <1>4 DEF RecordHyperliquidPreview
<1>5. ASSUME NEW o \in Ops, NEW leg \in WalletLegs(o),
             \/ WalletSubmitted(o, leg) \/ WalletCancelled(o, leg)
             \/ \E how \in {"LEDGER", "ARBITRUM"} : Moves(o, leg, how)
      PROVE  MovesOn
  <2>1. CASE WalletSubmitted(o, leg)
    BY <1>3, <2>1 DEF WalletSubmitted, SetStatus, MovesOn, Proceeds
  <2>2. CASE WalletCancelled(o, leg)
    BY <2>2 DEF WalletCancelled, SetStatus, MovesOn, Proceeds
  <2>3. ASSUME NEW how \in {"LEDGER", "ARBITRUM"}, Moves(o, leg, how)
        PROVE  MovesOn
    <3>1. Effect(leg, how) \in Effects
      BY <1>3 DEF Effect, Effects
    <3> QED BY <2>3, <3>1 DEF Moves, rowVars, MovesOn, Proceeds
  <2> QED BY <1>5, <2>1, <2>2, <2>3
<1>6. ASSUME NEW o \in Ops, TreasuryWithdrawalReceipt(o) \/ NotiltReceipt(o)
      PROVE  MovesOn
  <2>1. CASE TreasuryWithdrawalReceipt(o)
    BY <2>1 DEF TreasuryWithdrawalReceipt, Confirm, SetStatus, receiptFrame, Effect, MovesOn,
         Proceeds
  <2>2. CASE NotiltReceipt(o)
    BY <2>2 DEF NotiltReceipt, Confirm, SetStatus, receiptFrame, MovesOn, Proceeds
  <2> QED BY <1>6, <2>1, <2>2
<1>7. ASSUME NEW o \in Ops, TreasuryReceipt(o)
      PROVE  MovesOn
  <2>1. /\ UNCHANGED scopeVars /\ UNCHANGED moved /\ Enter(o, "TREASURY_DEPOSIT", "CONFIRMED")
        /\ path[o] = "HYPERLIQUID_TO_VAULT" /\ "TREASURY_DEPOSIT" \in moved[o]
        /\ Effect("TREASURY_DEPOSIT", "CONFIRMED") \in moved[o]
    BY <1>7 DEF TreasuryReceipt, Confirm, receiptFrame, Effect
  <2>2. CASE \A how \in {"LEDGER", "ARBITRUM"} : Has(o, "HYPERLIQUID_WITHDRAWAL", how)
    <3>1. Needed(o) \subseteq moved[o]
      BY <2>1, <2>2 DEF Needed, RowEvidence, Effect
    <3>2. status' = [status EXCEPT ![o] = "SETTLED"]
      BY <1>7, <2>2 DEF TreasuryReceipt, SetStatus
    <3> QED BY <2>1, <3>1, <3>2 DEF MovesOn, Proceeds
  <2>3. CASE ~\A how \in {"LEDGER", "ARBITRUM"} : Has(o, "HYPERLIQUID_WITHDRAWAL", how)
    <3>1. status' = [status EXCEPT ![o] = "AWAITING_RECEIPT"]
      BY <1>7, <2>3 DEF TreasuryReceipt, SetStatus
    <3> QED BY <2>1, <3>1 DEF MovesOn, Proceeds
  <2> QED BY <2>2, <2>3
<1>8. ASSUME NEW o \in Ops, NEW leg \in HyperliquidLegs(o), NEW how \in {"LEDGER", "ARBITRUM"},
             HyperliquidReceipt(o, leg, how)
      PROVE  MovesOn
  <2>1. /\ UNCHANGED scopeVars /\ UNCHANGED moved /\ Enter(o, leg, how)
        /\ Effect(leg, how) \in moved[o]
    BY <1>8 DEF HyperliquidReceipt, Confirm, receiptFrame
  <2> DEFINE other == CHOOSE h \in {"LEDGER", "ARBITRUM"} : h # how
  <2>2. PICK s \in Status :
           /\ status' = [status EXCEPT ![o] = s]
           /\ s = "SETTLED" => /\ leg # "HYPERLIQUID_CLASS_TRANSFER" /\ Has(o, leg, other)
                               /\ TreasurySettles(o)
    BY <1>8 DEF HyperliquidReceipt, SetStatus
  <2>3. ASSUME leg # "HYPERLIQUID_CLASS_TRANSFER", Has(o, leg, other), TreasurySettles(o)
        PROVE  Needed(o) \subseteq moved[o]
    <3>1. /\ leg \in {"HYPERLIQUID_DEPOSIT", "HYPERLIQUID_WITHDRAWAL"}
          /\ other \in {"LEDGER", "ARBITRUM"} /\ other # how
      BY <1>8, <2>3 DEF HyperliquidLegs
    <3>2. Effect(leg, other) \in moved[o]
      BY <2>3, <3>1 DEF RowEvidence
    <3>3. leg \in moved[o] /\ "LEDGER_ENTRY" \in moved[o]
      <4> HIDE DEF other
      <4> QED BY <2>1, <3>1, <3>2 DEF Effect
    <3>4. CASE path[o] = "VAULT_TO_HYPERLIQUID"
      <4>1. leg = "HYPERLIQUID_DEPOSIT"
        BY <3>4 DEF HyperliquidLegs
      <4>2. "TREASURY_WITHDRAWAL" \in moved[o]
        BY <2>3, <3>4 DEF TreasurySettles, RowEvidence, Effect
      <4> QED BY <3>3, <3>4, <4>1, <4>2 DEF Needed
    <3>5. CASE path[o] = "HYPERLIQUID_TO_VAULT"
      <4>1. leg = "HYPERLIQUID_WITHDRAWAL"
        BY <2>3, <3>5 DEF HyperliquidLegs
      <4>2. provider[o] = "NOTILT_VAULT" => "TREASURY_DEPOSIT" \in moved[o]
        BY <2>3, <3>5 DEF TreasurySettles, RowEvidence, Effect
      <4> QED BY <3>3, <3>5, <4>1, <4>2 DEF Needed
    <3> QED BY <2>3, <3>4, <3>5 DEF TreasurySettles
  <2> QED BY <1>3, <2>1, <2>2, <2>3 DEF MovesOn, Proceeds
<1>9. ASSUME NEW o \in Ops, Expire(o) \/ LeaseLapses(o) \/ ComesDue(o)
      PROVE  MovesOn
  BY <1>9 DEF Expire, LeaseLapses, ComesDue, rowVars, MovesOn
<1>10. CASE SwitchGate
  BY <1>10 DEF SwitchGate, rowVars, MovesOn
<1>11. ASSUME NEW o \in Ops, WithdrawalReceipt(o)
       PROVE  MovesOn
  <2>1. Needed(o) \subseteq moved[o]
    BY <1>11 DEF WithdrawalReceipt, Needed
  <2> QED BY <1>11, <2>1 DEF WithdrawalReceipt, Confirm, SetStatus, MovesOn, Proceeds
<1>12. ASSUME NEW o \in Ops, WithdrawalCompletes(o)
       PROVE  MovesOn
  BY <1>12 DEF WithdrawalCompletes, rowVars, Effects, MovesOn, Proceeds
<1>13. OperationNext => MovesOn
  BY <1>2, <1>4, <1>5, <1>6, <1>7, <1>8, <1>9, <1>10 DEF OperationNext
<1> QED BY <1>2, <1>11, <1>12, <1>13 DEF Elsewhere

\* What the calls do; only one that found the deposit settles anything.
LEMMA CallsMoveOn ==
    ASSUME Inv, RowEvidence, CallEvidence,
           \/ \E w \in Workers : WorkerStep(w)
           \/ \E c \in Browsers : BrowserStep(c)
           \/ \E c \in Calls : CallStep(c)
           \/ HistoryShows
    PROVE  MovesOn
<1> USE DEF Leg, Recorded, Status, Proven, Proofs, rowVars
<1>1. ASSUME NEW c \in Calls, pc[c] = "confirm"
      PROVE  on[c] \in Ops /\ Needed(on[c]) \subseteq moved[on[c]]
  BY <1>1 DEF CallEvidence, Found, Arrived, Needed, Inv, Types
<1>2. ASSUME NEW w \in Workers, WorkerStep(w)
      PROVE  MovesOn
  <2> w \in Calls
    BY DEF Calls
  <2>1. CASE ClaimDue(w)
    BY <2>1 DEF ClaimDue, SetStatus, MovesOn, Proceeds
  <2>2. CASE ClaimTransfer(w) \/ CheckFails(w) \/ MarkUnknown(w)
    BY <2>2 DEF ClaimTransfer, CheckFails, MarkUnknown, operationVars, MovesOn
  <2>3. CASE ConfirmContinuation(w)
    <3>1. CASE Holds(w)
      BY <1>1, <2>3, <3>1 DEF ConfirmContinuation, SetStatus, MovesOn, Proceeds
    <3>2. CASE ~Holds(w)
      BY <2>3, <3>2 DEF ConfirmContinuation, MovesOn
    <3> QED BY <3>1, <3>2
  <2>4. CASE FinishCheck(w)
    <3>1. on[w] \in Ops
      BY <2>4 DEF FinishCheck, Inv, Types
    <3> QED BY <2>4, <3>1 DEF FinishCheck, SetStatus, MovesOn, Proceeds
  <2> QED BY <1>2, <2>1, <2>2, <2>3, <2>4 DEF WorkerStep
<1>3. ASSUME NEW c \in Browsers, BrowserStep(c)
      PROVE  MovesOn
  <2> c \in Calls
    BY DEF Calls
  <2>1. ASSUME NEW o \in Ops, ClaimWithdrawal(c, o)
        PROVE  MovesOn
    BY <2>1 DEF ClaimWithdrawal, SetStatus, MovesOn, Proceeds
  <2>2. ASSUME NEW o \in Ops, NEW key \in Browsers, AcquirePoll(c, o, key)
        PROVE  MovesOn
    BY <2>2 DEF AcquirePoll, MovesOn
  <2>3. CASE Withdraw(c)
    BY <2>3 DEF Withdraw, operationVars, MovesOn
  <2>4. CASE RecordSubmission(c)
    <3>1. on[c] \in Ops
      BY <2>4 DEF RecordSubmission, Inv, Types
    <3> QED BY <2>4, <3>1 DEF RecordSubmission, SetStatus, MovesOn, Proceeds
  <2>5. CASE RecordFailure(c)
    <3>1. on[c] \in Ops
      BY <2>5 DEF RecordFailure, Inv, Types
    <3> QED BY <2>5, <3>1 DEF RecordFailure, SetStatus, MovesOn, Proceeds
  <2>6. CASE RecordDeposit(c)
    BY <1>1, <2>6 DEF RecordDeposit, Confirm, SetStatus, MovesOn, Proceeds
  <2>7. CASE ReleasePoll(c)
    BY <2>7 DEF ReleasePoll, MovesOn
  <2> QED BY <1>3, <2>1, <2>2, <2>3, <2>4, <2>5, <2>6, <2>7 DEF BrowserStep
<1>4. ASSUME NEW c \in Calls, CallStep(c)
      PROVE  MovesOn
  BY <1>4 DEF CallStep, Look, PostTransfer, Reconcile, Fails, Crash, operationVars, MovesOn
<1>5. CASE HistoryShows
  BY <1>5 DEF HistoryShows, operationVars, MovesOn
<1> QED BY <1>2, <1>3, <1>4, <1>5

\* A call posts, reconciles and confirms only after it found the deposit, and looks only for
\* transfers of deposits.
LEMMA FindsDeposit ==
    ASSUME Inv, Attempted, CallEvidence,
           \/ \E w \in Workers : WorkerStep(w)
           \/ \E c \in Browsers : BrowserStep(c)
           \/ \E c \in Calls : CallStep(c),
           NEW d \in Calls
    PROVE  /\ Found(d)' => Arrived(on'[d])
           /\ pc'[d] = "look" => path[on'[d]] = "VAULT_TO_BINANCE"
<1> USE DEF Inv, Types, Calls
<1> DEFINE Evident == /\ Found(d)' => Arrived(on'[d])
                      /\ pc'[d] = "look" => path[on'[d]] = "VAULT_TO_BINANCE"
<1> SUFFICES Evident
  OBVIOUS
<1>1. CASE pc'[d] = pc[d] /\ on'[d] = on[d]
  BY <1>1 DEF CallEvidence, Found
<1>2. ASSUME NEW w \in Workers, WorkerStep(w)
      PROVE  Evident
  <2>1. CASE ClaimDue(w) \/ CheckFails(w) \/ ConfirmContinuation(w) \/ MarkUnknown(w)
               \/ FinishCheck(w)
    BY <1>1, <2>1 DEF ClaimDue, CheckFails, ConfirmContinuation, MarkUnknown, FinishCheck,
         Begins, Ends, Goes, callVars, Found, CallEvidence
  <2>2. CASE ClaimTransfer(w)
    BY <1>1, <2>2 DEF ClaimTransfer, Goes, CallEvidence, Arrived, Attempted
  <2> QED BY <1>2, <2>1, <2>2 DEF WorkerStep
<1>3. ASSUME NEW c \in Browsers, BrowserStep(c)
      PROVE  Evident
  <2>1. ASSUME NEW o \in Ops, NEW key \in Browsers, AcquirePoll(c, o, key)
        PROVE  Evident
    <3>1. c \notin Workers
      BY CapitalAssumption
    <3> QED BY <1>1, <2>1, <3>1 DEF AcquirePoll, Begins, Found
  <2>2. ASSUME \/ \E o \in Ops : ClaimWithdrawal(c, o)
               \/ Withdraw(c) \/ RecordSubmission(c) \/ RecordFailure(c)
               \/ RecordDeposit(c) \/ ReleasePoll(c)
        PROVE  Evident
    BY <1>1, <2>2 DEF ClaimWithdrawal, Withdraw, RecordSubmission, RecordFailure, RecordDeposit,
         ReleasePoll, Begins, Ends, Goes, Found
  <2> QED BY <1>3, <2>1, <2>2 DEF BrowserStep
<1>4. ASSUME NEW c \in Calls, CallStep(c)
      PROVE  Evident
  <2>1. CASE Look(c)
    <3>1. Arrived(on[c])
      BY <2>1 DEF Look, CallEvidence, Found, Arrived
    <3> QED BY <1>1, <2>1, <3>1 DEF Look, Goes
  <2>2. CASE PostTransfer(c) \/ Reconcile(c) \/ Fails(c) \/ Crash(c)
    BY <1>1, <2>2 DEF PostTransfer, Reconcile, Fails, Crash, Goes, Ends, Begins, Found,
         CallEvidence
  <2> QED BY <1>4, <2>1, <2>2 DEF CallStep
<1> QED BY <1>2, <1>3, <1>4

LEMMA EvidenceStep ==
    Inv /\ Attempted /\ RowEvidence /\ CallEvidence /\ [Next]_vars =>
        RowEvidence' /\ CallEvidence'
<1> SUFFICES ASSUME Inv, Attempted, RowEvidence, CallEvidence, [Next]_vars
             PROVE  RowEvidence' /\ CallEvidence'
  OBVIOUS
<1>1. MovesOn
  <2>1. CASE UNCHANGED vars
    BY <2>1 DEF vars, operationVars, rowVars, MovesOn
  <2> QED BY <2>1, PeopleMoveOn, CallsMoveOn DEF Next
<1>2. /\ RowEvidence' /\ path' = path /\ provider' = provider
      /\ \A o \in Ops : moved[o] \subseteq moved'[o]
  BY <1>1, MovesOnHolds DEF scopeVars
<1>3. \A o \in Ops : Arrived(o) => Arrived(o)'
  BY <1>2 DEF Arrived, Delivery
<1>4. ASSUME NEW d \in Calls
      PROVE  /\ Found(d)' => Arrived(on'[d])
             /\ pc'[d] = "look" => path[on'[d]] = "VAULT_TO_BINANCE"
  <2>1. CASE UNCHANGED <<pc, on>>
    BY <2>1 DEF CallEvidence, Found
  <2>2. CASE HistoryShows \/ Elsewhere \/ UNCHANGED vars
    BY <2>1, <2>2, OperationKeepsFence DEF HistoryShows, callVars, fenceVars, vars
  <2> QED BY <2>2, FindsDeposit DEF Next
<1>5. CallEvidence'
  <2>1. Inv'
    BY FenceStep
  <2> QED BY <1>2, <1>3, <1>4, <2>1 DEF CallEvidence, Found, Arrived, Inv, Types, Place
<1> QED BY <1>2, <1>5

LEMMA EvidenceInit == Init => RowEvidence /\ CallEvidence
  BY DEF Init, OperationInit, RowEvidence, CallEvidence, Found, SettledIsMoved, Has, Status

LEMMA EvidenceHolds == Spec => [](RowEvidence /\ CallEvidence)
  BY EvidenceInit, EvidenceStep, AttemptedHolds, FenceHolds, PTL DEF Spec

(* A settled operation has moved its funds all the way, whichever receipts of its legs were *)
(* verified first, and whether a worker or a person settled it.                             *)
THEOREM SettledIsMovedHolds == Spec => []SettledIsMoved
<1>1. RowEvidence => SettledIsMoved
  BY DEF RowEvidence
<1> QED
  BY <1>1, EvidenceHolds, PTL

-----------------------------------------------------------------------------
(***************************************************************************)
(* The rest of the type invariant: a deposit is not checked more often     *)
(* than allowed, and no instant is later than now.                         *)
(***************************************************************************)
LedgerTypes ==
    /\ plan \in [Ops -> {"NONE"} \cup Leg] /\ receipt \in [Ops -> ReceiptStatus]
    /\ expired \subseteq Ops /\ leased \subseteq Ops
    /\ due \in [Ops -> {"NONE", "LATER", "NOW"}] /\ attempts \in [Ops -> 0..MaxAttempts]
    /\ poll \in [Ops -> Calls \cup {None}] /\ fresh \in [Ops -> SUBSET Calls]
    /\ gate \in {"ENABLED", "DISABLED"}

PostTypes ==
    /\ token \in [Calls -> Calls \cup {None}] /\ since \in [Calls -> 0..MaxPosts]
    /\ posted \in Seq(Ops) /\ Len(posted) <= MaxPosts /\ shown \subseteq 1..Len(posted)
    /\ outboxAt \in [Ops -> 0..MaxPosts] /\ preparedAt \in [Ops -> 0..MaxPosts]

LEMMA PeopleKeepTypes ==
    ASSUME LedgerTypes, PostTypes, Elsewhere
    PROVE  LedgerTypes' /\ PostTypes'
<1> USE DEF Leg, ReceiptStatus, rowVars, pollVars, callVars, elsewhere, transferVars
<1>1. \A o \in Ops : HyperliquidLegs(o) \subseteq Leg /\ WalletLegs(o) \subseteq Leg
  BY DEF HyperliquidLegs, WalletLegs
<1>2. 0 \in 0..MaxAttempts /\ Len(posted) \in 0..MaxPosts
  BY DirectCapitalAssumption DEF PostTypes
<1>3. ASSUME NEW o \in Ops,
             \/ RecordUnsignedPreview(o) \/ RecordNotiltDestinationPreview(o)
             \/ RecordSafePreview(o) \/ RecordBinancePreview(o)
             \/ \E leg \in HyperliquidLegs(o) : RecordHyperliquidPreview(o, leg)
      PROVE  LedgerTypes'
  BY <1>1, <1>3 DEF RecordUnsignedPreview, RecordNotiltDestinationPreview, RecordSafePreview,
       RecordBinancePreview, RecordHyperliquidPreview, Preview, ReadyIfUnblocked, NewVersion,
       LedgerTypes
<1>4. ASSUME NEW o \in Ops, NEW leg \in WalletLegs(o), WalletSubmitted(o, leg)
      PROVE  LedgerTypes'
  BY <1>2, <1>4 DEF WalletSubmitted, SetStatus, NewVersion, LedgerTypes
<1>5. ASSUME NEW o \in Ops, NEW leg \in WalletLegs(o),
             \/ WalletCancelled(o, leg)
             \/ \E how \in {"LEDGER", "ARBITRUM"} : Moves(o, leg, how)
      PROVE  LedgerTypes'
  BY <1>5 DEF WalletCancelled, Moves, SetStatus, NewVersion, LedgerTypes
<1>6. ASSUME NEW o \in Ops,
             \/ TreasuryWithdrawalReceipt(o) \/ NotiltReceipt(o) \/ TreasuryReceipt(o)
             \/ WithdrawalReceipt(o)
             \/ \E leg \in HyperliquidLegs(o), how \in {"LEDGER", "ARBITRUM"} :
                   HyperliquidReceipt(o, leg, how)
      PROVE  LedgerTypes'
  <2>1. /\ UNCHANGED <<plan, expired, pollVars, gate>>
        /\ fresh' \in [Ops -> SUBSET Calls]
    BY <1>6 DEF TreasuryWithdrawalReceipt, NotiltReceipt, TreasuryReceipt, WithdrawalReceipt,
         HyperliquidReceipt, receiptFrame, Confirm, LedgerTypes
  <2>2. receipt' \in [Ops -> ReceiptStatus]
    BY <1>6 DEF TreasuryWithdrawalReceipt, NotiltReceipt, TreasuryReceipt, WithdrawalReceipt,
         HyperliquidReceipt, SetStatus, LedgerTypes
  <2> QED BY <2>1, <2>2 DEF LedgerTypes
<1>7. ASSUME NEW o \in Ops, Expire(o) \/ LeaseLapses(o) \/ ComesDue(o)
      PROVE  LedgerTypes'
  BY <1>7 DEF Expire, LeaseLapses, ComesDue, LedgerTypes
<1>8. SwitchGate => LedgerTypes'
  BY DEF SwitchGate, LedgerTypes
<1>9. ASSUME NEW o \in Ops, WithdrawalCompletes(o)
      PROVE  LedgerTypes'
  BY <1>9 DEF WithdrawalCompletes, LedgerTypes
<1>10. LedgerTypes'
  BY <1>3, <1>4, <1>5, <1>6, <1>7, <1>8, <1>9 DEF Elsewhere, OperationNext
<1>11. PostTypes'
  <2>1. CASE UNCHANGED <<callVars, elsewhere>>
    BY <2>1 DEF PostTypes
  <2>2. ASSUME NEW o \in Ops, preparedAt' = [preparedAt EXCEPT ![o] = Len(posted)],
               UNCHANGED <<outbox, callVars, writes, posted, shown, outboxAt>>
        PROVE  PostTypes'
    BY <1>2, <2>2 DEF PostTypes
  <2> QED BY <2>1, <2>2 DEF Elsewhere, WithdrawalReceipt, WithdrawalCompletes
<1> QED BY <1>10, <1>11

LEMMA CallsKeepTypes ==
    ASSUME Inv, LedgerTypes, PostTypes,
           \/ \E w \in Workers : WorkerStep(w)
           \/ \E c \in Browsers : BrowserStep(c)
           \/ \E c \in Calls : CallStep(c)
           \/ HistoryShows
    PROVE  LedgerTypes' /\ PostTypes'
<1> USE DEF ReceiptStatus, rowVars, pollVars, callVars, elsewhere, transferVars, operationVars
<1>1. Len(posted) \in 0..MaxPosts /\ 0 \in 0..MaxPosts
  BY DirectCapitalAssumption DEF PostTypes
<1>2. \A c \in Calls : pc[c] # "idle" => on[c] \in Ops
  BY DEF Inv, Types
<1>3. ASSUME NEW w \in Workers, WorkerStep(w)
      PROVE  LedgerTypes' /\ PostTypes'
  <2> w \in Calls
    BY DEF Calls
  <2>1. CASE ClaimDue(w)
    <3>1. PICK o \in Ops :
            /\ AttemptsRemain(o) /\ NewVersion(o)
            /\ \/ /\ SetStatus(o, "UNKNOWN", "UNKNOWN")
                  /\ due' = [due EXCEPT ![o] = "NONE"]
                  /\ UNCHANGED <<attempts, poll, leased, callVars>>
               \/ /\ poll' = [poll EXCEPT ![o] = w] /\ leased' = leased \cup {o}
                  /\ attempts' = [attempts EXCEPT ![o] = @ + 1]
                  /\ due' = [due EXCEPT ![o] = "LATER"]
                  /\ Begins(w, o, "check", w, 0)
                  /\ UNCHANGED <<status, receipt>>
      BY <2>1 DEF ClaimDue
    <3>2. attempts[o] + 1 \in 0..MaxAttempts
      BY <3>1, DirectCapitalAssumption DEF AttemptsRemain, LedgerTypes
    <3>3. UNCHANGED <<plan, expired, gate, writes, transferVars>>
      BY <2>1 DEF ClaimDue
    <3>4. LedgerTypes'
      BY <3>1, <3>2, <3>3 DEF LedgerTypes, NewVersion, SetStatus
    <3>5. PostTypes'
      BY <1>1, <3>1, <3>3 DEF PostTypes, Begins
    <3> QED BY <3>4, <3>5
  <2>2. CASE ClaimTransfer(w)
    <3>1. /\ UNCHANGED <<operationVars, on, token, posted, shown, preparedAt>>
          /\ outboxAt' = IF outbox[on[w]] = "NONE"
                         THEN [outboxAt EXCEPT ![on[w]] = Len(posted)] ELSE outboxAt
          /\ since' = [since EXCEPT ![w] = outboxAt'[on[w]]]
      BY <2>2 DEF ClaimTransfer
    <3>2. on[w] \in Ops
      BY <1>2, <2>2 DEF ClaimTransfer
    <3>3. outboxAt' \in [Ops -> 0..MaxPosts]
      BY <1>1, <3>1 DEF PostTypes
    <3>4. since' \in [Calls -> 0..MaxPosts]
      BY <3>1, <3>2, <3>3 DEF PostTypes
    <3>5. LedgerTypes'
      BY <3>1 DEF LedgerTypes
    <3> QED BY <3>1, <3>3, <3>4, <3>5 DEF PostTypes
  <2>3. CASE CheckFails(w) \/ MarkUnknown(w)
    BY <2>3 DEF CheckFails, MarkUnknown, LedgerTypes, PostTypes
  <2>4. CASE ConfirmContinuation(w) \/ FinishCheck(w)
    <3>1. on[w] \in Ops
      BY <1>2, <2>4 DEF ConfirmContinuation, FinishCheck
    <3>2. /\ UNCHANGED <<plan, expired, attempts, gate, writes, transferVars>>
          /\ Ends(w) \/ UNCHANGED <<token, since>>
      BY <2>4 DEF ConfirmContinuation, FinishCheck
    <3>3. /\ receipt' \in [Ops -> ReceiptStatus] /\ due' \in [Ops -> {"NONE", "LATER", "NOW"}]
          /\ leased' \subseteq Ops
          /\ poll' \in [Ops -> Calls \cup {None}] /\ fresh' \in [Ops -> SUBSET Calls]
      BY <2>4, <3>1 DEF ConfirmContinuation, FinishCheck, SetStatus, Release, NewVersion,
           LedgerTypes
    <3>4. LedgerTypes'
      BY <3>2, <3>3 DEF LedgerTypes
    <3>5. PostTypes'
      BY <1>1, <3>2 DEF PostTypes, Ends, Begins
    <3> QED BY <3>4, <3>5
  <2> QED BY <1>3, <2>1, <2>2, <2>3, <2>4 DEF WorkerStep
<1>4. ASSUME NEW c \in Browsers, BrowserStep(c)
      PROVE  LedgerTypes' /\ PostTypes'
  <2> c \in Calls
    BY DEF Calls
  <2>1. ASSUME NEW o \in Ops, ClaimWithdrawal(c, o)
        PROVE  LedgerTypes' /\ PostTypes'
    BY <1>1, <2>1 DEF ClaimWithdrawal, SetStatus, Begins, LedgerTypes, PostTypes
  <2>2. ASSUME NEW o \in Ops, NEW key \in Browsers, AcquirePoll(c, o, key)
        PROVE  LedgerTypes' /\ PostTypes'
    <3>1. key \in Calls /\ preparedAt[o] \in 0..MaxPosts
      BY DEF Calls, PostTypes
    <3> QED BY <2>2, <3>1 DEF AcquirePoll, Begins, LedgerTypes, PostTypes
  <2>3. CASE Withdraw(c)
    BY <2>3 DEF Withdraw, LedgerTypes, PostTypes
  <2>4. CASE RecordSubmission(c) \/ RecordFailure(c) \/ RecordDeposit(c) \/ ReleasePoll(c)
    <3>1. on[c] \in Ops
      BY <1>2, <2>4 DEF RecordSubmission, RecordFailure, RecordDeposit, ReleasePoll
    <3>2. /\ UNCHANGED <<plan, expired, due, attempts, gate, writes, transferVars>>
          /\ Ends(c) \/ UNCHANGED <<token, since>>
      BY <2>4 DEF RecordSubmission, RecordFailure, RecordDeposit, ReleasePoll
    <3>3. /\ receipt' \in [Ops -> ReceiptStatus] /\ leased' \subseteq Ops
          /\ poll' \in [Ops -> Calls \cup {None}] /\ fresh' \in [Ops -> SUBSET Calls]
      BY <2>4, <3>1 DEF RecordSubmission, RecordFailure, FailedReceipt, RecordDeposit,
           ReleasePoll, SetStatus, Release, NewVersion, Confirm, LedgerTypes
    <3>4. LedgerTypes'
      BY <3>2, <3>3 DEF LedgerTypes
    <3>5. PostTypes'
      BY <1>1, <3>2 DEF PostTypes, Ends, Begins
    <3> QED BY <3>4, <3>5
  <2> QED BY <1>4, <2>1, <2>2, <2>3, <2>4 DEF BrowserStep
<1>5. ASSUME NEW c \in Calls, CallStep(c)
      PROVE  LedgerTypes' /\ PostTypes'
  <2>1. CASE Look(c) \/ Reconcile(c) \/ Fails(c)
    BY <2>1 DEF Look, Reconcile, Fails, LedgerTypes, PostTypes
  <2>2. CASE PostTransfer(c)
    <3>1. on[c] \in Ops /\ UNCHANGED <<operationVars, token, since, shown, outboxAt, preparedAt>>
      BY <1>2, <2>2 DEF PostTransfer
    <3>2. \/ Len(posted) < MaxPosts /\ posted' = Append(posted, on[c])
          \/ UNCHANGED posted
      BY <2>2 DEF PostTransfer
    <3>3. LedgerTypes'
      BY <3>1 DEF LedgerTypes
    <3>4. posted' \in Seq(Ops) /\ Len(posted') <= MaxPosts /\ Len(posted) <= Len(posted')
      <4>1. posted \in Seq(Ops) /\ Len(posted) \in Nat /\ Len(posted) <= MaxPosts
        BY DEF PostTypes
      <4>2. CASE UNCHANGED posted
        BY <4>1, <4>2
      <4>3. CASE Len(posted) < MaxPosts /\ posted' = Append(posted, on[c])
        <5>1. posted' \in Seq(Ops) /\ Len(posted') = Len(posted) + 1
          BY <3>1, <4>1, <4>3
        <5> QED BY <4>1, <4>3, <5>1, DirectCapitalAssumption
      <4> QED BY <3>2, <4>2, <4>3
    <3>5. shown' \subseteq 1..Len(posted')
      BY <3>1, <3>4 DEF PostTypes
    <3> QED BY <3>1, <3>3, <3>4, <3>5 DEF PostTypes
  <2>3. CASE Crash(c)
    BY <1>1, <2>3 DEF Crash, Ends, Begins, LedgerTypes, PostTypes
  <2> QED BY <1>5, <2>1, <2>2, <2>3 DEF CallStep
<1>6. CASE HistoryShows
  BY <1>6 DEF HistoryShows, LedgerTypes, PostTypes
<1> QED BY <1>3, <1>4, <1>5, <1>6

LEMMA TypesInit == Init => LedgerTypes /\ PostTypes
<1> SUFFICES ASSUME Init PROVE LedgerTypes /\ PostTypes
  OBVIOUS
<1>1. 0 \in 0..MaxAttempts /\ 0 \in 0..MaxPosts
  BY DirectCapitalAssumption
<1>2. LedgerTypes
  BY <1>1 DEF Init, OperationInit, LedgerTypes, ReceiptStatus
<1>3. posted = <<>> /\ Len(posted) <= MaxPosts
  BY DirectCapitalAssumption DEF Init
<1>4. PostTypes
  BY <1>1, <1>3 DEF Init, PostTypes
<1> QED BY <1>2, <1>4

LEMMA TypesStep ==
    Inv /\ LedgerTypes /\ PostTypes /\ [Next]_vars => LedgerTypes' /\ PostTypes'
<1> SUFFICES ASSUME Inv, LedgerTypes, PostTypes, [Next]_vars
             PROVE  LedgerTypes' /\ PostTypes'
  OBVIOUS
<1>1. CASE UNCHANGED vars
  BY <1>1 DEF vars, operationVars, rowVars, pollVars, callVars, transferVars, LedgerTypes,
       PostTypes
<1> QED BY <1>1, PeopleKeepTypes, CallsKeepTypes DEF Next

LEMMA TypesSuffice == Inv /\ RowEvidence /\ LedgerTypes /\ PostTypes => TypeOK
  BY DEF Inv, Types, RowEvidence, LedgerTypes, PostTypes, TypeOK, OutboxStatus, Place

(* Every row, call and transfer at Binance has its values, and no deposit is checked more often *)
(* than the code allows, although every worker may count an attempt.                            *)
THEOREM CapitalTypesHold == Spec => []TypeOK
<1>1. Spec => []RowEvidence
  BY EvidenceHolds, PTL
<1> QED
  BY <1>1, TypesInit, TypesStep, TypesSuffice, FenceHolds, PTL DEF Spec

-----------------------------------------------------------------------------
(***************************************************************************)
(* The outbox as a fence.  A row is made once, by a claim, and is there as *)
(* long as a worker carries out the transfer it stands for.                *)
(***************************************************************************)
Carries(w) == pc[w] \in {"look", "post", "reconcile", "confirm"}

Rowed == \A w \in Workers : Carries(w) => outbox[on[w]] # "NONE"

\* A step other than a claim makes no row and loses none.
Claims(c) == (\E o \in Ops : ClaimWithdrawal(c, o)) \/ ClaimTransfer(c)

LEMMA RowsStay ==
    ASSUME Inv, Rowed, [Next]_vars, \A c \in Calls : ~Claims(c)
    PROVE  \A o \in Ops : outbox'[o] = "NONE" <=> outbox[o] = "NONE"
<1> USE DEF Inv, Types
<1>1. ASSUME NEW c \in Browsers, BrowserStep(c)
      PROVE  \A o \in Ops : outbox'[o] = "NONE" <=> outbox[o] = "NONE"
  BY <1>1 DEF BrowserStep, Claims, Calls, AcquirePoll, Withdraw, RecordSubmission, RecordFailure,
       RecordDeposit, ReleasePoll, SetOutbox
<1>2. ASSUME NEW w \in Workers, WorkerStep(w)
      PROVE  \A o \in Ops : outbox'[o] = "NONE" <=> outbox[o] = "NONE"
  <2>1. pc[w] = "confirm" => outbox[on[w]] # "NONE"
    BY DEF Rowed, Carries
  <2> QED
    BY <1>2, <2>1 DEF WorkerStep, Claims, Calls, ClaimDue, CheckFails, ConfirmContinuation,
         MarkUnknown, FinishCheck, SetOutbox
<1>3. ASSUME \/ \E c \in Calls : CallStep(c)
             \/ HistoryShows \/ Elsewhere \/ UNCHANGED vars
      PROVE  UNCHANGED outbox
  BY <1>3, OperationKeepsFence DEF CallStep, Look, PostTransfer, Reconcile, Fails, Crash,
       HistoryShows, fenceVars, vars
<1> QED
  BY <1>1, <1>2, <1>3 DEF Next

LEMMA RowedStep == Inv /\ Rowed /\ [Next]_vars => Rowed'
<1> SUFFICES ASSUME Inv, Rowed, [Next]_vars PROVE Rowed'
  OBVIOUS
<1> USE DEF Inv, Types
<1>1. ASSUME NEW w \in Workers, ClaimTransfer(w)
      PROVE  Rowed'
  <2>1. w \in Calls /\ on[w] \in Ops
    BY <1>1 DEF ClaimTransfer, Calls
  <2>2. UNCHANGED on /\ \A o \in Ops : outbox[o] # "NONE" => outbox'[o] # "NONE"
    BY <1>1, <2>1 DEF ClaimTransfer, SetOutbox
  <2>3. outbox'[on[w]] # "NONE"
    BY <1>1, <2>1 DEF ClaimTransfer, SetOutbox, Submits
  <2>4. \A v \in Workers \ {w} : pc'[v] = pc[v]
    BY <1>1, <2>1 DEF ClaimTransfer, Goes, Calls
  <2> QED
    BY <2>2, <2>3, <2>4 DEF Rowed, Carries, Calls
<1>2. ASSUME NEW c \in Calls, NEW o \in Ops, ClaimWithdrawal(c, o)
      PROVE  Rowed'
  <2>1. \A w \in Workers : Carries(w)' => Carries(w) /\ on'[w] = on[w]
    BY <1>2 DEF ClaimWithdrawal, Begins, Calls, Carries
  <2>2. \A a \in Ops : outbox[a] # "NONE" => outbox'[a] # "NONE"
    BY <1>2 DEF ClaimWithdrawal, SetOutbox
  <2> QED
    BY <2>1, <2>2 DEF Rowed, Carries, Calls
<1>3. ASSUME \A c \in Calls : ~Claims(c)
      PROVE  Rowed'
  <2>1. \A o \in Ops : outbox[o] # "NONE" => outbox'[o] # "NONE"
    BY <1>3, RowsStay
  <2>2. \A w \in Workers : Carries(w)' => Carries(w) /\ on'[w] = on[w]
    <3>1. ASSUME NEW c \in Browsers, BrowserStep(c)
          PROVE  \A w \in Workers : pc'[w] = pc[w] /\ on'[w] = on[w]
      <4>1. c \notin Workers
        BY CapitalAssumption
      <4> QED
        BY <3>1, <4>1 DEF BrowserStep, ClaimWithdrawal, AcquirePoll, Withdraw, RecordSubmission,
             RecordFailure, RecordDeposit, ReleasePoll, Begins, Ends, Goes, Calls
    <3>2. ASSUME NEW w \in Workers, WorkerStep(w)
          PROVE  \A v \in Workers : Carries(v)' => Carries(v) /\ on'[v] = on[v]
      BY <1>3, <3>2 DEF WorkerStep, Claims, ClaimDue, CheckFails, ConfirmContinuation,
           MarkUnknown, FinishCheck, Begins, Ends, Goes, callVars, Calls, Carries
    <3>3. ASSUME NEW c \in Calls, CallStep(c)
          PROVE  \A v \in Workers : Carries(v)' => Carries(v) /\ on'[v] = on[v]
      BY <3>3 DEF CallStep, Look, PostTransfer, Reconcile, Fails, Crash, Begins, Ends, Goes,
           Calls, Carries
    <3>4. CASE HistoryShows \/ Elsewhere \/ UNCHANGED vars
      BY <3>4, OperationKeepsFence DEF HistoryShows, callVars, fenceVars, vars, Carries
    <3> QED
      BY <3>1, <3>2, <3>3, <3>4 DEF Next, Carries
  <2> QED
    BY <2>1, <2>2 DEF Rowed, Carries, Calls
<1>4. \A c \in Calls : Claims(c) => \/ c \in Workers /\ ClaimTransfer(c)
                                   \/ \E o \in Ops : ClaimWithdrawal(c, o)
  BY DEF Claims, ClaimTransfer
<1> QED
  BY <1>1, <1>2, <1>3, <1>4

Journal == [o \in Ops |-> IF outbox[o] = "NONE" THEN {} ELSE {outboxAt[o]}]

LEMMA RowedInit == Init => Rowed
  BY DEF Init, Rowed, Carries, Calls

LEMMA JournalInit == Init => CapitalJournal!Init
  BY DEF Init, CapitalJournal!Init

LEMMA JournalStep ==
    Inv /\ Rowed /\ TypeOK /\ TypeOK' /\ [Next]_vars => [CapitalJournal!Next]_<<Journal, writes>>
<1> DEFINE journal == Journal
<1> USE DEF Journal
<1> SUFFICES ASSUME Inv, Rowed, TypeOK, TypeOK', [Next]_vars
             PROVE  CapitalJournal!Next \/ UNCHANGED <<journal, writes>>
  OBVIOUS
<1>1. ASSUME NEW o \in Ops, NEW n \in 0..MaxPosts,
             outbox[o] = "NONE", SetOutbox(o, "ATTEMPTING"), outboxAt'[o] = n,
             \A a \in Ops \ {o} : outboxAt'[a] = outboxAt[a], UNCHANGED writes
      PROVE  CapitalJournal!Next
  <2>1. outbox'[o] # "NONE" /\ \A a \in Ops \ {o} : outbox'[a] = outbox[a]
    BY <1>1 DEF SetOutbox, TypeOK
  <2>2. journal[o] = {} /\ journal' = [journal EXCEPT ![o] = {n}]
    BY <1>1, <2>1
  <2> QED
    BY <1>1, <2>2 DEF CapitalJournal!Next, CapitalJournal!Record
<1>2. ASSUME NEW c \in Calls, Sends(c), writes' = [writes EXCEPT ![on[c]] = @ + 1],
             UNCHANGED <<outbox, outboxAt>>
      PROVE  CapitalJournal!Next
  <2>1. PICK o \in Ops : o = on[c]
    BY <1>2 DEF Inv, Types, Sends
  <2>2. outbox[o] # "NONE" /\ writes[o] = 0
    BY <1>2, <2>1 DEF Inv, Fence
  <2>3. writes' = [writes EXCEPT ![o] = 1]
    BY <1>2, <2>1, <2>2
  <2>4. journal[o] # {} /\ UNCHANGED journal
    BY <1>2, <2>2
  <2> QED
    BY <2>2, <2>3, <2>4 DEF CapitalJournal!Next, CapitalJournal!Act
<1>3. ASSUME NEW c \in Calls, NEW o \in Ops, ClaimWithdrawal(c, o)
      PROVE  CapitalJournal!Next
  <2>1. /\ outbox[o] = "NONE" /\ SetOutbox(o, "ATTEMPTING")
        /\ UNCHANGED <<writes, outboxAt>>
    BY <1>3 DEF ClaimWithdrawal, MayWithdraw, elsewhere, transferVars
  <2> QED
    BY <1>1, <2>1 DEF TypeOK
<1>4. ASSUME NEW w \in Calls, ClaimTransfer(w)
      PROVE  CapitalJournal!Next \/ UNCHANGED <<journal, writes>>
  <2>1. PICK o \in Ops : o = on[w]
    BY <1>4 DEF ClaimTransfer, Inv, Types
  <2>2. CASE outbox[o] = "NONE"
    <3>1. SetOutbox(o, "ATTEMPTING") /\ UNCHANGED writes
      BY <1>4, <2>1, <2>2 DEF ClaimTransfer, Submits
    <3>2. PICK n \in 0..MaxPosts : n = outboxAt'[o]
      BY DEF TypeOK
    <3>3. \A a \in Ops \ {o} : outboxAt'[a] = outboxAt[a]
      BY <1>4, <2>1, <2>2 DEF ClaimTransfer, TypeOK
    <3> QED
      BY <1>1, <2>2, <3>1, <3>2, <3>3
  <2>3. CASE outbox[o] # "NONE"
    <3>1. UNCHANGED <<outboxAt, writes>>
      BY <1>4, <2>1, <2>3 DEF ClaimTransfer
    <3>2. \A a \in Ops : outbox'[a] = "NONE" <=> outbox[a] = "NONE"
      BY <1>4, <2>1, <2>3 DEF ClaimTransfer, Submits, SetOutbox, TypeOK
    <3> QED
      BY <3>1, <3>2
  <2> QED
    BY <2>2, <2>3
<1>5. ASSUME \A c \in Calls : ~Claims(c)
      PROVE  CapitalJournal!Next \/ UNCHANGED <<journal, writes>>
  <2>1. \A o \in Ops : outbox'[o] = "NONE" <=> outbox[o] = "NONE"
    BY <1>5, RowsStay
  <2>2. UNCHANGED outboxAt
    <3>1. ASSUME NEW c \in Browsers, BrowserStep(c)
          PROVE  UNCHANGED outboxAt
      BY <1>5, <3>1 DEF BrowserStep, Claims, Calls, AcquirePoll, Withdraw, RecordSubmission,
           RecordFailure, RecordDeposit, ReleasePoll, elsewhere, transferVars
    <3>2. ASSUME NEW w \in Workers, WorkerStep(w)
          PROVE  UNCHANGED outboxAt
      BY <1>5, <3>2 DEF WorkerStep, Claims, Calls, ClaimDue, CheckFails, ConfirmContinuation,
           MarkUnknown, FinishCheck, elsewhere, transferVars
    <3>3. ASSUME \/ \E c \in Calls : CallStep(c)
                 \/ HistoryShows \/ Elsewhere \/ UNCHANGED vars
          PROVE  UNCHANGED outboxAt
      BY <3>3 DEF CallStep, Look, PostTransfer, Reconcile, Fails, Crash, HistoryShows, Elsewhere,
           WithdrawalReceipt, WithdrawalCompletes, vars, elsewhere, transferVars
    <3> QED
      BY <3>1, <3>2, <3>3 DEF Next
  <2>3. UNCHANGED journal
    BY <2>1, <2>2
  <2>4. CASE UNCHANGED writes
    BY <2>3, <2>4
  <2>5. CASE writes' # writes
    <3>1. PICK c \in Calls : Withdraw(c) \/ (PostTransfer(c) /\ c \in Workers)
      <4>1. \A w \in Workers : ~WorkerStep(w)
        BY <1>5, <2>5 DEF WorkerStep, Claims, Calls, ClaimDue, CheckFails, ConfirmContinuation,
             MarkUnknown, FinishCheck, elsewhere
      <4>2. \A c \in Browsers : BrowserStep(c) => Withdraw(c)
        BY <1>5, <2>5 DEF BrowserStep, Claims, Calls, AcquirePoll, RecordSubmission,
             RecordFailure, RecordDeposit, ReleasePoll, elsewhere
      <4>3. \A c \in Calls : CallStep(c) => PostTransfer(c) /\ c \in Workers
        BY <2>5 DEF CallStep, Look, PostTransfer, Reconcile, Fails, Crash, elsewhere
      <4>4. ~HistoryShows /\ ~Elsewhere /\ ~UNCHANGED vars
        BY <2>5, OperationKeepsFence DEF HistoryShows, fenceVars, vars
      <4>5. (\E c \in Browsers : BrowserStep(c)) \/ \E c \in Calls : CallStep(c)
        BY <4>1, <4>4 DEF Next
      <4> QED
        BY <4>2, <4>3, <4>5 DEF Calls
    <3>2. Sends(c) /\ UNCHANGED <<outbox, outboxAt>>
      BY <2>2, <3>1 DEF Withdraw, PostTransfer, Sends
    <3>3. writes' = [writes EXCEPT ![on[c]] = @ + 1]
      BY <2>5, <3>1 DEF Withdraw, PostTransfer
    <3> QED
      BY <1>2, <3>2, <3>3
  <2> QED
    BY <2>4, <2>5
<1> QED
  BY <1>3, <1>4, <1>5 DEF Claims

(* The outbox implements the abstract fence: its row precedes the request, keeps the instant of *)
(* its creation, and lets one request be sent.                                                  *)
THEOREM OutboxIsWriteAhead == Spec => ImplementsWriteAhead
  BY JournalInit, JournalStep, RowedInit, RowedStep, InitInv, FenceStep, CapitalTypesHold, PTL
     DEF Spec, ImplementsWriteAhead, CapitalJournal!Spec, Journal

-----------------------------------------------------------------------------
(***************************************************************************)
(* Transfers.                                                              *)
(*                                                                         *)
(* A transaction completes one transfer because it is claimed by none when *)
(* it is counted, and what was counted is on the chain for good.  Capital  *)
(* is taken only under an authorization, which stands on votes that never  *)
(* hold the proposer, and takes one unit more than the source has lost.    *)
(***************************************************************************)
Steps == {"NONE", "DEPOSIT", "RELEASE_REQUEST", "RELEASE_EXECUTION", "RELEASE_CANCELLATION"}

ChainTypes == chain \in [Hashes -> [kind : Steps, request : Hashes \cup {Nobody}]]

Approved(t) ==
    /\ IsFiniteSet(votes[t])
    /\ proposal[t] = "NONE" => votes[t] = {}
    /\ proposer[t] \notin votes[t]
    /\ proposal[t] = "APPROVED" => Cardinality(votes[t]) >= 2
    /\ authorization[t] # "NONE" => proposal[t] = "APPROVED"
    /\ transport[t] # "NONE" => transfer[t] # "NONE"

Paid(t) ==
    /\ transport[t] \in {"DEPOSIT_CONFIRMED", "RELEASE_EXECUTION_CONFIRMED"} =>
          \E h \in confirmed[t] : chain[h].kind \in {"DEPOSIT", "RELEASE_EXECUTION"}
    /\ \A h \in confirmed[t] : chain[h] # NoEvent
    /\ \A s \in Transfers \ {t} : confirmed[s] \cap confirmed[t] = {}

TransferInv ==
    /\ TransferTypeOK /\ ChainTypes
    /\ \A t \in Transfers : Approved(t) /\ Paid(t)

moneyVars == <<proposer, proposal, votes, authorization, transfer, transport, confirmed, chain>>

\* Transfers begin at their proposals, or as authorized ones.
LEMMA BeginsHolds == ScopeInit /\ MoveInit /\ (ProposalInit \/ ApprovedInit) => TransferInv
<1> SUFFICES ASSUME ScopeInit, MoveInit, ProposalInit \/ ApprovedInit
             PROVE  TransferInv
  OBVIOUS
<1>1. ChainTypes
  BY DEF ScopeInit, ChainTypes, NoEvent, Event, Steps
<1>2. /\ proposer \in [Transfers -> Persons \cup {Nobody}]
      /\ proposal \in [Transfers -> {"NONE", "APPROVED"}]
      /\ votes \in [Transfers -> SUBSET Persons]
      /\ authorization \in [Transfers -> {"NONE", "ACTIVE"}]
  BY ProposerAssumption DEF ProposalInit, ApprovedInit
<1>3. TransferTypeOK
  <2>1. \A h \in Hashes : chain[h].request = Nobody
    BY DEF ScopeInit, NoEvent, Event
  <2> QED
    BY <1>2, <2>1 DEF ScopeInit, MoveInit, TransferTypeOK
<1>4. IsFiniteSet(Persons \ {Proposer})
  BY ProposerAssumption, FS_Subset
<1>5. ASSUME NEW t \in Transfers PROVE Approved(t) /\ Paid(t)
  <2>1. /\ IsFiniteSet(votes[t])
        /\ proposal[t] = "NONE" => votes[t] = {}
        /\ proposer[t] \notin votes[t]
        /\ proposal[t] = "APPROVED" => Cardinality(votes[t]) >= 2
        /\ authorization[t] # "NONE" => proposal[t] = "APPROVED"
    BY <1>4, FS_EmptySet, ProposerAssumption DEF ProposalInit, ApprovedInit
  <2> QED
    BY <2>1 DEF MoveInit, Approved, Paid
<1> QED BY <1>1, <1>3, <1>5 DEF TransferInv

LEMMA TransferInitHolds == TransferInit => TransferInv
  BY BeginsHolds DEF TransferInit

-----------------------------------------------------------------------------
\* What is left alone of the transfers.
LEMMA MoneyStays ==
    ASSUME TransferInv, UNCHANGED moneyVars, TransferTypeOK'
    PROVE  TransferInv'
  BY DEF moneyVars, TransferInv, ChainTypes, Approved, Paid

LEMMA ScopeHolds ==
    ASSUME TransferInv,
           \/ \E t \in Transfers : Expires(t)
           \/ \E l \in Locations : RecordBalance(l)
           \/ RecordVaultSnapshot \/ Trade \/ ReconcileScope \/ SetPolicy \/ SwitchCapability
    PROVE  TransferInv'
<1> USE DEF TransferInv
<1>1. ASSUME NEW t \in Transfers, Expires(t)
      PROVE  TransferTypeOK' /\ UNCHANGED moneyVars
  <2>1. UNCHANGED <<environment, proposalVars, authorization, transfer, stageVars, chain, factVars,
                    tradingVars>>
    BY <1>1 DEF Expires
  <2>2. lapsed' \subseteq Transfers \X {"PROPOSAL", "AUTHORIZATION", "REQUEST"}
    BY <1>1 DEF Expires, TransferTypeOK
  <2> QED
    BY <2>1, <2>2 DEF proposalVars, stageVars, factVars, tradingVars, TransferTypeOK, moneyVars
<1>2. ASSUME NEW l \in Locations, NEW c \in Conditions, FactBecomes(l, c)
      PROVE  TransferTypeOK' /\ UNCHANGED moneyVars
  <2>1. UNCHANGED <<untouched, transfer, stageVars, chain>>
    BY <1>2 DEF FactBecomes
  <2>2. /\ withdrawable' \in [Locations -> 0 .. MaxBalance]
        /\ condition' \in [Locations -> Conditions]
        /\ shows' \in [Locations -> SUBSET Transfers]
    BY <1>2 DEF FactBecomes, TransferTypeOK
  <2> QED
    BY <2>1, <2>2 DEF untouched, proposalVars, stageVars, tradingVars, TransferTypeOK, moneyVars
<1>3. CASE Trade \/ ReconcileScope \/ SetPolicy \/ SwitchCapability
  <2>1. UNCHANGED besidesScope
    BY <1>3 DEF Trade, ReconcileScope, SetPolicy, SwitchCapability
  <2>2. /\ trading' \in {"OPEN", "FLAT", "CLOSED"} /\ match' \in BOOLEAN /\ policy' \in BOOLEAN
        /\ enabled' \subseteq Capabilities
    BY <1>3 DEF Trade, ReconcileScope, SetPolicy, SwitchCapability, TransferTypeOK
  <2>3. TransferTypeOK' /\ UNCHANGED moneyVars
    BY <2>1, <2>2 DEF besidesScope, proposalVars, stageVars, factVars, TransferTypeOK, moneyVars
  <2> QED BY <2>3, MoneyStays
<1>4. CASE RecordVaultSnapshot
  <2>1. FactBecomes("VAULT", "READY") /\ "VAULT" \in Locations /\ "READY" \in Conditions
    BY <1>4 DEF RecordVaultSnapshot, Locations, Conditions
  <2> QED BY <1>2, <2>1, MoneyStays
<1>5. ASSUME NEW l \in Locations, RecordBalance(l)
      PROVE  TransferInv'
  BY <1>2, <1>5, MoneyStays DEF RecordBalance
<1> QED BY <1>1, <1>3, <1>4, <1>5, MoneyStays

-----------------------------------------------------------------------------
\* Of the others, what a step on one transfer leaves.
LEMMA OthersStay ==
    ASSUME TransferInv, NEW t \in Transfers, NEW s \in Transfers, s # t,
           proposer'[s] = proposer[s], proposal'[s] = proposal[s], votes'[s] = votes[s],
           authorization'[s] = authorization[s], transfer'[s] = transfer[s],
           transport'[s] = transport[s]
    PROVE  Approved(s)'
  BY DEF TransferInv, Approved

\* Neither the chain nor what is confirmed changes, nor is anything delivered.
LEMMA PaymentsStay ==
    ASSUME TransferInv, UNCHANGED <<confirmed, chain>>, NEW t \in Transfers,
           \A s \in Transfers : \/ transport'[s] = transport[s]
                                \/ transport'[s] \notin {"DEPOSIT_CONFIRMED",
                                                         "RELEASE_EXECUTION_CONFIRMED"}
    PROVE  ChainTypes' /\ \A s \in Transfers : Paid(s)'
  BY DEF TransferInv, ChainTypes, Paid

LEMMA ReviewHolds ==
    ASSUME TransferInv, NEW t \in Transfers,
           \/ SubmitTransferProposal(t)
           \/ \E p \in Persons :
                \/ CreateTransferProposal(t, p) \/ ReviewTransferProposal(t, p)
                \/ IssueTransferAuthorization(t, p) \/ CreateAutomationCandidate(t, p)
    PROVE  TransferInv'
<1> USE DEF TransferInv
<1>1. UNCHANGED <<environment, direction, lapsed, transfer, stageVars, chain, factVars,
                  tradingVars>>
  BY DEF SubmitTransferProposal, CreateTransferProposal, ReviewTransferProposal,
    IssueTransferAuthorization, CreateAutomationCandidate, proposalVars, afterProposal
<1> DEFINE Typed ==
        /\ purpose' \in [Transfers -> {"MANUAL_TRANSFER", "AUTOMATIC"}]
        /\ proposer' \in [Transfers -> Persons \cup {Nobody}]
        /\ proposal' \in [Transfers -> {"NONE", "DRAFT", "PENDING_REVIEW", "APPROVED", "REJECTED"}]
        /\ votes' \in [Transfers -> SUBSET Persons]
        /\ authorization' \in [Transfers -> {"NONE", "ACTIVE", "USED"}]
<1>2. Typed
  <2>1. CASE SubmitTransferProposal(t)
    BY <2>1 DEF SubmitTransferProposal, SetProposal, afterProposal, TransferTypeOK
  <2>2. ASSUME NEW p \in Persons, CreateTransferProposal(t, p)
        PROVE  Typed
    BY <2>2 DEF CreateTransferProposal, SetProposal, afterProposal, TransferTypeOK
  <2>3. ASSUME NEW p \in Persons, ReviewTransferProposal(t, p)
        PROVE  Typed
    BY <2>3 DEF ReviewTransferProposal, SetProposal, afterProposal, TransferTypeOK
  <2>4. ASSUME NEW p \in Persons, IssueTransferAuthorization(t, p)
        PROVE  Typed
    BY <2>4 DEF IssueTransferAuthorization, proposalVars, TransferTypeOK
  <2>5. ASSUME NEW p \in Persons, CreateAutomationCandidate(t, p)
        PROVE  Typed
    BY <2>5 DEF CreateAutomationCandidate, SetProposal, afterProposal, TransferTypeOK
  <2> QED BY <2>1, <2>2, <2>3, <2>4, <2>5
<1>3. TransferTypeOK'
  BY <1>1, <1>2 DEF stageVars, factVars, tradingVars, TransferTypeOK
<1>4. ASSUME NEW s \in Transfers, s # t
      PROVE  Approved(s)'
  <2>1. /\ proposer'[s] = proposer[s] /\ proposal'[s] = proposal[s] /\ votes'[s] = votes[s]
        /\ authorization'[s] = authorization[s]
    BY <1>4 DEF SubmitTransferProposal, CreateTransferProposal, ReviewTransferProposal,
      IssueTransferAuthorization, CreateAutomationCandidate, proposalVars, afterProposal,
      SetProposal, TransferTypeOK
  <2> QED BY <1>1, <1>4, <2>1, OthersStay DEF stageVars
<1>5. Approved(t)'
  <2>1. transfer'[t] = transfer[t] /\ transport'[t] = transport[t] /\ Approved(t)
    BY <1>1 DEF stageVars
  <2>2. CASE SubmitTransferProposal(t)
    BY <2>1, <2>2 DEF SubmitTransferProposal, SetProposal, afterProposal, TransferTypeOK, Approved
  <2>3. ASSUME NEW p \in Persons, CreateTransferProposal(t, p)
        PROVE  Approved(t)'
    BY <2>1, <2>3 DEF CreateTransferProposal, SetProposal, afterProposal, TransferTypeOK, Approved
  <2>4. ASSUME NEW p \in Persons, ReviewTransferProposal(t, p)
        PROVE  Approved(t)'
    <3>1. /\ proposal[t] = "PENDING_REVIEW" /\ p # proposer[t] /\ p \notin votes[t]
          /\ proposer' = proposer /\ authorization' = authorization
      BY <2>4 DEF ReviewTransferProposal, MayReview, afterProposal
    <3>2. authorization[t] = "NONE"
      BY <2>1, <3>1 DEF Approved
    <3>3. CASE SetProposal(t, "REJECTED") /\ UNCHANGED votes
      BY <2>1, <3>1, <3>2, <3>3 DEF SetProposal, TransferTypeOK, Approved
    <3>4. CASE /\ votes' = [votes EXCEPT ![t] = @ \cup {p}]
               /\ SetProposal(t, IF Cardinality(votes'[t]) >= 2 THEN "APPROVED" ELSE proposal[t])
      <4>1. votes'[t] = votes[t] \cup {p}
        BY <3>4 DEF TransferTypeOK
      <4>2. IsFiniteSet(votes'[t])
        <5>1. IsFiniteSet(votes[t])
          BY <2>1 DEF Approved
        <5>2. IsFiniteSet(votes[t] \cup {p})
          BY <5>1, FS_AddElement
        <5> QED BY <4>1, <5>2
      <4>3. proposal'[t] = IF Cardinality(votes'[t]) >= 2 THEN "APPROVED" ELSE "PENDING_REVIEW"
        BY <3>1, <3>4 DEF SetProposal, TransferTypeOK
      <4>4. proposer'[t] \notin votes'[t]
        BY <2>1, <3>1, <4>1 DEF Approved
      <4> QED BY <2>1, <3>1, <3>2, <4>2, <4>3, <4>4 DEF Approved
    <3> QED BY <2>4, <3>3, <3>4 DEF ReviewTransferProposal
  <2>5. ASSUME NEW p \in Persons, IssueTransferAuthorization(t, p)
        PROVE  Approved(t)'
    BY <2>1, <2>5 DEF IssueTransferAuthorization, proposalVars, TransferTypeOK, Approved
  <2>6. ASSUME NEW p \in Persons, CreateAutomationCandidate(t, p)
        PROVE  Approved(t)'
    BY <2>1, <2>6 DEF CreateAutomationCandidate, SetProposal, afterProposal, TransferTypeOK,
      Approved
  <2> QED BY <2>2, <2>3, <2>4, <2>5, <2>6
<1>6. ChainTypes' /\ \A s \in Transfers : Paid(s)'
  BY <1>1, PaymentsStay DEF stageVars
<1> QED BY <1>3, <1>4, <1>5, <1>6

\* The transaction of a reservation, of a plan, of an observation: nothing is counted.
LEMMA PlanHolds ==
    ASSUME TransferInv, NEW t \in Transfers,
           \/ \E p \in Persons : ReserveCapitalTransfer(t, p)
           \/ RecordMockSubmission(t) \/ RecordObservation(t) \/ PrepareTransfer(t)
           \/ PrepareExecution(t) \/ RecordExecutionPlan(t) \/ PlanCancellation(t)
           \/ ReconcileCapitalTransfer(t)
    PROVE  TransferInv'
<1> USE DEF TransferInv
<1>1. /\ UNCHANGED <<environment, direction, purpose, proposer, proposal, votes, lapsed>>
      /\ UNCHANGED <<request, confirmed, chain, withdrawable, condition>>
      /\ UNCHANGED <<trading, match, enabled, policy>>
  BY DEF ReserveCapitalTransfer, RecordMockSubmission, RecordObservation, PrepareTransfer,
    PrepareExecution, RecordExecutionPlan, PlanCancellation, ReconcileCapitalTransfer,
    proposalVars, stageVars, factVars, tradingVars, untouched, besidesTransport
<1> DEFINE Changes ==
      /\ authorization' \in [Transfers -> {"NONE", "ACTIVE", "USED"}]
      /\ transfer' \in [Transfers -> Occupied \cup {"NONE", "SETTLED", "FAILED_SOURCE_RESTORED"}]
      /\ transport' \in [Transfers -> {"NONE", "DEPOSIT_CONFIRMED", "RELEASE_REQUEST_CONFIRMED",
                                       "RELEASE_EXECUTION_CONFIRMED", "RELEASE_CANCELLED"}
                                      \cup DOMAIN Kind]
      /\ overcharged' \subseteq Transfers /\ preparing' \subseteq Transfers
      /\ shows' \in [Locations -> SUBSET Transfers]
      /\ \A s \in Transfers \ {t} :
            /\ authorization'[s] = authorization[s]
            /\ transfer'[s] = transfer[s] /\ transport'[s] = transport[s]
      /\ transport'[t] \in {transport[t]} \cup DOMAIN Kind
      /\ authorization[t] = "NONE" => authorization'[t] = "NONE"
      /\ transfer'[t] # "NONE" \/ transport'[t] = transport[t]
      /\ transfer[t] # "NONE" => transfer'[t] # "NONE"
<1>2. Changes
  <2>1. ASSUME NEW p \in Persons, ReserveCapitalTransfer(t, p)
        PROVE  Changes
    BY <2>1 DEF ReserveCapitalTransfer, SetTransfer, stageVars, factVars, TransferTypeOK, Occupied
  <2>2. CASE RecordMockSubmission(t)
    BY <2>2 DEF RecordMockSubmission, SetTransfer, stageVars, factVars, untouched, TransferTypeOK,
      Occupied
  <2>3. CASE RecordObservation(t)
    <3>1. /\ UNCHANGED <<authorization, transport, preparing>>
          /\ transfer[t] \in DOMAIN May
      BY <2>3 DEF RecordObservation, untouched
    <3>2. PICK s \in May[transfer[t]] :
            /\ SetTransfer(t, s) /\ Overtakes(t)
            /\ overcharged' = IF s = "DESTINATION_CONFIRMED" THEN overcharged \ {t}
                              ELSE overcharged
      BY <2>3 DEF RecordObservation
    <3>3. s \in Occupied \cup {"SETTLED", "FAILED_SOURCE_RESTORED"} /\ s # "NONE"
      BY <3>1, <3>2 DEF May, Occupied
    <3> QED BY <3>1, <3>2, <3>3 DEF SetTransfer, Overtakes, TransferTypeOK
  <2>4. CASE PrepareTransfer(t)
    BY <2>4 DEF PrepareTransfer, SetTransport, besidesTransport, factVars, untouched,
      TransferTypeOK, Kind
  <2>5. CASE PrepareExecution(t)
    BY <2>5 DEF PrepareExecution, besidesTransport, factVars, untouched, TransferTypeOK
  <2>6. CASE RecordExecutionPlan(t)
    <3>1. CASE Awaiting(t) /\ SetTransport(t, "RELEASE_EXECUTION_PLAN_READY")
      BY <2>6, <3>1 DEF RecordExecutionPlan, Awaiting, SetTransport, besidesTransport, factVars,
        untouched, TransferTypeOK, Kind
    <3>2. CASE UNCHANGED transport
      BY <2>6, <3>2 DEF RecordExecutionPlan, besidesTransport, factVars, untouched,
        TransferTypeOK
    <3> QED BY <2>6, <3>1, <3>2 DEF RecordExecutionPlan
  <2>7. CASE PlanCancellation(t)
    BY <2>7 DEF PlanCancellation, Awaiting, SetTransport, besidesTransport, factVars,
      untouched, TransferTypeOK, Kind
  <2>8. CASE ReconcileCapitalTransfer(t)
    BY <2>8 DEF ReconcileCapitalTransfer, SetTransfer, stageVars, factVars, untouched,
      TransferTypeOK, Occupied
  <2> QED BY <2>1, <2>2, <2>3, <2>4, <2>5, <2>6, <2>7, <2>8
<1>3. TransferTypeOK'
  BY <1>1, <1>2 DEF TransferTypeOK
<1>4. Approved(t)'
  BY <1>1, <1>2 DEF Approved
<1>5. \A s \in Transfers \ {t} : Approved(s)'
  BY <1>1, <1>2, OthersStay
<1>6. ChainTypes' /\ \A s \in Transfers : Paid(s)'
  BY <1>1, <1>2, PaymentsStay DEF Kind
<1> QED BY <1>3, <1>4, <1>5, <1>6

\* A wallet signs: a transaction appears that nobody counts yet.
LEMMA SignHolds ==
    ASSUME TransferInv, NEW t \in Transfers, NEW h \in Hashes, SignTransaction(t, h)
    PROVE  TransferInv'
<1> USE DEF TransferInv
<1>1. /\ UNCHANGED <<untouched, transfer, stageVars, factVars>>
      /\ transport[t] \in DOMAIN Kind /\ chain[h] = NoEvent
      /\ chain' = [chain EXCEPT ![h] = Event(Kind[transport[t]], request[t])]
  BY DEF SignTransaction
<1>2. ChainTypes'
  BY <1>1 DEF ChainTypes, Event, Kind, Steps, TransferTypeOK
<1>3. TransferTypeOK'
  BY <1>1, <1>2 DEF ChainTypes, untouched, proposalVars, stageVars, factVars, tradingVars,
    TransferTypeOK
<1>4. \A s \in Transfers : Approved(s)'
  BY <1>1 DEF untouched, proposalVars, stageVars, Approved
<1>5. ASSUME NEW s \in Transfers PROVE Paid(s)'
  <2>1. \A g \in confirmed[s] : g # h /\ chain'[g] = chain[g]
    BY <1>1 DEF Paid, TransferTypeOK, ChainTypes
  <2> QED BY <1>1, <2>1 DEF stageVars, Paid
<1> QED BY <1>2, <1>3, <1>4, <1>5

\* What a receipt makes of its transfer.
LEMMA ReceiptSets ==
    ASSUME TransferInv, NEW t \in Transfers, NEW h \in Hashes, RecordReceipt(t, h)
    PROVE  \E stage \in {"DEPOSIT_CONFIRMED", "RELEASE_REQUEST_CONFIRMED",
                         "RELEASE_EXECUTION_CONFIRMED", "RELEASE_CANCELLED"},
              where \in Occupied \cup {"FAILED_SOURCE_RESTORED"} :
               /\ SetTransport(t, stage) /\ SetTransfer(t, where)
               /\ stage \in {"DEPOSIT_CONFIRMED", "RELEASE_EXECUTION_CONFIRMED"} =>
                     chain[h].kind \in {"DEPOSIT", "RELEASE_EXECUTION"}
               /\ request' = request \/ request' = [request EXCEPT ![t] = h]
               /\ overcharged' \in {overcharged, overcharged \cup {t}}
<1>1. /\ chain[h].kind = Kind[transport[t]]
      /\ Kind[transport[t]] \in {"DEPOSIT", "RELEASE_REQUEST", "RELEASE_EXECUTION",
                                 "RELEASE_CANCELLATION"}
  BY DEF RecordReceipt, Event, Kind
<1>2. CASE chain[h].kind = "DEPOSIT"
  <2>1. ConfirmDeposit(t)
    BY <1>2 DEF RecordReceipt
  <2> QED BY <1>2, <2>1 DEF ConfirmDeposit, Occupied
<1>3. CASE chain[h].kind = "RELEASE_REQUEST"
  <2>1. ConfirmRequest(t, h)
    BY <1>3 DEF RecordReceipt
  <2> QED BY <1>3, <2>1 DEF ConfirmRequest, Occupied
<1>4. CASE chain[h].kind = "RELEASE_EXECUTION"
  <2>1. ConfirmExecution(t)
    BY <1>4 DEF RecordReceipt
  <2> QED BY <1>4, <2>1 DEF ConfirmExecution, Occupied
<1>5. CASE chain[h].kind = "RELEASE_CANCELLATION"
  <2>1. ConfirmCancellation(t)
    BY <1>5 DEF RecordReceipt
  <2> QED BY <1>5, <2>1 DEF ConfirmCancellation, Occupied
<1> QED BY <1>1, <1>2, <1>3, <1>4, <1>5

\* A receipt counts a transaction of the chain that no transfer has claimed.
LEMMA ReceiptHolds ==
    ASSUME TransferInv, NEW t \in Transfers, NEW h \in Hashes, RecordReceipt(t, h)
    PROVE  TransferInv'
<1> USE DEF TransferInv
<1>1. /\ transport[t] \in DOMAIN Kind /\ chain[h] = Event(Kind[transport[t]], request[t])
      /\ \A s \in Transfers : h \notin confirmed[s]
      /\ confirmed' = [confirmed EXCEPT ![t] = @ \cup {h}] /\ DatedByBlock(t)
      /\ UNCHANGED <<untouched, preparing, chain, withdrawable, condition>>
  BY DEF RecordReceipt, Unbound
<1>2. chain[h] # NoEvent
  BY <1>1 DEF Event, NoEvent, Kind
<1>3. PICK stage \in {"DEPOSIT_CONFIRMED", "RELEASE_REQUEST_CONFIRMED",
                      "RELEASE_EXECUTION_CONFIRMED", "RELEASE_CANCELLED"},
           where \in Occupied \cup {"FAILED_SOURCE_RESTORED"} :
        /\ SetTransport(t, stage) /\ SetTransfer(t, where)
        /\ stage \in {"DEPOSIT_CONFIRMED", "RELEASE_EXECUTION_CONFIRMED"} =>
              chain[h].kind \in {"DEPOSIT", "RELEASE_EXECUTION"}
        /\ request' = request \/ request' = [request EXCEPT ![t] = h]
        /\ overcharged' \in {overcharged, overcharged \cup {t}}
  BY ReceiptSets
<1>4. where # "NONE"
  BY DEF Occupied
<1>5. ChainTypes'
  BY <1>1 DEF ChainTypes
<1>6. TransferTypeOK'
  <2>1. request' \in [Transfers -> Hashes \cup {Nobody}]
    BY <1>3 DEF TransferTypeOK
  <2>2. shows' \in [Locations -> SUBSET Transfers]
    BY <1>1 DEF DatedByBlock, TransferTypeOK
  <2>3. /\ transfer' \in [Transfers -> Occupied \cup {"NONE", "SETTLED", "FAILED_SOURCE_RESTORED"}]
        /\ transport' \in [Transfers -> {"NONE", "DEPOSIT_CONFIRMED", "RELEASE_REQUEST_CONFIRMED",
                                         "RELEASE_EXECUTION_CONFIRMED", "RELEASE_CANCELLED"}
                                        \cup DOMAIN Kind]
        /\ confirmed' \in [Transfers -> SUBSET Hashes] /\ overcharged' \subseteq Transfers
    BY <1>1, <1>3 DEF SetTransfer, SetTransport, TransferTypeOK
  <2> QED BY <1>1, <2>1, <2>2, <2>3 DEF untouched, proposalVars, tradingVars, TransferTypeOK
<1>7. ASSUME NEW s \in Transfers PROVE Approved(s)'
  <2>1. UNCHANGED <<proposer, proposal, votes, authorization>>
    BY <1>1 DEF untouched, proposalVars
  <2>2. CASE s = t
    <3>1. transfer'[t] # "NONE"
      BY <1>3, <1>4 DEF SetTransfer, TransferTypeOK
    <3> QED BY <2>1, <2>2, <3>1 DEF Approved
  <2>3. CASE s # t
    BY <1>3, <2>1, <2>3, OthersStay DEF SetTransfer, SetTransport, TransferTypeOK
  <2> QED BY <2>2, <2>3
<1>8. ASSUME NEW s \in Transfers PROVE Paid(s)'
  <2>1. /\ confirmed'[t] = confirmed[t] \cup {h} /\ chain' = chain
        /\ \A u \in Transfers \ {t} : /\ confirmed'[u] = confirmed[u]
                                      /\ transport'[u] = transport[u]
    BY <1>1, <1>3 DEF SetTransport, TransferTypeOK
  <2>2. Paid(s)
    OBVIOUS
  <2>3. \A g \in confirmed'[s] : chain'[g] # NoEvent
    BY <1>2, <2>1, <2>2 DEF Paid
  <2>4. \A u \in Transfers \ {s} : confirmed'[u] \cap confirmed'[s] = {}
    BY <1>1, <2>1, <2>2 DEF Paid
  <2>5. transport'[s] \in {"DEPOSIT_CONFIRMED", "RELEASE_EXECUTION_CONFIRMED"} =>
           \E g \in confirmed'[s] : chain'[g].kind \in {"DEPOSIT", "RELEASE_EXECUTION"}
    <3>1. CASE s = t
      <4>1. transport'[t] = stage
        BY <1>3 DEF SetTransport, TransferTypeOK
      <4> QED BY <1>3, <2>1, <3>1, <4>1
    <3>2. CASE s # t
      BY <2>1, <2>2, <3>2 DEF Paid
    <3> QED BY <3>1, <3>2
  <2> QED BY <2>3, <2>4, <2>5 DEF Paid
<1> QED BY <1>5, <1>6, <1>7, <1>8

LEMMA TransferInvHolds == TransferInv /\ [TransferNext]_capitalVars => TransferInv'
<1> SUFFICES ASSUME TransferInv, [TransferNext]_capitalVars PROVE TransferInv'
  OBVIOUS
<1>1. CASE UNCHANGED capitalVars
  BY <1>1 DEF capitalVars, proposalVars, stageVars, factVars, tradingVars, TransferInv,
    TransferTypeOK, ChainTypes, Approved, Paid
<1> QED BY <1>1, ScopeHolds, ReviewHolds, PlanHolds, SignHolds, ReceiptHolds DEF TransferNext

(* Every variable of the transfers has its values, whatever people, wallets, facts and time do. *)
THEOREM TransferTypesHold == TransferSpec => []TransferTypeOK
<1>1. TransferInv => TransferTypeOK
  BY DEF TransferInv
<1> QED
  BY <1>1, TransferInitHolds, TransferInvHolds, PTL DEF TransferSpec

(* A transfer that is confirmed as delivered has a transaction of its own on the chain,         *)
(* although any hash may be handed in for any transfer, and twice (record_notilt_receipt).      *)
THEOREM PaidOnItsOwnHolds == TransferSpec => []PaidOnItsOwn
<1>1. TransferInv => PaidOnItsOwn
  BY DEF TransferInv, Paid, PaidOnItsOwn
<1> QED
  BY <1>1, TransferInitHolds, TransferInvHolds, PTL DEF TransferSpec

\* Only a reservation begins a transfer, and it takes one unit of what is left.
LEMMA ReserveBegins ==
    ASSUME TransferInv, [TransferNext]_capitalVars, NEW t \in Transfers,
           transfer[t] = "NONE", transfer'[t] # "NONE"
    PROVE  \E p \in Persons : ReserveCapitalTransfer(t, p)
<1> USE DEF TransferInv
<1>1. transfer' # transfer
  OBVIOUS
<1>2. ASSUME NEW s \in Transfers, NEW x, SetTransfer(s, x)
      PROVE  s = t
  BY <1>2 DEF SetTransfer, TransferTypeOK
<1>3. CASE \E p \in Persons, s \in Transfers : ReserveCapitalTransfer(s, p)
  BY <1>2, <1>3 DEF ReserveCapitalTransfer
<1>4. ASSUME NEW s \in Transfers,
             \/ RecordMockSubmission(s) \/ RecordObservation(s) \/ ReconcileCapitalTransfer(s)
             \/ \E h \in Hashes : RecordReceipt(s, h)
      PROVE  FALSE
  <2>1. ASSUME s = t PROVE FALSE
    <3>1. transport[t] = "NONE"
      BY DEF Approved
    <3> QED BY <1>4, <2>1, <3>1 DEF RecordMockSubmission, RecordObservation, May, Settleable,
             ReconcileCapitalTransfer, RecordReceipt, Kind
  <2>2. CASE RecordMockSubmission(s) \/ RecordObservation(s) \/ ReconcileCapitalTransfer(s)
    BY <1>2, <2>1, <2>2 DEF RecordMockSubmission, RecordObservation, ReconcileCapitalTransfer
  <2>3. ASSUME NEW h \in Hashes, RecordReceipt(s, h)
        PROVE  FALSE
    <3>1. PICK x : SetTransfer(s, x)
      BY <2>3, ReceiptSets
    <3> QED BY <1>2, <2>1, <3>1
  <2> QED BY <1>4, <2>2, <2>3
<1>5. ASSUME NEW s \in Transfers,
             \/ SubmitTransferProposal(s) \/ PrepareTransfer(s) \/ PrepareExecution(s)
             \/ RecordExecutionPlan(s) \/ PlanCancellation(s) \/ Expires(s)
             \/ \E p \in Persons :
                  \/ CreateTransferProposal(s, p) \/ ReviewTransferProposal(s, p)
                  \/ IssueTransferAuthorization(s, p) \/ CreateAutomationCandidate(s, p)
             \/ \E h \in Hashes : SignTransaction(s, h)
      PROVE  FALSE
  BY <1>1, <1>5 DEF SubmitTransferProposal, PrepareTransfer, PrepareExecution, RecordExecutionPlan,
    PlanCancellation, Expires, CreateTransferProposal, ReviewTransferProposal,
    IssueTransferAuthorization, CreateAutomationCandidate, SignTransaction, afterProposal
<1>6. ASSUME \/ \E l \in Locations : RecordBalance(l)
             \/ RecordVaultSnapshot \/ Trade \/ ReconcileScope \/ SetPolicy \/ SwitchCapability
             \/ UNCHANGED capitalVars
      PROVE  FALSE
  BY <1>1, <1>6 DEF RecordBalance, RecordVaultSnapshot, FactBecomes, Trade, ReconcileScope,
    SetPolicy, SwitchCapability, besidesScope, capitalVars
<1> QED BY <1>3, <1>4, <1>5, <1>6 DEF TransferNext

LEMMA ReservesOneUnit ==
    ASSUME TransferInv, NEW t \in Transfers, NEW p \in Persons, ReserveCapitalTransfer(t, p),
           transfer[t] = "NONE",
           NEW U, U = {s \in Transfers : /\ Source(s) = Source(t)
                                         /\ transfer'[s] \notin {"NONE", "SETTLED",
                                                                 "FAILED_SOURCE_RESTORED"}}
    PROVE  Cardinality(U) <= withdrawable[Source(t)]
<1> USE DEF TransferInv
<1> DEFINE O == Owned(Source(t))
<1>1. /\ Cardinality(O) < withdrawable[Source(t)]
      /\ transfer' = [transfer EXCEPT ![t] = "SOURCE_RESERVED"]
  BY DEF ReserveCapitalTransfer, SetTransfer
<1>2. withdrawable[Source(t)] \in Nat
  BY TransfersAssumption DEF TransferTypeOK, Source, Locations
<1>3. O \subseteq Transfers /\ t \notin O
  BY DEF Owned, Occupied
<1>4. U = O \cup {t}
  BY <1>1 DEF Owned, Occupied, TransferTypeOK
<1>5. IsFiniteSet(O)
  BY <1>3, TransfersAssumption, FS_Subset
<1>6. Cardinality(O) \in Nat /\ Cardinality(O \cup {t}) = Cardinality(O) + 1
  BY <1>3, <1>5, FS_CardinalityType, FS_AddElement
<1> HIDE DEF O
<1>7. Cardinality(U) = Cardinality(O) + 1
  BY <1>4, <1>6
<1> QED BY <1>1, <1>2, <1>6, <1>7

Reserves(t) ==
    LET unsettled == {s \in Transfers : /\ Source(s) = Source(t)
                                        /\ transfer'[s] \notin {"NONE", "SETTLED",
                                                                "FAILED_SOURCE_RESTORED"}}
    IN  /\ Cardinality(votes[t] \ {proposer[t]}) >= 2
        /\ Cardinality(unsettled) <= withdrawable[Source(t)]

LEMMA ReservesStep ==
    TransferInv /\ [TransferNext]_capitalVars =>
        \A t \in Transfers : transfer[t] = "NONE" /\ transfer'[t] # "NONE" => Reserves(t)
<1> SUFFICES ASSUME TransferInv, [TransferNext]_capitalVars,
                    NEW t \in Transfers, transfer[t] = "NONE", transfer'[t] # "NONE"
             PROVE  Reserves(t)
  OBVIOUS
<1>1. PICK p \in Persons : ReserveCapitalTransfer(t, p)
  BY ReserveBegins
<1>2. Approved(t) /\ authorization[t] = "ACTIVE"
  BY <1>1 DEF TransferInv, ReserveCapitalTransfer
<1>3. votes[t] \ {proposer[t]} = votes[t] /\ Cardinality(votes[t]) >= 2
  BY <1>2 DEF Approved
<1>4. Cardinality(votes[t] \ {proposer[t]}) >= 2
  BY <1>3
<1> DEFINE U == {s \in Transfers : /\ Source(s) = Source(t)
                                   /\ transfer'[s] \notin {"NONE", "SETTLED",
                                                           "FAILED_SOURCE_RESTORED"}}
<1>5. Cardinality(U) <= withdrawable[Source(t)]
  BY <1>1, ReservesOneUnit
<1> QED BY <1>4, <1>5 DEF Reserves

(* Capital is taken only for what two people other than its proposer approved, and what is      *)
(* unsettled of a source fits into what its fact allows, for any number of transfers at once.   *)
THEOREM ReservesSoundlyHolds == TransferSpec => ReservesSoundly
<1>1. TransferInv /\ [TransferNext]_capitalVars =>
        [\A t \in Transfers : transfer[t] = "NONE" /\ transfer'[t] # "NONE" =>
            Reserves(t)]_capitalVars
  BY ReservesStep
<1> QED
  BY <1>1, TransferInitHolds, TransferInvHolds, PTL
     DEF TransferSpec, ReservesSoundly, Reserves

-----------------------------------------------------------------------------
(***************************************************************************)
(* The composition.  Each of its instances takes the steps of one of the   *)
(* two modules and leaves the other alone, so what each keeps, both keep.  *)
(***************************************************************************)
OperationsInv ==
    Inv /\ Attempted /\ RowEvidence /\ CallEvidence /\ LedgerTypes /\ PostTypes /\ Rowed

CapitalInv ==
    OperationsInv /\ TransferInv /\ focus \in {"direct", "review", "chain"}

LEMMA OperationsStep == OperationsInv /\ [Next]_vars => OperationsInv'
  BY FenceStep, AttemptedStep, EvidenceStep, TypesStep, RowedStep DEF OperationsInv

LEMMA CapitalInitHolds == CapitalInit => CapitalInv
<1> SUFFICES ASSUME CapitalInit PROVE CapitalInv
  OBVIOUS
<1>1. Init /\ ScopeInit /\ MoveInit /\ (ProposalInit \/ ApprovedInit)
  BY DEF CapitalInit
<1> QED
  BY <1>1, BeginsHolds, InitInv, AttemptedInit, EvidenceInit, TypesInit, RowedInit
     DEF CapitalInit, CapitalInv, OperationsInv

LEMMA CapitalStepsAreTheirs ==
    focus \in {"direct", "review", "chain"} /\ [CapitalNext]_<<vars, capitalVars, focus>> =>
        [Next]_vars /\ [TransferNext]_capitalVars /\ UNCHANGED focus
<1> SUFFICES ASSUME focus \in {"direct", "review", "chain"},
                    CapitalNext \/ UNCHANGED <<vars, capitalVars, focus>>
             PROVE  [Next]_vars /\ [TransferNext]_capitalVars /\ UNCHANGED focus
  OBVIOUS
<1>1. CASE focus = "direct" /\ CapitalNext
  BY <1>1 DEF CapitalNext
<1>2. CASE focus = "review" /\ CapitalNext
  BY <1>2 DEF CapitalNext, ReviewStep
<1>3. CASE focus = "chain" /\ CapitalNext
  BY <1>3 DEF CapitalNext, ChainStep
<1>4. CASE UNCHANGED <<vars, capitalVars, focus>>
  BY <1>4
<1> QED
  BY <1>1, <1>2, <1>3, <1>4

LEMMA CapitalInvHolds == CapitalSpec => []CapitalInv
<1>1. CapitalInv /\ [CapitalNext]_<<vars, capitalVars, focus>> => CapitalInv'
  BY CapitalStepsAreTheirs, OperationsStep, TransferInvHolds DEF CapitalInv
<1> QED
  BY <1>1, CapitalInitHolds, PTL DEF CapitalSpec

LEMMA CapitalInvSuffices ==
    CapitalInv => CapitalTypesOK /\ TypeOK /\ SettledIsMoved /\ PaidOnItsOwn
  BY TypesSuffice
     DEF CapitalInv, OperationsInv, CapitalTypesOK, RowEvidence, TransferInv, Paid, PaidOnItsOwn

(* Both ways of moving capital keep the values of their variables, side by side and whether the *)
(* transfers begin at their proposals or are authorized already.                                *)
THEOREM CapitalTypesHoldTogether == CapitalSpec => []CapitalTypesOK
  BY CapitalInvHolds, CapitalInvSuffices, PTL

(* In the composition, too, what is settled has moved, a payment completes one transfer, rows   *)
(* of the outbox precede their one request, and capital is taken within what facts allow.       *)
THEOREM CapitalComposed ==
    CapitalSpec => /\ []SettledIsMoved /\ []PaidOnItsOwn
                   /\ ImplementsWriteAhead /\ ReservesSoundly
<1>1. CapitalSpec => []SettledIsMoved /\ []PaidOnItsOwn /\ []TypeOK
  BY CapitalInvHolds, CapitalInvSuffices, PTL
<1>2. CapitalSpec => ImplementsWriteAhead
  <2>1. CapitalInit => CapitalJournal!Init
    BY JournalInit DEF CapitalInit
  <2>2. CapitalInv /\ TypeOK /\ TypeOK' /\ [CapitalNext]_<<vars, capitalVars, focus>> =>
            [CapitalJournal!Next]_<<Journal, writes>>
    BY CapitalStepsAreTheirs, JournalStep DEF CapitalInv, OperationsInv
  <2> QED
    BY <1>1, <2>1, <2>2, CapitalInvHolds, PTL
       DEF CapitalSpec, ImplementsWriteAhead, CapitalJournal!Spec, Journal
<1>3. CapitalSpec => ReservesSoundly
  <2>1. CapitalInv /\ [CapitalNext]_<<vars, capitalVars, focus>> =>
            [\A t \in Transfers : transfer[t] = "NONE" /\ transfer'[t] # "NONE" =>
                Reserves(t)]_capitalVars
    BY CapitalStepsAreTheirs, ReservesStep DEF CapitalInv
  <2> QED
    BY <2>1, CapitalInvHolds, PTL DEF CapitalSpec, ReservesSoundly, Reserves
<1> QED
  BY <1>1, <1>2, <1>3, PTL
=============================================================================
