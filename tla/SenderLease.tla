---------------------------- MODULE SenderLease ----------------------------
(***************************************************************************)
(* The durable sender lease of one execution scope (team, environment,     *)
(* account, venue): the row of `sender_leases`, the three handlers that    *)
(* hand out its fencing token, and the test every later write makes of it. *)
(* This module has no Init or Next of its own: FencedSender runs it alone, *)
(* OrderDispatch runs it with the executors that hold its tokens.          *)
(*                                                                         *)
(* Time is abstracted to what the handlers compare: whether the lease has  *)
(* expired, and whether the latest reconciliation run was completed after  *)
(* that expiry and is still within max_fact_age.                           *)
(***************************************************************************)
EXTENDS Naturals

CONSTANTS
    Owners,     \* sender identities (`owner_id`)
    MaxToken,   \* bound of the model: no token above it is issued
    None        \* the absent value (SQL NULL)

ASSUME MaxTokenAssumption == MaxToken \in Nat
ASSUME NoneAssumption == None \notin Owners

VARIABLES
    lease,      \* the row: fencing token (0: no row yet), owner, expires_at > now
    run         \* the latest reconciliation run of the scope

leaseVars == <<lease, run>>

Tokens == 1..MaxToken

LeaseTypeOK ==
    /\ lease \in [token : 0..MaxToken, owner : Owners \cup {None}, live : BOOLEAN]
    /\ run \in [match : BOOLEAN, takeover : BOOLEAN]

LeaseInit ==
    /\ lease = [token |-> 0, owner |-> None, live |-> FALSE]
    /\ run = [match |-> FALSE, takeover |-> FALSE]

(***************************************************************************)
(* What an acquisition writes.  Renewing keeps the token and extends the   *)
(* lease; issuing takes the next token.  Either way expires_at moves into  *)
(* the future, so no completed run is later than it any more.              *)
(***************************************************************************)
\* Fault: a live lease does not keep other owners out.
NobodyElse(o) == FALSE

HeldByOther(o) == lease.live /\ lease.owner # o

Renews(o) == lease.live /\ lease.owner = o

\* Fault: renewing takes a new token, past the bound.
RenewalTakesToken(o) ==
    /\ ~HeldByOther(o)
    /\ Renews(o) \/ lease.token < MaxToken
    /\ lease' = [token |-> lease.token + 1, owner |-> o, live |-> TRUE]
    /\ run' = [run EXCEPT !.takeover = FALSE]

Extend(o) ==
    /\ ~HeldByOther(o)
    /\ Renews(o) \/ lease.token < MaxToken
    /\ lease' = [token |-> IF Renews(o) THEN lease.token ELSE lease.token + 1,
                 owner |-> o,
                 live  |-> TRUE]
    /\ run' = [run EXCEPT !.takeover = FALSE]

\* acquire_sender: an expired lease is taken over, by its former owner too,
\* only on a fresh computed MATCH completed after the expiry.
AcquireSender(o) ==
    /\ lease.token = 0 \/ Renews(o) \/ (run.match /\ run.takeover)
    /\ Extend(o)

\* Fault: recovery needs the MATCH that the unresolved intent itself prevents.
RecoveryNeedsMatch(o) == lease.token > 0 /\ AcquireSender(o)

\* acquire_freqtrade_recovery_sender: needs the durable lease, no MATCH.
AcquireRecoverySender(o) ==
    /\ lease.token > 0
    /\ Extend(o)

\* acquire_reduce_only_sender: no MATCH, and it may create the row.
AcquireReduceOnlySender(o) == Extend(o)

\* Fault: the fencing token is not compared.
ValidOwner(o, t) == lease.live /\ lease.owner = o

\* validate_sender_lease, read without a row lock inside the writer's transaction.
Valid(o, t) == lease.live /\ lease.owner = o /\ lease.token = t

\* expires_at passes; in the model the last token does not expire.
LeaseExpires ==
    /\ lease.live
    /\ lease.token < MaxToken
    /\ lease' = [lease EXCEPT !.live = FALSE]
    /\ UNCHANGED run

\* reconcile_scope stores a run; only one completed after the expiry of the
\* lease can support a takeover.
StoreRun(match) == run' = [match |-> match, takeover |-> ~lease.live]

\* The latest run grows older than max_fact_age.
RunAges ==
    /\ run.takeover
    /\ run' = [run EXCEPT !.takeover = FALSE]
    /\ UNCHANGED lease
=============================================================================
