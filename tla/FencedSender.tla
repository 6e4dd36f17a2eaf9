--------------------------- MODULE FencedSender ---------------------------
(***************************************************************************)
(* The sender lease on its own: owners acquire it through the three        *)
(* handlers, it expires, reconciliation runs come and age, and transactions*)
(* write intents under the tokens handed out.                              *)
(*                                                                         *)
(* A fenced transaction (start_freqtrade_dispatch, record_freqtrade_order, *)
(* record_freqtrade_unknown) first locks its intent row, then reads the    *)
(* lease WITHOUT locking that row, and commits later: the test and the     *)
(* write are two steps, between which the lease may change hands.  The     *)
(* clock it compares expires_at with was read before it waited for the     *)
(* row, so an expiry during the wait goes unnoticed: only owner and token  *)
(* are certain to be current at the test.                                  *)
(***************************************************************************)
EXTENDS SenderLease

CONSTANT Intents

VARIABLES
    issued,     \* every <<owner, token>> a handler has returned
    writer,     \* the token each intent's row lock is held under, the lease
                \* test passed; 0 while nobody holds it
    written     \* the token each intent was last written under, 0 before that

vars == <<lease, run, issued, writer, written>>

Tickets == Owners \X Tokens

TypeOK ==
    /\ LeaseTypeOK
    /\ issued \subseteq Tickets
    /\ writer \in [Intents -> 0..MaxToken]
    /\ written \in [Intents -> 0..MaxToken]

Init ==
    /\ LeaseInit
    /\ issued = {}
    /\ writer = [i \in Intents |-> 0]
    /\ written = [i \in Intents |-> 0]

Unlocked(i) == writer[i] = 0

Acquire(o) ==
    /\ AcquireSender(o)
    /\ issued' = issued \cup {<<o, lease'.token>>}
    /\ UNCHANGED <<writer, written>>

\* The two bypass handlers lock the intent they are asked for.
AcquireFor(o, i) ==
    /\ Unlocked(i)
    /\ AcquireRecoverySender(o) \/ AcquireReduceOnlySender(o)
    /\ issued' = issued \cup {<<o, lease'.token>>}
    /\ UNCHANGED <<writer, written>>

\* Fault: the token is trusted because it was issued once.
LockOnly(i, o, t) ==
    /\ Unlocked(i)
    /\ <<o, t>> \in issued
    /\ writer' = [writer EXCEPT ![i] = t]
    /\ UNCHANGED <<lease, run, issued, written>>

LockAndCheck(i, o, t) ==
    /\ Unlocked(i)
    /\ <<o, t>> \in issued
    /\ lease.owner = o /\ lease.token = t
    /\ writer' = [writer EXCEPT ![i] = t]
    /\ UNCHANGED <<lease, run, issued, written>>

Commit(i) ==
    /\ ~Unlocked(i)
    /\ written' = [written EXCEPT ![i] = writer[i]]
    /\ writer' = [writer EXCEPT ![i] = 0]
    /\ UNCHANGED <<lease, run, issued>>

Rollback(i) ==
    /\ ~Unlocked(i)
    /\ writer' = [writer EXCEPT ![i] = 0]
    /\ UNCHANGED <<lease, run, issued, written>>

Reconcile(match) ==
    /\ StoreRun(match)
    /\ UNCHANGED <<lease, issued, writer, written>>

Environment ==
    /\ LeaseExpires \/ RunAges
    /\ UNCHANGED <<issued, writer, written>>

Next ==
    \/ \E o \in Owners : Acquire(o) \/ \E i \in Intents : AcquireFor(o, i)
    \/ \E i \in Intents, o \in Owners, t \in Tokens : LockAndCheck(i, o, t)
    \/ \E i \in Intents : Commit(i) \/ Rollback(i)
    \/ \E match \in BOOLEAN : Reconcile(match)
    \/ Environment

Spec == Init /\ [][Next]_vars

-----------------------------------------------------------------------------
(***************************************************************************)
(* Properties                                                              *)
(***************************************************************************)

\* A fencing token identifies one sender: acquire_sender and the two bypass
\* handlers never return the same token to two owners, also after expiries
\* and takeovers, whichever handler each of them used.
TokenHasOneOwner ==
    \A p, q \in issued : p[2] = q[2] => p = q

\* A delayed sender cannot revive an older token: whatever token passes
\* validate_sender_lease, none newer has been handed out.
OnlyNewestTokenValid ==
    \A p \in issued : Valid(p[1], p[2]) => \A q \in issued : q[2] <= p[2]

\* The writes of one intent are committed in token order, although the lease
\* is tested without a lock: a superseded sender's start, result or unknown
\* outcome never overwrites what a newer sender committed for that intent.
\* It rests on locking the intent before testing the lease.
WritesInTokenOrder ==
    [][\A i \in Intents : written[i] <= written'[i]]_written

\* The lease implements the fence: epochs are tokens, and whoever holds the
\* live lease holds the epoch.  In particular an expired token is never live
\* again, not for its former owner either.
AbstractFence == INSTANCE Fence
    WITH Holders <- Owners, NoHolder <- None,
         epoch <- lease.token,
         holder <- IF lease.live THEN lease.owner ELSE None

ImplementsFence == AbstractFence!Spec
=============================================================================
