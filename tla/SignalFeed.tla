------------------------------ MODULE SignalFeed ------------------------------
(***************************************************************************)
(* The Perptape feed of one team and exchange: one row of market facts,    *)
(* written by a poller and by the worker of a WebSocket stream, which      *)
(* share one HTTP client.                                                  *)
(*                                                                         *)
(* Both read the row without a lock, ask the venue, read the row again and *)
(* record what they have against what they read first; only the record     *)
(* locks the row, and merges the change three ways.  A short alert is      *)
(* recorded INCOMPLETE, and stays until a later answer completes it or it  *)
(* ages out.  The answer the client caches is not given again: the next    *)
(* poll comes when it has expired.                                         *)
(*                                                                         *)
(* A fact is its key, the time it was observed and its state: READY with   *)
(* CURRENT data, DEGRADED or INCOMPLETE.  Reads of the row by one thread   *)
(* with nothing in between are one step.  Windows the server asks for, and *)
(* requests that fail, are refusals that may come at any time.  The bound  *)
(* on the number of facts is not reached.  Whether a key has aged is       *)
(* judged when it matters, not as of the time the facts were generated.    *)
(***************************************************************************)
EXTENDS Integers, Sequences, FiniteSets

CONSTANTS
    Keys,
    MaxAlerts,  \* bound on the updates of a fact
    MaxSocket,  \* bound on the messages under way
    NoFact

MaxAt == 2 * MaxAlerts
Facts == [at : 1 .. MaxAt, st : {"READY", "DEGRADED", "INCOMPLETE"}]

Listed == [at : 1 .. MaxAt, st : {"READY", "DEGRADED"}]
Snapshots == [Keys -> Facts \cup {NoFact}]
Answers == [Keys -> Listed \cup {NoFact}]
Alerts == [key : Keys, at : 1 .. MaxAt, st : {"READY", "DEGRADED"}, short : BOOLEAN,
           gap : BOOLEAN]

ASSUME SignalFeedAssumption ==
    /\ MaxAlerts \in Nat \ {0} /\ MaxSocket \in Nat \ {0}
    /\ NoFact \notin Facts \cup Alerts

Nothing == [k \in Keys |-> NoFact]

VARIABLES
    server, dropped,     \* the venue's facts, and the keys it lists no longer
    brief, unsent,       \* the keys whose latest alert is short, and has not been sent
    aged,                \* the keys triggered too long ago to be waited for
    socket, skipped,     \* alerts under way; a message was lost
    row,                 \* the facts of the feed's row
    poll, pollBase, pollAnswer, pollKept,
    work, back, base, reply, kept,  \* the worker; back: where a backfill returns to
    alert, backfilled, made,          \* the alert it applies, the fact it makes of it
    pending, fresh                   \* its targets, and those a success came after

venueVars == <<server, dropped, brief, unsent, aged>>
socketVars == <<socket, skipped>>
pollVars == <<poll, pollBase, pollAnswer, pollKept>>
askVars == <<base, reply, kept>>
alertVars == <<alert, backfilled, made>>
targetVars == <<pending, fresh>>
workVars == <<work, back, askVars, alertVars, targetVars>>
feedVars == <<venueVars, socketVars, row, pollVars, workVars>>

FeedInit ==
    /\ server = Nothing /\ dropped = {} /\ brief = {} /\ unsent = {} /\ aged = {}
    /\ socket = << >> /\ skipped = FALSE
    /\ row = Nothing
    /\ poll = "idle" /\ pollBase = Nothing /\ pollAnswer = NoFact /\ pollKept = Nothing
    /\ work = "down" /\ back = "idle" /\ base = Nothing /\ reply = NoFact /\ kept = Nothing
    /\ alert = NoFact /\ backfilled = FALSE /\ made = NoFact
    /\ pending = [k \in Keys |-> 0] /\ fresh = {}

-----------------------------------------------------------------------------
\* The merge of a change with the locked row, key by key.
Completes(f, at) == f # NoFact /\ f.st = "READY" /\ f.at >= at

Rank(f) == CASE f.st = "READY" -> 2 [] f.st = "DEGRADED" -> 1 [] OTHER -> 0

Supersedes(f, b) == f.at > b.at \/ (f.at = b.at /\ Rank(f) > Rank(b))

Later(f, g) == IF g.at > f.at \/ (g.at = f.at /\ Rank(g) > Rank(f)) THEN g ELSE f

Choice(f, g) ==
    LET open == IF f.st = "INCOMPLETE" THEN f ELSE g
        done == IF f.st = "INCOMPLETE" THEN g ELSE f
    IN IF (f.st = "INCOMPLETE") = (g.st = "INCOMPLETE") THEN Later(f, g)
       ELSE IF Completes(done, open.at) THEN done ELSE open

\* Fault: the change is written over the row.
Overwrite(was, now, new) == new

Merge(was, now, new) ==
    IF new = was THEN now
    ELSE IF new = NoFact THEN IF now # NoFact /\ Supersedes(now, was) THEN now ELSE NoFact
    ELSE IF now = NoFact THEN IF was = NoFact \/ Supersedes(new, was) THEN new ELSE NoFact
    ELSE IF now = was THEN new
    ELSE Choice(now, new)

Applied(was, new) == [k \in Keys |-> Merge(was[k], row[k], new[k])]

\* Fault: a target is waited for however old it is.
WaitedAlways(k) == TRUE
Waited(k) == k \notin aged

\* An answer, and the facts that wait which it does not complete.
WithWaiting(a, wait) ==
    [k \in Keys |->
        LET f == a[k]
            w == wait[k]
        IN IF w = NoFact \/ ~Waited(k) \/ Completes(f, w.at) THEN f
           ELSE [at |-> IF f # NoFact /\ f.at > w.at THEN f.at ELSE w.at, st |-> "INCOMPLETE"]]

-----------------------------------------------------------------------------
(* The venue *)

Now(k) == IF server[k] = NoFact THEN 0 ELSE server[k].at

Update(k, st, short) ==
    /\ k \notin dropped /\ Now(k) < MaxAt - 1
    /\ server' = [server EXCEPT ![k] = [at |-> IF @ = NoFact THEN 1 ELSE @.at + 2, st |-> st]]
    /\ brief' = IF short THEN brief \cup {k} ELSE brief \ {k}
    /\ unsent' = unsent \cup {k}
    /\ UNCHANGED <<dropped, aged, socketVars, row, pollVars, workVars>>

\* An alert without its own time bears that of the message, between two updates.
SendAlert(k, at) ==
    /\ k \in unsent \ dropped /\ Len(socket) < MaxSocket /\ work # "down"
    /\ at = server[k].at \/ (k \in brief /\ at = server[k].at + 1)
    /\ socket' = Append(socket, [key |-> k, at |-> at, st |-> server[k].st, short |-> k \in brief,
                                 gap |-> skipped])
    /\ skipped' = FALSE /\ unsent' = unsent \ {k}
    /\ UNCHANGED <<server, dropped, brief, aged, row, pollVars, workVars>>

Lose ==
    /\ socket # << >>
    /\ socket' = Tail(socket) /\ skipped' = TRUE
    /\ UNCHANGED <<venueVars, row, pollVars, workVars>>

Unlist(k) ==
    /\ server[k] # NoFact
    /\ server' = [server EXCEPT ![k] = NoFact] /\ dropped' = dropped \cup {k}
    /\ UNCHANGED <<brief, unsent, aged, socketVars, row, pollVars, workVars>>

Age(k) ==
    /\ server[k] # NoFact \/ k \in dropped
    /\ k \notin aged /\ aged' = aged \cup {k}
    /\ UNCHANGED <<server, dropped, brief, unsent, socketVars, row, pollVars, workVars>>

\* A real answer is a success every registered target comes before.
Answered == fresh' = {k \in Keys : pending[k] > 0}

-----------------------------------------------------------------------------
(* The poller *)

PollBegin ==
    /\ poll = "idle"
    /\ pollBase' = row /\ poll' = "asked"
    /\ UNCHANGED <<venueVars, socketVars, row, pollAnswer, pollKept, workVars>>

PollAnswer ==
    /\ poll = "asked"
    /\ pollAnswer' = server /\ Answered
    /\ poll' = "answered"
    /\ UNCHANGED <<venueVars, socketVars, row, pollBase, pollKept, work, back, askVars,
                   alertVars, pending>>

KeptFromRow ==
    [k \in Keys |->
        IF row[k] # NoFact /\ row[k].st = "INCOMPLETE" THEN row[k] ELSE NoFact]

PollMerge ==
    /\ poll = "answered"
    /\ pollKept' = KeptFromRow /\ poll' = "merged"
    /\ UNCHANGED <<venueVars, socketVars, row, pollBase, pollAnswer, workVars>>

PollRecord ==
    /\ poll = "merged"
    /\ row' = Applied(pollBase, WithWaiting(pollAnswer, pollKept))
    /\ poll' = "idle" /\ pollBase' = Nothing /\ pollAnswer' = NoFact /\ pollKept' = Nothing
    /\ UNCHANGED <<venueVars, socketVars, workVars>>

PollFails ==
    /\ poll # "idle"
    /\ poll' = "idle" /\ pollBase' = Nothing /\ pollAnswer' = NoFact /\ pollKept' = Nothing
    /\ UNCHANGED <<venueVars, socketVars, row, workVars>>

-----------------------------------------------------------------------------
(* The stream's worker *)

Pending == {k \in Keys : pending[k] > 0}

Resolved(facts) ==
    {k \in fresh \cap Pending : Completes(facts[k], pending[k]) \/ ~Waited(k)}

\* Fault: once one target is settled, all are.
LeftNone(done) == [k \in Keys |-> 0]
Left(done) == [k \in Keys |-> IF k \in done THEN 0 ELSE pending[k]]

Register(k, at) ==
    /\ pending' = [pending EXCEPT ![k] = IF at > @ THEN at ELSE @]
    /\ fresh' = IF at > pending[k] THEN fresh \ {k} ELSE fresh

Rebuilt == [k \in Keys |-> IF row[k] # NoFact /\ row[k].st = "INCOMPLETE" THEN row[k].at ELSE 0]

Start ==
    /\ work = "down" /\ work' = "idle"
    /\ pending' = Rebuilt /\ fresh' = {} /\ socket' = << >> /\ skipped' = FALSE
    /\ UNCHANGED <<venueVars, row, pollVars, back, askVars, alertVars>>

\* The process ends, and with it what the worker and the client remember.
FeedCrash ==
    /\ work # "down" /\ work' = "down" /\ back' = "idle"
    /\ base' = Nothing /\ reply' = NoFact /\ kept' = Nothing
    /\ alert' = NoFact /\ backfilled' = FALSE /\ made' = NoFact
    /\ pending' = [k \in Keys |-> 0] /\ fresh' = {}
    /\ socket' = << >> /\ skipped' = FALSE
    /\ poll' = "idle" /\ pollBase' = Nothing /\ pollAnswer' = NoFact /\ pollKept' = Nothing
    /\ UNCHANGED <<venueVars, row>>

Reconcile ==
    /\ work = "idle"
    /\ work' = "asked" /\ back' = "idle" /\ base' = row
    /\ UNCHANGED <<venueVars, socketVars, row, pollVars, reply, kept, alertVars,
                   targetVars>>

Complete ==
    /\ work = "idle" /\ Pending # {}
    /\ work' = "backfill" /\ back' = "idle"
    /\ UNCHANGED <<venueVars, socketVars, row, pollVars, askVars, alertVars, targetVars>>

\* What the poller recorded may have settled every target.
Backfill ==
    /\ work = "backfill"
    /\ LET done == Resolved(row) IN
       /\ pending' = Left(done) /\ fresh' = fresh \ done
       /\ IF Pending # {} /\ Pending \subseteq done
          THEN work' = back /\ backfilled' = (back = "gap") /\ UNCHANGED base
          ELSE work' = "asked" /\ base' = row /\ UNCHANGED backfilled
    /\ UNCHANGED <<venueVars, socketVars, row, pollVars, back, reply, kept, alert, made>>

Answer ==
    /\ work = "asked" /\ work' = "answered"
    /\ reply' = server /\ Answered
    /\ UNCHANGED <<venueVars, socketVars, row, pollVars, back, base, kept, alertVars, pending>>

\* A target is kept as the row has it, if it does.
KeptTargets ==
    [k \in Keys |-> IF pending[k] = 0 THEN NoFact
                    ELSE IF row[k] # NoFact THEN row[k]
                    ELSE [at |-> pending[k], st |-> "INCOMPLETE"]]

Keep ==
    /\ work = "answered" /\ work' = "kept" /\ kept' = KeptTargets
    /\ UNCHANGED <<venueVars, socketVars, row, pollVars, back, base, reply, alertVars,
                   targetVars>>

Record ==
    /\ work = "kept"
    /\ LET feed == WithWaiting(reply, kept)
           done == Resolved(feed)
       IN /\ row' = Applied(base, feed)
          /\ pending' = Left(done) /\ fresh' = fresh \ done
          /\ backfilled' = (back = "gap" /\ Pending \subseteq done)
          /\ work' = IF back = "filled" /\ ~(Pending \subseteq done) THEN "build" ELSE back
    /\ base' = Nothing /\ reply' = NoFact /\ kept' = Nothing
    /\ UNCHANGED <<venueVars, socketVars, pollVars, back, alert, made>>

BackfillFails ==
    /\ work \in {"asked", "answered", "kept"}
    /\ work' = IF back = "filled" THEN "build" ELSE back
    /\ backfilled' = FALSE
    /\ base' = Nothing /\ reply' = NoFact /\ kept' = Nothing
    /\ UNCHANGED <<venueVars, socketVars, row, pollVars, back, alert, made, targetVars>>

-----------------------------------------------------------------------------
(* An alert *)

Take ==
    /\ work = "idle" /\ socket # << >> /\ socket' = Tail(socket)
    /\ LET m == Head(socket) IN
       /\ alert' = m
       /\ IF m.short THEN Register(m.key, m.at) ELSE UNCHANGED <<pending, fresh>>
       /\ back' = IF m.gap THEN "gap" ELSE "filled"
       /\ work' = IF m.gap \/ m.short THEN "backfill" ELSE "build"
    /\ UNCHANGED <<venueVars, skipped, row, pollVars, askVars, backfilled, made>>

\* What a completed short alert does not say, its state maybe, is taken from the fact that
\* completed it.
Made(m) ==
    LET complete == backfilled /\ Completes(row[m.key], m.at)
        states == IF ~m.short THEN {m.st} ELSE IF complete THEN {m.st, "READY"} ELSE {"INCOMPLETE"}
    IN  [at : {m.at}, st : states]

\* The backfill completed it.
Filled ==
    /\ work = "filled" /\ Completes(row[alert.key], alert.at)
    /\ work' = "idle" /\ alert' = NoFact
    /\ UNCHANGED <<venueVars, socketVars, row, pollVars, back, askVars, backfilled, made,
                   targetVars>>

\* After a gap the target is registered again, unless the backfill confirmed it.
Build ==
    /\ work \in {"gap", "build"} \/ (work = "filled" /\ ~Completes(row[alert.key], alert.at))
    /\ IF work = "gap" /\ alert.short /\ ~backfilled THEN Register(alert.key, alert.at)
       ELSE UNCHANGED targetVars
    /\ made' \in Made(alert) /\ base' = row /\ work' = "built"
    /\ UNCHANGED <<venueVars, socketVars, row, pollVars, back, reply, kept, alert,
                   backfilled>>

RecordAlert ==
    /\ work = "built" /\ work' = "idle"
    /\ row' = Applied(base, [base EXCEPT ![alert.key] = made])
    /\ alert' = NoFact /\ backfilled' = FALSE /\ made' = NoFact /\ base' = Nothing
    /\ UNCHANGED <<venueVars, socketVars, pollVars, back, reply, kept, pending, fresh>>

\* The connection ends, or a record is refused, which ends it: what was under way is lost, and
\* a backfill makes up for it.
Reconnect ==
    /\ work \in {"idle", "built"} /\ work' = "backfill" /\ back' = "idle"
    /\ socket' = << >> /\ skipped' = FALSE
    /\ base' = Nothing /\ alert' = NoFact /\ backfilled' = FALSE /\ made' = NoFact
    /\ UNCHANGED <<venueVars, row, pollVars, reply, kept, targetVars>>

\* A fatal error: the worker degrades every READY fact of the row and stops; or, if the record
\* is refused or the error is one of what the row or the venue says, stops only.
Degrade ==
    /\ work = "idle" /\ work' = "degrade" /\ base' = row
    /\ UNCHANGED <<venueVars, socketVars, row, pollVars, back, reply, kept, alertVars,
                   targetVars>>

Degraded(facts) ==
    [k \in Keys |-> IF facts[k] # NoFact /\ facts[k].st = "READY"
                    THEN [facts[k] EXCEPT !.st = "DEGRADED"] ELSE facts[k]]

RecordDegraded ==
    /\ work = "degrade" /\ work' = "down"
    /\ row' = Applied(base, Degraded(base)) \/ UNCHANGED row
    /\ base' = Nothing
    /\ pending' = [k \in Keys |-> 0] /\ fresh' = {}
    /\ UNCHANGED <<venueVars, socketVars, pollVars, back, reply, kept, alertVars>>

Venue ==
    \/ \E k \in Keys : Unlist(k) \/ Age(k)
    \/ \E k \in Keys, st \in {"READY", "DEGRADED"}, short \in BOOLEAN : Update(k, st, short)
    \/ \E k \in Keys, at \in 1 .. MaxAt : SendAlert(k, at)
    \/ Lose
Poller == PollBegin \/ PollAnswer \/ PollMerge \/ PollRecord \/ PollFails
Worker ==
    \/ Start \/ FeedCrash \/ Reconcile \/ Complete \/ Backfill \/ Answer \/ Keep \/ Record
    \/ BackfillFails \/ Take \/ Filled \/ Build \/ RecordAlert \/ Reconnect
    \/ Degrade \/ RecordDegraded
FeedNext == Venue \/ Poller \/ Worker

\* The poll runs again and again, and does not fail for ever; time passes.
FeedFairness ==
    /\ WF_feedVars(PollBegin) /\ SF_feedVars(PollAnswer)
    /\ SF_feedVars(PollMerge) /\ SF_feedVars(PollRecord)
    /\ \A k \in Keys : WF_feedVars(Age(k))
FeedSpec == FeedInit /\ [][FeedNext]_feedVars /\ FeedFairness

-----------------------------------------------------------------------------
FeedTypeOK ==
    /\ server \in [Keys -> Listed \cup {NoFact}] /\ dropped \subseteq Keys
    /\ brief \subseteq Keys /\ aged \subseteq Keys
    /\ socket \in Seq(Alerts) /\ Len(socket) <= MaxSocket /\ skipped \in BOOLEAN
    /\ row \in Snapshots
    /\ poll \in {"idle", "asked", "answered", "merged"}
    /\ pollBase \in Snapshots /\ pollAnswer \in Answers \cup {NoFact} /\ pollKept \in Snapshots
    /\ work \in {"down", "idle", "backfill", "asked", "answered", "kept", "gap", "filled", "build",
                 "built", "degrade"}
    /\ back \in {"idle", "gap", "filled"}
    /\ base \in Snapshots /\ reply \in Answers \cup {NoFact} /\ kept \in Snapshots
    /\ alert \in Alerts \cup {NoFact} /\ backfilled \in BOOLEAN /\ made \in Facts \cup {NoFact}
    /\ pending \in [Keys -> 0 .. MaxAt] /\ fresh \subseteq Pending

\* What the poller records takes no short alert out of the row that came while it polled or
\* that it saw, and what the worker records none that it still waits for: only a READY fact no
\* older completes it, unless it has aged, the venue lists its key no longer, or the worker
\* records a whole alert of it.  A READY fact that came or became newer since a writer read the
\* row is not undone by what it writes.
WholeAlert(k) == work = "built" /\ alert.key = k /\ ~alert.short

MayNotLose(k) ==
    /\ row[k] # NoFact /\ row[k].st = "INCOMPLETE" /\ k \notin aged \cup dropped
    /\ poll' # poll => row[k] = pollKept[k] \/ row[k] # pollBase[k]
    /\ poll' = poll => pending[k] > 0 /\ ~WholeAlert(k)

AlertKept(k) ==
    MayNotLose(k) =>
        \/ row'[k] # NoFact /\ row'[k].st = "INCOMPLETE"
        \/ Completes(row'[k], row[k].at)

ReadByWriter(k) == IF poll' # poll THEN pollBase[k] ELSE base[k]

ReadyFactKept(k) ==
    Completes(row[k], IF ReadByWriter(k) = NoFact THEN 0 ELSE ReadByWriter(k).at + 1) =>
        row'[k] # NoFact /\ row'[k].at >= row[k].at
FactsKept == [][\A k \in Keys : AlertKept(k) /\ ReadyFactKept(k)]_row

\* No alert waits for ever.
AlertSettles == \A k \in Keys : []<>(row[k] = NoFact \/ row[k].st # "INCOMPLETE")
=============================================================================
