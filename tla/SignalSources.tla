----------------------------- MODULE SignalSources -----------------------------
(***************************************************************************)
(* The signal sources of one team, the webhook that signals arrive on, and *)
(* the supervisor that keeps one stream running for each enabled Perptape  *)
(* source.                                                                 *)
(*                                                                         *)
(* Each handler locks the rows it changes for the whole of its             *)
(* transaction and tests the version the caller saw, so it is one step; a  *)
(* refused or repeated call changes nothing.  The index that allows one    *)
(* Perptape source decides between two who create one.                     *)
(*                                                                         *)
(* The supervisor reads the bindings, reconciles its streams with them,    *)
(* polls each source and reconciles again with the same bindings, while    *)
(* the sources change under it: what it reads and polls is tested against  *)
(* the row again, and a poll whose binding is stale ends the whole         *)
(* process, which starts again.  A thread that does not stop in time ends  *)
(* it too.  A binding is the version of its source, which every change of  *)
(* the source raises.  Loss of the service principal by other ways is left *)
(* out.                                                                    *)
(***************************************************************************)
EXTENDS Integers, FiniteSets

CONSTANTS
    Sources,
    Requests,     \* what senders post: a key, a nonce and the identity of the signal
    MaxSource     \* bound on the version of a source

ASSUME SourcesAssumption ==
    /\ MaxSource \in Nat \ {0}
    /\ \A q \in Requests : {"key", "nonce", "signal"} \subseteq DOMAIN q

Modes == {"PERPTAPE", "WEBHOOK"}

VARIABLES
    mode,        \* of each source; "none" before it is created, "deleted" after
    on, edition, credential,  \* whether it is enabled, its version and its credential's
    bound,       \* sources with a service principal
    principal,   \* the team's signal principal: "absent", "active" or "inactive"
    accepted,    \* the requests each source made an event of
    replied,     \* the last request and its answer
    loop,        \* where the supervisor is
    binding,     \* the bindings it read; 0 where there is none
    stream,      \* the binding of the stream it keeps for each source; 0 for none
    alive, ended,          \* streams whose thread runs; why a thread ended
    failed, retry          \* the binding whose stream failed, and when it is tried again

sourceVars == <<mode, on, edition, credential, bound, principal>>
webhookVars == <<accepted, replied>>
streamVars == <<stream, alive, ended, failed, retry>>
loopVars == <<loop, binding, streamVars>>
sourcesVars == <<sourceVars, webhookVars, loopVars>>

Unanswered == [source |-> "none", request |-> "none", answer |-> "none"]

SourcesInit ==
    /\ mode = [s \in Sources |-> "none"] /\ on = {} /\ bound = {}
    /\ edition = [s \in Sources |-> 0] /\ credential = [s \in Sources |-> 0]
    /\ principal = "absent"
    /\ accepted = [s \in Sources |-> {}] /\ replied = Unanswered
    /\ loop = "idle" /\ binding = [s \in Sources |-> 0]
    /\ stream = [s \in Sources |-> 0] /\ alive = {} /\ ended = [s \in Sources |-> "none"]
    /\ failed = [s \in Sources |-> 0] /\ retry = [s \in Sources |-> "none"]

Active == {s \in Sources : mode[s] \in Modes}
OfMode(m) == {s \in Sources : mode[s] = m}

-----------------------------------------------------------------------------
(* Sources *)

Ensure(s) == principal' = "active" /\ bound' = bound \cup {s}

Raise(s) ==
    /\ edition[s] < MaxSource /\ edition' = [edition EXCEPT ![s] = @ + 1]

CreateSource(s, m, enable) ==
    /\ mode[s] = "none" /\ (m = "PERPTAPE" => OfMode(m) = {})
    /\ mode' = [mode EXCEPT ![s] = m] /\ on' = IF enable THEN on \cup {s} ELSE on
    /\ edition' = [edition EXCEPT ![s] = 1] /\ credential' = [credential EXCEPT ![s] = 1]
    /\ IF m = "PERPTAPE" /\ enable THEN Ensure(s) ELSE UNCHANGED <<principal, bound>>
    /\ UNCHANGED <<webhookVars, loopVars>>

\* A new name or a new age of webhook requests.
UpdateSource(s) ==
    /\ s \in Active /\ Raise(s)
    /\ UNCHANGED <<mode, on, credential, bound, principal, webhookVars, loopVars>>

RotateCredential(s) ==
    /\ s \in Active /\ Raise(s)
    /\ credential' = [credential EXCEPT ![s] = @ + 1]
    /\ IF mode[s] = "PERPTAPE" /\ s \in on THEN Ensure(s) ELSE UNCHANGED <<principal, bound>>
    /\ UNCHANGED <<mode, on, webhookVars, loopVars>>

SetEnabled(s, enable) ==
    /\ s \in Active /\ enable # (s \in on) /\ Raise(s)
    /\ on' = IF enable THEN on \cup {s} ELSE on \ {s}
    /\ IF mode[s] = "PERPTAPE" /\ enable THEN Ensure(s)
       ELSE /\ principal' = IF mode[s] = "PERPTAPE" /\ s \in bound THEN "inactive" ELSE principal
            /\ UNCHANGED bound
    /\ UNCHANGED <<mode, credential, webhookVars, loopVars>>

\* The connection was tried; its result is recorded against the version it was tried at.
RecordTest(s, success) ==
    /\ s \in Active /\ Raise(s)
    /\ IF success /\ s \in on /\ mode[s] = "PERPTAPE" THEN Ensure(s)
       ELSE UNCHANGED <<principal, bound>>
    /\ UNCHANGED <<mode, on, credential, webhookVars, loopVars>>

DeleteSource(s) ==
    /\ mode[s] = "WEBHOOK" /\ Raise(s)
    /\ mode' = [mode EXCEPT ![s] = "deleted"] /\ on' = on \ {s}
    /\ UNCHANGED <<credential, bound, principal, webhookVars, loopVars>>

\* Fault: a source that changes its mode leaves its principal active.
Undisturbed(s) == principal
Released(s) == IF s \in bound THEN "inactive" ELSE principal

\* The source of the mode is configured, else the only one there is, else a new one.
Configured(m) ==
    IF OfMode(m) # {} THEN OfMode(m)
    ELSE IF Cardinality(Active) = 1 THEN Active ELSE OfMode("none")

ConfigureSource(s, m, enable) ==
    /\ s \in Configured(m) /\ Raise(s)
    /\ mode' = [mode EXCEPT ![s] = m] /\ on' = IF enable THEN on \cup {s} ELSE on \ {s}
    /\ credential' = [credential EXCEPT ![s] = @ + 1]
    /\ IF m = "PERPTAPE" /\ enable THEN Ensure(s)
       ELSE /\ principal' = Released(s)
            /\ bound' = IF m = "PERPTAPE" THEN bound ELSE bound \ {s}
    /\ UNCHANGED <<webhookVars, loopVars>>

SourceStep ==
    \/ \E s \in Sources : UpdateSource(s) \/ RotateCredential(s) \/ DeleteSource(s)
    \/ \E s \in Sources, b \in BOOLEAN : SetEnabled(s, b) \/ RecordTest(s, b)
    \/ \E s \in Sources, m \in Modes, b \in BOOLEAN :
          CreateSource(s, m, b) \/ ConfigureSource(s, m, b)

-----------------------------------------------------------------------------
(* The webhook *)

Shares(s, q, f) == {e \in accepted[s] : e[f] = q[f]}

\* Fault: nonces are looked at first.
NonceFirst(s, q) ==
    IF Shares(s, q, "nonce") # {} THEN "replay"
    ELSE IF Shares(s, q, "key") # {}
         THEN IF \A e \in Shares(s, q, "key") : e.signal = q.signal THEN "known" ELSE "conflict"
         ELSE IF Shares(s, q, "signal") # {} THEN "replay" ELSE "accepted"
\* A request that repeats the key of an earlier one is answered with its event; another must be
\* new in its nonce and in the signal it reports.
Verdict(s, q) ==
    IF Shares(s, q, "key") # {}
    THEN IF \A e \in Shares(s, q, "key") : e.signal = q.signal THEN "known" ELSE "conflict"
    ELSE IF Shares(s, q, "nonce") \cup Shares(s, q, "signal") # {} THEN "replay"
         ELSE "accepted"

\* It is signed with some credential the source has had.
Ingest(s, q, signed) ==
    /\ signed \in 1 .. credential[s]
    /\ LET open == mode[s] = "WEBHOOK" /\ s \in on /\ signed = credential[s]
           answer == IF open THEN Verdict(s, q) ELSE "refused"
       IN /\ replied' = [source |-> s, request |-> q, answer |-> answer]
          /\ accepted' = IF answer = "accepted" THEN [accepted EXCEPT ![s] = @ \cup {q}]
                         ELSE accepted
    /\ UNCHANGED <<sourceVars, loopVars>>

WebhookStep == \E s \in Sources, q \in Requests, c \in 1 .. MaxSource : Ingest(s, q, c)

-----------------------------------------------------------------------------
(* The supervisor *)

Streams(s) == mode[s] = "PERPTAPE" /\ s \in on

\* A binding is rejected if its source has no active principal.
ReadBindings ==
    /\ loop = "idle" /\ loop' = "read"
    /\ \A s \in Sources : Streams(s) => s \in bound /\ principal = "active"
    /\ binding' = [s \in Sources |-> IF Streams(s) THEN edition[s] ELSE 0]
    /\ UNCHANGED <<sourceVars, webhookVars, streamVars>>

Current(s) == Streams(s) /\ edition[s] = binding[s]

Stale(s) == s \in alive /\ stream[s] # binding[s]
Died(s) == stream[s] # 0 /\ s \notin alive
\* The stream kept: a dead one is dropped, a stale one is stopped first.
KeptStream(s) == s \in alive /\ ~Stale(s)

\* A failure counts for the binding it was recorded with, and is forgotten with the source.
FailedNow(s) ==
    IF Died(s) /\ stream[s] = binding[s] THEN stream[s] ELSE IF binding[s] = 0 THEN 0 ELSE failed[s]
RetryNow(s) ==
    IF Died(s) /\ stream[s] = binding[s]
    THEN IF ended[s] = "transient" THEN "waits" ELSE "never"
    ELSE IF binding[s] = 0 THEN "none" ELSE retry[s]

\* Fault: a failure holds the source back whatever binding it was recorded with.
HeldWhatever(s) == FailedNow(s) # 0 /\ RetryNow(s) # "due"
Held(s) == FailedNow(s) = binding[s] /\ RetryNow(s) # "due"

Starts(s) == binding[s] # 0 /\ ~KeptStream(s) /\ ~Held(s)
\* A binding is validated before its stream starts.
Begins(s) == Starts(s) /\ Current(s)

\* One pass of reconciliation; the streams in healthy have a connection when it ends.
Reconciled(healthy) ==
    /\ alive' = {s \in Sources : KeptStream(s) \/ Begins(s)}
    /\ healthy \subseteq alive'
    /\ stream' = [s \in Sources |-> IF s \in alive' THEN binding[s] ELSE 0]
    /\ ended' = [s \in Sources |-> "none"]
    /\ failed' = [s \in Sources |->
            IF s \in healthy THEN 0
            ELSE IF Starts(s) /\ ~Current(s) THEN binding[s]
            ELSE IF Starts(s) /\ FailedNow(s) # binding[s] THEN 0 ELSE FailedNow(s)]
    /\ retry' = [s \in Sources |->
            IF s \in healthy THEN "none"
            ELSE IF Starts(s) /\ ~Current(s) THEN "never"
            ELSE IF Starts(s) /\ FailedNow(s) # binding[s] THEN "none" ELSE RetryNow(s)]

ReconcileStreams ==
    /\ loop \in {"read", "polled"}
    /\ loop' = IF loop = "read" THEN "ready" ELSE "idle"
    /\ \E healthy \in SUBSET Sources : Reconciled(healthy)
    /\ UNCHANGED <<sourceVars, webhookVars, binding>>

\* A stale stream does not stop in time.
StopTimesOut ==
    /\ loop \in {"read", "polled"} /\ \E s \in Sources : Stale(s)
    /\ loop' = "stopping"
    /\ UNCHANGED <<sourceVars, webhookVars, binding, streamVars>>

\* Its health is recorded under the binding, last.
PollSources ==
    /\ loop = "ready"
    /\ loop' = IF \A s \in Sources : binding[s] # 0 => Current(s) THEN "polled" ELSE "stopping"
    /\ UNCHANGED <<sourceVars, webhookVars, binding, streamVars>>

\* The process exits when every thread has ended, and is started again.
Restarts ==
    /\ loop = "stopping" /\ alive = {}
    /\ loop' = "idle" /\ binding' = [s \in Sources |-> 0]
    /\ stream' = [s \in Sources |-> 0] /\ ended' = [s \in Sources |-> "none"]
    /\ failed' = [s \in Sources |-> 0] /\ retry' = [s \in Sources |-> "none"]
    /\ UNCHANGED <<sourceVars, webhookVars, alive>>

\* A stream gives up: its writes are refused, the venue cannot be reached or rejects it.
StreamEnds(s, why) ==
    /\ s \in alive /\ alive' = alive \ {s}
    /\ ended' = [ended EXCEPT ![s] = why]
    /\ UNCHANGED <<sourceVars, webhookVars, loop, binding, stream, failed, retry>>

RetryComesDue(s) ==
    /\ retry[s] = "waits" /\ retry' = [retry EXCEPT ![s] = "due"]
    /\ UNCHANGED <<sourceVars, webhookVars, loop, binding, stream, alive, ended, failed>>

StreamStep ==
    \/ ReadBindings \/ ReconcileStreams \/ StopTimesOut \/ PollSources \/ Restarts
    \/ \E s \in Sources, why \in {"transient", "permanent"} : StreamEnds(s, why)
    \/ \E s \in Sources : RetryComesDue(s)

SourcesNext == SourceStep \/ WebhookStep \/ StreamStep

\* The supervisor's loop goes on, threads that are asked to stop do, and time passes.
SourcesFairness ==
    /\ WF_sourcesVars(ReadBindings) /\ WF_sourcesVars(ReconcileStreams)
    /\ WF_sourcesVars(PollSources) /\ WF_sourcesVars(Restarts)
    /\ \A s \in Sources :
          /\ WF_sourcesVars(loop = "stopping" /\ StreamEnds(s, "transient"))
          /\ WF_sourcesVars(RetryComesDue(s))

SourcesSpec == SourcesInit /\ [][SourcesNext]_sourcesVars /\ SourcesFairness

-----------------------------------------------------------------------------
\* Every state component has its type; a source's credential is no newer than its version.
SourcesTypeOK ==
    /\ mode \in [Sources -> Modes \cup {"none", "deleted"}]
    /\ on \subseteq Active /\ bound \subseteq Sources
    /\ edition \in [Sources -> 0 .. MaxSource]
    /\ \A s \in Sources : credential[s] \in 0 .. edition[s]
    /\ principal \in {"absent", "active", "inactive"}
    /\ accepted \in [Sources -> SUBSET Requests]
    /\ loop \in {"idle", "read", "ready", "polled", "stopping"}
    /\ {binding, stream, failed} \subseteq [Sources -> 0 .. MaxSource]
    /\ alive \subseteq {s \in Sources : stream[s] # 0}
    /\ ended \in [Sources -> {"none", "transient", "permanent"}]
    /\ retry \in [Sources -> {"none", "waits", "due", "never"}]

\* The signal principal may act exactly while a Perptape source is enabled, and that source is
\* bound to it, however sources are created, switched, disabled and configured into each other.
PrincipalFollowsSource ==
    /\ principal = "active" <=> \E s \in Sources : Streams(s)
    /\ \A s \in Sources : Streams(s) => s \in bound
    /\ Cardinality(OfMode("PERPTAPE")) <= 1

\* A signal makes one event of a source, whatever is repeated with or without its key or its
\* nonce; a sender that repeats a request it got no answer to is told of the event it made.
SignalCountedOnce ==
    /\ \A s \in Sources : \A e, f \in accepted[s] :
          e.key = f.key \/ e.nonce = f.nonce \/ e.signal = f.signal => e = f
    /\ replied.answer \in {"accepted", "known"} =>
          \E e \in accepted[replied.source] :
              e.key = replied.request.key /\ e.signal = replied.request.signal
    /\ replied.answer = "replay" => Shares(replied.source, replied.request, "key") = {}

\* An enabled source gets a stream of its present version again and again, unless that failed
\* for good or waits to be retried; a disabled one loses its stream: across changes at every
\* point of the supervisor's loop, dead threads and restarts of the process.
StreamFollowsSource ==
    \A s \in Sources :
        []<>IF Streams(s) THEN \/ s \in alive /\ stream[s] = edition[s]
                               \/ failed[s] = edition[s]
            ELSE s \notin alive
=============================================================================
