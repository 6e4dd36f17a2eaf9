------------------------------ MODULE MCSignals ------------------------------
(***************************************************************************)
(* The feed and the sources in one run, each while the other rests.        *)
(*                                                                         *)
(* "merge": a fact that is updated; nobody fails and nothing ages, so that *)
(* only the safety properties say something of it.  "faults": one that is  *)
(* not updated, with lost messages, failures, crashes and ageing.          *)
(*                                                                         *)
(* "streams": two sources that the supervisor follows.  "webhook": one     *)
(* that signals are posted to.                                             *)
(***************************************************************************)
EXTENDS SignalFeed, SignalSources

CONSTANT Source  \* one of them

VARIABLE focus

signalsVars == <<feedVars, sourcesVars, focus>>

Feed == focus \in {"merge", "faults"}
Streaming == focus = "streams"

\* A signal, its repetitions under one key and under another, and other signals that share its
\* nonce or its key.
Posts ==
    LET post(k, n, e) == [key |-> k, nonce |-> n, signal |-> e]
    IN {post("k1", "n1", "e1"), post("k1", "n2", "e1"), post("k2", "n2", "e1"),
        post("k2", "n1", "e2"), post("k1", "n3", "e2"), post("k2", "n3", "e2")}

SignalsInit ==
    /\ FeedInit /\ SourcesInit
    /\ focus \in {"merge", "faults", "streams", "webhook"}

FeedStep ==
    /\ Feed /\ FeedNext
    /\ IF focus = "merge" THEN aged' = {} /\ ~(Lose \/ FeedCrash \/ Reconnect \/ Degrade \/ PollFails)
       ELSE \A k \in Keys : server'[k] # NoFact => server'[k].at = 1
    /\ UNCHANGED <<sourcesVars, focus>>

SourcesStep ==
    /\ ~Feed /\ UNCHANGED <<feedVars, focus>>
    /\ \/ SourceStep /\ \A s \in Sources :
             IF Streaming THEN s # Source => edition'[s] <= 2
             ELSE mode'[s] # "PERPTAPE" /\ (s # Source => mode'[s] = "none")
       \/ Streaming /\ StreamStep
       \/ ~Streaming /\ WebhookStep

SignalsNext == FeedStep \/ SourcesStep

\* FeedFairness and SourcesFairness, each where its actions are taken.
SignalsFairness ==
    /\ WF_feedVars(Feed /\ PollBegin) /\ SF_feedVars(Feed /\ PollAnswer)
    /\ SF_feedVars(Feed /\ PollMerge) /\ SF_feedVars(Feed /\ PollRecord)
    /\ \A k \in Keys : WF_feedVars(Feed /\ Age(k))
    /\ WF_sourcesVars(Streaming /\ ReadBindings) /\ WF_sourcesVars(Streaming /\ ReconcileStreams)
    /\ WF_sourcesVars(Streaming /\ PollSources) /\ WF_sourcesVars(Streaming /\ Restarts)
    /\ \A s \in Sources :
          /\ WF_sourcesVars(Streaming /\ loop = "stopping" /\ StreamEnds(s, "transient"))
          /\ WF_sourcesVars(Streaming /\ RetryComesDue(s))

SignalsSpec == SignalsInit /\ [][SignalsNext]_signalsVars /\ SignalsFairness

\* The type invariants of the two modules.
SignalTypesOK == FeedTypeOK /\ SourcesTypeOK
=============================================================================
