----------------------------- MODULE Signals_proofs -----------------------------
(***************************************************************************)
(* The signal principal follows the one source that streams, a signal is   *)
(* counted once, and no writer of the feed's row undoes what another has   *)
(* recorded while it asked the venue.                                      *)
(*                                                                         *)
(* That the principal is active exactly while a Perptape source streams is *)
(* kept because only a Perptape source is bound to it, there is one at     *)
(* most, and every change that takes the last away releases a binding.     *)
(*                                                                         *)
(* Of the feed: the merge gives way to a fact that came since its writer   *)
(* read the row.  Where the row is again as it was read, it says what the  *)
(* writer says, and what waits would be lost had the writer kept something *)
(* else of a row that was another meanwhile.  While the worker asks, only  *)
(* polls write, each from what the one before has left; a fact that waits  *)
(* with an update's time is completed by any answer that comes later, and  *)
(* one with a time between two updates cannot come back once it is gone.   *)
(***************************************************************************)
EXTENDS MCSignals, FiniteSetTheorems, TLAPS

\* The supervisor's part of the type invariant.
LoopTypes ==
    /\ loop \in {"idle", "read", "ready", "polled", "stopping"}
    /\ binding \in [Sources -> 0 .. MaxSource] /\ stream \in [Sources -> 0 .. MaxSource]
    /\ failed \in [Sources -> 0 .. MaxSource]
    /\ alive \subseteq {s \in Sources : stream[s] # 0}
    /\ ended \in [Sources -> {"none", "transient", "permanent"}]
    /\ retry \in [Sources -> {"none", "waits", "due", "never"}]

\* The sources' part, and who is bound to the principal.
SourceTypes ==
    /\ mode \in [Sources -> Modes \cup {"none", "deleted"}]
    /\ on \subseteq Active /\ bound \subseteq OfMode("PERPTAPE")
    /\ edition \in [Sources -> 0 .. MaxSource] /\ credential \in [Sources -> 0 .. MaxSource]
    /\ \A s \in Sources : credential[s] <= edition[s]
    /\ principal \in {"absent", "active", "inactive"}

PrincipalInv ==
    /\ principal = "active" <=> \E s \in Sources : Streams(s)
    /\ \A s \in Sources : Streams(s) => s \in bound
    /\ \A s, t \in OfMode("PERPTAPE") : s = t

Counted ==
    /\ accepted \in [Sources -> SUBSET Requests]
    /\ \A s \in Sources : \A e, f \in accepted[s] :
          e.key = f.key \/ e.nonce = f.nonce \/ e.signal = f.signal => e = f
    /\ replied.answer # "none" => replied.source \in Sources
    /\ replied.answer \in {"accepted", "known"} =>
          \E e \in accepted[replied.source] :
              e.key = replied.request.key /\ e.signal = replied.request.signal
    /\ replied.answer = "replay" => Shares(replied.source, replied.request, "key") = {}

SourcesInv == SourceTypes /\ PrincipalInv /\ LoopTypes /\ Counted

-----------------------------------------------------------------------------
(***************************************************************************)
(* Sources and their principal                                             *)
(***************************************************************************)
LEMMA SourcesInitHolds == SourcesInit => SourcesInv
<1> SUFFICES ASSUME SourcesInit PROVE SourcesInv
  OBVIOUS
<1>1. SourceTypes
  BY SourcesAssumption DEF SourcesInit, SourceTypes, OfMode, Active, Modes
<1>2. PrincipalInv
  BY DEF SourcesInit, PrincipalInv, Streams, OfMode
<1>3. LoopTypes
  BY SourcesAssumption DEF SourcesInit, LoopTypes
<1>4. Counted
  BY DEF SourcesInit, Counted, Unanswered
<1> QED BY <1>1, <1>2, <1>3, <1>4 DEF SourcesInv

\* A change of a source raises its version, and its credential no further.
LEMMA RaiseHolds ==
    ASSUME SourceTypes, NEW s \in Sources, Raise(s),
           credential' = credential \/ credential' = [credential EXCEPT ![s] = @ + 1]
    PROVE  /\ edition' \in [Sources -> 0 .. MaxSource]
           /\ credential' \in [Sources -> 0 .. MaxSource]
           /\ \A t \in Sources : credential'[t] <= edition'[t]
<1>1. /\ edition[s] \in Nat /\ credential[s] \in Nat /\ credential[s] <= edition[s]
      /\ edition[s] + 1 \in 0 .. MaxSource /\ credential[s] + 1 \in 0 .. MaxSource
      /\ edition[s] < MaxSource
  BY SourcesAssumption DEF SourceTypes, Raise
<1>2. edition' \in [Sources -> 0 .. MaxSource] /\ credential' \in [Sources -> 0 .. MaxSource]
  BY <1>1 DEF SourceTypes, Raise
<1>3. ASSUME NEW t \in Sources PROVE credential'[t] <= edition'[t]
  <2>1. credential[t] \in Nat /\ edition[t] \in Nat /\ credential[t] <= edition[t]
    BY SourcesAssumption DEF SourceTypes
  <2>2. CASE t = s
    BY <1>1, <2>1, <2>2 DEF SourceTypes, Raise
  <2>3. CASE t # s
    BY <2>1, <2>3 DEF SourceTypes, Raise
  <2> QED BY <2>2, <2>3
<1> QED BY <1>2, <1>3

\* A source that stays what it is: whether it streams may change, and only then its principal.
LEMMA SourceStays ==
    ASSUME SourceTypes, PrincipalInv, NEW s \in Sources, s \in Active, UNCHANGED mode,
           on' \in {on, on \cup {s}, on \ {s}},
           \/ s \in on' /\ mode[s] = "PERPTAPE" /\ Ensure(s)
           \/ UNCHANGED <<on, principal, bound>>
           \/ mode[s] # "PERPTAPE" /\ UNCHANGED <<principal, bound>>
           \/ /\ s \notin on' /\ UNCHANGED bound
              /\ principal' = IF mode[s] = "PERPTAPE" /\ s \in bound THEN "inactive" ELSE principal
    PROVE  /\ on' \subseteq Active' /\ bound' \subseteq OfMode("PERPTAPE")'
           /\ principal' \in {"absent", "active", "inactive"}
           /\ PrincipalInv'
<1>1. Active' = Active /\ OfMode("PERPTAPE")' = OfMode("PERPTAPE")
  BY DEF Active, OfMode
<1>2. on' \subseteq Active' /\ principal' \in {"absent", "active", "inactive"}
  BY <1>1 DEF SourceTypes, Ensure
<1>3. bound' \subseteq OfMode("PERPTAPE")
  BY DEF SourceTypes, Ensure, OfMode
<1>4. \A t \in Sources \ {s} : Streams(t)' <=> Streams(t)
  BY DEF Streams
<1>5. Streams(s)' <=> mode[s] = "PERPTAPE" /\ s \in on'
  BY DEF Streams
<1>6. \A t \in Sources \ {s} : mode[s] = "PERPTAPE" => ~Streams(t)
  BY DEF PrincipalInv, OfMode, Streams
<1>7. PrincipalInv'
  <2>1. CASE s \in on' /\ mode[s] = "PERPTAPE" /\ Ensure(s)
    BY <1>1, <1>4, <1>5, <1>6, <2>1 DEF Ensure, PrincipalInv
  <2>2. CASE UNCHANGED <<on, principal, bound>>
    BY <1>1, <2>2 DEF PrincipalInv, Streams
  <2>3. CASE mode[s] # "PERPTAPE" /\ UNCHANGED <<principal, bound>>
    <3>1. \A t \in Sources : Streams(t)' <=> Streams(t)
      BY <1>4, <2>3 DEF Streams
    <3> QED BY <1>1, <2>3, <3>1 DEF PrincipalInv
  <2>4. CASE /\ s \notin on' /\ UNCHANGED bound
             /\ principal' = IF mode[s] = "PERPTAPE" /\ s \in bound THEN "inactive" ELSE principal
    <3>1. CASE mode[s] = "PERPTAPE" /\ s \in bound
      BY <1>1, <1>4, <1>5, <1>6, <2>4, <3>1 DEF PrincipalInv
    <3>2. CASE ~(mode[s] = "PERPTAPE" /\ s \in bound)
      <4>1. ~Streams(s) /\ ~Streams(s)'
        BY <1>5, <2>4, <3>2 DEF PrincipalInv, Streams
      <4> QED BY <1>1, <1>4, <2>4, <3>2, <4>1 DEF PrincipalInv
    <3> QED BY <3>1, <3>2
  <2> QED BY <2>1, <2>2, <2>3, <2>4
<1> QED BY <1>1, <1>2, <1>3, <1>7

\* A source that becomes one of mode m, where no other Perptape source is left or made.
LEMMA SourceBecomes ==
    ASSUME SourceTypes, PrincipalInv, NEW s \in Sources, NEW m \in Modes,
           mode' = [mode EXCEPT ![s] = m],
           on' \in {on \cup {s}, on \ {s}},
           m = "PERPTAPE" => OfMode(m) \subseteq {s},
           \/ s \in on' /\ m = "PERPTAPE" /\ Ensure(s)
           \/ /\ m = "PERPTAPE" => s \notin on'
              /\ principal' = Released(s)
              /\ bound' = IF m = "PERPTAPE" THEN bound ELSE bound \ {s}
    PROVE  /\ mode' \in [Sources -> Modes \cup {"none", "deleted"}]
           /\ on' \subseteq Active' /\ bound' \subseteq OfMode("PERPTAPE")'
           /\ principal' \in {"absent", "active", "inactive"}
           /\ PrincipalInv'
<1>1. mode' \in [Sources -> Modes \cup {"none", "deleted"}]
  BY DEF SourceTypes
<1>2. mode'[s] = m /\ \A t \in Sources \ {s} : mode'[t] = mode[t]
  BY DEF SourceTypes
<1>3. Active' = Active \cup {s}
  BY <1>2 DEF Active
<1>4. OfMode("PERPTAPE")' = IF m = "PERPTAPE" THEN {s} ELSE OfMode("PERPTAPE") \ {s}
  BY <1>2 DEF OfMode
<1>5. on' \subseteq Active' /\ principal' \in {"absent", "active", "inactive"}
  BY <1>3 DEF SourceTypes, Ensure, Released
<1>6. bound' \subseteq OfMode("PERPTAPE")'
  <2>1. CASE m = "PERPTAPE"
    BY <1>4, <2>1 DEF SourceTypes, Ensure
  <2>2. CASE m # "PERPTAPE"
    BY <1>4, <2>2 DEF SourceTypes
  <2> QED BY <2>1, <2>2
<1>7. \A t \in Sources \ {s} : Streams(t)' <=> Streams(t)
  BY <1>2 DEF Streams
<1>8. Streams(s)' <=> m = "PERPTAPE" /\ s \in on'
  BY <1>2 DEF Streams
<1>9. \A t, u \in OfMode("PERPTAPE")' : t = u
  BY <1>4 DEF PrincipalInv
<1>10. PrincipalInv'
  <2>1. CASE s \in on' /\ m = "PERPTAPE" /\ Ensure(s)
    <3>1. \A t \in Sources \ {s} : ~Streams(t)'
      BY <1>7, <2>1 DEF OfMode, Streams
    <3> QED BY <1>8, <1>9, <2>1, <3>1 DEF Ensure, PrincipalInv
  <2>2. CASE /\ m = "PERPTAPE" => s \notin on'
             /\ principal' = Released(s)
             /\ bound' = IF m = "PERPTAPE" THEN bound ELSE bound \ {s}
    <3>1. ~Streams(s)'
      BY <1>8, <2>2
    <3>2. CASE s \in bound
      <4>1. \A t \in Sources \ {s} : ~Streams(t)
        BY <3>2 DEF SourceTypes, PrincipalInv, OfMode, Streams
      <4>2. principal' = "inactive"
        BY <2>2, <3>2 DEF Released
      <4> QED BY <1>7, <1>9, <3>1, <4>1, <4>2 DEF PrincipalInv
    <3>3. CASE s \notin bound
      <4>1. ~Streams(s)
        BY <3>3 DEF PrincipalInv
      <4>2. principal' = principal /\ bound' = bound
        BY <2>2, <3>3 DEF Released
      <4>3. principal' = "active" <=> \E t \in Sources : Streams(t)'
        BY <1>7, <3>1, <4>1, <4>2 DEF PrincipalInv
      <4>4. \A t \in Sources : Streams(t)' => t \in bound'
        BY <1>7, <3>1, <4>2 DEF PrincipalInv
      <4> QED BY <1>9, <4>3, <4>4 DEF PrincipalInv
    <3> QED BY <3>2, <3>3
  <2> QED BY <2>1, <2>2
<1> QED BY <1>1, <1>5, <1>6, <1>10

\* What a new Perptape source, or one configured into it, leaves no other of.
LEMMA ConfiguredAlone ==
    ASSUME SourceTypes, PrincipalInv, NEW s \in Sources, NEW m \in Modes, s \in Configured(m)
    PROVE  /\ m = "PERPTAPE" => OfMode(m) \subseteq {s}
           /\ s \notin Active => mode[s] = "none"
<1>1. CASE OfMode(m) # {}
  BY <1>1 DEF Configured, PrincipalInv, OfMode, Active
<1>2. CASE OfMode(m) = {}
  BY <1>2 DEF Configured, OfMode
<1> QED BY <1>1, <1>2

LEMMA SourceHolds ==
    ASSUME SourceTypes, PrincipalInv, SourceStep
    PROVE  SourceTypes' /\ PrincipalInv' /\ UNCHANGED <<webhookVars, loopVars>>
<1>1. UNCHANGED <<webhookVars, loopVars>>
  BY DEF SourceStep, UpdateSource, RotateCredential, DeleteSource, SetEnabled, RecordTest,
         CreateSource, ConfigureSource
<1>2. ASSUME NEW s \in Sources, UpdateSource(s)
      PROVE  SourceTypes' /\ PrincipalInv'
  <2>1. /\ s \in Active /\ Raise(s) /\ credential' = credential /\ UNCHANGED mode
        /\ UNCHANGED <<on, principal, bound>>
    BY <1>2 DEF UpdateSource
  <2>2. /\ on' \subseteq Active' /\ bound' \subseteq OfMode("PERPTAPE")'
        /\ principal' \in {"absent", "active", "inactive"} /\ PrincipalInv'
    BY <2>1, SourceStays
  <2> QED BY <2>1, <2>2, RaiseHolds DEF SourceTypes
<1>3. ASSUME NEW s \in Sources, RotateCredential(s)
      PROVE  SourceTypes' /\ PrincipalInv'
  <2>1. /\ s \in Active /\ Raise(s) /\ credential' = [credential EXCEPT ![s] = @ + 1]
        /\ UNCHANGED <<mode, on>>
    BY <1>3 DEF RotateCredential
  <2>2. \/ s \in on' /\ mode[s] = "PERPTAPE" /\ Ensure(s)
        \/ UNCHANGED <<on, principal, bound>>
    BY <1>3 DEF RotateCredential
  <2>3. /\ on' \subseteq Active' /\ bound' \subseteq OfMode("PERPTAPE")'
        /\ principal' \in {"absent", "active", "inactive"} /\ PrincipalInv'
    BY <2>1, <2>2, SourceStays
  <2> QED BY <2>1, <2>3, RaiseHolds DEF SourceTypes
<1>4. ASSUME NEW s \in Sources, NEW b \in BOOLEAN, SetEnabled(s, b)
      PROVE  SourceTypes' /\ PrincipalInv'
  <2>1. /\ s \in Active /\ Raise(s) /\ credential' = credential /\ UNCHANGED mode
        /\ on' = IF b THEN on \cup {s} ELSE on \ {s}
    BY <1>4 DEF SetEnabled
  <2>2. \/ s \in on' /\ mode[s] = "PERPTAPE" /\ Ensure(s)
        \/ mode[s] # "PERPTAPE" /\ UNCHANGED <<principal, bound>>
        \/ /\ s \notin on' /\ UNCHANGED bound
           /\ principal' = IF mode[s] = "PERPTAPE" /\ s \in bound THEN "inactive" ELSE principal
    <3>1. CASE mode[s] = "PERPTAPE" /\ b
      BY <1>4, <2>1, <3>1 DEF SetEnabled
    <3>2. CASE mode[s] = "PERPTAPE" /\ ~b
      BY <1>4, <2>1, <3>2 DEF SetEnabled
    <3>3. CASE mode[s] # "PERPTAPE"
      BY <1>4, <2>1, <3>3 DEF SetEnabled
    <3> QED BY <3>1, <3>2, <3>3
  <2>3. /\ on' \subseteq Active' /\ bound' \subseteq OfMode("PERPTAPE")'
        /\ principal' \in {"absent", "active", "inactive"} /\ PrincipalInv'
    BY <2>1, <2>2, SourceStays
  <2> QED BY <2>1, <2>3, RaiseHolds DEF SourceTypes
<1>5. ASSUME NEW s \in Sources, NEW b \in BOOLEAN, RecordTest(s, b)
      PROVE  SourceTypes' /\ PrincipalInv'
  <2>1. s \in Active /\ Raise(s) /\ credential' = credential /\ UNCHANGED <<mode, on>>
    BY <1>5 DEF RecordTest
  <2>2. \/ s \in on' /\ mode[s] = "PERPTAPE" /\ Ensure(s)
        \/ UNCHANGED <<on, principal, bound>>
    BY <1>5 DEF RecordTest
  <2>3. /\ on' \subseteq Active' /\ bound' \subseteq OfMode("PERPTAPE")'
        /\ principal' \in {"absent", "active", "inactive"} /\ PrincipalInv'
    BY <2>1, <2>2, SourceStays
  <2> QED BY <2>1, <2>3, RaiseHolds DEF SourceTypes
<1>6. ASSUME NEW s \in Sources, DeleteSource(s)
      PROVE  SourceTypes' /\ PrincipalInv'
  <2>1. /\ mode[s] = "WEBHOOK" /\ Raise(s) /\ mode' = [mode EXCEPT ![s] = "deleted"]
        /\ on' = on \ {s} /\ UNCHANGED <<credential, bound, principal>>
    BY <1>6 DEF DeleteSource
  <2>2. /\ mode' \in [Sources -> Modes \cup {"none", "deleted"}]
        /\ mode'[s] = "deleted" /\ \A t \in Sources \ {s} : mode'[t] = mode[t]
    BY <2>1 DEF SourceTypes
  <2>3. Active' = Active \ {s} /\ OfMode("PERPTAPE")' = OfMode("PERPTAPE")
    BY <2>1, <2>2 DEF Active, OfMode, Modes
  <2>4. \A t \in Sources : Streams(t)' <=> Streams(t)
    BY <2>1, <2>2 DEF Streams
  <2>5. PrincipalInv'
    BY <2>1, <2>3, <2>4 DEF PrincipalInv
  <2> QED BY <2>1, <2>2, <2>3, <2>5, RaiseHolds DEF SourceTypes
<1>7. ASSUME NEW s \in Sources, NEW m \in Modes, NEW b \in BOOLEAN, CreateSource(s, m, b)
      PROVE  SourceTypes' /\ PrincipalInv'
  <2>1. /\ mode[s] = "none" /\ mode' = [mode EXCEPT ![s] = m]
        /\ m = "PERPTAPE" => OfMode(m) \subseteq {s}
        /\ on' = IF b THEN on \cup {s} ELSE on
        /\ edition' = [edition EXCEPT ![s] = 1] /\ credential' = [credential EXCEPT ![s] = 1]
    BY <1>7 DEF CreateSource
  <2>2. s \notin on /\ s \notin bound
    BY <2>1 DEF SourceTypes, Active, OfMode, Modes
  <2>3. on' \in {on \cup {s}, on \ {s}}
    BY <2>1, <2>2
  <2>4. \/ s \in on' /\ m = "PERPTAPE" /\ Ensure(s)
        \/ /\ m = "PERPTAPE" => s \notin on'
           /\ principal' = Released(s)
           /\ bound' = IF m = "PERPTAPE" THEN bound ELSE bound \ {s}
    <3>1. CASE m = "PERPTAPE" /\ b
      BY <1>7, <2>1, <3>1 DEF CreateSource
    <3>2. CASE ~(m = "PERPTAPE" /\ b)
      <4>1. UNCHANGED <<principal, bound>>
        BY <1>7, <3>2 DEF CreateSource
      <4> QED BY <2>1, <2>2, <3>2, <4>1 DEF Released
    <3> QED BY <3>1, <3>2
  <2>5. /\ mode' \in [Sources -> Modes \cup {"none", "deleted"}]
        /\ on' \subseteq Active' /\ bound' \subseteq OfMode("PERPTAPE")'
        /\ principal' \in {"absent", "active", "inactive"} /\ PrincipalInv'
    BY <2>1, <2>3, <2>4, SourceBecomes
  <2>6. /\ edition' \in [Sources -> 0 .. MaxSource]
        /\ credential' \in [Sources -> 0 .. MaxSource]
    BY <2>1, SourcesAssumption DEF SourceTypes
  <2>7. \A t \in Sources : credential'[t] <= edition'[t]
    BY <2>1 DEF SourceTypes
  <2> QED BY <2>5, <2>6, <2>7 DEF SourceTypes
<1>8. ASSUME NEW s \in Sources, NEW m \in Modes, NEW b \in BOOLEAN, ConfigureSource(s, m, b)
      PROVE  SourceTypes' /\ PrincipalInv'
  <2>1. /\ s \in Configured(m) /\ Raise(s) /\ mode' = [mode EXCEPT ![s] = m]
        /\ on' = IF b THEN on \cup {s} ELSE on \ {s}
        /\ credential' = [credential EXCEPT ![s] = @ + 1]
    BY <1>8 DEF ConfigureSource
  <2>2. m = "PERPTAPE" => OfMode(m) \subseteq {s}
    BY <2>1, ConfiguredAlone
  <2>3. on' \in {on \cup {s}, on \ {s}}
    BY <2>1
  <2>4. \/ s \in on' /\ m = "PERPTAPE" /\ Ensure(s)
        \/ /\ m = "PERPTAPE" => s \notin on'
           /\ principal' = Released(s)
           /\ bound' = IF m = "PERPTAPE" THEN bound ELSE bound \ {s}
    <3>1. CASE m = "PERPTAPE" /\ b
      BY <1>8, <2>1, <3>1 DEF ConfigureSource
    <3>2. CASE ~(m = "PERPTAPE" /\ b)
      BY <1>8, <2>1, <3>2 DEF ConfigureSource
    <3> QED BY <3>1, <3>2
  <2>5. /\ mode' \in [Sources -> Modes \cup {"none", "deleted"}]
        /\ on' \subseteq Active' /\ bound' \subseteq OfMode("PERPTAPE")'
        /\ principal' \in {"absent", "active", "inactive"} /\ PrincipalInv'
    BY <2>1, <2>2, <2>3, <2>4, SourceBecomes
  <2> QED BY <2>1, <2>5, RaiseHolds DEF SourceTypes
<1> QED BY <1>1, <1>2, <1>3, <1>4, <1>5, <1>6, <1>7, <1>8 DEF SourceStep

-----------------------------------------------------------------------------
(***************************************************************************)
(* The webhook                                                             *)
(***************************************************************************)
LEMMA WebhookHolds ==
    ASSUME Counted, WebhookStep
    PROVE  Counted' /\ UNCHANGED <<sourceVars, loopVars>>
<1>1. PICK s \in Sources, q \in Requests, c \in 1 .. MaxSource : Ingest(s, q, c)
  BY DEF WebhookStep
<1>2. UNCHANGED <<sourceVars, loopVars>>
  BY <1>1 DEF Ingest
<1>3. PICK answer :
        /\ answer = "refused" \/ answer = Verdict(s, q)
        /\ replied' = [source |-> s, request |-> q, answer |-> answer]
        /\ accepted' = IF answer = "accepted" THEN [accepted EXCEPT ![s] = @ \cup {q}]
                       ELSE accepted
  BY <1>1 DEF Ingest
<1>4. replied'.answer = answer /\ replied'.source = s /\ replied'.request = q
  BY <1>3
<1>5. CASE answer = "accepted"
  <2>1. Verdict(s, q) = "accepted" /\ accepted' = [accepted EXCEPT ![s] = @ \cup {q}]
    BY <1>3, <1>5
  <2>2. /\ Shares(s, q, "key") = {} /\ Shares(s, q, "nonce") = {}
        /\ Shares(s, q, "signal") = {}
    BY <2>1 DEF Verdict
  <2>3. \A e \in accepted[s] : e.key # q.key /\ e.nonce # q.nonce /\ e.signal # q.signal
    BY <2>2 DEF Shares
  <2>4. accepted' \in [Sources -> SUBSET Requests] /\ accepted'[s] = accepted[s] \cup {q}
    BY <2>1 DEF Counted
  <2>5. ASSUME NEW t \in Sources, NEW e \in accepted'[t], NEW f \in accepted'[t],
               e.key = f.key \/ e.nonce = f.nonce \/ e.signal = f.signal
        PROVE  e = f
    <3>1. CASE t = s
      BY <2>3, <2>4, <2>5, <3>1 DEF Counted
    <3>2. CASE t # s
      <4>1. accepted'[t] = accepted[t]
        BY <2>1, <3>2 DEF Counted
      <4> QED BY <2>5, <4>1 DEF Counted
    <3> QED BY <3>1, <3>2
  <2>6. \E e \in accepted'[replied'.source] :
           e.key = replied'.request.key /\ e.signal = replied'.request.signal
    BY <1>4, <2>4
  <2> QED BY <1>2, <1>4, <1>5, <2>4, <2>5, <2>6 DEF Counted
<1>6. CASE answer # "accepted"
  <2>1. accepted' = accepted
    BY <1>3, <1>6
  <2>2. answer = "known" =>
           \E e \in accepted[s] : e.key = q.key /\ e.signal = q.signal
    BY <1>3 DEF Verdict, Shares
  <2>3. answer = "replay" => Shares(s, q, "key") = {}
    BY <1>3 DEF Verdict
  <2>4. Shares(replied.source, replied.request, "key")'
           = {e \in accepted[s] : e.key = q.key}
    BY <1>4, <2>1 DEF Shares
  <2>5. (replied.answer = "replay" => Shares(replied.source, replied.request, "key") = {})'
    BY <1>4, <2>3, <2>4 DEF Shares
  <2> QED BY <1>2, <1>4, <1>6, <2>1, <2>2, <2>5 DEF Counted
<1> QED BY <1>2, <1>5, <1>6

-----------------------------------------------------------------------------
(***************************************************************************)
(* The supervisor, which reads the sources and changes none                *)
(***************************************************************************)
LEMMA ReconcileHolds ==
    ASSUME LoopTypes, NEW healthy \in SUBSET Sources, Reconciled(healthy)
    PROVE  /\ stream' \in [Sources -> 0 .. MaxSource] /\ failed' \in [Sources -> 0 .. MaxSource]
           /\ alive' \subseteq {s \in Sources : stream'[s] # 0}
           /\ ended' \in [Sources -> {"none", "transient", "permanent"}]
           /\ retry' \in [Sources -> {"none", "waits", "due", "never"}]
<1>1. 0 \in 0 .. MaxSource
  BY SourcesAssumption
<1>2. stream' \in [Sources -> 0 .. MaxSource]
  BY <1>1 DEF LoopTypes, Reconciled
<1>3. \A s \in Sources : FailedNow(s) \in 0 .. MaxSource
  BY <1>1 DEF LoopTypes, FailedNow
<1>4. failed' \in [Sources -> 0 .. MaxSource]
  BY <1>1, <1>3 DEF LoopTypes, Reconciled
<1>5. ASSUME NEW s \in alive' PROVE s \in Sources /\ stream'[s] # 0
  <2>1. s \in Sources /\ (KeptStream(s) \/ Begins(s))
    BY <1>5 DEF Reconciled
  <2>2. stream'[s] = binding[s]
    BY <2>1, <1>5 DEF Reconciled
  <2>3. CASE KeptStream(s)
    BY <2>1, <2>2, <2>3 DEF KeptStream, Stale, LoopTypes
  <2>4. CASE Begins(s)
    BY <2>1, <2>2, <2>4 DEF Begins, Starts
  <2> QED BY <2>1, <2>3, <2>4
<1>6. ended' \in [Sources -> {"none", "transient", "permanent"}]
  BY DEF Reconciled
<1>7. \A s \in Sources : RetryNow(s) \in {"none", "waits", "due", "never"}
  BY DEF LoopTypes, RetryNow
<1>8. retry' \in [Sources -> {"none", "waits", "due", "never"}]
  BY <1>7 DEF Reconciled
<1> QED BY <1>2, <1>4, <1>5, <1>6, <1>8

LEMMA StreamsHold ==
    ASSUME SourceTypes, LoopTypes, StreamStep
    PROVE  LoopTypes' /\ UNCHANGED <<sourceVars, webhookVars>>
<1>1. UNCHANGED <<sourceVars, webhookVars>>
  BY DEF StreamStep, ReadBindings, ReconcileStreams, StopTimesOut, PollSources, Restarts,
         StreamEnds, RetryComesDue
<1>2. 0 \in 0 .. MaxSource
  BY SourcesAssumption
<1>3. CASE ReadBindings
  <2>1. loop' = "read" /\ UNCHANGED streamVars
    BY <1>3 DEF ReadBindings
  <2>2. binding' \in [Sources -> 0 .. MaxSource]
    BY <1>2, <1>3 DEF ReadBindings, SourceTypes
  <2> QED BY <1>1, <2>1, <2>2 DEF LoopTypes, streamVars
<1>4. CASE ReconcileStreams
  <2>1. loop' \in {"ready", "idle"} /\ UNCHANGED binding
    BY <1>4 DEF ReconcileStreams
  <2>2. PICK healthy \in SUBSET Sources : Reconciled(healthy)
    BY <1>4 DEF ReconcileStreams
  <2> QED BY <1>1, <2>1, <2>2, ReconcileHolds DEF LoopTypes
<1>5. CASE StopTimesOut \/ PollSources
  BY <1>1, <1>5 DEF StopTimesOut, PollSources, LoopTypes, streamVars
<1>6. CASE Restarts
  BY <1>1, <1>2, <1>6 DEF Restarts, LoopTypes
<1>7. ASSUME NEW s \in Sources, NEW why \in {"transient", "permanent"}, StreamEnds(s, why)
      PROVE  LoopTypes'
  BY <1>7 DEF StreamEnds, LoopTypes
<1>8. ASSUME NEW s \in Sources, RetryComesDue(s)
      PROVE  LoopTypes'
  BY <1>8 DEF RetryComesDue, LoopTypes
<1> QED BY <1>1, <1>3, <1>4, <1>5, <1>6, <1>7, <1>8 DEF StreamStep

-----------------------------------------------------------------------------
LEMMA SourcesInvHolds == SourcesInv /\ [SourcesNext]_sourcesVars => SourcesInv'
<1> SUFFICES ASSUME SourcesInv, [SourcesNext]_sourcesVars PROVE SourcesInv'
  OBVIOUS
<1> USE DEF SourcesInv
<1>1. UNCHANGED webhookVars => Counted'
  BY DEF webhookVars, Counted, Shares
<1>2. UNCHANGED sourceVars => SourceTypes' /\ PrincipalInv'
  BY DEF sourceVars, SourceTypes, PrincipalInv, Active, OfMode, Streams
<1>3. UNCHANGED loopVars => LoopTypes'
  BY DEF loopVars, streamVars, LoopTypes
<1>4. CASE SourceStep
  BY <1>1, <1>3, <1>4, SourceHolds
<1>5. CASE WebhookStep
  BY <1>2, <1>3, <1>5, WebhookHolds
<1>6. CASE StreamStep
  BY <1>1, <1>2, <1>6, StreamsHold
<1>7. CASE UNCHANGED sourcesVars
  BY <1>1, <1>2, <1>3, <1>7 DEF sourcesVars
<1> QED BY <1>4, <1>5, <1>6, <1>7 DEF SourcesNext

LEMMA SourcesInvSuffices ==
    SourcesInv => SourcesTypeOK /\ PrincipalFollowsSource /\ SignalCountedOnce
<1> SUFFICES ASSUME SourcesInv
             PROVE  SourcesTypeOK /\ PrincipalFollowsSource /\ SignalCountedOnce
  OBVIOUS
<1>1. SourcesTypeOK
  <2>1. \A s \in Sources : credential[s] \in 0 .. edition[s]
    BY SourcesAssumption DEF SourcesInv, SourceTypes
  <2>2. bound \subseteq Sources
    BY DEF SourcesInv, SourceTypes, OfMode
  <2> QED BY <2>1, <2>2 DEF SourcesInv, SourceTypes, LoopTypes, Counted, SourcesTypeOK
<1>2. PrincipalFollowsSource
  <2>1. Cardinality(OfMode("PERPTAPE")) <= 1
    <3>1. CASE OfMode("PERPTAPE") = {}
      BY <3>1, FS_EmptySet
    <3>2. CASE OfMode("PERPTAPE") # {}
      <4>1. PICK s \in OfMode("PERPTAPE") : TRUE
        BY <3>2
      <4>2. OfMode("PERPTAPE") = {s}
        BY <4>1 DEF SourcesInv, PrincipalInv
      <4> QED BY <4>2, FS_Singleton
    <3> QED BY <3>1, <3>2
  <2> QED BY <2>1 DEF SourcesInv, PrincipalInv, PrincipalFollowsSource
<1>3. SignalCountedOnce
  BY DEF SourcesInv, Counted, SignalCountedOnce
<1> QED BY <1>1, <1>2, <1>3

\* Whatever is created, switched, configured, posted and streamed, every row and every piece of
\* the supervisor's state has its type, and no credential is newer than its source.
THEOREM SourceTypesHold == SourcesSpec => []SourcesTypeOK
BY SourcesInvSuffices, SourcesInitHolds, SourcesInvHolds, PTL DEF SourcesSpec

\* The principal that signals are proposed under may act exactly while a Perptape source is
\* enabled, whichever way the handlers of the sources switch, configure and delete them.
THEOREM PrincipalHolds == SourcesSpec => []PrincipalFollowsSource
BY SourcesInvSuffices, SourcesInitHolds, SourcesInvHolds, PTL DEF SourcesSpec

\* The webhook makes one event of a signal, however often and under whatever keys and nonces it
\* is posted, and tells a sender that asks again of the event it made.
THEOREM SignalsHold == SourcesSpec => []SignalCountedOnce
BY SourcesInvSuffices, SourcesInitHolds, SourcesInvHolds, PTL DEF SourcesSpec

-----------------------------------------------------------------------------
(***************************************************************************)
(* The feed                                                                *)
(***************************************************************************)
\* A time that an update of the key has, or the moment after it.
Known(at, k) == k \in dropped \/ (server[k] # NoFact /\ at <= server[k].at + 1)
Below(f, k) == f = NoFact \/ Known(f.at, k)

\* An answer, read from the venue after the row was.
AnswerFits(answer, was) ==
    /\ answer \in Answers
    /\ \A k \in Keys :
          /\ answer[k] # NoFact => answer[k].at % 2 = 1 /\ Known(answer[k].at, k)
          /\ was[k] # NoFact /\ k \notin dropped =>
                answer[k] # NoFact /\ was[k].at <= answer[k].at + 1

PollDated ==
    /\ \A k \in Keys : Below(pollBase[k], k) /\ Below(pollKept[k], k)
    /\ poll \in {"answered", "merged"} => AnswerFits(pollAnswer, pollBase)

AskDated ==
    /\ \A k \in Keys : Below(base[k], k) /\ Below(kept[k], k)
    /\ work \in {"answered", "kept"} => AnswerFits(reply, base)

AlertDated ==
    /\ alert # NoFact => Known(alert.at, alert.key)
    /\ \A n \in 1 .. Len(socket) : Known(socket[n].at, socket[n].key)
    /\ \A k \in Keys : pending[k] > 0 => Known(pending[k], k)

Dated ==
    /\ \A k \in Keys : server[k] # NoFact => server[k].at % 2 = 1
    /\ \A k \in Keys : k \in unsent \ dropped => server[k] # NoFact
    /\ \A k \in Keys : Below(row[k], k)
    /\ PollDated /\ AskDated /\ AlertDated

\* The worker has an alert in hand while it applies one, and makes a fact of it that is whole
\* only if the row was.
InHand ==
    /\ work \in {"gap", "filled", "build", "built"} => alert \in Alerts
    /\ work \in {"backfill", "asked", "answered", "kept"} /\ back # "idle" => alert \in Alerts
    /\ work = "built" =>
          /\ made \in Facts /\ made.at = alert.at
          /\ alert.short /\ made.st # "INCOMPLETE" =>
                base[alert.key] # NoFact /\ base[alert.key].st = "READY"

Waits(f) == f # NoFact /\ f.st = "INCOMPLETE"

\* What the poller has kept is what waits in the row.
PollUpToDate(k) == poll = "merged" => pollKept[k] = KeptFromRow[k]

\* While the worker asks, only the poller changes the row; a poll that records after another
\* has kept what the other left.
Window ==
    work \in {"asked", "answered"} => \A k \in Keys : row[k] = base[k] \/ PollUpToDate(k)

KeptHolds ==
    work = "kept" => \A k \in Keys : pending[k] > 0 =>
        /\ kept[k] # NoFact
        /\ \/ base[k] \in {kept[k], NoFact}
           \/ /\ PollUpToDate(k)
              /\ Waits(row[k]) /\ row[k].at % 2 = 0 => kept[k] = row[k]

FeedInv == FeedTypeOK /\ Dated /\ InHand /\ Window /\ KeptHolds

-----------------------------------------------------------------------------
LEMMA MaxAtIsNat == MaxAt \in Nat /\ MaxAt > 1
BY SignalFeedAssumption DEF MaxAt

LEMMA ChoiceIsOne == ASSUME NEW f, NEW g PROVE Choice(f, g) \in {f, g}
BY DEF Choice, Later

LEMMA MergeIsOne ==
    ASSUME NEW was, NEW now, NEW new PROVE Merge(was, now, new) \in {now, new, NoFact}
BY ChoiceIsOne DEF Merge

LEMMA WaitingIs ==
    ASSUME NEW a \in Answers, NEW wait \in Snapshots
    PROVE  /\ WithWaiting(a, wait) \in Snapshots
           /\ \A k \in Keys :
                 LET new == WithWaiting(a, wait)[k]
                 IN  \/ /\ new = a[k]
                        /\ ~Waited(k) \/ wait[k] = NoFact \/ Completes(a[k], wait[k].at)
                     \/ /\ wait[k] # NoFact /\ Waits(new)
                        /\ \/ new.at = wait[k].at /\ (a[k] # NoFact => a[k].at <= wait[k].at)
                           \/ a[k] # NoFact /\ new.at = a[k].at /\ a[k].at > wait[k].at
<1> USE MaxAtIsNat
<1> DEFINE new(k) == WithWaiting(a, wait)[k]
<1>1. ASSUME NEW k \in Keys
      PROVE  /\ new(k) \in Facts \cup {NoFact}
             /\ \/ new(k) = a[k] /\ (~Waited(k) \/ wait[k] = NoFact \/ Completes(a[k], wait[k].at))
                \/ /\ wait[k] # NoFact /\ Waits(new(k))
                   /\ \/ new(k).at = wait[k].at /\ (a[k] # NoFact => a[k].at <= wait[k].at)
                      \/ a[k] # NoFact /\ new(k).at = a[k].at /\ a[k].at > wait[k].at
  <2>1. a[k] \in Listed \cup {NoFact} /\ wait[k] \in Facts \cup {NoFact}
    BY DEF Answers, Snapshots
  <2>2. CASE wait[k] = NoFact \/ ~Waited(k) \/ Completes(a[k], wait[k].at)
    <3>1. new(k) = a[k]
      BY <2>2 DEF WithWaiting
    <3> QED BY <2>1, <2>2, <3>1 DEF Listed, Facts
  <2>3. CASE ~(wait[k] = NoFact \/ ~Waited(k) \/ Completes(a[k], wait[k].at))
    <3> DEFINE t == IF a[k] # NoFact /\ a[k].at > wait[k].at THEN a[k].at ELSE wait[k].at
    <3>1. new(k) = [at |-> t, st |-> "INCOMPLETE"]
      BY <2>3 DEF WithWaiting
    <3>2. t \in 1 .. MaxAt
      BY <2>1, <2>3 DEF Listed, Facts
    <3>3. new(k) \in Facts
      BY <3>1, <3>2 DEF Facts
    <3>4. wait[k].at \in Int /\ (a[k] # NoFact => a[k].at \in Int)
      BY <2>1, <2>3 DEF Listed, Facts
    <3> QED BY <2>3, <3>1, <3>3, <3>4, SignalFeedAssumption DEF Waits
  <2> QED BY <2>2, <2>3
<1>2. WithWaiting(a, wait) = [k \in Keys |-> new(k)]
  BY DEF WithWaiting
<1>3. WithWaiting(a, wait) \in Snapshots
  <2> HIDE DEF new
  <2> QED BY <1>1, <1>2 DEF Snapshots
<1> QED BY <1>1, <1>3

LEMMA AppliedIs ==
    ASSUME row \in Snapshots, NEW was \in Snapshots, NEW new \in Snapshots
    PROVE  /\ Applied(was, new) \in Snapshots
           /\ \A k \in Keys : /\ Applied(was, new)[k] = Merge(was[k], row[k], new[k])
                              /\ Applied(was, new)[k] \in {row[k], new[k], NoFact}
<1>1. \A k \in Keys : Applied(was, new)[k] = Merge(was[k], row[k], new[k])
  BY DEF Applied
<1>2. \A k \in Keys : Applied(was, new)[k] \in {row[k], new[k], NoFact}
  BY <1>1, MergeIsOne
<1>3. Applied(was, new) \in [Keys -> Facts \cup {NoFact}]
  <2> DEFINE m(k) == Merge(was[k], row[k], new[k])
  <2>1. Applied(was, new) = [k \in Keys |-> m(k)]
    BY DEF Applied
  <2>2. \A k \in Keys : m(k) \in Facts \cup {NoFact}
    <3> SUFFICES ASSUME NEW k \in Keys PROVE m(k) \in Facts \cup {NoFact}
      OBVIOUS
    <3>1. m(k) \in {row[k], new[k], NoFact}
      BY MergeIsOne
    <3> QED BY <3>1 DEF Snapshots
  <2> HIDE DEF m
  <2> QED BY <2>1, <2>2
<1> QED BY <1>1, <1>2, <1>3 DEF Snapshots

\* The merge does not undo a READY fact that is newer than what its writer read.
LEMMA MergeKeepsReady ==
    ASSUME NEW was \in Facts \cup {NoFact}, NEW now \in Facts \cup {NoFact},
           NEW new \in Facts \cup {NoFact},
           Completes(now, IF was = NoFact THEN 0 ELSE was.at + 1)
    PROVE  LET m == Merge(was, now, new) IN m # NoFact /\ m.at >= now.at
<1> USE MaxAtIsNat
<1>1. /\ now \in Facts /\ now # NoFact /\ now.at \in Int /\ now.st = "READY"
      /\ now # was /\ (was # NoFact => was.at \in Int /\ now.at > was.at)
  BY DEF Completes, Facts
<1>2. CASE new = was
  BY <1>1, <1>2 DEF Merge
<1>3. CASE new = NoFact /\ new # was
  <2>1. Supersedes(now, was)
    BY <1>1, <1>3 DEF Supersedes
  <2>2. Merge(was, now, new) = now
    BY <1>3, <2>1 DEF Merge
  <2> QED BY <1>1, <2>2
<1>4. CASE new # NoFact /\ new # was
  <2>1. new.at \in Int /\ new \in Facts
    BY <1>4 DEF Facts
  <2>2. Merge(was, now, new) = Choice(now, new)
    BY <1>1, <1>4 DEF Merge
  <2>3. Choice(now, new) # NoFact /\ Choice(now, new).at >= now.at
    <3>1. CASE new.st = "INCOMPLETE"
      <4>1. Choice(now, new) = IF Completes(now, new.at) THEN now ELSE new
        BY <1>1, <3>1 DEF Choice
      <4> QED BY <1>1, <1>4, <2>1, <4>1 DEF Completes
    <3>2. CASE new.st # "INCOMPLETE"
      <4>1. Choice(now, new) = Later(now, new)
        BY <1>1, <3>2 DEF Choice
      <4> QED BY <1>1, <1>4, <2>1, <4>1 DEF Later
    <3> QED BY <3>1, <3>2
  <2> QED BY <2>2, <2>3
<1> QED BY <1>2, <1>3, <1>4

\* The merge takes a fact that waits out of the row for a fact that completes it only, unless
\* the row is as its writer read it, or the writer has no fact.
LEMMA MergeKeepsWaiting ==
    ASSUME NEW was, NEW now, NEW new, Waits(now),
           new = was \/ new # NoFact,
           now = was /\ new # was => Waits(new) \/ Completes(new, now.at)
    PROVE  LET m == Merge(was, now, new) IN Waits(m) \/ Completes(m, now.at)
<1>1. CASE new = was
  BY <1>1 DEF Merge, Waits
<1>2. CASE new # was /\ now = was
  BY <1>2 DEF Merge, Waits
<1>3. CASE new # was /\ now # was
  <2>1. Merge(was, now, new) = Choice(now, new)
    BY <1>3 DEF Merge, Waits
  <2>2. CASE new.st = "INCOMPLETE"
    <3>1. Choice(now, new) \in {now, new}
      BY ChoiceIsOne
    <3> QED BY <1>3, <2>1, <2>2, <3>1 DEF Waits
  <2>3. CASE new.st # "INCOMPLETE"
    <3>1. Choice(now, new) = IF Completes(new, now.at) THEN new ELSE now
      BY <2>3 DEF Choice, Waits
    <3> QED BY <2>1, <3>1
  <2> QED BY <2>2, <2>3
<1> QED BY <1>1, <1>2, <1>3

-----------------------------------------------------------------------------
LEMMA FeedInitHolds == FeedInit => FeedInv
<1> SUFFICES ASSUME FeedInit PROVE FeedInv
  OBVIOUS
<1> USE MaxAtIsNat
<1>1. Nothing \in Snapshots
  BY DEF Nothing, Snapshots
<1>2. server \in [Keys -> Listed \cup {NoFact}] /\ pending \in [Keys -> 0 .. MaxAt]
  BY DEF FeedInit, Nothing
<1>3. socket \in Seq(Alerts) /\ Len(socket) <= MaxSocket
  BY SignalFeedAssumption DEF FeedInit
<1>4. FeedTypeOK
  BY <1>1, <1>2, <1>3 DEF FeedInit, FeedTypeOK
<1>5. Dated
  BY DEF FeedInit, Dated, PollDated, AskDated, AlertDated, Below, Nothing
<1> QED BY <1>4, <1>5 DEF FeedInv, FeedInit, InHand, Window, KeptHolds

\* What was known of a key stays known: the venue's times grow until it drops the key.
VenueMoves ==
    /\ server' \in [Keys -> Listed \cup {NoFact}] /\ dropped \subseteq dropped'
    /\ dropped' \subseteq Keys
    /\ \A k \in Keys : server'[k] # NoFact => server'[k].at % 2 = 1
    /\ \A k \in Keys : k \in unsent' \ dropped' => server'[k] # NoFact
    /\ \A k \in Keys : k \notin dropped' /\ server[k] # NoFact =>
          server'[k] # NoFact /\ server[k].at <= server'[k].at

LEMMA KnownStays ==
    ASSUME FeedTypeOK, VenueMoves, NEW k \in Keys, NEW at \in Nat, Known(at, k)
    PROVE  Known(at, k)'
<1> USE MaxAtIsNat
<1>1. \A j \in Keys : server[j] # NoFact => server[j].at \in Nat
  BY DEF FeedTypeOK, Listed
<1>2. \A j \in Keys : server'[j] # NoFact => server'[j].at \in Nat
  BY DEF VenueMoves, Listed
<1> QED BY <1>1, <1>2 DEF Known, VenueMoves

LEMMA StillBelow ==
    ASSUME FeedTypeOK, VenueMoves, NEW k \in Keys, NEW f \in Facts \cup {NoFact}, Below(f, k)
    PROVE  Below(f, k)'
BY MaxAtIsNat, KnownStays DEF Below, Facts

LEMMA StillFits ==
    ASSUME FeedTypeOK, VenueMoves, NEW answer, NEW was, AnswerFits(answer, was)
    PROVE  AnswerFits(answer, was)'
<1> USE MaxAtIsNat
<1>1. \A k \in Keys : answer[k] # NoFact => answer[k].at \in Nat
  BY DEF AnswerFits, Answers, Listed
<1>2. \A k \in Keys : answer[k] # NoFact => Known(answer[k].at, k)'
  BY <1>1, KnownStays DEF AnswerFits
<1> QED BY <1>2 DEF AnswerFits, VenueMoves

LEMMA VenueMovesKeep ==
    ASSUME FeedInv, VenueMoves, brief' \subseteq Keys, aged' \subseteq Keys,
           UNCHANGED <<row, pollVars, workVars>>,
           socket' \in Seq(Alerts), Len(socket') <= MaxSocket, skipped' \in BOOLEAN,
           (\A n \in 1 .. Len(socket) : Known(socket[n].at, socket[n].key))'
    PROVE  FeedInv'
<1> USE MaxAtIsNat DEF FeedInv, pollVars, workVars, askVars, alertVars, targetVars
<1>1. FeedTypeOK'
  BY DEF FeedTypeOK, VenueMoves, Pending
<1>2. \A k \in Keys : /\ Below(row[k], k)' /\ Below(base[k], k)' /\ Below(kept[k], k)'
                       /\ Below(pollBase[k], k)' /\ Below(pollKept[k], k)'
  <2> SUFFICES ASSUME NEW k \in Keys
               PROVE  /\ Below(row[k], k)' /\ Below(base[k], k)' /\ Below(kept[k], k)'
                      /\ Below(pollBase[k], k)' /\ Below(pollKept[k], k)'
    OBVIOUS
  <2>1. /\ row[k] \in Facts \cup {NoFact} /\ base[k] \in Facts \cup {NoFact}
        /\ kept[k] \in Facts \cup {NoFact} /\ pollBase[k] \in Facts \cup {NoFact}
        /\ pollKept[k] \in Facts \cup {NoFact}
    BY DEF FeedTypeOK, Snapshots
  <2> QED BY <2>1, StillBelow DEF Dated, PollDated, AskDated, Below, Known
<1>3. (poll \in {"answered", "merged"} => AnswerFits(pollAnswer, pollBase))'
  BY StillFits DEF Dated, PollDated, AnswerFits, Known
<1>4. (work \in {"answered", "kept"} => AnswerFits(reply, base))'
  BY StillFits DEF Dated, AskDated, AnswerFits, Known
<1>5. (\A k \in Keys : pending[k] > 0 => Known(pending[k], k))'
  <2>1. \A k \in Keys : pending[k] \in Nat
    BY DEF FeedTypeOK
  <2> QED BY <2>1, KnownStays DEF Dated, AlertDated, Known
<1>6. (alert # NoFact => Known(alert.at, alert.key))'
  <2>1. CASE alert # NoFact
    <3>1. alert.at \in Nat /\ alert.key \in Keys
      BY <2>1 DEF FeedTypeOK, Alerts
    <3> QED BY <3>1, KnownStays DEF Dated, AlertDated, Known
  <2> QED BY <2>1
<1>7. Dated'
  BY <1>2, <1>3, <1>4, <1>5, <1>6 DEF Dated, PollDated, AskDated, AlertDated, VenueMoves
<1>8. InHand' /\ Window' /\ KeptHolds'
  BY DEF InHand, Window, KeptHolds, PollUpToDate, KeptFromRow, Waits
<1> QED BY <1>1, <1>7, <1>8

LEMMA TailIs ==
    ASSUME socket \in Seq(Alerts), Len(socket) <= MaxSocket, socket # << >>
    PROVE  /\ Tail(socket) \in Seq(Alerts) /\ Len(Tail(socket)) <= MaxSocket
           /\ \A n \in 1 .. Len(Tail(socket)) :
                 n + 1 \in 1 .. Len(socket) /\ Tail(socket)[n] = socket[n + 1]
<1>1. Len(socket) \in Nat /\ Len(socket) > 0 /\ MaxSocket \in Nat
  BY SignalFeedAssumption
<1>2. Tail(socket) \in Seq(Alerts) /\ Len(Tail(socket)) = Len(socket) - 1
  BY <1>1
<1>3. \A n \in 1 .. Len(socket) - 1 : Tail(socket)[n] = socket[n + 1]
  BY <1>1
<1> QED BY <1>1, <1>2, <1>3

LEMMA SocketKept ==
    ASSUME FeedInv, VenueMoves, UNCHANGED socketVars
    PROVE  /\ socket' \in Seq(Alerts) /\ Len(socket') <= MaxSocket /\ skipped' \in BOOLEAN
           /\ (\A n \in 1 .. Len(socket) : Known(socket[n].at, socket[n].key))'
<1>1. \A n \in 1 .. Len(socket) : socket[n] \in Alerts
  BY DEF FeedInv, FeedTypeOK
<1>2. \A n \in 1 .. Len(socket) : socket[n].at \in Nat /\ socket[n].key \in Keys
  BY <1>1, MaxAtIsNat DEF Alerts
<1>3. (\A n \in 1 .. Len(socket) : Known(socket[n].at, socket[n].key))'
  BY <1>2, KnownStays DEF FeedInv, Dated, AlertDated, Known, socketVars
<1> QED BY <1>3 DEF FeedInv, FeedTypeOK, socketVars, Known

LEMMA VenueHolds == ASSUME FeedInv, Venue PROVE FeedInv'
<1> USE MaxAtIsNat
<1>1. /\ FeedTypeOK /\ AlertDated
      /\ \A k \in Keys : server[k] # NoFact => server[k].at % 2 = 1
      /\ \A k \in Keys : k \in unsent \ dropped => server[k] # NoFact
  BY DEF FeedInv, Dated
<1>2. ASSUME NEW k \in Keys, Unlist(k) \/ Age(k) PROVE FeedInv'
  <2>1. VenueMoves
    <3>1. \A j \in Keys : server[j] # NoFact => server[j].at \in Nat
      BY <1>1 DEF FeedTypeOK, Listed
    <3>2. CASE Unlist(k)
      BY <1>1, <3>1, <3>2 DEF Unlist, VenueMoves, FeedTypeOK
    <3>3. CASE Age(k)
      BY <1>1, <3>1, <3>3 DEF Age, VenueMoves, FeedTypeOK
    <3> QED BY <1>2, <3>2, <3>3
  <2>2. UNCHANGED <<row, pollVars, workVars, socketVars>>
    BY <1>2 DEF Unlist, Age
  <2>3. brief' \subseteq Keys /\ aged' \subseteq Keys
    BY <1>1, <1>2 DEF Unlist, Age, FeedTypeOK
  <2> QED BY <2>1, <2>2, <2>3, SocketKept, VenueMovesKeep
<1>3. ASSUME NEW k \in Keys, NEW st \in {"READY", "DEGRADED"}, NEW short \in BOOLEAN,
             Update(k, st, short)
      PROVE  FeedInv'
  <2> DEFINE at == IF server[k] = NoFact THEN 1 ELSE server[k].at + 2
             new == [at |-> at, st |-> st]
  <2>1. server' = [server EXCEPT ![k] = new]
    BY <1>3 DEF Update
  <2>2. /\ at \in 1 .. MaxAt /\ at % 2 = 1
        /\ server[k] # NoFact => server[k].at \in Nat /\ server[k].at <= at
    BY <1>1, <1>3 DEF Update, Now, FeedTypeOK, Listed
  <2>3. new \in Listed /\ new # NoFact /\ new.at = at
    BY <2>2, SignalFeedAssumption DEF Listed, Facts
  <2>4. \A j \in Keys : server[j] # NoFact => server[j].at \in Nat
    BY <1>1 DEF FeedTypeOK, Listed
  <2> HIDE DEF at, new
  <2>5. VenueMoves
    BY <1>1, <1>3, <2>1, <2>2, <2>3, <2>4 DEF Update, VenueMoves, FeedTypeOK
  <2>6. UNCHANGED <<row, pollVars, workVars, socketVars>>
    BY <1>3 DEF Update
  <2>7. brief' \subseteq Keys /\ aged' \subseteq Keys
    BY <1>1, <1>3 DEF Update, FeedTypeOK
  <2> QED BY <2>5, <2>6, <2>7, SocketKept, VenueMovesKeep
<1>4. ASSUME NEW k \in Keys, NEW at \in 1 .. MaxAt, SendAlert(k, at) PROVE FeedInv'
  <2> DEFINE m == [key |-> k, at |-> at, st |-> server[k].st, short |-> k \in brief,
                   gap |-> skipped]
  <2>1. server[k] \in Listed /\ k \notin dropped /\ at <= server[k].at + 1
    BY <1>1, <1>4 DEF SendAlert, FeedTypeOK, Listed
  <2>2. socket' = Append(socket, m) /\ Len(socket) < MaxSocket /\ skipped' = FALSE
    BY <1>4 DEF SendAlert
  <2>3. m \in Alerts /\ m.at = at /\ m.key = k
    BY <1>1, <2>1 DEF Alerts, Listed, FeedTypeOK
  <2>4. UNCHANGED <<server, dropped, brief, aged, row, pollVars, workVars>>
    BY <1>4 DEF SendAlert
  <2> HIDE DEF m
  <2>5. VenueMoves
    <3>1. \A j \in Keys : server[j] # NoFact => server[j].at \in Nat
      BY <1>1 DEF FeedTypeOK, Listed
    <3> QED BY <1>1, <1>4, <2>4, <3>1 DEF SendAlert, VenueMoves, FeedTypeOK
  <2>6. socket' \in Seq(Alerts) /\ Len(socket') = Len(socket) + 1
    BY <1>1, <2>2, <2>3 DEF FeedTypeOK
  <2>7. (\A n \in 1 .. Len(socket) : Known(socket[n].at, socket[n].key))'
    <3>1. \A n \in 1 .. Len(socket') : socket'[n] = IF n <= Len(socket) THEN socket[n] ELSE m
      BY <1>1, <2>2, <2>3 DEF FeedTypeOK
    <3>2. Known(at, k)
      BY <1>1, <1>4, <2>1 DEF SendAlert, Known
    <3> QED BY <1>1, <2>3, <2>4, <2>6, <3>1, <3>2 DEF AlertDated, Known, FeedTypeOK
  <2>8. Len(socket') <= MaxSocket
    BY <1>1, <2>2, <2>6, SignalFeedAssumption DEF FeedTypeOK
  <2> QED BY <1>1, <2>2, <2>4, <2>5, <2>6, <2>7, <2>8, VenueMovesKeep DEF FeedTypeOK
<1>5. CASE Lose
  <2>1. socket # << >> /\ socket' = Tail(socket) /\ skipped' = TRUE
    BY <1>5 DEF Lose
  <2>2. UNCHANGED <<venueVars, row, pollVars, workVars>>
    BY <1>5 DEF Lose
  <2>3. VenueMoves
    <3>1. \A j \in Keys : server[j] # NoFact => server[j].at \in Nat
      BY <1>1 DEF FeedTypeOK, Listed
    <3> QED BY <1>1, <2>2, <3>1 DEF VenueMoves, FeedTypeOK, venueVars
  <2>4. /\ socket' \in Seq(Alerts) /\ Len(socket') <= MaxSocket
        /\ \A n \in 1 .. Len(socket') : n + 1 \in 1 .. Len(socket) /\ socket'[n] = socket[n + 1]
    BY <1>1, <2>1, TailIs DEF FeedTypeOK
  <2>5. (\A n \in 1 .. Len(socket) : Known(socket[n].at, socket[n].key))'
    BY <1>1, <2>2, <2>4 DEF AlertDated, Known, venueVars
  <2> QED BY <1>1, <2>1, <2>2, <2>3, <2>4, <2>5, VenueMovesKeep DEF FeedTypeOK, venueVars
<1> QED BY <1>2, <1>3, <1>4, <1>5 DEF Venue

-----------------------------------------------------------------------------
\* What a writer records of an answer and of what it waits for is of known times.
LEMMA RecordedHolds ==
    ASSUME FeedTypeOK, NEW was \in Snapshots, NEW answer, AnswerFits(answer, was),
           NEW wait \in Snapshots, \A k \in Keys : Below(row[k], k) /\ Below(wait[k], k)
    PROVE  LET new == Applied(was, WithWaiting(answer, wait))
           IN  new \in Snapshots /\ \A k \in Keys : Below(new[k], k)
<1> DEFINE feed == WithWaiting(answer, wait)
<1>1. answer \in Answers /\ row \in Snapshots
  BY DEF AnswerFits, FeedTypeOK
<1>2. feed \in Snapshots
  BY <1>1, WaitingIs
<1>3. \A k \in Keys : Below(feed[k], k)
  BY <1>1, WaitingIs DEF Below, AnswerFits
<1> HIDE DEF feed
<1>4. Applied(was, feed) \in Snapshots
  BY <1>1, <1>2, AppliedIs
<1>5. \A k \in Keys : Applied(was, feed)[k] \in {row[k], feed[k], NoFact}
  BY <1>1, <1>2, AppliedIs
<1> QED BY <1>3, <1>4, <1>5 DEF Below, feed

\* Times of facts the venue lists are odd, so an even one that waits was in the row before.
LEMMA EvenWaitsFromRow ==
    ASSUME FeedTypeOK, NEW was \in Snapshots, NEW answer, AnswerFits(answer, was),
           NEW wait \in Snapshots, NEW k \in Keys, wait[k] = KeptFromRow[k],
           LET new == Applied(was, WithWaiting(answer, wait))[k]
           IN  Waits(new) /\ new.at % 2 = 0
    PROVE  row[k] = Applied(was, WithWaiting(answer, wait))[k]
<1> DEFINE feed == WithWaiting(answer, wait)
           new == Applied(was, feed)[k]
<1>1. /\ answer \in Answers /\ row \in Snapshots /\ feed \in Snapshots
      /\ row[k] \in Facts \cup {NoFact} /\ feed[k] \in Facts \cup {NoFact}
  BY WaitingIs DEF AnswerFits, FeedTypeOK, Snapshots
<1>2. new \in {row[k], feed[k], NoFact}
  BY <1>1, AppliedIs
<1>3. CASE new = feed[k] /\ new # row[k]
  <2>1. Waits(feed[k]) /\ feed[k].at % 2 = 0
    BY <1>3
  <2>2. answer[k] # NoFact => answer[k].st # "INCOMPLETE" /\ answer[k].at % 2 = 1
    BY <1>1 DEF Answers, Listed, AnswerFits
  <2>3. wait[k] # NoFact /\ feed[k].at = wait[k].at
    BY <1>1, <2>1, <2>2, WaitingIs DEF Waits
  <2>4. row[k] = wait[k] /\ row[k].st = "INCOMPLETE"
    BY <2>3 DEF KeptFromRow
  <2>5. row[k] = feed[k]
    BY <1>1, <2>1, <2>3, <2>4 DEF Facts, Waits
  <2> QED BY <1>3, <2>5
<1> QED BY <1>2, <1>3 DEF Waits

LEMMA PollerHolds == ASSUME FeedInv, Poller PROVE FeedInv'
<1> USE DEF FeedInv
<1>1. /\ \A k \in Keys : Below(row[k], k) /\ Below(pollBase[k], k) /\ Below(pollKept[k], k)
      /\ row \in Snapshots /\ pollBase \in Snapshots /\ pollKept \in Snapshots
  BY DEF Dated, PollDated, FeedTypeOK
<1>2. Nothing \in Snapshots /\ \A k \in Keys : Below(Nothing[k], k)
  BY DEF Nothing, Snapshots, Below
<1>3. CASE PollBegin
  <2> USE DEF PollBegin, workVars, askVars, alertVars, targetVars, venueVars, socketVars
  <2>1. FeedTypeOK'
    BY <1>1, <1>3 DEF FeedTypeOK, Pending
  <2>2. Dated'
    BY <1>1, <1>3 DEF Dated, PollDated, AskDated, AlertDated, AnswerFits, Below, Known
  <2> QED BY <1>3, <2>1, <2>2 DEF InHand, Window, KeptHolds, PollUpToDate, Waits
<1>4. CASE PollAnswer
  <2> USE DEF PollAnswer, askVars, alertVars, venueVars, socketVars
  <2>1. FeedTypeOK'
    BY <1>4 DEF FeedTypeOK, Pending, Answered, Answers
  <2>2. AnswerFits(server, pollBase)
    <3>1. /\ server \in Answers
          /\ \A k \in Keys : server[k] # NoFact => server[k].at \in Nat /\ server[k].at % 2 = 1
      BY MaxAtIsNat DEF FeedTypeOK, Answers, Listed, Dated
    <3> QED BY <1>1, <3>1 DEF AnswerFits, Below, Known
  <2>3. Dated'
    BY <1>1, <1>4, <2>2 DEF Dated, PollDated, AskDated, AlertDated, AnswerFits, Below, Known
  <2> QED BY <1>4, <2>1, <2>3 DEF InHand, Window, KeptHolds, PollUpToDate, Waits
<1>5. CASE PollMerge
  <2> USE DEF PollMerge, workVars, askVars, alertVars, targetVars, venueVars, socketVars
  <2>1. KeptFromRow \in Snapshots /\ \A k \in Keys : Below(KeptFromRow[k], k)
    BY <1>1 DEF KeptFromRow, Snapshots, Below
  <2>2. FeedTypeOK'
    BY <1>5, <2>1 DEF FeedTypeOK, Pending
  <2>3. Dated'
    BY <1>1, <1>5, <2>1 DEF Dated, PollDated, AskDated, AlertDated, AnswerFits, Below, Known
  <2>4. \A k \in Keys : PollUpToDate(k)'
    BY <1>5 DEF PollUpToDate, KeptFromRow
  <2> QED BY <1>5, <2>2, <2>3, <2>4 DEF InHand, Window, KeptHolds, Waits
<1>6. CASE PollFails
  <2> USE DEF PollFails, workVars, askVars, alertVars, targetVars, venueVars, socketVars
  <2>1. FeedTypeOK'
    BY <1>2, <1>6 DEF FeedTypeOK, Pending
  <2>2. Dated'
    BY <1>1, <1>2, <1>6 DEF Dated, PollDated, AskDated, AlertDated, AnswerFits, Below, Known
  <2> QED BY <1>6, <2>1, <2>2 DEF InHand, Window, KeptHolds, PollUpToDate, Waits
<1>7. CASE PollRecord
  <2> USE DEF PollRecord, workVars, askVars, alertVars, targetVars, venueVars, socketVars
  <2>1. row' = Applied(pollBase, WithWaiting(pollAnswer, pollKept)) /\ poll' = "idle"
    BY <1>7
  <2>2. AnswerFits(pollAnswer, pollBase)
    BY <1>7 DEF Dated, PollDated
  <2>3. row' \in Snapshots /\ \A k \in Keys : Below(row'[k], k)
    BY <1>1, <2>1, <2>2, RecordedHolds
  <2>4. FeedTypeOK'
    BY <1>2, <1>7, <2>3 DEF FeedTypeOK, Pending
  <2>5. Dated'
    BY <1>2, <1>7, <2>3 DEF Dated, PollDated, AskDated, AlertDated, AnswerFits, Below, Known
  <2>6. \A k \in Keys : PollUpToDate(k) /\ Waits(row'[k]) /\ row'[k].at % 2 = 0 =>
            row'[k] = row[k]
    BY <1>1, <1>7, <2>1, <2>2, EvenWaitsFromRow DEF PollUpToDate
  <2>7. KeptHolds'
    BY <1>7, <2>1, <2>6 DEF KeptHolds, PollUpToDate, Waits
  <2> QED BY <1>7, <2>1, <2>4, <2>5, <2>7 DEF InHand, Window, PollUpToDate
<1> QED BY <1>3, <1>4, <1>5, <1>6, <1>7 DEF Poller

-----------------------------------------------------------------------------
(***************************************************************************)
(* The worker                                                              *)
(***************************************************************************)

\* Registering a target, settling some, and starting anew keep targets typed and known.
LEMMA TargetsHold ==
    ASSUME FeedInv, UNCHANGED <<server, dropped>>,
           \/ UNCHANGED targetVars
           \/ pending' = [k \in Keys |-> 0] /\ fresh' = {}
           \/ pending' = Rebuilt /\ fresh' = {}
           \/ \E done \in SUBSET Keys : pending' = Left(done) /\ fresh' = fresh \ done
           \/ alert' \in Alerts /\ Known(alert'.at, alert'.key) /\ Register(alert'.key, alert'.at)
    PROVE  /\ pending' \in [Keys -> 0 .. MaxAt] /\ fresh' \subseteq Pending'
           /\ (\A k \in Keys : pending[k] > 0 => Known(pending[k], k))'
<1> USE MaxAtIsNat
<1>1. /\ pending \in [Keys -> 0 .. MaxAt] /\ fresh \subseteq Pending
      /\ \A k \in Keys : pending[k] > 0 => Known(pending[k], k)
      /\ row \in Snapshots /\ \A k \in Keys : Below(row[k], k)
  BY DEF FeedInv, FeedTypeOK, Dated, AlertDated
<1>2. CASE UNCHANGED targetVars
  BY <1>1, <1>2 DEF targetVars, Pending, Known
<1>3. CASE pending' = [k \in Keys |-> 0] /\ fresh' = {}
  BY <1>3
<1>4. CASE pending' = Rebuilt /\ fresh' = {}
  BY <1>1, <1>4 DEF Rebuilt, Snapshots, Facts, Below, Known
<1>5. ASSUME NEW done \in SUBSET Keys, pending' = Left(done), fresh' = fresh \ done
      PROVE  /\ pending' \in [Keys -> 0 .. MaxAt] /\ fresh' \subseteq Pending'
             /\ (\A k \in Keys : pending[k] > 0 => Known(pending[k], k))'
  BY <1>1, <1>5 DEF Left, Pending, Known
<1>6. CASE alert' \in Alerts /\ Known(alert'.at, alert'.key) /\ Register(alert'.key, alert'.at)
  <2> DEFINE k == alert'.key
             at == alert'.at
  <2>1. k \in Keys /\ at \in 1 .. MaxAt
    BY <1>6 DEF Alerts
  <2>2. pending' = [pending EXCEPT ![k] = IF at > @ THEN at ELSE @]
    BY <1>6 DEF Register
  <2>3. fresh' \subseteq fresh
    BY <1>6 DEF Register
  <2> QED BY <1>1, <1>6, <2>1, <2>2, <2>3 DEF Pending, Known
<1> QED BY <1>2, <1>3, <1>4, <1>5, <1>6

\* What is left of the invariant where the worker does not ask: a row it writes is known.
LEMMA RestsHold ==
    ASSUME FeedInv, UNCHANGED <<venueVars, pollVars>>,
           row' = row \/ (row' \in Snapshots /\ \A k \in Keys : Below(row'[k], k)),
           base' \in {base, row, Nothing}, reply' \in {reply, NoFact}, kept' \in {kept, Nothing},
           pending' \in [Keys -> 0 .. MaxAt] /\ fresh' \subseteq Pending',
           (\A k \in Keys : pending[k] > 0 => Known(pending[k], k))',
           socket' \in Seq(Alerts), Len(socket') <= MaxSocket, skipped' \in BOOLEAN,
           (\A n \in 1 .. Len(socket) : Known(socket[n].at, socket[n].key))',
           work' \in {"down", "idle", "backfill", "gap", "filled", "build", "built", "degrade"},
           back' \in {"idle", "gap", "filled"}, alert' \in Alerts \cup {NoFact},
           backfilled' \in BOOLEAN, made' \in Facts \cup {NoFact},
           alert' # NoFact => Known(alert'.at, alert'.key),
           InHand'
    PROVE  FeedInv'
<1> USE DEF FeedInv, venueVars, pollVars
<1>1. /\ base' \in Snapshots /\ \A k \in Keys : Below(base'[k], k)
      /\ kept' \in Snapshots /\ \A k \in Keys : Below(kept'[k], k)
      /\ row' \in Snapshots /\ \A k \in Keys : Below(row'[k], k)
  BY DEF Dated, AskDated, FeedTypeOK, Nothing, Snapshots, Below
<1>2. FeedTypeOK'
  BY <1>1 DEF FeedTypeOK
<1>3. Dated'
  BY <1>1 DEF Dated, PollDated, AskDated, AlertDated, AnswerFits, Below, Known
<1> QED BY <1>2, <1>3 DEF Window, KeptHolds

LEMMA ResolvedTyped == ASSUME NEW facts PROVE Resolved(facts) \in SUBSET Keys
BY DEF Resolved, Pending

\* Steps that come before, between and after alerts.
LEMMA IdleHolds ==
    ASSUME FeedInv, Start \/ Complete \/ Take \/ Filled \/ Build \/ Reconnect \/ Degrade
    PROVE  FeedInv'
<1> USE DEF FeedInv
<1>1. FeedTypeOK /\ AlertDated /\ InHand
  BY DEF Dated
<1>2. CASE Start
  <2> USE DEF Start, venueVars, alertVars, askVars, pollVars
  <2>1. /\ pending' \in [Keys -> 0 .. MaxAt] /\ fresh' \subseteq Pending'
        /\ (\A k \in Keys : pending[k] > 0 => Known(pending[k], k))'
    BY <1>2, TargetsHold
  <2>2. socket' \in Seq(Alerts) /\ Len(socket') <= MaxSocket /\ socket' = << >>
    BY <1>2, SignalFeedAssumption
  <2>3. InHand'
    BY <1>1, <1>2 DEF InHand
  <2>4. alert' # NoFact => Known(alert'.at, alert'.key)
    BY <1>1, <1>2 DEF AlertDated
  <2>5. (\A n \in 1 .. Len(socket) : Known(socket[n].at, socket[n].key))'
    BY <2>2
  <2> QED BY <1>1, <1>2, <2>1, <2>2, <2>3, <2>4, <2>5, RestsHold DEF FeedTypeOK
<1>3. CASE Complete \/ Degrade
  <2> USE DEF Complete, Degrade, venueVars, alertVars, askVars, socketVars
  <2>1. /\ pending' \in [Keys -> 0 .. MaxAt] /\ fresh' \subseteq Pending'
        /\ (\A k \in Keys : pending[k] > 0 => Known(pending[k], k))'
    BY <1>3, TargetsHold
  <2>2. (\A n \in 1 .. Len(socket) : Known(socket[n].at, socket[n].key))'
    BY <1>1, <1>3 DEF AlertDated, Known
  <2>3. InHand'
    BY <1>1, <1>3 DEF InHand
  <2>4. alert' # NoFact => Known(alert'.at, alert'.key)
    BY <1>1, <1>3 DEF AlertDated
  <2> QED BY <1>1, <1>3, <2>1, <2>2, <2>3, <2>4, RestsHold DEF FeedTypeOK
<1>4. CASE Take
  <2> USE DEF Take, venueVars, askVars, socketVars
  <2>1. /\ socket' \in Seq(Alerts) /\ Len(socket') <= MaxSocket
        /\ \A n \in 1 .. Len(socket') : n + 1 \in 1 .. Len(socket) /\ socket'[n] = socket[n + 1]
    BY <1>1, <1>4, TailIs DEF FeedTypeOK
  <2>2. (\A n \in 1 .. Len(socket) : Known(socket[n].at, socket[n].key))'
    BY <1>1, <1>4, <2>1 DEF AlertDated, Known
  <2>3. alert' = socket[1] /\ alert' \in Alerts /\ Known(alert'.at, alert'.key)
    <3>1. Len(socket) \in Nat /\ Len(socket) > 0 /\ Head(socket) = socket[1]
      BY <1>1, <1>4 DEF FeedTypeOK
    <3> QED BY <1>1, <1>4, <3>1 DEF AlertDated, FeedTypeOK
  <2>4. \/ Register(alert'.key, alert'.at)
        \/ UNCHANGED targetVars
    BY <1>4 DEF targetVars
  <2>5. /\ pending' \in [Keys -> 0 .. MaxAt] /\ fresh' \subseteq Pending'
        /\ (\A k \in Keys : pending[k] > 0 => Known(pending[k], k))'
    BY <1>4, <2>3, <2>4, TargetsHold
  <2>6. InHand'
    BY <1>4, <2>3 DEF InHand
  <2> QED BY <1>1, <1>4, <2>1, <2>2, <2>3, <2>5, <2>6, RestsHold DEF FeedTypeOK
<1>5. CASE Filled
  <2> USE DEF Filled, venueVars, askVars, socketVars
  <2>1. /\ pending' \in [Keys -> 0 .. MaxAt] /\ fresh' \subseteq Pending'
        /\ (\A k \in Keys : pending[k] > 0 => Known(pending[k], k))'
    BY <1>5, TargetsHold
  <2>2. (\A n \in 1 .. Len(socket) : Known(socket[n].at, socket[n].key))'
    BY <1>1, <1>5 DEF AlertDated, Known
  <2>3. InHand'
    BY <1>5 DEF InHand
  <2> QED BY <1>1, <1>5, <2>1, <2>2, <2>3, RestsHold DEF FeedTypeOK
<1>6. CASE Build
  <2> USE DEF Build, venueVars, askVars, socketVars
  <2>1. alert \in Alerts /\ Known(alert.at, alert.key) /\ alert' = alert
    <3>1. alert \in Alerts
      BY <1>1, <1>6 DEF InHand
    <3> QED BY <1>1, <1>6, <3>1, SignalFeedAssumption DEF AlertDated
  <2>2. \/ Register(alert'.key, alert'.at)
        \/ UNCHANGED targetVars
    BY <1>6, <2>1
  <2>3. /\ pending' \in [Keys -> 0 .. MaxAt] /\ fresh' \subseteq Pending'
        /\ (\A k \in Keys : pending[k] > 0 => Known(pending[k], k))'
    BY <1>6, <2>1, <2>2, TargetsHold
  <2>4. (\A n \in 1 .. Len(socket) : Known(socket[n].at, socket[n].key))'
    BY <1>1, <1>6 DEF AlertDated, Known
  <2>5. made' \in Facts /\ made'.at = alert.at
    BY <1>6, <2>1 DEF Made, Alerts, Facts
  <2>6. alert.short /\ made'.st # "INCOMPLETE" =>
            row[alert.key] # NoFact /\ row[alert.key].st = "READY"
    BY <1>6, <2>1 DEF Made, Completes
  <2>7. InHand'
    BY <1>6, <2>1, <2>5, <2>6 DEF InHand
  <2> QED BY <1>1, <1>6, <2>1, <2>3, <2>4, <2>5, <2>7, RestsHold DEF FeedTypeOK
<1>7. CASE Reconnect
  <2> USE DEF Reconnect, venueVars
  <2>1. /\ pending' \in [Keys -> 0 .. MaxAt] /\ fresh' \subseteq Pending'
        /\ (\A k \in Keys : pending[k] > 0 => Known(pending[k], k))'
    BY <1>7, TargetsHold
  <2>2. socket' \in Seq(Alerts) /\ Len(socket') <= MaxSocket /\ socket' = << >>
    BY <1>7, SignalFeedAssumption
  <2>3. (\A n \in 1 .. Len(socket) : Known(socket[n].at, socket[n].key))'
    BY <2>2
  <2>4. InHand'
    BY <1>1, <1>7 DEF InHand
  <2> QED BY <1>1, <1>7, <2>1, <2>2, <2>3, <2>4, RestsHold DEF FeedTypeOK
<1> QED BY <1>2, <1>3, <1>4, <1>5, <1>6, <1>7

\* The process ends: nothing is left of the worker and of the poll.
LEMMA CrashHolds == ASSUME FeedInv, FeedCrash PROVE FeedInv'
<1> USE DEF FeedInv, FeedCrash, venueVars
<1>1. Nothing \in Snapshots /\ \A k \in Keys : Below(Nothing[k], k)
  BY DEF Nothing, Snapshots, Below
<1>2. pending' \in [Keys -> 0 .. MaxAt] /\ \A k \in Keys : pending'[k] = 0
  BY MaxAtIsNat
<1>3. socket' \in Seq(Alerts) /\ Len(socket') <= MaxSocket /\ socket' = << >>
  BY SignalFeedAssumption
<1>4. FeedTypeOK'
  BY <1>1, <1>2, <1>3 DEF FeedTypeOK
<1>5. Dated'
  BY <1>1, <1>2, <1>3 DEF Dated, PollDated, AskDated, AlertDated, Below, Known
<1> QED BY <1>4, <1>5 DEF InHand, Window, KeptHolds

\* What is left of it where the worker asks: the row stays as it is.
LEMMA AskingHold ==
    ASSUME FeedInv, UNCHANGED <<venueVars, socketVars, row, pollVars, alert, made>>,
           work' \in {"asked", "answered", "kept"}, back' \in {"idle", "gap", "filled"},
           back' # "idle" => alert \in Alerts,
           backfilled' \in BOOLEAN,
           base' \in {base, row}, reply' \in {reply, server},
           kept' \in Snapshots /\ \A k \in Keys : Below(kept'[k], k),
           work' \in {"answered", "kept"} => AnswerFits(reply', base'),
           pending' \in [Keys -> 0 .. MaxAt] /\ fresh' \subseteq Pending',
           (\A k \in Keys : pending[k] > 0 => Known(pending[k], k))',
           Window' /\ KeptHolds'
    PROVE  FeedInv'
<1> USE DEF FeedInv, venueVars, socketVars, pollVars
<1>1. base' \in Snapshots /\ \A k \in Keys : Below(base'[k], k)
  BY DEF Dated, AskDated, FeedTypeOK
<1>2. FeedTypeOK'
  BY <1>1 DEF FeedTypeOK, Answers
<1>3. Dated'
  BY <1>1 DEF Dated, PollDated, AskDated, AlertDated, AnswerFits, Below, Known
<1> QED BY <1>2, <1>3 DEF InHand

LEMMA AsksHold == ASSUME FeedInv, Reconcile \/ Answer \/ Keep PROVE FeedInv'
<1> USE DEF FeedInv, alertVars
<1>1. FeedTypeOK /\ AlertDated /\ AskDated /\ InHand /\ \A k \in Keys : Below(row[k], k)
  BY DEF Dated
<1>2. \A k \in Keys : row[k] \in Facts \cup {NoFact} /\ base[k] \in Facts \cup {NoFact}
  BY <1>1 DEF FeedTypeOK, Snapshots
<1>3. CASE Reconcile
  <2> USE DEF Reconcile
  <2>1. /\ pending' \in [Keys -> 0 .. MaxAt] /\ fresh' \subseteq Pending'
        /\ (\A k \in Keys : pending[k] > 0 => Known(pending[k], k))'
    BY <1>3, TargetsHold DEF venueVars
  <2>2. Window' /\ KeptHolds'
    BY <1>3 DEF Window, KeptHolds
  <2> QED BY <1>1, <1>3, <2>1, <2>2, AskingHold DEF askVars, AskDated, FeedTypeOK
<1>4. CASE Answer
  <2> USE DEF Answer
  <2>1. AnswerFits(server, base)
    <3>1. /\ server \in Answers
          /\ \A k \in Keys : server[k] # NoFact => server[k].at \in Nat /\ server[k].at % 2 = 1
      BY MaxAtIsNat DEF FeedTypeOK, Answers, Listed, Dated
    <3> QED BY <1>1, <3>1 DEF AskDated, AnswerFits, Below, Known
  <2>2. pending' \in [Keys -> 0 .. MaxAt] /\ fresh' \subseteq Pending'
    BY <1>1, <1>4 DEF FeedTypeOK, Answered, Pending
  <2>3. (\A k \in Keys : pending[k] > 0 => Known(pending[k], k))'
    BY <1>1, <1>4 DEF AlertDated, Known, venueVars
  <2>4. Window' /\ KeptHolds'
    BY <1>4 DEF Window, KeptHolds, PollUpToDate, KeptFromRow, pollVars
  <2> QED BY <1>1, <1>4, <2>1, <2>2, <2>3, <2>4, AskingHold DEF AskDated, FeedTypeOK, InHand
<1>5. CASE Keep
  <2> USE DEF Keep
  <2>1. \A k \in Keys : KeptTargets[k] \in Facts \cup {NoFact} /\ Below(KeptTargets[k], k)
    <3> SUFFICES ASSUME NEW k \in Keys
                 PROVE  KeptTargets[k] \in Facts \cup {NoFact} /\ Below(KeptTargets[k], k)
      OBVIOUS
    <3> DEFINE f == [at |-> pending[k], st |-> "INCOMPLETE"]
    <3>1. KeptTargets[k] \in {NoFact, row[k]} \/ (pending[k] > 0 /\ KeptTargets[k] = f)
      BY <1>1 DEF KeptTargets, FeedTypeOK
    <3>2. pending[k] > 0 => f \in Facts /\ Below(f, k)
      BY <1>1, MaxAtIsNat DEF FeedTypeOK, Facts, AlertDated, Below
    <3> QED BY <1>1, <1>2, <3>1, <3>2 DEF Below
  <2>2. KeptTargets \in Snapshots
    BY <2>1 DEF KeptTargets, Snapshots
  <2>3. /\ pending' \in [Keys -> 0 .. MaxAt] /\ fresh' \subseteq Pending'
        /\ (\A k \in Keys : pending[k] > 0 => Known(pending[k], k))'
    BY <1>5, TargetsHold DEF venueVars
  <2>4. KeptHolds'
    <3> SUFFICES ASSUME NEW k \in Keys, pending[k] > 0
                 PROVE  /\ KeptTargets[k] # NoFact
                        /\ \/ base[k] \in {KeptTargets[k], NoFact}
                           \/ /\ PollUpToDate(k)
                              /\ Waits(row[k]) => KeptTargets[k] = row[k]
      BY <1>5 DEF KeptHolds, PollUpToDate, KeptFromRow, Waits, targetVars, pollVars
    <3>1. row[k] # NoFact => KeptTargets[k] = row[k]
      BY <1>1 DEF KeptTargets, FeedTypeOK
    <3>2. row[k] = NoFact => KeptTargets[k] = [at |-> pending[k], st |-> "INCOMPLETE"]
      BY <1>1 DEF KeptTargets, FeedTypeOK
    <3>3. row[k] = NoFact => KeptTargets[k] \in Facts
      BY <1>1, <3>2, MaxAtIsNat DEF Facts, FeedTypeOK
    <3>4. KeptTargets[k] # NoFact
      BY <3>1, <3>3, SignalFeedAssumption
    <3>5. row[k] = base[k] \/ PollUpToDate(k)
      BY <1>5 DEF Window
    <3> QED BY <3>1, <3>4, <3>5 DEF Waits
  <2>5. Window'
    BY <1>5 DEF Window
  <2> QED BY <1>1, <1>5, <2>1, <2>2, <2>3, <2>4, <2>5, AskingHold DEF AskDated, FeedTypeOK, InHand
<1> QED BY <1>3, <1>4, <1>5

LEMMA BackfillHolds == ASSUME FeedInv, Backfill PROVE FeedInv'
<1> USE DEF FeedInv, Backfill
<1>1. FeedTypeOK /\ AlertDated /\ AskDated /\ InHand /\ \A k \in Keys : Below(row[k], k)
  BY DEF Dated
<1>2. /\ pending' \in [Keys -> 0 .. MaxAt] /\ fresh' \subseteq Pending'
      /\ (\A k \in Keys : pending[k] > 0 => Known(pending[k], k))'
  BY ResolvedTyped, TargetsHold DEF venueVars
<1>3. /\ UNCHANGED <<venueVars, socketVars, row, pollVars, back, reply, kept, alert, made>>
      /\ work = "backfill" /\ (back # "idle" => alert \in Alerts)
  BY <1>1 DEF InHand
<1>4. CASE work' = back /\ backfilled' = (back = "gap") /\ UNCHANGED base
  <2>1. (\A n \in 1 .. Len(socket) : Known(socket[n].at, socket[n].key))'
    BY <1>1, <1>3 DEF AlertDated, Known, venueVars, socketVars
  <2>2. InHand'
    BY <1>1, <1>3, <1>4 DEF InHand, FeedTypeOK
  <2> QED BY <1>1, <1>2, <1>3, <1>4, <2>1, <2>2, RestsHold
          DEF FeedTypeOK, AlertDated, socketVars
<1>5. CASE work' = "asked" /\ base' = row /\ UNCHANGED backfilled
  <2>1. Window' /\ KeptHolds'
    BY <1>3, <1>5 DEF Window, KeptHolds
  <2> QED BY <1>1, <1>2, <1>3, <1>5, <2>1, AskingHold DEF AskDated, FeedTypeOK
<1> QED BY <1>4, <1>5

LEMMA BackfillFailsHolds == ASSUME FeedInv, BackfillFails PROVE FeedInv'
<1> USE DEF FeedInv, BackfillFails, venueVars, socketVars
<1>1. FeedTypeOK /\ AlertDated /\ InHand
  BY DEF Dated
<1>2. /\ pending' \in [Keys -> 0 .. MaxAt] /\ fresh' \subseteq Pending'
      /\ (\A k \in Keys : pending[k] > 0 => Known(pending[k], k))'
  BY TargetsHold
<1>3. (\A n \in 1 .. Len(socket) : Known(socket[n].at, socket[n].key))'
  BY <1>1 DEF AlertDated, Known
<1>4. InHand'
  BY <1>1 DEF InHand, FeedTypeOK
<1> QED BY <1>1, <1>2, <1>3, <1>4, RestsHold DEF FeedTypeOK, AlertDated

LEMMA RecordsHold == ASSUME FeedInv, Record \/ RecordAlert \/ RecordDegraded PROVE FeedInv'
<1> USE DEF FeedInv, venueVars, socketVars
<1>1. /\ FeedTypeOK /\ AlertDated /\ AskDated /\ InHand
      /\ row \in Snapshots /\ base \in Snapshots /\ \A k \in Keys : Below(row[k], k)
  BY DEF Dated, FeedTypeOK
<1>2. \A k \in Keys : base[k] \in Facts \cup {NoFact} /\ Below(base[k], k)
  BY <1>1 DEF Snapshots, AskDated
<1>3. ASSUME UNCHANGED <<venueVars, socketVars>>
      PROVE  (\A n \in 1 .. Len(socket) : Known(socket[n].at, socket[n].key))'
  BY <1>1, <1>3 DEF AlertDated, Known
<1>4. CASE Record
  <2> USE DEF Record
  <2> DEFINE feed == WithWaiting(reply, kept)
  <2>1. row' \in Snapshots /\ \A k \in Keys : Below(row'[k], k)
    <3>1. AnswerFits(reply, base) /\ kept \in Snapshots /\ \A k \in Keys : Below(kept[k], k)
      BY <1>1, <1>4 DEF AskDated, FeedTypeOK
    <3> QED BY <1>1, <1>4, <3>1, RecordedHolds
  <2>2. /\ pending' \in [Keys -> 0 .. MaxAt] /\ fresh' \subseteq Pending'
        /\ (\A k \in Keys : pending[k] > 0 => Known(pending[k], k))'
    BY <1>4, ResolvedTyped, TargetsHold
  <2>3. /\ work = "kept" /\ work' \in {back, "build"} /\ (work' = "build" => back = "filled")
        /\ backfilled' \in BOOLEAN
        /\ UNCHANGED <<venueVars, socketVars, pollVars, back, alert, made>>
        /\ base' = Nothing /\ reply' = NoFact /\ kept' = Nothing
    BY <1>1, <1>4 DEF FeedTypeOK
  <2>4. InHand'
    BY <1>1, <2>3 DEF InHand, FeedTypeOK
  <2> QED BY <1>1, <1>3, <2>1, <2>2, <2>3, <2>4, RestsHold DEF FeedTypeOK, AlertDated
<1>5. ASSUME NEW new \in Snapshots, \A k \in Keys : Below(new[k], k), row' = Applied(base, new)
      PROVE  row' \in Snapshots /\ \A k \in Keys : Below(row'[k], k)
  BY <1>1, <1>5, AppliedIs DEF Below
<1>6. CASE RecordAlert
  <2> USE DEF RecordAlert
  <2> DEFINE new == [base EXCEPT ![alert.key] = made]
  <2>1. alert \in Alerts /\ made \in Facts /\ made.at = alert.at /\ Known(alert.at, alert.key)
    BY <1>1, <1>6, SignalFeedAssumption DEF InHand, AlertDated
  <2>2. new \in Snapshots /\ \A k \in Keys : Below(new[k], k)
    BY <1>1, <1>2, <2>1 DEF Snapshots, Below
  <2>3. row' \in Snapshots /\ \A k \in Keys : Below(row'[k], k)
    BY <1>5, <1>6, <2>2
  <2>4. /\ pending' \in [Keys -> 0 .. MaxAt] /\ fresh' \subseteq Pending'
        /\ (\A k \in Keys : pending[k] > 0 => Known(pending[k], k))'
    BY <1>6, TargetsHold DEF targetVars
  <2>5. InHand'
    BY <1>6 DEF InHand
  <2> QED BY <1>1, <1>3, <1>6, <2>3, <2>4, <2>5, RestsHold DEF FeedTypeOK
<1>7. CASE RecordDegraded
  <2> USE DEF RecordDegraded, alertVars
  <2>1. Degraded(base) \in Snapshots /\ \A k \in Keys : Below(Degraded(base)[k], k)
    BY <1>1, <1>2 DEF Degraded, Snapshots, Facts, Below
  <2>2. row' \in Snapshots /\ \A k \in Keys : Below(row'[k], k)
    <3>1. CASE row' = Applied(base, Degraded(base))
      BY <1>5, <2>1, <3>1
    <3>2. CASE UNCHANGED row
      BY <1>1, <3>2 DEF Below, Known
    <3> QED BY <1>7, <3>1, <3>2
  <2>3. /\ pending' \in [Keys -> 0 .. MaxAt] /\ fresh' \subseteq Pending'
        /\ (\A k \in Keys : pending[k] > 0 => Known(pending[k], k))'
    BY <1>7, TargetsHold
  <2>4. InHand'
    BY <1>1, <1>7 DEF InHand
  <2> QED BY <1>1, <1>3, <1>7, <2>2, <2>3, <2>4, RestsHold DEF FeedTypeOK, AlertDated
<1> QED BY <1>4, <1>6, <1>7

LEMMA FeedInvHolds == FeedInv /\ [FeedNext]_feedVars => FeedInv'
<1> SUFFICES ASSUME FeedInv, [FeedNext]_feedVars PROVE FeedInv'
  OBVIOUS
<1>1. CASE Venue
  BY <1>1, VenueHolds
<1>2. CASE Poller
  BY <1>2, PollerHolds
<1>3. CASE Worker
  BY <1>3, IdleHolds, CrashHolds, AsksHold, BackfillHolds, BackfillFailsHolds, RecordsHold
     DEF Worker
<1>4. CASE UNCHANGED feedVars
  <2> USE DEF feedVars, venueVars, socketVars, pollVars, workVars, askVars, alertVars, targetVars
  <2>1. FeedTypeOK'
    BY <1>4 DEF FeedInv, FeedTypeOK, Pending
  <2>2. Dated'
    BY <1>4 DEF FeedInv, Dated, PollDated, AskDated, AlertDated, AnswerFits, Below, Known
  <2>3. InHand' /\ Window' /\ KeptHolds'
    BY <1>4 DEF FeedInv, InHand, Window, KeptHolds, PollUpToDate, KeptFromRow, Waits
  <2> QED BY <2>1, <2>2, <2>3 DEF FeedInv
<1> QED BY <1>1, <1>2, <1>3, <1>4 DEF FeedNext

\* Whatever the venue, the poller and the worker do, every fact, answer, target and message of
\* the feed has its type, and no more messages are under way than the socket holds.
THEOREM FeedTypesHold == FeedSpec => []FeedTypeOK
<1>1. FeedInv => FeedTypeOK
  BY DEF FeedInv
<1> QED BY <1>1, FeedInitHolds, FeedInvHolds, PTL DEF FeedSpec

-----------------------------------------------------------------------------
(***************************************************************************)
(* What a recorded change keeps                                            *)
(***************************************************************************)

\* The poller: what waits and was kept is in what it records; what came meanwhile is not what
\* it read; and of a key it read and now has no fact of, the venue has none any more.
LEMMA PollKeepsAlerts ==
    ASSUME FeedInv, PollRecord, NEW k \in Keys, Waits(row[k]),
           row[k] = pollKept[k] \/ row[k] # pollBase[k], k \notin aged \cup dropped
    PROVE  Waits(row'[k]) \/ Completes(row'[k], row[k].at)
<1> DEFINE new == WithWaiting(pollAnswer, pollKept)[k]
<1>1. /\ AnswerFits(pollAnswer, pollBase) /\ pollAnswer \in Answers
      /\ row \in Snapshots /\ pollBase \in Snapshots /\ pollKept \in Snapshots
  BY DEF FeedInv, FeedTypeOK, Dated, PollDated, PollRecord, AnswerFits
<1>2. row'[k] = Merge(pollBase[k], row[k], new)
  BY <1>1, WaitingIs, AppliedIs DEF PollRecord
<1>3. \/ new = pollAnswer[k] /\ (pollKept[k] = NoFact \/ Completes(pollAnswer[k], pollKept[k].at))
      \/ Waits(new)
  BY <1>1, WaitingIs DEF Waited
<1>4. new = pollBase[k] \/ new # NoFact
  BY <1>1, <1>3 DEF AnswerFits, Completes, Waits
<1>5. row[k] = pollBase[k] => Waits(new) \/ Completes(new, row[k].at)
  BY <1>3 DEF Waits
<1> HIDE DEF new
<1> QED BY <1>2, <1>4, <1>5, MergeKeepsWaiting

\* The worker's answer: a target is in what it has kept.  Of what its answer completes only a
\* time after the last update could be later, which is even and was kept.
LEMMA RecordKeepsAlerts ==
    ASSUME FeedInv, Record, NEW k \in Keys, Waits(row[k]), pending[k] > 0,
           k \notin aged \cup dropped
    PROVE  Waits(row'[k]) \/ Completes(row'[k], row[k].at)
<1> DEFINE new == WithWaiting(reply, kept)[k]
<1>1. /\ AnswerFits(reply, base) /\ reply \in Answers
      /\ row \in Snapshots /\ base \in Snapshots /\ kept \in Snapshots
  BY DEF FeedInv, FeedTypeOK, Dated, AskDated, Record, AnswerFits
<1>2. row'[k] = Merge(base[k], row[k], new)
  BY <1>1, WaitingIs, AppliedIs DEF Record
<1>3. /\ kept[k] # NoFact
      /\ \/ base[k] \in {kept[k], NoFact}
         \/ row[k].at % 2 = 0 => kept[k] = row[k]
  BY DEF FeedInv, KeptHolds, Record
<1>4. (new = reply[k] /\ Completes(reply[k], kept[k].at)) \/ Waits(new)
  BY <1>1, <1>3, WaitingIs DEF Waited
<1>5. new # NoFact
  BY <1>4 DEF Completes, Waits
<1>6. ASSUME row[k] = base[k], new = reply[k], Completes(reply[k], kept[k].at)
      PROVE  Completes(new, row[k].at)
  <2>1. reply[k] # NoFact /\ reply[k].st = "READY" /\ reply[k].at \in Int /\ reply[k].at % 2 = 1
    BY <1>1, <1>6, MaxAtIsNat DEF AnswerFits, Completes, Answers, Listed
  <2>2. row[k].at \in Int /\ row[k].at <= reply[k].at + 1
    BY <1>1, <1>6, MaxAtIsNat DEF Waits, AnswerFits, Snapshots, Facts
  <2>3. CASE kept[k] = row[k]
    BY <1>6, <2>3
  <2>4. CASE row[k].at % 2 # 0
    BY <1>6, <2>1, <2>2, <2>4 DEF Completes
  <2> QED BY <1>3, <1>6, <2>3, <2>4 DEF Waits
<1> HIDE DEF new
<1> QED BY <1>2, <1>4, <1>5, <1>6, MergeKeepsWaiting

\* A short alert is made whole only of a row that is.
LEMMA AlertKeepsAlerts ==
    ASSUME FeedInv, RecordAlert, NEW k \in Keys, Waits(row[k]), ~WholeAlert(k)
    PROVE  Waits(row'[k]) \/ Completes(row'[k], row[k].at)
<1> DEFINE new == [base EXCEPT ![alert.key] = made][k]
<1>1. /\ row \in Snapshots /\ base \in Snapshots
      /\ alert \in Alerts /\ made \in Facts /\ made # NoFact /\ made.at = alert.at
      /\ alert.short /\ made.st # "INCOMPLETE" =>
            base[alert.key] # NoFact /\ base[alert.key].st = "READY"
  BY SignalFeedAssumption DEF FeedInv, FeedTypeOK, InHand, RecordAlert
<1>2. row'[k] = Merge(base[k], row[k], new)
  <2>1. [base EXCEPT ![alert.key] = made] \in Snapshots
    BY <1>1 DEF Snapshots
  <2> QED BY <1>1, <2>1, AppliedIs DEF RecordAlert
<1>3. CASE k # alert.key
  <2>1. new = base[k]
    BY <1>1, <1>3 DEF Snapshots
  <2> HIDE DEF new
  <2> QED BY <1>2, <2>1, MergeKeepsWaiting
<1>4. CASE k = alert.key
  <2>1. new = made /\ alert.short
    BY <1>1, <1>4 DEF Snapshots, WholeAlert, RecordAlert, Alerts
  <2>2. row[k] = base[k] => Waits(new)
    BY <1>1, <1>4, <2>1 DEF Waits
  <2> HIDE DEF new
  <2> QED BY <1>1, <1>2, <2>1, <2>2, MergeKeepsWaiting
<1> QED BY <1>3, <1>4

LEMMA DegradingKeepsAlerts ==
    ASSUME FeedInv, RecordDegraded, NEW k \in Keys, Waits(row[k])
    PROVE  Waits(row'[k]) \/ Completes(row'[k], row[k].at)
<1> SUFFICES ASSUME row' = Applied(base, Degraded(base))
             PROVE  Waits(row'[k]) \/ Completes(row'[k], row[k].at)
  BY DEF RecordDegraded
<1> DEFINE new == Degraded(base)[k]
<1>1. row \in Snapshots /\ base \in Snapshots /\ Degraded(base) \in Snapshots
  BY DEF FeedInv, FeedTypeOK, Degraded, Snapshots, Facts
<1>2. row'[k] = Merge(base[k], row[k], new)
  BY <1>1, AppliedIs
<1>3. CASE base[k] # NoFact /\ base[k].st = "READY"
  <2>1. base[k] \in Facts /\ new = [base[k] EXCEPT !.st = "DEGRADED"]
    BY <1>1, <1>3 DEF Degraded, Snapshots
  <2>2. new \in Facts /\ new # NoFact
    BY <2>1, SignalFeedAssumption DEF Facts
  <2> HIDE DEF new
  <2> QED BY <1>2, <1>3, <2>2, MergeKeepsWaiting DEF Waits
<1>4. CASE ~(base[k] # NoFact /\ base[k].st = "READY")
  <2>1. new = base[k]
    BY <1>4 DEF Degraded
  <2> HIDE DEF new
  <2> QED BY <1>2, <2>1, MergeKeepsWaiting
<1> QED BY <1>3, <1>4

\* Only four steps write the row.
LEMMA WritersOfTheRow ==
    ASSUME FeedNext, row' # row
    PROVE  \/ PollRecord /\ poll' # poll
           \/ (Record \/ RecordAlert \/ RecordDegraded) /\ poll' = poll
<1>1. CASE Venue
  BY <1>1 DEF Venue, Unlist, Age, Update, SendAlert, Lose
<1>2. CASE Poller
  BY <1>2 DEF Poller, PollBegin, PollAnswer, PollMerge, PollRecord, PollFails
<1>3. CASE Worker
  BY <1>3 DEF Worker, Start, FeedCrash, Reconcile, Complete, Backfill, Answer, Keep, Record,
              BackfillFails, Take, Filled, Build, RecordAlert, Reconnect, Degrade, RecordDegraded,
              pollVars
<1> QED BY <1>1, <1>2, <1>3 DEF FeedNext

LEMMA WritersKeepReady ==
    ASSUME FeedInv, row' # row, NEW k \in Keys,
           \/ PollRecord /\ poll' # poll
           \/ (Record \/ RecordAlert \/ RecordDegraded) /\ poll' = poll
    PROVE  ReadyFactKept(k)
<1>1. row \in Snapshots /\ base \in Snapshots /\ pollBase \in Snapshots
  BY DEF FeedInv, FeedTypeOK
<1>2. ASSUME NEW was \in Snapshots, NEW new \in Snapshots, row' = Applied(was, new),
             Completes(row[k], IF was[k] = NoFact THEN 0 ELSE was[k].at + 1)
      PROVE  row'[k] # NoFact /\ row'[k].at >= row[k].at
  <2>1. /\ row[k] \in Facts \cup {NoFact} /\ was[k] \in Facts \cup {NoFact}
        /\ new[k] \in Facts \cup {NoFact}
    BY <1>1 DEF Snapshots
  <2>2. row'[k] = Merge(was[k], row[k], new[k])
    BY <1>1, <1>2, AppliedIs
  <2> QED BY <1>2, <2>1, <2>2, MergeKeepsReady
<1>3. CASE PollRecord /\ poll' # poll
  <2>1. WithWaiting(pollAnswer, pollKept) \in Snapshots
    BY <1>3, WaitingIs DEF PollRecord, FeedInv, FeedTypeOK, Dated, PollDated, AnswerFits
  <2> QED BY <1>1, <1>2, <1>3, <2>1 DEF PollRecord, ReadyFactKept, ReadByWriter
<1>4. CASE Record /\ poll' = poll
  <2>1. WithWaiting(reply, kept) \in Snapshots
    BY <1>4, WaitingIs DEF Record, FeedInv, FeedTypeOK, Dated, AskDated, AnswerFits
  <2> QED BY <1>1, <1>2, <1>4, <2>1 DEF Record, ReadyFactKept, ReadByWriter
<1>5. CASE RecordAlert /\ poll' = poll
  <2>1. [base EXCEPT ![alert.key] = made] \in Snapshots
    BY <1>1, <1>5 DEF RecordAlert, FeedInv, InHand, Snapshots
  <2> QED BY <1>1, <1>2, <1>5, <2>1 DEF RecordAlert, ReadyFactKept, ReadByWriter
<1>6. CASE RecordDegraded /\ poll' = poll
  <2>1. Degraded(base) \in Snapshots
    BY <1>1 DEF Degraded, Snapshots, Facts
  <2> QED BY <1>1, <1>2, <1>6, <2>1 DEF RecordDegraded, ReadyFactKept, ReadByWriter
<1> QED BY <1>3, <1>4, <1>5, <1>6

LEMMA WritesKeepFacts ==
    ASSUME FeedInv, FeedNext, row' # row, NEW k \in Keys
    PROVE  AlertKept(k) /\ ReadyFactKept(k)
<1>1. \/ PollRecord /\ poll' # poll
      \/ (Record \/ RecordAlert \/ RecordDegraded) /\ poll' = poll
  BY WritersOfTheRow
<1>2. ReadyFactKept(k)
  BY <1>1, WritersKeepReady
<1>3. SUFFICES ASSUME MayNotLose(k)
               PROVE  Waits(row'[k]) \/ Completes(row'[k], row[k].at)
  BY <1>2 DEF AlertKept, Waits
<1>4. Waits(row[k]) /\ k \notin aged \cup dropped
  BY <1>3 DEF MayNotLose, Waits
<1>5. poll' # poll => row[k] = pollKept[k] \/ row[k] # pollBase[k]
  BY <1>3 DEF MayNotLose
<1>6. poll' = poll => pending[k] > 0 /\ ~WholeAlert(k)
  BY <1>3 DEF MayNotLose
<1>7. CASE PollRecord /\ poll' # poll
  BY <1>4, <1>5, <1>7, PollKeepsAlerts
<1>8. CASE (Record \/ RecordAlert \/ RecordDegraded) /\ poll' = poll
  BY <1>4, <1>6, <1>8, RecordKeepsAlerts, AlertKeepsAlerts, DegradingKeepsAlerts
<1> QED BY <1>1, <1>7, <1>8

\* Neither the poller nor the worker undoes what the other recorded while it asked: an alert
\* that waits is completed by newer facts only, and a READY fact gives way to newer ones only.
THEOREM FactsKeptHolds == FeedSpec => FactsKept
<1>1. FeedInv /\ [FeedNext]_feedVars => [\A k \in Keys : AlertKept(k) /\ ReadyFactKept(k)]_row
  BY WritesKeepFacts DEF feedVars
<1>2. FeedSpec => []FeedInv
  BY FeedInitHolds, FeedInvHolds, PTL DEF FeedSpec
<1> QED BY <1>1, <1>2, PTL DEF FeedSpec, FactsKept

-----------------------------------------------------------------------------
(***************************************************************************)
(* Feed and sources side by side.  They share no state, so that each step  *)
(* of the two is a step of one while the other rests.                      *)
(***************************************************************************)
LEMMA SignalsStepsAreTheirs ==
    [SignalsNext]_signalsVars => [FeedNext]_feedVars /\ [SourcesNext]_sourcesVars
BY DEF SignalsNext, FeedStep, SourcesStep, SourcesNext, signalsVars

\* Feed and sources together keep every type.
THEOREM SignalTypesHold == SignalsSpec => []SignalTypesOK
<1>1. SignalsInit => FeedInv /\ SourcesInv
  BY FeedInitHolds, SourcesInitHolds DEF SignalsInit
<1>2. FeedInv /\ SourcesInv => SignalTypesOK
  BY SourcesInvSuffices DEF FeedInv, SignalTypesOK
<1> QED
  BY <1>1, <1>2, SignalsStepsAreTheirs, FeedInvHolds, SourcesInvHolds, PTL DEF SignalsSpec

\* What holds of each alone holds of the two together.
THEOREM SignalsComposed ==
    SignalsSpec => [](PrincipalFollowsSource /\ SignalCountedOnce) /\ FactsKept
<1>1. SignalsInit => FeedInv /\ SourcesInv
  BY FeedInitHolds, SourcesInitHolds DEF SignalsInit
<1>2. FeedInv /\ [FeedNext]_feedVars => [\A k \in Keys : AlertKept(k) /\ ReadyFactKept(k)]_row
  BY WritesKeepFacts DEF feedVars
<1> QED
  BY <1>1, <1>2, SignalsStepsAreTheirs, FeedInvHolds, SourcesInvHolds, SourcesInvSuffices, PTL
     DEF SignalsSpec, FactsKept
================================================================================
