------------------------------- MODULE NewRisk -------------------------------
(***************************************************************************)
(* New risk: authorizations of approved proposals, the intents created     *)
(* under them against the limits of the team, and the switch of the team's *)
(* execution mode.                                                         *)
(*                                                                         *)
(* A call is a command with its idempotency key; sent again, it is         *)
(* answered from its receipt.  People and the proposal automation make the *)
(* same calls, replicas of the automation under the same key.  A call that *)
(* creates an intent reads the mode from an unlocked row, waits for the    *)
(* team's capacity lock, decides, and commits.  A switch reads the team's  *)
(* row before it locks it, and locking does not refresh what was read; it  *)
(* never takes the capacity lock.  What any command commits refers to the  *)
(* team's row, and waits for a switch that holds it.  The switch writes    *)
(* the authorizations before it reads the intents (the session flushes),   *)
(* and writes those intents as it commits.                                 *)
(*                                                                         *)
(* A quantity and its risk are one number: risk_limit is per unit of       *)
(* quantity_limit, and the unit is chosen to be one.  A scope is an        *)
(* account with the one instrument traded there.  Facts, the profit an ADD *)
(* needs and the risk state may refuse a call at any time.                 *)
(***************************************************************************)
EXTENDS Integers, FiniteSets

CONSTANTS
    Calls, ProposalIds, Admins,
    Environment, Scope,  \* of each proposal
    Limits,              \* pairs <<max_total_risk, max_account_risk>> people configure
    MaxQuantity,         \* bound on a quantity
    AllowedAdds,
    MaxTeamVersion,      \* bound on the version of the team
    NoCall

Modes == {"TESTNET", "LIVE"}

ASSUME NewRiskAssumption ==
    /\ IsFiniteSet(Calls) /\ NoCall \notin Calls
    /\ Environment \in [ProposalIds -> Modes]
    /\ Limits \subseteq (Nat \X Nat) /\ MaxQuantity \in Nat /\ AllowedAdds \in Nat
    /\ MaxTeamVersion \in Nat \ {0}

Quantities == 1 .. MaxQuantity
Open == {"OPENING", "OPEN"}       \* campaigns
Unresolved == {"READY", "SENT"}   \* intents

VARIABLES
    op, of,              \* what a call does, and for which proposal
    total, perScope,     \* the limits of the active policy
    mode, teamVersion,   \* the team's row
    bound,               \* the intents whose worker was bound in the right mode
    auth,                \* by the call that issued it
    grant, requested, adds,  \* quantity_limit, used_quantity and used_adds of an authorization
    campaign,            \* of each authorization
    intent, under, size, \* by the call that created it
    risk,                \* the amount its reservation occupies
    pc, lock,            \* of each call, and who holds the capacity lock
    switch, sawMode, sawVersion,  \* of each administrator
    gone, found          \* the authorizations and intents it invalidates

callVars == <<op, of>>
policyVars == <<total, perScope>>
teamVars == <<mode, teamVersion, bound>>
authVars == <<auth, grant, requested, adds>>
intentVars == <<intent, under, size, risk>>
switchVars == <<switch, sawMode, sawVersion, gone, found>>
riskVars == <<callVars, policyVars, teamVars, authVars, campaign, intentVars, pc, lock, switchVars>>

RiskInit ==
    /\ op \in [Calls -> {"ISSUE", "INITIAL", "ADD"}] /\ of \in [Calls -> ProposalIds]
    /\ \E limits \in Limits : total = limits[1] /\ perScope = limits[2]
    /\ mode \in Modes /\ teamVersion = 1 /\ bound = {}
    /\ auth = [c \in Calls |-> "NONE"] /\ grant = [c \in Calls |-> 0]
    /\ requested = [c \in Calls |-> 0] /\ adds = [c \in Calls |-> 0]
    /\ campaign = [c \in Calls |-> "NONE"]
    /\ intent = [c \in Calls |-> "NONE"] /\ under = [c \in Calls |-> NoCall]
    /\ size = [c \in Calls |-> 0] /\ risk = [c \in Calls |-> 0]
    /\ pc = [c \in Calls |-> "idle"] /\ lock = NoCall
    /\ switch = [s \in Admins |-> "idle"]
    /\ sawMode = [s \in Admins |-> "LIVE"] /\ sawVersion = [s \in Admins |-> 0]
    /\ gone = [s \in Admins |-> {}] /\ found = [s \in Admins |-> {}]

-----------------------------------------------------------------------------
\* The units that amounts of calls come to, one by one; a sum is the number of them.
Units(amount, calls) == {u \in calls \X Quantities : u[2] <= amount[u[1]]}

Occupied(calls) == Cardinality(Units(risk, calls))
InScope(p) == {i \in Calls : Scope[of[i]] = Scope[p]}

\* The row locks of a call that holds the capacity lock, and of a switch.
ReservationsHeld == \E c \in Calls : pc[c] = "locked"
HeldToCreate(a) == \E c \in Calls : pc[c] = "locked" /\ under[c] = a
HeldToSwitch(a) == \E s \in Admins : a \in gone[s]

\* Fault: a switch does not lock the team's row.
NotLocked == TRUE
TeamFree == \A s \in Admins : switch[s] \in {"idle", "begun"}

ConfigurePolicy(limits) ==
    /\ lock = NoCall /\ TeamFree /\ limits \in Limits
    /\ total' = limits[1] /\ perScope' = limits[2]
    /\ auth' = [a \in Calls |-> IF auth[a] = "ACTIVE" THEN "INACTIVE" ELSE auth[a]]
    /\ UNCHANGED <<callVars, teamVars, grant, requested, adds, campaign, intentVars, pc, lock,
                   switchVars>>

\* The latest decision was made under these limits, against the risk occupied then.
Decided(q) == q <= total /\ q <= perScope

\* Once for a proposal; the team's mode is not looked at.
Issue(a, q) ==
    /\ op[a] = "ISSUE" /\ pc[a] = "idle" /\ lock = NoCall /\ TeamFree
    /\ \A b \in Calls : auth[b] # "NONE" => of[b] # of[a]
    /\ Decided(q)
    /\ auth' = [auth EXCEPT ![a] = "ACTIVE"] /\ grant' = [grant EXCEPT ![a] = q]
    /\ pc' = [pc EXCEPT ![a] = "done"]
    /\ UNCHANGED <<callVars, policyVars, teamVars, requested, adds, campaign, intentVars, lock,
                   switchVars>>

Enter(c, a) ==
    /\ op[c] \in {"INITIAL", "ADD"} /\ pc[c] = "idle"
    /\ auth[a] # "NONE" /\ of[a] = of[c]
    /\ mode = Environment[of[c]]
    /\ under' = [under EXCEPT ![c] = a] /\ pc' = [pc EXCEPT ![c] = "entered"]
    /\ UNCHANGED <<callVars, policyVars, teamVars, authVars, campaign, intent, size, risk, lock,
                   switchVars>>

\* Fault: a creator does not wait for another.
NoWait == TRUE
CapacityFree == lock = NoCall

\* Fault: an initial intent that was released may be made again.
FirstStanding(c, a) ==
    \A i \in Calls : op[i] = "INITIAL" /\ intent[i] \in Unresolved \cup {"FILLED"} => of[i] # of[c]
\* Every proposal has one initial intent.
FirstOf(c, a) == \A i \in Calls : op[i] = "INITIAL" /\ intent[i] # "NONE" => of[i] # of[c]

\* The position is flat, and no other campaign of the scope is unclosed.
ScopeIsFree(a) ==
    \A b \in Calls : campaign[b] \in Open =>
        \/ Scope[of[b]] # Scope[of[a]]
        \/ b = a /\ campaign[b] = "OPENING"

\* Fault: an intent of the campaign may be unresolved.
AnyResolved(a) == TRUE
AllResolved(a) == \A i \in Calls : under[i] = a => intent[i] \notin Unresolved

\* evaluate_risk allows, and the limits are tested once more.
WithinLimits(c, q) ==
    /\ Occupied(Calls) + q <= total
    /\ Occupied(InScope(of[c])) + q <= perScope

MayAdd(a) == campaign[a] = "OPEN" /\ adds[a] < AllowedAdds

MayCreate(c, a, q) ==
    /\ auth[a] = "ACTIVE" /\ requested[a] + q <= grant[a]
    /\ WithinLimits(c, q) /\ AllResolved(a)
    /\ IF op[c] = "INITIAL" THEN FirstOf(c, a) /\ ScopeIsFree(a)
       ELSE MayAdd(a)

\* The capacity lock, then the authorization, the policy, the proposal and the reservations.
Lock(c, q) ==
    /\ pc[c] = "entered" /\ CapacityFree
    /\ ~HeldToSwitch(under[c])
    /\ MayCreate(c, under[c], q)
    /\ pc' = [pc EXCEPT ![c] = "locked"] /\ lock' = c
    /\ size' = [size EXCEPT ![c] = q]
    /\ UNCHANGED <<callVars, policyVars, teamVars, authVars, campaign, intent, under, risk,
                   switchVars>>

CreateIntent(c) ==
    /\ pc[c] = "locked" /\ TeamFree
    /\ LET a == under[c] IN
       /\ campaign' = IF campaign[a] = "NONE" THEN [campaign EXCEPT ![a] = "OPENING"] ELSE campaign
       /\ requested' = [requested EXCEPT ![a] = @ + size[c]]
    /\ intent' = [intent EXCEPT ![c] = "READY"] /\ risk' = [risk EXCEPT ![c] = size[c]]
    /\ pc' = [pc EXCEPT ![c] = "done"] /\ lock' = NoCall
    /\ UNCHANGED <<callVars, policyVars, teamVars, auth, grant, adds, under, size, switchVars>>

\* Refused, or the process stopped: the transaction is rolled back, and the call may be sent again.
Abort(c) ==
    /\ pc[c] \in {"entered", "locked"}
    /\ pc' = [pc EXCEPT ![c] = "idle"] /\ lock' = IF lock = c THEN NoCall ELSE lock
    /\ under' = [under EXCEPT ![c] = NoCall] /\ size' = [size EXCEPT ![c] = 0]
    /\ UNCHANGED <<callVars, policyVars, teamVars, authVars, campaign, intent, risk, switchVars>>

-----------------------------------------------------------------------------
Bind(i) ==
    /\ intent[i] = "READY" /\ mode = Environment[of[i]]
    /\ bound' = bound \cup {i}
    /\ UNCHANGED <<callVars, policyVars, mode, teamVersion, authVars, campaign, intentVars, pc,
                   lock, switchVars>>

\* Only LIVE is looked at again.
Dispatch(i) ==
    /\ intent[i] = "READY" /\ i \in bound /\ TeamFree
    /\ Environment[of[i]] = "LIVE" => mode = "LIVE"
    /\ intent' = [intent EXCEPT ![i] = "SENT"] /\ bound' = bound \ {i}
    /\ UNCHANGED <<callVars, policyVars, mode, teamVersion, authVars, campaign, under, size, risk,
                   pc, lock, switchVars>>

\* consume_add_unit would refuse the fact if no unit were left.
Fill(i) ==
    /\ intent[i] = "SENT" /\ ~ReservationsHeld /\ TeamFree
    /\ op[i] = "ADD" => adds[under[i]] < AllowedAdds
    /\ intent' = [intent EXCEPT ![i] = "FILLED"]
    /\ campaign' = [campaign EXCEPT ![under[i]] = "OPEN"]
    /\ adds' = IF op[i] = "ADD" THEN [adds EXCEPT ![under[i]] = @ + 1] ELSE adds
    /\ UNCHANGED <<callVars, policyVars, teamVars, auth, grant, requested, under, size, risk, pc,
                   lock, switchVars>>

Releasable == Unresolved

\* Unfilled and ended; if an initial entry's scope is known to be flat, its campaign is closed.
Release(i, flat) ==
    /\ intent[i] \in Releasable /\ ~ReservationsHeld /\ TeamFree
    /\ requested[under[i]] >= size[i]
    /\ intent' = [intent EXCEPT ![i] = "CANCELLED"] /\ risk' = [risk EXCEPT ![i] = 0]
    /\ requested' = [requested EXCEPT ![under[i]] = @ - size[i]]
    /\ campaign' = IF flat /\ op[i] = "INITIAL" THEN [campaign EXCEPT ![under[i]] = "CLOSED"]
                   ELSE campaign
    /\ UNCHANGED <<callVars, policyVars, teamVars, auth, grant, adds, under, size, pc, lock,
                   switchVars>>

Close(a) ==
    /\ campaign[a] = "OPEN" /\ AllResolved(a) /\ ~ReservationsHeld /\ TeamFree
    /\ campaign' = [campaign EXCEPT ![a] = "CLOSED"]
    /\ risk' = [i \in Calls |-> IF under[i] = a THEN 0 ELSE risk[i]]
    /\ UNCHANGED <<callVars, policyVars, teamVars, authVars, intent, under, size, pc, lock,
                   switchVars>>

-----------------------------------------------------------------------------
Blocked(m) ==
    \E i \in Calls :
        /\ Environment[of[i]] = m
        /\ \/ intent[i] \in Unresolved
           \/ campaign[i] = "OPEN"

SwitchBegins(s) ==
    /\ switch[s] = "idle" /\ switch' = [switch EXCEPT ![s] = "begun"]
    /\ sawMode' = [sawMode EXCEPT ![s] = mode]
    /\ sawVersion' = [sawVersion EXCEPT ![s] = teamVersion]
    /\ UNCHANGED <<callVars, policyVars, teamVars, authVars, campaign, intentVars, pc, lock, gone,
                   found>>

\* Holds the team's row from here on.
SwitchChecks(s) ==
    /\ switch[s] = "begun" /\ TeamFree
    /\ switch' = [switch EXCEPT ![s] = IF Blocked(sawMode[s]) THEN "idle" ELSE "checked"]
    /\ UNCHANGED <<callVars, policyVars, teamVars, authVars, campaign, intentVars, pc, lock,
                   sawMode, sawVersion, gone, found>>

Standing(m) == {a \in Calls : auth[a] = "ACTIVE" /\ Environment[of[a]] = m}

SwitchInvalidates(s) ==
    /\ switch[s] = "checked" /\ \A a \in Standing(sawMode[s]) : ~HeldToCreate(a)
    /\ gone' = [gone EXCEPT ![s] = Standing(sawMode[s])]
    /\ switch' = [switch EXCEPT ![s] = "invalidated"]
    /\ UNCHANGED <<callVars, policyVars, teamVars, authVars, campaign, intentVars, pc, lock,
                   sawMode, sawVersion, found>>

SwitchReadsIntents(s) ==
    /\ switch[s] = "invalidated"
    /\ found' = [found EXCEPT ![s] =
                   {i \in Calls : intent[i] = "READY" /\ Environment[of[i]] = sawMode[s]}]
    /\ switch' = [switch EXCEPT ![s] = "read"]
    /\ UNCHANGED <<callVars, policyVars, teamVars, authVars, campaign, intentVars, pc, lock,
                   sawMode, sawVersion, gone>>

\* Reservations and campaigns of the intents stay as they are.
SwitchCommits(s) ==
    /\ switch[s] = "read" /\ sawVersion[s] < MaxTeamVersion
    /\ mode' = CHOOSE m \in Modes : m # sawMode[s]
    /\ teamVersion' = sawVersion[s] + 1
    /\ auth' = [a \in Calls |-> IF a \in gone[s] THEN "INACTIVE" ELSE auth[a]]
    /\ intent' = [i \in Calls |-> IF i \in found[s] THEN "CANCELLED" ELSE intent[i]]
    /\ gone' = [gone EXCEPT ![s] = {}] /\ found' = [found EXCEPT ![s] = {}]
    /\ switch' = [switch EXCEPT ![s] = "idle"]
    /\ UNCHANGED <<callVars, policyVars, bound, grant, requested, adds, campaign, under, size, risk,
                   pc, lock, sawMode, sawVersion>>

\* Refused, stopped, or chosen to break a deadlock with a call that waits for the team's row.
SwitchAborts(s) ==
    /\ switch[s] # "idle" /\ switch' = [switch EXCEPT ![s] = "idle"]
    /\ gone' = [gone EXCEPT ![s] = {}] /\ found' = [found EXCEPT ![s] = {}]
    /\ UNCHANGED <<callVars, policyVars, teamVars, authVars, campaign, intentVars, pc, lock,
                   sawMode, sawVersion>>

RiskNext ==
    \/ \E limits \in Limits : ConfigurePolicy(limits)
    \/ \E c \in Calls :
          \/ \E q \in Quantities : Issue(c, q) \/ Lock(c, q)
          \/ \E a \in Calls : Enter(c, a)
          \/ CreateIntent(c) \/ Abort(c)
          \/ Bind(c) \/ Dispatch(c) \/ Fill(c) \/ Close(c)
          \/ \E flat \in BOOLEAN : Release(c, flat)
    \/ \E s \in Admins : SwitchBegins(s) \/ SwitchChecks(s) \/ SwitchInvalidates(s)
                         \/ SwitchReadsIntents(s) \/ SwitchCommits(s) \/ SwitchAborts(s)

RiskSpec == RiskInit /\ [][RiskNext]_riskVars

-----------------------------------------------------------------------------
\* Every state component has its type, and what a switch invalidates it holds locked.
RiskTypeOK ==
    /\ op \in [Calls -> {"ISSUE", "INITIAL", "ADD"}] /\ of \in [Calls -> ProposalIds]
    /\ <<total, perScope>> \in Limits /\ mode \in Modes /\ teamVersion \in 1 .. MaxTeamVersion
    /\ bound \subseteq Calls
    /\ auth \in [Calls -> {"NONE", "ACTIVE", "INACTIVE"}]
    /\ grant \in [Calls -> 0 .. MaxQuantity] /\ requested \in [Calls -> 0 .. MaxQuantity]
    /\ adds \in [Calls -> 0 .. AllowedAdds]
    /\ campaign \in [Calls -> Open \cup {"NONE", "CLOSED"}]
    /\ intent \in [Calls -> Unresolved \cup {"NONE", "FILLED", "CANCELLED"}]
    /\ under \in [Calls -> Calls \cup {NoCall}]
    /\ size \in [Calls -> 0 .. MaxQuantity] /\ risk \in [Calls -> 0 .. MaxQuantity]
    /\ pc \in [Calls -> {"idle", "entered", "locked", "done"}]
    /\ lock \in Calls \cup {NoCall} /\ \A c \in Calls : pc[c] = "locked" <=> lock = c
    /\ switch \in [Admins -> {"idle", "begun", "checked", "invalidated", "read"}]
    /\ sawMode \in [Admins -> Modes] /\ sawVersion \in [Admins -> 0 .. MaxTeamVersion]
    /\ gone \in [Admins -> SUBSET Calls] /\ found \in [Admins -> SUBSET Calls]
    /\ \A s \in Admins : gone[s] # {} => switch[s] \in {"invalidated", "read"}

\* Whoever creates intents at the same time, and whenever the limits are lowered, no reservation
\* is made that takes the team or an account over its present limit (lock_risk_capacity).
CapacityRespected ==
    [][/\ Occupied(Calls)' > Occupied(Calls) => Occupied(Calls)' <= total'
       /\ \A p \in ProposalIds :
             Occupied(InScope(p))' > Occupied(InScope(p)) =>
             Occupied(InScope(p))' <= perScope']_risk

\* An approved proposal enters the market once, though people and the automation ask at the
\* same time (INITIAL_INTENT_ALREADY_EXISTS).
OneInitialPerProposal ==
    \A i, j \in Calls :
        /\ op[i] = "INITIAL" /\ op[j] = "INITIAL" /\ of[i] = of[j]
        /\ intent[i] # "NONE" /\ intent[j] # "NONE"
        => i = j

\* What has been requested under an authorization and not been given back stays within its
\* quantity, however often intents are released and created anew; and the fill of an ADD always
\* finds the unit it consumes, so that consume_add_unit never has to refuse a fact of the venue.
GrantRespected ==
    /\ \A a \in Calls :
          LET standing == {i \in Calls : under[i] = a /\ intent[i] \in {"READY", "SENT", "FILLED"}}
          IN  Cardinality(Units(size, standing)) <= grant[a]
    /\ \A i \in Calls : op[i] = "ADD" /\ intent[i] \in Unresolved => adds[under[i]] < AllowedAdds

\* An order is dispatched in the team's current mode, though a worker is bound to a TESTNET intent
\* in an earlier transaction, and a switch does not wait for those who create intents
\* (docs/ARCHITECTURE.md: "Execution always derives the environment from the Team's persisted
\* current mode").
DispatchMatchesMode ==
    [][\A i \in Calls : intent[i] = "READY" /\ intent'[i] = "SENT" =>
          mode = Environment[of[i]]]_riskVars
=============================================================================
