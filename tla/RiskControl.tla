---------------------------- MODULE RiskControl ----------------------------
(***************************************************************************)
(* The controls over new risk: each team's active risk policy, the         *)
(* deployment-wide AUTO_ADD gate, trading authorizations, and the reviewed *)
(* requests that change the controls.                                      *)
(*                                                                         *)
(* A handler that writes holds the team's capacity lock or, where only the *)
(* gate is written, the gate's row, from before its first decision to its  *)
(* commit; a review holds the policy row and the request.  So each is one  *)
(* step, at a time read when its transaction begins.  An authorization     *)
(* stands with its own proposal and risk decision; here it is ended by     *)
(* these controls or its expiry, and elsewhere by what uses it up.  The    *)
(* limits of a policy are left to other modules: a policy is its revision, *)
(* its system state and the time of its last change.  Who may call what,   *)
(* the scopes of a request and what in the facts blocks a restoration may  *)
(* refuse a call at any time, so they need no state.                       *)
(*                                                                         *)
(* set_risk_policy is called by no part of the program, so it is no action *)
(* here; the states only it can write are possible initial states.         *)
(***************************************************************************)
EXTENDS Integers

CONSTANTS
    Teams,
    Auths,          \* authorizations a team may issue
    Requests,       \* change requests a team may make
    Cooldown,       \* RISK_RESTORE_COOLDOWN
    Ttl,            \* RISK_RESTORE_TTL
    MaxRevision,    \* bound on policy revisions
    MaxVersion,     \* bound on gate versions
    MaxTime         \* bound on the clock

ASSUME RiskControlAssumption ==
    /\ Cooldown \in Nat \ {0} /\ Ttl \in Nat /\ Cooldown < Ttl
    /\ MaxRevision \in Nat /\ MaxVersion \in Nat /\ MaxTime \in Nat

SystemRiskState == {"NORMAL", "NO_PYRAMID", "REDUCE_ONLY", "KILL_SWITCH"}
Change ==
    {"POLICY_UPDATE", "DISABLE_AUTO_ADD", "ENABLE_AUTO_ADD", "PAUSE_NEW_RISK", "RESUME_NEW_RISK"}
Restoring == {"RESUME_NEW_RISK", "ENABLE_AUTO_ADD"}
Live == {"PENDING", "APPROVED"}

Policy == [rev : Nat \ {0}, state : SystemRiskState, at : Nat]
Gate == [on : BOOLEAN, ver : Nat \ {0}, at : Nat]
Authorization ==
    [status : {"NONE", "ACTIVE", "EXPIRED", "REVOKED"},  \* EXPIRED: active, past expires_at
     rev    : Nat,      \* policy revision of the decision it rests on
     adds   : BOOLEAN]  \* AddUnits allowed and not revoked
Request ==
    [status  : {"NONE", "PENDING", "APPROVED", "REJECTED", "EXPIRED", "EXECUTED"},
     change  : Change,
     rev     : Nat,     \* source_policy_revision
     ver     : Nat,     \* source_auto_add_version
     after   : Nat,     \* execute_after
     expires : Nat]     \* expires_at

NoAuthorization == [status |-> "NONE", rev |-> 0, adds |-> FALSE]
NoRequest ==
    [status |-> "NONE", change |-> "POLICY_UPDATE", rev |-> 0, ver |-> 0,
     after |-> 0, expires |-> 0]

VARIABLES
    policy,     \* the active policy of each team
    gate,       \* the AUTO_ADD gate
    decision,   \* revision of the latest allowing decision, 0 if there is none
    auth, request, clock

vars == <<policy, gate, decision, auth, request, clock>>

TypeOK ==
    /\ policy \in [Teams -> Policy]
    /\ gate \in Gate
    /\ decision \in [Teams -> [Auths -> Nat]]
    /\ auth \in [Teams -> [Auths -> Authorization]]
    /\ request \in [Teams -> [Requests -> Request]]
    /\ clock \in Nat

Init ==
    /\ policy \in [Teams -> [rev : {1}, state : SystemRiskState, at : {0}]]
    /\ gate \in [on : BOOLEAN, ver : {1}, at : {0}]
    /\ decision = [t \in Teams |-> [k \in Auths |-> 0]]
    /\ auth = [t \in Teams |-> [k \in Auths |-> NoAuthorization]]
    /\ request = [t \in Teams |-> [n \in Requests |-> NoRequest]]
    /\ clock = 0

-----------------------------------------------------------------------------
\* Fault: the new policy row starts without a revision.
NoRevision(t, state) ==
    policy' = [policy EXCEPT ![t] = [rev |-> 0, state |-> state, at |-> clock]]

\* Fault: a change of the policy that keeps its revision.
SameRevision(t, state) ==
    policy' = [policy EXCEPT ![t] = [rev |-> @.rev, state |-> state, at |-> clock]]

\* A new policy row, or the active one changed in place: both raise the revision.
NewRevision(t, state) ==
    /\ policy[t].rev < MaxRevision
    /\ policy' = [policy EXCEPT ![t] = [rev |-> @.rev + 1, state |-> state, at |-> clock]]

SetGate(on) ==
    /\ gate.ver < MaxVersion
    /\ gate' = [on |-> on, ver |-> gate.ver + 1, at |-> clock]

Lapsed(a) == [status |-> "EXPIRED", rev |-> a.rev, adds |-> a.adds]
WithoutAdds(a) == [status |-> a.status, rev |-> a.rev, adds |-> FALSE]
Revoked(a) == [status |-> "REVOKED", rev |-> a.rev, adds |-> FALSE]

\* Deactivate the team's authorizations with one of these statuses, and their AddUnits.
Revoke(t, statuses) ==
    auth' = [auth EXCEPT ![t] = [k \in Auths |->
        IF auth[t][k].status \in statuses THEN Revoked(auth[t][k]) ELSE auth[t][k]]]

\* _risk_restore_request_drifted: a policy row or gate status other than the
\* request's source has another revision or version, too.
Drifted(t, n) == request[t][n].rev # policy[t].rev \/ request[t][n].ver # gate.ver

\* The team's requests after the live ones among gone have expired.
Expire(t, gone) ==
    [n \in Requests |-> IF n \in gone /\ request[t][n].status \in Live
                        THEN [request[t][n] EXCEPT !.status = "EXPIRED"]
                        ELSE request[t][n]]

-----------------------------------------------------------------------------
(***************************************************************************)
(* Decisions and authorizations                                            *)
(***************************************************************************)

\* decide_risk for an initial entry: a denial is the latest decision, too.
Decide(t, k) ==
    /\ auth[t][k].status = "NONE"
    /\ \E allow \in {FALSE, policy[t].state \in {"NORMAL", "NO_PYRAMID"}} :
        decision' = [decision EXCEPT ![t][k] = IF allow THEN policy[t].rev ELSE 0]
    /\ UNCHANGED <<policy, gate, auth, request, clock>>

\* Fault: only the decision's outcome is looked at.
DecisionAllows(t, k) == decision[t][k] > 0

\* The latest decision allows and was made under the present controls.
DecisionStands(t, k) == decision[t][k] = policy[t].rev

\* issue_authorization
Issue(t, k, adds) ==
    /\ auth[t][k].status = "NONE"
    /\ policy[t].state = "NORMAL"
    /\ DecisionStands(t, k)
    /\ adds => gate.on
    /\ auth' = [auth EXCEPT ![t][k] = [status |-> "ACTIVE", rev |-> decision[t][k], adds |-> adds]]
    /\ UNCHANGED <<policy, gate, decision, request, clock>>

\* expires_at passes.
Lapse(t, k) ==
    /\ auth[t][k].status = "ACTIVE"
    /\ auth' = [auth EXCEPT ![t][k] = Lapsed(@)]
    /\ UNCHANGED <<policy, gate, decision, request, clock>>

\* disable_campaign_auto_add
DisableCampaignAdds(t, k) ==
    /\ auth[t][k].status # "NONE"
    /\ auth' = [auth EXCEPT ![t][k] = Revoked(@)]
    /\ UNCHANGED <<policy, gate, decision, request, clock>>

(***************************************************************************)
(* Direct changes by an administrator                                      *)
(***************************************************************************)

\* configure_risk_policy keeps the system state.
Configure(t) ==
    /\ NewRevision(t, policy[t].state)
    /\ Revoke(t, {"ACTIVE", "EXPIRED"})
    /\ UNCHANGED <<gate, decision, request, clock>>

\* pause_new_risk
Pause(t) ==
    /\ IF policy[t].state = "KILL_SWITCH" THEN UNCHANGED policy ELSE NewRevision(t, "REDUCE_ONLY")
    /\ Revoke(t, {"ACTIVE"})
    /\ UNCHANGED <<gate, decision, request, clock>>

\* disable_global_auto_add reaches the authorizations of every team.
DisableAdds ==
    /\ SetGate(FALSE)
    /\ auth' = [t \in Teams |-> [k \in Auths |-> WithoutAdds(auth[t][k])]]
    /\ UNCHANGED <<policy, decision, request, clock>>

\* enable_global_auto_add by an administrator of the team
EnableAdds(t) ==
    /\ policy[t].state = "NORMAL"
    /\ SetGate(TRUE)
    /\ UNCHANGED <<policy, decision, auth, request, clock>>

\* set_capability_gate for AUTO_ADD, by the configuration tools: it may not open the gate.
ConfigureGate ==
    /\ \E on \in {FALSE, gate.on} : SetGate(on)
    /\ UNCHANGED <<policy, decision, auth, request, clock>>

\* direct_restore_risk_controls
RestoreDirectly(t) ==
    /\ policy[t].state \notin {"NORMAL", "KILL_SWITCH"}
    /\ NewRevision(t, "NORMAL")
    /\ request' = [request EXCEPT ![t] = Expire(t, Requests)]
    /\ Revoke(t, {"ACTIVE", "EXPIRED"})
    /\ UNCHANGED <<gate, decision, clock>>

(***************************************************************************)
(* Reviewed changes                                                        *)
(***************************************************************************)

MayRequest(t, c) ==
    /\ c \in Restoring => policy[t].state # "KILL_SWITCH"
    /\ c = "RESUME_NEW_RISK" => policy[t].state # "NORMAL"
    /\ c = "PAUSE_NEW_RISK" => policy[t].state = "NORMAL"
    /\ c = "ENABLE_AUTO_ADD" => ~gate.on
    /\ c = "DISABLE_AUTO_ADD" => gate.on

Later(a, b) == IF a >= b THEN a ELSE b

\* Fault: the cooldown of the gate is forgotten.
ExecuteAfterPolicy(t, c) ==
    IF c \in Restoring THEN Later(clock, policy[t].at + Cooldown) ELSE clock

\* The cooldown runs from the latest change of what is restored.
ExecuteAfter(t, c) ==
    CASE c = "RESUME_NEW_RISK" -> Later(clock, policy[t].at + Cooldown)
      [] c = "ENABLE_AUTO_ADD" -> Later(clock, Later(policy[t].at, gate.at) + Cooldown)
      [] OTHER -> clock

\* create_risk_control_change_request: one live request per team, but a
\* drifted or expired one makes room.
RequestChange(t, n, c) ==
    LET gone == {m \in Requests : request[t][m].expires <= clock \/ Drifted(t, m)}
    IN  /\ request[t][n].status = "NONE"
        /\ MayRequest(t, c)
        /\ \A m \in Requests : request[t][m].status \in Live => m \in gone
        /\ request' = [request EXCEPT ![t] =
                [Expire(t, gone) EXCEPT ![n] =
                    [status |-> "PENDING", change |-> c, rev |-> policy[t].rev, ver |-> gate.ver,
                     after |-> ExecuteAfter(t, c), expires |-> clock + Ttl]]]
        /\ UNCHANGED <<policy, gate, decision, auth, clock>>

\* review_risk_control_change_request: the lifetime is tested before the status.
Review(t, n) ==
    /\ request[t][n].status # "NONE"
    /\ ~Drifted(t, n)
    /\ request[t][n].change = "RESUME_NEW_RISK" => policy[t].state # "NORMAL"
    /\ IF request[t][n].expires <= clock
       THEN request' = [request EXCEPT ![t][n].status = "EXPIRED"]
       ELSE /\ request[t][n].status = "PENDING"
            /\ \E vote \in {"APPROVED", "REJECTED"} :
                request' = [request EXCEPT ![t][n].status = vote]
    /\ UNCHANGED <<policy, gate, decision, auth, clock>>

\* What an executed request does to the controls.
Apply(t, c) ==
    CASE c = "RESUME_NEW_RISK"  -> /\ policy[t].state # "KILL_SWITCH"
                                   /\ NewRevision(t, "NORMAL")
                                   /\ UNCHANGED gate
      [] c = "POLICY_UPDATE"    -> NewRevision(t, policy[t].state) /\ UNCHANGED gate
      [] c = "PAUSE_NEW_RISK"   -> /\ policy[t].state # "KILL_SWITCH"
                                   /\ NewRevision(t, "REDUCE_ONLY")
                                   /\ UNCHANGED gate
      [] c = "ENABLE_AUTO_ADD"  -> /\ policy[t].state = "NORMAL"
                                   /\ SetGate(TRUE)
                                   /\ UNCHANGED policy
      [] c = "DISABLE_AUTO_ADD" -> SetGate(FALSE) /\ UNCHANGED policy

\* execute_risk_control_change_request
Execute(t, n) ==
    /\ request[t][n].status = "APPROVED"
    /\ request[t][n].expires > clock
    /\ request[t][n].after <= clock
    /\ ~Drifted(t, n)
    /\ Apply(t, request[t][n].change)
    /\ Revoke(t, {"ACTIVE", "EXPIRED"})
    /\ request' = [request EXCEPT ![t][n].status = "EXECUTED"]
    /\ UNCHANGED <<decision, clock>>

Tick ==
    /\ clock < MaxTime
    /\ clock' = clock + 1
    /\ UNCHANGED <<policy, gate, decision, auth, request>>

-----------------------------------------------------------------------------
Next ==
    \/ \E t \in Teams, k \in Auths :
        \/ Decide(t, k)
        \/ \E adds \in BOOLEAN : Issue(t, k, adds)
        \/ Lapse(t, k)
        \/ DisableCampaignAdds(t, k)
    \/ \E t \in Teams : Configure(t) \/ Pause(t) \/ EnableAdds(t) \/ RestoreDirectly(t)
    \/ \E t \in Teams, n \in Requests :
        \/ \E c \in Change : RequestChange(t, n, c)
        \/ Review(t, n)
        \/ Execute(t, n)
    \/ DisableAdds
    \/ ConfigureGate
    \/ Tick

Spec == Init /\ [][Next]_vars

-----------------------------------------------------------------------------
(***************************************************************************)
(* Properties                                                              *)
(***************************************************************************)

\* An authorization that create_order_intent would accept rests on a risk
\* decision made under the present policy, and that policy is NORMAL: whatever
\* tightens, restores or reconfigures a team's controls, no authorization
\* issued before survives.
ActiveAuthorizationIsCurrent ==
    \A t \in Teams, k \in Auths :
        auth[t][k].status = "ACTIVE" => /\ policy[t].state = "NORMAL"
                                        /\ auth[t][k].rev = policy[t].rev

Executes(t, n) == request[t][n].status = "APPROVED" /\ request'[t][n].status = "EXECUTED"

\* A reviewed request reopens new risk, or the gate, only when nothing tightened
\* it for the cooldown: neither before the request was made nor while it waited
\* for its review (RISK_RESTORE_COOLDOWN).
RestoresCoolDown ==
    [][\A t \in Teams, n \in Requests :
        Executes(t, n) =>
            /\ policy[t].state # "NORMAL" /\ policy'[t].state = "NORMAL"
                => policy[t].at + Cooldown <= clock
            /\ ~gate.on /\ gate'.on => gate.at + Cooldown <= clock]_vars

\* Two reviewed changes of a team are never decided on the same state of its
\* controls: the second one was requested in knowledge of the first.
OneChangePerSnapshot ==
    \A t \in Teams : \A n, m \in Requests :
        /\ n # m
        /\ request[t][n].status = "EXECUTED" /\ request[t][m].status = "EXECUTED"
        => <<request[t][n].rev, request[t][n].ver>> # <<request[t][m].rev, request[t][m].ver>>
=============================================================================
