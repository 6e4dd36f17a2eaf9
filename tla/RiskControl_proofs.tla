------------------------ MODULE RiskControl_proofs ------------------------
(***************************************************************************)
(* Proofs about RiskControl, for every value of its constants: types, the  *)
(* end of every older authorization when a team's controls change, the     *)
(* cooldown before a restoration, and one change per state of the controls.*)
(***************************************************************************)
EXTENDS RiskControl, TLAPS

-----------------------------------------------------------------------------
(***************************************************************************)
(* What the building blocks of the actions preserve                        *)
(***************************************************************************)

LEMMA NewRevisionType ==
    ASSUME TypeOK, NEW t \in Teams, NEW state \in SystemRiskState, NewRevision(t, state)
    PROVE  policy' \in [Teams -> Policy]
<1>1. [rev |-> policy[t].rev + 1, state |-> state, at |-> clock] \in Policy
  BY DEF TypeOK, Policy
<1> QED
  BY <1>1 DEF TypeOK, NewRevision

LEMMA SetGateType ==
    ASSUME TypeOK, NEW on \in BOOLEAN, SetGate(on)
    PROVE  gate' \in Gate
  BY DEF TypeOK, SetGate, Gate

LEMMA EndedType ==
    ASSUME NEW a \in Authorization
    PROVE  /\ Lapsed(a) \in Authorization
           /\ WithoutAdds(a) \in Authorization
           /\ Revoked(a) \in Authorization
<1>1. a.status \in {"NONE", "ACTIVE", "EXPIRED", "REVOKED"} /\ a.rev \in Nat /\ a.adds \in BOOLEAN
  BY DEF Authorization
<1> QED
  BY <1>1 DEF Authorization, Lapsed, WithoutAdds, Revoked

LEMMA RevokeType ==
    ASSUME TypeOK, NEW t \in Teams, NEW statuses, Revoke(t, statuses)
    PROVE  auth' \in [Teams -> [Auths -> Authorization]]
<1>1. [k \in Auths |->
        IF auth[t][k].status \in statuses THEN Revoked(auth[t][k]) ELSE auth[t][k]]
        \in [Auths -> Authorization]
  BY EndedType DEF TypeOK
<1> QED
  BY <1>1 DEF TypeOK, Revoke

LEMMA StatusType ==
    ASSUME NEW r \in Request, NEW s \in {"EXPIRED", "APPROVED", "REJECTED", "EXECUTED"}
    PROVE  [r EXCEPT !.status = s] \in Request
  BY DEF Request

LEMMA ExpireType ==
    ASSUME TypeOK, NEW t \in Teams, NEW gone
    PROVE  Expire(t, gone) \in [Requests -> Request]
  BY StatusType DEF TypeOK, Expire

LEMMA ExecuteAfterType ==
    ASSUME TypeOK, NEW t \in Teams, NEW c \in Change
    PROVE  ExecuteAfter(t, c) \in Nat
  BY RiskControlAssumption DEF TypeOK, ExecuteAfter, Later, Policy, Gate, Change

LEMMA ApplyType ==
    ASSUME TypeOK, NEW t \in Teams, NEW c \in Change, Apply(t, c)
    PROVE  policy' \in [Teams -> Policy] /\ gate' \in Gate
<1> policy[t].state \in SystemRiskState /\ policy \in [Teams -> Policy] /\ gate \in Gate
  BY DEF TypeOK, Policy
<1> "NORMAL" \in SystemRiskState /\ "REDUCE_ONLY" \in SystemRiskState
  BY DEF SystemRiskState
<1>1. CASE c = "RESUME_NEW_RISK"
  BY <1>1, NewRevisionType DEF Apply
<1>2. CASE c = "POLICY_UPDATE"
  BY <1>2, NewRevisionType DEF Apply
<1>3. CASE c = "PAUSE_NEW_RISK"
  BY <1>3, NewRevisionType DEF Apply
<1>4. CASE c = "ENABLE_AUTO_ADD"
  BY <1>4, SetGateType DEF Apply
<1>5. CASE c = "DISABLE_AUTO_ADD"
  BY <1>5, SetGateType DEF Apply
<1> QED
  BY <1>1, <1>2, <1>3, <1>4, <1>5 DEF Change

-----------------------------------------------------------------------------
(***************************************************************************)
(* Types                                                                   *)
(***************************************************************************)

LEMMA TypeInit == Init => TypeOK
<1> SUFFICES ASSUME Init PROVE TypeOK
  OBVIOUS
<1>1. policy \in [Teams -> Policy] /\ gate \in Gate
  BY DEF Init, Policy, Gate
<1>2. NoAuthorization \in Authorization /\ NoRequest \in Request
  BY DEF NoAuthorization, Authorization, NoRequest, Request, Change
<1> QED
  BY <1>1, <1>2 DEF Init, TypeOK

LEMMA TypeStep == TypeOK /\ [Next]_vars => TypeOK'
<1> SUFFICES ASSUME TypeOK, [Next]_vars PROVE TypeOK'
  OBVIOUS
<1>1. ASSUME NEW t \in Teams, NEW k \in Auths, Decide(t, k)
      PROVE  TypeOK'
  <2>1. \A allow \in BOOLEAN : (IF allow THEN policy[t].rev ELSE 0) \in Nat
    BY DEF TypeOK, Policy
  <2>2. PICK v \in Nat : decision' = [decision EXCEPT ![t][k] = v]
    BY <1>1, <2>1 DEF Decide
  <2> QED
    BY <1>1, <2>2 DEF Decide, TypeOK
<1>2. ASSUME NEW t \in Teams, NEW k \in Auths, NEW adds \in BOOLEAN, Issue(t, k, adds)
      PROVE  TypeOK'
  <2>1. [status |-> "ACTIVE", rev |-> decision[t][k], adds |-> adds] \in Authorization
    BY DEF TypeOK, Authorization
  <2> QED
    BY <1>2, <2>1 DEF Issue, TypeOK
<1>3. ASSUME NEW t \in Teams, NEW k \in Auths, Lapse(t, k)
      PROVE  TypeOK'
  BY <1>3, EndedType DEF Lapse, TypeOK
<1>4. ASSUME NEW t \in Teams, NEW k \in Auths, DisableCampaignAdds(t, k)
      PROVE  TypeOK'
  BY <1>4, EndedType DEF DisableCampaignAdds, TypeOK
<1>5. ASSUME NEW t \in Teams, Configure(t)
      PROVE  TypeOK'
  <2>1. policy[t].state \in SystemRiskState
    BY DEF TypeOK, Policy
  <2> QED
    BY <1>5, <2>1, NewRevisionType, RevokeType DEF Configure, TypeOK
<1>6. ASSUME NEW t \in Teams, Pause(t)
      PROVE  TypeOK'
  <2>1. policy' \in [Teams -> Policy]
    BY <1>6, NewRevisionType DEF Pause, TypeOK, SystemRiskState
  <2> QED
    BY <1>6, <2>1, RevokeType DEF Pause, TypeOK
<1>7. ASSUME NEW t \in Teams, EnableAdds(t)
      PROVE  TypeOK'
  BY <1>7, SetGateType DEF EnableAdds, TypeOK
<1>8. ASSUME NEW t \in Teams, RestoreDirectly(t)
      PROVE  TypeOK'
  <2>1. policy' \in [Teams -> Policy]
    BY <1>8, NewRevisionType DEF RestoreDirectly, SystemRiskState
  <2>2. request' \in [Teams -> [Requests -> Request]]
    BY <1>8, ExpireType DEF RestoreDirectly, TypeOK
  <2> QED
    BY <1>8, <2>1, <2>2, RevokeType DEF RestoreDirectly, TypeOK
<1>9. ASSUME NEW t \in Teams, NEW n \in Requests, NEW c \in Change, RequestChange(t, n, c)
      PROVE  TypeOK'
  <2> DEFINE gone == {m \in Requests : request[t][m].expires <= clock \/ Drifted(t, m)}
             new == [status |-> "PENDING", change |-> c, rev |-> policy[t].rev, ver |-> gate.ver,
                     after |-> ExecuteAfter(t, c), expires |-> clock + Ttl]
  <2>1. new \in Request
    <3>1. policy[t].rev \in Nat /\ gate.ver \in Nat /\ clock + Ttl \in Nat
      BY RiskControlAssumption DEF TypeOK, Policy, Gate
    <3>2. ExecuteAfter(t, c) \in Nat
      BY ExecuteAfterType
    <3> QED
      BY <3>1, <3>2 DEF Request
  <2>2. request' = [request EXCEPT ![t] = [Expire(t, gone) EXCEPT ![n] = new]]
    BY <1>9 DEF RequestChange
  <2> HIDE DEF gone, new
  <2>3. Expire(t, gone) \in [Requests -> Request]
    BY ExpireType
  <2>4. request' \in [Teams -> [Requests -> Request]]
    BY <2>1, <2>2, <2>3 DEF TypeOK
  <2>5. UNCHANGED <<policy, gate, decision, auth, clock>>
    BY <1>9 DEF RequestChange
  <2> QED
    BY <2>4, <2>5 DEF TypeOK
<1>10. ASSUME NEW t \in Teams, NEW n \in Requests, Review(t, n)
       PROVE  TypeOK'
  <2>1. PICK s \in {"EXPIRED", "APPROVED", "REJECTED", "EXECUTED"} :
          request' = [request EXCEPT ![t][n].status = s]
    BY <1>10 DEF Review
  <2>2. [request[t][n] EXCEPT !.status = s] \in Request
    BY StatusType DEF TypeOK
  <2> QED
    BY <1>10, <2>1, <2>2 DEF Review, TypeOK
<1>11. ASSUME NEW t \in Teams, NEW n \in Requests, Execute(t, n)
       PROVE  TypeOK'
  <2>1. request[t][n].change \in Change
    BY DEF TypeOK, Request
  <2>2. policy' \in [Teams -> Policy] /\ gate' \in Gate
    BY <1>11, <2>1, ApplyType DEF Execute
  <2>3. [request[t][n] EXCEPT !.status = "EXECUTED"] \in Request
    BY StatusType DEF TypeOK
  <2>4. request' \in [Teams -> [Requests -> Request]]
    BY <1>11, <2>3 DEF Execute, TypeOK
  <2> QED
    BY <1>11, <2>2, <2>4, RevokeType DEF Execute, TypeOK
<1>12. CASE DisableAdds
  BY <1>12, EndedType, SetGateType DEF DisableAdds, TypeOK
<1>13. CASE ConfigureGate
  <2>1. gate.on \in BOOLEAN
    BY DEF TypeOK, Gate
  <2> QED
    BY <1>13, <2>1, SetGateType DEF ConfigureGate, TypeOK
<1>14. CASE Tick
  BY <1>14 DEF Tick, TypeOK
<1>15. CASE UNCHANGED vars
  BY <1>15 DEF vars, TypeOK
<1> QED
  BY <1>1, <1>2, <1>3, <1>4, <1>5, <1>6, <1>7, <1>8, <1>9, <1>10, <1>11, <1>12, <1>13, <1>14,
     <1>15 DEF Next

-----------------------------------------------------------------------------
(***************************************************************************)
(* The inductive invariant                                                 *)
(***************************************************************************)

\* A request rests on a past or the present state of the controls.
Behind ==
    \A t \in Teams, n \in Requests :
        request[t][n].rev <= policy[t].rev /\ request[t][n].ver <= gate.ver

\* The change an executed request made has left its source state behind.
Spent ==
    \A t \in Teams, n \in Requests : request[t][n].status = "EXECUTED" => Drifted(t, n)

\* A request that may still restore waits out the cooldown of what it restores.
Cooled ==
    \A t \in Teams, n \in Requests :
        request[t][n].status \in Live /\ ~Drifted(t, n) =>
            /\ request[t][n].change = "RESUME_NEW_RISK"
                => policy[t].at + Cooldown <= request[t][n].after
            /\ request[t][n].change = "ENABLE_AUTO_ADD"
                => gate.at + Cooldown <= request[t][n].after

ControlInvariant ==
    TypeOK /\ ActiveAuthorizationIsCurrent /\ Behind /\ Spent /\ Cooled /\ OneChangePerSnapshot

\* A change of the controls is always a newer revision or version.
LEMMA ControlsMove ==
    ASSUME TypeOK, [Next]_vars
    PROVE  /\ \A t \in Teams : policy'[t] = policy[t] \/ policy'[t].rev > policy[t].rev
           /\ gate' = gate \/ gate'.ver > gate.ver
<1> DEFINE Moves == /\ \A t \in Teams : policy'[t] = policy[t] \/ policy'[t].rev > policy[t].rev
                    /\ gate' = gate \/ gate'.ver > gate.ver
<1>1. ASSUME NEW t \in Teams, NEW state, NewRevision(t, state)
      PROVE  \A u \in Teams : policy'[u] = policy[u] \/ policy'[u].rev > policy[u].rev
  BY <1>1 DEF NewRevision, TypeOK, Policy
<1>2. ASSUME NEW on, SetGate(on)
      PROVE  gate'.ver > gate.ver
  BY <1>2 DEF SetGate, TypeOK, Gate
<1>3. CASE UNCHANGED <<policy, gate>>
  BY <1>3
<1>4. ASSUME NEW t \in Teams, Configure(t) \/ Pause(t) \/ RestoreDirectly(t)
      PROVE  Moves
  BY <1>1, <1>4 DEF Configure, Pause, RestoreDirectly
<1>5. ASSUME NEW t \in Teams, EnableAdds(t)
      PROVE  Moves
  BY <1>2, <1>5 DEF EnableAdds
<1>6. CASE DisableAdds \/ ConfigureGate
  BY <1>2, <1>6 DEF DisableAdds, ConfigureGate
<1>7. ASSUME NEW t \in Teams, NEW n \in Requests, Execute(t, n)
      PROVE  Moves
  <2>1. request[t][n].change \in Change
    BY DEF TypeOK, Request
  <2> QED
    BY <1>1, <1>2, <1>7, <2>1 DEF Execute, Apply, Change
<1> QED
  BY <1>3, <1>4, <1>5, <1>6, <1>7
     DEF Next, vars, Decide, Issue, Lapse, DisableCampaignAdds, RequestChange, Review, Tick

\* How a step may change one request.
Fresh(t, n) ==
    /\ UNCHANGED <<policy, gate>>
    /\ request'[t][n].status = "PENDING"
    /\ request'[t][n].rev = policy[t].rev /\ request'[t][n].ver = gate.ver
    /\ request'[t][n].after = ExecuteAfter(t, request'[t][n].change)

Kept(t, n) ==
    /\ request'[t][n].change = request[t][n].change
    /\ request'[t][n].rev = request[t][n].rev /\ request'[t][n].ver = request[t][n].ver
    /\ request'[t][n].after = request[t][n].after
    /\ request'[t][n].status \in Live => request[t][n].status \in Live
    /\ request'[t][n].status = "EXECUTED" => request[t][n].status = "EXECUTED" \/ Execute(t, n)

LEMMA RequestMoves ==
    ASSUME TypeOK, [Next]_vars, NEW t \in Teams, NEW n \in Requests
    PROVE  Kept(t, n) \/ Fresh(t, n)
<1> request \in [Teams -> [Requests -> Request]]
  BY DEF TypeOK
<1>1. CASE UNCHANGED request
  BY <1>1 DEF Kept
<1>2. ASSUME NEW u \in Teams, RestoreDirectly(u)
      PROVE  Kept(t, n)
  BY <1>2 DEF RestoreDirectly, Expire, Kept, Request, Live
<1>3. ASSUME NEW u \in Teams, NEW m \in Requests, NEW c \in Change, RequestChange(u, m, c)
      PROVE  Kept(t, n) \/ Fresh(t, n)
  <2> DEFINE gone == {i \in Requests : request[u][i].expires <= clock \/ Drifted(u, i)}
             new == [status |-> "PENDING", change |-> c, rev |-> policy[u].rev, ver |-> gate.ver,
                     after |-> ExecuteAfter(u, c), expires |-> clock + Ttl]
  <2>1. request' = [request EXCEPT ![u] = [Expire(u, gone) EXCEPT ![m] = new]]
    BY <1>3 DEF RequestChange
  <2>2. UNCHANGED <<policy, gate>>
    BY <1>3 DEF RequestChange
  <2>3. CASE t = u /\ n = m
    <3>1. request'[t][n] = new
      BY <2>1, <2>3 DEF Expire
    <3> QED
      BY <2>2, <2>3, <3>1 DEF Fresh
  <2>4. CASE t = u /\ n # m
    <3>1. request'[t][n] = Expire(u, gone)[n]
      BY <2>1, <2>4 DEF Expire
    <3> HIDE DEF gone
    <3> QED
      BY <2>4, <3>1 DEF Expire, Kept, Request, Live
  <2>5. CASE t # u
    <3>1. request'[t][n] = request[t][n]
      BY <2>1, <2>5
    <3> QED
      BY <3>1 DEF Kept
  <2> QED
    BY <2>3, <2>4, <2>5
<1>4. ASSUME NEW u \in Teams, NEW m \in Requests, Review(u, m)
      PROVE  Kept(t, n)
  <2>1. PICK s \in {"EXPIRED", "APPROVED", "REJECTED"} :
          /\ request' = [request EXCEPT ![u][m].status = s]
          /\ s = "APPROVED" => request[u][m].status = "PENDING"
    BY <1>4 DEF Review
  <2>2. CASE t = u /\ n = m
    BY <2>1, <2>2 DEF Kept, Request, Live
  <2>3. CASE ~(t = u /\ n = m)
    BY <2>1, <2>3 DEF Kept
  <2> QED
    BY <2>2, <2>3
<1>5. ASSUME NEW u \in Teams, NEW m \in Requests, Execute(u, m)
      PROVE  Kept(t, n)
  <2>1. request' = [request EXCEPT ![u][m].status = "EXECUTED"]
    BY <1>5 DEF Execute
  <2>2. CASE t = u /\ n = m
    BY <1>5, <2>1, <2>2 DEF Kept, Request, Live
  <2>3. CASE ~(t = u /\ n = m)
    BY <2>1, <2>3 DEF Kept
  <2> QED
    BY <2>2, <2>3
<1> QED
  BY <1>1, <1>2, <1>3, <1>4, <1>5
     DEF Next, vars, Decide, Issue, Lapse, DisableCampaignAdds, Configure, Pause, EnableAdds,
         DisableAdds, ConfigureGate, Tick

-----------------------------------------------------------------------------
LEMMA BehindStep == TypeOK /\ Behind /\ [Next]_vars => Behind'
<1> SUFFICES ASSUME TypeOK, Behind, [Next]_vars, NEW t \in Teams, NEW n \in Requests
             PROVE  request'[t][n].rev <= policy'[t].rev /\ request'[t][n].ver <= gate'.ver
  BY DEF Behind
<1> policy[t].rev \in Nat /\ gate.ver \in Nat /\ policy'[t].rev \in Nat /\ gate'.ver \in Nat
  BY TypeStep DEF TypeOK, Policy, Gate
<1> request[t][n].rev \in Nat /\ request[t][n].ver \in Nat
  BY DEF TypeOK, Request
<1>1. CASE Kept(t, n)
  BY <1>1, ControlsMove DEF Kept, Behind
<1>2. CASE Fresh(t, n)
  BY <1>2 DEF Fresh
<1> QED
  BY <1>1, <1>2, RequestMoves

\* A drifted request stays drifted; one that is not drifted sees its own controls.
LEMMA DriftedStays ==
    ASSUME TypeOK, Behind, [Next]_vars, NEW t \in Teams, NEW n \in Requests, Kept(t, n)
    PROVE  /\ Drifted(t, n) => Drifted(t, n)'
           /\ ~Drifted(t, n)' => policy'[t] = policy[t] /\ gate' = gate
<1> policy[t].rev \in Nat /\ gate.ver \in Nat /\ policy'[t].rev \in Nat /\ gate'.ver \in Nat
  BY TypeStep DEF TypeOK, Policy, Gate
<1> request[t][n].rev \in Nat /\ request[t][n].ver \in Nat
  BY DEF TypeOK, Request
<1> QED
  BY ControlsMove DEF Kept, Behind, Drifted

\* What execute_risk_control_change_request changes is the source of the request.
LEMMA ExecuteSpends ==
    ASSUME TypeOK, NEW t \in Teams, NEW n \in Requests, Execute(t, n)
    PROVE  Drifted(t, n)'
<1>1. request[t][n].change \in Change
  BY DEF TypeOK, Request
<1>2. policy'[t].rev = policy[t].rev + 1 \/ gate'.ver = gate.ver + 1
  <2>1. ASSUME NEW state, NewRevision(t, state)
        PROVE  policy'[t].rev = policy[t].rev + 1
    BY <2>1 DEF NewRevision, TypeOK
  <2>2. ASSUME NEW on, SetGate(on)
        PROVE  gate'.ver = gate.ver + 1
    BY <2>2 DEF SetGate
  <2> QED
    BY <1>1, <2>1, <2>2 DEF Execute, Apply, Change
<1>3. /\ request'[t][n].rev = request[t][n].rev /\ request'[t][n].ver = request[t][n].ver
      /\ request[t][n].rev = policy[t].rev /\ request[t][n].ver = gate.ver
  BY DEF Execute, Drifted, TypeOK, Request
<1> QED
  BY <1>2, <1>3 DEF Drifted, TypeOK, Policy, Gate

LEMMA SpentStep == TypeOK /\ Behind /\ Spent /\ [Next]_vars => Spent'
<1> SUFFICES ASSUME TypeOK, Behind, Spent, [Next]_vars, NEW t \in Teams, NEW n \in Requests,
                    request'[t][n].status = "EXECUTED"
             PROVE  Drifted(t, n)'
  BY DEF Spent
<1>1. Kept(t, n)
  BY RequestMoves DEF Fresh
<1>2. CASE request[t][n].status = "EXECUTED"
  BY <1>1, <1>2, DriftedStays DEF Spent
<1>3. CASE Execute(t, n)
  BY <1>3, ExecuteSpends
<1> QED
  BY <1>1, <1>2, <1>3 DEF Kept

LEMMA CooledStep == TypeOK /\ Behind /\ Cooled /\ [Next]_vars => Cooled'
<1> SUFFICES ASSUME TypeOK, Behind, Cooled, [Next]_vars, NEW t \in Teams, NEW n \in Requests,
                    request'[t][n].status \in Live, ~Drifted(t, n)'
             PROVE  /\ request'[t][n].change = "RESUME_NEW_RISK"
                        => policy'[t].at + Cooldown <= request'[t][n].after
                    /\ request'[t][n].change = "ENABLE_AUTO_ADD"
                        => gate'.at + Cooldown <= request'[t][n].after
  BY DEF Cooled
<1>1. CASE Kept(t, n)
  BY <1>1, DriftedStays DEF Kept, Cooled
<1>2. CASE Fresh(t, n)
  <2> policy[t].at \in Nat /\ gate.at \in Nat /\ clock \in Nat /\ Cooldown \in Nat
    BY RiskControlAssumption DEF TypeOK, Policy, Gate
  <2> QED
    BY <1>2 DEF Fresh, ExecuteAfter, Later
<1> QED
  BY <1>1, <1>2, RequestMoves

LEMMA OneChangeStep ==
    TypeOK /\ Behind /\ Spent /\ OneChangePerSnapshot /\ [Next]_vars => OneChangePerSnapshot'
<1> SUFFICES ASSUME TypeOK, Behind, Spent, OneChangePerSnapshot, [Next]_vars, NEW t \in Teams,
                    NEW n \in Requests, NEW m \in Requests, n # m,
                    request'[t][n].status = "EXECUTED", request'[t][m].status = "EXECUTED"
             PROVE  ~(/\ request'[t][n].rev = request'[t][m].rev
                      /\ request'[t][n].ver = request'[t][m].ver)
  BY DEF OneChangePerSnapshot
<1>1. Kept(t, n) /\ Kept(t, m)
  BY RequestMoves DEF Fresh
<1>2. ASSUME NEW i \in Requests, NEW j \in Requests, i # j, Execute(t, i), Kept(t, i), Kept(t, j),
             request'[t][j].status = "EXECUTED"
      PROVE  ~(request'[t][i].rev = request'[t][j].rev /\ request'[t][i].ver = request'[t][j].ver)
  <2>1. request'[t][j] = request[t][j]
    BY <1>2 DEF Execute, TypeOK
  <2>2. Drifted(t, j)
    BY <1>2, <2>1 DEF Spent
  <2> QED
    BY <1>2, <2>1, <2>2 DEF Execute, Drifted, Kept
<1>3. CASE Execute(t, n) \/ Execute(t, m)
  BY <1>1, <1>2, <1>3
<1>4. CASE request[t][n].status = "EXECUTED" /\ request[t][m].status = "EXECUTED"
  BY <1>1, <1>4 DEF Kept, OneChangePerSnapshot
<1> QED
  BY <1>1, <1>3, <1>4 DEF Kept

-----------------------------------------------------------------------------
(***************************************************************************)
(* No authorization outlives the controls it was issued under              *)
(***************************************************************************)

\* A step that leaves a team no active authorization need not care for its policy.
LEMMA NoneActive ==
    ASSUME TypeOK, NEW t \in Teams, NEW statuses, "ACTIVE" \in statuses, Revoke(t, statuses)
    PROVE  /\ \A k \in Auths : auth'[t][k].status # "ACTIVE"
           /\ \A u \in Teams \ {t} : auth'[u] = auth[u]
  BY DEF Revoke, Revoked, TypeOK

LEMMA RevisionOfOneTeam ==
    ASSUME TypeOK, NEW t \in Teams, NEW state, NewRevision(t, state), NEW u \in Teams \ {t}
    PROVE  policy'[u] = policy[u]
  BY DEF NewRevision, TypeOK

LEMMA CurrentStep ==
    TypeOK /\ ActiveAuthorizationIsCurrent /\ [Next]_vars => ActiveAuthorizationIsCurrent'
<1> SUFFICES ASSUME TypeOK, ActiveAuthorizationIsCurrent, [Next]_vars,
                    NEW t \in Teams, NEW k \in Auths, auth'[t][k].status = "ACTIVE"
             PROVE  policy'[t].state = "NORMAL" /\ auth'[t][k].rev = policy'[t].rev
  BY DEF ActiveAuthorizationIsCurrent
<1> DEFINE Goal == policy'[t].state = "NORMAL" /\ auth'[t][k].rev = policy'[t].rev
<1>1. CASE auth'[t][k].status = auth[t][k].status /\ auth'[t][k].rev = auth[t][k].rev
           /\ policy'[t] = policy[t]
  BY <1>1 DEF ActiveAuthorizationIsCurrent
<1>2. ASSUME NEW u \in Teams, NEW j \in Auths, NEW adds \in BOOLEAN, Issue(u, j, adds)
      PROVE  Goal
  <2>1. CASE t = u /\ k = j
    BY <1>2, <2>1 DEF Issue, DecisionStands, TypeOK
  <2>2. CASE ~(t = u /\ k = j)
    <3>1. auth'[t][k] = auth[t][k] /\ policy' = policy
      BY <1>2, <2>2 DEF Issue, TypeOK
    <3> QED
      BY <1>1, <3>1
  <2> QED
    BY <2>1, <2>2
<1>3. ASSUME NEW u \in Teams, NEW j \in Auths, Lapse(u, j) \/ DisableCampaignAdds(u, j)
      PROVE  Goal
  <2>1. auth'[t][k] \in {auth[t][k], Lapsed(auth[t][k]), Revoked(auth[t][k])}
    <3> auth \in [Teams -> [Auths -> Authorization]]
      BY DEF TypeOK
    <3>1. CASE auth' = [auth EXCEPT ![u][j] = Lapsed(@)]
      BY <3>1
    <3>2. CASE auth' = [auth EXCEPT ![u][j] = Revoked(@)]
      BY <3>2
    <3> QED
      BY <1>3, <3>1, <3>2 DEF Lapse, DisableCampaignAdds
  <2>2. auth'[t][k] = auth[t][k]
    BY <2>1 DEF Lapsed, Revoked
  <2>3. policy' = policy
    BY <1>3 DEF Lapse, DisableCampaignAdds
  <2> QED
    BY <1>1, <2>2, <2>3
<1>4. ASSUME NEW u \in Teams, NEW statuses, "ACTIVE" \in statuses, Revoke(u, statuses),
             \A v \in Teams \ {u} : policy'[v] = policy[v]
      PROVE  Goal
  <2>1. t # u
    BY <1>4, NoneActive
  <2> QED
    BY <1>1, <1>4, <2>1, NoneActive
<1>5. ASSUME NEW u \in Teams, Configure(u)
      PROVE  Goal
  BY <1>4, <1>5, RevisionOfOneTeam DEF Configure
<1>6. ASSUME NEW u \in Teams, Pause(u)
      PROVE  Goal
  <2>1. \A v \in Teams \ {u} : policy'[v] = policy[v]
    BY <1>6, RevisionOfOneTeam DEF Pause
  <2> QED
    BY <1>4, <1>6, <2>1 DEF Pause
<1>7. ASSUME NEW u \in Teams, RestoreDirectly(u)
      PROVE  Goal
  BY <1>4, <1>7, RevisionOfOneTeam DEF RestoreDirectly
<1>8. ASSUME NEW u \in Teams, NEW n \in Requests, Execute(u, n)
      PROVE  Goal
  <2>1. request[u][n].change \in Change
    BY DEF TypeOK, Request
  <2>2. \A v \in Teams \ {u} : policy'[v] = policy[v]
    BY <1>8, <2>1, RevisionOfOneTeam DEF Execute, Apply, Change
  <2> QED
    BY <1>4, <1>8, <2>2 DEF Execute
<1>9. CASE DisableAdds
  <2>1. /\ auth'[t][k] = WithoutAdds(auth[t][k])
        /\ policy' = policy
    BY <1>9 DEF DisableAdds
  <2> QED
    BY <1>1, <2>1 DEF WithoutAdds
<1>10. CASE UNCHANGED <<auth, policy>>
  BY <1>1, <1>10
<1> QED
  BY <1>2, <1>3, <1>5, <1>6, <1>7, <1>8, <1>9, <1>10
     DEF Next, vars, Decide, EnableAdds, RequestChange, Review, ConfigureGate, Tick

-----------------------------------------------------------------------------
LEMMA ControlInit == Init => ControlInvariant
<1> SUFFICES ASSUME Init PROVE ControlInvariant
  OBVIOUS
<1>1. TypeOK
  BY TypeInit
<1>2. \A t \in Teams, k \in Auths : auth[t][k].status = "NONE"
  BY DEF Init, NoAuthorization
<1>3. \A t \in Teams, n \in Requests :
        request[t][n].status = "NONE" /\ request[t][n].rev = 0 /\ request[t][n].ver = 0
  BY DEF Init, NoRequest
<1>4. Behind
  BY <1>1, <1>3 DEF Behind, TypeOK, Policy, Gate
<1> QED
  BY <1>1, <1>2, <1>3, <1>4
     DEF ControlInvariant, ActiveAuthorizationIsCurrent, Spent, Cooled, OneChangePerSnapshot, Live

LEMMA ControlStep == ControlInvariant /\ [Next]_vars => ControlInvariant'
  BY TypeStep, CurrentStep, BehindStep, SpentStep, CooledStep, OneChangeStep DEF ControlInvariant

\* Every variable keeps its type.
THEOREM ControlTypes == Spec => []TypeOK
<1>1. Init => TypeOK
  BY TypeInit
<1>2. TypeOK /\ [Next]_vars => TypeOK'
  BY TypeStep
<1> QED
  BY <1>1, <1>2, PTL DEF Spec

\* The inductive invariant holds in every reachable state.
THEOREM ControlsHold == Spec => []ControlInvariant
  BY ControlInit, ControlStep, PTL DEF Spec

\* No authorization issued before a tightening, a restoration or a new policy
\* can still open risk (issue_authorization and the revocations of every
\* handler that writes a policy).
THEOREM AuthorizationsAreCurrent == Spec => []ActiveAuthorizationIsCurrent
<1>1. ControlInvariant => ActiveAuthorizationIsCurrent
  BY DEF ControlInvariant
<1> QED
  BY <1>1, ControlsHold, PTL

\* No two executed requests of a team were made on the same state of its controls.
THEOREM ChangesAreDecidedOnce == Spec => []OneChangePerSnapshot
<1>1. ControlInvariant => OneChangePerSnapshot
  BY DEF ControlInvariant
<1> QED
  BY <1>1, ControlsHold, PTL

\* A reviewed restoration waits out the cooldown since the last tightening.
THEOREM RestorationsCoolDown == Spec => RestoresCoolDown
<1> DEFINE Cool == \A t \in Teams, n \in Requests :
        Executes(t, n) =>
            /\ policy[t].state # "NORMAL" /\ policy'[t].state = "NORMAL"
                => policy[t].at + Cooldown <= clock
            /\ ~gate.on /\ gate'.on => gate.at + Cooldown <= clock
<1>1. ControlInvariant /\ [Next]_vars => Cool
  <2> SUFFICES ASSUME ControlInvariant, [Next]_vars, NEW t \in Teams,
                      NEW n \in Requests, Executes(t, n)
               PROVE  /\ policy[t].state # "NORMAL" /\ policy'[t].state = "NORMAL"
                          => policy[t].at + Cooldown <= clock
                      /\ ~gate.on /\ gate'.on => gate.at + Cooldown <= clock
    OBVIOUS
  <2> TypeOK /\ Cooled
    BY DEF ControlInvariant
  <2>1. Execute(t, n)
    BY RequestMoves DEF Executes, Kept, Fresh
  <2>2. request[t][n].change \in Change
    BY DEF TypeOK, Request
  <2>3. request[t][n].status \in Live /\ ~Drifted(t, n) /\ request[t][n].after <= clock
    BY <2>1 DEF Execute, Live
  <2>4. /\ policy[t].at \in Nat /\ gate.at \in Nat /\ clock \in Nat
        /\ Cooldown \in Nat /\ request[t][n].after \in Nat
    BY RiskControlAssumption DEF TypeOK, Policy, Gate, Request
  <2>5. ASSUME NEW state, NewRevision(t, state)
        PROVE  policy'[t].state = state
    BY <2>5 DEF NewRevision, TypeOK
  <2>6. ASSUME NEW on, SetGate(on)
        PROVE  gate'.on = on
    BY <2>6 DEF SetGate
  <2>7. policy[t].state # "NORMAL" /\ policy'[t].state = "NORMAL"
            => request[t][n].change = "RESUME_NEW_RISK"
    BY <2>1, <2>2, <2>5 DEF Execute, Apply, Change
  <2>8. ~gate.on /\ gate'.on => request[t][n].change = "ENABLE_AUTO_ADD"
    BY <2>1, <2>2, <2>6 DEF Execute, Apply, Change
  <2> QED
    BY <2>3, <2>4, <2>7, <2>8 DEF Cooled
<1>2. Cool => [Cool]_vars
  OBVIOUS
<1> QED
  BY <1>1, ControlsHold, PTL DEF Spec, RestoresCoolDown

=============================================================================
