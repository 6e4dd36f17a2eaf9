--------------------------- MODULE Proposals_proofs ---------------------------
(***************************************************************************)
(* What is approved was approved by others, there is one proposal where    *)
(* one is meant, and a request is answered with one.                       *)
(*                                                                         *)
(* The argument.  Who asks for a proposal may not review it, and its       *)
(* proposer always is one of those who ask, whatever is reused or          *)
(* consolidated.  Once decided, a proposal takes no votes: a refusal takes *)
(* it out of review, and an approval is counted in the step that stores    *)
(* it.  No decided or expired proposal becomes active again, so a manual   *)
(* request that finds no active one to reuse need not look back; a receipt *)
(* once stored is what its request is answered from.                       *)
(***************************************************************************)
EXTENDS Proposals, FiniteSetTheorems, WellFoundedInduction, TLAPS

Statuses == Active \cup {"NONE", "APPROVED", "REJECTED", "EXPIRED"}

ReviewTypes ==
    /\ kind \in [Requests -> Kinds] /\ by \in [Requests -> People \cup {Service}]
    /\ high \in BOOLEAN /\ count \in 0 .. MaxProposals
    /\ status \in [Ids -> Statuses]
    /\ origin \in [Ids -> Requests \cup {None}]
    /\ askers \in [Ids -> SUBSET (People \cup {Service})]
    /\ approvals \in [Ids -> SUBSET People] /\ refusals \in [Ids -> SUBSET People]
    /\ used \in BOOLEAN

\* The routes hold proposals that exist.
RouteTypes ==
    /\ lapsed \subseteq 1 .. count
    /\ receipt \in [Requests -> 0 .. count]
    /\ route \in [Requests -> {"idle", "created", "drafted"}]
    /\ reply \in [Requests -> 0 .. count]
    /\ \A r \in Requests : route[r] # "idle" => reply[r] # 0
    /\ replies \in [Requests -> SUBSET (1 .. count)]

\* One proposal: it is its proposer's, and it stands as its votes say.
Right(p) ==
    /\ p <= count <=> status[p] # "NONE"
    /\ approvals[p] \cap refusals[p] = {}
    /\ p > count => approvals[p] = {} /\ refusals[p] = {}
    /\ p <= count => /\ origin[p] \in Requests
                     /\ Proposer(p) \in askers[p] /\ Proposer(p) \notin approvals[p]
    /\ refusals[p] # {} => status[p] \in {"REJECTED", "EXPIRED"}
    /\ status[p] = "APPROVED" => Cardinality(approvals[p] \ {Proposer(p)}) >= Required

ReviewInv == ReviewTypes /\ RouteTypes /\ \A p \in Ids : Right(p)

-----------------------------------------------------------------------------
(***************************************************************************)
(* Operators                                                               *)
(***************************************************************************)
\* Every set of proposals has an oldest one.
LEMMA OldestIsFirst ==
    ASSUME NEW ps \in SUBSET Nat, ps # {}
    PROVE  Oldest(ps) \in ps /\ \A q \in ps : Oldest(ps) <= q
<1> DEFINE Less == {ss \in Nat \X Nat : ss[1] < ss[2]}
<1>1. IsWellFoundedOn(Less, Nat)
  BY NatLessThanWellFounded DEF OpToRel
<1> HIDE DEF Less
<1>2. PICK p \in ps : \A q \in ps : ~(<<q, p>> \in Less)
  BY <1>1, WFMin
<1>3. \A q \in ps : p <= q
  <2> SUFFICES ASSUME NEW q \in ps PROVE p <= q
    OBVIOUS
  <2>1. p \in Nat /\ q \in Nat
    OBVIOUS
  <2>2. ~(q < p)
    BY <1>2, <2>1 DEF Less
  <2> QED BY <2>1, <2>2
<1> QED BY <1>3 DEF Oldest

\* What a request reuses exists and is active.
LEMMA ReusedIsActive ==
    ASSUME ReviewTypes, NEW r, NEW past, ActiveLike(r, past) # {}
    PROVE  /\ Oldest(ActiveLike(r, past)) \in 1 .. count
           /\ status[Oldest(ActiveLike(r, past))] \in Active
<1>1. ActiveLike(r, past) \in SUBSET Nat
  BY DEF ReviewTypes, ActiveLike
<1>2. Oldest(ActiveLike(r, past)) \in ActiveLike(r, past)
  BY <1>1, OldestIsFirst
<1> QED BY <1>2 DEF ActiveLike

LEMMA AnswerKeepsRoutes ==
    ASSUME RouteTypes, NEW r \in Requests, NEW p \in 1 .. count', Answer(r, p),
           count \in Nat, count' \in Nat, count <= count',
           lapsed' \subseteq 1 .. count', receipt' \in [Requests -> 0 .. count']
    PROVE  RouteTypes'
<1>1. route' \in [Requests -> {"idle", "created", "drafted"}]
  BY DEF RouteTypes, Answer
<1>2. reply' \in [Requests -> 0 .. count']
  BY DEF RouteTypes, Answer
<1>3. \A q \in Requests : route'[q] # "idle" => reply'[q] # 0
  BY DEF RouteTypes, Answer
<1>4. replies' \in [Requests -> SUBSET (1 .. count')]
  <2>1. replies \in [Requests -> SUBSET (1 .. count')]
    BY DEF RouteTypes
  <2> QED BY <2>1 DEF Answer
<1> QED BY <1>1, <1>2, <1>3, <1>4 DEF RouteTypes

LEMMA ReturnKeepsRoutes ==
    ASSUME RouteTypes, NEW r \in Requests, Returns(r) \/ UNCHANGED <<route, reply>>,
           UNCHANGED <<count, lapsed, receipt, replies>>, count \in Nat
    PROVE  RouteTypes'
BY DEF RouteTypes, Returns

\* What a step may do to a proposal that takes no vote.
Moves(p) ==
    \/ status'[p] = status[p]
    \/ status[p] # "NONE" /\ status'[p] = "EXPIRED"
    \/ status[p] = "DRAFT" /\ status'[p] = "PENDING_REVIEW"

LEMMA MovesKeepRight ==
    ASSUME ReviewInv, UNCHANGED <<requestVars, count, origin, voteVars>>,
           \A p \in Ids : Moves(p) /\ askers[p] \subseteq askers'[p]
    PROVE  \A p \in Ids : Right(p)'
<1> SUFFICES ASSUME NEW p \in Ids PROVE Right(p)'
  OBVIOUS
<1>1. Right(p) /\ Moves(p) /\ askers[p] \subseteq askers'[p]
  BY DEF ReviewInv
<1>2. Proposer(p)' = Proposer(p) /\ Required' = Required
  BY DEF Proposer, Required, requestVars
<1> QED BY <1>1, <1>2 DEF Right, Moves, voteVars

LEMMA SettledTypes ==
    ASSUME ReviewTypes, UNCHANGED <<requestVars, count, origin, voteVars, used>>,
           status' \in [Ids -> Statuses], askers' \in [Ids -> SUBSET (People \cup {Service})]
    PROVE  ReviewTypes'
BY DEF ReviewTypes, requestVars, voteVars

\* A step that moves, reuses or votes for nothing.
LEMMA RouteStep ==
    ASSUME ReviewInv, RouteTypes',
           UNCHANGED <<requestVars, count, status, origin, askers, voteVars, used>>
    PROVE  ReviewInv'
<1>1. ReviewTypes'
  BY DEF ReviewInv, ReviewTypes, requestVars, voteVars
<1>2. \A p \in Ids : Right(p)'
  BY MovesKeepRight DEF Moves
<1> QED BY <1>1, <1>2 DEF ReviewInv

-----------------------------------------------------------------------------
(***************************************************************************)
(* Steps                                                                   *)
(***************************************************************************)
LEMMA ReviewInitHolds == ReviewInit => ReviewInv
<1> SUFFICES ASSUME ReviewInit PROVE ReviewInv
  OBVIOUS
<1>0. 0 \in 0 .. MaxProposals /\ 0 \in 0 .. count /\ lapsed \subseteq 1 .. count
  BY ProposalsAssumption DEF ReviewInit
<1>1. ReviewTypes
  BY <1>0 DEF ReviewInit, ReviewTypes, Statuses
<1>2. RouteTypes
  BY <1>0 DEF ReviewInit, RouteTypes
<1>3. \A p \in Ids : Right(p)
  BY ProposalsAssumption DEF ReviewInit, Right, Ids
<1> QED BY <1>1, <1>2, <1>3 DEF ReviewInv

LEMMA ReplayHolds ==
    ASSUME ReviewInv, NEW r \in Requests, Replay(r) PROVE ReviewInv'
<1>1. count \in Nat /\ receipt[r] \in 1 .. count
  BY ProposalsAssumption DEF ReviewInv, ReviewTypes, RouteTypes, Replay
<1>2. RouteTypes'
  BY <1>1, AnswerKeepsRoutes DEF ReviewInv, RouteTypes, Replay
<1> QED BY <1>2, RouteStep DEF Replay

LEMMA ReuseHolds ==
    ASSUME ReviewInv, NEW r \in Requests, NEW past, Reuse(r, past) PROVE ReviewInv'
<1> DEFINE p == Oldest(ActiveLike(r, past))
<1>1. count \in Nat /\ p \in 1 .. count /\ p \in Ids
  BY ReusedIsActive, ProposalsAssumption DEF ReviewInv, ReviewTypes, Reuse, Ids
<1> HIDE DEF p
<1>2. /\ askers' = [askers EXCEPT ![p] = @ \cup {by[r]}]
      /\ receipt' = IF StoresReceipt(r) THEN [receipt EXCEPT ![r] = p] ELSE receipt
      /\ Answer(r, p)
      /\ UNCHANGED <<requestVars, count, status, origin, voteVars, lapsed, used>>
  BY DEF Reuse, p
<1>3. receipt' \in [Requests -> 0 .. count]
  BY <1>1, <1>2 DEF ReviewInv, RouteTypes
<1>4. RouteTypes'
  BY <1>1, <1>2, <1>3, AnswerKeepsRoutes DEF ReviewInv, RouteTypes
<1>5. /\ askers' \in [Ids -> SUBSET (People \cup {Service})]
      /\ \A q \in Ids : askers[q] \subseteq askers'[q]
  BY <1>1, <1>2 DEF ReviewInv, ReviewTypes
<1>6. ReviewTypes'
  BY <1>2, <1>5, SettledTypes DEF ReviewInv, ReviewTypes
<1>7. \A q \in Ids : Right(q)'
  BY <1>2, <1>5, MovesKeepRight DEF Moves
<1> QED BY <1>4, <1>6, <1>7 DEF ReviewInv

LEMMA CreateHolds ==
    ASSUME ReviewInv, NEW r \in Requests, NEW past, Create(r, past), NEW n, n = count + 1
    PROVE  ReviewInv'
<1>1. count \in Nat /\ n \in Ids /\ n \in 1 .. n
  BY ProposalsAssumption DEF ReviewInv, ReviewTypes, Create, Ids
<1>2. status' = [status EXCEPT ![n] = IF Deduplicates(r) THEN "DRAFT" ELSE "PENDING_REVIEW"]
  BY DEF Create
<1>3. /\ count' = n
      /\ origin' = [origin EXCEPT ![n] = r] /\ askers' = [askers EXCEPT ![n] = {by[r]}]
      /\ used' = (used \/ kind[r] = "SIGNAL")
      /\ receipt' = [receipt EXCEPT ![r] = n] /\ Answer(r, n)
      /\ UNCHANGED <<requestVars, voteVars, lapsed>>
  BY DEF Create
<1>4. n \in Nat /\ count <= n /\ \A q \in Ids \ {n} : q <= count <=> q <= n
  BY <1>1 DEF Ids
<1>5. ReviewTypes'
  <2>1. kind' \in [Requests -> Kinds] /\ by' \in [Requests -> People \cup {Service}]
        /\ high' \in BOOLEAN
    BY <1>3 DEF ReviewInv, ReviewTypes, requestVars
  <2>2. count' \in 0 .. MaxProposals /\ used' \in BOOLEAN
    BY <1>1, <1>3, ProposalsAssumption DEF ReviewInv, ReviewTypes, Ids
  <2>3. status' \in [Ids -> Statuses]
    BY <1>1, <1>2 DEF ReviewInv, ReviewTypes, Statuses, Active
  <2>4. origin' \in [Ids -> Requests \cup {None}]
    BY <1>1, <1>3 DEF ReviewInv, ReviewTypes
  <2>5. askers' \in [Ids -> SUBSET (People \cup {Service})]
    BY <1>1, <1>3 DEF ReviewInv, ReviewTypes
  <2>6. approvals' \in [Ids -> SUBSET People] /\ refusals' \in [Ids -> SUBSET People]
    BY <1>3 DEF ReviewInv, ReviewTypes, voteVars
  <2> QED BY <2>1, <2>2, <2>3, <2>4, <2>5, <2>6 DEF ReviewTypes
<1>6. RouteTypes'
  <2>1. lapsed' \subseteq 1 .. n /\ receipt' \in [Requests -> 0 .. n]
    BY <1>1, <1>3, <1>4 DEF ReviewInv, RouteTypes
  <2> QED BY <1>1, <1>3, <1>4, <2>1, AnswerKeepsRoutes DEF ReviewInv
<1>7. ASSUME NEW q \in Ids PROVE Right(q)'
  <2>1. CASE q = n
    <3>1. approvals[n] = {} /\ refusals[n] = {}
      <4>1. Right(n) /\ n > count
        BY <1>1 DEF ReviewInv
      <4> QED BY <4>1 DEF Right
    <3>2. approvals'[n] = {} /\ refusals'[n] = {}
      BY <1>3, <3>1 DEF voteVars
    <3>3. origin'[n] = r /\ askers'[n] = {by[r]} /\ status'[n] \in {"DRAFT", "PENDING_REVIEW"}
      BY <1>1, <1>2, <1>3 DEF ReviewInv, ReviewTypes
    <3>4. Proposer(n)' = by[r]
      BY <1>3, <3>3 DEF Proposer, requestVars
    <3> QED BY <1>1, <1>3, <1>4, <2>1, <3>2, <3>3, <3>4 DEF Right
  <2>2. CASE q # n
    <3>1. status'[q] = status[q] /\ origin'[q] = origin[q] /\ askers'[q] = askers[q]
          /\ approvals'[q] = approvals[q] /\ refusals'[q] = refusals[q]
      BY <1>2, <1>3, <2>2 DEF ReviewInv, ReviewTypes, voteVars
    <3>2. Proposer(q)' = Proposer(q) /\ Required' = Required
      BY <1>3, <3>1 DEF Proposer, Required, requestVars
    <3>3. q <= count <=> q <= count'
      BY <1>3, <1>4, <2>2
    <3>4. q > count <=> ~(q <= count)
      BY <1>1 DEF Ids
    <3>5. q > n <=> ~(q <= n)
      BY <1>4 DEF Ids
    <3> QED BY <1>3, <3>1, <3>2, <3>3, <3>4, <3>5 DEF Right, ReviewInv
  <2> QED BY <2>1, <2>2
<1> QED BY <1>5, <1>6, <1>7 DEF ReviewInv

LEMMA ReadOrStopHolds ==
    ASSUME ReviewInv, NEW r \in Requests, Read(r) \/ Stop(r) PROVE ReviewInv'
<1>1. count \in Nat
  BY ProposalsAssumption DEF ReviewInv, ReviewTypes
<1>2. CASE Returns(r) /\ UNCHANGED <<count, lapsed, receipt, replies>>
  <2>1. RouteTypes'
    BY <1>1, <1>2, ReturnKeepsRoutes DEF ReviewInv
  <2> QED BY <2>1, RouteStep DEF Read, Stop
<1>3. CASE route[r] = "created" /\ route' = [route EXCEPT ![r] = "drafted"] /\ UNCHANGED reply
           /\ UNCHANGED <<count, lapsed, receipt, replies>>
  <2>1. RouteTypes'
    BY <1>3 DEF ReviewInv, RouteTypes
  <2> QED BY <2>1, RouteStep DEF Read, Stop
<1> QED BY <1>2, <1>3 DEF Read, Stop

LEMMA SubmitHolds ==
    ASSUME ReviewInv, NEW r \in Requests, NEW expired \in SUBSET lapsed, Submit(r, expired)
    PROVE  ReviewInv'
<1> SUFFICES ASSUME NEW p, p = reply[r] PROVE ReviewInv'
  OBVIOUS
<1>1. count \in Nat /\ p \in 1 .. count /\ p \in Ids
  BY ProposalsAssumption DEF ReviewInv, ReviewTypes, RouteTypes, Submit, Ids
<1>2. /\ \/ status' = status
         \/ status' = [status EXCEPT ![p] = "EXPIRED"]
         \/ status[p] = "DRAFT" /\ status' = [status EXCEPT ![p] = "PENDING_REVIEW"]
      /\ Returns(r)
      /\ UNCHANGED <<requestVars, count, origin, askers, voteVars, lapsed, used, receipt, replies>>
  BY DEF Submit
<1>3. status[p] # "NONE"
  <2>1. Right(p) /\ p <= count
    BY <1>1 DEF ReviewInv
  <2> QED BY <2>1 DEF Right
<1>4. status' \in [Ids -> Statuses] /\ \A q \in Ids : Moves(q)
  BY <1>1, <1>2, <1>3 DEF ReviewInv, ReviewTypes, Moves, Statuses, Active
<1>5. RouteTypes'
  BY <1>1, <1>2, ReturnKeepsRoutes DEF ReviewInv
<1>6. ReviewTypes'
  BY <1>2, <1>4, SettledTypes DEF ReviewInv, ReviewTypes
<1>7. \A q \in Ids : Right(q)'
  BY <1>2, <1>4, MovesKeepRight
<1> QED BY <1>5, <1>6, <1>7 DEF ReviewInv

LEMMA ExpireInReviewHolds ==
    ASSUME ReviewInv, NEW u, NEW p \in Ids, ExpireInReview(u, p) PROVE ReviewInv'
<1>1. /\ status' = [status EXCEPT ![p] = "EXPIRED"] /\ p <= count
      /\ UNCHANGED <<requestVars, count, origin, askers, voteVars, lapsed, used, receipt,
                     routeVars>>
  BY DEF ExpireInReview
<1>2. status' \in [Ids -> Statuses] /\ \A q \in Ids : Moves(q)
  BY <1>1 DEF ReviewInv, ReviewTypes, Moves, Right, Statuses
<1>3. RouteTypes'
  BY <1>1 DEF ReviewInv, RouteTypes, routeVars
<1>4. ReviewTypes'
  BY <1>1, <1>2, SettledTypes DEF ReviewInv, ReviewTypes
<1>5. \A q \in Ids : Right(q)'
  BY <1>1, <1>2, MovesKeepRight
<1> QED BY <1>3, <1>4, <1>5 DEF ReviewInv

LEMMA ConsolidateHolds ==
    ASSUME ReviewInv, NEW r \in Requests, NEW past, Consolidate(r, past) PROVE ReviewInv'
<1> DEFINE ps == ActiveLike(r, past)
<1>1. /\ status' = [p \in Ids |-> IF p \in Surplus(ps) THEN "EXPIRED" ELSE status[p]]
      /\ askers' = IF kind[r] = "SYSTEM" THEN askers
                   ELSE [askers EXCEPT ![Canonical(ps)] = @ \cup {Proposer(p) : p \in Surplus(ps)}]
      /\ UNCHANGED <<requestVars, count, origin, voteVars, lapsed, used, receipt, routeVars>>
  BY DEF Consolidate
<1>2. \A p \in Surplus(ps) : p \in Ids /\ p <= count
  BY ProposalsAssumption DEF Surplus, ActiveLike, Ids, ReviewInv, ReviewTypes
<1>3. \A p \in Surplus(ps) : status[p] # "NONE" /\ Proposer(p) \in People \cup {Service}
  BY <1>2 DEF ReviewInv, ReviewTypes, Right, Proposer
<1>4. {Proposer(p) : p \in Surplus(ps)} \subseteq People \cup {Service}
  BY <1>3
<1> HIDE DEF ps
<1>5. status' \in [Ids -> Statuses] /\ \A q \in Ids : Moves(q)
  BY <1>1, <1>3 DEF ReviewInv, ReviewTypes, Moves, Statuses
<1>6. /\ askers' \in [Ids -> SUBSET (People \cup {Service})]
      /\ \A q \in Ids : askers[q] \subseteq askers'[q]
  BY <1>1, <1>4 DEF ReviewInv, ReviewTypes
<1>7. RouteTypes'
  BY <1>1 DEF ReviewInv, RouteTypes, routeVars
<1>8. ReviewTypes'
  BY <1>1, <1>5, <1>6, SettledTypes DEF ReviewInv
<1>9. \A q \in Ids : Right(q)'
  BY <1>1, <1>5, <1>6, MovesKeepRight
<1> QED BY <1>7, <1>8, <1>9 DEF ReviewInv

LEMMA VoteHolds ==
    ASSUME ReviewInv, NEW u \in People, NEW p \in Ids, Approve(u, p) \/ Reject(u, p)
    PROVE  ReviewInv'
<1>1. /\ p <= count /\ u # Proposer(p) /\ status[p] = "PENDING_REVIEW"
      /\ u \notin approvals[p] /\ u \notin refusals[p] /\ refusals[p] = {}
      /\ UNCHANGED <<requestVars, count, origin, askers, lapsed, used, receipt, routeVars>>
  BY DEF ReviewInv, Right, Approve, Reject, Votes, MayReview, Reviewable, FirstVote
<1>2. RouteTypes'
  BY <1>1 DEF ReviewInv, RouteTypes, routeVars
<1>3. \A q \in Ids : Proposer(q)' = Proposer(q) /\ Required' = Required
  BY <1>1 DEF Proposer, Required, requestVars
<1>4. /\ status' \in [Ids -> Statuses]
      /\ approvals' \in [Ids -> SUBSET People] /\ refusals' \in [Ids -> SUBSET People]
  BY DEF ReviewInv, ReviewTypes, Approve, Reject, Statuses
<1>5. \A q \in Ids \ {p} : /\ status'[q] = status[q]
                           /\ approvals'[q] = approvals[q] /\ refusals'[q] = refusals[q]
  BY DEF ReviewInv, ReviewTypes, Approve, Reject
<1>6. Right(p)'
  <2>1. CASE Approve(u, p)
    <3>1. approvals'[p] = approvals[p] \cup {u} /\ refusals' = refusals
      BY <2>1 DEF ReviewInv, ReviewTypes, Approve
    <3>2. status'[p] = IF Cardinality(approvals'[p]) >= Required THEN "APPROVED" ELSE status[p]
      BY <2>1 DEF ReviewInv, ReviewTypes, Approve
    <3>3. approvals'[p] \ {Proposer(p)} = approvals'[p]
      BY <1>1, <3>1 DEF ReviewInv, Right
    <3>4. status'[p] = "APPROVED" => Cardinality(approvals'[p] \ {Proposer(p)}) >= Required
      BY <1>1, <3>2, <3>3
    <3>5. Proposer(p) \notin approvals'[p]
      BY <1>1, <3>1 DEF ReviewInv, Right
    <3>6. p <= count /\ status'[p] # "NONE" /\ ~(p > count)
      BY <1>1, <3>2, ProposalsAssumption DEF ReviewInv, ReviewTypes, Ids
    <3> QED BY <1>1, <1>3, <3>1, <3>4, <3>5, <3>6 DEF Right, ReviewInv
  <2>2. CASE Reject(u, p)
    <3>1. /\ refusals'[p] = refusals[p] \cup {u} /\ approvals' = approvals
          /\ status'[p] = "REJECTED"
      BY <2>2 DEF ReviewInv, ReviewTypes, Reject
    <3>2. p <= count /\ ~(p > count)
      BY <1>1, ProposalsAssumption DEF ReviewInv, ReviewTypes, Ids
    <3> QED BY <1>1, <1>3, <3>1, <3>2 DEF Right, ReviewInv
  <2> QED BY <2>1, <2>2
<1>7. ReviewTypes'
  BY <1>1, <1>4 DEF ReviewInv, ReviewTypes, requestVars
<1>8. ASSUME NEW q \in Ids \ {p} PROVE Right(q)'
  BY <1>1, <1>3, <1>5 DEF Right, ReviewInv
<1> QED BY <1>2, <1>6, <1>7, <1>8 DEF ReviewInv

LEMMA LapseHolds ==
    ASSUME ReviewInv, NEW p \in Ids, Lapse(p) PROVE ReviewInv'
<1>1. RouteTypes'
  BY ProposalsAssumption DEF ReviewInv, ReviewTypes, RouteTypes, Lapse, routeVars, Ids
<1> QED BY <1>1, RouteStep DEF Lapse

LEMMA ReviewNextHolds == ReviewInv /\ [ReviewNext]_reviewVars => ReviewInv'
<1>1. ASSUME ReviewInv, UNCHANGED reviewVars PROVE ReviewInv'
  <2>1. RouteTypes'
    BY <1>1 DEF ReviewInv, RouteTypes, reviewVars, routeVars
  <2> QED BY <1>1, <2>1, RouteStep DEF reviewVars
<1>2. ASSUME ReviewInv, NEW r \in Requests, NEW past, Create(r, past) PROVE ReviewInv'
  BY <1>2, CreateHolds
<1> QED
  BY <1>1, ReplayHolds, ReuseHolds, <1>2, ReadOrStopHolds, SubmitHolds,
     ExpireInReviewHolds, ConsolidateHolds, VoteHolds, LapseHolds
  DEF ReviewNext

LEMMA ReviewInvariance == ReviewSpec => []ReviewInv
BY ReviewInitHolds, ReviewNextHolds, PTL DEF ReviewSpec

\* Every state component has its type, a proposal stands as its votes say, and a person has one
\* vote on it (create_proposal, submit_proposal, review_proposal, the consolidation at startup).
THEOREM ReviewTypesHold == ReviewSpec => []ReviewTypeOK
<1>1. ReviewInv => ReviewTypeOK
  <2> SUFFICES ASSUME ReviewInv PROVE ReviewTypeOK
    OBVIOUS
  <2>1. count \in Nat /\ count <= MaxProposals /\ MaxProposals \in Nat
    BY ProposalsAssumption DEF ReviewInv, ReviewTypes
  <2>2. 1 .. count \subseteq Ids /\ 0 .. count \subseteq 0 .. MaxProposals
    BY <2>1 DEF Ids
  <2>3. lapsed \subseteq Ids /\ replies \in [Requests -> SUBSET Ids]
    BY <2>2 DEF ReviewInv, RouteTypes
  <2>4. receipt \in [Requests -> 0 .. MaxProposals] /\ reply \in [Requests -> 0 .. MaxProposals]
    BY <2>2 DEF ReviewInv, RouteTypes
  <2>5. \A p \in Ids : /\ p <= count <=> status[p] # "NONE"
                       /\ approvals[p] \cap refusals[p] = {}
    BY DEF ReviewInv, Right
  <2> QED BY <2>3, <2>4, <2>5 DEF ReviewInv, ReviewTypes, RouteTypes, ReviewTypeOK, Statuses
<1> QED BY <1>1, ReviewInvariance, PTL

\* An approved proposal was approved by as many others as its tier asks for, and refused by nobody,
\* for any number of people, requests and proposals (review_proposal under the proposal's row lock).
THEOREM ApprovalsHold == ReviewSpec => []ApprovedByOthers
<1>1. ReviewInv => ApprovedByOthers
  <2> SUFFICES ASSUME ReviewInv, NEW p \in 1 .. count, status[p] = "APPROVED"
               PROVE  /\ Cardinality(approvals[p] \ {Proposer(p)}) >= IF high THEN 2 ELSE 1
                      /\ Proposer(p) \notin approvals[p]
                      /\ refusals[p] = {}
    BY DEF ApprovedByOthers
  <2>1. p \in Ids /\ p <= count
    BY ProposalsAssumption DEF ReviewInv, ReviewTypes, Ids
  <2>2. Right(p)
    BY <2>1 DEF ReviewInv
  <2> QED BY <2>1, <2>2 DEF Right, Required
<1> QED BY <1>1, ReviewInvariance, PTL

-----------------------------------------------------------------------------
(***************************************************************************)
(* One proposal, one answer                                                *)
(***************************************************************************)
\* A proposal that is active now was active ever since; and the ones a manual request created
\* found none to reuse.
OneInv ==
    /\ OneProposalEach
    /\ \A p \in 1 .. count : kind[origin[p]] = "SIGNAL" => used

\* A step that creates nothing makes no decided proposal active again.
LEMMA NothingReopens ==
    ASSUME ReviewInv, OneInv, count' = count, kind' = kind, origin' = origin, used' = used,
           lapsed \subseteq lapsed',
           \A p \in 1 .. count : status'[p] \in Active => status[p] \in Active
    PROVE  OneInv'
BY DEF OneInv, OneProposalEach, IsManual

LEMMA CreatesOne ==
    ASSUME ReviewInv, OneInv, NEW r \in Requests, NEW past \in SUBSET lapsed, Create(r, past)
    PROVE  OneInv'
<1>1. /\ count \in Nat /\ count' = count + 1 /\ count + 1 \in Ids
      /\ \A p \in 1 .. count' : p \in 1 .. count \/ p = count + 1
      /\ \A p \in 1 .. count : p \in Ids /\ p # count + 1 /\ p < count + 1
  BY ProposalsAssumption DEF ReviewInv, ReviewTypes, Create, Ids
<1>2. /\ \A p \in 1 .. count : origin'[p] = origin[p] /\ status'[p] = status[p]
      /\ origin'[count + 1] = r
      /\ kind' = kind /\ lapsed' = lapsed /\ used' = (used \/ kind[r] = "SIGNAL")
  BY <1>1 DEF ReviewInv, ReviewTypes, Create, requestVars
<1>3. ASSUME NEW p \in 1 .. count, kind[r] = "MANUAL", IsManual(origin[p]), status[p] \in Active
      PROVE  p \in lapsed
  BY <1>3 DEF Create, Deduplicates, ActiveLike, SameSource
<1>4. ASSUME NEW p \in 1 .. count, kind[r] = "SIGNAL" PROVE kind[origin[p]] # "SIGNAL"
  BY <1>4 DEF OneInv, Create, SignalUnused
<1>5. \A p \in 1 .. count' : kind'[origin'[p]] = "SIGNAL" => used'
  BY <1>1, <1>2 DEF OneInv
<1>6. OneProposalEach'
  <2> SUFFICES ASSUME NEW p \in 1 .. count', NEW q \in 1 .. count', p < q
               PROVE  /\ IsManual(origin[p])' /\ kind'[origin'[q]] = "MANUAL"
                         /\ status'[p] \in Active => p \in lapsed'
                      /\ ~(kind'[origin'[p]] = "SIGNAL" /\ kind'[origin'[q]] = "SIGNAL")
    BY DEF OneProposalEach
  <2>1. p \in 1 .. count
    BY <1>1
  <2>2. IsManual(origin[p])' <=> IsManual(origin[p])
    BY <1>2, <2>1 DEF IsManual
  <2>3. CASE q \in 1 .. count
    BY <1>2, <2>1, <2>2, <2>3 DEF OneInv, OneProposalEach
  <2>4. CASE q = count + 1
    BY <1>2, <1>3, <1>4, <2>1, <2>2, <2>4
  <2> QED BY <1>1, <2>3, <2>4
<1> QED BY <1>5, <1>6 DEF OneInv

\* What each other step leaves of these.
LEMMA OthersReopenNothing ==
    ASSUME ReviewInv, [ReviewNext]_reviewVars,
           ~\E r \in Requests, past \in SUBSET lapsed : Create(r, past)
    PROVE  /\ count' = count /\ kind' = kind /\ origin' = origin /\ used' = used
           /\ lapsed \subseteq lapsed'
           /\ \A p \in 1 .. count : status'[p] \in Active => status[p] \in Active
<1> DEFINE Goal == /\ UNCHANGED <<count, kind, origin, used>> /\ lapsed \subseteq lapsed'
                   /\ \A p \in 1 .. count : status'[p] \in Active => status[p] \in Active
<1>0. 1 .. count \subseteq Ids
  BY ProposalsAssumption DEF ReviewInv, ReviewTypes, Ids
<1>1. ASSUME NEW r \in Requests, NEW past,
             Replay(r) \/ Read(r) \/ Stop(r) \/ Reuse(r, past)
      PROVE  Goal
  BY <1>1 DEF Replay, Read, Stop, Reuse, requestVars
<1>2. ASSUME NEW r \in Requests, NEW past, Submit(r, past) PROVE Goal
  <2>1. UNCHANGED <<count, requestVars, origin, used, lapsed>>
    BY <1>2 DEF Submit
  <2>2. \A p \in 1 .. count : status'[p] \in Active => status[p] \in Active
    BY <1>0, <1>2 DEF Submit, ReviewInv, ReviewTypes, Active
  <2> QED BY <2>1, <2>2 DEF requestVars
<1>3. ASSUME NEW r \in Requests, NEW past, Consolidate(r, past) PROVE Goal
  BY <1>0, <1>3 DEF Consolidate, requestVars, Active
<1>4. ASSUME NEW u, NEW p \in Ids, ExpireInReview(u, p) \/ Reject(u, p) PROVE Goal
  BY <1>0, <1>4 DEF ExpireInReview, Reject, Votes, ReviewInv, ReviewTypes, requestVars, Active
<1>5. ASSUME NEW u, NEW p \in Ids, Approve(u, p) PROVE Goal
  BY <1>0, <1>5 DEF Approve, Votes, ReviewInv, ReviewTypes, requestVars, Active
<1>6. ASSUME NEW p \in Ids, Lapse(p) PROVE Goal
  BY <1>6 DEF Lapse, requestVars
<1>7. ASSUME UNCHANGED reviewVars PROVE Goal
  BY <1>7 DEF reviewVars, requestVars
<1> HIDE DEF Goal
<1>8. Goal
  BY <1>1, <1>2, <1>3, <1>4, <1>5, <1>6, <1>7 DEF ReviewNext
<1> QED BY <1>8 DEF Goal

\* Of two active unexpired proposals of one trade the later was not made by a manual request that
\* could have reused the earlier, and a signal gives one proposal, for any number of requests
\* (create_proposal under its advisory lock, and the unique use of a signal).
THEOREM OneProposalHolds == ReviewSpec => []OneProposalEach
<1>1. ReviewInit => OneInv
  BY DEF ReviewInit, OneInv, OneProposalEach
<1>2. ReviewInv /\ OneInv /\ [ReviewNext]_reviewVars => OneInv'
  BY NothingReopens, CreatesOne, OthersReopenNothing
<1>3. OneInv => OneProposalEach
  BY DEF OneInv
<1> QED BY <1>1, <1>2, <1>3, ReviewInvariance, PTL DEF ReviewSpec

\* A request that is not the runtime's is answered from its receipt once it has one.
AnswersInv ==
    \A r \in Requests : kind[r] # "SYSTEM" =>
        /\ replies[r] \subseteq {receipt[r]}
        /\ receipt[r] = 0 => replies[r] = {}

LEMMA AnswersKept ==
    ASSUME ReviewInv, AnswersInv, [ReviewNext]_reviewVars PROVE AnswersInv'
<1> DEFINE Same == UNCHANGED <<kind, receipt, replies>>
<1>0. Same => AnswersInv'
  BY DEF AnswersInv
<1>1. ASSUME NEW r \in Requests, NEW p, kind' = kind, Answer(r, p),
             kind[r] # "SYSTEM" => receipt' = [receipt EXCEPT ![r] = p] /\ receipt[r] \in {0, p}
                                   /\ p # 0,
             kind[r] = "SYSTEM" => \A s \in Requests \ {r} : receipt'[s] = receipt[s]
      PROVE  AnswersInv'
  <2> SUFFICES ASSUME NEW s \in Requests, kind[s] # "SYSTEM"
               PROVE  replies'[s] \subseteq {receipt'[s]} /\ (receipt'[s] = 0 => replies'[s] = {})
    BY <1>1 DEF AnswersInv
  <2>1. replies[s] \subseteq {receipt[s]} /\ (receipt[s] = 0 => replies[s] = {})
    BY DEF AnswersInv
  <2>2. CASE s = r
    <3>1. replies'[r] = replies[r] \cup {p} /\ receipt'[r] = p
      BY <1>1, <2>2 DEF Answer, ReviewInv, RouteTypes
    <3> QED BY <1>1, <2>1, <2>2, <3>1
  <2>3. CASE s # r
    <3>1. replies'[s] = replies[s] /\ receipt'[s] = receipt[s]
      BY <1>1, <2>3 DEF Answer, ReviewInv, RouteTypes
    <3> QED BY <2>1, <3>1
  <2> QED BY <2>2, <2>3
<1>2. ASSUME NEW r \in Requests, Replay(r) PROVE AnswersInv'
  BY <1>1, <1>2 DEF Replay, ReviewInv, RouteTypes, requestVars
<1>3. ASSUME NEW r \in Requests, NEW past, Reuse(r, past) PROVE AnswersInv'
  <2>1. Oldest(ActiveLike(r, past)) # 0
    BY <1>3, ReusedIsActive DEF ReviewInv, Reuse
  <2> QED BY <1>1, <1>3, <2>1 DEF Reuse, StoresReceipt, requestVars
<1>4. ASSUME NEW r \in Requests, NEW past, Create(r, past) PROVE AnswersInv'
  <2>1. count + 1 # 0
    BY ProposalsAssumption DEF ReviewInv, ReviewTypes
  <2> QED BY <1>1, <1>4, <2>1 DEF Create, ReviewInv, RouteTypes, requestVars
<1>5. ASSUME NEW r \in Requests, NEW past,
             Read(r) \/ Stop(r) \/ Submit(r, past) \/ Consolidate(r, past)
      PROVE  Same
  BY <1>5 DEF Read, Stop, Submit, Consolidate, requestVars, routeVars
<1>6. ASSUME NEW u, NEW p, ExpireInReview(u, p) \/ Approve(u, p) \/ Reject(u, p) PROVE Same
  BY <1>6 DEF ExpireInReview, Approve, Reject, Votes, requestVars, routeVars
<1>7. ASSUME NEW p, Lapse(p) PROVE Same
  BY <1>7 DEF Lapse, requestVars, routeVars
<1>8. ASSUME UNCHANGED reviewVars PROVE Same
  BY <1>8 DEF reviewVars, requestVars, routeVars
<1> HIDE DEF Same
<1> QED
  BY <1>0, <1>2, <1>3, <1>4, <1>5, <1>6, <1>7, <1>8 DEF ReviewNext

\* However often a person's or an agent's request is sent, it is answered with one proposal
\* (save_receipt in both branches of create_proposal).
THEOREM AnswersHold == ReviewSpec => []AnsweredWithOne
<1>1. ReviewInit => AnswersInv
  BY DEF ReviewInit, AnswersInv
<1>2. AnswersInv => AnsweredWithOne
  <2> SUFFICES ASSUME AnswersInv, NEW r \in Requests, kind[r] # "SYSTEM"
               PROVE  Cardinality(replies[r]) <= 1
    BY DEF AnsweredWithOne
  <2>1. replies[r] \in SUBSET {receipt[r]}
    BY DEF AnswersInv
  <2>2. IsFiniteSet({receipt[r]}) /\ Cardinality({receipt[r]}) = 1
    BY FS_Singleton
  <2>3. Cardinality(replies[r]) <= Cardinality({receipt[r]})
    BY <2>1, <2>2, FS_Subset
  <2> QED BY <2>2, <2>3
<1> QED BY <1>1, <1>2, AnswersKept, ReviewInvariance, PTL DEF ReviewSpec
===============================================================================
