---------------------------- MODULE MCReviewDesk ----------------------------
(***************************************************************************)
(* What follows from a proposal: reviewers are told of it and vote, and    *)
(* an approved one takes risk.  Four instances in one run, three of        *)
(* TelegramReview and one of NewRisk.                                      *)
(*                                                                         *)
(* "outbox": the deliveries alone, on one route that is configured and     *)
(* deleted while two handlers queue the event and two workers send it.     *)
(* "choice": one reviewer of two minds.  "pair": two reviewers who both    *)
(* approve.  In the last two, one handler and one worker send what is      *)
(* queued, and the reviewers press once all has been transmitted.          *)
(*                                                                         *)
(* "risk": one proposal asked for twice; two proposals in one scope; one   *)
(* in each environment; and additions to one campaign.                     *)
(***************************************************************************)
EXTENDS TelegramReview, NewRisk, TLC

CONSTANTS
    Route, Queuer, Worker, Decision,  \* one of each
    a1, a2, i1, i2, d1,  \* two authorizations, two initial intents, an addition
    p1, p2, p3

VARIABLE focus

MCEnvironment == p1 :> "LIVE" @@ p2 :> "LIVE" @@ p3 :> "TESTNET"
MCScope == p1 :> "a" @@ p2 :> "a" @@ p3 :> "b"
MCLimits == {<<3, 3>>, <<2, 1>>}

deskVars == <<reviewVars, riskVars, focus>>

Op(second) == a1 :> "ISSUE" @@ a2 :> "ISSUE" @@ i1 :> "INITIAL" @@ i2 :> second @@ d1 :> "ADD"
Of(other, add) == a1 :> p1 @@ a2 :> other @@ i1 :> p1 @@ i2 :> other @@ d1 :> add

Scenarios ==
    {<<Op("INITIAL"), Of(p1, p2)>>, <<Op("INITIAL"), Of(p2, p3)>>, <<Op("INITIAL"), Of(p3, p2)>>,
     <<Op("ADD"), [Of(p1, p1) EXCEPT ![a2] = p3]>>}

DeskInit ==
    /\ \E s \in Scenarios : op = s[1] /\ of = s[2]
    /\ ReviewInit /\ RiskInit
    /\ \/ focus \in {"outbox", "choice"} /\ enabled = {Route}
       \/ focus \in {"pair", "risk"} /\ enabled = Routes
    /\ IF focus = "risk" THEN mode = "TESTNET" => of[i2] = p3
       ELSE /\ of = Of(p1, p2) /\ mode = "LIVE"
            /\ total = 3

OutboxStep ==
    /\ Next /\ UNCHANGED botVars
    /\ \A r \in Routes \ {Route} : version'[r] = 1

\* The last result may not be recorded yet.
Transmitted ==
    /\ seen[Queuer] = {}
    /\ \A d \in 1 .. queued : /\ status[d] # "PENDING"
                              /\ status[d] = "SENDING" => worker[Worker] = "answered"

BotStep ==
    /\ ReviewNext /\ (Transmitted \/ UNCHANGED botVars)
    /\ \A q \in Queuers \ {Queuer} : seen'[q] = None
    /\ \A w \in Workers \ {Worker} : worker'[w] = "idle"
    /\ \A d \in Deliveries : status'[d] \notin {"CANCELLED", "DEAD_LETTER", "RETRY_WAIT"}
    /\ answer'[Worker] \in {"none", "sent", "unknown"}
    /\ focus = "pair" => \A p \in updates' : p[3] = Decision
    /\ UNCHANGED routeVars

\* Three units are of use where an authorization is added to.
RiskStep ==
    /\ RiskNext
    /\ op[d1] = "ADD" /\ of[d1] # p1 => \A c \in Calls : grant'[c] <= 2

DeskNext ==
    /\ UNCHANGED focus
    /\ CASE focus = "outbox" -> OutboxStep /\ UNCHANGED riskVars
         [] focus \in {"choice", "pair"} -> BotStep /\ UNCHANGED riskVars
         [] focus = "risk" -> RiskStep /\ UNCHANGED reviewVars

DeskSpec == DeskInit /\ [][DeskNext]_deskVars /\ Fairness

\* The type invariants of the three modules.
DeskTypesOK == TypeOK /\ BotTypeOK /\ RiskTypeOK
=============================================================================
