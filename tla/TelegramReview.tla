--------------------------- MODULE TelegramReview ---------------------------
(***************************************************************************)
(* Reviewing a proposal from a Telegram prompt: the deliveries of          *)
(* Notifications, the buttons on the message that arrived, and the bot     *)
(* that handles their presses one after the other.                         *)
(*                                                                         *)
(* A route is the private chat of one reviewer.  A press of APPROVE or     *)
(* REJECT replaces the buttons by confirm and cancel; a press of confirm   *)
(* records the vote.  Buttons are resolved against the present delivery,   *)
(* route and proposal, save that a confirmation the bot has shown stays    *)
(* in its memory and is used as it was: cancelling does not remove it (it  *)
(* is looked for under another key).  Telegram delivers a press again when *)
(* the bot restarts before its next poll acknowledged it; editing a        *)
(* message may fail.  Reviews elsewhere and expiry change the proposal's   *)
(* version.                                                                *)
(***************************************************************************)
EXTENDS Notifications

CONSTANTS
    Decisions,   \* APPROVE and REJECT
    MaxUpdates   \* bound on the presses Telegram keeps

ASSUME ReviewAssumption ==
    MaxUpdates \in Nat /\ {"none", "source"} \cap Decisions = {}

Press == Deliveries \X {"source", "confirm", "cancel"} \X Decisions

VARIABLES
    card,      \* the buttons a message shows: "source", a decision to confirm, or "none"
    confirmed, \* every press of a confirmation
    updates,   \* presses the bot has yet to handle
    handled,   \* presses it handled since its last poll
    memory,    \* the confirmations in the bot's memory
    moved,     \* the proposal is no longer at the version that was prompted for
    vote       \* what each chat's reviewer voted through the bot

botVars == <<card, confirmed, updates, handled, memory, moved, vote>>
reviewVars == <<vars, botVars>>

ReviewInit ==
    /\ Init
    /\ card = [d \in Deliveries |-> "none"]
    /\ confirmed = {} /\ updates = {} /\ handled = {} /\ memory = {}
    /\ moved = FALSE
    /\ vote = [r \in Routes |-> "none"]

-----------------------------------------------------------------------------
\* The message arrives with its buttons, unless the reviewer may not vote any more.
CardArrives(d) ==
    /\ arrived[d] > 0 /\ card[d] = "none" /\ ~moved
    /\ card' = [card EXCEPT ![d] = "source"]
    /\ UNCHANGED <<vars, confirmed, updates, handled, memory, moved, vote>>

\* The buttons of a message, by what it shows.
Buttons(d) ==
    IF card[d] = "source" THEN {d} \X {"source"} \X Decisions
    ELSE {<<d, stage, card[d]>> : stage \in {"confirm", "cancel"}}

PressButton(d) ==
    /\ card[d] # "none" /\ Cardinality(updates \cup handled) < MaxUpdates
    /\ \E p \in Buttons(d) :
          /\ updates' = updates \cup {p}
          /\ confirmed' = IF p[2] = "confirm" THEN confirmed \cup {<<d, p[3]>>} ELSE confirmed
    /\ UNCHANGED <<vars, card, handled, memory, moved, vote>>

Takes(p) ==
    /\ p \in updates /\ updates' = updates \ {p} /\ handled' = handled \cup {p}

\* The message is edited, or stays as it is when the call fails.
Edit(d, shows) == card' = card \/ card' = [card EXCEPT ![d] = shows]

\* Fault: a prompt whose delivery was never confirmed is good enough.
AnyDelivery(d) == TRUE
Delivered(d) == status[d] = "SENT"
\* What a durable button is resolved against.
Resolves(d) == Delivered(d) /\ Routed(d) /\ ~moved

HandleSource(d, a) ==
    /\ Takes(<<d, "source", a>>)
    /\ IF Resolves(d)
       THEN memory' = memory \cup {<<d, a>>} /\ Edit(d, a)
       ELSE UNCHANGED <<memory, card>>
    /\ UNCHANGED <<vars, confirmed, moved, vote>>

\* A confirmation in memory is not resolved again.
Known(d, a) == <<d, a>> \in memory \/ Resolves(d)

HandleCancel(d, a) ==
    /\ Takes(<<d, "cancel", a>>)
    /\ IF Known(d, a) THEN Edit(d, "source") ELSE UNCHANGED card
    /\ UNCHANGED <<vars, confirmed, memory, moved, vote>>

Accepts(r) == ~moved /\ vote[r] = "none"

HandleConfirm(d, a) ==
    /\ Takes(<<d, "confirm", a>>)
    /\ IF Known(d, a)
       THEN /\ Edit(d, "none")
            /\ IF Accepts(route[d])
               THEN vote' = [vote EXCEPT ![route[d]] = a] /\ moved' = TRUE
               ELSE UNCHANGED <<vote, moved>>
       ELSE UNCHANGED <<card, vote, moved>>
    /\ UNCHANGED <<vars, confirmed, memory>>

\* The next poll acknowledges what was handled.
Poll ==
    /\ handled # {} /\ handled' = {}
    /\ UNCHANGED <<vars, card, confirmed, updates, memory, moved, vote>>

Restart ==
    /\ handled # {} \/ memory # {}
    /\ memory' = {} /\ updates' = updates \cup handled /\ handled' = {}
    /\ UNCHANGED <<vars, card, confirmed, moved, vote>>

\* A review on the web, a cleanup or the expiry of the proposal.
ChangesElsewhere ==
    /\ ~moved /\ moved' = TRUE
    /\ UNCHANGED <<vars, card, confirmed, updates, handled, memory, vote>>

BotNext ==
    \/ \E d \in Deliveries : CardArrives(d) \/ PressButton(d)
    \/ \E d \in Deliveries, a \in Decisions :
          HandleSource(d, a) \/ HandleCancel(d, a) \/ HandleConfirm(d, a)
    \/ Poll \/ Restart \/ ChangesElsewhere

ReviewNext ==
    \/ Next /\ UNCHANGED botVars
    \/ BotNext

ReviewSpec == ReviewInit /\ [][ReviewNext]_reviewVars

-----------------------------------------------------------------------------
\* Every state component of the bot has its type; its memory is of messages known to have arrived.
BotTypeOK ==
    /\ card \in [Deliveries -> {"none", "source"} \cup Decisions]
    /\ updates \cup handled \subseteq Press
    /\ confirmed \subseteq Deliveries \X Decisions
    /\ memory \subseteq Deliveries \X Decisions /\ \A m \in memory : status[m[1]] = "SENT"
    /\ moved \in BOOLEAN /\ vote \in [Routes -> {"none"} \cup Decisions]

\* A vote through the bot was confirmed by a press on a message that is known to have been
\* delivered to the voter, across restarts, repeated updates and failed edits.
VotedOnItsPrompt ==
    \A r \in Routes : vote[r] # "none" =>
        \E d \in 1 .. queued :
            /\ route[d] = r /\ status[d] = "SENT" /\ arrived[d] = 1
            /\ <<d, vote[r]>> \in confirmed
=============================================================================
