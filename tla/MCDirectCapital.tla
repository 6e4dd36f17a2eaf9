-------------------------- MODULE MCDirectCapital --------------------------
(***************************************************************************)
(* The two ways of moving capital, in one run of three instances.          *)
(*                                                                         *)
(* "direct": one direct operation.  "review": two transfers of TESTNET out *)
(* of one vault, proposed by one person; the venue's fact allows           *)
(* everything, and the vault's is unknown whenever it allows nothing.      *)
(* "chain": two transfers of LIVE that are authorized, at least one of     *)
(* them into the vault, and what three transactions can do for them,       *)
(* numbered in the order they are signed; a fact shows all there is to     *)
(* see or nothing new, and the vault's at least what the venue's shows.    *)
(***************************************************************************)
EXTENDS DirectCapital, Transfers, TLC

CONSTANT Proposer

\* Besides the proposer there are the two who approve.
ASSUME ProposerAssumption ==
    Proposer \in Persons /\ IsFiniteSet(Persons) /\ Cardinality(Persons \ {Proposer}) >= 2

VARIABLE focus

CapitalSymmetry == Permutations(Workers) \cup Permutations(Transfers)

ScopeIs(e, capability, directions) ==
    /\ environment = e /\ enabled = {capability}
    /\ trading = "CLOSED" /\ match = TRUE
    /\ withdrawable = [l \in Locations |-> MaxBalance]
    /\ condition = [VAULT |-> IF e = "LIVE" THEN "READY" ELSE "CONTROLLED", VENUE |-> "READY"]
    /\ direction \in directions

Outward == [Transfers -> {"VAULT_TO_VENUE"}]
Inbound == [Transfers -> {"VAULT_TO_VENUE", "VENUE_TO_VAULT"}] \ Outward

\* Two approvals and an authorization each.
ApprovedInit ==
    /\ proposer = [t \in Transfers |-> Proposer]
    /\ votes = [t \in Transfers |-> Persons \ {Proposer}]
    /\ proposal = [t \in Transfers |-> "APPROVED"]
    /\ authorization = [t \in Transfers |-> "ACTIVE"]

OnePath ==
    /\ path = [o \in Ops |-> "VAULT_TO_BINANCE"]
    /\ provider = [o \in Ops |-> "NOTILT_VAULT"]

CapitalInit ==
    /\ \/ focus = "direct" /\ ScopeIs("LIVE", "CAPITAL_TRANSFER", Outward) /\ ProposalInit
       \/ focus = "review" /\ ScopeIs("TESTNET", "AUTOMATION", Outward) /\ ProposalInit /\ OnePath
       \/ focus = "chain" /\ ScopeIs("LIVE", "CAPITAL_TRANSFER", Inbound)
          /\ ApprovedInit /\ OnePath
    /\ ScopeInit /\ MoveInit /\ Init

ReviewStep ==
    /\ UNCHANGED <<shows, match>>
    /\ TransferNext
    /\ \A t \in Transfers : proposer'[t] \in {Nobody, Proposer}
    /\ trading' # "FLAT" /\ "CAPITAL_TRANSFER" \notin enabled'
    /\ UNCHANGED <<withdrawable["VENUE"], condition["VENUE"]>>
    /\ condition'["VAULT"] = IF withdrawable'["VAULT"] = 0 THEN "UNKNOWN" ELSE "CONTROLLED"
    /\ policy' \/ \A t \in Transfers : proposal'[t] = "NONE"
    /\ \A t \in Transfers : transfer'[t] \notin {"UNKNOWN", "MANUAL_REQUIRED"}
    /\ lapsed' = lapsed \/ \A t \in Transfers : transfer[t] = "NONE"

ChainStep ==
    /\ UNCHANGED <<votes, tradingVars, withdrawable, condition>>
    /\ TransferNext
    /\ lapsed' \subseteq Transfers \X {"REQUEST"}
    /\ UNCHANGED <<transfer, stageVars>> =>
          \A l \in Locations : shows'[l] \in {shows[l], Transfers}
    /\ shows'["VENUE"] \subseteq shows'["VAULT"]
    /\ \A h \in Hashes : chain'[h] # NoEvent => \A g \in 1 .. (h - 1) : chain[g] # NoEvent

CapitalNext ==
    /\ UNCHANGED focus
    /\ CASE focus = "direct" -> Next /\ UNCHANGED capitalVars
         [] focus = "review" -> ReviewStep /\ UNCHANGED vars
         [] focus = "chain" -> ChainStep /\ UNCHANGED vars

CapitalSpec == CapitalInit /\ [][CapitalNext]_<<vars, capitalVars, focus>>

\* The type invariants of the two modules.
CapitalTypesOK == TypeOK /\ TransferTypeOK
=============================================================================
