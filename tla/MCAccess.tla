------------------------------ MODULE MCAccess ------------------------------
(***************************************************************************)
(* The lease, who may act, and on which account, side by side.             *)
(* "lease": FencedSender.                                                  *)
(* "members": people and two teams, one of which has one administrator,    *)
(* with requests at once.                                                  *)
(* "credentials": one team, whose administrator resets the password of a   *)
(* member or ends the membership.                                          *)
(* "accounts": one exchange account, two calls under way at once.          *)
(***************************************************************************)
EXTENDS FencedSender, Access, Accounts

CONSTANT Request  \* the only request of "credentials"

ASSUME RequestAssumption == Request \in Requests

VARIABLE focus

MCInit == /\ Init /\ AccessInit /\ AccountsInit
          /\ focus \in {"lease", "members", "credentials", "accounts"}

\* One request may grant and update, the other update and take away.
Kinds(c) ==
    IF c = Request THEN {"add", "assign", "update"} ELSE {"update", "remove", "select"}

MembersStep ==
    /\ MemberStep
    /\ request' = request => \A t \in Teams \ {Home} : Admins(t)' \subseteq {Founder}
    /\ \A c \in Requests : ~request'[c].reset
    /\ \A c \in Requests : /\ Cardinality(request'[c].grant) <= 1
                           /\ request'[c].team # Home => "SYSTEM_ADMIN" \notin request'[c].grant
                           /\ request'[c].pc # "new" => request'[c].command \in Kinds(c)

CredentialsStep ==
    /\ \/ CredentialStep
       \/ \E u \in Users \ {Founder}, grant \in {{}, {"REVIEWER"}}, reset \in BOOLEAN :
             \/ CreateUser(Founder, u, grant)
             \/ Ask(Request, Founder, u, "update", grant, grant # {}, reset)
             \/ Ask(Request, Founder, u, "remove", {}, FALSE, FALSE)
       \/ Lock(Request) \/ UpdateAccess(Request) \/ RemoveMember(Request)
    /\ verified'[Founder] = Nobody /\ key'[Founder] = NoKey

MCNext ==
    /\ UNCHANGED focus
    /\ CASE focus = "lease"       -> Next /\ UNCHANGED <<accessVars, accountsVars>>
         [] focus = "members"     -> MembersStep /\ UNCHANGED <<vars, accountsVars>>
         [] focus = "credentials" -> CredentialsStep /\ UNCHANGED <<vars, accountsVars>>
         [] focus = "accounts"    -> AccountNext /\ UNCHANGED <<vars, accessVars>>

MCSpec == MCInit /\ [][MCNext]_<<vars, accessVars, accountsVars, focus>>

\* Every state component of the three modules has its type.
AllTypesOK == TypeOK /\ AccessTypeOK /\ AccountsTypeOK
=============================================================================
