------------------------------- MODULE Access -------------------------------
(***************************************************************************)
(* Who may act: members of teams and their roles, the scope a person works *)
(* in, passwords with the login sessions they give, and API keys.          *)
(*                                                                         *)
(* An administrator's request is three steps: the caller's role is read    *)
(* (require_role), the target's users and membership rows are locked and   *)
(* read, and what was decided is written.  add_team_member and assign_role *)
(* lock nothing: they read with the first step, and their insert waits for *)
(* a lock on the target's row (the foreign key of role_assignments).       *)
(* Nothing locks the caller's row: audit_events has no foreign key to it.  *)
(*                                                                         *)
(* A login reads hash and version of the password at once, verifies for a  *)
(* while and then issues the session.  A repeated request that finds its   *)
(* receipt changes nothing, except that a repeated change of password      *)
(* issues a session once more.  Expiry of sessions and keys only takes     *)
(* rights away and is left out, as are account and venue scopes of roles.  *)
(***************************************************************************)
EXTENDS Integers, FiniteSets

CONSTANTS
    Users, Teams,
    Founder, Home,      \* bootstrap_admin's user and team
    Requests,           \* requests of administrators and members that may be under way at once
    MaxPassword,        \* bound of the model: passwords a person has one after another
    MaxKey,             \* bound of the model: tokens issued for a person's API key
    Nobody

ASSUME AccessAssumption ==
    /\ Founder \in Users /\ Home \in Teams
    /\ MaxPassword \in Nat \ {0} /\ MaxKey \in Nat \ {0}
    /\ Nobody \notin Users \cup Teams \cup Requests

Roles == {"SYSTEM_ADMIN", "REVIEWER"}
Memberships == {"NONE", "INACTIVE", "ACTIVE"}
Commands == {"update", "remove", "add", "assign", "select"}

VARIABLES
    known,          \* people with an account
    teams,          \* teams that exist
    member,         \* member[t][u], a row of team_memberships
    roles,          \* roles[t][u], rows of role_assignments
    scope,          \* users.active_team_id
    request,        \* what each request asks and has found out
    rowLock,        \* the request that holds a person's users row FOR UPDATE
    password, authVersion,
    verified,       \* the password and version a login in progress has read
    sessions,       \* issued sessions: version claimed, password proven
    asking,         \* changes of password under way, with the version they expect
    changed,        \* what the receipt of a person's change answers a repetition with
    key,            \* state and team of a person's API key
    keyVersion,     \* api_clients.token_version
    tokens,         \* tokens that were shown
    revoked         \* people who revoked their key

memberVars == <<known, teams, member, roles, scope>>
requestVars == <<request, rowLock>>
passwordVars == <<password, authVersion, verified, sessions, asking, changed>>
keyVars == <<key, keyVersion, tokens, revoked>>
accessVars == <<memberVars, requestVars, passwordVars, keyVars>>

NoRequest == [pc |-> "new", command |-> "select", target |-> Nobody,
              team |-> Nobody, grant |-> {}, stays |-> FALSE, reset |-> FALSE, found |-> "NONE"]
NoKey == [state |-> "NONE", team |-> Nobody]

AccessInit ==
    /\ known = {Founder} /\ teams = {Home}
    /\ member = [t \in Teams |-> [u \in Users |->
                    IF t = Home /\ u = Founder THEN "ACTIVE" ELSE "NONE"]]
    /\ roles = [t \in Teams |-> [u \in Users |->
                    IF t = Home /\ u = Founder THEN {"SYSTEM_ADMIN"} ELSE {}]]
    /\ scope = [u \in Users |-> IF u = Founder THEN Home ELSE Nobody]
    /\ request = [c \in Requests |-> NoRequest]
    /\ rowLock = [u \in Users |-> Nobody]
    /\ password = [u \in Users |-> 1] /\ authVersion = [u \in Users |-> 1]
    /\ verified = [u \in Users |-> Nobody]
    /\ sessions = {}
    /\ asking = {} /\ changed = [u \in Users |-> Nobody]
    /\ key = [u \in Users |-> NoKey] /\ keyVersion = [u \in Users |-> 0]
    /\ tokens = {} /\ revoked = {}

-----------------------------------------------------------------------------
(***************************************************************************)
(* Rights                                                                  *)
(***************************************************************************)

ActsIn(u, t) == scope[u] = t /\ member[t][u] = "ACTIVE"

IsAdmin(u, t) == member[t][u] = "ACTIVE" /\ "SYSTEM_ADMIN" \in roles[t][u]

MayManage(u, t) == ActsIn(u, t) /\ IsAdmin(u, t)

Admins(t) == {u \in Users : IsAdmin(u, t)}

\* Fault: a row is read without its lock.
AnyRow(u) == TRUE
RowFree(u) == rowLock[u] = Nobody

-----------------------------------------------------------------------------
(***************************************************************************)
(* Teams and members                                                       *)
(***************************************************************************)

\* create_managed_user, create_user without roles: one transaction.
CreateUser(a, u, grant) ==
    LET t == scope[a] IN
    /\ t # Nobody /\ MayManage(a, t)
    /\ u \notin known
    /\ known' = known \cup {u}
    /\ member' = [member EXCEPT ![t][u] = "ACTIVE"]
    /\ roles' = [roles EXCEPT ![t][u] = grant]
    /\ scope' = [scope EXCEPT ![u] = t]
    /\ UNCHANGED <<teams, requestVars, passwordVars, keyVars>>

\* create_team and create_workspace write the maker's row as well.
CreateTeam(a, t) ==
    /\ t \notin teams /\ a \in known /\ RowFree(a)
    /\ teams' = teams \cup {t}
    /\ member' = [member EXCEPT ![t][a] = "ACTIVE"]
    /\ roles' = [roles EXCEPT ![t][a] = {"SYSTEM_ADMIN"}]
    /\ scope' = [scope EXCEPT ![a] = t]
    /\ UNCHANGED <<known, requestVars, passwordVars, keyVars>>

\* require_role, and what add_team_member and assign_role read besides.
Ask(c, a, u, command, grant, stays, reset) ==
    LET t == scope[a] IN
    /\ request[c].pc = "new"
    /\ t # Nobody /\ MayManage(a, t) /\ u \in known
    /\ \/ command = "update" /\ u # a /\ (stays => grant # {})
       \/ command = "remove" /\ u # a /\ grant = {} /\ ~stays /\ ~reset
       \/ command = "add" /\ member[t][u] # "ACTIVE" /\ grant # {} /\ stays /\ ~reset
       \/ command = "assign" /\ member[t][u] = "ACTIVE" /\ Cardinality(grant) = 1 /\ stays /\ ~reset
    /\ request' = [request EXCEPT ![c] =
           [pc |-> "asked", command |-> command, target |-> u, team |-> t,
            grant |-> grant, stays |-> stays, reset |-> reset,
            found |-> IF command = "add" THEN member[t][u] ELSE "NONE"]]
    /\ UNCHANGED <<memberVars, rowLock, passwordVars, keyVars>>

\* Another administrator of the team remains (LAST_SYSTEM_ADMIN_REQUIRED), as far as this
\* transaction sees: what others have not committed is not counted.
AdminRemains(c) ==
    LET r == request[c] IN
    "SYSTEM_ADMIN" \in roles[r.team][r.target] /\ ("SYSTEM_ADMIN" \notin r.grant \/ ~r.stays)
    => Cardinality(Admins(r.team)) > 1

\* The target's row and membership are locked; a rejected request ends here.
Lock(c) ==
    LET r == request[c]
        accepted == member[r.team][r.target] # "NONE" /\ AdminRemains(c)
    IN
    /\ r.pc = "asked" /\ r.command \in {"update", "remove"} /\ RowFree(r.target)
    /\ request' = [request EXCEPT ![c] = IF accepted THEN [r EXCEPT !.pc = "locked"] ELSE NoRequest]
    /\ rowLock' = IF accepted THEN [rowLock EXCEPT ![r.target] = c] ELSE rowLock
    /\ UNCHANGED <<memberVars, passwordVars, keyVars>>

Finish(c, u) ==
    /\ request' = [request EXCEPT ![c] = NoRequest]
    /\ rowLock' = [rowLock EXCEPT ![u] = Nobody]

\* A member who is disabled or removed loses the team as active scope.
Leaves(u, t) == IF scope[u] = t THEN [scope EXCEPT ![u] = Nobody] ELSE scope

UpdateAccess(c) ==
    LET r == request[c] IN
    /\ r.pc = "locked" /\ r.command = "update"
    /\ roles' = [roles EXCEPT ![r.team][r.target] = r.grant]
    /\ member' = [member EXCEPT ![r.team][r.target] = IF r.stays THEN "ACTIVE" ELSE "INACTIVE"]
    /\ scope' = IF r.stays THEN scope ELSE Leaves(r.target, r.team)
    /\ IF r.reset /\ password[r.target] < MaxPassword
       THEN /\ password' = [password EXCEPT ![r.target] = @ + 1]
            /\ authVersion' = [authVersion EXCEPT ![r.target] = @ + 1]
       ELSE UNCHANGED <<password, authVersion>>
    /\ Finish(c, r.target)
    /\ UNCHANGED <<known, teams, verified, sessions, asking, changed, keyVars>>

RemoveMember(c) ==
    LET r == request[c] IN
    /\ r.pc = "locked" /\ r.command = "remove"
    /\ roles' = [roles EXCEPT ![r.team][r.target] = {}]
    /\ member' = [member EXCEPT ![r.team][r.target] = "NONE"]
    /\ scope' = Leaves(r.target, r.team)
    /\ Finish(c, r.target)
    /\ UNCHANGED <<known, teams, passwordVars, keyVars>>

\* The membership row is inserted or updated: a row that has come or gone meanwhile fails it.
AddMember(c) ==
    LET r == request[c]
        stored == member[r.team][r.target]
        written == (r.found = "NONE") <=> (stored = "NONE")
    IN
    /\ r.pc = "asked" /\ r.command = "add" /\ RowFree(r.target)
    /\ IF written
       THEN /\ member' = [member EXCEPT ![r.team][r.target] = "ACTIVE"]
            /\ roles' = [roles EXCEPT ![r.team][r.target] = r.grant]
       ELSE UNCHANGED <<member, roles>>
    /\ request' = [request EXCEPT ![c] = NoRequest]
    /\ UNCHANGED <<known, teams, scope, rowLock, passwordVars, keyVars>>

AssignRole(c) ==
    LET r == request[c] IN
    /\ r.pc = "asked" /\ r.command = "assign" /\ RowFree(r.target)
    /\ roles' = [roles EXCEPT ![r.team][r.target] = @ \cup r.grant]
    /\ request' = [request EXCEPT ![c] = NoRequest]
    /\ UNCHANGED <<known, teams, member, scope, rowLock, passwordVars, keyVars>>

\* select_scope locks the person's own row before it reads the membership.
Select(c, u, t) ==
    /\ request[c].pc = "new" /\ u \in known /\ RowFree(u)
    /\ member[t][u] = "ACTIVE"
    /\ request' = [request EXCEPT ![c] = [NoRequest EXCEPT !.pc = "locked", !.target = u, !.team = t]]
    /\ rowLock' = [rowLock EXCEPT ![u] = c]
    /\ UNCHANGED <<memberVars, passwordVars, keyVars>>

Selected(c) ==
    LET r == request[c] IN
    /\ r.pc = "locked" /\ r.command = "select"
    /\ scope' = [scope EXCEPT ![r.target] = r.team]
    /\ Finish(c, r.target)
    /\ UNCHANGED <<known, teams, member, roles, passwordVars, keyVars>>

-----------------------------------------------------------------------------
(***************************************************************************)
(* Passwords and sessions                                                  *)
(***************************************************************************)

Proof(u) == [user |-> u, version |-> authVersion[u], password |-> password[u]]

LoginReads(u) ==
    /\ u \in known /\ verified[u] = Nobody
    /\ verified' = [verified EXCEPT ![u] = Proof(u)]
    /\ UNCHANGED <<memberVars, requestVars, password, authVersion, sessions, asking, changed,
                   keyVars>>

\* Fault: the session claims the version at the time it is issued.
ClaimsPresent(u) == [verified[u] EXCEPT !.version = authVersion[u]]
Claims(u) == verified[u]

LoginIssues(u) ==
    /\ verified[u] # Nobody
    /\ sessions' = sessions \cup {Claims(u)} /\ verified' = [verified EXCEPT ![u] = Nobody]
    /\ UNCHANGED <<memberVars, requestVars, password, authVersion, asking, changed, keyVars>>

\* current_identity lets a request pass while its session's version is the person's.
Accepted(s) == s.version = authVersion[s.user]

AskToChange(s) ==
    /\ s \in sessions /\ Accepted(s)
    /\ asking' = asking \cup {<<s.user, s.version>>}
    /\ UNCHANGED <<memberVars, requestVars, password, authVersion, verified, sessions, changed,
                   keyVars>>

\* The first request changes the password; its repetition is answered from the receipt.
ChangePassword(u, expected) ==
    /\ <<u, expected>> \in asking /\ RowFree(u) /\ password[u] < MaxPassword
    /\ changed[u] = Nobody /\ authVersion[u] = expected
    /\ password' = [password EXCEPT ![u] = @ + 1]
    /\ authVersion' = [authVersion EXCEPT ![u] = @ + 1]
    /\ changed' = [changed EXCEPT ![u] = Proof(u)']
    /\ sessions' = sessions \cup {Proof(u)'}
    /\ UNCHANGED <<memberVars, requestVars, verified, asking, keyVars>>

RepeatChange(u, expected) ==
    /\ <<u, expected>> \in asking /\ RowFree(u)
    /\ changed[u] # Nobody /\ expected + 1 = changed[u].version
    /\ sessions' = sessions \cup {changed[u]} /\ asking' = asking \ {<<u, expected>>}
    /\ UNCHANGED <<memberVars, requestVars, password, authVersion, verified, changed, keyVars>>

-----------------------------------------------------------------------------
(***************************************************************************)
(* API keys                                                                *)
(***************************************************************************)

\* Somebody's key works in its own team, whatever scope its owner works in.
InContext(u, t) == member[t][u] = "ACTIVE" /\ roles[t][u] # {}

CreateKey(u) ==
    LET t == scope[u] IN
    /\ t # Nobody /\ InContext(u, t) /\ key[u] = NoKey
    /\ key' = [key EXCEPT ![u] = [state |-> "ACTIVE", team |-> t]]
    /\ keyVersion' = [keyVersion EXCEPT ![u] = 1] /\ tokens' = tokens \cup {<<u, 1>>}
    /\ UNCHANGED <<memberVars, requestVars, passwordVars, revoked>>

Usable(u) == key[u].state \in {"ACTIVE", "DISABLED"}

SetKeyState(u, state) ==
    /\ Usable(u) /\ key' = [key EXCEPT ![u].state = state]
    /\ UNCHANGED <<memberVars, requestVars, passwordVars, keyVersion, tokens, revoked>>

RotateKey(u) ==
    /\ Usable(u) /\ keyVersion[u] < MaxKey
    /\ keyVersion' = [keyVersion EXCEPT ![u] = @ + 1]
    /\ tokens' = tokens \cup {<<u, keyVersion[u] + 1>>}
    /\ UNCHANGED <<memberVars, requestVars, passwordVars, key, revoked>>

RevokeKey(u) ==
    /\ Usable(u) /\ key' = [key EXCEPT ![u].state = "REVOKED"] /\ revoked' = revoked \cup {u}
    /\ UNCHANGED <<memberVars, requestVars, passwordVars, keyVersion, tokens>>

Authenticates(token) ==
    LET u == token[1] IN
    key[u].state = "ACTIVE" /\ token[2] = keyVersion[u] /\ InContext(u, key[u].team)

-----------------------------------------------------------------------------
MemberStep ==
    \/ \E a, u \in Users : \E grant \in SUBSET Roles :
          CreateUser(a, u, grant)
    \/ \E a \in Users, t \in Teams : CreateTeam(a, t)
    \/ \E c \in {d \in Requests : request[d].pc = "new"}, a \in {x \in Users : scope[x] # Nobody} :
       \E u \in known, command \in Commands, grant \in SUBSET Roles, stays, reset \in BOOLEAN :
          Ask(c, a, u, command, grant, stays, reset)
    \/ \E c \in Requests : Lock(c) \/ UpdateAccess(c) \/ RemoveMember(c) \/ AddMember(c)
                           \/ AssignRole(c) \/ Selected(c)
    \/ \E c \in Requests, u \in Users, t \in Teams : Select(c, u, t)

CredentialStep ==
    \/ \E u \in Users : LoginReads(u) \/ LoginIssues(u) \/ CreateKey(u) \/ RotateKey(u) \/ RevokeKey(u)
    \/ \E s \in sessions : AskToChange(s)
    \/ \E u \in Users, v \in 1 .. MaxPassword : ChangePassword(u, v) \/ RepeatChange(u, v)
    \/ \E u \in Users, state \in {"ACTIVE", "DISABLED"} : SetKeyState(u, state)

AccessNext == MemberStep \/ CredentialStep

AccessSpec == AccessInit /\ [][AccessNext]_accessVars

-----------------------------------------------------------------------------
\* Every state component has its type, and a person's row is locked by a request about that person.
AccessTypeOK ==
    /\ known \subseteq Users /\ teams \subseteq Teams
    /\ member \in [Teams -> [Users -> Memberships]]
    /\ roles \in [Teams -> [Users -> SUBSET Roles]]
    /\ scope \in [Users -> Teams \cup {Nobody}]
    /\ \A c \in Requests : /\ request[c].pc \in {"new", "asked", "locked"}
                           /\ request[c].command \in Commands
                           /\ request[c].pc = "locked" <=> c \in {rowLock[u] : u \in Users}
    /\ \A u \in Users : rowLock[u] # Nobody => request[rowLock[u]].target = u
    /\ password \in [Users -> 1 .. MaxPassword] /\ authVersion \in [Users -> 1 .. MaxPassword]
    /\ keyVersion \in [Users -> 0 .. MaxKey]
    /\ \A u \in Users : key[u].state \in {"NONE", "ACTIVE", "DISABLED", "REVOKED"}

\* Whoever requests race, a person's active scope is a team the person is an active member of:
\* select_scope, create_team and the two handlers that end a membership all write it.
ScopeIsMembership ==
    \A u \in Users : scope[u] # Nobody => member[scope[u]][u] = "ACTIVE"

\* A session that is let through proves the present password, also one whose login was overtaken
\* by a change or that a repeated change issued; a token that is let through is the newest of a
\* key that was never revoked.
CredentialsAreCurrent ==
    /\ \A s \in sessions : Accepted(s) => s.password = password[s.user]
    /\ \A token \in tokens : Authenticates(token) =>
          /\ token[1] \notin revoked
          /\ \A other \in tokens : other[1] = token[1] => other[2] <= token[2]

\* "the last active system administrator cannot be removed or disabled".
AdminStays == \A t \in teams : Admins(t) # {}
=============================================================================
