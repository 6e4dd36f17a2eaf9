----------------------------- MODULE Access_proofs -----------------------------
(***************************************************************************)
(* A row is written under the newest token only; an active scope is an     *)
(* active membership, and a credential that is let through is the present  *)
(* one.  For any owners and intents, users, teams, requests and bounds.    *)
(*                                                                         *)
(* The lease: every token handed out, every token a row is locked under    *)
(* and every token a row was written under is related to the token of the  *)
(* lease row, which only grows.                                            *)
(*                                                                         *)
(* Access: a person's users row is locked by one request at most, and a    *)
(* request that is about to write is the one that holds it.  So what       *)
(* select_scope has read under the lock is still true when it writes: a    *)
(* membership is ended only by a request that holds the same lock.  A      *)
(* password and its version are only ever raised together, wherever they   *)
(* are copied to; and no token is newer than its key's version, which      *)
(* starts again for nobody who had a key.                                  *)
(***************************************************************************)
EXTENDS MCAccess, Accounts_proofs, TLAPS

-----------------------------------------------------------------------------
(***************************************************************************)
(* The lease                                                               *)
(***************************************************************************)
\* The owner column is set whenever a token has been handed out.
OwnerKnown ==
    /\ lease.token > 0 => lease.owner \in Owners
    /\ lease.live => lease.token > 0

\* No token above the row's was handed out, and the row's own token was
\* handed out to its owner only.
IssuedBelowLease ==
    \A p \in issued :
        /\ p[2] <= lease.token
        /\ p[2] = lease.token => p[1] = lease.owner

\* A row is locked under a token at least as new as its last writer's.
WritersAreNewer ==
    \A i \in Intents :
        /\ written[i] <= lease.token
        /\ writer[i] <= lease.token
        /\ ~Unlocked(i) => written[i] <= writer[i]

\* The inductive invariant.
FencedInv ==
    /\ TypeOK
    /\ OwnerKnown
    /\ IssuedBelowLease
    /\ TokenHasOneOwner
    /\ WritersAreNewer

-----------------------------------------------------------------------------
\* What any of the three acquisitions does to the row.
LEMMA AcquisitionExtends ==
    ASSUME NEW o \in Owners,
           AcquireSender(o) \/ AcquireRecoverySender(o) \/ AcquireReduceOnlySender(o)
    PROVE  Extend(o)
BY DEF AcquireSender, AcquireRecoverySender, AcquireReduceOnlySender

\* Extending keeps the row well formed; its token stays for the live owner
\* and otherwise becomes the next one.
LEMMA ExtendStep ==
    ASSUME NEW o \in Owners, LeaseTypeOK, OwnerKnown, Extend(o)
    PROVE  /\ LeaseTypeOK'
           /\ lease'.owner = o /\ lease'.live /\ lease'.token \in Tokens
           /\ \/ lease'.token = lease.token /\ lease.owner = o /\ lease.live
              \/ lease'.token = lease.token + 1 /\ ~lease.live
<1> USE MaxTokenAssumption
<1>1. /\ lease.token \in 0..MaxToken /\ lease.live \in BOOLEAN
      /\ lease.live => lease.token > 0
  BY DEF LeaseTypeOK, OwnerKnown
<1>2. run' \in [match : BOOLEAN, takeover : BOOLEAN]
  BY DEF LeaseTypeOK, Extend
<1>3. CASE Renews(o)
  <2>1. lease' = [token |-> lease.token, owner |-> o, live |-> TRUE]
    BY <1>3 DEF Extend
  <2>2. lease.owner = o /\ lease.live
    BY <1>3 DEF Renews
  <2> QED
    BY <1>1, <1>2, <2>1, <2>2 DEF LeaseTypeOK, Tokens
<1>4. CASE ~Renews(o)
  <2>1. lease' = [token |-> lease.token + 1, owner |-> o, live |-> TRUE]
    BY <1>4 DEF Extend
  <2>2. ~lease.live /\ lease.token < MaxToken
    BY <1>4 DEF Extend, Renews, HeldByOther
  <2> QED
    BY <1>1, <1>2, <2>1, <2>2 DEF LeaseTypeOK, Tokens
<1> QED
  BY <1>3, <1>4

\* An acquisition preserves the invariant.
LEMMA AcquireStep ==
    ASSUME FencedInv, NEW o \in Owners, Extend(o),
           issued' = issued \cup {<<o, lease'.token>>},
           UNCHANGED <<writer, written>>
    PROVE  FencedInv'
<1>1. /\ LeaseTypeOK'
      /\ lease'.owner = o /\ lease'.live /\ lease'.token \in Tokens
      /\ lease'.token = lease.token \/ lease'.token = lease.token + 1
      /\ lease'.token = lease.token => lease.owner = o
  BY ExtendStep, MaxTokenAssumption DEF FencedInv, TypeOK, LeaseTypeOK
<1>2. TypeOK'
  BY <1>1 DEF FencedInv, TypeOK, Tickets
<1>3. OwnerKnown'
  BY <1>1 DEF OwnerKnown, Tokens
<1>4. IssuedBelowLease'
  BY <1>1, MaxTokenAssumption
     DEF FencedInv, TypeOK, LeaseTypeOK, Tickets, Tokens, IssuedBelowLease
<1>5. TokenHasOneOwner'
  BY <1>1, MaxTokenAssumption
     DEF FencedInv, TypeOK, LeaseTypeOK, Tickets, Tokens, IssuedBelowLease, TokenHasOneOwner
<1>6. WritersAreNewer'
  BY <1>1, MaxTokenAssumption
     DEF FencedInv, TypeOK, LeaseTypeOK, Tokens, WritersAreNewer, Unlocked
<1> QED
  BY <1>2, <1>3, <1>4, <1>5, <1>6 DEF FencedInv

LEMMA LeaseInitHolds == Init => FencedInv
BY MaxTokenAssumption
   DEF Init, LeaseInit, FencedInv, TypeOK, LeaseTypeOK, OwnerKnown, IssuedBelowLease,
       TokenHasOneOwner, WritersAreNewer, Unlocked

LEMMA LeaseNextHolds == FencedInv /\ [Next]_vars => FencedInv'
<1> SUFFICES ASSUME FencedInv, [Next]_vars PROVE FencedInv'
  OBVIOUS
<1> USE MaxTokenAssumption
<1>1. CASE \E o \in Owners : Acquire(o)
  BY <1>1, AcquisitionExtends, AcquireStep DEF Acquire
<1>2. CASE \E o \in Owners, i \in Intents : AcquireFor(o, i)
  BY <1>2, AcquisitionExtends, AcquireStep DEF AcquireFor
<1>3. ASSUME NEW i \in Intents, NEW o \in Owners, NEW t \in Tokens, LockAndCheck(i, o, t)
      PROVE  FencedInv'
  <2>1. WritersAreNewer'
    BY <1>3 DEF LockAndCheck, FencedInv, TypeOK, LeaseTypeOK, Tokens, WritersAreNewer, Unlocked
  <2> QED
    BY <1>3, <2>1 DEF LockAndCheck, FencedInv, TypeOK, LeaseTypeOK, Tokens, OwnerKnown,
                      IssuedBelowLease, TokenHasOneOwner
<1>4. ASSUME NEW i \in Intents, Commit(i) \/ Rollback(i)
      PROVE  FencedInv'
  <2>1. WritersAreNewer'
    BY <1>4 DEF Commit, Rollback, FencedInv, TypeOK, LeaseTypeOK, WritersAreNewer, Unlocked
  <2> QED
    BY <1>4, <2>1 DEF Commit, Rollback, FencedInv, TypeOK, LeaseTypeOK, OwnerKnown,
                      IssuedBelowLease, TokenHasOneOwner
<1>5. ASSUME NEW match \in BOOLEAN, Reconcile(match)
      PROVE  FencedInv'
  BY <1>5 DEF Reconcile, StoreRun, FencedInv, TypeOK, LeaseTypeOK, OwnerKnown,
              IssuedBelowLease, TokenHasOneOwner, WritersAreNewer, Unlocked
<1>6. CASE Environment
  BY <1>6 DEF Environment, LeaseExpires, RunAges, FencedInv, TypeOK, LeaseTypeOK, OwnerKnown,
              IssuedBelowLease, TokenHasOneOwner, WritersAreNewer, Unlocked
<1>7. CASE UNCHANGED vars
  BY <1>7 DEF vars, FencedInv, TypeOK, LeaseTypeOK, OwnerKnown, IssuedBelowLease,
              TokenHasOneOwner, WritersAreNewer, Unlocked
<1> QED
  BY <1>1, <1>2, <1>3, <1>4, <1>5, <1>6, <1>7 DEF Next

\* Every reachable state satisfies the inductive invariant.
THEOREM LeaseInvariance == Spec => []FencedInv
BY LeaseInitHolds, LeaseNextHolds, PTL DEF Spec

\* A fencing token identifies one sender, whichever handler issued it.
THEOREM TokensIdentifySenders == Spec => []TokenHasOneOwner
BY LeaseInvariance, PTL DEF FencedInv

\* Whatever token passes validate_sender_lease, none newer has been issued.
THEOREM NewestTokenOnly == Spec => []OnlyNewestTokenValid
<1>1. FencedInv => OnlyNewestTokenValid
  BY DEF FencedInv, IssuedBelowLease, OnlyNewestTokenValid, Valid
<1> QED
  BY <1>1, LeaseInvariance, PTL

LEMMA WritesStep ==
    FencedInv /\ [Next]_vars => [\A i \in Intents : written[i] <= written'[i]]_written
<1> SUFFICES ASSUME FencedInv, [Next]_vars, written' # written
             PROVE  \A i \in Intents : written[i] <= written'[i]
  OBVIOUS
<1>1. PICK i \in Intents : Commit(i)
  BY DEF Next, vars, Acquire, AcquireFor, LockAndCheck, Rollback, Reconcile, Environment
<1> QED
  BY <1>1, MaxTokenAssumption
     DEF Commit, FencedInv, TypeOK, LeaseTypeOK, WritersAreNewer, Unlocked

\* The writes of one intent are committed in token order.
THEOREM WritesOrdered == Spec => WritesInTokenOrder
BY WritesStep, LeaseInvariance, PTL DEF Spec, WritesInTokenOrder

LEMMA FenceInit == Init => AbstractFence!Init
BY DEF Init, LeaseInit, AbstractFence!Init

LEMMA FenceStep ==
    FencedInv /\ [Next]_vars
        => [AbstractFence!Next]_<<lease.token, IF lease.live THEN lease.owner ELSE None>>
<1> DEFINE holder == IF lease.live THEN lease.owner ELSE None
<1> SUFFICES ASSUME FencedInv, [Next]_vars
             PROVE  AbstractFence!Next \/ UNCHANGED <<lease.token, holder>>
  OBVIOUS
<1>1. ASSUME NEW o \in Owners, Extend(o)
      PROVE  AbstractFence!Next \/ UNCHANGED <<lease.token, holder>>
  BY <1>1, ExtendStep DEF FencedInv, TypeOK, AbstractFence!Next, AbstractFence!Grant
<1>2. ASSUME LeaseExpires
      PROVE  AbstractFence!Next
  BY <1>2, NoneAssumption
     DEF LeaseExpires, FencedInv, TypeOK, LeaseTypeOK, OwnerKnown, AbstractFence!Next,
         AbstractFence!Lapse
<1>3. CASE UNCHANGED lease
  BY <1>3
<1> QED
  BY <1>1, <1>2, <1>3, AcquisitionExtends
     DEF Next, vars, Acquire, AcquireFor, LockAndCheck, Commit, Rollback, Reconcile,
         Environment, RunAges

\* The lease implements the abstract fence.
THEOREM LeaseIsFence == Spec => ImplementsFence
BY FenceInit, FenceStep, LeaseInvariance, PTL DEF Spec, ImplementsFence, AbstractFence!Spec

-----------------------------------------------------------------------------
(***************************************************************************)
(* Access                                                                  *)
(***************************************************************************)
RequestRow ==
    [pc : {"new", "asked", "locked"}, command : Commands, target : Users \cup {Nobody},
     team : Teams \cup {Nobody}, grant : SUBSET Roles, stays : BOOLEAN, reset : BOOLEAN,
     found : Memberships]

Typed ==
    /\ known \subseteq Users /\ teams \subseteq Teams
    /\ member \in [Teams -> [Users -> Memberships]]
    /\ roles \in [Teams -> [Users -> SUBSET Roles]]
    /\ scope \in [Users -> Teams \cup {Nobody}]
    /\ request \in [Requests -> RequestRow]
    /\ rowLock \in [Users -> Requests \cup {Nobody}]
    /\ password \in [Users -> 1 .. MaxPassword] /\ authVersion = password
    /\ key \in [Users -> [state : {"NONE", "ACTIVE", "DISABLED", "REVOKED"},
                          team : Teams \cup {Nobody}]]
    /\ keyVersion \in [Users -> 0 .. MaxKey]

\* A request about to write holds the row of the person it is about, and nobody else does.
LocksHeld ==
    /\ \A c \in Requests : request[c].pc # "new" =>
          request[c].target \in Users /\ request[c].team \in Teams
    /\ \A c \in Requests : request[c].pc = "locked" => rowLock[request[c].target] = c
    /\ \A u \in Users : rowLock[u] # Nobody =>
          request[rowLock[u]].pc = "locked" /\ request[rowLock[u]].target = u

\* Passwords and versions rise together.
Together ==
    /\ \A u \in Users : verified[u] # Nobody => verified[u].version = verified[u].password
    /\ \A u \in Users : changed[u] # Nobody => changed[u].version = changed[u].password
    /\ \A s \in sessions : s.version = s.password

AccessInv == Typed /\ LocksHeld

\* The first step of an administrator's request.
Asking ==
    \E c \in {d \in Requests : request[d].pc = "new"}, a \in {x \in Users : scope[x] # Nobody} :
    \E u \in known, command \in Commands, grant \in SUBSET Roles, stays, reset \in BOOLEAN :
       Ask(c, a, u, command, grant, stays, reset)

\* What select_scope has read under the lock stays true until it has written.
ReadStillTrue ==
    \A c \in Requests : request[c].pc = "locked" /\ request[c].command = "select" =>
        member[request[c].team][request[c].target] = "ACTIVE"

\* The newest token is the one of the key's version, and a revoked key stays one.
KeysHold ==
    /\ tokens \subseteq Users \X Nat
    /\ \A token \in tokens : token[2] <= keyVersion[token[1]]
    /\ \A u \in Users : key[u].state = "NONE" => keyVersion[u] = 0
    /\ \A u \in revoked \cap Users : key[u].state = "REVOKED"

-----------------------------------------------------------------------------
(***************************************************************************)
(* Types and locks                                                         *)
(***************************************************************************)
LEMMA AccessInitHolds == AccessInit => AccessInv
BY AccessAssumption
DEF AccessInit, AccessInv, Typed, LocksHeld, RequestRow, NoRequest, NoKey, Commands, Memberships,
    Roles

\* A request that is over has let go of the row it held.
LEMMA FinishKeepsLocks ==
    ASSUME AccessInv, NEW c \in Requests, request[c].pc = "locked",
           Finish(c, request[c].target)
    PROVE  /\ LocksHeld'
           /\ request' \in [Requests -> RequestRow]
           /\ rowLock' \in [Users -> Requests \cup {Nobody}]
<1>1. NoRequest \in RequestRow /\ NoRequest.pc = "new"
  BY DEF NoRequest, RequestRow, Commands, Memberships
<1>2. request[c].target \in Users /\ rowLock[request[c].target] = c
  BY DEF AccessInv, LocksHeld
<1>3. request' \in [Requests -> RequestRow] /\ rowLock' \in [Users -> Requests \cup {Nobody}]
  BY <1>1, <1>2 DEF AccessInv, Typed, Finish
<1>4. request'[c].pc = "new" /\ \A d \in Requests \ {c} : request'[d] = request[d]
  BY <1>1 DEF AccessInv, Typed, Finish
<1>5. /\ rowLock'[request[c].target] = Nobody
      /\ \A u \in Users \ {request[c].target} : rowLock'[u] = rowLock[u]
  BY <1>2 DEF AccessInv, Typed, Finish
<1>6. \A d \in Requests : request'[d].pc = "locked" => rowLock'[request'[d].target] = d
  <2> SUFFICES ASSUME NEW d \in Requests \ {c}, request[d].pc = "locked"
               PROVE  rowLock'[request[d].target] = d
    BY <1>4
  <2>1. request[d].target \in Users /\ rowLock[request[d].target] = d
    BY DEF AccessInv, LocksHeld
  <2>2. request[d].target # request[c].target
    BY <1>2, <2>1
  <2> QED BY <1>5, <2>1, <2>2
<1>7. \A u \in Users : rowLock'[u] # Nobody =>
         request'[rowLock'[u]].pc = "locked" /\ request'[rowLock'[u]].target = u
  <2> SUFFICES ASSUME NEW u \in Users, rowLock'[u] # Nobody
               PROVE  request'[rowLock'[u]].pc = "locked" /\ request'[rowLock'[u]].target = u
    OBVIOUS
  <2>1. u # request[c].target /\ rowLock'[u] = rowLock[u] /\ rowLock[u] \in Requests
    BY <1>3, <1>5
  <2>2. request[rowLock[u]].pc = "locked" /\ request[rowLock[u]].target = u
    BY <2>1 DEF AccessInv, LocksHeld
  <2> QED BY <1>4, <2>1, <2>2
<1> QED BY <1>3, <1>4, <1>6, <1>7 DEF LocksHeld, AccessInv

\* A request that takes the row it is about locks it for itself.
LEMMA LockingKeepsLocks ==
    ASSUME AccessInv, NEW c \in Requests, NEW r \in RequestRow, request[c].pc # "locked",
           r.pc = "locked", r.target \in Users, r.team \in Teams, RowFree(r.target),
           request' = [request EXCEPT ![c] = r], rowLock' = [rowLock EXCEPT ![r.target] = c]
    PROVE  /\ LocksHeld'
           /\ request' \in [Requests -> RequestRow]
           /\ rowLock' \in [Users -> Requests \cup {Nobody}]
<1>1. request' \in [Requests -> RequestRow] /\ rowLock' \in [Users -> Requests \cup {Nobody}]
  BY DEF AccessInv, Typed
<1>2. request'[c] = r /\ \A d \in Requests \ {c} : request'[d] = request[d]
  BY DEF AccessInv, Typed
<1>3. rowLock'[r.target] = c /\ \A u \in Users \ {r.target} : rowLock'[u] = rowLock[u]
  BY DEF AccessInv, Typed
<1>4. ASSUME NEW d \in Requests \ {c}, request[d].pc = "locked"
      PROVE  request[d].target \in Users /\ request[d].target # r.target
  BY <1>4, AccessAssumption DEF AccessInv, LocksHeld, RowFree
<1>5. ASSUME NEW u \in Users \ {r.target}, rowLock[u] # Nobody
      PROVE  request[rowLock[u]].pc = "locked" /\ request[rowLock[u]].target = u
             /\ rowLock[u] \in Requests \ {c}
  BY <1>5 DEF AccessInv, LocksHeld, Typed
<1>6. \A d \in Requests : request'[d].pc # "new" =>
         request'[d].target \in Users /\ request'[d].team \in Teams
  BY <1>2 DEF AccessInv, LocksHeld
<1>7. \A d \in Requests : request'[d].pc = "locked" => rowLock'[request'[d].target] = d
  BY <1>2, <1>3, <1>4 DEF AccessInv, LocksHeld
<1>8. \A u \in Users : rowLock'[u] # Nobody =>
         request'[rowLock'[u]].pc = "locked" /\ request'[rowLock'[u]].target = u
  BY <1>2, <1>3, <1>5
<1> QED BY <1>1, <1>6, <1>7, <1>8 DEF LocksHeld

\* A request that has only asked is not one that any row is locked by.
LEMMA AskingKeepsLocks ==
    ASSUME AccessInv, NEW c \in Requests, NEW r \in RequestRow, request[c].pc # "locked",
           r.pc # "locked", r.pc # "new" => r.target \in Users /\ r.team \in Teams,
           request' = [request EXCEPT ![c] = r], rowLock' = rowLock
    PROVE  LocksHeld' /\ request' \in [Requests -> RequestRow]
<1>1. /\ request' \in [Requests -> RequestRow]
      /\ request'[c] = r /\ \A d \in Requests \ {c} : request'[d] = request[d]
  BY DEF AccessInv, Typed
<1>2. \A u \in Users : rowLock[u] # Nobody => rowLock[u] \in Requests \ {c}
  BY DEF AccessInv, LocksHeld, Typed
<1> QED BY <1>1, <1>2 DEF AccessInv, LocksHeld

LEMMA MemberStepHolds == AccessInv /\ MemberStep => AccessInv'
<1> SUFFICES ASSUME AccessInv, MemberStep PROVE AccessInv'
  OBVIOUS
<1> USE DEF AccessInv
<1>0. NoRequest \in RequestRow /\ NoRequest.pc = "new"
  BY DEF NoRequest, RequestRow, Commands, Memberships
<1>1. ASSUME NEW a \in Users, NEW u \in Users, NEW grant \in SUBSET Roles, CreateUser(a, u, grant)
      PROVE  AccessInv'
  <2>1. scope[a] \in Teams
    BY <1>1 DEF CreateUser, Typed
  <2>2. Typed'
    BY <1>1, <2>1 DEF CreateUser, Typed, requestVars, passwordVars, keyVars, Memberships
  <2> QED BY <1>1, <2>2 DEF CreateUser, LocksHeld, requestVars
<1>2. ASSUME NEW a \in Users, NEW t \in Teams, CreateTeam(a, t)
      PROVE  AccessInv'
  <2>1. Typed'
    BY <1>2 DEF CreateTeam, Typed, requestVars, passwordVars, keyVars, Memberships, Roles
  <2> QED BY <1>2, <2>1 DEF CreateTeam, LocksHeld, requestVars
<1>3. ASSUME NEW c \in Requests, NEW a \in Users, NEW u \in known, NEW command \in Commands,
             NEW grant \in SUBSET Roles, NEW stays \in BOOLEAN, NEW reset \in BOOLEAN,
             Ask(c, a, u, command, grant, stays, reset)
      PROVE  AccessInv'
  <2> DEFINE t == scope[a]
             r == [pc |-> "asked", command |-> command, target |-> u, team |-> t,
                   grant |-> grant, stays |-> stays, reset |-> reset,
                   found |-> IF command = "add" THEN member[t][u] ELSE "NONE"]
  <2>1. t \in Teams /\ u \in Users /\ request[c].pc = "new"
    BY <1>3 DEF Ask, Typed
  <2>2. member[t][u] \in Memberships /\ "NONE" \in Memberships
    BY <2>1 DEF Typed, Memberships
  <2>3. r \in RequestRow
    BY <2>1, <2>2 DEF RequestRow
  <2>4. r.pc = "asked" /\ r.target = u /\ r.team = t
    OBVIOUS
  <2>5. request' = [request EXCEPT ![c] = r] /\ rowLock' = rowLock
    BY <1>3 DEF Ask
  <2> HIDE DEF r
  <2>6. LocksHeld' /\ request' \in [Requests -> RequestRow]
    BY <2>1, <2>3, <2>4, <2>5, AskingKeepsLocks
  <2> QED BY <1>3, <2>6 DEF Ask, Typed, memberVars, passwordVars, keyVars
<1>4. ASSUME NEW c \in Requests, Lock(c) PROVE AccessInv'
  <2>1. request[c] \in RequestRow /\ request[c].target \in Users /\ request[c].team \in Teams
    BY <1>4 DEF Lock, LocksHeld, Typed
  <2> DEFINE r == [request[c] EXCEPT !.pc = "locked"]
  <2>2. CASE /\ request' = [request EXCEPT ![c] = r]
             /\ rowLock' = [rowLock EXCEPT ![request[c].target] = c]
    <3>1. /\ r \in RequestRow /\ r.pc = "locked"
          /\ r.target = request[c].target /\ r.team = request[c].team
      BY <2>1 DEF RequestRow
    <3> HIDE DEF r
    <3>2. /\ LocksHeld' /\ request' \in [Requests -> RequestRow]
          /\ rowLock' \in [Users -> Requests \cup {Nobody}]
      BY <1>4, <2>1, <2>2, <3>1, LockingKeepsLocks DEF Lock
    <3> QED BY <1>4, <3>2 DEF Lock, Typed, memberVars, passwordVars, keyVars
  <2>3. CASE request' = [request EXCEPT ![c] = NoRequest] /\ rowLock' = rowLock
    <3>1. LocksHeld' /\ request' \in [Requests -> RequestRow]
      BY <1>0, <1>4, <2>3, AskingKeepsLocks DEF Lock
    <3> QED BY <1>4, <2>3, <3>1 DEF Lock, Typed, memberVars, passwordVars, keyVars
  <2> QED BY <1>4, <2>2, <2>3 DEF Lock
<1>5. ASSUME NEW c \in Requests, UpdateAccess(c) PROVE AccessInv'
  <2>1. /\ request[c] \in RequestRow /\ request[c].target \in Users /\ request[c].team \in Teams
        /\ request[c].pc = "locked"
    BY <1>5 DEF UpdateAccess, LocksHeld, Typed
  <2>2. /\ LocksHeld' /\ request' \in [Requests -> RequestRow]
        /\ rowLock' \in [Users -> Requests \cup {Nobody}]
    BY <1>5, <2>1, FinishKeepsLocks DEF UpdateAccess
  <2>3. member' \in [Teams -> [Users -> Memberships]]
    BY <1>5, <2>1 DEF UpdateAccess, Typed, Memberships
  <2>4. roles' \in [Teams -> [Users -> SUBSET Roles]]
    BY <1>5, <2>1 DEF UpdateAccess, Typed, RequestRow
  <2>5. scope' \in [Users -> Teams \cup {Nobody}]
    BY <1>5, <2>1 DEF UpdateAccess, Typed, Leaves
  <2>6. password' \in [Users -> 1 .. MaxPassword] /\ authVersion' = password'
    <3> DEFINE u == request[c].target
    <3>1. CASE UNCHANGED <<password, authVersion>>
      BY <3>1 DEF Typed
    <3>2. CASE /\ password[u] < MaxPassword
               /\ password' = [password EXCEPT ![u] = @ + 1]
               /\ authVersion' = [authVersion EXCEPT ![u] = @ + 1]
      <4>1. password[u] + 1 \in 1 .. MaxPassword
        BY <2>1, <3>2, AccessAssumption DEF Typed
      <4> QED BY <2>1, <3>2, <4>1 DEF Typed
    <3> QED BY <1>5, <3>1, <3>2 DEF UpdateAccess
  <2> QED BY <1>5, <2>2, <2>3, <2>4, <2>5, <2>6 DEF UpdateAccess, Typed, keyVars
<1>6. ASSUME NEW c \in Requests, RemoveMember(c) PROVE AccessInv'
  <2>1. /\ request[c] \in RequestRow /\ request[c].target \in Users /\ request[c].team \in Teams
        /\ request[c].pc = "locked"
    BY <1>6 DEF RemoveMember, LocksHeld, Typed
  <2>2. /\ LocksHeld' /\ request' \in [Requests -> RequestRow]
        /\ rowLock' \in [Users -> Requests \cup {Nobody}]
    BY <1>6, <2>1, FinishKeepsLocks DEF RemoveMember
  <2> QED BY <1>6, <2>1, <2>2 DEF RemoveMember, Typed, Memberships, Leaves, passwordVars, keyVars
<1>7. ASSUME NEW c \in Requests, AddMember(c) PROVE AccessInv'
  <2>1. /\ request[c] \in RequestRow /\ request[c].target \in Users /\ request[c].team \in Teams
        /\ request[c].pc = "asked"
    BY <1>7 DEF AddMember, LocksHeld, Typed
  <2>2. LocksHeld' /\ request' \in [Requests -> RequestRow]
    BY <1>0, <1>7, <2>1, AskingKeepsLocks DEF AddMember
  <2>3. /\ member' \in [Teams -> [Users -> Memberships]]
        /\ roles' \in [Teams -> [Users -> SUBSET Roles]]
    <3>1. CASE UNCHANGED <<member, roles>>
      BY <3>1 DEF Typed
    <3>2. CASE /\ member' = [member EXCEPT ![request[c].team][request[c].target] = "ACTIVE"]
               /\ roles' = [roles EXCEPT ![request[c].team][request[c].target] = request[c].grant]
      BY <2>1, <3>2 DEF Typed, Memberships, RequestRow
    <3> QED BY <1>7, <3>1, <3>2 DEF AddMember
  <2> QED BY <1>7, <2>2, <2>3 DEF AddMember, Typed, passwordVars, keyVars
<1>8. ASSUME NEW c \in Requests, AssignRole(c) PROVE AccessInv'
  <2>1. /\ request[c] \in RequestRow /\ request[c].target \in Users /\ request[c].team \in Teams
        /\ request[c].pc = "asked"
    BY <1>8 DEF AssignRole, LocksHeld, Typed
  <2>2. LocksHeld' /\ request' \in [Requests -> RequestRow]
    BY <1>0, <1>8, <2>1, AskingKeepsLocks DEF AssignRole
  <2>3. roles[request[c].team][request[c].target] \cup request[c].grant \in SUBSET Roles
    BY <2>1 DEF Typed, RequestRow
  <2>4. roles' \in [Teams -> [Users -> SUBSET Roles]]
    BY <1>8, <2>1, <2>3 DEF AssignRole, Typed
  <2> QED BY <1>8, <2>2, <2>4 DEF AssignRole, Typed, passwordVars, keyVars
<1>9. ASSUME NEW c \in Requests, NEW u \in Users, NEW t \in Teams, Select(c, u, t)
      PROVE  AccessInv'
  <2> DEFINE r == [NoRequest EXCEPT !.pc = "locked", !.target = u, !.team = t]
  <2>1. r \in RequestRow /\ r.pc = "locked" /\ r.target = u /\ r.team = t
    BY DEF NoRequest, RequestRow, Commands, Memberships
  <2>2. request' = [request EXCEPT ![c] = r] /\ rowLock' = [rowLock EXCEPT ![u] = c]
    BY <1>9 DEF Select
  <2> HIDE DEF r
  <2>3. /\ LocksHeld' /\ request' \in [Requests -> RequestRow]
        /\ rowLock' \in [Users -> Requests \cup {Nobody}]
    BY <1>9, <2>1, <2>2, LockingKeepsLocks DEF Select
  <2> QED BY <1>9, <2>3 DEF Select, Typed, memberVars, passwordVars, keyVars
<1>10. ASSUME NEW c \in Requests, Selected(c) PROVE AccessInv'
  <2>1. /\ request[c] \in RequestRow /\ request[c].target \in Users /\ request[c].team \in Teams
        /\ request[c].pc = "locked"
    BY <1>10 DEF Selected, LocksHeld, Typed
  <2>2. /\ LocksHeld' /\ request' \in [Requests -> RequestRow]
        /\ rowLock' \in [Users -> Requests \cup {Nobody}]
    BY <1>10, <2>1, FinishKeepsLocks DEF Selected
  <2> QED BY <1>10, <2>1, <2>2 DEF Selected, Typed, passwordVars, keyVars
<1> QED
  <2>1. CASE Asking
    BY <1>3, <2>1 DEF Asking
  <2> QED BY <1>1, <1>2, <1>4, <1>5, <1>6, <1>7, <1>8, <1>9, <1>10, <2>1 DEF MemberStep, Asking

\* Of the types only these are touched by what people do with their credentials.
LEMMA CredentialStepHolds == AccessInv /\ CredentialStep => AccessInv'
<1> SUFFICES ASSUME AccessInv, CredentialStep PROVE AccessInv'
  OBVIOUS
<1> USE DEF AccessInv
<1>1. ASSUME UNCHANGED <<memberVars, requestVars, password, authVersion>>,
             key' \in [Users -> [state : {"NONE", "ACTIVE", "DISABLED", "REVOKED"},
                                 team : Teams \cup {Nobody}]],
             keyVersion' \in [Users -> 0 .. MaxKey]
      PROVE  AccessInv'
  BY <1>1 DEF Typed, LocksHeld, memberVars, requestVars
<1>2. ASSUME NEW u \in Users, LoginReads(u) \/ LoginIssues(u) PROVE AccessInv'
  BY <1>1, <1>2 DEF LoginReads, LoginIssues, keyVars, Typed
<1>3. ASSUME NEW s \in sessions, AskToChange(s) PROVE AccessInv'
  BY <1>1, <1>3 DEF AskToChange, keyVars, Typed
<1>4. ASSUME NEW u \in Users, NEW v \in 1 .. MaxPassword, ChangePassword(u, v) PROVE AccessInv'
  <2>1. password[u] + 1 \in 1 .. MaxPassword
    BY <1>4, AccessAssumption DEF ChangePassword, Typed
  <2>2. password' \in [Users -> 1 .. MaxPassword] /\ authVersion' = password'
    BY <1>4, <2>1 DEF ChangePassword, Typed
  <2> QED BY <1>4, <2>2 DEF ChangePassword, Typed, LocksHeld, memberVars, requestVars, keyVars
<1>5. ASSUME NEW u \in Users, NEW v \in 1 .. MaxPassword, RepeatChange(u, v) PROVE AccessInv'
  BY <1>1, <1>5 DEF RepeatChange, keyVars, Typed
<1>6. ASSUME NEW u \in Users, CreateKey(u) PROVE AccessInv'
  <2>1. scope[u] \in Teams /\ 1 \in 0 .. MaxKey
    BY <1>6, AccessAssumption DEF CreateKey, Typed
  <2> QED BY <1>1, <1>6, <2>1 DEF CreateKey, Typed, passwordVars
<1>7. ASSUME NEW u \in Users, RotateKey(u) PROVE AccessInv'
  <2>1. keyVersion[u] + 1 \in 0 .. MaxKey
    BY <1>7, AccessAssumption DEF RotateKey, Typed
  <2> QED BY <1>1, <1>7, <2>1 DEF RotateKey, Typed, passwordVars
<1>8. ASSUME NEW u \in Users, NEW state \in {"ACTIVE", "DISABLED", "REVOKED"},
             key' = [key EXCEPT ![u].state = state],
             UNCHANGED <<memberVars, requestVars, passwordVars, keyVersion>>
      PROVE  AccessInv'
  BY <1>1, <1>8 DEF Typed, passwordVars
<1> QED
  BY <1>2, <1>3, <1>4, <1>5, <1>6, <1>7, <1>8 DEF CredentialStep, SetKeyState, RevokeKey

LEMMA AccessNextHolds == AccessInv /\ [AccessNext]_accessVars => AccessInv'
<1>1. AccessInv /\ UNCHANGED accessVars => AccessInv'
  BY DEF AccessInv, Typed, LocksHeld, accessVars, memberVars, requestVars, passwordVars, keyVars
<1> QED BY <1>1, MemberStepHolds, CredentialStepHolds DEF AccessNext

LEMMA AccessInvariance == AccessSpec => []AccessInv
BY AccessInitHolds, AccessNextHolds, PTL DEF AccessSpec

LEMMA AccessInvSuffices == AccessInv => AccessTypeOK
<1> SUFFICES ASSUME AccessInv PROVE AccessTypeOK
  OBVIOUS
<1>1. \A c \in Requests : request[c] \in RequestRow
  BY DEF AccessInv, Typed
<1>2. \A c \in Requests : request[c].pc = "locked" => c \in {rowLock[u] : u \in Users}
  BY DEF AccessInv, LocksHeld
<1>3. \A c \in Requests : c \in {rowLock[u] : u \in Users} => request[c].pc = "locked"
  BY AccessAssumption DEF AccessInv, LocksHeld
<1>4. /\ \A u \in Users : rowLock[u] # Nobody => request[rowLock[u]].target = u
      /\ \A u \in Users : key[u].state \in {"NONE", "ACTIVE", "DISABLED", "REVOKED"}
  BY DEF AccessInv, LocksHeld, Typed
<1> QED BY <1>1, <1>2, <1>3, <1>4 DEF AccessInv, Typed, AccessTypeOK, RequestRow

\* Every state component has its type, and a person's row is locked by the one request that is
\* about to write about that person (the FOR UPDATE of update_managed_user and select_scope).
THEOREM AccessTypesHold == AccessSpec => []AccessTypeOK
BY AccessInvSuffices, AccessInvariance, PTL

-----------------------------------------------------------------------------
(***************************************************************************)
(* Scopes                                                                  *)
(***************************************************************************)
ScopeInv == ScopeIsMembership /\ ReadStillTrue

\* A step that ends no membership, begins no selection and selects nothing.
LEMMA MoreMembers ==
    ASSUME AccessInv, ScopeInv,
           \A t \in Teams, u \in Users : member[t][u] = "ACTIVE" => member'[t][u] = "ACTIVE",
           \A u \in Users : scope'[u] \in {Nobody, scope[u]}
                            \/ (scope'[u] \in Teams /\ member'[scope'[u]][u] = "ACTIVE"),
           \A c \in Requests : request'[c].pc = "locked" /\ request'[c].command = "select" =>
               \/ request'[c] = request[c]
               \/ member'[request'[c].team][request'[c].target] = "ACTIVE"
    PROVE  ScopeInv'
<1>1. \A u \in Users : scope[u] # Nobody => scope[u] \in Teams /\ member[scope[u]][u] = "ACTIVE"
  BY DEF AccessInv, Typed, ScopeInv, ScopeIsMembership
<1>2. ScopeIsMembership'
  BY <1>1 DEF ScopeIsMembership
<1>3. ReadStillTrue'
  BY DEF ReadStillTrue, ScopeInv, AccessInv, LocksHeld
<1> QED BY <1>2, <1>3 DEF ScopeInv

\* A request ends a membership, under the lock of the person's row.
LEMMA MembershipEnds ==
    ASSUME AccessInv, ScopeInv, NEW c \in Requests, request[c].pc = "locked",
           request[c].command # "select", NEW ended,
           member' = [member EXCEPT ![request[c].team][request[c].target] = ended],
           scope' = Leaves(request[c].target, request[c].team),
           Finish(c, request[c].target)
    PROVE  ScopeInv'
<1> DEFINE t == request[c].team
           u == request[c].target
<1>1. t \in Teams /\ u \in Users /\ rowLock[u] = c
  BY DEF AccessInv, LocksHeld
<1>2. \A v \in Users \ {u} : scope'[v] = scope[v] /\ \A s \in Teams : member'[s][v] = member[s][v]
  BY <1>1 DEF AccessInv, Typed, Leaves
<1>3. \A s \in Teams \ {t} : member'[s] = member[s]
  BY <1>1 DEF AccessInv, Typed
<1>4. scope'[u] # t /\ scope'[u] \in {Nobody, scope[u]}
  BY <1>1, AccessAssumption DEF AccessInv, Typed, Leaves
<1>5. \A v \in Users : scope[v] \in Teams \cup {Nobody}
  BY DEF AccessInv, Typed
<1>6. ScopeIsMembership'
  <2> SUFFICES ASSUME NEW v \in Users, scope'[v] # Nobody PROVE member'[scope'[v]][v] = "ACTIVE"
    BY DEF ScopeIsMembership
  <2>1. scope'[v] = scope[v] /\ scope[v] \in Teams /\ member[scope[v]][v] = "ACTIVE"
    BY <1>2, <1>4, <1>5 DEF ScopeInv, ScopeIsMembership
  <2>2. CASE v = u
    BY <1>3, <1>4, <2>1, <2>2
  <2>3. CASE v # u
    BY <1>2, <2>1, <2>3
  <2> QED BY <2>2, <2>3
<1>7. ReadStillTrue'
  <2> SUFFICES ASSUME NEW d \in Requests, request'[d].pc = "locked",
                      request'[d].command = "select"
               PROVE  member'[request'[d].team][request'[d].target] = "ACTIVE"
    BY DEF ReadStillTrue
  <2>1. d # c /\ request'[d] = request[d]
    BY DEF Finish, NoRequest, AccessInv, Typed
  <2>2. request[d].target \in Users \ {u} /\ request[d].team \in Teams
    BY <1>1, <2>1 DEF AccessInv, LocksHeld
  <2> QED BY <1>2, <2>1, <2>2 DEF ScopeInv, ReadStillTrue
<1> QED BY <1>6, <1>7 DEF ScopeInv

LEMMA MemberStepScopes == AccessInv /\ ScopeInv /\ MemberStep => ScopeInv'
<1> SUFFICES ASSUME AccessInv, ScopeInv, MemberStep PROVE ScopeInv'
  OBVIOUS
<1>0. NoRequest.pc = "new"
  BY DEF NoRequest
<1>1. ASSUME NEW a \in Users, NEW u \in Users, NEW grant \in SUBSET Roles, CreateUser(a, u, grant)
      PROVE  ScopeInv'
  <2>1. scope[a] \in Teams
    BY <1>1 DEF CreateUser, AccessInv, Typed
  <2> QED BY <1>1, <2>1, MoreMembers DEF CreateUser, AccessInv, Typed, requestVars
<1>2. ASSUME NEW a \in Users, NEW t \in Teams, CreateTeam(a, t) PROVE ScopeInv'
  BY <1>2, MoreMembers DEF CreateTeam, AccessInv, Typed, requestVars
<1>3. ASSUME NEW c \in Requests, NEW r, r.pc # "locked", request' = [request EXCEPT ![c] = r],
             UNCHANGED <<member, scope>>
      PROVE  ScopeInv'
  <2>1. request'[c] = r /\ \A d \in Requests \ {c} : request'[d] = request[d]
    BY <1>3 DEF AccessInv, Typed
  <2> QED BY <1>3, <2>1, MoreMembers
<1>4. ASSUME NEW c \in Requests, Lock(c) PROVE ScopeInv'
  <2>1. CASE request' = [request EXCEPT ![c] = NoRequest]
    BY <1>0, <1>3, <1>4, <2>1 DEF Lock, memberVars
  <2>2. CASE request' = [request EXCEPT ![c] = [request[c] EXCEPT !.pc = "locked"]]
    <3>1. request'[c].command # "select" /\ \A d \in Requests \ {c} : request'[d] = request[d]
      BY <1>4, <2>2 DEF Lock, AccessInv, Typed, RequestRow
    <3> QED BY <1>4, <3>1, MoreMembers DEF Lock, memberVars
  <2> QED BY <1>4, <2>1, <2>2 DEF Lock
<1>5. ASSUME NEW c \in Requests, UpdateAccess(c) PROVE ScopeInv'
  <2>1. request[c].pc = "locked" /\ request[c].command # "select"
    BY <1>5 DEF UpdateAccess
  <2>2. CASE request[c].stays
    <3>1. request'[c].pc = "new" /\ \A d \in Requests \ {c} : request'[d] = request[d]
      BY <1>0, <1>5 DEF UpdateAccess, Finish, AccessInv, Typed
    <3>2. \A s \in Teams, v \in Users : member[s][v] = "ACTIVE" => member'[s][v] = "ACTIVE"
      BY <1>5, <2>2 DEF UpdateAccess, AccessInv, Typed
    <3> QED BY <1>5, <2>2, <3>1, <3>2, MoreMembers DEF UpdateAccess
  <2>3. CASE ~request[c].stays
    BY <1>5, <2>1, <2>3, MembershipEnds DEF UpdateAccess
  <2> QED BY <2>2, <2>3
<1>6. ASSUME NEW c \in Requests, RemoveMember(c) PROVE ScopeInv'
  <2>1. request[c].pc = "locked" /\ request[c].command # "select"
    BY <1>6 DEF RemoveMember
  <2> QED BY <1>6, <2>1, MembershipEnds DEF RemoveMember
<1>7. ASSUME NEW c \in Requests, AddMember(c) PROVE ScopeInv'
  <2>1. request'[c].pc = "new" /\ \A d \in Requests \ {c} : request'[d] = request[d]
    BY <1>0, <1>7 DEF AddMember, AccessInv, Typed
  <2>2. \A s \in Teams, v \in Users : member[s][v] = "ACTIVE" => member'[s][v] = "ACTIVE"
    <3>1. CASE member' = member
      BY <3>1
    <3>2. CASE member' = [member EXCEPT ![request[c].team][request[c].target] = "ACTIVE"]
      BY <3>2 DEF AccessInv, Typed
    <3> QED BY <1>7, <3>1, <3>2 DEF AddMember
  <2>3. scope' = scope
    BY <1>7 DEF AddMember
  <2> QED BY <2>1, <2>2, <2>3, MoreMembers
<1>8. ASSUME NEW c \in Requests, NEW u \in Users, NEW t \in Teams, Select(c, u, t) PROVE ScopeInv'
  <2> DEFINE r == [NoRequest EXCEPT !.pc = "locked", !.target = u, !.team = t]
  <2>1. r.target = u /\ r.team = t
    BY DEF NoRequest
  <2>2. request' = [request EXCEPT ![c] = r]
    BY <1>8 DEF Select
  <2> HIDE DEF r
  <2>3. request'[c] = r /\ \A d \in Requests \ {c} : request'[d] = request[d]
    BY <2>2 DEF AccessInv, Typed
  <2> QED BY <1>8, <2>1, <2>3, MoreMembers DEF Select, memberVars
<1>9. ASSUME NEW c \in Requests, Selected(c) PROVE ScopeInv'
  <2>1. request'[c].pc = "new" /\ \A d \in Requests \ {c} : request'[d] = request[d]
    BY <1>0, <1>9 DEF Selected, Finish, AccessInv, Typed
  <2>2. /\ request[c].target \in Users /\ request[c].team \in Teams
        /\ member[request[c].team][request[c].target] = "ACTIVE"
    BY <1>9 DEF Selected, AccessInv, LocksHeld, ScopeInv, ReadStillTrue
  <2>3. \A v \in Users : scope'[v] = scope[v]
                         \/ (v = request[c].target /\ scope'[v] = request[c].team)
    BY <1>9 DEF Selected, AccessInv, Typed
  <2>4. \A v \in Users : scope'[v] \in {Nobody, scope[v]}
                         \/ (scope'[v] \in Teams /\ member'[scope'[v]][v] = "ACTIVE")
    BY <1>9, <2>2, <2>3 DEF Selected
  <2> QED BY <1>9, <2>1, <2>4, MoreMembers DEF Selected
<1>10. ASSUME NEW c \in Requests, NEW a, NEW u, NEW command, NEW grant, NEW stays, NEW reset,
              Ask(c, a, u, command, grant, stays, reset)
       PROVE  ScopeInv'
  BY <1>3, <1>10 DEF Ask, memberVars
<1>11. ASSUME NEW c \in Requests, AssignRole(c) PROVE ScopeInv'
  BY <1>0, <1>3, <1>11 DEF AssignRole
<1>12. CASE Asking
  BY <1>10, <1>12 DEF Asking
<1> QED
  BY <1>1, <1>2, <1>4, <1>5, <1>6, <1>7, <1>8, <1>9, <1>11, <1>12 DEF MemberStep, Asking

LEMMA CredentialStepScopes ==
    ASSUME ScopeInv, UNCHANGED <<member, scope, request>> PROVE ScopeInv'
BY DEF ScopeInv, ScopeIsMembership, ReadStillTrue

LEMMA ScopeInit == AccessInit => ScopeInv
BY AccessAssumption DEF AccessInit, ScopeInv, ScopeIsMembership, ReadStillTrue, NoRequest

LEMMA ScopeStep == AccessInv /\ ScopeInv /\ [AccessNext]_accessVars => ScopeInv'
<1>1. ASSUME CredentialStep PROVE UNCHANGED <<member, scope, request>>
  <2>1. ASSUME NEW u, LoginReads(u) \/ LoginIssues(u) PROVE UNCHANGED <<memberVars, request>>
    BY <2>1 DEF LoginReads, LoginIssues, requestVars
  <2>2. ASSUME NEW u, CreateKey(u) \/ RotateKey(u) \/ RevokeKey(u)
        PROVE  UNCHANGED <<memberVars, request>>
    BY <2>2 DEF CreateKey, RotateKey, RevokeKey, requestVars
  <2>3. ASSUME NEW s, AskToChange(s) PROVE UNCHANGED <<memberVars, request>>
    BY <2>3 DEF AskToChange, requestVars
  <2>4. ASSUME NEW u, NEW v, ChangePassword(u, v) \/ RepeatChange(u, v)
        PROVE  UNCHANGED <<memberVars, request>>
    BY <2>4 DEF ChangePassword, RepeatChange, requestVars
  <2>5. ASSUME NEW u, NEW state, SetKeyState(u, state) PROVE UNCHANGED <<memberVars, request>>
    BY <2>5 DEF SetKeyState, requestVars
  <2>6. UNCHANGED <<memberVars, request>>
    BY <1>1, <2>1, <2>2, <2>3, <2>4, <2>5 DEF CredentialStep
  <2> QED BY <2>6 DEF memberVars
<1>2. ASSUME UNCHANGED accessVars PROVE UNCHANGED <<member, scope, request>>
  BY <1>2 DEF accessVars, memberVars, requestVars
<1> QED BY <1>1, <1>2, MemberStepScopes, CredentialStepScopes DEF AccessNext

\* The scope a person works in is a team the person is an active member of, for any number of
\* people, teams and requests at once (select_scope, create_team, update_managed_user and
\* remove_team_member).
THEOREM ScopesHold == AccessSpec => []ScopeIsMembership
<1>1. ScopeInv => ScopeIsMembership
  BY DEF ScopeInv
<1> QED BY <1>1, ScopeInit, ScopeStep, AccessInvariance, PTL DEF AccessSpec

-----------------------------------------------------------------------------
(***************************************************************************)
(* Credentials                                                             *)
(***************************************************************************)
LEMMA RightsSuffice == Together /\ KeysHold /\ AccessInv => CredentialsAreCurrent
<1> SUFFICES ASSUME Together, KeysHold, AccessInv PROVE CredentialsAreCurrent
  OBVIOUS
<1>1. \A s \in sessions : Accepted(s) => s.password = password[s.user]
  BY DEF Together, AccessInv, Typed, Accepted
<1>2. ASSUME NEW token \in tokens, Authenticates(token)
      PROVE  /\ token[1] \notin revoked
             /\ \A other \in tokens : other[1] = token[1] => other[2] <= token[2]
  <2>1. token[1] \in Users /\ key[token[1]].state = "ACTIVE" /\ token[2] = keyVersion[token[1]]
    BY <1>2 DEF KeysHold, Authenticates
  <2> QED BY <2>1 DEF KeysHold
<1> QED BY <1>1, <1>2 DEF CredentialsAreCurrent

\* Members' steps reset a password together with its version and touch no key.
LEMMA MemberStepCredentials ==
    ASSUME AccessInv, Together, KeysHold, MemberStep
    PROVE  Together' /\ KeysHold'
<1>1. UNCHANGED <<verified, changed, sessions, asking, keyVars>>
  <2>1. ASSUME NEW a, NEW u, NEW grant, CreateUser(a, u, grant)
        PROVE  UNCHANGED <<passwordVars, keyVars>>
    BY <2>1 DEF CreateUser
  <2>2. ASSUME NEW a, NEW t, CreateTeam(a, t) PROVE UNCHANGED <<passwordVars, keyVars>>
    BY <2>2 DEF CreateTeam
  <2>3. ASSUME NEW c, NEW a, NEW u, NEW command, NEW grant, NEW stays, NEW reset,
               Ask(c, a, u, command, grant, stays, reset)
        PROVE  UNCHANGED <<passwordVars, keyVars>>
    BY <2>3 DEF Ask
  <2>4. ASSUME NEW c, Lock(c) \/ RemoveMember(c) \/ AddMember(c) \/ AssignRole(c) \/ Selected(c)
        PROVE  UNCHANGED <<passwordVars, keyVars>>
    BY <2>4 DEF Lock, RemoveMember, AddMember, AssignRole, Selected
  <2>5. ASSUME NEW c, NEW u, NEW t, Select(c, u, t) PROVE UNCHANGED <<passwordVars, keyVars>>
    BY <2>5 DEF Select
  <2>6. ASSUME NEW c, UpdateAccess(c)
        PROVE  UNCHANGED <<verified, changed, sessions, asking, keyVars>>
    BY <2>6 DEF UpdateAccess
  <2>7. ASSUME UNCHANGED <<passwordVars, keyVars>>
        PROVE  UNCHANGED <<verified, changed, sessions, asking, keyVars>>
    BY <2>7 DEF passwordVars
  <2>8. CASE Asking
    BY <2>3, <2>7, <2>8 DEF Asking
  <2> QED BY <2>1, <2>2, <2>4, <2>5, <2>6, <2>7, <2>8 DEF MemberStep, Asking
<1>2. Together'
  BY <1>1 DEF Together
<1>3. KeysHold'
  BY <1>1 DEF KeysHold, keyVars
<1> QED BY <1>2, <1>3

LEMMA CredentialStepCredentials ==
    ASSUME AccessInv, Together, KeysHold, CredentialStep
    PROVE  Together' /\ KeysHold'
<1>0. \A u \in Users : Proof(u).version = Proof(u).password /\ Proof(u).user = u
  BY DEF Proof, AccessInv, Typed
<1>1. ASSUME NEW u \in Users, LoginReads(u) PROVE Together' /\ KeysHold'
  <2>1. verified' = [verified EXCEPT ![u] = Proof(u)]
        /\ UNCHANGED <<changed, sessions, keyVars>>
    BY <1>1 DEF LoginReads
  <2> QED BY <1>0, <2>1 DEF Together, KeysHold, keyVars
<1>2. ASSUME NEW u \in Users, LoginIssues(u) PROVE Together' /\ KeysHold'
  <2>1. /\ sessions' = sessions \cup {verified[u]}
        /\ verified' = [verified EXCEPT ![u] = Nobody]
        /\ verified[u] # Nobody /\ UNCHANGED <<changed, keyVars>>
    BY <1>2 DEF LoginIssues, Claims
  <2> QED BY <2>1 DEF Together, KeysHold, keyVars
<1>3. ASSUME NEW s \in sessions, AskToChange(s) PROVE Together' /\ KeysHold'
  BY <1>3 DEF AskToChange, Together, KeysHold, keyVars
<1>4. ASSUME NEW u \in Users, NEW v \in 1 .. MaxPassword, ChangePassword(u, v)
      PROVE  Together' /\ KeysHold'
  <2>1. AccessInv'
    BY CredentialStepHolds
  <2>2. Proof(u)'.version = Proof(u)'.password /\ Proof(u)'.user = u
    BY <2>1 DEF Proof, AccessInv, Typed
  <2>3. /\ changed' = [changed EXCEPT ![u] = Proof(u)'] /\ sessions' = sessions \cup {Proof(u)'}
        /\ UNCHANGED <<verified, keyVars>>
    BY <1>4 DEF ChangePassword
  <2> QED BY <2>2, <2>3 DEF Together, KeysHold, keyVars
<1>5. ASSUME NEW u \in Users, NEW v \in 1 .. MaxPassword, RepeatChange(u, v)
      PROVE  Together' /\ KeysHold'
  <2>1. /\ changed[u] # Nobody /\ sessions' = sessions \cup {changed[u]}
        /\ UNCHANGED <<verified, changed, keyVars>>
    BY <1>5 DEF RepeatChange
  <2> QED BY <2>1 DEF Together, KeysHold, keyVars
<1>6. ASSUME NEW u \in Users, CreateKey(u) PROVE Together' /\ KeysHold'
  <2>1. /\ key[u].state = "NONE" /\ keyVersion[u] = 0
        /\ key'[u].state = "ACTIVE" /\ keyVersion'[u] = 1
        /\ \A v \in Users \ {u} : key'[v] = key[v] /\ keyVersion'[v] = keyVersion[v]
        /\ tokens' = tokens \cup {<<u, 1>>} /\ revoked' = revoked /\ UNCHANGED passwordVars
    BY <1>6 DEF CreateKey, NoKey, KeysHold, AccessInv, Typed
  <2>2. Together'
    BY <2>1 DEF Together, passwordVars
  <2>3. tokens' \subseteq Users \X Nat
    BY <2>1 DEF KeysHold
  <2>4. \A token \in tokens' : token[2] <= keyVersion'[token[1]]
    BY <2>1 DEF KeysHold
  <2>5. KeysHold'
    BY <2>1, <2>3, <2>4 DEF KeysHold
  <2> QED BY <2>2, <2>5
<1>7. ASSUME NEW u \in Users, RotateKey(u) PROVE Together' /\ KeysHold'
  <2>1. /\ key[u].state # "NONE" /\ keyVersion[u] \in Nat /\ keyVersion'[u] = keyVersion[u] + 1
        /\ \A v \in Users \ {u} : keyVersion'[v] = keyVersion[v]
        /\ tokens' = tokens \cup {<<u, keyVersion[u] + 1>>}
        /\ UNCHANGED <<key, revoked, passwordVars>>
    BY <1>7 DEF RotateKey, Usable, AccessInv, Typed
  <2>2. Together'
    BY <2>1 DEF Together, passwordVars
  <2>3. tokens' \subseteq Users \X Nat
    BY <2>1 DEF KeysHold
  <2>4. \A token \in tokens' : token[2] <= keyVersion'[token[1]]
    BY <2>1 DEF KeysHold
  <2>5. KeysHold'
    BY <2>1, <2>3, <2>4 DEF KeysHold
  <2> QED BY <2>2, <2>5
<1>8. ASSUME NEW u \in Users, NEW state \in {"ACTIVE", "DISABLED", "REVOKED"}, Usable(u),
             key' = [key EXCEPT ![u].state = state],
             revoked' = revoked \/ (state = "REVOKED" /\ revoked' = revoked \cup {u}),
             UNCHANGED <<passwordVars, keyVersion, tokens>>
      PROVE  Together' /\ KeysHold'
  <2>1. key'[u].state = state /\ \A v \in Users \ {u} : key'[v] = key[v]
    BY <1>8 DEF AccessInv, Typed
  <2>2. Together'
    BY <1>8 DEF Together, passwordVars
  <2>3. KeysHold'
    BY <1>8, <2>1 DEF KeysHold, Usable
  <2> QED BY <2>2, <2>3
<1>9. ASSUME NEW u \in Users, RevokeKey(u) PROVE Together' /\ KeysHold'
  BY <1>8, <1>9 DEF RevokeKey
<1>10. ASSUME NEW u \in Users, NEW state \in {"ACTIVE", "DISABLED"}, SetKeyState(u, state)
       PROVE  Together' /\ KeysHold'
  BY <1>8, <1>10 DEF SetKeyState
<1> QED
  BY <1>1, <1>2, <1>3, <1>4, <1>5, <1>6, <1>7, <1>9, <1>10 DEF CredentialStep

LEMMA CredentialsInit == AccessInit => Together /\ KeysHold
BY DEF AccessInit, Together, KeysHold, NoKey

LEMMA CredentialsNext ==
    AccessInv /\ Together /\ KeysHold /\ [AccessNext]_accessVars => (Together /\ KeysHold)'
<1>1. ASSUME UNCHANGED accessVars, Together, KeysHold PROVE Together' /\ KeysHold'
  BY <1>1 DEF Together, KeysHold, accessVars, passwordVars, keyVars
<1> QED BY <1>1, MemberStepCredentials, CredentialStepCredentials DEF AccessNext

\* A session that is let through proves the present password, and a token that is let through is
\* the newest of a key that was never revoked, however many people log in, change and repeat
\* (current_identity, change_password, authenticate_api_client).
THEOREM CredentialsHold == AccessSpec => []CredentialsAreCurrent
BY CredentialsInit, CredentialsNext, RightsSuffice, AccessInvariance, PTL DEF AccessSpec

-----------------------------------------------------------------------------
(***************************************************************************)
(* The composition.  Each of its instances takes the steps of one module   *)
(* and leaves the other two alone, so what each keeps, all keep.           *)
(***************************************************************************)
Foci == {"lease", "members", "credentials", "accounts"}

MCInv ==
    /\ focus \in Foci
    /\ FencedInv /\ AccessInv /\ ScopeInv /\ Together /\ KeysHold /\ Inv

\* What the administrator of "credentials" does is what any administrator may do.
LEMMA CredentialsStepIsTheirs == CredentialsStep => AccessNext
<1> SUFFICES ASSUME CredentialsStep PROVE AccessNext
  OBVIOUS
<1> Founder \in Users /\ Request \in Requests
  BY AccessAssumption, RequestAssumption
<1>1. ASSUME NEW u \in Users, NEW grant \in SUBSET Roles, CreateUser(Founder, u, grant)
      PROVE  MemberStep
  BY <1>1 DEF MemberStep
<1>2. ASSUME NEW u \in Users, NEW command \in Commands, NEW grant \in SUBSET Roles,
             NEW stays \in BOOLEAN, NEW reset \in BOOLEAN,
             Ask(Request, Founder, u, command, grant, stays, reset)
      PROVE  MemberStep
  <2>1. Request \in {d \in Requests : request[d].pc = "new"}
    BY <1>2 DEF Ask
  <2>2. Founder \in {x \in Users : scope[x] # Nobody} /\ u \in known
    BY <1>2 DEF Ask
  <2> QED
    BY <1>2, <2>1, <2>2 DEF MemberStep
<1>3. ASSUME Lock(Request) \/ UpdateAccess(Request) \/ RemoveMember(Request)
      PROVE  MemberStep
  BY <1>3 DEF MemberStep
<1>4. ASSUME NEW u \in Users \ {Founder}, NEW grant \in {{}, {"REVIEWER"}}, NEW reset \in BOOLEAN,
             \/ CreateUser(Founder, u, grant)
             \/ Ask(Request, Founder, u, "update", grant, grant # {}, reset)
             \/ Ask(Request, Founder, u, "remove", {}, FALSE, FALSE)
      PROVE  MemberStep
  <2>1. grant \in SUBSET Roles /\ {} \in SUBSET Roles /\ (grant # {}) \in BOOLEAN
    BY DEF Roles
  <2>2. "update" \in Commands /\ "remove" \in Commands
    BY DEF Commands
  <2> QED
    BY <1>1, <1>2, <1>4, <2>1, <2>2
<1> QED
  BY <1>3, <1>4 DEF CredentialsStep, AccessNext

LEMMA MCStepsAreTheirs ==
    focus \in Foci /\ [MCNext]_<<vars, accessVars, accountsVars, focus>> =>
        /\ [Next]_vars /\ [AccessNext]_accessVars /\ [AccountNext]_accountsVars
        /\ UNCHANGED focus
<1> SUFFICES ASSUME focus \in Foci, MCNext \/ UNCHANGED <<vars, accessVars, accountsVars, focus>>
             PROVE  /\ [Next]_vars /\ [AccessNext]_accessVars /\ [AccountNext]_accountsVars
                    /\ UNCHANGED focus
  OBVIOUS
<1>1. CASE focus = "lease" /\ MCNext
  BY <1>1 DEF MCNext
<1>2. CASE focus = "members" /\ MCNext
  BY <1>2 DEF MCNext, MembersStep, AccessNext
<1>3. CASE focus = "credentials" /\ MCNext
  BY <1>3, CredentialsStepIsTheirs DEF MCNext
<1>4. CASE focus = "accounts" /\ MCNext
  BY <1>4 DEF MCNext
<1>5. CASE UNCHANGED <<vars, accessVars, accountsVars, focus>>
  BY <1>5
<1> QED
  BY <1>1, <1>2, <1>3, <1>4, <1>5 DEF Foci

LEMMA MCInvHolds == MCSpec => []MCInv
<1>1. MCInit => MCInv
  BY LeaseInitHolds, AccessInitHolds, ScopeInit, CredentialsInit, InitInv DEF MCInit, MCInv, Foci
<1>2. MCInv /\ [MCNext]_<<vars, accessVars, accountsVars, focus>> => MCInv'
  BY MCStepsAreTheirs, LeaseNextHolds, AccessNextHolds, ScopeStep, CredentialsNext, NextKeepsInv
     DEF MCInv
<1> QED
  BY <1>1, <1>2, PTL DEF MCSpec

\* Lease, people and accounts keep the values of their columns side by side, also where an
\* administrator resets the password of one who is logging in.
THEOREM AllTypesHold == MCSpec => []AllTypesOK
<1>1. MCInv => AllTypesOK
  BY AccessInvSuffices DEF MCInv, FencedInv, Inv, AllTypesOK
<1> QED
  BY <1>1, MCInvHolds, PTL

\* What holds of each holds of the three together.
THEOREM AccessComposed ==
    MCSpec => /\ []ScopeIsMembership /\ []CredentialsAreCurrent /\ []AccountsSound
              /\ WritesInTokenOrder /\ ImplementsFence
<1>1. MCInv => ScopeIsMembership /\ CredentialsAreCurrent /\ AccountsSound
  BY RightsSuffice DEF MCInv, ScopeInv, Inv, AccountsSound
<1>2. MCInv /\ [MCNext]_<<vars, accessVars, accountsVars, focus>> =>
        /\ [\A i \in Intents : written[i] <= written'[i]]_written
        /\ [AbstractFence!Next]_<<lease.token, IF lease.live THEN lease.owner ELSE None>>
  BY MCStepsAreTheirs, WritesStep, FenceStep DEF MCInv
<1>3. MCInit => AbstractFence!Init
  BY FenceInit DEF MCInit
<1> QED
  BY <1>1, <1>2, <1>3, MCInvHolds, PTL
     DEF MCSpec, WritesInTokenOrder, ImplementsFence, AbstractFence!Spec
==============================================================================
