------------------------------- MODULE Accounts -------------------------------
(***************************************************************************)
(* The exchange accounts of a team: their credentials, the check of their  *)
(* connection, the continuous reading, the trading eligibility and the     *)
(* Freqtrade worker bound to each.                                         *)
(*                                                                         *)
(* A handler locks the row for the whole of its transaction and tests the  *)
(* version the caller saw, so it is one step; a refused or repeated call   *)
(* changes nothing.  What takes longer is a call: it reads the row, works  *)
(* outside of any transaction and comes back with what it saw.             *)
(*   "connection"  a person's check of the credentials at the venue        *)
(*   "worker"      a person's check of the worker                          *)
(*   "runtime"     the supervisor's probe of the worker, and its stream    *)
(*   "create"      the creation, which reads the row without locking it    *)
(*                                                                         *)
(* Credentials and worker passwords are numbered as they are entered.      *)
(* Roles, labels, the team's mode (NewRisk), the open business that keeps  *)
(* an account from being deleted and the instrument catalogue are left     *)
(* out: what depends on them may succeed or be refused.                    *)
(***************************************************************************)
EXTENDS Integers

CONSTANTS
    Accounts,     \* the identities accounts can have: venue, environment and name
    Calls,
    Fingerprints, \* of a worker's configuration
    MaxVersion,   \* bound on the version of a row
    MaxSecret     \* bound on the credentials and passwords entered

ASSUME AccountsAssumption ==
    /\ MaxVersion \in Nat \ {0} /\ MaxSecret \in Nat
    /\ "none" \notin Fingerprints

VARIABLES
    row,         \* of each account; its version is 0 before it is created
    principal,   \* the service user that reads it: "none", "active" or "inactive"
    connected, proved, \* the credentials and the password that the last good check saw
    secrets,     \* how many have been entered
    overwritten, \* accounts that a creation wrote over a row it had not read
    doing, of, saw \* of each call: its kind, its account and the row it read

accountVars == <<row, principal, connected, proved, secrets, overwritten>>
callVars == <<doing, of, saw>>
accountsVars == <<accountVars, callVars>>

Faults == {"none", "catalog", "changed", "other"}

Row ==
    [version : Nat, active : BOOLEAN,
     secret : 0 .. MaxSecret, credVersion : Nat,
     connection : {"UNCONFIGURED", "NOT_VERIFIED", "VERIFIED", "FAILED"},
     sync : BOOLEAN, trading : {"DISABLED", "BLOCKED", "ELIGIBLE"},
     worker : {"UNCONFIGURED", "NOT_VERIFIED", "VERIFIED", "FAILED", "STALE"},
     auth : 0 .. MaxSecret, authVersion : Nat,
     fingerprint : Fingerprints \cup {"none"}, fault : Faults]

Absent ==
    [version |-> 0, active |-> FALSE, secret |-> 0, credVersion |-> 0,
     connection |-> "UNCONFIGURED", sync |-> FALSE, trading |-> "DISABLED",
     worker |-> "UNCONFIGURED", auth |-> 0, authVersion |-> 0,
     fingerprint |-> "none", fault |-> "none"]

AccountsInit ==
    /\ row = [a \in Accounts |-> Absent] /\ principal = [a \in Accounts |-> "none"]
    /\ connected = [a \in Accounts |-> 0] /\ proved = [a \in Accounts |-> 0]
    /\ secrets = 0 /\ overwritten = {}
    /\ doing = [k \in Calls |-> "idle"] /\ saw = [k \in Calls |-> Absent]
    /\ of \in [Calls -> Accounts]

(***************************************************************************)
(* The row                                                                 *)
(***************************************************************************)
Exists(a) == row[a].version > 0

\* What the schema asks of a row: a statement that breaks it is rolled back.
SchemaHolds(r) ==
    /\ r.sync => r.active /\ r.connection = "VERIFIED" /\ r.credVersion >= 1
    /\ (r.secret = 0) = (r.credVersion = 0)
    /\ (r.worker = "UNCONFIGURED") = (r.auth = 0) /\ (r.auth = 0) = (r.authVersion = 0)

Change(a, r) ==
    /\ Exists(a) /\ row[a].version < MaxVersion /\ SchemaHolds(r)
    /\ row' = [row EXCEPT ![a] = [r EXCEPT !.version = row[a].version + 1]]

NewSecret == secrets < MaxSecret /\ secrets' = secrets + 1

SetPrincipal(a, active) ==
    principal' = [principal EXCEPT ![a] =
        IF @ = "none" THEN @ ELSE IF active THEN "active" ELSE "inactive"]

WithoutWorker(r) ==
    [r EXCEPT !.worker = "UNCONFIGURED", !.auth = 0, !.authVersion = 0, !.fault = "none"]

Readable(r) == r.active /\ r.connection = "VERIFIED" /\ r.secret > 0 /\ r.credVersion >= 1

\* What the supervisor asks of every account it is to read: one that fails it stops the
\* reading of all.
Bindable(a) == Readable(row[a]) /\ principal[a] = "active"

LiveReady(a) == row[a].sync /\ Bindable(a)

(***************************************************************************)
(* People's changes                                                        *)
(***************************************************************************)
RotateCredentials(a) ==
    /\ NewSecret /\ SetPrincipal(a, FALSE)
    /\ Change(a, [row[a] EXCEPT !.secret = secrets', !.credVersion = @ + 1,
                                !.connection = "NOT_VERIFIED", !.sync = FALSE,
                                !.trading = "DISABLED"])
    /\ UNCHANGED <<connected, proved, overwritten, callVars>>

EnableSync(a) ==
    /\ Readable(row[a])
    /\ Change(a, [row[a] EXCEPT !.sync = TRUE])
    /\ principal' = [principal EXCEPT ![a] = "active"]
    /\ UNCHANGED <<connected, proved, secrets, overwritten, callVars>>

\* A change that stops what depends on it.
Blocked(trading) == IF trading = "ELIGIBLE" THEN "BLOCKED" ELSE trading

DisableSync(a) ==
    /\ Change(a, [row[a] EXCEPT !.sync = FALSE, !.trading = Blocked(@)])
    /\ SetPrincipal(a, FALSE)
    /\ UNCHANGED <<connected, proved, secrets, overwritten, callVars>>

EnableTrading(a) ==
    /\ LiveReady(a)
    /\ Change(a, [row[a] EXCEPT !.trading = "ELIGIBLE"])
    /\ UNCHANGED <<principal, connected, proved, secrets, overwritten, callVars>>

DisableTrading(a) ==
    /\ Change(a, [row[a] EXCEPT !.trading = "DISABLED"])
    /\ UNCHANGED <<principal, connected, proved, secrets, overwritten, callVars>>

ConfigureWorker(a) ==
    /\ NewSecret
    /\ Change(a, [row[a] EXCEPT !.worker = "NOT_VERIFIED", !.auth = secrets',
                                !.authVersion = @ + 1, !.fingerprint = "none",
                                !.fault = "none"])
    /\ UNCHANGED <<principal, connected, proved, overwritten, callVars>>

UnconfigureWorker(a) ==
    /\ Change(a, [WithoutWorker(row[a]) EXCEPT !.fingerprint = "none"])
    /\ UNCHANGED <<principal, connected, proved, secrets, overwritten, callVars>>

Rename(a) ==
    /\ row[a].active /\ Change(a, row[a])
    /\ UNCHANGED <<principal, connected, proved, secrets, overwritten, callVars>>

EnableAccount(a) ==
    /\ row[a].secret > 0 /\ row[a].connection = "VERIFIED"
    /\ Change(a, [row[a] EXCEPT !.active = TRUE])
    /\ UNCHANGED <<principal, connected, proved, secrets, overwritten, callVars>>

DisableAccount(a) ==
    /\ Change(a, [row[a] EXCEPT !.active = FALSE, !.sync = FALSE, !.trading = "DISABLED"])
    /\ SetPrincipal(a, FALSE)
    /\ UNCHANGED <<connected, proved, secrets, overwritten, callVars>>

DeleteAccount(a) ==
    /\ row[a].active /\ SetPrincipal(a, FALSE)
    /\ Change(a, [WithoutWorker(row[a]) EXCEPT
            !.active = FALSE, !.sync = FALSE, !.trading = "DISABLED",
            !.connection = "UNCONFIGURED", !.secret = 0, !.credVersion = 0])
    /\ UNCHANGED <<connected, proved, secrets, overwritten, callVars>>

(***************************************************************************)
(* Calls                                                                   *)
(***************************************************************************)
Begin(k, a, kind) ==
    /\ doing[k] = "idle"
    /\ doing' = [doing EXCEPT ![k] = kind] /\ of' = [of EXCEPT ![k] = a]
    /\ saw' = [saw EXCEPT ![k] = row[a]]
    /\ UNCHANGED accountVars

End(k) == doing' = [doing EXCEPT ![k] = "idle"] /\ UNCHANGED <<of, saw>>

\* A refused result, an error on the way or a crash.
GiveUp(k) == doing[k] # "idle" /\ End(k) /\ UNCHANGED accountVars

BeginCreation(k, a) == ~row[a].active /\ Begin(k, a, "create")

\* The columns whose value differs from the one that was read are written, whatever the row
\* now holds; that the version is still the one that was read is not tested.
Column(read, now, value) == IF value = read THEN now ELSE value

Restored(read, now, secret) ==
    [version |-> read.version + 1, active |-> TRUE, secret |-> secret,
     credVersion |-> Column(read.credVersion, now.credVersion, 1),
     connection |-> Column(read.connection, now.connection, "NOT_VERIFIED"),
     sync |-> Column(read.sync, now.sync, FALSE),
     trading |-> Column(read.trading, now.trading, "DISABLED"),
     worker |-> Column(read.worker, now.worker, "UNCONFIGURED"),
     auth |-> Column(read.auth, now.auth, 0),
     authVersion |-> Column(read.authVersion, now.authVersion, 0),
     fingerprint |-> now.fingerprint, fault |-> Column(read.fault, now.fault, "none")]

CreateAccount(k) ==
    LET a == of[k]
        r == Restored(saw[k], row[a], secrets')
    IN  /\ doing[k] = "create" /\ saw[k].version < MaxVersion
        /\ saw[k].version = 0 => ~Exists(a)
        /\ NewSecret /\ SchemaHolds(r) /\ row' = [row EXCEPT ![a] = r]
        /\ overwritten' = IF row[a] = saw[k] THEN overwritten ELSE overwritten \cup {a}
        /\ End(k) /\ UNCHANGED <<principal, connected, proved>>

PrepareConnectionCheck(k, a) ==
    row[a].active /\ row[a].secret > 0 /\ Begin(k, a, "connection")

ConnectionUnchanged(k) ==
    /\ row[of[k]].version = saw[k].version
    /\ row[of[k]].credVersion = saw[k].credVersion

RecordConnectionCheck(k) ==
    LET a == of[k]
    IN  /\ doing[k] = "connection" /\ ConnectionUnchanged(k) /\ End(k)
        /\ \/ /\ Change(a, [row[a] EXCEPT !.connection = "VERIFIED"])
              /\ connected' = [connected EXCEPT ![a] = saw[k].secret]
              /\ UNCHANGED principal
           \/ /\ Change(a, [row[a] EXCEPT !.connection = "FAILED", !.sync = FALSE,
                                           !.trading = Blocked(@)])
              /\ SetPrincipal(a, FALSE) /\ UNCHANGED connected
        /\ UNCHANGED <<proved, secrets, overwritten>>

PrepareWorkerCheck(k, a) ==
    row[a].active /\ row[a].worker # "UNCONFIGURED" /\ Begin(k, a, "worker")

\* Fault: only the version of the password is compared, which starts again with each binding.
SamePassword(k) == row[of[k]].authVersion = saw[k].authVersion

WorkerUnchanged(k) ==
    /\ row[of[k]].version = saw[k].version
    /\ row[of[k]].authVersion = saw[k].authVersion

RecordWorkerCheck(k, fingerprint) ==
    LET a == of[k]
    IN  /\ doing[k] = "worker" /\ WorkerUnchanged(k) /\ End(k)
        /\ \/ /\ Change(a, [row[a] EXCEPT !.worker = "VERIFIED", !.fault = "none",
                                           !.fingerprint = fingerprint])
              /\ proved' = [proved EXCEPT ![a] = saw[k].auth]
           \/ /\ Change(a, [row[a] EXCEPT !.worker = "FAILED", !.fault = "other"])
              /\ UNCHANGED proved
        /\ UNCHANGED <<principal, connected, secrets, overwritten>>

(***************************************************************************)
(* The supervisor and the worker                                           *)
(***************************************************************************)
Supervised(a) ==
    /\ row[a].sync /\ row[a].active /\ row[a].connection = "VERIFIED"
    /\ row[a].worker # "UNCONFIGURED"

ReadWorkers(k, a) ==
    /\ Supervised(a) /\ \A b \in Accounts : Supervised(b) => principal[b] = "active"
    /\ Begin(k, a, "runtime")

\* A worker that was good and whose configuration changed with the catalogue is good again.
Recovers(r, answer, fingerprint) ==
    /\ answer = "none" /\ r.fingerprint \notin {"none", fingerprint}
    /\ r.worker \in {"VERIFIED", "STALE"} /\ r.fault # "other"

\* What the row then has against the worker: the probe's own error first.
Verdict(r, answer, fingerprint) ==
    CASE answer # "none" -> answer
      [] answer = "none" /\ r.fingerprint \notin {"none", fingerprint} -> "changed"
      [] answer = "none" /\ r.fingerprint \in {"none", fingerprint} ->
           IF r.worker = "VERIFIED" THEN "none" ELSE IF r.fault = "none" THEN "other" ELSE r.fault

Probed(r, answer, fingerprint) ==
    IF Recovers(r, answer, fingerprint)
    THEN [r EXCEPT !.worker = "VERIFIED", !.fault = "none", !.fingerprint = fingerprint]
    ELSE LET fault == Verdict(r, answer, fingerprint)
         IN  [r EXCEPT !.worker = IF fault \in {"catalog", "changed"} THEN "STALE" ELSE @,
                       !.fault = fault,
                       !.fingerprint = IF fault = "none" THEN fingerprint ELSE @]

\* A renewal raises no version: it is made before the old values are remembered.
Counts(a, r, answer, fingerprint) ==
    /\ ~Recovers(row[a], answer, fingerprint)
    /\ row[a].worker # r.worker \/ row[a].fault # r.fault

RecordRuntimeProbe(k, answer, fingerprint) ==
    LET a == of[k]
        r == Probed(row[a], answer, fingerprint)
    IN  /\ doing[k] = "runtime" /\ WorkerUnchanged(k) /\ SchemaHolds(r) /\ End(k)
        /\ IF Counts(a, r, answer, fingerprint)
           THEN Change(a, r) ELSE row' = [row EXCEPT ![a] = r]
        /\ proved' = IF r.fault = "none" THEN [proved EXCEPT ![a] = saw[k].auth] ELSE proved
        /\ UNCHANGED <<principal, connected, secrets, overwritten>>

\* The worker's stream tells of a trade that no dispatch explains.
ExternalTrade(k) ==
    LET a == of[k]
    IN  /\ doing[k] = "runtime" /\ row[a].authVersion = saw[k].authVersion
        /\ row[a].worker = "VERIFIED" /\ principal[a] = "active"
        /\ Change(a, [row[a] EXCEPT !.trading = "BLOCKED"])
        /\ UNCHANGED <<principal, connected, proved, secrets, overwritten, callVars>>

AccountNext ==
    \/ \E a \in Accounts :
          \/ RotateCredentials(a) \/ Rename(a) \/ EnableAccount(a) \/ DisableAccount(a)
          \/ EnableSync(a) \/ DisableSync(a) \/ EnableTrading(a) \/ DisableTrading(a)
          \/ ConfigureWorker(a) \/ UnconfigureWorker(a) \/ DeleteAccount(a)
    \/ \E k \in Calls :
          \/ \E a \in Accounts :
                \/ BeginCreation(k, a) \/ PrepareConnectionCheck(k, a)
                \/ PrepareWorkerCheck(k, a) \/ ReadWorkers(k, a)
          \/ CreateAccount(k) \/ RecordConnectionCheck(k) \/ ExternalTrade(k) \/ GiveUp(k)
          \/ \E f \in Fingerprints :
                \/ RecordWorkerCheck(k, f)
                \/ \E answer \in Faults \ {"changed"} : RecordRuntimeProbe(k, answer, f)

AccountsSpec == AccountsInit /\ [][AccountNext]_accountsVars

(***************************************************************************)
(* Properties                                                              *)
(***************************************************************************)
AccountsTypeOK ==
    /\ row \in [Accounts -> Row]
    /\ principal \in [Accounts -> {"none", "active", "inactive"}]
    /\ connected \in [Accounts -> 0 .. MaxSecret] /\ proved \in [Accounts -> 0 .. MaxSecret]
    /\ secrets \in 0 .. MaxSecret /\ overwritten \subseteq Accounts
    /\ doing \in [Calls -> {"idle", "create", "connection", "worker", "runtime"}]
    /\ of \in [Calls -> Accounts] /\ saw \in [Calls -> Row]

\* An account that is read continuously never fails the supervisor, which would stop reading
\* every account (runtime_account_bindings); one that may trade is one that is read
\* (require_exchange_account_live_ready); and the service user has access exactly while there
\* is something to read, whichever part of the account was changed last.
EligibleIsReadable ==
    \A a \in Accounts : /\ row[a].sync => Bindable(a)
                        /\ row[a].trading = "ELIGIBLE" => LiveReady(a)
                        /\ principal[a] = "active" => row[a].sync

\* A connection or a worker that counts as verified was verified with the credentials and the
\* password that are stored now, though checks take longer than changes; except where a
\* creation has overwritten a row it did not read.
VerifiedIsCurrent ==
    \A a \in Accounts \ overwritten :
        /\ row[a].connection = "VERIFIED" => connected[a] = row[a].secret
        /\ row[a].worker = "VERIFIED" => proved[a] = row[a].auth

\* What may trade or be read is ready for it, by a check of what it now is.
AccountsSound == EligibleIsReadable /\ VerifiedIsCurrent
=============================================================================
