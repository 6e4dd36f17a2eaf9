---------------------------- MODULE Accounts_proofs ----------------------------
(***************************************************************************)
(* An account that may trade or be read is ready for it, by a check of     *)
(* what it now is.                                                         *)
(*                                                                         *)
(* The argument.  Readiness follows from the schema, which every row       *)
(* satisfies, and from the service user, whom each handler treats as it    *)
(* treats the reading.  That a check was of what is stored rests on the    *)
(* calls under way: as long as nobody has overwritten the row, its version *)
(* is not lower than the one a call saw, and where it is the same one, so  *)
(* are the credentials and the password; the counters that start again are *)
(* not relied on.                                                          *)
(***************************************************************************)
EXTENDS Accounts, TLAPS

RowsHold ==
    /\ \A a \in Accounts : SchemaHolds(row[a])
    /\ \A k \in Calls : SchemaHolds(saw[k]) /\ (doing[k] = "create" => ~saw[k].active)

\* What a check or a probe may rely on when it comes back.
StillKnown(k) ==
    LET now == row[of[k]]
    IN  /\ saw[k].version <= now.version
        /\ saw[k].version = now.version => /\ saw[k].secret = now.secret
                                           /\ saw[k].auth = now.auth

CallsKnow == \A k \in Calls : of[k] \notin overwritten => StillKnown(k)

Inv == AccountsTypeOK /\ RowsHold /\ EligibleIsReadable /\ VerifiedIsCurrent /\ CallsKnow

\* The two properties of one account.
Ready(r, user) ==
    /\ r.sync => Readable(r) /\ user = "active"
    /\ r.trading = "ELIGIBLE" => r.sync
    /\ user = "active" => r.sync

Checked(r, credentials, password) ==
    /\ r.connection = "VERIFIED" => credentials = r.secret
    /\ r.worker = "VERIFIED" => password = r.auth

LEMMA EachAccount ==
    Inv <=> /\ AccountsTypeOK /\ RowsHold /\ CallsKnow
            /\ \A a \in Accounts : Ready(row[a], principal[a])
            /\ \A a \in Accounts \ overwritten : Checked(row[a], connected[a], proved[a])
BY DEF Inv, EligibleIsReadable, VerifiedIsCurrent, Ready, Checked, Bindable, LiveReady

\* What Change makes of a row.
LEMMA ChangedRow ==
    ASSUME NEW a \in Accounts, NEW r \in Row, row \in [Accounts -> Row], Change(a, r)
    PROVE  /\ row' \in [Accounts -> Row]
           /\ \A b \in Accounts \ {a} : row'[b] = row[b]
           /\ row'[a].version = row[a].version + 1
           /\ SchemaHolds(row'[a])
           /\ \A user : Ready(r, user) => Ready(row'[a], user)
           /\ \A c, p : Checked(r, c, p) => Checked(row'[a], c, p)
<1> DEFINE s == [r EXCEPT !.version = row[a].version + 1]
<1>1. s \in Row
  BY DEF Row
<1>2. row' = [row EXCEPT ![a] = s] /\ SchemaHolds(r)
  BY DEF Change
<1>3. row' \in [Accounts -> Row] /\ row'[a] = s /\ \A b \in Accounts \ {a} : row'[b] = row[b]
  BY <1>1, <1>2
<1>4. /\ s.version = row[a].version + 1 /\ s.active = r.active /\ s.secret = r.secret
      /\ s.credVersion = r.credVersion /\ s.connection = r.connection /\ s.sync = r.sync
      /\ s.trading = r.trading /\ s.worker = r.worker /\ s.auth = r.auth
      /\ s.authVersion = r.authVersion
  BY DEF Row
<1> HIDE DEF s
<1> QED BY <1>2, <1>3, <1>4 DEF SchemaHolds, Ready, Readable, Checked

\* What such a step leaves alone.
OnlyOf(a) ==
    /\ \A b \in Accounts \ {a} : /\ principal'[b] = principal[b]
                                 /\ connected'[b] = connected[b] /\ proved'[b] = proved[b]
    /\ of' = of /\ saw' = saw /\ overwritten' = overwritten
    /\ \A k \in Calls : doing'[k] = "create" => doing[k] = "create"

\* A step that changes one locked row keeps the invariant if the new row is ready and checked.
LEMMA ChangeKeepsInv ==
    ASSUME Inv, NEW a \in Accounts, NEW r \in Row, Change(a, r),
           AccountsTypeOK', OnlyOf(a),
           Ready(r, principal'[a]), a \notin overwritten => Checked(r, connected'[a], proved'[a])
    PROVE  Inv'
<1>1. row \in [Accounts -> Row] /\ row[a] \in Row
  BY DEF Inv, AccountsTypeOK
<1>2. /\ row' \in [Accounts -> Row]
      /\ \A b \in Accounts \ {a} : row'[b] = row[b]
      /\ row'[a].version = row[a].version + 1
      /\ SchemaHolds(row'[a])
      /\ Ready(row'[a], principal'[a])
      /\ a \notin overwritten => Checked(row'[a], connected'[a], proved'[a])
  BY <1>1, ChangedRow
<1>3. RowsHold'
  BY <1>2 DEF Inv, RowsHold, OnlyOf
<1>4. \A b \in Accounts : Ready(row'[b], principal'[b])
  BY <1>2, EachAccount DEF OnlyOf
<1>5. \A b \in Accounts \ overwritten' : Checked(row'[b], connected'[b], proved'[b])
  BY <1>2, EachAccount DEF OnlyOf
<1>6. CallsKnow'
  <2> SUFFICES ASSUME NEW k \in Calls, of[k] \notin overwritten PROVE StillKnown(k)'
    BY DEF CallsKnow, OnlyOf
  <2>1. StillKnown(k) /\ of[k] \in Accounts /\ saw[k].version \in Nat /\ of'[k] = of[k]
    BY DEF Inv, CallsKnow, AccountsTypeOK, Row, OnlyOf
  <2>2. row[of[k]].version \in Nat
    BY <1>1, <2>1 DEF Row
  <2>3. CASE of[k] = a
    BY <1>2, <2>1, <2>2, <2>3 DEF StillKnown, OnlyOf
  <2>4. CASE of[k] # a
    BY <1>2, <2>1, <2>4 DEF StillKnown, OnlyOf
  <2> QED BY <2>3, <2>4
<1> QED
  BY <1>3, <1>4, <1>5, <1>6
  DEF Inv, EligibleIsReadable, VerifiedIsCurrent, Ready, Checked, Bindable, LiveReady

(***************************************************************************)
(* People's changes: each states what its handler makes of the row         *)
(***************************************************************************)
LEMMA RotateCredentialsKeeps ==
    ASSUME Inv, NEW a \in Accounts, RotateCredentials(a)
    PROVE  Inv'
<1> DEFINE r == [row[a] EXCEPT !.secret = secrets', !.credVersion = @ + 1,
                              !.connection = "NOT_VERIFIED", !.sync = FALSE,
                              !.trading = "DISABLED"]
<1>1. /\ row[a] \in Row /\ row[a].credVersion + 1 \in Nat /\ secrets' \in 0 .. MaxSecret
      /\ a \notin overwritten => Checked(row[a], connected[a], proved[a])
  BY EachAccount, AccountsAssumption
  DEF AccountsTypeOK, Row, RotateCredentials, NewSecret
<1>2. r \in Row
  BY <1>1 DEF Row
<1>3. /\ r.connection = "NOT_VERIFIED" /\ ~r.sync /\ r.trading = "DISABLED"
      /\ r.worker = row[a].worker /\ r.auth = row[a].auth
  BY <1>1 DEF Row
<1>4. Change(a, r)
  BY DEF RotateCredentials
<1> HIDE DEF r
<1>5. AccountsTypeOK'
  BY <1>2, <1>4, ChangedRow, AccountsAssumption
  DEF Inv, AccountsTypeOK, RotateCredentials, NewSecret, SetPrincipal, callVars
<1>6. OnlyOf(a) /\ principal'[a] # "active" /\ connected' = connected /\ proved' = proved
  BY DEF Inv, AccountsTypeOK, OnlyOf, RotateCredentials, SetPrincipal, callVars
<1> QED
  BY <1>1, <1>2, <1>3, <1>4, <1>5, <1>6, ChangeKeepsInv DEF Ready, Checked

LEMMA RenameKeeps ==
    ASSUME Inv, NEW a \in Accounts, Rename(a)
    PROVE  Inv'
<1> DEFINE r == row[a]
<1>1. /\ row[a] \in Row
      /\ Ready(row[a], principal[a])
      /\ a \notin overwritten => Checked(row[a], connected[a], proved[a])
  BY EachAccount, AccountsAssumption DEF AccountsTypeOK, Row, Rename
<1>2. r \in Row
  BY <1>1 DEF Row
<1>3. r = row[a]
  BY <1>1 DEF Row
<1>4. Change(a, r)
  BY DEF Rename
<1> HIDE DEF r
<1>5. AccountsTypeOK'
  BY <1>2, <1>4, ChangedRow, AccountsAssumption
  DEF Inv, AccountsTypeOK, Rename, callVars
<1>6. OnlyOf(a) /\ principal' = principal /\ connected' = connected /\ proved' = proved
  BY DEF Inv, AccountsTypeOK, OnlyOf, Rename, callVars
<1> QED
  BY <1>1, <1>2, <1>3, <1>4, <1>5, <1>6, ChangeKeepsInv DEF Ready, Checked, Readable

LEMMA EnableAccountKeeps ==
    ASSUME Inv, NEW a \in Accounts, EnableAccount(a)
    PROVE  Inv'
<1> DEFINE r == [row[a] EXCEPT !.active = TRUE]
<1>1. /\ row[a] \in Row
      /\ Ready(row[a], principal[a])
      /\ a \notin overwritten => Checked(row[a], connected[a], proved[a])
  BY EachAccount, AccountsAssumption DEF AccountsTypeOK, Row, EnableAccount
<1>2. r \in Row
  BY <1>1 DEF Row
<1>3. /\ r.connection = row[a].connection /\ r.secret = row[a].secret
      /\ r.worker = row[a].worker /\ r.auth = row[a].auth
      /\ r.active /\ r.credVersion = row[a].credVersion
      /\ r.sync = row[a].sync /\ r.trading = row[a].trading
  BY <1>1 DEF Row
<1>4. Change(a, r)
  BY DEF EnableAccount
<1> HIDE DEF r
<1>5. AccountsTypeOK'
  BY <1>2, <1>4, ChangedRow, AccountsAssumption
  DEF Inv, AccountsTypeOK, EnableAccount, callVars
<1>6. OnlyOf(a) /\ principal' = principal /\ connected' = connected /\ proved' = proved
  BY DEF Inv, AccountsTypeOK, OnlyOf, EnableAccount, callVars
<1> QED
  BY <1>1, <1>2, <1>3, <1>4, <1>5, <1>6, ChangeKeepsInv DEF Ready, Checked, Readable

LEMMA DisableAccountKeeps ==
    ASSUME Inv, NEW a \in Accounts, DisableAccount(a)
    PROVE  Inv'
<1> DEFINE r == [row[a] EXCEPT !.active = FALSE, !.sync = FALSE, !.trading = "DISABLED"]
<1>1. /\ row[a] \in Row
      /\ Ready(row[a], principal[a])
      /\ a \notin overwritten => Checked(row[a], connected[a], proved[a])
  BY EachAccount, AccountsAssumption DEF AccountsTypeOK, Row, DisableAccount
<1>2. r \in Row
  BY <1>1 DEF Row
<1>3. /\ ~r.sync /\ r.trading # "ELIGIBLE"
      /\ r.connection = row[a].connection /\ r.secret = row[a].secret
      /\ r.worker = row[a].worker /\ r.auth = row[a].auth
  BY <1>1 DEF Row
<1>4. Change(a, r)
  BY DEF DisableAccount
<1> HIDE DEF r
<1>5. AccountsTypeOK'
  BY <1>2, <1>4, ChangedRow, AccountsAssumption
  DEF Inv, AccountsTypeOK, DisableAccount, SetPrincipal, callVars
<1>6. OnlyOf(a) /\ principal'[a] # "active" /\ connected' = connected /\ proved' = proved
  BY DEF Inv, AccountsTypeOK, OnlyOf, DisableAccount, SetPrincipal, callVars
<1> QED
  BY <1>1, <1>2, <1>3, <1>4, <1>5, <1>6, ChangeKeepsInv DEF Ready, Checked, Readable

LEMMA EnableSyncKeeps ==
    ASSUME Inv, NEW a \in Accounts, EnableSync(a)
    PROVE  Inv'
<1> DEFINE r == [row[a] EXCEPT !.sync = TRUE]
<1>1. /\ row[a] \in Row
      /\ Ready(row[a], principal[a])
      /\ a \notin overwritten => Checked(row[a], connected[a], proved[a])
  BY EachAccount, AccountsAssumption DEF AccountsTypeOK, Row, EnableSync
<1>2. r \in Row
  BY <1>1 DEF Row
<1>3. /\ r.connection = row[a].connection /\ r.secret = row[a].secret
      /\ r.worker = row[a].worker /\ r.auth = row[a].auth
      /\ r.active = row[a].active /\ r.credVersion = row[a].credVersion
      /\ r.sync
  BY <1>1 DEF Row
<1>4. Change(a, r) /\ Readable(row[a])
  BY DEF EnableSync
<1> HIDE DEF r
<1>5. AccountsTypeOK'
  BY <1>2, <1>4, ChangedRow, AccountsAssumption
  DEF Inv, AccountsTypeOK, EnableSync, callVars
<1>6. OnlyOf(a) /\ principal'[a] = "active" /\ connected' = connected /\ proved' = proved
  BY DEF Inv, AccountsTypeOK, OnlyOf, EnableSync, callVars
<1> QED
  BY <1>1, <1>2, <1>3, <1>4, <1>5, <1>6, ChangeKeepsInv DEF Ready, Checked, Readable

LEMMA DisableSyncKeeps ==
    ASSUME Inv, NEW a \in Accounts, DisableSync(a)
    PROVE  Inv'
<1> DEFINE r == [row[a] EXCEPT !.sync = FALSE, !.trading = Blocked(@)]
<1>1. /\ row[a] \in Row
      /\ Ready(row[a], principal[a])
      /\ a \notin overwritten => Checked(row[a], connected[a], proved[a])
  BY EachAccount, AccountsAssumption DEF AccountsTypeOK, Row, DisableSync
<1>2. r \in Row
  BY <1>1 DEF Row, Blocked
<1>3. /\ ~r.sync /\ r.trading # "ELIGIBLE"
      /\ r.connection = row[a].connection /\ r.secret = row[a].secret
      /\ r.worker = row[a].worker /\ r.auth = row[a].auth
  BY <1>1 DEF Row, Blocked
<1>4. Change(a, r)
  BY DEF DisableSync
<1> HIDE DEF r
<1>5. AccountsTypeOK'
  BY <1>2, <1>4, ChangedRow, AccountsAssumption
  DEF Inv, AccountsTypeOK, DisableSync, SetPrincipal, callVars
<1>6. OnlyOf(a) /\ principal'[a] # "active" /\ connected' = connected /\ proved' = proved
  BY DEF Inv, AccountsTypeOK, OnlyOf, DisableSync, SetPrincipal, callVars
<1> QED
  BY <1>1, <1>2, <1>3, <1>4, <1>5, <1>6, ChangeKeepsInv DEF Ready, Checked, Readable

LEMMA EnableTradingKeeps ==
    ASSUME Inv, NEW a \in Accounts, EnableTrading(a)
    PROVE  Inv'
<1> DEFINE r == [row[a] EXCEPT !.trading = "ELIGIBLE"]
<1>1. /\ row[a] \in Row
      /\ Ready(row[a], principal[a])
      /\ a \notin overwritten => Checked(row[a], connected[a], proved[a])
  BY EachAccount, AccountsAssumption DEF AccountsTypeOK, Row, EnableTrading
<1>2. r \in Row
  BY <1>1 DEF Row
<1>3. /\ r.connection = row[a].connection /\ r.secret = row[a].secret
      /\ r.worker = row[a].worker /\ r.auth = row[a].auth
      /\ r.active = row[a].active /\ r.credVersion = row[a].credVersion
      /\ r.sync = row[a].sync
  BY <1>1 DEF Row
<1>4. Change(a, r) /\ row[a].sync
  BY DEF EnableTrading, LiveReady
<1> HIDE DEF r
<1>5. AccountsTypeOK'
  BY <1>2, <1>4, ChangedRow, AccountsAssumption
  DEF Inv, AccountsTypeOK, EnableTrading, callVars
<1>6. OnlyOf(a) /\ principal' = principal /\ connected' = connected /\ proved' = proved
  BY DEF Inv, AccountsTypeOK, OnlyOf, EnableTrading, callVars
<1> QED
  BY <1>1, <1>2, <1>3, <1>4, <1>5, <1>6, ChangeKeepsInv DEF Ready, Checked, Readable

LEMMA DisableTradingKeeps ==
    ASSUME Inv, NEW a \in Accounts, DisableTrading(a)
    PROVE  Inv'
<1> DEFINE r == [row[a] EXCEPT !.trading = "DISABLED"]
<1>1. /\ row[a] \in Row
      /\ Ready(row[a], principal[a])
      /\ a \notin overwritten => Checked(row[a], connected[a], proved[a])
  BY EachAccount, AccountsAssumption DEF AccountsTypeOK, Row, DisableTrading
<1>2. r \in Row
  BY <1>1 DEF Row
<1>3. /\ r.connection = row[a].connection /\ r.secret = row[a].secret
      /\ r.worker = row[a].worker /\ r.auth = row[a].auth
      /\ r.active = row[a].active /\ r.credVersion = row[a].credVersion
      /\ r.sync = row[a].sync /\ r.trading = "DISABLED"
  BY <1>1 DEF Row
<1>4. Change(a, r)
  BY DEF DisableTrading
<1> HIDE DEF r
<1>5. AccountsTypeOK'
  BY <1>2, <1>4, ChangedRow, AccountsAssumption
  DEF Inv, AccountsTypeOK, DisableTrading, callVars
<1>6. OnlyOf(a) /\ principal' = principal /\ connected' = connected /\ proved' = proved
  BY DEF Inv, AccountsTypeOK, OnlyOf, DisableTrading, callVars
<1> QED
  BY <1>1, <1>2, <1>3, <1>4, <1>5, <1>6, ChangeKeepsInv DEF Ready, Checked, Readable

LEMMA ConfigureWorkerKeeps ==
    ASSUME Inv, NEW a \in Accounts, ConfigureWorker(a)
    PROVE  Inv'
<1> DEFINE r == [row[a] EXCEPT !.worker = "NOT_VERIFIED", !.auth = secrets',
                              !.authVersion = @ + 1, !.fingerprint = "none",
                              !.fault = "none"]
<1>1. /\ row[a] \in Row /\ row[a].authVersion + 1 \in Nat /\ secrets' \in 0 .. MaxSecret
      /\ Ready(row[a], principal[a])
      /\ a \notin overwritten => Checked(row[a], connected[a], proved[a])
  BY EachAccount, AccountsAssumption DEF AccountsTypeOK, Row, ConfigureWorker, NewSecret
<1>2. r \in Row
  BY <1>1 DEF Row, Faults
<1>3. /\ r.connection = row[a].connection /\ r.secret = row[a].secret
      /\ r.worker = "NOT_VERIFIED"
      /\ r.active = row[a].active /\ r.credVersion = row[a].credVersion
      /\ r.sync = row[a].sync /\ r.trading = row[a].trading
  BY <1>1 DEF Row, Faults
<1>4. Change(a, r)
  BY DEF ConfigureWorker
<1> HIDE DEF r
<1>5. AccountsTypeOK'
  BY <1>2, <1>4, ChangedRow, AccountsAssumption
  DEF Inv, AccountsTypeOK, ConfigureWorker, NewSecret, callVars
<1>6. OnlyOf(a) /\ principal' = principal /\ connected' = connected /\ proved' = proved
  BY DEF Inv, AccountsTypeOK, OnlyOf, ConfigureWorker, callVars
<1> QED
  BY <1>1, <1>2, <1>3, <1>4, <1>5, <1>6, ChangeKeepsInv DEF Ready, Checked, Readable

LEMMA WithoutWorkerIsRow ==
    ASSUME NEW x \in Row
    PROVE  WithoutWorker(x) \in Row
<1>1. 0 \in 0 .. MaxSecret /\ 0 \in Nat /\ "none" \in Faults
  BY AccountsAssumption DEF Faults
<1> QED BY <1>1 DEF WithoutWorker, Row

LEMMA UnconfigureWorkerKeeps ==
    ASSUME Inv, NEW a \in Accounts, UnconfigureWorker(a)
    PROVE  Inv'
<1> DEFINE r == [WithoutWorker(row[a]) EXCEPT !.fingerprint = "none"]
<1>1. /\ row[a] \in Row
      /\ Ready(row[a], principal[a])
      /\ a \notin overwritten => Checked(row[a], connected[a], proved[a])
  BY EachAccount, AccountsAssumption DEF AccountsTypeOK, Row, UnconfigureWorker
<1>2. r \in Row
  <2>1. WithoutWorker(row[a]) \in Row /\ 0 \in 0 .. MaxSecret /\ 0 \in Nat
    BY <1>1, WithoutWorkerIsRow, AccountsAssumption
  <2> QED BY <2>1 DEF Row
<1>3. /\ r.connection = row[a].connection /\ r.secret = row[a].secret
      /\ r.worker = "UNCONFIGURED"
      /\ r.active = row[a].active /\ r.credVersion = row[a].credVersion
      /\ r.sync = row[a].sync /\ r.trading = row[a].trading
  BY <1>1 DEF Row, Faults, WithoutWorker
<1>4. Change(a, r)
  BY DEF UnconfigureWorker
<1> HIDE DEF r
<1>5. AccountsTypeOK'
  BY <1>2, <1>4, ChangedRow, AccountsAssumption
  DEF Inv, AccountsTypeOK, UnconfigureWorker, callVars
<1>6. OnlyOf(a) /\ principal' = principal /\ connected' = connected /\ proved' = proved
  BY DEF Inv, AccountsTypeOK, OnlyOf, UnconfigureWorker, callVars
<1> QED
  BY <1>1, <1>2, <1>3, <1>4, <1>5, <1>6, ChangeKeepsInv DEF Ready, Checked, Readable

LEMMA DeleteAccountKeeps ==
    ASSUME Inv, NEW a \in Accounts, DeleteAccount(a)
    PROVE  Inv'
<1> DEFINE r == [WithoutWorker(row[a]) EXCEPT
                  !.active = FALSE, !.sync = FALSE, !.trading = "DISABLED",
                  !.connection = "UNCONFIGURED", !.secret = 0, !.credVersion = 0]
<1>1. /\ row[a] \in Row
      /\ Ready(row[a], principal[a])
      /\ a \notin overwritten => Checked(row[a], connected[a], proved[a])
  BY EachAccount, AccountsAssumption DEF AccountsTypeOK, Row, DeleteAccount
<1>2. r \in Row
  <2>1. WithoutWorker(row[a]) \in Row /\ 0 \in 0 .. MaxSecret /\ 0 \in Nat
    BY <1>1, WithoutWorkerIsRow, AccountsAssumption
  <2> QED BY <2>1 DEF Row
<1>3. /\ ~r.sync /\ r.trading # "ELIGIBLE"
      /\ r.connection = "UNCONFIGURED" /\ r.worker = "UNCONFIGURED"
  BY <1>1 DEF Row, Faults, WithoutWorker
<1>4. Change(a, r)
  BY DEF DeleteAccount
<1> HIDE DEF r
<1>5. AccountsTypeOK'
  BY <1>2, <1>4, ChangedRow, AccountsAssumption
  DEF Inv, AccountsTypeOK, DeleteAccount, SetPrincipal, callVars
<1>6. OnlyOf(a) /\ principal'[a] # "active" /\ connected' = connected /\ proved' = proved
  BY DEF Inv, AccountsTypeOK, OnlyOf, DeleteAccount, SetPrincipal, callVars
<1> QED
  BY <1>1, <1>2, <1>3, <1>4, <1>5, <1>6, ChangeKeepsInv DEF Ready, Checked, Readable

(***************************************************************************)
(* Calls                                                                   *)
(***************************************************************************)
LEMMA BeginKeeps ==
    ASSUME Inv, NEW k \in Calls, NEW a \in Accounts,
           NEW kind \in {"create", "connection", "worker", "runtime"}, Begin(k, a, kind),
           kind = "create" => ~row[a].active
    PROVE  Inv'
<1>1. /\ of' = [of EXCEPT ![k] = a] /\ saw' = [saw EXCEPT ![k] = row[a]]
      /\ doing' = [doing EXCEPT ![k] = kind] /\ UNCHANGED accountVars
  BY DEF Begin
<1>2. AccountsTypeOK'
  BY <1>1 DEF Inv, AccountsTypeOK, accountVars
<1>3. \A j \in Calls \ {k} : of'[j] = of[j] /\ saw'[j] = saw[j] /\ doing'[j] = doing[j]
  BY <1>1 DEF Inv, AccountsTypeOK
<1>4. of'[k] = a /\ saw'[k] = row[a] /\ doing'[k] = kind
  BY <1>1 DEF Inv, AccountsTypeOK
<1>5. RowsHold'
  BY <1>1, <1>3, <1>4 DEF Inv, RowsHold, accountVars
<1>6. CallsKnow'
  <2> SUFFICES ASSUME NEW j \in Calls, of'[j] \notin overwritten PROVE StillKnown(j)'
    BY <1>1 DEF CallsKnow, accountVars
  <2>1. CASE j = k
    <3>1. row[a].version \in Nat
      BY DEF Inv, AccountsTypeOK, Row
    <3> QED BY <1>1, <1>4, <2>1, <3>1 DEF StillKnown, accountVars
  <2>2. CASE j # k
    BY <1>1, <1>3, <2>2 DEF Inv, CallsKnow, StillKnown, accountVars
  <2> QED BY <2>1, <2>2
<1>7. EligibleIsReadable' /\ VerifiedIsCurrent'
  BY <1>1
  DEF Inv, EligibleIsReadable, VerifiedIsCurrent, Bindable, LiveReady, Readable, accountVars
<1> QED BY <1>2, <1>5, <1>6, <1>7 DEF Inv

LEMMA GiveUpKeeps ==
    ASSUME Inv, NEW k \in Calls, GiveUp(k)
    PROVE  Inv'
<1>1. doing' = [doing EXCEPT ![k] = "idle"] /\ UNCHANGED <<of, saw, accountVars>>
  BY DEF GiveUp, End
<1>2. AccountsTypeOK' /\ RowsHold'
  BY <1>1 DEF Inv, AccountsTypeOK, RowsHold, accountVars
<1>3. EligibleIsReadable' /\ VerifiedIsCurrent' /\ CallsKnow'
  BY <1>1
  DEF Inv, EligibleIsReadable, VerifiedIsCurrent, CallsKnow, StillKnown, Bindable, LiveReady,
      Readable, accountVars
<1> QED BY <1>2, <1>3 DEF Inv

LEMMA ExternalTradeKeeps ==
    ASSUME Inv, NEW k \in Calls, ExternalTrade(k)
    PROVE  Inv'
<1> DEFINE a == of[k]
           r == [row[a] EXCEPT !.trading = "BLOCKED"]
<1>1. /\ a \in Accounts /\ row[a] \in Row /\ Ready(row[a], principal[a])
      /\ a \notin overwritten => Checked(row[a], connected[a], proved[a])
  BY EachAccount DEF AccountsTypeOK
<1>2. r \in Row
  BY <1>1 DEF Row
<1>3. /\ r.connection = row[a].connection /\ r.secret = row[a].secret
      /\ r.worker = row[a].worker /\ r.auth = row[a].auth
      /\ r.active = row[a].active /\ r.credVersion = row[a].credVersion
      /\ r.sync = row[a].sync /\ r.trading = "BLOCKED"
  BY <1>1 DEF Row
<1>4. Change(a, r)
  BY DEF ExternalTrade
<1> HIDE DEF a, r
<1>5. AccountsTypeOK'
  BY <1>1, <1>2, <1>4, ChangedRow DEF Inv, AccountsTypeOK, ExternalTrade, callVars
<1>6. OnlyOf(a) /\ UNCHANGED <<principal, connected, proved>>
  BY DEF OnlyOf, ExternalTrade, callVars
<1> QED
  BY <1>1, <1>2, <1>3, <1>4, <1>5, <1>6, ChangeKeepsInv DEF Ready, Checked, Readable

\* As long as nobody has overwritten the row, a version that is still the same stands for the
\* same credentials and the same password.
LEMMA SameVersionSameSecrets ==
    ASSUME Inv, NEW k \in Calls, row[of[k]].version = saw[k].version, of[k] \notin overwritten
    PROVE  saw[k].secret = row[of[k]].secret /\ saw[k].auth = row[of[k]].auth
BY DEF Inv, CallsKnow, StillKnown

LEMMA RecordConnectionCheckKeeps ==
    ASSUME Inv, NEW k \in Calls, RecordConnectionCheck(k)
    PROVE  Inv'
<1> DEFINE a == of[k]
           good == [row[a] EXCEPT !.connection = "VERIFIED"]
           bad == [row[a] EXCEPT !.connection = "FAILED", !.sync = FALSE, !.trading = Blocked(@)]
<1>1. /\ a \in Accounts /\ row[a] \in Row /\ saw[k] \in Row /\ Ready(row[a], principal[a])
      /\ a \notin overwritten => Checked(row[a], connected[a], proved[a])
      /\ a \notin overwritten => saw[k].secret = row[a].secret
  BY EachAccount, SameVersionSameSecrets
  DEF AccountsTypeOK, RecordConnectionCheck, ConnectionUnchanged
<1>2. good \in Row /\ bad \in Row
  <2>1. row[a] \in Row /\ Blocked(row[a].trading) \in {"DISABLED", "BLOCKED", "ELIGIBLE"}
    BY <1>1 DEF Row, Blocked
  <2>2. good \in Row
    BY <2>1 DEF Row
  <2>3. bad \in Row
    BY <2>1 DEF Row
  <2> QED BY <2>2, <2>3
<1>3. /\ good.connection = "VERIFIED" /\ good.secret = row[a].secret
      /\ good.worker = row[a].worker /\ good.auth = row[a].auth
      /\ good.active = row[a].active /\ good.credVersion = row[a].credVersion
      /\ good.sync = row[a].sync /\ good.trading = row[a].trading
  BY <1>1 DEF Row
<1>4. /\ bad.connection = "FAILED" /\ ~bad.sync /\ bad.trading # "ELIGIBLE"
      /\ bad.worker = row[a].worker /\ bad.auth = row[a].auth
  BY <1>1 DEF Row, Blocked
<1>5. /\ doing' = [doing EXCEPT ![k] = "idle"] /\ of' = of /\ saw' = saw
      /\ UNCHANGED <<proved, secrets, overwritten>>
      /\ \/ /\ Change(a, good) /\ connected' = [connected EXCEPT ![a] = saw[k].secret]
            /\ principal' = principal
         \/ Change(a, bad) /\ SetPrincipal(a, FALSE) /\ connected' = connected
  BY DEF RecordConnectionCheck, End
<1> HIDE DEF a, good, bad
<1>6. CASE /\ Change(a, good) /\ connected' = [connected EXCEPT ![a] = saw[k].secret]
           /\ principal' = principal
  <2>1. connected' \in [Accounts -> 0 .. MaxSecret] /\ connected'[a] = saw[k].secret
    BY <1>1, <1>6 DEF Inv, AccountsTypeOK, Row
  <2>2. AccountsTypeOK'
    BY <1>1, <1>2, <1>5, <1>6, <2>1, ChangedRow DEF Inv, AccountsTypeOK
  <2>3. OnlyOf(a)
    BY <1>1, <1>5, <1>6 DEF Inv, AccountsTypeOK, OnlyOf
  <2>4. Ready(good, principal'[a])
    BY <1>1, <1>3, <1>6 DEF Ready, Readable
  <2>5. a \notin overwritten => Checked(good, connected'[a], proved'[a])
    BY <1>1, <1>3, <1>5, <2>1 DEF Checked
  <2> QED BY <1>1, <1>2, <1>6, <2>2, <2>3, <2>4, <2>5, ChangeKeepsInv
<1>7. CASE Change(a, bad) /\ SetPrincipal(a, FALSE) /\ connected' = connected
  <2>1. /\ principal' \in [Accounts -> {"none", "active", "inactive"}]
        /\ principal'[a] # "active" /\ \A b \in Accounts \ {a} : principal'[b] = principal[b]
    BY <1>1, <1>7 DEF Inv, AccountsTypeOK, SetPrincipal
  <2>2. AccountsTypeOK'
    BY <1>1, <1>2, <1>5, <1>7, <2>1, ChangedRow DEF Inv, AccountsTypeOK
  <2>3. OnlyOf(a)
    BY <1>5, <1>7, <2>1 DEF Inv, AccountsTypeOK, OnlyOf
  <2>4. Ready(bad, principal'[a])
    BY <1>4, <2>1 DEF Ready
  <2>5. a \notin overwritten => Checked(bad, connected'[a], proved'[a])
    BY <1>1, <1>4, <1>5, <1>7 DEF Checked
  <2> QED BY <1>1, <1>2, <1>7, <2>2, <2>3, <2>4, <2>5, ChangeKeepsInv
<1> QED BY <1>5, <1>6, <1>7

LEMMA RecordWorkerCheckKeeps ==
    ASSUME Inv, NEW k \in Calls, NEW f \in Fingerprints, RecordWorkerCheck(k, f)
    PROVE  Inv'
<1> DEFINE a == of[k]
           good == [row[a] EXCEPT !.worker = "VERIFIED", !.fault = "none", !.fingerprint = f]
           bad == [row[a] EXCEPT !.worker = "FAILED", !.fault = "other"]
<1>1. /\ a \in Accounts /\ row[a] \in Row /\ saw[k] \in Row /\ Ready(row[a], principal[a])
      /\ a \notin overwritten => Checked(row[a], connected[a], proved[a])
      /\ a \notin overwritten => saw[k].auth = row[a].auth
  BY EachAccount, SameVersionSameSecrets DEF AccountsTypeOK, RecordWorkerCheck, WorkerUnchanged
<1>2. good \in Row /\ bad \in Row
  <2>1. row[a] \in Row /\ "none" \in Faults /\ "other" \in Faults
    BY <1>1 DEF Faults
  <2>2. good \in Row
    BY <2>1 DEF Row
  <2>3. bad \in Row
    BY <2>1 DEF Row
  <2> QED BY <2>2, <2>3
<1>3. /\ good.worker = "VERIFIED" /\ good.auth = row[a].auth
      /\ good.connection = row[a].connection /\ good.secret = row[a].secret
      /\ good.active = row[a].active /\ good.credVersion = row[a].credVersion
      /\ good.sync = row[a].sync /\ good.trading = row[a].trading
  BY <1>1 DEF Row
<1>4. /\ bad.worker = "FAILED"
      /\ bad.connection = row[a].connection /\ bad.secret = row[a].secret
      /\ bad.active = row[a].active /\ bad.credVersion = row[a].credVersion
      /\ bad.sync = row[a].sync /\ bad.trading = row[a].trading
  BY <1>1 DEF Row
<1>5. /\ doing' = [doing EXCEPT ![k] = "idle"] /\ of' = of /\ saw' = saw
      /\ UNCHANGED <<principal, connected, secrets, overwritten>>
      /\ \/ Change(a, good) /\ proved' = [proved EXCEPT ![a] = saw[k].auth]
         \/ Change(a, bad) /\ proved' = proved
  BY DEF RecordWorkerCheck, End
<1> HIDE DEF a, good, bad
<1>6. CASE Change(a, good) /\ proved' = [proved EXCEPT ![a] = saw[k].auth]
  <2>1. proved' \in [Accounts -> 0 .. MaxSecret] /\ proved'[a] = saw[k].auth
    BY <1>1, <1>6 DEF Inv, AccountsTypeOK, Row
  <2>2. AccountsTypeOK'
    BY <1>1, <1>2, <1>5, <1>6, <2>1, ChangedRow DEF Inv, AccountsTypeOK
  <2>3. OnlyOf(a)
    BY <1>1, <1>5, <1>6 DEF Inv, AccountsTypeOK, OnlyOf
  <2>4. Ready(good, principal'[a])
    BY <1>1, <1>3, <1>5 DEF Ready, Readable
  <2>5. a \notin overwritten => Checked(good, connected'[a], proved'[a])
    BY <1>1, <1>3, <1>5, <2>1 DEF Checked
  <2> QED BY <1>1, <1>2, <1>6, <2>2, <2>3, <2>4, <2>5, ChangeKeepsInv
<1>7. CASE Change(a, bad) /\ proved' = proved
  <2>1. AccountsTypeOK'
    BY <1>1, <1>2, <1>5, <1>7, ChangedRow DEF Inv, AccountsTypeOK
  <2>2. OnlyOf(a)
    BY <1>5, <1>7 DEF Inv, AccountsTypeOK, OnlyOf
  <2>3. /\ Ready(bad, principal'[a])
        /\ a \notin overwritten => Checked(bad, connected'[a], proved'[a])
    BY <1>1, <1>4, <1>5, <1>7 DEF Ready, Readable, Checked
  <2> QED BY <1>1, <1>2, <1>7, <2>1, <2>2, <2>3, ChangeKeepsInv
<1> QED BY <1>5, <1>6, <1>7

\* A probe touches what is known of the worker only, and a worker without a fault afterwards
\* is a verified one.
LEMMA ProbedRow ==
    ASSUME NEW x \in Row, NEW answer \in Faults, NEW f \in Fingerprints
    PROVE  LET r == Probed(x, answer, f)
           IN  /\ r \in Row
               /\ r.version = x.version /\ r.active = x.active /\ r.sync = x.sync
               /\ r.secret = x.secret /\ r.credVersion = x.credVersion
               /\ r.connection = x.connection /\ r.trading = x.trading
               /\ r.auth = x.auth /\ r.authVersion = x.authVersion
               /\ r.worker = "VERIFIED" => x.worker = "VERIFIED" \/ r.fault = "none"
<1> DEFINE fault == Verdict(x, answer, f)
           renewed == [x EXCEPT !.worker = "VERIFIED", !.fault = "none", !.fingerprint = f]
           judged == [x EXCEPT !.worker = IF fault \in {"catalog", "changed"} THEN "STALE" ELSE @,
                               !.fault = fault,
                               !.fingerprint = IF fault = "none" THEN f ELSE @]
<1>1. fault \in Faults
  BY DEF Verdict, Faults, Row
<1>2. renewed \in Row
  BY DEF Row, Faults
<1> HIDE DEF fault
<1>3. judged \in Row
  BY <1>1 DEF Row
<1>4. CASE Recovers(x, answer, f)
  BY <1>2, <1>4 DEF Probed, Row
<1>5. CASE ~Recovers(x, answer, f)
  <2>1. Probed(x, answer, f) = judged
    BY <1>5 DEF Probed, fault
  <2> QED BY <1>3, <2>1 DEF Row
<1> QED BY <1>4, <1>5

LEMMA RecordRuntimeProbeKeeps ==
    ASSUME Inv, NEW k \in Calls, NEW f \in Fingerprints, NEW answer \in Faults,
           RecordRuntimeProbe(k, answer, f)
    PROVE  Inv'
<1> DEFINE a == of[k]
           r == Probed(row[a], answer, f)
<1>1. /\ a \in Accounts /\ row[a] \in Row /\ saw[k] \in Row /\ Ready(row[a], principal[a])
      /\ a \notin overwritten => Checked(row[a], connected[a], proved[a])
      /\ a \notin overwritten => saw[k].auth = row[a].auth
  BY EachAccount, SameVersionSameSecrets DEF AccountsTypeOK, RecordRuntimeProbe, WorkerUnchanged
<1>2. /\ r \in Row
      /\ r.version = row[a].version /\ r.active = row[a].active /\ r.sync = row[a].sync
      /\ r.secret = row[a].secret /\ r.credVersion = row[a].credVersion
      /\ r.connection = row[a].connection /\ r.trading = row[a].trading
      /\ r.auth = row[a].auth /\ r.authVersion = row[a].authVersion
      /\ r.worker = "VERIFIED" => row[a].worker = "VERIFIED" \/ r.fault = "none"
  BY <1>1, ProbedRow
<1>3. /\ doing' = [doing EXCEPT ![k] = "idle"] /\ of' = of /\ saw' = saw
      /\ UNCHANGED <<principal, connected, secrets, overwritten>>
      /\ proved' = IF r.fault = "none" THEN [proved EXCEPT ![a] = saw[k].auth] ELSE proved
      /\ Change(a, r) \/ (SchemaHolds(r) /\ row' = [row EXCEPT ![a] = r])
  BY DEF RecordRuntimeProbe, End
<1> HIDE DEF a, r
<1>4. /\ proved' \in [Accounts -> 0 .. MaxSecret]
      /\ proved'[a] = IF r.fault = "none" THEN saw[k].auth ELSE proved[a]
      /\ \A b \in Accounts \ {a} : proved'[b] = proved[b]
  BY <1>1, <1>3 DEF Inv, AccountsTypeOK, Row
<1>5. /\ Ready(r, principal'[a])
      /\ a \notin overwritten => Checked(r, connected'[a], proved'[a])
  BY <1>1, <1>2, <1>3, <1>4 DEF Ready, Readable, Checked
<1>6. OnlyOf(a)
  BY <1>3, <1>4 DEF Inv, AccountsTypeOK, OnlyOf
<1>7. CASE Change(a, r)
  <2>1. AccountsTypeOK'
    BY <1>1, <1>2, <1>3, <1>4, <1>7, ChangedRow DEF Inv, AccountsTypeOK
  <2> QED BY <1>1, <1>2, <1>5, <1>6, <1>7, <2>1, ChangeKeepsInv
<1>8. CASE SchemaHolds(r) /\ row' = [row EXCEPT ![a] = r]
  <2>1. /\ row' \in [Accounts -> Row] /\ row'[a] = r
        /\ \A b \in Accounts \ {a} : row'[b] = row[b]
    BY <1>1, <1>2, <1>8 DEF Inv, AccountsTypeOK
  <2>2. AccountsTypeOK' /\ RowsHold'
    BY <1>3, <1>4, <1>6, <1>8, <2>1 DEF Inv, AccountsTypeOK, RowsHold, OnlyOf
  <2>3. CallsKnow'
    <3> SUFFICES ASSUME NEW j \in Calls, of[j] \notin overwritten PROVE StillKnown(j)'
      BY <1>3 DEF CallsKnow
    <3>1. StillKnown(j) /\ of[j] \in Accounts
      BY DEF Inv, CallsKnow, AccountsTypeOK
    <3>2. CASE of[j] = a
      BY <1>2, <1>3, <2>1, <3>1, <3>2 DEF StillKnown
    <3>3. CASE of[j] # a
      BY <1>3, <2>1, <3>1, <3>3 DEF StillKnown
    <3> QED BY <3>2, <3>3
  <2>4. \A b \in Accounts : Ready(row'[b], principal'[b])
    BY <1>3, <1>5, <2>1, EachAccount
  <2>5. \A b \in Accounts \ overwritten' : Checked(row'[b], connected'[b], proved'[b])
    BY <1>3, <1>4, <1>5, <2>1, EachAccount
  <2> QED
    BY <2>2, <2>3, <2>4, <2>5
    DEF Inv, EligibleIsReadable, VerifiedIsCurrent, Ready, Checked, Bindable, LiveReady
<1> QED BY <1>3, <1>7, <1>8

LEMMA ColumnIn ==
    ASSUME NEW S, NEW read \in S, NEW now \in S, NEW value \in S
    PROVE  Column(read, now, value) \in S
BY DEF Column

\* What a creation makes of a row it may have read before others changed it: it is read
\* continuously only if it was, and nothing of it counts as verified that was not before.
LEMMA RestoredRow ==
    ASSUME NEW read \in Row, NEW now \in Row, NEW n \in (0 .. MaxSecret) \ {0},
           SchemaHolds(read), ~read.active, SchemaHolds(Restored(read, now, n))
    PROVE  LET r == Restored(read, now, n)
           IN  /\ r \in Row /\ r.version = read.version + 1
               /\ \A user : Ready(now, user) => Ready(r, user)
               /\ now = read => r.connection # "VERIFIED" /\ r.worker # "VERIFIED"
<1> DEFINE r == Restored(read, now, n)
<1>1. /\ 0 \in 0 .. MaxSecret /\ read.version + 1 \in Nat
      /\ 0 \in Nat /\ 1 \in Nat
  BY AccountsAssumption DEF Row
<1>2. r \in Row
  <2>1. /\ read.credVersion \in Nat /\ now.credVersion \in Nat
        /\ read.authVersion \in Nat /\ now.authVersion \in Nat
        /\ read.auth \in 0 .. MaxSecret /\ now.auth \in 0 .. MaxSecret
        /\ read.sync \in BOOLEAN /\ now.sync \in BOOLEAN
    BY DEF Row
  <2>2. /\ Column(read.credVersion, now.credVersion, 1) \in Nat
        /\ Column(read.authVersion, now.authVersion, 0) \in Nat
        /\ Column(read.auth, now.auth, 0) \in 0 .. MaxSecret
        /\ Column(read.sync, now.sync, FALSE) \in BOOLEAN
    BY <1>1, <2>1, ColumnIn
  <2>3. Column(read.connection, now.connection, "NOT_VERIFIED")
          \in {"UNCONFIGURED", "NOT_VERIFIED", "VERIFIED", "FAILED"}
    BY DEF Row, Column
  <2>4. Column(read.trading, now.trading, "DISABLED") \in {"DISABLED", "BLOCKED", "ELIGIBLE"}
    BY DEF Row, Column
  <2>5. Column(read.worker, now.worker, "UNCONFIGURED")
          \in {"UNCONFIGURED", "NOT_VERIFIED", "VERIFIED", "FAILED", "STALE"}
    BY DEF Row, Column
  <2>6. Column(read.fault, now.fault, "none") \in Faults
    BY DEF Row, Column, Faults
  <2>7. now.fingerprint \in Fingerprints \cup {"none"}
    BY DEF Row
  <2> QED BY <1>1, <2>2, <2>3, <2>4, <2>5, <2>6, <2>7 DEF Row, Restored
<1>3. /\ r.version = read.version + 1 /\ r.active /\ r.secret = n
      /\ r.sync = Column(read.sync, now.sync, FALSE)
      /\ r.trading = Column(read.trading, now.trading, "DISABLED")
      /\ r.connection = Column(read.connection, now.connection, "NOT_VERIFIED")
      /\ r.worker = Column(read.worker, now.worker, "UNCONFIGURED")
  BY DEF Row, Restored
<1>4. read.sync = FALSE /\ read.sync \in BOOLEAN /\ now.sync \in BOOLEAN
  BY DEF SchemaHolds, Row
<1>5. SchemaHolds(r) /\ n > 0
  BY AccountsAssumption
<1> HIDE DEF r
<1>6. r.sync = now.sync
  BY <1>3, <1>4 DEF Column
<1>7. r.trading = "ELIGIBLE" => now.trading = "ELIGIBLE"
  BY <1>3 DEF Column
<1>8. r.sync => Readable(r)
  BY <1>3, <1>5 DEF SchemaHolds, Readable
<1>9. \A user : Ready(now, user) => Ready(r, user)
  BY <1>6, <1>7, <1>8 DEF Ready
<1>10. now = read => r.connection # "VERIFIED" /\ r.worker # "VERIFIED"
  BY <1>3 DEF Column
<1> QED BY <1>2, <1>3, <1>9, <1>10 DEF r

LEMMA CreateAccountKeeps ==
    ASSUME Inv, NEW k \in Calls, CreateAccount(k)
    PROVE  Inv'
<1> DEFINE a == of[k]
           r == Restored(saw[k], row[a], secrets')
<1>1. /\ a \in Accounts /\ row[a] \in Row /\ saw[k] \in Row /\ Ready(row[a], principal[a])
      /\ SchemaHolds(saw[k]) /\ ~saw[k].active
  BY EachAccount DEF AccountsTypeOK, RowsHold, CreateAccount
<1>2. /\ secrets' \in (0 .. MaxSecret) \ {0} /\ SchemaHolds(r)
      /\ row' = [row EXCEPT ![a] = r]
      /\ overwritten' = IF row[a] = saw[k] THEN overwritten ELSE overwritten \cup {a}
      /\ doing' = [doing EXCEPT ![k] = "idle"] /\ of' = of /\ saw' = saw
      /\ UNCHANGED <<principal, connected, proved>>
  BY AccountsAssumption DEF Inv, AccountsTypeOK, CreateAccount, NewSecret, End
<1>3. /\ r \in Row /\ r.version = saw[k].version + 1
      /\ Ready(r, principal[a])
      /\ row[a] = saw[k] => r.connection # "VERIFIED" /\ r.worker # "VERIFIED"
  BY <1>1, <1>2, RestoredRow
<1> HIDE DEF a, r
<1>4. /\ row' \in [Accounts -> Row] /\ row'[a] = r
      /\ \A b \in Accounts \ {a} : row'[b] = row[b]
  BY <1>1, <1>2, <1>3 DEF Inv, AccountsTypeOK
<1>5. AccountsTypeOK'
  BY <1>1, <1>2, <1>4 DEF Inv, AccountsTypeOK
<1>6. RowsHold'
  BY <1>2, <1>4 DEF Inv, AccountsTypeOK, RowsHold
<1>7. CallsKnow'
  <2> SUFFICES ASSUME NEW j \in Calls, of[j] \notin overwritten' PROVE StillKnown(j)'
    BY <1>2 DEF CallsKnow
  <2>1. of[j] \in Accounts /\ StillKnown(j) /\ saw[j].version \in Nat
    BY <1>2 DEF Inv, CallsKnow, AccountsTypeOK, Row
  <2>2. CASE of[j] = a
    <3>1. row[a] = saw[k] /\ saw[k].version \in Nat
      BY <1>1, <1>2, <2>2 DEF Row
    <3>2. saw[j].version <= saw[k].version
      BY <2>1, <2>2, <3>1 DEF StillKnown
    <3> QED BY <1>2, <1>3, <1>4, <2>1, <2>2, <3>1, <3>2 DEF StillKnown
  <2>3. CASE of[j] # a
    BY <1>2, <1>4, <2>1, <2>3 DEF StillKnown
  <2> QED BY <2>2, <2>3
<1>8. \A b \in Accounts : Ready(row'[b], principal'[b])
  BY <1>2, <1>3, <1>4, EachAccount
<1>9. \A b \in Accounts \ overwritten' : Checked(row'[b], connected'[b], proved'[b])
  <2> SUFFICES ASSUME NEW b \in Accounts, b \notin overwritten'
               PROVE  Checked(row'[b], connected'[b], proved'[b])
    OBVIOUS
  <2>1. CASE b = a
    BY <1>2, <1>3, <1>4, <2>1 DEF Checked
  <2>2. CASE b # a
    BY <1>2, <1>4, <2>2, EachAccount
  <2> QED BY <2>1, <2>2
<1> QED
  BY <1>5, <1>6, <1>7, <1>8, <1>9
  DEF Inv, EligibleIsReadable, VerifiedIsCurrent, Ready, Checked, Bindable, LiveReady

(***************************************************************************)
(* The theorems                                                            *)
(***************************************************************************)
LEMMA AbsentIsRow == Absent \in Row
BY AccountsAssumption DEF Absent, Row, Faults

LEMMA InitInv == AccountsInit => Inv
<1> SUFFICES ASSUME AccountsInit PROVE Inv
  OBVIOUS
<1>1. Absent \in Row /\ 0 \in 0 .. MaxSecret
  BY AbsentIsRow, AccountsAssumption
<1>2. AccountsTypeOK
  BY <1>1 DEF AccountsInit, AccountsTypeOK
<1>3. \A a \in Accounts : row[a] = Absent /\ principal[a] = "none"
  BY DEF AccountsInit
<1>4. \A k \in Calls : saw[k] = Absent /\ doing[k] = "idle" /\ of[k] \in Accounts
  BY DEF AccountsInit
<1>5. /\ SchemaHolds(Absent) /\ Absent.version = 0 /\ ~Absent.sync
      /\ Absent.trading = "DISABLED" /\ Absent.connection = "UNCONFIGURED"
      /\ Absent.worker = "UNCONFIGURED"
  BY DEF Absent, SchemaHolds
<1> QED
  BY <1>2, <1>3, <1>4, <1>5
  DEF Inv, RowsHold, CallsKnow, StillKnown, EligibleIsReadable, VerifiedIsCurrent

LEMMA NextKeepsInv == Inv /\ [AccountNext]_accountsVars => Inv'
<1> SUFFICES ASSUME Inv, [AccountNext]_accountsVars PROVE Inv'
  OBVIOUS
<1>1. CASE UNCHANGED accountsVars
  BY <1>1
  DEF Inv, AccountsTypeOK, RowsHold, EligibleIsReadable, VerifiedIsCurrent, CallsKnow,
      StillKnown, Bindable, LiveReady, accountsVars, accountVars, callVars
<1>2. ASSUME NEW a \in Accounts,
             \/ RotateCredentials(a) \/ Rename(a) \/ EnableAccount(a) \/ DisableAccount(a)
             \/ EnableSync(a) \/ DisableSync(a) \/ EnableTrading(a) \/ DisableTrading(a)
             \/ ConfigureWorker(a) \/ UnconfigureWorker(a) \/ DeleteAccount(a)
      PROVE  Inv'
  BY <1>2, RotateCredentialsKeeps, RenameKeeps, EnableAccountKeeps, DisableAccountKeeps,
     EnableSyncKeeps, DisableSyncKeeps, EnableTradingKeeps, DisableTradingKeeps,
     ConfigureWorkerKeeps, UnconfigureWorkerKeeps, DeleteAccountKeeps
<1>3. ASSUME NEW k \in Calls, NEW a \in Accounts,
             \/ BeginCreation(k, a) \/ PrepareConnectionCheck(k, a)
             \/ PrepareWorkerCheck(k, a) \/ ReadWorkers(k, a)
      PROVE  Inv'
  BY <1>3, BeginKeeps DEF BeginCreation, PrepareConnectionCheck, PrepareWorkerCheck, ReadWorkers
<1>4. ASSUME NEW k \in Calls,
             CreateAccount(k) \/ RecordConnectionCheck(k) \/ ExternalTrade(k) \/ GiveUp(k)
      PROVE  Inv'
  BY <1>4, CreateAccountKeeps, RecordConnectionCheckKeeps, ExternalTradeKeeps, GiveUpKeeps
<1>5. ASSUME NEW k \in Calls, NEW f \in Fingerprints,
             \/ RecordWorkerCheck(k, f)
             \/ \E answer \in Faults \ {"changed"} : RecordRuntimeProbe(k, answer, f)
      PROVE  Inv'
  BY <1>5, RecordWorkerCheckKeeps, RecordRuntimeProbeKeeps
<1> QED BY <1>1, <1>2, <1>3, <1>4, <1>5 DEF AccountNext

\* Whatever people, checks, probes and creations do to the accounts of a team, and in whichever
\* order: an account is read, and may trade, only while its credentials can be used and its
\* service user is admitted, and what counts as verified was verified as it now is (accounts.py).
THEOREM AccountsSoundHolds == AccountsSpec => []AccountsSound
<1>1. Inv => AccountsSound
  BY DEF Inv, AccountsSound
<1> QED BY <1>1, InitInv, NextKeepsInv, PTL DEF AccountsSpec

\* Every row of exchange_accounts keeps to the types of its columns.
THEOREM AccountTypes == AccountsSpec => []AccountsTypeOK
<1>1. Inv => AccountsTypeOK
  BY DEF Inv
<1> QED BY <1>1, InitInv, NextKeepsInv, PTL DEF AccountsSpec
=============================================================================
