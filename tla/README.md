# TradeOps verification project

TLA+ models, TLC runs and TLAPS proofs for the trading control plane
(`src/src/trading_control_plane`). Paths below are relative to that directory
unless they begin with `src/`; `service_domains/` is written `sd/`.

TradeOps turns approved trade proposals into orders. It never speaks to an
exchange to trade: it hands a durable *order intent* to a Freqtrade worker, learns
what became of it by query, by RPC messages and by read-only account snapshots,
and keeps the risk of everything that may have happened reserved until the facts
say otherwise. Around this core stand the people and machines that decide what may
be traded: signals arrive, proposals are reviewed (in the browser or through a
Telegram bot), authorizations are issued under the controls of the day, accounts and
workers are verified, and capital is moved between vaults and venues.

All shared state is in PostgreSQL at its default isolation (READ COMMITTED). Every
handler is one transaction; what serialises two handlers is the row locks they
take, and the order in which they take them. A handler that reads, waits and
decides without a lock is split into steps in the models; one that locks before it
reads is one step. `record_freqtrade_rpc_event` does neither with the intent and is one step all the same (section 7).

## 1. Inventory

| Component | State | Operations | Hard behaviour | Model |
|---|---|---|---|---|
| Sender lease and fencing (`sd/execution_intent.py`, `service_transactions.py`) | `sender_leases`: owner, fencing token, expiry | three acquisitions, `validate_sender_lease` | the test reads the row without a lock; takeover needs a MATCH; two bypasses | SenderLease, FencedSender, Fence |
| Order intents and campaigns (`sd/execution_intent.py`, `sd/execution_campaign.py`, `sd/risk_reconciliation.py`) | `order_intents`, `risk_reservations`, `campaigns`, `reconciliation_runs` | create, mark unknown, release, reduce/exit, close, reconcile | release races dispatch; decisions from stale facts | OrderIntent |
| Controlled dispatch and recovery (`execution_dispatch.py`, `execution_runtime.py`, `sd/execution_freqtrade.py`, `sd/accounts.py`, `freqtrade.py`) | the durable dispatch on the intent, idempotency receipts, the caller's local variables | prepare, start, POST, query, record order / unknown, RPC events | replicas share one owner; crashes; timeouts; late outcomes | OrderDispatch |
| Fact ingestion (`sd/execution_facts.py`, `fact_adapter_*.py`, `adapters/facts.py`) | `positions`, `venue_orders`, `venue_fills` | one all-or-nothing account snapshot | stale and partial snapshots, identity conflicts, adoption of late fills | FactIngestion |
| Risk capacity, trading mode (`sd/risk_policy.py`, `sd/execution_intent.py`, `sd/trading_mode.py`) | limits, reservations, `used_quantity`, add units, the team's mode | authorize, create, dispatch, release, switch | one capacity lock, unlocked mode reads, a switch that waits for neither | NewRisk |
| Authorization, risk state, reviewed changes (`sd/risk_authorization.py`, `sd/risk_policy.py`, `sd/risk_recovery.py`) | decisions, authorizations, policies, the `AUTO_ADD` gate, change requests | decide, issue, pause, disable, request, review, execute | decided under one state of the controls, used under another; cooldown, drift, expiry | RiskControl |
| Proposals (`sd/proposals.py`, `sd/proposal_automation.py`) | proposals, reviews, receipts | draft, submit, review, reuse, consolidate, expire | routes of three transactions, repeated requests, late reviews | Proposals |
| Notifications, Telegram (`sd/notifications.py`, `notification*.py`, `telegram.py`) | outbox, routes, the bot's messages and memory | queue, claim, send, record, recover; press, confirm, vote | stale claims, lost answers, presses again after a restart | Notifications, TelegramReview |
| Signal feed (`perptape.py`, `perptape_stream.py`) | one row of facts per team and exchange | poll, stream, backfill, merge | two writers of one row from stale reads | SignalFeed |
| Signal sources (`sd/signals.py`, `runtime.py`) | sources, service principal, nonces, receipts, the supervisor's streams | create, switch, configure, receive, reconcile streams | six handlers keep one principal; bindings go stale | SignalSources |
| Workspaces, members, sessions, keys (`sd/workspace.py`, `sd/api_clients.py`, `auth.py`, `api_routes/workspace.py`) | memberships, roles, scopes, passwords, sessions, API keys | invite, assign, update, remove, select; log in, change, reset, rotate | the caller's row is not locked; slow logins | Access |
| Exchange accounts (`sd/accounts.py`, `sd/account_registry.py`, `exchange_connection_verification.py`) | accounts, credentials, worker, verification | rotate, verify, configure, probe, block, delete, restore | probes that take seconds; counters that start again | Accounts |
| Direct capital (`sd/capital_direct_*.py`, `capital_direct_use_cases.py`, `capital_receipt_use_cases.py`, `capital_runtime.py`, `adapters/binance_capital.py`) | `direct_capital_operations`, `binance_capital_outbox` | previews, wallet outcomes, receipts, withdrawal, continuation of deposits | irreversible writes with lost answers; transfers known by amount only | CapitalOperation, DirectCapital |
| Capital transfers (`sd/capital_transfer.py`, `sd/capital_notilt.py`, `sd/capital_reconciliation.py`, `sd/capital_automation.py`, `capital.py`) | proposals, authorizations, transfers, plans, balance facts | propose, review, reserve, execute, receive, observe, reconcile | overlapping releases, ambiguous deposits, transactions nobody is sure of | Transfers |
| Protection orders, HTTP API, projections, web client, provisioning, operations | – | – | see section 7 | – |

`PROJECT.json` lists the hazards of this code line by line; the properties are
aimed at them.

## 2. Modules

```
Fence              the abstract fenced lease: epochs, one holder each
WriteAhead         the abstract journal: an effect is recorded first, and happens once
SenderLease        the lease row, the three acquisitions, the unlocked test
  FencedSender       the lease alone, with transactions that write under tokens
  OrderIntent        rows of one campaign; operators' handlers; reconcile, close
    FactIngestion      the venue, reading and storing account snapshots
      OrderDispatch      executors, crashes, RPC messages; the composed system
        OrderDispatch_proofs
        MCOrderDispatch -> MCDispatch

Access             members, scopes, sessions and keys
Accounts           exchange accounts and what is known of them
  Accounts_proofs
MCAccess           FencedSender, Access and Accounts side by side
  Access_proofs      (of FencedSender, Access and the composition)

Proposals          requests for a trade and their review            MCProposals
  Proposals_proofs
Notifications      the outbox of deliveries
  TelegramReview     prompts, presses and votes: composes the bot with the outbox
NewRisk            authorizations, intents, limits and the mode
MCReviewDesk       Notifications, TelegramReview and NewRisk side by side
  ReviewDesk_proofs  (of all three and the composition)
RiskControl        policies, gate, authorizations, reviewed changes MCRiskControl
  RiskControl_proofs

SignalFeed         the row of market facts and its two writers
SignalSources      sources, webhook and supervisor
MCSignals          the two side by side
  Signals_proofs     (of both and the composition)

CapitalOperation   the rows of direct operations and what people do with them
  DirectCapital      what writes to Binance: withdrawals, continuations, crashes
Transfers          transfers between vault and venue
MCDirectCapital    DirectCapital and Transfers side by side
  DirectCapital_proofs  (of both and the composition)
```

Where components share no row, an MC module checks them in one run: a variable `focus`
is chosen once, and the others rest. It is a union of state spaces, not a product.

**SenderLease** abstracts time to what the handlers compare: is the lease live, and was
the latest reconciliation run a MATCH, completed after the expiry and still fresh.
**FencedSender** splits a fenced transaction where the database does: `LockAndCheck`
takes the intent's row lock and reads the lease without one, `Commit` and `Rollback`
come later. *Fence* says what a fenced lease promises; `ImplementsFence` is the refinement.

**WriteAhead** says what the system promises wherever it does something it cannot take back: it is recorded before it is done,
the record is made once and never altered, and it is done at most once. `ImplementsWriteAhead` is that refinement for three
components, whose records are of three kinds: the durable dispatch of an intent (OrderDispatch), the outbox row of a Binance
write with the instant history is searched from (DirectCapital), and a delivery with its route (Notifications).

**OrderIntent** has one action per handler on the rows of a campaign: intent and reservation,
the bound order row and the unbound ("stray") one, fills, the position fact. Quantities are
units: an entry has `Full = 2`, so that a partial execution and a split one exist. CANCELLED
stands for REJECTED too.

**FactIngestion** adds the venue (external) and the snapshot: `ReadSnapshot` takes what the
venue shows at one moment, `StoreSnapshot` applies it later in one transaction, `RefuseSnapshot`
rejects it whole. The operators between them follow the parts of
`_ingest_read_only_snapshot` and `_cover_absent_positions` in order.

**OrderDispatch** composes all of it with executors. An executor is one call of
`execute_intent`; `pc` says which step is next, `token`, `version` and `found` are what it
read and uses later:

| action | code |
|---|---|
| `Take` | `_acquire_sender` / the API's `acquire_sender` |
| `Prepare` | `freqtrade_worker_binding`, `prepare_freqtrade_order`, trade lookup |
| `StartNew`, `StartReplay` | `start_freqtrade_dispatch`: SEND, or QUERY_ONLY / COMPLETED |
| `Post` | `force_enter`, `force_exit` up to the POST |
| `Find`, `TimeOut` | `recover_entry`, `recover_exit`, `wait_for_protection` |
| `RecordOrder`, `RecordUnknown` | the two recording transactions |
| `Refused`, `Crash` | a check that fails; the process dies between any two steps |
| `RpcCancel` | `record_freqtrade_rpc_event` for a cancel |

**NewRisk** is where intents come from. A call is a command with its idempotency key
(`ISSUE`, `INITIAL`, `ADD`); creating an intent reads the mode from an unlocked row
(`Enter`), waits for the team's capacity lock, decides and commits. A switch is five
steps, because it reads the team's row before it locks it, writes the authorizations before it reads
the intents, and writes those as it commits. A quantity and its risk are one number.

**RiskControl** is where `newRisk` of OrderIntent comes from. A policy is its revision, its
system state and the time of its last change; the gate is one for the deployment. Each
handler is one step because each locks the team's capacity lock or the gate's row first.
`Drifted` is `_risk_restore_request_drifted`; time is a clock in units of the cooldown.

**Proposals** keeps the proposals of one trade. A request may be sent again at any time;
its route creates, reads and submits in three transactions (`Create`, `Read`, `Submit`) and
may stop between them. Reviews, expiry and the consolidation of duplicates are actions of
their own; `askers` are the originators who may not review.

**Notifications** splits queueing (routes are read, then rows inserted) and sending (claim,
send, record). A claim may be called stale while its worker still sends. **TelegramReview**
adds the messages that arrived, their buttons, the updates Telegram keeps, and the bot's
memory of confirmations it has shown.

**SignalFeed** has the poller's four steps and the stream worker's, which wait for each other
nowhere; `Merge` is the three-way merge that the record makes under the row's lock. `Reconnect` ends a connection, or a record that is
refused ends it: what was under way is lost, and a backfill follows. **SignalSources**
has people's handlers on sources, the webhook with its two receipts (key and nonce), and
the supervisor's loop: read the bindings, reconcile, poll, reconcile again.

**Access** splits an administrator's request in three: the caller's role is read, the target's rows are
locked, what was decided is written. `add_team_member` and `assign_role` lock nothing and wait only for
the foreign key. A login reads a hash, verifies for a while, then issues the session.

**Accounts** has one action per handler of an account row, and *calls* for what takes longer:
a check of credentials or worker, the supervisor's probe, and a creation, which reads the row
without a lock. `SchemaHolds` is the table's check constraints. Credentials and passwords are
numbered as they are entered; `connected` and `proved` say which the last good check saw.

**CapitalOperation** has one action per handler of the four files `sd/capital_direct_*.py`.
`moved` is the world: which legs have really moved funds, and whether Hyperliquid's ledger has an entry of it; a receipt
is accepted only of what happened, and a Binance withdrawal completes some time after it was sent.
**DirectCapital** splits the calls that write to Binance at every commit and every request. Instants are
positions in `posted`, the sequence of transfers Binance has executed; of a window history shows some.

**Transfers** binds proposal, authorization and transfer of one transfer `t`. A LIVE transfer is a plan
of transactions that a wallet signs and the chain executes once (`chain`); a person hands in the hash.
`withdrawable` and `shows` are what the latest fact of a location says.

## 3. Runs

| run | question | bounds |
|---|---|---|
| `fenced_sender` | do tokens fence, with three ways to get one and an unlocked test? do members, scopes, sessions and keys agree while requests race? is an account that may trade ready, by checks of what it now holds? | 2 owners, 2 intents, 3 tokens; 2 people, 2 teams, 2 requests, 3 passwords, 2 keys; 1 account, 2 calls, 5 changes, 3 secrets |
| `dispatch` | is every order request recorded first, issued once, under one record? is unknown risk kept until proof? | "race": 2 replicas and an operator, 2 tokens, 1 account change, 1 crash, no snapshots; "facts": 2 replicas, snapshots, an entry filled at once or in two trades |
| `entry_exit` | are cancellations true? does risk cover exposure? does closing mean flat? | 1 caller at a time, 1 entry that fills or is closed with part of its amount, 1 exit, snapshots |
| `recording` | is every filled order recorded in the end, as long as the account stays as it is? | 2 calls, 2 tokens, 1 crash, 1 account change, fairness |
| `risk_control` | does an authorization survive a change of its controls? are changes decided on the present controls, after the cooldown? | 1 team, 1 authorization, 2 requests, 3 revisions, 3 versions, 3 instants, 3 changes of either together (`FewChanges`) |
| `proposals` | is one proposal made, answered and approved where one is meant? | 3 people, 3 requests of any kind, 2 proposals |
| `review_desk` | are reviewers told once, deliveries settled, votes prompted? do limits, quantities, additions and mode hold? | 2 routes, 2 handlers, 2 workers, 2 attempts, 2 reviewers, 2 presses kept; 5 calls (2 ISSUE, INITIAL and ADD), 3 units, 2 modes, 1 administrator |
| `signals` | do alerts and newer facts survive merges, is each alert settled, is a signal counted once, do streams follow sources? | 1 key, 2 updates, 1 message under way; 2 sources, 3 versions, 6 posts |
| `direct_capital` | is every outbox write sent after its row and once, is anything settled early, reserved beyond the source, or paid with another's payment? | 1 operation of each path and treasury, 2 workers, 1 person, 2 checks, 1 transfer; 2 transfers, 3 people, 3 transactions, balances up to 2 |
| `reopens_closed`, `partial_release`, `last_admin` | three sentences of the source the code does not keep | section 6 |

Why the bounds suffice.

* *Dispatch.* An intent's dispatch is decided by its first two callers, and a third of another
  owner adds the takeover; token 2 is the one after the first expiry and every later expiry repeats it; one account
  change separates "same version" from "changed"; one crash leaves a dispatch without a caller. One entry
  and one exit are the shortest campaign that can close. In `entry_exit` an entry may end with part of its amount;
  from then on every snapshot lists its order with its fills and facts do not age (`PartialIsSeen`), which keeps the run
  short. `OrderDispatch_proofs` proves the same without that restriction, for any outcomes, exits, calls and crashes.
  `MCOrderDispatch` uses no symmetry: executors differ by owner.
* *Accounts.* Accounts meet only in the supervisor's reading of all, which other accounts can only refuse; two calls are
  one that is overtaken and one that overtakes; five changes are a creation, a binding, its end and another
  binding, and the record. `Accounts_proofs` proves the same for all values.
* *Access.* Two administrators of one team or one and a member are every pair that can race; the second team is the one a
  scope can move to. Grants per request are one role, which adds or keeps an administrator.
* *Controls.* Teams meet only in the gate, so one team is enough for what must hold of each; three revisions are one to decide on,
  one that tightens and one that restores; two requests are the least that can be decided on one state. Requests are
  interchangeable (`RequestSymmetry`; the properties are safety).
* *New risk.* Two authorizations, two entries and an addition can meet in one campaign, in one scope, in one team and across
  modes: `Scenarios` lists those four. Three units are two that fit a limit of three and one that does not.
* *Proposals.* Two proposals are the least that can duplicate each other; three requests give each of them one and leave one
  that is repeated. People and requests are interchangeable.
* *Notifications.* A second attempt is the first that may repeat a send; the two workers are the one with the stale claim and the one that recovers it.
* *Signals.* Only one key is needed, since a merge treats each key alone; the bound on messages decides how far the stream
  runs behind. `Signals_proofs` proves `FactsKept` for any keys, updates and messages.
* *Capital.* A withdrawal concerns one operation; two checks are one that is interrupted and the last. The bound on
  transfers Binance executes loses nothing with one operation: a second transfer could only make history ambiguous, and a
  search may fail in any case (`Fails`). Two transfers of one source are what can overlap; three transactions are one each and
  one that is handed in for both. Among LIVE transfers a fact shows all there is to see or nothing new, and the vault's at
  least what the venue's shows; `DirectCapital_proofs` has no such restriction. Workers and transfers are interchangeable
  (`CapitalSymmetry`).

Fairness. `recording`: weak fairness of each executor's steps and of the facts worker, because `run_forever` and the
adapters' loops take up what is left of the last cycle; strong fairness of `Find`, since a query that can see the outcome in
cycle after cycle is not timed out every time, and of reading a complete snapshot, since the history is fetched with every
one. `review_desk`: weak fairness of each worker's cycle and of retries coming due; workers may stop at any step.
`signals`: the poll begins again and, repeatedly possible, succeeds (strong: a failed poll is repeated); the supervisor's
loop goes on and is restarted (`restart: unless-stopped`); threads asked to stop do; retries come due. Nothing is assumed
of people, the venue, the stream's worker or crashes.

## 4. Properties

Each comment in the modules says which code a property is about. In short:

* lease: `WritesInTokenOrder`, `ImplementsFence` (refinement of Fence);
* dispatch: `ImplementsWriteAhead` (refinement of WriteAhead), `CancelledIsUnfilled`, `RiskCoversExposure`, `UnknownRiskNeedsProof`, `ClosedMeansFlat`, `FilledGetsRecorded` (liveness);
* controls: `ActiveAuthorizationIsCurrent`, `OneChangePerSnapshot`, `RestoresCoolDown`;
* new risk: `CapacityRespected`, `OneInitialPerProposal`, `GrantRespected`, `DispatchMatchesMode`;
* proposals: `ApprovedByOthers`, `OneProposalEach`, `AnsweredWithOne`;
* telling and voting: `ArrivesOnce`, `EveryDeliverySettles` (liveness), `VotedOnItsPrompt`;
* signals: `FactsKept`, `AlertSettles` (liveness), `PrincipalFollowsSource`, `SignalCountedOnce`, `StreamFollowsSource` (liveness);
* access: `ScopeIsMembership`, `CredentialsAreCurrent`;
* accounts: `AccountsSound` = `EligibleIsReadable` and `VerifiedIsCurrent`;
* capital: `ImplementsWriteAhead`, `SettledIsMoved`, `PaidOnItsOwn`, `ReservesSoundly`.

Every property is broken by a plausible fault in the code: the operators commented `Fault:` stand beside the definition
they replace, and `PROJECT.json` pairs them.

## 5. Proofs

TLAPS checks, for every value of the constants, every safety invariant and action property that the passing runs check. An
invariant named below is inductive; what the runs check follows from it.

* `Access_proofs`, the lease: `FencedInv` (tokens handed out are at most the lease's, and its own was given to its owner;
  locks and writes are under no newer token, and a row is not written under an older one than its lock's). From it
  `TokensIdentifySenders`, `NewestTokenOnly`, `WritesOrdered`, and `LeaseIsFence`: initial states and steps of FencedSender
  map to those of Fence.
* `Access_proofs`, members: `ScopesHold` and `CredentialsHold`. A person's row is locked by one request at most
  (`LocksHeld`), so a membership that `select_scope` read under the lock is there when it writes (`ReadStillTrue`); password
  and version are raised together wherever they are copied (`Together`); no token is newer than its key's version, and a
  revoked key stays so (`KeysHold`).
* `Accounts_proofs`: `AccountTypes` and `AccountsSoundHolds`. The invariant adds what the table's constraints say
  of every row and of what calls read (`RowsHold`), and what a call may rely on when it comes back (`CallsKnow`): as long as
  nobody has overwritten the row, its version is not lower than the one the call saw, and where it is the same so are
  credentials and password. It is the version that makes checks current; the counters of credentials and passwords start
  again and prove nothing alone (the fault `SamePassword`).
* `OrderDispatch_proofs` has five invariants, each built on the last.
  1. `Typed`: `TypeCorrect`.
  2. `PostInv`: `PostsOnce` and `DispatchIsWriteAhead`. An executor that may send is the only one for its intent
     (`OneSender`), and the intent has a durable dispatch that was never posted (`DispatchFirst`). That no intent is posted
     twice says nothing of the executor that is about to post. Each step is then one of the journal or a stutter.
  3. `KnowledgeInv`: `UnknownRiskHolds`. What rows, calls, RPC messages and a stored snapshot say of an order was so when
     they learnt it, and orders only move forward (`Earlier`). An order that a snapshot lists as cancelled is bound to no
     intent whose risk is unknown, so unknown risk is never released at all: it stays or becomes open.
  4. `ClearInv`: `CancelledHolds`. An intent is cancelled only before its dispatch, because release and dispatch read the same
     row under its lock, or after its order was closed at the venue with part of its amount.
  5. `ExitInv`: `RiskCovers`, `ClosedIsFlat` and `OneOrderWorksHolds`. No exit before the entry is shown to be filled; a ready
     exit is the one that follows the exits that filled, one is ever dispatched, and what is released or closed is over
     (`Over`).

  `LeaseInv` says that no call has a token above the lease's, and that the lease's own is in its owner's hands only. From it
  `SendersAreFenced`, the refinement of Fence with executors as holders, and `SupersededStayOut`.

  4 and 5 hold for whatever the venue does with an entry. What they say of exposure has one exception, `ClosedPartly`: an
  entry that was closed with part of its amount, where the code breaks `FilledIntentKeepsRisk` (`partial_release`).
  `WholeEntriesAreCovered` assumes `EntriesFillWholly`, that an entry may fill in two trades but is not cut short, and
  concludes from `WholeInv` that then there is no exception.
* `RiskControl_proofs`: `ControlTypes`, `AuthorizationsAreCurrent`, `ChangesAreDecidedOnce` and `RestorationsCoolDown`, all
  from `ControlsHold`: requests are `Behind` (their source is not newer than the controls), `Spent` (an executed one has
  moved the controls on) and `Cooled` (a live one that has not drifted waits for the cooldown of the present policy and
  gate). Every change of the controls raises a revision or version (`ControlsMove`), so a drifted request stays drifted.
* `Proposals_proofs`: `ReviewTypesHold`, `ApprovalsHold`, `OneProposalHolds` and `AnswersHold`. `Right` says of each proposal
  that its proposer is among its askers and not among its approvers, that a refusal ends its review and that an approved one
  has its votes. Nothing decided or expired becomes active again (`Moves`), and a route's replies are its receipt.
* `ReviewDesk_proofs`, deliveries: `MessagesArriveOnce` from `DeliveryInv`. One worker at most works on a delivery
  (`OneWorker`), and while it does the delivery neither waits nor is cancelled (`WorksOn`); a claim given up is settled, so
  the late sender has no successor. `DeliveryIsWriteAhead` follows. `VotesHold` adds the bot's memory (`BotInv`), which is
  of messages recorded as sent.
* `ReviewDesk_proofs`, new risk: `CapacityHolds`, `OneInitialHolds`, `GrantsHold` and `ModeHolds` from `RiskInv`. What the
  holder of the capacity lock has tested is still so when it commits (`HolderFits`); one intent of an authorization at most
  is unresolved (`OneUnresolved`), so that additions find their unit (`AddsRemain`); a switch that holds the team's row has found
  no unresolved intent in the mode it leaves, and none is made until it is done (`SwitchesFit`). A sum of quantities is the
  number of their units (`Units`), because a sum over a set is an induction.
* `Signals_proofs`, sources: `PrincipalHolds` and `SignalsHold`. There is one Perptape source at most and only it is bound to
  the principal (`PrincipalInv`); of the events of a source no two share a key, a nonce or a signal (`Counted`).
* `Signals_proofs`, the feed: `FactsKeptHolds` from `FeedInv`. `MergeKeepsReady` and `MergeKeepsWaiting` say what the
  three-way merge keeps; the second fails where the row is again what its writer read, although it was another when the
  writer looked at what waits. `Window` and `KeptHolds` exclude that: while the worker asks, only polls write, each from what
  the one before has left (`PollUpToDate`), and a time that no update bears does not come back. `Dated` relates every time to
  the venue's, so that an answer is newer than what was read before it.
* `DirectCapital_proofs`, direct operations: `Inv` behind `WithdrawnOnceHolds`, `ContinuedOnceHolds` and `SentOnceHolds`. A
  counter that is at most one is not inductive: `Fence` says that of the calls which may still send, each is the only one for
  its operation, the outbox row exists and nothing was sent under it. `OutboxIsWriteAhead` follows with `Rowed`: the
  operation a worker carries out has its row. `NotSubmittedIsUnsentHolds` adds `Attempted`, and `SettledIsMovedHolds` adds
  `RowEvidence` and `CallEvidence`: what rows and calls take for proof of a leg has moved funds, and funds do not move back.
* `DirectCapital_proofs`, transfers: `PaidOnItsOwnHolds` and `ReservesSoundlyHolds` from `TransferInv`: an authorized transfer
  has two approvals of others (`Approved`); hashes confirmed for one transfer are no other's, exist on the chain, and one of
  them is the payment of a confirmed transfer (`Paid`).
* The compositions: `AllTypesHold` and `AccessComposed`, `DeskTypesHold` and `DeskComposed`, `SignalTypesHold` and
  `SignalsComposed`, `CapitalTypesHoldTogether` and `CapitalComposed`. Each composite invariant is the conjunction of the
  parts' own; a step of the composition is a step of the part in focus and a stutter of the others, so each part's
  specification, fairness aside, is implied and what is proved of it is proved of what the run checks.

The assumptions are the named ASSUMEs of the modules, which TLC evaluates in the runs: bounds are numbers, the absent value is
no member, every executor has an owner, the initial intent is no exit, calls and transfers are finitely many, the cooldown is
shorter than a request's life, a post has a key, a nonce and a signal, the proposer of transfers has two others beside it, and
the request that stands for all in MCAccess is one of the requests.

Only model-checked: liveness (`FilledGetsRecorded`, `EveryDeliverySettles`, `AlertSettles`, `StreamFollowsSource`), since
fairness and ENABLED are beyond the prover. That a property fails (section 6) is what the runs show.

## 6. What the source says and the code does not do

* `reopens_closed`: "CLOSED is absorbing" (`sd/execution_facts.py:1775`). `record_freqtrade_unknown`
  looks at the intent's status only; a query that timed out before the campaign was closed reopens it.
* `partial_release`: "filled intent cannot release all risk" (`sd/execution_intent.py:598`). The test counts
  `venue_fills`, which `record_freqtrade_order` does not write.
* `last_admin`: "the last active system administrator cannot be removed or disabled" (`sd/workspace.py:814`). Two
  administrators who disable, demote or remove each other at once each lock the other's row and count two.

Observed while modelling; the models contain these steps, and the properties are stated so as to hold with them:

* *Dispatch.* A slow fill whose order a snapshot listed before its outcome became UNKNOWN is never recovered
  (`sd/execution_facts.py:1599`). An entry closed with part of its amount may be released, cancelled and its campaign closed before
  the fill is known, and the exposure stays uncovered (`ClosedPartly`); nothing else causes that.
* *Controls.* A reviewed DISABLE_AUTO_ADD turns the deployment's gate off but revokes its own team's authorizations only
  (`sd/risk_recovery.py:1454`); the direct one revokes all.
* *Mode.* A switch decides on the version of a team's row that it read before the lock (`sd/trading_mode.py:252`): of two
  switches at once one may be lost, without harm to what is dispatched.
* *Proposals.* A review or submission that comes late turns a REJECTED proposal into EXPIRED (`sd/proposals.py:1415`, `:1316`).
* *Signals.* A binding that is stale at the end of a poll ends the supervisor, and with it every team's streams; a mere test of
  a source raises its version (`runtime.py:784`).
* *Accounts.* `create_exchange_account` reads a deleted row without a lock and writes the columns that differ from what it
  read: two restorations that overlap can leave credentials VERIFIED that no check saw (`overwritten` marks such rows; the
  table's constraint still keeps an unverified account from being read). `credential_version` starts again at a restoration,
  and `lock_runtime_account_binding` compares it alone. The renewal of a changed worker raises neither version nor audit
  record, because the old values are remembered after it (`sd/accounts.py:1781`). A worker that went STALE over the catalogue stays so
  when the catalogue matches again. A caller that joins another's connection check runs into an assertion when that check fails.
* *Direct capital.* A deposit may settle by the transfer of an equal one, since history is searched by type, asset and amount
  (`adapters/binance_capital.py:493`). A person's receipt call POSTs the transfer to USD-M without an
  outbox row (`capital_receipt_use_cases.py:172`), although `models.py:1610` calls the outbox a "durable fence around every
  Binance capital write attempt", and two calls with one idempotency key may both send. `ImplementsWriteAhead` is about the
  writes under a row, the worker's and the withdrawals. The ledger entry of a deposit to
  Hyperliquid and the credit of a withdrawal may be found by amount and time alone as well
  (`adapters/hyperliquid_capital.py:639`); the models take what is found for the operation's own.
* *Transfers.* A person's observation does not ask which transport a transfer uses: a LIVE release may be marked failed or
  settled, and a later receipt puts it back in flight. Of two overlapping releases of one source the exact balance of one
  can never match. An automatic proposal that is not rejected keeps its scope from ever being automated again. Once a
  plan is recorded and its request lapses, no cancellation can be planned. A proposal's EXPIRED is written in the transaction that its
  refusal rolls back (`sd/capital_transfer.py:174`). Older snapshots may overwrite newer facts. Reconciliation compares
  balances only, so money of another origin may settle a transfer (`sd/capital_reconciliation.py:425`). A receipt dates its
  transfer back to the block's time (`sd/capital_notilt.py:573`), so facts recorded before it count again.

## 7. Not modelled

* Protection orders and the emergency exit: the native stop acts at prices, and its orders reach the system through
  Freqtrade's reports and snapshots only. Equity, funding, PnL, targets, and REDUCE intents.
* The decisions that depend on amounts: the sizing of additions (`position_policy.py`), addresses and spending limits;
  a call they refuse is a step not taken.
* The unlocked read of `record_freqtrade_rpc_event`, which is one step here: a cancel that reads UNKNOWN while another
  call records an outcome writes no status (only columns that change are written), and leaves the recorded one beside a
  reservation and a campaign that are UNKNOWN.
* `ensure_local_human_password`, which takes no lock, and the provisioning of the first administrator.
* The sharing of one connection check among simultaneous callers; encryption; requests to venues and providers.
* Channels, wording and redaction of notifications; parsing of market data.
* HTTP API, projections, analytics, web client, gateways, provisioning and migrations: stateless, read-only or
  row at a time. Their concurrency is that of the services they call.

## 8. Plan

1. How long the exposure of an entry closed with part of its amount may stay uncovered.
2. Protection: the native stop against exits in flight, and the emergency exit.
3. The arithmetic of `position_policy.py` as operators, against a reference.
4. Composition of NewRisk with OrderDispatch: one campaign from the authorization to the close.
