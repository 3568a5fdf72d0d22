# brudapay: a TLA+ model of the payment gateway

This directory specifies the Go server of the repository (`src/backend`): the life of a
deposit, disputes and the traffic switch, routing, the WebSocket hub, the balance ledgers, and
the process itself: its schema migrations, login sessions, and traders' requisites and insurance.
TLC checks the specifications on small instances; TLAPS proves every safety property of the
passing runs, and the refinements, for every instance.

Run everything from this directory:

    tlc -workers 2 -config Deposits.cfg MCDeposits.tla
    tlapm DepositsProofs.tla

## 1. Inventory

The server is one process over one PostgreSQL database. Handlers run concurrently, one
goroutine per request; background jobs and callbacks are goroutines of the same process.
Nothing is persisted but the database; Redis is connected to and never used.

| Component | Source (`src/backend/`) | State | Operations | Talks to |
|---|---|---|---|---|
| Deposit requests | `internal/transactions/{handler,service}.go` | rows of `transactions` | `CreateDeposit`: key check, INSERT, route, assign, call the provider, save its id, store the key | router, provider API, hub |
| Status updates | `transactions/service.go` `UpdateStatus` | status, `paid_at`, payer history | one unconditional UPDATE, broadcast, spawn of the callback | hub, notifier |
| Provider webhooks | `internal/handlers/webhook.go` | none | find the row (three tries), map the event, `UpdateStatus` or open a dispute | status updates, disputes |
| Merchant notifier | `internal/webhooks/notifier.go` | none | one HTTP call per final status | merchant |
| Expiry job | `internal/scheduler/scheduler.go` | ids of its query | every five minutes: up to 100 rows that wait for 30 minutes | status updates |
| Disputes | `internal/disputes/service.go` | `disputes` | create (blocks the provider), change status, tell the provider | traffic, provider API |
| Traffic switch | `internal/traffic/service.go` | `providers.traffic_enabled`, history | enable, disable, bulk | router reads it |
| Routing | `internal/routing/engine.go` | none | rule query, weighted choice, second look at the provider | providers, disputes |
| WebSocket hub | `internal/websocket/hub.go` | clients, channels | register, unregister, broadcast; two pumps per client | dashboards |
| Balances | `internal/balances/*.go` | balances and ledgers | add, freeze, unfreeze | not wired in by `main.go` |
| Migrations | `cmd/server/migrations.go`, `main.go` | `schema_migrations`, the schema | read the versions, apply and record the pending files one by one, serve | database |
| Login sessions | `internal/auth/*.go`, `pkg/jwt` | `refresh_tokens`, `users` | login, refresh with rotation, logout; administrators block, demote, delete | merchant calls, by their claims |
| Trader requisites | `internal/merchant/*.go`, `internal/requisites/service.go` | requisites, insurance, daily limits | create, delete, top up; administrators' statements; reservation | casinos, claims, router |
| Middleware | `internal/middleware/*.go` | limiter map, response cache | who may call as which casino (modelled); rate limit, API key, cache | handlers |
| Administration | `internal/handlers/admin.go`, `internal/{users,casinos}` | users, casinos, providers, rules | status, role, deletion (modelled where others read them); creation and edits | database |
| Analytics, audit, sandbox | `internal/{analytics,audit,sandbox}` | their tables | queries, a log, test data | database |

What is hard in this code: a handler is a chain of SQL statements without a database
transaction around it, so any other handler, webhook or job runs between two of them; any of
them may fail before or after it took effect, and errors are often ignored; callbacks live in
goroutines that a stop loses; reads are used after they became stale (the expiry query, the
balance services, the check for an open dispute); row locks are taken in the order of the
request; channels are bounded; a start may end between any two migration files; the claims of a
token outlive the rows they were made of. `PROJECT.json` lists each of these hazards at its line.

What makes each component correct:

* deposits: no order without a committed assignment; a final status stays final but for status
  posts; a callback per committed update, to casinos that can be called; every wait ends; a repeated key creates nothing new;
* disputes and traffic: dispute, block and record together or not at all; a blocked provider
  gets no deposits; locks are released; a provider with an
  address is told, in a bounded number of tries;
* hub: events in order and without a gap until a client is cut off; no panic; no publisher
  blocked for ever; no leaked client;
* balances: no negative merchant balance; balance and ledger agree;
* migrations: what serves has every file in effect, and none runs again under it; failed starts
  end in one that serves;
* sessions: one refresh token per login, none after a logout, current claims;
* requisites: a trader with requisites is insured; answered top-ups are in the deposit; daily
  limits are not exceeded.

## 2. Modules

| Module | Models | Extends |
|---|---|---|
| `Deposits` | deposit requests, status updates, webhooks, notifier, expiry job | standard modules, `INSTANCE Lifecycle` |
| `Lifecycle` | what the server promises about a transaction (abstract) | standard modules |
| `Disputes` | disputes, traffic switch, routing, provider notification | `SequencesExt`, `INSTANCE Blocking` |
| `Blocking` | what disputes, traffic and routing promise (abstract) | standard modules |
| `Hub` | the hub, its clients' pumps and its publishers | standard modules, `INSTANCE Broadcast` |
| `Broadcast` | what the hub promises (abstract) | standard modules |
| `Balances` | the two balance services | `SequencesExt` |
| `Migrations` | the start of the process | standard modules |
| `Sessions` | logins and the administration of users | standard modules |
| `Requisites` | traders' requisites, insurance, daily limits, deletion of casinos | `Functions` |
| `Server` | the process: composes the last three | `INSTANCE Migrations, Sessions, Requisites` |
| `MCDeposits`, `MCDisputes`, `MCServer` | values of the constants for TLC | the module they name |
| `DepositsProofs`, `DisputesProofs`, `HubProofs`, `BalancesProofs`, `SessionsProofs`, `RequisitesProofs`, `ServerProofs` (which has those about `Migrations` too) | the theorems | the module they name, `TLAPS` |
| `SumTheorems` | facts about the sum of a function over a finite set | `Functions`, `TLAPS` |

`PROJECT.json` ("map") gives the lines each definition stands for.

### Deposits

`row[r]` is the row that request `r` inserts: its status and four facts about its other
columns (a provider is assigned, the provider's id is saved, it has been paid, it has a
requisite) and its key. `pc[r]` is the statement the request is at; each action is one statement
or one call. `Statement` is an INSERT or UPDATE with its error: a failing one may have
changed the row all the same. Where the code ignores the error (`Cancel`, `SaveOrder`,
`StoreKey`) both outcomes lead on; where it returns it (`Insert`, `Assign`) the request fails.

`worker[w]` is a call of `UpdateStatus`: by a webhook (`Hook`), by a status post of the
provider API or of the sandbox (`Post`), or by the expiry job (`Scheduler`). `Arrive` and
`Lookup` are the webhook handlers, `WriteStatus` the UPDATE, `SpawnNotify` the rest of
`UpdateStatus`, `Notify` the goroutine's call. `batch` holds the ids of the expiry query until
`NextDue` passes each to `UpdateStatus`. `Crash` ends everything under way; the table and what
the providers hold stay.

Choices: `Route` takes any provider or fails (`Disputes` models how it chooses). The provider may or
may not have created an order when its call fails. Webhooks come any number of times, in any order,
once an order exists. A status post asks for any status of any row, at any time: the id is public
since the INSERT, by the hub's event (`service.go:89`), the list of transactions and the audit log,
so a post may come while the request is still routing, or about a row whose request failed.
`NotifyMerchant` sends nothing for a casino without a `webhook_url` or a `secret_key`
(`notifier.go:74-83`), both optional when a casino is created: `Callable` are the requests whose
casino has both whenever it is called back, for the others `Notify` may skip. The expiry query takes
any `BatchLimit` due rows, the code the oldest: the limit matters, the order does not. A deleted
provider shows as a failing `FetchProvider`. No code writes `requisite_id`, so the payer's history
stays empty. Deliveries carry an order id. The answer's requisite, from the provider or from the
fallback query, changes no state and is left out.

`Lifecycle` is what this amounts to for those who see a transaction from outside, without
statements, workers, batches or goroutines: it is created; until it is assigned or refused only its
request touches it and finds it NEW then, unless somebody posted a status for it before; an order is
made for an assigned transaction and linked to it if there is one; a status is written after the
assignment, or at any time by a post; an update of a final status may be told once. `Life` maps the
columns of `row` to `status`, `assigned`, `linked` and `paid`, the transactions of the posts made to
`posted`, the places of `pc` between the INSERT and the end of routing to `routing`, `written` and
`sent` to `updates` and `told`; `FollowsLifecycle` is the refinement.

### Disputes

A `Session` is a database transaction that updates providers: a dispute being filed (by a webhook,
after `CheckOpen`, or by an admin) or a toggle, which names one provider or many. Each statement is
a step: `InsertDispute`, then for each provider `UpdateProvider`, which waits for the lock of its
row, and `RecordTraffic`, the INSERT of its history, then `Commit`; `Turn` is the loop of
`BulkUpdateTraffic`. What a session has written and not committed is in `work`; `Commit` makes it
visible and releases the locks (`End`), whatever it is: that nothing was left out is what
`AllOrNothing` checks. `Rollback` is the deferred one, after any statement. That PostgreSQL shows
what was written at the commit, all at once, and aborts a session of a cycle of waits
(`DeadlockVictim`) is assumed. `Attempt` is one try to tell the provider; none is made when the
provider has no `base_url` (`disputes/service.go:187`), as 911pay in migration 015: `Addressed` are
the providers that have one throughout. `QueryRules` is the rule query with its subquery on
disputes, `ConfirmProvider` the second look. `warned` and `shut` are history: they follow every step
and influence none. The UPDATE of a dispute's status is one step. Messages, history rows, deleted
providers and Telegram are left out.

`Blocking` knows no sessions, locks, victims or goroutines: filing a dispute blocks its provider in
one step, a switch moves all of its providers in one step and once, a deposit is given a provider
that is open at that moment and is routed if the provider is still active, and a provider is told of
a dispute that exists, at most `Limit` times and not after it answered. `Promise` maps the committed
tables to themselves, `route` to `chosen` and `routed`, `notifier` to `attempts` and `answered`;
`KeepsBlocking` is the refinement. A switch does not undo a dispute there either: what `Open` says
of a provider is what the rule query asks.

### Hub and Broadcast

The calls of `Broadcast` are numbered in the order they come to the channel, which serves its
waiting senders in that order; four of them are enough for a blocked hub, a full buffer and a caller
that waits. The select of `Run` takes any ready case (`Register`, `Unregister`, `Take`); the loop
over the clients is one `Offer` per client, since the pumps run in between. `CloseSend` records a
second close as a panic, `Offer` a send on a closed channel. `Broadcast` is the promise: a log of
events, the point at which each client joined, and what it has seen, always the next event. `Promise
== INSTANCE Broadcast WITH Event <- Publisher, from <- joined` is the refinement; `KeepsPromise` is
checked as a property of the hub. `ClientCount`, which only reads, is left out.

### Balances

`SelectBalance` is the read outside the transaction, `CreateBalance` the INSERT of an empty row
after any error of the read, and one action per operation is the database transaction: its
UPDATE holds the row until the commit, so it is atomic, and fails as a whole. `AddMerchant` and
`AddProvider` set the balance to what was read plus the amount; freezing and unfreezing change
it relative to its present value. Amounts are whole minor units.

### Migrations

A start reads the recorded versions (`Boot`), applies the pending files in the order of their
numbers (`Apply`), records each (`Record`), makes sure of a column by hand (`Ensure`) and serves.
Every statement may fail with or without effect and then ends the process, as `log.Fatal` does;
`Stop` ends it anywhere. A file is sent as one simple query, so it takes effect as a whole. "already
exists" counts as applied, as in the code: `Creates` are the files that answer it when they run
twice. Versions 006 and 007 each name two files and `sort.Slice` is not stable, so equal numbers
come in either order. The loop over the versions does not ask `rows.Err()` (`migrations.go:36`): a
query that is cut short leaves some versions out, and the history variable `cut` remembers it.
`Images` are the sets of files that may be deployed, each after any other. What a file does is
abstracted to whether it may run twice. Two processes that start at once are not modelled.

### Sessions

A request is at its next statement; a refresh token is named after the request that issues it, and
`login` names the login it descends from. `Refresh` is `CheckToken`, `FindUser`, `DeleteOld`,
`StoreNext`; the errors of the last two are ignored, as in the code. `Held` are the tokens clients
were given; a client may use one in any number of requests at once, which `loose` remembers.
Administrators change status and role and delete users; an audit log (`audited`) keeps a user's row
from being deleted. `rows` is the history of what a user's row said in the course of a request.
Expiry is left out, since a client may stop using a token at any time; so are administrators' own
sessions. `Elsewhere` is what the other parts of the server do to the state that is shared.

### Requisites

`GetProfile`, `Insert`, `Delete` and `TopUp` are the statements of the trader's calls; `Admitted` is
whom `Auth`, `RequireRoles` and `casinoID` let pass, by the claims of any token ever issued, however
stale. `TopUp` is one UPDATE that adds and activates; the profile is read after it, so a top-up that
counted may be answered with 400 (`merchant/service.go:249`). `Choose` and `Reserve` are
`getAvailableRequisite` and `ReserveRequisiteLimit`, `ResetDailyLimits` the daily reset: no code
calls these three yet. Administrators change, delete and create issued requisites and delete
casinos, whose requisites go with them. A casino with transactions cannot be deleted; the casinos
here have none.

### Server

`Next` is a step of the start, of a login request, of a trader's request, or a stop that cuts off
requests under way in both parts at once. The parts share the table of casinos, the access tokens
and the bounds; requests come from one pool, numbered by their arrival.

## 3. Runs

| Run | Question | Instance | Distinct states |
|---|---|---|---|
| `deposits` | safety of deposits under faults and a crash | 2 requests with one key, both integrations, 1 webhook, 1 of the 2 callable, batch of 1, 1 fault, 1 crash | 2.5 million |
| `deposits_live` | refinement of `Lifecycle`, final statuses, the end of waits, callbacks | 1 request, 1 webhook, 1 post (PAID or NEW), 1 fault, 1 crash | 148 thousand |
| `disputes` | refinement of `Blocking` (routing), blocked providers, deduplication | a webhook and an admin on one transaction, 1 bulk request that enables, 1 routed deposit, no provider with an address, 1 fault | 1.8 million |
| `disputes_live` | atomicity, locks, notification, refinement of `Blocking` (calls) | 1 webhook, 2 bulk requests in opposite orders, 4 attempts, 1 fault, 1 crash | 61 thousand |
| `hub` | refinement of `Broadcast`, panics, blocking, leaks | 2 clients, 4 events, channels of 1 | 195 thousand |
| `balances` | stale reads | 3 calls, 1 merchant, 1 provider, amounts 1 and 2, 1 fault | 640 thousand |
| `server` | starts, logins and trader calls beside administrators | 3 requests, 1 user of 1 trader, 1 issued requisite with a limit of 2, 3 files of which two share a number in 2 images; in the start one failing statement; after it one event: a fault, a change or a stop | 757 thousand |
| `deposits_expiry` | does the job expire waiting deposits only? | violated | |
| `deposits_key` | does a repeated key return the same transaction? | violated | |
| `deposits_cancelled` | is every cancellation reported? | violated | |
| `disputes_twice` | can there be two open disputes? | violated | |
| `disputes_traffic` | does traffic come back? | violated | |

Every bound is a constant of the `.cfg`: `MaxFaults` and `MaxCrashes` bound failing statements and
stops, the sets of requests, hooks, posts, clients, publishers and calls bound what happens at all,
`BatchLimit`, `BroadcastBuffer` and `ClientBuffer` stand for 100, 256 and 256. They are enough for
the hazards: every race here is between two actors (two requests with one key, the job and a
webhook, two sessions, two calls on a balance; the third call of `balances` comes after two that
raced); one fault and one crash reach every error path once, and together the paths that follow a
fault; a limit of one makes the batch and the channels full as soon as a second item comes. In
`deposits` both integrations are needed because they differ in what a late webhook finds. In
`server` three requests are a login and two that rotate, log out or trade against each other, or
three reservations of one limit; two files with one number are what 006 and 007 are; one event at a
time (`MaxEvents`) suffices since each excepted case is named by a history variable. The deadlock
check is off where the system really may stop: all requests answered, no callback pending.

What the runs show. The assignment asks nothing of the row and overwrites a status that was posted
while the request was routing, a PAID one too; where nobody posts it overwrites nothing, since
webhooks and the job know the row only after its assignment. But for that, only a status post that
asks for it reopens a final status. An order is always preceded by its assignment. Callbacks match
committed updates one to one but for faults, crashes and casinos that have no URL or key. A webhook
is lost without a fault only when MajorPay's comes before the order's id is saved, and then the
expiry job ends the wait. A provider that was blocked when routing began and ever since gets no
deposit, and the deadlock of two bulk requests leaves no half-done one, nor does a failing
statement. A provider with an address is told of every dispute on a transaction it knows, unless
something fails. The hub keeps its promise although it drops slow clients. A merchant's balance
never becomes negative, since the value checked is the value written; updates of overlapping calls
may be lost, so ledger and balance agree on unshared accounts only.

Failed starts skip no file but a twin of one that is in effect, and a server that has served never
sees a file run again, unless the versions were cut short. A login has one working refresh token
unless two requests raced with one token or a DELETE failed. A trader's requisite is always insured,
because top-ups only add and the row of a deleted casino refuses the insert.

The five violated runs each refute a sentence of the repository; `PROJECT.json` ("findings")
quotes it: the comment of `expireOldTransactions`, the integration guide on repeated keys and on
blocked traffic, the webhook guide on `CANCELLED`, and the comment on deduplication in
`handleDisputeWebhook`.

### Fairness

Only what the process does by itself is fair (weak fairness per step): handlers that have begun,
sessions, goroutines, the ticking job (`QueryDue`, `NextDue`), and time (`Age`). A crashed process
is restarted, as deployed, and its start goes on by itself (`WF_vars(Start)` in `Server`, for
`ServesAgain`). PostgreSQL aborts a session of a deadlock. Clients, providers, admins,
dashboards and faults owe nothing. In the hub `Run`'s select is fair to its cases (Go chooses
among ready ones at random), and only the reader of a closed connection is sure to fail.

## 4. Proofs

Every proof is for all values of the constants that satisfy the module's named assumption, and for all
bounds. `PROJECT.json` ("theorems") lists them. Each module has one inductive invariant, `IInv`,
with a lemma per action; the temporal step is PTL.

**Deposits** (from `DepositsAssumption` and `SchedulerIsNoDelivery`): `TypeCorrect`,
`OrdersAreAssigned`, `DropsAreEarly`, `NewRowsAreRouted`, `FinalIsFinal`, `SerialRepeats`,
`CallbacksMatchUpdates`, and `DepositsFollowLifecycle`, the refinement of `Lifecycle`. None but the
first is inductive. `FinalStaysFinal` fails in an arbitrary typed state: the request could be at its
assignment while a webhook has settled the row. `IInv` says when that can be: until the request has
committed the assignment or the cancellation its row is missing or NEW unless a post was made for it
(`OwnRow`), and the orders, the expiry query and the workers know only rows that are assigned or
posted for (`Known`, `KnownAfterwards`). `LookupState` adds what a webhook that is still looking has
behind it. Steps of one request share `OwnStep`, steps of workers share `WorkerStep`. Two more
invariants build on `IInv`. `SerialState`: while a request is under way no other with its key is, a
request that ended with a row stored its key, and at most one request of a key has a row; so the
query for the key misses only when there is none. `NotifiedState`: callbacks sent, goroutines
pending and workers between their UPDATE and their goroutine (a finite set) add up to the committed
updates, or to less after a fault or a crash. The refinement needs all of it and `SavesOrders` (who
is about to save an order's id has an order): the UPDATE that assigns asks nothing of the row, and
finds it NEW or posted for because of `OwnRow`; the workers' UPDATE finds a row that is assigned or
posted for because of `KnownAfterwards`, and what may be written there by `Asked`; a callback is one
that is still owed because of `NotifiedState`; transactions stay posted for (`PostedStays`). A step
maps to one abstract action (`InsertMaps`, `PlacingMaps`, `LaterStatementMaps`, `WriteMaps`,
`NotifyMaps`), a post to `Ask`, a crash to `Abandon`, every other step to a stutter.

**Disputes** (from `DisputesAssumption`): `DisputesTypes`, `TracesAreWhole` (`AllOrNothing`),
`RoutingRespectsBlocks` (`BlockedIsNotRouted`), `WebhooksOpenOneDispute` (`NoSecondDispute`),
`HoldersWrite` (`OnlyHolderWrites`), and `DisputesKeepBlocking`, the refinement of `Blocking`. What
a session has written and not committed is, at each place in its request, what the statements before
that place wrote, and it holds the rows it has updated (`WorkInv`, with `OwnWork` per session). So
at the commit every provider has been updated and recorded and the dispute inserted
(`CommitComesLast`). A session that has not ended shows no trace in the tables (`SessionsState`), so
the commit is the only step that leaves one; with `CommitComesLast` the trace is whole. A chosen
provider was eligible after the step that chose it (`ChosenIsNotShut`). A webhook that is `warned`
is at its check or has ended as long as nothing failed (`WarnedState`). `OnlyHolderWrites` is what
makes an UPDATE whose effect shows at the commit the same as one made at its own place: it needs
`LocksHeld` (`SessionsHoldTheirRows`), two-phase locking: a session holds the row of each provider
it has updated until it ends. The refinement maps a commit to `File` or `Switch`
(`CommitIsOneStep`), an attempt to `Tell` (`AttemptTells`), the rule query and the second look to
`Choose` and `Confirm` (`RoutingChooses`), all locking, victims, rollbacks and crashes to stutters;
it needs `TellsAndChoices` (a goroutine that runs belongs to a committed dispute) besides `IInv`.

**Hub** (from `HubAssumption`): `HubTypes`, `HubNeverPanics`, and `HubKeepsPromise`, the refinement
of `Broadcast`. The invariant (`Window`): what a client's peer has got, followed by what its channel
holds, is the part of the log that begins where the client joined; for a client the hub knows it
ends with the log, or one event before its end while that event is still to be offered. `StepsRefine`
maps `Take` to `Publish`, `Register` to `Join`, a successful `Write` to `See`, all else to a stutter.

**Sums** (no assumption). `SumTheorems` proves of `SumFunctionOnSet` of the community modules, which
the specifications use for ledgers, top-ups and reservations, that it is an integer (`SumType`), 0 on
nothing, grows by a new element's value (`SumAdds`), depends on the values only (`SumAgrees`) and is
monotone for values that are not negative (`SumGrows`). The induction over finite sets that this needs
cannot take an operator as parameter here; it is carried out on a least counterexample instead
(`LeastSubset`, from the well-foundedness of inclusion): the sets for which a claim fails are a set, a
least one of them would be one element larger than a set that satisfies the claim.

**Balances** (from `BalancesAssumption`): `BalancesTypes`, `MerchantsStayPositive`, `LedgersAddUp`
(`BooksBalance`). What a call has read of a merchant's row is not negative (`SeenState`), however stale;
what is stored is what was checked. `BooksBalance` is not inductive: `AddMerchant` stores what it read
plus its amount. `Books` adds that on an unshared account at most one call is under way (`OneCall`),
that what it has read is what is there (`ReadsAreFresh`), and that an account without a row has no
ledger (`NewRowsAreEmpty`); `TotalAppends` then says what a new record does to the sum.

**Migrations, Sessions** (from the assumptions of the same names): a recorded number has a
file in effect, and each file of the image is pending or recorded; a login has one token,
counting the one about to be stored, and at most one request that rotates it.

**Requisites** (from `RequisitesAssumption`): a request that is about to insert belongs to an active
trader, and active traders stay insured (`InsuredTraders`). `TopUpsAddUp` (`TopUpsCount`) and
`LimitsHold` (`NeverOverReserved`) rest on a second invariant, `SumsInv`: finitely many requests
have begun, so both sums run over finite sets although the set of requests may be infinite; the
reservations granted are of requests that have ended, whose amounts no longer change; and what is
granted of a requisite since the reset is at most its `used` amount, which the guard of `Reserve`
keeps within the limit. Each statement changes at most one summand, by what it changes the row.

**Server** (from `ServerAssumption`, the parts' assumptions together): `ServerMigrates`,
`ServerAuthenticates` and `ServerTrades` show that the composition implements the specification of
each part: its own steps are steps of the part, the others' are stutters or `Elsewhere`. That logins
issue only well-formed claims, which `Requisites` relies on, comes from the invariant of `Sessions`.
The parts' theorems then hold of the server: `ServedSchemaIsWhole`, `ServedSchemaStays`,
`ServerRotates`, `ServerLogsOut`, `ServerKnowsTokens`, `ServerReadsClaims`, `ServerInsures`,
`ServerCountsTopUps`, `ServerKeepsLimits`, `ServerTypes`.

Only model-checked: the liveness properties (`WaitingEnds`, `UpdateIsReported`, `SessionsEnd`,
`DisputeIsReported`, `BroadcastReturns`, `GoneIsForgotten`, `ServesAgain`), since liveness and ENABLED
are outside what the provers handle. Every invariant and action property of the passing runs is proved.

## 5. Plan

Next: abstract specifications of the ledgers and the logins, with proofs that they are implemented;
the lists and exports of the services, if they come to keep state.

Not modelled, and why: analytics, audit and lists only read or append; creating and editing users,
casinos, providers and rules are single statements on rows nobody uses at the time; the sandbox
generators call the modelled operations on random data, and the seeding command runs alone; the
API key and idempotency middleware have no router; the rate limiter's map only grows; payer
affinity never applies, because no code writes `requisite_id`; the HTTP clients, signatures,
encryption, configuration, Telegram and Redis are I/O or data; the dashboard, the containers and the
two Python scripts are outside the server; floating point amounts (`int(amount * 100)`) are outside
TLA+'s integers.
