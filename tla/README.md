# CryptoMonitor in TLA+

CryptoMonitor compares order books and 24-hour turnovers of crypto exchanges. A
Laravel API (`backend-api`) serves a Vue console (`frontend-web`) and stores users,
permissions and quotations in MySQL and Redis; a second Laravel application (`tool`)
runs the collectors, the queue consumers and the turnover round that fill those
stores. Go programs outside the repository (`market_change_to_redis_v2`,
`diff_to_redis`) publish what some of the readers consume.

This directory models the parts in which several processes decide on shared state:
who may change whose permissions, which login tokens are still accepted, which
turnover snapshots the console may read, whose permissions a tab of the console shows, and what becomes
of an order book on its way from an exchange into Redis and from there into the rows the console compares.

Contents: 1 inventory, 2 modules and code, 3 runs, bounds and fairness, 4 proofs,
5 what the work found, 6 what is not modelled, 7 plan.

## 1. Inventory

Paths are relative to `src/`. "Hard" names the behaviour a test hardly reaches.

| Component | State | Operations | Talks to | Hard | Correct when |
|---|---|---|---|---|---|
| permission service (`backend-api/app/Services/PermissionService.php`) | `user_permissions`, `permission_change_logs`, row locks of `users` | `normalizeRequestedPermissions`, `savePermissions` | MySQL, `Users::clearToken` | two saves that lock each other's rows; a check made before the lock; failure after the commit | grants closed under dependencies, audit log complete, only the root moves `permissions.manage`, requests end |
| permission administration API (`PermissionController.php`) | none | `update`; listings, details, logs | permission service | the middleware's check is stale when the save runs | as above |
| login tokens (`Model/Users.php`, `LoginController.php`, `Middleware/CheckApi.php`) | `user_token_<id>` and one key named by each token, in Redis | `setToken`, `checkToken`, `clearToken`, `login` | Redis | four commands without MULTI, two logins of one user, a clear in between | an accepted token expires; a token reported ended stays ended |
| account administration (`UserController.php`) | `users` | `logout`, `setClearToken`, `editUser`, `updateProfile`; renewals, remarks, `createUser`, filters | login tokens, permissions | database first, token second; login in between | as above; the root's session is its own |
| market volume snapshots (`tool/app/Service/MarketVolume`) | marker, tmp hashes and stable hashes in one KeyDB database | `ensureNamespace`, `publish` | exchanges, KeyDB | read, compare, write in separate commands; key expiry; killed process | foreign data untouched; a snapshot is replaced only by a later, large enough one |
| market volume round (`tool/scripts/update_market_volume.sh`) | lock file, `PIDS` | start, wait, stop | flock, timeout, artisan | signal between fork and tracking; SIGKILL of the shell; a hanging child | one process per platform, lock comes free, no child is left |
| market volume providers | none | fetch one exchange | exchange APIs | | only valid maps leave an adapter |
| market volume freshness (`MarketVolumeFreshness.php`) | none | age and threshold check | stable hashes | expiry at the boundary | stale or malformed data are not shown |
| market change generations (`MarketChangeRedisGenerationService.php`) | none of its own; pointer, meta, index and details in DB9 | read one generation | external Go publisher | the generation changes or expires between two reads | an answer never mixes generations |
| quotation API (`QuotationController.php`, `MarketDepthV2Controller.php`) | none | queries | MySQL, Redis, generations | | filters as requested |
| device login audit (`DeviceLoginService.php`) | device rows, alert cool-down | register a login | MySQL, mail | two accounts on one new device at a time | one alert per cool-down |
| service restarts (`SettingController.php`, `tool/scripts/restart_system.sh`) | restart flag and platform queue in DB0 | request, poll, restart | Redis, supervisor | flag reset before or after the restart; a request meanwhile | no request is lost |
| spot listing discovery | rows of listings | classify, format | external writers | | each listing in one class |
| depth key queue (`tool/app/Console/Commands/consumer`) | a list in DB9; `market_depth_diff` | fill up to a mark, pop batches, read books, write rows | Redis DB3 and DB9, MySQL | LLEN before the pushes; batches popped from both ends; the two keys of a row in different batches; a late consumer over a newer row | the list is bounded, no item starves, rows follow the books |
| depth updates (`UpdateMarketDepth.php`) | prices of five minutes in DB4, `market_depth` | window, debounce | Redis, MySQL | cached price stale when used | table follows the books |
| websocket collectors (`tool/app/python`: `bybit.py`, `bitget.py`, `bitmart.py`, `okex.py`, `gate.py`, `huobi.py`, `mec.py`, `kucoin/kucoin.py`, `biance.py`) | a connection, a pipeline of commands, markets wanted and refused; books in DB3 | connect, subscribe, ask again, store, flush, ping, give up | exchanges, Redis, supervisor | a heartbeat thread beside the callbacks; `execute()` that fails half way; a link that is open and dead; a batch refused because of one market | Redis only moves forward; links do not mix; a dead link is left; every known market is served |
| BigONE books (`bigone.py`) | as above, with local books and marks for gaps | apply snapshot or increment, ask again | as above | an increment lost, doubled or overtaken by the snapshot it was asked for | a local book is one the exchange had |
| direct collectors (`lbank.py`, `hotcoin.py`, `aex.py`, `coinex/coinex.py`) | a connection | subscribe, store at once | as above | | as above |
| collector watchdog (`system_check.py`) | none | restart by platform | Redis, supervisor | | |
| earlier collector scripts; trials and vendored Python | | | | | |
| authentication bootstrap (`frontend-web/src/store`, `permission.js`, `utils/request.js`) | cookie common to all tabs; token, permissions, generation, routes and router of one tab | guard, login, `getInfo`, `generateRoutes`, logout, reset, re-authentication | API, other tabs through the cookie | bootstraps that overlap; an answer to an ended session; a login while an earlier session's routes are there | one answer behind permissions, menu and router; no session comes back; a login puts newer permissions in force |
| polling guards (`serialPoller.js`, `latestRequest.js`, `interval.js`) | timer, generation, pending round; request ids | start, stop, refresh | pages | stop and start while a callback runs; a round of an old generation ends | one round at a time, polling never stranded, late answers dropped |
| listings page (`views/quotation/listings.vue`, `utils/spotListingDiscovery.js`) | flags of view, login and manual refresh, two pollers; operations, clock and selection; the drawer of an announcement | mount, visibility, right to view, expiry, refresh, tick, select, open and close an announcement, destroy | pollers, API | events in any order while rounds are under way; answers, ticks and the user all set the selection; an announcement answered late | polls exactly while it may; a manual refresh ends, by its own rounds, and calibrates the clock; radar and drawer show what they should |
| other pages | view state | | API | | |

`PROJECT.json` lists the hazards of these components with their lines and the
properties that cover them, or the reason none does yet.

## 2. Modules and the code they model

```
PermissionCatalog --- PermissionRules --+-- PermissionRegister  (abstract)
  |                                     +-- PermissionService --- implements Register
PermissionNormalization                        |
                        LoginTokens --------- AccountSessions
MarketVolumeBoard (abstract) --- MarketVolumeStore --- MarketVolumeRound --- implements Board

AuthBootstrap

SerialPoller (operators) --- ListingsPolling --- ListingsPage

CollectorProfiles (data) --- DepthCollector --- BigoneCollector

DepthQueue
```

**PermissionCatalog** is the pure part: dependency and dependent closure as least closed
sets, `Normalize`, the difference and whether it is sensitive. The catalog
(`config/permissions.php`) is a constant with the one fact the code checks at each
save: dependencies are catalog codes. Cycles are allowed, as in the code.
`Codes` may be larger than `Catalog`: a row may carry a code the catalog has dropped.
Such a code is revoked by the next save whatever it asks for, since the
normal form holds catalog codes only.

**PermissionNormalization** models the two recursive walks as the PHP code writes them: a call is a frame with its code and what its
`foreach` has still to visit, and `$visited`, an array each call hands down by value, is the codes of the frames on the stack. A code that is not on
the present path is walked again, as in the code. The order of the loops is arbitrary. The module compares the result with the
closures above, and is the reason the other modules may use the closures.

**PermissionRules** holds the rules on an outcome (`assertManageChangeAllowed`, the root
rule), the audit entries and the seed. **PermissionRegister** is the promise: an
indivisible `Save`. **PermissionService** is the code: `Begin` (middleware and
controller), `LockRow` in ascending id, `Authorize`/`Deny` under the locks,
`ReadCurrent`, `Reject`/`Commit`, `ClearToken`, `Respond`, and `Fail` at any of them.
`grants`, `audit` and `users` are the committed tables, `lockOwner` the InnoDB row locks,
`pc`, `req` and `current` the variables of a PHP worker. All writes of a transaction appear at
its commit, which is what readers see under the isolation levels MySQL offers except
READ UNCOMMITTED. `audit` counts from the end of the deployment's seed script, which
writes `grant` rows of its own. No endpoint deletes a user; `DeleteUser` comes from the
`ON DELETE CASCADE` of the schema and from `lockSaveUsers`, which has a branch for it.

**LoginTokens** has the two key families as functions (`userToken`, `tokenUser`) with the sets
of keys that carry an expiry, and `setToken` as the four Redis commands it is. A login
first checks credentials and status (`mayLogin`); a ban that falls between that check and the
SET is therefore possible and is kept. Tokens are assumed unique (md5 of id, time and
`mt_rand`).

**AccountSessions** runs both together with the requests of `UserController` that end
sessions. A request records in `doomed` the token its target had when its change took
effect; a response moves it to `ended`. `outdated` and `lastAcked` record the same for
sensitive saves. These four are history variables: no guard reads them.

**MarketVolumeStore** is `market-volume:sync` with one step per KeyDB command or MULTI block:
opening the database (GET, DBSIZE, GET, SET NX, GET), fetching, the size guard (HLEN, HGET),
staging, RENAME. A snapshot is its fetch time and its number of symbols. **MarketVolumeRound** is the
shell script around it: flock, fork, tracking, wait, traps, SIGKILL. **MarketVolumeBoard** is
what readers are promised.

**AuthBootstrap** is one tab of the console. `token`, `generation`, `info` and `routes` are the
Vuex state of `user` and `permission`, `matcher` the router's dynamic routes; an answer of
`getInfo` is the account it is for and the version of its permissions, and the menu is the
answer it was filtered from. A handler is one step with all the awaits on promises
that are already resolved, since nothing else runs before such a chain ends: `InfoAnswered` is the commit of
`getInfo`, `generateRoutes`, `addRoutes` and the repeated navigation. The comparisons of generation and token that
`generateRoutes` and the guard make after the one in `getInfo` are in that chain and cannot come out
differently. Requests are records in `infoCalls`, `logoutCalls` and `loginCalls`; the backend
serves them in steps of their own, in any order, and an answer can be lost. The generation and the token a
record holds are those the code captures before its await. The store's token and the
cookie are two things: the interceptor sends the cookie, and only if the store has a token.
The backend here is what a tab can see of `LoginTokens`: a login replaces the account's token, a logout, a
sensitive save or an expiry ends it. Other tabs log in and remove the cookie at any time.

**SerialPoller** has the closure of `createSerialPoller` as a record and each of its functions as an operator from
record to record; between a call of `execute` and the callback's first await nothing else runs, so
each is one step. `timer` holds the generation its closure captured. `rounds` are the callbacks under way, kept apart
from the flag `running` that the code decides by. **ListingsPolling** is the page with one such poller for each
part: the events that call `syncPolling`, `stopPolling` and `refresh`, the timers, and the
ends of rounds, which take as long as they like. A round carries the value of `manualPending` it read when it
began. The data of a round decide nothing about the next, so they are left to the module after this one.

**ListingsPage** adds what the rounds bring. `radar` holds the operations of the last answer, the time the page shows and the selection with
its lock; an operation is its stage, its planned start and the latest of its times, which is what the choice of the code looks
at. `DefaultOperation` is that choice: the next to start, else the last that has started within the grace period, else the newest that has
begun to trade. `Ticked` is the clock's tick and `Reconciled` what an answer does to the selection. The server's own choice is left out:
`activeMissionKey` returns it only where it equals the page's. The page's clock is the computer's plus
an offset, and both are set at will, so a tick may show any time, an earlier one too. `clock` has `calibrationRequested` and what the round under way has read of it. `owed` is
a history variable: a manual refresh sets it and an answer that moves the clock clears it. `drawer` is the announcement's drawer with its request number; `opened`,
the id it was opened with last, is a history variable too. `el-drawer` reports `closed` at the end of its animation (`leaving`), and not if it is opened again before. Every action of the polling page is one of
this module with what it does to the clock, and `PageRunsThePollers` (section 4) says so.

**CollectorProfiles** and **DepthCollector** model fourteen scripts at once. They were written from one skeleton and
differ in what a frame must hold, how the buffer is written, what the heartbeat looks for, and what becomes of a
refused market; a profile is a record of these four, taken from the functions of its file, and `prof` chooses one.
A callback is one step, since one thread runs them all; the heartbeat thread is another process (`hb`). A frame is a
number, and `store` is the number last written to each key, so "older" has a meaning. `execute()` writes some first
part of its commands and leaves the pipeline empty, whether it fails or not: that is what `redis-py` does. The exchange answers
requests in their order, and frames of one link arrive in order. The TTL of the keys is left out: a key that expires hides a
number and brings back none. `silent` is a link with nobody at the other end; `quiet` says that a minute has passed
without what the heartbeat waits for. Callbacks last less than that minute. After `_stop_hb` the thread notices within the two
seconds before the next connection, unless it is inside `ws.close()`, which may take three: `Connect` finds it ended or `closing`.

A request for markets is a record in `asked` and is *accepted* or *refused*. Any request may be refused for a reason that has nothing to do with its
markets (rate control, an internal error): every collector logs that or does not look at it (`LogRefusal`: `kucoin.py:420-421`, `bybit.py:205`, `okex.py:143-146`,
`bitget.py:226-229`, `bitmart.py:297-299`, `bigone.py:260-264`, `mec.py:357-363`) and the markets stay without frames while the link is open. A request with an unknown
market is accepted for the rest by the exchanges that ignore it, MEXC answers with the markets that are "Not Subscribed" (`Drop`), and KuCoin refuses it as a whole
with code 400 (`Refuse`). What KuCoin's worker does then depends on the *text* of the error: if it names one market, that is blacklisted, whatever was asked for (`Blacklist`,
`kucoin.py:414-417`); otherwise the batch found under the error's id in `_sub_pending` is asked for one by one (`TakeApart`, `:264-331`); the one-by-one requests have ids that are not in it.
`Named` is what a text may name. Two assumptions about it are kept apart by the field `exact` of a profile. Exact texts of MEXC name what was refused, and exact texts of KuCoin
do not name a single market when the request had others. `Inexact` texts name any of the request's markets, or none: the comment at `kucoin.py:315` reckons with that, and the profiles
`Inexact(Kucoin)` and `Inexact(Mexc)` are among those considered. Assumed of either kind: KuCoin sends the error about a topic (400) only for a request with a market it does not know, and with the request's id.
`lost` is a history variable: the known markets of requests refused over the present link that the worker does not ask for again. The limit `max_once` of
`_drain_single_subscribe` is the constant `MaxOnce`; `DrainAssumption` says that it is not reached, so a drain ends with an empty queue or a broken link and no counter is needed: a worker has at most 120 markets against 300, a drain empties what
it was called with, and what a broken link leaves is bounded by `MaxRetry`. Only links that break twice in a row in the middle of long drains could leave more; that is outside the bound.

**BigoneCollector** adds BigONE's local books and the exchange's own: `log` is the sequence of its changes, `RealBook(m, c)`
the book after change `c`. It may send the increment of a change or leave it out. The heartbeat copies `need_resub`, and for each market sends the request first and
removes the mark second, with the callbacks of the other thread in between. All fourteen collectors run under its
`BooksNext`; for thirteen of them the books stay empty. The lists of a worker keep their order when entries are taken out (`Filtered`), as Python's
comprehensions do.

**DepthQueue** is the list between distributor and consumers, with `kind` one of the three pairs. LPUSHes of a pipeline are single
steps (a pipeline is not a transaction), and so are the GETs of a batch. A book is a number, a row holds the numbers of the two books its prices come from.
The distributor's array has every item once, in an order the code does not determine (its query has no ORDER BY); which order it is does not change while it runs.
A distributor that is killed stops between two pushes, and nothing of its pipeline arrives after the DEL of the next one.
A batch is written row by row; the code writes up to `update_batch` rows with one statement.
A row is skipped if a book is missing *or has no level that counts* (`Complete`): within the levels looked at there must be one with a price and an amount, worth at least
85 USDT for the pair with row ids (`DepthConsumer.php:18`, `:201-203`) and 1 USDT for the pair with keys (`DepthKeyConsumer.php:21`, `:276`); the minimum of the pair with symbols is 0 (`DepthSymbolConsumer.php:23`).
`thin` holds, for each consumer, the keys whose book has no such level: each new book may be thin, and with the two minima also for some consumers only, because a process reads the rate of a
quote to USDT once (`$mulCache`, `DepthConsumer.php:30`, `DepthKeyConsumer.php:102`) and its successor reads it anew. The pair with symbols reads rates for each batch and has no minimum they could matter to. What a consumer has read of a
thin book is in `poor`; it is not read a second time, as a missing one is.

The operators named as mutants stand beside the operator they alter and are used by
no specification; each is a plausible mistake in that operator.

## 3. Runs

| Run | Bounds | Shows |
|---|---|---|
| `normalization` | every catalog over three codes, cyclic ones included, every held and requested set | the recursion is no deeper than the catalog; the walks compute `Normalize` in any loop order; a removed code stays removed |
| `permission_service` | root, administrator, member; two workers; two saves of four possible requests; grants that include a dropped code | isolation, the invariants on grants and log; saves finish; the service implements the register |
| `account_sessions` | root and one user; one save, one `UserController` request, two logins, two tokens | an acknowledged end is final; accepted tokens expire; the root's session is its own |
| `forced_logout_retry` | one user besides the root, two saves | refutes a sentence of the design, section 5 |
| `volume_round` | two rounds, two platforms, two processes, two fetches, snapshots of 1 and 3 symbols | the store under its lock is the board; lock comes free |
| `volume_detached` | one round | refutes a comment of the script, section 5 |
| `auth_bootstrap` | one account, three tokens, four `getInfo` or logout requests, one change of permissions | no parts of two sessions in a tab; an ended one stays ended |
| `listings_page` | two pollers, two operations and two announcements; three kinds of behaviour: six starts and stops of a poller with one answer; three of them with five different answers and three times of the clock; two of them with three openings of the drawer. Any number of rounds and refreshes | one round at a time; no poller stranded; a quiet page is quiet; a manual refresh ends, and is not left without its calibration; radar and drawer show what they should |
| `collectors` | fourteen collectors, KuCoin and MEXC also with inexact texts; three markets, the middle one unknown to the exchange, in requests of two; a buffer of four commands, two frames, two changes of a book | buffers bounded; Redis only moves forward; links do not mix; BigONE's books are real; a market is given up only with a refusal that is logged or names it, and with exact texts by name only if the exchange does not know it; dead links are left; all other known markets are served |
| `quiet_buffer` | the same, MEXC only | refutes a comment of the collector, section 5 |
| `depth_queue` | three pairs; two consumers; one row of two keys and two symbols; a list of two, chunks and batches of two; one book that moves, gets thin and expires; one killed process | the list keeps its mark; no item starves; rows catch up when their books stay and count |
| `auth_relogin` | two tokens, three requests | refutes a sentence of the design, section 5 |

Why these are enough to be interesting. Two workers and three users are the fewest with
which two saves lock the same two rows in opposite roles and a third row is a bystander; the theorems of section 4 hold for any number of saves. Two logins of one user overlap with each
other and with a forced logout; the rest is again proved for any number. Two rounds make a child of a killed round meet the next one;
sizes 1 and 3 with a ratio of 50 % are accepted upwards and refused downwards; the database
starts fresh, marked, or foreign. Two overlapping bootstraps tell apart generations, but the
comparison of *tokens* matters only when two logouts are answered across a login, which takes
three tokens and four requests: fewer would let a bootstrap that compares the generation alone pass. Mutated forms of the code's operators violate each
property within these bounds, so no bound hides the case a property is about.
Three markets in requests of two put the unknown one beside a known one, and leave a request without
it; a buffer of four commands takes two frames with both sides and is written by the second, by time, or when the
link closes. Two changes of a book are the fewest with one that does not follow. One row with two symbols has a symbol for each side, hence two items of which a batch may hold one; a list
of two is full when both are in it.
Deadlock is not an error in the runs that count requests: with the bound reached and
every worker idle, nothing is left to do. The tab can always do something, so its runs check deadlock too. A listings page
that is destroyed has come to its end.
The five answers of the listings page have a tie of two starts, an operation that trades beside one to come, two that trade, of which one is the
newer and the other the later, and none to show; three times with a grace of one and a history of two put each of them before, in and after its window. The three kinds of
behaviour are the choice of `bounds` in `MCListings`: data and drawer only ever follow the pollers, so many switches need not be combined with many answers. What the bounds cut off are switches, answers, ticks
and openings, never a step that fairness speaks of, since a round may still end without an answer.

**Fairness.** `FairSpec` has weak fairness of a running request's own steps (PHP runs
on until it ends) and strong fairness of `LockRow`: a waiting request sees its row free
again and again, and InnoDB serves waiters in order. It has none of `Begin`, none of
`Fail`, so termination does not rest on lock wait timeouts; it rests on the
ascending order of locks, and the mutant without it deadlocks. `RoundFairSpec` has weak fairness
of the shell's steps, of a child's end after its last command, of `timeout -k` and of
expiry. It has none of `Fetch` or of any other command to an exchange or to KeyDB: the
lock comes free because a hanging child is killed.

`PageFairness` has weak fairness of every timer (`setTimeout` fires) and of the end of a round (the HTTP client
aborts a request after five seconds); none of the user's events. `ManualRefreshEnds` promises nothing for a page that is hidden
before the refresh has ended, only that it goes on to its end once the page is back.

`BooksFairness` has weak fairness of the worker's loop and of the heartbeat thread (threads run), of a minute that passes on a
silent link, and of the exchange's answer, be it an acceptance or a refusal, to a request on a link that is up. It has none of frames, of failures or of restarts.
`KnownMarketsServed` speaks of links that stay up, and no fairness makes one stay; nor does any make the exchange accept: what it promises of a market is that, on such a link, it ends up
subscribed unless its request was refused and only logged (`lost`) or a refusal named it (`TakenOff`). A market of a batch that was taken apart is neither. The distributor and each consumer of `DepthQueue`
have weak fairness: they are loops that sleep for milliseconds. Processes end at most `MaxDeaths` times, since without such a
bound a consumer could be killed before each write.

## 4. Proofs

Checked by TLAPS for every value of the constants that the named assumptions
allow (`CatalogCodesAssumption`, `CatalogAssumption`, `UsersAssumption`, `SeedAssumption`, `SaversAssumption`, `BoardAssumption`,
`StoreAssumption`, `RoundAssumption`, `BootstrapAssumption`, `PollerAssumption`, `PollingAssumption`, `PageAssumption`,
`TokensAssumption`, `SessionsAssumption`, `CollectorAssumption`, `DrainAssumption`, `BookAssumption`, `QueueAssumption`). They say what the constants are and no more than
the code ensures: catalogs and the PHP workers of a server are finite, the page has polling parts, and a distributor that finds no rows ends at once.

**PermissionNormalizationProofs.** What a recursive function computes is out of reach for the provers as long as it is a recursive definition. As a call stack it is an invariant, and induction over
steps takes the place of induction over data. `StackInv` says that the calls in progress are for different codes; the map from depth to code is then an injection into the catalog,
which bounds the stack (`WalksAreBounded`). `WalkInv` says that there is a set the walks of the present loop have reached: it holds the codes on the stack and every code the loop has
begun with, no closed set around those is without it, the working copy is what this set makes of it, and each neighbour of a code in it is in it too, or a call on the stack has still to visit it.
A call that stops at a visited code loses nothing, because the call that visited it is under way and will go through all its neighbours. With the stack empty and nothing pending
the set is closed, hence the closure (`WalksComputeNormalForm`). For the second loop, and for `RemovedCodesStayOut`, one needs that the codes outside the removed set are closed under dependencies.

**PermissionServiceProofs**, on the catalog: `NormalFormClosed`: closures are intersections of closed sets, hence
closed; removing a dependent-closed set keeps the rest dependency closed.
`RemovedStaysRemoved` and `ClosedRequestIsSavedVerbatim` follow. The last one is the exact
extent to which a save can be repeated: a request that is not closed is not idempotent. `PUT
{edit}` by a user who holds nothing yields `{view, edit}`; the same `PUT {edit}` again now
leaves out a held `view`, which removes both.

**PermissionServiceProofs**, on the service: the inductive invariant is `TypeOK` with `Isolation`, that
is `RowsHeld` and `SnapshotCurrent` for each worker. `Isolation` is what no single step shows: that nobody
else commits to the target, deletes a row or takes the actor's grant between a request's read
and its commit. It needs the locks on *both* rows: with the target's only, a save on the actor
may take its `permissions.manage` meanwhile. With it, `Commit` maps to the register's `Save` and
every other step to a stutter (`DeleteUser` to itself): `ServiceImplementsRegister`. `GrantsStayClosed`,
`RootStaysAdministrator`, `ManageMovesOnlyByRoot` and `AuditIsComplete` are proved on the service
itself: a commit writes the normal form of what was read, and by `Isolation` that is still what
the table holds. The seed must satisfy them (`SeedAssumption`).

`NoCircularWait` is what the absence of deadlock rests on: `LocksAscend` says that a request that holds a row has locked all its smaller rows, so what it still waits for is greater than what it holds. Of a set of requests that all wait for each other
the one that waits for the greatest row waits for nobody in the set; that there is a greatest row takes finitely many workers. `WaitsNeverClose` is the safety half of `SavesFinish`.

**MarketVolumeProofs.** `OnePublisher` needs to know who holds the lock file: a live process
is a holder, the runner holds while it is present, and platforms already started are not
in `todo` (`LockInv`). `RoundImplementsBoard` adds what a process knows about the stable key it is about
to replace (`BoardInv`): because it is alone on its platform, between its HLEN and its RENAME
the key can only expire, so the accepted snapshot is still large enough and later.
`NamespaceInv` says which openings are possible in a foreign
and in our own database; `ForeignDataSafe` and `OpeningNeverRefused` are its two halves. `TtlInv` says that a
tmp hash that was found complete is there until its RENAME; `FailedRoundsAgeSnapshots` follows.

**AuthBootstrapProofs.** The inductive invariant `BInv` adds to the two properties that no two
requests of `getInfo` carry one generation and none a newer one than the tab's, that a request
without a stored token has sent none and only one that sent a token is answered (`CallsInv`), that
accepted tokens have been issued (`IssuedInv`), and that a bootstrap of the
present generation finds no routes (`FreshInv`). The last part is why one comparison suffices
for `addRoutes` too: whatever puts routes in force has used up the only request that could pass the
comparison, and whatever starts another has found the routes empty.

**ListingsPageProofs.** One lemma for each function of a poller says what it makes of a poller that satisfies
`PollerInv`: `running` holds exactly while a round is under way, at most one is, a timer is set only when
none is and then for the present generation, an active poller without a round has such a timer. `EndedInv` is the one
that matters: a round of an old generation finds the poller active and begins the next round itself.
The page's invariant adds that activity is `Pollable` and that a marked round has its part pending.
`PageRunsThePollers` carries all of that over to the page with its data. `RadarInv` says that an unlocked selection is the default for the operations and the time shown, or is not
listed (after a terminal selection without a next mission it is empty), in which case the page shows the default by itself; a locked one is listed. `DefaultIsListed`, which the type invariant rests on, says that the default is a listed operation or none: a least start, or a newest
operation, exists because a set of naturals has a least element. `DrawerInv` says that no request has a newer number than the drawer, and that the one with the drawer's
number asks for `opened` and finds it loading: that is why comparing numbers is enough, also for a drawer that was opened again while it closed. That a calibration is not lost is inductive as it stands.
`RefreshNeverWaits` is the safety half of `ManualRefreshEnds`: a part that an active page's refresh waits for has a marked round under way, or `pendingImmediate` is set, so that the next round
begins the moment this one ends, and is marked. One lemma for each function of a poller says that it keeps a pending part served (`Served`); a stop drops `pendingImmediate`, and the start after it serves the part anew.

**AccountSessionsProofs.** `SessionsRunTheService` carries the theorems on the service over. `TokensInv` describes each of the four
commands of a login: a key without expiry belongs to a login that is just about to set it. `DoomInv` says that a
token doomed by a change is either gone from its user or about to be deleted by the request that doomed it, and that no login can bring
it back, because a login only ever writes its own token (`OldTokensOnlyGo`). `EndedSessionsStayEnded` and `RootEndsItsOwn` follow, for any
number of logins, saves, requests and deaths.

**BigoneCollectorProofs.** `BufferInv` relates the pipeline to Redis: no queued command is older than what is stored under its key,
none is older than the link unless the collector keeps its buffer, and `pipe_cnt` counts them. A failed `execute()` keeps that because it empties the pipeline. `BookInv` says of every message on the way, and of every local book, that it is true of the exchange's `log`; the heart is
`ApplyIsReal`: an increment whose `prevId` is the book's change makes of it the exchange's next book, because no change of that market lies
between the two. Later changes leave earlier books as they were (`RealBookStays`).
`RequestInv` is about the markets a worker has in hand. Where a market is moves between `todo`, `asked`, `retry` and `subs`, each by another callback, and leaves them only into `lost` or off the list; `AnswerTo` says so of each outcome of a request.
`NoMarketForgotten` is inductive only with the types of the lists, since both a new link and a retry leave out what is blacklisted, and with the facts that the batches of `Requests` together are the list (`RequestsFacts`, integer division included) and that `Filtered` keeps
exactly what it should (`FilteredFacts`). `LinksAreWatched` is the safety half of `SilentLinksAreLeft` for the collectors that start a thread with each link: `Connect` waits for the old thread, and only the end of a link sets the stop event, so the
thread of an open link is alive and has not been told to stop.

**DepthQueueProofs.** `ListStaysBelowHigh` rests on `LengthInv`: the list's length and what the distributor has yet to push are together at most `High`. The room was
computed from an LLEN that is older than the push, but only the distributor adds to its list, so since then the list has become no longer. That is also what a second
distributor on one list would break. `ItemsOnceEach` says that the array it goes round has each item once: the items are the image of the finite set of rows, and the array an injective enumeration of that image. `QueueTyping` rests on it, `$idx` above all: it never leaves the array although the
process ends and starts again between any two pushes.

The type invariants of the service, the sessions, the round, the tab, the listings page, the collectors and the queue are theorems only; a run adds nothing to them. So are `NoCircularWait`,
`RefreshIsInHand` and `OpenLinksAreWatched`, the safety halves of three liveness properties that runs check.

**Only model-checked.** `SavesFinish`, `LockIsReleased`, `ManualRefreshEnds`, `SilentLinksAreLeft`, `KnownMarketsServed`, `ItemsAreTaken` and
`RowsCatchUp`: liveness under fairness is beyond the prover. The refuted properties of section 5 have no theorem by their nature. Every other property of a run is a theorem.

## 5. What the work found

*A repeated save does not end a session that the first attempt left alive.* The token is
cleared after the commit (`PermissionService.php:112-114`) and only if this request's own
difference is sensitive. If Redis fails or the worker dies in between, the client's retry finds
no difference, clears nothing and is answered with success. The design promises that a sensitive
change ends the sessions. Run `forced_logout_retry`; authorisation itself reads the table at
each request, so no right survives.

*A child can be left behind.* Between the fork of a child and `PIDS+=` a trap can run;
`handle_signal` stops the members of `PIDS` and exits. Run `volume_detached`. The inherited lock
descriptor keeps the next round away from that child (`OneProcessPerPlatform`), so the effect is a
round skipped, not two publishers.

*A login does not always put changed permissions in force.* `login` stores the token and leaves the
permissions and routes of an earlier session alone (`store/modules/user.js:66`); the guard takes existing
routes for a finished bootstrap (`permission.js:29-32`). The design says that a display permission is in
force after a reload *or a new login*. Run `auth_relogin`: the form is submitted again while the bootstrap of the
first login is under way, and its old answer arrives before the second login does. Another tab that removes
the cookie leads to the same state with one login at a time. The backend checks each request by itself, so the
console shows the wrong menu and no more.

*The time threshold of a collector's buffer does not run by time.* It is compared when a depth frame arrives (`mec.py:215-220`, `:332`), so the
last commands before a quiet minute wait for the next frame, or for the end of the link, and get a full TTL then. The comment at `mec.py:64` says that
the threshold is there so that nothing stays unwritten when frames are rare or something goes wrong. Run `quiet_buffer`. The other buffered collectors
that have the threshold decide alike.

Observations that are no findings:

- The answer to a logout clears tab and cookie also if the user has logged in again meanwhile; the later
  session is then lost in the browser, completely (`LoggedOutTabIsEmpty`), and goes on at the backend until it expires.
- A tab loaded without a cookie that finds one later, because another tab has logged in, sends `getInfo` without X-Token
  (`utils/request.js:61`), is answered with 50008, and its reset removes the other tab's cookie.
- `EXPIRE` is queued after `RENAME` in one MULTI, and an error of RENAME does not keep it from running. Were the tmp
  hash to vanish between HLEN and RENAME, a failed publication would renew the old snapshot's TTL,
  against `config/market_volume.php:29-30`. The script's 130 seconds for a child against 600
  for a tmp hash exclude it (`StagingAbandoned`); run by hand without timeout, nothing does.
- A process stopped by `timeout` between EXEC and its exit is reported as failed although its
  snapshot is published.
- The child of the stagger `sleep` inherits the lock descriptor too and holds it for up to
  its delay after a SIGKILL of the shell. The model leaves that process out.
- KuCoin starts no heartbeat while the old thread lives (`kucoin/kucoin.py:209`), and after a dead link that thread may still be in `ws.close()`: the new
  link then has no pings and nobody who watches it. `SilentLinksAreLeft` leaves KuCoin out for that reason.
- An error that names one market of a KuCoin batch blacklists that market, in Redis too, even if the exchange knows it, and the rest of the batch is not asked for again while the link is open. The comment at `kucoin.py:414`
  takes one name for a sign that the market was asked for alone; the one at `:315` says that the text may be incomplete. `OnlyUnknownDropped` needs exact texts for that reason: without its premise `Inexact(Kucoin)` violates it at the first refusal.
- No collector repeats a request that was refused without a list of markets; those markets come back with the next link. `NoMarketForgotten` and `KnownMarketsServed` except them by `lost`.
- With row ids a row keeps earlier prices, however old, while one of its books has no level worth 85 USDT; nothing marks it as old. `RowsCatchUp` speaks of books that count.
- OKX, Gate, Huobi and MEXC never look for a dead link; only the watchdog notices, by the expiry of one key.
- A gap that BigONE's callback marks between the heartbeat's request and its `discard` loses its mark. The next increment of the market marks it again.
- The Binance worker makes a new stream manager at each reconnection and never stops the old one, although its docstring (`biance.py:62-65`) speaks of one manager for each worker.
- `df_new.py` compares prices as text with prices as numbers, so levels of its snapshot are never removed; the script is not run by supervisor's present configuration.
- The low water mark of the distributors has no effect: `min($need, $chunk)` is the same on both sides of it, while the comment in `DepthDistributor.php:61-62` describes two speeds.
- The two prices of a row can be of different instants: the GETs of a batch are a pipeline, not a transaction. A consumer that is late puts older prices over newer ones; the row is right again after the next pass (`RowsCatchUp`).
- A manual refresh asked for while an automatic round repeats the calibration of an earlier refresh whose own round has failed gets its calibration from that round; its own round does not calibrate
  again (`listings.vue:512-514`).
- With keys as items a row is updated only if both its keys are in one batch, which nothing ensures; supervisor runs the pair with symbols.
- In the pairs with keys or ids an entry in the middle of a busy list may wait without bound, since batches are filled from the new end. No *item* starves: the distributor adds it again.

## 6. Not modelled

Providers, spot listing classification, quotation queries and the other pages are input,
output and formatting without interleaved decisions of their own; `MarketVolumeStore` sees
providers as a valid map or a failure. Of the Python files under `tool/app/python` more than two thirds of all lines are a copy of the pip installer
(`get-pip.py`); the KuCoin client library and code generated by protoc follow in size. Those, the scripts that print what they receive, and the predecessors of present collectors
are not the system's logic and have no model. Of the collectors, the SQL that lists markets, the division among workers and the decoding of messages are left out. Within modelled components: HTTP wording, log and run directories
of the script, argument validation, the listing handlers, device auditing inside `login`,
`copy_parent_config`, and the prices computed from two books (whether a book yields one is modelled). Time is an order (`clock` numbers fetches; expiry may happen whenever
a TTL is set), except where a bound matters, and there the guard names it.

## 7. Plan

In this order, the most consequential first; each entry with an MC module, and theorems where
the operators allow.

1. `LatestRequest`: the guard on late answers with the quotation pages and their interval.
2. `MarketChangeGeneration` with the freshness rule: the external publisher as environment;
   an answer is one generation or a refusal.
3. `RestartMonitor`: flag and queue against requests that arrive during a restart.
4. `DeviceLogin` and the renewals of `UserController` (`expireUser`, `expireBatchUser`, `createUser`).
5. `UpdateMarketDepth`'s window, the permission page as a client of the save API.
6. `DepthQueue` with several rows that share books, and a bound on the age of a row.
