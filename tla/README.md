# Verification of the flash-sale service

TLA+ models of the flash-sale backend (Go, Redis, Postgres), TLC runs that
check them on small instances, and TLAPS proofs of the main safety results.

## The system

One Go server (`src/cmd/server/main.go`) serves a sale of `total_stock` units.
Redis holds two counters per sale (`available`, `reserved`), changed only by Lua
scripts and by the reconcilers; Postgres holds the reservations and the orders.
No transaction spans both stores: every operation is a Redis script followed by
Postgres statements, or the other way round, with a compensating script when a
later call fails.

| component | state | operations | correct when |
|---|---|---|---|
| reservation service (`internal/reservation`) | rows, orders, idempotency keys, TTL keys | Reserve, Confirm, Release | never more orders than stock; a row is confirmed iff an order refers to it; every hold ends |
| Redis scripts and client (`internal/redis`) | counters, waitlist, script cache | reserve, release, confirm, waitlist_join, waitlist_promote | no script takes `available` below zero; what is free, held and sold is never more than the stock |
| expiry handler (`internal/queue`) | none of its own | on key expiry: release, mark expired, promote the next waiter | every hold ends; a freed unit goes to the first waiter (it does not, `waiter_lost`) |
| waitlist (`internal/waitlist`) | sorted set | Join, Leave, GetPosition | served in order of arrival, up to the second; positions only improve |
| reconciliation worker (`internal/worker`), startup pass (`internal/recovery`) | none of their own | count rows and orders, compare, overwrite the counters | drift is corrected and none is introduced |
| inventory (`internal/inventory`) | sale row and Redis metadata | CreateSale, GetSale, UpdateSaleStatus | a sale whose keys were not written is not sold from (the status in Redis is read by nobody) |
| boot (`cmd/server/main.go`) | readiness flag, script cache in Redis | load scripts, reconcile, enable expiry events, serve | a counter that lacks a lost write is corrected before it is used; a serving server is equipped |
| rate limiter (`internal/ratelimit`) | token bucket per user | Allow | at most capacity + rate x time requests |
| WebSocket hub (`internal/websocket`), events (`internal/events`) | rooms, client channels | Subscribe, Unregister, Publish, PublishToUser | no send on a closed channel; clients end with the current stock |
| HTTP API (`internal/api`) | readiness flag | routes, rate limiting, health | - |
| audit, metrics, telemetry, SLO, streams, config | append-only or constant | - | not modelled |

What is hard: requests, expiry goroutines (one per expired key), promotions and
the worker interleave between any two calls; a call may fail, or be executed
with its reply lost, or be sent twice by the Redis client; expiry events are fire
and forget; the server may crash between a script and its Postgres write; Redis may
restart without its last second of writes and without the scripts. The hub's
goroutines share maps and channels that one of them closes.
`PROJECT.json` lists these hazards at their lines.

Two packages do not build as committed: `worker` and `recovery` assign a string
sale id to `AuditEntry.EntityID`, a uuid, and two variables are unused
(`websocket/handler.go:61`, `api/metrics_middleware.go:42`). `MetricsMiddleware`
hands every handler a wrapper that is no `http.Hijacker`, so behind the committed
router the upgrade of a WebSocket is refused; `WebSocketHub` and the viewer of
`StockEvents` describe the websocket package itself, where the upgrade succeeds.
The models follow what the statements say.

## Modules

| module | models |
|---|---|
| `FlashSale` | one sale: both stores, Reserve, Confirm, Release, expiry, promotion, Join, Leave |
| `FlashSaleProofs` | TLAPS proofs about `FlashSale` |
| `StockLedger` | abstract promise: every unit is free, held or sold |
| `OrderlyClients` | `FlashSale` with clients that do not overlap; implements `StockLedger` |
| `Reconciliation` | `FlashSale` with the worker, crashes and the startup pass |
| `TokenBucket` | the rate limiter for one user: `token_bucket.lua`, `Allow`, the middleware |
| `Waitlist` | the sorted set of one sale: scores, ties, positions, promotion order |
| `ExpiryWarning` | the warning ticker and one reservation |
| `WebSocketHub` | `Run`, the handler and pumps of each connection, `Publish`, `PublishToUser` |
| `StockEvents` | the handlers' events from the counter through Pub/Sub to a viewer |
| `SaleRecovery` | CreateSale, UpdateSaleStatus, the boot, and restarts of Redis and of the server |
| `SaleProofs` | TLAPS proofs about `OrderlyClients` and `Reconciliation` |
| `<module>Proofs` | TLAPS proofs about that module |
| `MC*` | instances for TLC |

The modules meet at the Redis keys. `FlashSale` has the full handlers; the others
take from them the steps that touch their own state (a unit taken or given back, a
user popped) and leave the rest to it: the waitlist is a set there and ordered in
`Waitlist`, publishing is a stutter there and the subject of `StockEvents`. A reconciler's
pass has its calls, counts and values in `Reconciliation`; `SaleRecovery` has the calls of the
startup pass but only the fact whether a counter lacks a write, and `StockEvents` only
that a SET may change the counter to a value computed earlier.

### FlashSale: state and steps

| variable | code |
|---|---|
| `available`, `reserved` | `sale:{id}:available`, `sale:{id}:reserved`. An absent key reads as 0, as the scripts and reconcilers treat it |
| `ttl`, `idem` | keys `reservation:{id}:ttl`, `sale:{id}:idempotency:{key}` |
| `waitlist` | members of `sale:{id}:waitlist`; the order is left open |
| `rows`, `orders` | `reservations.status`; `orders` as a function of its unique key |
| `proc` | label and arguments of every handler. A request runs one handler; the expiry goroutine of reservation r is process r |
| `known` | ids a client can name: returned by Reserve or announced to a promoted user. No endpoint lists reservations |
| `owed` | history: users who joined, did not leave, were not served |
| `faults` | failed calls, at most `MaxFaults` |

One label is one external call. `Reserve` is `ReserveStart` (idempotency lookup),
`ReserveLua`, `InsertReservation`, `SetTTL`, `SetIdem`; `Confirm` is `ConfirmStart`
(key lookup, SELECT, status check), `ConfirmLua`, `ConfirmTx`; `Release` is
`ReleaseStart`, `ReleaseLua`, `MarkReleased`; an expiry is `KeyExpires`,
`HandleExpired`, `ExpireLua`, `MarkExpired`, `PromoteLua`, `PromoteInsert`,
`PromoteTTL`. `Undo` is the compensating Release. `IdemExpires` ends the 24 hours of an
idempotency key (`service.go:338`), after which the request is a new one. Early returns that change
nothing are stuttering steps. The error branches follow the code: an INSERT error
is compensated, a failed `SET` of the TTL returns with the row left behind, a
failed `Begin` is not compensated, every later failure of the transaction is, a
COMMIT may succeed although it reports an error. `ScriptFault` covers the three
ways a script call can go wrong: not run, run without an answer, run and sent
again by go-redis.

The constraints of `migrations/001` matter and are modelled: `valid_confirmation`
refuses to move a confirmed row to another status (`StatusWritable`),
`idempotency_key` is unique and `""` is a value like any other (`KeyUnused`), and
`item_id` is a foreign key (`ItemForeignKey`, TRUE for the committed schema). `user_id` is
one too and Join accepts any uuid, so a promotion's INSERT may be refused with no call
failing whatever `ItemForeignKey` is. FALSE is not a schema the repository has: it is used in
the run `promotion` alone, to let promotions create holds that must end as well.

Left out of the steps: metrics, tracing, audit rows, event publishing.

### OrderlyClients and StockLedger

`Orderly` says that at most one handler is finishing a given reservation at a time (a
Confirm, a Release or the server's own expiry goroutine), that each Confirm has a key
of its own, and that no call fails. The code enforces none of this, and the cases left out
are hazards of their own: an expiry or a second Release racing a Confirm, two Confirms
of one reservation, a lost reply. Handlers of different reservations and Reserves,
with one key too, still interleave freely. What the module shows is that these
overlaps are all the code relies on: without them the counters are exact
between any two steps of any handlers, and `ImplementsLedger` maps free to `available`,
held to the units counted from rows and handlers (`Held`, independent of Redis), sold
to the orders.

### Reconciliation

A pass is six calls: count rows, count orders, GET, GET and compare, SET, SET.
The worker runs it beside the handlers; after a `Crash` it runs alone with `mode =
"starting"`, and expiry events of that time are not heard. A GET error reads as 0,
a failed query or SET ends the pass. When the list of sales cannot be read main ends in
log.Fatalf, which is a `Crash` of a starting server. `lapsed` marks rows past `expires_at`;
it is not ordered with the expiry of the TTL key, since three clocks are involved.
Both passes count only rows with `expires_at > NOW()` (`ActiveRows`), while Confirm
never looks at `expires_at`: a lapsed row is given back by a pass and can still be sold.
One server process is assumed.

### TokenBucket

Tokens are counted in units of refill time, so that the bucket gains one per tick:
capacity 10 at 2 per second is `Capacity` = 5 s and `Cost` = 0.5 s. A call is `Arrive`
(`limiter.go:52`, the time stamp) and one of `Allowed`, `Refused`, `AnswerLost` (the
token is taken, the call fails or is resent with the same stamp), `CallFails`. `Tick`
lets no stamp get older than `MaxLag`, the client's timeout. `start` and `granted` are
an observer who may start counting at any time. Lua's rounding is abstracted.

### Waitlist

Users are numbers, standing for the byte order of their uuids; `score` is the second
Join read before its script ran, `answered` the second in which it ran. GetPosition
is `GetRank` (ZRANK) and `GetCard` (ZCARD). `left` notes that a user went in between.
release.lua has no upper bound and two Releases of one reservation may both run it, so
`available` may exceed the stock; `MaxAvailable` bounds the exploration.

### ExpiryWarning

Time in units of 5 s: `Period` 6, window 11 to 18. `Fire` puts a tick into the
ticker's channel, `Poll` is `notifyExpiringReservations`, at most `Jitter` later.
`watching` is the time since which no poll failed and the server ran. The window of
the query is 55 to 90 s; with the 60 to 90 s its comment names, a poll that is late
would leave users out (the mutant of `WarnedInTime`).

### WebSocketHub

`Run` is `HubRegister`, `HubUnregister` and `HubBroadcast`, in any order, since select
picks any ready channel. A connection is `Subscribe`, `GetSale`, `SendSnapshot`, then
`ReadPump` and `WritePump`. `leaving[c]` counts calls of `Unregister` that Run has not
taken. PublishToUser is three steps, because it works outside the lock: `NotifyStart`,
`NotifyNext`, `NotifySend`. Go's undefined cases are choices: an entry added during an
iteration is visited or not, a map written during an iteration is noticed or not.
`crashed` is a panic in a goroutine of the hub or the runtime's fatal error; a panic
in the handler is caught by `RecoveryMiddleware` (`aborted`). Messages are counted, not
listed, and the buffers of Run's own channels (256, 256, 1024) are unbounded.
`missed` and `raced` are histories: clients that a message did not fit for, and whether
Run wrote its maps at one of two bad moments: it added or removed a client of the user
that PublishToUser was going through, or took an Unregister while the registration of
that client was still in the channel. `Calm` (neither has happened) is the condition of
`NoPanic` and `ConnectionsReleased`; events for users and connections that break at any
time, before they are registered too, are within it. Each part is needed: without
it TLC finds the panic.

### StockEvents

A handler is the script, the row, `GetAvailable`, `PublishStock`, `PublishEnded`, and
for an expiry a promotion. Release and expiry first read the status (`Check`) and run
release.lua later (`ReleaseScript`), so two of them may give one unit back twice.
Promotion and Release publish but never announce an end. Of the rest of the program
the writes to `available` are kept, which publish nothing: `UndoConfirm`,
`ReconcilerSet`, and `ScriptUnanswered` (a script resent by the client, or carried out without
an answer). A viewer subscribes, reads the stock and is sent it; `GetSale` may fail and
leave it with nothing to show. The model allows a little more than the code: one
reservation may expire more than once, and a confirmed row passes for a reserved one. `solo` is a handler with which nothing has overlapped;
`disturbed` says that since a solo handler last published, something overlapped, failed
or wrote without an event. It is the condition of `ViewerCurrent` and is cleared by the next solo
handler, so the property is that a wrong number on the screen is put right.

### SaleRecovery

`stage` is how far main has come: `LoadScripts`, the calls of `StartupPass` (list the sales,
count and GET, GET and compare, SET, SET, each of which may fail), `LoadBucket`, `Serve`.
`RedisRestart` drops the scripts, `notify-keyspace-events` and what was written since the
last `Sync`; `ServerCrash` may fall anywhere. Of the counters the module keeps flags:
`unsynced`, written since the last sync, and `lost`, lacking a write that Redis lost or
CreateSale did not come to make. What a pass writes, and that it may be wrong, is the
matter of `Reconciliation`. `Script` stands for every script of the handlers, `WorkerSet`
for a SET of the worker. `skipped` and `equipped` are histories: the startup pass found the sale
not active (Reserve never reads the status, so it is sold from all the same), and
Redis has not restarted since the boot began.

## Runs

| run | shows |
|---|---|
| `core` | four racing requests, two ids, one key and the empty key, stock 1, two users, one fault: `NoOversell`, `StockBounded`, `ConfirmedIsFinal`, `NoOrphanHold`, and the inductive invariant `IndInv` with the types and `ConfirmedIffOrdered` |
| `orderly` | stock 2, three ids, two keys: `LedgerExact`, `ConfirmNotRefused`, `ImplementsLedger` |
| `promotion` | promotions that make holds, three racing requests, one user, one fault, fair: `HoldsEnd` |
| `restart` | one id and three requests, one crash, one fault, fair worker: `ConfirmedIffOrdered`, `StartupConserves`, `DriftCorrected` |
| `token_bucket` | three calls of one user, a bucket that expires: `AllowanceBound`, `RetryAfterHonoured`, `IndInv` |
| `waitlist` | three users, two calls, four seconds, stock 1 with a double give-back: `IndInv`, `PositionWithinTotal`, `NoQueueJump`, `PositionSettles` |
| `expiry_warning` | the code's period and window, two restarts, one failed poll: `WarnedInTime`, `WarnedAtMostTwice`, `IndInv` |
| `hub` | two clients of one user, queue of one, two broadcasts, one targeted event: `MissedIsLeaving`, `NoPanic`, `ConnectionsReleased` |
| `events` | stock 2, four changes by two handlers that may overlap, a reconciler that counts up to 3, a viewer, one fault: `TypeOK` (no script takes the counter below zero), `ViewerCurrent`, `EndAnnounced` |
| `recovery` | two status updates at once, pause and resume, two Redis restarts, two server crashes, one fault: `CorrectedBeforeUse`, `EquippedWhenServing` |
| `waiter_lost` | violated: a promoted user is popped and the INSERT always fails on the foreign key (README.md:196-197 promises a reservation) |
| `worker_oversell` | violated: a pass that counts before a unit's row and order exist and writes after resells it (slo/budgets.go:21) |

Bounds. Stock 1 makes every last-unit race happen. Four requests allow one Reserve and three
racing finishers, or two Reserves and two Confirms; with two ids a second holder can
take what the first gave back. One fault reaches every error branch; the safety
results are proved without these bounds. `restart` has one id and no key but the empty
one: one Reserve and two racing finishers, killed or failed at each of their steps. `token_bucket` runs two key lifetimes
with room for a burst, a refusal and a full bucket again. `waitlist` has two users
in one second and a third in a later one. `expiry_warning` lets the reservation begin
at every phase of the ticker; its TTL of 24 units instead of 120 only has to exceed
the window. Queues of one message overflow at the second; two clients suffice for one
slow and one fast. `waitlist` and `events` let one unit more than the stock be free, and
`events` one be counted too many. In `recovery` the second Redis restart, or a second crash, can fall
into the boot that answers the first, at each of its calls. Deadlock is not checked:
requests and ids are finite, so every behaviour stops.

Fairness. `HoldsEnd` assumes that accepted requests and expiry goroutines run to
their end and that Redis eventually expires a key (its active expiry cycle); clients
owe nothing. `DriftCorrected` assumes only that a reconciliation that has begun goes on and that
the worker's ticker keeps firing.
`ConnectionsReleased` assumes that select starves no channel (it picks
at random), that goroutines that can run do, and that a broken connection is noticed
(read deadline); a write pump with a living, slow peer need not move.
Symmetry is used in safety runs only.

## Where the code falls short of its documentation

Two of these are runs of their own; TLC shows each of the others with the formula of the
last column as an invariant or property of the module's run (with the bounds named there).
Where a property of a passing run carries a condition, this is the reason. A dash marks
behaviour that no document excludes but that a reader would not expect.

| what the code does | what is promised | to see it |
|---|---|---|
| `promoteNextUser` inserts a random `item_id`, which the foreign key refuses; the user is already popped (`expiry_handler.go:208`). A user who joined with a uuid that is no user is popped and refused in the same way | README.md:196-197 | run `waiter_lost` |
| the worker writes counters computed from older counts and resells a unit (`reconciler.go:127`) | slo/budgets.go:21 | run `worker_oversell` |
| after a restart a unit is sold twice with no call failing: r1 is reserved, the server crashes, r1 lapses unheard, the startup pass gives the unit back and r2 takes it, r1 is confirmed all the same, the next pass writes available -1 and reserved 1, r2 is confirmed (`reconciler.go:91`, `reconcile_startup.go:93`: lapsed rows are not counted; `service.go:161`: they can be confirmed) | slo/budgets.go:21 | `BuyersWithinStock` under `RSpec`, `WorkerEnabled` FALSE, `MaxCrashes` 2, `MaxFaults` 0, four requests, two ids |
| overlapping Reserve requests with one key make two reservations (`service.go:52`) | README.md:49 | `\A p, q \in Requests : At(p, "insert") /\ At(q, "insert") /\ proc[p].key = proc[q].key /\ proc[p].key # NoKey => p = q` under `Spec`, stock 2 |
| two Releases, or a Release and an expiry, give one unit back twice (`service.go:261`, `265`) | - | `available <= TotalStock` under `Spec`, stock 2, `MaxFaults` 0 |
| overlapping Confirms of one reservation with different keys make two orders (`service.go:161`) | - | `\A k, l \in Sold : orders[k] = orders[l] => k = l` under `Spec`, stock 2, `MaxFaults` 0 |
| an expiry or a Release overwrites the outcome of the other (`service.go:270`, `expiry_handler.go:159`) | - | `[][\A r \in Res : rows[r] \in {"released", "expired"} => rows'[r] = rows[r]]_vars` under `Spec`, `MaxFaults` 0 |
| a crash between release.lua and the UPDATE makes the startup pass set `available` below 0 (`reconcile_startup.go:129`) | README.md:21 | `available >= 0` under `RSpec` with two ids and three requests, `WorkerEnabled` FALSE |
| two joins within one second are ordered by uuid, not by arrival (`waitlist_join.lua:21`) | expiry_handler_test.go:150 | `[][\A u \in wait' \ wait : Rank(u)' + 1 = Cardinality(wait')]_vars` in `Waitlist` |
| the second Unregister of a slow client closes a closed channel in Run; an event for a user meets a disconnect; Run takes an unregister before the register (`hub.go:79`, `121`, `42`) | README.md:19, 73 | `NoPanic` without one of the parts of `Calm` |
| handlers publish in the opposite order of their reads, a give-back is not published, a connecting viewer keeps the older value (`service.go:113`, `97`, `handler.go:70`) | README.md:72 | `ViewerCurrent` without `~disturbed` |
| the end of the sale is announced while there is stock: the 0 was read before a give-back, or stands for a failed GET (`service.go:113`) | README.md:408 | `[][~announced /\ announced' => available = 0]_vars` in `StockEvents` |
| a sale that is not active can be reserved, is skipped by both reconcilers and is sold from wrong counters after Redis lost writes (`reconcile_startup.go:34`) | README.md:57 | `CorrectedBeforeUse` without `skipped` |
| a running server never reloads its scripts after a Redis restart, while `/healthz` answers OK (`client.go:92`) | README.md:212-225 | `stage = "serving" => "sale" \in scripts` in `SaleRecovery` |

## Proofs

`FlashSaleProofs` proves, for every stock, all finite sets of requests, ids and
keys, any users, any `MaxFaults` and both schemas:

| theorem | statement |
|---|---|
| `Invariance` | `Spec => []IndInv` |
| `TypeCorrect` | `Spec => []TypeOK` |
| `OversellImpossible` | `Spec => []NoOversell` |
| `StockIsBounded` | `Spec => []StockBounded` |
| `ConfirmedOrdered` | `Spec => []ConfirmedIffOrdered` |
| `ConfirmedForGood` | `Spec => ConfirmedIsFinal` |
| `HoldsAttended` | `Spec => []NoOrphanHold` |

The argument. `NoOversell` alone is not inductive: the orders to come are decided at
confirm.lua, not at the COMMIT. `CheckoutBounded` counts a confirmation as sold from
the moment confirm.lua lets it through:
`available + reserved + sold + in checkout <= stock`. confirm.lua's guard
(`reserved > 0`, with `available >= 0`) leaves room for one more; release.lua, run
once, twice or wrongly, only moves a unit from `reserved` to `available`, so it may
drive `reserved` negative but creates nothing; every failure lowers the sum or
keeps it. So the damage of the races and failures in Confirm and Release is bounded:
they can refuse a paying customer or let too many people hold, never sell too much.
What breaks the argument is a writer that does not preserve the sum, which is what
the reconcilers are (`worker_oversell`). `ConfirmedIffOrdered` needs `FreshIds` (an
INSERT never hits an existing row) and that needs `RowsExist` (an expiry goroutine
never writes a row that is not there) and `ArgsOK`.

`NoOrphanHold` needs `OneExpiry`: exactly one handler sets the TTL key
of a reservation, and before the expiry goroutine of that reservation has ever run.
Without it a key could be set for a hold whose goroutine is past.

Assumptions: the sets are finite, requests, ids, keys and `None` are distinct, the
stock and `MaxFaults` are naturals. `RequestFlow`, `ExpiryFlow`, `UndoFlow` state each
action's control flow once; the invariance lemmas cite them.

`SaleProofs` has the same generality and uses `Invariance`. For the clients of
`OrderlyClients`:

| theorem | statement |
|---|---|
| `ChecksHold` | `OrderlySpec => [](IndInv /\ Orderly /\ ChecksStillHold)` |
| `NeverRefused` | `OrderlySpec => []ConfirmNotRefused` |
| `LedgerIsExact` | `OrderlySpec => []LedgerExact` |
| `LedgerImplemented` | `OrderlySpec => ImplementsLedger`, the refinement of `StockLedger` |

The handlers check the row and the key once, when they start, and write later.
`ChecksStillHold` is what the discipline of `Orderly` adds to `IndInv`, and `ChecksHold` is an
intermediate step, no result of its own: the row a handler is finishing is still
`reserved` and the key of a Confirm has no order, up to the handler's own write. From it `LedgerStep` classifies
every action: it leaves the books alone, takes a unit, returns one, sets one aside
for checkout, or sells one (`LedgerMove`), each with its effect on `available`,
`reserved`, `Held` and the orders. `LedgerIsExact` and `LedgerImplemented` are
sums over that classification. `NeverRefused` is a counting argument: confirmations
in checkout and the one that asks map one to one into the held rows, so
`reserved = Held - checkout` is positive.

For the sale with the worker, crashes and the startup pass:

| theorem | statement |
|---|---|
| `ReconcilerInvariance` | `RSpec => []RInv` |
| `ReconcilerKeepsOrders`, `ReconcilerKeepsConfirmed` | `RSpec => []ConfirmedIffOrdered`, `RSpec => ConfirmedIsFinal` |
| `StartupConservesStock` | `RSpec => StartupConserves` |

`RInv` is the part of `IndInv` that does not speak of the counters: those a pass
overwrites with older numbers. Rows and orders stay in step whatever it writes and
wherever the server is killed. `StartupReadsHold` says that what the startup pass has
counted is still so, since no handler runs before it has ended.

The other modules, each for all values of their constants that the named assumption of the module allows:

| theorem | statement | argument |
|---|---|---|
| `BucketInvariant`, `BucketAllowance` | `[]IndInv`, `[]AllowanceBound` | what was granted and what is left never exceeds capacity plus refill up to the stored stamp (`Conserved`); a late stamp moves the refill back by what it took, so only the last stamp's age, `MaxLag`, is counted twice; an expired key was full anyway, since the window is longer than a refill |
| `BucketRetry` | `RetryAfterHonoured` | a refused call stores nothing, so the refill since then is still to come |
| `WaitlistInvariant`, `WaitlistPosition` | `[]IndInv`, `[]PositionWithinTotal` | the scripts look before they take a unit, also when a Reserve took the one that was freed for a waiter; a rank is below the size of the list and the list only grows while nobody leaves |
| `WaitlistOrder`, `WaitlistAdvances` | `NoQueueJump`, `PositionSettles` | `ScoresInTime`: a score is at most `MaxLag` older than the script that stored it |
| `WarningInvariant`, `UsersWarned` | `[]IndInv`, `[]WarnedInTime` | while a warning is owed, the next poll comes before the window closes (`PollInWindow`); needs `Period + Jitter <= Hi - Lo` |
| `UsersNotPestered` | `WindowIsShort` implies `[]WarnedAtMostTwice` | each warning pushes the next poll a period on, less its own delay, also across a restart (`WarningsSpaced`), so the third would fall behind the window; needs `Hi - Lo < 2 * Period - Jitter`, 7 < 11 in the code |
| `HubTypes` | `[]TypeOK` | a message is queued only where it fits |
| `CalmInvariant`, `CalmHubNeverPanics` | `[]CalmInv`, `[]NoPanic` | while the hub is calm there is at most one Unregister per client and Run takes it after the registration; it alone closes the channel and takes the client out of the room (`Discipline`); what PublishToUser has still to send to is open (`NotifierFine`) |
| `MissedClientsLeave` | `[]MissedIsLeaving` | a connection is registered once and nothing is sent to it before (`Unseen`), so who missed a message never enters the room again |
| `EndInvariant`, `EndIsAnnounced` | `[]EndInv`, `[]EndAnnounced` | from the last unit on, some Reserve is on its way to announce: the handler that took it reads 0 unless a later change moved the obligation to another |
| `EventsTypes` | `[]TypeOK` | however takes, double give-backs and rejected rows overlap, the scripts look before they take; nothing bounds the counter from above |
| `ViewInvariant`, `ViewersCurrent` | `[]ViewInv`, `[]ViewerCurrent` | what a solo handler has read is current until it publishes, and a step of anybody else ends its being solo (`SoloInv`); from its stock_update on, screen and pending events will show the stock, but for the change that the next solo handler is making (`Follows`) |
| `CorrInvariant`, `LossesCorrected` | `[]CorrInv`, `[]CorrectedBeforeUse` | from the call of the startup pass that finds or makes a counter right it lacks nothing; a Redis restart takes the scripts along with the writes, so nothing is sold until the next boot has corrected the counters |
| `BootInvariant`, `ServingIsEquipped` | `[]BootInv`, `[]EquippedWhenServing` | what each stage of the boot added stays until Redis restarts |

Every invariant and every action property of the passing runs is stated by a theorem.
Model-checked only: liveness (`HoldsEnd`, `DriftCorrected`, `ConnectionsReleased`), which
needs fairness and ENABLED, beyond this prover; and the two violations. `EndInv`,
`ViewInv`, `WarningsSpaced`, `ChecksStillHold`, `RInv`, `StartupReadsHold`, `CalmInv`, `MissedInv`,
`CorrInv`, `BootInv` serve the proofs alone and are defined beside them.

## Plan

Done: every component with behaviour of its own has a module, each has a run, and
each safety property of the runs a proof.

Open: lemmas towards the liveness results (for instance that `Matches` is stable once
the sale is quiet and the worker has no drift to correct), and the conditions under which a
reconciler's pass beside running handlers, or over lapsed rows, keeps `StockBounded`.

## Not modelled

Metrics, tracing, SLO constants, configuration, dashboards and load scripts have no
behaviour to check. The audit log is written and never read. The stream logger,
`IdempotencyMiddleware`, `DirectSend`, `ReadClient`, `QueuePosition` and `SaleStarted` have
no caller in the server. `GetOrder` only reads. Parsing and status codes of the HTTP
handlers are left out, and so are several server processes on one Redis, the rounding of the
token bucket and the buffers of the hub's own channels.
