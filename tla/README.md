# done-hub: a TLA+ model of the gateway

done-hub is an API gateway in Go: it takes requests for AI models from clients,
picks an upstream endpoint and key for each, relays the answer (often a stream),
retries elsewhere when an upstream fails, and charges the user's quota. Around
that it keeps accounts (payments, redemption and invite codes), credentials,
asynchronous tasks, rate limits and an audit. This directory models the parts
where steps of several actors, failures and timeouts meet, checks the models
with TLC and proves the main results with TLAPS.

Paths below are relative to `src/`.

## The system

| Component | Code | State it keeps | Operations | Module |
|---|---|---|---|---|
| Gateway engine | `internal/gateway/execution/coordinator.go` | attempt number, skip set, run context | select, run, decide, cool down, sleep | GatewayRequest |
| Retry policy | `internal/gateway/retry/policy.go`, `classifyRelayError` in `relay/common.go` | none | classify, decide | RetryPolicy |
| Output session | `internal/gateway/stream/session.go` | not started, headers, data, terminal; accepted | record, accept, terminate, may fail over | GatewayRequest, StreamRelay |
| Billing session | `internal/gateway/billing/session.go`, `relay/relay_util/gateway_billing.go` | new, reserved, settled, refunded | precharge, begin attempt, settle, refund | GatewayRequest, RequestCharge |
| Quota of an attempt | `relay/relay_util/quota.go` | amount held, whether it was debited | pre-consume, settle, undo, transfer | GatewayRequest |
| Relay handler | `relay/main.go`, `relay/gateway_engine.go`, `relay/gateway_runtime.go` | the request's context | prompt limit, precharge, send, settle, finish | GatewayRequest |
| Selection and writers | `relay/common.go` | the request's context | fetch channel, write response | GatewayRequest, StreamRelay |
| Stream reader | `common/requester/http_stream_reader.go`, `stream_drain.go` | two channels, body, timers | read, send, idle close, close, drain | StreamRelay |
| Chat stream handler | `providers/openai/chat.go` | usage so far | account and relay a line | StreamRelay, ClaudeStream |
| Stream conversion | `relay/claude.go`, `relay/responses.go`, `relay/relay_util/responses_stream.go`, `relay/transformer` | the converter's position, the events written | convert a chunk, end, settle | ClaudeStream, ResponsesStream |
| Realtime relay | `relay/realtime.go`, `common/requester/ws_proxy.go` | two transfer goroutines, usage, a shared counter | transfer, count, compare with the quota, settle directly or by batch | RealtimeSession |
| Task relays | `relay/task`, `relay/midjourney`, `controller/midjourney.go`, `model/task.go` | task rows, the poller's wake-up | submit, query, answer, refund, sleep | TaskRelay |
| Route index | `model/balancer.go` | endpoints, cooldowns | candidates, cool down, disable, load | GatewayRequest, RouteIndex (partly) |
| Credential pool | `model/channel_keys.go` | keys, cooldowns, cursor | select, pin, cool down, disable, save the form, save a refreshed key | GatewayRequest, GatewayCredentials |
| Gateway credentials | `model/gateway_resources.go`, `controller/provider-credential.go` | pending, failed, active, retired, revoked rows | create, test, activate, replace, revoke, load | GatewayCredentials, RouteIndex |
| OAuth credentials | `providers/codex`, `claudecode`, `geminicli`, `antigravity` | access and refresh token | get token, refresh, save | GatewayCredentials |
| Token and user quota | `model/token.go`, `model/user.go` | balances | pre- and post-consume | QuotaLedger |
| Quota cache | `model/cache.go` | Redis copies of balances | read through, update, adjust | QuotaLedger (user quota), RealtimeSession (realtime quota) |
| Batch updater | `model/utils.go` | accumulated deltas and logs | add, swap and write, flush | QuotaLedger |
| Recharge orders | `controller/order.go`, `model/order.go` | orders, order locks | callback, credit, reward, close, clean up | RechargeOrder, KeyedLocks, OneTimeCredit |
| Redemption and invites | `model/redemption.go`, `model/invite_code.go`, `controller/user.go`, `controller/common.go` | codes, locks | redeem, edit, register | Redemption, InviteCodes, KeyedLocks |
| Rate limiters | `common/limit`, `common/rate-limit.go`, `middleware/rate-limit.go` | windows, buckets, lists | ask, refill, expire, clean up, reload | RateLimits |
| Audit | `internal/audit` | bounded queue, sessions, files, archive | enqueue, write, rotate, seal, recover | AuditRecorder, AuditArchive |
| Shutdown | `main.go`, `common/go-channel.go` | tracked goroutines | drain, stop, flush | QuotaLedger |
| Scheduled jobs, heartbeats | `cron`, `common/scheduler`, `relay/relay_util/heartbeat.go` | job registry, timers | run, stop | not modelled |
| Catalog, registry, domain, secrets | `internal/gateway/...` | tables | look up, encrypt | not modelled |
| Administration, middleware, logs, adapters, web | `controller`, `middleware`, `providers`, `web` ... | database rows | CRUD, conversion | not modelled |

A request enters `executeRelayGateway`, which runs the engine with a selector
(`GetProvider`, the route index), a runner (`relayHandlerWithSession`) and a
cooldown store. The runner precharges on the first attempt, sends through a
provider, whose writers record in the attempt's output session, and settles.
What the session says decides whether another attempt is allowed. When the
engine gives up, a reservation still held is refunded. A streamed answer runs in
goroutines of its own: a producer reads the upstream, a consumer writes to the
client or converts for it, the handler waits and closes, a drain unblocks the
producer. Requests share the route index, the key pools, the limiters and the
balances. Administrators change channels and credentials in the database and
reload the index; an OAuth key is refreshed by the requests that use it. A task
is submitted as a request and followed by a poller. Payments and codes add to
the same balances.

What is hard here: failover after partial output; a charge spread over several
attempts and several ledger writes; cancellation, deadline and backoff racing
each other; keys cooled, rotated or refreshed by one request under another;
unbuffered channels with three parties that leave in any order; a table of locks
that is cleaned up while the locks are held; notifications that are repeated,
polls that race a wake-up, answers that come after somebody gave up; files that
two processes share across a crash. Each hazard is listed in PROJECT.json at its
line, with the properties that cover it.

## Modules

**RetryPolicy**: the pure decisions. Status codes, messages and channel types are
abstracted to the thirteen *answers* the classification tells apart.
`ClassifyRelayError` is the code's function of that name, with `ClassifyStatus`
its part by status; `Decide` is `Policy.Decide` in the order of its checks.

**GatewayRequest**: the life of requests. One label of `pc` per point where
something else can happen in between:

| `pc` | Code | Actions |
|---|---|---|
| select | top of the loop in `Run`, `Selector.Next` up to the chosen channel | StopOnContext, SelectEndpoint, NoCandidate, SelectorFails |
| credential | `SelectGatewayCredential` | SelectCredential, NoCredentialLeft |
| run | `relayHandlerWithSession` before `send` | LocalReject, PromptRejected, Precharge..., BeginAttempt |
| send | the provider and the writers | Output, HeadersWritten, WriteUnrecorded, ReportUsage, StreamTerminates, SendSucceeds, SendFails |
| settle | `billingSession.Settle` | SettleCommits, SettleBreaks |
| decide | `Policy.Decide` | DecideAttempt |
| cooldown | `Cooldown`, then the last-attempt check | CooldownCredential, CooldownEndpoint |
| sleep | `sleepContext` | Wakes, SleepInterrupted |
| finish | `executeRelayGateway` after `Run` | Refund, RefundBreaks, NothingToRefund |

`attempt` is the number of runner calls. `stream`, `usage` and `visible` describe
the current attempt: what its session recorded, whether usage was reported and
whether the client has really received anything. `visible` is there so that the
properties do not have to believe the session; raw passthrough responses bypass
it. `bill`, `quota`, `userDebit`, `tokenDebit` and `consumed` are the billing
session, the quota object of the current attempt, the net debits and the consume
log. `broken` remembers that a ledger write failed. `cooling` and
`credentialCooling` are shared by all requests. The environment disconnects
clients, lets deadlines and cooldowns expire, and disables endpoints and keys.
`Pins` says which requests may name their endpoint, `pin` which one did.

**RequestCharge**: what the gateway promises about one request's money: open,
held, then charged or released, once. GatewayRequest implements it under the
mapping `status <- chargeStatus`, `debit <- userDebit`.

**StreamRelay**: one stream. `producer` is where `processLines` is, `consumer`
where the select loop of `responseStreamClient` is, `handler` the request's
goroutine, `drain` the goroutine of `DrainAndClose`. A send on an unbuffered
channel and its receive are one step. `accounted` counts the lines that changed
Usage, `offered` those meant for the client, `delivered` those written. Timers
fire only while the step they compete with is blocked.

**QuotaLedger**: one user with one limited token, and the requests that are
charged to both. GatewayRequest follows a request through its attempts and takes
a debit as one step; QuotaLedger takes the attempts as one step with some cost
and follows the statements of concurrent requests:

| `pc` | Code | Actions |
|---|---|---|
| new, fill | `CacheGetUserQuota`, the decision of `PreQuotaConsumption` | ReadQuota, FillCache |
| checkToken, checkUser | the two reads of `PreConsumeTokenQuota` | CheckToken, CheckUser |
| holdToken, holdUser | its two debits | HoldToken, HoldUser |
| holdDrop, postDrop | the deletion from Redis in `decreaseUserQuota` | DropCache |
| holdRead, holdSet, postRead, postSet | `CacheUpdateUserQuota` | RefreshRead, RefreshSet |
| serve | the upstream call | Serve |
| postUser, postToken | `PostConsumeTokenQuotaWithInfo` for a settlement, or for a refund, which is a settlement with cost 0 | PostUser, PostToken |

`db` is the database, `cache` the Redis copy of the user's quota, `stores` and
`recorded` are the maps of the batch updater (a recorded delta may be 0). A
writer, the ticker's goroutine or main, goes through `batchUpdate` column by
column: Swap or SwapNothing, Write or WriteFails, DropUserCache. `main` is the
shutdown: serving, draining, stopping, joining, flushing, exited. `drained` is
FALSE once the drain has timed out with requests under way. `paid` and `lost`
are histories: what each request has debited, and what no write could save.

**QuotaAccount**: the ledger as if every payment were taken at once. QuotaLedger
implements it; the balance of a column is what the database has, plus what waits
in the accumulator, is in a writer's hands, or was lost.

**KeyedLocks**: the table of mutexes that `controller/order.go` and
`model/invite_code.go` keep alike, as operators on one key's entry: look up or
make, lock, look up *again* and unlock, and the ticker's test and deletion as
two steps. Whoever has obtained an entry keeps it, deleted or not.

**RechargeOrder**: one order and the notifications of its payment.

| `callback` | Code | Actions |
|---|---|---|
| new | the verification; `EpayCallback` reads the order here | Arrive, Refused |
| obtain, lock | `LockOrder` | ObtainLock, TakeLock |
| read | `GetOrderByTradeNo` of `PaymentCallback`, the test of the status | ReadOrder, AlreadyDone |
| save, credit, reward | the order saved as paid, `IncreaseUserQuota`, the inviter | SaveOrder, CreditUser, RewardInviter |
| unlock | the deferred `UnlockOrder` | Release, ProcessEnds |

StatementFails is an error of any statement, CloseUnfinished the job that closes
old orders, EntryAges, CleanupJudges and CleanupDeletes the ticker, Crash the end
of the process. Unlocking an entry that is not locked ends the process, as Go
does. **OneTimeCredit** is what an order promises: paid once, credited once after
that; RechargeOrder implements it under `status <- order, credited <- credits`.

**InviteCodes**: one code and the registrations with it, by password under the
lock in memory or in Redis, or by OAuth without one: Check (`CheckInviteCode`),
ReadCode and Commit (the transaction's read and its last write), ReleaseInvite.

**Redemption**: one code, the calls of `Redeem` (ReadCoupon, CommitRedeem or
RollbackRedeem, FollowUp outside of the transaction) and an administrator's edit
(EditBegins reads the row, EditEnds saves what was read). `scenario` is the
database: with SQLite's single writer a transaction that read before another
one's write is refused; MySQL and PostgreSQL let it write.

**RouteIndex**: the copy of the endpoints' rows that requests select from, and
the changes and the ticker that load it: ReadEndpoints and ReadCredentials are
the two queries of `LoadGatewayChannelSnapshots` that the properties tell apart,
Install replaces the copy, MarkDisabled changes it in place.

**GatewayCredentials**: the rows of one endpoint's credentials, the calls of the
administration and the requests that use a key. A secret is an account and the
version of its refresh token; the upstream takes only the newest version and
answers with the next one.

| Actor | Code | Actions |
|---|---|---|
| call | `controller/provider-credential.go` | CreatePending, StartTest, ProbeRefreshes, MarkTestResult, ActivateGatewayCredential, RevokeGatewayCredential |
| call | `UpdateChannel` with a single key, or with the list of keys | ReplaceActive; OpenForm, SaveKeyPool, FormFails |
| call | `notifyChannelRelayError` | DisableGatewayCredential |
| request | `SelectGatewayCredential`, `PinGatewayCredential` | SelectKey, PinKey |
| request | `GetToken` of the four providers | UseToken, Refresh, RefreshAnswerLost, RefreshFails |
| request | `SaveRefreshedCredential` | SaveRefreshed, SaveRefreshedFails, LoadAfterSave |

`astray` remembers accounts whose newest token was lost where nobody can save
it: with the answer, in a probe that may not save, with a statement that failed,
or behind a form that was opened before the refresh.

**TaskRelay**: tasks from their settlement to their end. `submission` is the end
of `CompletedTask` (insert, set the flag, send the signal), `poller` the loop of
`relay/task/task.go`: waiting, query, deactivate, work, save. An answer is
ReportsSuccess, ReportsFailure (refund, then SaveFailed), NoNews, or one of the
ways the code gives a task up. `relay` chooses between Suno and Kling, which are
alike here, and Midjourney, which also gives up after an hour and refunds then.

**AuditRecorder**: one request's session (the inbound body, each exchange with an
upstream, their starts, chunks and ends) and the recorder: Enqueue takes or
refuses an event by slots and bytes, the worker takes, writes and ends.
**AuditArchive**: the writer behind the worker, per process, in a directory that
an old and a new process share: the lock of the directory, the recovery of what a
crash left, rotation by size and age, closing, publishing by renaming, unlocking;
a process may die between any two steps.

**ClaudeStream**: an OpenAI stream answered as a Claude stream, by the direct
conversion or by the piped one. The upstream sends thinking, text and tool calls
in the orders providers use; `conv` has the conversion's variables, `out` the
events. The handler settles by what `usage` is when the conversion returns.

**ResponsesStream**: a chat stream answered as a Responses stream. `resp` has the
converter's variables, `events` what it wrote. The deltas of a chunk, one per
choice, are received one after the other (ReceiveDelta). A delta may bring several
pieces: calls, reasoning, text. The converter takes the first call, else the
reasoning, else the text, and loses the rest. A piece it takes is told by its
delta's place in the stream, so that one that is lost on the way, doubled or out
of order is seen (ConvertedInOrder).

**RealtimeSession**: sessions of one user, who share a counter in Redis and a
quota: in the database, in the accumulator of the batch updates and as a copy in
Redis. A quota is represented by the sessions that have been charged to it, so
that one that lags behind is a subset of what it should be.

| Goroutine | Code | Actions |
|---|---|---|
| per session, reads the user | `transfer` | UserEnds |
| per session, reads the provider | `transfer`, `usageHandler` | Report, SupplierEnds |
| the same, per report | `UpdateUserRealtimeQuota` | Count, Remember; Check with the copy, or LookUp and Fill without it; CountFails, LookUpFails, FillFails |
| per session, settles | `completedQuotaConsumption` | Charge: close both sides, then record the charge (QueueCharge) or write it (WriteCharge, ChargeFails); Reread and Recopy refresh the copy, either may fail; then Uncount or UncountFails, whatever happened before |
| batch updater | `batchUpdate` | Flush, which may lose what it writes |
| Redis | expiry | CopyExpires |

The history tells which sessions' charges a report did not see when it was let
pass (`overlooked`). The handler's wait is not a step: it returns with the
settlement (HandlerReturns).

**RateLimits**: the six limiters for one key; `grants` is when requests were let
through. The list in Redis of `middleware/rate-limit.go` is followed command by
command, since its commands are not one script.

Modules whose names begin with MC give the constants their values. MCAccounts,
MCAudit and MCConversations hold several components each that share no state; a
behaviour follows one of them, chosen at its start, and only it is fair.

The proofs are in **GatewayRequestProofs**, **StreamRelayProofs**,
**QuotaLedgerProofs**, **AccountsProofs** (RechargeOrder, InviteCodes,
Redemption), **TaskRelayProofs**, **AuditProofs** (AuditArchive, AuditRecorder),
**RateLimitsProofs** and **ConversationsProofs** (RealtimeSession,
GatewayCredentials, ClaudeStream, ResponsesStream).

## Runs

| Run | Question | Bounds |
|---|---|---|
| one_request | Does the money balance and is failover safe, for every answer, writer, cost and ledger failure? | 1 request, 2 endpoints (a pool of 2 keys and a single key), 3 attempts, hold 0 or 2, cost 0 to 3 |
| live_request | Does a request, pinned or not, end and implement RequestCharge, also while routes disappear? | 2 attempts, 3 answers, cost above the hold |
| stream_closes | Do streams end, deliver in full and leave nobody blocked? | 3 lines, idle timer on |
| ledger_batched | With accumulators: is every payment taken once, and does a shutdown leave none behind and end? | 1 request, tight balances, estimate 2, cost 0, 1 or 4, Redis on |
| ledger_direct | With Redis and no accumulators: do concurrent requests pay what they cost? | 2 requests, quota 5 (the first is trusted), token 4 |
| accounts | Is nothing given twice, does every call get its lock, does the index follow the database? | 3 notifications, 2 registrations for a code of one use, 3 redeemers and an editor, 1 endpoint with 2 changes, 2 lock entries per key |
| tasks | Is what failed refunded, once, and is a task asked about until its end? | 2 tasks, 1 per round, 1 failing statement or crash |
| audit | Is a record whole when it says so, is every accepted event accounted for, does the archive lose nothing? | 1 exchange, bodies of 1 chunk, 2 slots, 3 bytes, 1 failing write; 2 processes, 3 files of 2 lines, 3 events, 1 failing call |
| conversations | Are converted streams well formed and in the order of what was converted, is realtime spending bounded, billed and the shared counter given back, do limiters keep their promise, does the endpoint keep an active key and every refreshed one? | 3 chunks; 4 deltas; 2 sessions, quota 2, 4 reports, with batch updates or without, 1 failing command or statement or expired copy; rate 2, burst 3, 5 ticks, 2 askers; 3 credential rows, 2 requests, 2 calls at a time and in all, 1 refresh per account |
| stream_panic | Does the consumer survive a closed ErrChan? No. | 3 lines |
| epay | Is an order credited once by EpayCallback? No. | 3 notifications, no other trouble |
| claude_usage | Is usage estimated only where none was reported? No. | 3 chunks |

The bounds are enough because what the properties tell apart is small. Two
endpoints let a request skip one, come back to the pool and run out; three
attempts make a second retry follow a first one, with a reservation handed over
twice. The estimates 0 and 2 against costs 0 to 3 give every sign of the settled
difference, and 0 covers the trusted user. `stream_closes` lets a stream have a
first, a middle and a last line; no action looks at more than one. In the ledger,
balances are around twice the estimate of 2, the threshold of trust, so that two
requests are trusted, admitted or rejected depending on who debits first; the
costs 0, 1 and 4 are a refund, a return of the rest and a further debit. What
more requests could add there is excluded by the proofs, which have no bound.
Three notifications and two entries per key let one callback hold a deleted
entry while two others meet on the new one. Rounds of one task let an older task
crowd out a younger one. Files of two lines and three events rotate once within
a process and once over a crash. Four deltas change between kinds, choices and
calls and back. Two sessions are one that is settled and one that reports
meanwhile; four reports, one more than two sessions may make of a quota of 2
together. Two calls at a time are what a late test result, an activation, a
revocation and a form need to overtake each other, and two requests what a
refresh needs to meet another; a third row lets both calls add a credential.
Where a part has several kinds of trouble (crash, failing statements, missing
routes), a behaviour has one of them: their combinations multiply the states and
no property relates two.

`CHECK_DEADLOCK FALSE` is set everywhere because requests and streams end
and the process exits; that they do not stop too early is what the liveness
properties say.

The three runs that expect a violation are disagreements between the code and
what it says of itself, in PROJECT.json under `findings`:

1. `relay/common.go:597`: the consumer has no `ok` check on `errChan`; after a
   panic in the line handler it calls a method on a nil error in a goroutine
   nobody recovers, and the process ends.
2. `controller/order.go:305`: `EpayCallback` reads the order before it takes the
   lock and tests that copy under it, so two notifications both credit.
   `PaymentCallback` reads under the lock, and `accounts` checks that it credits
   once.
3. `relay/claude.go:1491`: the direct conversion stops at the finish reason and
   settles an estimate when the usage comes in the next chunk.

### Observations

What the models or the reading showed beside the properties; no run states them.

- `relay/gateway_engine.go:71`: a settlement that fails after the user was
  debited leaves the session reserved, and the way out refunds it although the
  work was consumed. ChargedOrReleased sets a broken ledger aside.
- `relay/main.go:266`: work for a client that has gone is settled as failed or
  succeeded, never as canceled; the money is right.
- `model/cache.go:80`: the copy of the user's quota is read from the database and
  set in Redis in two steps, so a debit and a deletion in between leave the old
  quota cached until it expires. Admission reads it, `PreConsumeTokenQuota` reads
  the database again; PaidAlike holds with such a copy.
- `model/utils.go:123`, `internal/gateway/billing/session.go:96`: a crash forgets
  the accumulated deltas and leaves reservations debited; nothing repairs either.
- `model/token.go:531`: the check and the debit of the quota are separate steps,
  so concurrent requests overdraw it. Accepted by the code.
- `model/redemption.go:69`: `gorm:query_option` does nothing in the gorm version
  of `go.mod`, so on MySQL and PostgreSQL one code can be paid twice; RedeemedOnce
  is stated for SQLite, the default. An edit that was read before a redemption
  and saved after it enables the code once more.
- `model/invite_code.go:128` and `controller/common.go:253`: a Redis lock that
  expires during its registration, and the registration by OAuth, which takes no
  lock, let a code be used more often than it may be.
- `controller/order.go:195`: an order is saved as paid before the credit; where
  that fails the repeated notification finds it paid and the user gets nothing.
  PaidIsCredited sets failing statements and crashes aside.
- `relay/task/task.go:39`: a poller that goes to sleep just as a task arrives can
  miss its wake-up until the next submission; TasksAreFollowed names this state
  (Asleep), a lost credential, a panic in the poller and older tasks that never
  end as what a task may wait behind, and so does not catch the lost wake-up.
- `relay/claude.go:1224`: the conversion never closes the stream, so behind a
  client that has gone the producer stays in its send; ConversationsEnd speaks of
  the request, which does end.
- `common/requester/ws_proxy.go:52`: the second transfer goroutine of a realtime
  session stays in its send for ever.
- `relay/relay_util/quota.go:221`: a realtime session is taken from the shared
  counter when its charge is recorded for the batch updater, or has failed. The
  copy of the quota is then read from a database that does not show the charge
  (`model/cache.go:90`), and another session spends the same quota again. So
  SpendingIsBounded adds to the quota what the settled sessions cost that a
  report was let pass without (`overlooked`). Without batch updates and without
  failures the same happens only behind a copy that was read before the charge
  and set after it (`model/cache.go:80`).
- `relay/relay_util/quota.go:222`: nobody hears of a decrement of the counter that
  fails; it takes the session's reports from the user's quota until it expires.
  CounterIsGivenBack speaks of sessions whose decrement succeeded, and still
  allows a report that was on its way when the user closed.
- `model/cache.go:80`: a copy that cannot be set is an error although the quota
  was read, so a realtime session ends when Redis refuses the write.
- `relay/relay_util/responses_stream.go:129`: one piece of a delta is converted,
  the first call, or the reasoning, or the text; further calls and text that come
  in the same delta are lost without an error (lines 359 to 373, 500 to 510). The
  Claude upstream sends such deltas. ConvertedInOrder speaks of what is taken.
- `model/gateway_resources.go:796`: a revocation refuses only the endpoint's own
  credential, and `RevokeProviderCredential` does not load the index, so another
  key of the pool goes on being served after it was revoked
  (`docs/dev/AI-Provider-Management-Refactor.md:576` asks for the contrary).
- `model/gateway_resources.go:714`: activating a credential retires the whole
  pool, not only the credential it replaces.
- `model/channel_keys.go:172`: a form that was opened before a refresh brings the
  outdated secret back as a new row and retires the refreshed one.
- `controller/channel-test.go:62`: the test of an expired OAuth key refreshes it
  and, being read-only, throws the new refresh token away; the same loss as an
  answer that does not arrive, which every retry of `Refresh` repeats with the
  token that is used up.
- `model/gateway_resources.go:262`: the projection of a channel reads the
  endpoint's credential and writes it back, under a mutex that
  `replaceActiveGatewayCredential` gives back before its outer transaction
  commits. The models take a transaction as one step, as on SQLite.
- `model/channel.go:964`: `ClearChannelTokenCache` clears keys that
  `CredentialCacheKey` does not build.

## Fairness

GatewayRequest assumes weak fairness of each request's `Step`: its goroutine is
scheduled, an upstream call returns (the HTTP client and the relay have time
limits), sleeps end. Nothing is assumed of the environment: no client has to
disconnect, no cooldown to expire. StreamRelay assumes that goroutines run and
timers fire, that a write to the client succeeds or fails, and that a read of a
closed body returns. The upstream owes nothing.

QuotaLedger assumes that requests which have begun go on, that writers,
the ticker and main are scheduled, and that a tick comes again and again: weak
fairness for each. When the stop and a tick are ready together, Go's select
picks one at random, so the stop is not always passed over: strong fairness for
TickerStops. Requests need not begin, writes need not succeed, keys need not
expire, and nobody has to interrupt the process.

RechargeOrder and InviteCodes: a call that has begun goes on (weak), and a mutex
that becomes free again and again is obtained (strong: Go's mutexes hand over to
a waiter that starves); a caller that waits for a lock which the cleanup has
replaced is excused. No notification has to arrive. RouteIndex: calls, loads
and the ticker go on. TaskRelay: the poller and submissions go on (weak); news of
a task that a round looks at again and again are told (strong: the upstream
answers some poll). AuditArchive: a worker goes on, its maintenance comes again
and again between other events (strong: the select over queue and ticker), the
interval passes. ClaudeStream and RealtimeSession: some goroutine goes on, one
weak fairness for the whole, since no step of theirs can repeat for ever; in a
realtime session a read of a closed connection returns, and no side has to close
it.

## Proofs

The results hold for every value of the constants under the assumptions that the
modules state about them: any number of requests, endpoints, keys, callbacks,
calls, tasks, writers, sessions and askers (a finite one where the assumption says
so), any costs, quotas, rates and lengths. Those assumptions are what the code or
its configuration guarantees. Those that relate numbers are RateLimits': a window
is no longer than what is kept (`middleware/rate-limit.go:59` asks for it), and a
bucket holds ten seconds' tokens and is kept for two minutes.

*GatewayRequest.* ChargedOrReleased speaks of finished requests and is not
inductive. The invariant `IInv` adds: which billing states each label allows
(`Phase`), that a settled session's consume log agrees with its debits
(`Settlement`), and that, while nothing is settled or broken, the net debits are
exactly the reservation of the current attempt (`Balanced`). Each action disturbs
one of these and restores it; ChargeIsCorrect and WorkIsLogged follow at the label
`done`. FailoverIsSafe needs in addition that visible output or reported usage
leaves the session unable to fail over by the time the decision is taken.
BudgetIsKept and NoSecondTry rest on `RouteInv`, which relates the tried
endpoints to the skip set and the attempt to the pin. Implements maps every
action to a step of RequestCharge or a stutter, when `LedgerMayFail` is FALSE.

*StreamRelay.* The invariant fixes how the goroutines follow one another
(`Handover`: the handler closes after the consumer returned, the drain ends after
both channels closed, that is after the producer), where the lines are (`Lines`:
until the consumer knows of a disconnection, the lines written, the one being
written and the one on offer add up to those offered) and who may still write
(`Terminated`). No invariant mentions `MaxLines`.

*QuotaLedger.* PaidAlike speaks of ended requests; `PaidSoFar` says what a
request has paid at every label on the way, where the reservation goes token
first and the settlement user first. Nothing in it mentions the other requests,
the cache or the writers: that is the argument why they do not matter.
NothingLeftBehind follows from `ShutdownInv`: the two writers take turns
(`WritersInv`), after the drain no request debits (`DrainedInv`), and the flush
empties one accumulator after the other (`FlushInv`). ImplementsCorrect maps a
debit to a payment and shows that each step of a writer keeps the sum of what it
moves; it needs WritersInv, since main starts its flush only while it holds
nothing.

*Redemption.* RedeemedOnce is about the database's refusal: the invariant relates
the row that each call has read to how often the row was written since
(`WritesSeen`), so that a call which may still commit has read the code as it is.
With an edit it counts one credit before its end and one after.

*InviteCodes.* `Counted` says that a code never counts more uses than there are
registrations, whatever they overtake. Where all of them take the lock in memory
and no entry is cleaned up, one at a time is between its check and its release
(`OneLock`), and what it has read is what the row says (`Exact`): then the uses
are the registrations, and within the limit. The other settings lose that, as
under Observations: NeverOverused is strict with the lock in memory only.

*RechargeOrder.* For `Route = "payment"`, that is PaymentCallback; the run
`epay` shows that it is false of the other one. As long as no entry of the lock
table has grown old there is one entry, whose holder is the one who reads and
saves (`OneEntry`). The ticker can only find an entry old when the order is
decided: from then on callbacks may overlap, and each finds nothing to do
(`Decided`). So the cleanup, which deletes entries that are held, does no harm to
an order; OrderKeepsPromise is the refinement of OneTimeCredit from that.

*TaskRelay.* A refund is followed by a Save of the same task or by a fault
(`Owed`), and one task at a time is between the two (`OneByOne`). A fault is a
failing statement or a restart of the poller; the bound of RefundsAreDue counts
them, for any number of tasks and of faults.

*AuditArchive.* A writer that is initialized holds the directory's lock, and only
the holder has an open file or leftovers to publish (`Guards`). Hence an open
file is only written by its process and only published once its process is gone
or has closed it, and a line that is in the archive stays where it is.

*AuditRecorder.* The invariant counts the events of each source in the queue, in
the worker's hand and in the file: as long as the recorder has taken everything
(`Sure`), they are those that are due; behind the end of a source nothing of it
is left in the recorder (`InOrder`). So a record whose end says complete is
complete. AcceptedIsAccountedFor and the budget are sums over the same three
places; AuditTypes includes that the bytes held never exceed the budget.

*RateLimits.* `grants` is the history of the limiter; the invariant relates it to
what the store keeps, limiter by limiter. For the windows and the bucket it is a
bound on the requests of every stretch up to now, one more window, or the tokens
that are left, being what the next request may use; an entry that expires or is
cleaned up is old enough that a fresh one promises no more. For the lists it is
that the list holds the times of all requests that still count. The list in
Redis is not atomic: the proof splits the grants into those of each asker
(`Placed`), shows the promise for each one alone (`AskerKept`) and adds up, which
is why the promise of that limiter is once the rate for every asker.

*RealtimeSession.* A quota shared by any number of sessions needs sums. A number
per session is a set of units, so that a sum is a cardinality (`Units`, `Total`).
`Sums` says what the reports, the counter and the turns add up to. A turn is a
place among the reports that were counted to be billed; `Ranks` says which turns
a session's last report can have had. While it is compared, its turn is at most
what INCRBY returned and what settled sessions were billed, since a session leaves
the counter only when it is settled; when it is let pass, at most the last of the
quota and what was overlooked. So turns beyond that are the last ones of
different sessions, which have not looked since; a report that has no turn is the
only one of its session that is behind, and that session has no such last turn.
Both together are one for each session: the bound. CounterGivenBack follows from
the counter's sum, in which each session is at most one report ahead of what it
remembers. Nothing assumes that a command succeeds or that the quota is copied in
time; `MaxTroubles` is any number.

*GatewayCredentials.* `Owned` says that a secret in a row, in the index, in a form
or in a request's hands belongs to the account of its row, and `Rotated` who may
still present it: one whose refresh token is the newest, when nobody is about to
save a newer one, or an outdated one, which the upstream refuses. Then a refresh
makes one request the only one that can save the newest token (`SavesNewest`),
and RotationIsSaved follows, except for the accounts in `astray`, which the code
cannot save. PrimaryIsActive is inductive with the types and the rows' order.

*ClaudeStream.* What is written so far is described by its open blocks and the
number of blocks begun (`Written`); a run of events `Extends` every message with
such blocks to one with others, or `Completes` it. Each operator that emits
events is such a run between what the conversion's variables say before it and
after it (`LeftOpen`, `Begun`, `PipedOpen`). The direct conversion needs that its
variables are at the stage the upstream has sent last (`DirectKeepsUp`): it would
write a malformed message to an upstream that goes back from tool calls to text,
which the model's upstream does not. The piped one needs that no text is behind a
tool call in either pipe (`PipesKeepOrder`).

*ResponsesStream.* Between two deltas the property is about the output as it would
be if the stream ended now (`Finished`): the items that are done and the one at
work. The piece that is taken of a delta (`Taken`) adds a place to it, behind all
others, in a new item, in a new text of the last item or in its last text
(`ItemAdded`, `TextAdded`, `TextGrows`); the last one needs that the text at work
is of the choice the converter is in (`Grows`). The end makes the output what it
would have been. The events are counted: `Reads` says how many items a reader of
them has seen added and done, how many parts are open and how many pieces were
told, and that these are what the converter's variables say (`ReadsOf`). One lemma takes an event more; each operator
that emits events is a few uses of it.

The theorems TypeCorrect of GatewayRequest and QuotaLedger, ArchiveTypes and
CredentialTypes state type invariants that no run lists: TLC would only repeat
them.

Only model-checked:

- Everything about liveness, since the prover does not handle ENABLED: RequestEnds,
  StreamEnds, ProducerExits, EveryRecordIsTaken, ShutdownEnds, PaidIsCredited,
  CallsEnd, IndexCatchesUp, TasksAreFollowed, LinesArePublished, ConversationsEnd
  and the fairness part of ImplementsRequestCharge.

Every safety invariant and every action property of the runs is a theorem.

## What is abstracted

- Prices: a cost is any member of `Costs`. The settlement's arithmetic on it is kept.
- Delays: cooldowns and sleeps end at any time, since their length is
  configurable down to zero and the code compares wall clocks.
- Choice: priority, weight, affinity and key strategy only pick one of several
  candidates; the model picks any.
- Contents of messages, headers, logs and metrics.
- Heartbeat bytes, which are not counted as output by code or model.
- Crashes of the process: reservations and accumulated deltas live in memory
  alone, so a crash between precharge and settlement leaves the debit, and one
  before a batch write forgets it. Nothing repairs either at start.
- In the ledger: failing single statements (GatewayRequest has them), errors of
  Redis, unlimited tokens, the realtime quota, the used-quota and request
  counters and the batch of logs. The estimate is the same for all requests.
- In GatewayCredentials: a transaction is one step, since each locks the
  endpoint's row and SQLite has one writer; loading the index is one step, which
  RouteIndex splits; the cache of access tokens, the strategy's choice of a key
  and cooldowns are left out.
- In RealtimeSession: what other requests and top-ups do to the quota, the
  reservation of the session, the expiry of the shared counter after a day and its
  script's branch for a missing key, the kinds of message and the connecting. An
  update of the quota and the deletion of its copy are one step, a flush is one
  step; the handler's wait is derived. A behaviour has batch updates or not.
- In ResponsesStream: statuses and usage; the deltas of one chunk come one by one.
- In RateLimits: a failing Redis, which lets everything through, and servers whose
  clocks differ. Time does not pass while an asker is at work, so the branch for a
  list that expires between two commands is not taken. The promise of the list
  limiter is once the rate for every asker: what concurrent askers admit beyond it
  is accepted, not caught.
- In TaskRelay: what a request asks of the upstream, and the channels' choice.
  In the audit: the contents of events and the matching of requests.

## Not modelled

- Provider adapters other than the OpenAI stream handler and the OAuth tokens,
  and the conversion of requests and whole answers: functions from one format to
  another over large types, without steps or shared state. They are most of the
  code's lines.
- Administration, options, logs, statistics, user groups, notification, payment
  gateways, safety filters, MCP, the web interface: single database statements
  or calls of external services.
- Scheduled jobs and heartbeats: timers that call what is modelled elsewhere or
  write comments nothing depends on. A heartbeat may write while the answer
  begins (`relay/relay_util/heartbeat.go:121`): undefined in Go, and seen at the
  line rather than in a model.
- The chain of backup groups in `relay/common.go:280`, where a retry takes the
  group of an earlier fallback for the request's own: a group decides prices and
  candidates, which the models choose freely.
- Affinity, priorities and weights of the selection: they pick one of the
  candidates.

## Plan

Modelled and, but for liveness, proved: requests, streams, the ledger, orders,
codes, credentials, tasks, the audit, Claude and Responses streams, realtime
sessions and limiters. Left, the most important first:

1. ArchiveKept carried over to the published files.
2. A composition of GatewayRequest with QuotaLedger, so that the debits of one
   are the statements of the other; unlimited tokens and a bound on the overdraft.
3. The projection of a channel's fields (`SyncGatewayChannels`) with transactions
   that do not lock, and the chain of backup groups.
4. Heartbeats before the session starts; the affinity cache.
