# Verification of gpt2api-sidecar

TLA+ models of the concurrent core of `gpt2api-sidecar`, TLC configurations that
check them on small instances, and TLAPS proofs of what matters most for every
instance. The sidecar offers an OpenAI-like image API, queues the requests,
splits each one into jobs, runs every job on an account leased from a pool
against an upstream that limits, delays and fails, and reloads its configuration
while all of this runs.

* [Inventory](#inventory): the system's parts, their state and what is hard
* [Modules](#modules): which module models which part, and how
* [Runs](#runs): what TLC checks, with which bounds, and why they suffice
* [Fairness](#fairness): what the liveness properties assume
* [Proofs](#proofs): what is proved, from what, along which argument
* [Findings and observations](#findings-and-observations)
* [Not modelled](#not-modelled)
* [Plan](#plan): what comes next

Line numbers refer to the commit beside this directory, paths to its root.

## Inventory

| Component | State | Operations | Hard because |
|---|---|---|---|
| Queue gate `internal/queue/queue.go` | `active`, `pending`, `waiters`, a waiter's `granted`/`canceled`, a lease's `once` | `Acquire`, `Lease.Release`, `Stats` | the grant of a slot races with the end of the caller's context; canceled waiters stay in the slice |
| Account pool `internal/pool/pool.go` | list of account objects, `nextIndex`, `minInterval`; per object snapshot, `busy`, `disabled`, `lastUsedAt` | `Acquire` (scan, backoff), `Release`, `Reload`, `MarkCooldown`, `MarkPersona`, `MarkUnauthorized`, `RecordNoImageFailure`, `States` | the clock is read before the mutex; leases outlive reloads; marks go by name |
| State store `internal/pool/state_store.go` | `cooldown_until`, persona and recent failures of each name, in memory or Redis | read, mark, clear, record, count | lazy expiry; operations that fail, or take effect and lose their answer; on Redis, calls of several commands, sidecars that share one store, commands sent twice or late |
| Image runner `internal/runner/runner.go` | the progress of one job, its two contexts | `Run`, `runOnce`, `runConversation`, `classifyUpstream` | every early return must release; a retry may start a second image task; deadline, cancellation and upstream errors in every stage |
| Image request `internal/server/server.go:249-514` | results channel, counters, last error, reply | handlers, `generateImages`, `acquireImageQueue`, `writeRunnerError` | concurrent jobs, early end, departure of the client, deadline of the line |
| Hot reload `server.go:56-169`, `config.Load` | runtime state, `configModTime`, `reloadMu`; the file | `New`, `reloadConfigIfChanged`, `buildRuntimeState`, the views of a request | file looked at several times, four parts updated one after the other under traffic, write-back of ids |
| Blob store `server.go:846-905` | items with their expiry, ttl | `Put`, `Get`, `SetTTL`, `gcLocked` | no timer: expired items stay until some call collects them |
| Event stream `upstream/chatgpt/conversation.go:134-206`, `image.go:318-373` | bounded channel, parser, consumer | `parseSSE`, `ParseImageSSE` | two goroutines; a consumer that stops early; a body cut anywhere |
| Image poll `image.go:529-651` | what was seen, `consecutive429`, deadline | `PollConversationForImages`, `sleep` | backoff, partial answers, two ends (time, context) |
| Sentinel requirements `client.go:434-505`, `pow.go`, `runner.go:520-566` | the requirement, a solver goroutine with its channel | `ChatRequirementsV2`, `Bootstrap`, `getRequirements`, `SolveProofToken` | two steps with a single step that stands in for either; a solver that outlives its wait; token and proof must fit one challenge |
| Uploads and results of an attempt `files.go`, `runner.go:235-519` | ids of the uploads, previews, references left, images | `UploadFile`, `PrepareFConversation`, `StreamFConversation`, `ImageDownloadURL`, `FetchImage` | any call may fail or be cut; inputs and previews of an edit must not come back as results |
| TLS transport, logger, start-up, scripts | none that the rest depends on | I/O | see [Not modelled](#not-modelled) |

How they interact. An HTTP request first runs the *hot reload*, then takes the
runtime state for its authorization and once more in its handler. An *image
request* acquires a slot of the *gate* in that runtime state, starts up to four
goroutines that each call *Run*, and collects their results from a channel until
it has enough images, all are in, or its context ends. *Run* leases an account
from the *pool*, makes the upstream calls (of which the *event stream* and the
*poll* keep state), tells the pool by account name what happened, and releases.
The pool asks and tells the *state store* while it holds its mutex; a store in
Redis may be shared with other sidecars, which that mutex does not stop. A reload
calls the pool, the runner and the blob store one after the other and then
publishes a new runtime state, with a new gate if the size changed. Images are
put into the *blob store* and served from it by URL. Shared state is guarded by
one mutex per component; channels are the results channel, the event channel and
the waiters' ready channels; everything else is contexts.

What makes each part correct:

* gate: no slot is lost or handed out twice, the bound on the line is met exactly,
  slots go in the order of arrival, a canceled call returns, nobody starves;
* pool: an account is leased by one job at a time through any reloads, only
  usable accounts are handed out, a mark stays until it may go;
* store: a call is one step for the pool that makes it, a failure counts once, one
  that was acknowledged is not lost;
* attempt: token, if there is one, and proof of a conversation fit one challenge, an
  edit returns only new images, the attempt ends and so does its solver;
* runner: one lease per attempt on every path, a second image task only after one that
  the stream did not show, a retry elsewhere, the code told to the client is what was
  marked, the job ends;
* request: a slot exactly while it serves, no image lost, an error only if
  nothing succeeded, it ends, also when its client has gone;
* reload: all parts agree outside a reload, nobody sees it go backwards, an edit
  is found, nobody is blocked;
* blob store: late collection cannot be seen;
* stream and poll: nothing lost or reordered, what was seen counts, waits grow
  and stay bounded, both end.

`PROJECT.json` lists the hazards of the code at their lines, each with the
properties that watch it.

## Modules

| Module | Models | Notes |
|---|---|---|
| `Gate` | queue gate | every action is one critical section of `g.mu`, or the moment the select returns |
| `FifoSlots` | what a gate promises | a line in which each client knows who is ahead; no counters, no slice, no flags |
| `StateStore` | state store in memory | the store's operations as operators; one operation happens under the pool's mutex |
| `AccountState` | what the pool relies on of a store | each call is one step, also one whose answer is lost |
| `RedisStore` | state store in Redis | the calls command by command, any number of sidecars, lost answers, commands sent twice or executed late |
| `Pool` | account pool | account entries are pointers: `Objects` are addresses, one that nobody refers to may be allocated again |
| `Runner` | image runner | extends `Pool`; each step that touches the pool *is* the pool's action |
| `Attempt` | sentinel requirements, uploads, the calls of one attempt | what `Runner` takes as one step each, call by call; shown to do what `Runner` lets a job do |
| `ImageRequest` | image request | extends `Gate`; a job is its outcome, of which `Runner` says how it comes |
| `Reload` | hot reload, configuration | a configuration is what the reload tells apart; the file system's clock gives modification times |
| `BlobStore`, `PromptCache` | blob store, what the URLs promise | |
| `SseStream` | event stream | a line is its kind, an event the references it carries |
| `Poll` | image poll | time passes while it sleeps or waits for an answer; its own steps take none |
| `MC*` | | instances for TLC: lists of configurations, symmetry, views; `MCParts` runs three components that share nothing, one in each behaviour |
| `*Proofs` | | theorems about the module of that name; `PartsProofs` those about `BlobStore`, `SseStream` and `Poll` |

### State and actions against the code

**Gate.** `active`, `pending` and `waiters` are the fields of `Gate`; `granted` and
`canceled` the flags of `waiter`; `pc` is where a call is, in particular
`"abandoning"`: the select has taken `ctx.Done` and the mutex is not taken yet.
`AcquireFast`, `AcquireFull` and `Enqueue` are the three outcomes of the first
critical section; `WakeReady` and `WakeDone` the select, which may take either
case when both are ready; `AbandonLate` and `Abandon` the second critical section;
`Release` is `sync.Once` around `release`, which is `HandOver` or `FreeSlot`.

**Pool and StateStore.** `Look` reads the time at the head of the loop of
`Acquire`; `Grant`, `Miss` and `NoAccounts` are the critical section after it, with
`now[j]` the older time, so that other critical sections fall between. A scan reads
cooldowns up to the entry it takes, and each read deletes what has expired
(`WithoutExpired(ReadUpTo(...))`), or fails. `Reload` walks the list as the code
does: an existing object of the name (the last one) is used again, otherwise a new
one; two entries of one name may get one object. `Release` acts on the object the
lease points to, the marks on the first listed account of the name.
`RecordBegin`/`RecordFailure` keep the two times of `RecordNoImageFailure` apart.
A store operation has an outcome: it took effect, it took effect and its answer was
lost, or it did not; the in-memory store never fails (`StoreMayFail = FALSE`).

**RedisStore.** `op` is the call a sidecar is in, with the command it waits for:
`Begin` starts it, `Executed` lets Redis execute the command, whose answer arrives
or is lost, `NotExecuted` is the error of a command that was not. `AfterRead` is the
decision of `MarkCooldown` after its read, `AfterAnswer` also the `Del` of an expired
time in `CooldownUntil`. A `MULTI` block (`record`, `count`, `clear`) is one command.
`late` are copies that Redis may execute later: go-redis sends a command again when
its answer does not come. Each command carries the time its sidecar read before.
`Expire` is the time to live of the keys.

**Runner.** `stage` is the line `Run` has come to. Two contexts are two sets:
`canceled` (the request's) and `expired` (the task's deadline, new in each
attempt). `Cut` is the context given to the calls. `Streamed` is the end of the
stream whatever ended it: the stream's error is ignored in the code
(`runner.go:294`) and what was seen until then decides. The upstream may have begun an
image task that the stream did not get to show: `began` of `Streamed` and `CallFails` is
its choice, `tasks` counts those it began and `unseen` keeps the jobs whose stream
ended without showing one. `Failures` has a status answered before the context was done
too: what is left of a body that breaks off is read without a look at the error
(`client.go:309`). `Tell` is
`classifyUpstream` with its marks, `Charged` is `recordNoImageFailure`, `Deferred` the
deferred calls of `runOnce`, `Retry` and `Return` the loop of `Run`. `Downloaded` may
end with an image although the context is done by then: `runConversation` looks at
what it has, not at the context.

**Attempt.** `stage` is the call the attempt waits for. `Failures` are the ways a call
may fail, `classifyUpstream` and `Tell` what they become; `CallFails` is the error
return of every call whose error is returned. `TwoStepFails` is each of the three
places of `ChatRequirementsV2` that goes over to the single step; `StandIn` shows
that nothing of the two steps is kept then. `cr.of` is the challenge that was answered
last, `cr.token` what the answer carried: the code asks of it only that it decodes, so the
token may be missing (`Answered`, `StandIn`). `solver` and `ch` are the goroutine of
`getRequirements` and its channel of one place, `Proved` and `ProofTimeout` the select
that waits for it. `Usable` and `Ignored` are the two places where references of
uploads and previews are taken out, `Download` the comparison of contents.

**ImageRequest.** `QueueStep` lets the gate take the call's steps; `TurnAway` is the
error return. `JobEnds` is a job's return and its send into the buffered channel,
`Collect`, `GiveUp` and `Finish` the loop with its select and what follows it,
`Leave` the deferred `Release`. `gone` is the request's context, `late` the deadline
of the wait, which is a child of it.

**Reload.** One action per step of `reloadConfigIfChanged`: the lock with the first
`Stat` (`Unchanged`, `Changed`), `Load` (`LoadFile`, `LoadFails`), the write-back of
generated ids (`Save`; `SaveFails`, which may leave a file cut short under a new
modification time, since `os.WriteFile` empties it first), one `Apply` for each of pool,
runner and blob store, `Publish`, and the second `Stat` (`Restat`). `Edit` and `Remove`
are the user; an edit that leaves the modification time as it was (`coarse`) cannot be
found by any program that looks at it, and no property asks for it.

**BlobStore.** `Put`, `Get` and `SetTTL` each collect first, with the strict
`now.After` of the code.

**SseStream.** `ReadLine`, `EndOfBody`, `ReadFails`, `Send` and `Close` are the
goroutine of `parseSSE`, `Take` and `RangeEnds` the loop of `ParseImageSSE`.

**Poll.** `EndByTime`, `EndByCtx` and `Call` are the head of the loop; `Answer429`,
`AnswerError` and `AnswerMapping` the three branches behind the call.

Variables marked `history` in the modules are not in the code; they record what a
property needs.

## Runs

All twelve finish within minutes on two cores. Each run asks a question of its own;
`PROJECT.json` pairs every property with a mutation of the code's model that
the run detects, so no property holds by the shape of the model.

| Run | Asks | Bounds |
|---|---|---|
| `MCGate` | counters as sizes of what they count (`CountersMatch`), hand-over and cancellation races, order of service (refinement of `FifoSlots`), return of canceled calls, no starvation | 4 calls that come again, limit 0 (which `New` turns into one slot), 2 pending places |
| `MCPool` | exclusive leases, usable accounts only, marks that stay | 2 jobs, 2 names, 3 objects, 2 reloads among 3 lists (new credentials, an account taken out and brought back, no accounts), store failures, 1 report; 2 reports while one account is listed and nothing was reloaded (`Bounded`); time 1..3 |
| `MCRunner` | two jobs compete for one account: one lease per attempt; the code told is what was marked | 1 account, one job with reference images, time 1 |
| `MCRunnerRetry` | one job and its retry: a second image task only after an unseen one, another account, the failure policy of one window, it ends | 2 accounts of which a reload takes one out, time 1..3 |
| `MCRunnerTimeout` | does a timeout end as a timeout? It does not: see findings | as `MCRunner`, one job |
| `MCRedis` | is a call one step although others write between its commands? a failure counted once | 2 sidecars, 1 account, 3 calls of any kind, 1 late command, cooldowns 1 and 2, time 1..3 |
| `MCAttempt` | token, if any, and proof fit, only new images, it ends, it does what `Runner` says (`AttemptIsRunners`) | 0..2 reference images, 3 file ids, 1 sediment, 2 personas |
| `MCAttemptToken` | is a conversation opened with a token? Not always: see findings | as `MCAttempt`, up to 1 reference image |
| `MCRequest` | what a client is told that the queue turned away; jobs under a slot, images and errors of several jobs, ends | 1 slot, 1 pending place; 2 requests of two jobs with one or two images each, or 3 requests of one job (n = 0 becomes 1) with one image; 1 departure |
| `MCReload` | the parts agree, views in order, edits found, nobody blocked | 2 requests, 2 edits among 4 configurations (no ids, unset queue size, no accounts, malformed), file away at any time, 3 ticks |
| `MCReloadLost` | is every edit found? It is not: see findings | 2 requests, 2 configurations |
| `MCParts`, blob store | refinement of `PromptCache` (`LazyIsPrompt`) | 3 blobs, times to live -1, 0 and 2, time 0..4 |
| `MCParts`, event stream | conveyance, the result, both ends | bodies of up to 5 lines, 2 references, channel of 2 |
| `MCParts`, poll | what the status says, backoff, overrun, end by context | 3 files (1 ignored), 1 sediment, 2 wanted, wait of 24 with a backoff of 3, 6, 9, 9, ... |

Why these bounds are enough.

* Gate: the races need a holder, a waiter that is canceled while it is granted, and
  one behind it; the fourth call makes the line full. Calls come again without
  bound, so no counter can drift unseen.
* Pool: two jobs are needed to share an account, two reloads to take an account out and
  bring it back as another object while it is leased, and with them a third object. One
  report is enough for each mark to meet every reload. Two reports meet on one account,
  so that a shorter mark may come after a longer one (marks of `Cooldown429` last 2,
  those of the policy 1), with lost answers and lazy deletions in between; that part of
  the run has no reload, to keep it within minutes. The thresholds and cooldowns keep
  the order of the code's (a free account is cooled at once, a paid one at the second
  failure here, at the third there); the window is longer than one tick, so failures
  age.
* Runner: an attempt makes at most two reports and a job two attempts, so
  `MaxReports` is not reached and the count of reports is left out of the view.
* Redis: the gap of a read and a write needs two sidecars, and a third call lets a
  mark, a read that deletes and a clear meet in one gap. Three ticks let a cooldown
  of 1 run out while one of 2 is there. One late command is one more writer at a time
  of its own choice. Names share no key, so one is enough.
* Attempt: two images upload in turn, so that the second may fail after the first; the
  third file id is a result. One sediment is preview and result.
* Request: a slot, a place and a third request are one of each kind; a reply that
  must be put together needs two jobs, and one with two images overfills it. The requests
  are alike, so they arrive in the order of their names; a third one comes only when each
  has one job. The bounds are conjuncts of the next-state relation (`Bounded` of
  `MCRequest`) and take no step from a handler, so fairness means what it does without them.
* Reload: an edit is a race with one reload at a time (`reloadMu`); a second edit
  falls into any step of the reload of the first. Three ticks tell before, at and
  after.
* Stream: a channel of two is full with two events, and five lines put more behind
  the end mark than it takes. The code's 64 changes the numbers only.
* Poll: the wait is long enough for the backoff to reach its cap and stay there, and for
  a good answer to start it again.

Symmetry is used where the properties are invariants and boxes over steps that treat
jobs and objects, or sidecars, alike (`MCPool`, `MCRedis`). Views leave out the fields
of account objects nothing refers to, which are set again when the object is allocated,
and the counters of reports where those are never at their bound.

Deadlock is checked in `MCGate` and `MCPool`, where some step is always possible. It is
off where the modelled thing ends: jobs that have returned, requests that were
answered, an attempt, a stream or a poll that is over, calls to Redis used up. That
these end, and not elsewhere, is what their liveness properties say.

## Fairness

Weak fairness for the steps a goroutine takes on its own: the Go scheduler runs a
goroutine that can go on, and `sync.Mutex` does not starve one. Nothing more is
asked for, but for:

* **a random select** (`Runner`: strong fairness of `NotAcquired`). The backoff loop
  of `Acquire` returns to its select again and again; when both the timer and the
  context are ready Go picks at random, so an ended context is taken in the end;
* **timers** (`AcquireDone`, `Expire`): a deadline passes;
* **calls whose context is done fail** (`Cut(j) /\ UpstreamStep(j)`, `Cut /\
  UpstreamStep` of `Attempt`, `canceled /\ ReadFails`, `ctx # "live" /\ AnswerError`):
  this is what `http.Request.WithContext` gives, and `http.Transport` lets a caller go
  that waits for a connection still being dialled. An upstream that still has time owes
  nothing, and no property assumes that it answers;
* **the solver of a proof ends** (`SolverEnds`): its loop has 100000 tries;
* **the context of a stream ends** (`Cancel`): `runOnce` defers it, and the deadline of
  the task comes at the latest.

Two properties need more and name it as a hypothesis of their own, so that it is
seen: `WaiterServed` (`LeasesEnd => ...`: the server defers `Release` right after
`Acquire` and every job has a deadline) and `RequestEnds` (`JobsRun => ...`: a job
returns, which is `RunReturns` of `Runner`). `CancelReturns` and `GoneReturns` hold
without them. `MCParts` states the fairness of `StreamFairSpec` of `SseStream` and of
`CtxFairSpec` of `Poll` for its parts.

## Proofs

| Theorem | Says |
|---|---|
| `GateInvariant`, `GateTypeCorrect` | the inductive invariant of the gate |
| `GateCounters` | `CountersMatch`: `active` is the number of calls that own a slot, at most `limit`, and `pending` that of the calls that wait, within its bound |
| `GateNoIdleSlot`, `GateWaitersReachable` | no free slot while a call waits; `release` finds every waiting call |
| `GateFifo` | `GateIsFifoSlots`: the gate implements the abstract line `FifoSlots` |
| `PoolInvariant`, `PoolTypeCorrect` | the inductive invariant of the pool; `nextIndex` stays in the list |
| `PoolLeaseExclusive` | `LeaseExclusive`, also with empty lists and lists that name an account twice |
| `PoolGrantHonoursMarks` | `GrantHonoursMarks`, an action property |
| `PoolNames` | `OneLeasePerListedName`, if no list has a name twice |
| `PoolCooldownKept` | `CooldownKept`, if no list has a name twice |
| `PoolDisabledUntilNewCredentials` | `DisabledUntilNewCredentials`, if no list has a name twice |
| `PoolFailurePolicy`, `RunnerFailurePolicy` | `FailurePolicy` of the pool and of the image jobs, if the store does not fail and a free account is cooled at its first failure, as in the code |
| `RunnerInvariant`, `RunnerUsesPool` | `Runner` implements `Pool`: the pool's theorems hold of the real jobs |
| `RunnerLeaseSpansAttempt` | one lease per attempt |
| `RunnerSecondTaskOnlyUnseen` | `SecondTaskOnlyUnseen`: the upstream begins a second image task for a job only if the first was begun in a stream that ended without showing it |
| `RunnerCodeTellsTheMark` | `CodeTellsTheMark`, if the store does not fail |
| `RunnerRetryElsewhere` | `RetryElsewhere`, if the store does not fail, no list has a name twice and no reload brings new credentials |
| `RedisInvariant` | the inductive invariant of the store in Redis |
| `RedisFailuresCountedOnce` | `FailuresCountedOnce`: commands sent twice or late count no failure twice and lose none that was acknowledged |
| `RedisFreshIsAtomic` | `FreshIsAtomic`: every step is one of the abstract store, but for writes decided before the key was written by another |
| `RedisAloneIsAtomic` | with one sidecar and no late command there is no exception: the pool may take each call for one step, as `Pool` does |
| `AttemptFitsOneChallenge` | `FitsOneChallenge`: token, if there is one, and proof are of the challenge answered last |
| `AttemptOnlyNewImages` | `OnlyNewImages`: an edit returns no input and no preview |
| `AttemptImplementsRunner` | `AttemptIsRunners`: call by call an attempt takes the steps of a job of `Runner` |
| `RequestUsesGate` | `ImageRequest` implements `Gate` |
| `RequestSlotWhileServing`, `RequestJobsUnderSlot`, `RequestTurnedAway` | slots and jobs of a request |
| `RequestNothingLost` | `NothingLost`, for any number of requests, images and errors |
| `RequestErrorOnlyIfAllFailed` | `ErrorOnlyIfAllFailed` |
| `ReloadInvariant`, `ReloadTypeCorrect` | the inductive invariant of the reload |
| `ReloadEditIsFound` | `EditIsFound`: an edit outside a reload is seen by the next request |
| `ReloadPartsAgree`, `ReloadViewsInOrder`, `ReloadGateFits` | the parts agree; no view goes back; the queue in force serves no more than the pool has accounts, but between the pool's reload and the new runtime state: then no more than it had |
| `BlobTypeCorrect`, `BlobIsPrompt` | the blob store implements `PromptCache` |
| `StreamInvariant`, `StreamConveys` | `Conveyed`: body, parser, channel and consumer hold the same events in the same order |
| `StreamResultIsPrefix` | `ResultIsPrefix`: every reference of the events taken, once, in the order of arrival |
| `PollInvariant`, `PollStatusTellsAll` | `StatusTellsAll`: no answer is forgotten, whatever follows it |
| `PollOverrunBounded`, `PollBacksOff` | `OverrunBounded`, `BacksOff`: for every interval, backoff and cap |

They rest on the named assumptions in the modules (`GateAssumption`,
`StoreAssumption`, `PoolAssumption`, `RunnerAssumption`, `RedisAssumption`,
`RequestAssumption`, `ReloadAssumption`, `BlobAssumption`, `StreamAssumption`,
`PollAssumption`, `AttemptAssumption`): finiteness of the sets of actors, ranges of
numbers, and that "no error" is not one of the error codes. They hold for any number
of calls, jobs, accounts, reloads, edits, lines and answers.

**Gate.** The counters alone are not inductive: to know that `HandOver` serves a call
that waits, one needs that the live positions of the slice hold exactly the waiting
calls, each once, and that no call is both granted and canceled. `IInv` joins these
with the counters as cardinalities and with `pending > 0 => active = limit`, which is
what makes the fast path and the hand-over agree. Each action then moves one call
between the sets, and the library's facts about cardinalities do the counting.
`GateFifo` needs also that no waiting call is in the slice twice (`LiveOnce`): then who
is ahead of a call in the line is a matter of positions, an append puts a call behind
all others, and `HandOver` serves the one with nobody ahead.

**Pool.** `LeaseExclusive` needs to know that a reload never allocates an object
that a lease refers to (`Fresh` excludes it) and that a job that owns no lease refers to none
that is busy. `GrantHonoursMarks` compares with a time read earlier; it needs
`now[j] <= clock`, and that a cooldown past at an earlier time is past now; the
lazy deletion removes only expired ones. `PoolNames` adds that different objects of
the list have different names, which a reload keeps when the new list has none twice:
the object of a name that is listed is used again.
`PoolCooldownKept` and `PoolDisabledUntilNewCredentials` go over the steps: a scan
deletes only what has expired, a mark takes the later end, and what a reload clears
or enables is an object whose snapshot it changes (`ChangedEntry`). The three need
`NoDuplicateNames` because of `Pool.Reload`: two entries of one name with
different credentials end up in one object, count as changed in every reload, and may leave
the object with the credentials it had. `Config.validate` does not refuse such a list.
`PoolFailurePolicy` counts the failures that `Recorded` keeps: none is older than the
window before the one that is recorded, which `Recent` gives, and none is in the future,
which needs an invariant of its own (`RecordsPast`, from `now[j] <= clock`), since the
code records a time it read before it waited for the mutex. That no other step adds a
record is `RecordsDropped`. The two hypotheses are needed: a store that fails may hide
the persona from the policy or drop the cooldown.

**Runner.** `RunInv` says where in the pool a job is in each stage of `Run` (`PlaceOf`).
With it every step of `Runner` is a step of `Pool` or a stutter.
`RunnerSecondTaskOnlyUnseen` needs that a retry happens only if the stage before showed
no task: `StartInv` (theorem `RunnerStart`) follows code, reason, the tasks the upstream
began and those that were not shown through the stages. `RunnerRetryElsewhere` puts the
pool's results together: what an attempt was charged for stays a cooldown until it is
over (`ChargedKept`, by the step behind `PoolCooldownKept`), and a grant looks at
cooldowns (`GrantStep`). New credentials end a cooldown early, so with them the second
attempt may rightly get the account again; a store that loses the mark cannot keep the
promise either.

**RedisStore.** `RedisFreshIsAtomic` needs, for each write that a call or a late copy
still has before it, that the reading it was decided on is the key's value as long as
`fresh` says so. Then a `Set` that is executed is a mark that never shortens, and a `Del`
drops only what has expired. `RedisFailuresCountedOnce` needs that two records with one
id are one (`Begin` gives each call its own) and that an acknowledged record leaves
only by the window, whose end moves forward, or by a clear. For one sidecar without
late commands no other writer exists, so no write is ever stale.

**Attempt.** `FitsOneChallenge` follows the requirement from its answer to the proof:
while the solver works, and when its answer lies in the channel, it is for the seed of
`cr`, which is of the challenge answered last (`of`), and a stand-in takes challenge,
seed and token over together. What it does not say is that there is a token: see
findings. `OnlyNewImages` follows references from the stream or the poll to the images.
`AttemptImplementsRunner` maps each call to a step of `Runner` (`IsCallFails`,
`IsRequired`, `IsStreamed`, ...) or to none (`InGroup`). It needs `OnItsWay`: before the
requirement is had neither a token is known nor the pool told anything, and until the
attempt ends the pool was told of the persona at most, so that each mark is a new one;
an upload is begun for an edit only; and the poll is entered with a task and without
references.

**ImageRequest.** `RequestInvariant` has the same form over `Gate`.
`RequestJobsUnderSlot` bounds requests by `GateCounters`: it injects the requests with
live jobs into the holders. What a reply carries needs `GatherInv`: the channel holds
each ended job whose result was not received, once; `completed` is the number of
those received, `items` the sum of their images cut off at n, and `lastErr` the code
of one of them. So when the loop ends without n images, every job's result was
received, and without any image every job failed.

**Reload.** The holder of `reloadMu` is the only one inside (`LockHeld`), and its
place determines which parts have what it loaded (`Ours`) while the others have
what is in force (`Others`). Versions only grow, from a request's views over the
runtime state and what is loaded to the file (`Versions`, `Seen`); this gives
`ViewsInOrder`. Slots are counted for each generation of the queue, and the queue in force
has the size of the runtime state's configuration at all times (`GateFits`), also while
the pool has another one. `EditIsFound` compares times of the file
with the time recorded (`Times`), and follows an edit to the reload it may fall in (`LastEdit`).

**BlobStore.** A collection in any call changes nothing in `[i \in Available |-> items[i]]`
(`CollectUnseen`), so each call maps to the abstract one, and only `Tick` removes.

**SseStream.** The events of a body are defined by positions, not by recursion: an event
ends at a blank line that has data before it (`EventEnds`), and `Pick` puts what lies at
a set of positions in their order. So one more line extends the events in a way that can
be proved by itself (`BlankCloses`, `OtherLineKeeps`): the lemmas about `Pick` rest on
`LeastExists`, that a nonempty set of numbers has a least member, which takes the place
of induction over the length. `Carrying` adds to `Conveyed` that the buffer of the
parser is the rest of the lines behind the last event. `ResultGrows` shows that
`NewRefs` appends the references seen for the first time, in their order, after all
others; a reference's first sighting (`Sighted`, `Before`) never moves (`SightedTake`).

**Poll.** `PollInv` has three parts: how late a call or a pause begun in time may end
(`InTime`), that a pause lasts at least as long as the answers of 429 before it call for
(`WaitsOut`), and that the references kept are those of all answers (`Remembers`).
`BacksOff` counts the answers of 429 that follow each other, the code does not start its counter
again after another error; `WaitsOut` ties the two (`last429 <= rate`).

Model-checked only:

* liveness (`CancelReturns`, `WaiterServed`, `RunReturns`, `AttemptEnds`, `GoneReturns`,
  `RequestEnds`, `RequestsPass`, `CancelReleases`, `CtxReturns`), which the installed
  provers do not do under fairness, for want of `ENABLED`;
* what a parser of lines or a fold computes for every input by recursion: the prover has
  no induction over data, which is why `SseStream` says by positions what an event is.

Every invariant and every action property that a passing run checks is stated by a theorem.

## Findings and observations

Three runs end in a counterexample, on purpose:

* **An edit during a reload can be lost** (`MCReloadLost`). `README.md:251` promises
  that the next request finds a change of `config.yaml` by its modification time.
  `reloadConfigIfChanged` reads the file once and, after applying it, records the
  modification time of a second `Stat` (`server.go:151`). An edit between the two is
  recorded as known without having been read; no later request loads it, until the file
  is touched again.
* **A timeout does not always end as a timeout** (`MCRunnerTimeout`). `README.md:152`
  says that a job that times out is recorded as `image_timeout`. A deadline that
  passes while the stream is read ends the stream without a task, the attempt ends as
  `no_image_task` and is retried with a new deadline (`runner.go:332`), also when the
  upstream was at work on an image it had not shown yet; on an account
  that is not paid any timeout, also one in the poll, is charged, cools the account and
  ends as `rate_limited`.
* **A conversation may be opened without a token** (`MCAttemptToken`). `image.go:43` says
  of `ChatToken` that it must be passed, and `client.go:284` knows answers of
  the upstream with an empty one. An answer below 400 that decodes is taken whatever its token
  (`client.go:313`, `client.go:492`), no fallback is tried, and the header is sent empty
  (`image.go:143`, `image.go:277`); the calls of a text conversation refuse that
  (`fchat.go:55`, `fchat.go:139`, `conversation.go:75`).

Met while modelling, and in the models as the code has it; each is a schedule worth
knowing, none contradicts a document strongly enough to be kept as a run:

* A consumer that stops at `[DONE]` leaves the parser in its send if the upstream
  sends more events than the channel takes (`conversation.go:162`): the send does not
  look at the context, so the goroutine and the connection stay. `StuckInSend` is
  the exception in `CancelReleases`; the comment at `conversation.go:72` says that
  canceling the context frees the connection.
* The no-image window of a failure begins before the time read ahead of the mutex but
  has no end (`state_store.go:108`, `pool.go:270`): a failure that another job recorded
  later, while this one waited, counts as well. Failures that are farther apart than the
  window, by up to that wait, can thus cool a paid account; it takes two leases of one
  account name, which a reload makes possible. TLC finds the schedule if the window is
  required to be exact; `FailurePolicy` says what holds.
* Marks go by name. A job that was given an account before a reload and gets its 401
  after it disables the account that now has new credentials (`pool.go:334`).
* A stream that ends because the request was canceled is charged to the account like
  one in which the upstream started nothing (`runner.go:343`).
* When the size of the queue changes, requests that hold slots of the old queue go on
  while the new one admits as many again; `README.md:146` sizes the slots by the
  accounts. `CurrentGateFits` is what remains true, and is proved: the queue in force never
  admits more than the pool has accounts, but while a reload has given the pool its accounts
  and not yet stored the runtime state, when it fits the accounts that were there before.
* The comment at `image.go:521` says that `PollStatusError` stands for a break after answers
  of 429 or for the end of the context. The code has no such break: answers of 429, however
  many, lengthen the pauses until the time is over, which is a timeout (`image.go:567-576`,
  `image.go:631`), and the deadline of the context is a timeout too (`image.go:556-562`).
  `StatusTellsAll` states what the code does: an error means that the request canceled.
* A second image task is begun when the first was not shown: `no_image_task` is the code of
  a stream that ended without a task's id or references, be it that the upstream began
  nothing, that the deadline cut the stream, or that an edit's stream had shown previews
  only (`runner.go:320-332`). `SecondTaskOnlyUnseen` says that nothing else leads to one.
* The write-back of generated ids replaces whatever the file holds by then
  (`config.go:229`): an edit saved between `Load` and the write is gone. When the write
  breaks off, the next request finds a file cut short, which is rejected or, if it decodes
  to fewer accounts, loaded.
* Jobs canceled at the end of their request hold their accounts for a moment when
  the slot has already been given on, so the next request's jobs may wait in the pool.

* Two sidecars on one Redis can lose the longer of two cooldowns: `MarkCooldown` reads,
  compares and sets (`state_store.go:209-227`), and another sidecar's mark or clear may
  fall in between; likewise the `Del` of an expired time may delete a new one. With a
  command that is executed late this can happen to one sidecar. `FreshIsAtomic` says that
  this gap is the whole exception.
* An upload's `PUT` goes to the storage service, not to the upstream. When that service
  answers 401 or 403 (`files.go:155`), the answer is classified like the upstream's own
  (`client.go:213`) and the account is disabled.
* The comment at `client.go:433` asks callers to call `Bootstrap` first; `getRequirements`
  does not. Only the single step that stands in does it for itself.
* A poll with an empty conversation id fails in every round until its time is over.
* A proxy that accepts a `CONNECT` and never answers leaves the goroutine that dials
  waiting (`utls_transport.go:243-252` does not look at the context); the caller itself
  is let go by `http.Transport`.

## Not modelled

* **Payloads**: what a conversation, an upload or a requirement contains, the search for
  the hash of a proof, the order of references. To the properties a call is its outcome.
* **The turnstile solver**: an option this program does not set; a requirement that wants
  one goes to the single step.
* **A difficulty longer than a hash**: `pow.go:255` cuts the hash, 128 characters, to the
  length of the difficulty; a longer one makes it panic, in a goroutine or in the attempt
  itself, which ends the process. The models take the upstream's difficulty to fit.
* **Older modification times**: an edit that gives the file a time before the recorded one,
  as a copy that keeps times does, is never found, since `server.go:118` asks for a later
  one. `Edit` gives the file the time of the clock.
* **Code without a caller**: `InitConversation`, `StreamConversation`,
  `GetConversationHead` and the older calls of `fchat.go`.
* **TLS transport**: connections, fingerprints, the choice of protocol. To the rest
  it is a call that fails.
* **Decoding of requests and configurations**: the checks are one nondeterministic
  choice (`Refuse`, `validate`); what they compare is data.
* **Start and shutdown, crashes**: nothing is persisted but the configuration file and
  what Redis keeps; a restart begins with `Init`. Shutdown waits for the HTTP server
  with a bound and changes no modelled state.
* **Logger, scripts, deployment.**

## Plan

Built so far, in this order: gate, pool with store, runner on the pool, request on
the gate, reload, blob store, stream, poll; then the store in Redis shared by sidecars,
the calls of one attempt with the requirements protocol, and the proofs of all of these.
What is left would add to this:

1. **Request over jobs over pool**: `ImageRequest` composed with `Pool`, for the jobs that
   hold accounts after their request's slot was given on. Today `RunReturns`,
   `LeaseSpansAttempt` and `JobsUnderSlot` together say what is known of them.
2. **Reload over gates**: `Reload` with `Gate` for each generation instead of a
   count of served requests.
3. **Proofs**: of 1 and 2 once they are modelled, and of facts on the way to liveness
   that are safety (what a process that waits may rely on).
