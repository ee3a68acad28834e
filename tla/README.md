# pickles-push in TLA+

pickles-push is a push relay: a mail provider posts a change to it, and it wakes
the device that asked to be told, through Apple's APNs.  This directory holds a
formal model of the relay: TLA+ modules translated from the Go source, TLC
configurations that check them on small instances, and theorems about them that
TLAPS checks for every value of the constants.  Paths below are relative to the
repository's `src/`; `PROJECT.json` names, for every definition of a model, the
lines it was translated from.

- [The system](#the-system)
- [The modules](#the-modules)
- [The runs](#the-runs)
- [Fairness](#fairness)
- [What is proved](#what-is-proved)
- [Where the code and its documents disagree](#where-the-code-and-its-documents-disagree)
- [What is not modelled, and why](#what-is-not-modelled-and-why)
- [Plan](#plan)

## The system

### Components, their state and their operations

| component | source | state | operations |
|---|---|---|---|
| registration store | `internal/store/store.go` | a map from delivery tokens to registrations under one mutex; the JSON file it is written to | `Put`, `DeleteIfOwned`, `Delete`, `Prune`, `Open`, `Get`, `ByGmail` |
| push handlers | `internal/relay/relay.go` | nothing of their own: a row read early and used later | `handleJMAPPush`, `handleGmailPush`, `enqueueSilently`, `sendHeld`, `submit`, `deliver` |
| coalescer | `internal/relay/coalesce.go` | open slots (a registration and a lane), the push each holds, its timer, whether it was flushed | `offer`, `expire`, `flush` |
| delivery queue | `internal/relay/queue.go` | a buffered channel, `closed` under a mutex, a wait group | `submit`, the workers, `close`, `wait` |
| push limiter | `internal/relay/limit.go` | token buckets by delivery token, at most `limiterCapacity` of them | `allow`, `forgetFullLocked` |
| registration handlers | `internal/relay/relay.go` | none | `handleRegister`, `handleUnregister` |
| shutdown and prune ticker | `cmd/pickles-push/main.go` | a ticker, the listener, the signal context | `run`, the prune goroutine, the shutdown goroutine |
| Pub/Sub verification | `internal/relay/pubsub.go` | Google's keys, when they were fetched, when a fetch was last attempted | `key`, `load`, `verify` |
| APNs client | `internal/apns/apns.go` | the bearer token and its age | `bearer`, `Push` |
| entitlement policy | `internal/entitlement/entitlement.go` | none: a decision, and how long it lasts | `Admit` |
| transaction verifier | `internal/entitlement/apple.go` | Apple's root | `Verify` |
| health, logging, configuration | `relay.go`, `main.go` | none | `handleHealth`, reading the environment |

### How they interact

A device registers: `handleRegister` reads the clock, asks the policy, which asks
the verifier, and calls `Put` **with the time it read**.  A provider posts: a handler
reads the device's row (JMAP) or every row that watches an address (Gmail) **and keeps
the copy** while it reads the body and decides; a Gmail push is first checked against
Google's keys, which every handler may refresh.  An alert push, and a JMAP push soon after a registration, goes to
the delivery queue; any other goes to the coalescer, which lets the first of a
burst through and holds the newest of the rest until its window closes.  When a
timer fires, or at the shutdown, the coalescer calls `sendHeld`, which reads the
row **again** and submits.  A worker takes the push off the queue, asks the
limiter, asks whether the subscription has lapsed, and sends it to Apple under a bearer token that all workers
share; if Apple says that the device is gone it deletes the row **the delivery token has
by then**.  On a signal the listener closes and `main` goes on at once, with
handlers still in flight: `Close` flushes the coalescer into the queue and closes
the queue, `WaitForDeliveries` waits for the wait group, and the process ends.

### What is hard about it

- *Memory before file.*  The store changes its map first, writes the whole file
  after, and keeps the change when the write fails.  What the file says lags what
  memory says; a restart goes back to the file.
- *Decide under the mutex, act outside it.*  The coalescer gives up its mutex
  with a push in hand, so that push is in no slot and in no queue; a timer that
  has fired cannot be stopped; a reading of the clock (`limit.go`) may be older
  than the one already used.
- *Rows captured early.*  Between the reading of a row and the send the row may
  have changed its mode, its device, or gone.
- *Caches judged by somebody else.*  A bearer token is handed out now and judged by Apple
  later; Google's keys are looked up now and replaced later, by a fetch made with no lock.
- *Four places, one expiry.*  The verifier, the policy's grace, `Prune` and `deliver` each
  compare a clock with the end of a proof, each in its own way.
- *Shutdown against everything.*  Handlers, timers and workers run while the
  queue closes: a send on a closed channel panics, an uncounted job is lost, an
  over-counted one hangs the process.
- *Counting net of what leaves.*  `Put`'s limits count the rows there will be,
  less the ones this very call replaces.
- *Bounds.*  The channel, the site, an address, the buckets and a window each
  have a limit, and something happens at the limit that ordinary tests do not see.

### What makes each component correct

| component | properties |
|---|---|
| store | one row per device and app in memory and on disk (`OneRowPerDevice`); an owned row keeps its owner through failures and restarts (`OwnerKept`); limits hold although they are counted net (`WithinSiteLimit`, `WithinPrimaryLimit`) and never turn away who is already here (`KnownDeviceNotTurnedAway`); what was answered is on disk (`AnsweredIsDurable`); rows go in time (`RetainedNoLonger`) |
| coalescer | the newest push is never lost (`NewestKept`); an open window has exactly one thing that ends it (`OneTimerPerWindow`); pushes are a window apart (`AtMostOnePerWindow`); windows end (`EventuallyQuiet`); it implements `Mailbox` (`KeepsPromise`) |
| queue | accepted work is never lost (`NothingLost`), is counted (`CountedExactly`), is attempted before the process ends (`AcceptedIsAttempted`) and in any case in the end (`AcceptedIsFinished`); nobody sends on a closed channel (`NoSendOnClosed`); a shutdown ends (`ShutdownEnds`) |
| limiter | no more than a burst and the refill in any stretch of time (`RateBounded`); crossing clocks put nobody in debt (`NoDebt`); the map is bounded (`WithinCapacity`); one log line per spell of refusals (`OneLinePerSpell`) |
| registration handlers, policy, verifier | the policy, the table and the delivery agree on when a proof is over (`ServedAsAdmitted`); a row is pruned only when its device has been silent for long enough or its proof is over, however the registrations of that row overtook one another (`PrunedOnlyWhenOver`) |
| Pub/Sub keys | a failed or overtaken refresh costs no key that is known (`KnownKeyNotRefused`); the keys never go back to an older document (`KeysNotSetBack`); one attempt per window among all callers (`AttemptsSpaced`); a key withdrawn long ago is honoured only while it cannot be asked about (`StaleOnlyWhileAsking`); a rotation is heard of (`RotationHeard`) |
| APNs client | Apple never objects to the bearer token, although it is judged later and by another clock reading than it was handed out by (`BearerAccepted`); only a device that Apple does not know is reported as gone, whatever becomes of the answer on its way (`OnlyTheGoneUnregistered`) |
| relay, put together | a silent push stays silent (`SilentStaysSilent`); the newest push of a slot can always be accounted for (`NewestAccounted`) and is settled in the end (`NewestIsSettled`); the flush comes before the close (`HeldIsFlushed`); the parts, composed, still behave as their own specifications (`TableAsSpecified`, `SlotsAsSpecified`, `QueueAsSpecified`); a signal ends the process (`ShutdownEnds`) |

## The modules

| module | what it is |
|---|---|
| `Store` | `store.go` and the prune ticker and restarts of `main.go` |
| `Mailbox` | the abstract promise of the coalescer: the newest change accepted is never thrown away and goes out in the end |
| `Coalescer` | `coalesce.go`, which implements `Mailbox` |
| `DeliveryQueue` | `queue.go` with the part of `main` that closes it and waits |
| `Limiter` | `limit.go` |
| `Relay` | `relay.go` and the shutdown of `main.go`, composed of an instance each of `Store`, `Coalescer` and `DeliveryQueue` |
| `Entitlement` | `entitlement.go` and the checks of `apple.go`: pure operators of a policy, a request and a time |
| `Registrar` | the registration handlers of `relay.go`, composed of `Entitlement` and an instance of `Store` |
| `Jwks` | the key cache of `pubsub.go`, and Google |
| `Apns` | `apns.go`, and Apple |
| `MCStore`, `MCLimiter`, `MCRelay`, `MCRegistrar` | values of constants for TLC |
| `StoreProofs`, `CoalescerProofs`, `DeliveryQueueProofs`, `LimiterProofs`, `RelayProofs`, `JwksProofs`, `ApnsProofs`, `RegistrarProofs` | theorems and proofs |

Beside a definition stands, where a run needs one, a variant marked `Mistake:`,
such as `AfterGross` beside `After`.  No specification uses it.  It is a plausible
bug in that definition; put in its place, the property it belongs to (listed under
`mutants` in `PROJECT.json`) must fail.  It shows that the property can be broken by
the code going wrong and that the bounds of the run are large enough to see it.

### Store

`registrations` is the map, `file` what `Open` would read; both are total
functions from tokens to a row or `Absent`.  The mutex is held from the first
check to the end of `flushLocked`, so each operation is one step, and a flush
that fails is an outcome of that step: memory changes and `file` does not.  A
crash before the rename is a failed flush followed by `Restart`.  A row has the
fields something branches on or a property is about: device token, topic, mode,
secret hash, the mailbox in both its shapes, `SeenAt` and `ExpiresAt`.

`Put` is `Verdict` followed by `Stored` and `FlushLocked`.  `Verdict` has the checks
in the order of the code: malformed, owner, accounts in one row, site, address.
`After` and `ForAddress` are its two net counts.  Normalising an address is what
`strings.ToLower(strings.TrimSpace(_))` does to a small set of spellings, a
badly-cased one and a blank one among them; a digest is an injective tag on its
secret, and the empty secret has none.  `DeleteIfOwned` and `Delete` return early
for a token that is not in memory.  `Prune` runs when the ticker does, and
`Restart` starts the ticker's period anew, as `time.NewTicker` in a new process does.
`Put` takes the time it is given: a caller read it a moment ago, at most `MaxDelay` (`Reading`).
`reply` records what the last operation answered.

### Coalescer

The *k*-th push offered to a slot is the number *k*.  `offer`, `expire` and `flush`
each decide under the mutex: one step.  The call of `send` they make after giving
the mutex up is another, `Send`, and between the two the push is in `sending`.
`Fire` is a timer that runs down: from then on it is an `expire` goroutine that waits
for the mutex and that no `Stop` can stop, so it may run after the flush
(`ExpireLate`).  `Tick` lets no timer oversleep; how late its goroutine gets the
mutex is open.  `since` is an observer's clock for `AtMostOnePerWindow`.

`Promise` instantiates `Mailbox` with *newest* the number of pushes offered,
*waiting* what is held or between decision and send, and *delivered* what `send` was given.

### DeliveryQueue

`submit` is two steps, since the wait group is not under the mutex: `Submit` takes
the mutex, finds the queue closed or adds one to the wait group; `Enqueue` is the
`select` and the end of the critical section.  In between `adding` holds the job,
nobody else gets the mutex, and `Close` cannot run.  Workers (`Take`, `Finish`) need no
mutex.  `main` goes from serving to waiting (`Close`) to gone (`Wait`); after that no
goroutine takes a step, which is what the end of a process means.  A job is
submitted once: the model's jobs are pushes, not callers.

### Limiter

`ReadClock` is the reading of the clock before the mutex, `Allow` everything from
the mutex on.  A caller comes with a time up to `MaxLag` old, so the bucket's own
time may go back, and a refill may be negative.  Tokens are counted in parts of a
push (`Cost` parts make one) so that the code's ten a minute are an integer flow;
rounding of floating-point numbers is not modelled.  Which of several equally old
buckets is the victim depends on the map's order: a free choice.  `watch` is an
observer who starts to count one key's pushes at any moment (`Observe`), so that
`RateBounded` is about every stretch of time and not only those that start with
the bucket; `lines` counts the log lines a caller is told to write.

The last branch of `allow`, `tokens >= burst` after one was taken (lines 95 to 98),
cannot be reached, because the refill stopped at the burst; full buckets are
forgotten by `forgetFullLocked` alone.  A sender that is being limited when its
bucket is evicted gets a whole burst again: `RateBounded` speaks of one life of a
bucket, and says so.

### Relay

The three instances share their variables with `Relay`; every action of theirs that
the program takes is an action here, joined with what the relay does at the same
time.  What the composition adds:

- `HandleJMAPPush` and `HandleGmailPush` capture rows; `EnqueueSilently` uses each
  captured row in a later step, on either of its two ways.
- `SendHeld` reads the row again.  Its read and its `submit` are one step, because
  a change in between is indistinguishable from one while the job waits in the queue.
- `Take`, `Deliver`, `Finish`: a worker has a job, hears something of it, and acts
  on what it heard.  `Deliver` chooses among being skipped by the limiter or for a
  lapsed proof, a failure, a success, and "gone", of which the last two depend on
  whether the device is (`gone`).  A deleted row is deleted by its delivery token.
- `CloseFlush`, `CloseQueue`, `WaitForDeliveries` are `Close` and the wait of `run`;
  `Signal` closes the listener and stops nobody else.

`parked`, `dropped` and `flushing` are there for the properties: what was ever held,
what was given up and why, and what the flush has still to send.  Restarts, failing
flushes and pruning are `Store`'s and are not repeated here (`CanFail`,
`CanRestart` are FALSE in the instance, and the period of the ticker is past the
end of the clock).

### Entitlement

`Admit` is the code's: an open relay admits everybody, a secret that is shown settles
the question, otherwise Apple's word does.  `Verify` has the checks of `apple.go` on the
claims, the ages and the environment, as conjuncts: which of several refusals comes
first decides only the text of the answer.  A transaction is its claims and `genuine`,
whether the JWS, its chain and its signature hold.  `ExpiresAt` is the expiry a row gets:
the end of the subscription and the grace, or none.

### Registrar

`Arrive` is `handleRegister` up to the call of `Put`: the shape, the mode, the admission
and the token, at one reading of the clock.  `Write` is the rest: `Store`'s `Put` with the
row that was *seen at that reading*, and the answer.  Between the two the clock goes on,
for at most `MaxDelay`, and other handlers come and go.  `Unregister` and `Prune` are
`Store`'s.  `newToken` returns a token it has not returned before (`minted`).  A flush
does not fail here and the process does not restart (`CanFail`, `CanRestart` are FALSE):
those are `Store`'s question.  `origin` and `heard` are for the properties: the request
a row was made by, and when a registration of it was last answered 200.

### Jwks

`key` looks under the read lock (`Look`), looks again under the write lock, where it
settles for what there is or claims the right to fetch (`Lock`), and fetches with no
lock: Google's document of some moment (`Respond`) is put in place at a later one
(`Install`), or not at all (`Fail`).  `Rotate` is Google publishing and withdrawing keys.
Times are ages, kept up to where the code stops telling them apart, so the model needs no
bound on its clock.  What `verifyPubSub` makes of a signature and claims, once it has a
key, is a free choice of its answer.  `FetchTime` covers all of a fetch, from the
claim to the installation; scheduling delays beyond the HTTP client's timeout are
assumed away, as is a system clock that jumps.

### Apns

A bearer token is the time it was issued at.  `Push` is everything up to the request's
way to Apple, with the step under the mutex (`Bearer`) in it; `Return` is what comes back.
`Answers` are Apple's rules, external to this repository, of which `apns.go` cites those on the
age of a token: too old, or too soon after another.  An answer may come without its body, or
not at all.  `newest` and `first` are what Apple has accepted and what this process minted
first: the rule about tokens that come too soon is claimed of one process.

## The runs

All state spaces are exhausted.  "Distinct" is the number of distinct states.

### Runs that pass

| run | bounds | distinct | the question |
|---|---|---|---|
| `store_identity` | 3 tokens, 2 devices, 2 apps, site of 2, failing flushes, restarts | 57,537 | who may hold a row, who may rewrite it, what comes back after a restart |
| `store_lifecycle` | 3 tokens, 3 devices, 8 shapes of mailbox list, 2 rows per address, 2 accounts per row, lifetime 2, ticker 1, delay 1, clock to 5 | 76,878 | how many rows an address gets, how long rows stay |
| `coalescer` | 2 slots, window 2, 3 pushes per slot | 24,442 | whether the newest push survives, how windows are spaced and end, the refinement of `Mailbox` |
| `queue` | 5 jobs, 2 workers, channel of 2 | 15,858 | what a shutdown loses or waits for |
| `limiter` | 3 keys, 2 callers, 2 buckets, burst of 2 pushes, half a push per unit, lag 1, clock to 4 | 1,118,836 | how much a token gets, what crossing clocks cost, what a full map forgets |
| `relay_modes` | 1 token whose row changes its mode, 1 address, 2 handlers, 2 workers, 2 requests, channel of 1 | 302,280 | what becomes of rows captured at one step and used at another, and whether table, slots and queue, composed, are their own specifications |
| `relay_liveness` | the same registration, always silent, 1 handler, 1 worker | 30,770 | whether the newest push is settled and the process ends |
| `jwks` | 2 key ids, 2 callers, lifetime 3, retry 2, fetch 1, 1 rotation | 38,737 | what fetches made without a lock, failures and a rotation do to a cache that is shared |
| `apns` | 2 workers, 2 devices, bearer lifetime 4, too old 6, too soon 2, push 1, clock to 10 | 74,051 | whether Apple ever objects to the token, and what a cut or late answer is taken for |
| `registrar` | 2 tokens, 2 handlers, 2 devices, 5 policies with up to 22 requests, site of 1, lifetime 2, ticker 1, delay 1, clock to 6 | 931,224 | whether policy, table and delivery agree on a proof, and what a slow registration costs |

Why the bounds suffice:

- *Store.*  A supersede needs a token that replaces another; two rows of one device
  need a third row to be counted against; an address at its limit of two needs a
  third device.  Requests include another secret, an empty one, a mode `Put`
  refuses, and lists too long by one.  In `store_identity` the clock stands still,
  since nothing it asks depends on time; `store_lifecycle` has the clock, both
  expiry rules and their edges, and no failures, since `RetainedNoLonger` is claimed
  only for a process that neither restarts nor fails to write (what restarts
  do to it is described below).  A delay as long as the ticker's period lets a row
  be written that is over before anyone could prune it.
- *Coalescer.*  Three pushes are a leading one, a held one and one that replaces it or
  arrives in the next window; two units of window tell the start, the middle and
  the end apart; two slots show that timers of different slots cross.
- *Queue.*  Two workers and two places hold four jobs; the fifth finds the channel
  full, and `Close` may come at any step between.
- *Limiter.*  Three keys compete for two buckets, so a stranger always finds a full
  map; two callers can cross; a burst of two and a lag of one tell the burst, the
  refill and a debt apart.
- *Relay.*  One slot per lane is enough, since what slots do to one another is
  `Coalescer`'s question; two requests are a leading and a held push, or one on each
  way; a channel of one is full as soon as one job waits.  Two handlers hold captured
  rows at once and two workers are at different points of a delivery.
- *Jwks.*  Two callers can both find a cache stale, and one can install what it fetched before
  the other asks; three callers were tried for the invariants of the proof and add nothing.
  The lifetime, the retry and the fetch differ by one unit each, as the assumption orders
  them.  One rotation can withdraw a key, publish one, or exchange them.
- *Apns.*  The clock goes past two bearer tokens and the end of a third; two workers hold
  tokens of different ages; one unit of push time tells the hand-out from the judgement.
- *Registrar.*  Two handlers with one row between them can overtake each other, with the
  delay in between; a site of one makes the second device a stranger.  Policies: open, secret,
  Apple, Apple with a grace and an age for signatures, both.  Transactions that are each
  wrong in one way stand for the checks of the verifier; expiries of 2 and 4, with and without
  grace, cross the lifetime of a row, and the clock goes past them all.

`CHECK_DEADLOCK FALSE` stands in `queue` and the runs of `Relay`: there the process
ends, and after its end nothing happens.  In the other runs something may always
take a step, and deadlock is looked for.  Symmetry is used where tokens, devices,
handlers, workers, keys or callers are alike, and in no run with a liveness property.

### Runs that find a violation

Each checks one claim of a comment or of the README and ends in a counterexample;
they are described [below](#where-the-code-and-its-documents-disagree):
`finding_gone` and `finding_flushed`.

## Fairness

Safety is checked and proved without any.  Liveness assumes of the program only
what the Go runtime gives it:

- *Coalescer:* time passes, a timer that is due fires, an `expire` that waits gets the
  mutex, a goroutine that decided calls `send`.  Weak fairness: each is enabled until it
  happens, for no one else's step disables it.  Offers and the flush have none.
- *Queue:* the holder of the mutex ends its critical section, a worker with a job ends
  it (`deliver` runs under `deliveryTimeout`), an idle worker takes a job when there is
  one, `wg.Wait` returns when the counter is zero.  Weak fairness.  Nobody has to
  submit, and nobody has to shut down.
- *Relay:* the same, and strong fairness for the steps that compete for the queue's
  mutex, which another goroutine may hold each time they look: `SendHeld`,
  `EnqueueSilently` and `CloseQueue`.  A `sync.Mutex` in starvation mode hands itself to
  the goroutine that has waited longest, so a waiter is not passed over for ever.
  No device registers, no provider posts and no signal arrives by fairness.
- *Jwks:* time passes and a handler that looks, or waits for the lock, goes on (weak
  fairness).  Google can be reached again and again, not always, so `Respond` and
  `Install` have strong fairness and `Fail` may happen in between as often as it likes.
  Pub/Sub redelivers what was not answered with a 2xx, so pushes signed with each key keep
  arriving whenever a handler is free (strong fairness of `Receive`); without them nobody
  would ask Google, and the code does not promise to.

`Mailbox!FairSpec`, which `KeepsPromise` refines, has weak fairness of delivery: the
coalescer owes it from the fairness above.

## What is proved

All of it is for every value of the constants that the named assumptions allow:
finite sets of tokens, keys or workers, natural-number limits, and sentinels that are
no values (`Absent`, `None`, `Blank`).  What a theorem takes for granted of the world outside
is said with it.

**`StoreProofs`.**  `TypeCorrect` is inductive by itself.  `OneRowPerDevice` is a fact
about a table, `Distinct`; `Stored` establishes it because it removes exactly the rows
that agree with the new one, and since a flush copies memory to file and a restart
copies back, it is inductive for both.  `OwnerKept` is a property of steps:
`Put` and `DeleteIfOwned` pass `NotOwner`, and a restart puts back a row of the same
owner only because the property asks that file and memory agreed before.
`WithinSiteLimit` and `WithinPrimaryLimit` need arithmetic about cardinalities: the
size of the table `Stored` builds is `After`, and the number of rows under an address
is at most `ForAddress`; both lemmas count rows that leave and the row that is
rewritten.  `KnownDeviceNotTurnedAway` follows from `WithinSiteLimit` and the same count:
a known device adds nothing.  `AnsweredIsDurable` is inductive by the outcomes of the
flush.  `RetainedNoLonger` assumes, in the theorem itself, that writes do not fail and
that nothing restarts; `AllTimely` then says of every row that the tick that is coming,
at `now + ticker`, finds it in time, which no step but `Prune` itself can disturb.  A row
that a slow handler writes may be over already; it goes with the next tick, hence the
`MaxDelay` in the property.

**`CoalescerProofs`.**  `IInv` is `TypeOK`, `NewestKept`, `OneTimerPerWindow` and
`SpacingIsTimer`.  `NewestKept` needs to know that a slot that is not open holds nothing,
which is in `OneTimerPerWindow`; that needs one timer or one `expire` per open window,
or `ExpireQuiet` would close a window that another timer keeps.  `AtMostOnePerWindow` is
not inductive: `SpacingIsTimer` ties the time since the last push to the timer, and a
push is let go only where no timer runs.  `KeepsPromiseSafely` is the refinement of
`Mailbox` without its fairness: an offer is an `Accept` that stands for what it
replaced, a send is a `Deliver`, and everything else is a stutter.

**`DeliveryQueueProofs`.**  `IInv` is `TypeOK`, `CountedExactly`, `NothingLost`,
`NoSendOnClosed` and `Consistent` (only submitted jobs are refused or being added, and
the queue is closed exactly when `main` is not serving).  `CountedExactly` counts busy
workers, so `Take` and `Finish` move one element in or out of `Busy`.
`AcceptedIsAttempted` follows: when `main` is gone the counter was zero, so nothing is
queued, running or being added, and by `NothingLost` what was accepted has finished.

**`LimiterProofs`.**  `IInv` is `TypeOK`, `NoDebt`, `WithinCapacity`, `Spent` and
`Remembered`.  `RateBounded` is not inductive, since the bucket's time and the present
differ: `Spent` says that what the bucket has left and what the observer counted add
up to no more than a full bucket and what has flowed in up to *the bucket's own* time;
with `NoDebt`, what flows in until now turns it into the bound.  The one nonlinear fact,
that what flows in over two stretches adds up, is the lemma `FlowAdds`.  `Remembered`
says that a bucket that has announced nothing has no line on its account; a new bucket
is full, so it is allowed a push before it can be refused.

**`RelayProofs`.**  Two things are proved of the composition: that its parts remain what they are,
and what only the whole can promise.

The first is refinement.  `IInv` is `Typed` and `Promises`; `Typed` says that rows, what handlers
captured of them, slots and what was refused are of their kinds.  It is enough for each step of the
relay to be a step of a part or to leave the part alone: `TableAsSpecifiedHolds`,
`SlotsAsSpecifiedHolds`, `QueueAsSpecifiedHolds`.  The theorems about the parts are then instantiated
(`TableProved`, `SlotsProved`, `QueueProved`), their assumptions discharged from the relay's own
(`TableAsAssumed`, `QueueAsAssumed`), and the two copies of each part identified, definition by
definition (`SameTable`, `SameSlots`, `SameQueue`).  `TablePromisesHold`, `SlotsPromisesHold` and
`QueuePromisesHold` are the outcome: one row per device, kept owners, limits, the newest push, windows,
the refinement of `Mailbox`, the wait group and the closed channel, all in the relay itself, with handlers,
workers, timers and a shutdown interleaved.

The second rests on the first.  `Promises` follows a push from the slot through `sendHeld` to the queue
(`Accounted`), and needs that a job which is submitted was not refused before.  `NewestAccounted` says
more than that: that a process which has *ended* held nothing and had attempted the push it had
accepted.  This is no invariant of a single part; it follows from `Accounted`, from `FlushFirst`, and from
the queue's own `AcceptedIsAttempted`.  `HeldIsFlushed` needs `FlushFirst`: before the queue is
closed nothing is dropped for being closed, and when it is closed what the flush found held is in nobody's
hands any more; a later push of the same slot has a later number, so it is never taken for one of those.
`TypeCorrect` adds `RestTyped` to the types of the parts.  `DroppedOnAppleWordHolds` is what is true of
the claim that `finding_gone` refutes: a worker drops the row of a delivery token only when it ends a job
for that token that was addressed to a device which is gone (`HeardOfGone`: what a worker has heard
is of the job it still runs, and a device that is gone stays so).  What the code cannot promise is
that the row is still that device's.

**`JwksProofs`.**  `IInv` is `TypeOK`, `OneFetch`, `InOrder`, `NotLongWithdrawn` and
`SomeoneAsked`.  All of it turns on `OneFetch`: a claim stands for `Retry`, a fetch takes at
most `FetchTime`, which is less, so no two fetches overlap, and the time since the last claim is the
time the one fetch has taken.  Documents are therefore installed in the order they were
served in (`InOrder`, which is `KeysNotSetBack`), and whoever fetches knew what the cache
knows (which is `KnownKeyNotRefused` when its fetch fails).  `NotLongWithdrawn` bounds how old a
key of the cache is by the cache's age and the fetch's; `SomeoneAsked` says that a caller
who is refused a fetch is refused because one is on its way, has failed, or has just
brought what the cache has.  Together they are `StaleOnlyWhileAsking`.

**`ApnsProofs`.**  `IInv` is `TypeOK`, `SetOutYoung`, `CacheIsNewest`, `MintedApart` and the two
properties.  A push sets out with a token younger than `Lifetime` and is over within `PushTime`
(`SetOutYoung`), so by `TimeAssumption` it is not too old where it is judged.  Any two tokens in use,
in the cache or accepted by Apple were minted a lifetime apart, but for the first of the process
(`MintedApart`); that needs the cache to have the newest of them (`CacheIsNewest`).

**`RegistrarProofs`.**  `IInv` says of a registration on its way that it was admitted at the time it
was seen, no longer than `MaxDelay` ago, with the expiry it carries (`PendingAdmitted`), and of a row
that some such admission made it, and that it was seen no longer before its last answer than a
handler may take (`RowAdmitted`).  `ServedAsAdmitted` is then a fact about `Entitlement`: what was
admitted once is admitted for as long as the expiry it was given says, with the age of Apple's
signature left out (`AdmittedUntilExpiry`).  `TableAsSpecified` is the refinement of `Store`: its
requests are the rows `Proper` can make (`Requests`), and its readings of the clock are the ones handlers
hold, which `PendingAdmitted` bounds.  `TablePromisesHold` instantiates the theorems about the store, so that
they hold under registrations that overtake one another, `RetainedNoLonger` included.

Assumptions worth knowing: `FetchTime` covers a fetch from the claim to the installation,
`PushTime` a push from the hand-out of its bearer to Apple's judgement, `MaxDelay` a handler from its
clock to the table.  The code bounds the first two by the time-outs of its HTTP clients and contexts
but for the scheduling around them; it does not bound the third, which is why
`PrunedOnlyWhenOver` has `MaxDelay` in it.

Left to TLC: every liveness property, and the fairness half of `KeepsPromise`, because liveness under
fairness is outside what TLAPS proves here.  Every safety property that a passing run checks is a
theorem.  The type invariants are too: `TypeCorrect` of `Store`, `Coalescer`, `DeliveryQueue` and
`Relay`, and the `Invariance` theorems of the rest; `Registrar` has none of its own.  The runs of `Relay`
leave `TypeOK` to its theorem and check the three refinements.

## Where the code and its documents disagree

| run | claim | what happens |
|---|---|---|
| `finding_gone` | "Apple says this device is gone. Believe it" (`relay.go:639`) | a push captured for the old device is answered "gone" after the app, reinstalled, re-registered the same delivery token; the new device's row is deleted |
| `finding_flushed` | "Flushed, not dropped" (`coalesce.go:152`, `relay.go:108`) | `expire` takes the held push and gives the mutex up; flush and close run; the send meets a closed queue, which drops the push |

Others, seen while reading and not run:

- `store.go:146` (and README:148) says of the limit on an address that "the cap is also what bounds how
  far one published message fans out".  `Put` counts the rows that watch a request's *first*
  address only; devices that name the address second are woken by one message in any number.
- `store.go:453`: "the caller wanted it gone, and it is gone".  After a flush that failed, a second
  removal finds nothing in memory and answers nil while the file keeps the row; the next start
  brings it back.
- README:242-245: a row goes when not seen for seven days.  Nothing is pruned at a start and each
  start begins the ticker's six hours anew; a process that restarts more often never prunes.
- `relay.go:281` says a wrong secret gets "the same answer a token nobody holds would get".  A token
  of the right shape that nobody holds is registered and answered 200.
- `apns.go:33` keeps bearer tokens between Apple's two limits, of one process.  A restart mints
  another at once, which may be less than twenty minutes after the last.  A token that Apple objected to is
  handed out until it is forty minutes old: nothing drops it.
- `pubsub.go`: while one caller asks Google, the others accept a key that an idle cache has had for however
  long; `StaleOnlyWhileAsking` says when.
- `relay.go:291` says that what is left to Put's other errors is the file, hence a 500.
  `ErrTooManyAccounts` also gets there.
- `README.md:100` says a lapsed subscription is not deleted; `Prune` deletes rows whose
  proof has run out, as the same README says further down.
- `MaxGmailAccounts` bounds the list, but a `gmailAddress` that is not in the list is one
  more address that row watches.
- `pubsub.go`: a signing key published a moment ago is refused for up to ten minutes when
  a fetch was attempted just before, although an unknown key "may force a refresh".
- `flushLocked` renames the new file into place and does not sync its directory, so a power
  failure may bring the older file back after an answer.  `Store` treats the rename as durable.

## What is not modelled, and why

- *Pub/Sub and StoreKit verification:* signatures, certificate chains, parsing and the claims of a
  Pub/Sub token are cryptography and parsing.  `Jwks` has the answer as a free choice once there is a
  key; `Entitlement` has `genuine`.
- *APNs client:* headers, payload, the parsing of the key and signing, which can fail only for want
  of randomness.  In `Relay` the exchange with Apple is an outcome of `Deliver`.
- *Registration handlers:* how many characters a token, a secret or an address may have.
- *Shutdown:* the ten seconds `server.Shutdown` waits are left out.  `ListenAndServe` returns at
  once, so they bound nothing that `main` waits for.
- *Payloads, tags, `Sandbox`, `CreatedAt`, logging, health, configuration:* nothing branches on them
  that a property is about.
- *The limiter inside Relay:* a refusal is a free outcome of `Deliver`, which allows more than the
  limiter does; what the limiter itself allows is `Limiter`'s.

## Plan

Done, in order: `Store`, `Mailbox` and `Coalescer`, `DeliveryQueue`, `Relay`, `Limiter`, `Jwks`, `Apns`,
`Entitlement` and `Registrar`, with the proofs of all of them.  Left:

1. `AtomicFile`: `flushLocked` step by step (temporary file, sync, rename) with a crash after each,
   shown to implement the one-step flush of `Store`.
2. `RetainedNoLonger` for a process that restarts less often than the ticker fires.
3. An abstract specification of the whole relay, of which `NewestAccounted` and `NewestIsSettled` are
   the safety and the liveness, with the safety of the refinement proved.
