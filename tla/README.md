# scrapy-stealth in TLA+

A verification project for `scrapy_stealth`, a Scrapy downloader middleware that
sends requests through anti-bot "engines": two HTTP clients (`basic`, `turbo`) and
one Chrome (`browser`). The modules here model the parts of it where several
threads, callbacks and timeouts meet; TLC checks them on small instances and TLAPS
proves the central invariants for every instance. Paths are relative to
`src/scrapy_stealth/`.

## The system

A request passes through these parts:

    Scrapy ─ process_request ─ EngineManager.get ─ BaseEngine.fetch
             (event loop)                              │ run_in_executor
                                                       ▼  one of many threads
                 ThrottleRegistry.wait ─ _execute ─ ThrottleRegistry.record
                                           │
              ┌────────────────────────────┴───────────────────┐
       basic, turbo: SessionCache,                browser: submits a task to the
       ProxyHealthRegistry, BanStreakTracker      event loop of the one Chrome

One engine object per driver is shared by all threads of the executor. The two
registries (proxy health, throttle) are shared by the whole process.

| Component (source) | State | Operations | What makes it correct |
|---|---|---|---|
| BanStreakTracker (`utils/browser/session.py`) | streak, `_claimed`, `_last_restart`, a lock | `record`, `acknowledge_restart` | one thread recycles at a time, never two recycles within the cooldown, and a claim is always given back |
| SessionCache (same file) | a dict per thread, the list of all dicts, a lock | `get` (without the lock), `clear_all` (with it) | no request uses a session that was in use before a completed recycle; `get` finds what it stored |
| ProxyHealthRegistry (`strategies/proxy_health.py`) | a slot per proxy and per (proxy, domain) | `record`, `is_available`, `score`, `pick`, `reset` | circuits open at the threshold and stay open for their term; a cooling proxy is only picked when nothing better is left |
| BasicEngine, TurboEngine (`engines/`) | the three above, `_default_proxy` | `_execute`, `_maybe_recycle_sessions`, rotation | the parts composed: a ban wave recycles once, reaches everybody, and every request ends |
| BrowserEngine (`engines/browser.py`) | Chrome, launched here or connected to at a CDP endpoint, its browser context, its event loop and thread, the tab semaphore, the DNS map of its relay, a lock | launch, connection, `_reset_browser`, fetch tasks, retries, `_maybe_restart`, `close` | nobody waits on a stopped loop; one Chrome, and never one of somebody else's stopped; at most `BROWSER_MAX_TABS` tabs in use, each in its context; `close()` leaves nothing |
| ThrottleRegistry (`strategies/throttle.py`) | a slot per (domain, driver): delay, last departure, Retry-After, streak, average latency | `wait` (reserve under the lock, sleep without it), `record`, `reset` | the delay stays in its bounds; sleepers are spaced; a Retry-After is never shortened |
| Middleware, EngineManager, fallback (`middlewares/stealth.py`, `manager.py`, `utils/engine/fallback.py`) | marks in `request.meta["stealth"]`, engines made on first use | `process_request`, `spider_opened`, `spider_closed`, `process_response` | one retry with the browser per request, and its fetch never loses the primary engine's answer |
| Browser relay (`utils/browser/_core.py`) | its connections and their tasks | `handle`, `await_closed` | no connection outlives the relay; a tunnel ends with either of its sides |
| Page load (same file, and `_do_fetch` in `engines/browser.py`) | the tab, and the request id, type and status its capture has heard of | `_on_response`, `_wait_for_status`, `_smart_wait`, `get_body` | waits end, but not on a challenge; body and status are those of the best response; the tab is closed |

`PROJECT.json` also lists the parts without shared state: request building,
headers, cookies, fingerprints, behaviours, statistics, snapshots.

The behaviours that are hard here: steps of several threads between which no lock
is held (`get` against `clear_all`, the two passes of `pick`, `_browser` read outside
the lock); a claim that must be given back on every path; an event loop that is
stopped while others hold futures of it; timeouts that race answers; Chrome dying
of itself; answers recorded in another order than their requests left; a mark that
must be set before an await. `hazards` in `PROJECT.json` gives each at its line.

## Modules

| Module | Models | Uses |
|---|---|---|
| `Runtime` | the executor's threads and `time.monotonic()` | |
| `RecycleLease` | *abstract*: recycling is a lease with a cooldown | |
| `BanStreak` | BanStreakTracker | Runtime |
| `SessionCache` | SessionCache, step by step | Runtime |
| `ProxyHealth` | ProxyHealthRegistry; `pick()` lock by lock | Runtime |
| `HttpEngine` | basic and turbo: `_execute()` of every thread | BanStreak, SessionCache, ProxyHealth |
| `BrowserEngine` | the browser engine, its loop and Chrome | BanStreak |
| `PageLoad` | one fetch task: its tab, the document capture, the waiting loops, the body | |
| `Relay` | the browser's CONNECT relay: connections, pipes, `await_closed()` | |
| `Throttle` | ThrottleRegistry, one domain | Runtime |
| `Download` | middleware, manager, fallback, `_execute_timed` | Throttle |
| `HttpEngineProofs`, `ProxyHealthProofs`, `BrowserProofs`, `PageLoadProofs`, `RelayProofs`, `DownloadProofs` | theorems about the module each is named after | that module |
| `OneChromeProofs` | more theorems about `BrowserEngine`, as long as no launch fails | BrowserProofs |
| `MC*` | constants and symmetry for TLC | |

A thread is an element of `Threads`; `pc[t]` says where it is in the source and
`job[t]` holds its local variables. One action is what the code does between two
points where another thread can see or change shared state: a `with lock` block is
one step, a read or write outside a lock is one step, and a sequence of calls under
a lock held across I/O (`BrowserEngine._lock` during a launch) is several steps with
`lock = t`. Fields commented "history" exist for a property only and guard nothing.
Operators next to a definition that state it as a mistake would have it (such as
`ClaimsEveryBan` beside `Claims`) are the mutants `PROJECT.json` names; no action
uses them.

How state and code correspond, where the names do not say it:

* `BanStreak.holders` is the set of threads that `record()` told to recycle and that
  have not called `acknowledge_restart()`; `claimed` is the flag of the code.
* `SessionCache.sessions` numbers sessions as they are made. A thread's dict is in
  `stores`, and what `_factory()` has returned to it and it has not stored yet in `made`.
  `fresh.done` remembers the sessions that were in some dict when one of the complete
  calls of `clear_all()` began.
* `ProxyHealth.pick[t]` is the call of `pick()` a thread is in: the phase, the
  candidates it has still to look at, and the best score so far. Scores are compared,
  not computed: a record of the failures and successes stands for the number.
* `BrowserEngine.chromes` is every Chrome launched, with the DNS map its relay was
  given and the loop it was connected on; `up` are those alive; `browser` is
  `_browser`. `task[t]` is the coroutine `_do_fetch` of t's current attempt.
* `BrowserEngine.left` is where tabs are open that no task will close: a fetch ended
  between `create_target` and its try block, or had lost its Chrome. A Chrome launched
  here is remembered by its number and takes its tabs with it; one that runs elsewhere,
  by its endpoint, since it keeps them while the engine connects to it anew.
* `cdp` is `_cdp_url`, `Local` standing for None: a Chrome launched here. Chromes that
  were connected to are in `chromes` too, with the endpoint in `at` and `context` for
  whether a browser context was made; the engine's `context` is the Chrome that
  `_cdp_browser_context_id` belongs to. `overdue` are the calls of `_start()` that go on
  after the 30 seconds their waiter gave them.
* `PageLoad` is the inside of what `BrowserEngine` does in `TaskOpen` and `TaskFinish`:
  `pc` is the await that `_do_fetch` is at, `shown` what a script evaluated in the tab
  would see, `responses` what Chrome reports to `_on_response`. The setup of a tab
  (viewport, cookies, headers, the interception of a POST), the interaction with the
  page, the snapshot and the collection of cookies are steps that succeed or raise. What is shown changes
  at any time and need not be the document of the last response; Navigation Timing
  may give any status.
* `Relay.conn[c]` is a connection with the local variables of its `handle()`; `tasks` is
  `_tasks`, and once `await_closed()` runs its copy of them. `drains` is a property of
  the interpreter: whether `wait_closed()` waits for connections (Python 3.12) or not.
  `behind[s]` says that the peer on side s has not taken all that the relay wrote to it:
  `drain()` may then wait, and so may the end of a reader whose transport was closed.
* `Throttle.sleep[t]` is the reservation of a thread asleep in `wait()`.
* `Download.meta[m]` is a stealth dict. Several requests may hold the same one: a
  request's copy copies `request.meta` but not the dict inside. `made` are the drivers
  whose engine exists; making one may raise, because it picks a proxy (`base.py:245`).

## Runs

The runs of the engines and of `Download` use two threads (`{t1, t2}`): the hazards
listed there are between two of them, and each may start another request while the
other is in the middle of one. Bounds are constants guarded in `Begin*` (`MaxRequests`), `ClockTick`
(`MaxClock`), `Crash` (`MaxCrashes`), `LaunchFails` (`MaxFailures`), `Respond` (`MaxResponses`), `TimeIsLeft` (`MaxRounds`) and
`Send` (`MaxPieces`), and they are the only limits; behaviours end when they are used
up or the one fetch of `PageLoad` is over, hence `CHECK_DEADLOCK FALSE`.

| Run | Asks | Bounds, and why they are enough |
|---|---|---|
| `proxy_health` | `CircuitBounded`: a circuit never lasts past its cooldown and the count stays below the threshold. `PickSkipsCooling`: `pick()` does not return a proxy that cooled all along while another was available. `CooldownKeepsItsTerm`: no late success or failure ends or moves a cooldown | one thread in `pick()`, since `record()` of any other is a step of the environment; two proxies, a threshold of 2, a cooldown of 2: with four records per slot a circuit opens and is hit by as many failures as open another, or expires and opens again, between any two steps of `pick()` |
| `http_recycle` | `ClaimExclusive`, `FreshAfterRecycle`; `LeaseSpec`: the engine implements `RecycleLease`; `ClaimLostOnlyByPick`: of all the steps of all the threads only an IndexError of `pick()` loses a claim | four requests: a wave of two bans recycles, and a second wave meets the cooldown; four sessions are more than two requests per thread make; two records of a proxy open its circuit, and what becomes of an open one is `proxy_health`'s. A session that was made and not stored when a recycle ran is used after it: it had no connection and no cookies then, and the property is about those that were in a dict |
| `http_progress` | `RequestsAdvance`: every step of a request leaves it fewer to make (`StepsLeft`), and no step of another thread puts its end off. `EveryRequestEnds` | two requests at once, every ban recycles, every failure opens a circuit; the clock makes one step, which ends the cooldown of circuits and recycles, so that circuits close as well as open between any two steps of the other's pick, and a second recycle meets the first one's `clear_all()` |
| `browser` | `NoOrphanFuture`, `ChromeOnItsLoop`, `OneChrome`, `CloseLeavesNothing`; `ExternalSpared`: a browser that runs elsewhere is never stopped; `TabsWithinLimit`: no more fetches than the limit are in a tab of one Chrome, and no more tabs open in it, but for those that `left` remembers; `TabsInTheirContext`: no tab gets round the proxy and pins of its Chrome; `LeaseSpec`: restarts for bans implement `RecycleLease`, whatever else replaces Chrome | two requests at once, each of three kinds (a Chrome of our own without and with pins, or one elsewhere with pins and a proxy), one crash, two attempts, one tab, every ban restarts: the other request's reset, switch or launch falls between any two steps of one, and a reset meets a task in each of its states, and one that outlives it. 5.4 million states |
| `browser_progress` | `RequestsAdvance` and `EveryRequestEnds`, when a launch, a connection, a context or a rotation fails | two requests of two kinds, one failure; a launch that is given up may still end later |
| `page` | `NoTabLeft`: the tab is closed on every way out of the try block. `ChallengeWaitedOut`: a challenge is only answered when its time is up. `StatusAsHeard`: the status is one the site gave, and between blocks and successes it is a success in whatever order they came; a 3xx is answered only if no block came. `OneResponse`: body and type are those of one response. `FetchEnds` | one request of any kind; two responses are enough for a block before a success, after it, and while the body is asked for; a loop makes two rounds in its time, which is when a text has stalled for long (2 for the 7 of the code, 1 for its 3). `Statuses` is {200, 307, 403}: one of each range that `_should_replace_capture_status` tells apart |
| `relay` | `NoSocketLeft`, `NoTaskOutlives`, `AnswersComplete`, `HalfCloseEnds`, `TasksGathered` | one connection, at any stage when `await_closed()` runs, with an upstream proxy and direct for pinned hosts: connections have nothing in common but `await_closed()`, and the theorems are about any number of them. Three pieces of data a side: one being passed on, one behind it and one that waits in a buffer |
| `download` | `DelayBounded`, `SleepersSpaced`, `EscalatedOnce`, `RetryAfterNeverShortened`; `ResponseKept`: the primary engine's answer survives whatever the browser's fetch does | three requests that share one stealth dict of any content, on one HTTP driver and the browser; a delay of at most 3 units is passed by two 429s; two lengths of Retry-After; an engine that is made may raise, and a coroutine may be cancelled wherever it waits |

Each of these properties also has a mutant in `PROJECT.json`, a plausible mistake in
the code that the run finds.

Four runs find the code at odds with what its documentation or comments say; the
counterexamples are short and `findings` quotes the lines:

* `http_claim_leak`: `pick()` can raise between the claim and its acknowledgement
  (a circuit opens between its two passes, `random.choice([])`); the engine never
  recycles again. `http_recycle` shows that this is the only way, and `ClaimsLive`
  below that there is none with proxy health off.
* `http_get`: a recycle by another thread empties a thread's own dict between two
  steps of `get()`, which then raises KeyError.
* `browser_crash`: after Chrome died, the attempt it refused is repeated on the same
  dead Chrome.
* `browser_dns`: `_reset_browser()` launches a Chrome with pins and leaves `_launched_dns`
  at `()`.

### Fairness

`FairHttpSpec` and `FairBrowserSpec` assume weak fairness of `Work(t)`: a thread that
can go on in its request does, at some time. The operating system schedules
threads, the locks are held for finitely many steps, and every wait in the code for
something outside it has a timeout (HTTP requests, `future.result(timeout=...)`, the
30 seconds of a launch), which the models give as an alternative that is always
there (`TimedOut`, `LaunchFails`, the ending "other"). No fairness is assumed of new
requests, of the clock, of Chrome, of the tasks on its loop or of crashes.

`FairPageSpec` assumes it of the fetch task: Chrome answers a command, or the time
limit of the request cancels the task (`Raise`); the loops end because each round
sleeps and their time is limited, not because of fairness. `FairRelaySpec` assumes it
of `Runs(c)` and of `AwaitTasks`, that is, of what the event loop runs by itself: a
handler that starts, gathers its pipes or unwinds, and a pipe that has something to
pass on to a peer that is not behind. What takes a peer is under no fairness: a header
or a body may never come, dialing may never end, and a peer may never take what was
written to it, for which `drain()` waits without a time limit (`_core.py:728`). So
`HalfCloseEnds` has a premise: the connection is again and again not waiting for a
peer. Nothing is assumed of the site, or that the relay is ever closed either.

## Proofs

`tlapm` proves these for any threads, proxies, keys and bounds that satisfy the named
assumptions of the modules (types of the settings, thresholds and cooldowns at least
as the code's defaults demand); nothing else is assumed.

* `HttpEngineProofs!TypeCorrect` (`HttpTypeOK`). `TypeInv` has a lemma per component and a
  case per action, and adds what is known of a request whose answer is judged
  (`Judged`).
* `HttpEngineProofs!RegistryUsedAsSpecified` (`HttpSpec => HealthSpec`). Every step of the
  engine is a step of the registry's own specification or leaves its variables alone:
  a response is recorded only for a proxy, and a pick is begun, carried on and ended
  by one thread. So whatever is proved of the registry by itself holds in the engine
  (`RegistryWithinEngine`), and its invariant need not be proved again.
* `HttpEngineProofs!OneClaim` (`ClaimExclusive`). Exclusiveness alone is not inductive:
  a thread could acknowledge a claim it does not have. `LeaseInv` adds that a thread
  in the steps between claim and acknowledgement is in `holders` (`InHand`).
* `HttpEngineProofs!LeaseHolds` (`LeaseSpec`). Each step of `HttpNext` maps to a step of
  `RecycleLease` or leaves its variables; only `CountBan` and `Acknowledge` move them.
* `HttpEngineProofs!ClaimsLostOnlyByPick`, `!ClaimsLive` (`ClaimLostOnlyByPick`, `ClaimIsLive`).
  `LeaseInv` says that the one holder of a claim is on its way to the acknowledgement
  unless its pick raised. A call of `pick()` that is a random choice (proxy health off)
  or is never made (no pool) does not raise, so then no claim is lost at all.
* `HttpEngineProofs!DefaultsFromPool`: with a pool, the default proxy is one of it, because
  a pick answers with a candidate and a request's proxy is adopted only without one.
* `HttpEngineProofs!RequestsAlwaysAdvance`, `BrowserProofs!RequestsAlwaysAdvance`
  (`RequestsAdvance`). `StepsLeft` is a bound on the steps of a thread until it is idle. In
  the HTTP engine it is made of the calls it contains: `pick()` visits each candidate
  once in a first loop and by two steps in two more, over parts of the pool that only
  shrink within a loop (`PickAdvances`), and `clear_all()` takes two steps for each
  listed dict (`ClearAdvances`); neither can be lengthened from outside, for a call
  belongs to its thread and the list to the holder of the lock (`LockInv`). In the
  browser the attempts left come first and the place within the attempt second,
  whatever other threads do to Chrome. With this, all that a request needs to end is that
  its thread can go on and does; that part stays with TLC (`EveryRequestEnds`).
* `HttpEngineProofs!RecycleReachesAll` (`FreshAfterRecycle`). `FreshInv` is
  `TypeInv /\ CacheInv /\ ThreadInv`: a session that was in a dict when a recycle began is
  in none that `clear_all()` has been through, and a dict that the current one has
  yet to reach is the only place left for it; one that was made and not stored was in
  no dict; a thread beyond its lookup holds a session that is not among those the
  recycles it had seen were to remove.
* `ProxyHealthProofs!HealthTypeCorrect` (`HealthTypeOK`). That a score is a fraction with a
  positive denominator needs that a sum over a finite set of slots is a number, for a
  fold that chooses its elements. Induction over sets being out of reach, `SumNat` goes
  by the least counterexample: `SumUnique` shows that any two functions that add up
  subsets agree, since otherwise there would be a smallest set they differ on.
* `ProxyHealthProofs!CircuitsAreBounded`, `!CooldownsKeepTheirTerm` (`CircuitBounded`,
  `CooldownKeepsItsTerm`). `CircuitInv` types the slots and bounds each.
* `ProxyHealthProofs!PickAvoidsCooling` (`PickSkipsCooling`). `PickInv` says what a call of
  `pick()` knows: once it found a proxy available, its later candidates are those it
  found so. What the property remembers of a slot, that it cooled all along, stays
  true of the slot during the call, because neither a record nor a refresh ends a
  cooldown before its time.
* `BrowserProofs`. The proofs go by kinds of steps (`Steps`): most steps of a thread move
  it on and leave Chrome alone (`Outside`), so that each invariant is proved once for
  all of them, and then for the few that launch, reset, close or run a task.
  `TypeInv` adds to the types that a task which may still do something has its
  thread waiting for it (`BrowserTypeCorrect`). `LeaseInv` is that of `HttpEngineProofs`
  (`OneClaim`, `LeaseHolds`). `StateInv` ties the rest together: who replaces Chrome has
  the lock and there is no Chrome meanwhile (`LockInv`); the Chrome at hand was
  connected on the loop that runs (`LoopInv`); so is that of every task alive, and it is
  the one at hand unless the loop is being drained (`TaskInv`); `owns` is about the
  Chrome at hand (`OwnInv`). `NoOrphans`, `ChromesOnTheirLoop` and `ExternalsSpared` follow,
  launches that fail or end late included.
* `OneChromeProofs`. As long as no launch has failed, the Chrome at hand, its semaphore
  and its context have one number, one loop runs, and a task with a semaphore has
  that of its Chrome (`Calm`). From this `OnePersistentChrome`, `NothingLeft` and
  `TabsStayInContext`. `TabsBounded` also needs that the tasks in a semaphore never exceed
  it, which holds in any case (`SemaphoreInv`), and that a task which a reset left
  behind is not in the Chrome at hand, unless that is one elsewhere in which tabs
  were left (`LostInv`).
* `PageLoadProofs`: `PageInv` is the type invariant with five parts, and four theorems
  read one of them each. `TabInv`: beyond the try block a tab is open exactly while its
  `finally` is ahead (`TabIsClosed`). `CaptureInv`: what the capture remembers is one of
  the responses that were heard, a success if one came before any redirect, and a
  redirect only if no block came, which is the order `_should_replace_capture_status`
  makes of them for any set `Statuses` of numbers (`StatusIsHeard`). `AskInv`: while
  Chrome is asked for a body, the request asked about is the remembered one or another
  response came (`BodyIsOneResponse`). `WaitInv`: a wait that saw nothing but a challenge is still
  waiting or out of time (`ChallengeIsWaitedOut`). `AnswerInv` carries each over to the
  answer.
* `PageLoadProofs!FetchAlwaysAdvances` (`FetchAdvances`, an action property): `StepsLeft` bounds
  the awaits a fetch has left, and each step lowers it while Chrome's steps leave it as
  it is. A round of `_smart_wait` takes at most seven awaits and `_wait_for_status` two, a
  loop makes `MaxRounds` of them in its time, and no document that replaces another
  makes a loop begin again or count anew; it takes `PageTypeOK` and no more.
* `RelayProofs`: `ConnOK` relates, for one connection, the stage of `handle()` to its
  two sockets (`NoSocketIsLeft`) and to what each pipe has read and written
  (`AnswersAreComplete`); `TasksInv` says that a live task is in `_tasks`, or had not
  begun when `await_closed()` copied them (`NoTaskOutlivesTheRelay`). A step touches one
  connection, so that the proofs are about one and hold for any number.
* `DownloadProofs`: `SpacingInv` types the slots and bounds the delay (`DelayIsBounded`);
  `SleepInv` says that a slot's last departure is no earlier than that of any thread
  asleep on it, without which two sleepers need not be apart (`SleepersLeaveApart`);
  `MarkInv` says that a stealth dict is marked exactly when a request was escalated
  because of it (`EscalatesOnce`). `RetryAfterIsKept` follows from the same invariant, and
  so does `ResponseIsKept`: the primary answer is lost in the two ways the property
  names and in no other.

The proofs name what the code's constants must satisfy. `TabsBounded` counts tabs and
`RequestsAdvance` the dicts of a clear, and so they take the executor's threads to be
finitely many. `DelayIsBounded` needs
`MinDelay <= SlowBump`: a slow answer adds `_SLOW_LATENCY_BUMP_S` (0.08) to a delay of 0,
which would lie below `_MIN_DELAY_S` (0.03) if it were the smaller.

Only model-checked: liveness (`EveryRequestEnds`, `FetchEnds`, `HalfCloseEnds`,
`TasksGathered`), which is out of the prover's reach. Every other property of a passing run is
stated by a theorem. `ClaimIsLive` is proved where it holds: with proxy health on it does
not (`http_claim_leak`). `NoOrphanFuture` and `ChromeOnItsLoop` are checked on the run whose
launches succeed; with launches that fail or end late they rest on their theorems
(`NoOrphans`, `ChromesOnTheirLoop`), and so does `LeaseSpec` of the browser where a
rotation raises (`BrowserProofs!LeaseHolds`). `LeaseSpec` is safety: that an engine goes on
to recycle follows only as far as `ClaimLostOnlyByPick` and `EveryRequestEnds` reach.
What runs show to be violated is not proved to be, a counterexample being enough.

## What is not modelled, and limits of what is

* The contents of pages, the words of the challenge heuristics, fingerprints, headers and cookies:
  pure functions of one request, whose outcome is a choice here ("ban", "page").
* `SessionCache`: a session that `_factory()` made before a `clear_all()` of another thread
  and that its own thread stores after it (`session.py:38`) is in the cache and is used,
  although it is older than the recycle. `FreshAfterRecycle` is about sessions that were
  in some dict when a recycle began, for only those have a connection or a cookie.
* `HttpEngine`: `resolve_browser()` (`basic.py:87`) stands between a claim and its
  acknowledgement and would raise `KeyError` for a profile that wreq does not know;
  profiles are taken to be known. In `ClaimLostOnlyByPick` such an error would be a second
  way to lose a claim.
* `BrowserEngine`: which proxy a launch is given (only whether there is one), and how the
  address of an endpoint is found; the relay is its DNS map only. A timed-out fetch leaves its task at once, although the
  tab may take a moment to close. `close()` happens when no request is under way, as
  Scrapy closes a spider. `OneChrome`, `TabsWithinLimit` and `CloseLeavesNothing` are
  stated for behaviours without a failed launch: a launch that outlives its 30
  seconds leaves a Chrome that nobody holds, which is what the code does. That a fetch
  fails whose context was disposed of under it (`TabsInTheirContext`) rests on nodriver:
  a connection on which `aclose()` was called is taken to refuse further commands.
* `TabsWithinLimit` bounds the tabs of fetches. Tabs that no task will close come on top
  and have no bound: one whose target was made but not found among the targets
  (`browser.py:603-612`, tried up to five times for one request), and one whose fetch
  ended before the try block (`browser.py:643-649`), each with its place in the semaphore
  given back; and a Chrome that runs elsewhere keeps the tabs a reset left in it when
  the engine connects to it again with a new semaphore. The documentation promises
  more: `BROWSER_MAX_TABS` "caps the number of Chrome tabs open simultaneously"
  (`CHANGELOG.md:1116`; likewise `docs/configuration/settings.md:63`, `constants.py:78`).
* `PageLoad`: one fetch, since two tabs meet at the semaphore only, which `BrowserEngine`
  has. Times are not: sleeps are no steps, and a loop may run out of its time at any
  wait. The pages are of the kinds the scripts tell apart. `NoTabLeft` excepts what
  happens before the try block, from `create_target` to the headers (`browser.py:643-649`):
  an exception or a cancellation there leaves the tab open, with its place in the
  semaphore given back. `OneResponse` excepts a response that arrives while Chrome is
  asked for the body, since type and status are read after that await. A document
  answered 3xx without a Location, as a challenge may be, keeps its status when a 200
  follows: `_should_replace_capture_status(307, 200)` is false (`_core.py:453-460`), and after
  307, 200, 403 it is 403. `StatusAsHeard` promises a success only if one came before
  any redirect; the tests assert only blocks and successes.
* `Relay`: what the bytes are, the addresses of `relay.py`, and how full a buffer is:
  only whether its peer is behind, which may change at any time. A tunnel with a peer
  that neither reads nor closes stays until the relay is closed, whatever the other
  side did (`_core.py:728`); that is what the premise of `HalfCloseEnds` leaves out. A loop that is stopped
  because `await_closed()` took more than its 2 seconds is not modelled. `NoTaskOutlives`
  excepts a connection accepted just before `await_closed()` whose task has not begun:
  it is not in `_tasks`, and Python 3.11's `wait_closed()` does not wait for it. The
  branch for a direct connection that is no CONNECT cannot be reached, because such a
  request is refused before it is dialed.
* `Throttle`: one domain, since slots of different domains never meet; whole units of
  time; the moving average is known by its side of the threshold only.
* `Download`: the fetch itself is an outcome; statistics and cookies are left out.
  `ResponseKept` excepts what the code lets through: `manager.get()` is outside the try
  block (`stealth.py:163`) and makes the browser engine on first use, which picks a proxy
  and may raise (`base.py:245`), and a cancelled coroutine raises `CancelledError`, which is
  no `Exception`. `seed_proxies()` of `spider_opened` is left out, though it picks too.
* Seen while reading, and in no run: a failed connection rotates away from the current
  default proxy, not from the one that failed, and may so return to it (`base.py:273`);
  a request asleep in `wait()` is not held back by a Retry-After recorded meanwhile
  (`throttle.py:121`); the page is checked for Chrome's error page once, before the
  waits, so that a reload that fails later is answered as a page; engines made on first use miss `set_stats()` of
  `spider_opened` (`manager.py:46`); `STEALTH_DRIVER="auto"` from the configuration never
  falls back, because the fallback asks the request's dict (`fallback.py:50`); a request
  that shares its dict with one that fell back can never do so itself; a fetch that
  returned None counts as a success for the throttle (`base.py:209`), and one that
  raised is not counted at all; the first easing of a delay of 0 raises it to the
  minimum (`throttle.py:192`).

* Not modelled at all, because they keep no state that two steps could disagree about:
  request building and headers, fingerprint profiles, the retry handler and the
  detectors (functions of one request or response); the snapshot decorator and the
  update notice (files, a request to PyPI); statistics (counters nothing reads back);
  configuration, whose values are constants here.
