# Verification of pearl.js

TLA+ models of Pearl (`src/packages/*`), a Node.js web framework: what happens to a
request, to sessions and tokens, to limits and caches, to jobs, mails and events, to an
application that starts and stops, and what the command line writes and runs. TLC checks
the models on small instances; TLAPS proves the properties that matter most for every
value of the constants. `PROJECT.json` lists the runs, the source lines behind every
definition, the hazards and the theorems.

To repeat a check: `tlc -config <run>.cfg <module>.tla`; to repeat a proof:
`tlapm <module>Proofs.tla`.

## 1. The system

A process is single-threaded, so one stretch of code between two `await`s is atomic;
everything awaited (a store, a middleware, a timer, a socket) lets other requests, and
other processes on the same store, go first.

| Component | State | Operations | Interacts with | What is hard | What makes it correct |
|---|---|---|---|---|---|
| http: rate limiting (`RateLimit.ts`, `throttle.ts`) | map of bucket objects, last sweep, current store | `hit`, `reset`, sweep, `useStore`, the two middlewares | requests in flight share bucket objects by reference | fields read after the await; buckets expiring, swept or replaced meanwhile | at most `max` admitted per window; `Retry-After` leads past the window |
| http: request lifecycle (`HttpKernel`, `Pipeline`, `Request`, `Response`) | body bytes, frames of the pipeline, exception in flight, `_sent`, headers | `parseBody`, `dispatch`, `send`, catch of `handleRequest` | user middleware and handlers, validation, `onUnhandledError` | throwing, recovering, repeated `next()`, answers after answers | one answer, never replaced; nothing internal shown; handler guarded |
| http: `Router` | list of routes | `add`, the verbs, `group`, `match` | kernel, openapi | greedy patterns, groups, decoding that gives a route up | the first route whose pattern the path fills in |
| http: `Cors` | its options | constructor, preflight, `handle` | browsers, shared caches | an answer made for one origin read by another | readable exactly by allowed origins |
| http: cookies | secret; the browser's jar | parse, serialize, sign, unsign | sessions | characters that do not survive a header; a second cookie of the same name | what was set is what is read |
| validate: `FormRequest`, `ValidationPipe` | none | `validate`, the pipe | the request lifecycle, whose frame it is | the catch around `next()` | rejected input never reaches the handler |
| auth: sessions (`SessionGuard`, `SessionCookie`) | session store, cookies of browsers, request contexts | `user` (with rotation and expiry), `startSession`, `endSession`, `logoutAll` | session store shared by workers, user provider | rotation is two writes; lost answers; concurrent requests of a browser | a session is lost only when ended; no stray sessions; nobody gets another's |
| auth: tokens, `AuthManager`, `Gate`, `can` | token store, guards, ability map | issue, verify, revoke, `can` | user provider | deadlines in seconds and in milliseconds; a token that dies while it is checked | a dead token stays out, a good one gets in |
| auth: `Hash` | none | hash, check | `node:crypto` | nothing over time | |
| cache: `Cache`, `MemoryStore`, `RedisStore`, `CacheRateLimitStore` | entries with expiry; the server's keys | get, put, forget, increment, expiresAt, remember, pull, flush | throttle; several processes on Redis | several calls per operation, crash between them, eviction | counters count each hit once and expire; nothing stale but by overlap; the right entry evicted |
| queue: `QueueWorker`, `QueueManager`, `Job`, backoff | workers, job registry, BullMQ's jobs | dispatch, process, retry, `failed`, stop | BullMQ on Redis, mail | stalled jobs, stop during work, failing bulk dispatch | an added job ends; `failed()` once, after the last attempt |
| mail: `Mailer`, `Mailable`, transports | lanes of `sendBulk` | send, sendBulk | transport, jobs | fail-fast with lanes still running | each mail sent at most once per call, none missing |
| events: `EventDispatcher` | listeners, wildcards, retries under way | listen, once, off, forget, dispatch | listeners, which may change the list | changes and dispatches from within a listener; one failure among many | `once` runs once; every dispatch settles with all its listeners |
| core: `Application` | provider list, booted flag | register, boot, terminate | all providers | concurrent boot, failure in the middle | connected in order, shut down in reverse, nothing left open |
| core: `Container` | bindings, singletons, resolution stack | bind, singleton, instance, make, scopes, freeze | providers | a factory that throws half way | circles reported only where there are, one instance per singleton |
| core: `Config`, dotenv | `process.env`, loaded files | `loadDotenv`, `env`, `load` | boot | quotes, escapes, comments; a boot that fails and is tried again | values as written, never in place of one that was set |
| database: adapters, `Migrator`, models | client; applied migrations | connect, disconnect, migrate | Application; the command line | connect and disconnect overlapping | at most one pool, none left open |
| openapi | descriptions of routes | `generateOpenApiDocument`, `describeRoute` | router, validation | six rules that split a form over path, query and body | a documented call validates |
| cli: `pearl new` | the directory, flags | prompts, presets, files | a new application | six places decide about one application | a new application runs |
| cli: generators, `migrate`, `db:seed`, `queue:work` | files, a script, a child process | make:*, run in project | database, queue | three attempts, a finally, a child's exit code | "Done" is true |
| cli: `serve`, `list`; testing; pearl | none | a child, a table, fixtures, re-exports | the packages above | nothing over time | |

The hazards of this code, each at its line, are in `PROJECT.json`.

## 2. What is modelled

### `RateLimit`, against `FixedWindow`

`RateLimit` models `packages/http/src/middleware/RateLimit.ts` and `throttle.ts` over
`MemoryRateLimitStore`. `hit()` returns the bucket object of its map and the middleware
reads `count` and `resetAt` after an await, so buckets are modelled by reference: `heap`
holds the objects (an object is named by the request that created it), `buckets` is the
map, `held[r]` is what `hit` returned to `r`. `Hit` is everything up to the await;
`Admit` and `Reject` are the continuation, which reads the object as it is by then.
`SweepIfNeeded` is part of `HitNew`, as in the code. `Reset` and `UseStore` are calls of
the application. `BucketKey` shows which limiters share counters: all `RateLimit`
instances without a store of their own share `defaultStore`; `throttle` prefixes the name.

`FixedWindow` is the promise: a caller has `Quota` requests admitted per window of
`Length`, windows open with a request and do not overlap. `ImplementsFixedWindow` is the
refinement (a `Hit` is an `Open` or a `Join`, whichever its bucket; `Admit` an `Admit`).

### `HttpKernel`

One request: `parseBody`, routing, the `Pipeline` around the handler, the catch of
`handleRequest`. The pipeline is a stack of frames; `at` is the running one and `mode`
what it is about to see (it was called, `next()` came back, `next()` threw).
`Response.send` is `Sends`, or `SendThrows` when `_sent` is already set or `writeHead`
refuses. `ValidationPipe` and `FormRequest` are frames modelled exactly. Other middleware
and the handler are user code and do anything careful code does: send, call `next()`
again, throw, recover, return once somebody has answered. Less careful things are chosen
by `UserFaults`: calling the standalone `validate()`, setting a header `writeHead`
refuses, an `onUnhandledError` that throws.

### `SessionGuard`

`SessionGuard.user` with `rotateOnUse`, `session()`, `startSession`, `endSession` and
`logoutAll`, between browsers that keep one cookie and a store shared by all workers. One
action is the code between two awaits: `Find`, `Reject`, `LookUp`, `SaveNew`,
`DestroyOld`. `Guards` gives the stack of `session()` middlewares in front of each kind of
route, `Rotates` the kinds whose guard rotates. Answers may be lost, workers may die
(`Lose`), accounts may be closed between two calls. `ended` and `disturbed` are history:
ids destroyed on purpose, and browsers to which rotation promises nothing because their
requests overlapped, an answer was lost, or they logged in over a cookie.

### `RedisRateLimit`

`throttle` over `CacheRateLimitStore` and `RedisStore`, from any number of workers. One
action per Redis command, because each is awaited: `Increment` (INCRBY), `Expire`
(EXPIRE, only by the hit whose value was 1), `Decide` (PTTL; with the reply the request is
admitted or rejected, its count being its own copy). `Forget` is a deletion by `reset` or
by a batch of `flush`, `Crash` a worker that dies or a command that fails. `Ttl` is the
window rounded up to whole seconds, which `expire` counts in.

### `Application`

`boot()` and `terminate()` over a list of providers, numbered in the order of `register()`.
`Kind` says what each keeps: a `pool` (`DatabaseServiceProvider` with `NoneAdapter` or
`DrizzleAdapter`, whose `connect` makes one), a `client` (`PrismaAdapter`,
`TypeORMAdapter`, which open the one they were given) or a `worker`
(`QueueServiceProvider`; a worker stands for the workers of one `boot()` and their queues in the
`QueueManager`). `call` is where each call of `boot()` or `terminate()` is awaiting; one
action is the code between two awaits, and everything awaited may fail. `held` is what an
adapter's field, or the worker list, refers to, `open` what really is open, `bound` which tokens
`register()` has bound (`terminate()` after a failed `config.load()` cannot resolve
them). A pool whose `end()` fails is forgotten (`finally`) and recorded in `leaked`. A
`boot()` that failed may be tried again, and several signals may each call `terminate()`.
`overlap` remembers that a `boot()` overlapped another call: the properties set such
behaviours aside, as the code does nothing to order them (section 5 says what comes of it).

### `Events`

`EventDispatcher`, with listeners that subscribe, remove and dispatch from within. `stack`
is the JavaScript stack: `Dispatch` collects the entries, drops the `once` ones from the
registry and calls the first; the others are called by `entries.map` as each listener leaves
(`Leaves`: it awaits, returns or gives up). What a listener does after an await is a task
that the event loop starts when the stack is empty (`Resume`), a retry without delay is a
loop on the same stack (`RetryAtOnce`). `Settle` is `Promise.all` or the first rejection.
Each dispatch keeps the entries it calls and how each went, so that the properties can speak
of dispatches that are over.

### `Mail` and `Queue`

`Mail` is `Mailer.sendBulk`: `Begun` starts the lanes (each takes a mail before any of them
awaits), `SendSucceeds` and `SendFails` are the end of one `send`, and `Take` the lane's next
turn of its loop over the shared `cursor`. A call without `continueOnError` is rejected by
its first failure (`Rejects`) while its other lanes go on. `out` counts what the transport
accepted.

`Queue` has jobs whose `handle()` calls `sendBulk`. `AddBulk` is one queue's part of
`dispatchBulk`, which may fail alone; `Process` the worker's `process`, `HandleFailed` the
`failed` event's handler, `HookEnds` the end of the `failed()` hook. BullMQ is external: it
counts attempts, limits a worker to `Slots` jobs, and hands the jobs of a process that died
(`Dies`: a crash or the second signal) to another one. `Drained` is the first signal once
`close()` has waited for what is active; a hook that is still running is lost with the
process.

### `Cache`

The facade over `MemoryStore`, the store being the sequence of its entries in the Map's
insertion order. The store's operations are synchronous, so each is a step; `Remember`,
`Factory`, `Store` and `Pull`, `PullEnds` are the stretches of `remember` and `pull` between
their awaits. `Write` contains the sweep and `EvictOne`, as `set` does. What factories read
is `source`, a number that changes; `fresh` and `overlap` are history.

`Subsequences` is `Only(s, I)`, what `Array.filter` and deletions leave of a sequence. `Cache`
and `Events` use it where `SelectSeq` would do, because that is recursive and the prover knows
nothing about it; by the rank of a place the same is said without recursion.

### `Tokens`

A bearer token from its issue to the handler: `JwtGuard` and `ApiTokenGuard` behind
`Authenticate` or `OptionalAuth`, then `can(gate)`. One step per await: `VerifyJwt` or
`FindToken` (and `RevokeExpired`), `Lookup` of the account, `Can`. Time has two ticks to the
second, because a JWT's deadline is a whole second (`now >= exp` in seconds) and an API
token's is an instant (`expiresAt < now`). `manager` is the configuration: which guards there
are and which is the default. `dead` and `good` of a token are not the code's: they say from
when nobody may use it and until when everybody may, and the properties are about them.

### `Router` and `OpenApi`

Routes are added alone or in a group and matched in their order. `Exec` is the compiled
regular expression as greedy matching: `Tails[k]` is where in the text the last k tokens of the
pattern can match from, each swallowing a stretch (`Swallows`), and `Greedy` the places
between tokens that backtracking arrives at, the longest stretch first; both are recursive
functions, so that they can be proved about. `Match` is the loop over routes,
which passes over one whose parameter `decodeURIComponent` refuses. `Filled`, the pattern
with texts put for its parameters, is the reference it is checked against. `OpenApi` is the
document of those routes: `Visible`, `Template`, `Split` of a form's fields over path, query
and body, `Responses`, and `Document`, where a later route of the same key replaces an
earlier one.

### `Cors` and `Cookies`

`Cors` puts a shared cache, which obeys `Vary`, between the middleware and pages of several
origins. `Cookies` passes texts from `Response.cookie` through a browser, that may hold a
sibling host's cookie of the same name, to `Request.cookie` and `signedCookie`. Characters
are kept where the formats give them a meaning (`DQUOTE` is the double quote); a signature is
a character of its own, `Hmac`, a constant of which no more is assumed than that signatures of
different texts or secrets differ and that nobody who makes up a text hits upon one.

### `Container` and `Config`

`Container` takes a step for every factory that is entered (`Make` from outside, `MakeNext` from
within the one on top), throws (`Throws`) or returns (`Returns`), and keeps the resolution stack
of each container as the variable it is. A factory may catch what the tokens it asked for throw
(`Tolerant`) and go on, and may open a scope (`CreateScope`) in the middle of its work, so the
stack is seen in every state in which a `make` can begin. `Config` parses
`.env` down to its characters, in rounds: `ParseLine` is one of the loop of `parseDotenv`,
`ReadOn` one of the loop of `readQuoted`, and `Parsing` and `Reading` are functions of the
number of rounds. The text is made of entries that somebody adds (`AddLine`); `Writings` are
the ways to write a value down, with or without quotes, and `Before` and `Comment` what may
stand around it. `BootBegins` reads the file, `Import` loads one file of `config/`, in any
order, and `ImportFails` leaves the variables set for the next `boot()`; as an ES module is
evaluated once, a file that threw (`threw`) throws at every later `boot()`, too.

### `Scaffold` and `Commands`

`Scaffold` is `pearl new`: one step between two prompts, then `WriteFiles`. Of each generated
file it keeps what the file imports and which variables it reads. `Commands` is what runs in
a project: the generators reduced to names and directories, and `migrate`, `db:seed` and
`queue:work` as the script they write, the child process that boots the application
(`BootstrapApp`), its work with three attempts, `TerminateApp` in the finally, and `Report`
of the exit code. Both have the prompts and processes fail where the code looks at it.

## 3. What the runs check

| Run | Result | Instance | Shows |
|---|---|---|---|
| `RateLimit` | holds, 209,265 states | 3 requests, 2 clients, one `RateLimit` (max 2, 2 ticks) and one `throttle` (max 1, 3 ticks), sweep every 3 ticks, 4 ticks of time | never more than `max` admitted per bucket and per window; `Retry-After` is late enough; refinement of `FixedWindow` |
| `HttpKernel` | holds, 2,312 states | stack user, pipe, user; body limit 3, chunks of 1 and 2; 4 calls of `next()`; bad headers and throwing hooks | every request ends and is answered once, with nothing internal |
| `HttpKernelSwallow` | violated | handler calls `validate()` behind a pipe | the request is never answered |
| `SessionGuard` | holds, 2,624,457 states | 2 browsers of one user, 3 requests, lifetime 1, 2 ticks; rotation on all but logoutAll | no session lost, left behind, refused or mixed up; replacement saved first |
| `SessionGuardLogoutAll` | violated | rotation also in other requests | a rotation in flight brings a session back after `logoutAll` |
| `RedisRateLimit` | holds, 6,754,062 states | 4 hits of one key, max 2, window 3 ticks of half a second, 5 ticks of time | the limit is exact across workers: no hit over `max`, none rejected early, windows do not move, only a crash leaves a counter without expiry |
| `Application` | holds, 46,838 states | 3 calls over a pool, workers and a client | connections are held in provider order, none is lost by a failure or a retry, `terminate()` leaves none, every call settles |
| `Events` | holds, 412,334 states | one event, a listener class with one retry and a function, 2 subscriptions beside the provider's, 2 dispatches | `once` means once, nested dispatches included; a dispatch settles, with all its listeners at an end, and rejects only after the retries |
| `Queue` | holds, 167,187 states | a job of 2 tries that sends 2 or 3 mails in 2 lanes, two of an unregistered class; 2 queues, one slot each; one signal, one death | mails go out once per attempt; `failed()` follows as many failures as there are tries; every added job ends |
| `Requests` | holds, 3,605,261 states | one of `Tokens` (2 users, 2 tokens, 3 ticks), `Router` with `OpenApi` (2 routes of 4 patterns, 12 paths), `Cors` (2 origins), `Cookies` (7 texts, 2 secrets) | dead tokens stay out and good ones get in; only those granted run; the first fitting route matches; documented calls validate; allowed origins and no others read; cookies read back |
| `Toolbox` | holds, 1,362,584 states | one of `Cache` (2 callers, 3 keys, room for 2), `Config` (3 variables, 5 values, 2 lines), `Container` (2 tokens, 3 factories of which one tolerates errors and one is fragile, 2 containers, 2 instances), `Scaffold`, `Commands` (3 names, 2 files) | nothing stale but by overlap; the right entry is evicted; variables as written; circles and other errors of `make` have their reasons, also after errors that are caught; a new application runs; "Done" is true; listeners find their event |
| `MadeMigrations` | violated | as `Toolbox` | a migration that `make:migration` wrote is not applied by a `migrate` that says done |

`MCRequests` and `MCToolbox` put components side by side that share no state: a behaviour
picks one (`unit`) and moves only that, so the states are the sum and not the product.

The violations are findings, each a disagreement between the code and a sentence of its docs,
quoted in `PROJECT.json`.

The bounds, and why they are enough. Clocks stop at `Horizon`, which lets every window,
session or token begin, end and begin again with a request on each side of the boundary; a
window of 3 ticks with a second of 2 ticks makes the whole-second TTL longer than the
window, the case where rounding shows, and two ticks to the second put an instant inside a
JWT's last second. Three requests (four for Redis) let a limit of 2 be passed and have one
more request interleave with the one that passes it. In `HttpKernel`, `MaxNexts` allows the
stack to be entered and a frame to call `next()` a second time from any depth. Three calls
of `Application` are a failed boot, its retry and a `terminate()`, or a boot and two signals;
three providers give one before and one after the one that fails, of each kind. Two
dispatches of `Events` are one within a listener of the other, with an entry subscribed or
removed in between; one retry of one class is a first failure and a last. In `Queue` the
third attempt exists only through a death, two mails of two lanes are the end of a call, a
third is the turn of the loop, and the jobs contend for the slot. Two routes are one that
hides the other, two lines of `.env` are a variable written twice, a cache with room for two
of three keys evicts. Two tokens
can need themselves, each other and the same; a second container is a scope made between two
calls or by a running factory. The routes that a run of `Router` adds are tried against every path of
up to five characters that tells the patterns apart.

Requests, clients, callers and browsers are symmetric where the runs declare it; no liveness
is checked under symmetry. Each request is served once and counters are bounded, so the
models do stop: `CHECK_DEADLOCK FALSE` in every configuration. That nothing is stuck is what
`EveryRequestEnds`, `CallsSettle`, `AllListenersFinish` and `AddedJobsEnd` state, by fairness.

Fairness is assumed in four modules. `HttpKernel` has `WF_vars(Next)`: Node runs the
callbacks that are due, a client finishes its body or its socket fails, and user code
ends. Since `next()` is bounded, every path ends; a path that awaits nobody's step would
show as a violation of `EveryRequestEnds` (as it does when `onData` forgets to reject).
`Application` has `WF_vars(Step(c))` for every call: an import, a driver or a drain that is
awaited resolves or rejects. Nobody is obliged to call `boot()` or `terminate()`. `Events`
has `WF_vars(ListenerStep)`: a listener that runs or awaits goes on, and ends; nobody is
obliged to dispatch or to subscribe. `Queue` has `WF_vars(Works)`: a worker that is down is
started again, BullMQ hands over what waits, a mail is sent or refused. That `Works` as a
whole goes on is enough, for each of its steps brings some job or process nearer to its end
and their number is bounded; signals and deaths have no fairness.

## 4. What is proved

All proofs are for any values of the constants within the named assumptions
(`RateLimitAssumption`, `KernelAssumption`, `RedisAssumption`, `ApplicationAssumption`,
`SessionAssumption`, `MailAssumption`, `QueueAssumption`, `TokensAssumption`,
`CommandsAssumption`, `ScaffoldAssumption`, `CacheAssumption`, `EventsAssumption`,
`CorsAssumption`, `CookiesAssumption`, `SignaturesDiffer`, `NobodyGuesses`,
`ContainerAssumption`, `ConfigAssumption`, `RouterAssumption`, `OpenApiAssumption`): positive
windows,
maxima, tries, slots and sizes, a body limit, a list of providers that is not empty, a batch
for every attempt that deaths allow, retries that are numbers and none for a plain function,
`"*"` not an origin, a database choice of an ORM and a driver, signatures as above, factories
whose needs are lists of tokens, values that are texts and letters that have no meaning to
`.env`, patterns that are lists of literals, parameters and wildcards,
forms whose required fields are fields, and `None` (`Given`) differing from the rest. No limiter is called `"RateLimit"`, the key that the
default store has in the model. TLC evaluates each of them on its run.

Two groups of theorems need more than that, and say so as hypotheses:

* `OneDefault` (windows of `RateLimit`): only one `RateLimit` uses the default store. With two,
  the property is false, as section 5 says: they share their buckets and the shorter window
  cuts the longer one.
* `OneRotation` and `EndsAreGuarded` (sessions of undisturbed browsers): no route has two
  `session()` middlewares with a guard that rotates, and routes that log out are behind
  `session()`. With two, the second looks for the id that the `Cookie` header still has, finds
  it destroyed and clears the cookie the first has set; without any, `endSession` knows no
  session to destroy. The configuration of `SessionGuard`'s run satisfies both.

* `RateLimitProofs` — `TypeCorrect`, `OverAdmissionImpossible` (`NeverOverAdmitted`). The
  property is not inductive: nothing in it bounds the count a later request will read. The
  strengthening `CountIsHolders` says that an object's count is exactly the number of
  requests that hold it, which needs `BucketsAreOpened` (only live names are handed out).
  A request is admitted while that number is at most `max`, and it never shrinks.
  `RetryAfterReachesNextWindow` (`RetryAfterSuffices`) is inductive with it: rounding up to a
  whole second loses nothing because a window is entered only before its end. `MaxPerWindow`
  (`AtMostMaxPerWindow`) needs that buckets are windows (`WindowsInvariance`): each is timed by
  the hit that made it, two of a caller do not overlap unless it was reset, and one that is
  open is still in the map, so a hit within `windowMs` of the first was counted in its object.
  On top of both, `Refinement` shows `ImplementsFixedWindow` action by action.
* `HttpKernelProofs` — `TypeCorrect`, `InternalsStayHidden`, `HandlerIsGuarded`,
  `FirstAnswerIsFinal`, and `SettledIsAnswered` (provided no handler calls the standalone
  `validate()`, the case `HttpKernelSwallow` refutes). The invariant says that the running
  frame passed a pipe only if one validated, that a body past the limit leaves
  `handleRequest` as the only frame, that `_sent` means answered unless a header was
  refused, and that a frame is come back to only after a send.
* `RedisRateLimitProofs` — `TypeCorrect`, `LockOutNeedsCrash` (`OnlyCrashesLockOut`),
  `WindowIsFixed` (`WindowFixed`), `ResetIsNotLate` (`ResetNotLate`). INCRBY returns 1 to
  one hit per counter, so until a counter is deleted at most one hit awaits EXPIRE, and
  meanwhile the counter is there without an expiry (`OneCreator`); an expiry is within one
  TTL of now, a TTL is no shorter than a window (`CeilingDivision`), so nothing reported
  before is later. `MaxPerWindow` (`AtMostMaxPerWindow`) and `RejectsOnlyAfterMax`
  (`RejectedAfterMax`) rest on `WInv`: as INCRBY is atomic, the hits counted in one counter have
  different counts, which go from 1 up without a gap, and what is not deleted is counted in
  windows one after the other. So at most `max` of them have a count within `max`, and one
  beyond it has `max` others before it.
* `ApplicationProofs` — `TypeCorrect`, `HeldStaysPrefix` (`HeldIsPrefix`),
  `NothingGetsLost` (`NothingLost`), `TerminateLeavesNothing` (`TerminateClosesAll`),
  `BootedMeansConnected` (`BootedIsConnected`), for any list of providers and any number of
  calls. The invariant ties what is held to where each call is: a `boot()` under way is
  alone (`BootIsAlone`) and the providers before the one it is at hold a connection
  (`BootGoesUp`); those after the one a `terminate()` is at hold none, and the one it is at
  holds no more than is being closed (`ShutdownGoesDown`), whatever other signals are doing.
* `ApplicationProofs`, container — `FailuresHaveReasons` (`MakesWhatItCan`), `StackIsTheCalls`
  (`StackFollowsCalls`), `SingletonsAreOne` (`KeptForGood`), for any tokens, factories and
  needs, circles and factories that catch what they are thrown included. The invariant
  (`ContainerInvariance`) says that the resolution stack is the running factories, all
  different, each needed by the one before it, and that whatever an inner `make()` has just
  ended with has its reason near the token that was asked for. A factory that is running has
  not kept an instance, so a circle through the stack is one of the bindings (`CircleIsReal`);
  what is kept meanwhile (`Settles`) takes tokens out of reach, but never the ones on the way
  to a failure that is still being thrown.
* `ApplicationProofs`, config — `ReadAsWritten` (`ConfigAsWritten`), for any variables, values
  and number of lines, each value written in any way that can hold it. What the text means is an
  invariant of the text alone (`ReadsTo`): after some rounds `parseDotenv` is behind it, whatever
  follows, and has what was last written. That it stays so when an entry is added is one round
  more (`ReadsEntry`): `KeyLine` finds the key behind spaces and `export`, `PlainEntry` the end of
  a plain value before a comment, and for a quoted one `ReadsBack` shows by induction on the
  characters that each round of `readQuoted` takes back what was written for one (`ReadsOne`) and
  the closing quote is the first it stops at. `EscapingIs`, `ReadingIs` and `ParsingIs` give the
  recursive functions their values, from `Recursion`. `Loads` adds that `load()` comes to its end
  only if no file ever threw, and then each has the value that was read.
* `SessionGuardProofs` — `TypeCorrect`, `NobodyGetsAnothersSession` (`OwnSessionsOnly`),
  `NoGapInRotation` (`ReplacementFirst`). The invariant is about where an id may be. Until the
  request that issues an id is done only that request knows it, so nobody else destroys a
  replacement that is still to be announced; `GivenOut` says that an id in a jar, or presented
  by a request, was issued by a request that is over and will save nothing any more. A
  `logoutAll` may still take a replacement, but then what it replaces goes with it, both being
  sessions of one user (`UsersMatch`). A second invariant, `Quiet` (`QuietInvariance`), follows
  the one request of a browser that nothing disturbed from await to await: which of the old and
  the new session the store has, and what its answer's cookie says. From it come
  `RotationKeepsSessions` (`KeepsSession`), `NothingIsLeftBehind` (`NoStraySessions`) and
  `GoodSessionsAreServed` (`ValidSessionServed`), on the two hypotheses above.
* `QueueProofs` — `NoMailTwice` (`BatchSendsOnce`), `HookAfterTheLastTry`
  (`FailedAfterAllTries`), for any jobs, tries, lanes and deaths. For the first, `CallOK`
  keeps the lanes apart: the cursor is ahead of every lane, the mails of the lanes differ and
  none of them is out, and while the call is pending whatever was taken is out, listed or
  with a lane. The lemmas about `Take` let one lane be exempt, because it takes its next mail
  in the step that ends the last one. For the second, a job's attempts are bounded by what
  it made, the deaths, and the one under way (`JobOK`), so that every attempt has its batch;
  what it made is at most the number of calls that were rejected (`Counted`); and pending
  calls map one to one to active jobs (`PendingOK`), of which a worker has at most `Slots`, so
  a death abandons no more (`PendingFitSlots`).
* `RequestsProofs`, tokens — `NoDeadTokenGetsIn` (`DeadTokensStayOut`), `OnlyTheGrantedRun`
  (`OnlyGrantedRun`), `NoGoodTokenIsRefused` (`GoodTokensGetIn`). The invariant dates each
  token (a JWT is good until before its last second and dead from it on; an API token is both
  at its instant) and says of every step of a request what it has seen: a user is found only
  for a token that was alive when the request began, and a refusal has its reason.
* `RequestsProofs`, CORS — `OnlyTheAllowedRead` (`ReadersAreAllowed`). Whatever the cache keeps
  is the answer to some origin under the options in force, and is kept for that origin alone
  when the answer depends on it (`CorsInv`).
* `RequestsProofs`, cookies — `WhatIsSetIsRead` (`CookiesReadBack`). A browser holds only texts
  that somebody made up, that the host encoded, or that it signed and encoded (`Honest`), and
  its own cookie is what was set last. `EncodedIsRead` says that encoding protects every text
  from what the header gives a meaning to, quotes and escapes; `SignedIsRead` and
  `MadeUpIsUnsigned`, that `unsignCookie` gives back what was signed with its secret and
  nothing else.
* `RequestsProofs`, routes — `FirstRouteMatches` (`MatchesFirstRoute`), for any patterns without
  a wildcard and any paths. `Cuts` says what it is to share a path out among the tokens;
  `GreedyIsACut` and `CutIsFound`, that exec finds such a way exactly when there is one;
  `RefillsThePath` and `FillingIsACut`, that these ways are the fillings of the pattern. The
  surprise is `CleanAlike`: the expression commits to its greedy way before anything is
  decoded, and still no fitting route is lost, because a path has as many undecodable escapes
  as the pattern has literals to take them, or the parameters of every way have one.
* `RequestsProofs`, OpenAPI — `DocumentsWhatValidates` (`DocumentedCallsValidate`), for any
  routes, descriptions and forms: `SplitIsWhole` follows each field to the one place it has.
* `ToolboxProofs`, commands — `DoneIsNeverFalse` (`DoneIsTrue`), `ListenersMeetEvents`
  (`ListenersFindTheirEvent`). The invariant follows the command from the script it wrote to
  its exit code: 0 only with the work done and the script removed; and every file the
  generators wrote has the words of its class, whatever the style its name was typed in.
* `ToolboxProofs`, `pearl new` — `WhatIsNewRuns` (`NewApplicationRuns`). A selection that was
  made by flags or by prompts is in order (`SelectionOK`: a middleware only with `http`, a
  database only with its choice), and for such a one directories, imports, dependencies and
  `.env` agree.
* `ToolboxProofs`, cache — `StaleNeedsOverlap` (`StaleOnlyByOverlap`), `SoonestIsEvicted`
  (`EvictsClosestToExpiry`). The first needs the same of the values that a `remember` holds
  between its awaits as of the entries (`CacheOK`); the second, that keys of a store differ and
  that `Only` loses nothing but what was swept, for which the lemmas on `Subsequences` show that
  ranks number the places that stay.
* `ToolboxProofs`, events — `RetriesThenSettles` (`SettlesAfterRetries`), `OnceMeansOnce`
  (`OnceAndForAll`), for dispatches nested to any depth. `CallsOK` ties the stack to the calls:
  two frames never run the same call, and while a frame is still in `entries.map` all calls
  after its own are waiting, so that leaving one disturbs no other. `OnceOK` says that every
  subscription is in one place: registered under one event or among the wildcards, dropped on
  request, or spent by one dispatch.

`FirstAnswerStands`, `HandlerInputAccepted`, `ResetNotLate`, `BootedIsConnected`,
`StackFollowsCalls`, `KeptForGood` and the type invariants are proved and not run; the rest of the listed theorems are about properties
that a run checks, too.

Only model-checked: the liveness properties `EveryRequestEnds`, `CallsSettle`,
`AllListenersFinish` and `AddedJobsEnd`, out of reach as is ENABLED. Every invariant and every
action property that a run checks is also a theorem. Where a proof does need induction over
numbers, `Induction` states it of sets (a set of naturals with 0 and with every successor is
Nat) and not of a predicate, and `Recursion` has the recursive functions of `Router` and
`Config` from it.
`Requests` and `Toolbox` put components side by side; the theorems are about the specification
of each (`CorsSpec`, `CookiesSpec`, `ScaffoldSpec`, `CacheSpec`, ...), of which the runs explore
an instance.

## 5. Known disagreements without a run

A run that must fail is kept only for the strongest ones. These are further places where the
code does not do what one would read into it, met while modelling:

* `RateLimit` instances without a store of their own share `defaultStore`, so a longer window
  is cut short by a shorter one; the 413 for a body over the limit is written after its
  socket was destroyed; `session()` on a router and on a route makes the second lookup use
  the id the first has rotated away; a hit that dies between INCRBY and EXPIRE leaves a
  counter that never expires; overlapping `boot()` calls make two pools and lose one; an
  exception after the answer never reaches `onUnhandledError` (`HttpKernel.ts:121`).
* `Router.ts:131`: captures are bound to parameter names in order, so a `*` before `:param`
  gives the parameter the wildcard's text; `group` does not look at the child router's `use()`.
* The OpenAPI document keeps the last of two routes with one key, the router serves the first;
  only the first tagged middleware of a route is documented.
* `Cors` overwrites a `Vary` that was set before; a signed cookie with an empty value cannot
  be read back.
* "A `null` or `undefined` result from `factory` is cached too" (`Cache.ts:47`): over
  `MemoryStore` an `undefined` is stored and read as a miss, so it is computed again each time.
* A guard that is not configured "fails loudly at boot" (`AuthServiceProvider.ts:57`), but only
  when it is first resolved.
* A `failed()` hook that runs while the worker is drained is lost: `close()` waits for jobs, not
  for the `failed` handlers.
* `.env`: a comment behind an empty value without quotes becomes the value.
* `pearl new` deletes an existing directory before its flags are validated and before
  "Proceed?", so "Aborted." may follow a deletion (`new.ts:729`); `--modules=auth` brings `http`
  without the default security; `make:controller user-controller` writes
  `UserControllerController.ts`; the generated bootstrap registers the abstract
  `DatabaseServiceProvider`.

## 6. What is not modelled, and why

`Hash` is calls of `node:crypto`; `serve` and `list` are a child process and a table; the
testing helpers are fixtures and `pearl` re-exports. Models and the query builder are a layer
over the ORMs, zod's schemas are reduced to the fields they require. In the modelled
components these are left out: headers other than those named, logging and wording; the
delays of retries (a retry may come at any time) and the arithmetic of backoff; `env.bool`,
`env.number`, `Config.get` and `has`; `get`, `set` and `flush` of `RedisStore`; what a
`Mailable` compiles to and the transports; the server's listen and close; registering a
provider from another one's `boot()`.

BullMQ, ioredis, ORMs, browsers, shared caches and child processes are external: modelled,
where they are, from how the code uses them. `RedisRateLimit` takes one clock for Redis and the
workers, and a counter's `decrement` and other uses of the same cache keys are left out.
`Application` fixes the list of providers before the first `boot()`. A factory of
`Container` makes what it needs, in order, and may open a scope; it does not bind or freeze. `SessionGuard` takes the
store's calls as atomic; signatures are taken to verify for what was signed and nothing else.

## 7. Plan

Done, in this order: `RateLimit` with `FixedWindow`, `HttpKernel`, `SessionGuard`,
`RedisRateLimit`, `Application`, with the proofs of all but `SessionGuard`; then `Queue` over
`Mail`, `Events`, `Cache`, `Tokens`, `Router` with `OpenApi`, `Cors`, `Cookies`, `Config`,
`Container`, `Scaffold` and `Commands`, with proofs for `Queue`, `Tokens`, `Commands` and
`SessionGuard`; then the theorems about windows and the refinement of `RateLimit`, windows of
`RedisRateLimit`, undisturbed browsers, `Cors`, `Cookies`, `Scaffold`, `Cache` and `Events`; then
`Container` step by step, with its theorems, and those of `Router`, `OpenApi` and `Config`.

Worth doing next: the commands of `RedisStore` beside `increment`, behind the same promise as
`MemoryStore`.
