# Syn: specifications, model checking and proofs

Syn is a gateway in front of llama.cpp servers: it authenticates an API key,
limits its rate and its daily use, maps the model it asks for to a backend,
admits the request to one of a few execution slots, and serves the completion
whole or as a stream.  This directory specifies those parts in TLA+, checks
them with TLC on small instances, and proves with TLAPS what matters most for
every size.  Source paths are relative to the repository's root.

## 1. The system

| component | state it keeps | operations |
|---|---|---|
| admission controller `app/core/admission.py` | semaphore, FIFO of entries with an event each, `_active` | `acquire()` (an `async with`), `_release`, `status` |
| chat handler `app/api/chat.py` | one task per request; for streams a generator | precheck, route, serve whole, serve stream, record |
| usage and quotas `app/services/usage.py` | table `usage_records` | `precheck`, `record`, `summarize` |
| rate limiter `app/core/rate_limit.py`, `policy.py` | one fixed window per key, in memory | `check`, `reset` |
| routing `app/routing/*` | the parsed file, `_by_id`, `_by_alias`, open clients | load, parse, build, `resolve`, `route`, `list_models`, preview |
| health cache `app/routing/backend_registry.py` | last health of each backend and when it was asked for | `health`, `health_map` |
| llama.cpp adapter `app/backends/llama_cpp.py` | an httpx client | `health`, `models`, `chat_completion`, `stream_chat_completion` |
| SSE parser `app/core/sse.py` | a text buffer | `parse_sse` |
| authentication `app/core/auth.py` | none; reads and touches `api_keys` | `authenticate_with_orm` |
| admin service, API, CLI `app/services/admin.py`, `app/api/admin.py`, `app/cli.py` | tables `users`, `clients`, `client_allowed_models`, `api_keys` | create, revoke, rotate, set a policy, pages |
| observability `app/services/observability.py` | none | sums, breakdowns and percentiles over `usage_records` |
| lifecycle `app/main.py` | the clients of the backends, the wiring | startup, shutdown |
| request size and id middleware, settings, logging, admin page | none of interest | |

How they interact.  Everything in the server runs on one asyncio event loop,
so what matters is where a task suspends: at the queue's event, at the
semaphore, at the backend, at a write to the client.  Authentication alone
runs in threads, and the command line is another process; these meet the rest
in the database, commit by commit.  The handler calls the limiter and the
quotas, then the routing service, then enters `admission.acquire()`, and inside
it calls the adapter; the outcome goes to `usage_records`, which the quotas of
later requests and the reports read.  Health pages and `/health` share the
health cache; the dashboard and passthrough mode go around it.

What is hard:

* a request in the queue can be granted, time out and be cancelled in one turn
  of the loop, and a newcomer can take the slot it was granted;
* a stream can end in a dozen ways and must give its slot back in each,
  including the one where nobody iterates its generator any more;
* quotas and policies are read before the waits and used after them;
* window arithmetic at the edges, with limits that change;
* the answers in the cache are older than the moment they are stored;
* a rotation of a key is two commits, next to another process that revokes, and
  a client without rows of allowed models is a client without limits;
* a record counts under the day its request began, and from the moment it ended.

`PROJECT.json` lists every such hazard at its line, with the properties that
watch over it; where a property covers it in part or not at all, a note says why.

What makes each part correct:

* *admission*: never more holders than slots, no slot lost or counted twice,
  grants in order of arrival, every wait ends where the holders release;
* *chat*: a slot is held exactly while the backend or the client is being
  served; every admitted request leaves one record, which tells its fate;
* *limiter*: no call beyond the limit, none refused below it, Retry-After right;
* *quotas and reports*: a quota is overrun by no more than what was under way
  together; every page counts what the quotas count;
* *routing*: parser and registry agree on what a valid file is, and the server
  that starts has everything the file names; no name gets around a policy; what
  is listed can be used, and the preview is what a request would meet;
* *health*: nothing is called reachable on evidence older than the cache allows;
* *stream*: the client gets the chunks of the body, once, in order, and `[DONE]`
  only for a body that came to its end;
* *keys*: revocation is for good, whatever else runs; a rotation never takes
  before it gives; no client is seen without the limits it is created with.

## 2. Modules

| module | models | instances |
|---|---|---|
| `Admission` | the controller, one action per stretch between suspensions | `MCAdmission` |
| `AdmissionContract` | what it promises: outside, waiting, running, over | as the refinement target of `Admission` |
| `AdmissionProofs` | eight theorems about `Admission` | |
| `ChatCompletion`, `ChatCompletionProofs` | the handler and when it writes its record; `INSTANCE Admission`; seven theorems | `MCChatCompletion` |
| `Usage`, `UsageProofs` | policies, quotas, records and their reports; `INSTANCE RateLimiter`; seven theorems | `MCUsage` |
| `Latency` | the statistics of the reports | extended by `Usage` |
| `RateLimiter`, `RateLimiterProofs` | `check()`; six theorems | `MCRateLimiter` |
| `Routing`, `RoutingProofs` | startup from a file to shutdown, authentication's copy of the policy, routing, preview; four theorems | `MCRouting` |
| `BackendHealth`, `BackendHealthProofs` | probes, the cache, the pages that use them; two theorems | `MCBackendHealth` |
| `StreamPipe`, `StreamPipeProofs` | one stream's body through httpx, the parser and the generator; three theorems | `MCStreamPipe` |
| `ApiKeys`, `ApiKeysProofs` | users, clients and the life of keys, by read and commit; six theorems | `MCApiKeys` |

Every definition that stands for code is in the `map` of `PROJECT.json` with
its lines.  A definition whose comment begins with "Wrong:" is a plausible
mistake in the definition that follows it; no specification uses it.  Each
property has one, which breaks it.

### Admission

`pc[r]` is the suspension point of the task of `r`.  `asyncio.Semaphore` is
modelled as CPython implements it: a counter, waiters in order, and the set
`woken` of those whose future has its result and who have not run since.
`_QueueEntry.granted` and its event are one variable, `granted`, because the
code sets them together.  Holding `asyncio.Lock` never spans a suspension, so
it has no state.  `AcquireFast`, `AcquireReject` and `Enqueue` are the ways
through the first half of `acquire()`; `TakeGrantedSlot`, `QueueTimeout` and
`CancelQueued` the ways out of the wait for the event; `TakeHandedSlot` and
`CancelSemWait` those out of the semaphore; `Release` is `_release` and the
semaphore's `release`.  The queue's timeout may fire at any time, also when
the event is set and the task has not run: the grant is then lost, as in the
code.

### ChatCompletion

`stage[r]` follows `create_chat_completion`, `_non_streaming_completion` and
`_streaming_completion`; the controller's actions are taken together with the
handler's, because nothing suspends between them.  Releasing the slot and
recording are one step for the same reason.  The lookup of the default
backend's models suspends between precheck and admission, so `PrecheckPass`
and `Route...` are separate.  For streams the status line goes out before the
generator starts (`RouteStreaming`, `StartGenerator`).  A task cancelled while
it writes to a client leaves its generator suspended with the slot
(`ClientGone`), until the loop finalises it (`CloseGenerator`).  The precheck is
a choice here; module `Usage` has what it decides.  `ObservabilityPage` is what
`/admin/observability/summary` and `/admin/metrics` read of the controller and
of the records, in one turn of the loop; `LedgerBalances` says how the two add
up, and which requests are in neither or in both.

### Usage

The other half of a request, seen from its limits: it authenticates, which
copies the rows of its key and client (`carried`); the precheck (`PrecheckPass`
and the two refusals) resolves the limits from those rows, charges an instance
of `RateLimiter` and then counts the day's records, in one turn of the loop;
it enters the queue under some UTC day (`Begin`); and it ends with a record
(`End`) or without (`EndUnrecorded`).  What happens between the last two is
`ChatCompletion`.  Policies change, the day changes, and the process dies
(`Crash`) at any time; the records stay, the windows of the limiter do not.
`peak` is a history of how many requests of a key were under way at once.
Reports are operators over the records: `Summarize` for the usage pages,
`Breakdown` by client, model and backend, `ObservabilitySummary`, `Counters`
for the metrics, `LatencyOfToday`.

### Latency

The average, median, 95th percentile and maximum of `_percentile` and
`latency`, in whole milliseconds.  `IsPercentile` says what a percentile is
without sorting or interpolating; `PercentilesByRank`, an assumption TLC
evaluates, compares the two on every sample of up to five values of up to 4 ms,
and `LatencyIsRight` (section 4) proves it of every sample.

### RateLimiter

The clock has `Scale` ticks to the second, so that the cutting off of
`retry_after` shows.  `check()` is one step (`CheckUnlimited`,
`CheckNewWindow`, `CheckCounted`, `CheckRefuse`); policies change the limit of
a key at any time; a restart empties the windows.  `log` is a history of
admissions for the properties.

### Routing

Startup is a loop over the file, a step for each backend and model
(`ParseBackend`, `ParseModel`), then `OpenBackend` and `RegisterEntry`; the
default backend is opened before all that (`OpenDefault`).  `clients` are the
connections that are open: a startup that fails leaves them, and `Shutdown`
closes that of the default backend alone.  A request is `Authenticate`, which
copies what its client may use, and later `Decide`.  Configured and passthrough
mode decide by different code, and so does the preview in passthrough mode
(`Route`, `PassThrough`, `RoutePassthrough`).  A "malformed" value stands for
whatever else a field may hold.

### BackendHealth

A page is a loop over the backends that suspends in each probe; two pages run
at a time and share the cache.  Pages that list the registry go through all
backends (`AskAll`), a routing preview through one (`AskPreview`); the dashboard
and the `/health` of passthrough mode probe the default backend and neither read
nor write the cache (`AskDefault`).  `lastUp` is a history for the properties.
Backends start and stop at any time.  Of how a probe fails (timeout, refused
connection, an answer that makes no sense) the pages tell nothing: all are
`unreachable`.

### StreamPipe

The body is a sequence of lines' contents and line ends; the parser's buffer is
always a stretch of the body, so two positions stand for it.  `client.post`
returns with the whole body (`PostReturns`), which `aiter_bytes` may hand over
in any pieces: httpx gives one, the parser is written for any.  The events of
the body are defined a second time without a parser (`SameEvent`, `Says`,
`Deltas`), with either line end for a blank line as the documents have it, and
`DeliveredAsSent` compares the two for the bodies without a blank line in CRLF
(`Misread`), which the parser does not see; of the others it says that nothing is
written twice or out of order.

### ApiKeys

A step is one read or one commit.  Sessions keep what they have read
(`expire_on_commit` is off), so an update works from the row as it was read.
A client is flushed before its allowed models are (`InsertClient`,
`CommitClient`); what is flushed and not committed is seen by nobody and keeps
others from writing (`MayWrite`).  A commit may fail, reading a row back after a
commit may fail (`GiveUp`), and the server may die between two steps.  `job`
keeps what the last command was answered, for `AnswersHold`.

## 3. Runs

| run | instance | shows |
|---|---|---|
| `MCAdmission_gate` | 5 requests, 2 slots, queue of 2 | invariants, grants in order, the refinement of `AdmissionContract` with its liveness, every semaphore wait ends |
| `MCChatCompletion_requests` | 2 plain requests, 2 streams, 1 slot, queue of 2, 1 chunk, 1 lost record | slot, stage, answer and record agree; the ledger balances; every request ends |
| `MCChatCompletion_outcome` | 2 plain requests, 1 stream, queue of 1 | *violated*: a stream rejected by the queue is recorded as cancelled |
| `MCChatCompletion_waitends` | same, no fairness of peers | *violated*: a wait in the semaphore outlasts the queue timeout without end |
| `MCUsage_quotas` | 3 requests, 2 keys of one client, one of them with limits of its own, 2 days, 1 tick, one token a completion | quotas, the charge of the limiter, reports and counters through changes of policy and of day and crashes |
| `MCUsage_turnedaway` | same | *violated*: a request the queue turned away counts for the quota |
| `MCRateLimiter_windows` | 2 keys, limits 0, 1, 2, windows of 2 s at 2 ticks, 5 ticks | the window arithmetic and Retry-After |
| `MCRouting_files` | 3 names, 2 backends, no file and every file of one or two models with up to two aliases, one field wrong | startup is exact, policies hold, pages tell what a request meets |
| `MCBackendHealth_pages` | 2 backends, the first also the default one; a page of status, models or dashboard beside one of overview, backends or preview | rows and headlines were true |
| `MCStreamPipe_bodies` | bodies of up to 6 symbols, all pieces | the client gets what the body says, blank lines in CRLF excepted |
| `MCStreamPipe_heldback` | bodies of up to 4 symbols | *violated*: a complete chunk waits for the rest of the body |
| `MCApiKeys_life` | 1 user, 1 client, 3 keys, server and one command line, 1 request, 1 tick | limits from the start, revocation, rotation, authentication |

Why the bounds are enough.  Admission: a lost grant takes a holder, the one
granted and one behind it; barging takes a newcomer; two slots and five
requests have all of them at once, twice over.  Chat: the controller's races
are checked in the run above; the handler needs a queue in which a stream and a
plain request can stand in either order behind a holder of either kind.  Usage:
an overrun takes two requests of one key under way together, with a third of
another key to show that keys do not mix; the change of day falls between any
two steps of a request.  A quota of two lets the overrun of one and of two
requests be told apart.  `View` leaves out the limiter's last answer, which no
action and no property of `Usage` reads.  Limiter: five ticks cross a
window's edge with calls before, on and after it, and two keys show that one
does not touch the other.  Routing: a clash takes two entries, an alias and an
id; three names leave one that clashes with nothing.  Health: one page to write
the cache and one to read it, one tick to age it (with a life of zero, the
strictest), two backends for a headline that is mixed.  Stream: six symbols
hold two events with their blank lines, an error after a chunk, and every cut
between them.  Keys: an old key, its replacement, and one more from the command
line.

Deadlock is not checked: every instance has finitely many requests, ticks and
keys, and stops when they are used up.  That nobody is stuck before is what
the liveness properties and `NoStrandedWaiter` say.  Symmetry is used only in
runs without liveness.

### Fairness

* `Admission!FairSpec`: ready tasks run, the queue's timer fires, and bodies end
  (`Release`).  The last one is not the controller's: it is the assumption its
  callers discharge.
* `ChatCompletion!ServerFairness`, weak, for each request: the loop runs ready tasks; a whole answer is
  awaited with the backend's timeout (120 s); abandoned generators are
  finalised by the loop's hook.  `PeerFairness`, weak, for each request: upstreams go on and clients
  read or go.  Nothing in the server enforces the second: a stream has no read
  timeout (`llama_cpp.py:549`) and a write has none.  `EveryRequestEnds` needs
  both; `MCChatCompletion_waitends` shows what is left without the second.
* `StreamPipe!FairSpec`: the parser runs, clients read or go; nothing is
  assumed of the upstream.

### What the violated runs say

1. `MCChatCompletion_outcome`: a stream refused by the queue, or timed out in
   it, is recorded as `cancelled`, not `rejected` or `timed_out`
   (`chat.py:681`), and its client has seen a 200.
2. `MCChatCompletion_waitends`: a granted request whose slot was taken waits in
   the semaphore, for which no timeout is set (`admission.py:165`).
3. `MCUsage_turnedaway`: every record counts for the request quota, those of
   requests the queue turned away too (`usage.py:310`, ARCHITECTURE.md:709).
4. `MCStreamPipe_heldback`: `client.post` reads the whole body before the first
   chunk is forwarded (`llama_cpp.py:555`): streams are not incremental.

### Known differences between code and documents without a run

Admission and chat:

* A grant can be spent on a request that is no longer waiting
  (`admission.py:193`).  Those behind it wait beside a free slot until the next
  acquire and release, or their timeout, where ARCHITECTURE.md:616 says that any
  queued request can proceed.  `StallOnlyByLostGrant` says, and
  `AdmissionProofs` proves, that this is the only way.
* Requests that wait at the semaphore come on top of `max_queue`
  (ARCHITECTURE.md:481).
* `chat.py:576` and ARCHITECTURE.md:593 say that the slot of a stream is acquired
  before the `StreamingResponse` is created.  The code creates the response
  first; `acquire()` is in its generator, which runs after the status line has
  gone out (`RouteStreaming`, `StartGenerator`), and a response dropped before
  that never has a slot (`DropResponse`).  `SlotHeldWhileServing` is about the
  stream itself and says nothing of the stage between, "headers".
* Blank lines that end in CRLF are not seen (`sse.py:99`): two chunks on the
  sides of one are one event to the parser, which is not JSON, so that the
  stream ends with an error and neither chunk is delivered; a single chunk comes
  out at the end of the body.  `sse.py:18` and ARCHITECTURE.md:574 promise CRLF.
  `StreamPipe` has "crlf" line ends and bodies of this kind (`Misread`), on which
  it does as the code does; `DeliveredAsSent` excepts them.

Quotas and reports:

* Token quotas are read before and written after a request; requests under way
  together each add a generation, where ARCHITECTURE.md:712 grants one.
  `OvershootBounded` says how far it goes.
* `chat.py:16` and ARCHITECTURE.md:654 put the precheck after the model policy.
  The handler prechecks first and routes then (`chat.py:287-306`), so a request
  for a model that does not exist or is not allowed is charged by the limiter, and
  one over its limit gets a 429 where the documents have a 404 or 403.
  `LimiterPaidByAll` counts these requests among those that pay, as the code does.
* `syn_requests_total` and its like are declared counters and fall at midnight
  (UTC); a record written after midnight goes to the day its request began on
  and is never in today's numbers.  `CountersFallAtMidnightOnly` says they fall
  at no other time.
* `GET /admin/usage` takes a client and a key; where both are given the client
  is not looked at (`usage.py:256`).
* `_percentile` interpolates also where its comment promises the nearest rank
  (`observability.py:444`).
* The overview is several reads, not a snapshot; a request in the hand-over of
  a slot is on neither side of the ledger (`LedgerBalances`).

Backends and routing:

* A row of `/admin/backends` mixes two probes (`admin.py:1345`, `admin.py:1363`)
  and can say unreachable and list models.
* docs/ROUTING.md:43 says that `/admin/routing/preview` and
  `/admin/observability/backends` are not available in passthrough mode.  Both
  are: the routing service is always there and has a branch for the mode
  (`admin.py:756`, `router.py:172`), and the breakdown groups the records of that
  mode under no backend (`observability.py:395`).  The `PreviewTells` part of
  `PagesTellRouting` holds what the preview answers there to the same as in
  configured mode, and `PagesAgree` counts the group.
* In passthrough mode `/admin/overview` says OFFLINE without a probe
  (`admin.py:1048`).
* An alias equal to the id of a *later* entry is accepted (`config.py:206`,
  `config.py:11`) and never resolves to its own entry.  `NamesMeanTheirEntry`
  excepts such aliases.
* An empty `allowed_models` means no limit (`auth.py:92`); creating a client
  with one creates it without a limit (`ApiKeys`, `Lists`).
* The clients of the registry are not closed at shutdown, nor after a startup
  that fails (`main.py:141`).

Administration:

* When reading a row back after its commit fails, the caller gets an error for
  what was done: a key that works and that nobody has seen
  (`services/admin.py:147`).

## 4. Proofs

`AdmissionProofs`, for every set of requests, `MaxActive` and `MaxQueue`, from
`AdmissionAssumption` and the finiteness of the sets counted:

* `TypeCorrect`, `SlotsConserved`, `ActiveCountIsExact`, `QueueIsWellFormed`,
  `WaitersAreNotStranded`, `StallsOnlyByLostGrant` are invariants;
* `GrantsAreInOrder`: no step grants a request while another stands before it;
* `ContractKept`: every behaviour is one of `AdmissionContract!Spec`.

The invariants are not inductive one by one.  That `_active` is exact needs the
semaphore's count, which needs that each woken waiter owns a slot, which needs
that waiters and queue are free of duplicates and hold only suspended requests.
The inductive invariant is

    IndInv == TypeOK /\ Slots /\ Lists /\ NoStrandedWaiter /\ StallOnlyByLostGrant

where `Slots` says that counter, woken and holders add up to `MaxActive`, and
`Lists` that a request is in the queue or among the waiters exactly when its
`pc` says so.  There is one lemma per action; lemmas on what entering, leaving
and waking do to the cardinalities come first.  Beside it stands `Known`, which
the ledger below is counted with: finitely many requests have arrived, and the
queue lists each that waits for its event without a grant.

`ChatCompletionProofs`, for every set of requests and of those that stream, any
number of slots, places in the queue, chunks and lost records: `TypeCorrect`,
`SlotIsHeldWhileServing`, `RecordsTellFate`, `LedgerIsBalanced` (invariants), and
three theorems about the composition.  `ControllerDriven`: every behaviour of the
handler is, for the controller's variables, one of `Admission!Spec`, so that what
is proved of the controller alone holds under the handler.  `SlotsConserved` and
`ContractKept` are what matters most of that: no way a request can end loses a
slot, and the server as a whole implements `AdmissionContract!Spec`.  The module instantiates `AdmissionProofs` and cites its
lemmas; the assumption they rest on is a conjunct of `ChatAssumption`
(`GateAssumption`).  The inductive invariant is

    IndInv == AP!IndInv /\ AP!Known /\ ChatType /\ \A r \in Req : Consistent(r)

where `Consistent` relates the stage of the handler to the point of its task in
the controller (`Gate`), and both to the answer and the record (`Told`).  It
speaks of one request at a time, so `MoveKeeps` needs to be shown once: whoever
moves, moves alone.  `GotoKeeps`, `FinishKeeps` and `LeaveKeeps` say what that
comes to for a handler that goes on, ends, and gives its slot back, and the
lemma of an action cites the one it is an instance of.  The ledger counts two
ways: the requests that have arrived run, are on their way to a slot, wait for a
grant or have ended (`ArrivedAreSomewhere`); those that have ended are on record
under one outcome or their record is lost (`EndedAreRecorded`); and the queue
holds those who wait and those who were cancelled there (`QueueHolds`).  Each is
a union of disjoint sets, and `LedgerAdds` adds them up.

`RateLimiterProofs`, for every set of keys, scale, window, set of limits and
clock: `TypeCorrect`, `CountsAreExact`, `SpansAreBounded` (invariants),
`AdmittedWithinLimit`, `RefusalsAreEarned` and `RetryAfterIsRight` (action
properties).  The inductive invariant adds to `CountExact` that no window on
record begins after the one the clock is in.  It is `Counted`, said of a log, a
window and a time whatever state they are of: `UsedIsOnRecord` reads off the
window how much of a limit is used up, `OneMoreCounted` and `CountedLater` keep
it, and `AdmitsByUse` says of `check()` that it admits by that number.  The lemmas
under them say that a time is in exactly one aligned window and that appending to
the log adds one to the count of its window and to no other.  `SpansAreBounded` has an invariant of its own on top, that no window
holds more than the highest limit (`WindowsCapped`), and that a span of the
length of a window meets two of them (`WindowsOfSpan`).

`RoutingProofs`, for every routing file, every set of names, backends, policies
and clients: `TypeCorrect`, `StartupIsExact`, `PagesAreTrue` (invariants) and
`PolicyIsKept` (the action property `NoBypass`).  Startup is a loop and
`ValidFile` speaks of a whole file, so the inductive invariant follows the loop:

    IndInv == TypeOK /\ PhaseInv /\ RegistryInv /\ RequestInv

`PhaseInv` says, phase by phase and up to the index of the loop, how much of the
file is valid (`ValidUpTo`), parsed (`ParsedUpTo`), open (`OpenedUpTo`) and
registered (`RegisteredUpTo`), and of a startup that failed that the file is not
valid.  `BackendAcceptedIff` and `ModelAcceptedIff` are the heart of it: what
the parser asks of the next entry, given the ids and aliases it has seen, is
exactly what one more valid entry adds; `ValidFileIff` takes that to the file as
a whole.  `NotRefused` says why the registry's own check never fires.
`RegistryInv` (an id leads to its own entry, an alias to an entry) is what
`PolicyIsKept` needs of the registry and why it holds for aliases.

`ApiKeysProofs`, for every set of users, clients, keys, command lines and
requests, and a clock of any length: `TypeCorrect`, `DeadKeysAreRefused`,
`LimitsAreThere`, `AnswersAreKept` (invariants), `RevocationIsForGood` and
`RotationsReplace` (action properties).  The inductive invariant is

    IndInv == TypeOK /\ for each client, key, actor and request:
              ClientInv, RowInv, PendingInv, AnswerInv, RequestInv /\ OneWriter

An actor acts on what it read some steps ago, so `PendingInv` says what is still
true of what it read: the row is there, a revocation it saw is one, the new key
of a rotation is committed before the old one is touched.  `AnswerInv` says what
its last answer is about.  Both hold whatever the other actors do because all
that they do to the tables is `Grows`: users, clients and keys stay, what cannot
change about them does not, and a revocation is for good.  Each action is
proved to be an `ActorStep`, which keeps the invariant; `DeadStaysDead` carries
the same argument to requests.  `OneWriter` is needed for the client that is
flushed and not yet committed.

`BackendHealthProofs`, for any number of backends and pages, any life of the
cache and a clock of any length: `TypeCorrect` and `ReachabilityIsEvidence`
(invariants).  What a page says at its end rests on what it saw on the way, so
the inductive invariant says of each step what it may know:

    IndInv == WorldType /\ CacheType /\ CacheTrue /\ UpIsNow
              /\ \A p \in Page : TaskType(p, task[p]) /\ TaskTrue(task[p])

`TaskTrue` says that what a page has found reachable was up since the page was
asked for, or the life of the cache earlier where it uses the cache; `CacheTrue`
that an entry that says reachable is not older than its time stamp claims, which
holds because the stamp is taken before the probe.  `WorldStep` keeps both
because `lastUp` never goes back, and needs `UpIsNow`; `RowDoneKeeps`,
`KeepsOn` and `DeliverKeeps` are what the lemmas of the actions share.

`StreamPipeProofs`, for every set of symbols, a body of any length and every way
it is cut into pieces: `TypeCorrect`, `UpstreamIsWithinSlot`, `DeliveredIsSent`
(invariants).  The last compares a parser with a definition that does not parse,
so its lemmas are about the two.  `HeardDeltas`, `HeardStops` and what they are made
of are that definition with "\n\n" for a blank line: what stands between two
neighbouring cuts is an event of it (`BlockIsEvent`), and `EventOf` of it is what
the event says (`BlockHears`, `EventIsHeard`), in every body.  Where no blank line
ends in CRLF the two definitions are one (`SaidIsHeard`).  The inductive invariant

    IndInv == TypeOK /\ SlotInv /\ ReadInv

follows `start`, the edge of what has been parsed: the chunks written are those
up to it, once and in order (`Within`, `InOrder`, `Given`), and while the parser
runs nothing that stops a stream lies before it.  That the first stop is the one
that ends the stream needs the least of a set of positions, which comes from the
well-foundedness of the natural numbers (`LeastNat`).

`UsageProofs`, for every finite number of requests, any keys, clients and days
and every limit in the rows and the settings, from `UsageAssumption` (which also
says that `NULL` is no key and no client): `TypeCorrect`, `LimiterIsPaid`,
`OvershootIsBounded`, `PagesStayInAgreement` (invariants), `CountersFallRarely`
(the action property), `RateIsKept`, which no run states, and `LatencyIsRight`
about the statistics.

`OvershootIsBounded` is about what is on record; what decides it is what a
precheck saw a good while before.  So the inductive invariant

    IndInv == TypeOK /\ LogType /\ Endings /\ PeakIsMost
              /\ LimiterPaidByAll /\ QuotaInv

speaks, in `QuotaInv`, of every set of requests that are on record for a day or
may still come to be (`MayCount`): one of it, the last that was let through, has
a quota that the set exceeds by no more than the peak.  `PassQuota` is the step
that matters: those on record were fewer than the quota of the request that
passes, and all others that may come to its day are under way (`PeakIsMost`).
Every other step leaves `MayCount` as it is or makes it smaller (`QuotaKept`).
`TokenInv` says the same of what a set has cost or may come to (`Cost`): a request
without a record may still cost `MaxTokens`, one on record costs what it says,
so that the cost of a set never rises but by those that are let through
(`NoneCostsMore`, `PassTokens`).  `Max` of the quotas needs that a finite set has
a greatest (`GreatestValue`), shown by a smallest set that has none.

The limiter is a parametrised instance, one per request; `Charged` says what its
`check()` does to the log.  `RateIsKept` is the limiter's promise inside the
precheck: `RateInv` is `Counted` of every key, which speaks of no limit and so
holds between requests of a key that carry different ones, and whoever passes is
within its own limit and whoever is refused found it used up.

The sums of the reports are folds, which `MapThenSumSet` defines by recursion
over a set.  `SumExists` shows that the function so described exists, and
`SumOrderFree` that the order of the elements does not matter, both by a smallest
set for which they fail (`SmallestSet`); `SumEquations` is what everything else
uses: the empty sum is zero and any element may be taken out.  `SumOfParts` and
`CountOfParts` then say that the lines of a breakdown add up, which with
`DurationsListed` (each request of the day is on the list of durations once)
makes `PagesAgree` follow from the types alone.  `LatencyIsRight` compares the
statistics with their definitions for every sample: a permutation that sorts
exists (`OrderExists`), a sorted sample has as many values of any set and the same
sum (`SortedCounts`, `SortedSum`), and `PercentileCounts` counts the values up to
and from a percentile.

Every invariant and action property the passing runs check is proved.
Model-checked only: liveness (`EveryRequestEnds`, `ParsingEnds`) and the fairness
part of `ImplementsContract`, of which `ContractKept` proves the rest; liveness
under fairness is out of TLAPS's reach.

## 5. Not modelled

* The settings page, the list of recent requests, the HTML of the admin API and
  its page, the admin secret: plain selects and rendering.
* The middleware (one header of one request each), settings, schemas, logging.
* Running migrations, and the scripts that try a running server.
* Hashing and the formats of keys; building payloads and answers of the adapter;
  bytes inside a line of a stream.
* Durations: a timeout may fire whenever its wait lasts, so that how long a
  health probe takes (`llama_cpp.py:309`) is not told.
* The `SELECT 1` of the readiness endpoint.

`PROJECT.json` gives the reason component by component.  `app/models` is not in
the repository: the columns come from the migrations and from how the code uses
them.

## 6. Plan

What would add most: a finer `StreamPipe`, with the bytes inside a line; the plain
call of the adapter beside the streaming one; and the settings and the recent
requests of the admin API beside the pages of `Usage`.
