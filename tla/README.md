# TLA+ models of EAWebKit's network layer

EAWebKit is Electronic Arts' port of WebKit for games: WebCore and
JavaScriptCore from upstream, and below them a platform layer ("BAL") written
for a host that calls `View::Tick` once per frame and may replace file access,
memory and transport. This directory specifies the part of the port that has
state of its own and is hard to test: the network layer in
`src/Webkit-owb/BAL/WKAL/Concretizations/Network/EA` (called `EA/` below).

## 1. The system

### Components

| Component | State | Operations | What makes it hard, what makes it correct |
|---|---|---|---|
| `ResourceHandleManager` (`EA/BCResourceHandleManagerEA.cpp`) | queue of handles, list of jobs, number of running jobs, condemned flag, one-shot timer, list of handlers | `add`, `cancel`, timer callback, `ProcessTHJobs`, synchronous dispatch, the `TransportServer` functions handlers call, add and remove handlers, shutdown | One thread, but re-entrant: clients and handlers call back in the middle of a loop. Counter, flag, timer and references are kept by hand. Correct if the books balance, each loader learns one outcome, each initialized job is shut down, and loading never stalls. |
| `ResourceHandle` and the synchronous loader (`EA/BCResourceHandleEA.cpp`, `ResourceHandleInternal.h`) | reference count, client, cancelled and response-fired flags | `start`, `cancel`, `setClient`, `loadResourceSynchronously` | Manually counted references with several owners; a synchronous load uses a stack object. |
| `ResourceLoader` (WebCore) | its handle, whether it was cancelled | four callbacks, `cancel`, `releaseResources` | It may cancel, start and synchronously run other loads inside a callback. |
| `AuthenticationManager` (`EA/BCAuthenticationManagerEA.cpp`) | jobs that wait for the user, saved credentials | `BeginAuthorization`, `Tick`, `Proceed`, `Cancel`, `ProvideCredentialsHeader` | The answer comes frames later, after the loader may be gone. |
| Transport handlers (`EAWebKitTransport.h/.cpp`, `EA/BCTransportHandlerDirtySDK.cpp`) | data of each job, sockets, redirects, time-outs | `InitJob` .. `ShutdownJob`, `Tick` | Partial progress, failure in each state; some call the server from `Tick`. |
| Disk cache (`EA/BCTransportHandlerFileCache.cpp`) | map of entries, files, ini file | `CacheToDisk`, lookup, maintenance, `Init`, `Shutdown` | Index and files are separate: a crash, a limit, an expiry between them. |
| Cookie manager (`EA/BCCookieManagerEA.cpp`) | list of cookies, limits, cookie file | set, get, expire, read and write the file | Limits at their boundary, replacement, persistence of sessions. |
| Form data stream (`EA/BCFormDataStreamEA.cpp`) | position in elements, open file | `read` | Elements and buffers of unrelated sizes. |
| Stream decompressor (`EA/BCStreamDecompressorEA.cpp`) | state of the gzip reader | `Decompress` | Headers split over chunks. |
| Timers (`WebCore/platform/Timer.cpp`, `BCSharedTimerEA.cpp`) | heap of timers, one shared timer | start, stop, fire | Timers that change the heap while it fires. |
| View (`src/source/EAWebKitView.cpp`) | surface, page, input state | `Tick`, input, navigation | Drives everything else once a frame. |
| WebCore, JavaScriptCore, raster, third-party code | - | - | Upstream or pure computation; not modelled. |

### How they interact

`View::Tick` calls `TickTransportHandlers`, then `fireTimerIfNeeded`. When
the manager's one-shot timer is due, `downloadTimerCallback` runs
`startScheduledJobs`, `ProcessTHJobs`, `AuthenticationManager::Tick` and
`startScheduledJobs` again, and arms the timer if work is left.
`ProcessTHJobs` makes one handler call per job (Init, Connect, Transfer,
Disconnect, Shutdown), then erases the jobs in state Remove. During Transfer,
and for http from `Tick`, a handler calls the manager back (`HeadersReceived`,
`SetRedirect`, `DataReceived`, `DataDone`), which calls the `ResourceLoader`,
which may run a script, which may start, cancel or synchronously run loads.
`loadResourceSynchronously` pauses the other jobs and runs `ProcessTHJobs` and
`TickTransportHandlers` until its own job is gone.

## 2. Modules

| Module | Contents |
|---|---|
| `ResourceHandleManager` | the scheduler: manager, handles, loaders, waiting list, handler results |
| `LoadService` | the abstract specification: what the layer promises to loaders |
| `HttpHandler` | one load over http: request, redirects, cookies, form, credentials, time-out |
| `CookieManager` | the jar of cookies, its limits and its file |
| `FileCache` | the disk cache: map, files, ini file, crashes |
| `Timers` | the heap of timers and the shared timer that `View::Tick` polls |
| `TimerService` | the abstract specification: what `Timer.h` promises |
| `MCResourceHandleManager`, `MCHttpHandler`, `MCCookies`, `MCFileCache`, `MCTimers` | model values, small sets and symmetry for TLC |
| `ReentrancyProofs` | type correctness, the inductive invariant of the scheduler and the theorems that follow from it |
| `OwnershipProofs` | who may have called whom, and the proof that references match owners |
| `ServiceProofs` | sessions of handlers, ids, condemned jobs at shutdown, and the timer |
| `LoaderProofs` | what loaders are told, the proof that the scheduler implements `LoadService`, condemned jobs and the removal of a handler |
| `HttpHandlerProofs`, `TimersProofs`, `CookieManagerProofs`, `FileCacheProofs` | the theorems about these modules |

The modules meet in the interfaces that the code has, not in one state space.
`ResourceHandleManager` knows of a handler what `EAWebKitTransport.h` lets it
return, of a file cache that it serves some jobs, and of time that its timer
fires; `HttpHandler`, `FileCache` and `Timers` are what is behind each of
these. `HttpHandler` has its own waiting list, with the credentials that
`ResourceHandleManager` leaves out, and sees of the cookie manager one value per
server, whose rules are `CookieManager`'s. The fairness of
`ResourceHandleManager` (a timer that is due is fired) is the property
`TimersFire` of `Timers`.

### The model of the scheduler

There is one thread, and the interesting interleavings are those of
re-entrancy. The variable `stack` is the call stack of that thread, reduced to
the frames between which foreign code may run; an action is the code between
two such points, and works for the frame on top (`At("sweep1")` is the first
loop of `ProcessTHJobs`, `At("data")` a `didReceiveData` in progress, and so
on). Between the frames of the model no client has control, so the atomicity
is that of the program. A frame keeps what the C++ frame keeps in locals: the
handle it works for, the id of the job the iterator is at, a flag.

| Model | Code |
|---|---|
| `queue` | `m_resourceHandleList` |
| `job[h]` | the `JobInfo` of `h` in `m_JobInfoList`; ids give the order of the list; `NoJob` if it has none |
| `running`, `condemned`, `timer`, `nextId` | `m_runningJobs`, `m_CondemnedJobsExist`, `m_downloadTimer.isActive()`, `m_JobIdNext` |
| `limbo` | `AuthenticationManager::mTransportInfoList` |
| `rh[h]` | `ResourceHandle` (`refs`, `client`, `m_cancelled`, `m_responseFired`) and whether the object exists |
| `loader[h]` | how far the `ResourceLoader` (or the synchronous caller) that owns `h` is |
| `open` | handles whose handler holds job data (`mTransportHandlerData`) |
| `appHandler`, `life` | is the application's http handler registered; is the manager up, deleted, or did a null or dangling call crash the program |

| Action | Code |
|---|---|
| `StartLoad`, `CancelLoad`, `ClientReturn` | `ResourceHandle::start` + `add`; `didCancel` + `cancel` + `releaseResources`; the end of each callback with `releaseResources` after `didFinishLoading` and `didFail` |
| `TimerFires`, `FirstStartDone`, `PassDone`, `AuthTickDone`, `CallbackDone` | the five parts of `downloadTimerCallback` |
| `StartNext`, `UriData`, `UriFinish`, `UriDone` | `startScheduledJobs`, `initializeHandle` + `AddTHJob`, `parseDataURI` |
| `SweepStep`, `SweepTransfer`, `FirstLoopDone` | the first loop of `ProcessTHJobs` |
| `TellFailure`, `EraseTold`, `EraseQuietly`, `SecondLoopDone` | its second loop |
| `HeadersReceived`, `SetRedirect`, `DataReceived`, `DataRest`, `DataDone`, `TransferReturn` | the `TransportServer` functions and the return of `Transfer` |
| `AuthProceed`, `AuthCancel`, `AuthFinish`, `AuthDrop`, `AuthDangling` | `AuthenticationManager::Tick`, `Proceed`, `Cancel` |
| `SyncStart`, `SyncProcess`, `SyncTicked`, `SyncReturn` | `loadResourceSynchronously`, `dispatchSynchronousJob` |
| `RemoveTransportHandler`, `TransportHandlerRemoved`, `Finalize`, `Finalized` | the functions of those names, `~ResourceHandleManager` |

Abstractions, and why they are sound for the properties:

* A handler is modelled by what `EAWebKitTransport.h` lets it return, because
  the application may install its own; so one `Transfer` may deliver data and
  finish. What DirtySDK, the file handler and the cache do differently
  (headers or none, a failed time-out, a second report of a failure) is in the
  `kind` of the job.
* Contents, lengths, headers and URLs are left out: no guard of the scheduler
  depends on them except the scheme, the 401/407 status and Basic, which are
  the choices of `StartNext` and `HeadersReceived`.
* `didReceiveResponse` and `willSendRequest` may start and cancel loads but are
  assumed not to run scripts synchronously, so a synchronous load starts only
  from data, finish and fail callbacks, or from the idle program.
* `RemoveTransportHandler` and shutdown are calls of the application between
  frames, as the headers ask for.
* The waiting list is a set: the order of the user's answers is not determined
  by the code.
* Handler lookup always finds a handler (`initializeHandle` never ends
  otherwise: see Known behaviours). A synchronous `data:` URI has no job and no effect here.
* A client that calls back through a dangling or null pointer ends in
  `life = "crashed"`, one of the outcomes of undefined behaviour, and the one
  from which nothing more is checked.

### The model of a load over http

`loads[l]` is what the `ResourceHandle` keeps through all its jobs (URL, form
and the position in it, `Authorization` header, time-out interval), `jobs[l]`
the `TransportInfo` and `DirtySDKInfo` of its job, `saved` the
`mSavedCredentialsList`, `jar` the cookie of each server.

| Action | Code |
|---|---|
| `AddTHJob` | `AddTHJob` with `ProvideCredentialsHeader` and `OnHeadersSend` |
| `InitJob`, `Connect` | the functions of `TransportHandlerDirtySDK`; `Connect` reads the form through `FormDataStream::read` in a loop (`ReadAll`) |
| `SendHeader` | `DirtySDKSendHeaderCallback`: a second request gets its cookies anew |
| `RecvRedirect`, `RecvAnswer` | `DirtySDKRecvHeaderCallback` of a redirect and of any other answer: location, cookies, challenge |
| `TransferDone`, `TransferTimeOut`, `TransferFail` | `Transfer`, tested in this order: data that is complete wins over a time-out |
| `Proceed`, `CancelAuthorization` | the functions of the `AuthenticationManager`, with `AddSavedCredentials` |
| `Clock` | time goes on |

DirtySDK's `HttpManager` and the servers are external: they redirect up to the
limit, set cookies, ask for credentials, answer or stay silent as they like. A
URL is a server and a directory, an answer of the user a number, an element of
a form its size and whether it is a file. `regular` is history: it remembers
whether the servers kept to two rules that the code relies on, a `Location`
only with a redirect, and one without a host only from the server that was
asked first. Cache hits and cancelled loads are in the other modules.

### The model of the cookie manager

`jar` is `mCookies` in its order, `file` the cookie file, `params` the
parameters. `OnHeadersRead` is `ProcessCookieHeader` with `ValidateCookie`,
replacement and the limit; `Sent` is `GetCookieTextForURL`; `SetCookieUsage`,
`DisableCookies` (a maximum of 0), `RemoveCookies`, `Shutdown`, `Start` are the
calls; the `writes`, `reads` and `removes` flags let opening, writing and
removing the file fail without notice. A cookie carries its history (`value`,
`by`, `run`, `lasting`, `whole`), which no action looks at.

`WriteCookiesToFile` compares the size of the file before each cookie, so lines
have sizes (`Size`), the file may grow past its maximum by the last of them, and
how many cookies fit depends on which come first (`Fitting`). The results of
`WriteFile` are ignored, and a crash may come in between or lose what was
buffered: `CutShort` is what may be in the file then, all lines up to some
point and perhaps a part of the next one. Once a write has failed nothing more
is assumed to be written: that a later write succeeds, so that two lines run
into each other, is left out. `Torn` is what `ParseCookieHeader` reads from a
part of a line: a part that ends before the domain leaves a cookie that is
never sent, whose name, value and path make no difference; one that ends in the
domain, what the constant `Cuts` says remains of it (`.google.co` of
`.google.com`), and no expiration time; one that ends in the time a time that
is past, as it was, or far off. Such a cookie is not `whole`. `Crash` leaves the
file alone: the program dies in the middle of saving in `Shutdown(FALSE)`.

### The model of the disk cache

`cache` is `mDataMap` with its access count, `disk` the directory, the ini file
and the disk operations of the call under way. A call changes memory at once
and queues what it does to the disk in the program's order; `DiskStep` does one
operation, `Crash` may come before, between, and in the middle of each (some of
the files of a sweep removed, a file created and not written, an ini file with
any of its entries). `stuck` is the set of open files that the platform refuses
to remove. A file's name is the number that `MakeTempPathName` puts into it:
the clock since the start of the program, so names come again in the next run.
`Admit`, `InitJob`, `Connect`, `Transfer` are a load that the cache serves,
between whose steps the other calls come.

### The model of the timers

`heap` maps the timers in the heap to their keys; which is first follows from
`operator<` (`FiresLater`), insertion order modulo `Span` included. `firing`
is what `sharedTimerFired` works on, `running` the callback under way, in which
scripts may start and stop timers, and the application may draw frames, which
come to `fireTimerIfNeeded` again. `fireTimes` is the fixed array of the shared
timer, with its rejection of duplicates and the shortened wait when it fills up. A new time
for a full array fails the `ASSERT` of `setSharedTimerFireTime`; the model goes
on as a release build does, where the time is dropped, and `refused` is history
that tells of it until the shared timer is set again. `before` is history: which of two timers
was put into the heap earlier, against which `FiresInOrder` compares the
wrapped orders. The array has room for at least two times (the code's has
many more): a single one could hold a time far ahead, and an earlier one would be
dropped.

## 3. Runs

The instances give each handle an identity, one life each (a loader's handle
is started at most once, but a retry makes it a new job), so `Handle` bounds
the number of loads. `MaxWaits` bounds how often a handler reports "not
complete" for a job, `MaxChallenged` how many jobs may get a 401. Deadlock is
checked for the timers only, where time and frames always go on; elsewhere,
when all loads have ended, after shutdown, or when the bounds are used up,
nothing is left to do.

| Run | Instance | Question |
|---|---|---|
| `MCLoads` | 2 net handles, 1 `data:` URI, limit 1, both answers | Do limit, references and timer stay consistent with cancels in every callback, is no loader forgotten, and does the manager implement `LoadService`? |
| `MCSync` | 2 net handles, 1 synchronous load, limit 1, one challenge for any of them | Does a synchronous load in the middle of a sweep leave the other jobs alone, are counter, references and pause flags right, is the end of a load told once, also with retries? |
| `MCRemoval` | 2 net handles, limit 2, one wait, removal and shutdown | Does removing the handler end its jobs (without cache hits and synchronous loads)? Is every handler session closed, and the condemned flag right? |
| `MCLiveness` | 2 file handles, 1 synchronous load, limit 1, fairness | Does everything end? |
| `MCFileCache` | 2 URLs, 1 load, 2 stores of sizes 1 and 2, 2 starts, 1 crash | Do entries and files belong together after any crash and failure, is what is cached the latest response, does the cache stay bounded? |
| `MCTimers` | 2 timers, array of 2, 3 calls, 4 instants | Does `Timers` implement `TimerService`, fire in order, and fire at all? |
| `MCCookies` | 2 hosts that set cookies and 2 more that are visited, 3 cookies, limits 0 to 2, a file of size 4, 2 runs, 1 fault | One cookie per key, none outside its site unless its line was torn, the latest value, sessions ended, the limit kept? |
| `MCHttp` | 1 load, 2 servers, 2 redirects, 2 answers of the user, 3 forms, interval 2 | Is a form sent whole, do URI, cookies and server match, does every job run into its time-out at the latest? |

Why the bounds are enough. Scheduler: two competing jobs and one intruder reach
every pair of "iterator here, change there" that the two loops allow; the
`data:` URI of `MCLoads` is the queue's other branch and the third entry its
order needs. Cache: two URLs make one stale name meet another entry; the first
start leaves files and an ini file of which a crash took parts, the second
finds them; limits of 2 and 3 against sizes of 1 and 2, and a practical maximum
of 1, have each comparison on both sides. Timers: with two entries the array
fills, caps and drops; `Span` is small and the first order is its last value,
so the order wraps at once. Cookies: two runs and one fault give every order of
set, crash, read; 3 cookies pass the limits 1 and 2, and a file of size 4 takes
one line of size 3 or 4, or two of which the first has size 3, so that it ends
before, at and beyond its maximum; the one cut of a domain leads from one site to the other, both with
hosts that are visited. Paths are one directory: they take part in keys and in
sending as domains do, only without rules of their own. Http: a buffer
of 2 has elements below, at and above it; two redirects make a redirect of a
redirect, two answers a retry that fails and is asked again.

### Disagreements of code and documentation

Each run below checks one sentence of a comment or header and has a
counterexample; `PROJECT.json` quotes the sentence.

| Run | Property | What happens |
|---|---|---|
| `MCRemovedCache` | `NoRemovedHandlerUsed` | A job the cache serves is not found by `RemoveDependentJobs`. |
| `MCReleased` | `NoCallAfterRelease` | `parseDataURI` goes on calling a loader that cancelled in its first callback. `AuthenticationManager::Cancel` does the same, which is why `MCSync`, where `ToldEndOnce` is checked, has neither a `data:` URI nor the answer "cancel". |
| `MCLimbo` | `LimboHandlesAlive` | A synchronous load that gets a 401 leaves its stack object in the waiting list. |
| `MCCookiesDisabled` | `ZeroDisables` | `SetCookieUsage` with a maximum of 0 returns before it stores the parameters; the next answer fills the jar again. |

`MCRemoval` checks that without a synchronous load the condemned flag is right.

### Fairness

`ResourceHandleManager`: `WF_vars(Inside)`: a C++ function that was called goes
on; a handler answers each call, and completes after at most `MaxWaits`
incomplete answers (the handlers have time-outs: `LoadsTimeOut` of
`HttpHandler`). `WF_vars(TimerFires)`: the application calls `View::Tick` every
frame, and `fireTimerIfNeeded` runs a timer that is due (`TimersFire` of
`Timers`). Nothing is assumed of loaders, users or the application: `LoadsEnd`
is therefore checked with servers that do not ask for credentials, since a user
may never answer.

`Timers`: frames are drawn, callbacks return, the loop of `sharedTimerFired`
goes on, and time passes. `SafetyTick` has no fairness: timers fire without it.
`TimersFire` speaks of times up to `MaxTime - Cap`, since after the last
instant of the bounded clock no timer comes due.

`HttpHandler`: the manager processes each job every frame (`Process`,
`Transfer`) and time passes. No fairness for a server's answer, a failing
connection or a user: `LoadsTimeOut` holds without any of them.

## 4. Proofs

`ReentrancyProofs` proves `THEOREM TypeCorrect == Spec => []TypeOK`
for every set of handles, every limit and every choice of the other constants
that satisfies `HandleAssumption` and `ParameterAssumption`. `TypeOK` contains
the assertion both loops of `ProcessTHJobs` make, that a synchronous job is
never paused; it is inductive as it stands, because `PauseAsyncJobs` looks at
`mbSynchronous` and no other code sets the flag. `TypeStep` has one step per
action; the lemmas before it say what the operators on frames, references and
jobs return.

The rest of `ReentrancyProofs` proves, under the same assumptions:

| Theorem | States |
|---|---|
| `RunningCountHolds` | `Spec => []RunningCount`: `m_runningJobs` is the length of `m_JobInfoList` |
| `AsyncLimitHolds` | `Spec => []AsyncLimit`: the limit is kept by what `startScheduledJobs` starts |
| `PausedExactly` | `Spec => []PausedExactlyDuringSync`: pausing and resuming are balanced |
| `SyncIsolates` | `Spec => SyncIsolation`: a synchronous load moves no other job |

None of the four is inductive. `m_runningJobs` is decremented for a handle, not
for a job: the count would go wrong if `EraseTold` came back, after its
callback, to a job that something else erased meanwhile. So the invariant
`IInv` has to know the call stack:

* `PlaceInv`: a handle is queued, running or waiting, never two of them, once
  in the queue, and nowhere before it starts. (`StartNext` then never adds a
  second job for a handle.)
* `StackInv`, with five parts. `InsideSync`: above the frame of a synchronous
  load only the two loops, its own Transfer call and callbacks without scripts
  run, so synchronous loads do not nest. `AboveHolder`: above a frame that will
  use its job again (a Transfer call, the rest of the second loop after a
  failure was told) only clients run, or a synchronous load intervenes, so no
  two sweeps work on the same jobs. `HeldJobs`: the job of such a frame exists,
  and it is not the job of a synchronous load above. `SyncJobsRun`: a
  synchronous job has its frame on the stack. `PausedInSync`: the asynchronous
  jobs are paused exactly while such a frame is there.
* `TypeOK`, `RunningCount` and `AsyncLimit` themselves.

The argument: inside a synchronous load a sweep meets unpaused jobs only, that
is its own (`PausedInSync`), and every frame below works for a paused one
(`HeldJobs`), so nothing is erased under a frame that still needs it
(`EraseQuietly` in `StackStep`). Outside of one no two such frames are on the
stack (`AboveHolder`, lemma `Unsheltered`). Lemmas `Pushed` to `FlagInv` say
what a push, a pop and a change of locals do to `StackInv`; `KeptInv`,
`EraseInv`, `AddInv`, `SyncStartInv`, `SyncReturnInv` what a change of the jobs
does; `PlaceStep` and `StackStep` put them together, one step per action.
`InsideSync` rests on the assumption named in section 2 that response and
redirect callbacks run no script.

`OwnershipProofs`, `ServiceProofs` and `LoaderProofs` go on from there:

| Theorem | States |
|---|---|
| `RefsMatch` | `Spec => []RefsMatchOwners`: the hand-kept reference count is the number of owners, and a handle of a loader is alive while it has one |
| `LimboLoadersAlive` | what waits for credentials is alive, but for the stack object of `MCLimbo` |
| `ShutdownPromised` | `Spec => []ShutdownPromise`: no job is erased with a session open, none is left after shutdown |
| `TimerStaysArmed` | `Spec => []TimerArmed`: between callbacks, work left implies an armed timer |
| `EndIsToldOnce` | `Spec => ToldEndOnce`, without `data:` URIs and answers "cancel" |
| `ServiceImplemented` | `Spec => ImplementsService`: the refinement of `LoadService`, without removal and shutdown |
| `NobodyOrphaned` | `Spec => []NoOrphanedLoader`, without removal and shutdown |
| `CondemnedAreSeen` | `Spec => []CondemnedSeen`, without synchronous loads |
| `RemovedHandlerUnused` | `Spec => []NoRemovedHandlerUsed`, without synchronous loads and a disk cache |

`RefsMatchOwners` depends on each reference being given up once. A frame gives
one up after its callback (`UriDone`, `AuthDrop`, the erasure after `didFail`),
so the proof needs that no second frame of the kind exists for the handle.
`CallChain` says which function may have called which: a frame of
`downloadTimerCallback`, `RemoveTransportHandler` or `staticFinalize` is the
outermost one, each other frame is one that the code below it calls, for the
same load where it does. `OwnerInv` adds, per handle, the count, what being
alive and having a client means, and that a `data:` URI that is being parsed
has neither job nor place in the queue. `ShutInv` says a job is shut down
(`shut`) before it is condemned and that no Transfer call of such a job is in
progress, `IdInv` that ids order the jobs, and `FinalInv` that the second loop
of `ProcessTHJobs`, run by `staticFinalize` with every job condemned, leaves
none with an id it has passed, unless a failure is just being told. `TimerInv`
needs what `downloadTimerCallback` keeps in its local, and that the entry
points that do not look at the work left are only entered with the timer armed.

The theorems of `LoaderProofs` have hypotheses on the constants. Each is needed,
and what happens without it is written down elsewhere in this file.

* `EndIsToldOnce`: `UriHandle = {}` and `"cancel" \notin Answers`. The two
  functions that are left out call a loader twice without looking at it in
  between (`MCReleased`). For all other callers the argument is that who tells
  the end of a load has its handle's client, and a client is there while the
  loader is still loading only (`OwnerInv`).
* `ServiceImplemented` and `NobodyOrphaned`: `~Removable` and `~Finalizable`. A
  job condemned from outside is erased without a word to its loader (see "Known
  behaviours"), which `LoadService` does not allow. `data:` URIs, cancels,
  synchronous loads and all answers of the user are in.
* `CondemnedAreSeen`: `SyncHandle = {}`. A synchronous load that ends inside the
  second loop clears the flag for jobs it had paused (see "Known behaviours").
* `RemovedHandlerUnused`: the same, since the removal relies on the flag, and
  `"cache" \notin Kinds`, for what `MCRemovedCache` shows. `file` jobs, loads
  that wait for credentials, and shutdown are in.

The refinement maps the state to the queue, the loaders with a job or a URI
being parsed, those that wait for credentials, and what each loader was told. A
step of the manager is a stutter or one step of the service; `RefineStep` has
one case per action, and the lemmas `SubmitRefines` to `SyncRefines` one per
kind of service step. The service drops a load only when its outcome is known,
while the manager erases a job whatever its loader knows. That this agrees is
`LoadInv`, whose parts are each inductive only with the others and `OwnerInv`:
`Apart` (what belongs to a synchronous load is not among what loaders have),
`CancelKnown` (a cancelled handle has a loader that is no longer loading),
`EndsTold` (a frame on the way to the end of a load, after its callback, has
told the loader, or will by a failure or a question) and `OutcomeKnown` (a job
whose transfer is over without failing belongs to a loader that knows, or waits
for the user). `NoOrphanedLoader` speaks of idle states; `Awaited` is the same
for every state and follows the steps of the service.

`CondemnedSeen` only says that a second loop is under way, not that the loop
still comes to the job. `LoopInv` adds that: while `ProcessTHJobs` erases, the
frame of the loop is on top, or below the frames that tell one failure and
erase that job, and every condemned job with an id the loop has passed is that
one. Only the last step of the loop may leave with the flag unset, and then
nothing condemned is ahead; a job condemned later sets the flag in the same
step (`CondemnedKnown`). `RemovalInv` says that
while `RemoveTransportHandler` is on the stack each job of the handler is
condemned (none is added and none is transferred, since only the pass and the
clients it calls are on top of it), and that when its pass is over none is left
(`RemovalPassEnds`: the first loop cannot end the pass with the flag set, and
the second one ends when nothing condemned is ahead).

The other modules, for every value of their constants:

| Theorem | The argument |
|---|---|
| `HttpHandlerProofs`: `TypeCorrect`, `RequestsAlwaysMatch`, `FirstPostWhole` | `LoadInv` says of each load what its phase means, of each request that its URI, its server and its cookies are of one server while the servers keep the two rules, and of a form how far it is read. `ReadAll` is `FormDataStream::read` in a loop, a recursive function: what it returns is found by taking the least place at which it could go wrong. |
| `TimersProofs`: `TypeCorrect`, `FirstTimerIsCovered`, `TimersImplementService` | `FirstTimerCovered` is inductive with the types: rejecting a duplicate leaves one that is early enough, and a time that a full array refuses leaves one at most `Cap` ahead, which is the invariant's second part (`Covers`). The simulation of `TimerService` has one step per action. |
| `CookieManagerProofs`: `TypeCorrect`, `KeysAreUnique`, `CookiesStayInSite`, `LatestIsSent`, `SessionsDoEnd`, `LimitIsKept` | Of the jar and of the file: no whole cookie comes after one of its key, whole cookies' domains are of the site of the setter, what is of a session is of this run, and, as long as no fault happened, all are whole and values are the latest. The jar is read from the file, so the file needs the invariant, too. What is written, drops out or is cut short keeps its order (`IsPart`), and so the invariant (`PartJar`, `PartFile`); a torn line is the last one (`TornFile`). |
| `FileCacheProofs`: `TypeCorrect`, `EntriesDoOwnFiles`, `EntriesStayLatest`, `EnablingDoesTidy`, `UsageIsBounded` | Between the calls and their disk operations lies a queue. `Settled` says of one file what it will hold when the queue is done, without doing it: nothing in the queue touches it, or the last operation that does stores the content. The files of all entries are settled in every state; a crash empties the queue and the map at once. `UInv`: what an ini file gives back is within a limit, since whatever is saved is saved after maintenance; so since the last maintenance the map has grown by a response per access at most. |

The proofs assume of the constants what the modules' `ASSUME`s say, which the
code justifies: limits are positive where the code's are, a fire time array
has more than one place, and a cookie that never expires (`Never`) outlasts the
clock. No constant is assumed finite but the sets of handles and timers; sizes, URLs, hosts and forms are not.
`Usage` counts the set of bytes (`Bytes`) that the entries stand for, so that
the library's facts about cardinality carry sums.

Only model-checked, of the properties of the passing runs:

* `JobsEnd`, `QueueDrains`, `LoadsEnd`, `SyncReturns`, `TimersFire`,
  `LoadsTimeOut`: liveness, which is out of the prover's reach.
* `FiresInOrder`: that the wrapped order agrees with history needs that fewer
  than half of `Span` timers were put in the heap since the oldest, which the
  code does not ensure and the bound `MaxCalls` does.

## 5. Plan

Done: the scheduler, the disk cache, the cookie manager, the http load with
form and credentials, the timers, and proofs about each. What is left, in this
order:

1. Handler lookup and default handlers, if a state space for them can be found
   that is not a restatement of the list.
2. Cache-Control directives as an algorithm against a reference definition.

## 6. Not modelled

WebCore above `ResourceLoader`, JavaScriptCore, drawing, fonts, the platform
wrappers and third-party libraries: upstream code, pure computation or thin
I/O. They are nearly all of the repository's lines, so the share of the
repository that is modelled is small whatever is added to the network layer.
The stream decompressor is not part of the program (nothing defines
`ENABLE_PAYLOAD_DECOMPRESSION`). `PROJECT.json` lists the parts with the reason
for each.

### Known behaviours

What was found while modelling, and is either outside of the properties'
statements or of the models. Scheduler and authentication:

* `AuthenticationManager::Cancel` tests the client for null before
  `didReceiveResponse` and calls `didFinishLoading` without: a load that was
  cancelled while the user is asked crashes when the user cancels, too.
  `ResourceHandleManager` has this as `life = "crashed"`.
* `m_CondemnedJobsExist` is one flag. When a synchronous load ends in the second
  loop, the flag is cleared although a paused job may be condemned; that job,
  its session and its slot stay until another job is condemned.
* A job condemned by `RemoveDependentJobs` keeps `mbSuccess`, so its loader is
  told neither success nor failure.
* `~ResourceHandleManager` empties neither the queue nor the waiting list: their
  references leak. A load cancelled while it waits for credentials is run
  again, silently, if the user then answers.
* `InitJob` returning false fails the job, although `EAWebKitTransport.h`
  promises that another handler is tried; and no `ShutdownJob` follows, so the
  `DirtySDKInfo` that it allocated before it failed leaks.
* `initializeHandle` jumps back to `TryAgain` after it has installed the default
  handlers, and never ends if none of them is for the scheme.
* `Proceed` saves an answer of the user before any server has accepted it, under
  the URL that the job began with even if a redirect led elsewhere, and whatever
  persistence level the host asked for. `ProvideCredentialsHeader` takes the
  first saved entry that matches, whatever the realm, so an older answer may
  replace the one just given. Without one, a second answer is added to the
  first in the same `Authorization` header.

Http:

* The position in a form is not reset: a POST tried again after authentication
  has an empty body. Elements that are files are never sent and end the form;
  so would an empty element. The test of the file object is inverted
  (`BCFormDataStreamEA.cpp:114-117`): a file that could be opened is not read,
  and stays open until the `ResourceHandle` is deleted, and one that could not
  is read all the same.
* Methods other than GET and POST are never sent and time out.
* A `Location` in an answer that is no redirect changes the effective URI; a
  relative one is resolved against the first server, not the last. Cookies of a
  redirect are filed under its target.
* `DataDone` shows the headers to the cookie manager a second time, and may
  bring back a value that another load has replaced since. `MCHttp` has one
  load, and no property about it.
* A job paused by a synchronous load goes on using up its time.

Cookies:

* The file is overwritten when `SetCookieUsage` comes after the manager has
  initialized itself for the first headers, and cookies of the session are
  dropped by any later `SetCookieUsage`.
* Cookies are written at `Shutdown` only. The size of the file is tested before
  each cookie, so the last one may take it over `mMaxCookieFileSize`, of which
  `BCCookieManagerEA.h:95` says "Max size of persistent cookie file". In
  `MCCookies` two lines of sizes 3 and 3 fill a file of 4; no property claims
  that the file keeps to its size.
* `WriteCookiesToFile` ignores what `WriteFile` returns, and
  `ReadCookiesFromFile` takes every line for a cookie
  (`BCCookieManagerEA.cpp:417-423`) without the `ValidateCookie` that a server's
  cookie goes through. When the program dies or a write fails in the middle of a
  line, what was written of it is read in the next run. Torn at
  `domain=.google.co`, a cookie of `google.com` is sent to all hosts below
  `google.co`; torn before its expiration time, it no longer expires, until the
  end of that run; and it may have the domain of another cookie of its name, so
  that the key is there twice. All three happen in `MCCookies`, which is why
  `StaysInSite` and `OneCookiePerKey` are stated for cookies whose line was
  never torn.
* A file may hold more cookies than the maximum that the next run asks for, and
  `ReadCookiesFromFile` does not compare. The jar then holds more than "Max
  number of concurrent cookies" (`EAWebKit.h:172`) and stays above it: each
  further cookie drives out one, so `LimitHolds` says that the jar does not
  grow, and not that it comes back under the limit.
* A file that is opened but cannot be read leaves the buffer as it was
  allocated, and whatever is in it is parsed. This is not in the model.

Cache:

* `RemoveCachedData` and `InvalidateCachedData` leave the ini file as it is,
  although a comment wants it kept up to date for "non-clean exit". After a
  crash an entry may name a file of the same name that a later run has written,
  and a URL be answered with the response of another; names repeat because they
  are the time since the program was started. `EntriesAreLatest` is stated
  without crashes.
* Eviction is by time of creation, as reading never updates `mnTimeLastUsed`.
  Every entry gets the default expiration time, whatever `max-age` it came
  with. With `mbKeepExpired`, which nothing sets, nothing is evicted.
* `ApplyHeaderDirective` gets an end position where `substr` takes a length, so
  a directive drags part of the rest of the header with it.

Timers:

* `setSharedTimerFireTime` asserts that there is room for a new time
  (`BCSharedTimerEA.cpp:145`), and nothing ensures it. Each timer that becomes
  the first one enters its time, while the times of those it overtakes stay in
  the array until a frame finds them due. A page that starts, between two
  frames, as many timers as the array has places (`kFireTimeCapacity`) and one
  more, each earlier than the one before, fails the `ASSERT` in a debug build.
  In `MCTimers` three calls do it: `Start` of one timer for 2 instants ahead, of
  the other for now, and of the other again for 2 ahead, which is entered as 1
  ahead, a third time for an array of two. A release build drops the time: the
  timer is looked at with another time of the array, at most `Cap` from then
  (the second part of `FirstTimerCovered`), and `TimersFire` still holds.
* The safety branch of `fireTimerIfNeeded` does not set `gLastCheckTime`, and
  fires without taking the times out of the array; both are harmless to the
  properties.
