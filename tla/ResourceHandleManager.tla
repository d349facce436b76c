------------------------ MODULE ResourceHandleManager ------------------------
(***************************************************************************)
(* The job scheduler of EAWebKit's network layer                           *)
(* (BCResourceHandleManagerEA.cpp) with the objects it shares state with:  *)
(* the ResourceHandles and their clients, the AuthenticationManager's      *)
(* waiting list and the transport handlers that call it back.              *)
(*                                                                         *)
(* Everything runs on one thread.  The hard part is re-entrancy: a client  *)
(* called back in the middle of ProcessTHJobs may start, cancel or         *)
(* synchronously run other loads before it returns.  The variable stack is *)
(* the call stack of that thread: each action is the code that runs        *)
(* between two points where foreign code may get control, and acts on the  *)
(* frame on top.                                                           *)
(***************************************************************************)
EXTENDS Integers, Sequences, FiniteSets

CONSTANTS
  NetHandle,      \* ResourceHandles of ResourceLoaders, served by a handler
  UriHandle,      \* ResourceHandles of ResourceLoaders, "data:" URIs
  SyncHandle,     \* stack objects of loadResourceSynchronously
  NoHandle,
  Kinds,          \* which handlers may serve a job: "http", "file", "cache"
  Challenge,      \* handles whose server may demand Basic authorization
  Answers,        \* what the user may answer: "ok", "cancel"
  Removable,      \* may the application remove its http handler?
  Finalizable,    \* may the application shut the library down?
  MaxConcurrent,  \* m_maxConcurrentJobs
  MaxWaits,       \* bound: handler calls per job that report "not complete"
  MaxChallenged   \* bound: only the first MaxChallenged jobs get a 401/407

LoaderHandle == NetHandle \cup UriHandle
Handle == LoaderHandle \cup SyncHandle

ASSUME HandleAssumption ==
  /\ NoHandle \notin Handle
  /\ NetHandle \cap UriHandle = {}
  /\ LoaderHandle \cap SyncHandle = {}
  /\ IsFiniteSet(Handle)

ASSUME ParameterAssumption ==
  /\ Kinds \subseteq {"http", "file", "cache"}
  /\ Challenge \subseteq Handle
  /\ Answers \subseteq {"ok", "cancel"}
  /\ Removable \in BOOLEAN
  /\ Finalizable \in BOOLEAN
  /\ MaxConcurrent \in Nat \ {0}
  /\ MaxWaits \in Nat
  /\ MaxChallenged \in Nat

VARIABLES
  queue,       \* m_resourceHandleList: handles that have not started
  job,         \* m_JobInfoList: the job of each handle, in order of its id
  nextId,      \* m_JobIdNext
  running,     \* m_runningJobs
  condemned,   \* m_CondemnedJobsExist
  timer,       \* m_downloadTimer.isActive()
  limbo,       \* AuthenticationManager::mTransportInfoList
  rh,          \* the ResourceHandle objects
  loader,      \* how far the owner of each handle is
  open,        \* handles with mTransportHandlerData != 0 in their handler
  appHandler,  \* is the application's http handler installed?
  life,        \* is the manager "up", "down" or did a null call crash it?
  stack        \* the call stack, top first

vars == <<queue, job, nextId, running, condemned, timer, limbo, rh, loader,
          open, appHandler, life, stack>>

-----------------------------------------------------------------------------
(* Data types *)

JobState == {"None", "Init", "Connect", "Transfer", "Disconnect", "Shutdown",
             "Remove"}

JobInfo ==
  [state: JobState, id: Nat, kind: {"http", "file", "cache"}, viaApp: BOOLEAN,
   sync: BOOLEAN, paused: BOOLEAN, init: BOOLEAN, shut: BOOLEAN,
   success: BOOLEAN, auth: BOOLEAN,
   headers: {"none", "sent", "redirected", "received"}, waits: Nat]

\* Both loops of ProcessTHJobs assert that no synchronous job is paused.
SyncNeverPaused(j) == j.sync => ~j.paused

NoJob ==
  [state |-> "None", id |-> 0, kind |-> "file", viaApp |-> FALSE,
   sync |-> FALSE, paused |-> FALSE, init |-> FALSE, shut |-> FALSE,
   success |-> TRUE, auth |-> FALSE, headers |-> "none", waits |-> 0]

ResourceHandle ==
  [refs: Int, client: BOOLEAN, cancelled: BOOLEAN, fired: BOOLEAN,
   alive: BOOLEAN]

NoResourceHandle ==
  [refs |-> 0, client |-> FALSE, cancelled |-> FALSE, fired |-> FALSE,
   alive |-> FALSE]

\* As start() and loadResourceSynchronously leave it: the creator holds one
\* reference, the manager the other.
StartedResourceHandle ==
  [refs |-> 2, client |-> TRUE, cancelled |-> FALSE, fired |-> FALSE,
   alive |-> TRUE]

LoaderState == {"idle", "loading", "finished", "failed", "cancelled",
                "sync", "returned"}

\* Frames in which a ResourceLoader's client code runs.
ClientLabel == {"response", "redirect", "data", "finish", "fail"}
\* Those in which it may run a script, and with it a synchronous load.
ScriptLabel == {"data", "finish", "fail"}
\* The rest of parseDataURI after each of its callbacks.
UriLabel == {"uriData", "uriFinish", "uriDone"}

\* Frames that work for one handle, and the others.
HandleLabel == ClientLabel \cup UriLabel \cup
  {"transfer", "headersDone", "dataRest", "dispose", "authFinish", "authDrop",
   "sync"}
PlainLabel == {"start1", "afterPass", "auth", "start2", "sweep1", "sweep2",
               "removeHandler", "finalize"}

\* n is the id of the job a sweep is at, or how far a Transfer call is;
\* b is a local flag of the frame.
FrameType ==
  [at: HandleLabel, h: Handle, n: Nat, b: BOOLEAN]
    \cup [at: PlainLabel, h: {NoHandle}, n: Nat, b: BOOLEAN]
Frame(at, h) == [at |-> at, h |-> h, n |-> 0, b |-> FALSE]

\* Every variable has its type, and the assertion of ProcessTHJobs that a
\* synchronous job is never paused holds.
TypeOK ==
  /\ queue \in Seq(Handle)
  /\ job \in [Handle -> JobInfo]
  /\ \A h \in Handle : SyncNeverPaused(job[h])
  /\ nextId \in Nat
  /\ running \in Int
  /\ condemned \in BOOLEAN
  /\ timer \in BOOLEAN
  /\ limbo \in SUBSET Handle
  /\ rh \in [Handle -> ResourceHandle]
  /\ loader \in [Handle -> LoaderState]
  /\ open \in SUBSET Handle
  /\ appHandler \in BOOLEAN
  /\ life \in {"up", "down", "crashed"}
  /\ stack \in Seq(FrameType)

Init ==
  /\ queue = << >>
  /\ job = [h \in Handle |-> NoJob]
  /\ nextId = 0
  /\ running = 0
  /\ condemned = FALSE
  /\ timer = FALSE
  /\ limbo = {}
  /\ rh = [h \in Handle |-> NoResourceHandle]
  /\ loader = [h \in Handle |-> "idle"]
  /\ open = {}
  /\ appHandler = TRUE
  /\ life = "up"
  /\ stack = << >>

-----------------------------------------------------------------------------
(* The call stack *)

Idle == life = "up" /\ stack = << >>
Top == Head(stack)
At(label) == life = "up" /\ stack # << >> /\ Top.at = label

Call(frame) == stack' = <<frame>> \o stack
Return == stack' = Tail(stack)
\* The top frame goes on as frame.
Become(frame) == stack' = <<frame>> \o Tail(stack)
\* The top frame goes on as rest, after a call of frame.
CallThen(frame, rest) == stack' = <<frame, rest>> \o Tail(stack)

\* Code of the application or of WebCore above the manager has control.
ClientRuns == Idle \/ \E l \in ClientLabel : At(l)
ScriptRuns == Idle \/ \E l \in ScriptLabel : At(l)

-----------------------------------------------------------------------------
(* ResourceHandles, and the ResourceLoaders that own them *)

\* deref(); the last one runs ~ResourceHandle, which calls cancel().
Deref(r) ==
  [r EXCEPT !.refs = @ - 1, !.alive = r.refs > 1,
            !.cancelled = @ \/ r.refs = 1]

\* Mutant: the handle is given up before setClient(0) could reach it.
ReleaseKeepsClient(r) == Deref(r)

\* setClient(0), and the loader's reference goes.
Release(r) == Deref([r EXCEPT !.client = FALSE])

\* cancel() in a destructor finds nothing to unschedule and arms the timer.
DerefArms(h) == rh[h].refs = 1

\* Mutant: remove(0) for remove(i).
WithoutFirst(h) == Tail(queue)

\* m_resourceHandleList.remove(i) of the entry that holds h.
Without(h) ==
  LET i == CHOOSE k \in 1..Len(queue) : queue[k] = h
  IN  SubSeq(queue, 1, i - 1) \o SubSeq(queue, i + 1, Len(queue))

Scheduled(h) == \E k \in 1..Len(queue) : queue[k] = h

\* ResourceHandle::start and ResourceHandleManager::add.
StartLoad(h) ==
  /\ ClientRuns
  /\ h \in LoaderHandle
  /\ loader[h] = "idle"
  /\ loader' = [loader EXCEPT ![h] = "loading"]
  /\ rh' = [rh EXCEPT ![h] = StartedResourceHandle]
  /\ queue' = Append(queue, h)
  /\ timer' = TRUE
  /\ UNCHANGED <<job, nextId, running, condemned, limbo, open, appHandler,
                 life, stack>>

\* ResourceLoader::didCancel: ResourceHandleManager::cancel, then
\* releaseResources.
CancelLoad(h) ==
  /\ ClientRuns
  /\ loader[h] = "loading"
  /\ loader' = [loader EXCEPT ![h] = "cancelled"]
  /\ IF Scheduled(h)
     THEN /\ queue' = Without(h)
          /\ rh' = [rh EXCEPT ![h] = Release(Deref(@))]
          /\ timer' = (timer \/ rh[h].refs <= 2)
     ELSE /\ rh' = [rh EXCEPT ![h] = Release([@ EXCEPT !.cancelled = TRUE])]
          /\ timer' = TRUE
          /\ UNCHANGED queue
  /\ UNCHANGED <<job, nextId, running, condemned, limbo, open, appHandler,
                 life, stack>>

\* A callback returns; after didFinishLoading and didFail the loader gives
\* up its handle, unless it was cancelled meanwhile.
ClientReturn ==
  /\ \E l \in ClientLabel : At(l)
  /\ LET h == Top.h
         ends == Top.at \in {"finish", "fail"} /\ loader[h] = "loading"
     IN  /\ loader' = IF ends
                      THEN [loader EXCEPT ![h] = IF Top.at = "finish"
                                                 THEN "finished"
                                                 ELSE "failed"]
                      ELSE loader
         /\ rh' = IF ends THEN [rh EXCEPT ![h] = Release(@)] ELSE rh
         /\ timer' = (timer \/ (ends /\ DerefArms(h)))
  /\ Return
  /\ UNCHANGED <<queue, job, nextId, running, condemned, limbo, open,
                 appHandler, life>>

\* The client of h is a ResourceLoader, whose code a callback runs.  (The
\* client of a synchronous load only stores what it is given.)
Calls(h) == rh[h].client /\ h \in LoaderHandle

-----------------------------------------------------------------------------
(* Jobs *)

Jobs == {h \in Handle : job[h].state # "None"}

\* The job AddTHJob makes.
NewJob(sync, kind) ==
  [state |-> "Init", id |-> nextId + 1, kind |-> kind,
   viaApp |-> (appHandler /\ kind # "file"), sync |-> sync, paused |-> FALSE,
   init |-> FALSE, shut |-> FALSE, success |-> TRUE, auth |-> FALSE,
   headers |-> "none", waits |-> 0]

\* Mutant: one job too many.
CanStartOneMore == queue # << >> /\ running <= MaxConcurrent

CanStart == queue # << >> /\ running < MaxConcurrent

\* One turn of startScheduledJobs: a handler's job is added, a data: URI is
\* parsed at once and its client called back three times.
StartNext ==
  /\ At("start1") \/ At("start2")
  /\ CanStart
  /\ queue' = Tail(queue)
  /\ LET h == Head(queue)
         top == [Top EXCEPT !.b = TRUE]
     IN  IF h \in UriHandle
         THEN /\ stack' = <<Frame("response", h), Frame("uriData", h), top>>
                            \o Tail(stack)
              /\ UNCHANGED <<job, nextId, running>>
         ELSE /\ \E kind \in Kinds : job' = [job EXCEPT ![h] = NewJob(FALSE, kind)]
              /\ nextId' = nextId + 1
              /\ running' = running + 1
              /\ Become(top)
  /\ UNCHANGED <<condemned, timer, limbo, rh, loader, open, appHandler, life>>

\* parseDataURI goes on with the client it fetched before the first callback.
UriData ==
  /\ At("uriData")
  /\ CallThen(Frame("data", Top.h), Frame("uriFinish", Top.h))
  /\ UNCHANGED <<queue, job, nextId, running, condemned, timer, limbo, rh,
                 loader, open, appHandler, life>>

UriFinish ==
  /\ At("uriFinish")
  /\ CallThen(Frame("finish", Top.h), Frame("uriDone", Top.h))
  /\ UNCHANGED <<queue, job, nextId, running, condemned, timer, limbo, rh,
                 loader, open, appHandler, life>>

UriDone ==
  /\ At("uriDone")
  /\ rh' = [rh EXCEPT ![Top.h] = Deref(@)]
  /\ timer' = (timer \/ DerefArms(Top.h))
  /\ Return
  /\ UNCHANGED <<queue, job, nextId, running, condemned, limbo, loader, open,
                 appHandler, life>>

-----------------------------------------------------------------------------
(* downloadTimerCallback *)

TimerFires ==
  /\ Idle
  /\ timer
  /\ timer' = FALSE
  /\ Call(Frame("start1", NoHandle))
  /\ UNCHANGED <<queue, job, nextId, running, condemned, limbo, rh, loader,
                 open, appHandler, life>>

\* The first startScheduledJobs is over: ProcessTHJobs is called.
FirstStartDone ==
  /\ At("start1")
  /\ ~CanStart
  /\ CallThen(Frame("sweep1", NoHandle), Frame("afterPass", NoHandle))
  /\ UNCHANGED <<queue, job, nextId, running, condemned, timer, limbo, rh,
                 loader, open, appHandler, life>>

\* ProcessTHJobs returned the number of jobs left.
PassDone ==
  /\ At("afterPass")
  /\ Become([Frame("auth", NoHandle) EXCEPT !.b = Jobs # {}])
  /\ UNCHANGED <<queue, job, nextId, running, condemned, timer, limbo, rh,
                 loader, open, appHandler, life>>

\* AuthenticationManager::Tick has gone through its list.
AuthTickDone ==
  /\ At("auth")
  /\ Become([Frame("start2", NoHandle) EXCEPT !.b = Top.b])
  /\ UNCHANGED <<queue, job, nextId, running, condemned, timer, limbo, rh,
                 loader, open, appHandler, life>>

\* Mutant: m_AuthenticationManager.HasJobs() is not asked.
WorkLeftButAuth == Top.b

WorkLeft == Top.b \/ limbo # {}

\* The second startScheduledJobs is over: the timer is armed again if there
\* is anything to come back for.
CallbackDone ==
  /\ At("start2")
  /\ ~CanStart
  /\ timer' = (timer \/ WorkLeft)
  /\ Return
  /\ UNCHANGED <<queue, job, nextId, running, condemned, limbo, rh, loader,
                 open, appHandler, life>>

-----------------------------------------------------------------------------
(* ProcessTHJobs *)

\* The jobs a loop of ProcessTHJobs has yet to visit, and the next of them.
Ahead(removing) ==
  {h \in Jobs : /\ job[h].id > Top.n
                /\ ~job[h].paused
                /\ (job[h].state = "Remove") = removing}

IsNext(h, removing) ==
  /\ h \in Ahead(removing)
  /\ \A g \in Ahead(removing) : job[h].id <= job[g].id

After(state) ==
  CASE state = "Init" -> "Connect"
    [] state = "Connect" -> "Transfer"
    [] state = "Transfer" -> "Disconnect"
    [] state = "Disconnect" -> "Shutdown"
    [] state = "Shutdown" -> "Remove"

\* Mutant: a failed Connect does not clear mbSuccess.
SucceedsUnconnected(h, state, ok) ==
  job[h].success /\ (ok \/ state \in {"Connect", "Disconnect", "Shutdown"})

Succeeds(h, state, ok) ==
  job[h].success /\ (ok \/ state \in {"Disconnect", "Shutdown"})

\* Mutant: the flag is assigned by each job.
FlagLastOnly(remove) == condemned' = remove

Flag(remove) == condemned' = (condemned \/ remove)

\* What ProcessTHJobs makes of the job of h when the handler call for state
\* returned ok and bStateComplete = complete.
Settle(h, state, ok, complete) ==
  LET moved == [job[h] EXCEPT
                  !.state = IF ok /\ complete THEN After(state) ELSE @,
                  !.init = @ \/ (state = "Init" /\ ok),
                  !.shut = @ \/ (state = "Shutdown" /\ ok),
                  !.success = Succeeds(h, state, ok),
                  !.headers = IF state = "Connect" /\ ok THEN "sent" ELSE @,
                  !.waits = IF ok /\ ~complete THEN @ + 1 ELSE @]
      remove == \/ ~ok
                \/ moved.state = "Remove" /\ state = "Shutdown"
                \/ rh[h].cancelled
  IN  /\ job' = [job EXCEPT ![h] = IF remove
                                   THEN [moved EXCEPT !.state = "Remove"]
                                   ELSE moved]
      /\ Flag(remove)

\* The first loop: one handler call for each job.  Only Transfer calls back.
SweepStep ==
  /\ At("sweep1")
  /\ \E h \in Handle, ok, complete \in BOOLEAN :
       LET state == job[h].state
       IN  /\ IsNext(h, FALSE)
           /\ state \in {"Init", "Connect", "Disconnect", "Shutdown"}
           /\ complete \/ (ok /\ job[h].waits < MaxWaits)
           /\ Settle(h, state, ok, complete)
           /\ Become([Top EXCEPT !.n = job[h].id])
           /\ open' = IF state = "Init" /\ ok THEN open \cup {h}
                      ELSE IF state = "Shutdown" THEN open \ {h}
                      ELSE open
  /\ UNCHANGED <<queue, nextId, running, timer, limbo, rh, loader, appHandler,
                 life>>

SweepTransfer ==
  /\ At("sweep1")
  /\ \E h \in Handle :
       /\ IsNext(h, FALSE)
       /\ job[h].state = "Transfer"
       /\ CallThen(Frame("transfer", h), [Top EXCEPT !.n = job[h].id])
  /\ UNCHANGED <<queue, job, nextId, running, condemned, timer, limbo, rh,
                 loader, open, appHandler, life>>

\* The second loop is entered only if m_CondemnedJobsExist.
FirstLoopDone ==
  /\ At("sweep1")
  /\ Ahead(FALSE) = {}
  /\ IF condemned THEN Become(Frame("sweep2", NoHandle)) ELSE Return
  /\ UNCHANGED <<queue, job, nextId, running, condemned, timer, limbo, rh,
                 loader, open, appHandler, life>>

SecondLoopDone ==
  /\ At("sweep2")
  /\ Ahead(TRUE) = {}
  /\ Return
  /\ UNCHANGED <<queue, job, nextId, running, condemned, timer, limbo, rh,
                 loader, open, appHandler, life>>

\* Mutant: the test of mbTHShutdown is inverted.
ShutdownDueAgain(h) == job[h].init /\ job[h].shut

ShutdownDue(h) == job[h].init /\ ~job[h].shut

\* Mutant: m_runningJobs is not decremented.
ForgetButCount(h) ==
  job' = [job EXCEPT ![h] = NoJob] /\ condemned' = FALSE /\ UNCHANGED running

Forget(h) ==
  /\ running' = running - 1
  /\ job' = [job EXCEPT ![h] = NoJob]
  /\ condemned' = FALSE

\* The end of a condemned job: ShutdownJob if it is still due, the handle is
\* passed to the AuthenticationManager if credentials are wanted, the job's
\* reference goes and so does the job.
Erase(h) ==
  LET waits == job[h].auth
  IN  /\ open' = IF ShutdownDue(h) THEN open \ {h} ELSE open
      /\ limbo' = IF waits THEN limbo \cup {h} ELSE limbo
      /\ rh' = IF waits THEN rh ELSE [rh EXCEPT ![h] = Deref(@)]
      /\ timer' = (timer \/ (~waits /\ DerefArms(h)))
      /\ Forget(h)

\* A failed job's client is told before the job is erased.
TellFailure ==
  /\ At("sweep2")
  /\ \E h \in Handle :
       /\ IsNext(h, TRUE)
       /\ ~job[h].success
       /\ Calls(h)
       /\ stack' = <<Frame("fail", h), Frame("dispose", h),
                     [Top EXCEPT !.n = job[h].id]>> \o Tail(stack)
  /\ UNCHANGED <<queue, job, nextId, running, condemned, timer, limbo, rh,
                 loader, open, appHandler, life>>

EraseTold ==
  /\ At("dispose")
  /\ Erase(Top.h)
  /\ Return
  /\ UNCHANGED <<queue, nextId, loader, appHandler, life>>

EraseQuietly ==
  /\ At("sweep2")
  /\ \E h \in Handle :
       /\ IsNext(h, TRUE)
       /\ job[h].success \/ ~Calls(h)
       /\ Erase(h)
       /\ Become([Top EXCEPT !.n = job[h].id])
  /\ UNCHANGED <<queue, nextId, loader, appHandler, life>>

-----------------------------------------------------------------------------
(* A handler's Transfer call, and the TransportServer functions it calls.  *)
(* Top.n is 0 at first, 1 after DataReceived, 2 after DataDone(true) and 3 *)
(* after DataDone(false).                                                  *)

InTransfer(h, n) == At("transfer") /\ Top.h = h /\ Top.n \in n
Progress(n) == [Top EXCEPT !.n = n]

\* An http handler calls back from Transfer, and from Tick, which View::Tick
\* and the loop of a synchronous load call.
HeadersDue(h) ==
  /\ h \in open
  /\ job[h].kind = "http"
  /\ \/ InTransfer(h, {0})
     \/ (job[h].viaApp => appHandler) /\ (Idle \/ (At("sync") /\ Top.b))

HasHeaders(h) == job[h].kind = "http" => job[h].headers = "received"

HeadersReceived(h) ==
  /\ HeadersDue(h)
  /\ job[h].headers \in {"sent", "redirected"}
  /\ \E challenged \in BOOLEAN :
       /\ challenged => h \in Challenge /\ job[h].id <= MaxChallenged
       /\ job' = [job EXCEPT ![h].headers = "received",
                             ![h].auth = @ \/ (challenged /\ ~rh[h].cancelled)]
  /\ IF ~rh[h].cancelled /\ Calls(h)
     THEN /\ stack' = <<Frame("response", h), Frame("headersDone", h)>> \o stack
          /\ UNCHANGED rh
     ELSE /\ rh' = [rh EXCEPT ![h].fired = @ \/ ~rh[h].cancelled]
          /\ UNCHANGED stack
  /\ UNCHANGED <<queue, nextId, running, condemned, timer, limbo, loader,
                 open, appHandler, life>>

HeadersDone ==
  /\ At("headersDone")
  /\ rh' = [rh EXCEPT ![Top.h].fired = TRUE]
  /\ Return
  /\ UNCHANGED <<queue, job, nextId, running, condemned, timer, limbo, loader,
                 open, appHandler, life>>

\* The server redirects; willSendRequest is called whether or not the handle
\* was cancelled.
SetRedirect(h) ==
  /\ HeadersDue(h)
  /\ job[h].headers = "sent"
  /\ job' = [job EXCEPT ![h].headers = "redirected"]
  /\ IF Calls(h) THEN Call(Frame("redirect", h)) ELSE UNCHANGED stack
  /\ UNCHANGED <<queue, nextId, running, condemned, timer, limbo, rh, loader,
                 open, appHandler, life>>

\* A chunk of data; the first one brings the response if no headers did.
DataReceived(h) ==
  /\ InTransfer(h, {0})
  /\ HasHeaders(h)
  /\ LET first == ~rh[h].cancelled /\ ~rh[h].fired
         tell == ~rh[h].cancelled /\ ~job[h].auth /\ Calls(h)
     IN  /\ IF first /\ Calls(h)
            THEN stack' = <<Frame("response", h), Frame("dataRest", h),
                            Progress(1)>> \o Tail(stack)
            ELSE IF tell THEN CallThen(Frame("data", h), Progress(1))
            ELSE Become(Progress(1))
         /\ rh' = IF first /\ ~Calls(h)
                  THEN [rh EXCEPT ![h].fired = TRUE]
                  ELSE rh
  /\ UNCHANGED <<queue, job, nextId, running, condemned, timer, limbo, loader,
                 open, appHandler, life>>

\* DataReceived after the response: it goes on with the client it fetched
\* on entry, and does not look at m_cancelled again.
DataRest ==
  /\ At("dataRest")
  /\ rh' = [rh EXCEPT ![Top.h].fired = TRUE]
  /\ IF job[Top.h].auth THEN Return ELSE Become(Frame("data", Top.h))
  /\ UNCHANGED <<queue, job, nextId, running, condemned, timer, limbo, loader,
                 open, appHandler, life>>

\* DataDone(result).
DataDone(h, result) ==
  /\ InTransfer(h, {0, 1})
  /\ result => HasHeaders(h)
  /\ LET heard == ~rh[h].cancelled /\ ~job[h].auth /\ rh[h].client
         after == Progress(IF result THEN 2 ELSE 3)
     IN  /\ IF heard /\ result /\ Calls(h)
            THEN CallThen(Frame("finish", h), after)
            ELSE Become(after)
         /\ IF heard /\ ~result
            THEN /\ job' = [job EXCEPT ![h].success = FALSE,
                                       ![h].state = "Remove"]
                 /\ condemned' = TRUE
            ELSE UNCHANGED <<job, condemned>>
  /\ UNCHANGED <<queue, nextId, running, timer, limbo, rh, loader, open,
                 appHandler, life>>

\* Transfer returns.  After DataDone it is complete, and only an http handler
\* reports the failure a second time; before, it either has to wait or, in
\* an http handler, has timed out.
TransferReturn ==
  /\ At("transfer")
  /\ \E ok, complete \in BOOLEAN :
       LET h == Top.h
       IN  /\ \/ Top.n = 2 /\ ok /\ complete
              \/ Top.n = 3 /\ complete /\ ok = (job[h].kind # "http")
              \/ Top.n < 2 /\ ok /\ ~complete /\ job[h].waits < MaxWaits
              \/ Top.n < 2 /\ ~ok /\ complete /\ job[h].kind = "http"
           /\ Settle(h, "Transfer", ok, complete)
  /\ Return
  /\ UNCHANGED <<queue, nextId, running, timer, limbo, rh, loader, open,
                 appHandler, life>>

-----------------------------------------------------------------------------
(* AuthenticationManager::Tick: the user may have answered. *)

\* Proceed: the handle is submitted again, with the reference it holds.
AuthProceed(h) ==
  /\ At("auth")
  /\ h \in limbo
  /\ rh[h].alive
  /\ "ok" \in Answers
  /\ queue' = Append(queue, h)
  /\ limbo' = limbo \ {h}
  /\ timer' = TRUE
  /\ UNCHANGED <<job, nextId, running, condemned, rh, loader, open, appHandler,
                 life, stack>>

\* Cancel: the client gets the 401 page; it is checked for null before the
\* first call only.
AuthCancel(h) ==
  /\ At("auth")
  /\ h \in limbo
  /\ rh[h].alive
  /\ "cancel" \in Answers
  /\ IF rh[h].client
     THEN /\ stack' = <<Frame("response", h), Frame("authFinish", h)>> \o stack
          /\ UNCHANGED <<rh, life>>
     ELSE /\ rh' = [rh EXCEPT ![h].fired = TRUE]
          /\ life' = "crashed"
          /\ UNCHANGED stack
  /\ UNCHANGED <<queue, job, nextId, running, condemned, timer, limbo, loader,
                 open, appHandler>>

AuthFinish ==
  /\ At("authFinish")
  /\ rh' = [rh EXCEPT ![Top.h].fired = TRUE]
  /\ CallThen(Frame("finish", Top.h), Frame("authDrop", Top.h))
  /\ UNCHANGED <<queue, job, nextId, running, condemned, timer, limbo, loader,
                 open, appHandler, life>>

AuthDrop ==
  /\ At("authDrop")
  /\ limbo' = limbo \ {Top.h}
  /\ rh' = [rh EXCEPT ![Top.h] = Deref(@)]
  /\ timer' = (timer \/ DerefArms(Top.h))
  /\ Return
  /\ UNCHANGED <<queue, job, nextId, running, condemned, loader, open,
                 appHandler, life>>

\* The entry's ResourceHandle was a local of loadResourceSynchronously.
AuthDangling(h) ==
  /\ At("auth")
  /\ h \in limbo
  /\ ~rh[h].alive
  /\ Answers # {}
  /\ life' = "crashed"
  /\ UNCHANGED <<queue, job, nextId, running, condemned, timer, limbo, rh,
                 loader, open, appHandler, stack>>

-----------------------------------------------------------------------------
(* loadResourceSynchronously and dispatchSynchronousJob *)

\* Mutants: jobs that are not transferring are left alone; the synchronous
\* job is paused with the rest; nothing is resumed.
PauseTransfers(jobs) ==
  [h \in Handle |-> IF jobs[h].state = "Transfer" /\ ~jobs[h].sync
                    THEN [jobs[h] EXCEPT !.paused = TRUE]
                    ELSE jobs[h]]

PauseAllJobs(jobs) ==
  [h \in Handle |-> IF jobs[h].state # "None"
                    THEN [jobs[h] EXCEPT !.paused = TRUE]
                    ELSE jobs[h]]

ResumeNoJobs(jobs) == jobs

PauseAsyncJobs(jobs) ==
  [h \in Handle |-> IF jobs[h].state # "None" /\ ~jobs[h].sync
                    THEN [jobs[h] EXCEPT !.paused = TRUE]
                    ELSE jobs[h]]

ResumeAsyncJobs(jobs) ==
  [h \in Handle |-> IF ~jobs[h].sync
                    THEN [jobs[h] EXCEPT !.paused = FALSE]
                    ELSE jobs[h]]

SyncStart(h) ==
  /\ ScriptRuns
  /\ h \in SyncHandle
  /\ loader[h] = "idle"
  /\ loader' = [loader EXCEPT ![h] = "sync"]
  /\ rh' = [rh EXCEPT ![h] = StartedResourceHandle]
  /\ \E kind \in Kinds :
       job' = PauseAsyncJobs([job EXCEPT ![h] = NewJob(TRUE, kind)])
  /\ nextId' = nextId + 1
  /\ running' = running + 1
  /\ Call(Frame("sync", h))
  /\ UNCHANGED <<queue, condemned, timer, limbo, open, appHandler, life>>

\* The loop runs until the job is gone: ProcessTHJobs ...
SyncProcess ==
  /\ At("sync")
  /\ ~Top.b
  /\ Top.h \in Jobs
  /\ CallThen(Frame("sweep1", NoHandle), [Top EXCEPT !.b = TRUE])
  /\ UNCHANGED <<queue, job, nextId, running, condemned, timer, limbo, rh,
                 loader, open, appHandler, life>>

\* ... and TickTransportHandlers, in which handlers may call HeadersReceived.
SyncTicked ==
  /\ At("sync")
  /\ Top.b
  /\ Become([Top EXCEPT !.b = FALSE])
  /\ UNCHANGED <<queue, job, nextId, running, condemned, timer, limbo, rh,
                 loader, open, appHandler, life>>

\* The ResourceHandle is destroyed as a local, whatever its count is; its
\* destructor arms the timer.
SyncReturn ==
  /\ At("sync")
  /\ ~Top.b
  /\ Top.h \notin Jobs
  /\ job' = ResumeAsyncJobs(job)
  /\ loader' = [loader EXCEPT ![Top.h] = "returned"]
  /\ rh' = [rh EXCEPT ![Top.h].alive = FALSE, ![Top.h].client = FALSE,
                      ![Top.h].cancelled = TRUE]
  /\ timer' = TRUE
  /\ Return
  /\ UNCHANGED <<queue, nextId, running, condemned, limbo, open, appHandler,
                 life>>

-----------------------------------------------------------------------------
(* The application removes its handler, or shuts the library down *)

\* CondemnTHJob for each job of a set.
Condemn(jobs) ==
  /\ job' = [h \in Handle |-> IF h \in jobs
                              THEN [job[h] EXCEPT !.state = "Remove"]
                              ELSE job[h]]
  /\ condemned' = (condemned \/ jobs # {})

\* Mutant: jobs that were not yet initialized are passed over.
DependsInitialized(h) == job[h].kind = "http" /\ job[h].viaApp /\ job[h].init

Depends(h) == job[h].kind = "http" /\ job[h].viaApp

\* RemoveDependentJobs looks at JobInfo::mpTH, which is the cache's handler
\* for a job the cache serves.
RemoveTransportHandler ==
  /\ Idle
  /\ Removable
  /\ appHandler
  /\ Condemn({h \in Jobs : Depends(h)})
  /\ stack' = <<Frame("sweep1", NoHandle), Frame("removeHandler", NoHandle)>>
  /\ UNCHANGED <<queue, nextId, running, timer, limbo, rh, loader, open,
                 appHandler, life>>

TransportHandlerRemoved ==
  /\ At("removeHandler")
  /\ appHandler' = FALSE
  /\ Return
  /\ UNCHANGED <<queue, job, nextId, running, condemned, timer, limbo, rh,
                 loader, open, life>>

\* staticFinalize and ~ResourceHandleManager.
Finalize ==
  /\ Idle
  /\ Finalizable
  /\ Condemn(Jobs)
  /\ stack' = <<Frame("sweep1", NoHandle), Frame("finalize", NoHandle)>>
  /\ UNCHANGED <<queue, nextId, running, timer, limbo, rh, loader, open,
                 appHandler, life>>

Finalized ==
  /\ At("finalize")
  /\ life' = "down"
  /\ timer' = FALSE
  /\ Return
  /\ UNCHANGED <<queue, job, nextId, running, condemned, limbo, rh, loader,
                 open, appHandler>>

-----------------------------------------------------------------------------
(* The specification *)

\* What WebCore and the application do on their own.
Outside ==
  \/ \E h \in Handle : StartLoad(h) \/ CancelLoad(h) \/ SyncStart(h)
  \/ \E h \in Handle : HeadersReceived(h) \/ SetRedirect(h)
  \/ RemoveTransportHandler
  \/ Finalize

\* What the code on top of the call stack does next.
Inside ==
  \/ ClientReturn
  \/ StartNext \/ UriData \/ UriFinish \/ UriDone
  \/ FirstStartDone \/ PassDone \/ AuthTickDone \/ CallbackDone
  \/ SweepStep \/ SweepTransfer \/ FirstLoopDone
  \/ TellFailure \/ EraseTold \/ EraseQuietly \/ SecondLoopDone
  \/ HeadersDone \/ DataRest \/ TransferReturn
  \/ \E h \in Handle : DataReceived(h)
  \/ \E h \in Handle, result \in BOOLEAN : DataDone(h, result)
  \/ \E h \in Handle : AuthProceed(h) \/ AuthCancel(h) \/ AuthDangling(h)
  \/ AuthFinish \/ AuthDrop
  \/ SyncProcess \/ SyncTicked \/ SyncReturn
  \/ TransportHandlerRemoved \/ Finalized

Next == Outside \/ TimerFires \/ Inside

\* A running function goes on to its end, and View::Tick, which the
\* application calls every frame, fires the timers that are due.
Fairness == WF_vars(Inside) /\ WF_vars(TimerFires)

Spec == Init /\ [][Next]_vars
FairSpec == Spec /\ Fairness

-----------------------------------------------------------------------------
(* Properties *)

OnStack(labels) == {stack[k].h : k \in {j \in 1..Len(stack) : stack[j].at \in labels}}
SyncRunning == OnStack({"sync"}) # {}
AsyncJobs == {h \in Jobs : ~job[h].sync}
One(condition) == IF condition THEN 1 ELSE 0

\* m_runningJobs, which startScheduledJobs compares with the limit and four
\* functions keep by hand, is the length of m_JobInfoList, also while a sweep
\* or a synchronous load is in progress.
RunningCount == running = Cardinality(Jobs)

\* However many synchronous loads overtake the queue, never more than
\* m_maxConcurrentJobs jobs that startScheduledJobs started exist.
AsyncLimit == Cardinality(AsyncJobs) <= MaxConcurrent

\* Every reference to a loader's ResourceHandle has exactly one owner, which
\* gives it up once: the loader until it is told the end or cancelled, the
\* queue, the job, the AuthenticationManager's list or parseDataURI.
Owners(h) ==
  One(loader[h] = "loading") + One(Scheduled(h)) + One(h \in Jobs)
    + One(h \in limbo) + One(h \in OnStack(UriLabel))

RefsMatchOwners ==
  \A h \in LoaderHandle :
    /\ rh[h].refs = Owners(h)
    /\ rh[h].alive = (Owners(h) > 0)
    /\ rh[h].client = (loader[h] = "loading")

\* While there is anything to do, the timer that does it is armed: add,
\* cancel and downloadTimerCallback between them leave no work behind that
\* nothing will come back for.
TimerArmed ==
  Idle /\ (queue # << >> \/ Jobs # {} \/ limbo # {}) => timer

\* Between two callbacks a loader that still waits is known to someone who
\* will tell it the outcome.
NoOrphanedLoader ==
  Idle => \A h \in LoaderHandle :
            loader[h] = "loading" => Scheduled(h) \/ h \in Jobs \/ h \in limbo

\* "We promise the TransportHandler that if we Init it then eventually we
\* will Shutdown it": no job is erased with its handler's session open, and
\* none is left when the manager is deleted.
ShutdownPromise ==
  /\ open \subseteq {h \in Jobs : job[h].init}
  /\ life = "down" => Jobs = {} /\ open = {}

\* A condemned job is known to m_CondemnedJobsExist or is about to be met by
\* the loop that erases condemned jobs.
CondemnedSeen ==
  (\E h \in Jobs : job[h].state = "Remove")
    => condemned \/ \E k \in 1..Len(stack) : stack[k].at = "sweep2"

\* Once RemoveTransportHandler has returned, no job refers to the handler.
NoRemovedHandlerUsed ==
  ~appHandler => \A h \in Jobs : ~job[h].viaApp

\* Asynchronous jobs are paused exactly while a synchronous load runs.
PausedExactlyDuringSync == \A h \in AsyncJobs : job[h].paused <=> SyncRunning

\* A synchronous load moves no other job, so that a page's script does not
\* see its asynchronous loads advance inside the call.
SyncIsolation ==
  [][SyncRunning /\ SyncRunning' =>
       \A h \in AsyncJobs : job'[h].state = job[h].state]_vars

\* The steps that call a client back, and the handle they do it for.
Tells(labels, h) ==
  /\ stack' # << >>
  /\ stack' # stack
  /\ Len(stack') >= Len(stack)
  /\ Head(stack').at \in labels
  /\ Head(stack').h = h

\* A loader is told the end of its load once, and not at all after it was
\* cancelled.
ToldEndOnce ==
  [][\A h \in LoaderHandle :
       Tells({"finish", "fail"}, h) => loader[h] = "loading"]_vars

\* releaseResources clears "the ResourceHandle's client so that it doesn't try
\* to call us back after we release it" (ResourceLoader.cpp).
NoCallAfterRelease ==
  [][\A h \in LoaderHandle : Tells(ClientLabel, h) => rh[h].client]_vars

\* BeginAuthorization: "We'll own this ref until we are finished with this
\* job", so the handles in the AuthenticationManager's list exist.
LimboHandlesAlive == \A h \in limbo : rh[h].alive

\* A started job ends, whatever synchronous loads interrupt it.
JobsEnd == \A h \in Handle : h \in Jobs ~> h \notin Jobs

\* A load that waits behind the limit is started or cancelled in the end.
QueueDrains == \A h \in LoaderHandle : Scheduled(h) ~> ~Scheduled(h)

\* If no server asks for credentials, every loader learns an outcome.
LoadsEnd == \A h \in LoaderHandle : loader[h] = "loading" ~> loader[h] # "loading"

\* A synchronous load returns to its caller.
SyncReturns == \A h \in SyncHandle : loader[h] = "sync" ~> loader[h] = "returned"

\* To the loaders the manager is the service of LoadService: loads start in
\* order and within the limit, and none is dropped before its loader knows
\* the outcome, whatever interrupts ProcessTHJobs.
Service ==
  INSTANCE LoadService WITH
    Load <- LoaderHandle,
    Immediate <- UriHandle,
    Limit <- MaxConcurrent,
    pending <- queue,
    active <- AsyncJobs \cup OnStack(UriLabel),
    asked <- limbo \cap LoaderHandle,
    outcome <- [h \in LoaderHandle |-> CASE loader[h] = "idle" -> "new"
                                         [] loader[h] = "loading" -> "waiting"
                                         [] OTHER -> loader[h]]

ImplementsService == Service!Spec
=============================================================================
