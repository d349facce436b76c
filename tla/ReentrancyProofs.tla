--------------------------- MODULE ReentrancyProofs ---------------------------
(***************************************************************************)
(* Theorems about ResourceHandleManager, for every set of handles, every   *)
(* limit and every behaviour of the handlers, the servers and the user:    *)
(* the types of its variables, and what re-entrancy may do to the jobs.    *)
(* m_runningJobs is the number of jobs, the limit holds, asynchronous jobs *)
(* are paused exactly while a synchronous load runs, and none of them      *)
(* moves meanwhile.                                                        *)
(*                                                                         *)
(* The inductive invariant says where a handle may be (PlaceInv) and which *)
(* frames may lie above which on the call stack (StackInv).                *)
(***************************************************************************)
EXTENDS ResourceHandleManager, SequenceTheorems, FiniteSetTheorems, TLAPS

-----------------------------------------------------------------------------
(* The call stack *)

\* The frames the actions push.
LEMMA HandleFrameTyped ==
  ASSUME NEW h \in Handle
  PROVE  /\ Frame("response", h) \in FrameType
         /\ Frame("redirect", h) \in FrameType
         /\ Frame("data", h) \in FrameType
         /\ Frame("finish", h) \in FrameType
         /\ Frame("fail", h) \in FrameType
         /\ Frame("uriData", h) \in FrameType
         /\ Frame("uriFinish", h) \in FrameType
         /\ Frame("uriDone", h) \in FrameType
         /\ Frame("transfer", h) \in FrameType
         /\ Frame("headersDone", h) \in FrameType
         /\ Frame("dataRest", h) \in FrameType
         /\ Frame("dispose", h) \in FrameType
         /\ Frame("authFinish", h) \in FrameType
         /\ Frame("authDrop", h) \in FrameType
         /\ Frame("sync", h) \in FrameType
<1>1. \A at \in HandleLabel : Frame(at, h) \in FrameType
  BY DEF Frame, FrameType
<1> QED BY <1>1 DEF HandleLabel, ClientLabel, UriLabel

LEMMA PlainFrameTyped ==
  /\ Frame("start1", NoHandle) \in FrameType
  /\ Frame("afterPass", NoHandle) \in FrameType
  /\ Frame("auth", NoHandle) \in FrameType
  /\ Frame("start2", NoHandle) \in FrameType
  /\ Frame("sweep1", NoHandle) \in FrameType
  /\ Frame("sweep2", NoHandle) \in FrameType
  /\ Frame("removeHandler", NoHandle) \in FrameType
  /\ Frame("finalize", NoHandle) \in FrameType
<1>1. \A at \in PlainLabel : Frame(at, NoHandle) \in FrameType
  BY DEF Frame, FrameType
<1> QED BY <1>1 DEF PlainLabel

LEMMA FrameUpdate ==
  ASSUME NEW f \in FrameType
  PROVE  /\ f.n \in Nat /\ f.b \in BOOLEAN
         /\ \A n \in Nat : [f EXCEPT !.n = n] \in FrameType
         /\ \A b \in BOOLEAN : [f EXCEPT !.b = b] \in FrameType
BY DEF FrameType

LEMMA FrameHandle ==
  ASSUME NEW f \in FrameType, f.at \in HandleLabel
  PROVE  f.h \in Handle
BY DEF FrameType, HandleLabel, PlainLabel, ClientLabel, UriLabel

\* What a push of one or two frames leaves on the stack.
LEMMA StackTyped ==
  ASSUME NEW S, NEW s \in Seq(S)
  PROVE  /\ \A f \in S : <<f>> \o s \in Seq(S)
         /\ \A f, g \in S : <<f, g>> \o s \in Seq(S)
         /\ \A f, g, k \in S : <<f, g, k>> \o s \in Seq(S)
<1>1. \A f, g, k \in S : /\ <<f>> \in Seq(S) /\ <<f, g>> \in Seq(S)
                         /\ <<f, g, k>> \in Seq(S)
  OBVIOUS
<1> QED BY <1>1, ConcatProperties

LEMMA TopTyped ==
  ASSUME stack \in Seq(FrameType), stack # << >>
  PROVE  Top \in FrameType /\ Tail(stack) \in Seq(FrameType)
BY HeadTailProperties DEF Top

LEMMA CallTyped ==
  ASSUME stack \in Seq(FrameType)
  PROVE  /\ \A f \in FrameType : Call(f) => stack' \in Seq(FrameType)
         /\ stack # << >> /\ Return => stack' \in Seq(FrameType)
         /\ \A f \in FrameType :
              stack # << >> /\ Become(f) => stack' \in Seq(FrameType)
         /\ \A f, g \in FrameType :
              stack # << >> /\ CallThen(f, g) => stack' \in Seq(FrameType)
BY TopTyped, StackTyped DEF Call, Return, Become, CallThen

LEMMA AtTyped ==
  ASSUME stack \in Seq(FrameType), NEW l, At(l)
  PROVE  /\ stack # << >> /\ life = "up" /\ Top \in FrameType /\ Top.at = l
         /\ Tail(stack) \in Seq(FrameType)
BY TopTyped DEF At

LEMMA AtHandle ==
  ASSUME stack \in Seq(FrameType), NEW l \in HandleLabel, At(l)
  PROVE  Top.h \in Handle
BY AtTyped, FrameHandle

-----------------------------------------------------------------------------
(* The data *)

LEMMA DerefTyped ==
  ASSUME NEW r \in ResourceHandle
  PROVE  Deref(r) \in ResourceHandle
<1> DEFINE n == r.refs - 1
           a == (r.refs > 1)
           c == (r.cancelled \/ r.refs = 1)
<1>1. n \in Int /\ a \in BOOLEAN /\ c \in BOOLEAN
  BY DEF ResourceHandle
<1>2. Deref(r) = [r EXCEPT !.refs = n, !.alive = a, !.cancelled = c]
  BY DEF Deref
<1> HIDE DEF n, a, c
<1>3. [r EXCEPT !.refs = n, !.alive = a, !.cancelled = c] \in ResourceHandle
  BY <1>1 DEF ResourceHandle
<1> QED BY <1>2, <1>3

LEMMA RefTyped ==
  ASSUME NEW r \in ResourceHandle
  PROVE  /\ Release(r) \in ResourceHandle
         /\ \A b \in BOOLEAN : /\ [r EXCEPT !.fired = b] \in ResourceHandle
                               /\ [r EXCEPT !.cancelled = b] \in ResourceHandle
<1>1. \A b \in BOOLEAN : /\ [r EXCEPT !.fired = b] \in ResourceHandle
                         /\ [r EXCEPT !.cancelled = b] \in ResourceHandle
                         /\ [r EXCEPT !.client = b] \in ResourceHandle
  BY DEF ResourceHandle
<1> QED BY <1>1, DerefTyped DEF Release

LEMMA NewRefTyped ==
  NoResourceHandle \in ResourceHandle /\ StartedResourceHandle \in ResourceHandle
BY DEF NoResourceHandle, StartedResourceHandle, ResourceHandle

LEMMA WithoutTyped ==
  ASSUME NEW h, Scheduled(h), queue \in Seq(Handle)
  PROVE  Without(h) \in Seq(Handle)
<1> DEFINE i == CHOOSE k \in 1..Len(queue) : queue[k] = h
<1>1. i \in 1..Len(queue)
  BY DEF Scheduled
<1> HIDE DEF i
<1>a. Len(queue) \in Nat /\ \A k \in 1..Len(queue) : queue[k] \in Handle
  BY LenProperties, ElementOfSeq
<1>2. SubSeq(queue, 1, i - 1) \in Seq(Handle)
  <2>1. i - 1 \in Int /\ \A k \in 1..(i - 1) : queue[k] \in Handle
    BY <1>1, <1>a
  <2> QED BY <2>1, SubSeqProperties
<1>3. SubSeq(queue, i + 1, Len(queue)) \in Seq(Handle)
  <2>1. i + 1 \in Int /\ \A k \in (i + 1)..Len(queue) : queue[k] \in Handle
    BY <1>1, <1>a
  <2> QED BY <2>1, <1>a, SubSeqProperties
<1> QED BY <1>2, <1>3, ConcatProperties DEF Without, i

LEMMA JobTyped ==
  ASSUME NEW j \in JobInfo
  PROVE  /\ j.state \in JobState /\ j.id \in Nat /\ j.waits \in Nat
         /\ j.sync \in BOOLEAN /\ j.paused \in BOOLEAN
         /\ \A s \in JobState : [j EXCEPT !.state = s] \in JobInfo
         /\ \A b \in BOOLEAN : /\ [j EXCEPT !.paused = b] \in JobInfo
                               /\ [j EXCEPT !.success = b] \in JobInfo
         /\ \A x \in {"none", "sent", "redirected", "received"}, b \in BOOLEAN :
              /\ [j EXCEPT !.headers = x] \in JobInfo
              /\ [j EXCEPT !.headers = x, !.auth = b] \in JobInfo
         /\ \A s \in JobState, b \in BOOLEAN :
              [j EXCEPT !.success = b, !.state = s] \in JobInfo
BY DEF JobInfo

LEMMA NoJobTyped == NoJob \in JobInfo /\ SyncNeverPaused(NoJob)
BY DEF NoJob, JobInfo, JobState, SyncNeverPaused

LEMMA NewJobTyped ==
  ASSUME nextId \in Nat, appHandler \in BOOLEAN,
         NEW sync \in BOOLEAN, NEW kind \in Kinds
  PROVE  /\ NewJob(sync, kind) \in JobInfo
         /\ NewJob(sync, kind).sync = sync
         /\ NewJob(sync, kind).paused = FALSE
         /\ NewJob(sync, kind).state = "Init"
<1>1. nextId + 1 \in Nat /\ (appHandler /\ kind # "file") \in BOOLEAN
  OBVIOUS
<1>2. kind \in {"http", "file", "cache"}
  BY ParameterAssumption
<1> QED BY <1>1, <1>2 DEF NewJob, JobInfo, JobState

-----------------------------------------------------------------------------
(* Type correctness *)

JobsTyped(jobs) ==
  jobs \in [Handle -> JobInfo] /\ \A h \in Handle : SyncNeverPaused(jobs[h])

LEMMA JobUpdate ==
  ASSUME JobsTyped(job), NEW h \in Handle, NEW j \in JobInfo, SyncNeverPaused(j)
  PROVE  JobsTyped([job EXCEPT ![h] = j])
BY DEF JobsTyped

LEMMA HandleUpdate ==
  ASSUME rh \in [Handle -> ResourceHandle], NEW h \in Handle,
         NEW r \in ResourceHandle
  PROVE  [rh EXCEPT ![h] = r] \in [Handle -> ResourceHandle]
OBVIOUS

LEMMA FiredTyped ==
  ASSUME rh \in [Handle -> ResourceHandle], NEW h \in Handle
  PROVE  /\ [rh EXCEPT ![h].fired = TRUE] \in [Handle -> ResourceHandle]
         /\ [rh EXCEPT ![h].fired = @ \/ ~rh[h].cancelled]
               \in [Handle -> ResourceHandle]
<1> DEFINE b == rh[h].fired \/ ~rh[h].cancelled
<1>1. b \in BOOLEAN /\ rh[h] \in ResourceHandle
  BY DEF ResourceHandle
<1>2. /\ [rh EXCEPT ![h].fired = TRUE] = [rh EXCEPT ![h] = [rh[h] EXCEPT !.fired = TRUE]]
      /\ [rh EXCEPT ![h].fired = @ \/ ~rh[h].cancelled]
           = [rh EXCEPT ![h] = [rh[h] EXCEPT !.fired = b]]
  OBVIOUS
<1> HIDE DEF b
<1> QED BY <1>1, <1>2, RefTyped, HandleUpdate

LEMMA AfterTyped ==
  \A s \in {"Init", "Connect", "Transfer", "Disconnect", "Shutdown"} :
    After(s) \in JobState
BY DEF After, JobState

LEMMA SettleTyped ==
  ASSUME JobsTyped(job), condemned \in BOOLEAN, NEW h \in Handle,
         NEW state \in {"Init", "Connect", "Transfer", "Disconnect", "Shutdown"},
         NEW ok \in BOOLEAN, NEW complete \in BOOLEAN,
         Settle(h, state, ok, complete)
  PROVE  JobsTyped(job') /\ condemned' \in BOOLEAN
<1> DEFINE s == IF ok /\ complete THEN After(state) ELSE job[h].state
           i == job[h].init \/ (state = "Init" /\ ok)
           d == job[h].shut \/ (state = "Shutdown" /\ ok)
           u == Succeeds(h, state, ok)
           x == IF state = "Connect" /\ ok THEN "sent" ELSE job[h].headers
           w == IF ok /\ ~complete THEN job[h].waits + 1 ELSE job[h].waits
           moved == [job[h] EXCEPT !.state = s, !.init = i, !.shut = d,
                                   !.success = u, !.headers = x, !.waits = w]
           gone == [moved EXCEPT !.state = "Remove"]
<1>1. job[h] \in JobInfo /\ SyncNeverPaused(job[h])
  BY DEF JobsTyped
<1>2. /\ s \in JobState
      /\ i \in BOOLEAN /\ d \in BOOLEAN /\ u \in BOOLEAN
      /\ x \in {"none", "sent", "redirected", "received"}
      /\ w \in Nat
  BY <1>1, AfterTyped DEF JobInfo, Succeeds
<1> HIDE DEF s, i, d, u, x, w
<1>3. moved \in JobInfo /\ SyncNeverPaused(moved)
  BY <1>1, <1>2 DEF JobInfo, SyncNeverPaused
<1> HIDE DEF moved
<1>4. gone \in JobInfo /\ SyncNeverPaused(gone)
  BY <1>3 DEF JobInfo, JobState, SyncNeverPaused
<1>5. \/ job' = [job EXCEPT ![h] = moved]
      \/ job' = [job EXCEPT ![h] = gone]
  BY Zenon DEF Settle, moved, s, i, d, u, x, w
<1>6. condemned' \in BOOLEAN
  BY DEF Settle, Flag
<1> QED BY <1>3, <1>4, <1>5, <1>6, JobUpdate

LEMMA EraseTyped ==
  ASSUME TypeOK, NEW h \in Handle, Erase(h)
  PROVE  /\ JobsTyped(job') /\ running' \in Int /\ condemned' \in BOOLEAN
         /\ timer' \in BOOLEAN /\ limbo' \in SUBSET Handle
         /\ rh' \in [Handle -> ResourceHandle] /\ open' \in SUBSET Handle
<1>1. JobsTyped(job') /\ running' \in Int /\ condemned' \in BOOLEAN
  <2>1. JobsTyped(job) /\ running \in Int
    BY DEF TypeOK, JobsTyped
  <2>2. job' = [job EXCEPT ![h] = NoJob] /\ running' = running - 1 /\ condemned' = FALSE
    BY DEF Erase, Forget
  <2>3. JobsTyped(job')
    BY <2>1, <2>2, JobUpdate, NoJobTyped
  <2>4. running' \in Int
    BY <2>1, <2>2
  <2>5. condemned' \in BOOLEAN
    BY <2>2
  <2> QED BY <2>3, <2>4, <2>5
<1>2. rh' \in [Handle -> ResourceHandle]
  BY DerefTyped, HandleUpdate DEF TypeOK, Erase
<1> QED BY <1>1, <1>2 DEF TypeOK, Erase

LEMMA PauseTyped ==
  ASSUME NEW jobs, JobsTyped(jobs)
  PROVE  JobsTyped(PauseAsyncJobs(jobs)) /\ JobsTyped(ResumeAsyncJobs(jobs))
<1>1. ASSUME NEW h \in Handle
      PROVE  /\ PauseAsyncJobs(jobs)[h] \in JobInfo
             /\ SyncNeverPaused(PauseAsyncJobs(jobs)[h])
             /\ ResumeAsyncJobs(jobs)[h] \in JobInfo
             /\ SyncNeverPaused(ResumeAsyncJobs(jobs)[h])
  <2>1. jobs[h] \in JobInfo /\ SyncNeverPaused(jobs[h])
    BY DEF JobsTyped
  <2>2. \A b \in BOOLEAN : /\ [jobs[h] EXCEPT !.paused = b] \in JobInfo
                           /\ [jobs[h] EXCEPT !.paused = b].sync = jobs[h].sync
                           /\ [jobs[h] EXCEPT !.paused = b].paused = b
    BY <2>1 DEF JobInfo
  <2> QED
    BY <2>1, <2>2 DEF PauseAsyncJobs, ResumeAsyncJobs, SyncNeverPaused
<1> QED BY <1>1 DEF JobsTyped, PauseAsyncJobs, ResumeAsyncJobs

LEMMA CondemnTyped ==
  ASSUME JobsTyped(job), condemned \in BOOLEAN, NEW jobs, Condemn(jobs)
  PROVE  JobsTyped(job') /\ condemned' \in BOOLEAN
<1>1. ASSUME NEW h \in Handle
      PROVE  job'[h] \in JobInfo /\ SyncNeverPaused(job'[h])
  <2>1. job[h] \in JobInfo /\ SyncNeverPaused(job[h])
    BY DEF JobsTyped
  <2>2. /\ [job[h] EXCEPT !.state = "Remove"] \in JobInfo
        /\ SyncNeverPaused([job[h] EXCEPT !.state = "Remove"])
    BY <2>1 DEF JobInfo, JobState, SyncNeverPaused
  <2> QED BY <2>1, <2>2 DEF Condemn
<1> QED BY <1>1 DEF JobsTyped, Condemn

\* Every step keeps the types.
LEMMA TypeStep == TypeOK /\ [Next]_vars => TypeOK'
<1> SUFFICES ASSUME TypeOK, [Next]_vars PROVE TypeOK'
  OBVIOUS
<1>1. ASSUME NEW h \in Handle, StartLoad(h) PROVE TypeOK'
  <2>1. queue' \in Seq(Handle)
    BY <1>1, AppendProperties DEF TypeOK, StartLoad
  <2>2. rh' \in [Handle -> ResourceHandle]
    BY <1>1, HandleUpdate, NewRefTyped DEF TypeOK, StartLoad
  <2>3. loader' \in [Handle -> LoaderState]
    BY <1>1 DEF TypeOK, StartLoad, LoaderState
  <2> QED BY <1>1, <2>1, <2>2, <2>3 DEF TypeOK, StartLoad
<1>2. ASSUME NEW h \in Handle, CancelLoad(h) PROVE TypeOK'
  <2>1. queue' \in Seq(Handle)
    BY <1>2, WithoutTyped DEF TypeOK, CancelLoad
  <2>2. /\ rh[h] \in ResourceHandle
        /\ Release(Deref(rh[h])) \in ResourceHandle
        /\ Release([rh[h] EXCEPT !.cancelled = TRUE]) \in ResourceHandle
    BY DerefTyped, RefTyped DEF TypeOK
  <2>3. rh' \in [Handle -> ResourceHandle]
    BY <1>2, <2>2, HandleUpdate DEF TypeOK, CancelLoad
  <2>4. loader' \in [Handle -> LoaderState]
    BY <1>2 DEF TypeOK, CancelLoad, LoaderState
  <2>5. timer' \in BOOLEAN
    BY <1>2 DEF TypeOK, CancelLoad
  <2> QED BY <1>2, <2>1, <2>3, <2>4, <2>5 DEF TypeOK, CancelLoad
<1>3. ASSUME NEW h \in Handle, SyncStart(h) PROVE TypeOK'
  <2>1. JobsTyped(job')
    <3>1. PICK kind \in Kinds :
            job' = PauseAsyncJobs([job EXCEPT ![h] = NewJob(TRUE, kind)])
      BY <1>3 DEF SyncStart
    <3>2. NewJob(TRUE, kind) \in JobInfo /\ SyncNeverPaused(NewJob(TRUE, kind))
      BY NewJobTyped DEF TypeOK, SyncNeverPaused
    <3> QED BY <3>1, <3>2, JobUpdate, PauseTyped DEF TypeOK, JobsTyped
  <2>2. rh' \in [Handle -> ResourceHandle]
    BY <1>3, HandleUpdate, NewRefTyped DEF TypeOK, SyncStart
  <2>3. loader' \in [Handle -> LoaderState]
    BY <1>3 DEF TypeOK, SyncStart, LoaderState
  <2>4. stack' \in Seq(FrameType)
    BY <1>3, HandleFrameTyped, PlainFrameTyped, CallTyped DEF TypeOK, SyncStart
  <2>5. nextId' \in Nat /\ running' \in Int
    BY <1>3 DEF TypeOK, SyncStart
  <2> QED BY <1>3, <2>1, <2>2, <2>3, <2>4, <2>5 DEF TypeOK, SyncStart, JobsTyped
<1>4. ASSUME NEW h \in Handle, HeadersReceived(h) PROVE TypeOK'
  <2>1. JobsTyped(job')
    <3>1. PICK challenged \in BOOLEAN :
            job' = [job EXCEPT ![h].headers = "received",
                               ![h].auth = @ \/ (challenged /\ ~rh[h].cancelled)]
      BY <1>4 DEF HeadersReceived
    <3> DEFINE b == job[h].auth \/ (challenged /\ ~rh[h].cancelled)
               j == [job[h] EXCEPT !.headers = "received", !.auth = b]
    <3>2. job[h] \in JobInfo /\ SyncNeverPaused(job[h]) /\ b \in BOOLEAN
      BY DEF TypeOK
    <3>3. j \in JobInfo /\ SyncNeverPaused(j)
      <4> HIDE DEF b
      <4> QED BY <3>2 DEF JobInfo, SyncNeverPaused
    <3>4. job' = [job EXCEPT ![h] = j]
      BY <3>1 DEF TypeOK
    <3> QED BY <3>3, <3>4, JobUpdate DEF TypeOK, JobsTyped
  <2>2. rh' \in [Handle -> ResourceHandle]
    <3>1. \/ rh' = rh
          \/ rh' = [rh EXCEPT ![h].fired = @ \/ ~rh[h].cancelled]
      BY <1>4 DEF HeadersReceived
    <3> QED BY <3>1, FiredTyped DEF TypeOK
  <2>3. stack' \in Seq(FrameType)
    <3>1. Frame("response", h) \in FrameType /\ Frame("headersDone", h) \in FrameType
      BY HandleFrameTyped
    <3>2. \/ stack' = stack
          \/ stack' = <<Frame("response", h), Frame("headersDone", h)>> \o stack
      BY <1>4 DEF HeadersReceived
    <3>3. stack \in Seq(FrameType)
      BY DEF TypeOK
    <3> QED BY <3>1, <3>2, <3>3, StackTyped
  <2> QED BY <1>4, <2>1, <2>2, <2>3 DEF TypeOK, HeadersReceived, JobsTyped
<1>5. ASSUME NEW h \in Handle, SetRedirect(h) PROVE TypeOK'
  <2>1. JobsTyped(job')
    <3> DEFINE j == [job[h] EXCEPT !.headers = "redirected"]
    <3>1. job[h] \in JobInfo /\ SyncNeverPaused(job[h])
      BY DEF TypeOK
    <3>2. j \in JobInfo /\ SyncNeverPaused(j)
      BY <3>1 DEF JobInfo, SyncNeverPaused
    <3>3. job' = [job EXCEPT ![h] = j]
      BY <1>5 DEF TypeOK, SetRedirect
    <3> QED BY <3>2, <3>3, JobUpdate DEF TypeOK, JobsTyped
  <2>2. stack' \in Seq(FrameType)
    BY <1>5, HandleFrameTyped, PlainFrameTyped, CallTyped DEF TypeOK, SetRedirect
  <2> QED BY <1>5, <2>1, <2>2 DEF TypeOK, SetRedirect, JobsTyped
<1>6. CASE RemoveTransportHandler
  <2>1. JobsTyped(job') /\ condemned' \in BOOLEAN
    BY <1>6, CondemnTyped DEF TypeOK, RemoveTransportHandler, JobsTyped
  <2>2. stack' \in Seq(FrameType)
    BY <1>6, HandleFrameTyped, PlainFrameTyped DEF RemoveTransportHandler
  <2> QED BY <1>6, <2>1, <2>2 DEF TypeOK, RemoveTransportHandler, JobsTyped
<1>7. CASE Finalize
  <2>1. JobsTyped(job') /\ condemned' \in BOOLEAN
    BY <1>7, CondemnTyped DEF TypeOK, Finalize, JobsTyped
  <2>2. stack' \in Seq(FrameType)
    BY <1>7, HandleFrameTyped, PlainFrameTyped DEF Finalize
  <2> QED BY <1>7, <2>1, <2>2 DEF TypeOK, Finalize, JobsTyped
<1>8. CASE TimerFires
  BY <1>8, HandleFrameTyped, PlainFrameTyped, FrameUpdate, FrameHandle, CallTyped, AtTyped, DerefTyped, RefTyped
  DEF TypeOK, TimerFires
<1>9. CASE ClientReturn
  <2>1. stack # << >> /\ Top \in FrameType /\ stack' \in Seq(FrameType)
    BY <1>9, AtTyped, CallTyped DEF TypeOK, ClientReturn
  <2>2. rh' \in [Handle -> ResourceHandle]
    BY <1>9, RefTyped DEF TypeOK, ClientReturn
  <2>3. loader' \in [Handle -> LoaderState]
    BY <1>9 DEF TypeOK, ClientReturn, LoaderState
  <2> QED BY <1>9, <2>1, <2>2, <2>3 DEF TypeOK, ClientReturn
<1>10. CASE StartNext
  <2> DEFINE h == Head(queue)
             top == [Top EXCEPT !.b = TRUE]
  <2>1. h \in Handle /\ queue' \in Seq(Handle)
    BY <1>10, HeadTailProperties DEF TypeOK, StartNext, CanStart
  <2>2. stack # << >> /\ top \in FrameType /\ Tail(stack) \in Seq(FrameType)
    BY <1>10, AtTyped, FrameUpdate DEF TypeOK, StartNext
  <2>3. /\ stack' \in Seq(FrameType)
        /\ JobsTyped(job') /\ nextId' \in Nat /\ running' \in Int
    <3>1. CASE h \in UriHandle
      <4>1. /\ stack' = <<Frame("response", h), Frame("uriData", h), top>>
                           \o Tail(stack)
            /\ UNCHANGED <<job, nextId, running>>
        BY <1>10, <3>1 DEF StartNext
      <4> HIDE DEF top, h
      <4> QED BY <4>1, <2>1, <2>2, HandleFrameTyped, PlainFrameTyped, StackTyped DEF TypeOK, JobsTyped
    <3>2. CASE h \notin UriHandle
      <4>1. PICK kind \in Kinds : job' = [job EXCEPT ![h] = NewJob(FALSE, kind)]
        BY <1>10, <3>2 DEF StartNext
      <4>2. nextId' = nextId + 1 /\ running' = running + 1 /\ Become(top)
        BY <1>10, <3>2 DEF StartNext
      <4>3. NewJob(FALSE, kind) \in JobInfo /\ SyncNeverPaused(NewJob(FALSE, kind))
        BY NewJobTyped DEF TypeOK, SyncNeverPaused
      <4>4. JobsTyped(job')
        BY <4>1, <4>3, <2>1, JobUpdate DEF TypeOK, JobsTyped
      <4>5. stack' \in Seq(FrameType)
        BY <4>2, <2>2, CallTyped DEF TypeOK
      <4> QED BY <4>2, <4>4, <4>5 DEF TypeOK
    <3> QED BY <3>1, <3>2
  <2> QED BY <1>10, <2>1, <2>3 DEF TypeOK, StartNext, JobsTyped
<1>11. CASE UriData
  <2>1. Top.h \in Handle /\ stack # << >>
    BY <1>11, AtHandle, AtTyped DEF TypeOK, UriData, HandleLabel, UriLabel
  <2>2. stack' \in Seq(FrameType)
    BY <1>11, <2>1, HandleFrameTyped, CallTyped DEF TypeOK, UriData
  <2> QED BY <1>11, <2>2 DEF TypeOK, UriData
<1>12. CASE UriFinish
  <2>1. Top.h \in Handle /\ stack # << >>
    BY <1>12, AtHandle, AtTyped DEF TypeOK, UriFinish, HandleLabel, UriLabel
  <2>2. stack' \in Seq(FrameType)
    BY <1>12, <2>1, HandleFrameTyped, CallTyped DEF TypeOK, UriFinish
  <2> QED BY <1>12, <2>2 DEF TypeOK, UriFinish
<1>13. CASE UriDone
  BY <1>13, HandleFrameTyped, PlainFrameTyped, FrameUpdate, FrameHandle, CallTyped, AtTyped, DerefTyped, RefTyped
  DEF TypeOK, UriDone
<1>14. CASE FirstStartDone
  BY <1>14, HandleFrameTyped, PlainFrameTyped, FrameUpdate, FrameHandle, CallTyped, AtTyped, DerefTyped, RefTyped
  DEF TypeOK, FirstStartDone
<1>15. CASE PassDone
  BY <1>15, HandleFrameTyped, PlainFrameTyped, FrameUpdate, FrameHandle, CallTyped, AtTyped, DerefTyped, RefTyped
  DEF TypeOK, PassDone
<1>16. CASE AuthTickDone
  BY <1>16, HandleFrameTyped, PlainFrameTyped, FrameUpdate, FrameHandle, CallTyped, AtTyped, DerefTyped, RefTyped
  DEF TypeOK, AuthTickDone
<1>17. CASE CallbackDone
  BY <1>17, HandleFrameTyped, PlainFrameTyped, FrameUpdate, FrameHandle, CallTyped, AtTyped, DerefTyped, RefTyped
  DEF TypeOK, CallbackDone
<1>18. CASE SweepStep
  <2>1. PICK h \in Handle, ok \in BOOLEAN, complete \in BOOLEAN :
          /\ job[h].state \in {"Init", "Connect", "Disconnect", "Shutdown"}
          /\ Settle(h, job[h].state, ok, complete)
          /\ Become([Top EXCEPT !.n = job[h].id])
          /\ open' \in {open \cup {h}, open \ {h}, open}
    BY <1>18 DEF SweepStep
  <2>2. JobsTyped(job') /\ condemned' \in BOOLEAN
    BY <2>1, SettleTyped DEF TypeOK, JobsTyped
  <2>3. stack' \in Seq(FrameType)
    <3>1. Top \in FrameType /\ stack # << >> /\ job[h].id \in Nat
      BY <1>18, AtTyped, JobTyped DEF TypeOK, SweepStep
    <3> QED BY <2>1, <3>1, FrameUpdate, CallTyped DEF TypeOK
  <2>4. open' \in SUBSET Handle
    BY <2>1 DEF TypeOK
  <2> QED BY <1>18, <2>2, <2>3, <2>4 DEF TypeOK, SweepStep, JobsTyped
<1>19. CASE SweepTransfer
  <2>1. PICK h \in Handle : CallThen(Frame("transfer", h), [Top EXCEPT !.n = job[h].id])
    BY <1>19 DEF SweepTransfer
  <2>2. [Top EXCEPT !.n = job[h].id] \in FrameType /\ stack # << >>
    BY <1>19, AtTyped, JobTyped, FrameUpdate DEF TypeOK, SweepTransfer
  <2>3. stack' \in Seq(FrameType)
    BY <2>1, <2>2, HandleFrameTyped, CallTyped DEF TypeOK
  <2> QED BY <1>19, <2>3 DEF TypeOK, SweepTransfer
<1>20. CASE FirstLoopDone
  BY <1>20, HandleFrameTyped, PlainFrameTyped, FrameUpdate, FrameHandle, CallTyped, AtTyped, DerefTyped, RefTyped
  DEF TypeOK, FirstLoopDone
<1>21. CASE TellFailure
  <2>1. PICK h \in Handle :
          stack' = <<Frame("fail", h), Frame("dispose", h),
                     [Top EXCEPT !.n = job[h].id]>> \o Tail(stack)
    BY <1>21 DEF TellFailure
  <2>2. [Top EXCEPT !.n = job[h].id] \in FrameType /\ Tail(stack) \in Seq(FrameType)
    BY <1>21, AtTyped, JobTyped, FrameUpdate DEF TypeOK, TellFailure
  <2>3. stack' \in Seq(FrameType)
    BY <2>1, <2>2, HandleFrameTyped, PlainFrameTyped, StackTyped
  <2> QED BY <1>21, <2>3 DEF TypeOK, TellFailure
<1>22. CASE EraseTold
  <2>1. Top.h \in Handle /\ stack' \in Seq(FrameType)
    BY <1>22, AtTyped, CallTyped, FrameHandle DEF TypeOK, EraseTold, HandleLabel
  <2>2. Erase(Top.h)
    BY <1>22 DEF EraseTold
  <2> QED BY <1>22, <2>1, <2>2, EraseTyped DEF TypeOK, EraseTold, JobsTyped
<1>23. CASE EraseQuietly
  <2>1. PICK h \in Handle : Erase(h) /\ Become([Top EXCEPT !.n = job[h].id])
    BY <1>23 DEF EraseQuietly
  <2>2. stack' \in Seq(FrameType)
    BY <1>23, <2>1, AtTyped, JobTyped, FrameUpdate, CallTyped DEF TypeOK, EraseQuietly
  <2> QED BY <1>23, <2>1, <2>2, EraseTyped DEF TypeOK, EraseQuietly, JobsTyped
<1>24. CASE SecondLoopDone
  BY <1>24, HandleFrameTyped, PlainFrameTyped, FrameUpdate, FrameHandle, CallTyped, AtTyped, DerefTyped, RefTyped
  DEF TypeOK, SecondLoopDone
<1>25. CASE HeadersDone
  BY <1>25, HandleFrameTyped, PlainFrameTyped, FrameUpdate, FrameHandle, CallTyped, AtTyped, DerefTyped, RefTyped
  DEF TypeOK, HeadersDone
<1>26. CASE DataRest
  <2>1. Top.h \in Handle /\ stack # << >>
    BY <1>26, AtHandle, AtTyped DEF TypeOK, DataRest, HandleLabel, UriLabel
  <2>2. stack' \in Seq(FrameType)
    BY <1>26, <2>1, HandleFrameTyped, CallTyped DEF TypeOK, DataRest
  <2>3. rh' \in [Handle -> ResourceHandle]
    BY <1>26, <2>1, FiredTyped DEF TypeOK, DataRest
  <2> QED BY <1>26, <2>2, <2>3 DEF TypeOK, DataRest
<1>27. CASE TransferReturn
  <2>1. Top.h \in Handle /\ stack' \in Seq(FrameType)
    BY <1>27, AtTyped, CallTyped, FrameHandle DEF TypeOK, TransferReturn, HandleLabel
  <2>2. PICK ok \in BOOLEAN, complete \in BOOLEAN :
          Settle(Top.h, "Transfer", ok, complete)
    BY <1>27 DEF TransferReturn
  <2>3. JobsTyped(job') /\ condemned' \in BOOLEAN
    BY <2>1, <2>2, SettleTyped DEF TypeOK, JobsTyped
  <2> QED BY <1>27, <2>1, <2>3 DEF TypeOK, TransferReturn, JobsTyped
<1>28. ASSUME NEW h \in Handle, DataReceived(h) PROVE TypeOK'
  <2>1. stack # << >> /\ Progress(1) \in FrameType /\ Tail(stack) \in Seq(FrameType)
    BY <1>28, AtTyped, FrameUpdate DEF TypeOK, DataReceived, InTransfer, Progress
  <2>2. stack' \in Seq(FrameType)
    <3>1. Frame("response", h) \in FrameType /\ Frame("dataRest", h) \in FrameType
      BY HandleFrameTyped
    <3>2. Frame("data", h) \in FrameType
      BY HandleFrameTyped
    <3>3. \/ stack' = <<Frame("response", h), Frame("dataRest", h), Progress(1)>>
                        \o Tail(stack)
          \/ CallThen(Frame("data", h), Progress(1))
          \/ Become(Progress(1))
      BY <1>28 DEF DataReceived
    <3> QED BY <2>1, <3>1, <3>2, <3>3, StackTyped DEF CallThen, Become
  <2>3. rh' \in [Handle -> ResourceHandle]
    BY <1>28 DEF TypeOK, DataReceived, ResourceHandle
  <2> QED BY <1>28, <2>2, <2>3 DEF TypeOK, DataReceived
<1>29. ASSUME NEW h \in Handle, NEW result \in BOOLEAN, DataDone(h, result)
      PROVE  TypeOK'
  <2>1. /\ stack # << >> /\ Progress(2) \in FrameType /\ Progress(3) \in FrameType
        /\ Tail(stack) \in Seq(FrameType)
    BY <1>29, AtTyped, FrameUpdate DEF TypeOK, DataDone, InTransfer, Progress
  <2>2. stack' \in Seq(FrameType)
    BY <1>29, <2>1, HandleFrameTyped, PlainFrameTyped, CallTyped DEF TypeOK, DataDone
  <2>3. JobsTyped(job') /\ condemned' \in BOOLEAN
    <3> DEFINE j == [job[h] EXCEPT !.success = FALSE, !.state = "Remove"]
    <3>1. job[h] \in JobInfo /\ SyncNeverPaused(job[h])
      BY DEF TypeOK
    <3>2. j \in JobInfo /\ SyncNeverPaused(j)
      BY <3>1 DEF JobInfo, JobState, SyncNeverPaused
    <3>3. \/ job' = [job EXCEPT ![h] = j] /\ condemned' = TRUE
          \/ UNCHANGED <<job, condemned>>
      BY <1>29 DEF TypeOK, DataDone
    <3> HIDE DEF j
    <3>4. JobsTyped(job) /\ condemned \in BOOLEAN
      BY DEF TypeOK, JobsTyped
    <3>5. JobsTyped([job EXCEPT ![h] = j])
      BY <3>2, <3>4, JobUpdate
    <3> QED BY <3>3, <3>4, <3>5 DEF JobsTyped
  <2> QED BY <1>29, <2>2, <2>3 DEF TypeOK, DataDone, JobsTyped
<1>30. ASSUME NEW h \in Handle, AuthProceed(h) PROVE TypeOK'
  <2>1. queue' \in Seq(Handle)
    BY <1>30, AppendProperties DEF TypeOK, AuthProceed
  <2> QED BY <1>30, <2>1 DEF TypeOK, AuthProceed
<1>31. ASSUME NEW h \in Handle, AuthCancel(h) PROVE TypeOK'
  <2>1. stack' \in Seq(FrameType)
    <3>1. Frame("response", h) \in FrameType /\ Frame("authFinish", h) \in FrameType
      BY HandleFrameTyped
    <3>2. \/ stack' = stack
          \/ stack' = <<Frame("response", h), Frame("authFinish", h)>> \o stack
      BY <1>31 DEF AuthCancel
    <3>3. stack \in Seq(FrameType)
      BY DEF TypeOK
    <3> QED BY <3>1, <3>2, <3>3, StackTyped
  <2>2. rh' \in [Handle -> ResourceHandle]
    <3>1. rh' = rh \/ rh' = [rh EXCEPT ![h].fired = TRUE]
      BY <1>31 DEF AuthCancel
    <3> QED BY <3>1, FiredTyped DEF TypeOK
  <2> QED BY <1>31, <2>1, <2>2 DEF TypeOK, AuthCancel
<1>32. ASSUME NEW h \in Handle, AuthDangling(h) PROVE TypeOK'
  BY <1>32, HandleFrameTyped, PlainFrameTyped, FrameUpdate, FrameHandle, CallTyped, AtTyped, DerefTyped, RefTyped
  DEF TypeOK, AuthDangling
<1>33. CASE AuthFinish
  <2>1. Top.h \in Handle /\ stack # << >>
    BY <1>33, AtHandle, AtTyped DEF TypeOK, AuthFinish, HandleLabel, UriLabel
  <2>2. stack' \in Seq(FrameType)
    BY <1>33, <2>1, HandleFrameTyped, CallTyped DEF TypeOK, AuthFinish
  <2>3. rh' \in [Handle -> ResourceHandle]
    BY <1>33, <2>1, FiredTyped DEF TypeOK, AuthFinish
  <2> QED BY <1>33, <2>2, <2>3 DEF TypeOK, AuthFinish
<1>34. CASE AuthDrop
  BY <1>34, HandleFrameTyped, PlainFrameTyped, FrameUpdate, FrameHandle, CallTyped, AtTyped, DerefTyped, RefTyped
  DEF TypeOK, AuthDrop
<1>35. CASE SyncProcess
  BY <1>35, HandleFrameTyped, PlainFrameTyped, FrameUpdate, FrameHandle, CallTyped, AtTyped, DerefTyped, RefTyped
  DEF TypeOK, SyncProcess
<1>36. CASE SyncTicked
  BY <1>36, HandleFrameTyped, PlainFrameTyped, FrameUpdate, FrameHandle, CallTyped, AtTyped, DerefTyped, RefTyped
  DEF TypeOK, SyncTicked
<1>37. CASE SyncReturn
  <2>1. Top.h \in Handle /\ stack' \in Seq(FrameType)
    BY <1>37, AtTyped, CallTyped, FrameHandle DEF TypeOK, SyncReturn, HandleLabel
  <2>2. JobsTyped(job')
    BY <1>37, PauseTyped DEF TypeOK, SyncReturn, JobsTyped
  <2>3. rh' \in [Handle -> ResourceHandle]
    <3> DEFINE r == [rh[Top.h] EXCEPT !.alive = FALSE, !.client = FALSE,
                                      !.cancelled = TRUE]
    <3>1. rh' = [rh EXCEPT ![Top.h] = r]
      BY <1>37, <2>1 DEF TypeOK, SyncReturn
    <3>2. rh[Top.h] \in ResourceHandle
      BY <2>1 DEF TypeOK
    <3>3. r \in ResourceHandle
      BY <3>2 DEF ResourceHandle
    <3> HIDE DEF r
    <3> QED BY <2>1, <3>1, <3>3, HandleUpdate DEF TypeOK
  <2>4. loader' \in [Handle -> LoaderState]
    BY <1>37, <2>1 DEF TypeOK, SyncReturn, LoaderState
  <2> QED BY <1>37, <2>1, <2>2, <2>3, <2>4 DEF TypeOK, SyncReturn, JobsTyped
<1>38. CASE TransportHandlerRemoved
  BY <1>38, HandleFrameTyped, PlainFrameTyped, FrameUpdate, FrameHandle, CallTyped, AtTyped, DerefTyped, RefTyped
  DEF TypeOK, TransportHandlerRemoved
<1>39. CASE Finalized
  BY <1>39, HandleFrameTyped, PlainFrameTyped, FrameUpdate, FrameHandle, CallTyped, AtTyped, DerefTyped, RefTyped
  DEF TypeOK, Finalized
<1>40. CASE UNCHANGED vars
  BY <1>40 DEF TypeOK, vars
<1> QED
  BY <1>1, <1>2, <1>3, <1>4, <1>5, <1>6, <1>7, <1>8, <1>9, <1>10, <1>11,
     <1>12, <1>13, <1>14, <1>15, <1>16, <1>17, <1>18, <1>19, <1>20, <1>21,
     <1>22, <1>23, <1>24, <1>25, <1>26, <1>27, <1>28, <1>29, <1>30, <1>31,
     <1>32, <1>33, <1>34, <1>35, <1>36, <1>37, <1>38, <1>39, <1>40
  DEF Next, Outside, Inside

LEMMA InitTyped == Init => TypeOK
<1> SUFFICES ASSUME Init PROVE TypeOK
  OBVIOUS
<1>1. queue \in Seq(Handle) /\ stack \in Seq(FrameType)
  BY EmptySeq DEF Init
<1>2. JobsTyped(job)
  BY NoJobTyped DEF Init, JobsTyped
<1>3. rh \in [Handle -> ResourceHandle] /\ loader \in [Handle -> LoaderState]
  BY NewRefTyped DEF Init, LoaderState
<1>4. /\ nextId \in Nat /\ running \in Int /\ limbo \in SUBSET Handle
      /\ open \in SUBSET Handle /\ life \in {"up", "down", "crashed"}
  BY DEF Init
<1>5. condemned \in BOOLEAN /\ timer \in BOOLEAN /\ appHandler \in BOOLEAN
  BY DEF Init
<1> QED BY <1>1, <1>2, <1>3, <1>4, <1>5 DEF TypeOK, JobsTyped

\* Every variable has its type in every behaviour.
THEOREM TypeCorrect == Spec => []TypeOK
BY InitTyped, TypeStep, PTL DEF Spec

-----------------------------------------------------------------------------
(* The inductive invariant *)

\* Frames that will use the job of their handle again.
Holder == {"transfer", "dispose"}
\* Frames in which ProcessTHJobs is not at work.
Quiet == ClientLabel \cup {"dataRest", "headersDone"}
\* Frames that may lie above the frame of a synchronous load.
SyncInner == {"sweep1", "sweep2", "transfer", "response", "redirect",
              "headersDone"}

HasSync(s) == \E k \in 1..Len(s) : s[k].at = "sync"

\* Below each frame that works for a job comes, before the next such frame, a
\* synchronous load.
Sheltered(s) ==
  \A j \in 1..Len(s) :
    s[j].at \in Holder => \E k \in 1..(j - 1) : s[k].at = "sync"

\* Inside a synchronous load no script runs and nobody but its own job is
\* transferred.
InsideSync(s, jobs) ==
  \A i, j \in 1..Len(s) :
    i < j /\ s[j].at = "sync"
      => s[i].at \in SyncInner /\ (s[i].at = "transfer" => jobs[s[i].h].sync)

\* While a frame works for a job, its clients run above it, and a sweep only
\* if one of them made a synchronous load.
AboveHolder(s) ==
  \A i, j \in 1..Len(s) :
    i < j /\ s[j].at \in Holder /\ s[i].at \notin Quiet
      => \E k \in i..(j - 1) : s[k].at = "sync"

\* The job of such a frame exists, and if a synchronous load was made above
\* the frame, it is not the job of that load.
HeldJobs(s, jobs) ==
  \A j \in 1..Len(s) :
    s[j].at \in Holder
      => /\ jobs[s[j].h].state # "None"
         /\ (\E i \in 1..(j - 1) : s[i].at = "sync") => ~jobs[s[j].h].sync

\* A synchronous job belongs to a synchronous load that has not returned.
SyncJobsRun(s, jobs) ==
  \A h \in Handle :
    jobs[h].state # "None" /\ jobs[h].sync
      => \E k \in 1..Len(s) : s[k].at = "sync" /\ s[k].h = h

\* PausedExactlyDuringSync, for any stack and jobs.
PausedInSync(s, jobs) ==
  \A h \in Handle :
    jobs[h].state # "None" /\ ~jobs[h].sync => (jobs[h].paused <=> HasSync(s))

StackInv(s, jobs) ==
  /\ InsideSync(s, jobs)
  /\ AboveHolder(s)
  /\ HeldJobs(s, jobs)
  /\ SyncJobsRun(s, jobs)
  /\ PausedInSync(s, jobs)

\* A handle is in one place at a time, once, and nowhere before it starts.
PlaceInv ==
  /\ \A h \in Handle :
       loader[h] = "idle" => ~Scheduled(h) /\ h \notin Jobs /\ h \notin limbo
  /\ \A i, j \in 1..Len(queue) : queue[i] = queue[j] => i = j
  /\ \A k \in 1..Len(queue) : queue[k] \notin Jobs /\ queue[k] \notin limbo
  /\ \A h \in limbo : h \notin Jobs
  /\ \A h \in Handle : job[h].sync => h \notin LoaderHandle

IInv ==
  /\ TypeOK
  /\ PlaceInv
  /\ StackInv(stack, job)
  /\ RunningCount
  /\ AsyncLimit

-----------------------------------------------------------------------------
(* What pushes and pops do to StackInv *)

\* The frames of a stack after a push, and after a pop.
LEMMA Pushed ==
  ASSUME NEW s \in Seq(FrameType), NEW f \in FrameType
  PROVE  /\ <<f>> \o s \in Seq(FrameType)
         /\ Len(<<f>> \o s) = Len(s) + 1
         /\ Len(s) \in Nat
         /\ (<<f>> \o s)[1] = f
         /\ \A k \in 1..Len(s) : (<<f>> \o s)[k + 1] = s[k]
         /\ \A k \in 2..Len(<<f>> \o s) : (<<f>> \o s)[k] = s[k - 1]
BY ConcatProperties

LEMMA Popped ==
  ASSUME NEW s \in Seq(FrameType), s # << >>
  PROVE  /\ Tail(s) \in Seq(FrameType)
         /\ Len(s) \in Nat /\ Len(s) >= 1
         /\ Len(Tail(s)) = Len(s) - 1
         /\ Head(s) = s[1] /\ s[1] \in FrameType
         /\ \A k \in 1..Len(Tail(s)) : Tail(s)[k] = s[k + 1]
         /\ <<Head(s)>> \o Tail(s) = s
BY HeadTailProperties

LEMMA PushedTwo ==
  ASSUME NEW s \in Seq(FrameType), NEW f \in FrameType, NEW g \in FrameType
  PROVE  <<f, g>> \o s = <<f>> \o (<<g>> \o s)
<1>1. <<f>> \in Seq(FrameType) /\ <<g>> \in Seq(FrameType)
  OBVIOUS
<1>2. <<f>> \o <<g>> = <<f, g>>
  <2> DEFINE a == <<f>> \o <<g>>
             b == <<f, g>>
  <2>1. b \in Seq(FrameType) /\ Len(b) = 2 /\ b[1] = f /\ b[2] = g
    OBVIOUS
  <2>2. a \in Seq(FrameType) /\ Len(a) = 2 /\ a[1] = f /\ a[2] = g
    BY <1>1, ConcatProperties
  <2> HIDE DEF a, b
  <2>3. a = b
    BY <2>1, <2>2, SeqEqual
  <2> QED BY <2>3 DEF a, b
<1>3. (<<f>> \o <<g>>) \o s = <<f>> \o (<<g>> \o s)
  BY <1>1, ConcatAssociative
<1> QED BY <1>2, <1>3, Zenon

\* Three frames at once are three pushes.  (Cited by its name, the equation
\* gives the provers nothing to rewrite with.)
ThreePushes(s, f, g, k) == <<f, g, k>> \o s = <<f>> \o (<<g>> \o (<<k>> \o s))

LEMMA PushedThree ==
  ASSUME NEW s \in Seq(FrameType), NEW f \in FrameType, NEW g \in FrameType,
         NEW k \in FrameType
  PROVE  ThreePushes(s, f, g, k)
<1>1. <<f, g>> \in Seq(FrameType) /\ <<k>> \in Seq(FrameType)
  OBVIOUS
<1>2. <<f, g>> \o <<k>> = <<f, g, k>>
  <2> DEFINE a == <<f, g>> \o <<k>>
             b == <<f, g, k>>
  <2>1. b \in Seq(FrameType) /\ Len(b) = 3 /\ b[1] = f /\ b[2] = g /\ b[3] = k
    OBVIOUS
  <2>2. a \in Seq(FrameType) /\ Len(a) = 3 /\ a[1] = f /\ a[2] = g /\ a[3] = k
    BY <1>1, ConcatProperties
  <2> HIDE DEF a, b
  <2>3. a = b
    BY <2>1, <2>2, SeqEqual
  <2> QED BY <2>3 DEF a, b
<1>3. (<<f, g>> \o <<k>>) \o s = <<f, g>> \o (<<k>> \o s)
  BY <1>1, ConcatAssociative
<1>4. <<k>> \o s \in Seq(FrameType)
  BY Pushed
<1>5. <<f, g>> \o (<<k>> \o s) = <<f>> \o (<<g>> \o (<<k>> \o s))
  BY <1>4, PushedTwo
<1> QED BY <1>2, <1>3, <1>5, Zenon DEF ThreePushes

\* Whether a synchronous load is on the stack does not change with a frame of
\* another kind.
LEMMA PushedSync ==
  ASSUME NEW s \in Seq(FrameType), NEW f \in FrameType
  PROVE  HasSync(<<f>> \o s) <=> f.at = "sync" \/ HasSync(s)
<1> DEFINE t == <<f>> \o s
<1>1. /\ Len(t) = Len(s) + 1 /\ Len(s) \in Nat /\ t[1] = f
      /\ \A k \in 1..Len(s) : t[k + 1] = s[k]
      /\ \A k \in 2..Len(t) : t[k] = s[k - 1]
  BY Pushed
<1> HIDE DEF t
<1>2. ASSUME NEW k \in 1..Len(t), t[k].at = "sync"
      PROVE  f.at = "sync" \/ HasSync(s)
  <2>1. CASE k = 1
    BY <1>1, <1>2, <2>1
  <2>2. CASE k # 1
    <3>1. k \in 2..Len(t) /\ k - 1 \in 1..Len(s)
      BY <1>1, <2>2
    <3> QED BY <1>1, <1>2, <3>1 DEF HasSync
  <2> QED BY <2>1, <2>2
<1>3. ASSUME f.at = "sync" PROVE HasSync(t)
  BY <1>1, <1>3 DEF HasSync
<1>4. ASSUME NEW k \in 1..Len(s), s[k].at = "sync" PROVE HasSync(t)
  <2>1. k + 1 \in 1..Len(t) /\ t[k + 1] = s[k]
    BY <1>1
  <2> QED BY <1>4, <2>1 DEF HasSync
<1> QED BY <1>2, <1>3, <1>4 DEF HasSync, t

\* A frame other than a synchronous load is pushed.
LEMMA PushInv ==
  ASSUME NEW s \in Seq(FrameType), NEW f \in FrameType, NEW jobs,
         StackInv(s, jobs),
         f.at # "sync",
         HasSync(s) => /\ f.at \in SyncInner
                       /\ f.at = "transfer" => jobs[f.h].sync,
         f.at \in Holder => jobs[f.h].state # "None",
         f.at \in Quiet \/ Sheltered(s)
  PROVE  StackInv(<<f>> \o s, jobs)
<1> DEFINE t == <<f>> \o s
<1>1. /\ Len(t) = Len(s) + 1 /\ Len(s) \in Nat /\ t[1] = f
      /\ \A k \in 1..Len(s) : t[k + 1] = s[k]
      /\ \A k \in 2..Len(t) : t[k] = s[k - 1]
  BY Pushed
<1>2. HasSync(t) <=> HasSync(s)
  BY PushedSync
<1> HIDE DEF t
<1>3. InsideSync(t, jobs)
  <2> SUFFICES ASSUME NEW i \in 1..Len(t), NEW j \in 1..Len(t),
                      i < j, t[j].at = "sync"
               PROVE  /\ t[i].at \in SyncInner
                      /\ t[i].at = "transfer" => jobs[t[i].h].sync
    BY DEF InsideSync
  <2>1. j - 1 \in 1..Len(s) /\ s[j - 1] = t[j]
    BY <1>1
  <2>2. CASE i = 1
    BY <1>1, <2>1, <2>2 DEF HasSync
  <2>3. CASE i # 1
    <3>1. i - 1 \in 1..Len(s) /\ s[i - 1] = t[i] /\ i - 1 < j - 1
      BY <1>1, <2>3
    <3> QED BY <2>1, <3>1 DEF StackInv, InsideSync
  <2> QED BY <2>2, <2>3
<1>4. AboveHolder(t)
  <2> SUFFICES ASSUME NEW i \in 1..Len(t), NEW j \in 1..Len(t),
                      i < j, t[j].at \in Holder, t[i].at \notin Quiet
               PROVE  \E k \in i..(j - 1) : t[k].at = "sync"
    BY DEF AboveHolder
  <2>1. j - 1 \in 1..Len(s) /\ s[j - 1] = t[j]
    BY <1>1
  <2>2. PICK k \in (IF i = 1 THEN 1 ELSE i - 1)..(j - 2) : s[k].at = "sync"
    <3>1. CASE i = 1
      BY <1>1, <2>1, <3>1 DEF Sheltered
    <3>2. CASE i # 1
      <4>1. i - 1 \in 1..Len(s) /\ s[i - 1] = t[i] /\ i - 1 < j - 1
        BY <1>1, <3>2
      <4>2. \E k \in (i - 1)..((j - 1) - 1) : s[k].at = "sync"
        BY <2>1, <4>1 DEF StackInv, AboveHolder
      <4> QED BY <3>2, <4>2
    <3> QED BY <3>1, <3>2
  <2>3. k \in 1..Len(s) /\ k + 1 \in i..(j - 1) /\ t[k + 1] = s[k]
    BY <1>1, <2>1
  <2> QED BY <2>2, <2>3
<1>5. HeldJobs(t, jobs)
  <2> SUFFICES ASSUME NEW j \in 1..Len(t), t[j].at \in Holder
               PROVE  /\ jobs[t[j].h].state # "None"
                      /\ \A i \in 1..(j - 1) :
                           t[i].at = "sync" => ~jobs[t[j].h].sync
    BY DEF HeldJobs
  <2>1. CASE j = 1
    BY <1>1, <2>1
  <2>2. CASE j # 1
    <3>1. j - 1 \in 1..Len(s) /\ s[j - 1] = t[j]
      BY <1>1, <2>2
    <3>2. ASSUME NEW i \in 1..(j - 1), t[i].at = "sync"
          PROVE  ~jobs[t[j].h].sync
      <4>1. i # 1
        BY <1>1, <3>2
      <4>2. i - 1 \in 1..((j - 1) - 1) /\ s[i - 1] = t[i]
        BY <1>1, <4>1
      <4> QED BY <3>1, <3>2, <4>2 DEF StackInv, HeldJobs
    <3> QED BY <3>1, <3>2 DEF StackInv, HeldJobs
  <2> QED BY <2>1, <2>2
<1>6. SyncJobsRun(t, jobs)
  <2> SUFFICES ASSUME NEW h \in Handle, jobs[h].state # "None", jobs[h].sync
               PROVE  \E k \in 1..Len(t) : t[k].at = "sync" /\ t[k].h = h
    BY DEF SyncJobsRun
  <2>1. PICK k \in 1..Len(s) : s[k].at = "sync" /\ s[k].h = h
    BY DEF StackInv, SyncJobsRun
  <2>2. k + 1 \in 1..Len(t) /\ t[k + 1] = s[k]
    BY <1>1
  <2> QED BY <2>1, <2>2
<1>7. PausedInSync(t, jobs)
  BY <1>2 DEF StackInv, PausedInSync
<1> QED BY <1>3, <1>4, <1>5, <1>6, <1>7 DEF StackInv, t

\* The top frame, not a synchronous load, is popped.
LEMMA PopInv ==
  ASSUME NEW s \in Seq(FrameType), s # << >>, NEW jobs, StackInv(s, jobs),
         s[1].at # "sync"
  PROVE  StackInv(Tail(s), jobs) /\ (HasSync(Tail(s)) <=> HasSync(s))
<1> DEFINE t == Tail(s)
<1>1. /\ Len(s) \in Nat /\ Len(s) >= 1 /\ Len(t) = Len(s) - 1
      /\ \A k \in 1..Len(t) : t[k] = s[k + 1]
  BY Popped
<1>2. HasSync(t) <=> HasSync(s)
  <2>1. <<s[1]>> \o t = s /\ s[1] \in FrameType /\ t \in Seq(FrameType)
    BY Popped
  <2> QED BY <2>1, PushedSync
<1> HIDE DEF t
<1>3. \A k \in 1..Len(t) : k + 1 \in 1..Len(s) /\ t[k] = s[k + 1]
  BY <1>1
<1>4. InsideSync(t, jobs)
  <2> SUFFICES ASSUME NEW i \in 1..Len(t), NEW j \in 1..Len(t),
                      i < j, t[j].at = "sync"
               PROVE  /\ t[i].at \in SyncInner
                      /\ t[i].at = "transfer" => jobs[t[i].h].sync
    BY DEF InsideSync
  <2>1. i + 1 < j + 1
    OBVIOUS
  <2> QED BY <1>3, <2>1 DEF StackInv, InsideSync
<1>5. AboveHolder(t)
  <2> SUFFICES ASSUME NEW i \in 1..Len(t), NEW j \in 1..Len(t),
                      i < j, t[j].at \in Holder, t[i].at \notin Quiet
               PROVE  \E k \in i..(j - 1) : t[k].at = "sync"
    BY DEF AboveHolder
  <2>1. i + 1 < j + 1
    OBVIOUS
  <2>2. PICK k \in (i + 1)..((j + 1) - 1) : s[k].at = "sync"
    BY <1>3, <2>1 DEF StackInv, AboveHolder
  <2>3. k - 1 \in i..(j - 1) /\ t[k - 1] = s[k]
    BY <1>1
  <2> QED BY <2>2, <2>3
<1>6. HeldJobs(t, jobs)
  <2> SUFFICES ASSUME NEW j \in 1..Len(t), t[j].at \in Holder
               PROVE  /\ jobs[t[j].h].state # "None"
                      /\ \A i \in 1..(j - 1) :
                           t[i].at = "sync" => ~jobs[t[j].h].sync
    BY DEF HeldJobs
  <2>1. j + 1 \in 1..Len(s) /\ t[j] = s[j + 1]
    BY <1>3
  <2>2. ASSUME NEW i \in 1..(j - 1), t[i].at = "sync"
        PROVE  ~jobs[t[j].h].sync
    <3>1. i + 1 \in 1..((j + 1) - 1) /\ t[i] = s[i + 1]
      BY <1>1
    <3> QED BY <2>1, <2>2, <3>1 DEF StackInv, HeldJobs
  <2> QED BY <2>1, <2>2 DEF StackInv, HeldJobs
<1>7. SyncJobsRun(t, jobs)
  <2> SUFFICES ASSUME NEW h \in Handle, jobs[h].state # "None", jobs[h].sync
               PROVE  \E k \in 1..Len(t) : t[k].at = "sync" /\ t[k].h = h
    BY DEF SyncJobsRun
  <2>1. PICK k \in 1..Len(s) : s[k].at = "sync" /\ s[k].h = h
    BY DEF StackInv, SyncJobsRun
  <2>2. k - 1 \in 1..Len(t) /\ t[k - 1] = s[k]
    BY <1>1, <2>1
  <2> QED BY <2>1, <2>2
<1>8. PausedInSync(t, jobs)
  BY <1>2 DEF StackInv, PausedInSync
<1> QED BY <1>2, <1>4, <1>5, <1>6, <1>7, <1>8 DEF StackInv, t

\* What the invariant says of the top frame and of what lies below it.
LEMMA TopInv ==
  ASSUME NEW s \in Seq(FrameType), s # << >>, NEW jobs, StackInv(s, jobs)
  PROVE  /\ s[1].at \notin SyncInner \cup {"sync"} => ~HasSync(s)
         /\ s[1].at = "sync" => ~HasSync(Tail(s))
         /\ s[1].at \notin Quiet \cup {"sync"} => Sheltered(Tail(s))
         /\ s[1].at = "sync" \/ s[1].at \notin Quiet \cup Holder => Sheltered(s)
         /\ s[1].at = "transfer" /\ HasSync(s) => jobs[s[1].h].sync
         /\ s[1].at \in Holder => jobs[s[1].h].state # "None"
<1> DEFINE t == Tail(s)
<1>1. /\ Len(s) \in Nat /\ Len(s) >= 1 /\ Len(t) = Len(s) - 1
      /\ \A k \in 1..Len(t) : t[k] = s[k + 1]
  BY Popped
<1> HIDE DEF t
<1>2. s[1].at \notin SyncInner \cup {"sync"} => ~HasSync(s)
  BY <1>1 DEF StackInv, InsideSync, HasSync
<1>3. s[1].at = "sync" => ~HasSync(t)
  <2> SUFFICES ASSUME s[1].at = "sync", NEW k \in 1..Len(t), t[k].at = "sync"
               PROVE  FALSE
    BY DEF HasSync
  <2>1. k + 1 \in 1..Len(s) /\ 1 < k + 1 /\ s[k + 1].at = "sync"
    BY <1>1
  <2>2. "sync" \in SyncInner
    BY <1>1, <2>1 DEF StackInv, InsideSync
  <2> QED BY <2>2 DEF SyncInner
<1>4. s[1].at \notin Quiet \cup {"sync"} => Sheltered(t)
  <2> SUFFICES ASSUME s[1].at \notin Quiet \cup {"sync"},
                      NEW j \in 1..Len(t), t[j].at \in Holder
               PROVE  \E k \in 1..(j - 1) : t[k].at = "sync"
    BY DEF Sheltered
  <2>1. j + 1 \in 1..Len(s) /\ 1 < j + 1 /\ s[j + 1] = t[j]
    BY <1>1
  <2>2. PICK k \in 1..((j + 1) - 1) : s[k].at = "sync"
    BY <1>1, <2>1 DEF StackInv, AboveHolder
  <2>3. k # 1
    BY <2>2
  <2>4. k - 1 \in 1..(j - 1) /\ t[k - 1] = s[k]
    BY <1>1, <2>3
  <2> QED BY <2>2, <2>4
<1>5. s[1].at = "sync" \/ s[1].at \notin Quiet \cup Holder => Sheltered(s)
  <2> SUFFICES ASSUME s[1].at = "sync" \/ s[1].at \notin Quiet \cup Holder,
                      NEW j \in 1..Len(s), s[j].at \in Holder
               PROVE  \E k \in 1..(j - 1) : s[k].at = "sync"
    BY DEF Sheltered
  <2>1. j # 1 /\ s[1].at \notin Quiet
    BY DEF Holder, Quiet, ClientLabel
  <2>2. 1 \in 1..Len(s) /\ 1 < j
    BY <1>1, <2>1
  <2> QED BY <2>1, <2>2 DEF StackInv, AboveHolder
<1>6. s[1].at = "transfer" /\ HasSync(s) => jobs[s[1].h].sync
  <2> SUFFICES ASSUME s[1].at = "transfer", NEW k \in 1..Len(s), s[k].at = "sync"
               PROVE  jobs[s[1].h].sync
    BY DEF HasSync
  <2>1. 1 \in 1..Len(s) /\ 1 < k
    BY <1>1
  <2> QED BY <2>1 DEF StackInv, InsideSync
<1>7. s[1].at \in Holder => jobs[s[1].h].state # "None"
  BY <1>1 DEF StackInv, HeldJobs
<1> QED BY <1>2, <1>3, <1>4, <1>5, <1>6, <1>7 DEF t

\* A frame that is sheltered when no synchronous load runs has no frame below
\* it that works for a job.
LEMMA Unsheltered ==
  ASSUME NEW s \in Seq(FrameType), Sheltered(s), ~HasSync(s)
  PROVE  \A j \in 1..Len(s) : s[j].at \notin Holder
<1> SUFFICES ASSUME NEW j \in 1..Len(s), s[j].at \in Holder PROVE FALSE
  OBVIOUS
<1>1. PICK k \in 1..(j - 1) : s[k].at = "sync"
  BY DEF Sheltered
<1>2. Len(s) \in Nat
  BY LenProperties
<1>3. k \in 1..Len(s)
  BY <1>2
<1> QED BY <1>1, <1>3 DEF HasSync

\* The locals of the top frame change.
LEMMA FlagInv ==
  ASSUME NEW s \in Seq(FrameType), s # << >>, NEW jobs, StackInv(s, jobs),
         NEW f \in FrameType, f.at = s[1].at, f.h = s[1].h
  PROVE  /\ StackInv(<<f>> \o Tail(s), jobs)
         /\ HasSync(<<f>> \o Tail(s)) <=> HasSync(s)
<1> DEFINE t == <<f>> \o Tail(s)
<1>1. /\ Len(s) \in Nat /\ Len(s) >= 1 /\ Len(Tail(s)) = Len(s) - 1
      /\ \A k \in 1..Len(Tail(s)) : Tail(s)[k] = s[k + 1]
      /\ Tail(s) \in Seq(FrameType)
  BY Popped
<1>2. /\ Len(t) = Len(s) /\ t[1] = f
      /\ \A k \in 2..Len(t) : t[k] = Tail(s)[k - 1]
  BY <1>1, Pushed
<1> HIDE DEF t
<1>3. \A k \in 2..Len(t) : t[k] = s[k]
  BY <1>1, <1>2
<1>4. Len(t) = Len(s) /\ \A k \in 1..Len(s) : t[k].at = s[k].at /\ t[k].h = s[k].h
  BY <1>1, <1>2, <1>3
<1>5. HasSync(t) <=> HasSync(s)
  BY <1>4 DEF HasSync
<1>6. InsideSync(t, jobs) /\ SyncJobsRun(t, jobs) /\ PausedInSync(t, jobs)
  BY <1>4, <1>5 DEF StackInv, InsideSync, SyncJobsRun, PausedInSync
<1>7. AboveHolder(t)
  BY <1>4 DEF StackInv, AboveHolder
<1>8. HeldJobs(t, jobs)
  BY <1>1, <1>4 DEF StackInv, HeldJobs
<1> QED BY <1>5, <1>6, <1>7, <1>8 DEF StackInv, t

-----------------------------------------------------------------------------
(* What changes of the jobs do to StackInv *)

\* The same jobs exist, and the same of them are synchronous ...
SameJobs(old, new) ==
  \A h \in Handle : /\ new[h].state = "None" <=> old[h].state = "None"
                    /\ new[h].sync = old[h].sync

\* ... and the same of them are paused.
JobsKept(old, new) ==
  SameJobs(old, new) /\ \A h \in Handle : new[h].paused = old[h].paused

LEMMA PauseSame ==
  ASSUME NEW jobs, JobsTyped(jobs)
  PROVE  /\ SameJobs(jobs, PauseAsyncJobs(jobs))
         /\ SameJobs(jobs, ResumeAsyncJobs(jobs))
BY DEF SameJobs, PauseAsyncJobs, ResumeAsyncJobs, JobsTyped, JobInfo

LEMMA KeptInv ==
  ASSUME NEW s \in Seq(FrameType), NEW old, NEW new, StackInv(s, old),
         JobsKept(old, new)
  PROVE  StackInv(s, new)
<1>1. \A k \in 1..Len(s) : s[k].at \in Holder => s[k].h \in Handle
  <2>1. \A k \in 1..Len(s) : s[k] \in FrameType
    BY ElementOfSeq
  <2> QED BY <2>1, FrameHandle DEF Holder, HandleLabel
<1>2. InsideSync(s, new)
  BY <1>1 DEF StackInv, InsideSync, JobsKept, SameJobs, Holder
<1>3. HeldJobs(s, new)
  BY <1>1 DEF StackInv, HeldJobs, JobsKept, SameJobs
<1>4. SyncJobsRun(s, new) /\ PausedInSync(s, new)
  BY DEF StackInv, SyncJobsRun, PausedInSync, JobsKept, SameJobs
<1> QED BY <1>2, <1>3, <1>4 DEF StackInv

\* A job is erased that no frame works for.
LEMMA EraseInv ==
  ASSUME NEW s \in Seq(FrameType), NEW old \in [Handle -> JobInfo],
         StackInv(s, old), NEW h \in Handle,
         \A k \in 1..Len(s) : s[k].at \in Holder => s[k].h # h
  PROVE  StackInv(s, [old EXCEPT ![h] = NoJob])
<1> DEFINE new == [old EXCEPT ![h] = NoJob]
<1>1. \A k \in 1..Len(s) : s[k].at \in Holder => s[k].h \in Handle
  <2>1. \A k \in 1..Len(s) : s[k] \in FrameType
    BY ElementOfSeq
  <2> QED BY <2>1, FrameHandle DEF Holder, HandleLabel
<1>2. /\ \A g \in Handle : g # h => new[g] = old[g]
      /\ new[h].state = "None" /\ new[h].sync = FALSE
  BY DEF NoJob
<1> HIDE DEF new
<1>3. InsideSync(s, new)
  BY <1>1, <1>2 DEF StackInv, InsideSync, Holder
<1>4. HeldJobs(s, new)
  BY <1>1, <1>2 DEF StackInv, HeldJobs
<1>5. SyncJobsRun(s, new)
  BY <1>2 DEF StackInv, SyncJobsRun
<1>6. PausedInSync(s, new)
  BY <1>2 DEF StackInv, PausedInSync
<1> QED BY <1>3, <1>4, <1>5, <1>6 DEF StackInv, new

\* What a handler call or CondemnTHJob makes of the jobs.
LEMMA SettleKept ==
  ASSUME TypeOK, NEW h \in Handle, job[h].state # "None",
         NEW state \in {"Init", "Connect", "Transfer", "Disconnect", "Shutdown"},
         NEW ok \in BOOLEAN, NEW complete \in BOOLEAN,
         Settle(h, state, ok, complete)
  PROVE  JobsKept(job, job')
<1>1. JobsTyped(job) /\ JobsTyped(job')
  BY SettleTyped DEF TypeOK, JobsTyped
<1>2. /\ job[h] \in JobInfo
      /\ job'[h].sync = job[h].sync /\ job'[h].paused = job[h].paused
      /\ \A g \in Handle : g # h => job'[g] = job[g]
  BY <1>1 DEF Settle, JobsTyped, JobInfo
<1>3. After(state) # "None"
  BY DEF After
<1>4. job'[h].state # "None"
  BY <1>1, <1>2, <1>3 DEF Settle, JobsTyped, JobInfo
<1> QED BY <1>2, <1>4 DEF JobsKept, SameJobs

LEMMA CondemnKept ==
  ASSUME JobsTyped(job), NEW jobs \in SUBSET Jobs, Condemn(jobs)
  PROVE  JobsKept(job, job')
BY DEF Condemn, JobsKept, SameJobs, Jobs, JobsTyped, JobInfo

\* The steps that change jobs without adding, erasing or pausing one.
LEMMA KeptStep ==
  ASSUME TypeOK, StackInv(stack, job),
         \/ \E h \in Handle : HeadersReceived(h) \/ SetRedirect(h)
         \/ \E h \in Handle, result \in BOOLEAN : DataDone(h, result)
         \/ SweepStep \/ TransferReturn \/ RemoveTransportHandler \/ Finalize
         \/ UNCHANGED job
  PROVE  JobsKept(job, job')
<1>0. JobsTyped(job)
  BY DEF TypeOK, JobsTyped
<1>t. ASSUME At("transfer")
      PROVE  Top.h \in Handle /\ job[Top.h].state # "None"
  <2>1. stack \in Seq(FrameType)
    BY DEF TypeOK
  <2>2. Top.h \in Handle /\ stack # << >> /\ Top = stack[1] /\ Top.at = "transfer"
    BY <1>t, <2>1, AtTyped, AtHandle, Popped DEF HandleLabel, Top
  <2> QED BY <2>1, <2>2, TopInv DEF Holder
<1>1. ASSUME NEW h \in Handle, HeadersReceived(h) PROVE JobsKept(job, job')
  <2>1. PICK challenged \in BOOLEAN :
          job' = [job EXCEPT ![h].headers = "received",
                             ![h].auth = @ \/ (challenged /\ ~rh[h].cancelled)]
    BY <1>1 DEF HeadersReceived
  <2> QED BY <1>0, <2>1 DEF JobsKept, SameJobs, JobsTyped, JobInfo
<1>2. ASSUME NEW h \in Handle, SetRedirect(h) PROVE JobsKept(job, job')
  BY <1>0, <1>2 DEF SetRedirect, JobsKept, SameJobs, JobsTyped, JobInfo
<1>3. ASSUME NEW h \in Handle, NEW result \in BOOLEAN, DataDone(h, result)
      PROVE  JobsKept(job, job')
  <2>1. job[h].state # "None"
    BY <1>3, <1>t DEF DataDone, InTransfer
  <2>2. \/ job' = job
        \/ job' = [job EXCEPT ![h].success = FALSE, ![h].state = "Remove"]
    BY <1>3 DEF DataDone
  <2> QED BY <1>0, <2>1, <2>2 DEF JobsKept, SameJobs, JobsTyped, JobInfo
<1>4. CASE SweepStep
  <2>1. PICK h \in Handle, ok \in BOOLEAN, complete \in BOOLEAN :
          /\ IsNext(h, FALSE)
          /\ job[h].state \in {"Init", "Connect", "Disconnect", "Shutdown"}
          /\ Settle(h, job[h].state, ok, complete)
    BY <1>4 DEF SweepStep
  <2>2. job[h].state # "None"
    BY <2>1
  <2> QED BY <2>1, <2>2, SettleKept
<1>5. CASE TransferReturn
  <2>1. At("transfer") /\ \E ok, complete \in BOOLEAN :
          Settle(Top.h, "Transfer", ok, complete)
    BY <1>5 DEF TransferReturn
  <2> QED BY <1>t, <2>1, SettleKept
<1>6. CASE RemoveTransportHandler
  BY <1>0, <1>6, CondemnKept DEF RemoveTransportHandler
<1>7. CASE Finalize
  BY <1>0, <1>7, CondemnKept DEF Finalize
<1>8. CASE UNCHANGED job
  BY <1>8 DEF JobsKept, SameJobs
<1> QED BY <1>1, <1>2, <1>3, <1>4, <1>5, <1>6, <1>7, <1>8

-----------------------------------------------------------------------------
(* Where the handles are *)

\* The steps that add, move, erase, pause or resume nothing.
LEMMA UnmovedStep ==
  ASSUME TypeOK, StackInv(stack, job),
         \/ \E h \in Handle : HeadersReceived(h) \/ SetRedirect(h)
         \/ RemoveTransportHandler \/ Finalize \/ TimerFires \/ ClientReturn
         \/ UriData \/ UriFinish \/ UriDone
         \/ FirstStartDone \/ PassDone \/ AuthTickDone \/ CallbackDone
         \/ SweepStep \/ SweepTransfer \/ FirstLoopDone
         \/ TellFailure \/ SecondLoopDone
         \/ HeadersDone \/ DataRest \/ TransferReturn
         \/ \E h \in Handle : DataReceived(h)
         \/ \E h \in Handle, result \in BOOLEAN : DataDone(h, result)
         \/ \E h \in Handle : AuthCancel(h) \/ AuthDangling(h)
         \/ AuthFinish \/ SyncProcess \/ SyncTicked
         \/ TransportHandlerRemoved \/ Finalized
         \/ UNCHANGED vars
  PROVE  /\ JobsKept(job, job')
         /\ UNCHANGED <<queue, limbo, running>>
         /\ \A h \in Handle : loader'[h] = "idle" => loader[h] = "idle"
<1>1. JobsKept(job, job')
  <2>1. \/ \E h \in Handle : HeadersReceived(h) \/ SetRedirect(h)
        \/ \E h \in Handle, result \in BOOLEAN : DataDone(h, result)
        \/ SweepStep \/ TransferReturn \/ RemoveTransportHandler \/ Finalize
        \/ UNCHANGED job
    BY DEF TimerFires, ClientReturn, UriData, UriFinish, UriDone,
       FirstStartDone, PassDone, AuthTickDone, CallbackDone, SweepTransfer,
       FirstLoopDone, TellFailure, SecondLoopDone, HeadersDone, DataRest,
       DataReceived, AuthCancel, AuthDangling, AuthFinish, SyncProcess,
       SyncTicked, TransportHandlerRemoved, Finalized, vars
  <2> QED BY <2>1, KeptStep
<1>2. UNCHANGED <<queue, limbo, running>>
  BY DEF HeadersReceived, SetRedirect, RemoveTransportHandler, Finalize,
     TimerFires, ClientReturn, UriData, UriFinish, UriDone, FirstStartDone,
     PassDone, AuthTickDone, CallbackDone, SweepStep, SweepTransfer,
     FirstLoopDone, TellFailure, SecondLoopDone, HeadersDone, DataRest,
     TransferReturn, DataReceived, DataDone, AuthCancel, AuthDangling,
     AuthFinish, SyncProcess, SyncTicked, TransportHandlerRemoved, Finalized,
     vars
<1>3. \A h \in Handle : loader'[h] = "idle" => loader[h] = "idle"
  <2>1. CASE ClientReturn
    BY <2>1 DEF ClientReturn, TypeOK
  <2>2. CASE UNCHANGED loader
    BY <2>2
  <2>3. ASSUME \/ \E h \in Handle : HeadersReceived(h) \/ SetRedirect(h)
               \/ RemoveTransportHandler \/ Finalize \/ TimerFires
               \/ UriData \/ UriFinish \/ UriDone
               \/ FirstStartDone \/ PassDone \/ AuthTickDone \/ CallbackDone
               \/ SweepStep \/ SweepTransfer
        PROVE  UNCHANGED loader
    BY <2>3 DEF HeadersReceived, SetRedirect, RemoveTransportHandler, Finalize,
       TimerFires, UriData, UriFinish, UriDone, FirstStartDone,
       PassDone, AuthTickDone, CallbackDone, SweepStep, SweepTransfer
  <2>4. ASSUME \/ FirstLoopDone \/ TellFailure \/ SecondLoopDone
               \/ HeadersDone \/ DataRest \/ TransferReturn
               \/ \E h \in Handle : DataReceived(h)
               \/ \E h \in Handle, result \in BOOLEAN : DataDone(h, result)
               \/ \E h \in Handle : AuthCancel(h) \/ AuthDangling(h)
               \/ AuthFinish \/ SyncProcess \/ SyncTicked
               \/ TransportHandlerRemoved \/ Finalized
               \/ UNCHANGED vars
        PROVE  UNCHANGED loader
    BY <2>4 DEF FirstLoopDone, TellFailure, SecondLoopDone, HeadersDone,
       DataRest, TransferReturn, DataReceived, DataDone, AuthCancel,
       AuthDangling, AuthFinish, SyncProcess, SyncTicked,
       TransportHandlerRemoved, Finalized, vars
  <2> QED BY <2>1, <2>2, <2>3, <2>4
<1> QED BY <1>1, <1>2, <1>3

LEMMA KeptPlaces ==
  ASSUME IInv, SameJobs(job, job'), UNCHANGED <<queue, limbo, running>>,
         \A h \in Handle : loader'[h] = "idle" => loader[h] = "idle"
  PROVE  PlaceInv' /\ RunningCount' /\ AsyncLimit'
<1>1. Jobs' = Jobs /\ AsyncJobs' = AsyncJobs
  BY DEF SameJobs, Jobs, AsyncJobs
<1>2. PlaceInv'
  BY <1>1 DEF IInv, PlaceInv, SameJobs, Scheduled
<1>3. RunningCount' /\ AsyncLimit'
  BY <1>1 DEF IInv, RunningCount, AsyncLimit
<1> QED BY <1>2, <1>3

\* The jobs are finitely many.
LEMMA FiniteJobs ==
  /\ IsFiniteSet(Jobs) /\ IsFiniteSet(AsyncJobs) /\ AsyncJobs \subseteq Jobs
  /\ Cardinality(Jobs) \in Nat /\ Cardinality(AsyncJobs) \in Nat
  /\ Cardinality(AsyncJobs) <= Cardinality(Jobs)
<1>1. Jobs \subseteq Handle /\ AsyncJobs \subseteq Jobs
  BY DEF Jobs, AsyncJobs
<1>2. IsFiniteSet(Jobs) /\ IsFiniteSet(AsyncJobs)
  BY <1>1, HandleAssumption, FS_Subset
<1> QED BY <1>1, <1>2, FS_Subset, FS_CardinalityType

\* A job is added for a handle that has none.
LEMMA AddPlaces ==
  ASSUME IInv, NEW h \in Handle, h \notin Jobs, NEW j \in JobInfo,
         j.state # "None", SameJobs([job EXCEPT ![h] = j], job'),
         running' = running + 1,
         j.sync \/ running < MaxConcurrent
  PROVE  RunningCount' /\ AsyncLimit' /\ Jobs' = Jobs \cup {h}
<1>1. Jobs' = Jobs \cup {h}
  BY DEF Jobs, SameJobs, IInv, TypeOK
<1>2. Cardinality(Jobs \cup {h}) = Cardinality(Jobs) + 1
  BY FiniteJobs, FS_AddElement
<1>3. RunningCount'
  BY <1>1, <1>2 DEF IInv, RunningCount
<1>4. CASE j.sync
  <2>1. AsyncJobs' = AsyncJobs
    BY <1>4 DEF Jobs, AsyncJobs, SameJobs, IInv, TypeOK
  <2> QED BY <1>1, <1>3, <2>1 DEF IInv, AsyncLimit
<1>5. CASE ~j.sync
  <2>1. AsyncJobs' = AsyncJobs \cup {h}
    BY <1>5 DEF Jobs, AsyncJobs, SameJobs, IInv, TypeOK
  <2>2. Cardinality(AsyncJobs \cup {h}) = Cardinality(AsyncJobs) + 1
    <3>1. h \notin AsyncJobs
      BY FiniteJobs
    <3> QED BY <3>1, FiniteJobs, FS_AddElement
  <2>3. Cardinality(AsyncJobs \cup {h}) \in Nat
    BY FiniteJobs, FS_AddElement, FS_CardinalityType
  <2>4. Cardinality(AsyncJobs) < MaxConcurrent
    BY <1>5, FiniteJobs, ParameterAssumption DEF IInv, RunningCount
  <2> QED BY <1>1, <1>3, <2>1, <2>2, <2>3, <2>4, FiniteJobs, ParameterAssumption DEF AsyncLimit
<1> QED BY <1>4, <1>5

\* A job is erased.
LEMMA ErasePlaces ==
  ASSUME IInv, NEW h \in Handle, h \in Jobs, Erase(h), UNCHANGED <<queue, loader>>
  PROVE  PlaceInv' /\ RunningCount' /\ AsyncLimit'
<1>1. /\ job' = [job EXCEPT ![h] = NoJob] /\ running' = running - 1
      /\ limbo' \subseteq limbo \cup {h}
  BY DEF Erase, Forget
<1>2. Jobs' = Jobs \ {h} /\ AsyncJobs' \subseteq AsyncJobs
  BY <1>1 DEF Jobs, AsyncJobs, IInv, TypeOK, NoJob
<1>3. RunningCount'
  <2>1. Cardinality(Jobs \ {h}) = Cardinality(Jobs) - 1
    BY FiniteJobs, FS_RemoveElement
  <2> QED BY <1>1, <1>2, <2>1 DEF IInv, RunningCount
<1>4. AsyncLimit'
  <2>1. Cardinality(AsyncJobs') <= Cardinality(AsyncJobs)
    BY <1>2, FiniteJobs, FS_Subset
  <2>2. Cardinality(AsyncJobs') \in Nat
    BY <1>2, FiniteJobs, FS_Subset, FS_CardinalityType
  <2> QED BY <2>1, <2>2, FiniteJobs, ParameterAssumption DEF IInv, AsyncLimit
<1>5. PlaceInv'
  <2>1. \A g \in Handle : job'[g].sync => job[g].sync
    BY <1>1 DEF IInv, TypeOK, NoJob
  <2>2. \A g \in limbo' : g \notin Jobs'
    BY <1>1, <1>2 DEF IInv, PlaceInv
  <2>3. \A k \in 1..Len(queue) : queue[k] \notin Jobs' /\ queue[k] \notin limbo'
    BY <1>1, <1>2 DEF IInv, PlaceInv
  <2>4. \A g \in Handle :
          loader'[g] = "idle" => ~Scheduled(g) /\ g \notin Jobs' /\ g \notin limbo'
    BY <1>1, <1>2 DEF IInv, PlaceInv
  <2> QED BY <2>1, <2>2, <2>3, <2>4 DEF IInv, PlaceInv, Scheduled
<1> QED BY <1>3, <1>4, <1>5

\* Where an entry behind the i-th of n goes when that one is removed.
LEMMA Beyond ==
  ASSUME NEW n \in Nat, NEW i \in 1..n, NEW k \in 1..(n - 1), ~(k < i)
  PROVE  /\ k - (i - 1) \in 1..(n - i) /\ (k - (i - 1)) + i = k + 1
         /\ k \in 1..((i - 1) + (n - i)) /\ ~(k <= i - 1)
OBVIOUS

\* What remove(i) makes of the queue.
WithoutEntry(h, i) ==
  /\ i \in 1..Len(queue) /\ queue[i] = h
  /\ Len(Without(h)) = Len(queue) - 1
  /\ \A k \in 1..Len(Without(h)) :
       /\ Without(h)[k] = IF k < i THEN queue[k] ELSE queue[k + 1]
       /\ k \in 1..Len(queue) /\ k + 1 \in 1..Len(queue)

LEMMA WithoutAt ==
  ASSUME NEW h, Scheduled(h), queue \in Seq(Handle)
  PROVE  Without(h) \in Seq(Handle) /\ \E i \in Nat : WithoutEntry(h, i)
<1> DEFINE i == CHOOSE k \in 1..Len(queue) : queue[k] = h
           a == SubSeq(queue, 1, i - 1)
           b == SubSeq(queue, i + 1, Len(queue))
           w == Without(h)
<1>1. i \in 1..Len(queue)
  BY DEF Scheduled
<1>2. w = a \o b
  BY DEF Without
<1> HIDE DEF i, w
<1>3. Len(queue) \in Nat /\ \A k \in 1..Len(queue) : queue[k] \in Handle
  BY LenProperties, ElementOfSeq
<1>4. /\ a \in Seq(Handle) /\ Len(a) = i - 1
      /\ \A k \in 1..(i - 1) : a[k] = queue[k]
  <2>1. i - 1 \in Int /\ \A k \in 1..(i - 1) : queue[k] \in Handle
    BY <1>1, <1>3
  <2>2. /\ a \in Seq(Handle)
        /\ Len(a) = IF 1 <= i - 1 THEN (i - 1) - 1 + 1 ELSE 0
        /\ \A k \in 1..Len(a) : a[k] = queue[1 + k - 1]
    BY <2>1, SubSeqProperties
  <2>3. Len(a) = i - 1
    BY <1>1, <1>3, <2>2
  <2>4. \A k \in 1..(i - 1) : 1 + k - 1 = k
    BY <1>1, <1>3
  <2> QED BY <2>2, <2>3, <2>4
<1>5. /\ b \in Seq(Handle) /\ Len(b) = Len(queue) - i
      /\ \A k \in 1..(Len(queue) - i) : b[k] = queue[k + i]
  <2>1. i + 1 \in Int /\ \A k \in (i + 1)..Len(queue) : queue[k] \in Handle
    BY <1>1, <1>3
  <2>2. /\ b \in Seq(Handle)
        /\ Len(b) = IF i + 1 <= Len(queue) THEN Len(queue) - (i + 1) + 1 ELSE 0
        /\ \A k \in 1..Len(b) : b[k] = queue[(i + 1) + k - 1]
    BY <1>3, <2>1, SubSeqProperties
  <2>3. Len(b) = Len(queue) - i
    BY <1>1, <1>3, <2>2
  <2>4. \A k \in 1..(Len(queue) - i) : (i + 1) + k - 1 = k + i
    BY <1>1, <1>3
  <2> QED BY <2>2, <2>3, <2>4
<1> HIDE DEF a, b
<1>6. /\ w \in Seq(Handle) /\ Len(w) = Len(queue) - 1
      /\ \A k \in 1..Len(w) : w[k] = IF k < i THEN queue[k] ELSE queue[k + 1]
  <2>1. /\ w \in Seq(Handle) /\ Len(w) = Len(a) + Len(b)
        /\ \A k \in 1..(Len(a) + Len(b)) :
             w[k] = IF k <= Len(a) THEN a[k] ELSE b[k - Len(a)]
    BY <1>2, <1>4, <1>5, ConcatProperties
  <2>2. Len(w) = Len(queue) - 1
    BY <1>1, <1>3, <1>4, <1>5, <2>1
  <2>3. ASSUME NEW k \in 1..Len(w)
        PROVE  w[k] = IF k < i THEN queue[k] ELSE queue[k + 1]
    <3>1. CASE k < i
      <4>1. k \in 1..(i - 1) /\ k \in 1..(Len(a) + Len(b)) /\ k <= Len(a)
        BY <1>1, <1>3, <1>4, <2>1, <3>1
      <4> QED BY <1>4, <2>1, <3>1, <4>1
    <3>2. CASE ~(k < i)
      <4>1. /\ k - Len(a) \in 1..(Len(queue) - i) /\ (k - Len(a)) + i = k + 1
            /\ k \in 1..(Len(a) + Len(b)) /\ ~(k <= Len(a))
        <5>1. Len(a) = i - 1 /\ Len(b) = Len(queue) - i
          BY <1>4, <1>5
        <5>2. Len(queue) \in Nat /\ i \in 1..Len(queue) /\ k \in 1..(Len(queue) - 1)
          BY <1>1, <1>3, <2>2
        <5> QED BY <3>2, <5>1, <5>2, Beyond
      <4> QED BY <1>5, <2>1, <3>2, <4>1
    <3> QED BY <3>1, <3>2
  <2> QED BY <2>1, <2>2, <2>3
<1>7. \A k \in 1..Len(w) : k \in 1..Len(queue) /\ k + 1 \in 1..Len(queue)
  BY <1>3, <1>6
<1>8. queue[i] = h
  BY DEF i, Scheduled
<1>9. i \in Nat /\ i \in 1..Len(queue) /\ Len(w) = Len(queue) - 1
  BY <1>1, <1>3, <1>6
<1>10. WithoutEntry(h, i)
  BY <1>6, <1>7, <1>8, <1>9 DEF w, WithoutEntry
<1> HIDE DEF i
<1> QED BY <1>6, <1>9, <1>10 DEF w

\* It holds other entries, each once.
LEMMA WithoutEntries ==
  ASSUME NEW h, Scheduled(h), queue \in Seq(Handle)
  PROVE  /\ Without(h) \in Seq(Handle)
         /\ \A k \in 1..Len(Without(h)) :
              \E m \in 1..Len(queue) : Without(h)[k] = queue[m]
         /\ (\A i, j \in 1..Len(queue) : queue[i] = queue[j] => i = j)
              => \A i, j \in 1..Len(Without(h)) :
                   Without(h)[i] = Without(h)[j] => i = j
<1> DEFINE w == Without(h)
<1>1. w \in Seq(Handle)
  BY WithoutAt
<1>2. PICK i \in Nat : WithoutEntry(h, i)
  BY WithoutAt
<1>3. Len(queue) \in Nat
  BY LenProperties
<1>4. /\ i \in 1..Len(queue) /\ Len(w) = Len(queue) - 1
      /\ \A k \in 1..Len(w) :
           /\ w[k] = IF k < i THEN queue[k] ELSE queue[k + 1]
           /\ k \in 1..Len(queue) /\ k + 1 \in 1..Len(queue)
  BY <1>2 DEF WithoutEntry
<1> HIDE DEF w
<1>8. \A k \in 1..Len(w) : \E m \in 1..Len(queue) : w[k] = queue[m]
  BY <1>4
<1>9. ASSUME \A x, y \in 1..Len(queue) : queue[x] = queue[y] => x = y,
             NEW x \in 1..Len(w), NEW y \in 1..Len(w), w[x] = w[y]
      PROVE  x = y
  <2> DEFINE at(k) == IF k < i THEN k ELSE k + 1
  <2>1. w[x] = queue[at(x)] /\ w[y] = queue[at(y)]
    BY <1>4
  <2>2. at(x) \in 1..Len(queue) /\ at(y) \in 1..Len(queue)
    BY <1>4
  <2>3. at(x) = at(y)
    BY <1>9, <2>1, <2>2
  <2> QED BY <1>3, <1>4, <2>3
<1> QED BY <1>1, <1>8, <1>9 DEF w

\* Each other handle is still scheduled, and h is not, once it was removed.
LEMMA WithoutScheduled ==
  ASSUME NEW h, Scheduled(h), queue \in Seq(Handle),
         \A i, j \in 1..Len(queue) : queue[i] = queue[j] => i = j,
         queue' = Without(h)
  PROVE  \A g : Scheduled(g)' <=> Scheduled(g) /\ g # h
<1>1. PICK i \in Nat : WithoutEntry(h, i)
  BY WithoutAt
<1>2. Len(queue) \in Nat
  BY LenProperties
<1>3. /\ i \in 1..Len(queue) /\ queue[i] = h /\ Len(queue') = Len(queue) - 1
      /\ \A k \in 1..Len(queue') :
           /\ queue'[k] = IF k < i THEN queue[k] ELSE queue[k + 1]
           /\ k \in 1..Len(queue) /\ k + 1 \in 1..Len(queue)
  BY <1>1 DEF WithoutEntry
<1>4. ASSUME NEW k \in 1..Len(queue') PROVE queue'[k] # h /\ Scheduled(queue'[k])
  <2>1. CASE k < i
    BY <1>3, <2>1 DEF Scheduled
  <2>2. CASE ~(k < i)
    <3>1. k + 1 # i
      BY <1>3, <2>2
    <3> QED BY <1>3, <2>2, <3>1 DEF Scheduled
  <2> QED BY <2>1, <2>2
<1>5. ASSUME NEW k \in 1..Len(queue), queue[k] # h
      PROVE  \E m \in 1..Len(queue') : queue'[m] = queue[k]
  <2>1. CASE k < i
    <3>1. k \in 1..Len(queue')
      BY <1>2, <1>3, <2>1
    <3> QED BY <1>3, <2>1, <3>1
  <2>2. CASE ~(k < i)
    <3>1. k # i
      BY <1>3, <1>5
    <3>2. k - 1 \in 1..Len(queue') /\ ~(k - 1 < i) /\ (k - 1) + 1 = k
      BY <1>2, <1>3, <2>2, <3>1
    <3> QED BY <1>3, <3>2
  <2> QED BY <2>1, <2>2
<1> QED BY <1>4, <1>5 DEF Scheduled

\* So it is when the first one leaves the queue.
LEMMA TailScheduled ==
  ASSUME queue # << >>, queue \in Seq(Handle),
         \A i, j \in 1..Len(queue) : queue[i] = queue[j] => i = j,
         queue' = Tail(queue)
  PROVE  /\ \A g : Scheduled(g)' <=> Scheduled(g) /\ g # Head(queue)
         /\ Head(queue) \in Handle /\ Scheduled(Head(queue))
<1>1. /\ Len(queue) \in Nat /\ Head(queue) = queue[1] /\ 1 \in 1..Len(queue)
      /\ Len(queue') = Len(queue) - 1
      /\ \A k \in 1..Len(queue') : queue'[k] = queue[k + 1]
  BY LenProperties, HeadTailProperties
<1>2. \A k \in 1..Len(queue') : k + 1 \in 1..Len(queue) /\ k + 1 # 1
  BY <1>1
<1>3. ASSUME NEW k \in 1..Len(queue), k # 1
      PROVE  k - 1 \in 1..Len(queue') /\ (k - 1) + 1 = k
  BY <1>1, <1>3
<1>4. ASSUME NEW k \in 1..Len(queue), queue[k] # queue[1]
      PROVE  \E m \in 1..Len(queue') : queue'[m] = queue[k]
  BY <1>1, <1>3, <1>4
<1>5. ASSUME NEW k \in 1..Len(queue') PROVE Scheduled(queue'[k]) /\ queue'[k] # queue[1]
  BY <1>1, <1>2 DEF Scheduled
<1>6. queue[1] \in Handle
  BY <1>1, ElementOfSeq
<1> QED BY <1>1, <1>4, <1>5, <1>6 DEF Scheduled

LEMMA AppendScheduled ==
  ASSUME NEW h \in Handle, queue \in Seq(Handle), queue' = Append(queue, h)
  PROVE  \A g : Scheduled(g)' <=> Scheduled(g) \/ g = h
<1>1. /\ Len(queue) \in Nat /\ Len(queue') = Len(queue) + 1
      /\ \A k \in 1..Len(queue) : queue'[k] = queue[k]
      /\ queue'[Len(queue) + 1] = h
  BY LenProperties, AppendProperties
<1>2. /\ \A k \in 1..Len(queue') : k = Len(queue) + 1 \/ k \in 1..Len(queue)
      /\ Len(queue) + 1 \in 1..Len(queue') /\ 1..Len(queue) \subseteq 1..Len(queue')
  BY <1>1
<1> QED BY <1>1, <1>2 DEF Scheduled

\* Every step keeps the handles' places, the count and the limit.
LEMMA PlaceStep ==
  ASSUME IInv, [Next]_vars
  PROVE  PlaceInv' /\ RunningCount' /\ AsyncLimit'
<1>0. /\ TypeOK /\ StackInv(stack, job) /\ PlaceInv /\ stack \in Seq(FrameType)
      /\ queue \in Seq(Handle) /\ Len(queue) \in Nat
      /\ \A k \in 1..Len(queue) : queue[k] \in Handle
  BY LenProperties, ElementOfSeq DEF IInv, TypeOK
<1>k. ASSUME UNCHANGED <<job, running>> PROVE RunningCount' /\ AsyncLimit'
  <2>1. Jobs' = Jobs /\ AsyncJobs' = AsyncJobs
    BY <1>k DEF Jobs, AsyncJobs
  <2> QED BY <1>k, <2>1 DEF IInv, RunningCount, AsyncLimit
<1>a. ASSUME NEW h \in Handle, queue' = Append(queue, h), h \notin Jobs,
             ~Scheduled(h), h \notin limbo', limbo' \subseteq limbo,
             loader'[h] # "idle", UNCHANGED <<job, running>>,
             \A g \in Handle : loader'[g] = "idle" => loader[g] = "idle"
      PROVE  PlaceInv' /\ RunningCount' /\ AsyncLimit'
  <2>1. /\ Len(queue') = Len(queue) + 1
        /\ \A k \in 1..Len(queue) : queue'[k] = queue[k]
        /\ queue'[Len(queue) + 1] = h
    BY <1>0, <1>a, AppendProperties
  <2>2. /\ \A k \in 1..Len(queue') : k = Len(queue) + 1 \/ k \in 1..Len(queue)
        /\ \A k \in 1..Len(queue) : queue[k] # h
    BY <1>0, <1>a, <2>1 DEF Scheduled
  <2>3. Jobs' = Jobs
    BY <1>a DEF Jobs
  <2>4. \A g \in Handle :
          loader'[g] = "idle" => ~Scheduled(g)' /\ g \notin Jobs' /\ g \notin limbo'
    BY <1>0, <1>a, <2>1, <2>2, <2>3 DEF PlaceInv, Scheduled
  <2>5. \A i, j \in 1..Len(queue') : queue'[i] = queue'[j] => i = j
    BY <1>0, <2>1, <2>2 DEF PlaceInv
  <2>6. \A k \in 1..Len(queue') : queue'[k] \notin Jobs' /\ queue'[k] \notin limbo'
    BY <1>0, <1>a, <2>1, <2>2, <2>3 DEF PlaceInv
  <2>7. /\ \A g \in limbo' : g \notin Jobs'
        /\ \A g \in Handle : job'[g].sync => g \notin LoaderHandle
    BY <1>0, <1>a, <2>3 DEF PlaceInv
  <2> QED BY <1>a, <1>k, <2>4, <2>5, <2>6, <2>7 DEF PlaceInv
<1>h. ASSUME NEW l \in HandleLabel, At(l)
      PROVE  Top.h \in Handle /\ stack # << >> /\ Top = stack[1] /\ Top.at = l
  BY <1>0, <1>h, AtTyped, AtHandle, Popped DEF Top
<1>1. ASSUME NEW h \in Handle, StartLoad(h)
      PROVE  PlaceInv' /\ RunningCount' /\ AsyncLimit'
  <2>1. h \notin Jobs /\ ~Scheduled(h) /\ h \notin limbo
    BY <1>0, <1>1 DEF StartLoad, PlaceInv
  <2>2. /\ loader'[h] # "idle"
        /\ \A g \in Handle : loader'[g] = "idle" => loader[g] = "idle"
    BY <1>0, <1>1 DEF StartLoad, TypeOK
  <2> QED BY <1>1, <1>a, <2>1, <2>2 DEF StartLoad
<1>2. ASSUME NEW h \in Handle, CancelLoad(h)
      PROVE  PlaceInv' /\ RunningCount' /\ AsyncLimit'
  <2>1. UNCHANGED <<job, running, limbo>> /\ Jobs' = Jobs
    BY <1>2 DEF CancelLoad, Jobs
  <2>2. \A g \in Handle : loader'[g] = "idle" => loader[g] = "idle"
    BY <1>0, <1>2 DEF CancelLoad, TypeOK
  <2>3. CASE ~Scheduled(h)
    <3>1. UNCHANGED queue
      BY <1>2, <2>3 DEF CancelLoad
    <3> QED BY <2>1, <2>2, <3>1, KeptPlaces DEF SameJobs
  <2>4. CASE Scheduled(h)
    <3>1. queue' = Without(h)
      BY <1>2, <2>4 DEF CancelLoad
    <3>2. /\ \A k \in 1..Len(queue') :
               \E m \in 1..Len(queue) : queue'[k] = queue[m]
          /\ \A i, j \in 1..Len(queue') : queue'[i] = queue'[j] => i = j
      <4>1. \A i, j \in 1..Len(queue) : queue[i] = queue[j] => i = j
        BY <1>0 DEF PlaceInv
      <4>2. /\ \A k \in 1..Len(Without(h)) :
                 \E m \in 1..Len(queue) : Without(h)[k] = queue[m]
            /\ \A i, j \in 1..Len(Without(h)) :
                 Without(h)[i] = Without(h)[j] => i = j
        BY <1>0, <2>4, <4>1, WithoutEntries
      <4> QED BY <3>1, <4>2, Zenon
    <3>3. \A k \in 1..Len(queue') : queue'[k] \notin Jobs' /\ queue'[k] \notin limbo'
      BY <1>0, <2>1, <3>2 DEF PlaceInv
    <3>s. \A g \in Handle : Scheduled(g)' => Scheduled(g)
      BY <3>2 DEF Scheduled
    <3>i. \A g \in Handle :
            loader'[g] = "idle" => ~Scheduled(g)' /\ g \notin Jobs' /\ g \notin limbo'
      BY <1>0, <2>1, <2>2, <3>s DEF PlaceInv
    <3>4. /\ \A g \in limbo' : g \notin Jobs'
          /\ \A g \in Handle : job'[g].sync => g \notin LoaderHandle
      BY <1>0, <2>1 DEF PlaceInv
    <3>5. PlaceInv'
      BY <3>2, <3>3, <3>i, <3>4 DEF PlaceInv
    <3> QED BY <1>k, <2>1, <3>5
  <2> QED BY <2>3, <2>4
<1>3. CASE StartNext
  <2> DEFINE h == Head(queue)
  <2>1. /\ queue # << >> /\ running < MaxConcurrent
        /\ queue' = Tail(queue) /\ UNCHANGED <<limbo, loader>>
    BY <1>3 DEF StartNext, CanStart
  <2>2. /\ h = queue[1] /\ 1 \in 1..Len(queue) /\ Len(queue') = Len(queue) - 1
        /\ \A k \in 1..Len(queue') : queue'[k] = queue[k + 1]
    BY <1>0, <2>1, HeadTailProperties
  <2>3. h \in Handle /\ h \notin Jobs /\ h \notin limbo /\ Scheduled(h)
    BY <1>0, <2>2 DEF PlaceInv, Scheduled
  <2>4. \A k \in 1..Len(queue') : k + 1 \in 1..Len(queue) /\ queue'[k] = queue[k + 1]
    BY <1>0, <2>2
  <2>5. \A k \in 1..Len(queue') : queue'[k] # h
    BY <1>0, <2>2, <2>4 DEF PlaceInv
  <2>6. \A i, j \in 1..Len(queue') : queue'[i] = queue'[j] => i = j
    BY <1>0, <2>4 DEF PlaceInv
  <2> HIDE DEF h
  <2>7. ASSUME Jobs' \subseteq Jobs \cup {h},
               \A g \in Handle : job'[g].sync => job[g].sync
        PROVE  PlaceInv'
    <3>1. loader[h] # "idle"
      BY <1>0, <2>3 DEF PlaceInv
    <3>2. \A g \in Handle :
            loader'[g] = "idle" => ~Scheduled(g)' /\ g \notin Jobs' /\ g \notin limbo'
      BY <1>0, <2>1, <2>4, <2>7, <3>1 DEF PlaceInv, Scheduled
    <3>3. \A k \in 1..Len(queue') : queue'[k] \notin Jobs' /\ queue'[k] \notin limbo'
      BY <1>0, <2>1, <2>4, <2>5, <2>7 DEF PlaceInv
    <3>4. \A g \in limbo' : g \notin Jobs'
      BY <1>0, <2>1, <2>3, <2>7 DEF PlaceInv
    <3>5. \A g \in Handle : job'[g].sync => g \notin LoaderHandle
      BY <1>0, <2>7 DEF PlaceInv
    <3> QED BY <2>6, <3>2, <3>3, <3>4, <3>5 DEF PlaceInv
  <2>8. CASE h \in UriHandle
    <3>1. UNCHANGED <<job, running>> /\ Jobs' = Jobs
      BY <1>3, <2>8 DEF StartNext, Jobs, h
    <3> QED BY <1>k, <2>7, <3>1
  <2>9. CASE h \notin UriHandle
    <3>1. PICK kind \in Kinds : job' = [job EXCEPT ![h] = NewJob(FALSE, kind)]
      BY <1>3, <2>9 DEF StartNext, h
    <3>2. running' = running + 1
      BY <1>3, <2>9 DEF StartNext, h
    <3>3. /\ NewJob(FALSE, kind) \in JobInfo /\ NewJob(FALSE, kind).state = "Init"
          /\ ~NewJob(FALSE, kind).sync
      BY <1>0, NewJobTyped DEF TypeOK
    <3>4. RunningCount' /\ AsyncLimit' /\ Jobs' = Jobs \cup {h}
      BY <2>1, <2>3, <3>1, <3>2, <3>3, AddPlaces DEF SameJobs
    <3>5. \A g \in Handle : job'[g].sync => job[g].sync
      BY <1>0, <3>1, <3>3 DEF TypeOK
    <3> QED BY <2>7, <3>4, <3>5
  <2> QED BY <2>8, <2>9
<1>4. ASSUME NEW h \in Handle, AuthProceed(h)
      PROVE  PlaceInv' /\ RunningCount' /\ AsyncLimit'
  <2>1. h \notin Jobs /\ ~Scheduled(h) /\ loader[h] # "idle"
    BY <1>0, <1>4 DEF AuthProceed, PlaceInv, Scheduled
  <2> QED BY <1>4, <1>a, <2>1 DEF AuthProceed
<1>5. CASE AuthDrop
  <2>1. UNCHANGED <<queue, job, running, loader>> /\ limbo' \subseteq limbo
    BY <1>5 DEF AuthDrop
  <2>2. Jobs' = Jobs
    BY <2>1 DEF Jobs
  <2>3. PlaceInv'
    BY <1>0, <2>1, <2>2 DEF PlaceInv, Scheduled
  <2> QED BY <1>k, <2>1, <2>3
<1>6. CASE EraseTold
  <2>1. Top.h \in Handle /\ stack # << >> /\ Top = stack[1] /\ Top.at = "dispose"
    BY <1>6, <1>h DEF EraseTold, HandleLabel
  <2>2. Top.h \in Jobs
    BY <1>0, <2>1, TopInv DEF Holder, Jobs
  <2> QED BY <1>6, <2>1, <2>2, ErasePlaces DEF EraseTold
<1>7. CASE EraseQuietly
  <2>1. PICK h \in Handle : IsNext(h, TRUE) /\ Erase(h)
    BY <1>7 DEF EraseQuietly
  <2>2. h \in Jobs
    BY <2>1 DEF IsNext, Ahead
  <2> QED BY <1>7, <2>1, <2>2, ErasePlaces DEF EraseQuietly
<1>8. ASSUME NEW h \in Handle, SyncStart(h)
      PROVE  PlaceInv' /\ RunningCount' /\ AsyncLimit'
  <2>1. PICK kind \in Kinds :
          job' = PauseAsyncJobs([job EXCEPT ![h] = NewJob(TRUE, kind)])
    BY <1>8 DEF SyncStart
  <2> DEFINE j == NewJob(TRUE, kind)
  <2>2. j \in JobInfo /\ j.state = "Init" /\ j.sync
    BY <1>0, NewJobTyped DEF TypeOK
  <2> HIDE DEF j
  <2>3. /\ h \in SyncHandle /\ loader[h] = "idle" /\ running' = running + 1
        /\ loader' = [loader EXCEPT ![h] = "sync"] /\ UNCHANGED <<queue, limbo>>
    BY <1>8 DEF SyncStart
  <2>4. h \notin Jobs /\ ~Scheduled(h) /\ h \notin limbo
    BY <1>0, <2>3 DEF PlaceInv
  <2>5. SameJobs([job EXCEPT ![h] = j], job')
    <3>1. job' = PauseAsyncJobs([job EXCEPT ![h] = j])
      BY <2>1 DEF j
    <3>2. JobsTyped([job EXCEPT ![h] = j])
      <4>1. SyncNeverPaused(j) /\ JobsTyped(job)
        BY <1>0, NewJobTyped DEF TypeOK, JobsTyped, SyncNeverPaused, j
      <4> QED BY <2>2, <4>1, JobUpdate
    <3> QED BY <3>1, <3>2, PauseSame
  <2>6. RunningCount' /\ AsyncLimit' /\ Jobs' = Jobs \cup {h}
    BY <2>2, <2>3, <2>4, <2>5, AddPlaces
  <2>7. \A g \in Handle : loader'[g] = "idle" => loader[g] = "idle" /\ g # h
    BY <1>0, <2>3 DEF TypeOK
  <2>8. \A g \in Handle : job'[g].sync => job[g].sync \/ g = h
    BY <1>0, <2>5 DEF SameJobs, TypeOK
  <2>9. PlaceInv'
    BY <1>0, <2>3, <2>4, <2>6, <2>7, <2>8, HandleAssumption DEF PlaceInv, Scheduled
  <2> QED BY <2>6, <2>9
<1>9. CASE SyncReturn
  <2>1. Top.h \in Handle
    BY <1>9, <1>h DEF SyncReturn, HandleLabel
  <2>2. SameJobs(job, job')
    BY <1>0, <1>9, PauseSame DEF SyncReturn, TypeOK, JobsTyped
  <2>3. /\ UNCHANGED <<queue, limbo, running>>
        /\ \A h \in Handle : loader'[h] = "idle" => loader[h] = "idle"
    BY <1>0, <1>9 DEF SyncReturn, TypeOK
  <2> QED BY <2>2, <2>3, KeptPlaces
<1>10. CASE ~ \/ \E h \in Handle : StartLoad(h) \/ CancelLoad(h) \/ SyncStart(h)
              \/ \E h \in Handle : AuthProceed(h)
              \/ StartNext \/ AuthDrop \/ EraseTold \/ EraseQuietly \/ SyncReturn
  <2>1. /\ JobsKept(job, job') /\ UNCHANGED <<queue, limbo, running>>
        /\ \A h \in Handle : loader'[h] = "idle" => loader[h] = "idle"
    BY <1>0, <1>10, UnmovedStep, Zenon DEF Next, Outside, Inside
  <2> QED BY <2>1, KeptPlaces DEF JobsKept
<1> QED BY <1>1, <1>2, <1>3, <1>4, <1>5, <1>6, <1>7, <1>8, <1>9, <1>10

-----------------------------------------------------------------------------
(* What the actions do to the stack *)

\* The top frame, not a synchronous load, goes on as another frame.
LEMMA ReplaceInv ==
  ASSUME NEW s \in Seq(FrameType), s # << >>, NEW jobs, StackInv(s, jobs),
         NEW f \in FrameType, s[1].at # "sync",
         f.at \notin Holder \cup {"sync", "transfer"},
         HasSync(s) => f.at \in SyncInner,
         f.at \in Quiet \/ Sheltered(Tail(s))
  PROVE  /\ <<f>> \o Tail(s) \in Seq(FrameType)
         /\ StackInv(<<f>> \o Tail(s), jobs)
         /\ HasSync(<<f>> \o Tail(s)) <=> HasSync(s)
<1>1. Tail(s) \in Seq(FrameType)
  BY Popped
<1>2. StackInv(Tail(s), jobs) /\ (HasSync(Tail(s)) <=> HasSync(s))
  BY PopInv
<1>3. StackInv(<<f>> \o Tail(s), jobs)
  BY <1>1, <1>2, PushInv
<1> QED BY <1>1, <1>2, <1>3, Pushed, PushedSync

\* A frame is pushed on a stack whose top frame may be the caller of it.
LEMMA CallInv ==
  ASSUME NEW s \in Seq(FrameType), s # << >>, NEW jobs, StackInv(s, jobs),
         NEW f \in FrameType, f.at \notin Holder \cup {"sync"},
         HasSync(s) => f.at \in SyncInner,
         f.at \in Quiet \/ s[1].at = "sync" \/ s[1].at \notin Quiet \cup Holder
  PROVE  /\ <<f>> \o s \in Seq(FrameType)
         /\ StackInv(<<f>> \o s, jobs)
         /\ HasSync(<<f>> \o s) <=> HasSync(s)
<1>1. f.at \in Quiet \/ Sheltered(s)
  BY TopInv
<1>2. f.at # "transfer"
  BY DEF Holder
<1> QED BY <1>1, <1>2, PushInv, Pushed, PushedSync

\* What the invariant says when the frame on top is at l.
LEMMA AtInv ==
  ASSUME TypeOK, StackInv(stack, job), NEW l, At(l)
  PROVE  /\ stack \in Seq(FrameType) /\ stack # << >>
         /\ Tail(stack) \in Seq(FrameType) /\ Top \in FrameType
         /\ Top = stack[1] /\ stack[1].at = l
         /\ l \in HandleLabel => Top.h \in Handle
         /\ l \notin SyncInner \cup {"sync"} => ~HasSync(stack)
         /\ l \notin Quiet \cup {"sync"} => Sheltered(Tail(stack))
<1>1. stack \in Seq(FrameType)
  BY DEF TypeOK
<1>2. /\ stack # << >> /\ Tail(stack) \in Seq(FrameType) /\ Top \in FrameType
      /\ Top.at = l
  BY <1>1, AtTyped
<1>3. Top = stack[1]
  BY <1>1, <1>2, Popped DEF Top
<1>4. l \in HandleLabel => Top.h \in Handle
  BY <1>1, AtHandle
<1> QED BY <1>1, <1>2, <1>3, <1>4, TopInv

\* A step returns from a frame.
LEMMA ReturnStep ==
  ASSUME TypeOK, StackInv(stack, job), NEW l, At(l), l # "sync", Return
  PROVE  StackInv(stack', job)
BY AtInv, PopInv DEF Return

\* A step changes the locals of the top frame.
LEMMA BecomeStep ==
  ASSUME TypeOK, StackInv(stack, job), NEW l, At(l), NEW f \in FrameType,
         f.at = Top.at, f.h = Top.h, Become(f)
  PROVE  StackInv(stack', job)
BY AtInv, FlagInv DEF Become

\* The client of a loader is called, which happens in no synchronous load.
LEMMA ClientStep ==
  ASSUME NEW s \in Seq(FrameType), s # << >>, NEW jobs, StackInv(s, jobs),
         ~HasSync(s), NEW h \in Handle, NEW l \in ClientLabel
  PROVE  /\ StackInv(<<Frame(l, h)>> \o s, jobs)
         /\ ~HasSync(<<Frame(l, h)>> \o s)
         /\ <<Frame(l, h)>> \o s \in Seq(FrameType)
<1>1. Frame(l, h) \in FrameType /\ Frame(l, h).at = l
  BY DEF Frame, FrameType, HandleLabel
<1>2. l \in Quiet /\ l \notin Holder \cup {"sync"}
  BY DEF Quiet, Holder, ClientLabel
<1> QED BY <1>1, <1>2, CallInv

\* A frame that is in no synchronous load goes on as another one, after a call
\* of a client.
LEMMA ClientThenStep ==
  ASSUME TypeOK, StackInv(stack, job), NEW l, At(l),
         l \notin SyncInner \cup Quiet \cup {"sync"},
         NEW c \in ClientLabel, NEW g \in UriLabel \cup {"authFinish", "authDrop"},
         CallThen(Frame(c, Top.h), Frame(g, Top.h)), Top.h \in Handle
  PROVE  StackInv(stack', job)
<1> DEFINE f == Frame(g, Top.h)
           s == <<f>> \o Tail(stack)
<1>1. f \in FrameType /\ f.at = g
  BY DEF Frame, FrameType, HandleLabel
<1>2. g \notin Holder \cup {"sync", "transfer"}
  BY DEF Holder, UriLabel
<1> HIDE DEF f
<1>3. s \in Seq(FrameType) /\ StackInv(s, job) /\ ~HasSync(s) /\ s # << >>
  BY AtInv, ReplaceInv, <1>1, <1>2, Pushed
<1>4. Frame(c, Top.h) \in FrameType
  BY DEF Frame, FrameType, HandleLabel
<1>5. stack' = <<Frame(c, Top.h)>> \o s
  BY <1>1, <1>4, AtInv, PushedTwo DEF CallThen, f
<1> HIDE DEF s
<1> QED BY <1>3, <1>5, ClientStep

\* The steps of ProcessTHJobs and of downloadTimerCallback.
LEMMA SweepStack ==
  ASSUME IInv,
         \/ TimerFires \/ FirstStartDone \/ PassDone \/ AuthTickDone
         \/ CallbackDone \/ SweepStep \/ SweepTransfer \/ FirstLoopDone
         \/ TellFailure \/ SecondLoopDone \/ SyncProcess \/ SyncTicked
  PROVE  StackInv(stack', job)
<1>0. TypeOK /\ StackInv(stack, job) /\ JobsTyped(job)
  BY DEF IInv, TypeOK, JobsTyped
<1>n. ASSUME NEW l, At(l), NEW n \in Nat
      PROVE  LET f == [Top EXCEPT !.n = n] IN
             /\ f \in FrameType /\ f.at = l /\ f.h = Top.h
  BY <1>0, <1>n, AtInv, FrameUpdate DEF FrameType
<1>b. ASSUME NEW l, At(l), NEW b \in BOOLEAN
      PROVE  LET f == [Top EXCEPT !.b = b] IN
             /\ f \in FrameType /\ f.at = l /\ f.h = Top.h
  BY <1>0, <1>b, AtInv, FrameUpdate DEF FrameType
<1>p. \A l \in PlainLabel : /\ Frame(l, NoHandle) \in FrameType
                            /\ Frame(l, NoHandle).at = l
                            /\ l \notin Holder \cup {"sync", "transfer"}
  BY DEF Frame, FrameType, PlainLabel, Holder
<1>1. CASE TimerFires
  <2>1. stack = << >> /\ stack' = <<Frame("start1", NoHandle)>> \o stack
    BY <1>1 DEF TimerFires, Idle, Call
  <2>2. stack \in Seq(FrameType) /\ ~HasSync(stack) /\ Sheltered(stack)
    BY <1>0, <2>1 DEF TypeOK, HasSync, Sheltered
  <2>3. "start1" \in PlainLabel
    BY DEF PlainLabel
  <2> QED BY <1>0, <1>p, <2>1, <2>2, <2>3, PushInv
<1>2. CASE FirstStartDone
  <2> DEFINE f == Frame("afterPass", NoHandle)
             g == Frame("sweep1", NoHandle)
             s == <<f>> \o Tail(stack)
  <2>1. At("start1") /\ stack' = <<g, f>> \o Tail(stack)
    BY <1>2 DEF FirstStartDone, CallThen
  <2>2. "afterPass" \in PlainLabel /\ "sweep1" \in PlainLabel
    BY DEF PlainLabel
  <2>3. /\ f \in FrameType /\ f.at = "afterPass"
        /\ g \in FrameType /\ g.at = "sweep1" /\ g.at \notin Holder \cup {"sync"}
        /\ f.at \notin Holder \cup {"sync", "transfer"}
    BY <1>p, <2>2
  <2> HIDE DEF f, g
  <2>4. "start1" \notin SyncInner \cup Quiet \cup {"sync"}
    BY DEF SyncInner, Quiet, ClientLabel
  <2>5. s \in Seq(FrameType) /\ StackInv(s, job) /\ ~HasSync(s)
    BY <1>0, <2>1, <2>3, <2>4, AtInv, ReplaceInv
  <2>6. s # << >> /\ s[1].at \notin Quiet \cup Holder
    <3>1. s # << >> /\ s[1] = f
      BY <1>0, <2>1, <2>3, AtInv, Pushed
    <3>2. "afterPass" \notin Quiet \cup Holder
      BY DEF Quiet, Holder, ClientLabel
    <3> QED BY <2>3, <3>1, <3>2
  <2>7. stack' = <<g>> \o s
    BY <1>0, <2>1, <2>3, AtInv, PushedTwo
  <2> HIDE DEF s
  <2> QED BY <2>3, <2>5, <2>6, <2>7, CallInv
<1>3. CASE PassDone \/ AuthTickDone
  <2>1. PICK l \in {"afterPass", "auth"}, m \in {"auth", "start2"}, b \in BOOLEAN :
          /\ At(l)
          /\ stack' = <<[Frame(m, NoHandle) EXCEPT !.b = b]>> \o Tail(stack)
    <3>1. CASE PassDone
      BY <3>1 DEF PassDone, Become
    <3>2. CASE AuthTickDone
      <4>1. Top.b \in BOOLEAN
        BY <1>0, <3>2, AtInv, FrameUpdate DEF AuthTickDone
      <4> QED BY <3>2, <4>1 DEF AuthTickDone, Become
    <3> QED BY <1>3, <3>1, <3>2
  <2> DEFINE f == [Frame(m, NoHandle) EXCEPT !.b = b]
  <2>2. f \in FrameType /\ f.at = m
    BY DEF Frame, FrameType, PlainLabel
  <2>3. m \notin Holder \cup {"sync", "transfer"}
    BY DEF Holder
  <2>4. l \notin SyncInner \cup Quiet \cup {"sync"}
    BY DEF SyncInner, Quiet, ClientLabel
  <2>5. stack' = <<f>> \o Tail(stack)
    BY <2>1
  <2> HIDE DEF f
  <2>6. /\ stack \in Seq(FrameType) /\ stack # << >> /\ stack[1].at = l
        /\ ~HasSync(stack) /\ Sheltered(Tail(stack))
    BY <1>0, <2>1, <2>4, AtInv
  <2>7. /\ f \in FrameType /\ f.at \notin Holder \cup {"sync", "transfer"}
        /\ stack[1].at # "sync"
    BY <2>2, <2>3, <2>4, <2>6
  <2> QED BY <1>0, <2>5, <2>6, <2>7, ReplaceInv
<1>4. CASE CallbackDone \/ SecondLoopDone
  <2>1. PICK l \in {"start2", "sweep2"} : At(l)
    BY <1>4 DEF CallbackDone, SecondLoopDone
  <2> QED BY <1>0, <1>4, <2>1, ReturnStep DEF CallbackDone, SecondLoopDone
<1>5. CASE SweepStep
  <2>1. PICK h \in Handle : Become([Top EXCEPT !.n = job[h].id])
    BY <1>5 DEF SweepStep
  <2>2. At("sweep1") /\ job[h].id \in Nat
    BY <1>0, <1>5, JobTyped DEF SweepStep, JobsTyped
  <2> QED BY <1>0, <1>n, <2>1, <2>2, AtInv, BecomeStep
<1>6. CASE SweepTransfer
  <2>1. PICK h \in Handle :
          /\ h \in Jobs /\ ~job[h].paused
          /\ stack' = <<Frame("transfer", h), [Top EXCEPT !.n = job[h].id]>>
                         \o Tail(stack)
    BY <1>6 DEF SweepTransfer, IsNext, Ahead, CallThen
  <2> DEFINE f == [Top EXCEPT !.n = job[h].id]
             g == Frame("transfer", h)
             s == <<f>> \o Tail(stack)
  <2>2. At("sweep1") /\ job[h].id \in Nat
    BY <1>0, <1>6, JobTyped DEF SweepTransfer, JobsTyped
  <2>3. f \in FrameType /\ f.at = "sweep1" /\ f.h = Top.h
    BY <1>n, <2>2
  <2>4. g \in FrameType /\ g.at = "transfer" /\ g.h = h
    BY HandleFrameTyped DEF Frame
  <2> HIDE DEF f, g
  <2>5. stack' = <<g>> \o s
    BY <1>0, <2>1, <2>2, <2>3, <2>4, AtInv, PushedTwo DEF f, g
  <2>6. /\ s \in Seq(FrameType) /\ StackInv(s, job) /\ s # << >> /\ s[1] = f
        /\ HasSync(s) <=> HasSync(stack)
    BY <1>0, <2>2, <2>3, AtInv, FlagInv, Pushed
  <2> HIDE DEF s
  <2>7. Sheltered(s)
    BY <2>3, <2>6, TopInv DEF Quiet, Holder, ClientLabel
  <2>8. HasSync(s) => job[h].sync
    BY <1>0, <2>1, <2>6 DEF StackInv, PausedInSync, Jobs
  <2>9. job[h].state # "None" /\ "transfer" \in SyncInner
    BY <2>1 DEF Jobs, SyncInner
  <2> QED BY <2>4, <2>5, <2>6, <2>7, <2>8, <2>9, PushInv
<1>7. CASE FirstLoopDone
  <2>1. At("sweep1")
    BY <1>7 DEF FirstLoopDone
  <2>2. CASE Return
    BY <1>0, <2>1, <2>2, ReturnStep
  <2>3. CASE Become(Frame("sweep2", NoHandle))
    <3>1. "sweep2" \in PlainLabel /\ "sweep2" \in SyncInner
      BY DEF PlainLabel, SyncInner
    <3>2. "sweep1" \notin Quiet \cup {"sync"}
      BY DEF Quiet, ClientLabel
    <3> QED BY <1>0, <1>p, <2>1, <2>3, <3>1, <3>2, AtInv, ReplaceInv DEF Become
  <2> QED BY <1>7, <2>2, <2>3 DEF FirstLoopDone
<1>8. CASE TellFailure
  <2>1. PICK h \in Handle :
          /\ h \in Jobs /\ ~job[h].paused /\ h \in LoaderHandle
          /\ stack' = <<Frame("fail", h), Frame("dispose", h),
                        [Top EXCEPT !.n = job[h].id]>> \o Tail(stack)
    BY <1>8 DEF TellFailure, IsNext, Ahead, Calls
  <2> DEFINE f == [Top EXCEPT !.n = job[h].id]
             g == Frame("dispose", h)
             s == <<f>> \o Tail(stack)
             t == <<g>> \o s
  <2>2. At("sweep2") /\ job[h].id \in Nat
    BY <1>0, <1>8, JobTyped DEF TellFailure, JobsTyped
  <2>3. f \in FrameType /\ f.at = "sweep2" /\ f.h = Top.h
    BY <1>n, <2>2
  <2>4. /\ g \in FrameType /\ g.at = "dispose" /\ g.h = h
        /\ Frame("fail", h) \in FrameType
    BY HandleFrameTyped DEF Frame
  <2> HIDE DEF f, g
  <2>5. stack' = <<Frame("fail", h)>> \o t
    <3>1. stack' = <<Frame("fail", h), g, f>> \o Tail(stack)
      BY <2>1 DEF f, g
    <3>2. Tail(stack) \in Seq(FrameType)
      BY <1>0, <2>2, AtInv
    <3> DEFINE e == Frame("fail", h)
               r == Tail(stack)
    <3>3. /\ e \in FrameType /\ g \in FrameType /\ f \in FrameType
          /\ r \in Seq(FrameType)
      BY <2>3, <2>4, <3>2
    <3> HIDE DEF e, r
    <3>4. ThreePushes(r, e, g, f)
      BY <3>3, PushedThree
    <3> QED BY <3>1, <3>4, Zenon DEF ThreePushes, e, r
  <2>6. /\ s \in Seq(FrameType) /\ StackInv(s, job) /\ s # << >> /\ s[1] = f
        /\ HasSync(s) <=> HasSync(stack)
    BY <1>0, <2>2, <2>3, AtInv, FlagInv, Pushed
  <2> HIDE DEF s
  <2>7. Sheltered(s)
    BY <2>3, <2>6, TopInv DEF Quiet, Holder, ClientLabel
  <2>8. ~HasSync(s)
    BY <1>0, <2>1, <2>6 DEF StackInv, PausedInSync, Jobs, IInv, PlaceInv
  <2>9. job[h].state # "None"
    BY <2>1 DEF Jobs
  <2>10. /\ t \in Seq(FrameType) /\ StackInv(t, job) /\ t # << >> /\ ~HasSync(t)
    BY <2>4, <2>6, <2>7, <2>8, <2>9, PushInv, Pushed, PushedSync
  <2> HIDE DEF t
  <2>11. "fail" \in ClientLabel
    BY DEF ClientLabel
  <2> QED BY <2>5, <2>10, <2>11, ClientStep
<1>9. CASE SyncProcess
  <2> DEFINE f == [Top EXCEPT !.b = TRUE]
             g == Frame("sweep1", NoHandle)
             s == <<f>> \o Tail(stack)
  <2>1. At("sync") /\ stack' = <<g, f>> \o Tail(stack)
    BY <1>9 DEF SyncProcess, CallThen
  <2>2. f \in FrameType /\ f.at = "sync" /\ f.h = Top.h
    BY <1>b, <2>1
  <2>3. /\ g \in FrameType /\ g.at = "sweep1"
        /\ g.at \in SyncInner /\ g.at \notin Holder \cup {"sync"}
    BY <1>p DEF PlainLabel, SyncInner, Holder
  <2> HIDE DEF f, g
  <2>4. s \in Seq(FrameType) /\ StackInv(s, job) /\ s # << >> /\ s[1].at = "sync"
    BY <1>0, <2>1, <2>2, AtInv, FlagInv, Pushed
  <2>5. stack' = <<g>> \o s
    BY <1>0, <2>1, <2>2, <2>3, AtInv, PushedTwo
  <2> HIDE DEF s
  <2> QED BY <2>3, <2>4, <2>5, CallInv
<1>10. CASE SyncTicked
  <2>1. At("sync") /\ Become([Top EXCEPT !.b = FALSE])
    BY <1>10 DEF SyncTicked
  <2> QED BY <1>0, <1>b, <2>1, AtInv, BecomeStep
<1> QED BY <1>1, <1>2, <1>3, <1>4, <1>5, <1>6, <1>7, <1>8, <1>9, <1>10

\* The steps of a handler's Transfer call, of parseDataURI, of the
\* AuthenticationManager and of the callbacks.
LEMMA CallbackStack ==
  ASSUME IInv,
         \/ \E h \in Handle : HeadersReceived(h) \/ SetRedirect(h)
         \/ RemoveTransportHandler \/ Finalize \/ ClientReturn
         \/ UriData \/ UriFinish \/ UriDone
         \/ HeadersDone \/ DataRest \/ TransferReturn
         \/ \E h \in Handle : DataReceived(h)
         \/ \E h \in Handle, result \in BOOLEAN : DataDone(h, result)
         \/ \E h \in Handle : AuthCancel(h) \/ AuthDangling(h)
         \/ AuthFinish \/ TransportHandlerRemoved \/ Finalized
  PROVE  StackInv(stack', job)
<1>0. TypeOK /\ StackInv(stack, job) /\ JobsTyped(job) /\ stack \in Seq(FrameType)
  BY DEF IInv, TypeOK, JobsTyped
<1>n. ASSUME NEW l, At(l), NEW n \in Nat
      PROVE  LET f == [Top EXCEPT !.n = n] IN
             /\ f \in FrameType /\ f.at = l /\ f.h = Top.h
  BY <1>0, <1>n, AtInv, FrameUpdate DEF FrameType
<1>l. ASSUME NEW h \in Handle, At("transfer"), Top.h = h, Calls(h)
      PROVE  ~HasSync(stack)
  <2>1. stack[1].at = "transfer" /\ stack[1].h = h /\ stack # << >>
    BY <1>0, <1>l, AtInv
  <2>2. ~job[h].sync
    BY <1>l DEF Calls, IInv, PlaceInv
  <2> QED BY <1>0, <2>1, <2>2, TopInv
\* A client and then the rest of the caller is called from a stack s.
<1>c. ASSUME NEW s \in Seq(FrameType), StackInv(s, job), NEW h \in Handle,
             NEW c \in {"response", "redirect"},
             NEW r \in {"headersDone", "dataRest"}, r = "dataRest" => ~HasSync(s)
      PROVE  StackInv(<<Frame(c, h), Frame(r, h)>> \o s, job)
  <2> DEFINE t == <<Frame(r, h)>> \o s
  <2>1. /\ Frame(c, h) \in FrameType /\ Frame(c, h).at = c
        /\ Frame(r, h) \in FrameType /\ Frame(r, h).at = r
    BY DEF Frame, FrameType, HandleLabel, ClientLabel
  <2>2. /\ c \in Quiet /\ c \in SyncInner /\ c \notin Holder \cup {"sync", "transfer"}
        /\ r \in Quiet /\ r \notin Holder \cup {"sync", "transfer"}
        /\ r # "dataRest" => r \in SyncInner
    BY DEF Quiet, SyncInner, Holder, ClientLabel
  <2>3. t \in Seq(FrameType) /\ StackInv(t, job)
    BY <1>c, <2>1, <2>2, PushInv, Pushed
  <2>4. <<Frame(c, h), Frame(r, h)>> \o s = <<Frame(c, h)>> \o t
    BY <2>1, PushedTwo
  <2> HIDE DEF t
  <2> QED BY <2>1, <2>2, <2>3, <2>4, PushInv
<1>1. ASSUME NEW h \in Handle, HeadersReceived(h) PROVE StackInv(stack', job)
  <2>1. \/ stack' = stack
        \/ stack' = <<Frame("response", h), Frame("headersDone", h)>> \o stack
    BY <1>1 DEF HeadersReceived
  <2> QED BY <1>0, <1>c, <2>1
<1>2. ASSUME NEW h \in Handle, SetRedirect(h) PROVE StackInv(stack', job)
  <2>1. stack' = stack \/ stack' = <<Frame("redirect", h)>> \o stack
    BY <1>2 DEF SetRedirect, Call
  <2>2. Frame("redirect", h) \in FrameType /\ Frame("redirect", h).at = "redirect"
    BY HandleFrameTyped DEF Frame
  <2>3. "redirect" \in Quiet /\ "redirect" \in SyncInner /\ "redirect" \notin Holder
    BY DEF Quiet, SyncInner, Holder, ClientLabel
  <2> QED BY <1>0, <2>1, <2>2, <2>3, PushInv
<1>3. CASE RemoveTransportHandler \/ Finalize
  <2>1. PICK l \in {"removeHandler", "finalize"} :
          /\ stack = << >>
          /\ stack' = <<Frame("sweep1", NoHandle), Frame(l, NoHandle)>>
    BY <1>3 DEF RemoveTransportHandler, Finalize, Idle
  <2> DEFINE f == Frame(l, NoHandle)
             g == Frame("sweep1", NoHandle)
             s == <<f>> \o stack
  <2>2. /\ f \in FrameType /\ f.at \notin Quiet \cup Holder \cup {"sync", "transfer"}
        /\ g \in FrameType /\ g.at = "sweep1" /\ g.at \notin Holder \cup {"sync"}
    BY DEF Frame, FrameType, PlainLabel, Quiet, Holder, ClientLabel
  <2> HIDE DEF f, g
  <2>3. ~HasSync(stack) /\ Sheltered(stack)
    BY <2>1 DEF HasSync, Sheltered
  <2>4. f.at # "sync" /\ f.at # "transfer" /\ f.at \notin Holder
    BY <2>2
  <2>5. /\ s \in Seq(FrameType) /\ StackInv(s, job) /\ ~HasSync(s)
        /\ s # << >> /\ s[1] = f
    BY <1>0, <2>2, <2>3, <2>4, PushInv, Pushed, PushedSync
  <2>6. stack' = <<g>> \o s
    <3>1. stack' = <<g, f>> /\ <<g, f>> \in Seq(FrameType)
      BY <2>1, <2>2 DEF f, g
    <3>2. <<g, f>> \o << >> = <<g, f>>
      BY <3>1, ConcatEmptySeq
    <3>3. <<g, f>> \o stack = <<g>> \o s
      BY <1>0, <2>2, PushedTwo
    <3> QED BY <2>1, <3>1, <3>2, <3>3
  <2> HIDE DEF s
  <2> QED BY <2>2, <2>5, <2>6, CallInv
<1>4. CASE ClientReturn
  <2>1. PICK l \in ClientLabel : At(l)
    BY <1>4 DEF ClientReturn
  <2>2. l # "sync"
    BY DEF ClientLabel
  <2> QED BY <1>0, <1>4, <2>1, <2>2, ReturnStep DEF ClientReturn
<1>5. CASE UriData \/ UriFinish \/ AuthFinish
  <2>1. PICK l \in {"uriData", "uriFinish", "authFinish"}, c \in ClientLabel,
             g \in UriLabel \cup {"authFinish", "authDrop"} :
          At(l) /\ CallThen(Frame(c, Top.h), Frame(g, Top.h))
    BY <1>5 DEF UriData, UriFinish, AuthFinish, ClientLabel, UriLabel
  <2>2. l \in HandleLabel /\ l \notin SyncInner \cup Quiet \cup {"sync"}
    BY DEF HandleLabel, UriLabel, SyncInner, Quiet, ClientLabel
  <2>3. Top.h \in Handle
    BY <1>0, <2>1, <2>2, AtInv
  <2> QED BY <1>0, <2>1, <2>2, <2>3, ClientThenStep
<1>6. CASE \/ UriDone \/ HeadersDone \/ TransferReturn
           \/ TransportHandlerRemoved \/ Finalized
  <2>1. PICK l \in {"uriDone", "headersDone", "transfer", "removeHandler", "finalize"} :
          At(l) /\ Return
    BY <1>6 DEF UriDone, HeadersDone, TransferReturn, TransportHandlerRemoved,
       Finalized
  <2> QED BY <1>0, <2>1, ReturnStep
<1>7. CASE DataRest
  <2>1. At("dataRest") /\ (Return \/ Become(Frame("data", Top.h)))
    BY <1>7 DEF DataRest
  <2>2. CASE Return
    BY <1>0, <2>1, <2>2, ReturnStep
  <2>3. CASE Become(Frame("data", Top.h))
    <3>1. "dataRest" \in HandleLabel /\ "dataRest" \notin SyncInner \cup {"sync"}
      BY DEF HandleLabel, SyncInner
    <3>2. Top.h \in Handle
      BY <1>0, <2>1, <3>1, AtInv
    <3>3. /\ Frame("data", Top.h) \in FrameType /\ Frame("data", Top.h).at = "data"
          /\ "data" \in Quiet /\ "data" \notin Holder \cup {"sync", "transfer"}
      BY <3>2, HandleFrameTyped DEF Frame, Quiet, ClientLabel, Holder
    <3> QED BY <1>0, <2>1, <2>3, <3>1, <3>3, AtInv, ReplaceInv DEF Become
  <2> QED BY <2>1, <2>2, <2>3
<1>8. ASSUME NEW h \in Handle, DataReceived(h) PROVE StackInv(stack', job)
  <2> DEFINE f == Progress(1)
             s == <<f>> \o Tail(stack)
  <2>1. At("transfer") /\ Top.h = h
    BY <1>8 DEF DataReceived, InTransfer
  <2>2. f \in FrameType /\ f.at = "transfer" /\ f.h = Top.h
    BY <1>n, <2>1 DEF Progress
  <2>3. \/ /\ Calls(h)
           /\ stack' = <<Frame("response", h), Frame("dataRest", h), f>>
                          \o Tail(stack)
        \/ Calls(h) /\ stack' = <<Frame("data", h), f>> \o Tail(stack)
        \/ Become(f)
    BY <1>8 DEF DataReceived, CallThen
  <2> HIDE DEF f
  <2>4. /\ s \in Seq(FrameType) /\ StackInv(s, job) /\ s # << >>
        /\ HasSync(s) <=> HasSync(stack)
    BY <1>0, <2>1, <2>2, AtInv, FlagInv, Pushed
  <2>5. Tail(stack) \in Seq(FrameType)
    BY <1>0, <2>1, AtInv
  <2>6. CASE /\ Calls(h)
             /\ stack' = <<Frame("response", h), Frame("dataRest", h), f>>
                            \o Tail(stack)
    <3>1. /\ Frame("response", h) \in FrameType
          /\ Frame("dataRest", h) \in FrameType
      BY HandleFrameTyped
    <3>2. stack' = <<Frame("response", h), Frame("dataRest", h)>> \o s
      <4> DEFINE e == Frame("response", h)
                 d == Frame("dataRest", h)
                 r == Tail(stack)
      <4>1. /\ e \in FrameType /\ d \in FrameType /\ f \in FrameType
            /\ r \in Seq(FrameType) /\ <<f>> \o r \in Seq(FrameType)
        BY <2>2, <2>4, <2>5, <3>1
      <4>2. stack' = <<e, d, f>> \o r
        BY <2>6
      <4> HIDE DEF e, d, r
      <4>3. ThreePushes(r, e, d, f)
        BY <4>1, PushedThree
      <4>4. <<e, d>> \o (<<f>> \o r) = <<e>> \o (<<d>> \o (<<f>> \o r))
        BY <4>1, PushedTwo
      <4>5. stack' = <<e, d>> \o (<<f>> \o r)
        BY <4>2, <4>3, <4>4, Zenon DEF ThreePushes
      <4> QED BY <4>5, Zenon DEF e, d, r
    <3> HIDE DEF s
    <3> QED BY <1>c, <1>l, <2>1, <2>4, <2>6, <3>2
  <2>7. CASE Calls(h) /\ stack' = <<Frame("data", h), f>> \o Tail(stack)
    <3>1. Frame("data", h) \in FrameType /\ "data" \in ClientLabel
      BY HandleFrameTyped DEF ClientLabel
    <3>2. stack' = <<Frame("data", h)>> \o s
      BY <2>2, <2>5, <2>7, <3>1, PushedTwo
    <3> HIDE DEF s
    <3> QED BY <1>l, <2>1, <2>4, <2>7, <3>1, <3>2, ClientStep
  <2>8. CASE Become(f)
    BY <2>4, <2>8 DEF Become
  <2> QED BY <2>3, <2>6, <2>7, <2>8
<1>9. ASSUME NEW h \in Handle, NEW result \in BOOLEAN, DataDone(h, result)
      PROVE  StackInv(stack', job)
  <2> DEFINE f == Progress(IF result THEN 2 ELSE 3)
             s == <<f>> \o Tail(stack)
  <2>1. At("transfer") /\ Top.h = h
    BY <1>9 DEF DataDone, InTransfer
  <2>2. f \in FrameType /\ f.at = "transfer" /\ f.h = Top.h
    BY <1>n, <2>1 DEF Progress
  <2>3. \/ Calls(h) /\ stack' = <<Frame("finish", h), f>> \o Tail(stack)
        \/ Become(f)
    BY <1>9 DEF DataDone, CallThen
  <2> HIDE DEF f
  <2>4. /\ s \in Seq(FrameType) /\ StackInv(s, job) /\ s # << >>
        /\ HasSync(s) <=> HasSync(stack)
    BY <1>0, <2>1, <2>2, AtInv, FlagInv, Pushed
  <2>5. CASE Calls(h) /\ stack' = <<Frame("finish", h), f>> \o Tail(stack)
    <3>1. Frame("finish", h) \in FrameType /\ "finish" \in ClientLabel
      BY HandleFrameTyped DEF ClientLabel
    <3>2. stack' = <<Frame("finish", h)>> \o s
      BY <1>0, <2>1, <2>2, <2>5, <3>1, AtInv, PushedTwo
    <3> HIDE DEF s
    <3> QED BY <1>l, <2>1, <2>4, <2>5, <3>1, <3>2, ClientStep
  <2>6. CASE Become(f)
    BY <2>4, <2>6 DEF Become
  <2> QED BY <2>3, <2>5, <2>6
<1>10. ASSUME NEW h \in Handle, AuthCancel(h) PROVE StackInv(stack', job)
  <2>1. /\ At("auth")
        /\ \/ stack' = stack
           \/ stack' = <<Frame("response", h), Frame("authFinish", h)>> \o stack
    BY <1>10 DEF AuthCancel
  <2> DEFINE f == Frame("authFinish", h)
             s == <<f>> \o stack
  <2>2. /\ f \in FrameType /\ f.at = "authFinish" /\ f.at \notin Holder \cup {"sync"}
        /\ Frame("response", h) \in FrameType /\ "response" \in ClientLabel
    BY HandleFrameTyped DEF Frame, Holder, ClientLabel
  <2>3. "auth" \notin SyncInner \cup Quiet \cup Holder \cup {"sync"}
    BY DEF SyncInner, Quiet, Holder, ClientLabel
  <2> HIDE DEF f
  <2>4. s \in Seq(FrameType) /\ StackInv(s, job) /\ ~HasSync(s) /\ s # << >>
    BY <1>0, <2>1, <2>2, <2>3, AtInv, CallInv, Pushed
  <2>5. <<Frame("response", h), f>> \o stack = <<Frame("response", h)>> \o s
    BY <1>0, <2>2, PushedTwo
  <2> HIDE DEF s
  <2>6. StackInv(<<Frame("response", h)>> \o s, job)
    BY <2>2, <2>4, ClientStep
  <2> QED BY <1>0, <2>1, <2>5, <2>6 DEF f
<1>11. ASSUME NEW h \in Handle, AuthDangling(h) PROVE StackInv(stack', job)
  BY <1>0, <1>11 DEF AuthDangling
<1> QED BY <1>1, <1>2, <1>3, <1>4, <1>5, <1>6, <1>7, <1>8, <1>9, <1>10, <1>11

\* A job is added by startScheduledJobs, which no synchronous load calls.
LEMMA AddInv ==
  ASSUME NEW s \in Seq(FrameType), NEW old \in [Handle -> JobInfo],
         StackInv(s, old), ~HasSync(s), NEW h \in Handle, old[h].state = "None",
         NEW j \in JobInfo, ~j.sync, ~j.paused
  PROVE  StackInv(s, [old EXCEPT ![h] = j])
<1> DEFINE new == [old EXCEPT ![h] = j]
<1>1. /\ \A g \in Handle : g # h => new[g] = old[g]
      /\ new[h] = j
  OBVIOUS
<1> HIDE DEF new
<1>2. \A k \in 1..Len(s) : s[k].at \in Holder => s[k].h \in Handle /\ s[k].h # h
  <2>1. \A k \in 1..Len(s) : s[k] \in FrameType
    BY ElementOfSeq
  <2>2. \A k \in 1..Len(s) : s[k].at \in Holder => s[k].h \in Handle
    BY <2>1, FrameHandle DEF Holder, HandleLabel
  <2> QED BY <2>2 DEF StackInv, HeldJobs
<1>3. InsideSync(s, new)
  BY DEF InsideSync, HasSync
<1>4. HeldJobs(s, new)
  BY <1>1, <1>2 DEF StackInv, HeldJobs
<1>5. SyncJobsRun(s, new)
  BY <1>1 DEF StackInv, SyncJobsRun
<1>6. PausedInSync(s, new)
  BY <1>1 DEF StackInv, PausedInSync
<1> QED BY <1>3, <1>4, <1>5, <1>6 DEF StackInv, new

\* The job of h is synchronous, and all others are paused.
PausedBut(h, old, new) ==
  /\ new[h].sync
  /\ \A g \in Handle : g # h =>
       /\ new[g].state = "None" <=> old[g].state = "None"
       /\ new[g].sync = old[g].sync
       /\ new[g].state # "None" /\ ~new[g].sync => new[g].paused = TRUE

\* A synchronous load begins where none runs: all other jobs are paused.
LEMMA SyncStartInv ==
  ASSUME NEW s \in Seq(FrameType), NEW old, NEW new, StackInv(s, old),
         ~HasSync(s), NEW h \in Handle, old[h].state = "None",
         NEW f \in FrameType, f.at = "sync", f.h = h,
         PausedBut(h, old, new)
  PROVE  StackInv(<<f>> \o s, new)
<1> DEFINE t == <<f>> \o s
<1>1. /\ Len(t) = Len(s) + 1 /\ Len(s) \in Nat /\ t[1] = f
      /\ \A k \in 2..Len(t) : t[k] = s[k - 1]
  BY Pushed
<1> HIDE DEF t
<1>2. \A k \in 2..Len(t) : k - 1 \in 1..Len(s) /\ t[k] = s[k - 1] /\ t[k].at # "sync"
  BY <1>1 DEF HasSync
<1>3. \A k \in 1..Len(t) : k = 1 \/ k \in 2..Len(t)
  BY <1>1
<1>4. \A g \in Handle : g # h /\ new[g].state # "None" => ~new[g].sync
  BY DEF StackInv, SyncJobsRun, HasSync, PausedBut
<1>5. InsideSync(t, new)
  BY <1>1, <1>2, <1>3 DEF InsideSync
<1>6. AboveHolder(t)
  <2> SUFFICES ASSUME NEW i \in 1..Len(t), NEW j \in 1..Len(t),
                      i < j, t[j].at \in Holder, t[i].at \notin Quiet
               PROVE  \E k \in i..(j - 1) : t[k].at = "sync"
    BY DEF AboveHolder
  <2>1. CASE i = 1
    BY <1>1, <2>1
  <2>2. CASE i # 1
    <3>1. /\ i - 1 \in 1..Len(s) /\ j - 1 \in 1..Len(s) /\ i - 1 < j - 1
          /\ s[i - 1] = t[i] /\ s[j - 1] = t[j]
      BY <1>1, <2>2
    <3>2. PICK k \in (i - 1)..((j - 1) - 1) : s[k].at = "sync"
      BY <3>1 DEF StackInv, AboveHolder
    <3>3. k \in 1..Len(s)
      BY <1>1, <3>1
    <3> QED BY <3>2, <3>3 DEF HasSync
  <2> QED BY <2>1, <2>2
<1>7. HeldJobs(t, new)
  <2> SUFFICES ASSUME NEW j \in 1..Len(t), t[j].at \in Holder
               PROVE  new[t[j].h].state # "None" /\ ~new[t[j].h].sync
    BY DEF HeldJobs
  <2>1. j \in 2..Len(t)
    BY <1>1, <1>3 DEF Holder
  <2>2. t[j] \in FrameType /\ old[t[j].h].state # "None"
    BY <1>2, <2>1, ElementOfSeq DEF StackInv, HeldJobs
  <2>3. t[j].h \in Handle
    BY <2>2, FrameHandle DEF Holder, HandleLabel
  <2> QED BY <1>4, <2>2, <2>3 DEF PausedBut
<1>8. SyncJobsRun(t, new)
  <2>1. 1 \in 1..Len(t) /\ t[1].at = "sync" /\ t[1].h = f.h
    BY <1>1
  <2> QED BY <1>4, <2>1 DEF SyncJobsRun
<1>9. PausedInSync(t, new)
  <2>1. HasSync(t)
    BY <1>1 DEF HasSync
  <2>2. new[h].sync
    BY DEF PausedBut
  <2> QED BY <2>1, <2>2 DEF PausedInSync, PausedBut
<1> QED BY <1>5, <1>6, <1>7, <1>8, <1>9 DEF StackInv, t

\* A synchronous load returns when its job is gone: the others go on.
LEMMA SyncReturnInv ==
  ASSUME NEW s \in Seq(FrameType), s # << >>, NEW old, NEW new, StackInv(s, old),
         s[1].at = "sync", old[s[1].h].state = "None", SameJobs(old, new),
         \A g \in Handle : new[g].state # "None" /\ ~new[g].sync => new[g].paused = FALSE
  PROVE  StackInv(Tail(s), new)
<1> DEFINE t == Tail(s)
<1>1. /\ Len(s) \in Nat /\ Len(s) >= 1 /\ Len(t) = Len(s) - 1
      /\ \A k \in 1..Len(t) : t[k] = s[k + 1]
      /\ t \in Seq(FrameType)
  BY Popped
<1>2. ~HasSync(t)
  BY TopInv
<1> HIDE DEF t
<1>3. \A k \in 1..Len(t) : k + 1 \in 1..Len(s) /\ t[k] = s[k + 1]
  BY <1>1
<1>4. InsideSync(t, new)
  BY <1>2 DEF InsideSync, HasSync
<1>5. AboveHolder(t)
  <2> SUFFICES ASSUME NEW i \in 1..Len(t), NEW j \in 1..Len(t),
                      i < j, t[j].at \in Holder, t[i].at \notin Quiet
               PROVE  \E k \in i..(j - 1) : t[k].at = "sync"
    BY DEF AboveHolder
  <2>1. i + 1 < j + 1
    OBVIOUS
  <2>2. PICK k \in (i + 1)..((j + 1) - 1) : s[k].at = "sync"
    BY <1>3, <2>1 DEF StackInv, AboveHolder
  <2>3. k - 1 \in i..(j - 1) /\ t[k - 1] = s[k]
    BY <1>1
  <2> QED BY <2>2, <2>3
<1>6. HeldJobs(t, new)
  <2> SUFFICES ASSUME NEW j \in 1..Len(t), t[j].at \in Holder
               PROVE  /\ new[t[j].h].state # "None"
                      /\ \A i \in 1..(j - 1) : t[i].at # "sync"
    BY DEF HeldJobs
  <2>1. old[t[j].h].state # "None"
    BY <1>3 DEF StackInv, HeldJobs
  <2>2. t[j].h \in Handle
    BY <1>1, ElementOfSeq, FrameHandle DEF Holder, HandleLabel
  <2>3. \A i \in 1..(j - 1) : i \in 1..Len(t)
    BY <1>1
  <2> QED BY <1>2, <2>1, <2>2, <2>3 DEF SameJobs, HasSync
<1>7. SyncJobsRun(t, new)
  <2> SUFFICES ASSUME NEW h \in Handle, new[h].state # "None", new[h].sync
               PROVE  FALSE
    BY DEF SyncJobsRun
  <2>1. PICK k \in 1..Len(s) : s[k].at = "sync" /\ s[k].h = h
    BY DEF StackInv, SyncJobsRun, SameJobs
  <2>2. CASE k = 1
    BY <2>1, <2>2 DEF SameJobs
  <2>3. CASE k # 1
    <3>1. k - 1 \in 1..Len(t) /\ t[k - 1] = s[k]
      BY <1>1, <2>3
    <3> QED BY <1>2, <2>1, <3>1 DEF HasSync
  <2> QED BY <2>2, <2>3
<1>8. PausedInSync(t, new)
  BY <1>2 DEF PausedInSync
<1> QED BY <1>4, <1>5, <1>6, <1>7, <1>8 DEF StackInv, t

\* Where scripts run, no synchronous load does.
LEMMA NoScriptInSync ==
  ASSUME TypeOK, StackInv(stack, job), ScriptRuns
  PROVE  ~HasSync(stack)
<1>1. CASE Idle
  BY <1>1 DEF Idle, HasSync
<1>2. CASE \E l \in ScriptLabel : At(l)
  <2>1. PICK l \in ScriptLabel : At(l)
    BY <1>2
  <2>2. l \notin SyncInner \cup {"sync"}
    BY DEF ScriptLabel, SyncInner
  <2> QED BY <2>1, <2>2, AtInv
<1> QED BY <1>1, <1>2 DEF ScriptRuns

\* Every step keeps the order of the stack.
LEMMA StackStep ==
  ASSUME IInv, [Next]_vars
  PROVE  StackInv(stack', job')
<1>0. TypeOK /\ StackInv(stack, job) /\ JobsTyped(job) /\ stack \in Seq(FrameType)
  BY DEF IInv, TypeOK, JobsTyped
<1>u. ASSUME UNCHANGED <<stack, job>> PROVE StackInv(stack', job')
  BY <1>0, <1>u
<1>1. ASSUME NEW h \in Handle, StartLoad(h) \/ CancelLoad(h) \/ AuthProceed(h)
      PROVE  StackInv(stack', job')
  BY <1>1, <1>u DEF StartLoad, CancelLoad, AuthProceed
<1>2. CASE AuthDrop
  <2>1. At("authDrop") /\ Return /\ UNCHANGED job
    BY <1>2 DEF AuthDrop
  <2> QED BY <1>0, <2>1, ReturnStep
<1>3. CASE StartNext
  <2> DEFINE h == Head(queue)
             f == [Top EXCEPT !.b = TRUE]
             s == <<f>> \o Tail(stack)
  <2>1. PICK l \in {"start1", "start2"} : At(l)
    BY <1>3 DEF StartNext
  <2>2. l \notin SyncInner \cup Quiet \cup Holder \cup {"sync"}
    BY DEF SyncInner, Quiet, Holder, ClientLabel
  <2>3. f \in FrameType /\ f.at = Top.at /\ f.h = Top.h
    BY <1>0, <2>1, AtInv, FrameUpdate DEF FrameType
  <2> HIDE DEF f
  <2>4. /\ s \in Seq(FrameType) /\ StackInv(s, job) /\ ~HasSync(s)
        /\ s # << >> /\ s[1] = f
    BY <1>0, <2>1, <2>2, <2>3, AtInv, FlagInv, Pushed
  <2>5. h \in Handle /\ h \notin Jobs
    <3>1. queue \in Seq(Handle) /\ queue # << >>
      BY <1>0, <1>3 DEF StartNext, CanStart, TypeOK
    <3>2. h \in Handle /\ h = queue[1] /\ 1 \in 1..Len(queue)
      BY <3>1, HeadTailProperties, LenProperties
    <3> QED BY <3>2 DEF IInv, PlaceInv
  <2> HIDE DEF h
  <2>6. CASE h \in UriHandle
    <3> DEFINE g == Frame("uriData", h)
               t == <<g>> \o s
    <3>1. /\ stack' = <<Frame("response", h), g, f>> \o Tail(stack)
          /\ UNCHANGED job
      BY <1>3, <2>6 DEF StartNext, h, f
    <3>2. /\ g \in FrameType /\ g.at = "uriData" /\ g.at \notin Holder \cup {"sync"}
          /\ Frame("response", h) \in FrameType /\ "response" \in ClientLabel
      BY <2>5, HandleFrameTyped DEF Frame, Holder, ClientLabel
    <3> HIDE DEF g
    <3>3. stack' = <<Frame("response", h)>> \o t
      <4> DEFINE e == Frame("response", h)
                 r == Tail(stack)
      <4>1. r \in Seq(FrameType)
        BY <1>0, <2>1, AtInv
      <4>2. e \in FrameType /\ g \in FrameType /\ f \in FrameType
        BY <2>3, <3>2
      <4> HIDE DEF e, r
      <4>3. ThreePushes(r, e, g, f)
        BY <4>1, <4>2, PushedThree
      <4> QED BY <3>1, <4>3, Zenon DEF ThreePushes, e, r
    <3>4. s[1].at \notin Quiet \cup Holder
      BY <1>0, <2>1, <2>2, <2>3, <2>4, AtInv
    <3> HIDE DEF s
    <3>5. t \in Seq(FrameType) /\ StackInv(t, job) /\ ~HasSync(t) /\ t # << >>
      BY <2>4, <3>2, <3>4, CallInv, Pushed
    <3> HIDE DEF t
    <3> QED BY <2>5, <3>1, <3>2, <3>3, <3>5, ClientStep
  <2>7. CASE h \notin UriHandle
    <3>1. PICK kind \in Kinds : job' = [job EXCEPT ![h] = NewJob(FALSE, kind)]
      BY <1>3, <2>7 DEF StartNext, h
    <3>2. stack' = s
      BY <1>3, <2>7 DEF StartNext, Become, h, f
    <3>3. /\ NewJob(FALSE, kind) \in JobInfo /\ ~NewJob(FALSE, kind).sync
          /\ ~NewJob(FALSE, kind).paused
      BY <1>0, NewJobTyped DEF TypeOK
    <3>4. job[h].state = "None" /\ job \in [Handle -> JobInfo]
      BY <1>0, <2>5 DEF Jobs, JobsTyped
    <3> HIDE DEF s
    <3> QED BY <2>4, <2>5, <3>1, <3>2, <3>3, <3>4, AddInv
  <2> QED BY <2>6, <2>7
<1>4. CASE EraseTold
  <2>1. At("dispose") /\ Return /\ job' = [job EXCEPT ![Top.h] = NoJob]
    BY <1>4 DEF EraseTold, Erase, Forget
  <2>2. /\ "dispose" \in HandleLabel
        /\ "dispose" \notin SyncInner \cup Quiet \cup {"sync"}
    BY DEF HandleLabel, SyncInner, Quiet, ClientLabel
  <2> DEFINE s == Tail(stack)
  <2>3. /\ s \in Seq(FrameType) /\ StackInv(s, job) /\ ~HasSync(s) /\ Sheltered(s)
        /\ Top.h \in Handle
    BY <1>0, <2>1, <2>2, AtInv, PopInv
  <2> HIDE DEF s
  <2>4. \A k \in 1..Len(s) : s[k].at \notin Holder
    BY <2>3, Unsheltered
  <2>5. StackInv(s, [job EXCEPT ![Top.h] = NoJob])
    BY <1>0, <2>3, <2>4, EraseInv DEF JobsTyped
  <2> QED BY <2>1, <2>5 DEF Return, s
<1>5. CASE EraseQuietly
  <2>1. PICK h \in Handle :
          /\ h \in Jobs /\ ~job[h].paused /\ job' = [job EXCEPT ![h] = NoJob]
          /\ Become([Top EXCEPT !.n = job[h].id])
    BY <1>5 DEF EraseQuietly, IsNext, Ahead, Erase, Forget
  <2> DEFINE f == [Top EXCEPT !.n = job[h].id]
             s == <<f>> \o Tail(stack)
  <2>2. At("sweep2") /\ job[h].id \in Nat
    BY <1>0, <1>5, JobTyped DEF EraseQuietly, JobsTyped
  <2>3. f \in FrameType /\ f.at = "sweep2" /\ f.h = Top.h
    BY <1>0, <2>2, AtInv, FrameUpdate DEF FrameType
  <2>4. stack' = s
    BY <2>1 DEF Become
  <2> HIDE DEF f
  <2>5. /\ s \in Seq(FrameType) /\ StackInv(s, job) /\ s # << >> /\ s[1] = f
    BY <1>0, <2>2, <2>3, AtInv, FlagInv, Pushed
  <2> HIDE DEF s
  <2>6. Sheltered(s)
    BY <2>3, <2>5, TopInv DEF Quiet, Holder, ClientLabel
  <2>7. ASSUME NEW k \in 1..Len(s), s[k].at \in Holder PROVE s[k].h # h
    <3>1. PICK i \in 1..(k - 1) : s[i].at = "sync"
      BY <2>6, <2>7 DEF Sheltered
    <3>2. ~job[s[k].h].sync
      BY <2>5, <2>7, <3>1 DEF StackInv, HeldJobs
    <3>3. HasSync(s)
      BY <2>5, <3>1, LenProperties DEF HasSync
    <3>4. job[h].sync
      BY <2>1, <2>5, <3>3 DEF StackInv, PausedInSync, Jobs
    <3> QED BY <3>2, <3>4
  <2> QED BY <1>0, <2>1, <2>4, <2>5, <2>7, EraseInv DEF JobsTyped
<1>6. ASSUME NEW h \in Handle, SyncStart(h) PROVE StackInv(stack', job')
  <2>1. PICK kind \in Kinds :
          job' = PauseAsyncJobs([job EXCEPT ![h] = NewJob(TRUE, kind)])
    BY <1>6 DEF SyncStart
  <2> DEFINE f == Frame("sync", h)
             j == NewJob(TRUE, kind)
             jobs == [job EXCEPT ![h] = j]
  <2>2. stack' = <<f>> \o stack /\ ~HasSync(stack)
    BY <1>0, <1>6, NoScriptInSync DEF SyncStart, Call
  <2>3. f \in FrameType /\ f.at = "sync" /\ f.h = h
    BY HandleFrameTyped DEF Frame
  <2>4. j \in JobInfo /\ j.sync /\ SyncNeverPaused(j)
    BY <1>0, NewJobTyped DEF TypeOK, SyncNeverPaused
  <2>5. job[h].state = "None"
    BY <1>0, <1>6 DEF SyncStart, IInv, PlaceInv, Jobs
  <2>6. job' = PauseAsyncJobs(jobs)
    BY <2>1
  <2> HIDE DEF f, j
  <2>7. /\ JobsTyped(jobs) /\ jobs[h] = j
        /\ \A g \in Handle : g # h => jobs[g] = job[g]
    BY <1>0, <2>4, JobUpdate DEF JobsTyped
  <2> HIDE DEF jobs
  <2>8. SameJobs(jobs, job')
    BY <2>6, <2>7, PauseSame
  <2>9. \A g \in Handle : job'[g].state # "None" /\ ~job'[g].sync => job'[g].paused = TRUE
    BY <2>6, <2>7, <2>8 DEF SameJobs, PauseAsyncJobs, JobsTyped, JobInfo
  <2>10. /\ job'[h].sync = TRUE
         /\ \A g \in Handle : g # h =>
               /\ job'[g].state = "None" <=> job[g].state = "None"
               /\ job'[g].sync = job[g].sync
    BY <2>4, <2>7, <2>8 DEF SameJobs
  <2>11. PausedBut(h, job, job')
    BY <2>9, <2>10 DEF PausedBut
  <2>12. StackInv(<<f>> \o stack, job')
    BY <1>0, <2>2, <2>3, <2>5, <2>11, SyncStartInv
  <2> QED BY <2>2, <2>12
<1>7. CASE SyncReturn
  <2>1. /\ At("sync") /\ Top.h \notin Jobs /\ job' = ResumeAsyncJobs(job)
        /\ stack' = Tail(stack)
    BY <1>7 DEF SyncReturn, Return
  <2>2. stack # << >> /\ stack[1] = Top /\ stack[1].at = "sync" /\ Top.h \in Handle
    BY <1>0, <2>1, AtInv DEF HandleLabel
  <2>3. job[Top.h].state = "None"
    BY <2>1, <2>2 DEF Jobs
  <2>4. SameJobs(job, job')
    BY <1>0, <2>1, PauseSame
  <2>5. \A g \in Handle :
          job'[g].state # "None" /\ ~job'[g].sync => job'[g].paused = FALSE
    BY <1>0, <2>1, <2>4 DEF SameJobs, ResumeAsyncJobs, JobsTyped, JobInfo
  <2> QED BY <1>0, <2>1, <2>2, <2>3, <2>4, <2>5, SyncReturnInv
<1>8. CASE ~ \/ \E h \in Handle : StartLoad(h) \/ CancelLoad(h) \/ AuthProceed(h)
             \/ \E h \in Handle : SyncStart(h)
             \/ StartNext \/ AuthDrop \/ EraseTold \/ EraseQuietly \/ SyncReturn
  <2>1. JobsKept(job, job')
    BY <1>0, <1>8, UnmovedStep, Zenon DEF Next, Outside, Inside
  <2>2. StackInv(stack', job) /\ stack' \in Seq(FrameType)
    <3>1. CASE UNCHANGED vars
      BY <1>0, <3>1 DEF vars
    <3>2. CASE \/ TimerFires \/ FirstStartDone \/ PassDone \/ AuthTickDone
               \/ CallbackDone \/ SweepStep \/ SweepTransfer \/ FirstLoopDone
               \/ TellFailure \/ SecondLoopDone \/ SyncProcess \/ SyncTicked
      BY <1>0, <3>2, SweepStack, TypeStep DEF TypeOK
    <3>3. CASE ~ UNCHANGED vars /\
               ~ \/ TimerFires \/ FirstStartDone \/ PassDone \/ AuthTickDone
                 \/ CallbackDone \/ SweepStep \/ SweepTransfer \/ FirstLoopDone
                 \/ TellFailure \/ SecondLoopDone \/ SyncProcess \/ SyncTicked
      <4>1. StackInv(stack', job)
        BY <1>8, <3>3, CallbackStack, Zenon DEF Next, Outside, Inside
      <4> QED BY <1>0, <4>1, TypeStep DEF TypeOK
    <3> QED BY <3>1, <3>2, <3>3
  <2> QED BY <2>1, <2>2, KeptInv
<1> QED BY <1>1, <1>2, <1>3, <1>4, <1>5, <1>6, <1>7, <1>8

-----------------------------------------------------------------------------
(* The theorems *)

LEMMA InitInv == Init => IInv
<1> SUFFICES ASSUME Init PROVE IInv
  OBVIOUS
<1>1. TypeOK
  BY InitTyped
<1>2. Jobs = {} /\ AsyncJobs = {}
  BY DEF Init, Jobs, AsyncJobs, NoJob
<1>3. RunningCount /\ AsyncLimit
  BY <1>2, FS_EmptySet, ParameterAssumption DEF Init, RunningCount, AsyncLimit
<1>4. Len(stack) = 0 /\ Len(queue) = 0
  BY DEF Init
<1>5. PlaceInv
  BY <1>2, <1>4 DEF Init, PlaceInv, Scheduled, NoJob
<1>6. StackInv(stack, job)
  BY <1>4 DEF Init, StackInv, InsideSync, AboveHolder, HeldJobs, SyncJobsRun,
     PausedInSync, NoJob
<1> QED BY <1>1, <1>3, <1>5, <1>6 DEF IInv

LEMMA InvStep ==
  ASSUME IInv, [Next]_vars
  PROVE  IInv'
<1>1. TypeOK'
  BY TypeStep DEF IInv
<1> QED BY <1>1, PlaceStep, StackStep DEF IInv

LEMMA Invariant == Spec => []IInv
BY InitInv, InvStep, PTL DEF Spec

LEMMA SyncRunningOnStack == SyncRunning <=> HasSync(stack)
BY DEF SyncRunning, OnStack, HasSync

\* m_runningJobs is the number of jobs in m_JobInfoList at every moment,
\* however callbacks, sweeps and synchronous loads are nested.
THEOREM RunningCountHolds == Spec => []RunningCount
<1>1. IInv => RunningCount
  BY DEF IInv
<1> QED BY <1>1, Invariant, PTL

\* startScheduledJobs never lets more than m_maxConcurrentJobs of its jobs
\* exist, although synchronous loads count in m_runningJobs too.
THEOREM AsyncLimitHolds == Spec => []AsyncLimit
<1>1. IInv => AsyncLimit
  BY DEF IInv
<1> QED BY <1>1, Invariant, PTL

\* PauseJobs and ResumeJobs of dispatchSynchronousJob are balanced: a job that
\* startScheduledJobs started is paused exactly while a synchronous load is on
\* the call stack.
THEOREM PausedExactly == Spec => []PausedExactlyDuringSync
<1>1. IInv => PausedExactlyDuringSync
  BY SyncRunningOnStack
  DEF IInv, StackInv, PausedInSync, PausedExactlyDuringSync, AsyncJobs, Jobs
<1> QED BY <1>1, Invariant, PTL

\* Inside a synchronous load a step leaves the state of an asynchronous job alone.
LEMMA AsyncStill ==
  ASSUME IInv, [Next]_vars, HasSync(stack), NEW g \in AsyncJobs
  PROVE  job'[g].state = job[g].state
<1>0. /\ TypeOK /\ StackInv(stack, job) /\ JobsTyped(job) /\ g \in Handle
      /\ job[g].state # "None" /\ ~job[g].sync
  BY DEF IInv, TypeOK, JobsTyped, AsyncJobs, Jobs
<1>a. ASSUME NEW h \in Jobs, ~job[h].paused PROVE h \in Handle /\ h # g
  BY <1>0, <1>a DEF StackInv, PausedInSync, Jobs
<1>t. ASSUME At("transfer") PROVE Top.h \in Handle /\ Top.h # g
  <2>1. stack \in Seq(FrameType) /\ stack # << >> /\ Top = stack[1]
        /\ stack[1].at = "transfer" /\ Top.h \in Handle
    BY <1>0, <1>t, AtInv DEF HandleLabel
  <2> QED BY <1>0, <2>1, TopInv
<1>1. CASE StartNext
  <2>1. PICK l \in {"start1", "start2"} : At(l)
    BY <1>1 DEF StartNext
  <2>2. l \notin SyncInner \cup {"sync"}
    BY DEF SyncInner
  <2> QED BY <1>0, <2>1, <2>2, AtInv
<1>2. CASE EraseTold
  <2>1. At("dispose") /\ "dispose" \notin SyncInner \cup {"sync"}
    BY <1>2 DEF EraseTold, SyncInner
  <2> QED BY <1>0, <2>1, AtInv
<1>3. CASE EraseQuietly
  <2>1. PICK h \in Jobs : ~job[h].paused /\ job' = [job EXCEPT ![h] = NoJob]
    BY <1>3 DEF EraseQuietly, IsNext, Ahead, Erase, Forget
  <2> QED BY <1>0, <1>a, <2>1 DEF JobsTyped
<1>4. ASSUME NEW h \in Handle, SyncStart(h) PROVE FALSE
  BY <1>0, <1>4, NoScriptInSync DEF SyncStart
<1>5. CASE SyncReturn
  BY <1>0, <1>5 DEF SyncReturn, ResumeAsyncJobs, JobsTyped, JobInfo
<1>6. CASE RemoveTransportHandler \/ Finalize
  BY <1>6 DEF RemoveTransportHandler, Finalize, Idle, HasSync
<1>7. ASSUME NEW h \in Handle, HeadersReceived(h) \/ SetRedirect(h)
      PROVE  job'[g].state = job[g].state
  <2>1. CASE SetRedirect(h)
    BY <1>0, <2>1 DEF SetRedirect, JobsTyped, JobInfo
  <2>2. CASE HeadersReceived(h)
    <3>1. PICK challenged \in BOOLEAN :
            job' = [job EXCEPT ![h].headers = "received",
                               ![h].auth = @ \/ (challenged /\ ~rh[h].cancelled)]
      BY <2>2 DEF HeadersReceived
    <3> QED BY <1>0, <3>1 DEF JobsTyped, JobInfo
  <2> QED BY <1>7, <2>1, <2>2
<1>8. ASSUME NEW h \in Handle, NEW result \in BOOLEAN, DataDone(h, result)
      PROVE  job'[g].state = job[g].state
  <2>1. h # g
    BY <1>t, <1>8 DEF DataDone, InTransfer
  <2> QED BY <1>0, <1>8, <2>1 DEF DataDone, JobsTyped
<1>9. CASE SweepStep
  <2>1. PICK h \in Jobs : /\ ~job[h].paused
                          /\ \A k \in Handle : k # h => job'[k] = job[k]
    BY <1>0, <1>9 DEF SweepStep, IsNext, Ahead, Settle, JobsTyped
  <2> QED BY <1>0, <1>a, <2>1
<1>10. CASE TransferReturn
  <2>1. At("transfer") /\ \A k \in Handle : k # Top.h => job'[k] = job[k]
    BY <1>0, <1>10 DEF TransferReturn, Settle, JobsTyped
  <2> QED BY <1>0, <1>t, <2>1
<1>11. CASE ~ \/ StartNext \/ EraseTold \/ EraseQuietly \/ SyncReturn
              \/ RemoveTransportHandler \/ Finalize \/ SweepStep \/ TransferReturn
              \/ \E h \in Handle : SyncStart(h)
              \/ \E h \in Handle : HeadersReceived(h) \/ SetRedirect(h)
              \/ \E h \in Handle, result \in BOOLEAN : DataDone(h, result)
  <2>1. UNCHANGED job
    BY <1>11 DEF Next, Outside, Inside, StartLoad, CancelLoad, TimerFires,
       ClientReturn, UriData, UriFinish, UriDone, FirstStartDone, PassDone,
       AuthTickDone, CallbackDone, SweepTransfer, FirstLoopDone, TellFailure,
       SecondLoopDone, HeadersDone, DataRest, DataReceived, AuthProceed,
       AuthCancel, AuthDangling, AuthFinish, AuthDrop, SyncProcess, SyncTicked,
       TransportHandlerRemoved, Finalized, vars
  <2> QED BY <2>1
<1> QED BY <1>1, <1>2, <1>3, <1>4, <1>5, <1>6, <1>7, <1>8, <1>9, <1>10, <1>11

\* ProcessTHJobs, when dispatchSynchronousJob calls it, moves no job but the
\* synchronous one, at whatever depth of the call stack.
THEOREM SyncIsolates == Spec => SyncIsolation
<1>1. IInv /\ [Next]_vars =>
        [SyncRunning /\ SyncRunning' =>
           \A h \in AsyncJobs : job'[h].state = job[h].state]_vars
  BY AsyncStill, SyncRunningOnStack
<1> QED BY <1>1, Invariant, PTL DEF Spec, SyncIsolation
=============================================================================
