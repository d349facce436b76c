----------------------------- MODULE ServiceProofs -----------------------------
(***************************************************************************)
(* Theorems about what the manager owes to others while it runs: every     *)
(* handler that was initialized for a job is shut down once                *)
(* (ShutdownPromise), and the one-shot timer is armed whenever there is    *)
(* work left that no sweep on the call stack will see to (TimerArmed).     *)
(***************************************************************************)
EXTENDS OwnershipProofs

-----------------------------------------------------------------------------
(* What may act on which frame *)

\* What may happen while nothing runs.
IdleStep ==
  \/ \E h \in Handle : \/ StartLoad(h) \/ CancelLoad(h) \/ SyncStart(h)
                       \/ HeadersReceived(h) \/ SetRedirect(h)
  \/ RemoveTransportHandler \/ Finalize \/ TimerFires

\* The actions of a frame with label l on top.
FrameStep(l) ==
  \/ l \in ClientLabel /\ ClientReturn
  \/ l \in ClientLabel /\ \E h \in Handle : StartLoad(h) \/ CancelLoad(h)
  \/ l \in ScriptLabel /\ \E h \in Handle : SyncStart(h)
  \/ l \in {"start1", "start2"} /\ StartNext
  \/ l = "start1" /\ FirstStartDone
  \/ l = "start2" /\ CallbackDone
  \/ l = "uriData" /\ UriData
  \/ l = "uriFinish" /\ UriFinish
  \/ l = "uriDone" /\ UriDone
  \/ l = "afterPass" /\ PassDone
  \/ l = "auth" /\ AuthTickDone
  \/ l = "auth" /\ \E h \in Handle : AuthProceed(h) \/ AuthCancel(h) \/ AuthDangling(h)
  \/ l = "sweep1" /\ (SweepStep \/ SweepTransfer \/ FirstLoopDone)
  \/ l = "sweep2" /\ (TellFailure \/ EraseQuietly \/ SecondLoopDone)
  \/ l = "dispose" /\ EraseTold
  \/ l \in {"transfer", "sync"} /\ \E h \in Handle : HeadersReceived(h) \/ SetRedirect(h)
  \/ l = "transfer" /\ \E h \in Handle : DataReceived(h) \/ \E result \in BOOLEAN : DataDone(h, result)
  \/ l = "transfer" /\ TransferReturn
  \/ l = "headersDone" /\ HeadersDone
  \/ l = "dataRest" /\ DataRest
  \/ l = "authFinish" /\ AuthFinish
  \/ l = "authDrop" /\ AuthDrop
  \/ l = "sync" /\ (SyncProcess \/ SyncTicked \/ SyncReturn)
  \/ l = "removeHandler" /\ TransportHandlerRemoved
  \/ l = "finalize" /\ Finalized

\* Only the code on top of the stack acts, or the outside if there is none.
LEMMA Acting ==
  ASSUME [Next]_vars
  PROVE  \/ UNCHANGED vars
         \/ Idle /\ IdleStep
         \/ life = "up" /\ stack # << >> /\ FrameStep(Top.at)
<1>1. ASSUME NEW h \in Handle, StartLoad(h) \/ CancelLoad(h) \/ SyncStart(h)
      PROVE  \/ Idle /\ IdleStep
             \/ life = "up" /\ stack # << >> /\ FrameStep(Top.at)
  <2>1. ClientRuns \/ (SyncStart(h) /\ ScriptRuns)
    BY <1>1 DEF StartLoad, CancelLoad, SyncStart
  <2>2. ScriptLabel \subseteq ClientLabel
    BY DEF ScriptLabel, ClientLabel
  <2>3. CASE Idle
    BY <1>1, <2>3 DEF IdleStep
  <2>4. CASE SyncStart(h) /\ ScriptRuns /\ ~Idle
    BY <1>1, <2>4 DEF ScriptRuns, At, FrameStep
  <2>5. CASE (StartLoad(h) \/ CancelLoad(h)) /\ ClientRuns /\ ~Idle
    BY <1>1, <2>5 DEF ClientRuns, At, FrameStep
  <2> QED BY <1>1, <2>1, <2>3, <2>4, <2>5 DEF SyncStart
<1>2. ASSUME NEW h \in Handle, HeadersReceived(h) \/ SetRedirect(h)
      PROVE  \/ Idle /\ IdleStep
             \/ life = "up" /\ stack # << >> /\ FrameStep(Top.at)
  <2>1. Idle \/ At("sync") \/ At("transfer")
    BY <1>2 DEF HeadersReceived, SetRedirect, HeadersDue, InTransfer
  <2> QED BY <1>2, <2>1 DEF At, FrameStep, IdleStep
<1>3. CASE RemoveTransportHandler \/ Finalize \/ TimerFires
  BY <1>3 DEF RemoveTransportHandler, Finalize, TimerFires, IdleStep
<1>4. CASE \/ ClientReturn \/ StartNext \/ UriData \/ UriFinish \/ UriDone
           \/ FirstStartDone \/ PassDone \/ AuthTickDone \/ CallbackDone
  <2>1. CASE ClientReturn
    BY <2>1 DEF FrameStep, At, ClientReturn
  <2>2. CASE StartNext
    BY <2>2 DEF FrameStep, At, StartNext
  <2>3. CASE UriData \/ UriFinish \/ UriDone
    BY <2>3 DEF FrameStep, At, UriData, UriFinish, UriDone
  <2>4. CASE FirstStartDone \/ PassDone \/ AuthTickDone \/ CallbackDone
    BY <2>4 DEF FrameStep, At, FirstStartDone, PassDone, AuthTickDone, CallbackDone
  <2> QED BY <1>4, <2>1, <2>2, <2>3, <2>4
<1>5. CASE \/ SweepStep \/ SweepTransfer \/ FirstLoopDone
           \/ TellFailure \/ EraseTold \/ EraseQuietly \/ SecondLoopDone
  <2>1. CASE SweepStep \/ SweepTransfer \/ FirstLoopDone
    <3>1. At("sweep1")
      BY <2>1 DEF SweepStep, SweepTransfer, FirstLoopDone
    <3> QED BY <2>1, <3>1 DEF FrameStep, At
  <2>2. CASE TellFailure \/ EraseQuietly \/ SecondLoopDone
    <3>1. At("sweep2")
      BY <2>2 DEF TellFailure, EraseQuietly, SecondLoopDone
    <3> QED BY <2>2, <3>1 DEF FrameStep, At
  <2>3. CASE EraseTold
    BY <2>3 DEF FrameStep, At, EraseTold
  <2> QED BY <1>5, <2>1, <2>2, <2>3
<1>6. CASE \/ HeadersDone \/ DataRest \/ TransferReturn
           \/ \E h \in Handle : DataReceived(h)
           \/ \E h \in Handle, result \in BOOLEAN : DataDone(h, result)
  <2>1. CASE HeadersDone \/ DataRest
    BY <2>1 DEF FrameStep, At, HeadersDone, DataRest
  <2>2. CASE TransferReturn
    BY <2>2 DEF FrameStep, At, TransferReturn
  <2>3. CASE \/ \E h \in Handle : DataReceived(h)
             \/ \E h \in Handle, result \in BOOLEAN : DataDone(h, result)
    <3>1. At("transfer")
      BY <2>3 DEF DataReceived, DataDone, InTransfer
    <3> QED BY <2>3, <3>1, Zenon DEF FrameStep, At
  <2> QED BY <1>6, <2>1, <2>2, <2>3
<1>7. CASE \/ \E h \in Handle : AuthProceed(h) \/ AuthCancel(h) \/ AuthDangling(h)
           \/ AuthFinish \/ AuthDrop
           \/ SyncProcess \/ SyncTicked \/ SyncReturn
           \/ TransportHandlerRemoved \/ Finalized
  <2>1. CASE \E h \in Handle : AuthProceed(h) \/ AuthCancel(h) \/ AuthDangling(h)
    <3>1. At("auth")
      BY <2>1 DEF AuthProceed, AuthCancel, AuthDangling
    <3> QED BY <2>1, <3>1, Zenon DEF FrameStep, At
  <2>2. CASE AuthFinish \/ AuthDrop
    BY <2>2 DEF FrameStep, At, AuthFinish, AuthDrop
  <2>3. CASE SyncProcess \/ SyncTicked \/ SyncReturn
    BY <2>3 DEF FrameStep, At, SyncProcess, SyncTicked, SyncReturn
  <2>4. CASE TransportHandlerRemoved \/ Finalized
    BY <2>4 DEF FrameStep, At, TransportHandlerRemoved, Finalized
  <2> QED BY <1>7, <2>1, <2>2, <2>3, <2>4
<1> QED BY <1>1, <1>2, <1>3, <1>4, <1>5, <1>6, <1>7, Zenon DEF Next, Outside, Inside

-----------------------------------------------------------------------------
(* What a step does to a job *)

\* What never changes while the job exists.
SameIdentity(g) ==
  /\ job'[g].id = job[g].id /\ job'[g].sync = job[g].sync
  /\ job'[g].kind = job[g].kind /\ job'[g].viaApp = job[g].viaApp

\* What only ProcessTHJobs, the handler and CondemnTHJob change.
SameProgress(g) ==
  /\ job'[g].state = job[g].state /\ job'[g].success = job[g].success
  /\ job'[g].init = job[g].init /\ job'[g].shut = job[g].shut

\* The handler call for state came back.
Settled(g, state, ok, complete) ==
  /\ job'[g].auth = job[g].auth
  /\ job'[g].init = (job[g].init \/ (state = "Init" /\ ok))
  /\ job'[g].shut = (job[g].shut \/ (state = "Shutdown" /\ ok))
  /\ job'[g].success = Succeeds(g, state, ok)
  /\ job'[g].state \in
       {"Remove", IF ok /\ complete THEN After(state) ELSE job[g].state}
  /\ ~ok \/ rh[g].cancelled => job'[g].state = "Remove"
  /\ job'[g].state = "Remove"
       => ~ok \/ rh[g].cancelled \/ state = "Shutdown" \/ job[g].state = "Remove"
  /\ job'[g].state = "Remove" /\ job[g].state # "Remove" => condemned'
  /\ condemned => condemned'

LEMMA SettleEffect ==
  ASSUME TypeOK, NEW h \in Handle,
         NEW state \in {"Init", "Connect", "Transfer", "Disconnect", "Shutdown"},
         NEW ok \in BOOLEAN, NEW complete \in BOOLEAN,
         Settle(h, state, ok, complete)
  PROVE  /\ \A g \in Handle : g # h => job'[g] = job[g]
         /\ SameIdentity(h)
         /\ Settled(h, state, ok, complete)
<1> DEFINE moved == [job[h] EXCEPT
                       !.state = IF ok /\ complete THEN After(state) ELSE @,
                       !.init = @ \/ (state = "Init" /\ ok),
                       !.shut = @ \/ (state = "Shutdown" /\ ok),
                       !.success = Succeeds(h, state, ok),
                       !.headers = IF state = "Connect" /\ ok THEN "sent" ELSE @,
                       !.waits = IF ok /\ ~complete THEN @ + 1 ELSE @]
           remove == \/ ~ok
                     \/ moved.state = "Remove" /\ state = "Shutdown"
                     \/ rh[h].cancelled
           new == IF remove THEN [moved EXCEPT !.state = "Remove"] ELSE moved
<1>1. /\ job' = [job EXCEPT ![h] = new]
      /\ condemned' = (condemned \/ remove)
  BY DEF Settle, Flag
<1>2. job \in [Handle -> JobInfo] /\ job[h] \in JobInfo
  BY DEF TypeOK
<1>3. /\ moved.id = job[h].id /\ moved.sync = job[h].sync
      /\ moved.kind = job[h].kind /\ moved.viaApp = job[h].viaApp
      /\ moved.auth = job[h].auth
      /\ moved.state = IF ok /\ complete THEN After(state) ELSE job[h].state
  BY <1>2 DEF JobInfo
<1>4. /\ moved.init = (job[h].init \/ (state = "Init" /\ ok))
      /\ moved.shut = (job[h].shut \/ (state = "Shutdown" /\ ok))
      /\ moved.success = Succeeds(h, state, ok)
  BY <1>2 DEF JobInfo
<1>5. new.state = IF remove THEN "Remove" ELSE moved.state
  BY <1>2 DEF JobInfo
<1>6. /\ new.id = moved.id /\ new.sync = moved.sync /\ new.kind = moved.kind
      /\ new.viaApp = moved.viaApp /\ new.auth = moved.auth /\ new.init = moved.init
      /\ new.shut = moved.shut /\ new.success = moved.success
  BY <1>2 DEF JobInfo
<1>7. moved.state = "Remove" /\ job[h].state # "Remove" => remove
  <2>1. state # "Shutdown" => After(state) # "Remove"
    BY DEF After
  <2> QED BY <1>3, <2>1
<1>8. /\ ~ok \/ rh[h].cancelled => remove
      /\ remove => ~ok \/ rh[h].cancelled \/ state = "Shutdown"
  OBVIOUS
<1> HIDE DEF moved, remove, new
<1>9. job'[h] = new /\ \A g \in Handle : g # h => job'[g] = job[g]
  BY <1>1, <1>2
<1>10. SameIdentity(h)
  BY <1>3, <1>6, <1>9 DEF SameIdentity
<1>11. Settled(h, state, ok, complete)
  BY <1>1, <1>3, <1>4, <1>5, <1>6, <1>7, <1>8, <1>9 DEF Settled
<1> QED BY <1>9, <1>10, <1>11

\* ProcessTHJobs calls the handler of g, for another state than Transfer.
Swept(g) ==
  /\ SweepStep /\ IsNext(g, FALSE)
  /\ job[g].state \in {"Init", "Connect", "Disconnect", "Shutdown"}
  /\ \E ok, complete \in BOOLEAN :
       /\ complete \/ ok
       /\ Settled(g, job[g].state, ok, complete)

\* The Transfer call of g returns.
Transferred(g) ==
  /\ TransferReturn /\ Top.h = g
  /\ \E ok, complete \in BOOLEAN :
       /\ \/ Top.n = 2 /\ ok /\ complete
          \/ Top.n = 3 /\ complete
          \/ Top.n < 2 /\ ok /\ ~complete
          \/ Top.n < 2 /\ ~ok
       /\ Settled(g, "Transfer", ok, complete)

\* The handler reports the failure of g, to a client that is there.
Failed(g) ==
  /\ DataDone(g, FALSE) /\ Top.h = g
  /\ job'[g].state = "Remove" /\ ~job'[g].success /\ condemned'
  /\ job'[g].init = job[g].init /\ job'[g].shut = job[g].shut

\* RemoveTransportHandler or staticFinalize condemns g.
Doomed(g) ==
  /\ RemoveTransportHandler \/ Finalize
  /\ job'[g].state = "Remove" /\ condemned' /\ job'[g].success = job[g].success
  /\ job'[g].init = job[g].init /\ job'[g].shut = job[g].shut

\* A step erases the job of g, or it keeps its identity and makes a move that
\* one of these functions makes, or none.
JobMove(g) ==
  \/ (EraseTold \/ EraseQuietly) /\ job'[g].state = "None"
  \/ /\ SameIdentity(g) /\ (job[g].auth => job'[g].auth)
     /\ SameProgress(g) \/ Swept(g) \/ Transferred(g) \/ Failed(g) \/ Doomed(g)

\* StartNext or SyncStart makes a job for g.
JobAdded(g) ==
  /\ job'[g].id = nextId + 1 /\ nextId' = nextId + 1
  /\ job'[g].state = "Init" /\ job'[g].success
  /\ ~job'[g].init /\ ~job'[g].shut /\ ~job'[g].auth
  /\ job'[g].viaApp => appHandler /\ job'[g].kind # "file"
  /\ job'[g].kind \in Kinds
  /\ \/ StartNext /\ g = Head(queue) /\ g \notin UriHandle /\ ~job'[g].sync
     \/ SyncStart(g) /\ job'[g].sync

LEMMA UnchangedMove ==
  ASSUME UNCHANGED job
  PROVE  \A g \in Handle : JobMove(g) /\ (g \in Jobs' <=> g \in Jobs)
BY DEF JobMove, SameIdentity, SameProgress, Jobs

LEMMA NewJobFields ==
  ASSUME NEW sync \in BOOLEAN, NEW kind
  PROVE  LET j == NewJob(sync, kind)
         IN  /\ j.id = nextId + 1 /\ j.state = "Init" /\ j.success = TRUE
             /\ j.init = FALSE /\ j.shut = FALSE /\ j.auth = FALSE
             /\ j.viaApp => appHandler /\ kind # "file"
             /\ j.kind = kind /\ j.sync = sync
BY DEF NewJob

LEMMA PauseFields ==
  ASSUME NEW jobs \in [Handle -> JobInfo], NEW g \in Handle,
         NEW j \in {PauseAsyncJobs(jobs)[g], ResumeAsyncJobs(jobs)[g]}
  PROVE  /\ j.id = jobs[g].id /\ j.state = jobs[g].state /\ j.success = jobs[g].success
         /\ j.init = jobs[g].init /\ j.shut = jobs[g].shut /\ j.auth = jobs[g].auth
         /\ j.viaApp = jobs[g].viaApp /\ j.sync = jobs[g].sync /\ j.kind = jobs[g].kind
BY DEF PauseAsyncJobs, ResumeAsyncJobs, JobInfo

\* The actions that change a job.
LEMMA JobSteps ==
  ASSUME [Next]_vars
  PROVE  \/ UNCHANGED job
         \/ \E h \in Handle : HeadersReceived(h) \/ SetRedirect(h) \/ SyncStart(h)
         \/ \E h \in Handle, result \in BOOLEAN : DataDone(h, result)
         \/ SweepStep \/ TransferReturn \/ RemoveTransportHandler \/ Finalize
         \/ StartNext \/ EraseTold \/ EraseQuietly \/ SyncReturn
<1>1. ASSUME NEW h \in Handle, StartLoad(h) \/ CancelLoad(h) \/ AuthProceed(h)
                                 \/ AuthCancel(h) \/ AuthDangling(h) \/ DataReceived(h)
      PROVE  UNCHANGED job
  BY <1>1 DEF StartLoad, CancelLoad, AuthProceed, AuthCancel, AuthDangling, DataReceived
<1>2. \/ TimerFires \/ ClientReturn \/ UriData \/ UriFinish \/ UriDone
      \/ FirstStartDone \/ PassDone \/ AuthTickDone \/ CallbackDone
      \/ SweepTransfer \/ FirstLoopDone \/ TellFailure \/ SecondLoopDone
      \/ HeadersDone \/ DataRest \/ AuthFinish \/ AuthDrop
      \/ SyncProcess \/ SyncTicked \/ TransportHandlerRemoved \/ Finalized
      \/ UNCHANGED vars
      => UNCHANGED job
  BY DEF TimerFires, ClientReturn, UriData, UriFinish, UriDone, FirstStartDone, PassDone,
         AuthTickDone, CallbackDone, SweepTransfer, FirstLoopDone, TellFailure,
         SecondLoopDone, HeadersDone, DataRest, AuthFinish, AuthDrop, SyncProcess,
         SyncTicked, TransportHandlerRemoved, Finalized, vars
<1> QED BY <1>1, <1>2, Zenon DEF Next, Outside, Inside

LEMMA JobMoves ==
  ASSUME IInv, [Next]_vars, NEW g \in Jobs
  PROVE  JobMove(g)
<1>0. /\ TypeOK /\ StackInv(stack, job) /\ job \in [Handle -> JobInfo] /\ g \in Handle
      /\ job[g].state # "None" /\ job[g] \in JobInfo /\ JobsTyped(job)
  BY DEF IInv, TypeOK, Jobs, JobsTyped
<1>k. job'[g] = job[g] => JobMove(g)
  BY DEF JobMove, SameIdentity, SameProgress
<1>t. ASSUME At("transfer") PROVE Top.h \in Handle
  BY <1>0, <1>t, AtInv DEF HandleLabel
<1>1. CASE UNCHANGED job
  BY <1>1, <1>k
<1>2. ASSUME NEW h \in Handle, HeadersReceived(h) \/ SetRedirect(h)
      PROVE  JobMove(g)
  <2>1. CASE SetRedirect(h)
    <3>1. job' = [job EXCEPT ![h].headers = "redirected"]
      BY <2>1 DEF SetRedirect
    <3> QED BY <1>0, <3>1 DEF JobMove, SameIdentity, SameProgress, JobInfo
  <2>2. CASE HeadersReceived(h)
    <3>1. PICK challenged \in BOOLEAN :
            job' = [job EXCEPT ![h].headers = "received",
                               ![h].auth = @ \/ (challenged /\ ~rh[h].cancelled)]
      BY <2>2 DEF HeadersReceived
    <3> QED BY <1>0, <3>1 DEF JobMove, SameIdentity, SameProgress, JobInfo
  <2> QED BY <1>2, <2>1, <2>2
<1>3. ASSUME NEW h \in Handle, NEW result \in BOOLEAN, DataDone(h, result)
      PROVE  JobMove(g)
  <2>1. CASE UNCHANGED job
    BY <2>1, <1>k
  <2>2. CASE /\ ~result /\ condemned'
             /\ job' = [job EXCEPT ![h].success = FALSE, ![h].state = "Remove"]
    <3>1. Top.h = h /\ (g # h => job'[g] = job[g])
      BY <1>0, <1>3, <2>2 DEF DataDone, InTransfer
    <3>2. CASE g = h
      <4>1. /\ job'[g].state = "Remove" /\ job'[g].success = FALSE
            /\ job'[g].init = job[g].init /\ job'[g].shut = job[g].shut
            /\ SameIdentity(g) /\ job'[g].auth = job[g].auth
        BY <1>0, <2>2, <3>2 DEF JobInfo, SameIdentity
      <4> QED BY <1>3, <2>2, <3>1, <3>2, <4>1 DEF JobMove, Failed
    <3> QED BY <3>1, <3>2, <1>k
  <2> QED BY <1>3, <2>1, <2>2 DEF DataDone
<1>4. CASE SweepStep
  <2>1. PICK h \in Handle, ok \in BOOLEAN, complete \in BOOLEAN :
          /\ IsNext(h, FALSE)
          /\ job[h].state \in {"Init", "Connect", "Disconnect", "Shutdown"}
          /\ complete \/ ok
          /\ Settle(h, job[h].state, ok, complete)
    BY <1>4 DEF SweepStep
  <2>2. /\ \A x \in Handle : x # h => job'[x] = job[x]
        /\ SameIdentity(h) /\ Settled(h, job[h].state, ok, complete)
    BY <1>0, <2>1, SettleEffect
  <2>3. CASE g = h
    <3>1. Swept(g)
      BY <1>4, <2>1, <2>2, <2>3 DEF Swept
    <3> QED BY <2>2, <2>3, <3>1 DEF JobMove, Settled
  <2> QED BY <1>0, <1>k, <2>2, <2>3
<1>5. CASE TransferReturn
  <2>1. PICK h \in Handle : h = Top.h
    BY <1>5, <1>t DEF TransferReturn
  <2>2. PICK ok \in BOOLEAN, complete \in BOOLEAN :
          /\ \/ Top.n = 2 /\ ok /\ complete
             \/ Top.n = 3 /\ complete
             \/ Top.n < 2 /\ ok /\ ~complete
             \/ Top.n < 2 /\ ~ok
          /\ Settle(h, "Transfer", ok, complete)
    BY <1>5, <2>1 DEF TransferReturn
  <2>3. /\ \A x \in Handle : x # h => job'[x] = job[x]
        /\ SameIdentity(h) /\ Settled(h, "Transfer", ok, complete)
    BY <1>0, <2>2, SettleEffect
  <2>4. CASE g = h
    <3>1. Transferred(g)
      BY <1>5, <2>1, <2>2, <2>3, <2>4 DEF Transferred
    <3> QED BY <2>3, <2>4, <3>1 DEF JobMove, Settled
  <2> QED BY <1>0, <1>k, <2>3, <2>4
<1>6. CASE RemoveTransportHandler \/ Finalize
  <2>1. PICK jobs \in SUBSET Jobs : Condemn(jobs)
    BY <1>6 DEF RemoveTransportHandler, Finalize
  <2>2. job'[g] = IF g \in jobs THEN [job[g] EXCEPT !.state = "Remove"] ELSE job[g]
    BY <1>0, <2>1 DEF Condemn
  <2>3. CASE g \in jobs
    <3>1. /\ job'[g].state = "Remove" /\ SameIdentity(g) /\ job'[g].auth = job[g].auth
          /\ job'[g].init = job[g].init /\ job'[g].shut = job[g].shut
          /\ job'[g].success = job[g].success
      BY <1>0, <2>2, <2>3 DEF JobInfo, SameIdentity
    <3>2. condemned'
      BY <2>1, <2>3 DEF Condemn
    <3> QED BY <1>6, <3>1, <3>2 DEF JobMove, Doomed
  <2> QED BY <1>k, <2>2, <2>3
<1>7. CASE StartNext
  <2>1. job'[g] = job[g]
    <3>1. Head(queue) \notin Jobs
      BY <1>0, <1>7, TailScheduled, HeadTailProperties
         DEF IInv, PlaceInv, TypeOK, StartNext, CanStart, Scheduled
    <3> QED BY <1>0, <1>7, <3>1 DEF StartNext
  <2> QED BY <1>k, <2>1
<1>8. CASE EraseTold \/ EraseQuietly
  <2>1. PICK h : job' = [job EXCEPT ![h] = NoJob]
    BY <1>8 DEF EraseTold, EraseQuietly, Erase, Forget
  <2>2. job'[g] = job[g] \/ job'[g].state = "None"
    BY <1>0, <2>1 DEF NoJob
  <2> QED BY <1>8, <1>k, <2>2 DEF JobMove
<1>9. ASSUME NEW h \in Handle, SyncStart(h)
      PROVE  JobMove(g)
  <2>1. PICK kind \in Kinds :
          job' = PauseAsyncJobs([job EXCEPT ![h] = NewJob(TRUE, kind)])
    BY <1>9 DEF SyncStart
  <2>2. h # g
    BY <1>0, <1>9 DEF SyncStart, IInv, PlaceInv
  <2>3. /\ [job EXCEPT ![h] = NewJob(TRUE, kind)] \in [Handle -> JobInfo]
        /\ [job EXCEPT ![h] = NewJob(TRUE, kind)][g] = job[g]
    BY <1>0, <2>2, NewJobTyped DEF TypeOK
  <2> DEFINE jobs == [job EXCEPT ![h] = NewJob(TRUE, kind)]
  <2>4. jobs \in [Handle -> JobInfo] /\ jobs[g] = job[g] /\ job' = PauseAsyncJobs(jobs)
    BY <2>1, <2>3
  <2> HIDE DEF jobs
  <2>5. /\ job'[g].id = jobs[g].id /\ job'[g].state = jobs[g].state
        /\ job'[g].success = jobs[g].success /\ job'[g].init = jobs[g].init
        /\ job'[g].shut = jobs[g].shut /\ job'[g].auth = jobs[g].auth
        /\ job'[g].viaApp = jobs[g].viaApp /\ job'[g].sync = jobs[g].sync
        /\ job'[g].kind = jobs[g].kind
    BY <1>0, <2>4, PauseFields
  <2> QED BY <2>4, <2>5 DEF JobMove, SameIdentity, SameProgress
<1>10. CASE SyncReturn
  <2>1. job' = ResumeAsyncJobs(job)
    BY <1>10 DEF SyncReturn
  <2> QED BY <1>0, <2>1, PauseFields DEF JobMove, SameIdentity, SameProgress
<1> QED BY <1>1, <1>2, <1>3, <1>4, <1>5, <1>6, <1>7, <1>8, <1>9, <1>10, JobSteps

LEMMA JobsAdded ==
  ASSUME IInv, [Next]_vars, NEW g \in Handle, g \notin Jobs, g \in Jobs'
  PROVE  JobAdded(g)
<1>0. /\ TypeOK /\ StackInv(stack, job) /\ job \in [Handle -> JobInfo]
      /\ job[g].state = "None" /\ job'[g].state # "None" /\ JobsTyped(job)
  BY DEF IInv, TypeOK, Jobs, JobsTyped
<1>1. ASSUME JobsKept(job, job') PROVE FALSE
  BY <1>0, <1>1 DEF JobsKept, SameJobs
<1>2. CASE StartNext
  <2>1. PICK h \in Handle : h = Head(queue)
    BY <1>0, <1>2, TailScheduled DEF StartNext, CanStart, IInv, TypeOK, PlaceInv
  <2>2. CASE h \in UriHandle
    BY <1>0, <1>2, <2>1, <2>2 DEF StartNext
  <2>3. CASE h \notin UriHandle
    <3>1. PICK kind \in Kinds : job' = [job EXCEPT ![h] = NewJob(FALSE, kind)]
      BY <1>2, <2>1, <2>3 DEF StartNext
    <3>2. nextId' = nextId + 1
      BY <1>2, <2>1, <2>3 DEF StartNext
    <3>3. g = h /\ job'[g] = NewJob(FALSE, kind)
      BY <1>0, <3>1
    <3> DEFINE j == NewJob(FALSE, kind)
    <3>4. /\ j.id = nextId + 1 /\ j.state = "Init" /\ j.success = TRUE
          /\ j.init = FALSE /\ j.shut = FALSE /\ j.auth = FALSE
          /\ j.viaApp => appHandler /\ kind # "file"
          /\ j.kind = kind /\ j.sync = FALSE
      BY NewJobFields
    <3> HIDE DEF j
    <3>5. job'[g] = j
      BY <3>3 DEF j
    <3> QED BY <1>2, <2>1, <2>3, <3>2, <3>3, <3>4, <3>5 DEF JobAdded
  <2> QED BY <2>2, <2>3
<1>3. CASE EraseTold \/ EraseQuietly
  <2>1. PICK h : job' = [job EXCEPT ![h] = NoJob]
    BY <1>3 DEF EraseTold, EraseQuietly, Erase, Forget
  <2> QED BY <1>0, <2>1 DEF NoJob
<1>4. ASSUME NEW h \in Handle, SyncStart(h)
      PROVE  JobAdded(g)
  <2>1. PICK kind \in Kinds :
          job' = PauseAsyncJobs([job EXCEPT ![h] = NewJob(TRUE, kind)])
    BY <1>4 DEF SyncStart
  <2> DEFINE jobs == [job EXCEPT ![h] = NewJob(TRUE, kind)]
  <2>2. jobs \in [Handle -> JobInfo] /\ job' = PauseAsyncJobs(jobs)
    BY <1>0, <2>1, NewJobTyped DEF TypeOK
  <2>3. jobs[g] = IF g = h THEN NewJob(TRUE, kind) ELSE job[g]
    BY <1>0
  <2> HIDE DEF jobs
  <2>4. /\ job'[g].id = jobs[g].id /\ job'[g].state = jobs[g].state
        /\ job'[g].success = jobs[g].success /\ job'[g].init = jobs[g].init
        /\ job'[g].shut = jobs[g].shut /\ job'[g].auth = jobs[g].auth
        /\ job'[g].viaApp = jobs[g].viaApp /\ job'[g].sync = jobs[g].sync
        /\ job'[g].kind = jobs[g].kind
    BY <2>2, PauseFields
  <2>5. g = h /\ jobs[g] = NewJob(TRUE, kind)
    BY <1>0, <2>3, <2>4
  <2>6. nextId' = nextId + 1
    BY <1>4 DEF SyncStart
  <2> DEFINE j == NewJob(TRUE, kind)
  <2>j. /\ j.id = nextId + 1 /\ j.state = "Init" /\ j.success = TRUE
        /\ j.init = FALSE /\ j.shut = FALSE /\ j.auth = FALSE
        /\ j.viaApp => appHandler /\ kind # "file"
        /\ j.kind = kind /\ j.sync = TRUE
    BY NewJobFields
  <2>k. jobs[g] = j
    BY <2>5
  <2> HIDE DEF j
  <2>7. /\ jobs[g].id = nextId + 1 /\ jobs[g].state = "Init" /\ jobs[g].success = TRUE
        /\ jobs[g].init = FALSE /\ jobs[g].shut = FALSE /\ jobs[g].auth = FALSE
        /\ jobs[g].viaApp => appHandler /\ kind # "file"
        /\ jobs[g].kind = kind
        /\ jobs[g].sync = TRUE
    BY <2>j, <2>k
  <2>8. /\ job'[g].viaApp => appHandler /\ job'[g].kind # "file"
        /\ job'[g].kind \in Kinds
    BY <2>4, <2>7
  <2> QED BY <1>4, <2>4, <2>5, <2>6, <2>7, <2>8 DEF JobAdded
<1>5. CASE SyncReturn
  <2>1. job' = ResumeAsyncJobs(job)
    BY <1>5 DEF SyncReturn
  <2> QED BY <1>0, <2>1, PauseFields
<1> QED BY <1>0, <1>1, <1>2, <1>3, <1>4, <1>5, JobSteps, KeptStep

-----------------------------------------------------------------------------
(* What a step does to the stack *)

\* Frames of a Transfer call, and those of the end of a load.
EndingLabel == {"transfer", "finish", "fail", "dispose", "uriDone", "authDrop"}

\* Those, and the second loop.
KnownLabel == EndingLabel \cup {"sweep2"}

\* A Transfer call begins when the first loop comes to its job, and goes on
\* when the handler shows data or says that it is done.
TransferFrame(f) ==
  \/ SweepTransfer /\ IsNext(f.h, FALSE) /\ job[f.h].state = "Transfer" /\ f.n = 0
  \/ /\ At("transfer") /\ f.h = Top.h
     /\ \/ DataReceived(f.h) /\ f.n = 1
        \/ DataDone(f.h, TRUE) /\ f.n = 2
        \/ DataDone(f.h, FALSE) /\ f.n = 3

\* The second loop begins, or goes past a job.
LoopFrame(f) ==
  \/ FirstLoopDone /\ f.n = 0
  \/ \E h \in Handle : IsNext(h, TRUE) /\ f.n = job[h].id /\ (TellFailure \/ EraseQuietly)

\* The functions that tell the end of a load, to a client that was asked for
\* when it was told last.
NewFrame(f) ==
  /\ f.at = "transfer" => TransferFrame(f)
  /\ f.at = "finish" => UriFinish \/ AuthFinish \/ (DataDone(f.h, TRUE) /\ Calls(f.h))
  /\ f.at = "fail" => TellFailure /\ Calls(f.h)
  /\ f.at = "dispose" => TellFailure
  /\ f.at = "uriDone" => UriFinish
  /\ f.at = "authDrop" => AuthFinish
  /\ f.at = "sweep2" => LoopFrame(f)

NewFrames == {f \in FrameType : NewFrame(f)}

StackMove ==
  \/ UNCHANGED stack
  \/ stack # << >> /\ Return
  \/ \E f \in NewFrames : Call(f)
  \/ stack # << >> /\ \E f \in NewFrames : Become(f)
  \/ stack # << >> /\ \E f, g \in NewFrames : CallThen(f, g)
  \/ \E f, g \in NewFrames : stack' = <<f, g>> \o stack
  \/ stack # << >> /\ \E f, g, k \in NewFrames : stack' = <<f, g, k>> \o Tail(stack)

LEMMA OtherFrame ==
  ASSUME NEW f \in FrameType, f.at \notin KnownLabel
  PROVE  f \in NewFrames
BY DEF NewFrames, NewFrame, KnownLabel, EndingLabel

LEMMA HandleFrames ==
  ASSUME NEW h \in Handle
  PROVE  /\ Frame("response", h) \in NewFrames
         /\ Frame("redirect", h) \in NewFrames
         /\ Frame("data", h) \in NewFrames
         /\ Frame("uriData", h) \in NewFrames
         /\ Frame("uriFinish", h) \in NewFrames
         /\ Frame("headersDone", h) \in NewFrames
         /\ Frame("dataRest", h) \in NewFrames
         /\ Frame("authFinish", h) \in NewFrames
         /\ Frame("sync", h) \in NewFrames
<1>1. \A l : Frame(l, h).at = l
  BY DEF Frame
<1> QED BY <1>1, HandleFrameTyped, OtherFrame DEF KnownLabel, EndingLabel

LEMMA EndingFrames ==
  ASSUME NEW h \in Handle
  PROVE  /\ UriFinish => Frame("finish", h) \in NewFrames /\ Frame("uriDone", h) \in NewFrames
         /\ AuthFinish => Frame("finish", h) \in NewFrames /\ Frame("authDrop", h) \in NewFrames
         /\ TellFailure => Frame("dispose", h) \in NewFrames
         /\ TellFailure /\ Calls(h) => Frame("fail", h) \in NewFrames
         /\ DataDone(h, TRUE) /\ Calls(h) => Frame("finish", h) \in NewFrames
<1>1. ASSUME NEW f \in FrameType, f.at \in EndingLabel, f.h = h
      PROVE  /\ f.at = "finish" =>
                  (f \in NewFrames <=> UriFinish \/ AuthFinish \/ (DataDone(h, TRUE) /\ Calls(h)))
             /\ f.at = "fail" => (f \in NewFrames <=> TellFailure /\ Calls(h))
             /\ f.at = "dispose" => (f \in NewFrames <=> TellFailure)
             /\ f.at = "uriDone" => (f \in NewFrames <=> UriFinish)
             /\ f.at = "authDrop" => (f \in NewFrames <=> AuthFinish)
  BY <1>1 DEF NewFrames, NewFrame, EndingLabel
<1>2. ASSUME NEW l \in EndingLabel
      PROVE  Frame(l, h) \in FrameType /\ Frame(l, h).at = l /\ Frame(l, h).h = h
  BY <1>2, HandleFrameTyped DEF EndingLabel, Frame
<1> QED BY <1>1, <1>2 DEF EndingLabel

LEMMA PlainFrames ==
  /\ Frame("start1", NoHandle) \in NewFrames
  /\ Frame("afterPass", NoHandle) \in NewFrames
  /\ Frame("auth", NoHandle) \in NewFrames
  /\ Frame("start2", NoHandle) \in NewFrames
  /\ Frame("sweep1", NoHandle) \in NewFrames
  /\ Frame("removeHandler", NoHandle) \in NewFrames
  /\ Frame("finalize", NoHandle) \in NewFrames
<1>1. \A l : Frame(l, NoHandle).at = l
  BY DEF Frame
<1> QED BY <1>1, PlainFrameTyped, OtherFrame DEF KnownLabel, EndingLabel

\* The top frame, not of a Transfer call, with other local values.
LEMMA UpdatedFrame ==
  ASSUME TypeOK, NEW l, At(l), l \notin KnownLabel
  PROVE  /\ stack # << >> /\ Top \in FrameType /\ Top.at = l
         /\ \A n \in Nat : [Top EXCEPT !.n = n] \in NewFrames
         /\ \A b \in BOOLEAN : [Top EXCEPT !.b = b] \in NewFrames
<1>1. stack # << >> /\ Top \in FrameType /\ Top.at = l
  BY AtTyped DEF TypeOK
<1>2. /\ \A n \in Nat : /\ [Top EXCEPT !.n = n] \in FrameType
                        /\ [Top EXCEPT !.n = n].at = l
      /\ \A b \in BOOLEAN : /\ [Top EXCEPT !.b = b] \in FrameType
                            /\ [Top EXCEPT !.b = b].at = l
  BY <1>1, FrameUpdate DEF FrameType
<1>3. ASSUME NEW n \in Nat PROVE [Top EXCEPT !.n = n] \in NewFrames
  <2>1. [Top EXCEPT !.n = n] \in FrameType /\ [Top EXCEPT !.n = n].at \notin KnownLabel
    BY <1>2
  <2> QED BY <2>1, OtherFrame, Zenon
<1>4. ASSUME NEW b \in BOOLEAN PROVE [Top EXCEPT !.b = b] \in NewFrames
  <2>1. [Top EXCEPT !.b = b] \in FrameType /\ [Top EXCEPT !.b = b].at \notin KnownLabel
    BY <1>2
  <2> QED BY <2>1, OtherFrame, Zenon
<1> QED BY <1>1, <1>3, <1>4

\* Every step returns from functions, calls some, or neither.
LEMMA StackMoves ==
  ASSUME TypeOK, [Next]_vars
  PROVE  StackMove
<1>a. ASSUME NEW l \in HandleLabel, At(l)
      PROVE  stack # << >> /\ Top \in FrameType /\ Top.h \in Handle /\ Top.at = l
  BY <1>a, AtTyped, AtHandle DEF TypeOK
<1>b. ASSUME NEW l, At(l) PROVE stack # << >>
  BY <1>b DEF At
<1>1. ASSUME NEW h \in Handle, StartLoad(h) \/ CancelLoad(h) PROVE StackMove
  BY <1>1 DEF StackMove, StartLoad, CancelLoad
<1>2. ASSUME NEW h \in Handle, SyncStart(h) PROVE StackMove
  BY <1>2, HandleFrames DEF StackMove, SyncStart
<1>3. ASSUME NEW h \in Handle, HeadersReceived(h) PROVE StackMove
  BY <1>3, HandleFrames DEF StackMove, HeadersReceived
<1>4. ASSUME NEW h \in Handle, SetRedirect(h) PROVE StackMove
  BY <1>4, HandleFrames DEF StackMove, SetRedirect
<1>5. CASE RemoveTransportHandler \/ Finalize
  <2>1. stack = << >>
    BY <1>5 DEF RemoveTransportHandler, Finalize, Idle
  <2>2. \E f, g \in NewFrames : stack' = <<f, g>>
    BY <1>5, PlainFrames DEF RemoveTransportHandler, Finalize
  <2>3. PICK f \in NewFrames, g \in NewFrames : stack' = <<f, g>>
    BY <2>2
  <2>4. stack' = <<f, g>> \o stack
    BY <2>1, <2>3
  <2> QED BY <2>4 DEF StackMove
<1>6. CASE TimerFires
  BY <1>6, PlainFrames DEF StackMove, TimerFires
<1>7. CASE \/ ClientReturn \/ UriDone \/ CallbackDone \/ SecondLoopDone \/ EraseTold
           \/ HeadersDone \/ TransferReturn \/ AuthDrop \/ SyncReturn
           \/ TransportHandlerRemoved \/ Finalized
  <2>1. Return /\ stack # << >>
    BY <1>7, <1>b DEF ClientReturn, UriDone, CallbackDone, SecondLoopDone, EraseTold,
         HeadersDone, TransferReturn, AuthDrop, SyncReturn, TransportHandlerRemoved, Finalized
  <2> QED BY <2>1 DEF StackMove
<1>8. CASE StartNext
  <2>1. PICK l \in {"start1", "start2"} : At(l)
    BY <1>8 DEF StartNext
  <2>2. stack # << >> /\ [Top EXCEPT !.b = TRUE] \in NewFrames
    BY <2>1, UpdatedFrame DEF KnownLabel, EndingLabel
  <2>3. queue # << >> /\ queue \in Seq(Handle) /\ Head(queue) \in Handle
    BY <1>8 DEF StartNext, CanStart, TypeOK
  <2>4. CASE Head(queue) \in UriHandle
    <3>1. stack' = <<Frame("response", Head(queue)), Frame("uriData", Head(queue)),
                     [Top EXCEPT !.b = TRUE]>> \o Tail(stack)
      BY <1>8, <2>4 DEF StartNext
    <3> QED BY <2>2, <2>3, <3>1, HandleFrames DEF StackMove
  <2>5. CASE Head(queue) \notin UriHandle
    <3>1. Become([Top EXCEPT !.b = TRUE])
      BY <1>8, <2>5 DEF StartNext
    <3> QED BY <2>2, <3>1 DEF StackMove
  <2> QED BY <2>4, <2>5
<1>9. CASE UriData \/ UriFinish
  <2>1. Top.h \in Handle /\ stack # << >>
    BY <1>9, <1>a DEF UriData, UriFinish, HandleLabel, UriLabel
  <2> QED BY <1>9, <2>1, HandleFrames, EndingFrames DEF StackMove, UriData, UriFinish
<1>10. CASE FirstStartDone \/ SyncProcess
  <2>1. CASE FirstStartDone
    BY <2>1, <1>b, PlainFrames DEF StackMove, FirstStartDone
  <2>2. CASE SyncProcess
    BY <2>2, UpdatedFrame, PlainFrames DEF StackMove, SyncProcess, KnownLabel, EndingLabel
  <2> QED BY <1>10, <2>1, <2>2
<1>11. CASE PassDone
  <2> DEFINE f == [Frame("auth", NoHandle) EXCEPT !.b = Jobs # {}]
  <2>1. f \in FrameType /\ f.at = "auth"
    BY PlainFrameTyped DEF Frame, FrameType, PlainLabel
  <2>2. f \in NewFrames
    BY <2>1, OtherFrame DEF KnownLabel, EndingLabel
  <2> QED BY <1>11, <1>b, <2>2 DEF StackMove, PassDone
<1>12. CASE AuthTickDone
  <2> DEFINE f == [Frame("start2", NoHandle) EXCEPT !.b = Top.b]
  <2>1. Top \in FrameType /\ stack # << >>
    BY <1>12, AtTyped DEF AuthTickDone, TypeOK
  <2>2. f \in FrameType /\ f.at = "start2"
    BY <2>1, PlainFrameTyped, FrameUpdate DEF Frame, FrameType, PlainLabel
  <2>3. f \in NewFrames
    BY <2>2, OtherFrame DEF KnownLabel, EndingLabel
  <2> QED BY <1>12, <2>1, <2>3 DEF StackMove, AuthTickDone
<1>s. ASSUME At("sweep2"), TellFailure \/ EraseQuietly, NEW h \in Handle, IsNext(h, TRUE)
      PROVE  stack # << >> /\ [Top EXCEPT !.n = job[h].id] \in NewFrames
  <2> DEFINE f == [Top EXCEPT !.n = job[h].id]
  <2>1. job[h].id \in Nat
    BY DEF TypeOK, JobInfo
  <2>2. stack # << >> /\ f \in FrameType /\ f.at = "sweep2" /\ f.n = job[h].id
    BY <1>s, <2>1, AtTyped, FrameUpdate DEF FrameType, TypeOK
  <2> HIDE DEF f
  <2>3. NewFrame(f)
    BY <1>s, <2>2 DEF NewFrame, LoopFrame
  <2> QED BY <2>2, <2>3 DEF NewFrames, f
<1>13. CASE SweepStep \/ EraseQuietly
  <2>1. CASE SweepStep
    <3>1. stack # << >> /\ \A n \in Nat : [Top EXCEPT !.n = n] \in NewFrames
      BY <2>1, UpdatedFrame DEF SweepStep, KnownLabel, EndingLabel
    <3>2. PICK h \in Handle : Become([Top EXCEPT !.n = job[h].id])
      BY <2>1 DEF SweepStep
    <3>3. job[h].id \in Nat
      BY DEF TypeOK, JobInfo
    <3> QED BY <3>1, <3>2, <3>3 DEF StackMove
  <2>2. CASE EraseQuietly
    <3>1. PICK h \in Handle : IsNext(h, TRUE) /\ Become([Top EXCEPT !.n = job[h].id])
      BY <2>2 DEF EraseQuietly
    <3>2. At("sweep2")
      BY <2>2 DEF EraseQuietly
    <3> QED BY <1>s, <2>2, <3>1, <3>2 DEF StackMove
  <2> QED BY <1>13, <2>1, <2>2
<1>14. CASE SweepTransfer
  <2>1. PICK h \in Handle : /\ IsNext(h, FALSE) /\ job[h].state = "Transfer"
                            /\ CallThen(Frame("transfer", h), [Top EXCEPT !.n = job[h].id])
    BY <1>14 DEF SweepTransfer
  <2>2. stack # << >> /\ [Top EXCEPT !.n = job[h].id] \in NewFrames
    <3>1. job[h].id \in Nat
      BY DEF TypeOK, JobInfo
    <3> QED BY <1>14, <3>1, UpdatedFrame DEF SweepTransfer, KnownLabel, EndingLabel
  <2>3. Frame("transfer", h) \in NewFrames
    <3>1. /\ Frame("transfer", h).at = "transfer"
          /\ Frame("transfer", h).h = h /\ Frame("transfer", h).n = 0
      BY DEF Frame
    <3> QED BY <1>14, <2>1, <3>1, HandleFrameTyped DEF NewFrames, NewFrame, TransferFrame
  <2> QED BY <2>1, <2>2, <2>3 DEF StackMove
<1>15. CASE FirstLoopDone
  <2> DEFINE f == Frame("sweep2", NoHandle)
  <2>1. f \in FrameType /\ f.at = "sweep2" /\ f.n = 0
    BY PlainFrameTyped DEF Frame
  <2> HIDE DEF f
  <2>2. f \in NewFrames
    BY <1>15, <2>1 DEF NewFrames, NewFrame, LoopFrame
  <2> QED BY <1>15, <1>b, <2>2 DEF StackMove, FirstLoopDone, f
<1>16. CASE TellFailure
  <2>1. PICK h \in Handle :
          /\ stack' = <<Frame("fail", h), Frame("dispose", h), [Top EXCEPT !.n = job[h].id]>>
                         \o Tail(stack)
          /\ IsNext(h, TRUE) /\ Calls(h) /\ At("sweep2")
    BY <1>16 DEF TellFailure
  <2>2. stack # << >> /\ [Top EXCEPT !.n = job[h].id] \in NewFrames
    BY <1>16, <1>s, <2>1
  <2> QED BY <1>16, <2>1, <2>2, EndingFrames DEF StackMove
<1>17. ASSUME NEW h \in Handle, DataReceived(h) PROVE StackMove
  <2>1. At("transfer") /\ Top.h = h /\ stack # << >> /\ Top \in FrameType
    BY <1>17, <1>a DEF DataReceived, InTransfer, HandleLabel
  <2>2. Progress(1) \in NewFrames
    <3>1. /\ Progress(1) \in FrameType /\ Progress(1).at = "transfer"
          /\ Progress(1).n = 1 /\ Progress(1).h = h
      BY <2>1, FrameUpdate DEF Progress, FrameType, At
    <3> QED BY <1>17, <2>1, <3>1 DEF NewFrames, NewFrame, TransferFrame
  <2>3. \/ stack' = <<Frame("response", h), Frame("dataRest", h), Progress(1)>> \o Tail(stack)
        \/ CallThen(Frame("data", h), Progress(1))
        \/ Become(Progress(1))
    BY <1>17 DEF DataReceived
  <2> QED BY <2>1, <2>2, <2>3, HandleFrames DEF StackMove
<1>18. ASSUME NEW h \in Handle, NEW result \in BOOLEAN, DataDone(h, result) PROVE StackMove
  <2>1. At("transfer") /\ Top.h = h /\ stack # << >> /\ Top \in FrameType
    BY <1>18, <1>a DEF DataDone, InTransfer, HandleLabel
  <2> DEFINE f == Progress(IF result THEN 2 ELSE 3)
  <2>2. f \in NewFrames
    <3>1. /\ f \in FrameType /\ f.at = "transfer"
          /\ f.n = (IF result THEN 2 ELSE 3) /\ f.h = h
      BY <2>1, FrameUpdate DEF Progress, FrameType, At
    <3>2. CASE result
      BY <1>18, <2>1, <3>1, <3>2 DEF NewFrames, NewFrame, TransferFrame
    <3>3. CASE ~result
      BY <1>18, <2>1, <3>1, <3>3 DEF NewFrames, NewFrame, TransferFrame
    <3> QED BY <3>2, <3>3
  <2>3. (result /\ Calls(h) /\ CallThen(Frame("finish", h), f)) \/ Become(f)
    BY <1>18 DEF DataDone
  <2> HIDE DEF f
  <2>4. result /\ Calls(h) => Frame("finish", h) \in NewFrames
    BY <1>18, EndingFrames
  <2> QED BY <2>1, <2>2, <2>3, <2>4 DEF StackMove
<1>19. CASE DataRest
  <2>1. Top.h \in Handle /\ stack # << >>
    BY <1>19, <1>a DEF DataRest, HandleLabel
  <2> QED BY <1>19, <2>1, HandleFrames DEF StackMove, DataRest
<1>20. ASSUME NEW h \in Handle, AuthProceed(h) \/ AuthCancel(h) \/ AuthDangling(h)
       PROVE  StackMove
  BY <1>20, HandleFrames DEF StackMove, AuthProceed, AuthCancel, AuthDangling
<1>21. CASE AuthFinish
  <2>1. Top.h \in Handle /\ stack # << >>
    BY <1>21, <1>a DEF AuthFinish, HandleLabel
  <2> QED BY <1>21, <2>1, EndingFrames DEF StackMove, AuthFinish
<1>22. CASE SyncTicked
  <2>1. stack # << >> /\ [Top EXCEPT !.b = FALSE] \in NewFrames
    BY <1>22, UpdatedFrame DEF SyncTicked, KnownLabel, EndingLabel
  <2> QED BY <1>22, <2>1 DEF StackMove, SyncTicked
<1>23. CASE UNCHANGED vars
  BY <1>23 DEF StackMove, vars
<1> QED
  BY <1>1, <1>2, <1>3, <1>4, <1>5, <1>6, <1>7, <1>8, <1>9, <1>10, <1>11, <1>12, <1>13,
     <1>14, <1>15, <1>16, <1>17, <1>18, <1>19, <1>20, <1>21, <1>22, <1>23, Zenon
     DEF Next, Outside, Inside

\* A frame after the step was there before, or is new.
LEMMA FrameOrigin ==
  ASSUME TypeOK, [Next]_vars, NEW k \in 1..Len(stack')
  PROVE  stack'[k] \in NewFrames \/ \E j \in 1..Len(stack) : stack'[k] = stack[j]
<1>0. stack \in Seq(FrameType) /\ Len(stack) \in Nat /\ NewFrames \subseteq FrameType
  BY LenProperties DEF TypeOK, NewFrames
<1>t. stack # << >> => /\ Tail(stack) \in Seq(FrameType)
                       /\ \A i \in 1..Len(Tail(stack)) :
                            \E j \in 1..Len(stack) : Tail(stack)[i] = stack[j]
  <2>1. ASSUME stack # << >>, NEW i \in 1..Len(Tail(stack))
        PROVE  i + 1 \in 1..Len(stack) /\ Tail(stack)[i] = stack[i + 1]
    BY <1>0, <2>1, Popped
  <2> QED BY <1>0, <2>1, Popped
<1>p. ASSUME NEW s \in Seq(FrameType), NEW f \in NewFrames, NEW i \in 1..Len(<<f>> \o s)
      PROVE  (<<f>> \o s)[i] = f \/ \E j \in 1..Len(s) : (<<f>> \o s)[i] = s[j]
  <2>1. /\ Len(<<f>> \o s) = Len(s) + 1 /\ Len(s) \in Nat /\ (<<f>> \o s)[1] = f
        /\ \A m \in 2..Len(<<f>> \o s) : (<<f>> \o s)[m] = s[m - 1]
    BY <1>0, <1>p, Pushed
  <2> QED BY <1>p, <2>1
<1>q. ASSUME NEW s \in Seq(FrameType), NEW f \in NewFrames
      PROVE  <<f>> \o s \in Seq(FrameType)
  BY <1>0, <1>q, Pushed
<1>1. CASE UNCHANGED stack
  BY <1>1
<1>2. CASE stack # << >> /\ Return
  BY <1>t, <1>2 DEF Return
<1>3. CASE \E f \in NewFrames : Call(f)
  <2>1. PICK f \in NewFrames : stack' = <<f>> \o stack
    BY <1>3 DEF Call
  <2> QED BY <1>0, <1>p, <2>1
<1>4. CASE stack # << >> /\ \E f \in NewFrames : Become(f)
  <2>1. PICK f \in NewFrames : stack' = <<f>> \o Tail(stack)
    BY <1>4 DEF Become
  <2> QED BY <1>p, <1>t, <1>4, <2>1
<1>5. CASE stack # << >> /\ \E f, g \in NewFrames : CallThen(f, g)
  <2>1. PICK f \in NewFrames, g \in NewFrames : stack' = <<f, g>> \o Tail(stack)
    BY <1>5 DEF CallThen
  <2> DEFINE s == <<g>> \o Tail(stack)
  <2>2. s \in Seq(FrameType) /\ stack' = <<f>> \o s
    BY <1>0, <1>t, <1>5, <1>q, <2>1, PushedTwo
  <2>3. \A i \in 1..Len(s) : s[i] = g \/ \E j \in 1..Len(Tail(stack)) : s[i] = Tail(stack)[j]
    BY <1>p, <1>t, <1>5
  <2> HIDE DEF s
  <2>4. stack'[k] = f \/ \E j \in 1..Len(s) : stack'[k] = s[j]
    BY <1>p, <2>2
  <2> QED BY <1>t, <1>5, <2>3, <2>4
<1>6. CASE \E f, g \in NewFrames : stack' = <<f, g>> \o stack
  <2>1. PICK f \in NewFrames, g \in NewFrames : stack' = <<f, g>> \o stack
    BY <1>6
  <2> DEFINE s == <<g>> \o stack
  <2>2. s \in Seq(FrameType) /\ stack' = <<f>> \o s
    BY <1>0, <1>q, <2>1, PushedTwo
  <2>3. \A i \in 1..Len(s) : s[i] = g \/ \E j \in 1..Len(stack) : s[i] = stack[j]
    BY <1>0, <1>p
  <2> HIDE DEF s
  <2>4. stack'[k] = f \/ \E j \in 1..Len(s) : stack'[k] = s[j]
    BY <1>p, <2>2
  <2> QED BY <2>3, <2>4
<1>7. CASE stack # << >> /\ \E f, g, h \in NewFrames : stack' = <<f, g, h>> \o Tail(stack)
  <2>1. PICK f \in NewFrames, g \in NewFrames, h \in NewFrames :
          stack' = <<f, g, h>> \o Tail(stack)
    BY <1>7
  <2> DEFINE r == Tail(stack)
             s == <<h>> \o r
             t == <<g>> \o s
  <2>2. r \in Seq(FrameType) /\ s \in Seq(FrameType)
    BY <1>t, <1>7, <1>q
  <2>3. stack' = <<f>> \o t
    <3>1. ThreePushes(Tail(stack), f, g, h)
      BY <1>0, <1>t, <1>7, PushedThree
    <3> QED BY <2>1, <3>1, Zenon DEF ThreePushes
  <2>4. \A i \in 1..Len(s) : s[i] = h \/ \E j \in 1..Len(r) : s[i] = r[j]
    BY <1>p, <2>2
  <2> HIDE DEF s
  <2>5. t \in Seq(FrameType) /\ \A i \in 1..Len(t) : t[i] = g \/ \E j \in 1..Len(s) : t[i] = s[j]
    BY <1>p, <1>q, <2>2
  <2> HIDE DEF t
  <2>6. stack'[k] = f \/ \E j \in 1..Len(t) : stack'[k] = t[j]
    BY <1>p, <2>3, <2>5
  <2>7. \A i \in 1..Len(r) : \E j \in 1..Len(stack) : r[i] = stack[j]
    BY <1>t, <1>7
  <2> QED BY <2>4, <2>5, <2>6, <2>7
<1> QED BY <1>1, <1>2, <1>3, <1>4, <1>5, <1>6, <1>7, StackMoves DEF StackMove

-----------------------------------------------------------------------------
(* Every handler that was initialized is shut down *)

\* The handlers' sessions: one is open from a successful InitJob to
\* the first ShutdownJob that succeeds, a job that was shut down is in its last
\* state or condemned, and no Transfer call of such a job is in progress.
ShutInv ==
  /\ \A h \in open : h \in Jobs /\ job[h].init /\ ~job[h].shut
  /\ \A h \in Jobs : job[h].shut => job[h].state \in {"Shutdown", "Remove"}
  /\ \A k \in 1..Len(stack) : stack[k].at = "transfer" => ~job[stack[k].h].shut

\* A sweep does not come to a job that a frame below it works for.
LEMMA HeldAside ==
  ASSUME IInv, At("sweep1") \/ At("sweep2"),
         NEW k \in 1..Len(stack), stack[k].at \in Holder
  PROVE  \A removing \in BOOLEAN : stack[k].h \notin Ahead(removing)
<1>1. TypeOK /\ StackInv(stack, job)
  BY DEF IInv
<1>2. stack # << >> /\ 1 \in 1..Len(stack) /\ stack[1].at \in {"sweep1", "sweep2"}
      /\ stack[k] \in FrameType
  <2>1. PICK l \in {"sweep1", "sweep2"} : At(l)
    OBVIOUS
  <2> QED BY <1>1, <2>1, AtInv, LenProperties DEF TypeOK, FrameType
<1>3. stack[k].h \in Handle
  BY <1>2 DEF FrameType, Holder, PlainLabel
<1>4. \E i \in 1..(k - 1) : stack[i].at = "sync"
  <2>1. 1 < k /\ {"sweep1", "sweep2"} \cap (Quiet \cup Holder) = {}
    BY <1>2 DEF Quiet, Holder, ClientLabel
  <2> QED BY <1>1, <1>2, <2>1 DEF StackInv, AboveHolder
<1>5. HasSync(stack)
  BY <1>4 DEF HasSync
<1>6. job[stack[k].h].state # "None" => job[stack[k].h].paused
  BY <1>1, <1>3, <1>4, <1>5 DEF StackInv, HeldJobs, PausedInSync
<1> QED BY <1>6 DEF Ahead, Jobs

LEMMA OpenSteps ==
  ASSUME [Next]_vars
  PROVE  UNCHANGED open \/ SweepStep \/ EraseTold \/ EraseQuietly
<1>1. ASSUME NEW h \in Handle,
             \/ StartLoad(h) \/ CancelLoad(h) \/ SyncStart(h) \/ HeadersReceived(h)
             \/ SetRedirect(h) \/ AuthProceed(h) \/ AuthCancel(h) \/ AuthDangling(h)
             \/ DataReceived(h) \/ DataDone(h, TRUE) \/ DataDone(h, FALSE)
      PROVE  UNCHANGED open
  BY <1>1 DEF StartLoad, CancelLoad, SyncStart, HeadersReceived, SetRedirect,
     AuthProceed, AuthCancel, AuthDangling, DataReceived, DataDone
<1>2. ASSUME \/ RemoveTransportHandler \/ Finalize \/ TimerFires \/ ClientReturn
             \/ UriData \/ UriFinish \/ UriDone \/ FirstStartDone \/ PassDone
             \/ AuthTickDone \/ CallbackDone \/ StartNext
      PROVE  UNCHANGED open
  BY <1>2 DEF RemoveTransportHandler, Finalize, TimerFires, ClientReturn, UriData,
     UriFinish, UriDone, FirstStartDone, PassDone, AuthTickDone, CallbackDone, StartNext
<1>3. ASSUME \/ SweepTransfer \/ FirstLoopDone \/ TellFailure \/ SecondLoopDone
             \/ HeadersDone \/ DataRest \/ AuthFinish \/ AuthDrop \/ TransferReturn
             \/ SyncProcess \/ SyncTicked \/ SyncReturn \/ TransportHandlerRemoved
             \/ Finalized \/ UNCHANGED vars
      PROVE  UNCHANGED open
  BY <1>3 DEF SweepTransfer, FirstLoopDone, TellFailure, SecondLoopDone, HeadersDone,
     DataRest, AuthFinish, AuthDrop, TransferReturn, SyncProcess, SyncTicked, SyncReturn,
     TransportHandlerRemoved, Finalized, vars
<1>4. ASSUME NEW h \in Handle, NEW result \in BOOLEAN, DataDone(h, result)
      PROVE  DataDone(h, TRUE) \/ DataDone(h, FALSE)
  BY <1>4
<1> QED BY <1>1, <1>2, <1>3, <1>4, Zenon DEF Next, Outside, Inside

\* The last two parts of ShutInv first: the first one needs them.
LEMMA ShutStays ==
  ASSUME IInv, ShutInv, [Next]_vars, NEW g \in Jobs', job'[g].shut
  PROVE  job'[g].state \in {"Shutdown", "Remove"}
<1>0. g \in Handle
  BY DEF Jobs
<1>1. CASE g \notin Jobs
  BY <1>0, <1>1, JobsAdded DEF JobAdded
<1>2. CASE g \in Jobs
  <2>1. JobMove(g) /\ job'[g].state # "None" 
        /\ (job[g].shut => job[g].state \in {"Shutdown", "Remove"})
    BY <1>2, JobMoves DEF ShutInv, Jobs
  <2>2. CASE SameProgress(g)
    BY <2>1, <2>2 DEF SameProgress
  <2>3. CASE Swept(g)
    <3>1. job[g].state # "Remove"
      BY <2>3 DEF Swept
    <3>2. PICK ok \in BOOLEAN, complete \in BOOLEAN :
            /\ complete \/ ok
            /\ Settled(g, job[g].state, ok, complete)
      BY <2>3 DEF Swept
    <3>3. job[g].state = "Shutdown"
      BY <2>1, <3>1, <3>2 DEF Settled
    <3> QED BY <3>2, <3>3 DEF Settled, After
  <2>4. CASE Transferred(g)
    <3>1. At("transfer") /\ Top.h = g /\ job'[g].shut = job[g].shut
      BY <2>4 DEF Transferred, TransferReturn, Settled
    <3>2. stack # << >> /\ stack \in Seq(FrameType) /\ Top = stack[1] /\ stack[1].at = "transfer"
      BY <3>1, AtInv DEF IInv
    <3>3. ~job[g].shut
      BY <3>1, <3>2, LenProperties DEF ShutInv
    <3> QED BY <3>1, <3>3
  <2>5. CASE Failed(g) \/ Doomed(g)
    BY <2>5 DEF Failed, Doomed
  <2> QED BY <2>1, <2>2, <2>3, <2>4, <2>5 DEF JobMove
<1> QED BY <1>1, <1>2

LEMMA TransferUnshut ==
  ASSUME IInv, IInv', ShutInv, [Next]_vars,
         NEW k \in 1..Len(stack'), stack'[k].at = "transfer"
  PROVE  ~job'[stack'[k].h].shut
<1>0. /\ TypeOK /\ StackInv(stack, job) /\ job \in [Handle -> JobInfo]
      /\ stack \in Seq(FrameType) /\ stack' \in Seq(FrameType)
      /\ HeldJobs(stack', job')
  BY DEF IInv, TypeOK, StackInv
<1>1. PICK g \in Handle : g = stack'[k].h
  BY <1>0 DEF FrameType, PlainLabel
<1>2. g \in Jobs' /\ job'[g].state # "None"
  BY <1>0, <1>1 DEF HeldJobs, Holder, Jobs
<1>3. CASE stack'[k] \in NewFrames
  <2>1. NewFrame(stack'[k])
    BY <1>3 DEF NewFrames
  <2>2. CASE SweepTransfer /\ IsNext(g, FALSE) /\ job[g].state = "Transfer"
    <3>1. g \in Jobs /\ UNCHANGED job
      BY <2>2 DEF SweepTransfer, IsNext, Ahead
    <3> QED BY <1>1, <2>2, <3>1 DEF ShutInv
  <2>3. CASE At("transfer") /\ g = Top.h
             /\ (DataReceived(g) \/ DataDone(g, TRUE) \/ DataDone(g, FALSE))
    <3>1. stack # << >> /\ Top = stack[1] /\ stack[1].at = "transfer"
      BY <1>0, <2>3, AtInv
    <3>2. ~job[g].shut
      BY <1>0, <2>3, <3>1, LenProperties DEF ShutInv
    <3>3. UNCHANGED job \/ job' = [job EXCEPT ![g].success = FALSE, ![g].state = "Remove"]
      BY <2>3 DEF DataReceived, DataDone
    <3>4. job'[g].shut = job[g].shut
      BY <1>0, <3>3 DEF JobInfo
    <3> QED BY <1>1, <3>2, <3>4
  <2> QED BY <1>0, <1>1, <2>1, <2>2, <2>3 DEF NewFrame, TransferFrame
<1>4. CASE \E j \in 1..Len(stack) : stack'[k] = stack[j]
  <2>1. PICK j \in 1..Len(stack) : stack'[k] = stack[j]
    BY <1>4
  <2>2. stack[j].at = "transfer" /\ stack[j].h = g /\ ~job[g].shut
    BY <1>1, <2>1 DEF ShutInv
  <2>3. g \in Jobs
    BY <1>0, <2>2 DEF StackInv, HeldJobs, Holder, Jobs
  <2>4. JobMove(g)
    BY <2>3, JobMoves
  <2>5. ~Swept(g)
    BY <2>2, HeldAside DEF Swept, SweepStep, IsNext, Holder
  <2>6. ~job'[g].shut
    BY <1>2, <2>2, <2>4, <2>5 DEF JobMove, SameProgress, Transferred, Settled, Failed, Doomed
  <2> QED BY <1>1, <2>6
<1> QED BY <1>0, <1>3, <1>4, FrameOrigin

LEMMA OpenStays ==
  ASSUME IInv, ShutInv, [Next]_vars, NEW g \in open'
  PROVE  g \in Jobs' /\ job'[g].init /\ ~job'[g].shut
<1>0. /\ TypeOK /\ job \in [Handle -> JobInfo] /\ open \subseteq Handle
      /\ \A h \in open : h \in Jobs /\ job[h].init /\ ~job[h].shut
      /\ \A h \in Jobs : h \in Handle /\ job[h].state # "None"
  BY DEF IInv, TypeOK, ShutInv, Jobs
<1>1. CASE SweepStep
  <2>1. PICK h \in Handle, ok \in BOOLEAN, complete \in BOOLEAN :
          /\ IsNext(h, FALSE)
          /\ job[h].state \in {"Init", "Connect", "Disconnect", "Shutdown"}
          /\ Settle(h, job[h].state, ok, complete)
          /\ open' = IF job[h].state = "Init" /\ ok THEN open \cup {h}
                     ELSE IF job[h].state = "Shutdown" THEN open \ {h}
                     ELSE open
    BY <1>1 DEF SweepStep
  <2>2. /\ \A x \in Handle : x # h => job'[x] = job[x]
        /\ Settled(h, job[h].state, ok, complete)
    BY <1>0, <2>1, SettleEffect
  <2>3. CASE g = h
    <3>1. h \in Jobs
      BY <2>1 DEF IsNext, Ahead
    <3>2. job'[h].state # "None"
      BY <2>1, <2>2, AfterTyped DEF Settled, After
    <3>3. \/ job[h].state = "Init" /\ ok
          \/ job[h].state # "Shutdown" /\ h \in open
      BY <2>1, <2>3
    <3>4. ~job[h].shut
      BY <1>0, <3>1, <3>3 DEF ShutInv
    <3>5. job'[h].init /\ ~job'[h].shut
      BY <1>0, <2>2, <3>1, <3>3, <3>4 DEF Settled
    <3> QED BY <2>3, <3>2, <3>5 DEF Jobs
  <2>4. CASE g # h
    <3>1. g \in open
      BY <2>1, <2>4
    <3> QED BY <1>0, <2>2, <2>4, <3>1 DEF Jobs
  <2> QED BY <2>3, <2>4
<1>2. CASE EraseTold \/ EraseQuietly
  <2>1. PICK h : Erase(h)
    BY <1>2 DEF EraseTold, EraseQuietly
  <2>2. g \in open /\ g # h
    BY <1>0, <2>1 DEF Erase, ShutdownDue
  <2>3. job'[g] = job[g]
    BY <1>0, <2>1, <2>2 DEF Erase, Forget
  <2> QED BY <1>0, <2>2, <2>3 DEF Jobs
<1>3. CASE UNCHANGED open /\ ~SweepStep /\ ~EraseTold /\ ~EraseQuietly
  <2>1. g \in Jobs /\ JobMove(g) /\ job[g].init /\ ~job[g].shut
    BY <1>0, <1>3, JobMoves
  <2>2. job'[g].init /\ ~job'[g].shut
    BY <1>3, <2>1 DEF JobMove, SameProgress, Swept, Transferred, Settled, Failed, Doomed
  <2>3. job'[g].state # "None"
    <3>1. CASE SameProgress(g)
      BY <1>0, <2>1, <3>1 DEF SameProgress
    <3>2. CASE Transferred(g)
      <4>1. /\ TransferReturn /\ Top.h = g
            /\ \E ok, complete \in BOOLEAN : Settled(g, "Transfer", ok, complete)
        BY <3>2 DEF Transferred
      <4> QED BY <1>0, <2>1, <4>1 DEF Settled, After
    <3> QED BY <1>3, <2>1, <3>1, <3>2 DEF JobMove, Swept, Failed, Doomed
  <2> QED BY <1>0, <2>1, <2>2, <2>3 DEF Jobs
<1> QED BY <1>1, <1>2, <1>3, OpenSteps

LEMMA ShutStep ==
  ASSUME IInv, IInv', ShutInv, [Next]_vars
  PROVE  ShutInv'
<1>1. (\A h \in open : h \in Jobs /\ job[h].init /\ ~job[h].shut)'
  BY OpenStays
<1>2. (\A h \in Jobs : job[h].shut => job[h].state \in {"Shutdown", "Remove"})'
  BY ShutStays
<1>3. (\A k \in 1..Len(stack) : stack[k].at = "transfer" => ~job[stack[k].h].shut)'
  BY TransferUnshut
<1> QED BY <1>1, <1>2, <1>3 DEF ShutInv

LEMMA InitShut == Init => ShutInv
BY DEF Init, ShutInv, Jobs, NoJob

-----------------------------------------------------------------------------
(* What lies below the top stays where it is *)

\* The n outermost frames of s are those of t.
Keeps(s, t, n) ==
  /\ Len(t) >= n
  /\ \A i \in 0..(n - 1) : t[Len(t) - i] = s[Len(s) - i]

LEMMA KeepsPushed ==
  ASSUME NEW s \in Seq(FrameType), NEW f \in FrameType
  PROVE  Keeps(s, <<f>> \o s, Len(s))
<1> DEFINE t == <<f>> \o s
<1>1. /\ Len(t) = Len(s) + 1 /\ Len(s) \in Nat
      /\ \A k \in 1..Len(s) : t[k + 1] = s[k]
  BY Pushed
<1> HIDE DEF t
<1>2. ASSUME NEW i \in 0..(Len(s) - 1) PROVE t[Len(t) - i] = s[Len(s) - i]
  <2>1. Len(s) - i \in 1..Len(s) /\ Len(t) - i = (Len(s) - i) + 1
    BY <1>1
  <2> QED BY <1>1, <2>1
<1> QED BY <1>1, <1>2 DEF Keeps, t

LEMMA KeepsPopped ==
  ASSUME NEW s \in Seq(FrameType), s # << >>
  PROVE  Keeps(s, Tail(s), Len(s) - 1)
<1> DEFINE t == Tail(s)
<1>1. /\ Len(t) = Len(s) - 1 /\ Len(s) \in Nat /\ Len(s) >= 1
      /\ \A k \in 1..Len(t) : t[k] = s[k + 1]
  BY Popped
<1> HIDE DEF t
<1>2. ASSUME NEW i \in 0..(Len(s) - 2) PROVE t[Len(t) - i] = s[Len(s) - i]
  <2>1. Len(t) - i \in 1..Len(t) /\ Len(s) - i = (Len(t) - i) + 1
    BY <1>1
  <2> QED BY <1>1, <2>1
<1> QED BY <1>1, <1>2 DEF Keeps, t

LEMMA KeepsOn ==
  ASSUME NEW r, NEW s, NEW t, NEW n \in Int, NEW m \in Int, n <= m,
         Keeps(r, s, n), Keeps(s, t, m), Len(t) \in Int
  PROVE  Keeps(r, t, n)
BY DEF Keeps

\* A step leaves all frames below the top one alone, and the top one too,
\* unless the code in it acts.
LEMMA BelowTop ==
  ASSUME TypeOK, [Next]_vars, stack # << >>
  PROVE  Keeps(stack, stack', Len(stack) - 1)
<1>0. /\ stack \in Seq(FrameType) /\ Tail(stack) \in Seq(FrameType)
      /\ Len(stack) \in Nat /\ Len(stack) >= 1 /\ Len(Tail(stack)) = Len(stack) - 1
      /\ NewFrames \subseteq FrameType
      /\ Keeps(stack, Tail(stack), Len(stack) - 1)
  BY Popped, KeepsPopped DEF TypeOK, NewFrames
<1>p. ASSUME NEW s \in Seq(FrameType), NEW f \in NewFrames, NEW n \in Int, n <= Len(s),
             Keeps(stack, s, n)
      PROVE  Keeps(stack, <<f>> \o s, n) /\ n <= Len(<<f>> \o s)
             /\ <<f>> \o s \in Seq(FrameType)
  <2> DEFINE t == <<f>> \o s
  <2>1. Keeps(s, t, Len(s)) /\ t \in Seq(FrameType) /\ Len(t) = Len(s) + 1 /\ Len(s) \in Nat
    BY <1>0, KeepsPushed, Pushed
  <2> HIDE DEF t
  <2>2. Keeps(stack, t, n) /\ n <= Len(t)
    BY <1>p, <2>1, KeepsOn
  <2> QED BY <2>1, <2>2 DEF t
<1>s. Keeps(stack, stack, Len(stack)) /\ Keeps(stack, stack, Len(stack) - 1)
  BY <1>0 DEF Keeps
<1> DEFINE n == Len(stack) - 1
           r == Tail(stack)
<1>r. n \in Int /\ r \in Seq(FrameType) /\ n <= Len(r) /\ n <= Len(stack) /\ Keeps(stack, r, n)
  BY <1>0
<1> HIDE DEF n, r
<1>1. CASE UNCHANGED stack
  BY <1>s, <1>1 DEF n
<1>2. CASE Return
  BY <1>0, <1>2 DEF Return, n
<1>3. CASE \E f \in NewFrames : Call(f)
  <2>1. PICK f \in NewFrames : stack' = <<f>> \o stack
    BY <1>3 DEF Call
  <2>2. Keeps(stack, <<f>> \o stack, n)
    BY <1>0, <1>p, <1>r, <1>s DEF n
  <2> QED BY <2>1, <2>2 DEF n
<1>4. CASE \E f \in NewFrames : Become(f)
  <2>1. PICK f \in NewFrames : stack' = <<f>> \o r
    BY <1>4 DEF Become, r
  <2>2. Keeps(stack, <<f>> \o r, n)
    BY <1>p, <1>r
  <2> QED BY <2>1, <2>2 DEF n
<1>5. CASE \E f, g \in NewFrames : CallThen(f, g)
  <2>1. PICK f \in NewFrames, g \in NewFrames : stack' = <<f, g>> \o r
    BY <1>5 DEF CallThen, r
  <2>2. stack' = <<f>> \o (<<g>> \o r)
    BY <1>0, <1>r, <2>1, PushedTwo
  <2> DEFINE s == <<g>> \o r
  <2>3. Keeps(stack, s, n) /\ n <= Len(s) /\ s \in Seq(FrameType) /\ stack' = <<f>> \o s
    BY <1>p, <1>r, <2>2
  <2> HIDE DEF s
  <2>4. Keeps(stack, <<f>> \o s, n)
    BY <1>p, <1>r, <2>3
  <2> QED BY <2>3, <2>4 DEF n
<1>6. CASE \E f, g \in NewFrames : stack' = <<f, g>> \o stack
  <2>1. PICK f \in NewFrames, g \in NewFrames : stack' = <<f, g>> \o stack
    BY <1>6
  <2>2. stack' = <<f>> \o (<<g>> \o stack)
    BY <1>0, <2>1, PushedTwo
  <2> DEFINE s == <<g>> \o stack
  <2>3. Keeps(stack, s, n) /\ n <= Len(s) /\ s \in Seq(FrameType) /\ stack' = <<f>> \o s
    BY <1>0, <1>p, <1>r, <1>s, <2>2 DEF n
  <2> HIDE DEF s
  <2>4. Keeps(stack, <<f>> \o s, n)
    BY <1>p, <1>r, <2>3
  <2> QED BY <2>3, <2>4 DEF n
<1>7. CASE \E f, g, h \in NewFrames : stack' = <<f, g, h>> \o Tail(stack)
  <2>1. PICK f \in NewFrames, g \in NewFrames, h \in NewFrames :
          stack' = <<f, g, h>> \o r
    BY <1>7 DEF r
  <2>2. ThreePushes(r, f, g, h)
    BY <1>0, <1>r, PushedThree
  <2>3. stack' = <<f>> \o (<<g>> \o (<<h>> \o r))
    BY <2>1, <2>2, Zenon DEF ThreePushes
  <2> DEFINE s == <<h>> \o r
             t == <<g>> \o s
  <2>4. Keeps(stack, s, n) /\ n <= Len(s) /\ s \in Seq(FrameType) /\ stack' = <<f>> \o t
    BY <1>p, <1>r, <2>3
  <2> HIDE DEF s
  <2>5. Keeps(stack, t, n) /\ n <= Len(t) /\ t \in Seq(FrameType)
    BY <1>p, <1>r, <2>4
  <2> HIDE DEF t
  <2>6. Keeps(stack, <<f>> \o t, n)
    BY <1>p, <1>r, <2>5
  <2> QED BY <2>4, <2>6 DEF n
<1> QED BY <1>1, <1>2, <1>3, <1>4, <1>5, <1>6, <1>7, StackMoves DEF StackMove

-----------------------------------------------------------------------------
(* The ids of the jobs, in whose order the loops of ProcessTHJobs go *)

IdInv ==
  /\ \A h \in Jobs : job[h].id \in 1..nextId
  /\ \A g, h \in Jobs : job[g].id = job[h].id => g = h

LEMMA NextIdSteps ==
  ASSUME [Next]_vars
  PROVE  nextId' \in {nextId, nextId + 1}
<1>1. ASSUME NEW h \in Handle,
             \/ StartLoad(h) \/ CancelLoad(h) \/ SyncStart(h) \/ HeadersReceived(h)
             \/ SetRedirect(h) \/ AuthProceed(h) \/ AuthCancel(h) \/ AuthDangling(h)
             \/ DataReceived(h) \/ DataDone(h, TRUE) \/ DataDone(h, FALSE)
      PROVE  nextId' \in {nextId, nextId + 1}
  BY <1>1 DEF StartLoad, CancelLoad, SyncStart, HeadersReceived, SetRedirect,
     AuthProceed, AuthCancel, AuthDangling, DataReceived, DataDone
<1>2. ASSUME \/ RemoveTransportHandler \/ Finalize \/ TimerFires \/ ClientReturn
             \/ UriData \/ UriFinish \/ UriDone \/ FirstStartDone \/ PassDone
             \/ AuthTickDone \/ CallbackDone \/ StartNext
      PROVE  nextId' \in {nextId, nextId + 1}
  BY <1>2 DEF RemoveTransportHandler, Finalize, TimerFires, ClientReturn, UriData,
     UriFinish, UriDone, FirstStartDone, PassDone, AuthTickDone, CallbackDone, StartNext
<1>3. ASSUME \/ SweepTransfer \/ FirstLoopDone \/ TellFailure \/ SecondLoopDone
             \/ HeadersDone \/ DataRest \/ AuthFinish \/ AuthDrop \/ TransferReturn
             \/ SyncProcess \/ SyncTicked \/ SyncReturn \/ TransportHandlerRemoved
             \/ Finalized \/ SweepStep \/ EraseTold \/ EraseQuietly \/ UNCHANGED vars
      PROVE  nextId' \in {nextId, nextId + 1}
  BY <1>3 DEF SweepTransfer, FirstLoopDone, TellFailure, SecondLoopDone, HeadersDone,
     DataRest, AuthFinish, AuthDrop, TransferReturn, SyncProcess, SyncTicked, SyncReturn,
     TransportHandlerRemoved, Finalized, SweepStep, EraseTold, EraseQuietly, vars
<1>4. ASSUME NEW h \in Handle, NEW result \in BOOLEAN, DataDone(h, result)
      PROVE  DataDone(h, TRUE) \/ DataDone(h, FALSE)
  BY <1>4
<1> QED BY <1>1, <1>2, <1>3, <1>4, Zenon DEF Next, Outside, Inside

LEMMA OneJobAdded ==
  ASSUME TypeOK, NEW g \in Handle, NEW h \in Handle, JobAdded(g), JobAdded(h)
  PROVE  g = h
<1>1. CASE StartNext
  <2>1. At("start1") \/ At("start2")
    BY <1>1 DEF StartNext
  <2>2. ~ScriptRuns
    BY <2>1 DEF ScriptRuns, Idle, At, ScriptLabel
  <2> QED BY <2>2 DEF JobAdded, SyncStart
<1>2. CASE SyncStart(g) /\ SyncStart(h)
  <2> DEFINE f == Frame("sync", g)
             k == Frame("sync", h)
  <2>1. f \in FrameType /\ k \in FrameType /\ f.h = g /\ k.h = h
    BY HandleFrameTyped DEF Frame
  <2>2. stack' = <<f>> \o stack /\ stack' = <<k>> \o stack /\ stack \in Seq(FrameType)
    BY <1>2 DEF SyncStart, Call, TypeOK
  <2> HIDE DEF f, k
  <2>3. (<<f>> \o stack)[1] = f /\ (<<k>> \o stack)[1] = k
    BY <2>1, <2>2, Pushed
  <2> QED BY <2>1, <2>2, <2>3
<1> QED BY <1>1, <1>2 DEF JobAdded

LEMMA IdStep ==
  ASSUME IInv, IdInv, [Next]_vars
  PROVE  IdInv'
<1>0. TypeOK /\ nextId \in Nat /\ nextId' \in {nextId, nextId + 1}
      /\ Jobs \subseteq Handle /\ Jobs' \subseteq Handle
      /\ \A h \in Jobs : job[h].id \in 1..nextId
  BY NextIdSteps DEF IInv, TypeOK, IdInv, Jobs
<1>1. ASSUME NEW g \in Jobs', g \in Jobs
      PROVE  job'[g].id = job[g].id
  <2>1. job'[g].state # "None" /\ JobMove(g)
    BY <1>1, JobMoves DEF Jobs
  <2> QED BY <2>1 DEF JobMove, SameIdentity
<1>2. ASSUME NEW g \in Jobs', g \notin Jobs
      PROVE  JobAdded(g) /\ job'[g].id = nextId + 1 /\ nextId' = nextId + 1
  BY <1>0, <1>2, JobsAdded DEF JobAdded
<1>3. ASSUME NEW g \in Jobs' PROVE job'[g].id \in 1..nextId'
  BY <1>0, <1>1, <1>2, <1>3
<1>4. ASSUME NEW g \in Jobs', NEW h \in Jobs', job'[g].id = job'[h].id
      PROVE  g = h
  <2>1. CASE g \in Jobs /\ h \in Jobs
    BY <1>1, <1>4, <2>1 DEF IdInv
  <2>2. CASE g \notin Jobs /\ h \notin Jobs
    BY <1>0, <1>2, <2>2, OneJobAdded
  <2>3. CASE g \in Jobs /\ h \notin Jobs
    BY <1>0, <1>1, <1>2, <1>4, <2>3
  <2>4. CASE g \notin Jobs /\ h \in Jobs
    BY <1>0, <1>1, <1>2, <1>4, <2>4
  <2> QED BY <2>1, <2>2, <2>3, <2>4
<1> QED BY <1>3, <1>4 DEF IdInv

LEMMA InitIds == Init => IdInv
BY DEF Init, IdInv, Jobs, NoJob

-----------------------------------------------------------------------------
(* The outermost frame *)

Bottom(s) == s[Len(s)]

LEMMA BottomPushed ==
  ASSUME NEW s \in Seq(FrameType), NEW f \in FrameType
  PROVE  /\ <<f>> \o s \in Seq(FrameType) /\ <<f>> \o s # << >>
         /\ Bottom(<<f>> \o s) = IF s = << >> THEN f ELSE Bottom(s)
<1> DEFINE t == <<f>> \o s
<1>1. /\ t \in Seq(FrameType) /\ Len(t) = Len(s) + 1 /\ Len(s) \in Nat /\ t[1] = f
      /\ \A k \in 1..Len(s) : t[k + 1] = s[k]
  BY Pushed
<1>2. s = << >> \/ Len(s) \in 1..Len(s)
  BY <1>1, EmptySeq
<1>3. s = << >> => Len(s) = 0
  OBVIOUS
<1> HIDE DEF t
<1>4. t # << >>
  BY <1>1
<1> QED BY <1>1, <1>2, <1>3, <1>4 DEF Bottom, t

LEMMA BottomTwo ==
  ASSUME NEW s \in Seq(FrameType), NEW f \in FrameType, NEW g \in FrameType
  PROVE  /\ <<f, g>> \o s # << >>
         /\ Bottom(<<f, g>> \o s) = IF s = << >> THEN g ELSE Bottom(s)
<1> DEFINE t == <<g>> \o s
<1>1. <<f, g>> \o s = <<f>> \o t
  BY PushedTwo
<1>2. t \in Seq(FrameType) /\ t # << >> /\ Bottom(t) = IF s = << >> THEN g ELSE Bottom(s)
  BY BottomPushed
<1> HIDE DEF t
<1> QED BY <1>1, <1>2, BottomPushed

LEMMA BottomThree ==
  ASSUME NEW s \in Seq(FrameType), NEW f \in FrameType, NEW g \in FrameType,
         NEW k \in FrameType
  PROVE  Bottom(<<f, g, k>> \o s) = IF s = << >> THEN k ELSE Bottom(s)
<1> DEFINE r == <<k>> \o s
           t == <<g>> \o r
<1>1. ThreePushes(s, f, g, k)
  BY PushedThree
<1>2. <<f, g, k>> \o s = <<f>> \o t
  BY <1>1, Zenon DEF ThreePushes
<1>3. r \in Seq(FrameType) /\ r # << >> /\ Bottom(r) = IF s = << >> THEN k ELSE Bottom(s)
  BY BottomPushed
<1> HIDE DEF r
<1>4. t \in Seq(FrameType) /\ t # << >> /\ Bottom(t) = Bottom(r)
  BY <1>3, BottomPushed
<1> HIDE DEF t
<1> QED BY <1>2, <1>3, <1>4, BottomPushed, ZenonT(40)

\* With which frame the stack begins.
LEMMA BottomBegins ==
  ASSUME TypeOK, [Next]_vars, stack = << >>, stack' # << >>
  PROVE  /\ Idle
         /\ \/ TimerFires /\ Bottom(stack').at = "start1"
            \/ RemoveTransportHandler /\ Bottom(stack').at = "removeHandler"
            \/ Finalize /\ Bottom(stack').at = "finalize" /\ Len(stack') = 2
               /\ stack'[1].at = "sweep1"
            \/ \E h \in Handle : SyncStart(h) /\ Bottom(stack').at = "sync"
            \/ \E h \in Handle : /\ HeadersReceived(h) \/ SetRedirect(h)
                                 /\ Bottom(stack').at \in {"headersDone", "redirect"}
<1>0. Idle /\ IdleStep
  BY Acting DEF vars
<1>e. << >> \in Seq(FrameType)
  OBVIOUS
<1>h. ASSUME NEW h \in Handle
      PROVE  /\ Frame("response", h) \in FrameType /\ Frame("headersDone", h) \in FrameType
             /\ Frame("redirect", h) \in FrameType /\ Frame("sync", h) \in FrameType
             /\ Frame("headersDone", h).at = "headersDone"
             /\ Frame("redirect", h).at = "redirect" /\ Frame("sync", h).at = "sync"
  BY HandleFrameTyped DEF Frame
<1>p. /\ Frame("start1", NoHandle) \in FrameType /\ Frame("start1", NoHandle).at = "start1"
      /\ Frame("sweep1", NoHandle).at = "sweep1"
      /\ Frame("removeHandler", NoHandle).at = "removeHandler"
      /\ Frame("finalize", NoHandle).at = "finalize"
  BY PlainFrameTyped DEF Frame
<1>1. ASSUME NEW h \in Handle, StartLoad(h) \/ CancelLoad(h) PROVE FALSE
  BY <1>1 DEF StartLoad, CancelLoad
<1>2. ASSUME NEW h \in Handle, SyncStart(h) PROVE Bottom(stack').at = "sync"
  BY <1>2, <1>e, <1>h, BottomPushed DEF SyncStart, Call
<1>3. ASSUME NEW h \in Handle, HeadersReceived(h)
      PROVE  Bottom(stack').at = "headersDone"
  <2>1. stack' = <<Frame("response", h), Frame("headersDone", h)>> \o << >>
    BY <1>3 DEF HeadersReceived
  <2> QED BY <1>e, <1>h, <2>1, BottomTwo
<1>4. ASSUME NEW h \in Handle, SetRedirect(h) PROVE Bottom(stack').at = "redirect"
  <2>1. stack' = <<Frame("redirect", h)>> \o << >>
    BY <1>4 DEF SetRedirect, Call
  <2> QED BY <1>e, <1>h, <2>1, BottomPushed
<1>5. CASE RemoveTransportHandler
  BY <1>p, <1>0, <1>5 DEF RemoveTransportHandler, Bottom
<1>6. CASE Finalize
  BY <1>p, <1>0, <1>6 DEF Finalize, Bottom
<1>7. CASE TimerFires
  BY <1>0, <1>e, <1>p, <1>7, BottomPushed DEF TimerFires, Call
<1> QED BY <1>0, <1>1, <1>2, <1>3, <1>4, <1>5, <1>6, <1>7 DEF IdleStep

LEMMA BottomStays ==
  ASSUME TypeOK, [Next]_vars, Len(stack) >= 2
  PROVE  stack' # << >> /\ Bottom(stack') = Bottom(stack)
<1>1. stack # << >> /\ stack \in Seq(FrameType) /\ Len(stack) \in Nat
  BY EmptySeq DEF TypeOK
<1>2. Keeps(stack, stack', Len(stack) - 1)
  BY <1>1, BelowTop
<1>3. stack' \in Seq(FrameType) /\ Len(stack') \in Nat
  BY TypeStep DEF TypeOK
<1>4. /\ Len(stack') >= 1
      /\ stack'[Len(stack') - 0] = stack[Len(stack) - 0]
  <2>1. 0 \in 0..((Len(stack) - 1) - 1) /\ Len(stack') >= Len(stack) - 1
        /\ \A i \in 0..((Len(stack) - 1) - 1) : stack'[Len(stack') - i] = stack[Len(stack) - i]
    BY <1>1, <1>2 DEF Keeps
  <2>2. stack'[Len(stack') - 0] = stack[Len(stack) - 0]
    BY <2>1, Zenon
  <2>3. Len(stack') >= 1
    BY <1>1, <1>3, <2>1
  <2> QED BY <2>2, <2>3
<1>5. stack' # << >>
  BY <1>4
<1> QED BY <1>1, <1>3, <1>4, <1>5 DEF Bottom

\* What the outermost frame goes on as, when it runs again.
BottomGoesOn(f) ==
  \/ f = Top
  \/ f.at = Top.at /\ f.at = "sync"
  \/ f.at = Top.at /\ StartNext /\ f.b
  \/ Top.at = "start1" /\ FirstStartDone /\ f.at = "afterPass"
  \/ Top.at = "afterPass" /\ PassDone /\ f.at = "auth" /\ f.b = (Jobs # {})
  \/ Top.at = "auth" /\ AuthTickDone /\ f.at = "start2" /\ f.b = Top.b

\* How the outermost frame ends.
BottomEnds ==
  \/ Top.at = "start2" /\ CallbackDone
  \/ Top.at = "removeHandler" /\ TransportHandlerRemoved
  \/ Top.at = "finalize" /\ Finalized
  \/ Top.at = "headersDone" /\ HeadersDone
  \/ Top.at = "redirect" /\ ClientReturn
  \/ Top.at = "sync" /\ SyncReturn

\* What a frame that nobody called can do.
LEMMA OutermostStep ==
  ASSUME NEW l \in OutsideLabel, FrameStep(l)
  PROVE  \/ l \in {"start1", "start2"} /\ StartNext
         \/ l = "start1" /\ FirstStartDone
         \/ l = "start2" /\ CallbackDone
         \/ l = "afterPass" /\ PassDone
         \/ l = "auth" /\ AuthTickDone
         \/ l = "auth" /\ \E h \in Handle : AuthProceed(h) \/ AuthCancel(h) \/ AuthDangling(h)
         \/ l = "removeHandler" /\ TransportHandlerRemoved
         \/ l = "finalize" /\ Finalized
         \/ l = "headersDone" /\ HeadersDone
         \/ l = "redirect" /\ (ClientReturn \/ \E h \in Handle : StartLoad(h) \/ CancelLoad(h))
         \/ l = "sync" /\ (SyncProcess \/ SyncTicked \/ SyncReturn)
         \/ l = "sync" /\ \E h \in Handle : HeadersReceived(h) \/ SetRedirect(h)
BY DEF FrameStep, OutsideLabel, ClientLabel, ScriptLabel

\* startScheduledJobs notes in its caller's local that it started something.
LEMMA StartNextBottom ==
  ASSUME TypeOK, StartNext, Tail(stack) = << >>
  PROVE  stack' # << >> /\ Bottom(stack').at = Top.at /\ Bottom(stack').b
<1>e. << >> \in Seq(FrameType)
  OBVIOUS
<1>0. Top \in FrameType
  BY AtTyped DEF StartNext, TypeOK
<1>1. stack' = <<Frame("response", Head(queue)), Frame("uriData", Head(queue)),
                 [Top EXCEPT !.b = TRUE]>> \o << >>
      \/ Become([Top EXCEPT !.b = TRUE])
  BY DEF StartNext
<1>2. PICK h \in Handle : h = Head(queue)
  BY HeadTailProperties DEF StartNext, CanStart, TypeOK
<1> DEFINE f == [Top EXCEPT !.b = TRUE]
           e == Frame("response", h)
           g == Frame("uriData", h)
<1>3. f \in FrameType /\ f.at = Top.at /\ f.b
  BY <1>0, FrameUpdate DEF FrameType
<1>4. e \in FrameType /\ g \in FrameType
  BY HandleFrameTyped
<1>5. stack' = <<e, g, f>> \o << >> \/ Become(f)
  BY <1>1, <1>2
<1> HIDE DEF e, f, g
<1>6. stack' # << >> /\ Bottom(stack') = f
  <2>1. CASE stack' = <<e, g, f>> \o << >>
    <3>1. <<e, g, f>> \o << >> # << >>
      OBVIOUS
    <3>2. Bottom(<<e, g, f>> \o << >>) = f
      BY <1>e, <1>3, <1>4, BottomThree, ZenonT(40)
    <3> QED BY <2>1, <3>1, <3>2, Zenon
  <2>2. CASE Become(f)
    BY <1>e, <1>3, <2>2, BottomPushed DEF Become
  <2> QED BY <1>5, <2>1, <2>2
<1> QED BY <1>3, <1>6

LEMMA BottomMoves ==
  ASSUME TypeOK, CallChain(stack), [Next]_vars, stack # << >>, Tail(stack) = << >>
  PROVE  IF stack' = << >> THEN BottomEnds ELSE BottomGoesOn(Bottom(stack'))
<1>0. /\ stack \in Seq(FrameType) /\ Top \in FrameType /\ Bottom(stack) = Top
      /\ Top.at \in OutsideLabel
      /\ Top.at \in HandleLabel => Top.h \in Handle
  <2>1. stack \in Seq(FrameType) /\ Len(Tail(stack)) = Len(stack) - 1 /\ Len(stack) \in Nat
        /\ Top = stack[1] /\ stack[1] \in FrameType
    BY Popped DEF TypeOK, Top
  <2>2. Len(stack) = 1
    <3>1. Len(<< >>) = 0
      OBVIOUS
    <3>2. Len(stack) - 1 = 0 /\ Len(stack) \in Nat
      BY <2>1, <3>1
    <3> QED BY <3>2
  <2> QED BY <2>1, <2>2, FrameHandle DEF CallChain, Bottom
<1>e. << >> \in Seq(FrameType)
  OBVIOUS
<1>u. ASSUME UNCHANGED stack PROVE stack' # << >> /\ BottomGoesOn(Bottom(stack'))
  BY <1>0, <1>u DEF BottomGoesOn, Bottom
<1>r. ASSUME Return PROVE stack' = << >>
  BY <1>r DEF Return
<1>g. ASSUME NEW f \in FrameType, Become(f)
      PROVE  stack' # << >> /\ Bottom(stack') = f
  BY <1>g, <1>e, BottomPushed DEF Become
<1>t. ASSUME NEW f \in FrameType, NEW g \in FrameType, CallThen(f, g)
      PROVE  stack' # << >> /\ Bottom(stack') = g
  BY <1>t, <1>e, BottomTwo DEF CallThen
<1>c. ASSUME NEW f \in FrameType, NEW g \in FrameType,
             Call(f) \/ stack' = <<f, g>> \o stack
      PROVE  stack' # << >> /\ Bottom(stack') = Top
  <2>1. CASE Call(f)
    BY <1>0, <2>1, BottomPushed DEF Call
  <2>2. CASE stack' = <<f, g>> \o stack
    BY <1>0, <2>2, BottomTwo
  <2> QED BY <1>c, <2>1, <2>2
<1>h. ASSUME NEW h \in Handle, NEW l \in HandleLabel
      PROVE  Frame(l, h) \in FrameType /\ Frame(l, h).at = l
  BY <1>h DEF Frame, FrameType
<1>p. ASSUME NEW l \in PlainLabel
      PROVE  Frame(l, NoHandle) \in FrameType /\ Frame(l, NoHandle).at = l
  BY <1>p DEF Frame, FrameType
<1>b. ASSUME NEW f \in FrameType, NEW b \in BOOLEAN
      PROVE  /\ [f EXCEPT !.b = b] \in FrameType
             /\ [f EXCEPT !.b = b].at = f.at /\ [f EXCEPT !.b = b].b = b
  BY <1>b, FrameUpdate DEF FrameType
<1>l. /\ {"response", "headersDone", "redirect", "uriData", "uriFinish", "authFinish"}
           \subseteq HandleLabel
      /\ PlainLabel = {"start1", "afterPass", "auth", "start2", "sweep1", "sweep2",
                       "removeHandler", "finalize"}
  BY DEF HandleLabel, PlainLabel, ClientLabel, UriLabel
<1>1. CASE UNCHANGED vars
  BY <1>1, <1>u DEF vars
<1>2. CASE StartNext
  BY <1>2, StartNextBottom DEF BottomGoesOn
<1>3. CASE FirstStartDone /\ Top.at = "start1"
  BY <1>3, <1>t, <1>p, <1>l DEF FirstStartDone, BottomGoesOn
<1>4. CASE CallbackDone /\ Top.at = "start2"
  BY <1>4, <1>r DEF CallbackDone, BottomEnds
<1>5. CASE PassDone /\ Top.at = "afterPass"
  <2>b. PICK b \in BOOLEAN : b = (Jobs # {})
    OBVIOUS
  <2> DEFINE f == [Frame("auth", NoHandle) EXCEPT !.b = b]
  <2>1. f \in FrameType /\ f.at = "auth" /\ f.b = b
    BY <1>b, <1>p, <1>l
  <2>2. Become(f)
    BY <1>5, <2>b DEF PassDone
  <2> HIDE DEF f
  <2>3. stack' # << >> /\ Bottom(stack') = f
    BY <1>g, <2>1, <2>2
  <2> QED BY <1>5, <2>b, <2>1, <2>3 DEF BottomGoesOn
<1>6. CASE AuthTickDone /\ Top.at = "auth"
  <2>1. Top.b \in BOOLEAN
    BY <1>0 DEF FrameType
  <2> DEFINE f == [Frame("start2", NoHandle) EXCEPT !.b = Top.b]
  <2>2. f \in FrameType /\ f.at = "start2" /\ f.b = Top.b
    BY <1>b, <1>p, <1>l, <2>1
  <2>3. Become(f)
    BY <1>6 DEF AuthTickDone
  <2> HIDE DEF f
  <2>4. stack' # << >> /\ Bottom(stack') = f
    BY <1>g, <2>2, <2>3
  <2> QED BY <1>6, <2>2, <2>4 DEF BottomGoesOn
<1>7. ASSUME NEW h \in Handle, AuthProceed(h) \/ AuthCancel(h) \/ AuthDangling(h)
      PROVE  stack' # << >> /\ BottomGoesOn(Bottom(stack'))
  <2>1. UNCHANGED stack \/ stack' = <<Frame("response", h), Frame("authFinish", h)>> \o stack
    BY <1>7 DEF AuthProceed, AuthCancel, AuthDangling
  <2> QED BY <1>u, <1>c, <1>h, <1>l, <2>1 DEF BottomGoesOn
<1>8. CASE TransportHandlerRemoved /\ Top.at = "removeHandler"
  BY <1>8, <1>r DEF TransportHandlerRemoved, BottomEnds
<1>9. CASE Finalized /\ Top.at = "finalize"
  BY <1>9, <1>r DEF Finalized, BottomEnds
<1>10. CASE HeadersDone /\ Top.at = "headersDone"
  BY <1>10, <1>r DEF HeadersDone, BottomEnds
<1>11. CASE ClientReturn /\ Top.at = "redirect"
  BY <1>11, <1>r DEF ClientReturn, BottomEnds
<1>12. ASSUME NEW h \in Handle, StartLoad(h) \/ CancelLoad(h)
       PROVE  stack' # << >> /\ BottomGoesOn(Bottom(stack'))
  BY <1>12, <1>u DEF StartLoad, CancelLoad
<1>13. CASE (SyncProcess \/ SyncTicked) /\ Top.at = "sync"
  <2>1. CallThen(Frame("sweep1", NoHandle), [Top EXCEPT !.b = TRUE])
        \/ Become([Top EXCEPT !.b = FALSE])
    BY <1>13 DEF SyncProcess, SyncTicked
  <2>2. /\ [Top EXCEPT !.b = TRUE] \in FrameType /\ [Top EXCEPT !.b = TRUE].at = "sync"
        /\ [Top EXCEPT !.b = FALSE] \in FrameType /\ [Top EXCEPT !.b = FALSE].at = "sync"
    BY <1>0, <1>13, <1>b
  <2>3. stack' # << >> /\ Bottom(stack').at = "sync"
    BY <1>t, <1>g, <1>p, <1>l, <2>1, <2>2
  <2> QED BY <1>13, <2>3 DEF BottomGoesOn
<1>14. CASE SyncReturn /\ Top.at = "sync"
  BY <1>14, <1>r DEF SyncReturn, BottomEnds
<1>15. ASSUME NEW h \in Handle, HeadersReceived(h) \/ SetRedirect(h)
       PROVE  stack' # << >> /\ BottomGoesOn(Bottom(stack'))
  <2>1. UNCHANGED stack \/ stack' = <<Frame("response", h), Frame("headersDone", h)>> \o stack
        \/ Call(Frame("redirect", h))
    BY <1>15 DEF HeadersReceived, SetRedirect
  <2> QED BY <1>u, <1>c, <1>h, <1>l, <2>1 DEF BottomGoesOn
<1>16. UNCHANGED vars \/ FrameStep(Top.at)
  BY Acting DEF Idle
<1> QED BY <1>0, <1>1, <1>2, <1>3, <1>4, <1>5, <1>6, <1>7, <1>8, <1>9, <1>10, <1>11, <1>12,
           <1>13, <1>14, <1>15, <1>16, OutermostStep, Zenon

-----------------------------------------------------------------------------
(* staticFinalize leaves no job behind *)

\* Everything is condemned, and the pass of ProcessTHJobs that
\* ~ResourceHandleManager makes still has each job ahead of it, or is about to
\* erase it after its client was told.
Emptying ==
  LET n == Len(stack)
  IN  /\ \A h \in AsyncJobs : job[h].state = "Remove"
      /\ n = 1 => AsyncJobs = {}
      /\ n >= 2 /\ stack[n - 1].at = "sweep1"
           => n = 2 /\ (AsyncJobs # {} => condemned)
      /\ n >= 2 /\ stack[n - 1].at = "sweep2"
           => \A h \in AsyncJobs :
                \/ job[h].id > stack[n - 1].n
                \/ n >= 3 /\ stack[n - 2].at = "dispose" /\ stack[n - 2].h = h

FinalInv ==
  /\ life = "down" => Jobs = {}
  /\ stack # << >> /\ Bottom(stack).at = "finalize" => Emptying

LEMMA LifeSteps ==
  ASSUME [Next]_vars
  PROVE  UNCHANGED life \/ Finalized \/ life' = "crashed"
<1>1. ASSUME NEW h \in Handle,
             \/ StartLoad(h) \/ CancelLoad(h) \/ SyncStart(h) \/ HeadersReceived(h)
             \/ SetRedirect(h) \/ AuthProceed(h) \/ AuthCancel(h) \/ AuthDangling(h)
             \/ DataReceived(h) \/ DataDone(h, TRUE) \/ DataDone(h, FALSE)
      PROVE  UNCHANGED life \/ life' = "crashed"
  BY <1>1 DEF StartLoad, CancelLoad, SyncStart, HeadersReceived, SetRedirect,
     AuthProceed, AuthCancel, AuthDangling, DataReceived, DataDone
<1>2. ASSUME \/ RemoveTransportHandler \/ Finalize \/ TimerFires \/ ClientReturn
             \/ UriData \/ UriFinish \/ UriDone \/ FirstStartDone \/ PassDone
             \/ AuthTickDone \/ CallbackDone \/ StartNext
      PROVE  UNCHANGED life
  BY <1>2 DEF RemoveTransportHandler, Finalize, TimerFires, ClientReturn, UriData,
     UriFinish, UriDone, FirstStartDone, PassDone, AuthTickDone, CallbackDone, StartNext
<1>3. ASSUME \/ SweepTransfer \/ FirstLoopDone \/ TellFailure \/ SecondLoopDone
             \/ HeadersDone \/ DataRest \/ AuthFinish \/ AuthDrop \/ TransferReturn
             \/ SyncProcess \/ SyncTicked \/ SyncReturn \/ TransportHandlerRemoved
             \/ SweepStep \/ EraseTold \/ EraseQuietly \/ UNCHANGED vars
      PROVE  UNCHANGED life
  BY <1>3 DEF SweepTransfer, FirstLoopDone, TellFailure, SecondLoopDone, HeadersDone,
     DataRest, AuthFinish, AuthDrop, TransferReturn, SyncProcess, SyncTicked, SyncReturn,
     TransportHandlerRemoved, SweepStep, EraseTold, EraseQuietly, vars
<1>4. ASSUME NEW h \in Handle, NEW result \in BOOLEAN, DataDone(h, result)
      PROVE  DataDone(h, TRUE) \/ DataDone(h, FALSE)
  BY <1>4
<1> QED BY <1>1, <1>2, <1>3, <1>4, Zenon DEF Next, Outside, Inside

\* While a client runs, or a synchronous load, no asynchronous job is added,
\* erased or moved.
LEMMA AsyncRest ==
  ASSUME IInv, [Next]_vars, HasSync(stack) \/ \E l \in ClientLabel : At(l),
         NEW g \in AsyncJobs'
  PROVE  g \in AsyncJobs /\ job'[g].state = job[g].state /\ job'[g].id = job[g].id
<1>0. g \in Handle /\ g \in Jobs' /\ job'[g].state # "None" /\ ~job'[g].sync
      /\ TypeOK /\ StackInv(stack, job)
  BY DEF AsyncJobs, Jobs, IInv
<1>1. ~StartNext
  <2>1. ASSUME NEW l \in {"start1", "start2"}, At(l) PROVE FALSE
    <3>1. l \notin SyncInner \cup {"sync"} \cup ClientLabel
      BY DEF SyncInner, ClientLabel
    <3>2. ~HasSync(stack)
      BY <1>0, <2>1, <3>1, AtInv
    <3> QED BY <2>1, <3>1, <3>2 DEF At
  <2> QED BY <2>1 DEF StartNext
<1>2. g \in Jobs
  BY <1>0, <1>1, JobsAdded DEF JobAdded
<1>3. SameIdentity(g) /\ (SameProgress(g) \/ Swept(g) \/ Transferred(g) \/ Failed(g) \/ Doomed(g))
  BY <1>0, <1>2, JobMoves DEF JobMove
<1>4. g \in AsyncJobs /\ job'[g].id = job[g].id
  BY <1>0, <1>2, <1>3 DEF AsyncJobs, SameIdentity
<1>5. CASE HasSync(stack)
  BY <1>4, <1>5, AsyncStill
<1>6. CASE \E l \in ClientLabel : At(l)
  <2>1. ~At("sweep1") /\ ~At("transfer") /\ ~Idle
    BY <1>6 DEF At, Idle, ClientLabel
  <2>2. SameProgress(g)
    BY <1>3, <2>1 DEF Swept, SweepStep, Transferred, TransferReturn, Failed, DataDone,
       InTransfer, Doomed, RemoveTransportHandler, Finalize
  <2> QED BY <1>4, <2>2 DEF SameProgress
<1> QED BY <1>4, <1>5, <1>6

\* What the chain says of the two frames above the one of staticFinalize.
LEMMA FinalFrames ==
  ASSUME TypeOK, CallChain(stack), stack # << >>, Bottom(stack).at = "finalize"
  PROVE  LET n == Len(stack)
         IN  /\ n \in Nat /\ n >= 1 /\ stack[n].at = "finalize"
             /\ n >= 2 => stack[n - 1].at \in {"sweep1", "sweep2"}
             /\ n >= 3 /\ stack[n - 1].at = "sweep2" => stack[n - 2].at = "dispose"
             /\ n >= 4 /\ stack[n - 2].at = "dispose" => stack[n - 3].at = "fail"
             /\ n >= 5 /\ stack[n - 3].at = "fail" => stack[n - 4].at = "sync"
<1> DEFINE n == Len(stack)
<1>1. n \in Nat /\ n >= 1
  BY EmptySeq DEF TypeOK
<1>2. \A k \in 1..(n - 1) : \/ OtherCall(stack[k + 1].at, stack[k].at)
                            \/ OwnCallback(stack[k + 1].at, stack[k].at)
  BY DEF CallChain
<1>3. stack[n].at = "finalize"
  BY DEF Bottom
<1> HIDE DEF n
<1>4. ASSUME n >= 2 PROVE stack[n - 1].at \in {"sweep1", "sweep2"}
  <2>1. n - 1 \in 1..(n - 1) /\ (n - 1) + 1 = n
    BY <1>1, <1>4
  <2>2. OtherCall("finalize", stack[n - 1].at) \/ OwnCallback("finalize", stack[n - 1].at)
    BY <1>2, <1>3, <2>1
  <2> QED BY <2>2 DEF OtherCall, OwnCallback, ScriptLabel
<1>5. ASSUME n >= 3, stack[n - 1].at = "sweep2" PROVE stack[n - 2].at = "dispose"
  <2>1. n - 2 \in 1..(n - 1) /\ (n - 2) + 1 = n - 1
    BY <1>1, <1>5
  <2>2. OtherCall("sweep2", stack[n - 2].at) \/ OwnCallback("sweep2", stack[n - 2].at)
    BY <1>2, <1>5, <2>1
  <2> QED BY <2>2 DEF OtherCall, OwnCallback, ScriptLabel
<1>6. ASSUME n >= 4, stack[n - 2].at = "dispose" PROVE stack[n - 3].at = "fail"
  <2>1. n - 3 \in 1..(n - 1) /\ (n - 3) + 1 = n - 2
    BY <1>1, <1>6
  <2>2. OtherCall("dispose", stack[n - 3].at) \/ OwnCallback("dispose", stack[n - 3].at)
    BY <1>2, <1>6, <2>1
  <2> QED BY <2>2 DEF OtherCall, OwnCallback, ScriptLabel
<1>7. ASSUME n >= 5, stack[n - 3].at = "fail" PROVE stack[n - 4].at = "sync"
  <2>1. n - 4 \in 1..(n - 1) /\ (n - 4) + 1 = n - 3
    BY <1>1, <1>7
  <2>2. OtherCall("fail", stack[n - 4].at) \/ OwnCallback("fail", stack[n - 4].at)
    BY <1>2, <1>7, <2>1
  <2> QED BY <2>2 DEF OtherCall, OwnCallback, ScriptLabel
<1> QED BY <1>1, <1>3, <1>4, <1>5, <1>6, <1>7 DEF n

\* A client runs in the middle of the pass.
LEMMA FinalAbove ==
  ASSUME IInv, CallChain(stack), Emptying, [Next]_vars, Len(stack) >= 4,
         Bottom(stack).at = "finalize"
  PROVE  Emptying'
<1> DEFINE n == Len(stack)
           m == Len(stack')
<1>0. TypeOK /\ stack \in Seq(FrameType) /\ stack # << >> /\ n \in Nat /\ n >= 4
      /\ m \in Nat
  <2>1. stack' \in Seq(FrameType)
    BY TypeStep DEF IInv, TypeOK
  <2> QED BY <2>1, EmptySeq DEF IInv, TypeOK
<1>1. /\ n >= 2 => stack[n - 1].at \in {"sweep1", "sweep2"}
      /\ n >= 3 /\ stack[n - 1].at = "sweep2" => stack[n - 2].at = "dispose"
      /\ n >= 4 /\ stack[n - 2].at = "dispose" => stack[n - 3].at = "fail"
      /\ n >= 5 /\ stack[n - 3].at = "fail" => stack[n - 4].at = "sync"
  BY <1>0, FinalFrames
<1>2. /\ n >= 2 /\ stack[n - 1].at = "sweep1" => n = 2
      /\ \A h \in AsyncJobs : job[h].state = "Remove"
      /\ n >= 2 /\ stack[n - 1].at = "sweep2"
           => \A h \in AsyncJobs :
                \/ job[h].id > stack[n - 1].n
                \/ n >= 3 /\ stack[n - 2].at = "dispose" /\ stack[n - 2].h = h
  BY DEF Emptying
<1>3. Keeps(stack, stack', n - 1)
  BY <1>0, BelowTop
<1> HIDE DEF n, m
<1>4. stack[n - 1].at = "sweep2" /\ stack[n - 2].at = "dispose" /\ stack[n - 3].at = "fail"
  BY <1>0, <1>1, <1>2
<1>5. m >= 3 /\ stack'[m - 1] = stack[n - 1] /\ stack'[m - 2] = stack[n - 2]
  <2>1. m >= n - 1 /\ \A i \in 0..((n - 1) - 1) : stack'[m - i] = stack[n - i]
    BY <1>3 DEF Keeps, n, m
  <2>2. 1 \in 0..((n - 1) - 1) /\ 2 \in 0..((n - 1) - 1)
    BY <1>0
  <2>3. stack'[m - 1] = stack[n - 1] /\ stack'[m - 2] = stack[n - 2]
    BY <2>1, <2>2
  <2> QED BY <1>0, <2>1, <2>3
<1>6. UNCHANGED vars \/ HasSync(stack) \/ \E l \in ClientLabel : At(l)
  <2>1. CASE n >= 5
    <3>1. n - 4 \in 1..Len(stack) /\ stack[n - 4].at = "sync"
      BY <1>0, <1>1, <1>4, <2>1 DEF n
    <3> QED BY <3>1 DEF HasSync
  <2>2. CASE ~(n >= 5)
    <3>1. n = 4 /\ stack[1].at = "fail"
      BY <1>0, <1>4, <2>2
    <3>2. Top.at = "fail"
      BY <1>0, <3>1, Popped DEF Top
    <3>3. UNCHANGED vars \/ life = "up"
      BY <1>0, Acting DEF Idle
    <3>4. "fail" \in ClientLabel
      BY DEF ClientLabel
    <3>5. At("fail") \/ UNCHANGED vars
      BY <1>0, <3>2, <3>3 DEF At
    <3> QED BY <3>4, <3>5
  <2> QED BY <2>1, <2>2
<1>7. ASSUME NEW h \in AsyncJobs'
      PROVE  h \in AsyncJobs /\ job'[h].state = job[h].state /\ job'[h].id = job[h].id
  <2>1. CASE UNCHANGED vars
    BY <1>7, <2>1 DEF vars, AsyncJobs, Jobs
  <2> QED BY <1>6, <1>7, <2>1, AsyncRest
<1> QED BY <1>0, <1>2, <1>4, <1>5, <1>7, SMTT(30) DEF Emptying, m

\* The client of the condemned job was told: the job goes.
LEMMA FinalDispose ==
  ASSUME IInv, CallChain(stack), Emptying, [Next]_vars, Len(stack) = 3,
         Bottom(stack).at = "finalize"
  PROVE  Emptying'
<1>0. /\ TypeOK /\ stack \in Seq(FrameType) /\ stack # << >> /\ Top = stack[1]
      /\ Len(Tail(stack)) = 2 /\ Tail(stack)[1] = stack[2]
      /\ Tail(stack)[2] = stack[3] /\ job \in [Handle -> JobInfo]
  <2>0. TypeOK /\ job \in [Handle -> JobInfo] /\ stack \in Seq(FrameType)
    BY DEF IInv, TypeOK
  <2>1. stack \in Seq(FrameType) /\ stack # << >>
    <3>1. Len(<< >>) = 0
      OBVIOUS
    <3>2. Len(stack) # 0
      OBVIOUS
    <3> QED BY <2>0, <3>1, <3>2, Zenon
  <2>2. /\ Len(Tail(stack)) = Len(stack) - 1 /\ Head(stack) = stack[1]
        /\ \A k \in 1..Len(Tail(stack)) : Tail(stack)[k] = stack[k + 1]
    BY <2>1, Popped
  <2>3. Len(Tail(stack)) = 2
    BY <2>2
  <2>4. Tail(stack)[1] = stack[1 + 1] /\ Tail(stack)[2] = stack[2 + 1]
    BY <2>2, <2>3
  <2> QED BY <2>0, <2>1, <2>2, <2>3, <2>4 DEF Top
<1>1. stack[2].at = "sweep2" /\ stack[1].at = "dispose"
  <2>1. /\ stack[3 - 1].at \in {"sweep1", "sweep2"}
        /\ stack[3 - 1].at = "sweep2" => stack[3 - 2].at = "dispose"
    BY <1>0, FinalFrames
  <2>2. stack[3 - 1].at # "sweep1"
    BY DEF Emptying
  <2> QED BY <2>1, <2>2
<1>2. /\ \A h \in AsyncJobs : job[h].state = "Remove"
      /\ \A h \in AsyncJobs : job[h].id > stack[2].n \/ Top.h = h
  <2>1. /\ \A h \in AsyncJobs : job[h].state = "Remove"
        /\ stack[3 - 1].at = "sweep2"
             => \A h \in AsyncJobs : job[h].id > stack[3 - 1].n \/ stack[3 - 2].h = h
    BY DEF Emptying
  <2> QED BY <1>0, <1>1, <2>1
<1>3. CASE UNCHANGED vars
  BY <1>3 DEF vars, Emptying, AsyncJobs, Jobs
<1>4. CASE FrameStep("dispose")
  <2>1. EraseTold
    BY <1>4 DEF FrameStep, ClientLabel, ScriptLabel
  <2>2. stack' = Tail(stack) /\ job' = [job EXCEPT ![Top.h] = NoJob]
    BY <2>1 DEF EraseTold, Return, Erase, Forget
  <2>3. ASSUME NEW h \in AsyncJobs'
        PROVE  h \in AsyncJobs /\ h # Top.h /\ job'[h] = job[h]
    BY <1>0, <2>2, <2>3 DEF AsyncJobs, Jobs, NoJob
  <2>4. /\ Len(stack') = 2 /\ stack'[1] = stack[2]
    BY <1>0, <2>2
  <2>5. \A h \in AsyncJobs' : job'[h].state = "Remove" /\ job'[h].id > stack'[1].n
    BY <1>2, <2>3, <2>4
  <2>6. stack'[1].at = "sweep2"
    BY <1>1, <2>4
  <2>7. stack'[2 - 1] = stack'[1]
    OBVIOUS
  <2> QED BY <2>4, <2>5, <2>6, <2>7 DEF Emptying
<1> QED BY <1>0, <1>1, <1>3, <1>4, Acting DEF Idle

\* One of the two loops runs.
LEMMA FinalPass ==
  ASSUME IInv, CallChain(stack), IdInv, Emptying, [Next]_vars, Len(stack) = 2,
         Bottom(stack).at = "finalize"
  PROVE  Emptying'
<1>0. /\ TypeOK /\ stack \in Seq(FrameType) /\ stack # << >> /\ Top = stack[1]
      /\ Tail(stack) \in Seq(FrameType) /\ Len(Tail(stack)) = 1
      /\ stack[2].at = "finalize"
      /\ job \in [Handle -> JobInfo] /\ Top \in FrameType
  <2>0. TypeOK /\ job \in [Handle -> JobInfo] /\ stack \in Seq(FrameType)
    BY DEF IInv, TypeOK
  <2>1. stack \in Seq(FrameType) /\ stack # << >>
    <3>1. Len(<< >>) = 0
      OBVIOUS
    <3>2. Len(stack) # 0
      OBVIOUS
    <3> QED BY <2>0, <3>1, <3>2, Zenon
  <2>2. /\ Len(Tail(stack)) = Len(stack) - 1 /\ Head(stack) = stack[1]
        /\ Tail(stack) \in Seq(FrameType) /\ stack[1] \in FrameType
    BY <2>1, Popped
  <2> QED BY <2>0, <2>1, <2>2 DEF Top, Bottom
<1>1. stack[1].at \in {"sweep1", "sweep2"}
  <2>1. stack[2 - 1].at \in {"sweep1", "sweep2"}
    BY <1>0, FinalFrames
  <2> QED BY <2>1
<1>2. /\ \A h \in AsyncJobs : job[h].state = "Remove"
      /\ stack[1].at = "sweep1" => (AsyncJobs # {} => condemned)
      /\ stack[1].at = "sweep2" => \A h \in AsyncJobs : job[h].id > Top.n
  <2>1. /\ \A h \in AsyncJobs : job[h].state = "Remove"
        /\ stack[2 - 1].at = "sweep1" => (AsyncJobs # {} => condemned)
        /\ stack[2 - 1].at = "sweep2" => \A h \in AsyncJobs : job[h].id > stack[2 - 1].n
    BY DEF Emptying
  <2> QED BY <1>0, <2>1
<1>3. ~HasSync(stack)
  BY <1>0, <1>1 DEF HasSync
<1>4. /\ Jobs = AsyncJobs
      /\ \A h \in Jobs : h \in Handle /\ ~job[h].paused /\ job[h].id \in Nat /\ job[h].id > 0
  <2>1. ASSUME NEW h \in Jobs PROVE h \in Handle /\ ~job[h].sync /\ ~job[h].paused
    BY <1>3 DEF IInv, StackInv, SyncJobsRun, PausedInSync, HasSync, Jobs
  <2>2. ASSUME NEW h \in Jobs PROVE job[h].id \in Nat /\ job[h].id > 0
    BY <1>0 DEF IdInv, TypeOK
  <2> QED BY <2>1, <2>2 DEF AsyncJobs
<1>5. CASE UNCHANGED vars
  BY <1>5 DEF vars, Emptying, AsyncJobs, Jobs
<1>r. ASSUME Return, AsyncJobs' = {} PROVE Emptying'
  <2>1. Len(stack') = 1
    BY <1>0, <1>r DEF Return
  <2> QED BY <1>r, <2>1 DEF Emptying
<1>b. ASSUME NEW f \in FrameType, Become(f), f.at = "sweep2",
             \A h \in AsyncJobs' : job'[h].state = "Remove" /\ job'[h].id > f.n
      PROVE  Emptying'
  <2>1. Len(stack') = 2 /\ stack'[1] = f
    <3> DEFINE r == Tail(stack)
    <3>1. r \in Seq(FrameType) /\ Len(r) = 1 /\ stack' = <<f>> \o r
      BY <1>0, <1>b DEF Become
    <3> HIDE DEF r
    <3> QED BY <1>b, <3>1, Pushed
  <2>2. stack'[2 - 1] = f
    BY <2>1
  <2> QED BY <1>b, <2>1, <2>2 DEF Emptying
<1>6. CASE FrameStep("sweep1") /\ stack[1].at = "sweep1"
  <2>1. Ahead(FALSE) = {}
    BY <1>2, <1>4 DEF Ahead
  <2>2. FirstLoopDone
    BY <1>6, <2>1 DEF FrameStep, ClientLabel, ScriptLabel, SweepStep, SweepTransfer, IsNext
  <2>3. CASE condemned
    <3> DEFINE f == Frame("sweep2", NoHandle)
    <3>1. f \in FrameType /\ f.at = "sweep2" /\ f.n = 0
      BY PlainFrameTyped DEF Frame
    <3>2. Become(f) /\ UNCHANGED job
      BY <2>2, <2>3 DEF FirstLoopDone
    <3> HIDE DEF f
    <3>3. \A h \in AsyncJobs' : job'[h].state = "Remove" /\ job'[h].id > f.n
      BY <1>2, <1>4, <3>1, <3>2 DEF AsyncJobs, Jobs
    <3> QED BY <1>b, <3>1, <3>2, <3>3
  <2>4. CASE ~condemned
    <3>1. Return /\ AsyncJobs' = {}
      BY <1>2, <1>6, <2>2, <2>4 DEF FirstLoopDone, AsyncJobs, Jobs
    <3> QED BY <1>r, <3>1
  <2> QED BY <2>3, <2>4
<1>7. CASE FrameStep("sweep2") /\ stack[1].at = "sweep2"
  <2>1. TellFailure \/ EraseQuietly \/ SecondLoopDone
    BY <1>7 DEF FrameStep, ClientLabel, ScriptLabel
  <2>2. Ahead(TRUE) = Jobs
    BY <1>2, <1>4, <1>7 DEF Ahead
  <2>3. ASSUME NEW h \in Handle, IsNext(h, TRUE), NEW g \in Jobs, g # h
        PROVE  job[g].id > job[h].id
    <3>1. h \in Jobs /\ job[h].id <= job[g].id
      BY <2>2, <2>3 DEF IsNext
    <3> QED BY <1>4, <2>3, <3>1 DEF IdInv
  <2>n. ASSUME NEW h \in Handle
        PROVE  /\ [Top EXCEPT !.n = job[h].id] \in FrameType
               /\ [Top EXCEPT !.n = job[h].id].at = Top.at
               /\ [Top EXCEPT !.n = job[h].id].n = job[h].id
    <3>1. job[h].id \in Nat
      BY <1>0, <2>n DEF JobInfo
    <3> QED BY <1>0, <3>1, FrameUpdate DEF FrameType
  <2>4. CASE TellFailure
    <3>1. PICK h \in Handle :
            /\ IsNext(h, TRUE)
            /\ stack' = <<Frame("fail", h), Frame("dispose", h),
                          [Top EXCEPT !.n = job[h].id]>> \o Tail(stack)
      BY <2>4 DEF TellFailure
    <3> DEFINE e == Frame("fail", h)
               d == Frame("dispose", h)
               f == [Top EXCEPT !.n = job[h].id]
               r == Tail(stack)
    <3>2. /\ e \in FrameType /\ d \in FrameType /\ d.at = "dispose" /\ d.h = h
          /\ f \in FrameType /\ f.at = "sweep2" /\ f.n = job[h].id
      BY <1>0, <1>7, <2>n, HandleFrameTyped DEF Frame
    <3>3. stack' = <<e, d, f>> \o r /\ r \in Seq(FrameType) /\ Len(r) = 1
      BY <1>0, <3>1
    <3> HIDE DEF e, d, f, r
    <3>4. Len(stack') = 4 /\ stack'[2] = d /\ stack'[3] = f
      <4>1. ThreePushes(r, e, d, f)
        BY <3>2, <3>3, PushedThree
      <4> DEFINE s == <<f>> \o r
                 t == <<d>> \o s
      <4>2. stack' = <<e>> \o t
        BY <3>3, <4>1, Zenon DEF ThreePushes
      <4>3. s \in Seq(FrameType) /\ Len(s) = 2 /\ s[1] = f
        <5>1. s \in Seq(FrameType) /\ Len(s) = Len(r) + 1 /\ s[1] = f
          BY <3>2, <3>3, Pushed
        <5> QED BY <3>3, <5>1
      <4> HIDE DEF s
      <4>4. t \in Seq(FrameType) /\ Len(t) = 3 /\ t[1] = d /\ t[2] = f
        <5>1. /\ t \in Seq(FrameType) /\ Len(t) = Len(s) + 1 /\ t[1] = d
              /\ \A k \in 1..Len(s) : t[k + 1] = s[k]
          BY <3>2, <4>3, Pushed
        <5> QED BY <4>3, <5>1
      <4> HIDE DEF t
      <4>5. /\ Len(stack') = Len(t) + 1
            /\ \A k \in 1..Len(t) : stack'[k + 1] = t[k]
        BY <3>2, <4>2, <4>4, Pushed
      <4> QED BY <4>4, <4>5
    <3>5. UNCHANGED job
      BY <2>4 DEF TellFailure
    <3>6. \A g \in AsyncJobs' : /\ job'[g].state = "Remove"
                                /\ job'[g].id > f.n \/ d.h = g
      BY <1>2, <1>4, <2>3, <3>1, <3>2, <3>5 DEF AsyncJobs, Jobs
    <3>7. stack'[4 - 1] = f /\ stack'[4 - 2] = d
      BY <3>4
    <3> QED BY <3>2, <3>4, <3>6, <3>7 DEF Emptying
  <2>5. CASE EraseQuietly
    <3>1. PICK h \in Handle :
            /\ IsNext(h, TRUE)
            /\ job' = [job EXCEPT ![h] = NoJob]
            /\ Become([Top EXCEPT !.n = job[h].id])
      BY <2>5 DEF EraseQuietly, Erase, Forget
    <3> DEFINE f == [Top EXCEPT !.n = job[h].id]
    <3>2. f \in FrameType /\ f.at = "sweep2" /\ f.n = job[h].id /\ Become(f)
      BY <1>0, <1>7, <2>n, <3>1
    <3> HIDE DEF f
    <3>3. ASSUME NEW g \in AsyncJobs'
          PROVE  job'[g].state = "Remove" /\ job'[g].id > f.n
      <4>1. g \in AsyncJobs /\ g # h /\ job'[g] = job[g]
        BY <1>0, <3>1, <3>3 DEF AsyncJobs, Jobs, NoJob
      <4> QED BY <1>2, <1>4, <2>3, <3>1, <3>2, <4>1
    <3> QED BY <1>b, <3>2, <3>3
  <2>6. CASE SecondLoopDone
    <3>1. Return /\ UNCHANGED job /\ Jobs = {}
      BY <2>2, <2>6 DEF SecondLoopDone
    <3>2. AsyncJobs' = {}
      BY <3>1 DEF AsyncJobs, Jobs
    <3> QED BY <1>r, <3>1, <3>2
  <2> QED BY <2>1, <2>4, <2>5, <2>6
<1> QED BY <1>0, <1>1, <1>5, <1>6, <1>7, Acting DEF Idle

LEMMA FinalStep ==
  ASSUME IInv, CallChain(stack), IdInv, FinalInv, [Next]_vars
  PROVE  FinalInv'
<1>0. TypeOK /\ stack \in Seq(FrameType) /\ Len(stack) \in Nat
      /\ (stack # << >> => Len(stack) >= 1)
  BY EmptySeq DEF IInv, TypeOK
<1>n. /\ Len(stack) >= 1 => Len(stack) = 1 \/ Len(stack) >= 2
      /\ Len(stack) >= 2 => Len(stack) = 2 \/ Len(stack) = 3 \/ Len(stack) >= 4
  <2>1. \A n \in Nat : /\ n >= 1 => n = 1 \/ n >= 2
                       /\ n >= 2 => n = 2 \/ n = 3 \/ n >= 4
    OBVIOUS
  <2> QED BY <1>0, <2>1, Zenon
<1>1. Finalized => Jobs' = {}
  <2>1. SUFFICES ASSUME Finalized PROVE Jobs = {}
    BY DEF Finalized, Jobs
  <2>2. stack # << >> /\ Top = stack[1] /\ stack[1].at = "finalize"
        /\ CallChain(stack) /\ stack \in Seq(FrameType)
    BY <1>0, <2>1, AtChain DEF Finalized
  <2>3. Tail(stack) = << >>
    BY <2>2, Outermost DEF OutermostLabel
  <2>4. Len(stack) = 1
    <3>1. Len(Tail(stack)) = Len(stack) - 1
      BY <2>2, Popped
    <3>2. Len(<< >>) = 0
      OBVIOUS
    <3>3. Len(stack) - 1 = 0 /\ Len(stack) \in Nat
      BY <1>0, <2>3, <3>1, <3>2, Zenon
    <3> QED BY <3>3
  <2>5. AsyncJobs = {}
    BY <2>2, <2>4 DEF FinalInv, Emptying, Bottom
  <2>6. ~HasSync(stack)
    BY <2>2, <2>4 DEF HasSync
  <2>7. \A h \in Jobs : ~job[h].sync
    BY <2>6 DEF IInv, StackInv, SyncJobsRun, HasSync, Jobs
  <2> QED BY <2>5, <2>7 DEF AsyncJobs
<1>2. life' = "down" => Jobs' = {}
  <2>1. CASE Finalized
    BY <1>1, <2>1
  <2>2. CASE life = "down"
    <3>1. UNCHANGED vars
      BY <2>2, Acting DEF Idle
    <3> QED BY <2>2, <3>1 DEF FinalInv, vars, Jobs
  <2> QED BY <2>1, <2>2, LifeSteps
<1>3. ASSUME stack' # << >>, Bottom(stack').at = "finalize"
      PROVE  Emptying'
  <2>1. CASE stack = << >>
    <3>1. Finalize /\ Len(stack') = 2 /\ stack'[1].at = "sweep1"
      BY <1>0, <1>3, <2>1, BottomBegins
    <3>2. Condemn(Jobs)
      BY <3>1 DEF Finalize
    <3>3. \A h \in AsyncJobs' : job'[h].state = "Remove"
      <4>1. job \in [Handle -> JobInfo]
        BY <1>0 DEF TypeOK
      <4> QED BY <3>2, <4>1 DEF Condemn, AsyncJobs, Jobs, JobInfo
    <3>4. AsyncJobs' # {} => condemned'
      BY <3>2 DEF Condemn, AsyncJobs, Jobs
    <3>5. stack'[2 - 1].at = "sweep1"
      BY <3>1
    <3> QED BY <3>1, <3>3, <3>4, <3>5 DEF Emptying
  <2>2. CASE Len(stack) = 1
    <3>1. stack # << >>
      <4>1. Len(<< >>) = 0
        OBVIOUS
      <4>2. Len(stack) # 0
        BY <2>2
      <4> QED BY <4>1, <4>2, Zenon
    <3>2. Top = stack[1] /\ Tail(stack) = << >>
      <4>1. Len(Tail(stack)) = Len(stack) - 1 /\ Head(stack) = stack[1]
            /\ Tail(stack) \in Seq(FrameType)
        BY <1>0, <3>1, Popped
      <4>2. Len(Tail(stack)) = 0
        BY <2>2, <4>1
      <4> QED BY <4>1, <4>2, EmptySeq DEF Top
    <3>3. Top.at = "finalize"
      BY <1>0, <1>3, <3>1, <3>2, BottomMoves DEF BottomGoesOn
    <3>4. UNCHANGED vars \/ Finalized
      <4>1. UNCHANGED vars \/ FrameStep("finalize")
        BY <3>1, <3>3, Acting DEF Idle
      <4> QED BY <4>1, OutermostStep DEF OutsideLabel
    <3>5. UNCHANGED vars
      BY <1>3, <3>2, <3>4 DEF Finalized, Return
    <3>6. Emptying
      BY <3>1, <3>2, <3>3, <2>2 DEF FinalInv, Bottom
    <3> QED BY <3>5, <3>6 DEF vars, Emptying, AsyncJobs, Jobs
  <2>3. CASE Len(stack) >= 2
    <3>1. Bottom(stack).at = "finalize" /\ stack # << >>
      <4>1. Len(<< >>) = 0
        OBVIOUS
      <4>2. Len(stack) # 0
        BY <2>3
      <4>3. stack # << >>
        BY <4>1, <4>2, Zenon
      <4> QED BY <1>0, <1>3, <2>3, <4>3, BottomStays
    <3>2. Emptying
      BY <3>1 DEF FinalInv
    <3>3. Len(stack) = 2 \/ Len(stack) = 3 \/ Len(stack) >= 4
      BY <1>n, <2>3
    <3> QED BY <3>1, <3>2, <3>3, FinalPass, FinalDispose, FinalAbove
  <2>4. stack = << >> \/ Len(stack) >= 1
    BY <1>0
  <2>5. Len(stack) >= 1 => Len(stack) = 1 \/ Len(stack) >= 2
    BY <1>n
  <2> QED BY <2>1, <2>2, <2>3, <2>4, <2>5
<1> QED BY <1>2, <1>3 DEF FinalInv

LEMMA InitFinal == Init => FinalInv
BY DEF Init, FinalInv

-----------------------------------------------------------------------------
(* The theorems *)

\* ShutdownPromise alone is not inductive: that nothing is left when
\* ~ResourceHandleManager returns rests on its one pass meeting every job once,
\* whatever its clients do in between.
LEMMA ShutInvariant == Spec => [](ShutInv /\ IdInv /\ FinalInv)
<1>1. ShutInv /\ IdInv /\ FinalInv /\ IInv /\ IInv' /\ OwnerInv /\ [Next]_vars
        => ShutInv' /\ IdInv' /\ FinalInv'
  BY ShutStep, IdStep, FinalStep DEF OwnerInv
<1>2. Init => ShutInv /\ IdInv /\ FinalInv
  BY InitShut, InitIds, InitFinal
<1> QED BY <1>1, <1>2, Invariant, OwnerInvariant, PTL DEF Spec

\* "We promise the TransportHandler that if we Init it then eventually we will
\* Shutdown it": a session is open only as long as its job, and none is left
\* when the manager is deleted.
THEOREM ShutdownPromised == Spec => []ShutdownPromise
<1>1. ShutInv /\ FinalInv => ShutdownPromise
  BY DEF ShutInv, FinalInv, ShutdownPromise
<1> QED BY <1>1, ShutInvariant, PTL

-----------------------------------------------------------------------------
(* The timer is armed while there is work left *)

Work == queue # << >> \/ Jobs # {} \/ limbo # {}

\* Entry points that return to the application without a look at the work left.
PassingLabel == {"removeHandler", "headersDone", "redirect"}

\* TimerArmed is inductive only with what downloadTimerCallback remembers in
\* its local, and with what holds while other entry points run: a synchronous
\* load arms the timer when it ends.
TimerInv ==
  /\ TimerArmed
  /\ (life = "up" /\ stack # << >> /\ Bottom(stack).at \in PassingLabel
       /\ ~HasSync(stack) /\ Work) => timer
  /\ (stack # << >> /\ Bottom(stack).at \in {"auth", "start2"} /\ AsyncJobs # {})
       => timer \/ Bottom(stack).b

LEMMA TimerSteps ==
  ASSUME [Next]_vars, timer
  PROVE  timer' \/ TimerFires \/ Finalized
<1>1. ASSUME NEW h \in Handle,
             \/ StartLoad(h) \/ CancelLoad(h) \/ SyncStart(h) \/ HeadersReceived(h)
             \/ SetRedirect(h) \/ AuthProceed(h) \/ AuthCancel(h) \/ AuthDangling(h)
             \/ DataReceived(h) \/ DataDone(h, TRUE) \/ DataDone(h, FALSE)
      PROVE  timer'
  BY <1>1 DEF StartLoad, CancelLoad, SyncStart, HeadersReceived, SetRedirect,
     AuthProceed, AuthCancel, AuthDangling, DataReceived, DataDone
<1>2. ASSUME \/ RemoveTransportHandler \/ Finalize \/ ClientReturn
             \/ UriData \/ UriFinish \/ UriDone \/ FirstStartDone \/ PassDone
             \/ AuthTickDone \/ CallbackDone \/ StartNext
      PROVE  timer'
  BY <1>2 DEF RemoveTransportHandler, Finalize, ClientReturn, UriData,
     UriFinish, UriDone, FirstStartDone, PassDone, AuthTickDone, CallbackDone, StartNext
<1>3. ASSUME \/ SweepTransfer \/ FirstLoopDone \/ TellFailure \/ SecondLoopDone
             \/ HeadersDone \/ DataRest \/ AuthFinish \/ AuthDrop \/ TransferReturn
             \/ SyncProcess \/ SyncTicked \/ SyncReturn \/ TransportHandlerRemoved
             \/ SweepStep \/ EraseTold \/ EraseQuietly \/ UNCHANGED vars
      PROVE  timer'
  BY <1>3 DEF SweepTransfer, FirstLoopDone, TellFailure, SecondLoopDone, HeadersDone,
     DataRest, AuthFinish, AuthDrop, TransferReturn, SyncProcess, SyncTicked, SyncReturn,
     TransportHandlerRemoved, SweepStep, EraseTold, EraseQuietly, Erase, vars
<1>4. ASSUME NEW h \in Handle, NEW result \in BOOLEAN, DataDone(h, result)
      PROVE  DataDone(h, TRUE) \/ DataDone(h, FALSE)
  BY <1>4
<1> QED BY <1>1, <1>2, <1>3, <1>4, Zenon DEF Next, Outside, Inside

\* Only add and Proceed make the queue longer, and they arm the timer.
LEMMA QueueSteps ==
  ASSUME [Next]_vars, queue' # << >>
  PROVE  queue # << >> \/ timer'
<1>1. ASSUME NEW h \in Handle, SyncStart(h) \/ HeadersReceived(h)
             \/ SetRedirect(h) \/ AuthCancel(h) \/ AuthDangling(h)
             \/ DataReceived(h) \/ DataDone(h, TRUE) \/ DataDone(h, FALSE)
      PROVE  UNCHANGED queue
  BY <1>1 DEF SyncStart, HeadersReceived, SetRedirect,
     AuthCancel, AuthDangling, DataReceived, DataDone
<1>2. ASSUME \/ RemoveTransportHandler \/ Finalize \/ TimerFires \/ ClientReturn
             \/ UriData \/ UriFinish \/ UriDone \/ FirstStartDone \/ PassDone
             \/ AuthTickDone \/ CallbackDone
      PROVE  UNCHANGED queue
  BY <1>2 DEF RemoveTransportHandler, Finalize, TimerFires, ClientReturn, UriData,
     UriFinish, UriDone, FirstStartDone, PassDone, AuthTickDone, CallbackDone
<1>3. ASSUME \/ SweepTransfer \/ FirstLoopDone \/ TellFailure \/ SecondLoopDone
             \/ HeadersDone \/ DataRest \/ AuthFinish \/ AuthDrop \/ TransferReturn
             \/ SyncProcess \/ SyncTicked \/ SyncReturn \/ TransportHandlerRemoved
             \/ Finalized \/ SweepStep \/ EraseTold \/ EraseQuietly \/ UNCHANGED vars
      PROVE  UNCHANGED queue
  BY <1>3 DEF SweepTransfer, FirstLoopDone, TellFailure, SecondLoopDone, HeadersDone,
     DataRest, AuthFinish, AuthDrop, TransferReturn, SyncProcess, SyncTicked, SyncReturn,
     TransportHandlerRemoved, Finalized, SweepStep, EraseTold, EraseQuietly, vars
<1>4. ASSUME NEW h \in Handle, StartLoad(h) \/ AuthProceed(h)
      PROVE  timer'
  BY <1>4 DEF StartLoad, AuthProceed
<1>5. ASSUME NEW h \in Handle, CancelLoad(h)
      PROVE  queue # << >> \/ UNCHANGED queue
  <2>1. Scheduled(h) => queue # << >>
    <3>1. 1..Len(<< >>) = {}
      OBVIOUS
    <3> QED BY <3>1 DEF Scheduled
  <2> QED BY <1>5, <2>1 DEF CancelLoad
<1>6. StartNext => queue # << >>
  BY DEF StartNext, CanStart
<1>7. ASSUME NEW h \in Handle, NEW result \in BOOLEAN, DataDone(h, result)
      PROVE  DataDone(h, TRUE) \/ DataDone(h, FALSE)
  BY <1>7
<1>8. UNCHANGED queue => queue # << >>
  OBVIOUS
<1> QED BY <1>1, <1>2, <1>3, <1>4, <1>5, <1>6, <1>7, <1>8, Zenon DEF Next, Outside, Inside

\* Only a job whose server asked for credentials is put on the list of the
\* AuthenticationManager.
LEMMA LimboSteps ==
  ASSUME IInv, [Next]_vars, NEW h \in limbo', h \notin limbo
  PROVE  h \in Jobs /\ job[h].auth /\ (EraseTold \/ EraseQuietly)
<1>1. ASSUME NEW g \in Handle,
             \/ StartLoad(g) \/ CancelLoad(g) \/ SyncStart(g) \/ HeadersReceived(g)
             \/ SetRedirect(g) \/ AuthCancel(g) \/ AuthDangling(g) \/ AuthProceed(g)
             \/ DataReceived(g) \/ DataDone(g, TRUE) \/ DataDone(g, FALSE)
      PROVE  limbo' \subseteq limbo
  BY <1>1 DEF StartLoad, CancelLoad, SyncStart, HeadersReceived, SetRedirect,
     AuthProceed, AuthCancel, AuthDangling, DataReceived, DataDone
<1>2. ASSUME \/ RemoveTransportHandler \/ Finalize \/ TimerFires \/ ClientReturn
             \/ UriData \/ UriFinish \/ UriDone \/ FirstStartDone \/ PassDone
             \/ AuthTickDone \/ CallbackDone \/ StartNext
      PROVE  limbo' \subseteq limbo
  BY <1>2 DEF RemoveTransportHandler, Finalize, TimerFires, ClientReturn, UriData,
     UriFinish, UriDone, FirstStartDone, PassDone, AuthTickDone, CallbackDone, StartNext
<1>3. ASSUME \/ SweepTransfer \/ FirstLoopDone \/ TellFailure \/ SecondLoopDone
             \/ HeadersDone \/ DataRest \/ AuthFinish \/ AuthDrop \/ TransferReturn
             \/ SyncProcess \/ SyncTicked \/ SyncReturn \/ TransportHandlerRemoved
             \/ Finalized \/ SweepStep \/ UNCHANGED vars
      PROVE  limbo' \subseteq limbo
  BY <1>3 DEF SweepTransfer, FirstLoopDone, TellFailure, SecondLoopDone, HeadersDone,
     DataRest, AuthFinish, AuthDrop, TransferReturn, SyncProcess, SyncTicked, SyncReturn,
     TransportHandlerRemoved, Finalized, SweepStep, vars
<1>4. CASE EraseTold
  <2>1. At("dispose") /\ h = Top.h /\ job[h].auth
    BY <1>4 DEF EraseTold, Erase
  <2>2. stack \in Seq(FrameType) /\ stack # << >> /\ Top = stack[1] /\ Top.h \in Handle
        /\ stack[1].at = "dispose"
    BY <2>1, AtInv DEF IInv, HandleLabel
  <2>3. 1 \in 1..Len(stack)
    BY <2>2, EmptySeq
  <2>4. job[h].state # "None"
    BY <2>1, <2>2, <2>3 DEF IInv, StackInv, HeldJobs, Holder
  <2> QED BY <1>4, <2>1, <2>2, <2>4 DEF Jobs
<1>5. CASE EraseQuietly
  BY <1>5 DEF EraseQuietly, Erase, IsNext, Ahead
<1>6. ASSUME NEW g \in Handle, NEW result \in BOOLEAN, DataDone(g, result)
      PROVE  DataDone(g, TRUE) \/ DataDone(g, FALSE)
  BY <1>6
<1>7. ~(limbo' \subseteq limbo)
  OBVIOUS
<1> QED BY <1>1, <1>2, <1>3, <1>4, <1>5, <1>6, <1>7, Zenon DEF Next, Outside, Inside

LEMMA WorkSteps ==
  ASSUME IInv, [Next]_vars, Work'
  PROVE  Work \/ timer' \/ HasSync(stack')
<1>1. CASE queue' # << >>
  BY <1>1, QueueSteps DEF Work
<1>2. CASE limbo' # {}
  BY <1>2, LimboSteps DEF Work
<1>3. CASE Jobs' # {}
  <2>1. PICK g \in Jobs' : TRUE
    BY <1>3
  <2>2. CASE g \in Jobs
    BY <2>2 DEF Work
  <2>3. CASE g \notin Jobs
    <3>1. g \in Handle /\ JobAdded(g)
      BY <2>3, JobsAdded DEF Jobs
    <3>2. CASE StartNext
      BY <3>2 DEF StartNext, CanStart, Work
    <3>3. CASE SyncStart(g)
      <4>1. stack' = <<Frame("sync", g)>> \o stack /\ stack \in Seq(FrameType)
        BY <3>3 DEF SyncStart, Call, IInv, TypeOK
      <4>2. Frame("sync", g) \in FrameType /\ Frame("sync", g).at = "sync"
        BY <3>1, HandleFrameTyped DEF Frame
      <4> QED BY <4>1, <4>2, PushedSync
    <3> QED BY <3>1, <3>2, <3>3 DEF JobAdded
  <2> QED BY <2>2, <2>3
<1> QED BY <1>1, <1>2, <1>3 DEF Work

\* Only the return of a synchronous load takes its frame from the stack.
LEMMA SyncFrameLeaves ==
  ASSUME IInv, [Next]_vars,
         NEW h \in HandlesAt(stack, {"sync"}), h \notin HandlesAt(stack', {"sync"})
  PROVE  SyncReturn /\ Top.h = h
<1>0. /\ TypeOK /\ stack \in Seq(FrameType) /\ stack' \in Seq(FrameType)
      /\ Len(stack) \in Nat /\ Len(stack') \in Nat
  BY TypeStep DEF IInv, TypeOK
<1>1. PICK k \in 1..Len(stack) : stack[k].at = "sync" /\ stack[k].h = h
  BY DEF HandlesAt
<1>2. stack # << >> /\ Tail(stack) \in Seq(FrameType)
      /\ Head(stack) = stack[1]
  <2>1. Len(<< >>) = 0
    OBVIOUS
  <2>2. stack # << >>
    BY <1>0, <2>1
  <2> QED BY <1>0, <2>2, Popped
<1>3. ASSUME k # 1 PROVE FALSE
  <2>1. Keeps(stack, stack', Len(stack) - 1)
    BY <1>0, <1>2, BelowTop
  <2> DEFINE i == Len(stack) - k
  <2>2. i \in 0..((Len(stack) - 1) - 1) /\ Len(stack) - i = k
    BY <1>0, <1>3
  <2>3. Len(stack') >= Len(stack) - 1 /\ stack'[Len(stack') - i] = stack[Len(stack) - i]
    BY <2>1, <2>2 DEF Keeps
  <2>4. Len(stack') - i \in 1..Len(stack')
    BY <1>0, <2>2, <2>3
  <2> HIDE DEF i
  <2>5. stack'[Len(stack') - i].at = "sync" /\ stack'[Len(stack') - i].h = h
    BY <1>1, <2>2, <2>3
  <2> QED BY <2>4, <2>5 DEF HandlesAt
<1>4. k = 1
  BY <1>3
<1>5. Top.at = "sync" /\ Top \in FrameType /\ Top.h = h
  BY <1>1, <1>2, <1>4, <1>0, Popped DEF Top
<1>6. UNCHANGED vars \/ FrameStep("sync")
  BY <1>2, <1>5, Acting DEF Idle
<1>7. ~(UNCHANGED stack)
  OBVIOUS
<1>p. ASSUME NEW s \in Seq(FrameType), NEW f \in FrameType,
             h \in HandlesAt(s, {"sync"}) \/ (f.at = "sync" /\ f.h = h)
      PROVE  h \in HandlesAt(<<f>> \o s, {"sync"}) /\ <<f>> \o s \in Seq(FrameType)
  <2>1. CASE f.at = "sync"
    BY <1>p, <2>1, HandlesPushed, Pushed
  <2>2. CASE f.at # "sync"
    BY <1>p, <2>2, HandlesPushed, Pushed
  <2> QED BY <2>1, <2>2
<1>8. ASSUME NEW g \in Handle, HeadersReceived(g) \/ SetRedirect(g) PROVE FALSE
  <2> DEFINE f == Frame("response", g)
             e == Frame("headersDone", g)
             r == Frame("redirect", g)
  <2>1. f \in FrameType /\ e \in FrameType /\ r \in FrameType
    BY HandleFrameTyped
  <2>2. stack' = <<f, e>> \o stack \/ stack' = <<r>> \o stack
    BY <1>7, <1>8 DEF HeadersReceived, SetRedirect, Call
  <2> HIDE DEF f, e, r
  <2> DEFINE s == <<e>> \o stack
  <2>3. s \in Seq(FrameType) /\ h \in HandlesAt(s, {"sync"}) /\ <<f, e>> \o stack = <<f>> \o s
    BY <1>0, <1>p, <2>1, PushedTwo
  <2> HIDE DEF s
  <2>4. h \in HandlesAt(<<f>> \o s, {"sync"}) /\ h \in HandlesAt(<<r>> \o stack, {"sync"})
    BY <1>0, <1>p, <2>1, <2>3
  <2> QED BY <2>2, <2>3, <2>4
<1>9. ASSUME SyncProcess \/ SyncTicked PROVE FALSE
  <2> DEFINE f == [Top EXCEPT !.b = TRUE]
             g == [Top EXCEPT !.b = FALSE]
             e == Frame("sweep1", NoHandle)
             r == Tail(stack)
  <2>1. /\ f \in FrameType /\ f.at = "sync" /\ f.h = h
        /\ g \in FrameType /\ g.at = "sync" /\ g.h = h
    BY <1>5, FrameUpdate DEF FrameType
  <2>2. e \in FrameType /\ r \in Seq(FrameType)
    BY <1>2, PlainFrameTyped
  <2>3. stack' = <<e, f>> \o r \/ stack' = <<g>> \o r
    BY <1>9 DEF SyncProcess, SyncTicked, CallThen, Become
  <2> HIDE DEF e, f, g, r
  <2> DEFINE s == <<f>> \o r
  <2>4. s \in Seq(FrameType) /\ h \in HandlesAt(s, {"sync"}) /\ <<e, f>> \o r = <<e>> \o s
    BY <1>p, <2>1, <2>2, PushedTwo
  <2> HIDE DEF s
  <2>5. h \in HandlesAt(<<e>> \o s, {"sync"}) /\ h \in HandlesAt(<<g>> \o r, {"sync"})
    BY <1>p, <2>1, <2>2, <2>4
  <2> QED BY <2>3, <2>4, <2>5
<1>10. FrameStep("sync") => \/ SyncProcess \/ SyncTicked \/ SyncReturn
                            \/ \E g \in Handle : HeadersReceived(g) \/ SetRedirect(g)
  BY OutermostStep DEF OutsideLabel
<1>11. SyncReturn
  BY <1>6, <1>7, <1>8, <1>9, <1>10 DEF vars
<1> QED BY <1>5, <1>11

\* A synchronous load arms the timer when it returns.
LEMMA SyncLeaves ==
  ASSUME IInv, [Next]_vars, HasSync(stack), ~HasSync(stack')
  PROVE  timer'
<1>1. PICK k \in 1..Len(stack) : stack[k].at = "sync"
  BY DEF HasSync
<1>2. stack[k].h \in HandlesAt(stack, {"sync"})
  BY <1>1 DEF HandlesAt
<1>3. HandlesAt(stack', {"sync"}) = {}
  BY DEF HandlesAt, HasSync
<1>4. SyncReturn
  BY <1>2, <1>3, SyncFrameLeaves
<1> QED BY <1>4 DEF SyncReturn

\* No asynchronous job is added but by startScheduledJobs.
LEMMA AsyncAdded ==
  ASSUME IInv, [Next]_vars, AsyncJobs' # {}
  PROVE  AsyncJobs # {} \/ StartNext
<1>1. PICK g \in AsyncJobs' : TRUE
  OBVIOUS
<1>2. g \in Handle /\ g \in Jobs' /\ job'[g].state # "None" /\ ~job'[g].sync
  BY DEF AsyncJobs, Jobs
<1>3. CASE g \in Jobs
  <2>1. SameIdentity(g)
    BY <1>2, <1>3, JobMoves DEF JobMove
  <2> QED BY <1>2, <1>3, <2>1 DEF SameIdentity, AsyncJobs
<1>4. CASE g \notin Jobs
  BY <1>2, <1>4, JobsAdded DEF JobAdded
<1> QED BY <1>3, <1>4

\* startScheduledJobs runs in no other frame than that of the timer callback.
LEMMA StartNextOutermost ==
  ASSUME TypeOK, CallChain(stack), StartNext
  PROVE  stack # << >> /\ Tail(stack) = << >>
<1>1. PICK l \in {"start1", "start2"} : At(l)
  BY DEF StartNext
<1>2. stack # << >> /\ stack \in Seq(FrameType) /\ stack[1].at \in OutermostLabel
  BY <1>1, AtChain DEF OutermostLabel
<1> QED BY <1>2, Outermost

\* downloadTimerCallback is about to return: only a full m_JobInfoList keeps
\* handles in the queue.
LEMMA NothingForgotten ==
  ASSUME IInv, CallChain(stack), TimerInv, CallbackDone, Tail(stack) = << >>, Work
  PROVE  timer'
<1>0. /\ TypeOK /\ StackInv(stack, job) /\ running = Cardinality(Jobs)
      /\ MaxConcurrent \in Nat \ {0}
  BY ParameterAssumption DEF IInv, RunningCount
<1>1. At("start2") /\ ~CanStart /\ timer' = (timer \/ WorkLeft)
  BY DEF CallbackDone
<1>2. /\ stack \in Seq(FrameType) /\ stack # << >> /\ Top = stack[1]
      /\ stack[1].at = "start2"
  BY <1>0, <1>1, AtInv
<1>3. Bottom(stack) = Top
  <2>1. Len(Tail(stack)) = Len(stack) - 1 /\ Len(stack) \in Nat
    BY <1>2, Popped
  <2>2. Len(<< >>) = 0
    OBVIOUS
  <2>3. Len(stack) - 1 = 0 /\ Len(stack) \in Nat
    BY <2>1, <2>2, Zenon
  <2>4. Len(stack) = 1
    BY <2>3
  <2> QED BY <1>2, <2>4 DEF Bottom
<1>4. Jobs # {} => AsyncJobs # {}
  <2>1. "start2" \notin SyncInner \cup {"sync"}
    BY DEF SyncInner
  <2>2. ~HasSync(stack)
    BY <1>0, <1>1, <2>1, AtInv
  <2> QED BY <1>0, <2>2 DEF StackInv, SyncJobsRun, HasSync, AsyncJobs, Jobs
<1>5. queue # << >> => Jobs # {}
  <2>1. queue # << >> => ~(running < MaxConcurrent)
    BY <1>1 DEF CanStart
  <2>2. Jobs = {} => running = 0
    BY <1>0, FS_EmptySet
  <2> QED BY <1>0, <2>1, <2>2
<1>6. AsyncJobs # {} => timer \/ Top.b
  BY <1>2, <1>3 DEF TimerInv
<1> QED BY <1>1, <1>4, <1>5, <1>6 DEF Work, WorkLeft

LEMMA TimerStep ==
  ASSUME IInv, CallChain(stack), TimerInv, [Next]_vars
  PROVE  TimerInv'
<1>0. /\ TypeOK /\ stack \in Seq(FrameType) /\ Len(stack) \in Nat
      /\ stack # << >> => Len(stack) >= 1 /\ Len(Tail(stack)) = Len(stack) - 1
                          /\ Tail(stack) \in Seq(FrameType) /\ Head(stack) = stack[1]
  BY Popped, EmptySeq DEF IInv, TypeOK
<1>s. stack = << >> \/ Len(stack) >= 2
        \/ (stack # << >> /\ Tail(stack) = << >> /\ Bottom(stack) = Top)
  <2>1. CASE Len(stack) = 1
    <3>1. stack # << >> => Len(Tail(stack)) = 0
      BY <1>0, <2>1
    <3> QED BY <1>0, <2>1, <3>1, EmptySeq DEF Bottom, Top
  <2>2. \A n \in Nat : n >= 1 => n = 1 \/ n >= 2
    OBVIOUS
  <2> QED BY <1>0, <2>1, <2>2, Zenon
<1>u. ASSUME life' = "up" PROVE life = "up" /\ ~Finalized
  BY <1>u, LifeSteps DEF Finalized
<1>e. ~HasSync(<< >>)
  <2>1. 1..Len(<< >>) = {}
    OBVIOUS
  <2> QED BY <2>1 DEF HasSync
<1>f. TimerFires => stack = << >> /\ stack' # << >> /\ Bottom(stack').at = "start1"
  <2>1. Frame("start1", NoHandle) \in FrameType /\ Frame("start1", NoHandle).at = "start1"
    BY PlainFrameTyped DEF Frame
  <2> QED BY <1>0, <2>1, BottomPushed DEF TimerFires, Idle, Call
<1>o. ASSUME Finalized PROVE stack # << >> /\ Tail(stack) = << >> /\ Top.at = "finalize"
  <2>1. /\ stack # << >> /\ stack \in Seq(FrameType) /\ Top = stack[1]
        /\ stack[1].at = "finalize"
    BY <1>0, <1>o, AtChain DEF Finalized
  <2> QED BY <2>1, Outermost DEF OutermostLabel
<1>1. ASSUME life' = "up", stack' = << >>, Work'
      PROVE  timer'
  <2>1. Work \/ timer'
    BY <1>1, <1>e, WorkSteps
  <2>2. CASE Work /\ stack = << >>
    <3>1. timer
      BY <1>1, <1>u, <2>2 DEF TimerInv, TimerArmed, Idle, Work
    <3> QED BY <1>1, <1>u, <1>f, <3>1, TimerSteps
  <2>3. CASE Work /\ stack # << >>
    <3>1. ~(Len(stack) >= 2)
      BY <1>0, <1>1, BottomStays
    <3>2. Tail(stack) = << >> /\ Bottom(stack) = Top
      BY <1>s, <2>3, <3>1
    <3>3. BottomEnds
      BY <1>0, <1>1, <2>3, <3>2, BottomMoves
    <3>4. ASSUME Top.at \in PassingLabel PROVE timer'
      <4>1. ~HasSync(stack)
        <5>0. \A n \in Nat : n >= 1 => n = 1 \/ n >= 2
          OBVIOUS
        <5>1. Len(stack) = 1
          BY <1>0, <2>3, <3>1, <5>0, Zenon
        <5>2. stack[1].at # "sync"
          BY <1>0, <2>3, <3>4 DEF PassingLabel, Top
        <5> QED BY <5>1, <5>2 DEF HasSync
      <4>2. timer
        BY <1>1, <1>u, <2>3, <3>2, <3>4, <4>1 DEF TimerInv
      <4> QED BY <1>1, <1>u, <1>f, <4>2, TimerSteps
    <3>5. CASE CallbackDone
      BY <2>3, <3>2, <3>5, NothingForgotten
    <3>6. SyncReturn => timer'
      BY DEF SyncReturn
    <3> QED BY <1>1, <1>u, <3>3, <3>4, <3>5, <3>6 DEF BottomEnds, PassingLabel
  <2> QED BY <2>1, <2>2, <2>3
<1>2. ASSUME life' = "up", stack' # << >>, Bottom(stack').at \in PassingLabel,
             ~HasSync(stack'), Work'
      PROVE  timer'
  <2>1. Work \/ timer'
    BY <1>2, WorkSteps
  <2>2. HasSync(stack) => timer'
    BY <1>2, SyncLeaves
  <2>3. Bottom(stack').at # "start1"
    BY <1>2 DEF PassingLabel
  <2>4. timer => timer'
    BY <1>2, <1>u, <1>f, <2>3, TimerSteps
  <2>5. CASE Work /\ stack = << >>
    <3>1. timer
      BY <1>2, <1>u, <2>5 DEF TimerInv, TimerArmed, Idle, Work
    <3> QED BY <2>4, <3>1
  <2>6. CASE Work /\ stack # << >> /\ ~HasSync(stack)
    <3>1. Bottom(stack).at = Bottom(stack').at
      <4>1. CASE Len(stack) >= 2
        BY <1>0, <4>1, BottomStays
      <4>2. CASE Tail(stack) = << >> /\ Bottom(stack) = Top
        <5>1. BottomGoesOn(Bottom(stack'))
          BY <1>0, <1>2, <2>6, <4>2, BottomMoves
        <5> QED BY <1>2, <4>2, <5>1 DEF BottomGoesOn, PassingLabel
      <4> QED BY <1>s, <2>6, <4>1, <4>2
    <3>2. timer
      BY <1>2, <1>u, <2>6, <3>1 DEF TimerInv
    <3> QED BY <2>4, <3>2
  <2> QED BY <2>1, <2>2, <2>5, <2>6
<1>3. ASSUME stack' # << >>, Bottom(stack').at \in {"auth", "start2"}, AsyncJobs' # {}
      PROVE  timer' \/ Bottom(stack').b
  <2>1. stack # << >>
    BY <1>0, <1>3, BottomBegins
  <2>2. CASE Len(stack) >= 2
    <3>1. Bottom(stack') = Bottom(stack)
      BY <1>0, <2>2, BottomStays
    <3>2. Tail(stack) # << >>
      <4>1. Len(<< >>) = 0
        OBVIOUS
      <4>2. \A n \in Nat : n >= 2 => n - 1 # 0
        OBVIOUS
      <4>3. Len(Tail(stack)) = Len(stack) - 1
        BY <1>0, <2>1, Zenon
      <4>4. Len(stack) - 1 # 0
        BY <1>0, <2>2, <4>2, Zenon
      <4> QED BY <4>1, <4>3, <4>4, Zenon
    <3>3. AsyncJobs # {}
      BY <1>0, <1>3, <3>2, AsyncAdded, StartNextOutermost
    <3>4. timer \/ Bottom(stack').b
      BY <1>3, <2>1, <3>1, <3>3 DEF TimerInv
    <3> QED BY <1>f, <1>o, <2>1, <3>2, <3>4, TimerSteps
  <2>3. CASE Tail(stack) = << >> /\ Bottom(stack) = Top
    <3>1. BottomGoesOn(Bottom(stack'))
      BY <1>0, <1>3, <2>1, <2>3, BottomMoves
    <3>2. CASE StartNext
      BY <1>0, <2>3, <3>2, StartNextBottom
    <3>3. CASE ~StartNext
      <4>1. AsyncJobs # {}
        BY <1>3, <3>3, AsyncAdded
      <4>2. timer => timer' \/ Top.at = "finalize"
        BY <1>f, <1>o, <2>1, TimerSteps
      <4>3. CASE Bottom(stack') = Top
        BY <1>3, <2>1, <2>3, <4>1, <4>2, <4>3 DEF TimerInv
      <4>4. CASE Top.at = "afterPass" /\ PassDone /\ Bottom(stack').b = (Jobs # {})
        BY <4>1, <4>4 DEF AsyncJobs
      <4>5. CASE Top.at = "auth" /\ AuthTickDone /\ Bottom(stack').b = Top.b
        BY <2>1, <2>3, <4>1, <4>2, <4>5 DEF TimerInv
      <4> QED BY <1>3, <3>1, <3>3, <4>3, <4>4, <4>5 DEF BottomGoesOn
    <3> QED BY <3>2, <3>3
  <2> QED BY <1>s, <2>1, <2>2, <2>3
<1>4. TimerArmed'
  BY <1>1 DEF TimerArmed, Idle, Work
<1> QED BY <1>2, <1>3, <1>4 DEF TimerInv

LEMMA InitTimer == Init => TimerInv
BY DEF Init, TimerInv, TimerArmed, Jobs, NoJob

LEMMA TimerInvariant == Spec => []TimerInv
<1>1. TimerInv /\ IInv /\ OwnerInv /\ [Next]_vars => TimerInv'
  BY TimerStep DEF OwnerInv
<1> QED BY <1>1, InitTimer, Invariant, OwnerInvariant, PTL DEF Spec

\* Whenever control is back with the application and a handle waits in the
\* queue, a job exists or credentials are being asked for, m_downloadTimer is
\* active: no path through add, cancel, the callbacks, synchronous loads and
\* RemoveTransportHandler leaves work that nothing will come back for.
THEOREM TimerStaysArmed == Spec => []TimerArmed
<1>1. TimerInv => TimerArmed
  BY DEF TimerInv
<1> QED BY <1>1, TimerInvariant, PTL
=============================================================================
