----------------------------- MODULE LoaderProofs -----------------------------
(***************************************************************************)
(* Theorems about what the manager owes to loaders: who is told the end of *)
(* a load, and when (ToldEndOnce, NoOrphanedLoader), and the refinement of *)
(* the abstract service LoadService (ImplementsService); and about what it *)
(* owes to the application: condemned jobs are met (CondemnedSeen), and no *)
(* job outlives its handler's removal (NoRemovedHandlerUsed).              *)
(***************************************************************************)
EXTENDS ServiceProofs

-----------------------------------------------------------------------------
(* The end is told once *)

\* If the user never cancels, no frame of AuthenticationManager::Cancel.
LEMMA NobodyCancels ==
  ASSUME "cancel" \notin Answers, TypeOK, CallChain(stack), AuthHandles(stack) = {}, [Next]_vars
  PROVE  AuthHandles(stack') = {}
<1>1. CASE StartNext
  BY <1>1, ChainStart
<1>2. CASE UriDone
  BY <1>2, ChainEnd DEF UriDone
<1>3. CASE AuthDrop
  BY <1>3, ChainEnd DEF AuthDrop
<1>4. ASSUME NEW h \in Handle, AuthCancel(h) PROVE FALSE
  BY <1>4 DEF AuthCancel
<1>5. CASE ~StartNext /\ ~UriDone /\ ~AuthDrop
  BY <1>4, <1>5, ChainSame DEF SameHandles
<1> QED BY <1>1, <1>2, <1>3, <1>5

\* A step that tells has put the frame of the callback on top.
LEMMA Telling ==
  ASSUME TypeOK, [Next]_vars, NEW labels, NEW h, Tells(labels, h)
  PROVE  \E f \in NewFrames : f.at \in labels /\ f.h = h
<1>0. /\ stack \in Seq(FrameType) /\ NewFrames \subseteq FrameType
      /\ stack' # << >> /\ stack' # stack /\ Len(stack') >= Len(stack)
      /\ Head(stack').at \in labels /\ Head(stack').h = h
  BY DEF TypeOK, Tells, NewFrames
<1>1. ASSUME stack # << >>, Return PROVE FALSE
  <2>1. Len(stack') = Len(stack) - 1 /\ Len(stack) \in Nat
    BY <1>0, <1>1, Popped DEF Return
  <2> QED BY <1>0, <2>1
<1>t. stack # << >> => Tail(stack) \in Seq(FrameType)
  BY <1>0, Popped
<1>h. ASSUME NEW s \in Seq(FrameType), NEW f \in FrameType, stack' = <<f>> \o s
      PROVE  Head(stack') = f
  BY <1>h
<1>2. ASSUME NEW f \in NewFrames, Call(f) PROVE Head(stack') = f
  BY <1>0, <1>2, <1>h DEF Call
<1>3. ASSUME stack # << >>, NEW f \in NewFrames, Become(f) PROVE Head(stack') = f
  BY <1>0, <1>3, <1>t, <1>h DEF Become
<1>4. ASSUME stack # << >>, NEW f \in NewFrames, NEW g \in NewFrames, CallThen(f, g)
      PROVE  Head(stack') = f
  BY <1>0, <1>4, <1>t DEF CallThen
<1>5. ASSUME NEW f \in NewFrames, NEW g \in NewFrames, stack' = <<f, g>> \o stack
      PROVE  Head(stack') = f
  BY <1>0, <1>5
<1>6. ASSUME stack # << >>, NEW f \in NewFrames, NEW g \in NewFrames, NEW k \in NewFrames,
             stack' = <<f, g, k>> \o Tail(stack)
      PROVE  Head(stack') = f
  BY <1>0, <1>6, <1>t
<1> QED BY <1>0, <1>1, <1>2, <1>3, <1>4, <1>5, <1>6, StackMoves DEF StackMove

\* Without data: URIs and without cancelled questions, the client is looked at
\* before each callback that tells the end.
LEMMA EndHeard ==
  ASSUME IInv, OwnerInv, [Next]_vars, UriHandle = {}, AuthHandles(stack) = {},
         NEW h \in LoaderHandle, Tells({"finish", "fail"}, h)
  PROVE  loader[h] = "loading"
<1>0. TypeOK /\ CallChain(stack)
  BY DEF IInv, OwnerInv
<1>1. PICK f \in NewFrames : f.at \in {"finish", "fail"} /\ f.h = h
  BY <1>0, Telling
<1>2. ASSUME At("uriFinish") PROVE FALSE
  <2>1. OwnFrame(Top) /\ Top.at = "uriFinish"
    BY <1>0, <1>2, AtChain
  <2> QED BY <2>1 DEF OwnFrame, UriLabel
<1>3. ASSUME At("authFinish") PROVE FALSE
  <2>1. stack # << >> /\ stack \in Seq(FrameType) /\ stack[1].at = "authFinish"
    BY <1>0, <1>3, AtChain
  <2>2. stack[1].h \in AuthHandles(stack)
    BY <2>1, HandlesPopped DEF AuthHandles, AuthLabel
  <2> QED BY <2>2
<1>4. Calls(h)
  BY <1>1, <1>2, <1>3 DEF NewFrames, NewFrame, UriFinish, AuthFinish
<1> QED BY <1>4 DEF Calls, OwnerInv, Owned

\* A loader is told the end of its load once, and not after it was cancelled:
\* by ProcessTHJobs and by the handlers' Transfer, which is all of them without
\* data: URIs and answers "cancel", whose functions do not look at the client
\* again after the first callback.
THEOREM EndIsToldOnce ==
  ASSUME UriHandle = {}, "cancel" \notin Answers
  PROVE  Spec => ToldEndOnce
<1> DEFINE Uncancelled == AuthHandles(stack) = {}
<1>1. Init => Uncancelled
  BY HandlesEmpty DEF Init, AuthHandles
<1>2. IInv /\ OwnerInv /\ Uncancelled /\ [Next]_vars => Uncancelled'
  BY NobodyCancels DEF IInv, OwnerInv
<1>3. IInv /\ OwnerInv /\ Uncancelled /\ [Next]_vars
        => [\A h \in LoaderHandle : Tells({"finish", "fail"}, h) => loader[h] = "loading"]_vars
  BY EndHeard
<1> HIDE DEF Uncancelled
<1> QED BY <1>1, <1>2, <1>3, Invariant, OwnerInvariant, PTL DEF Spec, ToldEndOnce

-----------------------------------------------------------------------------
(* What loaders and handles learn of a cancelled load *)

\* The steps that concern the owner of a handle.
LEMMA LoaderSteps ==
  ASSUME TypeOK, [Next]_vars
  PROVE  \/ UNCHANGED loader
         \/ \E h \in Handle : StartLoad(h) \/ CancelLoad(h) \/ SyncStart(h)
         \/ ClientReturn \/ SyncReturn
<1>1. ASSUME NEW h \in Handle, AuthProceed(h)
      PROVE  UNCHANGED loader
  BY <1>1 DEF AuthProceed
<1>2. StartNext \/ UriDone \/ AuthDrop \/ EraseTold \/ EraseQuietly => UNCHANGED loader
  BY DEF StartNext, UriDone, AuthDrop, EraseTold, EraseQuietly
<1> QED BY <1>1, <1>2, Untouched, Zenon DEF Next, Outside, Inside

\* A loader waits from its start on, with a handle that is not cancelled.
LEMMA LoadingSteps ==
  ASSUME TypeOK, [Next]_vars, NEW g \in Handle, loader'[g] = "loading", loader[g] # "loading"
  PROVE  StartLoad(g) /\ ~rh'[g].cancelled
<1>0. loader \in [Handle -> LoaderState] /\ rh \in [Handle -> ResourceHandle]
  BY DEF TypeOK
<1>1. ASSUME NEW h \in Handle, StartLoad(h) PROVE h = g
  BY <1>0, <1>1 DEF StartLoad
<1>2. ASSUME NEW h \in Handle, CancelLoad(h) \/ SyncStart(h) PROVE FALSE
  BY <1>0, <1>2 DEF CancelLoad, SyncStart
<1>3. ASSUME ClientReturn \/ SyncReturn PROVE FALSE
  BY <1>0, <1>3 DEF ClientReturn, SyncReturn
<1>4. StartLoad(g)
  BY <1>1, <1>2, <1>3, LoaderSteps
<1>5. rh'[g] = StartedResourceHandle
  BY <1>0, <1>4 DEF StartLoad
<1> QED BY <1>4, <1>5 DEF StartedResourceHandle

\* What is known to be over of a load is not forgotten.
LEMMA OverStays ==
  ASSUME TypeOK, [Next]_vars, NEW g \in Handle, loader[g] \notin {"idle", "loading"}
  PROVE  loader'[g] # "loading"
BY LoadingSteps DEF StartLoad

\* A deref() that cancels is the last one.
LEMMA DerefCancels ==
  ASSUME NEW r \in ResourceHandle
  PROVE  Deref(r).cancelled => r.cancelled \/ ~Deref(r).alive
BY DEF Deref, ResourceHandle

\* A handle is cancelled by its loader or by its destructor.
LEMMA CancelledSteps ==
  ASSUME TypeOK, [Next]_vars, NEW g \in LoaderHandle, rh'[g].cancelled
  PROVE  rh[g].cancelled \/ ~rh'[g].alive \/ loader'[g] # "loading"
<1>0. /\ loader \in [Handle -> LoaderState] /\ rh \in [Handle -> ResourceHandle]
      /\ g \in Handle /\ rh[g] \in ResourceHandle
  BY DEF TypeOK, Handle
<1>1. ASSUME NEW h, rh' = [rh EXCEPT ![h] = Deref(@)] \/ UNCHANGED rh
      PROVE  rh[g].cancelled \/ ~rh'[g].alive
  <2>1. rh'[g] = rh[g] \/ rh'[g] = Deref(rh[g])
    BY <1>0, <1>1
  <2> QED BY <1>0, <2>1, DerefCancels
<1>2. ASSUME NEW h \in Handle, StartLoad(h) PROVE rh[g].cancelled
  <2>1. rh'[g] = rh[g] \/ rh'[g] = StartedResourceHandle
    BY <1>0, <1>2 DEF StartLoad
  <2> QED BY <2>1 DEF StartedResourceHandle
<1>3. ASSUME NEW h \in Handle, CancelLoad(h) PROVE rh[g].cancelled \/ loader'[g] # "loading"
  <2>1. CASE g = h
    BY <1>0, <1>3, <2>1 DEF CancelLoad
  <2>2. CASE g # h
    BY <1>0, <1>3, <2>2 DEF CancelLoad
  <2> QED BY <2>1, <2>2
<1>4. ASSUME NEW h \in Handle, SyncStart(h) PROVE rh[g].cancelled
  <2>1. g # h
    BY <1>4, HandleAssumption DEF SyncStart
  <2> QED BY <1>0, <1>4, <2>1 DEF SyncStart
<1>5. CASE ClientReturn
  <2>1. rh' = rh \/ (rh' = [rh EXCEPT ![Top.h] = Release(@)]
                     /\ loader' = [loader EXCEPT ![Top.h] = IF Top.at = "finish" THEN "finished"
                                                            ELSE "failed"])
    BY <1>5 DEF ClientReturn
  <2>2. CASE g = Top.h
    BY <1>0, <2>1, <2>2
  <2>3. CASE g # Top.h
    BY <1>0, <2>1, <2>3
  <2> QED BY <2>2, <2>3
<1>6. CASE SyncReturn
  <2>1. /\ loader' = [loader EXCEPT ![Top.h] = "returned"]
        /\ rh' = [rh EXCEPT ![Top.h].alive = FALSE, ![Top.h].client = FALSE,
                            ![Top.h].cancelled = TRUE]
    BY <1>6 DEF SyncReturn
  <2>2. CASE g = Top.h
    BY <1>0, <2>1, <2>2
  <2>3. CASE g # Top.h
    BY <1>0, <2>1, <2>3
  <2> QED BY <2>2, <2>3
<1>7. UriDone \/ AuthDrop => \E h : rh' = [rh EXCEPT ![h] = Deref(@)] \/ UNCHANGED rh
  BY DEF UriDone, AuthDrop
<1>8. EraseTold \/ EraseQuietly => \E h : rh' = [rh EXCEPT ![h] = Deref(@)] \/ UNCHANGED rh
  BY DEF EraseTold, EraseQuietly, Erase
<1>9. ASSUME NEW h \in Handle, AuthProceed(h) \/ StartNext
      PROVE  UNCHANGED rh
  BY <1>9 DEF AuthProceed, StartNext
<1>10. UriDone \/ AuthDrop \/ EraseTold \/ EraseQuietly => rh[g].cancelled \/ ~rh'[g].alive
  BY <1>1, <1>7, <1>8
<1>11. ASSUME NEW h \in Handle, AuthProceed(h) \/ StartNext PROVE rh[g].cancelled
  BY <1>9, <1>11
<1> QED BY <1>0, <1>2, <1>3, <1>4, <1>5, <1>6, <1>10, <1>11, Untouched, Zenon DEF Next, Outside, Inside

\* A loader whose handle is cancelled knows the outcome of its load.
CancelKnown == \A g \in LoaderHandle : rh[g].cancelled => loader[g] # "loading"

LEMMA CancelStep ==
  ASSUME IInv, OwnerInv', CancelKnown, [Next]_vars
  PROVE  CancelKnown'
<1> SUFFICES ASSUME NEW g \in LoaderHandle, rh'[g].cancelled, loader'[g] = "loading"
             PROVE  FALSE
  BY DEF CancelKnown
<1>1. TypeOK /\ g \in Handle
  BY DEF IInv, Handle
<1>2. CASE rh[g].cancelled
  BY <1>1, <1>2, LoadingSteps DEF CancelKnown
<1>3. CASE ~rh'[g].alive
  <2>1. Owned(g)'
    BY DEF OwnerInv
  <2>2. ~(Owners(g)' > 0)
    BY <1>3, <2>1 DEF Owned
  <2>3. Loads(g)' = 1
    BY DEF Loads, One
  <2> QED BY <2>2, <2>3, OwnersSumNext
<1> QED BY <1>1, <1>2, <1>3, CancelledSteps

-----------------------------------------------------------------------------
(* Handles of loaders, and those of synchronous loads *)

\* A handle is queued when its load starts and when the user has answered.
LEMMA QueueGrows ==
  ASSUME TypeOK, [Next]_vars, NEW k \in 1..Len(queue')
  PROVE  \/ \E m \in 1..Len(queue) : queue'[k] = queue[m]
         \/ \E h \in Handle : queue'[k] = h /\ (StartLoad(h) \/ AuthProceed(h))
<1>0. queue \in Seq(Handle)
  BY DEF TypeOK
<1>1. ASSUME UNCHANGED queue PROVE \E m \in 1..Len(queue) : queue'[k] = queue[m]
  BY <1>1
<1>2. ASSUME NEW h \in Handle, queue' = Append(queue, h)
      PROVE  queue'[k] = h \/ \E m \in 1..Len(queue) : queue'[k] = queue[m]
  <2>1. /\ Len(queue') = Len(queue) + 1 /\ Len(queue) \in Nat
        /\ queue'[Len(queue) + 1] = h
        /\ \A m \in 1..Len(queue) : queue'[m] = queue[m]
    BY <1>0, <1>2, AppendProperties
  <2> QED BY <2>1
<1>3. ASSUME NEW h \in Handle, CancelLoad(h)
      PROVE  \E m \in 1..Len(queue) : queue'[k] = queue[m]
  <2>1. CASE Scheduled(h)
    BY <1>0, <1>3, <2>1, WithoutEntries DEF CancelLoad
  <2>2. CASE ~Scheduled(h)
    BY <1>1, <1>3, <2>2 DEF CancelLoad
  <2> QED BY <2>1, <2>2
<1>4. ASSUME StartNext PROVE \E m \in 1..Len(queue) : queue'[k] = queue[m]
  <2>1. queue # << >> /\ queue' = Tail(queue)
    BY <1>4 DEF StartNext, CanStart
  <2>2. /\ Len(Tail(queue)) = Len(queue) - 1 /\ Len(queue) \in Nat
        /\ \A m \in 1..Len(Tail(queue)) : Tail(queue)[m] = queue[m + 1]
    BY <1>0, <2>1, HeadTailProperties
  <2>3. k + 1 \in 1..Len(queue) /\ queue'[k] = queue[k + 1]
    BY <2>1, <2>2
  <2> QED BY <2>3
<1>5. ASSUME NEW h \in Handle, StartLoad(h) \/ AuthProceed(h)
      PROVE  queue' = Append(queue, h)
  BY <1>5 DEF StartLoad, AuthProceed
<1>6. ASSUME NEW h \in Handle,
             \/ SyncStart(h) \/ HeadersReceived(h) \/ SetRedirect(h) \/ AuthCancel(h)
             \/ AuthDangling(h) \/ DataReceived(h) \/ \E r \in BOOLEAN : DataDone(h, r)
      PROVE  UNCHANGED queue
  BY <1>6 DEF SyncStart, HeadersReceived, SetRedirect, AuthCancel, AuthDangling,
     DataReceived, DataDone
<1>7. ASSUME \/ RemoveTransportHandler \/ Finalize \/ TimerFires \/ ClientReturn
             \/ UriData \/ UriFinish \/ UriDone \/ FirstStartDone \/ PassDone
             \/ AuthTickDone \/ CallbackDone
      PROVE  UNCHANGED queue
  BY <1>7 DEF RemoveTransportHandler, Finalize, TimerFires, ClientReturn, UriData,
     UriFinish, UriDone, FirstStartDone, PassDone, AuthTickDone, CallbackDone
<1>8. ASSUME \/ SweepTransfer \/ FirstLoopDone \/ TellFailure \/ SecondLoopDone
             \/ HeadersDone \/ DataRest \/ AuthFinish \/ AuthDrop \/ TransferReturn
             \/ SyncProcess \/ SyncTicked \/ SyncReturn \/ TransportHandlerRemoved
             \/ Finalized \/ SweepStep \/ EraseTold \/ EraseQuietly \/ UNCHANGED vars
      PROVE  UNCHANGED queue
  BY <1>8 DEF SweepTransfer, FirstLoopDone, TellFailure, SecondLoopDone, HeadersDone,
     DataRest, AuthFinish, AuthDrop, TransferReturn, SyncProcess, SyncTicked, SyncReturn,
     TransportHandlerRemoved, Finalized, SweepStep, EraseTold, EraseQuietly, vars
<1>9. ASSUME NEW h \in Handle, StartLoad(h) \/ AuthProceed(h)
      PROVE  queue'[k] = h \/ \E m \in 1..Len(queue) : queue'[k] = queue[m]
  BY <1>2, <1>5, <1>9
<1> QED BY <1>1, <1>3, <1>4, <1>6, <1>7, <1>8, <1>9, Zenon DEF Next, Outside, Inside

\* What a synchronous load has does not get among what loaders have: its
\* handle is never queued, and it exists only while its frame is on the stack.
Apart ==
  /\ \A k \in 1..Len(queue) : queue[k] \in LoaderHandle
  /\ \A h \in SyncHandle : /\ loader[h] # "loading"
                           /\ h \in Jobs => job[h].sync
                           /\ rh[h].alive => h \in HandlesAt(stack, {"sync"})
  /\ AuthHandles(stack) \subseteq LoaderHandle

LEMMA LoaderNotSync == ASSUME NEW g \in LoaderHandle PROVE g \notin SyncHandle /\ g \in Handle
BY HandleAssumption DEF Handle

\* A job that is erased is one.
LEMMA Erasing ==
  ASSUME IInv, EraseTold \/ EraseQuietly
  PROVE  \E h \in Jobs : /\ Erase(h) /\ UNCHANGED <<queue, loader>>
                         /\ \/ EraseTold /\ At("dispose") /\ Top.h = h
                            \/ EraseQuietly /\ IsNext(h, TRUE) /\ (job[h].success \/ ~Calls(h))
<1>1. CASE EraseTold
  <2>1. At("dispose") /\ Erase(Top.h) /\ UNCHANGED <<queue, loader>>
    BY <1>1 DEF EraseTold
  <2>2. /\ stack \in Seq(FrameType) /\ stack # << >> /\ Top = stack[1] /\ Top.h \in Handle
        /\ stack[1].at = "dispose"
    BY <2>1, AtInv DEF IInv, HandleLabel
  <2>3. 1 \in 1..Len(stack)
    BY <2>2, EmptySeq
  <2>4. job[Top.h].state # "None"
    BY <2>2, <2>3 DEF IInv, StackInv, HeldJobs, Holder
  <2> QED BY <1>1, <2>1, <2>2, <2>4 DEF Jobs
<1>2. CASE EraseQuietly
  <2>1. PICK h \in Handle : IsNext(h, TRUE) /\ (job[h].success \/ ~Calls(h)) /\ Erase(h)
    BY <1>2 DEF EraseQuietly
  <2>2. h \in Jobs /\ UNCHANGED <<queue, loader>>
    BY <1>2, <2>1 DEF EraseQuietly, IsNext, Ahead
  <2> QED BY <1>2, <2>1, <2>2
<1> QED BY <1>1, <1>2

\* The ResourceHandle of a synchronous load is a local of the function.
LEMMA SyncAlive ==
  ASSUME IInv, CallChain(stack), Apart, [Next]_vars, NEW h \in SyncHandle, rh'[h].alive
  PROVE  rh[h].alive \/ SyncStart(h) \/ h \in HandlesAt(stack, {"sync"})
<1>0. /\ TypeOK /\ h \in Handle /\ h \notin LoaderHandle /\ loader[h] # "loading"
      /\ loader \in [Handle -> LoaderState] /\ rh \in [Handle -> ResourceHandle]
  BY HandleAssumption DEF IInv, TypeOK, Handle, Apart
<1>1. ASSUME NEW g \in Handle, StartLoad(g) \/ CancelLoad(g) PROVE rh[h].alive
  <2>1. g # h
    BY <1>0, <1>1 DEF StartLoad, CancelLoad
  <2> QED BY <1>0, <1>1, <2>1 DEF StartLoad, CancelLoad
<1>2. ASSUME NEW g \in Handle, SyncStart(g) PROVE rh[h].alive \/ SyncStart(h)
  <2>1. CASE g = h
    BY <1>2, <2>1
  <2>2. CASE g # h
    BY <1>0, <1>2, <2>2 DEF SyncStart
  <2> QED BY <2>1, <2>2
<1>3. CASE ClientReturn
  <2>1. \/ UNCHANGED rh
        \/ loader[Top.h] = "loading" /\ rh' = [rh EXCEPT ![Top.h] = Release(@)]
    BY <1>3 DEF ClientReturn
  <2> QED BY <1>0, <2>1
<1>4. CASE UriDone \/ AuthDrop
  <2>1. PICK l \in {"uriDone", "authDrop"} : At(l)
    BY <1>4 DEF UriDone, AuthDrop
  <2>2. /\ stack \in Seq(FrameType) /\ stack # << >> /\ Top = stack[1] /\ stack[1].at = l
        /\ OwnFrame(Top)
    BY <1>0, <2>1, AtChain
  <2>3. l = "authDrop" => Top.h \in AuthHandles(stack)
    BY <2>2, HandlesPopped DEF AuthHandles, AuthLabel
  <2>4. l = "uriDone" => Top.h \in UriHandle
    BY <2>2 DEF OwnFrame, UriLabel
  <2>5. Top.h # h
    BY <1>0, <2>1, <2>3, <2>4 DEF Apart, LoaderHandle
  <2> QED BY <1>0, <1>4, <2>5 DEF UriDone, AuthDrop
<1>5. CASE EraseTold \/ EraseQuietly
  <2>1. PICK g \in Jobs : Erase(g)
    BY <1>5, Erasing
  <2>2. CASE g = h
    <3>1. job[h].state # "None" /\ job[h].sync
      BY <1>0, <2>2 DEF Apart, Jobs
    <3>2. \E k \in 1..Len(stack) : stack[k].at = "sync" /\ stack[k].h = h
      BY <1>0, <3>1 DEF IInv, StackInv, SyncJobsRun
    <3> QED BY <3>2 DEF HandlesAt
  <2>3. CASE g # h
    BY <1>0, <2>1, <2>3 DEF Erase
  <2> QED BY <2>2, <2>3
<1>6. CASE SyncReturn
  <2>1. rh' = [rh EXCEPT ![Top.h].alive = FALSE, ![Top.h].client = FALSE,
                         ![Top.h].cancelled = TRUE]
    BY <1>6 DEF SyncReturn
  <2>2. CASE Top.h = h
    BY <1>0, <2>1, <2>2 DEF ResourceHandle
  <2>3. CASE Top.h # h
    BY <1>0, <2>1, <2>3
  <2> QED BY <2>2, <2>3
<1>7. ASSUME NEW g \in Handle, AuthProceed(g) \/ StartNext PROVE rh[h].alive
  BY <1>7 DEF AuthProceed, StartNext
<1> QED BY <1>0, <1>1, <1>2, <1>3, <1>4, <1>5, <1>6, <1>7, Untouched, Zenon DEF Next, Outside, Inside

\* No synchronous load runs while AuthenticationManager::Tick asks.
LEMMA AuthAlone ==
  ASSUME TypeOK, CallChain(stack), At("auth")
  PROVE  HandlesAt(stack, {"sync"}) = {}
<1>1. stack \in Seq(FrameType) /\ stack # << >> /\ stack[1].at = "auth"
  BY AtChain
<1>2. Tail(stack) = << >>
  BY <1>1, Outermost DEF OutermostLabel
<1>3. HandlesAt(stack, {"sync"}) = HandlesAt(Tail(stack), {"sync"})
  BY <1>1, HandlesPopped
<1> QED BY <1>2, <1>3, HandlesEmpty

LEMMA ApartStep ==
  ASSUME IInv, CallChain(stack), Apart, [Next]_vars
  PROVE  Apart'
<1>0. /\ TypeOK /\ loader \in [Handle -> LoaderState] /\ rh \in [Handle -> ResourceHandle]
      /\ stack \in Seq(FrameType)
  BY DEF IInv, TypeOK
<1>1. ASSUME NEW h \in Handle, At("auth"), rh[h].alive PROVE h \in LoaderHandle
  BY <1>0, <1>1, AuthAlone DEF Apart, Handle
<1>2. ASSUME NEW k \in 1..Len(queue') PROVE queue'[k] \in LoaderHandle
  <2>1. CASE \E m \in 1..Len(queue) : queue'[k] = queue[m]
    BY <2>1 DEF Apart
  <2>2. ASSUME NEW h \in Handle, queue'[k] = h, StartLoad(h) PROVE h \in LoaderHandle
    BY <2>2 DEF StartLoad
  <2>3. ASSUME NEW h \in Handle, queue'[k] = h, AuthProceed(h) PROVE h \in LoaderHandle
    BY <1>1, <2>3 DEF AuthProceed
  <2> QED BY <1>0, <2>1, <2>2, <2>3, QueueGrows
<1>3. ASSUME NEW h \in SyncHandle PROVE loader'[h] # "loading"
  <2>1. h \in Handle /\ h \notin LoaderHandle /\ loader[h] # "loading"
    BY HandleAssumption DEF Handle, Apart
  <2> QED BY <1>0, <2>1, LoadingSteps DEF StartLoad
<1>4. ASSUME NEW h \in SyncHandle, h \in Jobs' PROVE job'[h].sync
  <2>1. h \in Handle /\ h \notin LoaderHandle
    BY HandleAssumption DEF Handle
  <2>2. CASE h \in Jobs
    <3>1. JobMove(h) /\ job'[h].state # "None"
      BY <1>4, <2>2, JobMoves DEF Jobs
    <3> QED BY <2>2, <3>1 DEF JobMove, SameIdentity, Apart
  <2>3. CASE h \notin Jobs
    <3>1. JobAdded(h)
      BY <1>4, <2>1, <2>3, JobsAdded
    <3>2. ASSUME StartNext, h = Head(queue) PROVE FALSE
      <4>1. queue # << >> /\ queue \in Seq(Handle)
        BY <1>0, <3>2 DEF StartNext, CanStart, TypeOK
      <4>2. 1 \in 1..Len(queue) /\ Head(queue) = queue[1]
        BY <4>1, EmptySeq, LenProperties
      <4> QED BY <2>1, <3>2, <4>2 DEF Apart
    <3> QED BY <3>1, <3>2 DEF JobAdded
  <2> QED BY <2>2, <2>3
<1>5. ASSUME NEW h \in SyncHandle, rh'[h].alive PROVE h \in HandlesAt(stack', {"sync"})
  <2>1. CASE SyncStart(h)
    <3>1. stack' = <<Frame("sync", h)>> \o stack /\ h \in Handle
      BY <2>1 DEF SyncStart, Call, Handle
    <3>2. Frame("sync", h) \in FrameType /\ Frame("sync", h).at = "sync" /\ Frame("sync", h).h = h
      BY <3>1, HandleFrameTyped DEF Frame
    <3> HIDE DEF Frame
    <3> QED BY <1>0, <3>1, <3>2, HandlesPushed
  <2>2. CASE h \in HandlesAt(stack, {"sync"})
    <3>1. ASSUME SyncReturn, Top.h = h PROVE FALSE
      <4>1. rh' = [rh EXCEPT ![Top.h].alive = FALSE, ![Top.h].client = FALSE,
                             ![Top.h].cancelled = TRUE]
        BY <3>1 DEF SyncReturn
      <4>2. h \in Handle
        BY DEF Handle
      <4> QED BY <1>0, <1>5, <3>1, <4>1, <4>2 DEF ResourceHandle
    <3> QED BY <2>2, <3>1, SyncFrameLeaves
  <2> QED BY <1>5, <2>1, <2>2, SyncAlive DEF Apart
<1>6. AuthHandles(stack') \subseteq LoaderHandle
  <2>1. CASE StartNext
    BY <1>0, <2>1, ChainStart
  <2>2. CASE UriDone
    BY <1>0, <2>2, ChainEnd DEF UriDone
  <2>3. CASE AuthDrop
    BY <1>0, <2>3, ChainEnd DEF AuthDrop
  <2>4. ASSUME NEW h \in Handle, AuthCancel(h) PROVE AuthHandles(stack') \subseteq LoaderHandle
    <3>1. h \in LoaderHandle
      BY <1>1, <2>4 DEF AuthCancel
    <3> QED BY <1>0, <2>4, <3>1, ChainCancel
  <2>5. CASE ~StartNext /\ ~UriDone /\ ~AuthDrop /\ \A h \in Handle : ~AuthCancel(h)
    BY <1>0, <2>5, ChainSame DEF SameHandles, Apart
  <2> QED BY <2>1, <2>2, <2>3, <2>4, <2>5
<1> QED BY <1>2, <1>3, <1>4, <1>5, <1>6 DEF Apart

-----------------------------------------------------------------------------
(* Who was told the end *)

\* Frames after which a load is over: the rest of the second loop of
\* ProcessTHJobs, of parseDataURI and of AuthenticationManager::Cancel after
\* their last callbacks, and of a Transfer call after DataDone.
Ends(f) ==
  /\ f.h \in LoaderHandle
  /\ f.at \in {"dispose", "uriDone", "authDrop"} \/ (f.at = "transfer" /\ f.n >= 2)

\* Its loader knows, or will be told in the second loop, or by the
\* AuthenticationManager.
Excused(f, jobs, loads) ==
  \/ loads[f.h] # "loading"
  \/ f.at = "transfer" /\ (jobs[f.h].auth \/ ~jobs[f.h].success)

\* Or it is being told just now.
EndsTold(s, jobs, loads) ==
  \A k \in 1..Len(s) :
    Ends(s[k]) => \/ Excused(s[k], jobs, loads)
                  \/ k > 1 /\ s[k - 1].at \in {"finish", "fail"}

LEMMA ToldPush ==
  ASSUME NEW s \in Seq(FrameType), NEW f \in FrameType, NEW jobs, NEW loads,
         EndsTold(s, jobs, loads), Ends(f) => Excused(f, jobs, loads)
  PROVE  EndsTold(<<f>> \o s, jobs, loads) /\ <<f>> \o s \in Seq(FrameType)
<1> DEFINE t == <<f>> \o s
<1>1. /\ t \in Seq(FrameType) /\ Len(t) = Len(s) + 1 /\ Len(s) \in Nat /\ t[1] = f
      /\ \A k \in 2..Len(t) : t[k] = s[k - 1]
  BY Pushed
<1> HIDE DEF t
<1>2. ASSUME NEW k \in 1..Len(t), Ends(t[k])
      PROVE  Excused(t[k], jobs, loads) \/ (k > 1 /\ t[k - 1].at \in {"finish", "fail"})
  <2>1. CASE k = 1
    BY <1>1, <1>2, <2>1
  <2>2. CASE k > 1
    <3>1. k - 1 \in 1..Len(s) /\ t[k] = s[k - 1]
      BY <1>1, <2>2
    <3>2. CASE Excused(s[k - 1], jobs, loads)
      BY <3>1, <3>2
    <3>3. CASE k - 1 > 1 /\ s[(k - 1) - 1].at \in {"finish", "fail"}
      <4>1. k - 1 \in 2..Len(t)
        BY <1>1, <2>2, <3>3
      <4> QED BY <1>1, <2>2, <3>3, <4>1
    <3> QED BY <1>2, <3>1, <3>2, <3>3 DEF EndsTold
  <2> QED BY <2>1, <2>2
<1> QED BY <1>1, <1>2 DEF EndsTold, t

\* A frame below the one that tells the end.
LEMMA ToldUnder ==
  ASSUME NEW s \in Seq(FrameType), NEW f \in FrameType, NEW g \in FrameType,
         NEW jobs, NEW loads, EndsTold(s, jobs, loads), f.at \in {"finish", "fail"}
  PROVE  EndsTold(<<f, g>> \o s, jobs, loads)
<1> DEFINE u == <<g>> \o s
           t == <<f>> \o u
<1>1. /\ u \in Seq(FrameType) /\ Len(u) = Len(s) + 1 /\ Len(s) \in Nat /\ u[1] = g
      /\ \A k \in 2..Len(u) : u[k] = s[k - 1]
  BY Pushed
<1> HIDE DEF u
<1>2. /\ Len(t) = Len(u) + 1 /\ t[1] = f
      /\ \A k \in 2..Len(t) : t[k] = u[k - 1]
  BY <1>1, Pushed
<1>3. <<f, g>> \o s = t
  BY PushedTwo DEF u
<1> HIDE DEF t
<1>4. ASSUME NEW k \in 1..Len(t), Ends(t[k])
      PROVE  Excused(t[k], jobs, loads) \/ (k > 1 /\ t[k - 1].at \in {"finish", "fail"})
  <2>1. CASE k = 1
    BY <1>2, <1>4, <2>1 DEF Ends
  <2>2. CASE k = 2
    BY <1>2, <2>2
  <2>3. CASE k > 2
    <3>1. /\ k - 2 \in 1..Len(s) /\ k - 1 \in 2..Len(u) /\ k \in 2..Len(t)
          /\ (k - 1) - 1 = k - 2
      BY <1>1, <1>2, <2>3
    <3>2. t[k] = s[k - 2]
      BY <1>1, <1>2, <3>1
    <3>3. CASE Excused(s[k - 2], jobs, loads)
      BY <3>2, <3>3
    <3>4. CASE k - 2 > 1 /\ s[(k - 2) - 1].at \in {"finish", "fail"}
      <4>1. k - 1 \in 2..Len(t) /\ k - 2 \in 2..Len(u) /\ (k - 1) - 1 = k - 2
        BY <1>1, <1>2, <2>3, <3>4
      <4>2. t[k - 1] = s[(k - 2) - 1]
        BY <1>1, <1>2, <4>1
      <4> QED BY <2>3, <3>4, <4>2
    <3> QED BY <1>4, <3>1, <3>2, <3>3, <3>4 DEF EndsTold
  <2> QED BY <2>1, <2>2, <2>3
<1> QED BY <1>3, <1>4 DEF EndsTold

LEMMA ToldPop ==
  ASSUME NEW s \in Seq(FrameType), s # << >>, NEW jobs, NEW loads,
         EndsTold(s, jobs, loads),
         s[1].at \in {"finish", "fail"} /\ Len(s) >= 2 => Excused(s[2], jobs, loads)
  PROVE  EndsTold(Tail(s), jobs, loads)
<1> DEFINE t == Tail(s)
<1>1. /\ Len(t) = Len(s) - 1 /\ Len(s) \in Nat /\ Len(s) >= 1
      /\ \A k \in 1..Len(t) : t[k] = s[k + 1]
  BY Popped
<1> HIDE DEF t
<1>2. ASSUME NEW k \in 1..Len(t), Ends(t[k])
      PROVE  Excused(t[k], jobs, loads) \/ (k > 1 /\ t[k - 1].at \in {"finish", "fail"})
  <2>1. k + 1 \in 1..Len(s) /\ t[k] = s[k + 1] /\ (k + 1) - 1 = k
    BY <1>1
  <2>2. CASE Excused(s[k + 1], jobs, loads)
    BY <2>1, <2>2
  <2>3. CASE s[k].at \in {"finish", "fail"}
    <3>1. CASE k = 1
      BY <1>1, <2>1, <2>3, <3>1
    <3>2. CASE k > 1
      <4>1. k - 1 \in 1..Len(t) /\ (k - 1) + 1 = k
        BY <1>1, <3>2
      <4> QED BY <1>1, <2>3, <3>2, <4>1
    <3> QED BY <3>1, <3>2
  <2> QED BY <1>2, <2>1, <2>2, <2>3 DEF EndsTold
<1> QED BY <1>2 DEF EndsTold, t

\* The handle of such a frame is in use, so that it is not started again.
LEMMA EndInUse ==
  ASSUME IInv, OwnerInv, NEW k \in 1..Len(stack), Ends(stack[k])
  PROVE  /\ stack[k].h \in Handle /\ loader[stack[k].h] # "idle"
         /\ stack[k].at \in Holder => stack[k].h \in Jobs
<1> DEFINE f == stack[k]
           h == f.h
<1>1. h \in LoaderHandle /\ h \in Handle /\ f.at \in {"transfer", "dispose", "uriDone", "authDrop"}
  BY LoaderNotSync DEF Ends
<1>2. CASE f.at \in Holder
  <2>1. job[h].state # "None"
    BY <1>2 DEF IInv, StackInv, HeldJobs
  <2> QED BY <1>1, <2>1 DEF IInv, PlaceInv, Jobs
<1>3. CASE f.at = "uriDone"
  <2>1. h \in UriHandles(stack)
    BY <1>3 DEF UriHandles, HandlesAt, UriLabel
  <2> QED BY <1>1, <1>3, <2>1 DEF OwnerInv, Owned, Holder
<1>4. CASE f.at = "authDrop"
  <2>1. h \in AuthHandles(stack)
    BY <1>4 DEF AuthHandles, HandlesAt, AuthLabel
  <2> QED BY <1>1, <1>4, <2>1 DEF OwnerInv, IInv, PlaceInv, Holder
<1> QED BY <1>1, <1>2, <1>3, <1>4 DEF Holder

LEMMA ExcusedStays ==
  ASSUME IInv, IInv', OwnerInv, [Next]_vars,
         NEW k \in 1..Len(stack), Ends(stack[k]), Excused(stack[k], job, loader),
         NEW j \in 1..Len(stack'), stack'[j] = stack[k]
  PROVE  Excused(stack[k], job', loader')
<1> DEFINE f == stack[k]
           h == f.h
<1>0. TypeOK /\ h \in Handle /\ loader[h] # "idle" /\ (f.at \in Holder => h \in Jobs)
  BY EndInUse DEF IInv
<1>1. CASE loader[h] # "loading"
  BY <1>0, <1>1, OverStays DEF Excused
<1>2. CASE f.at = "transfer" /\ (job[h].auth \/ ~job[h].success)
  <2>1. job'[h].state # "None"
    <3>1. stack'[j].at \in Holder => job'[stack'[j].h].state # "None"
      BY DEF IInv, StackInv, HeldJobs
    <3> QED BY <1>2, <3>1 DEF Holder
  <2>2. h \in Jobs
    BY <1>0, <1>2 DEF Holder
  <2>3. JobMove(h)
    BY <2>2, JobMoves
  <2>4. /\ job[h].auth => job'[h].auth
        /\ SameProgress(h) \/ Swept(h) \/ Transferred(h) \/ Failed(h) \/ Doomed(h)
    BY <2>1, <2>3 DEF JobMove
  <2>5. ASSUME ~job[h].success PROVE ~job'[h].success
    <3>1. ASSUME NEW state, NEW ok, NEW complete, Settled(h, state, ok, complete)
          PROVE  ~job'[h].success
      BY <2>5, <3>1 DEF Settled, Succeeds
    <3>2. Swept(h) \/ Transferred(h) => ~job'[h].success
      BY <3>1 DEF Swept, Transferred
    <3>3. SameProgress(h) \/ Failed(h) \/ Doomed(h) => ~job'[h].success
      BY <2>5 DEF SameProgress, Failed, Doomed
    <3> QED BY <2>4, <3>2, <3>3
  <2> QED BY <1>2, <2>4, <2>5 DEF Excused
<1> QED BY <1>1, <1>2 DEF Excused

\* All frames of s are on the stack after the step.
LEMMA ToldKept ==
  ASSUME IInv, IInv', OwnerInv, [Next]_vars, NEW s, EndsTold(s, job, loader),
         \A k \in 1..Len(s) : /\ \E i \in 1..Len(stack) : stack[i] = s[k]
                              /\ \E j \in 1..Len(stack') : stack'[j] = s[k]
  PROVE  EndsTold(s, job', loader')
<1> SUFFICES ASSUME NEW k \in 1..Len(s), Ends(s[k]), Excused(s[k], job, loader)
             PROVE  Excused(s[k], job', loader')
  BY DEF EndsTold
<1>1. PICK i \in 1..Len(stack) : stack[i] = s[k]
  OBVIOUS
<1>2. PICK j \in 1..Len(stack') : stack'[j] = s[k]
  OBVIOUS
<1> HIDE DEF Ends, Excused
<1> QED BY <1>1, <1>2, ExcusedStays

\* Frames below the top one stay.
LEMMA TailStays ==
  ASSUME TypeOK, [Next]_vars, stack # << >>, NEW k \in 1..Len(Tail(stack))
  PROVE  /\ \E i \in 1..Len(stack) : stack[i] = Tail(stack)[k]
         /\ \E j \in 1..Len(stack') : stack'[j] = Tail(stack)[k]
<1>1. /\ Len(stack) \in Nat /\ Len(Tail(stack)) = Len(stack) - 1
      /\ Tail(stack)[k] = stack[k + 1]
  BY Popped DEF TypeOK
<1>2. k + 1 \in 1..Len(stack)
  BY <1>1
<1>3. Keeps(stack, stack', Len(stack) - 1)
  BY BelowTop
<1> DEFINE i == Len(stack) - (k + 1)
<1>4. i \in 0..((Len(stack) - 1) - 1) /\ Len(stack) - i = k + 1
  BY <1>1
<1>5. Len(stack') >= Len(stack) - 1 /\ stack'[Len(stack') - i] = stack[k + 1]
  BY <1>3, <1>4 DEF Keeps
<1>6. Len(stack') \in Nat
  BY TypeStep DEF TypeOK
<1>7. Len(stack') - i \in 1..Len(stack')
  BY <1>1, <1>4, <1>5, <1>6
<1> QED BY <1>1, <1>2, <1>5, <1>7

\* didFinishLoading and didFail return: the loader has given up its handle.
LEMMA ReturnTells ==
  ASSUME TypeOK, CallChain(stack), ClientReturn,
         stack[1].at \in {"finish", "fail"}, Len(stack) >= 2
  PROVE  loader'[stack[2].h] # "loading"
<1>1. PICK l \in ClientLabel : At(l)
  BY DEF ClientReturn
<1>2. /\ stack \in Seq(FrameType) /\ stack # << >> /\ Top = stack[1] /\ Top.h \in Handle
  BY <1>1, AtChain DEF HandleLabel
<1>3. stack[2].h = Top.h
  <2>1. Len(stack) \in Nat /\ 1 \in 1..(Len(stack) - 1) /\ 1 + 1 = 2
    BY <1>2
  <2>2. \/ OtherCall(stack[2].at, stack[1].at)
        \/ OwnCallback(stack[2].at, stack[1].at) /\ stack[2].h = stack[1].h
    BY <2>1 DEF CallChain
  <2>3. ~OtherCall(stack[2].at, stack[1].at)
    BY DEF OtherCall, AuthLabel, UriLabel
  <2> QED BY <1>2, <2>2, <2>3
<1>4. /\ loader \in [Handle -> LoaderState]
      /\ loader' = IF loader[Top.h] = "loading"
                   THEN [loader EXCEPT ![Top.h] = IF Top.at = "finish" THEN "finished"
                                                  ELSE "failed"]
                   ELSE loader
  BY <1>2 DEF ClientReturn, TypeOK
<1> QED BY <1>2, <1>3, <1>4

\* Until then its code may start, cancel and run loads.
LEMMA EndRuns ==
  ASSUME TypeOK, [Next]_vars, stack # << >>, stack[1].at \in {"finish", "fail"}, ~ClientReturn
  PROVE  UNCHANGED stack \/ \E h \in Handle : stack' = <<Frame("sync", h)>> \o stack
<1>1. Top = stack[1]
  BY Popped DEF TypeOK, Top
<1>2. UNCHANGED vars \/ FrameStep(Top.at)
  BY Acting DEF Idle
<1>3. FrameStep(Top.at) => \E h \in Handle : StartLoad(h) \/ CancelLoad(h) \/ SyncStart(h)
  BY <1>1 DEF FrameStep, ClientLabel, ScriptLabel
<1>4. ASSUME NEW h \in Handle, StartLoad(h) \/ CancelLoad(h) \/ SyncStart(h)
      PROVE  UNCHANGED stack \/ stack' = <<Frame("sync", h)>> \o stack
  BY <1>4 DEF StartLoad, CancelLoad, SyncStart, Call
<1> QED BY <1>2, <1>3, <1>4 DEF vars

\* The steps that put a frame of a load that is over on the stack.
EndStep ==
  \/ TellFailure \/ UriFinish \/ AuthFinish
  \/ \E h \in Handle, result \in BOOLEAN : DataDone(h, result)

LEMMA OtherFrames ==
  ASSUME ~EndStep, NEW f \in NewFrames
  PROVE  ~Ends(f)
<1>1. f \in FrameType /\ NewFrame(f)
  BY DEF NewFrames
<1>2. ASSUME f.at = "transfer" PROVE ~(f.n >= 2)
  <2>1. f.h \in Handle
    BY <1>1, <1>2, FrameHandle DEF HandleLabel
  <2>2. ~DataDone(f.h, TRUE) /\ ~DataDone(f.h, FALSE)
    BY <2>1 DEF EndStep
  <2>3. f.n = 0 \/ f.n = 1
    BY <1>1, <1>2, <2>2 DEF NewFrame, TransferFrame
  <2> QED BY <2>3
<1>3. f.at \notin {"dispose", "uriDone", "authDrop"}
  BY <1>1 DEF NewFrame, EndStep
<1> QED BY <1>2, <1>3 DEF Ends

\* A call of DataDone, after which Transfer is over in progress n.
LEMMA DoneTold ==
  ASSUME IInv, OwnerInv, CancelKnown, NEW h \in Handle, NEW result \in BOOLEAN,
         DataDone(h, result), EndsTold(Tail(stack), job', loader')
  PROVE  EndsTold(stack', job', loader')
<1> DEFINE n == IF result THEN 2 ELSE 3
           after == [Top EXCEPT !.n = n]
           heard == ~rh[h].cancelled /\ ~job[h].auth /\ rh[h].client
           t == Tail(stack)
<1>0. /\ TypeOK /\ At("transfer") /\ Top.h = h
      /\ IF heard /\ result /\ Calls(h) THEN CallThen(Frame("finish", h), after)
         ELSE Become(after)
      /\ loader' = loader
      /\ heard /\ ~result => job' = [job EXCEPT ![h].success = FALSE, ![h].state = "Remove"]
      /\ ~(heard /\ ~result) => job' = job
  BY DEF DataDone, InTransfer, Progress, IInv
<1>1. Top \in FrameType /\ Top.at = "transfer" /\ t \in Seq(FrameType)
  BY <1>0, AtChain DEF OwnerInv
<1>2. after \in FrameType /\ after.at = "transfer" /\ after.h = h /\ after.n = n
  BY <1>0, <1>1, FrameUpdate DEF FrameType
<1> HIDE DEF after, t
<1>3. CASE heard /\ result /\ Calls(h)
  <2>1. stack' = <<Frame("finish", h), after>> \o t
    BY <1>0, <1>3 DEF CallThen, t
  <2>2. Frame("finish", h) \in FrameType /\ Frame("finish", h).at = "finish"
    BY HandleFrameTyped DEF Frame
  <2> HIDE DEF Frame
  <2> QED BY <1>1, <1>2, <2>1, <2>2, ToldUnder DEF t
<1>4. CASE ~(heard /\ result /\ Calls(h))
  <2>1. stack' = <<after>> \o t
    BY <1>0, <1>4 DEF Become, t
  <2>2. ASSUME h \in LoaderHandle
        PROVE  loader'[h] # "loading" \/ job'[h].auth \/ ~job'[h].success
    <3>1. CASE heard /\ ~result
      BY <1>0, <3>1 DEF TypeOK, JobInfo
    <3>2. CASE ~heard
      BY <1>0, <2>2, <3>2 DEF CancelKnown, OwnerInv, Owned
    <3>3. CASE heard /\ result
      BY <1>4, <2>2, <3>3 DEF Calls
    <3> QED BY <3>1, <3>2, <3>3
  <2>3. Ends(after) => Excused(after, job', loader')
    BY <1>2, <2>2 DEF Ends, Excused
  <2> QED BY <1>1, <1>2, <2>1, <2>3, ToldPush DEF t
<1> QED BY <1>3, <1>4

LEMMA PairTold ==
  ASSUME NEW s \in Seq(FrameType), NEW h \in Handle, NEW jobs, NEW loads,
         EndsTold(s, jobs, loads)
  PROVE  /\ EndsTold(<<Frame("finish", h), Frame("uriDone", h)>> \o s, jobs, loads)
         /\ EndsTold(<<Frame("finish", h), Frame("authDrop", h)>> \o s, jobs, loads)
         /\ EndsTold(<<Frame("fail", h), Frame("dispose", h)>> \o s, jobs, loads)
<1>1. /\ Frame("finish", h) \in FrameType /\ Frame("fail", h) \in FrameType
      /\ Frame("uriDone", h) \in FrameType /\ Frame("authDrop", h) \in FrameType
      /\ Frame("dispose", h) \in FrameType
      /\ Frame("finish", h).at = "finish" /\ Frame("fail", h).at = "fail"
  BY HandleFrameTyped DEF Frame
<1> HIDE DEF Frame
<1> QED BY <1>1, ToldUnder

LEMMA EndStepTold ==
  ASSUME IInv, OwnerInv, CancelKnown, EndStep, EndsTold(Tail(stack), job', loader')
  PROVE  EndsTold(stack', job', loader')
<1> DEFINE t == Tail(stack)
<1>1. CASE \E h \in Handle, result \in BOOLEAN : DataDone(h, result)
  BY <1>1, DoneTold
<1>2. CASE UriFinish \/ AuthFinish
  <2>1. PICK l \in {"uriFinish", "authFinish"} : At(l)
    BY <1>2 DEF UriFinish, AuthFinish
  <2>2. Top.h \in Handle /\ t \in Seq(FrameType)
    BY <2>1, AtChain DEF OwnerInv, IInv, HandleLabel, UriLabel
  <2>3. \/ stack' = <<Frame("finish", Top.h), Frame("uriDone", Top.h)>> \o t
        \/ stack' = <<Frame("finish", Top.h), Frame("authDrop", Top.h)>> \o t
    BY <1>2 DEF UriFinish, AuthFinish, CallThen
  <2> HIDE DEF Frame, t
  <2> QED BY <2>2, <2>3, PairTold DEF t
<1>3. CASE TellFailure
  <2>1. At("sweep2")
    BY <1>3 DEF TellFailure
  <2>2. Top \in FrameType /\ Top.at = "sweep2" /\ t \in Seq(FrameType)
    BY <2>1, AtChain DEF OwnerInv, IInv
  <2>3. PICK h \in Handle : stack' = <<Frame("fail", h), Frame("dispose", h),
                                       [Top EXCEPT !.n = job[h].id]>> \o t
    BY <1>3 DEF TellFailure
  <2> DEFINE k == [Top EXCEPT !.n = job[h].id]
             f == Frame("fail", h)
             g == Frame("dispose", h)
  <2>4. job[h].id \in Nat
    BY JobTyped DEF IInv, TypeOK
  <2>5. k \in FrameType /\ k.at = "sweep2" /\ f \in FrameType /\ g \in FrameType
    BY <2>2, <2>4, FrameUpdate, HandleFrameTyped DEF FrameType
  <2>6. stack' = <<f, g, k>> \o t
    BY <2>3
  <2> HIDE DEF k, t, f, g
  <2>7. ThreePushes(t, f, g, k)
    BY <2>2, <2>5, PushedThree DEF t
  <2> DEFINE s == <<k>> \o t
  <2>8. s \in Seq(FrameType) /\ EndsTold(s, job', loader')
    BY <2>2, <2>5, ToldPush DEF t, Ends
  <2>9. stack' = <<f>> \o (<<g>> \o s)
    BY <2>6, <2>7, Zenon DEF ThreePushes
  <2> HIDE DEF s
  <2>10. stack' = <<f, g>> \o s
    BY <2>5, <2>8, <2>9, PushedTwo
  <2> QED BY <2>8, <2>10, PairTold DEF f, g
<1> QED BY <1>1, <1>2, <1>3 DEF EndStep

\* No step forgets that the end was told, or tells no end.
LEMMA EndsStep ==
  ASSUME IInv, IInv', OwnerInv, CancelKnown, EndsTold(stack, job, loader), [Next]_vars
  PROVE  EndsTold(stack', job', loader')
<1> DEFINE t == Tail(stack)
<1>0. /\ TypeOK /\ stack \in Seq(FrameType) /\ Len(stack) \in Nat
      /\ stack # << >> => t \in Seq(FrameType) /\ Len(stack) >= 1
      /\ NewFrames \subseteq FrameType
  BY Popped DEF IInv, TypeOK, NewFrames
<1>t. ASSUME stack # << >>, stack[1].at \notin {"finish", "fail"}
      PROVE  EndsTold(t, job', loader')
  <2>1. EndsTold(t, job, loader)
    BY <1>0, <1>t, ToldPop
  <2>2. \A k \in 1..Len(t) : /\ \E i \in 1..Len(stack) : stack[i] = t[k]
                             /\ \E j \in 1..Len(stack') : stack'[j] = t[k]
    BY <1>0, <1>t, TailStays
  <2> HIDE DEF t
  <2> QED BY <2>1, <2>2, ToldKept
<1>s. ASSUME \A k \in 1..Len(stack) : \E j \in 1..Len(stack') : stack'[j] = stack[k]
      PROVE  EndsTold(stack, job', loader')
  BY <1>s, ToldKept
<1>p. ASSUME NEW f \in FrameType, stack' = <<f>> \o stack
      PROVE  EndsTold(stack, job', loader')
  <2>1. /\ Len(stack') = Len(stack) + 1
        /\ \A k \in 1..Len(stack) : stack'[k + 1] = stack[k]
    BY <1>0, <1>p, Pushed
  <2>2. ASSUME NEW k \in 1..Len(stack) PROVE k + 1 \in 1..Len(stack')
    BY <1>0, <2>1
  <2> QED BY <1>s, <2>1, <2>2
<1>1. CASE ClientReturn
  <2>1. PICK l \in ClientLabel : At(l)
    BY <1>1 DEF ClientReturn
  <2>2. stack # << >> /\ stack' = t
    BY <1>0, <1>1, <2>1 DEF ClientReturn, Return, At
  <2>3. CASE stack[1].at \in {"finish", "fail"}
    <3>2. CASE Len(stack) >= 2
      <4>1. loader'[stack[2].h] # "loading"
        BY <1>0, <1>1, <2>3, <3>2, ReturnTells DEF OwnerInv
      <4>2. ASSUME NEW k \in 1..Len(t), Ends(t[k])
            PROVE  \/ Excused(t[k], job', loader')
                   \/ k > 1 /\ t[k - 1].at \in {"finish", "fail"}
        <5>1. /\ Len(t) = Len(stack) - 1 /\ \A m \in 1..Len(t) : t[m] = stack[m + 1]
          BY <1>0, <2>2, Popped
        <5>2. k + 1 \in 1..Len(stack) /\ t[k] = stack[k + 1] /\ (k + 1) - 1 = k
          BY <1>0, <5>1
        <5>3. CASE k = 1
          BY <4>1, <5>2, <5>3 DEF Excused
        <5>4. CASE k > 1
          <6>1. k - 1 \in 1..Len(t) /\ (k - 1) + 1 = k
            BY <1>0, <5>1, <5>4
          <6>2. t[k - 1] = stack[k]
            BY <5>1, <6>1
          <6>3. CASE Excused(stack[k + 1], job, loader)
            <7>1. \E j \in 1..Len(stack') : stack'[j] = stack[k + 1]
              BY <2>2, <5>2
            <7>2. Ends(stack[k + 1])
              BY <4>2, <5>2
            <7> HIDE DEF t, Ends, Excused
            <7> QED BY <5>2, <6>3, <7>1, <7>2, ExcusedStays
          <6>4. CASE stack[k].at \in {"finish", "fail"}
            BY <5>4, <6>2, <6>4
          <6> QED BY <4>2, <5>2, <6>3, <6>4 DEF EndsTold
        <5> QED BY <5>3, <5>4
      <4> QED BY <2>2, <4>2 DEF EndsTold
    <3>3. CASE Len(stack) < 2
      <4>1. Len(t) = Len(stack) - 1
        BY <1>0, <2>2, Popped
      <4> HIDE DEF t
      <4>2. 1..Len(t) = {}
        BY <1>0, <2>2, <3>3, <4>1
      <4> QED BY <2>2, <4>2 DEF EndsTold
    <3> QED BY <1>0, <3>2, <3>3
  <2>4. CASE stack[1].at \notin {"finish", "fail"}
    BY <1>t, <2>2, <2>4
  <2> QED BY <2>3, <2>4
<1>2. CASE ~ClientReturn /\ stack # << >> /\ stack[1].at \in {"finish", "fail"}
  <2>1. CASE UNCHANGED stack
    BY <1>s, <2>1
  <2>2. ASSUME NEW h \in Handle, stack' = <<Frame("sync", h)>> \o stack
        PROVE  EndsTold(stack', job', loader')
    <3>1. Frame("sync", h) \in FrameType /\ Frame("sync", h).at = "sync"
      BY HandleFrameTyped DEF Frame
    <3> HIDE DEF Frame
    <3> QED BY <1>0, <1>p, <2>2, <3>1, ToldPush DEF Ends
  <2> QED BY <1>0, <1>2, <2>1, <2>2, EndRuns
<1>3. CASE ~ClientReturn /\ EndStep
  <2>1. PICK l \in {"sweep2", "uriFinish", "authFinish", "transfer"} : At(l)
    BY <1>3 DEF EndStep, TellFailure, UriFinish, AuthFinish, DataDone, InTransfer
  <2>2. stack # << >> /\ stack[1].at = l
    BY <1>0, <2>1, AtChain DEF OwnerInv
  <2> QED BY <1>3, <1>t, <2>2, EndStepTold
<1>4. CASE ~ClientReturn /\ ~EndStep /\ (stack # << >> => stack[1].at \notin {"finish", "fail"})
  <2>1. \A f \in NewFrames : f \in FrameType /\ ~Ends(f)
    BY <1>0, <1>4, OtherFrames
  <2>p. ASSUME NEW s \in Seq(FrameType), EndsTold(s, job', loader'), NEW f \in NewFrames
        PROVE  EndsTold(<<f>> \o s, job', loader') /\ <<f>> \o s \in Seq(FrameType)
    BY <2>1, <2>p, ToldPush
  <2>pp. ASSUME NEW s \in Seq(FrameType), EndsTold(s, job', loader'),
                NEW f \in NewFrames, NEW g \in NewFrames
         PROVE  EndsTold(<<f, g>> \o s, job', loader')
    <3> DEFINE u == <<g>> \o s
    <3>1. EndsTold(u, job', loader') /\ u \in Seq(FrameType) /\ <<f, g>> \o s = <<f>> \o u
      BY <2>1, <2>p, <2>pp, PushedTwo
    <3> HIDE DEF u
    <3> QED BY <2>p, <3>1
  <2>2. CASE UNCHANGED stack
    BY <1>s, <2>2
  <2>3. CASE stack # << >> /\ Return
    BY <1>4, <1>t, <2>3 DEF Return
  <2>4. ASSUME NEW f \in NewFrames, Call(f) PROVE EndsTold(stack', job', loader')
    <3>1. stack' = <<f>> \o stack /\ EndsTold(stack, job', loader')
      BY <1>p, <2>1, <2>4 DEF Call
    <3> QED BY <1>0, <2>p, <3>1
  <2>5. ASSUME stack # << >>, NEW f \in NewFrames, Become(f)
        PROVE  EndsTold(stack', job', loader')
    <3>1. stack' = <<f>> \o t /\ EndsTold(t, job', loader') /\ t \in Seq(FrameType)
      BY <1>0, <1>4, <1>t, <2>5 DEF Become
    <3> HIDE DEF t
    <3> QED BY <2>p, <3>1
  <2>6. ASSUME stack # << >>, NEW f \in NewFrames, NEW g \in NewFrames, CallThen(f, g)
        PROVE  EndsTold(stack', job', loader')
    <3>1. stack' = <<f, g>> \o t /\ EndsTold(t, job', loader') /\ t \in Seq(FrameType)
      BY <1>0, <1>4, <1>t, <2>6 DEF CallThen
    <3> HIDE DEF t
    <3> QED BY <2>pp, <3>1
  <2>7. ASSUME NEW f \in NewFrames, NEW g \in NewFrames, stack' = <<f, g>> \o stack
        PROVE  EndsTold(stack', job', loader')
    <3> DEFINE u == <<g>> \o stack
    <3>1. u \in Seq(FrameType) /\ Len(u) = Len(stack) + 1
          /\ \A k \in 1..Len(stack) : u[k + 1] = stack[k]
      BY <1>0, <2>1, Pushed
    <3>2. stack' = <<f>> \o u
      BY <1>0, <2>1, <2>7, PushedTwo
    <3> HIDE DEF u
    <3>3. Len(stack') = Len(u) + 1 /\ \A k \in 1..Len(u) : stack'[k + 1] = u[k]
      BY <2>1, <3>1, <3>2, Pushed
    <3>4. ASSUME NEW k \in 1..Len(stack)
          PROVE  k + 1 \in 1..Len(u) /\ (k + 1) + 1 \in 1..Len(stack')
      BY <1>0, <3>1, <3>3
    <3>5. EndsTold(stack, job', loader')
      BY <1>s, <3>1, <3>3, <3>4
    <3> QED BY <1>0, <2>7, <2>pp, <3>5
  <2>8. ASSUME stack # << >>, NEW f \in NewFrames, NEW g \in NewFrames, NEW k \in NewFrames,
               stack' = <<f, g, k>> \o Tail(stack)
        PROVE  EndsTold(stack', job', loader')
    <3>1. stack' = <<f, g, k>> \o t /\ EndsTold(t, job', loader') /\ t \in Seq(FrameType)
      BY <1>0, <1>4, <1>t, <2>8
    <3> HIDE DEF t
    <3>2. stack' = <<f>> \o (<<g>> \o (<<k>> \o t))
      <4>1. ThreePushes(t, f, g, k)
        BY <2>1, <3>1, PushedThree
      <4> QED BY <3>1, <4>1, Zenon DEF ThreePushes
    <3> DEFINE s == <<k>> \o t
               u == <<g>> \o s
    <3>3. EndsTold(s, job', loader') /\ s \in Seq(FrameType) /\ stack' = <<f>> \o u
      BY <2>p, <3>1, <3>2
    <3> HIDE DEF s
    <3>4. EndsTold(u, job', loader') /\ u \in Seq(FrameType)
      BY <2>p, <3>3
    <3> HIDE DEF u
    <3> QED BY <2>p, <3>3, <3>4
  <2> HIDE DEF EndsTold
  <2> QED BY <1>0, <2>2, <2>3, <2>4, <2>5, <2>6, <2>7, <2>8, StackMoves DEF StackMove
<1> QED BY <1>1, <1>2, <1>3, <1>4

\* When the transfer of a job is over, its loader knows, or it has failed and
\* the second loop will tell, or the user is to be asked.  (Unless the job was
\* condemned with its handler, or with the manager.)
OutcomeKnown ==
  \A h \in Jobs \cap LoaderHandle :
    job[h].success /\ job[h].state \in {"Disconnect", "Shutdown", "Remove"}
      => loader[h] # "loading" \/ job[h].auth

LEMMA OutcomeStep ==
  ASSUME ~Removable, ~Finalizable, IInv, OwnerInv, CancelKnown,
         EndsTold(stack, job, loader), OutcomeKnown, [Next]_vars
  PROVE  OutcomeKnown'
<1> SUFFICES ASSUME NEW h \in Jobs' \cap LoaderHandle, job'[h].success,
                    job'[h].state \in {"Disconnect", "Shutdown", "Remove"},
                    loader'[h] = "loading"
             PROVE  job'[h].auth
  BY DEF OutcomeKnown
<1>0. TypeOK /\ h \in Handle /\ job'[h].state # "None"
  BY LoaderNotSync DEF IInv, Jobs
<1>1. h \in Jobs
  <2>1. ASSUME h \notin Jobs PROVE job'[h].state = "Init"
    BY <1>0, <2>1, JobsAdded DEF JobAdded
  <2> QED BY <2>1
<1>2. loader[h] = "loading"
  <2>1. loader[h] # "idle"
    BY <1>0, <1>1 DEF IInv, PlaceInv
  <2> QED BY <1>0, <2>1, OverStays
<1>3. /\ job[h].auth => job'[h].auth
      /\ SameProgress(h) \/ Swept(h) \/ Transferred(h) \/ Failed(h) \/ Doomed(h)
  BY <1>0, <1>1, JobMoves DEF JobMove
<1>4. ~rh[h].cancelled
  BY <1>2 DEF CancelKnown
<1>5. job[h].success /\ job[h].state \in {"Disconnect", "Shutdown", "Remove"} => job'[h].auth
  BY <1>1, <1>2, <1>3 DEF OutcomeKnown
<1>6. CASE SameProgress(h)
  BY <1>5, <1>6 DEF SameProgress
<1>7. CASE Swept(h)
  <2>1. PICK ok \in BOOLEAN, complete \in BOOLEAN :
          /\ complete \/ ok
          /\ Settled(h, job[h].state, ok, complete)
    BY <1>7 DEF Swept
  <2>2. job[h].success /\ job[h].state \in {"Init", "Connect", "Disconnect", "Shutdown"}
    BY <1>7, <2>1 DEF Swept, Settled, Succeeds
  <2>3. CASE job[h].state \in {"Disconnect", "Shutdown"}
    BY <1>5, <2>2, <2>3
  <2>4. CASE job[h].state \in {"Init", "Connect"}
    <3>1. ok /\ Succeeds(h, job[h].state, ok)
      BY <2>1, <2>4 DEF Settled, Succeeds
    <3>2. After(job[h].state) \in {"Connect", "Transfer"}
      BY <2>4 DEF After
    <3>3. job'[h].state \in {"Remove", "Connect", "Transfer", "Init"}
      BY <2>1, <2>4, <3>2 DEF Settled
    <3>4. job'[h].state # "Remove"
      BY <1>4, <2>1, <2>4, <3>1 DEF Settled
    <3> QED BY <3>3, <3>4
  <2> QED BY <2>2, <2>3, <2>4
<1>8. CASE Transferred(h)
  <2>1. PICK ok \in BOOLEAN, complete \in BOOLEAN :
          /\ \/ Top.n = 2 /\ ok /\ complete
             \/ Top.n = 3 /\ complete
             \/ Top.n < 2 /\ ok /\ ~complete
             \/ Top.n < 2 /\ ~ok
          /\ Settled(h, "Transfer", ok, complete)
    BY <1>8 DEF Transferred
  <2>2. At("transfer") /\ Top.h = h
    BY <1>8 DEF Transferred, TransferReturn
  <2>3. /\ stack # << >> /\ Top = stack[1] /\ stack[1].at = "transfer"
        /\ Top \in FrameType /\ stack \in Seq(FrameType)
    BY <1>0, <2>2, AtChain DEF OwnerInv
  <2>4. job[h].success /\ job'[h].auth = job[h].auth
    BY <2>1 DEF Settled, Succeeds
  <2>5. CASE Top.n \in {2, 3}
    <3>1. 1 \in 1..Len(stack) /\ ~(1 > 1)
      BY <2>3, EmptySeq
    <3>2. Ends(stack[1])
      BY <2>2, <2>3, <2>5 DEF Ends
    <3>3. Excused(stack[1], job, loader)
      BY <3>1, <3>2 DEF EndsTold
    <3> QED BY <1>2, <2>2, <2>3, <2>4, <3>3 DEF Excused
  <2>6. CASE Top.n \notin {2, 3}
    <3>1. Succeeds(h, "Transfer", ok)
      BY <2>1 DEF Settled
    <3>2. ok /\ ~complete
      BY <2>1, <2>6, <3>1 DEF Succeeds
    <3>3. job'[h].state \in {"Remove", job[h].state}
      BY <2>1, <3>2 DEF Settled
    <3>4. job'[h].state = "Remove" => job[h].state = "Remove"
      BY <1>4, <2>1, <3>2 DEF Settled
    <3> QED BY <1>5, <2>4, <3>3, <3>4
  <2> QED BY <2>5, <2>6
<1>9. CASE Failed(h)
  BY <1>9 DEF Failed
<1>10. CASE Doomed(h)
  BY <1>10 DEF Doomed, RemoveTransportHandler, Finalize
<1> QED BY <1>3, <1>6, <1>7, <1>8, <1>9, <1>10

-----------------------------------------------------------------------------
(* The manager implements LoadService *)

OutcomeOf(state) ==
  CASE state = "idle" -> "new" [] state = "loading" -> "waiting" [] OTHER -> state

\* What the variables of LoadService stand for.
ActiveLoads == AsyncJobs \cup UriHandles(stack)
AskedLoads == limbo \cap LoaderHandle
Outcomes == [h \in LoaderHandle |-> OutcomeOf(loader[h])]

\* What the actions of LoadService say of the manager.
Serve(newActive, newAsked) ==
  ActiveLoads' = newActive /\ AskedLoads' = newAsked

LEMMA ServiceStates ==
  /\ Service!Init <=> /\ queue = << >> /\ ActiveLoads = {} /\ AskedLoads = {}
                      /\ Outcomes = [l \in LoaderHandle |-> "new"]
  /\ UNCHANGED (Service!serviceVars)
       <=> UNCHANGED <<queue, ActiveLoads, AskedLoads, Outcomes>>
BY DEF Service!Init, Service!serviceVars, ActiveLoads, AskedLoads, Outcomes, OutcomeOf,
       OnStack, UriHandles, HandlesAt

LEMMA ServiceCount == ASSUME NEW S PROVE Service!Cardinality(S) = Cardinality(S)
BY DEF Service!Cardinality, Cardinality

LEMMA ServiceStart ==
  Service!Start <=> /\ queue # << >>
                    /\ Cardinality(ActiveLoads \ UriHandle) < MaxConcurrent
                    /\ queue' = Tail(queue)
                    /\ Serve(ActiveLoads \cup {Head(queue)}, AskedLoads)
                    /\ UNCHANGED Outcomes
<1>1. Service!Cardinality(ActiveLoads \ UriHandle) = Cardinality(ActiveLoads \ UriHandle)
  BY ServiceCount
<1> QED BY <1>1 DEF Service!Start, Serve, ActiveLoads, AskedLoads, Outcomes, OutcomeOf,
                       OnStack, UriHandles, HandlesAt

LEMMA ServiceLoader ==
  ASSUME NEW l
  PROVE  /\ Service!Submit(l) <=> /\ Outcomes[l] = "new"
                                  /\ Outcomes' = [Outcomes EXCEPT ![l] = "waiting"]
                                  /\ queue' = Append(queue, l)
                                  /\ Serve(ActiveLoads, AskedLoads)
         /\ Service!Tell(l) <=> /\ l \in ActiveLoads \cup AskedLoads
                                /\ Outcomes[l] = "waiting"
                                /\ \E o \in {"finished", "failed"} :
                                     Outcomes' = [Outcomes EXCEPT ![l] = o]
                                /\ queue' = queue
                                /\ Serve(ActiveLoads, AskedLoads)
         /\ Service!Withdraw(l) <=> /\ Outcomes[l] = "waiting"
                                    /\ Outcomes' = [Outcomes EXCEPT ![l] = "cancelled"]
                                    /\ \/ l \in ActiveLoads \cup AskedLoads /\ queue' = queue
                                       \/ \E k \in 1..Len(queue) :
                                            /\ queue[k] = l
                                            /\ queue' = SubSeq(queue, 1, k - 1)
                                                          \o SubSeq(queue, k + 1, Len(queue))
                                    /\ Serve(ActiveLoads, AskedLoads)
BY DEF Service!Submit, Service!Tell, Service!Withdraw, Serve, ActiveLoads, AskedLoads,
       Outcomes, OutcomeOf, OnStack, UriHandles, HandlesAt

LEMMA ServiceEnd ==
  ASSUME NEW l
  PROVE  /\ Service!Stop(l) <=> /\ l \in ActiveLoads /\ Outcomes[l] # "waiting"
                                /\ Serve(ActiveLoads \ {l}, AskedLoads)
                                /\ UNCHANGED <<queue, Outcomes>>
         /\ Service!Ask(l) <=> /\ l \in ActiveLoads
                               /\ Serve(ActiveLoads \ {l}, AskedLoads \cup {l})
                               /\ UNCHANGED <<queue, Outcomes>>
         /\ Service!Retry(l) <=> /\ l \in AskedLoads
                                 /\ Serve(ActiveLoads, AskedLoads \ {l})
                                 /\ queue' = Append(queue, l)
                                 /\ UNCHANGED Outcomes
         /\ Service!GiveUp(l) <=> /\ l \in AskedLoads /\ Outcomes[l] # "waiting"
                                  /\ Serve(ActiveLoads, AskedLoads \ {l})
                                  /\ UNCHANGED <<queue, Outcomes>>
BY DEF Service!Stop, Service!Ask, Service!Retry, Service!GiveUp, Serve, ActiveLoads,
       AskedLoads, Outcomes, OutcomeOf, OnStack, UriHandles, HandlesAt

LEMMA OutcomeIs ==
  ASSUME TypeOK, NEW l \in LoaderHandle
  PROVE  /\ Outcomes[l] = "waiting" <=> loader[l] = "loading"
         /\ Outcomes[l] = "new" <=> loader[l] = "idle"
<1>1. loader[l] \in LoaderState
  BY LoaderNotSync DEF TypeOK
<1> QED BY <1>1 DEF Outcomes, OutcomeOf, LoaderState

LEMMA OutcomesSet ==
  ASSUME TypeOK, NEW h \in LoaderHandle, NEW s, loader' = [loader EXCEPT ![h] = s]
  PROVE  Outcomes' = [Outcomes EXCEPT ![h] = OutcomeOf(s)]
<1>1. h \in Handle /\ \A l \in LoaderHandle : loader'[l] = IF l = h THEN s ELSE loader[l]
  BY DEF TypeOK, Handle
<1>2. Outcomes' = [l \in LoaderHandle |-> OutcomeOf(loader'[l])]
  BY DEF Outcomes
<1>3. Outcomes = [l \in LoaderHandle |-> OutcomeOf(loader[l])]
  BY DEF Outcomes
<1> QED BY <1>1, <1>2, <1>3

LEMMA OutcomesKept ==
  ASSUME \A l \in LoaderHandle : loader'[l] = loader[l]
  PROVE  Outcomes' = Outcomes
BY DEF Outcomes

\* The jobs that startScheduledJobs started are those of loaders.
LEMMA AsyncLoads ==
  ASSUME PlaceInv, Apart
  PROVE  AsyncJobs = Jobs \cap LoaderHandle
BY DEF AsyncJobs, Jobs, PlaceInv, Apart, Handle

LEMMA AsyncLoadsNext ==
  ASSUME PlaceInv', Apart'
  PROVE  AsyncJobs' = Jobs' \cap LoaderHandle
BY DEF AsyncJobs, Jobs, PlaceInv, Apart, Handle

\* Only startScheduledJobs adds a job for a loader, and only the second loop
\* of ProcessTHJobs removes one.
LEMMA LoaderJobs ==
  ASSUME IInv, [Next]_vars, ~StartNext, ~EraseTold, ~EraseQuietly
  PROVE  Jobs' \cap LoaderHandle = Jobs \cap LoaderHandle
<1>1. ASSUME NEW g \in Jobs PROVE g \in Jobs'
  <2>1. JobMove(g) /\ g \in Handle /\ job[g].state # "None"
    BY JobMoves DEF Jobs
  <2>2. SameProgress(g) \/ Swept(g) \/ Transferred(g) \/ Failed(g) \/ Doomed(g)
    BY <2>1 DEF JobMove
  <2>3. ASSUME NEW state \in {"Init", "Connect", "Transfer", "Disconnect", "Shutdown"},
               NEW ok, NEW complete, Settled(g, state, ok, complete)
        PROVE  job'[g].state # "None"
    <3>1. After(state) # "None"
      BY DEF After
    <3> QED BY <2>1, <2>3, <3>1 DEF Settled
  <2>4. Swept(g) \/ Transferred(g) => job'[g].state # "None"
    BY <2>3 DEF Swept, Transferred
  <2>5. job'[g].state # "None"
    BY <2>1, <2>2, <2>4 DEF SameProgress, Failed, Doomed
  <2> QED BY <2>1, <2>5 DEF Jobs
<1>2. ASSUME NEW g \in LoaderHandle, g \notin Jobs, g \in Jobs' PROVE FALSE
  <2>1. g \in Handle /\ JobAdded(g)
    BY <1>2, JobsAdded, LoaderNotSync
  <2>2. ~SyncStart(g)
    BY LoaderNotSync DEF SyncStart
  <2> QED BY <2>1, <2>2 DEF JobAdded
<1> QED BY <1>1, <1>2

\* A data: URI is parsed in startScheduledJobs and nowhere else.
LEMMA UriSame ==
  ASSUME TypeOK, CallChain(stack), [Next]_vars, ~StartNext, ~UriDone
  PROVE  UriHandles(stack') = UriHandles(stack)
<1>1. CASE AuthDrop
  BY <1>1, ChainEnd DEF AuthDrop
<1>2. ASSUME NEW h \in Handle, AuthCancel(h) PROVE UriHandles(stack') = UriHandles(stack)
  BY <1>2, ChainCancel
<1>3. CASE ~AuthDrop /\ \A h \in Handle : ~AuthCancel(h)
  BY <1>3, ChainSame DEF SameHandles
<1> QED BY <1>1, <1>2, <1>3

LEMMA ActiveKept ==
  ASSUME IInv, IInv', CallChain(stack), Apart, Apart', [Next]_vars,
         ~StartNext, ~EraseTold, ~EraseQuietly, ~UriDone
  PROVE  ActiveLoads' = ActiveLoads
<1>1. AsyncJobs' = AsyncJobs
  BY LoaderJobs, AsyncLoads, AsyncLoadsNext DEF IInv
<1>2. UriHandles(stack') = UriHandles(stack)
  BY UriSame DEF IInv
<1> QED BY <1>1, <1>2 DEF ActiveLoads

\* A loader that waits is known to the manager.
Awaited ==
  \A l \in LoaderHandle :
    loader[l] = "loading" => Scheduled(l) \/ l \in ActiveLoads \cup AskedLoads

\* What is known between two steps for the refinement.
LoadInv == Apart /\ CancelKnown /\ EndsTold(stack, job, loader) /\ OutcomeKnown

LEMMA SubmitRefines ==
  ASSUME TypeOK, NEW h \in Handle, StartLoad(h), ActiveLoads' = ActiveLoads
  PROVE  h \in LoaderHandle /\ Service!Submit(h)
<1>1. /\ h \in LoaderHandle /\ loader[h] = "idle"
      /\ loader' = [loader EXCEPT ![h] = "loading"]
      /\ queue' = Append(queue, h) /\ limbo' = limbo
  BY DEF StartLoad
<1>2. Outcomes[h] = "new" /\ Outcomes' = [Outcomes EXCEPT ![h] = OutcomeOf("loading")]
  BY <1>1, OutcomeIs, OutcomesSet
<1>3. OutcomeOf("loading") = "waiting"
  BY DEF OutcomeOf
<1>4. Serve(ActiveLoads, AskedLoads)
  BY <1>1 DEF Serve, AskedLoads
<1> QED BY <1>1, <1>2, <1>3, <1>4, ServiceLoader

LEMMA WithdrawRefines ==
  ASSUME TypeOK, Apart, Awaited, NEW h \in Handle, CancelLoad(h), ActiveLoads' = ActiveLoads
  PROVE  h \in LoaderHandle /\ Service!Withdraw(h)
<1>1. /\ loader[h] = "loading"
      /\ loader' = [loader EXCEPT ![h] = "cancelled"]
      /\ IF Scheduled(h) THEN queue' = Without(h) ELSE queue' = queue
      /\ limbo' = limbo
  BY DEF CancelLoad
<1>2. h \in LoaderHandle
  BY <1>1 DEF Apart, Handle
<1>3. Outcomes[h] = "waiting" /\ Outcomes' = [Outcomes EXCEPT ![h] = OutcomeOf("cancelled")]
  BY <1>1, <1>2, OutcomeIs, OutcomesSet
<1>4. OutcomeOf("cancelled") = "cancelled"
  BY DEF OutcomeOf
<1>5. Serve(ActiveLoads, AskedLoads)
  BY <1>1 DEF Serve, AskedLoads
<1>6. CASE Scheduled(h)
  <2> DEFINE i == CHOOSE k \in 1..Len(queue) : queue[k] = h
  <2>1. i \in 1..Len(queue) /\ queue[i] = h
    BY <1>6 DEF Scheduled
  <2>2. queue' = SubSeq(queue, 1, i - 1) \o SubSeq(queue, i + 1, Len(queue))
    BY <1>1, <1>6 DEF Without
  <2> HIDE DEF i
  <2>3. \E k \in 1..Len(queue) :
          /\ queue[k] = h
          /\ queue' = SubSeq(queue, 1, k - 1) \o SubSeq(queue, k + 1, Len(queue))
    BY <2>1, <2>2
  <2> QED BY <1>2, <1>3, <1>4, <1>5, <2>3, ServiceLoader
<1>7. CASE ~Scheduled(h)
  <2>1. h \in ActiveLoads \cup AskedLoads /\ queue' = queue
    BY <1>1, <1>2, <1>7 DEF Awaited
  <2> QED BY <1>2, <1>3, <1>4, <1>5, <2>1, ServiceLoader
<1> QED BY <1>6, <1>7

LEMMA RetryRefines ==
  ASSUME TypeOK, CallChain(stack), Apart, NEW h \in Handle, AuthProceed(h),
         ActiveLoads' = ActiveLoads
  PROVE  h \in LoaderHandle /\ Service!Retry(h)
<1>1. /\ At("auth") /\ h \in limbo /\ rh[h].alive
      /\ queue' = Append(queue, h) /\ limbo' = limbo \ {h} /\ loader' = loader
  BY DEF AuthProceed
<1>2. h \in LoaderHandle
  BY <1>1, AuthAlone DEF Apart, Handle
<1>3. h \in AskedLoads /\ Serve(ActiveLoads, AskedLoads \ {h})
  BY <1>1, <1>2 DEF Serve, AskedLoads
<1>4. UNCHANGED Outcomes
  BY <1>1, OutcomesKept
<1> QED BY <1>1, <1>2, <1>3, <1>4, ServiceEnd

LEMMA StartRefines ==
  ASSUME IInv, IInv', CallChain(stack), Apart, Apart', StartNext
  PROVE  Service!Start
<1> DEFINE h == Head(queue)
<1>0. /\ TypeOK /\ queue \in Seq(Handle) /\ queue # << >> /\ queue' = Tail(queue)
      /\ running < MaxConcurrent /\ running \in Int /\ job \in [Handle -> JobInfo]
      /\ UNCHANGED <<limbo, loader>>
  BY DEF IInv, TypeOK, StartNext, CanStart
<1>1. h \in LoaderHandle /\ h \in Handle
  <2>1. 1 \in 1..Len(queue) /\ h = queue[1]
    BY <1>0, EmptySeq, LenProperties
  <2> QED BY <2>1, LoaderNotSync DEF Apart
<1>2. /\ UriHandles(stack) = {}
      /\ UriHandles(stack') = IF h \in UriHandle THEN {h} ELSE {}
  BY <1>0, ChainStart
<1>3. AsyncJobs = Jobs \cap LoaderHandle /\ AsyncJobs' = Jobs' \cap LoaderHandle
  BY AsyncLoads, AsyncLoadsNext DEF IInv
<1>4. Jobs' = IF h \in UriHandle THEN Jobs ELSE Jobs \cup {h}
  <2>1. CASE h \in UriHandle
    BY <2>1 DEF StartNext, Jobs
  <2>2. CASE h \notin UriHandle
    <3>1. PICK kind \in Kinds : job' = [job EXCEPT ![h] = NewJob(FALSE, kind)]
      BY <2>2 DEF StartNext
    <3>2. NewJob(FALSE, kind).state = "Init"
      BY DEF NewJob
    <3>3. \A g \in Handle : job'[g] = IF g = h THEN NewJob(FALSE, kind) ELSE job[g]
      BY <1>0, <3>1
    <3> QED BY <1>1, <2>2, <3>2, <3>3 DEF Jobs
  <2> QED BY <2>1, <2>2
<1>5. Cardinality(ActiveLoads \ UriHandle) < MaxConcurrent
  <2>1. ActiveLoads \ UriHandle \subseteq Jobs
    BY <1>2, <1>3 DEF ActiveLoads
  <2>2. IsFiniteSet(Jobs) /\ Cardinality(Jobs) \in Nat /\ running = Cardinality(Jobs)
    BY FiniteJobs DEF IInv, RunningCount
  <2>3. /\ Cardinality(ActiveLoads \ UriHandle) <= Cardinality(Jobs)
        /\ Cardinality(ActiveLoads \ UriHandle) \in Nat
    BY <2>1, <2>2, FS_Subset, FS_CardinalityType
  <2>4. MaxConcurrent \in Nat
    BY ParameterAssumption
  <2> QED BY <1>0, <2>2, <2>3, <2>4
<1>6. ActiveLoads' = ActiveLoads \cup {h}
  BY <1>1, <1>2, <1>3, <1>4 DEF ActiveLoads
<1>7. AskedLoads' = AskedLoads /\ UNCHANGED Outcomes
  BY <1>0, OutcomesKept DEF AskedLoads
<1>8. Serve(ActiveLoads \cup {h}, AskedLoads)
  BY <1>6, <1>7 DEF Serve
<1> QED BY <1>0, <1>5, <1>7, <1>8, ServiceStart

\* Who runs a callback that tells the end still has the load.
LEMMA EndHeld ==
  ASSUME IInv, OwnerInv, Apart, NEW l \in {"finish", "fail"}, At(l), loader[Top.h] = "loading"
  PROVE  Top.h \in LoaderHandle /\ Top.h \in ActiveLoads \cup AskedLoads
<1> DEFINE h == Top.h
<1>0. /\ stack \in Seq(FrameType) /\ stack # << >> /\ Top = stack[1] /\ stack[1].at = l
      /\ h \in Handle /\ MayCall(Tail(stack), Top)
  BY AtChain DEF IInv, OwnerInv, HandleLabel, ClientLabel
<1>1. h \in LoaderHandle
  BY <1>0 DEF Apart, Handle
<1>2. /\ Tail(stack) # << >> /\ Tail(stack)[1].h = h
      /\ Tail(stack)[1].at \in {"transfer", "dispose", "uriDone", "authDrop"}
  BY <1>0 DEF MayCall, OutsideLabel, OtherCall, OwnCallback, AuthLabel, UriLabel
<1>3. /\ 2 \in 1..Len(stack) /\ stack[2].h = h
      /\ stack[2].at \in {"transfer", "dispose", "uriDone", "authDrop"}
  <2>1. /\ Len(Tail(stack)) = Len(stack) - 1 /\ Len(stack) \in Nat
        /\ \A k \in 1..Len(Tail(stack)) : Tail(stack)[k] = stack[k + 1]
        /\ Tail(stack) \in Seq(FrameType)
    BY <1>0, Popped
  <2>2. 1 \in 1..Len(Tail(stack))
    BY <1>2, <2>1, EmptySeq
  <2> QED BY <1>2, <2>1, <2>2
<1>4. CASE stack[2].at \in Holder
  <2>1. job[h].state # "None"
    BY <1>3, <1>4 DEF IInv, StackInv, HeldJobs
  <2>2. h \in AsyncJobs
    BY <1>0, <1>1, <2>1, AsyncLoads DEF Jobs, IInv
  <2> QED BY <1>1, <2>2 DEF ActiveLoads
<1>5. CASE stack[2].at = "uriDone"
  BY <1>1, <1>3, <1>5 DEF ActiveLoads, UriHandles, HandlesAt, UriLabel
<1>6. CASE stack[2].at = "authDrop"
  <2>1. h \in AuthHandles(stack)
    BY <1>3, <1>6 DEF AuthHandles, HandlesAt, AuthLabel
  <2> QED BY <1>1, <2>1 DEF OwnerInv, AskedLoads
<1> QED BY <1>1, <1>3, <1>4, <1>5, <1>6 DEF Holder

\* The loader of an ended load learns it; other callbacks tell nothing.
LEMMA TellRefines ==
  ASSUME IInv, OwnerInv, Apart, ClientReturn, ActiveLoads' = ActiveLoads
  PROVE  \/ UNCHANGED <<queue, ActiveLoads, AskedLoads, Outcomes>>
         \/ \E g \in LoaderHandle : Service!Tell(g)
<1> DEFINE h == Top.h
           s == IF Top.at = "finish" THEN "finished" ELSE "failed"
<1>0. TypeOK /\ queue' = queue /\ AskedLoads' = AskedLoads
  BY DEF IInv, ClientReturn, AskedLoads
<1>1. CASE ~(Top.at \in {"finish", "fail"} /\ loader[h] = "loading")
  <2>1. UNCHANGED Outcomes
    BY <1>1, OutcomesKept DEF ClientReturn
  <2> QED BY <1>0, <2>1
<1>2. CASE Top.at \in {"finish", "fail"} /\ loader[h] = "loading"
  <2>1. At(Top.at) /\ loader' = [loader EXCEPT ![h] = s]
    BY <1>2 DEF ClientReturn, At
  <2>2. h \in LoaderHandle /\ h \in ActiveLoads \cup AskedLoads
    BY <1>2, <2>1, EndHeld
  <2>3. Outcomes[h] = "waiting" /\ Outcomes' = [Outcomes EXCEPT ![h] = OutcomeOf(s)]
    BY <1>0, <1>2, <2>1, <2>2, OutcomeIs, OutcomesSet
  <2>4. OutcomeOf(s) = s /\ s \in {"finished", "failed"}
    BY DEF OutcomeOf
  <2>5. Serve(ActiveLoads, AskedLoads)
    BY <1>0 DEF Serve
  <2> HIDE DEF s, h
  <2>6. \E o \in {"finished", "failed"} : Outcomes' = [Outcomes EXCEPT ![h] = o]
    BY <2>3, <2>4
  <2>7. PICK g \in LoaderHandle : g = h
    BY <2>2
  <2>8. Service!Tell(g)
    BY <1>0, <2>2, <2>3, <2>5, <2>6, <2>7, ServiceLoader
  <2> QED BY <2>8
<1> QED BY <1>1, <1>2

\* parseDataURI is done with a handle whose loader knows.
LEMMA UriDoneRefines ==
  ASSUME IInv, IInv', OwnerInv, Apart, Apart', EndsTold(stack, job, loader), UriDone,
         [Next]_vars
  PROVE  Top.h \in LoaderHandle /\ Service!Stop(Top.h)
<1> DEFINE h == Top.h
<1>0. /\ At("uriDone") /\ Return /\ UNCHANGED <<queue, job, limbo, loader>> /\ TypeOK
      /\ CallChain(stack)
  BY DEF UriDone, IInv, OwnerInv
<1>1. /\ UriHandles(stack) = {h} /\ UriHandles(stack') = {} /\ OwnFrame(Top)
      /\ stack \in Seq(FrameType) /\ stack # << >> /\ Top = stack[1] /\ stack[1].at = "uriDone"
  BY <1>0, ChainEnd, AtChain
<1>2. h \in UriHandle /\ h \in LoaderHandle
  BY <1>1 DEF OwnFrame, UriLabel, LoaderHandle
<1>3. h \notin AsyncJobs /\ AsyncJobs' = AsyncJobs
  BY <1>0, <1>2 DEF OwnerInv, Owned, AsyncJobs, Jobs
<1>4. loader[h] # "loading"
  <2>1. 1 \in 1..Len(stack) /\ ~(1 > 1)
    BY <1>1, EmptySeq
  <2>2. Ends(stack[1])
    BY <1>1, <1>2 DEF Ends
  <2>3. Excused(stack[1], job, loader)
    BY <2>1, <2>2 DEF EndsTold
  <2> QED BY <1>1, <2>3 DEF Excused
<1>5. h \in ActiveLoads /\ ActiveLoads' = ActiveLoads \ {h}
  BY <1>1, <1>3 DEF ActiveLoads
<1>6. Outcomes[h] # "waiting" /\ UNCHANGED <<queue, Outcomes>>
  BY <1>0, <1>2, <1>4, OutcomeIs, OutcomesKept
<1>7. Serve(ActiveLoads \ {h}, AskedLoads)
  BY <1>0, <1>5 DEF Serve, AskedLoads
<1> QED BY <1>2, <1>5, <1>6, <1>7, ServiceEnd

\* AuthenticationManager::Cancel is done with a handle whose loader knows.
LEMMA AuthDropRefines ==
  ASSUME IInv, OwnerInv, Apart, EndsTold(stack, job, loader), AuthDrop,
         ActiveLoads' = ActiveLoads
  PROVE  Top.h \in LoaderHandle /\ Service!GiveUp(Top.h)
<1> DEFINE h == Top.h
<1>0. /\ At("authDrop") /\ Return /\ limbo' = limbo \ {h} /\ UNCHANGED <<queue, loader>>
      /\ TypeOK /\ CallChain(stack)
  BY DEF AuthDrop, IInv, OwnerInv
<1>1. /\ AuthHandles(stack) = {h}
      /\ stack \in Seq(FrameType) /\ stack # << >> /\ Top = stack[1] /\ stack[1].at = "authDrop"
  BY <1>0, ChainEnd, AtChain
<1>2. h \in LoaderHandle /\ h \in AskedLoads
  BY <1>1 DEF Apart, OwnerInv, AskedLoads
<1>3. loader[h] # "loading"
  <2>1. 1 \in 1..Len(stack) /\ ~(1 > 1)
    BY <1>1, EmptySeq
  <2>2. Ends(stack[1])
    BY <1>1, <1>2 DEF Ends
  <2>3. Excused(stack[1], job, loader)
    BY <2>1, <2>2 DEF EndsTold
  <2> QED BY <1>1, <2>3 DEF Excused
<1>4. Outcomes[h] # "waiting" /\ UNCHANGED <<queue, Outcomes>>
  BY <1>0, <1>2, <1>3, OutcomeIs, OutcomesKept
<1>5. Serve(ActiveLoads, AskedLoads \ {h})
  BY <1>0 DEF Serve, AskedLoads
<1> QED BY <1>2, <1>4, <1>5, ServiceEnd

\* A job that is erased without a question has an outcome its loader knows.
LEMMA ErasedKnown ==
  ASSUME IInv, OwnerInv, LoadInv, NEW h \in Jobs \cap LoaderHandle, ~job[h].auth,
         \/ EraseTold /\ At("dispose") /\ Top.h = h
         \/ EraseQuietly /\ IsNext(h, TRUE) /\ (job[h].success \/ ~Calls(h))
  PROVE  loader[h] # "loading"
<1>1. CASE At("dispose") /\ Top.h = h
  <2>1. /\ stack \in Seq(FrameType) /\ stack # << >> /\ Top = stack[1] /\ stack[1].at = "dispose"
    BY <1>1, AtChain DEF IInv, OwnerInv
  <2>2. 1 \in 1..Len(stack) /\ ~(1 > 1) /\ Ends(stack[1])
    BY <1>1, <2>1, EmptySeq DEF Ends
  <2>3. Excused(stack[1], job, loader)
    BY <2>2 DEF LoadInv, EndsTold
  <2> QED BY <1>1, <2>1, <2>3 DEF Excused
<1>2. CASE IsNext(h, TRUE) /\ job[h].success
  <2>1. job[h].state = "Remove"
    BY <1>2 DEF IsNext, Ahead
  <2> QED BY <1>2, <2>1 DEF LoadInv, OutcomeKnown
<1>3. CASE ~Calls(h)
  BY <1>3 DEF Calls, OwnerInv, Owned
<1> QED BY <1>1, <1>2, <1>3

LEMMA EraseRefines ==
  ASSUME IInv, IInv', OwnerInv, LoadInv, Apart', [Next]_vars,
         EraseTold \/ EraseQuietly, ~StartNext, ~UriDone
  PROVE  \/ UNCHANGED <<queue, ActiveLoads, AskedLoads, Outcomes>>
         \/ \E g \in LoaderHandle : Service!Ask(g) \/ Service!Stop(g)
<1>1. PICK h \in Jobs :
        /\ Erase(h) /\ UNCHANGED <<queue, loader>>
        /\ \/ EraseTold /\ At("dispose") /\ Top.h = h
           \/ EraseQuietly /\ IsNext(h, TRUE) /\ (job[h].success \/ ~Calls(h))
  BY Erasing
<1>2. /\ TypeOK /\ CallChain(stack) /\ Apart /\ job \in [Handle -> JobInfo]
  BY DEF IInv, OwnerInv, LoadInv, TypeOK
<1>3. Jobs' = Jobs \ {h}
  <2>1. job' = [job EXCEPT ![h] = NoJob] /\ NoJob.state = "None"
    BY <1>1 DEF Erase, Forget, NoJob
  <2> HIDE DEF NoJob
  <2>2. \A g \in Handle : job'[g] = IF g = h THEN NoJob ELSE job[g]
    BY <1>2, <2>1
  <2> QED BY <2>1, <2>2 DEF Jobs
<1>4. AsyncJobs = Jobs \cap LoaderHandle /\ AsyncJobs' = Jobs' \cap LoaderHandle
  BY <1>2, AsyncLoads, AsyncLoadsNext DEF IInv
<1>5. UriHandles(stack') = UriHandles(stack)
  BY <1>2, UriSame
<1>6. limbo' = IF job[h].auth THEN limbo \cup {h} ELSE limbo
  BY <1>1 DEF Erase
<1>7. UNCHANGED <<queue, Outcomes>>
  BY <1>1, OutcomesKept
<1>8. CASE h \notin LoaderHandle
  BY <1>3, <1>4, <1>5, <1>6, <1>7, <1>8 DEF ActiveLoads, AskedLoads
<1>9. CASE h \in LoaderHandle
  <2>1. h \notin UriHandles(stack)
    BY <1>9 DEF OwnerInv, Owned
  <2>2. h \in ActiveLoads /\ ActiveLoads' = ActiveLoads \ {h}
    BY <1>3, <1>4, <1>5, <1>9, <2>1 DEF ActiveLoads
  <2>3. CASE job[h].auth
    <3>1. AskedLoads' = AskedLoads \cup {h}
      BY <1>6, <1>9, <2>3 DEF AskedLoads
    <3>2. Service!Ask(h)
      BY <1>7, <2>2, <3>1, ServiceEnd DEF Serve
    <3> QED BY <1>9, <3>2
  <2>4. CASE ~job[h].auth
    <3>1. loader[h] # "loading"
      BY <1>1, <1>9, <2>4, ErasedKnown
    <3>2. Outcomes[h] # "waiting" /\ AskedLoads' = AskedLoads
      BY <1>2, <1>6, <1>9, <2>4, <3>1, OutcomeIs DEF AskedLoads
    <3>3. Service!Stop(h)
      BY <1>7, <2>2, <3>2, ServiceEnd DEF Serve
    <3> QED BY <1>9, <3>3
  <2> QED BY <2>3, <2>4
<1> QED BY <1>8, <1>9

\* What synchronous loads do is none of the service's concern.
LEMMA SyncRefines ==
  ASSUME TypeOK, CallChain(stack), SyncReturn \/ \E h \in Handle : SyncStart(h)
  PROVE  UNCHANGED <<queue, AskedLoads, Outcomes>>
<1>0. loader \in [Handle -> LoaderState]
  BY DEF TypeOK
<1>1. CASE SyncReturn
  <2>1. At("sync") /\ loader' = [loader EXCEPT ![Top.h] = "returned"] /\ UNCHANGED <<queue, limbo>>
    BY <1>1 DEF SyncReturn
  <2>2. Top.h \in SyncHandle
    BY <2>1, AtChain DEF OwnFrame
  <2>3. \A l \in LoaderHandle : loader'[l] = loader[l]
    BY <1>0, <2>1, <2>2, LoaderNotSync
  <2> QED BY <2>1, <2>3, OutcomesKept DEF AskedLoads
<1>2. ASSUME NEW h \in Handle, SyncStart(h) PROVE UNCHANGED <<queue, AskedLoads, Outcomes>>
  <2>1. /\ h \in SyncHandle /\ loader' = [loader EXCEPT ![h] = "sync"] /\ UNCHANGED <<queue, limbo>>
    BY <1>2 DEF SyncStart
  <2>2. \A l \in LoaderHandle : loader'[l] = loader[l]
    BY <1>0, <2>1, LoaderNotSync
  <2> QED BY <2>1, <2>2, OutcomesKept DEF AskedLoads
<1> QED BY <1>1, <1>2

\* Every step of the manager is a step of the service, or none of its concern.
LEMMA RefineStep ==
  ASSUME IInv, IInv', OwnerInv, LoadInv, Apart', Awaited, [Next]_vars
  PROVE  \/ UNCHANGED <<queue, ActiveLoads, AskedLoads, Outcomes>>
         \/ Service!Next
<1>0. /\ TypeOK /\ StackInv(stack, job) /\ CallChain(stack) /\ Apart
      /\ EndsTold(stack, job, loader)
  BY DEF IInv, OwnerInv, LoadInv
<1>n. ASSUME \/ Service!Start
             \/ \E l \in LoaderHandle : \/ Service!Submit(l) \/ Service!Withdraw(l)
                                        \/ Service!Tell(l) \/ Service!Stop(l)
                                        \/ Service!Ask(l) \/ Service!Retry(l)
                                        \/ Service!GiveUp(l)
      PROVE  Service!Next
  BY <1>n DEF Service!Next
<1>1. CASE StartNext
  BY <1>0, <1>1, <1>n, StartRefines
<1>2. CASE UriDone
  BY <1>0, <1>2, <1>n, UriDoneRefines
<1>3. CASE (EraseTold \/ EraseQuietly) /\ ~StartNext /\ ~UriDone
  BY <1>3, <1>n, EraseRefines
<1>4. CASE ~StartNext /\ ~UriDone /\ ~EraseTold /\ ~EraseQuietly
  <2>a. ActiveLoads' = ActiveLoads
    BY <1>0, <1>4, ActiveKept
  <2>1. CASE AuthDrop
    BY <1>0, <1>n, <2>a, <2>1, AuthDropRefines
  <2>2. CASE ClientReturn
    BY <1>0, <1>n, <2>a, <2>2, TellRefines
  <2>3. ASSUME NEW h \in Handle, StartLoad(h) PROVE Service!Next
    BY <1>0, <1>n, <2>a, <2>3, SubmitRefines
  <2>4. ASSUME NEW h \in Handle, CancelLoad(h) PROVE Service!Next
    BY <1>0, <1>n, <2>a, <2>4, WithdrawRefines
  <2>5. ASSUME NEW h \in Handle, AuthProceed(h) PROVE Service!Next
    BY <1>0, <1>n, <2>a, <2>5, RetryRefines
  <2>6. CASE SyncReturn \/ \E h \in Handle : SyncStart(h)
    BY <1>0, <2>a, <2>6, SyncRefines
  <2>7. ASSUME UNCHANGED <<queue, limbo, loader>>
        PROVE  UNCHANGED <<queue, ActiveLoads, AskedLoads, Outcomes>>
    BY <2>a, <2>7, OutcomesKept DEF AskedLoads
  <2>8. ASSUME \/ \E h \in Handle : HeadersReceived(h) \/ SetRedirect(h)
               \/ RemoveTransportHandler \/ Finalize \/ TimerFires
               \/ UriData \/ UriFinish
               \/ FirstStartDone \/ PassDone \/ AuthTickDone \/ CallbackDone
               \/ SweepStep \/ SweepTransfer \/ FirstLoopDone
               \/ TellFailure \/ SecondLoopDone
               \/ HeadersDone \/ DataRest \/ TransferReturn
               \/ \E h \in Handle : DataReceived(h)
               \/ \E h \in Handle, result \in BOOLEAN : DataDone(h, result)
               \/ \E h \in Handle : AuthCancel(h) \/ AuthDangling(h)
               \/ AuthFinish \/ SyncProcess \/ SyncTicked
               \/ TransportHandlerRemoved \/ Finalized
               \/ UNCHANGED vars
        PROVE  UNCHANGED <<queue, limbo, loader>>
    BY <1>0, <2>8, Untouched, UnmovedStep, Zenon
  <2> QED BY <1>4, <2>1, <2>2, <2>3, <2>4, <2>5, <2>6, <2>7, <2>8, Zenon DEF Next, Outside, Inside
<1> QED BY <1>1, <1>2, <1>3, <1>4

-----------------------------------------------------------------------------
(* A waiting loader is known, in the service and so in the manager *)

\* An entry leaves the queue when its load starts or is cancelled.
LEMMA QueueLeaves ==
  ASSUME IInv, [Next]_vars, NEW g \in Handle, Scheduled(g), ~Scheduled(g)'
  PROVE  (StartNext /\ g = Head(queue)) \/ CancelLoad(g)
<1>0. /\ queue \in Seq(Handle) /\ TypeOK /\ StackInv(stack, job)
      /\ \A i, j \in 1..Len(queue) : queue[i] = queue[j] => i = j
  BY DEF IInv, TypeOK, PlaceInv
<1>1. ASSUME UNCHANGED queue PROVE FALSE
  BY <1>1 DEF Scheduled
<1>2. CASE StartNext
  BY <1>0, <1>2, TailScheduled DEF StartNext, CanStart
<1>3. ASSUME NEW h \in Handle, CancelLoad(h) PROVE CancelLoad(g)
  <2>1. Scheduled(h) /\ queue' = Without(h)
    BY <1>1, <1>3 DEF CancelLoad
  <2>2. g = h
    BY <1>0, <2>1, WithoutScheduled
  <2> QED BY <1>3, <2>2
<1>4. ASSUME NEW h \in Handle, StartLoad(h) \/ AuthProceed(h) PROVE FALSE
  <2>1. queue' = Append(queue, h)
    BY <1>4 DEF StartLoad, AuthProceed
  <2> QED BY <1>0, <2>1, AppendScheduled
<1>5. ASSUME AuthDrop \/ EraseTold \/ EraseQuietly \/ SyncReturn \/ \E h \in Handle : SyncStart(h)
      PROVE  UNCHANGED queue
  BY <1>5 DEF AuthDrop, EraseTold, EraseQuietly, SyncReturn, SyncStart
<1> QED BY <1>0, <1>1, <1>2, <1>3, <1>4, <1>5, UnmovedStep, Zenon DEF Next, Outside, Inside

\* Whatever the service does, a load that waits on stays with it.
LEMMA AwaitedServed ==
  ASSUME IInv, NEW g \in LoaderHandle, loader[g] = "loading", g \in ActiveLoads \cup AskedLoads,
         UNCHANGED <<queue, ActiveLoads, AskedLoads, Outcomes>> \/ Service!Next
  PROVE  Scheduled(g)' \/ g \in ActiveLoads' \cup AskedLoads'
<1>0. TypeOK /\ queue \in Seq(Handle) /\ g \in Handle
  BY LoaderNotSync DEF IInv, TypeOK
<1>1. Outcomes[g] = "waiting"
  BY <1>0, OutcomeIs
<1>2. CASE UNCHANGED <<queue, ActiveLoads, AskedLoads, Outcomes>>
  BY <1>2
<1>3. CASE Service!Start
  BY <1>3, ServiceStart DEF Serve
<1>4. ASSUME NEW l \in LoaderHandle, Service!Submit(l) \/ Service!Withdraw(l) \/ Service!Tell(l)
      PROVE  g \in ActiveLoads' \cup AskedLoads'
  BY <1>4, ServiceLoader DEF Serve
<1>5. ASSUME NEW l \in LoaderHandle, Service!Stop(l) \/ Service!Ask(l) \/ Service!GiveUp(l)
      PROVE  g \in ActiveLoads' \cup AskedLoads'
  BY <1>1, <1>5, ServiceEnd DEF Serve
<1>6. ASSUME NEW l \in LoaderHandle, Service!Retry(l)
      PROVE  Scheduled(g)' \/ g \in ActiveLoads' \cup AskedLoads'
  <2>1. Serve(ActiveLoads, AskedLoads \ {l}) /\ queue' = Append(queue, l) /\ l \in Handle
    BY <1>6, ServiceEnd, LoaderNotSync
  <2>2. l = g => Scheduled(g)'
    BY <1>0, <2>1, AppendScheduled
  <2> QED BY <2>1, <2>2 DEF Serve
<1> QED BY <1>2, <1>3, <1>4, <1>5, <1>6 DEF Service!Next

LEMMA AwaitedStep ==
  ASSUME IInv, IInv', OwnerInv, LoadInv, Apart', Awaited, [Next]_vars
  PROVE  Awaited'
<1> SUFFICES ASSUME NEW g \in LoaderHandle, loader'[g] = "loading"
             PROVE  Scheduled(g)' \/ g \in ActiveLoads' \cup AskedLoads'
  BY DEF Awaited
<1>0. TypeOK /\ queue \in Seq(Handle) /\ g \in Handle /\ loader \in [Handle -> LoaderState]
  BY LoaderNotSync DEF IInv, TypeOK
<1>1. CASE loader[g] # "loading"
  <2>1. queue' = Append(queue, g)
    BY <1>0, <1>1, LoadingSteps DEF StartLoad
  <2> QED BY <1>0, <2>1, AppendScheduled
<1>2. CASE loader[g] = "loading" /\ g \in ActiveLoads \cup AskedLoads
  BY <1>2, RefineStep, AwaitedServed
<1>3. CASE loader[g] = "loading" /\ Scheduled(g) /\ ~Scheduled(g)'
  <2>1. CASE CancelLoad(g)
    BY <1>0, <2>1 DEF CancelLoad
  <2>2. CASE StartNext /\ g = Head(queue)
    <3>1. Service!Start
      BY <2>2, StartRefines DEF OwnerInv, LoadInv
    <3> QED BY <2>2, <3>1, ServiceStart DEF Serve
  <2> QED BY <1>0, <1>3, <2>1, <2>2, QueueLeaves
<1> QED BY <1>1, <1>2, <1>3 DEF Awaited

LEMMA LoadStep ==
  ASSUME ~Removable, ~Finalizable, IInv, IInv', OwnerInv, OwnerInv', LoadInv, [Next]_vars
  PROVE  LoadInv'
<1>1. Apart'
  BY ApartStep DEF OwnerInv, LoadInv
<1>2. CancelKnown'
  BY CancelStep DEF LoadInv
<1>3. EndsTold(stack', job', loader')
  BY EndsStep DEF LoadInv
<1>4. OutcomeKnown'
  BY OutcomeStep DEF LoadInv
<1> QED BY <1>1, <1>2, <1>3, <1>4 DEF LoadInv, EndsTold, Excused, Ends

LEMMA InitLoads == Init => LoadInv /\ Awaited
<1> SUFFICES ASSUME Init PROVE LoadInv /\ Awaited
  OBVIOUS
<1>1. /\ queue = << >> /\ stack = << >> /\ Len(queue) = 0 /\ Len(stack) = 0
      /\ 1..Len(queue) = {} /\ 1..Len(stack) = {} /\ Jobs = {}
  BY DEF Init, Jobs, NoJob
<1>2. \A h \in Handle : loader[h] = "idle" /\ rh[h] = NoResourceHandle
  BY DEF Init
<1>3. \A h \in Handle : ~rh[h].alive /\ ~rh[h].cancelled
  BY <1>2 DEF NoResourceHandle
<1>4. AuthHandles(stack) = {}
  BY <1>1, HandlesEmpty DEF AuthHandles
<1>5. Apart
  BY <1>1, <1>2, <1>3, <1>4 DEF Apart, Handle
<1>6. CancelKnown /\ Awaited
  BY <1>2, <1>3, LoaderNotSync DEF CancelKnown, Awaited
<1>7. EndsTold(stack, job, loader) /\ OutcomeKnown
  BY <1>1 DEF EndsTold, OutcomeKnown
<1> QED BY <1>5, <1>6, <1>7 DEF LoadInv

LEMMA InitRefines == Init => Service!Init
<1> SUFFICES ASSUME Init PROVE Service!Init
  OBVIOUS
<1>1. queue = << >> /\ stack = << >> /\ limbo = {} /\ AsyncJobs = {}
  BY DEF Init, AsyncJobs, Jobs, NoJob
<1>2. UriHandles(stack) = {}
  BY <1>1, HandlesEmpty DEF UriHandles
<1>3. \A l \in LoaderHandle : OutcomeOf(loader[l]) = "new"
  BY LoaderNotSync DEF Init, OutcomeOf
<1>4. Outcomes = [l \in LoaderHandle |-> "new"]
  BY <1>3 DEF Outcomes
<1> QED BY <1>1, <1>2, <1>4, ServiceStates DEF ActiveLoads, AskedLoads

\* Unless the application takes its handler away or shuts the library down,
\* which condemns jobs whose loaders are told nothing, what is known of the
\* loads is invariant.
LEMMA LoadInvariant ==
  ASSUME ~Removable, ~Finalizable
  PROVE  Spec => [](LoadInv /\ Awaited)
<1>1. IInv /\ IInv' /\ OwnerInv /\ OwnerInv' /\ (LoadInv /\ Awaited) /\ [Next]_vars
        => (LoadInv /\ Awaited)'
  <2> SUFFICES ASSUME IInv, IInv', OwnerInv, OwnerInv', LoadInv, Awaited, [Next]_vars
               PROVE  (LoadInv /\ Awaited)'
    OBVIOUS
  <2>1. LoadInv'
    BY LoadStep
  <2>2. Apart'
    BY ApartStep DEF OwnerInv, LoadInv
  <2>3. Awaited'
    BY <2>2, AwaitedStep
  <2> QED BY <2>1, <2>3
<1> QED BY <1>1, InitLoads, Invariant, OwnerInvariant, PTL DEF Spec

\* To the loaders the manager is the service of LoadService: loads start in
\* order and within the limit, a loader is told once, and no load is dropped
\* before its loader knows the outcome, whatever synchronous loads, callbacks,
\* questions for credentials and data: URIs interrupt ProcessTHJobs.
THEOREM ServiceImplemented ==
  ASSUME ~Removable, ~Finalizable
  PROVE  Spec => ImplementsService
<1>1. IInv /\ IInv' /\ OwnerInv /\ (LoadInv /\ Awaited) /\ (LoadInv /\ Awaited)' /\ [Next]_vars
        => [Service!Next]_(Service!serviceVars)
  <2> SUFFICES ASSUME IInv, IInv', OwnerInv, LoadInv, Awaited, LoadInv', [Next]_vars
               PROVE  [Service!Next]_(Service!serviceVars)
    OBVIOUS
  <2>1. Apart'
    BY DEF LoadInv
  <2>2. UNCHANGED <<queue, ActiveLoads, AskedLoads, Outcomes>> \/ Service!Next
    BY <2>1, RefineStep
  <2> QED BY <2>2, ServiceStates
<1> QED
  BY <1>1, InitRefines, Invariant, OwnerInvariant, LoadInvariant, PTL
     DEF Spec, ImplementsService, Service!Spec

\* Between two callbacks a loader that still waits is known to someone who
\* will tell it the outcome: the queue, a job or the AuthenticationManager.
\* Only jobs that RemoveTransportHandler or staticFinalize condemned are erased
\* without a word to their loaders.
THEOREM NobodyOrphaned ==
  ASSUME ~Removable, ~Finalizable
  PROVE  Spec => []NoOrphanedLoader
<1>1. IInv /\ (LoadInv /\ Awaited) => NoOrphanedLoader
  <2> SUFFICES ASSUME IInv, Awaited, Idle, NEW h \in LoaderHandle, loader[h] = "loading"
               PROVE  Scheduled(h) \/ h \in Jobs \/ h \in limbo
    BY DEF NoOrphanedLoader
  <2>1. UriHandles(stack) = {}
    BY HandlesEmpty DEF UriHandles, Idle
  <2> QED BY <2>1 DEF Awaited, ActiveLoads, AskedLoads, AsyncJobs
<1> QED BY <1>1, Invariant, LoadInvariant, PTL

-----------------------------------------------------------------------------
(* Condemned jobs, without synchronous loads *)

LEMMA NeverSync ==
  ASSUME SyncHandle = {}, CallChain(stack)
  PROVE  ~HasSync(stack)
BY DEF HasSync, CallChain, OwnFrame

\* A step calls nobody and returns from nothing, or it returns from one
\* function, or the function on top is one it has entered or gone on with.
LEMMA NewTop ==
  ASSUME TypeOK, [Next]_vars
  PROVE  \/ UNCHANGED stack
         \/ stack # << >> /\ Return
         \/ stack' # << >> /\ stack'[1] \in NewFrames /\ Len(stack') >= Len(stack)
<1>1. StackMove
  BY StackMoves
<1>2. stack \in Seq(FrameType) /\ Len(stack) \in Nat /\ NewFrames \subseteq FrameType
  BY DEF TypeOK, NewFrames
<1>3. ASSUME NEW s \in Seq(FrameType), NEW f \in NewFrames, stack' = <<f>> \o s,
             Len(s) + 1 >= Len(stack)
      PROVE  stack' # << >> /\ stack'[1] \in NewFrames /\ Len(stack') >= Len(stack)
  <2>1. Len(stack') = Len(s) + 1 /\ Len(s) \in Nat /\ stack'[1] = f
    BY <1>2, <1>3, Pushed
  <2>2. Len(<< >>) = 0
    OBVIOUS
  <2> QED BY <1>3, <2>1, <2>2
<1>4. ASSUME stack # << >>
      PROVE  Tail(stack) \in Seq(FrameType) /\ Len(Tail(stack)) + 1 = Len(stack)
  BY <1>2, <1>4, Popped
<1>5. ASSUME NEW f \in NewFrames, Call(f)
      PROVE  stack' # << >> /\ stack'[1] \in NewFrames /\ Len(stack') >= Len(stack)
  <2>1. Len(stack) + 1 >= Len(stack)
    BY <1>2
  <2> QED BY <1>2, <1>3, <1>5, <2>1 DEF Call
<1>6. ASSUME stack # << >>, NEW f \in NewFrames, Become(f)
      PROVE  stack' # << >> /\ stack'[1] \in NewFrames /\ Len(stack') >= Len(stack)
  <2>1. Len(Tail(stack)) + 1 >= Len(stack)
    BY <1>2, <1>4, <1>6
  <2> QED BY <1>3, <1>4, <1>6, <2>1 DEF Become
<1>7. ASSUME NEW s \in Seq(FrameType), NEW f \in NewFrames, NEW g \in NewFrames,
             stack' = <<f, g>> \o s, Len(s) + 1 >= Len(stack)
      PROVE  stack' # << >> /\ stack'[1] \in NewFrames /\ Len(stack') >= Len(stack)
  <2> DEFINE t == <<g>> \o s
  <2>1. stack' = <<f>> \o t
    BY <1>2, <1>7, PushedTwo
  <2>2. t \in Seq(FrameType) /\ Len(t) = Len(s) + 1 /\ Len(s) \in Nat
    BY <1>2, Pushed
  <2> HIDE DEF t
  <2>3. Len(t) + 1 >= Len(stack)
    BY <1>2, <1>7, <2>2
  <2> QED BY <1>3, <2>1, <2>2, <2>3
<1>8. ASSUME stack # << >>, NEW f \in NewFrames, NEW g \in NewFrames, CallThen(f, g)
      PROVE  stack' # << >> /\ stack'[1] \in NewFrames /\ Len(stack') >= Len(stack)
  <2>1. Len(Tail(stack)) + 1 >= Len(stack)
    BY <1>2, <1>4, <1>8
  <2> QED BY <1>4, <1>7, <1>8, <2>1 DEF CallThen
<1>9. ASSUME NEW f \in NewFrames, NEW g \in NewFrames, stack' = <<f, g>> \o stack
      PROVE  stack' # << >> /\ stack'[1] \in NewFrames /\ Len(stack') >= Len(stack)
  <2>1. Len(stack) + 1 >= Len(stack)
    BY <1>2
  <2> QED BY <1>2, <1>7, <1>9, <2>1
<1>10. ASSUME stack # << >>, NEW f \in NewFrames, NEW g \in NewFrames, NEW k \in NewFrames,
              stack' = <<f, g, k>> \o Tail(stack)
       PROVE  stack' # << >> /\ stack'[1] \in NewFrames /\ Len(stack') >= Len(stack)
  <2> DEFINE t == <<k>> \o Tail(stack)
             u == <<g>> \o t
  <2>1. stack' = <<f>> \o u
    <3>1. ThreePushes(Tail(stack), f, g, k)
      BY <1>2, <1>4, <1>10, PushedThree
    <3> QED BY <1>10, <3>1, Zenon DEF ThreePushes
  <2>2. t \in Seq(FrameType) /\ Len(t) = Len(stack)
    BY <1>2, <1>4, <1>10, Pushed
  <2> HIDE DEF t
  <2>3. u \in Seq(FrameType) /\ Len(u) = Len(stack) + 1
    BY <1>2, <2>2, Pushed
  <2> HIDE DEF u
  <2>4. Len(u) + 1 >= Len(stack)
    BY <1>2, <2>3
  <2> QED BY <1>3, <2>1, <2>3, <2>4
<1> QED BY <1>1, <1>5, <1>6, <1>8, <1>9, <1>10 DEF StackMove

\* The three frames with which the second loop can be on top of the stack: it
\* runs, it disposes of a job, or the client of that job is told of its failure.
LoopLabel == {"sweep2", "dispose", "fail"}

LEMMA LoopFrames ==
  ASSUME TypeOK, CallChain(stack), ~HasSync(stack), stack # << >>
  PROVE  /\ Top = stack[1]
         /\ Top.at = "dispose" => Len(stack) >= 2 /\ stack[2].at = "sweep2"
         /\ Top.at = "fail" => /\ Len(stack) >= 3 /\ stack[2].at = "dispose"
                               /\ stack[3].at = "sweep2"
         /\ Len(stack) >= 2 /\ stack[2].at = "sweep2" => Top.at = "dispose"
         /\ Len(stack) >= 2 /\ stack[2].at = "dispose" => Top.at = "fail"
         /\ Len(stack) >= 2 => stack[2].at # "fail"
<1>1. stack \in Seq(FrameType) /\ Len(stack) \in Nat /\ Len(stack) >= 1 /\ Top = stack[1]
  BY Popped DEF TypeOK, Top
<1>2. ASSUME NEW k \in 1..(Len(stack) - 1)
      PROVE  \/ OtherCall(stack[k + 1].at, stack[k].at)
             \/ OwnCallback(stack[k + 1].at, stack[k].at)
  BY <1>2 DEF CallChain
<1>3. stack[Len(stack)].at \in OutsideLabel
  BY DEF CallChain
<1>4. ASSUME NEW k \in 1..Len(stack), stack[k].at = "dispose"
      PROVE  k + 1 \in 1..Len(stack) /\ stack[k + 1].at = "sweep2"
  <2>1. k # Len(stack)
    BY <1>3, <1>4 DEF OutsideLabel
  <2>2. k \in 1..(Len(stack) - 1) /\ k + 1 \in 1..Len(stack)
    BY <1>1, <2>1
  <2> QED BY <1>2, <1>4, <2>2 DEF OtherCall, OwnCallback, AuthLabel, UriLabel
<1>5. ASSUME NEW k \in 1..Len(stack), stack[k].at = "fail"
      PROVE  k + 1 \in 1..Len(stack) /\ stack[k + 1].at = "dispose"
  <2>1. k # Len(stack)
    BY <1>3, <1>5 DEF OutsideLabel
  <2>2. k \in 1..(Len(stack) - 1) /\ k + 1 \in 1..Len(stack)
    BY <1>1, <2>1
  <2> QED BY <1>2, <1>5, <2>2 DEF OtherCall, OwnCallback, AuthLabel, UriLabel
<1>6. Top.at = "dispose" => Len(stack) >= 2 /\ stack[2].at = "sweep2"
  BY <1>1, <1>4
<1>7. Top.at = "fail" => /\ Len(stack) >= 3 /\ stack[2].at = "dispose"
                         /\ stack[3].at = "sweep2"
  <2>1. Top.at = "fail" => 2 \in 1..Len(stack) /\ stack[2].at = "dispose"
    <3>1. 1 \in 1..Len(stack) /\ 1 + 1 = 2
      BY <1>1
    <3> QED BY <1>1, <1>5, <3>1
  <2>2. Top.at = "fail" => 3 \in 1..Len(stack) /\ stack[3].at = "sweep2"
    BY <1>1, <1>4, <2>1
  <2> QED BY <1>1, <2>1, <2>2
<1>8. ASSUME Len(stack) >= 2
      PROVE  /\ stack[2].at = "sweep2" => Top.at = "dispose"
             /\ stack[2].at = "dispose" => Top.at = "fail"
             /\ stack[2].at # "fail"
  <2>1. 1 \in 1..(Len(stack) - 1)
    BY <1>1, <1>8
  <2>2. OtherCall(stack[2].at, Top.at) \/ OwnCallback(stack[2].at, Top.at)
    BY <1>1, <1>2, <2>1
  <2>3. Top.at # "sync"
    BY <1>1 DEF HasSync
  <2> QED BY <2>2, <2>3 DEF OtherCall, OwnCallback, ScriptLabel
<1> QED BY <1>1, <1>6, <1>7, <1>8

\* The second loop is on the stack in no other way.
LEMMA LoopBelow ==
  ASSUME TypeOK, CallChain(stack), ~HasSync(stack), NEW k \in 1..Len(stack),
         stack[k].at = "sweep2"
  PROVE  stack # << >> /\ Top.at \in LoopLabel
<1>1. stack \in Seq(FrameType) /\ Len(stack) \in Nat /\ stack # << >> /\ Top = stack[1]
  BY Popped, EmptySeq DEF TypeOK, Top
<1>2. ASSUME NEW j \in 2..Len(stack)
      PROVE  /\ j - 1 \in 1..Len(stack)
             /\ stack[j].at = "sweep2" => stack[j - 1].at = "dispose"
             /\ stack[j].at = "dispose" => stack[j - 1].at = "fail"
             /\ stack[j].at # "fail"
  <2>1. j - 1 \in 1..(Len(stack) - 1) /\ (j - 1) + 1 = j /\ j - 1 \in 1..Len(stack)
    BY <1>1
  <2>2. \/ OtherCall(stack[(j - 1) + 1].at, stack[j - 1].at)
        \/ OwnCallback(stack[(j - 1) + 1].at, stack[j - 1].at)
    BY <2>1 DEF CallChain
  <2>3. OtherCall(stack[j].at, stack[j - 1].at) \/ OwnCallback(stack[j].at, stack[j - 1].at)
    BY <2>1, <2>2
  <2>4. stack[j - 1].at # "sync"
    BY <2>1 DEF HasSync
  <2> QED BY <2>1, <2>3, <2>4 DEF OtherCall, OwnCallback, ScriptLabel
<1>3. CASE k = 1
  BY <1>1, <1>3 DEF LoopLabel
<1>4. CASE k = 2
  <2>1. stack[2 - 1].at = "dispose"
    BY <1>2, <1>4
  <2> QED BY <1>1, <2>1 DEF LoopLabel
<1>5. CASE k >= 3
  <2>1. k \in 2..Len(stack) /\ k - 1 \in 2..Len(stack)
    BY <1>1, <1>5
  <2>2. stack[k - 1].at = "dispose"
    BY <1>2, <2>1
  <2>3. stack[(k - 1) - 1].at = "fail"
    BY <1>2, <2>1, <2>2
  <2>4. k = 3
    <3>1. (k - 1) - 1 \notin 2..Len(stack)
      BY <1>2, <2>3
    <3> QED BY <1>1, <1>5, <3>1
  <2> QED BY <1>1, <2>3, <2>4 DEF LoopLabel
<1> QED BY <1>1, <1>3, <1>4, <1>5

\* While the second loop is at work, no job becomes a condemned one.
LEMMA StillCondemned ==
  ASSUME IInv, stack # << >>, Top.at \in LoopLabel, [Next]_vars,
         NEW g \in Jobs', job'[g].state = "Remove"
  PROVE  g \in Jobs /\ job[g].state = "Remove" /\ job'[g].id = job[g].id
<1>0. g \in Handle
  BY DEF Jobs
<1>1. g \in Jobs
  <2>1. g \notin Jobs => JobAdded(g)
    BY <1>0, JobsAdded
  <2> QED BY <2>1 DEF JobAdded
<1>2. JobMove(g)
  BY <1>1, JobMoves
<1>3. job'[g].state # "None"
  BY DEF Jobs
<1>4. ~Swept(g) /\ ~Transferred(g) /\ ~Failed(g) /\ ~Doomed(g)
  BY DEF Swept, SweepStep, Transferred, TransferReturn, Failed, DataDone, InTransfer,
     Doomed, RemoveTransportHandler, Finalize, At, Idle, LoopLabel
<1>5. SameIdentity(g) /\ SameProgress(g)
  BY <1>2, <1>3, <1>4 DEF JobMove
<1> QED BY <1>1, <1>5 DEF SameIdentity, SameProgress

\* The loop has passed no condemned job but that of h.
Passed(n, h) == \A g \in Jobs : job[g].state = "Remove" => job[g].id > n \/ g = h

LoopInv ==
  stack # << >> =>
    /\ Top.at = "sweep2" => Passed(Top.n, NoHandle)
    /\ Top.at = "dispose" => Passed(stack[2].n, Top.h)
    /\ Top.at = "fail" => Passed(stack[3].n, stack[2].h)

\* So a loop that has no job ahead leaves no condemned one.
LEMMA AllAhead ==
  ASSUME IInv, ~HasSync(stack), At("sweep2"), LoopInv
  PROVE  \A g \in Jobs : job[g].state = "Remove" => g \in Ahead(TRUE)
<1>1. Passed(Top.n, NoHandle)
  BY DEF LoopInv, At
<1>2. ASSUME NEW g \in Jobs PROVE g \in Handle /\ ~job[g].paused /\ g # NoHandle
  BY HandleAssumption DEF IInv, StackInv, SyncJobsRun, PausedInSync, HasSync, Jobs
<1> QED BY <1>1, <1>2 DEF Passed, Ahead

\* The one it comes to is passed, and no other.
LEMMA NextPassed ==
  ASSUME IInv, ~HasSync(stack), IdInv, At("sweep2"), LoopInv, NEW h \in Handle,
         IsNext(h, TRUE)
  PROVE  Passed(job[h].id, h)
<1> SUFFICES ASSUME NEW g \in Jobs, job[g].state = "Remove", g # h
             PROVE  job[g].id > job[h].id
  BY DEF Passed
<1>1. g \in Ahead(TRUE)
  BY AllAhead
<1>2. h \in Jobs /\ job[h].id <= job[g].id
  BY <1>1 DEF IsNext, Ahead
<1>3. job[g].id \in Nat /\ job[h].id \in Nat
  BY <1>2 DEF IInv, TypeOK, JobInfo, Jobs
<1> QED BY <1>2, <1>3 DEF IdInv

LEMMA PassedKept ==
  ASSUME IInv, stack # << >>, Top.at \in LoopLabel, [Next]_vars, NEW n, NEW h, Passed(n, h)
  PROVE  Passed(n, h)' /\ (h \notin Jobs' => Passed(n, NoHandle)')
<1>1. ASSUME NEW g \in Jobs', job'[g].state = "Remove"
      PROVE  job'[g].id > n \/ g = h
  BY <1>1, StillCondemned DEF Passed
<1> QED BY <1>1 DEF Passed

\* The loop tells a client, and comes back to dispose of the job.
LEMMA TellPushes ==
  ASSUME TypeOK, NEW h \in Handle, stack # << >>, Top.at = "sweep2",
         stack' = <<Frame("fail", h), Frame("dispose", h), [Top EXCEPT !.n = job[h].id]>>
                     \o Tail(stack)
  PROVE  /\ stack'[1].at = "fail" /\ stack'[2].at = "dispose" /\ stack'[2].h = h
         /\ stack'[3].at = "sweep2" /\ stack'[3].n = job[h].id /\ Len(stack') >= 3
<1> DEFINE e == Frame("fail", h)
           d == Frame("dispose", h)
           f == [Top EXCEPT !.n = job[h].id]
           r == Tail(stack)
<1>1. /\ e \in FrameType /\ e.at = "fail" /\ d \in FrameType /\ d.at = "dispose" /\ d.h = h
  BY HandleFrameTyped DEF Frame
<1>2. f \in FrameType /\ f.at = "sweep2" /\ f.n = job[h].id
  <2>1. job[h].id \in Nat
    BY DEF TypeOK, JobInfo
  <2>2. Top \in FrameType
    BY Popped DEF TypeOK, Top
  <2> QED BY <2>1, <2>2, FrameUpdate DEF FrameType
<1>3. stack' = <<e, d, f>> \o r /\ r \in Seq(FrameType)
  BY Popped DEF TypeOK
<1> HIDE DEF e, d, f, r
<1>4. ThreePushes(r, e, d, f)
  BY <1>1, <1>2, <1>3, PushedThree
<1> DEFINE s == <<f>> \o r
           t == <<d>> \o s
<1>5. stack' = <<e>> \o t
  BY <1>3, <1>4, Zenon DEF ThreePushes
<1>6. s \in Seq(FrameType) /\ s[1] = f /\ Len(s) \in Nat /\ Len(s) >= 1
  BY <1>2, <1>3, Pushed
<1> HIDE DEF s
<1>7. t \in Seq(FrameType) /\ t[1] = d /\ t[2] = f /\ Len(t) \in Nat /\ Len(t) >= 2
  <2>1. /\ t \in Seq(FrameType) /\ Len(t) = Len(s) + 1 /\ t[1] = d
        /\ \A k \in 1..Len(s) : t[k + 1] = s[k]
    BY <1>1, <1>6, Pushed
  <2> QED BY <1>6, <2>1
<1> HIDE DEF t
<1>8. /\ stack'[1] = e /\ Len(stack') = Len(t) + 1
      /\ \A k \in 1..Len(t) : stack'[k + 1] = t[k]
  BY <1>1, <1>5, <1>7, Pushed
<1>9. stack'[2] = d /\ stack'[3] = f
  BY <1>7, <1>8
<1>10. stack'[1] = e /\ Len(stack') >= 3
  BY <1>7, <1>8
<1> QED BY <1>1, <1>2, <1>9, <1>10, Zenon

LEMMA LoopStep ==
  ASSUME IInv, IInv', IdInv, ~HasSync(stack), CallChain(stack),
         ~HasSync(stack'), CallChain(stack'), LoopInv, [Next]_vars
  PROVE  LoopInv'
<1> SUFFICES ASSUME stack' # << >>, Top'.at \in LoopLabel
             PROVE  /\ Top'.at = "sweep2" => Passed(Top.n, NoHandle)'
                    /\ Top'.at = "dispose" => Passed(stack[2].n, Top.h)'
                    /\ Top'.at = "fail" => Passed(stack[3].n, stack[2].h)'
  BY DEF LoopInv, LoopLabel
<1>0. /\ TypeOK /\ stack \in Seq(FrameType) /\ stack' \in Seq(FrameType)
      /\ Top' = stack'[1]
  <2>1. stack' \in Seq(FrameType)
    BY DEF IInv, TypeOK
  <2> QED BY <2>1, Popped DEF IInv, TypeOK, Top
<1>1. CASE UNCHANGED stack
  <2>1. stack # << >> /\ Top' = Top /\ Top.at \in LoopLabel
    BY <1>1 DEF Top
  <2>3. ASSUME NEW m, NEW h, Passed(m, h) PROVE Passed(m, h)'
    BY <2>1, <2>3, PassedKept
  <2>4. CASE Top.at = "sweep2"
    <3>1. PICK m : m = Top.n
      OBVIOUS
    <3>2. Passed(m, NoHandle)'
      BY <2>1, <2>3, <2>4, <3>1 DEF LoopInv
    <3> QED BY <2>1, <2>4, <3>1, <3>2
  <2>5. CASE Top.at = "dispose"
    <3>1. PICK m, h : m = stack[2].n /\ h = Top.h
      OBVIOUS
    <3>2. Passed(m, h)'
      BY <2>1, <2>3, <2>5, <3>1 DEF LoopInv
    <3> QED BY <1>1, <2>1, <2>5, <3>1, <3>2
  <2>6. CASE Top.at = "fail"
    <3>1. PICK m, h : m = stack[3].n /\ h = stack[2].h
      OBVIOUS
    <3>2. Passed(m, h)'
      BY <2>1, <2>3, <2>6, <3>1 DEF LoopInv
    <3> QED BY <1>1, <2>1, <2>6, <3>1, <3>2
  <2> QED BY <2>1, <2>4, <2>5, <2>6 DEF LoopLabel
<1>2. CASE stack # << >> /\ Return
  <2>1. /\ stack' = Tail(stack) /\ Len(stack) = Len(stack') + 1 /\ Len(stack') \in Nat
        /\ \A k \in 1..Len(stack') : stack'[k] = stack[k + 1]
    BY <1>0, <1>2, Popped DEF Return
  <2>2. Len(stack') >= 1 /\ Len(stack) >= 2 /\ stack'[1] = stack[2]
    <3>1. Len(stack') # 0
      BY <1>0, <2>1, EmptySeq
    <3> QED BY <2>1, <3>1
  <2>3. /\ stack[2].at = "sweep2" => Top.at = "dispose"
        /\ stack[2].at = "dispose" => Top.at = "fail"
        /\ stack[2].at # "fail"
    BY <1>0, <1>2, <2>2, LoopFrames
  <2>4. Top'.at \in {"sweep2", "dispose"} /\ Top.at \in LoopLabel
    BY <1>0, <2>2, <2>3 DEF LoopLabel
  <2>5. CASE Top.at = "dispose"
    <3>1. PICK m, h : m = stack[2].n /\ h = Top.h
      OBVIOUS
    <3>2. Passed(m, h)
      BY <1>2, <2>5, <3>1 DEF LoopInv
    <3>3. h \notin Jobs'
      <4>1. ~UNCHANGED vars
        <5>1. ~UNCHANGED stack
          BY <2>1
        <5> QED BY <5>1 DEF vars
      <4>2. EraseTold
        BY <1>2, <2>5, <4>1, Acting DEF Idle, FrameStep, ClientLabel, ScriptLabel
      <4>3. job' = [job EXCEPT ![h] = NoJob]
        BY <3>1, <4>2 DEF EraseTold, Erase, Forget
      <4> QED BY <1>0, <4>3 DEF Jobs, NoJob, TypeOK
    <3>4. Passed(m, NoHandle)'
      BY <1>2, <2>4, <3>2, <3>3, PassedKept
    <3>5. stack[2].at = "sweep2"
      BY <1>0, <1>2, <2>5, LoopFrames
    <3>6. Top'.n = m /\ Top'.at = "sweep2"
      BY <1>0, <2>2, <3>1, <3>5
    <3> QED BY <3>4, <3>6
  <2>6. CASE Top.at = "fail"
    <3>1. PICK m, h : m = stack[3].n /\ h = stack[2].h
      OBVIOUS
    <3>2. Passed(m, h)'
      BY <1>2, <2>4, <2>6, <3>1, PassedKept DEF LoopInv
    <3>3. Len(stack) >= 3 /\ stack[2].at = "dispose"
      BY <1>0, <1>2, <2>6, LoopFrames
    <3>4. stack'[2] = stack[3]
      <4>1. 2 \in 1..Len(stack') /\ 2 + 1 = 3
        BY <2>1, <3>3
      <4> QED BY <2>1, <4>1
    <3>5. Top'.at = "dispose" /\ Top'.h = h /\ stack'[2].n = m
      BY <1>0, <2>2, <3>1, <3>3, <3>4
    <3> QED BY <3>2, <3>5
  <2>7. Top.at # "sweep2"
    BY <1>0, <2>3, <2>4, <2>2
  <2> QED BY <2>4, <2>5, <2>6, <2>7 DEF LoopLabel
<1>3. CASE TellFailure
  <2>1. PICK h \in Handle :
          /\ IsNext(h, TRUE)
          /\ stack' = <<Frame("fail", h), Frame("dispose", h),
                        [Top EXCEPT !.n = job[h].id]>> \o Tail(stack)
    BY <1>3 DEF TellFailure
  <2>2. At("sweep2") /\ stack # << >> /\ Top.at = "sweep2" /\ UNCHANGED job
    BY <1>3 DEF TellFailure, At
  <2>3. /\ stack'[1].at = "fail" /\ stack'[2].h = h /\ stack'[3].n = job[h].id
    BY <1>0, <2>1, <2>2, TellPushes
  <2>4. Passed(job[h].id, h)
    BY <2>1, <2>2, NextPassed
  <2>5. Passed(stack[3].n, stack[2].h)'
    BY <2>2, <2>3, <2>4 DEF Passed, Jobs
  <2> QED BY <1>0, <2>3, <2>5
<1>4. CASE stack'[1] \in NewFrames /\ ~TellFailure
  <2>1. Top'.at = "sweep2" /\ ((FirstLoopDone /\ Top'.n = 0) \/ EraseQuietly)
    <3>1. NewFrame(Top')
      BY <1>0, <1>4 DEF NewFrames
    <3> QED BY <1>4, <3>1 DEF NewFrame, LoopFrame, LoopLabel
  <2>2. CASE FirstLoopDone /\ Top'.n = 0
    <3>1. UNCHANGED job
      BY <2>2 DEF FirstLoopDone
    <3>2. ASSUME NEW g \in Jobs' PROVE job'[g].id > 0
      <4>1. g \in Jobs /\ g \in Handle /\ nextId \in Nat
        BY <1>0, <3>1, <3>2 DEF Jobs, TypeOK
      <4> QED BY <3>1, <4>1 DEF IdInv
    <3> QED BY <2>1, <2>2, <3>2 DEF Passed
  <2>3. CASE EraseQuietly
    <3>1. PICK h \in Handle :
            /\ IsNext(h, TRUE)
            /\ job' = [job EXCEPT ![h] = NoJob]
            /\ Become([Top EXCEPT !.n = job[h].id])
      BY <2>3 DEF EraseQuietly, Erase, Forget
    <3>2. At("sweep2") /\ stack # << >> /\ Top.at \in LoopLabel
      BY <2>3 DEF EraseQuietly, At, LoopLabel
    <3>3. PICK m : m = job[h].id
      OBVIOUS
    <3>4. Passed(m, h)
      BY <3>1, <3>2, <3>3, NextPassed
    <3>5. h \notin Jobs'
      BY <1>0, <3>1 DEF Jobs, NoJob, TypeOK
    <3>6. Passed(m, NoHandle)'
      BY <3>2, <3>4, <3>5, PassedKept
    <3>7. Top'.n = m
      <4> DEFINE f == [Top EXCEPT !.n = job[h].id]
      <4>1. f \in FrameType /\ f.n = m
        <5>1. job[h].id \in Nat /\ Top \in FrameType
          BY <1>0, <3>2, Popped DEF TypeOK, JobInfo, Top
        <5> QED BY <3>3, <5>1, FrameUpdate DEF FrameType
      <4>2. Tail(stack) \in Seq(FrameType) /\ stack' = <<f>> \o Tail(stack)
        BY <1>0, <3>1, <3>2, Popped DEF Become
      <4> HIDE DEF f
      <4> QED BY <1>0, <4>1, <4>2, Pushed
    <3> QED BY <2>1, <3>6, <3>7
  <2> QED BY <2>1, <2>2, <2>3
<1> QED BY <1>0, <1>1, <1>2, <1>3, <1>4, NewTop

\* m_CondemnedJobsExist is reset when a job is erased, and by nothing else.
LEMMA CondemnedSteps ==
  ASSUME [Next]_vars, condemned
  PROVE  condemned' \/ EraseTold \/ EraseQuietly
<1>1. ASSUME NEW h \in Handle,
             \/ StartLoad(h) \/ CancelLoad(h) \/ SyncStart(h) \/ HeadersReceived(h)
             \/ SetRedirect(h) \/ AuthProceed(h) \/ AuthCancel(h) \/ AuthDangling(h)
             \/ DataReceived(h) \/ DataDone(h, TRUE) \/ DataDone(h, FALSE)
      PROVE  condemned'
  BY <1>1 DEF StartLoad, CancelLoad, SyncStart, HeadersReceived, SetRedirect,
     AuthProceed, AuthCancel, AuthDangling, DataReceived, DataDone
<1>2. \/ TimerFires \/ ClientReturn \/ StartNext \/ UriData \/ UriFinish \/ UriDone
      \/ FirstStartDone \/ PassDone \/ AuthTickDone \/ CallbackDone
      \/ SweepTransfer \/ FirstLoopDone \/ TellFailure \/ SecondLoopDone
      \/ HeadersDone \/ DataRest \/ AuthFinish \/ AuthDrop
      \/ SyncProcess \/ SyncTicked \/ SyncReturn \/ TransportHandlerRemoved \/ Finalized
      \/ UNCHANGED vars
      => condemned'
  BY DEF TimerFires, ClientReturn, StartNext, UriData, UriFinish, UriDone, FirstStartDone,
         PassDone, AuthTickDone, CallbackDone, SweepTransfer, FirstLoopDone, TellFailure,
         SecondLoopDone, HeadersDone, DataRest, AuthFinish, AuthDrop, SyncProcess,
         SyncTicked, SyncReturn, TransportHandlerRemoved, Finalized, vars
<1>3. SweepStep \/ TransferReturn => condemned'
  <2>1. ASSUME NEW h, NEW state, NEW ok, NEW complete, Settle(h, state, ok, complete)
        PROVE  condemned'
    BY <2>1 DEF Settle, Flag
  <2>2. SweepStep \/ TransferReturn
          => \E h, state, ok, complete : Settle(h, state, ok, complete)
    BY DEF SweepStep, TransferReturn
  <2> QED BY <2>1, <2>2
<1>4. RemoveTransportHandler \/ Finalize => condemned'
  BY DEF RemoveTransportHandler, Finalize, Condemn
<1> QED BY <1>1, <1>2, <1>3, <1>4, Zenon DEF Next, Outside, Inside

\* A job is condemned, and the flag set, in the same step.
LEMMA CondemnedKnown ==
  ASSUME IInv, [Next]_vars, NEW g \in Jobs', job'[g].state = "Remove",
         g \in Jobs => job[g].state # "Remove"
  PROVE  condemned'
<1>0. g \in Handle /\ job'[g].state # "None"
  BY DEF Jobs
<1>1. g \in Jobs
  <2>1. g \notin Jobs => JobAdded(g)
    BY <1>0, JobsAdded
  <2> QED BY <2>1 DEF JobAdded
<1>2. JobMove(g)
  BY <1>1, JobMoves
<1> QED BY <1>0, <1>1, <1>2 DEF JobMove, SameProgress, Swept, Transferred, Settled, Failed, Doomed

HasLoop(s) == \E k \in 1..Len(s) : s[k].at = "sweep2"

\* The second loop is left when it has no job ahead.
LEMMA LoopLeaves ==
  ASSUME IInv, IInv', ~HasSync(stack), CallChain(stack), [Next]_vars,
         HasLoop(stack), ~HasLoop(stack')
  PROVE  SecondLoopDone
<1>0. /\ TypeOK /\ stack \in Seq(FrameType) /\ stack' \in Seq(FrameType)
      /\ Len(stack) \in Nat /\ Len(stack') \in Nat
  <2>1. stack' \in Seq(FrameType)
    BY DEF IInv, TypeOK
  <2> QED BY <2>1 DEF IInv, TypeOK
<1>1. stack # << >> /\ Top.at \in LoopLabel
  BY <1>0, LoopBelow DEF HasLoop
<1>2. Keeps(stack, stack', Len(stack) - 1)
  BY <1>0, <1>1, BelowTop
<1>3. ASSUME NEW k \in 2..Len(stack), stack[k].at = "sweep2" PROVE FALSE
  <2> DEFINE i == Len(stack) - k
  <2>1. i \in 0..((Len(stack) - 1) - 1) /\ Len(stack) - i = k
    BY <1>0, <1>3
  <2>2. Len(stack') >= Len(stack) - 1 /\ stack'[Len(stack') - i] = stack[Len(stack) - i]
    BY <1>2, <2>1 DEF Keeps
  <2>3. Len(stack') - i \in 1..Len(stack')
    BY <1>0, <2>1, <2>2
  <2> HIDE DEF i
  <2> QED BY <1>3, <2>1, <2>2, <2>3 DEF HasLoop
<1>4. Top.at = "sweep2"
  BY <1>0, <1>1, <1>3, LoopFrames DEF LoopLabel
<1>5. TellFailure \/ EraseQuietly \/ SecondLoopDone
  <2>1. ~UNCHANGED vars
    BY DEF vars, HasLoop
  <2> QED BY <1>1, <1>4, <2>1, Acting DEF Idle, FrameStep, ClientLabel, ScriptLabel
<1>6. ~EraseQuietly
  <2> SUFFICES ASSUME EraseQuietly PROVE FALSE
    OBVIOUS
  <2>1. PICK h \in Handle : Become([Top EXCEPT !.n = job[h].id])
    BY DEF EraseQuietly
  <2> DEFINE f == [Top EXCEPT !.n = job[h].id]
  <2>2. f \in FrameType /\ f.at = "sweep2"
    <3>1. job[h].id \in Nat /\ Top \in FrameType
      BY <1>0, <1>1, Popped DEF TypeOK, JobInfo, Top
    <3> QED BY <1>4, <3>1, FrameUpdate DEF FrameType
  <2>3. Tail(stack) \in Seq(FrameType) /\ stack' = <<f>> \o Tail(stack)
    BY <1>0, <1>1, <2>1, Popped DEF Become
  <2> HIDE DEF f
  <2>4. stack'[1] = f /\ Len(stack') = Len(Tail(stack)) + 1 /\ Len(Tail(stack)) \in Nat
    BY <2>2, <2>3, Pushed
  <2>5. 1 \in 1..Len(stack')
    BY <2>4
  <2> QED BY <2>2, <2>4, <2>5 DEF HasLoop
<1>7. ~TellFailure
  <2> SUFFICES ASSUME TellFailure PROVE FALSE
    OBVIOUS
  <2>1. PICK h \in Handle :
          stack' = <<Frame("fail", h), Frame("dispose", h),
                     [Top EXCEPT !.n = job[h].id]>> \o Tail(stack)
    BY DEF TellFailure
  <2>2. stack'[3].at = "sweep2" /\ Len(stack') >= 3
    BY <1>0, <1>1, <1>4, <2>1, TellPushes
  <2>3. 3 \in 1..Len(stack')
    BY <1>0, <2>2
  <2> QED BY <2>2, <2>3 DEF HasLoop
<1> QED BY <1>5, <1>6, <1>7

LEMMA SeenStep ==
  ASSUME IInv, IInv', ~HasSync(stack), CallChain(stack), LoopInv, CondemnedSeen, [Next]_vars
  PROVE  CondemnedSeen'
<1> SUFFICES ASSUME NEW g \in Jobs', job'[g].state = "Remove", ~condemned', ~HasLoop(stack')
             PROVE  FALSE
  BY DEF CondemnedSeen, HasLoop
<1>1. g \in Jobs /\ job[g].state = "Remove"
  BY CondemnedKnown
<1>2. HasLoop(stack)
  <2>1. CASE condemned
    <3>1. EraseTold \/ EraseQuietly
      BY <2>1, CondemnedSteps
    <3>2. TypeOK /\ stack # << >> /\ Top = stack[1] /\ Len(stack) \in Nat /\ Len(stack) >= 1
          /\ Top.at \in {"dispose", "sweep2"}
      BY <3>1, Popped DEF EraseTold, EraseQuietly, At, IInv, TypeOK, Top
    <3>3. Top.at = "dispose" => Len(stack) >= 2 /\ stack[2].at = "sweep2"
      BY <3>2, LoopFrames
    <3>4. 1 \in 1..Len(stack) /\ (Len(stack) >= 2 => 2 \in 1..Len(stack))
      BY <3>2
    <3> QED BY <3>2, <3>3, <3>4 DEF HasLoop
  <2>2. CASE ~condemned
    BY <1>1, <2>2 DEF CondemnedSeen, HasLoop
  <2> QED BY <2>1, <2>2
<1>3. SecondLoopDone
  BY <1>2, LoopLeaves
<1>4. At("sweep2") /\ Ahead(TRUE) = {}
  BY <1>3 DEF SecondLoopDone
<1> QED BY <1>1, <1>4, AllAhead

\* Without synchronous loads. A synchronous load that ends in the middle of a
\* pass resets the flag for jobs that it had paused, as the README says.
LEMMA SeenInvariant ==
  ASSUME SyncHandle = {}
  PROVE  Spec => [](LoopInv /\ CondemnedSeen)
<1>1. IInv /\ IInv' /\ OwnerInv /\ OwnerInv' /\ IdInv /\ (LoopInv /\ CondemnedSeen)
        /\ [Next]_vars => (LoopInv /\ CondemnedSeen)'
  <2> SUFFICES ASSUME IInv, IInv', OwnerInv, OwnerInv', IdInv, LoopInv, CondemnedSeen,
                      [Next]_vars
               PROVE  (LoopInv /\ CondemnedSeen)'
    OBVIOUS
  <2>1. CallChain(stack) /\ CallChain(stack')
    BY DEF OwnerInv
  <2>2. ~HasSync(stack) /\ ~HasSync(stack')
    BY <2>1 DEF HasSync, CallChain, OwnFrame
  <2> QED BY <2>1, <2>2, LoopStep, SeenStep
<1>2. Init => LoopInv /\ CondemnedSeen
  BY DEF Init, LoopInv, CondemnedSeen, Jobs, NoJob
<1> QED BY <1>1, <1>2, Invariant, OwnerInvariant, ShutInvariant, PTL DEF Spec

\* Without synchronous loads, whenever a condemned job is left, ProcessTHJobs
\* is in its second loop or m_CondemnedJobsExist is set for the next pass, also
\* when clients that are told of failures start and cancel loads.
THEOREM CondemnedAreSeen ==
  ASSUME SyncHandle = {}
  PROVE  Spec => []CondemnedSeen
BY SeenInvariant, PTL

-----------------------------------------------------------------------------
(* RemoveTransportHandler, without a disk cache and synchronous loads *)

\* While RemoveTransportHandler is on the stack, all jobs of the handler are
\* condemned and none is transferred, and when its pass is over none is left.
RemovalInv ==
  /\ \A h \in Jobs : job[h].viaApp => appHandler /\ job[h].kind = "http"
  /\ stack # << >> /\ Bottom(stack).at = "removeHandler"
       => /\ \A h \in Jobs : job[h].viaApp => job[h].state = "Remove" /\ Len(stack) # 1
          /\ \A k \in 1..Len(stack) : stack[k].at = "transfer" => ~job[stack[k].h].viaApp

LEMMA HandlerSteps ==
  ASSUME [Next]_vars
  PROVE  UNCHANGED appHandler \/ TransportHandlerRemoved
<1>1. ASSUME NEW h \in Handle,
             \/ StartLoad(h) \/ CancelLoad(h) \/ SyncStart(h) \/ HeadersReceived(h)
             \/ SetRedirect(h) \/ AuthProceed(h) \/ AuthCancel(h) \/ AuthDangling(h)
             \/ DataReceived(h) \/ DataDone(h, TRUE) \/ DataDone(h, FALSE)
      PROVE  UNCHANGED appHandler
  BY <1>1 DEF StartLoad, CancelLoad, SyncStart, HeadersReceived, SetRedirect,
     AuthProceed, AuthCancel, AuthDangling, DataReceived, DataDone
<1>2. \/ TimerFires \/ ClientReturn \/ StartNext \/ UriData \/ UriFinish \/ UriDone
      \/ FirstStartDone \/ PassDone \/ AuthTickDone \/ CallbackDone
      \/ SweepStep \/ SweepTransfer \/ FirstLoopDone \/ TellFailure \/ EraseTold
      \/ EraseQuietly \/ SecondLoopDone \/ HeadersDone \/ DataRest \/ TransferReturn
      \/ AuthFinish \/ AuthDrop \/ SyncProcess \/ SyncTicked \/ SyncReturn
      \/ RemoveTransportHandler \/ Finalize \/ Finalized \/ UNCHANGED vars
      => UNCHANGED appHandler
  BY DEF TimerFires, ClientReturn, StartNext, UriData, UriFinish, UriDone, FirstStartDone,
         PassDone, AuthTickDone, CallbackDone, SweepStep, SweepTransfer, FirstLoopDone,
         TellFailure, EraseTold, EraseQuietly, SecondLoopDone, HeadersDone, DataRest,
         TransferReturn, AuthFinish, AuthDrop, SyncProcess, SyncTicked, SyncReturn,
         RemoveTransportHandler, Finalize, Finalized, vars
<1> QED BY <1>1, <1>2, Zenon DEF Next, Outside, Inside

\* RemoveTransportHandler comes back when the pass has ended.
LEMMA RemovalOver ==
  ASSUME TypeOK, CallChain(stack), RemovalInv, At("removeHandler")
  PROVE  \A h \in Jobs : ~job[h].viaApp
<1>1. /\ stack \in Seq(FrameType) /\ stack # << >> /\ Top = stack[1]
      /\ stack[1].at = "removeHandler"
  BY AtChain
<1>2. Tail(stack) = << >>
  BY <1>1, Outermost DEF OutermostLabel
<1>3. Len(stack) = 1
  <2>1. Len(Tail(stack)) = Len(stack) - 1 /\ Len(stack) \in Nat
    BY <1>1, Popped
  <2>2. Len(<< >>) = 0
    OBVIOUS
  <2>3. Len(stack) - 1 = 0
    BY <1>2, <2>1, <2>2, Zenon
  <2> QED BY <2>1, <2>3
<1> QED BY <1>1, <1>3 DEF RemovalInv, Bottom

\* A job of the handler is made while the handler is there.
LEMMA HandlerJobs ==
  ASSUME IInv, CallChain(stack), "cache" \notin Kinds, RemovalInv, [Next]_vars,
         NEW h \in Jobs', job'[h].viaApp
  PROVE  appHandler' /\ job'[h].kind = "http"
<1>0. TypeOK /\ h \in Handle /\ job'[h].state # "None"
  BY DEF IInv, Jobs
<1>1. CASE h \in Jobs
  <2>1. SameIdentity(h)
    BY <1>0, <1>1, JobMoves DEF JobMove
  <2>2. appHandler /\ job[h].viaApp /\ job'[h].kind = "http"
    BY <1>1, <2>1 DEF SameIdentity, RemovalInv
  <2>3. ~TransportHandlerRemoved
    BY <1>0, <1>1, <2>2, RemovalOver DEF TransportHandlerRemoved
  <2> QED BY <2>2, <2>3, HandlerSteps
<1>2. CASE h \notin Jobs
  <2>1. JobAdded(h)
    BY <1>0, <1>2, JobsAdded
  <2>2. appHandler /\ job'[h].kind \in Kinds /\ job'[h].kind # "file"
    BY <2>1 DEF JobAdded
  <2>3. job'[h].kind = "http"
    BY <2>2, ParameterAssumption
  <2>4. UNCHANGED appHandler
    BY <2>1 DEF JobAdded, StartNext, SyncStart
  <2> QED BY <2>2, <2>3, <2>4
<1> QED BY <1>1, <1>2

\* A job of the handler stays condemned while its removal goes on.
LEMMA RemovalGoesOn ==
  ASSUME IInv, CallChain(stack), SyncHandle = {}, RemovalInv, [Next]_vars,
         Len(stack) >= 2, Bottom(stack).at = "removeHandler",
         NEW h \in Jobs', job'[h].viaApp
  PROVE  h \in Jobs /\ job[h].viaApp /\ job[h].state = "Remove" /\ job'[h].state = "Remove"
<1>0. /\ TypeOK /\ h \in Handle /\ job'[h].state # "None"
      /\ stack \in Seq(FrameType) /\ stack # << >>
  <2>1. Len(<< >>) = 0
    OBVIOUS
  <2>2. Len(stack) # 0
    BY DEF IInv, TypeOK
  <2>3. stack # << >>
    BY <2>1, <2>2, Zenon
  <2> QED BY <2>3 DEF IInv, TypeOK, Jobs
<1>1. h \in Jobs
  <2> SUFFICES ASSUME h \notin Jobs PROVE FALSE
    OBVIOUS
  <2>1. StartNext \/ SyncStart(h)
    BY <1>0, JobsAdded DEF JobAdded
  <2>2. ~SyncStart(h)
    BY DEF SyncStart
  <2>3. Tail(stack) = << >>
    BY <1>0, <2>1, <2>2, StartNextOutermost
  <2>4. Len(Tail(stack)) = Len(stack) - 1 /\ Len(stack) \in Nat
    BY <1>0, Popped
  <2>5. Len(<< >>) = 0
    OBVIOUS
  <2>6. Len(stack) - 1 = 0
    BY <2>3, <2>4, <2>5, Zenon
  <2>7. Len(stack) = 1
    BY <2>4, <2>6
  <2> QED BY <2>7
<1>2. JobMove(h) /\ SameIdentity(h)
  BY <1>0, <1>1, JobMoves DEF JobMove
<1>3. job[h].viaApp /\ job[h].state = "Remove"
  BY <1>0, <1>1, <1>2 DEF SameIdentity, RemovalInv
<1>4. ~Transferred(h)
  <2> SUFFICES ASSUME Transferred(h) PROVE FALSE
    OBVIOUS
  <2>1. At("transfer") /\ Top.h = h
    BY DEF Transferred, TransferReturn
  <2>2. 1 \in 1..Len(stack) /\ stack[1].at = "transfer" /\ stack[1].h = h
    BY <1>0, <2>1, AtChain
  <2> QED BY <1>0, <1>3, <2>2 DEF RemovalInv
<1>5. ~Swept(h)
  BY <1>3 DEF Swept
<1> QED BY <1>0, <1>1, <1>2, <1>3, <1>4, <1>5 DEF JobMove, SameProgress, Failed, Doomed

\* The pass of RemoveTransportHandler ends when no condemned job is left.
LEMMA RemovalPassEnds ==
  ASSUME IInv, IInv', CallChain(stack), SyncHandle = {}, LoopInv, CondemnedSeen, RemovalInv,
         [Next]_vars, Len(stack) >= 2, Bottom(stack).at = "removeHandler",
         Len(stack') = 1, NEW h \in Jobs', job'[h].viaApp
  PROVE  FALSE
<1>1. h \in Jobs /\ job[h].state = "Remove"
  BY RemovalGoesOn
<1>2. TypeOK /\ stack \in Seq(FrameType) /\ stack' \in Seq(FrameType) /\ Len(stack) \in Nat
      /\ stack # << >>
  <2>1. Len(<< >>) = 0
    OBVIOUS
  <2>2. Len(stack) # 0
    BY DEF IInv, TypeOK
  <2>3. stack # << >>
    BY <2>1, <2>2, Zenon
  <2> QED BY <2>3 DEF IInv, TypeOK
<1>3. ~UNCHANGED stack /\ Return /\ Len(stack) = 2 /\ Top = stack[1]
  <2>1. \A n \in Nat : n >= 2 => n # 1 /\ ~(1 >= n)
    OBVIOUS
  <2>2. Len(stack) # 1 /\ ~(1 >= Len(stack))
    BY <1>2, <2>1, Zenon
  <2>3. ~(Len(stack') >= Len(stack))
    BY <2>2, Zenon
  <2>4. ~UNCHANGED stack
    <3> SUFFICES ASSUME stack' = stack PROVE FALSE
      OBVIOUS
    <3>1. Len(stack') = Len(stack)
      BY Zenon
    <3> QED BY <2>2, <3>1, Zenon
  <2>5. Return
    BY <1>2, <2>3, <2>4, NewTop
  <2>6. Len(Tail(stack)) = Len(stack) - 1
    BY <1>2, Popped
  <2>7. Len(stack) - 1 = 1
    BY <2>5, <2>6, Zenon DEF Return
  <2>8. \A n \in Nat : n - 1 = 1 => n = 2
    OBVIOUS
  <2>9. Len(stack) = 2
    BY <1>2, <2>7, <2>8, Zenon
  <2>10. Top = stack[1]
    BY <1>2, Popped DEF Top
  <2> QED BY <2>4, <2>5, <2>9, <2>10, Zenon
<1>4. stack[1].at \in {"sweep1", "sweep2"}
  <2>1. 1 \in 1..(Len(stack) - 1) /\ stack[1 + 1].at = "removeHandler"
    BY <1>3 DEF Bottom
  <2>2. OtherCall("removeHandler", stack[1].at) \/ OwnCallback("removeHandler", stack[1].at)
    BY <2>1 DEF CallChain
  <2> QED BY <2>2 DEF OtherCall, OwnCallback, ScriptLabel
<1>5. ~UNCHANGED vars
  BY <1>3 DEF vars
<1>6. ~HasSync(stack)
  BY NeverSync
<1>7. CASE stack[1].at = "sweep1"
  <2>1. SweepStep \/ SweepTransfer \/ FirstLoopDone
    BY <1>2, <1>3, <1>5, <1>7, Acting DEF Idle, FrameStep, ClientLabel, ScriptLabel
  <2>2. ~HasLoop(stack)
    <3>1. ASSUME NEW k \in 1..Len(stack), stack[k].at = "sweep2" PROVE FALSE
      <4>1. Top.at \in LoopLabel
        BY <1>2, <1>6, <3>1, LoopBelow
      <4> QED BY <1>3, <1>7, <4>1 DEF LoopLabel
    <3> QED BY <3>1 DEF HasLoop
  <2>3. condemned
    BY <1>1, <2>2 DEF CondemnedSeen, HasLoop
  <2>4. PICK f, g \in FrameType : Become(f) \/ CallThen(g, f)
    <3>1. \A i \in Handle : job[i].id \in Nat
      BY <1>2 DEF TypeOK, JobInfo
    <3>2. /\ \A n \in Nat : [Top EXCEPT !.n = n] \in FrameType
          /\ \A i \in Handle : Frame("transfer", i) \in FrameType
          /\ Frame("sweep2", NoHandle) \in FrameType
      BY <1>2, <1>3, HandleFrameTyped, PlainFrameTyped, FrameUpdate, Popped DEF TypeOK
    <3>3. CASE SweepStep
      BY <3>1, <3>2, <3>3 DEF SweepStep
    <3>4. CASE SweepTransfer
      BY <3>1, <3>2, <3>4 DEF SweepTransfer
    <3>5. CASE FirstLoopDone
      BY <2>3, <3>2, <3>5 DEF FirstLoopDone
    <3> QED BY <2>1, <3>3, <3>4, <3>5
  <2>5. Tail(stack) \in Seq(FrameType) /\ Len(Tail(stack)) = 1
    BY <1>2, <1>3, Popped
  <2>6. CASE Become(f)
    <3>1. stack' = <<f>> \o Tail(stack)
      BY <2>6 DEF Become
    <3> QED BY <2>5, <3>1, Pushed
  <2>7. CASE CallThen(g, f)
    <3> DEFINE r == <<f>> \o Tail(stack)
    <3>1. stack' = <<g>> \o r
      BY <2>5, <2>7, PushedTwo DEF CallThen
    <3>2. r \in Seq(FrameType) /\ Len(r) = 2
      BY <2>5, Pushed
    <3> HIDE DEF r
    <3> QED BY <3>1, <3>2, Pushed
  <2> QED BY <2>4, <2>6, <2>7
<1>8. CASE stack[1].at = "sweep2"
  <2>1. HasLoop(stack)
    BY <1>3, <1>8 DEF HasLoop
  <2>2. ~HasLoop(stack')
    <3>1. stack'[1] = stack[2] /\ stack[2].at = "removeHandler"
      BY <1>2, <1>3, Popped DEF Return, Bottom
    <3> QED BY <3>1 DEF HasLoop
  <2>3. SecondLoopDone
    BY <1>6, <2>1, <2>2, LoopLeaves
  <2>4. At("sweep2") /\ Ahead(TRUE) = {}
    BY <2>3 DEF SecondLoopDone
  <2> QED BY <1>1, <1>6, <2>4, AllAhead
<1> QED BY <1>4, <1>7, <1>8

\* RemoveTransportHandler condemns the jobs of the handler and starts its pass.
LEMMA RemovalBegins ==
  ASSUME IInv, RemovalInv, RemoveTransportHandler
  PROVE  /\ \A h \in Jobs' : job'[h].viaApp => job'[h].state = "Remove"
         /\ Len(stack') = 2
         /\ \A k \in 1..Len(stack') : stack'[k].at # "transfer"
<1>1. ASSUME NEW h \in Jobs', job'[h].viaApp PROVE job'[h].state = "Remove"
  <2>0. h \in Handle /\ job'[h].state # "None" /\ job \in [Handle -> JobInfo]
    BY DEF Jobs, IInv, TypeOK
  <2>1. CASE h \in Jobs /\ Depends(h)
    BY <2>0, <2>1 DEF RemoveTransportHandler, Condemn, JobInfo
  <2>2. CASE h \notin Jobs \/ ~Depends(h)
    <3>1. job'[h] = job[h]
      BY <2>0, <2>2 DEF RemoveTransportHandler, Condemn
    <3> QED BY <1>1, <2>0, <2>2, <3>1 DEF Jobs, RemovalInv, Depends
  <2> QED BY <2>1, <2>2
<1>2. stack' = <<Frame("sweep1", NoHandle), Frame("removeHandler", NoHandle)>>
  BY DEF RemoveTransportHandler
<1>3. Frame("sweep1", NoHandle).at = "sweep1"
      /\ Frame("removeHandler", NoHandle).at = "removeHandler"
  BY DEF Frame
<1> QED BY <1>1, <1>2, <1>3

\* No job of the handler is transferred while its removal goes on.
LEMMA RemovalTransfers ==
  ASSUME IInv, IInv', CallChain(stack), SyncHandle = {}, RemovalInv, [Next]_vars,
         Len(stack) >= 2, Bottom(stack).at = "removeHandler",
         NEW k \in 1..Len(stack'), stack'[k].at = "transfer"
  PROVE  ~job'[stack'[k].h].viaApp
<1>0. /\ TypeOK /\ StackInv(stack, job) /\ job \in [Handle -> JobInfo]
      /\ stack \in Seq(FrameType) /\ stack' \in Seq(FrameType)
      /\ HeldJobs(stack', job')
  BY DEF IInv, TypeOK, StackInv
<1>1. PICK g \in Handle : g = stack'[k].h
  BY <1>0 DEF FrameType, PlainLabel
<1>2. g \in Jobs'
  BY <1>0, <1>1 DEF HeldJobs, Holder, Jobs
<1>3. SUFFICES ASSUME job'[g].viaApp PROVE FALSE
  BY <1>1
<1>4. g \in Jobs /\ job[g].viaApp /\ job[g].state = "Remove"
  BY <1>2, <1>3, RemovalGoesOn
<1>5. ASSUME NEW j \in 1..Len(stack), stack[j].at = "transfer" PROVE stack[j].h # g
  BY <1>0, <1>4, <1>5 DEF RemovalInv
<1>6. CASE stack'[k] \in NewFrames
  <2>1. TransferFrame(stack'[k])
    BY <1>6 DEF NewFrames, NewFrame
  <2>2. ~(SweepTransfer /\ IsNext(g, FALSE) /\ job[g].state = "Transfer")
    BY <1>4
  <2>3. At("transfer") /\ g = Top.h
    BY <1>1, <2>1, <2>2 DEF TransferFrame
  <2>4. stack # << >> /\ Top = stack[1] /\ stack[1].at = "transfer" /\ 1 \in 1..Len(stack)
    BY <1>0, <2>3, AtInv, LenProperties
  <2> QED BY <1>5, <2>3, <2>4
<1>7. CASE \E j \in 1..Len(stack) : stack'[k] = stack[j]
  BY <1>1, <1>5, <1>7
<1> QED BY <1>0, <1>6, <1>7, FrameOrigin

LEMMA RemovalStep ==
  ASSUME IInv, IInv', CallChain(stack), CallChain(stack'), SyncHandle = {},
         "cache" \notin Kinds, LoopInv, CondemnedSeen, RemovalInv, [Next]_vars
  PROVE  RemovalInv'
<1>0. /\ TypeOK /\ stack \in Seq(FrameType) /\ stack' \in Seq(FrameType)
      /\ Len(stack) \in Nat /\ Len(stack') \in Nat
  BY LenProperties DEF IInv, TypeOK
<1>1. \A h \in Jobs' : job'[h].viaApp => appHandler' /\ job'[h].kind = "http"
  BY HandlerJobs
<1> SUFFICES ASSUME stack' # << >>, Bottom(stack').at = "removeHandler"
             PROVE  /\ \A h \in Jobs' : job'[h].viaApp => job'[h].state = "Remove" /\ Len(stack') # 1
                    /\ \A k \in 1..Len(stack') : stack'[k].at = "transfer" => ~job'[stack'[k].h].viaApp
  BY <1>1 DEF RemovalInv, Bottom
<1>2. CASE stack = << >>
  <2>1. RemoveTransportHandler
    BY <1>0, <1>2, BottomBegins
  <2>2. /\ \A h \in Jobs' : job'[h].viaApp => job'[h].state = "Remove"
        /\ Len(stack') = 2
        /\ \A k \in 1..Len(stack') : stack'[k].at # "transfer"
    BY <2>1, RemovalBegins
  <2> QED BY <2>2
<1>3. CASE stack # << >> /\ Tail(stack) = << >>
  <2>1. BottomGoesOn(Bottom(stack'))
    BY <1>0, <1>3, BottomMoves
  <2>2. Top.at = "removeHandler"
    BY <2>1 DEF BottomGoesOn, StartNext, At
  <2>3. UNCHANGED vars \/ TransportHandlerRemoved
    BY <1>0, <1>3, <2>2, Acting DEF Idle, FrameStep, ClientLabel, ScriptLabel
  <2>4. ~TransportHandlerRemoved
    BY <1>3 DEF TransportHandlerRemoved, Return
  <2>5. UNCHANGED <<stack, job>>
    BY <2>3, <2>4 DEF vars
  <2> QED BY <2>5 DEF RemovalInv, Jobs, Bottom
<1>4. CASE stack # << >> /\ Tail(stack) # << >>
  <2>1. Len(stack) >= 2
    <3>1. Len(Tail(stack)) = Len(stack) - 1 /\ Tail(stack) \in Seq(FrameType)
      BY <1>0, <1>4, Popped
    <3>2. Len(Tail(stack)) # 0 /\ Len(Tail(stack)) \in Nat
      BY <1>4, <3>1, EmptySeq, LenProperties
    <3> QED BY <1>0, <3>1, <3>2
  <2>2. Bottom(stack).at = "removeHandler"
    BY <1>0, <2>1, BottomStays
  <2>3. ASSUME NEW h \in Jobs', job'[h].viaApp
        PROVE  job'[h].state = "Remove" /\ Len(stack') # 1
    BY <2>1, <2>2, <2>3, RemovalGoesOn, RemovalPassEnds
  <2>4. ASSUME NEW k \in 1..Len(stack'), stack'[k].at = "transfer"
        PROVE  ~job'[stack'[k].h].viaApp
    BY <2>1, <2>2, <2>4, RemovalTransfers
  <2> QED BY <2>3, <2>4
<1> QED BY <1>2, <1>3, <1>4

\* Once RemoveTransportHandler has returned, no job refers to the handler: the
\* pass it makes erases every job of the handler, also those that clients give
\* up or restart meanwhile. With a disk cache this fails, as the run of the
\* removal with a cache shows, so "cache" is excluded.
THEOREM RemovedHandlerUnused ==
  ASSUME SyncHandle = {}, "cache" \notin Kinds
  PROVE  Spec => []NoRemovedHandlerUsed
<1>1. IInv /\ IInv' /\ OwnerInv /\ OwnerInv' /\ LoopInv /\ CondemnedSeen /\ RemovalInv
        /\ [Next]_vars => RemovalInv'
  BY RemovalStep DEF OwnerInv
<1>2. Init => RemovalInv
  BY DEF Init, RemovalInv, Jobs, NoJob
<1>3. RemovalInv => NoRemovedHandlerUsed
  BY DEF RemovalInv, NoRemovedHandlerUsed
<1> QED BY <1>1, <1>2, <1>3, Invariant, OwnerInvariant, SeenInvariant, PTL DEF Spec
=============================================================================
