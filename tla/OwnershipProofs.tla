---------------------------- MODULE OwnershipProofs ----------------------------
(***************************************************************************)
(* Theorems about who holds what: every reference to a ResourceHandle has  *)
(* its one owner (RefsMatchOwners).                                        *)
(*                                                                         *)
(* They rest on which function may have called which (CallChain): a frame  *)
(* of downloadTimerCallback, RemoveTransportHandler or staticFinalize can  *)
(* only be the outermost one, so that nothing it is in the middle of is    *)
(* started a second time above it.                                         *)
(***************************************************************************)
EXTENDS ReentrancyProofs

-----------------------------------------------------------------------------
(* Who calls whom *)

\* Frames that a call from the outside, or the timer, may begin with, and
\* what they go on as.
OutsideLabel ==
  {"start1", "afterPass", "auth", "start2", "removeHandler", "finalize",
   "headersDone", "redirect", "sync"}

AuthLabel == {"authFinish", "authDrop"}

\* Callbacks for the load that the caller works for.
OwnCallback(f, g) ==
  \/ f = "transfer" /\ g \in {"headersDone", "redirect", "dataRest", "data", "finish"}
  \/ f \in {"headersDone", "dataRest", "uriData", "authFinish"} /\ g = "response"
  \/ f = "uriFinish" /\ g = "data"
  \/ f \in {"uriDone", "authDrop"} /\ g = "finish"
  \/ f = "dispose" /\ g = "fail"

\* Calls in which the handle is another one, or there is none.
OtherCall(f, g) ==
  \/ f \in {"afterPass", "sync", "removeHandler", "finalize"} /\ g \in {"sweep1", "sweep2"}
  \/ f = "sweep1" /\ g = "transfer"
  \/ f = "sweep2" /\ g = "dispose"
  \/ f = "auth" /\ g \in AuthLabel
  \/ f \in {"start1", "start2"} /\ g \in UriLabel
  \/ f \in ScriptLabel /\ g = "sync"
  \/ f = "sync" /\ g \in {"headersDone", "redirect"}

\* May the code on top of stack s call the code of frame f?
MayCall(s, f) ==
  IF s = << >> THEN f.at \in OutsideLabel
  ELSE OtherCall(s[1].at, f.at) \/ (OwnCallback(s[1].at, f.at) /\ s[1].h = f.h)

\* A frame of a synchronous load, or of parseDataURI, is about such a handle.
OwnFrame(f) ==
  /\ f.at = "sync" => f.h \in SyncHandle
  /\ f.at \in UriLabel => f.h \in UriHandle

CallChain(s) ==
  /\ s # << >> => s[Len(s)].at \in OutsideLabel
  /\ \A k \in 1..(Len(s) - 1) :
       \/ OtherCall(s[k + 1].at, s[k].at)
       \/ OwnCallback(s[k + 1].at, s[k].at) /\ s[k + 1].h = s[k].h
  /\ \A k \in 1..Len(s) : OwnFrame(s[k])

\* OnStack, for any stack.
HandlesAt(s, labels) == {s[k].h : k \in {j \in 1..Len(s) : s[j].at \in labels}}

LEMMA ChainPushed ==
  ASSUME NEW s \in Seq(FrameType), NEW f \in FrameType, CallChain(s),
         MayCall(s, f), OwnFrame(f)
  PROVE  /\ CallChain(<<f>> \o s) /\ <<f>> \o s \in Seq(FrameType)
         /\ <<f>> \o s # << >> /\ (<<f>> \o s)[1] = f
<1> DEFINE t == <<f>> \o s
<1>1. /\ t \in Seq(FrameType) /\ Len(t) = Len(s) + 1 /\ Len(s) \in Nat /\ t[1] = f
      /\ \A k \in 1..Len(s) : t[k + 1] = s[k]
      /\ \A k \in 2..Len(t) : t[k] = s[k - 1]
  BY Pushed
<1> HIDE DEF t
<1>2. t # << >>
  BY <1>1
<1>e. s = << >> <=> Len(s) = 0
  BY EmptySeq
<1>3. t[Len(t)].at \in OutsideLabel
  <2>1. CASE Len(s) = 0
    BY <1>1, <1>e, <2>1 DEF MayCall
  <2>2. CASE Len(s) # 0
    <3>1. Len(t) \in 2..Len(t) /\ Len(t) - 1 = Len(s)
      BY <1>1, <2>2
    <3> QED BY <1>1, <1>e, <2>2, <3>1 DEF CallChain
  <2> QED BY <2>1, <2>2
<1>4. ASSUME NEW k \in 1..(Len(t) - 1)
      PROVE  \/ OtherCall(t[k + 1].at, t[k].at)
             \/ OwnCallback(t[k + 1].at, t[k].at) /\ t[k + 1].h = t[k].h
  <2>1. k \in 1..Len(s) /\ t[k + 1] = s[k]
    BY <1>1
  <2>2. CASE k = 1
    BY <1>1, <1>e, <2>1, <2>2 DEF MayCall
  <2>3. CASE k # 1
    <3>1. k - 1 \in 1..(Len(s) - 1) /\ t[k] = s[k - 1] /\ (k - 1) + 1 = k
      BY <1>1, <2>1, <2>3
    <3>2. \/ OtherCall(s[(k - 1) + 1].at, s[k - 1].at)
          \/ OwnCallback(s[(k - 1) + 1].at, s[k - 1].at) /\ s[(k - 1) + 1].h = s[k - 1].h
      BY <3>1 DEF CallChain
    <3> QED BY <2>1, <3>1, <3>2
  <2> QED BY <2>2, <2>3
<1>5. ASSUME NEW k \in 1..Len(t) PROVE OwnFrame(t[k])
  <2>1. CASE k = 1
    BY <1>1, <2>1
  <2>2. CASE k # 1
    <3>1. k - 1 \in 1..Len(s) /\ t[k] = s[k - 1]
      BY <1>1, <2>2
    <3> QED BY <3>1 DEF CallChain
  <2> QED BY <2>1, <2>2
<1>6. CallChain(t)
  BY <1>3, <1>4, <1>5 DEF CallChain
<1> QED BY <1>1, <1>2, <1>6 DEF t

LEMMA ChainPopped ==
  ASSUME NEW s \in Seq(FrameType), s # << >>, CallChain(s)
  PROVE  /\ CallChain(Tail(s)) /\ MayCall(Tail(s), s[1]) /\ OwnFrame(s[1])
         /\ Tail(s) \in Seq(FrameType)
<1> DEFINE t == Tail(s)
<1>1. /\ t \in Seq(FrameType) /\ Len(s) \in Nat /\ Len(s) >= 1
      /\ Len(t) = Len(s) - 1 /\ \A k \in 1..Len(t) : t[k] = s[k + 1]
  BY Popped
<1> HIDE DEF t
<1>e. t = << >> <=> Len(t) = 0
  BY <1>1, EmptySeq
<1>2. t # << >> => t[Len(t)].at \in OutsideLabel
  <2> HAVE t # << >>
  <2>1. Len(t) \in 1..Len(t) /\ Len(t) + 1 = Len(s)
    BY <1>1, <1>e
  <2> QED BY <1>1, <2>1 DEF CallChain
<1>3. ASSUME NEW k \in 1..(Len(t) - 1)
      PROVE  \/ OtherCall(t[k + 1].at, t[k].at)
             \/ OwnCallback(t[k + 1].at, t[k].at) /\ t[k + 1].h = t[k].h
  <2>1. /\ k + 1 \in 1..(Len(s) - 1) /\ k \in 1..Len(t) /\ k + 1 \in 1..Len(t)
        /\ t[k] = s[k + 1] /\ t[k + 1] = s[(k + 1) + 1]
    BY <1>1
  <2>2. \/ OtherCall(s[(k + 1) + 1].at, s[k + 1].at)
        \/ OwnCallback(s[(k + 1) + 1].at, s[k + 1].at) /\ s[(k + 1) + 1].h = s[k + 1].h
    BY <2>1 DEF CallChain
  <2> QED BY <2>1, <2>2
<1>4. ASSUME NEW k \in 1..Len(t) PROVE OwnFrame(t[k])
  BY <1>1 DEF CallChain
<1>5. OwnFrame(s[1])
  BY <1>1 DEF CallChain
<1>6. MayCall(t, s[1])
  <2>1. CASE t = << >>
    <3>1. Len(s) = 1
      BY <1>1, <1>e, <2>1
    <3> QED BY <2>1, <3>1 DEF CallChain, MayCall
  <2>2. CASE t # << >>
    <3>1. 1 \in 1..(Len(s) - 1) /\ 1 \in 1..Len(t) /\ t[1] = s[1 + 1]
      BY <1>1, <1>e, <2>2
    <3>2. \/ OtherCall(s[1 + 1].at, s[1].at)
          \/ OwnCallback(s[1 + 1].at, s[1].at) /\ s[1 + 1].h = s[1].h
      BY <3>1 DEF CallChain
    <3> QED BY <2>2, <3>1, <3>2 DEF MayCall
  <2> QED BY <2>1, <2>2
<1> QED BY <1>1, <1>2, <1>3, <1>4, <1>5, <1>6 DEF CallChain, t

LEMMA HandlesPushed ==
  ASSUME NEW s \in Seq(FrameType), NEW f \in FrameType, NEW labels
  PROVE  /\ f.at \in labels => HandlesAt(<<f>> \o s, labels) = HandlesAt(s, labels) \cup {f.h}
         /\ f.at \notin labels => HandlesAt(<<f>> \o s, labels) = HandlesAt(s, labels)
<1> DEFINE t == <<f>> \o s
<1>1. /\ Len(t) = Len(s) + 1 /\ Len(s) \in Nat /\ t[1] = f
      /\ \A k \in 1..Len(s) : t[k + 1] = s[k]
      /\ \A k \in 2..Len(t) : t[k] = s[k - 1]
  BY Pushed
<1> HIDE DEF t
<1>2. ASSUME NEW k \in 1..Len(t), t[k].at \in labels
      PROVE  (k = 1 /\ f.at \in labels /\ t[k].h = f.h) \/ t[k].h \in HandlesAt(s, labels)
  <2>1. CASE k = 1
    BY <1>1, <1>2, <2>1
  <2>2. CASE k # 1
    <3>1. k - 1 \in 1..Len(s) /\ t[k] = s[k - 1]
      BY <1>1, <2>2
    <3> QED BY <1>2, <3>1 DEF HandlesAt
  <2> QED BY <2>1, <2>2
<1>3. ASSUME NEW k \in 1..Len(s), s[k].at \in labels
      PROVE  s[k].h \in HandlesAt(t, labels)
  <2>1. k + 1 \in 1..Len(t) /\ t[k + 1] = s[k]
    BY <1>1
  <2> QED BY <1>3, <2>1 DEF HandlesAt
<1>4. f.at \in labels => f.h \in HandlesAt(t, labels)
  BY <1>1 DEF HandlesAt
<1>5. HandlesAt(s, labels) \subseteq HandlesAt(t, labels)
  BY <1>3 DEF HandlesAt
<1>6. HandlesAt(t, labels) \subseteq HandlesAt(s, labels)
                             \cup (IF f.at \in labels THEN {f.h} ELSE {})
  BY <1>2 DEF HandlesAt
<1> QED BY <1>4, <1>5, <1>6 DEF t

LEMMA HandlesPopped ==
  ASSUME NEW s \in Seq(FrameType), s # << >>, NEW labels
  PROVE  /\ s[1].at \in labels => HandlesAt(s, labels) = HandlesAt(Tail(s), labels) \cup {s[1].h}
         /\ s[1].at \notin labels => HandlesAt(s, labels) = HandlesAt(Tail(s), labels)
<1> DEFINE f == s[1]
           r == Tail(s)
           t == <<f>> \o r
<1>1. f \in FrameType /\ r \in Seq(FrameType)
  BY Popped
<1>2. t = s
  BY Popped
<1>3. /\ f.at \in labels => HandlesAt(t, labels) = HandlesAt(r, labels) \cup {f.h}
      /\ f.at \notin labels => HandlesAt(t, labels) = HandlesAt(r, labels)
  BY <1>1, HandlesPushed
<1> HIDE DEF t, f, r
<1>4. /\ f.at \in labels => HandlesAt(s, labels) = HandlesAt(r, labels) \cup {f.h}
      /\ f.at \notin labels => HandlesAt(s, labels) = HandlesAt(r, labels)
  BY <1>2, <1>3
<1> QED BY <1>4 DEF f, r

LEMMA HandlesEmpty == ASSUME NEW labels PROVE HandlesAt(<< >>, labels) = {}
<1>1. \A k : k \notin 1..Len(<< >>)
  OBVIOUS
<1> QED BY <1>1 DEF HandlesAt

\* The handles that parseDataURI and AuthenticationManager::Cancel work for.
UriHandles(s) == HandlesAt(s, UriLabel)
AuthHandles(s) == HandlesAt(s, AuthLabel)
SameHandles(s, t) == UriHandles(t) = UriHandles(s) /\ AuthHandles(t) = AuthHandles(s)

\* Frames below which there is nothing.
OutermostLabel == {"start1", "afterPass", "auth", "start2", "removeHandler", "finalize"}

LEMMA Outermost ==
  ASSUME NEW s \in Seq(FrameType), s # << >>, CallChain(s), s[1].at \in OutermostLabel
  PROVE  Tail(s) = << >> /\ UriHandles(s) = {} /\ AuthHandles(s) = {}
<1>1. MayCall(Tail(s), s[1])
  BY ChainPopped
<1>2. Tail(s) = << >>
  BY <1>1 DEF MayCall, OutermostLabel, OtherCall, OwnCallback, AuthLabel, UriLabel
<1>3. s[1].at \notin UriLabel /\ s[1].at \notin AuthLabel
  BY DEF OutermostLabel, AuthLabel, UriLabel
<1> QED BY <1>2, <1>3, HandlesPopped, HandlesEmpty DEF UriHandles, AuthHandles

\* A frame may be pushed only once that parses a data: URI, or gives up a
\* load of the AuthenticationManager.
LEMMA OnceOnly ==
  ASSUME NEW s \in Seq(FrameType), CallChain(s), NEW f \in FrameType, MayCall(s, f),
         f.at \in UriLabel \cup AuthLabel
  PROVE  s # << >> /\ UriHandles(s) = {} /\ AuthHandles(s) = {}
<1>1. s # << >> /\ s[1].at \in OutermostLabel
  BY DEF MayCall, OtherCall, OwnCallback, OutsideLabel, OutermostLabel, AuthLabel,
         UriLabel, ScriptLabel
<1> QED BY <1>1, Outermost

\* An ordinary frame is pushed, popped or replaced.
OrdinaryFrame(f) == f.at \notin UriLabel \cup AuthLabel

LEMMA PushStep ==
  ASSUME NEW s \in Seq(FrameType), NEW f \in FrameType, CallChain(s),
         MayCall(s, f), OwnFrame(f), OrdinaryFrame(f)
  PROVE  /\ CallChain(<<f>> \o s) /\ SameHandles(s, <<f>> \o s)
         /\ <<f>> \o s \in Seq(FrameType)
         /\ <<f>> \o s # << >> /\ (<<f>> \o s)[1] = f
BY ChainPushed, HandlesPushed DEF SameHandles, UriHandles, AuthHandles, OrdinaryFrame

LEMMA PopStep ==
  ASSUME NEW s \in Seq(FrameType), s # << >>, CallChain(s), OrdinaryFrame(s[1])
  PROVE  CallChain(Tail(s)) /\ SameHandles(s, Tail(s))
BY ChainPopped, HandlesPopped DEF SameHandles, UriHandles, AuthHandles, OrdinaryFrame

LEMMA ReplaceStep ==
  ASSUME NEW s \in Seq(FrameType), s # << >>, CallChain(s), OrdinaryFrame(s[1]),
         NEW f \in FrameType, MayCall(Tail(s), s[1]) => MayCall(Tail(s), f),
         OwnFrame(f), OrdinaryFrame(f)
  PROVE  /\ CallChain(<<f>> \o Tail(s)) /\ SameHandles(s, <<f>> \o Tail(s))
         /\ <<f>> \o Tail(s) \in Seq(FrameType)
         /\ <<f>> \o Tail(s) # << >> /\ (<<f>> \o Tail(s))[1] = f
<1> DEFINE r == Tail(s)
<1>1. /\ CallChain(r) /\ MayCall(r, f) /\ r \in Seq(FrameType)
      /\ SameHandles(s, r)
  BY ChainPopped, PopStep
<1> HIDE DEF r
<1>2. /\ CallChain(<<f>> \o r) /\ SameHandles(r, <<f>> \o r)
      /\ <<f>> \o r \in Seq(FrameType)
      /\ <<f>> \o r # << >> /\ (<<f>> \o r)[1] = f
  BY <1>1, PushStep
<1>3. SameHandles(s, <<f>> \o r)
  BY <1>1, <1>2 DEF SameHandles
<1> QED BY <1>2, <1>3 DEF r

\* A frame of parseDataURI, or of AuthenticationManager::Cancel, goes on as
\* another one, for the same handle.
LEMMA GoOnStep ==
  ASSUME NEW s \in Seq(FrameType), s # << >>, CallChain(s), NEW f \in FrameType,
         \/ s[1].at \in UriLabel /\ f.at \in UriLabel
         \/ s[1].at \in AuthLabel /\ f.at \in AuthLabel,
         f.h = s[1].h
  PROVE  /\ CallChain(<<f>> \o Tail(s)) /\ SameHandles(s, <<f>> \o Tail(s))
         /\ <<f>> \o Tail(s) \in Seq(FrameType)
         /\ <<f>> \o Tail(s) # << >> /\ (<<f>> \o Tail(s))[1] = f
<1> DEFINE r == Tail(s)
<1>1. CallChain(r) /\ MayCall(r, s[1]) /\ r \in Seq(FrameType) /\ OwnFrame(s[1])
  BY ChainPopped
<1>2. /\ UriHandles(s) = IF s[1].at \in UriLabel THEN UriHandles(r) \cup {f.h} ELSE UriHandles(r)
      /\ AuthHandles(s) = IF s[1].at \in AuthLabel THEN AuthHandles(r) \cup {f.h} ELSE AuthHandles(r)
  BY HandlesPopped DEF UriHandles, AuthHandles
<1> HIDE DEF r
<1>3. OwnFrame(f) /\ MayCall(r, f)
  BY <1>1 DEF OwnFrame, MayCall, OtherCall, OwnCallback, OutsideLabel, UriLabel,
              AuthLabel, ScriptLabel
<1>4. /\ CallChain(<<f>> \o r) /\ <<f>> \o r \in Seq(FrameType)
      /\ <<f>> \o r # << >> /\ (<<f>> \o r)[1] = f
  BY <1>1, <1>3, ChainPushed
<1>5. /\ UriHandles(<<f>> \o r) = IF f.at \in UriLabel THEN UriHandles(r) \cup {f.h} ELSE UriHandles(r)
      /\ AuthHandles(<<f>> \o r) = IF f.at \in AuthLabel THEN AuthHandles(r) \cup {f.h} ELSE AuthHandles(r)
  <2>1. ASSUME NEW labels
        PROVE  HandlesAt(<<f>> \o r, labels)
                 = IF f.at \in labels THEN HandlesAt(r, labels) \cup {f.h} ELSE HandlesAt(r, labels)
    <3>1. CASE f.at \in labels
      BY <1>1, <3>1, HandlesPushed
    <3>2. CASE f.at \notin labels
      BY <1>1, <3>2, HandlesPushed
    <3> QED BY <3>1, <3>2
  <2> QED BY <2>1 DEF UriHandles, AuthHandles
<1>6. (s[1].at \in UriLabel <=> f.at \in UriLabel) /\ (s[1].at \in AuthLabel <=> f.at \in AuthLabel)
  BY DEF UriLabel, AuthLabel
<1>7. SameHandles(s, <<f>> \o r)
  BY <1>2, <1>5, <1>6 DEF SameHandles
<1> QED BY <1>4, <1>7 DEF r
-----------------------------------------------------------------------------
(* The call stack, step by step *)

\* What the chain says when the frame on top is at l.
LEMMA AtChain ==
  ASSUME TypeOK, CallChain(stack), NEW l, At(l)
  PROVE  /\ stack \in Seq(FrameType) /\ stack # << >> /\ Tail(stack) \in Seq(FrameType)
         /\ Top = stack[1] /\ stack[1].at = l /\ Top \in FrameType
         /\ CallChain(Tail(stack)) /\ MayCall(Tail(stack), Top) /\ OwnFrame(Top)
         /\ l \in HandleLabel => Top.h \in Handle
<1>1. stack \in Seq(FrameType)
  BY DEF TypeOK
<1>2. /\ stack # << >> /\ Tail(stack) \in Seq(FrameType) /\ Top \in FrameType
      /\ Top.at = l
  BY <1>1, AtTyped
<1>3. Top = stack[1]
  BY <1>1, <1>2, Popped DEF Top
<1>4. l \in HandleLabel => Top.h \in Handle
  BY <1>1, AtHandle
<1> QED BY <1>1, <1>2, <1>3, <1>4, ChainPopped

LEMMA ReturnChain ==
  ASSUME TypeOK, CallChain(stack), NEW l, At(l), l \notin UriLabel \cup AuthLabel, Return
  PROVE  CallChain(stack') /\ SameHandles(stack, stack')
BY AtChain, PopStep DEF Return, OrdinaryFrame

\* The top frame changes its locals, or goes on as another one that the same
\* frames may call.
LEMMA BecomeChain ==
  ASSUME TypeOK, CallChain(stack), NEW l, At(l), l \notin UriLabel \cup AuthLabel,
         NEW f \in FrameType, Become(f),
         OwnFrame(f), OrdinaryFrame(f),
         \/ f.at = l /\ f.h = Top.h
         \/ l \in OutermostLabel /\ f.at \in OutermostLabel
         \/ l = "sweep1" /\ f.at = "sweep2"
         \/ l = "dataRest" /\ f.at = "data" /\ f.h = Top.h
  PROVE  CallChain(stack') /\ SameHandles(stack, stack')
<1>1. MayCall(Tail(stack), stack[1]) => MayCall(Tail(stack), f)
  BY AtChain DEF MayCall, OtherCall, OwnCallback, OutsideLabel, OutermostLabel,
     AuthLabel, UriLabel, ScriptLabel
<1>2. OrdinaryFrame(stack[1])
  BY AtChain DEF OrdinaryFrame
<1> QED BY <1>1, <1>2, AtChain, ReplaceStep DEF Become

\* So does it, after a call.
LEMMA CallThenChain ==
  ASSUME TypeOK, CallChain(stack), NEW l, At(l),
         NEW f \in FrameType, NEW g \in FrameType, CallThen(g, f),
         OwnFrame(f), OrdinaryFrame(g), OwnFrame(g),
         \/ /\ l \notin UriLabel \cup AuthLabel
            /\ OrdinaryFrame(f)
            /\ \/ f.at = l /\ f.h = Top.h
               \/ l \in OutermostLabel /\ f.at \in OutermostLabel
         \/ l \in UriLabel /\ f.at \in UriLabel /\ f.h = Top.h
         \/ l \in AuthLabel /\ f.at \in AuthLabel /\ f.h = Top.h,
         OtherCall(f.at, g.at) \/ (OwnCallback(f.at, g.at) /\ f.h = g.h)
  PROVE  CallChain(stack') /\ SameHandles(stack, stack')
<1> DEFINE r == <<f>> \o Tail(stack)
<1>1. CallChain(r) /\ SameHandles(stack, r) /\ r \in Seq(FrameType) /\ r # << >> /\ r[1] = f
  <2>1. CASE l \notin UriLabel \cup AuthLabel
    <3>1. MayCall(Tail(stack), stack[1]) => MayCall(Tail(stack), f)
      BY <2>1, AtChain DEF MayCall, OtherCall, OwnCallback, OutsideLabel, OutermostLabel,
         AuthLabel, UriLabel, ScriptLabel
    <3>2. OrdinaryFrame(stack[1]) /\ OrdinaryFrame(f)
      BY <2>1, AtChain DEF OrdinaryFrame
    <3> QED BY <3>1, <3>2, AtChain, ReplaceStep
  <2>2. CASE l \in UriLabel \cup AuthLabel
    BY <2>2, AtChain, GoOnStep
  <2> QED BY <2>1, <2>2
<1>2. stack' = <<g>> \o r
  BY AtChain, PushedTwo DEF CallThen
<1> HIDE DEF r
<1>3. MayCall(r, g)
  BY <1>1 DEF MayCall
<1>4. CallChain(<<g>> \o r) /\ SameHandles(r, <<g>> \o r)
  BY <1>1, <1>3, PushStep
<1> QED BY <1>1, <1>2, <1>4 DEF SameHandles
\* What the chain becomes in all steps but those that begin or end the work of
\* parseDataURI or of AuthenticationManager::Cancel for a handle.
LEMMA ChainSame ==
  ASSUME TypeOK, CallChain(stack), [Next]_vars,
         ~StartNext, ~UriDone, ~AuthDrop, \A h \in Handle : ~AuthCancel(h)
  PROVE  CallChain(stack') /\ SameHandles(stack, stack')
<1> DEFINE R == CallChain(stack') /\ SameHandles(stack, stack')
<1>f. ASSUME NEW l, At(l)
      PROVE  /\ \A n \in Nat : LET f == [Top EXCEPT !.n = n] IN
                  f \in FrameType /\ f.at = l /\ f.h = Top.h
             /\ \A b \in BOOLEAN : LET f == [Top EXCEPT !.b = b] IN
                  f \in FrameType /\ f.at = l /\ f.h = Top.h
  BY <1>f, AtChain, FrameUpdate DEF FrameType
<1>o. ASSUME NEW l, At(l), NEW f, f.at = l, f.h = Top.h PROVE OwnFrame(f)
  BY <1>o, AtChain DEF OwnFrame
<1>j. \A h \in Handle : job[h].id \in Nat
  BY DEF TypeOK, JobInfo
<1>h. \A l \in HandleLabel, h \in Handle :
        /\ Frame(l, h) \in FrameType /\ Frame(l, h).at = l /\ Frame(l, h).h = h
        /\ l \notin UriLabel \cup {"sync"} => OwnFrame(Frame(l, h))
        /\ l \notin UriLabel \cup AuthLabel => OrdinaryFrame(Frame(l, h))
  BY DEF Frame, FrameType, OwnFrame, OrdinaryFrame
<1>p. \A l \in PlainLabel :
        /\ Frame(l, NoHandle) \in FrameType /\ Frame(l, NoHandle).at = l
        /\ OwnFrame(Frame(l, NoHandle)) /\ OrdinaryFrame(Frame(l, NoHandle))
  BY DEF Frame, FrameType, OwnFrame, OrdinaryFrame, PlainLabel, UriLabel, AuthLabel
<1>s. stack \in Seq(FrameType)
  BY DEF TypeOK
<1>1. CASE UNCHANGED stack
  BY <1>1 DEF SameHandles
<1>2. ASSUME NEW l, At(l), l \notin UriLabel \cup AuthLabel, Return PROVE R
  BY <1>2, ReturnChain
<1>3. ASSUME NEW l, At(l), l \notin UriLabel \cup AuthLabel,
             \/ \E n \in Nat : Become([Top EXCEPT !.n = n])
             \/ \E b \in BOOLEAN : Become([Top EXCEPT !.b = b])
      PROVE  R
  <2>1. PICK f \in FrameType : f.at = l /\ f.h = Top.h /\ Become(f)
    BY <1>3, <1>f
  <2>2. OwnFrame(f) /\ OrdinaryFrame(f)
    BY <1>3, <1>o, <2>1 DEF OrdinaryFrame
  <2> QED BY <1>3, <2>1, <2>2, BecomeChain
<1>4. ASSUME NEW h \in Handle, At("transfer"), Top.h = h, NEW n \in Nat,
             NEW g \in FrameType, g.h = h, OwnFrame(g), OrdinaryFrame(g),
             g.at \in {"data", "finish", "dataRest"},
             CallThen(g, [Top EXCEPT !.n = n])
      PROVE  R
  <2> DEFINE f == [Top EXCEPT !.n = n]
  <2>1. f \in FrameType /\ f.at = "transfer" /\ f.h = Top.h
    BY <1>4, <1>f
  <2>2. OwnFrame(f) /\ OrdinaryFrame(f)
    BY <1>4, <1>o, <2>1 DEF OrdinaryFrame, UriLabel, AuthLabel
  <2> HIDE DEF f
  <2>3. OwnCallback(f.at, g.at) /\ f.h = g.h
    BY <1>4, <2>1 DEF OwnCallback
  <2>4. CallThen(g, f)
    BY <1>4 DEF f
  <2>5. "transfer" \notin UriLabel \cup AuthLabel
    BY DEF UriLabel, AuthLabel
  <2> QED BY <1>4, <2>1, <2>2, <2>3, <2>4, <2>5, CallThenChain
<1>5. CASE \/ ClientReturn \/ CallbackDone \/ SecondLoopDone \/ EraseTold
           \/ HeadersDone \/ TransferReturn \/ SyncReturn
           \/ TransportHandlerRemoved \/ Finalized
  <2>1. PICK l \in ClientLabel \cup {"start2", "sweep2", "dispose", "headersDone",
                    "transfer", "sync", "removeHandler", "finalize"} : At(l) /\ Return
    BY <1>5 DEF ClientReturn, CallbackDone, SecondLoopDone, EraseTold, HeadersDone,
       TransferReturn, SyncReturn, TransportHandlerRemoved, Finalized
  <2> QED BY <1>2, <2>1 DEF ClientLabel, UriLabel, AuthLabel
<1>6. CASE SweepStep \/ EraseQuietly \/ SyncTicked
  <2>1. CASE SweepStep
    <3>1. At("sweep1") /\ \E h \in Handle : Become([Top EXCEPT !.n = job[h].id])
      BY <2>1 DEF SweepStep
    <3>2. \E n \in Nat : Become([Top EXCEPT !.n = n])
      BY <3>1, <1>j
    <3> QED BY <1>3, <3>1, <3>2 DEF UriLabel, AuthLabel
  <2>2. CASE EraseQuietly
    <3>1. At("sweep2") /\ \E h \in Handle : Become([Top EXCEPT !.n = job[h].id])
      BY <2>2 DEF EraseQuietly
    <3>2. \E n \in Nat : Become([Top EXCEPT !.n = n])
      BY <3>1, <1>j
    <3> QED BY <1>3, <3>1, <3>2 DEF UriLabel, AuthLabel
  <2>3. CASE SyncTicked
    <3>1. At("sync") /\ Become([Top EXCEPT !.b = FALSE])
      BY <2>3 DEF SyncTicked
    <3>2. \E b \in BOOLEAN : Become([Top EXCEPT !.b = b])
      BY <3>1
    <3> QED BY <1>3, <3>1, <3>2 DEF UriLabel, AuthLabel
  <2> QED BY <1>6, <2>1, <2>2, <2>3
<1>7. CASE PassDone \/ AuthTickDone
  <2>1. PICK l \in {"afterPass", "auth"}, m \in {"auth", "start2"}, b \in BOOLEAN :
          At(l) /\ Become([Frame(m, NoHandle) EXCEPT !.b = b])
    <3>1. CASE PassDone
      BY <3>1 DEF PassDone
    <3>2. CASE AuthTickDone
      <4>1. At("auth") /\ Become([Frame("start2", NoHandle) EXCEPT !.b = Top.b])
        BY <3>2 DEF AuthTickDone
      <4>2. Top.b \in BOOLEAN
        BY <4>1, AtChain, FrameUpdate
      <4> QED BY <4>1, <4>2
    <3> QED BY <1>7, <3>1, <3>2
  <2> DEFINE f == [Frame(m, NoHandle) EXCEPT !.b = b]
  <2>2. f \in FrameType /\ f.at = m
    BY DEF Frame, FrameType, PlainLabel
  <2>3. OwnFrame(f) /\ OrdinaryFrame(f) /\ l \notin UriLabel \cup AuthLabel
    BY <2>2 DEF OwnFrame, OrdinaryFrame, UriLabel, AuthLabel
  <2>4. Become(f)
    BY <2>1
  <2> HIDE DEF f
  <2> QED BY <2>1, <2>2, <2>3, <2>4, BecomeChain DEF OutermostLabel
<1>8. CASE FirstLoopDone
  <2>1. At("sweep1") /\ (Return \/ Become(Frame("sweep2", NoHandle)))
    BY <1>8 DEF FirstLoopDone
  <2>2. "sweep1" \notin UriLabel \cup AuthLabel /\ "sweep2" \in PlainLabel
    BY DEF UriLabel, AuthLabel, PlainLabel
  <2>3. CASE Become(Frame("sweep2", NoHandle))
    BY <1>p, <2>1, <2>2, <2>3, BecomeChain
  <2> QED BY <1>2, <2>1, <2>2, <2>3
<1>9. CASE FirstStartDone
  <2> DEFINE f == Frame("afterPass", NoHandle)
             g == Frame("sweep1", NoHandle)
  <2>1. At("start1") /\ CallThen(g, f)
    BY <1>9 DEF FirstStartDone
  <2>2. "start1" \notin UriLabel \cup AuthLabel /\ {"afterPass", "sweep1"} \subseteq PlainLabel
    BY DEF UriLabel, AuthLabel, PlainLabel
  <2>3. /\ f \in FrameType /\ f.at = "afterPass" /\ OwnFrame(f) /\ OrdinaryFrame(f)
        /\ g \in FrameType /\ g.at = "sweep1" /\ OwnFrame(g) /\ OrdinaryFrame(g)
    BY <1>p, <2>2
  <2> HIDE DEF f, g
  <2>4. OtherCall(f.at, g.at)
    BY <2>3 DEF OtherCall
  <2> QED BY <2>1, <2>2, <2>3, <2>4, CallThenChain DEF OutermostLabel
<1>10. CASE SyncProcess
  <2> DEFINE f == [Top EXCEPT !.b = TRUE]
             g == Frame("sweep1", NoHandle)
  <2>1. At("sync") /\ CallThen(g, f)
    BY <1>10 DEF SyncProcess
  <2>2. "sync" \notin UriLabel \cup AuthLabel /\ "sweep1" \in PlainLabel
    BY DEF UriLabel, AuthLabel, PlainLabel
  <2>3. /\ f \in FrameType /\ f.at = "sync" /\ f.h = Top.h
        /\ g \in FrameType /\ g.at = "sweep1" /\ OwnFrame(g) /\ OrdinaryFrame(g)
    BY <1>p, <1>f, <2>1, <2>2
  <2> HIDE DEF f, g
  <2>4. OtherCall(f.at, g.at) /\ OwnFrame(f) /\ OrdinaryFrame(f)
    BY <1>o, <2>1, <2>2, <2>3 DEF OtherCall, OrdinaryFrame
  <2> QED BY <2>1, <2>2, <2>3, <2>4, CallThenChain
<1>11. CASE SweepTransfer
  <2>1. PICK h \in Handle :
          At("sweep1") /\ CallThen(Frame("transfer", h), [Top EXCEPT !.n = job[h].id])
    BY <1>11 DEF SweepTransfer
  <2> DEFINE f == [Top EXCEPT !.n = job[h].id]
             g == Frame("transfer", h)
  <2>2. "sweep1" \notin UriLabel \cup AuthLabel /\ "transfer" \in HandleLabel
        /\ "transfer" \notin UriLabel \cup AuthLabel \cup {"sync"}
    BY DEF UriLabel, AuthLabel, HandleLabel
  <2>3. /\ f \in FrameType /\ f.at = "sweep1" /\ f.h = Top.h
        /\ g \in FrameType /\ g.at = "transfer" /\ OwnFrame(g) /\ OrdinaryFrame(g)
    BY <1>h, <1>f, <1>j, <2>1, <2>2
  <2>5. CallThen(g, f)
    BY <2>1
  <2> HIDE DEF f, g
  <2>4. OtherCall(f.at, g.at) /\ OwnFrame(f) /\ OrdinaryFrame(f)
    BY <1>o, <2>1, <2>2, <2>3 DEF OtherCall, OrdinaryFrame
  <2> QED BY <2>1, <2>2, <2>3, <2>4, <2>5, CallThenChain
<1>12. ASSUME NEW l, At(l), l \notin UriLabel \cup AuthLabel, NEW n \in Nat,
              NEW f \in FrameType, f = [Top EXCEPT !.n = n],
              NEW g \in FrameType, OwnFrame(g), OrdinaryFrame(g),
              OtherCall(l, g.at) \/ (OwnCallback(l, g.at) /\ Top.h = g.h),
              NEW e \in FrameType, OwnFrame(e), OrdinaryFrame(e),
              OwnCallback(g.at, e.at) /\ g.h = e.h,
              stack' = <<e, g, f>> \o Tail(stack)
       PROVE  R
  <2> DEFINE r == <<f>> \o Tail(stack)
             t == <<g>> \o r
  <2>1. f.at = l /\ f.h = Top.h /\ OwnFrame(f) /\ OrdinaryFrame(f)
    BY <1>12, <1>f, <1>o DEF OrdinaryFrame
  <2>2. CallChain(r) /\ SameHandles(stack, r) /\ r \in Seq(FrameType) /\ r # << >> /\ r[1] = f
    <3>1. MayCall(Tail(stack), stack[1]) => MayCall(Tail(stack), f)
      BY <1>12, <2>1, AtChain DEF MayCall
    <3>2. OrdinaryFrame(stack[1])
      BY <1>12, AtChain DEF OrdinaryFrame
    <3>3. CallChain(stack) /\ stack \in Seq(FrameType) /\ stack # << >>
      BY <1>12, AtChain
    <3> QED BY <2>1, <3>1, <3>2, <3>3, ReplaceStep
  <2>3. stack' = <<e>> \o t
    <3> DEFINE q == Tail(stack)
    <3>1. q \in Seq(FrameType)
      BY <1>12, AtChain
    <3> HIDE DEF q
    <3>2. ThreePushes(q, e, g, f)
      BY <3>1, PushedThree
    <3> QED BY <1>12, <3>2, Zenon DEF ThreePushes, q
  <2> HIDE DEF r
  <2>4. MayCall(r, g)
    BY <1>12, <2>1, <2>2 DEF MayCall
  <2>5. CallChain(t) /\ SameHandles(r, t) /\ t \in Seq(FrameType) /\ t # << >> /\ t[1] = g
    BY <1>12, <2>2, <2>4, PushStep
  <2> HIDE DEF t
  <2>6. MayCall(t, e)
    BY <1>12, <2>5 DEF MayCall
  <2>7. CallChain(<<e>> \o t) /\ SameHandles(t, <<e>> \o t)
    BY <1>12, <2>5, <2>6, PushStep
  <2> QED BY <2>2, <2>3, <2>5, <2>7 DEF SameHandles
<1>13. CASE TellFailure
  <2>1. PICK h \in Handle :
          /\ At("sweep2")
          /\ stack' = <<Frame("fail", h), Frame("dispose", h),
                        [Top EXCEPT !.n = job[h].id]>> \o Tail(stack)
    BY <1>13 DEF TellFailure
  <2> DEFINE f == [Top EXCEPT !.n = job[h].id]
             g == Frame("dispose", h)
             e == Frame("fail", h)
  <2>2. /\ "sweep2" \notin UriLabel \cup AuthLabel /\ {"dispose", "fail"} \subseteq HandleLabel
        /\ {"dispose", "fail"} \cap (UriLabel \cup AuthLabel \cup {"sync"}) = {}
    BY DEF UriLabel, AuthLabel, HandleLabel, ClientLabel
  <2>3. /\ g \in FrameType /\ g.at = "dispose" /\ g.h = h /\ OwnFrame(g) /\ OrdinaryFrame(g)
        /\ e \in FrameType /\ e.at = "fail" /\ e.h = h /\ OwnFrame(e) /\ OrdinaryFrame(e)
    BY <1>h, <2>2
  <2>4. f \in FrameType /\ f = [Top EXCEPT !.n = job[h].id] /\ job[h].id \in Nat
    BY <1>f, <1>j, <2>1
  <2>5. stack' = <<e, g, f>> \o Tail(stack)
    BY <2>1
  <2> HIDE DEF f, g, e
  <2>6. OtherCall("sweep2", g.at) /\ OwnCallback(g.at, e.at) /\ g.h = e.h
    BY <2>3 DEF OtherCall, OwnCallback
  <2> QED BY <1>12, <2>1, <2>2, <2>3, <2>4, <2>5, <2>6
<1>14. ASSUME NEW h \in Handle, DataReceived(h) PROVE R
  <2>1. At("transfer") /\ Top.h = h
    BY <1>14 DEF DataReceived, InTransfer
  <2> DEFINE f == [Top EXCEPT !.n = 1]
  <2>2. /\ "transfer" \notin UriLabel \cup AuthLabel
        /\ {"response", "dataRest", "data"} \subseteq HandleLabel
        /\ {"response", "dataRest", "data"} \cap (UriLabel \cup AuthLabel \cup {"sync"}) = {}
    BY DEF UriLabel, AuthLabel, HandleLabel, ClientLabel
  <2>3. \A l \in {"response", "dataRest", "data"} :
          /\ Frame(l, h) \in FrameType /\ Frame(l, h).at = l /\ Frame(l, h).h = h
          /\ OwnFrame(Frame(l, h)) /\ OrdinaryFrame(Frame(l, h))
    BY <1>h, <2>2
  <2>4. \/ stack' = <<Frame("response", h), Frame("dataRest", h), f>> \o Tail(stack)
        \/ CallThen(Frame("data", h), f)
        \/ Become(f)
    BY <1>14 DEF DataReceived, Progress
  <2>5. f \in FrameType /\ f = [Top EXCEPT !.n = 1]
    BY <1>f, <2>1
  <2>6. CASE stack' = <<Frame("response", h), Frame("dataRest", h), f>> \o Tail(stack)
    <3> DEFINE g == Frame("dataRest", h)
               e == Frame("response", h)
    <3>1. /\ g \in FrameType /\ g.at = "dataRest" /\ g.h = h /\ OwnFrame(g) /\ OrdinaryFrame(g)
          /\ e \in FrameType /\ e.at = "response" /\ e.h = h /\ OwnFrame(e) /\ OrdinaryFrame(e)
      BY <2>3
    <3>2. stack' = <<e, g, f>> \o Tail(stack)
      BY <2>6
    <3> HIDE DEF f, g, e
    <3>3. /\ OwnCallback("transfer", g.at) /\ Top.h = g.h
          /\ OwnCallback(g.at, e.at) /\ g.h = e.h
      BY <2>1, <3>1 DEF OwnCallback
    <3> QED BY <1>12, <2>1, <2>2, <2>5, <3>1, <3>2, <3>3
  <2>7. CASE CallThen(Frame("data", h), f)
    BY <1>4, <2>1, <2>3, <2>7
  <2>8. CASE Become(f)
    BY <1>3, <2>1, <2>2, <2>8
  <2> QED BY <2>4, <2>6, <2>7, <2>8
<1>15. ASSUME NEW h \in Handle, NEW result \in BOOLEAN, DataDone(h, result) PROVE R
  <2>1. /\ At("transfer") /\ Top.h = h
        /\ \E n \in Nat : \/ CallThen(Frame("finish", h), [Top EXCEPT !.n = n])
                          \/ Become([Top EXCEPT !.n = n])
    BY <1>15 DEF DataDone, InTransfer, Progress
  <2>2. /\ "transfer" \notin UriLabel \cup AuthLabel /\ "finish" \in HandleLabel
        /\ "finish" \notin UriLabel \cup AuthLabel \cup {"sync"}
    BY DEF UriLabel, AuthLabel, HandleLabel, ClientLabel
  <2>3. /\ Frame("finish", h) \in FrameType /\ Frame("finish", h).at = "finish"
        /\ Frame("finish", h).h = h
        /\ OwnFrame(Frame("finish", h)) /\ OrdinaryFrame(Frame("finish", h))
    BY <1>h, <2>2
  <2> QED BY <1>3, <1>4, <2>1, <2>2, <2>3
<1>16. CASE DataRest
  <2>1. At("dataRest") /\ (Return \/ Become(Frame("data", Top.h)))
    BY <1>16 DEF DataRest
  <2>2. /\ "dataRest" \notin UriLabel \cup AuthLabel /\ {"dataRest", "data"} \subseteq HandleLabel
        /\ "data" \notin UriLabel \cup AuthLabel \cup {"sync"}
    BY DEF UriLabel, AuthLabel, HandleLabel, ClientLabel
  <2>3. CASE Become(Frame("data", Top.h))
    <3>1. Top.h \in Handle
      BY <2>1, <2>2, AtChain
    <3> QED BY <1>h, <2>1, <2>2, <2>3, <3>1, BecomeChain
  <2> QED BY <1>2, <2>1, <2>2, <2>3
<1>17. CASE UriData \/ UriFinish \/ AuthFinish
  <2>1. PICK l \in {"uriData", "uriFinish", "authFinish"},
             c \in {"data", "finish"}, m \in {"uriFinish", "uriDone", "authDrop"} :
          /\ At(l) /\ CallThen(Frame(c, Top.h), Frame(m, Top.h))
          /\ OwnCallback(m, c)
          /\ l \in UriLabel <=> m \in UriLabel
          /\ l \in AuthLabel <=> m \in AuthLabel
    <3>1. CASE UriData
      BY <3>1 DEF UriData, OwnCallback, UriLabel, AuthLabel
    <3>2. CASE UriFinish
      BY <3>2 DEF UriFinish, OwnCallback, UriLabel, AuthLabel
    <3>3. CASE AuthFinish
      BY <3>3 DEF AuthFinish, OwnCallback, UriLabel, AuthLabel
    <3> QED BY <1>17, <3>1, <3>2, <3>3
  <2>2. /\ l \in HandleLabel /\ m \in HandleLabel /\ c \in HandleLabel
        /\ c \notin UriLabel \cup AuthLabel \cup {"sync"} /\ m # "sync"
        /\ l \in UriLabel \cup AuthLabel
    BY DEF UriLabel, AuthLabel, HandleLabel, ClientLabel
  <2>3. Top.h \in Handle
    BY <2>1, <2>2, AtChain
  <2> DEFINE f == Frame(m, Top.h)
             g == Frame(c, Top.h)
  <2>4. /\ f \in FrameType /\ f.at = m /\ f.h = Top.h
        /\ g \in FrameType /\ g.at = c /\ g.h = Top.h /\ OwnFrame(g) /\ OrdinaryFrame(g)
    BY <1>h, <2>2, <2>3
  <2>5. OwnFrame(f)
    BY <2>1, <2>2, <2>4, AtChain DEF OwnFrame
  <2>6. CallThen(g, f)
    BY <2>1
  <2> HIDE DEF f, g
  <2>7. OwnCallback(f.at, g.at) /\ f.h = g.h
    BY <2>1, <2>4
  <2> QED BY <2>1, <2>2, <2>4, <2>5, <2>6, <2>7, CallThenChain
<1>18. ASSUME NEW g \in FrameType, MayCall(stack, g), OwnFrame(g), OrdinaryFrame(g)
       PROVE  /\ Call(g) => R
              /\ \A e \in FrameType :
                   /\ OwnFrame(e) /\ OrdinaryFrame(e)
                   /\ OtherCall(g.at, e.at) \/ (OwnCallback(g.at, e.at) /\ g.h = e.h)
                   /\ stack' = <<e, g>> \o stack
                   => R
  <2> DEFINE t == <<g>> \o stack
  <2>1. CallChain(t) /\ SameHandles(stack, t) /\ t \in Seq(FrameType) /\ t # << >> /\ t[1] = g
    BY <1>s, <1>18, PushStep
  <2>2. Call(g) => stack' = t
    BY DEF Call
  <2>3. ASSUME NEW e \in FrameType, stack' = <<e, g>> \o stack PROVE stack' = <<e>> \o t
    BY <1>s, <2>3, PushedTwo
  <2> HIDE DEF t
  <2>4. ASSUME NEW e \in FrameType, OwnFrame(e), OrdinaryFrame(e),
               OtherCall(g.at, e.at) \/ (OwnCallback(g.at, e.at) /\ g.h = e.h),
               stack' = <<e, g>> \o stack
        PROVE  R
    <3>1. MayCall(t, e)
      BY <2>1, <2>4 DEF MayCall
    <3>2. CallChain(<<e>> \o t) /\ SameHandles(t, <<e>> \o t)
      BY <2>1, <2>4, <3>1, PushStep
    <3> QED BY <2>1, <2>3, <2>4, <3>2 DEF SameHandles
  <2> QED BY <2>1, <2>2, <2>4
<1>19. ASSUME NEW h \in Handle, HeadersDue(h), NEW l \in {"headersDone", "redirect"}
       PROVE  /\ MayCall(stack, Frame(l, h)) /\ OwnFrame(Frame(l, h)) /\ OrdinaryFrame(Frame(l, h))
              /\ Frame(l, h) \in FrameType /\ Frame(l, h).at = l /\ Frame(l, h).h = h
  <2>1. l \in HandleLabel /\ l \notin UriLabel \cup AuthLabel \cup {"sync"}
    BY DEF HandleLabel, ClientLabel, UriLabel, AuthLabel
  <2>2. /\ OwnFrame(Frame(l, h)) /\ OrdinaryFrame(Frame(l, h))
        /\ Frame(l, h) \in FrameType /\ Frame(l, h).at = l /\ Frame(l, h).h = h
    BY <1>h, <2>1
  <2>3. CASE Idle
    BY <2>2, <2>3 DEF Idle, MayCall, OutsideLabel
  <2>4. CASE InTransfer(h, {0})
    <3>1. stack # << >> /\ stack[1].at = "transfer" /\ stack[1].h = h
      BY <2>4, AtChain DEF InTransfer
    <3> QED BY <2>2, <3>1 DEF MayCall, OwnCallback
  <2>5. CASE At("sync")
    <3>1. stack # << >> /\ stack[1].at = "sync"
      BY <2>5, AtChain
    <3> QED BY <2>2, <3>1 DEF MayCall, OtherCall
  <2> QED BY <1>19, <2>2, <2>3, <2>4, <2>5 DEF HeadersDue
<1>20. ASSUME NEW h \in Handle, HeadersReceived(h) PROVE R
  <2> DEFINE g == Frame("headersDone", h)
             e == Frame("response", h)
  <2>1. HeadersDue(h) /\ (UNCHANGED stack \/ stack' = <<e, g>> \o stack)
    BY <1>20 DEF HeadersReceived
  <2>2. /\ MayCall(stack, g) /\ OwnFrame(g) /\ OrdinaryFrame(g)
        /\ g \in FrameType /\ g.at = "headersDone" /\ g.h = h
    BY <1>19, <2>1
  <2>3. "response" \in HandleLabel /\ "response" \notin UriLabel \cup AuthLabel \cup {"sync"}
    BY DEF HandleLabel, ClientLabel, UriLabel, AuthLabel
  <2>4. e \in FrameType /\ e.at = "response" /\ e.h = h /\ OwnFrame(e) /\ OrdinaryFrame(e)
    BY <1>h, <2>3
  <2> HIDE DEF g, e
  <2>5. OwnCallback(g.at, e.at) /\ g.h = e.h
    BY <2>2, <2>4 DEF OwnCallback
  <2> QED BY <1>1, <1>18, <2>1, <2>2, <2>4, <2>5
<1>21. ASSUME NEW h \in Handle, SetRedirect(h) PROVE R
  <2> DEFINE g == Frame("redirect", h)
  <2>1. HeadersDue(h) /\ (UNCHANGED stack \/ Call(g))
    BY <1>21 DEF SetRedirect
  <2>2. /\ MayCall(stack, g) /\ OwnFrame(g) /\ OrdinaryFrame(g) /\ g \in FrameType
    BY <1>19, <2>1
  <2> QED BY <1>1, <1>18, <2>1, <2>2
<1>22. ASSUME NEW h \in Handle, SyncStart(h) PROVE R
  <2> DEFINE g == Frame("sync", h)
  <2>1. h \in SyncHandle /\ ScriptRuns /\ Call(g)
    BY <1>22 DEF SyncStart
  <2>2. "sync" \in HandleLabel /\ "sync" \notin UriLabel \cup AuthLabel
    BY DEF HandleLabel, UriLabel, AuthLabel
  <2>3. g \in FrameType /\ g.at = "sync" /\ g.h = h /\ OrdinaryFrame(g)
    BY <1>h, <2>2
  <2>4. OwnFrame(g)
    BY <2>1, <2>2, <2>3 DEF OwnFrame
  <2> HIDE DEF g
  <2>5. MayCall(stack, g)
    <3>1. CASE Idle
      BY <2>3, <3>1 DEF Idle, MayCall, OutsideLabel
    <3>2. ASSUME NEW l \in ScriptLabel, At(l) PROVE MayCall(stack, g)
      BY <2>3, <3>2, AtChain DEF MayCall, OtherCall
    <3> QED BY <2>1, <3>1, <3>2 DEF ScriptRuns
  <2> QED BY <1>18, <2>1, <2>3, <2>4, <2>5
<1>23. CASE TimerFires
  <2> DEFINE g == Frame("start1", NoHandle)
  <2>1. stack = << >> /\ Call(g)
    BY <1>23 DEF TimerFires, Idle
  <2>2. g \in FrameType /\ g.at = "start1" /\ OwnFrame(g) /\ OrdinaryFrame(g)
    BY <1>p DEF PlainLabel
  <2> HIDE DEF g
  <2>3. MayCall(stack, g)
    BY <2>1, <2>2 DEF MayCall, OutsideLabel
  <2> QED BY <1>18, <2>1, <2>2, <2>3
<1>24. CASE RemoveTransportHandler \/ Finalize
  <2>1. PICK l \in {"removeHandler", "finalize"} :
          stack = << >> /\ stack' = <<Frame("sweep1", NoHandle), Frame(l, NoHandle)>>
    BY <1>24 DEF RemoveTransportHandler, Finalize, Idle
  <2> DEFINE g == Frame(l, NoHandle)
             e == Frame("sweep1", NoHandle)
  <2>2. /\ g \in FrameType /\ g.at = l /\ OwnFrame(g) /\ OrdinaryFrame(g)
        /\ e \in FrameType /\ e.at = "sweep1" /\ OwnFrame(e) /\ OrdinaryFrame(e)
    BY <1>p DEF PlainLabel
  <2>3. stack' = <<e, g>>
    BY <2>1
  <2> HIDE DEF g, e
  <2>4. MayCall(stack, g)
    BY <2>1, <2>2 DEF MayCall, OutsideLabel
  <2>5. stack' = <<e, g>> \o stack
    <3>1. <<e, g>> \in Seq(FrameType)
      BY <2>2
    <3> QED BY <2>1, <2>3, <3>1, ConcatEmptySeq
  <2>6. OtherCall(g.at, e.at)
    BY <2>2 DEF OtherCall
  <2> QED BY <1>18, <2>2, <2>4, <2>5, <2>6
<1>25. CASE \/ \E h \in Handle : StartLoad(h) \/ CancelLoad(h)
            \/ \E h \in Handle : AuthProceed(h) \/ AuthDangling(h)
            \/ UNCHANGED vars
  <2>1. UNCHANGED stack
    BY <1>25 DEF StartLoad, CancelLoad, AuthProceed, AuthDangling, vars
  <2> QED BY <1>1, <2>1
<1> QED BY <1>5, <1>6, <1>7, <1>8, <1>9, <1>10, <1>11, <1>13, <1>14, <1>15, <1>16,
           <1>17, <1>20, <1>21, <1>22, <1>23, <1>24, <1>25, Zenon
        DEF Next, Outside, Inside
\* parseDataURI begins with the handle that leaves the queue; no other one is
\* in its hands.  (A job that is started changes nothing here.)
LEMMA ChainStart ==
  ASSUME TypeOK, CallChain(stack), StartNext
  PROVE  /\ CallChain(stack')
         /\ UriHandles(stack) = {} /\ AuthHandles(stack) = {} /\ AuthHandles(stack') = {}
         /\ UriHandles(stack') = IF Head(queue) \in UriHandle THEN {Head(queue)} ELSE {}
<1> DEFINE h == Head(queue)
           f == [Top EXCEPT !.b = TRUE]
           r == <<f>> \o Tail(stack)
<1>1. PICK l \in {"start1", "start2"} : At(l)
  BY DEF StartNext
<1>2. /\ stack \in Seq(FrameType) /\ stack # << >> /\ stack[1].at = l /\ Top = stack[1]
      /\ Top \in FrameType /\ OwnFrame(Top)
  BY <1>1, AtChain
<1>3. UriHandles(stack) = {} /\ AuthHandles(stack) = {}
  BY <1>2, Outermost DEF OutermostLabel
<1>4. f \in FrameType /\ f.at = l /\ f.h = Top.h
  BY <1>1, <1>2, AtChain, FrameUpdate DEF FrameType
<1>5. OrdinaryFrame(f) /\ OrdinaryFrame(stack[1]) /\ OwnFrame(f)
  BY <1>2, <1>4 DEF OrdinaryFrame, OwnFrame, UriLabel, AuthLabel
<1> HIDE DEF f
<1>6. MayCall(Tail(stack), stack[1]) => MayCall(Tail(stack), f)
  BY <1>2, <1>4 DEF MayCall
<1>7. CallChain(r) /\ SameHandles(stack, r) /\ r \in Seq(FrameType) /\ r # << >> /\ r[1] = f
  BY <1>2, <1>4, <1>5, <1>6, ReplaceStep
<1>8. CASE h \notin UriHandle
  <2>1. stack' = r
    BY <1>8 DEF StartNext, Become, f
  <2> QED BY <1>3, <1>7, <1>8, <2>1 DEF SameHandles
<1>9. CASE h \in UriHandle
  <2> DEFINE g == Frame("uriData", h)
             e == Frame("response", h)
             q == Tail(stack)
  <2>1. /\ stack' = <<e, g, f>> \o q /\ q \in Seq(FrameType) /\ h \in Handle
    BY <1>1, <1>9, AtChain DEF StartNext, f, Handle, LoaderHandle
  <2>2. /\ g \in FrameType /\ g.at = "uriData" /\ g.h = h
        /\ e \in FrameType /\ e.at = "response" /\ e.h = h
    BY <2>1, HandleFrameTyped DEF Frame
  <2>3. OwnFrame(g) /\ OwnFrame(e) /\ OrdinaryFrame(e)
    BY <1>9, <2>2 DEF OwnFrame, OrdinaryFrame, UriLabel, AuthLabel
  <2> HIDE DEF h, g, e
  <2>4. stack' = <<e>> \o (<<g>> \o r)
    <3> HIDE DEF q
    <3>1. ThreePushes(q, e, g, f)
      BY <1>4, <2>1, <2>2, PushedThree
    <3> QED BY <2>1, <3>1, Zenon DEF ThreePushes, q
  <2> HIDE DEF r
  <2> DEFINE t == <<g>> \o r
  <2>5. MayCall(r, g)
    BY <1>1, <1>4, <1>7, <2>2 DEF MayCall, OtherCall, UriLabel
  <2>6. CallChain(t) /\ t \in Seq(FrameType) /\ t # << >> /\ t[1] = g
    BY <1>7, <2>2, <2>3, <2>5, ChainPushed
  <2>7. UriHandles(t) = UriHandles(r) \cup {h} /\ AuthHandles(t) = AuthHandles(r)
    <3>1. g.at \in UriLabel /\ g.at \notin AuthLabel
      BY <2>2 DEF UriLabel, AuthLabel
    <3> QED BY <1>7, <2>2, <3>1, HandlesPushed DEF UriHandles, AuthHandles
  <2> HIDE DEF t
  <2>8. MayCall(t, e)
    BY <2>2, <2>6 DEF MayCall, OwnCallback
  <2>9. CallChain(stack') /\ SameHandles(t, stack')
    BY <2>2, <2>3, <2>4, <2>6, <2>8, PushStep DEF t
  <2>10. UriHandles(r) = {} /\ AuthHandles(r) = {}
    BY <1>3, <1>7 DEF SameHandles
  <2> QED BY <1>3, <1>9, <2>7, <2>9, <2>10 DEF SameHandles, h
<1> QED BY <1>8, <1>9

\* parseDataURI, or AuthenticationManager::Cancel, has done with its handle.
LEMMA ChainEnd ==
  ASSUME TypeOK, CallChain(stack), NEW l \in {"uriDone", "authDrop"}, At(l), Return
  PROVE  /\ CallChain(stack') /\ UriHandles(stack') = {} /\ AuthHandles(stack') = {}
         /\ Top.h \in Handle
         /\ UriHandles(stack) = IF l = "uriDone" THEN {Top.h} ELSE {}
         /\ AuthHandles(stack) = IF l = "authDrop" THEN {Top.h} ELSE {}
         /\ OwnFrame(Top)
<1>1. l \in UriLabel \cup AuthLabel /\ l \in HandleLabel
      /\ (l \in UriLabel <=> l = "uriDone") /\ (l \in AuthLabel <=> l = "authDrop")
  BY DEF UriLabel, AuthLabel, HandleLabel
<1>2. /\ stack \in Seq(FrameType) /\ stack # << >> /\ stack[1].at = l /\ Top = stack[1]
      /\ Top \in FrameType /\ Top.h \in Handle /\ OwnFrame(Top)
      /\ CallChain(Tail(stack)) /\ MayCall(Tail(stack), Top) /\ Tail(stack) \in Seq(FrameType)
  BY <1>1, AtChain
<1>3. UriHandles(Tail(stack)) = {} /\ AuthHandles(Tail(stack)) = {}
  BY <1>1, <1>2, OnceOnly
<1>4. \A labels :
        HandlesAt(stack, labels) = IF l \in labels THEN HandlesAt(Tail(stack), labels) \cup {Top.h}
                                   ELSE HandlesAt(Tail(stack), labels)
  BY <1>2, HandlesPopped
<1>5. UriHandles(stack) = IF l = "uriDone" THEN {Top.h} ELSE {}
  BY <1>1, <1>3, <1>4 DEF UriHandles
<1>6. AuthHandles(stack) = IF l = "authDrop" THEN {Top.h} ELSE {}
  BY <1>1, <1>3, <1>4 DEF AuthHandles
<1> QED BY <1>2, <1>3, <1>5, <1>6 DEF Return

\* Cancel begins for a handle in the list; no other one is in its hands.
LEMMA ChainCancel ==
  ASSUME TypeOK, CallChain(stack), NEW h \in Handle, AuthCancel(h)
  PROVE  /\ CallChain(stack') /\ UriHandles(stack) = {} /\ AuthHandles(stack) = {}
         /\ UriHandles(stack') = {} /\ AuthHandles(stack') \subseteq {h}
<1>1. /\ stack \in Seq(FrameType) /\ stack # << >> /\ stack[1].at = "auth"
  BY AtChain DEF AuthCancel
<1>2. UriHandles(stack) = {} /\ AuthHandles(stack) = {}
  BY <1>1, Outermost DEF OutermostLabel
<1>3. CASE UNCHANGED stack
  BY <1>2, <1>3
<1>4. CASE stack' = <<Frame("response", h), Frame("authFinish", h)>> \o stack
  <2> DEFINE g == Frame("authFinish", h)
             e == Frame("response", h)
             t == <<g>> \o stack
  <2>1. /\ g \in FrameType /\ g.at = "authFinish" /\ g.h = h
        /\ e \in FrameType /\ e.at = "response" /\ e.h = h
    BY HandleFrameTyped DEF Frame
  <2>2. stack' = <<e>> \o t
    BY <1>1, <1>4, <2>1, PushedTwo
  <2>3. OwnFrame(g) /\ OwnFrame(e) /\ OrdinaryFrame(e)
    BY <2>1 DEF OwnFrame, OrdinaryFrame, UriLabel, AuthLabel
  <2> HIDE DEF g, e
  <2>4. MayCall(stack, g)
    BY <1>1, <2>1 DEF MayCall, OtherCall, AuthLabel
  <2>5. CallChain(t) /\ t \in Seq(FrameType) /\ t # << >> /\ t[1] = g
    BY <1>1, <2>1, <2>3, <2>4, ChainPushed
  <2>6. UriHandles(t) = UriHandles(stack) /\ AuthHandles(t) = AuthHandles(stack) \cup {h}
    <3>1. g.at \notin UriLabel /\ g.at \in AuthLabel
      BY <2>1 DEF UriLabel, AuthLabel
    <3> QED BY <1>1, <2>1, <3>1, HandlesPushed DEF UriHandles, AuthHandles
  <2> HIDE DEF t
  <2>7. MayCall(t, e)
    BY <2>1, <2>5 DEF MayCall, OwnCallback
  <2>8. CallChain(stack') /\ SameHandles(t, stack')
    BY <2>1, <2>2, <2>3, <2>5, <2>7, PushStep
  <2> QED BY <1>2, <2>6, <2>8 DEF SameHandles
<1> QED BY <1>3, <1>4 DEF AuthCancel

\* Every step keeps the chain.
LEMMA ChainStep ==
  ASSUME TypeOK, CallChain(stack), [Next]_vars
  PROVE  CallChain(stack')
<1>1. CASE UriDone
  BY <1>1, ChainEnd DEF UriDone
<1>2. CASE AuthDrop
  BY <1>2, ChainEnd DEF AuthDrop
<1> QED BY <1>1, <1>2, ChainStart, ChainCancel, ChainSame

-----------------------------------------------------------------------------
(* One owner for each reference *)

\* The references to the handle of one loader match its owners; a "data:" URI
\* has neither a job nor an entry with the AuthenticationManager, and one that
\* is being parsed has left the queue.
Owned(g) ==
  /\ rh[g].refs = Owners(g)
  /\ rh[g].alive = (Owners(g) > 0)
  /\ rh[g].client = (loader[g] = "loading")
  /\ g \in UriHandle => g \notin Jobs /\ g \notin limbo
  /\ g \in UriHandles(stack)
       => g \in UriHandle /\ ~Scheduled(g) /\ loader[g] # "idle"

\* RefsMatchOwners is not inductive alone: whether a reference is given up
\* once depends on what the call stack may hold, and on Cancel and parseDataURI
\* being the only ones to drop what they were entered for.
OwnerInv ==
  /\ CallChain(stack)
  /\ AuthHandles(stack) \subseteq limbo
  /\ \A g \in LoaderHandle : Owned(g)

\* The five of them, as numbers.
Loads(g) == One(loader[g] = "loading")
Queued(g) == One(Scheduled(g))
Working(g) == One(g \in Jobs)
Asked(g) == One(g \in limbo)
Parsed(g) == One(g \in UriHandles(stack))

LEMMA OwnersSum ==
  ASSUME NEW g
  PROVE  /\ Owners(g) = Loads(g) + Queued(g) + Working(g) + Asked(g) + Parsed(g)
         /\ Loads(g) \in {0, 1} /\ Queued(g) \in {0, 1} /\ Working(g) \in {0, 1}
         /\ Asked(g) \in {0, 1} /\ Parsed(g) \in {0, 1}
<1>1. Owners(g) = Loads(g) + Queued(g) + Working(g) + Asked(g) + Parsed(g)
  BY DEF Owners, Loads, Queued, Working, Asked, Parsed, OnStack, UriHandles, HandlesAt
<1>2. /\ Loads(g) \in {0, 1} /\ Queued(g) \in {0, 1} /\ Working(g) \in {0, 1}
      /\ Asked(g) \in {0, 1} /\ Parsed(g) \in {0, 1}
  BY DEF Loads, Queued, Working, Asked, Parsed, One
<1> QED BY <1>1, <1>2

LEMMA OwnersSumNext ==
  ASSUME NEW g
  PROVE  /\ Owners(g)' = Loads(g)' + Queued(g)' + Working(g)' + Asked(g)' + Parsed(g)'
         /\ Loads(g)' \in {0, 1} /\ Queued(g)' \in {0, 1} /\ Working(g)' \in {0, 1}
         /\ Asked(g)' \in {0, 1} /\ Parsed(g)' \in {0, 1}
<1>1. Owners(g)' = Loads(g)' + Queued(g)' + Working(g)' + Asked(g)' + Parsed(g)'
  BY DEF Owners, Loads, Queued, Working, Asked, Parsed, OnStack, UriHandles, HandlesAt
<1>2. /\ Loads(g)' \in {0, 1} /\ Queued(g)' \in {0, 1} /\ Working(g)' \in {0, 1}
      /\ Asked(g)' \in {0, 1} /\ Parsed(g)' \in {0, 1}
  BY DEF Loads, Queued, Working, Asked, Parsed, One
<1> QED BY <1>1, <1>2

\* A step that leaves g with its owners.
SameOwner(g) ==
  /\ loader'[g] = loader[g]
  /\ Scheduled(g)' <=> Scheduled(g)
  /\ g \in Jobs' <=> g \in Jobs
  /\ g \in limbo' <=> g \in limbo
  /\ g \in UriHandles(stack') <=> g \in UriHandles(stack)
  /\ rh'[g].refs = rh[g].refs /\ rh'[g].alive = rh[g].alive
  /\ rh'[g].client = rh[g].client

LEMMA OwnerKept ==
  ASSUME NEW g, Owned(g), SameOwner(g)
  PROVE  Owned(g)'
<1>1. Owners(g)' = Owners(g)
  BY DEF Owners, OnStack, SameOwner, UriHandles, HandlesAt, One
<1> QED BY <1>1 DEF Owned, SameOwner

\* What giving up one of n references leaves.
LEMMA GivenUp ==
  ASSUME NEW r \in ResourceHandle, NEW n \in Nat, r.refs = n + 1
  PROVE  /\ Deref(r).refs = n /\ Deref(r).alive = (n > 0)
         /\ Deref(r).client = r.client
         /\ Release(r).refs = n /\ Release(r).alive = (n > 0)
         /\ Release(r).client = FALSE
         /\ Deref(r) \in ResourceHandle
<1>1. Deref(r).refs = n /\ Deref(r).alive = (n > 0) /\ Deref(r).client = r.client
  BY DEF Deref, ResourceHandle
<1>2. /\ Release(r).refs = n /\ Release(r).alive = (n > 0)
      /\ Release(r).client = FALSE
  BY DEF Release, Deref, ResourceHandle
<1> QED BY <1>1, <1>2, DerefTyped

\* Most steps change no more of a ResourceHandle than m_responseFired.
LEMMA FiredOnly ==
  ASSUME TypeOK, NEW h, NEW b,
         rh' = [rh EXCEPT ![h].fired = b] \/ UNCHANGED rh
  PROVE  \A g \in Handle : /\ rh'[g].refs = rh[g].refs
                           /\ rh'[g].alive = rh[g].alive
                           /\ rh'[g].client = rh[g].client
                           /\ rh'[g].cancelled = rh[g].cancelled
<1> SUFFICES ASSUME NEW g \in Handle
             PROVE  /\ rh'[g].refs = rh[g].refs
                    /\ rh'[g].alive = rh[g].alive
                    /\ rh'[g].client = rh[g].client
                    /\ rh'[g].cancelled = rh[g].cancelled
  OBVIOUS
<1>1. rh \in [Handle -> ResourceHandle] /\ rh[g] \in ResourceHandle
  BY DEF TypeOK
<1>2. rh'[g] = [rh[g] EXCEPT !.fired = b] \/ rh'[g] = rh[g]
  BY <1>1
<1> QED BY <1>1, <1>2 DEF ResourceHandle

LEMMA Untouched ==
  ASSUME TypeOK,
         \/ \E h \in Handle : HeadersReceived(h) \/ SetRedirect(h)
         \/ RemoveTransportHandler \/ Finalize \/ TimerFires
         \/ UriData \/ UriFinish
         \/ FirstStartDone \/ PassDone \/ AuthTickDone \/ CallbackDone
         \/ SweepStep \/ SweepTransfer \/ FirstLoopDone
         \/ TellFailure \/ SecondLoopDone
         \/ HeadersDone \/ DataRest \/ TransferReturn
         \/ \E h \in Handle : DataReceived(h)
         \/ \E h \in Handle, result \in BOOLEAN : DataDone(h, result)
         \/ \E h \in Handle : AuthCancel(h) \/ AuthDangling(h)
         \/ AuthFinish \/ SyncProcess \/ SyncTicked
         \/ TransportHandlerRemoved \/ Finalized
         \/ UNCHANGED vars
  PROVE  /\ UNCHANGED loader
         /\ \A g \in Handle : /\ rh'[g].refs = rh[g].refs
                              /\ rh'[g].alive = rh[g].alive
                              /\ rh'[g].client = rh[g].client
                              /\ rh'[g].cancelled = rh[g].cancelled
<1>1. UNCHANGED loader
  BY DEF HeadersReceived, SetRedirect, RemoveTransportHandler, Finalize, TimerFires,
         UriData, UriFinish, FirstStartDone, PassDone, AuthTickDone, CallbackDone,
         SweepStep, SweepTransfer, FirstLoopDone, TellFailure, SecondLoopDone,
         HeadersDone, DataRest, TransferReturn, DataReceived, DataDone,
         AuthCancel, AuthDangling, AuthFinish, SyncProcess, SyncTicked,
         TransportHandlerRemoved, Finalized, vars
<1>2. \E h, b : rh' = [rh EXCEPT ![h].fired = b] \/ UNCHANGED rh
  <2>1. CASE \E h \in Handle : HeadersReceived(h)
    <3>1. PICK h \in Handle : HeadersReceived(h)
      BY <2>1
    <3>2. rh' = [rh EXCEPT ![h].fired = rh[h].fired \/ ~rh[h].cancelled] \/ UNCHANGED rh
      BY <3>1 DEF HeadersReceived, TypeOK
    <3> QED BY <3>2
  <2>2. CASE HeadersDone
    BY <2>2 DEF HeadersDone
  <2>3. CASE DataRest
    BY <2>3 DEF DataRest
  <2>4. CASE \E h \in Handle : DataReceived(h)
    BY <2>4 DEF DataReceived
  <2>5. CASE \E h \in Handle : AuthCancel(h)
    BY <2>5 DEF AuthCancel
  <2>6. CASE AuthFinish
    BY <2>6 DEF AuthFinish
  <2> QED
    BY <2>1, <2>2, <2>3, <2>4, <2>5, <2>6
       DEF SetRedirect, RemoveTransportHandler, Finalize, TimerFires,
           UriData, UriFinish, FirstStartDone, PassDone, AuthTickDone, CallbackDone,
           SweepStep, SweepTransfer, FirstLoopDone, TellFailure, SecondLoopDone,
           TransferReturn, DataDone, AuthDangling, SyncProcess, SyncTicked,
           TransportHandlerRemoved, Finalized, vars
<1> QED BY <1>1, <1>2, FiredOnly

\* A step concerns the owners of one handle at most.
LEMMA OthersOwned ==
  ASSUME OwnerInv, NEW h, \A g \in LoaderHandle : g # h => SameOwner(g),
         h \in LoaderHandle => Owned(h)'
  PROVE  \A g \in LoaderHandle : Owned(g)'
BY OwnerKept DEF OwnerInv

LEMMA StartOwned ==
  ASSUME IInv, OwnerInv, NEW h \in Handle, StartLoad(h)
  PROVE  \A g \in LoaderHandle : Owned(g)'
<1>1. /\ h \in LoaderHandle /\ loader[h] = "idle"
      /\ loader' = [loader EXCEPT ![h] = "loading"]
      /\ rh' = [rh EXCEPT ![h] = StartedResourceHandle]
      /\ queue' = Append(queue, h)
      /\ UNCHANGED <<job, limbo, stack>>
  BY DEF StartLoad
<1>2. /\ loader \in [Handle -> LoaderState] /\ rh \in [Handle -> ResourceHandle]
      /\ queue \in Seq(Handle)
  BY DEF IInv, TypeOK
<1>3. \A g : Scheduled(g)' <=> Scheduled(g) \/ g = h
  BY <1>1, <1>2, AppendScheduled
<1>4. Jobs' = Jobs /\ UriHandles(stack') = UriHandles(stack)
  BY <1>1 DEF Jobs
<1>5. h \notin Jobs /\ h \notin limbo /\ h \notin UriHandles(stack)
  BY <1>1 DEF IInv, PlaceInv, OwnerInv, Owned
<1>6. \A g \in LoaderHandle : g # h => SameOwner(g)
  BY <1>1, <1>2, <1>3, <1>4 DEF SameOwner, LoaderHandle, Handle
<1>7. rh'[h] = StartedResourceHandle /\ loader'[h] = "loading"
  BY <1>1, <1>2
<1>8. /\ Loads(h)' = 1 /\ Queued(h)' = 1 /\ Working(h)' = 0
      /\ Asked(h)' = 0 /\ Parsed(h)' = 0
  BY <1>1, <1>3, <1>4, <1>5, <1>7 DEF Loads, Queued, Working, Asked, Parsed, One
<1>9. Owners(h)' = 2
  BY <1>8, OwnersSumNext
<1>10. Owned(h)'
  <2>1. h \notin Jobs' /\ h \notin limbo' /\ h \notin UriHandles(stack')
    BY <1>1, <1>4, <1>5
  <2>2. rh'[h].refs = 2 /\ rh'[h].alive = TRUE /\ rh'[h].client = TRUE
    BY <1>7 DEF StartedResourceHandle
  <2>3. rh'[h].alive = (Owners(h)' > 0)
    <3>1. Owners(h)' > 0
      BY <1>9
    <3> QED BY <2>2, <3>1
  <2>4. rh'[h].client = (loader'[h] = "loading")
    BY <1>7, <2>2
  <2> QED BY <1>9, <2>1, <2>2, <2>3, <2>4 DEF Owned
<1> QED BY <1>6, <1>10, OthersOwned

\* One owner of h less, and its reference given up.
LEMMA OneLess ==
  ASSUME NEW h \in LoaderHandle, Owned(h), rh \in [Handle -> ResourceHandle],
         rh'[h] = Deref(rh[h]), loader'[h] = loader[h],
         Owners(h) = Owners(h)' + 1,
         h \in UriHandle => h \notin Jobs' /\ h \notin limbo',
         h \in UriHandles(stack')
           => h \in UriHandle /\ ~Scheduled(h)' /\ loader'[h] # "idle"
  PROVE  Owned(h)'
<1>1. rh[h] \in ResourceHandle /\ rh[h].refs = Owners(h)
      /\ rh[h].client = (loader[h] = "loading")
  BY DEF Owned, LoaderHandle, Handle
<1> DEFINE n == Owners(h)'
<1>2. n \in Nat
  BY OwnersSumNext
<1>3. rh[h].refs = n + 1
  BY <1>1
<1> HIDE DEF n
<1>4. rh'[h].refs = n /\ rh'[h].alive = (n > 0) /\ rh'[h].client = rh[h].client
  BY <1>1, <1>2, <1>3, GivenUp
<1>5. rh'[h].refs = Owners(h)' /\ rh'[h].alive = (Owners(h)' > 0)
  BY <1>4 DEF n
<1>6. rh'[h].client = (loader'[h] = "loading")
  BY <1>1, <1>4
<1> QED BY <1>5, <1>6 DEF Owned

\* The loader of h gives up its reference, and the others stay as they are.
LEMMA LoaderLess ==
  ASSUME NEW h \in LoaderHandle, Owned(h), loader[h] = "loading",
         NEW r \in ResourceHandle, rh'[h] = Release(r), r.refs = Owners(h)' + 1,
         loader'[h] \notin {"idle", "loading"},
         h \in Jobs' <=> h \in Jobs, h \in limbo' <=> h \in limbo,
         h \in UriHandles(stack') => h \in UriHandles(stack),
         Scheduled(h)' => Scheduled(h)
  PROVE  Owned(h)'
<1> DEFINE n == Owners(h)'
<1>1. n \in Nat
  BY OwnersSumNext
<1>2. r.refs = n + 1
  OBVIOUS
<1> HIDE DEF n
<1>3. rh'[h].refs = n /\ rh'[h].alive = (n > 0) /\ rh'[h].client = FALSE
  BY <1>1, <1>2, GivenUp
<1>4. rh'[h].refs = Owners(h)' /\ rh'[h].alive = (Owners(h)' > 0)
  BY <1>3 DEF n
<1>5. rh'[h].client = (loader'[h] = "loading")
  BY <1>3
<1>6. /\ h \in UriHandle => h \notin Jobs' /\ h \notin limbo'
      /\ h \in UriHandles(stack')
           => h \in UriHandle /\ ~Scheduled(h)' /\ loader'[h] # "idle"
  BY DEF Owned
<1> QED BY <1>4, <1>5, <1>6 DEF Owned

\* One owner of h passes its reference on to another.
LEMMA HandedOver ==
  ASSUME NEW h \in LoaderHandle, Owned(h), UNCHANGED <<rh, loader>>,
         Owners(h)' = Owners(h),
         h \in UriHandle => h \notin Jobs' /\ h \notin limbo',
         h \in UriHandles(stack')
           => h \in UriHandle /\ ~Scheduled(h)' /\ loader'[h] # "idle"
  PROVE  Owned(h)'
BY DEF Owned

LEMMA CancelOwned ==
  ASSUME IInv, OwnerInv, NEW h \in Handle, CancelLoad(h)
  PROVE  \A g \in LoaderHandle : Owned(g)'
<1>1. /\ loader[h] = "loading" /\ loader' = [loader EXCEPT ![h] = "cancelled"]
      /\ UNCHANGED <<job, limbo, stack>>
  BY DEF CancelLoad
<1>2. /\ loader \in [Handle -> LoaderState] /\ rh \in [Handle -> ResourceHandle]
      /\ queue \in Seq(Handle) /\ rh[h] \in ResourceHandle
      /\ \A i, j \in 1..Len(queue) : queue[i] = queue[j] => i = j
  BY DEF IInv, TypeOK, PlaceInv
<1>3. Jobs' = Jobs /\ UriHandles(stack') = UriHandles(stack)
  BY <1>1 DEF Jobs
<1>4. loader'[h] = "cancelled"
  BY <1>1, <1>2
<1>5. /\ Loads(h) = 1 /\ Loads(h)' = 0 /\ Working(h)' = Working(h)
      /\ Asked(h)' = Asked(h) /\ Parsed(h)' = Parsed(h)
  BY <1>1, <1>3, <1>4 DEF Loads, Working, Asked, Parsed, One
<1>6. CASE Scheduled(h)
  <2>1. queue' = Without(h) /\ rh' = [rh EXCEPT ![h] = Release(Deref(@))]
    BY <1>6 DEF CancelLoad
  <2>2. \A g : Scheduled(g)' <=> Scheduled(g) /\ g # h
    BY <1>2, <1>6, <2>1, WithoutScheduled
  <2>3. \A g \in LoaderHandle : g # h => SameOwner(g)
    BY <1>1, <1>2, <1>3, <2>1, <2>2 DEF SameOwner, LoaderHandle, Handle
  <2>4. ASSUME h \in LoaderHandle PROVE Owned(h)'
    <3>1. Queued(h) = 1 /\ Queued(h)' = 0
      BY <1>6, <2>2 DEF Queued, One
    <3>2. Owners(h) = (Owners(h)' + 1) + 1 /\ Owners(h)' + 1 \in Nat
      BY <1>5, <3>1, OwnersSum, OwnersSumNext
    <3>3. rh[h].refs = (Owners(h)' + 1) + 1
      BY <2>4, <3>2 DEF OwnerInv, Owned
    <3> DEFINE r == Deref(rh[h])
    <3>4. r \in ResourceHandle /\ r.refs = Owners(h)' + 1
      BY <1>2, <3>2, <3>3, GivenUp
    <3>5. rh'[h] = Release(r)
      BY <1>2, <2>1
    <3> HIDE DEF r
    <3> QED
      BY <1>1, <1>3, <1>4, <2>2, <2>4, <3>4, <3>5, LoaderLess DEF OwnerInv
  <2> QED BY <2>3, <2>4, OthersOwned
<1>7. CASE ~Scheduled(h)
  <2>1. UNCHANGED queue /\ rh' = [rh EXCEPT ![h] = Release([@ EXCEPT !.cancelled = TRUE])]
    BY <1>7 DEF CancelLoad
  <2>2. \A g : Scheduled(g)' <=> Scheduled(g)
    BY <2>1 DEF Scheduled
  <2>3. \A g \in LoaderHandle : g # h => SameOwner(g)
    BY <1>1, <1>2, <1>3, <2>1, <2>2 DEF SameOwner, LoaderHandle, Handle
  <2>4. ASSUME h \in LoaderHandle PROVE Owned(h)'
    <3>1. Queued(h)' = Queued(h)
      BY <2>2 DEF Queued, One
    <3>2. Owners(h) = Owners(h)' + 1
      BY <1>5, <3>1, OwnersSum, OwnersSumNext
    <3> DEFINE r == [rh[h] EXCEPT !.cancelled = TRUE]
    <3>3. r \in ResourceHandle /\ r.refs = rh[h].refs
      BY <1>2 DEF ResourceHandle
    <3>4. r.refs = Owners(h)' + 1
      BY <2>4, <3>2, <3>3 DEF OwnerInv, Owned
    <3>5. rh'[h] = Release(r)
      BY <1>2, <2>1
    <3> HIDE DEF r
    <3> QED
      BY <1>1, <1>3, <1>4, <2>2, <2>4, <3>3, <3>4, <3>5, LoaderLess DEF OwnerInv
  <2> QED BY <2>3, <2>4, OthersOwned
<1> QED BY <1>6, <1>7

LEMMA ReturnOwned ==
  ASSUME IInv, OwnerInv, ClientReturn
  PROVE  \A g \in LoaderHandle : Owned(g)'
<1>1. PICK l \in ClientLabel : At(l)
  BY DEF ClientReturn
<1>2. PICK h \in Handle : h = Top.h
  BY <1>1, AtChain DEF IInv, OwnerInv, HandleLabel
<1>3. /\ loader \in [Handle -> LoaderState] /\ rh \in [Handle -> ResourceHandle]
  BY DEF IInv, TypeOK
<1>4. /\ Return /\ UNCHANGED <<queue, job, limbo>>
      /\ Jobs' = Jobs /\ \A g : Scheduled(g)' <=> Scheduled(g)
  BY DEF ClientReturn, Jobs, Scheduled
<1>5. UriHandles(stack') = UriHandles(stack)
  BY <1>1, <1>4, ReturnChain DEF IInv, OwnerInv, ClientLabel, UriLabel, AuthLabel, SameHandles
<1>6. CASE UNCHANGED <<loader, rh>>
  BY <1>4, <1>5, <1>6, OwnerKept DEF SameOwner, OwnerInv
<1>7. CASE /\ loader[h] = "loading" /\ rh' = [rh EXCEPT ![h] = Release(@)]
           /\ loader' = [loader EXCEPT ![h] = IF Top.at = "finish" THEN "finished"
                                              ELSE "failed"]
  <2>1. \A g \in LoaderHandle : g # h => SameOwner(g)
    BY <1>3, <1>4, <1>5, <1>7 DEF SameOwner, LoaderHandle, Handle
  <2>2. ASSUME h \in LoaderHandle PROVE Owned(h)'
    <3>1. loader'[h] \in {"finished", "failed"} /\ rh'[h] = Release(rh[h])
      BY <1>3, <1>7
    <3>2. loader[h] = "loading" /\ loader'[h] \notin {"idle", "loading"}
      BY <1>7, <3>1
    <3>3. rh[h] \in ResourceHandle
      BY <1>3
    <3>4. /\ h \in Jobs' <=> h \in Jobs
          /\ h \in limbo' <=> h \in limbo
          /\ h \in UriHandles(stack') <=> h \in UriHandles(stack)
          /\ Scheduled(h)' <=> Scheduled(h)
      BY <1>4, <1>5
    <3>5. Loads(h) = 1 /\ Loads(h)' = 0
      BY <3>2 DEF Loads, One
    <3>6. Queued(h)' = Queued(h) /\ Working(h)' = Working(h)
      BY <3>4 DEF Queued, Working, One
    <3>7. Asked(h)' = Asked(h) /\ Parsed(h)' = Parsed(h)
      BY <3>4 DEF Asked, Parsed, One
    <3>8. Owners(h) = Owners(h)' + 1
      BY <3>5, <3>6, <3>7, OwnersSum, OwnersSumNext
    <3>9. Owned(h) /\ rh[h].refs = Owners(h)' + 1
      BY <2>2, <3>8 DEF OwnerInv, Owned
    <3> QED BY <2>2, <3>1, <3>2, <3>3, <3>4, <3>9, LoaderLess
  <2> QED BY <2>1, <2>2, OthersOwned
<1> QED BY <1>2, <1>6, <1>7 DEF ClientReturn

LEMMA NextOwned ==
  ASSUME IInv, OwnerInv, StartNext
  PROVE  (\A g \in LoaderHandle : Owned(g)') /\ AuthHandles(stack') \subseteq limbo'
<1>1. /\ queue # << >> /\ queue' = Tail(queue)
      /\ UNCHANGED <<limbo, rh, loader>>
  BY DEF StartNext, CanStart
<1>2. /\ queue \in Seq(Handle) /\ TypeOK
      /\ \A i, j \in 1..Len(queue) : queue[i] = queue[j] => i = j
      /\ job \in [Handle -> JobInfo]
  BY DEF IInv, TypeOK, PlaceInv
<1>3. PICK h \in Handle : h = Head(queue)
  BY <1>1, <1>2, TailScheduled
<1>4. /\ \A g : Scheduled(g)' <=> Scheduled(g) /\ g # h
      /\ Scheduled(h)
  BY <1>1, <1>2, <1>3, TailScheduled
<1>5. /\ UriHandles(stack) = {} /\ AuthHandles(stack') = {}
      /\ UriHandles(stack') = IF h \in UriHandle THEN {h} ELSE {}
  BY <1>2, <1>3, ChainStart DEF OwnerInv
<1>6. /\ h \notin Jobs /\ h \notin limbo /\ loader[h] # "idle"
  BY <1>4 DEF IInv, PlaceInv, Scheduled
<1>7. Jobs' = IF h \in UriHandle THEN Jobs ELSE Jobs \cup {h}
  <2>1. CASE h \in UriHandle
    BY <1>3, <2>1 DEF StartNext, Jobs
  <2>2. CASE h \notin UriHandle
    <3>1. PICK kind \in Kinds : job' = [job EXCEPT ![h] = NewJob(FALSE, kind)]
      BY <1>3, <2>2 DEF StartNext
    <3>2. NewJob(FALSE, kind).state = "Init"
      BY DEF NewJob
    <3>3. \A g \in Handle : job'[g] = IF g = h THEN NewJob(FALSE, kind) ELSE job[g]
      BY <1>2, <3>1
    <3> QED BY <2>2, <3>2, <3>3 DEF Jobs
  <2> QED BY <2>1, <2>2
<1>8. \A g \in LoaderHandle : g # h => SameOwner(g)
  <2>1. \A g : g # h => (g \in Jobs' <=> g \in Jobs)
    BY <1>7
  <2>2. \A g : g # h => (g \in UriHandles(stack') <=> g \in UriHandles(stack))
    BY <1>5
  <2> QED BY <1>1, <1>4, <2>1, <2>2 DEF SameOwner
<1>9. ASSUME h \in LoaderHandle PROVE Owned(h)'
  <2>1. ~Scheduled(h)' /\ h \notin limbo'
    BY <1>1, <1>4, <1>6
  <2>2. /\ Loads(h)' = Loads(h) /\ Queued(h) = 1 /\ Queued(h)' = 0
        /\ Asked(h)' = 0 /\ Asked(h) = 0 /\ Working(h) = 0 /\ Parsed(h) = 0
    BY <1>1, <1>4, <1>5, <1>6, <2>1 DEF Loads, Queued, Asked, Working, Parsed, One
  <2>3. CASE h \in UriHandle
    <3>1. h \notin Jobs' /\ h \in UriHandles(stack')
      BY <1>5, <1>6, <1>7, <2>3
    <3>2. Working(h)' = 0 /\ Parsed(h)' = 1
      BY <3>1 DEF Working, Parsed, One
    <3>3. Owners(h)' = Owners(h)
      BY <2>2, <3>2, OwnersSum, OwnersSumNext
    <3> QED BY <1>1, <1>6, <1>9, <2>1, <2>3, <3>1, <3>3, HandedOver DEF OwnerInv
  <2>4. CASE h \notin UriHandle
    <3>1. h \in Jobs' /\ h \notin UriHandles(stack')
      BY <1>5, <1>6, <1>7, <2>4
    <3>2. Working(h)' = 1 /\ Parsed(h)' = 0
      BY <3>1 DEF Working, Parsed, One
    <3>3. Owners(h)' = Owners(h)
      BY <2>2, <3>2, OwnersSum, OwnersSumNext
    <3> QED BY <1>1, <1>6, <1>9, <2>1, <2>4, <3>1, <3>3, HandedOver DEF OwnerInv
  <2> QED BY <2>3, <2>4
<1> QED BY <1>5, <1>8, <1>9, OthersOwned

LEMMA UriDoneOwned ==
  ASSUME IInv, OwnerInv, UriDone
  PROVE  (\A g \in LoaderHandle : Owned(g)') /\ AuthHandles(stack') \subseteq limbo'
<1>1. /\ At("uriDone") /\ Return /\ UNCHANGED <<queue, job, limbo, loader>>
      /\ rh' = [rh EXCEPT ![Top.h] = Deref(@)]
  BY DEF UriDone
<1>2. /\ rh \in [Handle -> ResourceHandle] /\ TypeOK /\ CallChain(stack)
  BY DEF IInv, OwnerInv, TypeOK
<1>3. PICK h \in Handle : h = Top.h
  BY <1>1, <1>2, ChainEnd
<1>4. /\ UriHandles(stack) = {h} /\ UriHandles(stack') = {} /\ AuthHandles(stack') = {}
  BY <1>1, <1>2, <1>3, ChainEnd
<1>5. Jobs' = Jobs /\ \A g : Scheduled(g)' <=> Scheduled(g)
  BY <1>1 DEF Jobs, Scheduled
<1>6. \A g \in LoaderHandle : g # h => SameOwner(g)
  <2>1. \A g : g # h => (g \in UriHandles(stack') <=> g \in UriHandles(stack))
    BY <1>4
  <2> QED BY <1>1, <1>2, <1>3, <1>5, <2>1 DEF SameOwner, LoaderHandle, Handle
<1>7. ASSUME h \in LoaderHandle PROVE Owned(h)'
  <2>1. Owned(h) /\ h \in UriHandles(stack) /\ h \notin UriHandles(stack')
    BY <1>4, <1>7 DEF OwnerInv
  <2>2. /\ h \in Jobs' <=> h \in Jobs
        /\ h \in limbo' <=> h \in limbo
        /\ Scheduled(h)' <=> Scheduled(h)
        /\ loader'[h] = loader[h]
    BY <1>1, <1>5
  <2>3. /\ Parsed(h) = 1 /\ Parsed(h)' = 0 /\ Loads(h)' = Loads(h)
    BY <2>1, <2>2 DEF Parsed, Loads, One
  <2>4. Queued(h)' = Queued(h) /\ Working(h)' = Working(h) /\ Asked(h)' = Asked(h)
    BY <2>2 DEF Queued, Working, Asked, One
  <2>5. Owners(h) = Owners(h)' + 1
    BY <2>3, <2>4, OwnersSum, OwnersSumNext
  <2>6. rh'[h] = Deref(rh[h])
    BY <1>1, <1>2, <1>3
  <2>7. h \in UriHandle => h \notin Jobs' /\ h \notin limbo'
    BY <2>1, <2>2 DEF Owned
  <2> QED BY <1>2, <1>7, <2>1, <2>2, <2>5, <2>6, <2>7, OneLess
<1> QED BY <1>4, <1>6, <1>7, OthersOwned

LEMMA AuthDropOwned ==
  ASSUME IInv, OwnerInv, AuthDrop
  PROVE  (\A g \in LoaderHandle : Owned(g)') /\ AuthHandles(stack') \subseteq limbo'
<1>1. /\ At("authDrop") /\ Return /\ UNCHANGED <<queue, job, loader>>
      /\ limbo' = limbo \ {Top.h}
      /\ rh' = [rh EXCEPT ![Top.h] = Deref(@)]
  BY DEF AuthDrop
<1>2. /\ rh \in [Handle -> ResourceHandle] /\ TypeOK /\ CallChain(stack)
  BY DEF IInv, OwnerInv, TypeOK
<1>3. PICK h \in Handle : h = Top.h
  BY <1>1, <1>2, ChainEnd
<1>4. /\ UriHandles(stack) = {} /\ UriHandles(stack') = {} /\ AuthHandles(stack') = {}
      /\ h \in limbo /\ limbo' = limbo \ {h}
  BY <1>1, <1>2, <1>3, ChainEnd DEF OwnerInv
<1>5. Jobs' = Jobs /\ \A g : Scheduled(g)' <=> Scheduled(g)
  BY <1>1 DEF Jobs, Scheduled
<1>6. \A g \in LoaderHandle : g # h => SameOwner(g)
  <2>1. \A g : g # h => (g \in limbo' <=> g \in limbo)
    BY <1>4
  <2> QED BY <1>1, <1>2, <1>3, <1>4, <1>5, <2>1 DEF SameOwner, LoaderHandle, Handle
<1>7. ASSUME h \in LoaderHandle PROVE Owned(h)'
  <2>1. Owned(h) /\ h \notin UriHandle
    BY <1>4, <1>7 DEF OwnerInv, Owned
  <2>2. /\ h \in Jobs' <=> h \in Jobs
        /\ Scheduled(h)' <=> Scheduled(h)
        /\ loader'[h] = loader[h]
        /\ h \notin UriHandles(stack) /\ h \notin UriHandles(stack')
        /\ h \in limbo /\ h \notin limbo'
    BY <1>1, <1>4, <1>5
  <2>3. /\ Asked(h) = 1 /\ Asked(h)' = 0 /\ Loads(h)' = Loads(h)
    BY <2>2 DEF Asked, Loads, One
  <2>4. Queued(h)' = Queued(h) /\ Working(h)' = Working(h) /\ Parsed(h)' = Parsed(h)
    BY <2>2 DEF Queued, Working, Parsed, One
  <2>5. Owners(h) = Owners(h)' + 1
    BY <2>3, <2>4, OwnersSum, OwnersSumNext
  <2>6. rh'[h] = Deref(rh[h])
    BY <1>1, <1>2, <1>3
  <2> QED BY <1>2, <1>7, <2>1, <2>2, <2>5, <2>6, OneLess
<1> QED BY <1>4, <1>6, <1>7, OthersOwned

LEMMA ProceedOwned ==
  ASSUME IInv, OwnerInv, NEW h \in Handle, AuthProceed(h)
  PROVE  (\A g \in LoaderHandle : Owned(g)') /\ AuthHandles(stack') \subseteq limbo'
<1>1. /\ At("auth") /\ UNCHANGED <<rh, job, loader, stack>>
      /\ h \in limbo /\ limbo' = limbo \ {h} /\ queue' = Append(queue, h)
  BY DEF AuthProceed
<1>2. /\ rh \in [Handle -> ResourceHandle] /\ TypeOK /\ CallChain(stack)
      /\ queue \in Seq(Handle)
  BY DEF IInv, OwnerInv, TypeOK
<1>3. /\ UriHandles(stack) = {} /\ UriHandles(stack') = {} /\ AuthHandles(stack') = {}
  <2>1. stack \in Seq(FrameType) /\ stack # << >> /\ stack[1].at = "auth"
    BY <1>1, <1>2, AtChain
  <2> QED BY <1>1, <1>2, <2>1, Outermost DEF OutermostLabel
<1>4. Jobs' = Jobs /\ \A g : Scheduled(g)' <=> Scheduled(g) \/ g = h
  BY <1>1, <1>2, AppendScheduled DEF Jobs
<1>5. ~Scheduled(h)
  BY <1>1 DEF IInv, PlaceInv, Scheduled
<1>6. \A g \in LoaderHandle : g # h => SameOwner(g)
  <2>1. \A g : g # h => (g \in limbo' <=> g \in limbo)
    BY <1>1
  <2> QED BY <1>1, <1>2, <1>3, <1>4, <2>1 DEF SameOwner, LoaderHandle, Handle
<1>7. ASSUME h \in LoaderHandle PROVE Owned(h)'
  <2>1. Owned(h) /\ h \notin UriHandle
    BY <1>1, <1>7 DEF OwnerInv, Owned
  <2>2. /\ h \in Jobs' <=> h \in Jobs
        /\ Scheduled(h)' /\ ~Scheduled(h)
        /\ loader'[h] = loader[h]
        /\ h \notin UriHandles(stack) /\ h \notin UriHandles(stack')
        /\ h \in limbo /\ h \notin limbo'
    BY <1>1, <1>3, <1>4, <1>5
  <2>3. /\ Asked(h) = 1 /\ Asked(h)' = 0 /\ Loads(h)' = Loads(h)
    BY <2>2 DEF Asked, Loads, One
  <2>4. Queued(h)' = 1 /\ Queued(h) = 0
    BY <2>2 DEF Queued, One
  <2>5. Working(h)' = Working(h) /\ Parsed(h)' = Parsed(h)
    BY <2>2 DEF Working, Parsed, One
  <2>6. Owners(h)' = Owners(h)
    BY <2>3, <2>4, <2>5, OwnersSum, OwnersSumNext
  <2> QED BY <1>1, <1>7, <2>1, <2>2, <2>6, HandedOver
<1> QED BY <1>3, <1>6, <1>7, OthersOwned

\* The job of h is erased: its reference goes, or the list takes it over.
LEMMA EraseOwned ==
  ASSUME IInv, OwnerInv, NEW h \in Handle, h \in Jobs, Erase(h),
         UNCHANGED <<queue, loader>>,
         UriHandles(stack') = UriHandles(stack), AuthHandles(stack') = AuthHandles(stack)
  PROVE  (\A g \in LoaderHandle : Owned(g)') /\ AuthHandles(stack') \subseteq limbo'
<1>1. /\ limbo' = IF job[h].auth THEN limbo \cup {h} ELSE limbo
      /\ rh' = IF job[h].auth THEN rh ELSE [rh EXCEPT ![h] = Deref(@)]
      /\ job' = [job EXCEPT ![h] = NoJob]
  BY DEF Erase, Forget
<1>2. /\ rh \in [Handle -> ResourceHandle] /\ job \in [Handle -> JobInfo]
  BY DEF IInv, TypeOK
<1>3. Jobs' = Jobs \ {h} /\ \A g : Scheduled(g)' <=> Scheduled(g)
  BY <1>1, <1>2 DEF Jobs, Scheduled, NoJob
<1>4. AuthHandles(stack') \subseteq limbo'
  BY <1>1 DEF OwnerInv
<1>5. h \notin limbo
  BY DEF IInv, PlaceInv
<1>6. \A g \in LoaderHandle : g # h => SameOwner(g)
  <2>1. \A g : g # h => (g \in limbo' <=> g \in limbo)
    BY <1>1
  <2>2. \A g \in Handle : g # h => rh'[g] = rh[g]
    BY <1>1, <1>2
  <2> QED BY <1>3, <2>1, <2>2 DEF SameOwner, LoaderHandle, Handle
<1>7. ASSUME h \in LoaderHandle PROVE Owned(h)'
  <2>1. Owned(h) /\ h \notin UriHandle
    BY <1>7 DEF OwnerInv, Owned
  <2>2. /\ Scheduled(h)' <=> Scheduled(h)
        /\ loader'[h] = loader[h]
        /\ h \notin UriHandles(stack) /\ h \notin UriHandles(stack')
        /\ h \in Jobs /\ h \notin Jobs' /\ h \notin limbo
    BY <1>3, <1>5, <2>1 DEF Owned
  <2>3. /\ Queued(h)' = Queued(h) /\ Loads(h)' = Loads(h) /\ Parsed(h)' = Parsed(h)
    BY <2>2 DEF Queued, Loads, Parsed, One
  <2>4. Working(h) = 1 /\ Working(h)' = 0 /\ Asked(h) = 0
    BY <2>2 DEF Working, Asked, One
  <2>5. CASE job[h].auth
    <3>1. h \in limbo' /\ UNCHANGED rh
      BY <1>1, <2>5
    <3>2. Asked(h)' = 1
      BY <3>1 DEF Asked, One
    <3>3. Owners(h)' = Owners(h)
      BY <2>3, <2>4, <3>2, OwnersSum, OwnersSumNext
    <3> QED BY <1>7, <2>1, <2>2, <3>1, <3>3, HandedOver
  <2>6. CASE ~job[h].auth
    <3>1. h \notin limbo' /\ rh'[h] = Deref(rh[h])
      BY <1>1, <1>2, <1>5, <2>6
    <3>2. Asked(h)' = 0
      BY <3>1 DEF Asked, One
    <3>3. Owners(h) = Owners(h)' + 1
      BY <2>3, <2>4, <3>2, OwnersSum, OwnersSumNext
    <3> QED BY <1>2, <1>7, <2>1, <2>2, <3>1, <3>3, OneLess
  <2> QED BY <2>5, <2>6
<1> QED BY <1>4, <1>6, <1>7, OthersOwned

\* A synchronous load has a handle of its own.
LEMMA SyncOwned ==
  ASSUME IInv, OwnerInv, (\E h \in Handle : SyncStart(h)) \/ SyncReturn,
         CallChain(stack'), SameHandles(stack, stack')
  PROVE  \A g \in LoaderHandle : Owned(g)'
<1>1. /\ rh \in [Handle -> ResourceHandle] /\ job \in [Handle -> JobInfo]
      /\ loader \in [Handle -> LoaderState]
      /\ TypeOK /\ CallChain(stack) /\ JobsTyped(job)
  BY DEF IInv, TypeOK, OwnerInv, JobsTyped
<1>2. \A h \in SyncHandle : h \in Handle /\ h \notin LoaderHandle
  BY HandleAssumption DEF Handle
<1>3. CASE \E h \in Handle : SyncStart(h)
  <2>1. PICK h \in Handle : SyncStart(h)
    BY <1>3
  <2>2. PICK kind \in Kinds :
          job' = PauseAsyncJobs([job EXCEPT ![h] = NewJob(TRUE, kind)])
    BY <2>1 DEF SyncStart
  <2>3. /\ h \in SyncHandle /\ UNCHANGED <<queue, limbo>>
        /\ loader' = [loader EXCEPT ![h] = "sync"]
        /\ rh' = [rh EXCEPT ![h] = StartedResourceHandle]
    BY <2>1 DEF SyncStart
  <2>4. SameJobs([job EXCEPT ![h] = NewJob(TRUE, kind)], job')
    <3>1. /\ NewJob(TRUE, kind) \in JobInfo /\ SyncNeverPaused(NewJob(TRUE, kind))
      BY <1>1, NewJobTyped DEF TypeOK, SyncNeverPaused
    <3>2. JobsTyped([job EXCEPT ![h] = NewJob(TRUE, kind)])
      BY <1>1, <3>1, JobUpdate
    <3> QED BY <2>2, <3>2, PauseSame
  <2>5. \A g \in Handle : g # h => (g \in Jobs' <=> g \in Jobs)
    BY <1>1, <2>4 DEF SameJobs, Jobs
  <2>6. \A g \in LoaderHandle : g # h /\ g \in Handle
    BY <1>2, <2>3 DEF Handle
  <2>7. \A g \in LoaderHandle : SameOwner(g)
    BY <1>1, <2>3, <2>5, <2>6 DEF SameOwner, SameHandles, Scheduled
  <2> QED BY <2>7, OwnerKept DEF OwnerInv
<1>4. CASE SyncReturn
  <2>1. /\ At("sync") /\ UNCHANGED <<queue, limbo>> /\ job' = ResumeAsyncJobs(job)
        /\ loader' = [loader EXCEPT ![Top.h] = "returned"]
        /\ rh' = [rh EXCEPT ![Top.h].alive = FALSE, ![Top.h].client = FALSE,
                            ![Top.h].cancelled = TRUE]
    BY <1>4 DEF SyncReturn
  <2>2. OwnFrame(Top) /\ Top.at = "sync"
    BY <1>1, <2>1, AtChain
  <2>3. PICK h \in SyncHandle : h = Top.h
    BY <2>2 DEF OwnFrame
  <2>4. Jobs' = Jobs
    BY <1>1, <2>1, PauseSame DEF SameJobs, Jobs
  <2>5. \A g \in LoaderHandle : g # h /\ g \in Handle
    BY <1>2 DEF Handle
  <2>6. \A g \in LoaderHandle : rh'[g] = rh[g] /\ loader'[g] = loader[g]
    BY <1>1, <2>1, <2>3, <2>5
  <2>7. \A g \in LoaderHandle : SameOwner(g)
    BY <2>1, <2>4, <2>6 DEF SameOwner, SameHandles, Scheduled
  <2> QED BY <2>7, OwnerKept DEF OwnerInv
<1> QED BY <1>3, <1>4

\* Every other step leaves each handle with its owners.
LEMMA UntouchedOwned ==
  ASSUME IInv, OwnerInv, JobsKept(job, job'), UNCHANGED <<queue, limbo, loader>>,
         \A g \in Handle : /\ rh'[g].refs = rh[g].refs
                           /\ rh'[g].alive = rh[g].alive
                           /\ rh'[g].client = rh[g].client,
         UriHandles(stack') = UriHandles(stack)
  PROVE  \A g \in LoaderHandle : Owned(g)'
<1>1. Jobs' = Jobs /\ \A g : Scheduled(g)' <=> Scheduled(g)
  BY DEF JobsKept, SameJobs, Jobs, Scheduled
<1>2. \A g \in LoaderHandle : SameOwner(g)
  BY <1>1 DEF SameOwner, LoaderHandle, Handle
<1> QED BY <1>2, OwnerKept DEF OwnerInv

LEMMA OwnerStep ==
  ASSUME IInv, OwnerInv, [Next]_vars
  PROVE  OwnerInv'
<1>0. /\ TypeOK /\ StackInv(stack, job) /\ CallChain(stack) /\ AuthHandles(stack) \subseteq limbo
  BY DEF IInv, OwnerInv
<1>c. CallChain(stack')
  BY <1>0, ChainStep
<1>s. SUFFICES (\A g \in LoaderHandle : Owned(g)') /\ AuthHandles(stack') \subseteq limbo'
  BY <1>c DEF OwnerInv
<1>1. CASE StartNext
  BY <1>1, NextOwned
<1>2. CASE UriDone
  BY <1>2, UriDoneOwned
<1>3. CASE AuthDrop
  BY <1>3, AuthDropOwned
<1>4. CASE \E h \in Handle : AuthCancel(h)
  <2>1. PICK h \in Handle : AuthCancel(h)
    BY <1>4
  <2>2. JobsKept(job, job') /\ UNCHANGED <<queue, limbo>>
    BY <1>0, <2>1, UnmovedStep
  <2>3. /\ UNCHANGED loader
        /\ \A g \in Handle : /\ rh'[g].refs = rh[g].refs
                             /\ rh'[g].alive = rh[g].alive
                             /\ rh'[g].client = rh[g].client
    BY <1>0, <2>1, Untouched
  <2>4. UriHandles(stack') = UriHandles(stack) /\ AuthHandles(stack') \subseteq {h}
    BY <1>0, <2>1, ChainCancel
  <2>5. h \in limbo'
    BY <2>1 DEF AuthCancel
  <2> QED BY <2>2, <2>3, <2>4, <2>5, UntouchedOwned
<1>5. CASE ~StartNext /\ ~UriDone /\ ~AuthDrop /\ \A h \in Handle : ~AuthCancel(h)
  <2>1. UriHandles(stack') = UriHandles(stack) /\ AuthHandles(stack') = AuthHandles(stack)
        /\ SameHandles(stack, stack')
    BY <1>0, <1>5, ChainSame DEF SameHandles
  <2>2. ASSUME NEW h \in Handle, StartLoad(h) \/ CancelLoad(h)
        PROVE  (\A g \in LoaderHandle : Owned(g)') /\ AuthHandles(stack') \subseteq limbo'
    <3>1. UNCHANGED limbo
      BY <2>2 DEF StartLoad, CancelLoad
    <3> QED BY <1>0, <2>1, <2>2, <3>1, StartOwned, CancelOwned
  <2>3. CASE (\E h \in Handle : SyncStart(h)) \/ SyncReturn
    <3>1. UNCHANGED limbo
      BY <2>3 DEF SyncStart, SyncReturn
    <3> QED BY <1>0, <1>c, <2>1, <2>3, <3>1, SyncOwned
  <2>4. CASE ClientReturn
    <3>1. UNCHANGED limbo
      BY <2>4 DEF ClientReturn
    <3> QED BY <1>0, <2>1, <2>4, <3>1, ReturnOwned
  <2>5. CASE EraseTold
    <3>1. At("dispose") /\ Erase(Top.h) /\ UNCHANGED <<queue, loader>>
      BY <2>5 DEF EraseTold
    <3>2. Top.h \in Handle /\ stack \in Seq(FrameType) /\ stack # << >>
          /\ Top = stack[1] /\ stack[1].at = "dispose"
      BY <1>0, <3>1, AtChain DEF HandleLabel
    <3>3. Top.h \in Jobs
      BY <1>0, <3>2, TopInv DEF Holder, Jobs
    <3>4. PICK h \in Handle : h = Top.h
      BY <3>2
    <3> QED BY <2>1, <3>1, <3>3, <3>4, EraseOwned
  <2>6. CASE EraseQuietly
    <3>1. PICK h \in Handle : IsNext(h, TRUE) /\ Erase(h)
      BY <2>6 DEF EraseQuietly
    <3>2. h \in Jobs /\ UNCHANGED <<queue, loader>>
      BY <2>6, <3>1 DEF IsNext, Ahead, EraseQuietly
    <3> QED BY <2>1, <3>1, <3>2, EraseOwned
  <2>7. ASSUME NEW h \in Handle, AuthProceed(h)
        PROVE  (\A g \in LoaderHandle : Owned(g)') /\ AuthHandles(stack') \subseteq limbo'
    BY <2>7, ProceedOwned
  <2>8. CASE \/ \E h \in Handle : HeadersReceived(h) \/ SetRedirect(h)
             \/ RemoveTransportHandler \/ Finalize \/ TimerFires
             \/ UriData \/ UriFinish
             \/ FirstStartDone \/ PassDone \/ AuthTickDone \/ CallbackDone
             \/ SweepStep \/ SweepTransfer \/ FirstLoopDone
             \/ TellFailure \/ SecondLoopDone
             \/ HeadersDone \/ DataRest \/ TransferReturn
             \/ \E h \in Handle : DataReceived(h)
             \/ \E h \in Handle, result \in BOOLEAN : DataDone(h, result)
             \/ \E h \in Handle : AuthCancel(h) \/ AuthDangling(h)
             \/ AuthFinish \/ SyncProcess \/ SyncTicked
             \/ TransportHandlerRemoved \/ Finalized
             \/ UNCHANGED vars
    <3>1. JobsKept(job, job') /\ UNCHANGED <<queue, limbo>>
      BY <1>0, <2>8, UnmovedStep, Zenon
    <3>2. /\ UNCHANGED loader
          /\ \A g \in Handle : /\ rh'[g].refs = rh[g].refs
                               /\ rh'[g].alive = rh[g].alive
                               /\ rh'[g].client = rh[g].client
      BY <1>0, <2>8, Untouched, Zenon
    <3> QED BY <1>0, <2>1, <3>1, <3>2, UntouchedOwned
  <2>9. \/ \E h \in Handle : StartLoad(h) \/ CancelLoad(h)
        \/ (\E h \in Handle : SyncStart(h)) \/ SyncReturn
        \/ ClientReturn \/ EraseTold \/ EraseQuietly
        \/ \E h \in Handle : AuthProceed(h)
        \/ \E h \in Handle : HeadersReceived(h) \/ SetRedirect(h)
        \/ RemoveTransportHandler \/ Finalize \/ TimerFires
        \/ UriData \/ UriFinish
        \/ FirstStartDone \/ PassDone \/ AuthTickDone \/ CallbackDone
        \/ SweepStep \/ SweepTransfer \/ FirstLoopDone
        \/ TellFailure \/ SecondLoopDone
        \/ HeadersDone \/ DataRest \/ TransferReturn
        \/ \E h \in Handle : DataReceived(h)
        \/ \E h \in Handle, result \in BOOLEAN : DataDone(h, result)
        \/ \E h \in Handle : AuthCancel(h) \/ AuthDangling(h)
        \/ AuthFinish \/ SyncProcess \/ SyncTicked
        \/ TransportHandlerRemoved \/ Finalized
        \/ UNCHANGED vars
    BY <1>5, Zenon DEF Next, Outside, Inside
  <2> QED BY <2>2, <2>3, <2>4, <2>5, <2>6, <2>7, <2>8, <2>9, Zenon
<1> QED BY <1>1, <1>2, <1>3, <1>4, <1>5

\* At first nothing is held.
LEMMA InitOwned == Init => OwnerInv
<1> SUFFICES ASSUME Init PROVE OwnerInv
  OBVIOUS
<1>1. stack = << >> /\ limbo = {} /\ Jobs = {} /\ queue = << >>
  BY DEF Init, Jobs, NoJob
<1>2. UriHandles(stack) = {} /\ AuthHandles(stack) = {} /\ \A g : ~Scheduled(g)
  BY <1>1, HandlesEmpty DEF UriHandles, AuthHandles, Scheduled
<1>3. CallChain(stack)
  BY <1>1 DEF CallChain
<1>4. ASSUME NEW g \in LoaderHandle PROVE Owned(g)
  <2>1. rh[g] = NoResourceHandle /\ loader[g] = "idle"
    BY DEF Init, LoaderHandle, Handle
  <2>2. /\ Loads(g) = 0 /\ Queued(g) = 0 /\ Working(g) = 0 /\ Asked(g) = 0 /\ Parsed(g) = 0
    BY <1>1, <1>2, <2>1 DEF Loads, Queued, Working, Asked, Parsed, One
  <2>3. Owners(g) = 0
    BY <2>2, OwnersSum
  <2>4. rh[g].refs = 0 /\ rh[g].alive = FALSE /\ rh[g].client = FALSE
    BY <2>1 DEF NoResourceHandle
  <2>5. rh[g].alive = (Owners(g) > 0)
    <3>1. (Owners(g) > 0) = FALSE
      BY <2>3
    <3> QED BY <2>4, <3>1
  <2>6. rh[g].client = (loader[g] = "loading")
    BY <2>1, <2>4
  <2> QED BY <1>1, <1>2, <2>3, <2>4, <2>5, <2>6 DEF Owned
<1> QED BY <1>1, <1>2, <1>3, <1>4 DEF OwnerInv

LEMMA OwnerInvariant == Spec => []OwnerInv
<1>1. OwnerInv /\ IInv /\ [Next]_vars => OwnerInv'
  BY OwnerStep
<1> QED BY <1>1, InitOwned, Invariant, PTL DEF Spec

\* Every reference to a loader's ResourceHandle has exactly one owner, which
\* gives it up once, and the ResourceHandle lives and has a client as long as
\* that says: whatever ProcessTHJobs, the AuthenticationManager, parseDataURI
\* and the clients they call back do in between, none of deref, setClient(0)
\* and remove is called once too often or not at all.
THEOREM RefsMatch == Spec => []RefsMatchOwners
<1>1. OwnerInv => RefsMatchOwners
  BY DEF OwnerInv, Owned, RefsMatchOwners
<1> QED BY <1>1, OwnerInvariant, PTL

\* A handle in the AuthenticationManager's list exists, as BeginAuthorization
\* promises, if a ResourceLoader made it: the only ones that dangle there are
\* those of synchronous loads, which no reference keeps alive.
THEOREM LimboLoadersAlive == Spec => [](\A h \in limbo \cap LoaderHandle : rh[h].alive)
<1>1. OwnerInv => \A h \in limbo \cap LoaderHandle : rh[h].alive
  <2> SUFFICES ASSUME OwnerInv, NEW h \in limbo \cap LoaderHandle PROVE rh[h].alive
    OBVIOUS
  <2>1. Asked(h) = 1
    BY DEF Asked, One
  <2>2. Owners(h) > 0
    BY <2>1, OwnersSum
  <2>3. rh[h].alive = (Owners(h) > 0)
    BY DEF OwnerInv, Owned
  <2> QED BY <2>2, <2>3
<1> QED BY <1>1, OwnerInvariant, PTL
=============================================================================
