---------------------------- MODULE PipelineProofs ----------------------------
(***************************************************************************)
(* Proofs about the two modules of CameraPipeline's own threads: FramePath *)
(* (Spec) and MotionHeatmap (HeatmapSpec), for any queue size, any delays, *)
(* any number of web requests, and any number of frames, hits, failures,   *)
(* settings changes and signals.                                           *)
(*                                                                         *)
(* Of the frame path.  FrameInv adds to FramesAccounted that a frame being *)
(* delivered is in none of the places the others are in, and that no frame *)
(* is in two.  StopInv adds to TailKept where the innermost stop can be,   *)
(* given what has become of the tail.  OpeningInv says which settings a    *)
(* stream can be opened with before a restart is pending.                  *)
(*                                                                         *)
(* Of the heatmap.  HInv adds to the three invariants who can hold which   *)
(* accumulator: Locks and Unpublished say who may change the one in use,   *)
(* Counts what its file and its temporary file hold while nothing was      *)
(* lost, LastSave what can still be unsaved when the process exits, and    *)
(* Overlapping that an apply_settings nobody overlapped is alone.          *)
(***************************************************************************)
EXTENDS FramePath, MotionHeatmap, FiniteSetTheorems, WellFoundedInduction, TLAPS


CapSteps  == {"looping", "opening", "opened", "reading", "delivering", "closing", "waiting",
              "returned"}
StopSteps == {"capture", "frames", "recorder", "flush", "release", "cache", "cache locked",
              "heatmap", "saving"}

-----------------------------------------------------------------------------
(* Sequences *)

LEMMA AppendSet ==
  ASSUME NEW S, NEW s \in Seq(S), NEW n \in S
  PROVE  ToSet(Append(s, n)) = ToSet(s) \union {n}
<1>1. /\ DOMAIN s = 1..Len(s) /\ Len(s) \in Nat
      /\ DOMAIN Append(s, n) = 1..(Len(s) + 1)
      /\ \A i \in 1..Len(s) : Append(s, n)[i] = s[i]
      /\ Append(s, n)[Len(s) + 1] = n
  OBVIOUS
<1>2. \A i \in 1..(Len(s) + 1) : i \in 1..Len(s) \/ i = Len(s) + 1
  BY <1>1
<1>3. 1..Len(s) \subseteq 1..(Len(s) + 1) /\ Len(s) + 1 \in 1..(Len(s) + 1)
  BY <1>1
<1> QED
  BY <1>1, <1>2, <1>3 DEF ToSet

LEMMA HeadTailSet ==
  ASSUME NEW S, NEW s \in Seq(S), s # <<>>
  PROVE  ToSet(s) = ToSet(Tail(s)) \union {Head(s)}
<1>1. Len(s) \in Nat \ {0} /\ DOMAIN s = 1..Len(s)
  OBVIOUS
<1>2. Tail(s) \in Seq(S) /\ DOMAIN Tail(s) = 1..(Len(s) - 1)
  BY <1>1
<1>3. \A i \in 1..(Len(s) - 1) : Tail(s)[i] = s[i + 1]
  OBVIOUS
<1>4. ASSUME NEW x \in ToSet(s) PROVE x \in ToSet(Tail(s)) \union {Head(s)}
  <2>1. PICK i \in 1..Len(s) : s[i] = x
    BY <1>1 DEF ToSet
  <2>2. CASE i = 1
    BY <2>1, <2>2
  <2>3. CASE i # 1
    <3>1. i - 1 \in 1..(Len(s) - 1) /\ (i - 1) + 1 = i
      BY <1>1, <2>1, <2>3
    <3>2. Tail(s)[i - 1] = x
      BY <1>3, <2>1, <3>1
    <3> QED
      BY <3>1, <3>2, <1>2 DEF ToSet
  <2> QED
    BY <2>2, <2>3
<1>5. ASSUME NEW x \in ToSet(Tail(s)) PROVE x \in ToSet(s)
  <2>1. PICK i \in 1..(Len(s) - 1) : Tail(s)[i] = x
    BY <1>2 DEF ToSet
  <2>2. i + 1 \in 1..Len(s) /\ s[i + 1] = x
    BY <1>1, <1>3, <2>1
  <2> QED
    BY <1>1, <2>2 DEF ToSet
<1>6. Head(s) \in ToSet(s)
  BY <1>1 DEF ToSet
<1> QED
  BY <1>4, <1>5, <1>6

LEMMA WiderSeq ==
  ASSUME NEW S, NEW T, S \subseteq T, NEW s \in Seq(S) PROVE s \in Seq(T)
OBVIOUS

-----------------------------------------------------------------------------
(* Types, in four parts.                                                    *)

CaptureTypes ==
  /\ capPc \in CapSteps /\ delay \in InitialDelay..MaxDelay
  /\ settings \in 0..MaxChanges /\ capSettings \in 0..settings
  /\ failures \in 0..MaxFailures

FrameTypes ==
  /\ captured \in 0..MaxFrames /\ (capPc = "delivering" => captured > 0)
  /\ queue \in Seq(Captured) /\ Len(queue) <= QueueSize
  /\ dropped \subseteq Captured /\ handled \subseteq Captured
  /\ framePc \in {"getting", "empty", "handling", "returned"}
  /\ inHand = None <=> framePc # "handling"

StopTypes ==
  /\ phase \in {"starting", "serving", "finally", "exited"} /\ signals \in 0..MaxSignals
  /\ stops \in Seq(StopSteps) /\ tail \in {"open", "taken", "kept", "lost"}

FlagTypes ==
  {stopEvent, restartEvent, applying, processStop, timedOut, cacheRunning, interrupted}
    \subseteq BOOLEAN

AllTypes == CaptureTypes /\ FrameTypes /\ StopTypes /\ FlagTypes

LEMMA TypesSuffice == AllTypes => TypeOK
BY DEF TypeOK, AllTypes, CaptureTypes, FrameTypes, StopTypes, FlagTypes, CapSteps, StopSteps

LEMMA TypeInit == Init => AllTypes
<1> SUFFICES ASSUME Init PROVE AllTypes
  OBVIOUS
<1>1. CaptureTypes
  <2>1. capPc = "looping" /\ delay = InitialDelay /\ settings = 0 /\ capSettings = 0 /\ failures = 0
    BY DEF Init
  <2> QED
    BY <2>1, FramePathAssumption DEF CaptureTypes, CapSteps
<1>2. FrameTypes
  <2>1. /\ captured = 0 /\ capPc = "looping" /\ queue = <<>> /\ dropped = {} /\ handled = {}
        /\ framePc = "getting" /\ inHand = None
    BY DEF Init
  <2> QED
    BY <2>1, FramePathAssumption DEF FrameTypes
<1>3. StopTypes
  <2>1. phase = "starting" /\ stops = <<>> /\ signals = 0 /\ tail = "open"
    BY DEF Init
  <2> QED
    BY <2>1, FramePathAssumption DEF StopTypes
<1>4. FlagTypes
  BY DEF Init, FlagTypes
<1> QED
  BY <1>1, <1>2, <1>3, <1>4 DEF AllTypes

\* Only the capture thread and a change of settings touch the first part.
LEMMA CaptureTypesKept == CaptureTypes /\ [Next]_vars => CaptureTypes'
<1> SUFFICES ASSUME CaptureTypes, [Next]_vars PROVE CaptureTypes'
  OBVIOUS
<1>1. CASE LoopOrReturn
  BY <1>1, FramePathAssumption DEF LoopOrReturn, CaptureTypes, CapSteps, configVars, ReadSettings
<1>2. CASE OpenFails
  BY <1>2, FramePathAssumption DEF OpenFails, CaptureTypes, CapSteps, configVars
<1>3. CASE OpenSucceeds
  BY <1>3, FramePathAssumption DEF OpenSucceeds, CaptureTypes, CapSteps, configVars
<1>4. CASE Connected
  <2>1. capPc' \in CapSteps /\ delay' = InitialDelay
    BY <1>4 DEF Connected, CapSteps
  <2>2. UNCHANGED <<capSettings, failures, settings>>
    BY <1>4 DEF Connected, configVars
  <2> QED
    BY <2>1, <2>2, FramePathAssumption DEF CaptureTypes
<1>5. CASE ReadFrame
  BY <1>5, FramePathAssumption DEF ReadFrame, CaptureTypes, CapSteps, configVars
<1>6. CASE ReadFails
  BY <1>6, FramePathAssumption DEF ReadFails, CaptureTypes, CapSteps, configVars
<1>7. CASE Deliver
  BY <1>7, FramePathAssumption DEF Deliver, CaptureTypes, CapSteps, configVars
<1>8. CASE CloseCapture
  <2>1. capPc' \in CapSteps /\ delay' = delay
    BY <1>8 DEF CloseCapture, CapSteps
  <2>2. UNCHANGED <<capSettings, failures, settings>>
    BY <1>8 DEF CloseCapture, configVars
  <2> QED
    BY <2>1, <2>2, FramePathAssumption DEF CaptureTypes
<1>9. CASE WaitToReconnect
  BY <1>9, FramePathAssumption DEF WaitToReconnect, CaptureTypes, CapSteps, configVars, Doubled
<1>10. CASE Frames \/ Stopping \/ Restart \/ Serve \/ Signal \/ UNCHANGED vars
  <2>1. UNCHANGED <<captureVars, settings>>
    BY <1>10 DEF Frames, GetFrame, GetTimesOut, StopIfTold, HandleFrame, Stopping, StopCapture,
       StopFrames, TakeTail, FlushTail, JoinAssembler, LockCache, StopCache, LockHeatmap, EndStop,
       Restart, Serve, Signal, vars, threadVars, configVars
  <2> QED
    BY <2>1 DEF CaptureTypes, captureVars
<1>11. CASE ChangeSettings
  <2>1. settings' = settings + 1 /\ settings < MaxChanges /\ UNCHANGED captureVars
    BY <1>11 DEF ChangeSettings
  <2> QED
    BY <2>1, FramePathAssumption DEF CaptureTypes, captureVars
<1> QED
  BY <1>1, <1>2, <1>3, <1>4, <1>5, <1>6, <1>7, <1>8, <1>9, <1>10, <1>11 DEF Next, Capture

LEMMA FlagTypesKept == FlagTypes /\ [Next]_vars => FlagTypes'
<1> SUFFICES ASSUME FlagTypes, [Next]_vars PROVE FlagTypes'
  OBVIOUS
<1>1. CASE Capture
  BY <1>1 DEF Capture, LoopOrReturn, OpenFails, OpenSucceeds, Connected, ReadFrame, ReadFails,
     Deliver, CloseCapture, WaitToReconnect, FlagTypes, configVars, stopVars, tailVars
<1>2. CASE Frames \/ UNCHANGED vars
  BY <1>2 DEF Frames, GetFrame, GetTimesOut, StopIfTold, HandleFrame, FlagTypes, vars, threadVars,
     configVars, stopVars, tailVars
<1>3. CASE ChangeSettings \/ Restart
  BY <1>3 DEF ChangeSettings, Restart, FlagTypes, stopVars, tailVars
<1>4. CASE Serve \/ Signal
  BY <1>4 DEF Serve, Signal, FlagTypes, threadVars, configVars, tailVars
<1>5. CASE Stopping
  BY <1>5 DEF Stopping, StopCapture, StopFrames, TakeTail, JoinFrames, FlushTail, JoinAssembler,
     LockCache, StopCache, LockHeatmap, EndStop, FlagTypes, threadVars, configVars, tailVars
<1> QED
  BY <1>1, <1>2, <1>3, <1>4, <1>5 DEF Next

-----------------------------------------------------------------------------
(* Frames *)

Known == handled \union dropped \union ToSet(queue) \union InHand

Nowhere == capPc = "delivering" => captured \notin Known

Apart ==
  /\ handled \cap (dropped \union ToSet(queue) \union InHand) = {}
  /\ dropped \cap (ToSet(queue) \union InHand) = {}

InOrder ==
  /\ \A i \in DOMAIN queue : \A f \in handled \union InHand : f < queue[i]
  /\ \A i, j \in DOMAIN queue : i < j => queue[i] < queue[j]

FrameInv == Captured = Known \union Undelivered /\ Nowhere /\ Apart /\ InOrder

MovesFrame == ReadFrame \/ Deliver \/ GetFrame \/ HandleFrame

\* Every other step leaves the frames where they are.
LEMMA FramesLeft ==
  ASSUME [Next]_vars, ~MovesFrame
  PROVE  /\ UNCHANGED <<captured, queue, dropped, inHand, handled>>
         /\ capPc' = "delivering" <=> capPc = "delivering"
<1>1. CASE Capture
  BY <1>1 DEF MovesFrame, Capture, LoopOrReturn, OpenFails, OpenSucceeds, Connected, ReadFails,
     CloseCapture, WaitToReconnect, frameVars
<1>2. CASE Frames
  BY <1>2 DEF MovesFrame, Frames, GetTimesOut, StopIfTold, captureVars
<1>3. CASE ChangeSettings \/ Restart \/ Serve \/ Signal \/ UNCHANGED vars
  BY <1>3 DEF ChangeSettings, Restart, Serve, Signal, vars, threadVars, captureVars, frameVars
<1>4. CASE Stopping
  BY <1>4 DEF Stopping, StopCapture, StopFrames, TakeTail, FlushTail, JoinAssembler, LockCache,
     StopCache, LockHeatmap, EndStop, threadVars, captureVars, frameVars
<1> QED
  BY <1>1, <1>2, <1>3, <1>4 DEF Next

LEMMA InHandCaptured ==
  ASSUME FrameInv, inHand # None PROVE inHand \in Captured
BY DEF FrameInv, Known, InHand

LEMMA FramePcLeft ==
  ASSUME FrameTypes, [Next]_vars, ~MovesFrame
  PROVE  /\ framePc' \in {"getting", "empty", "handling", "returned"}
         /\ framePc' = "handling" <=> framePc = "handling"
<1>1. CASE Frames
  BY <1>1 DEF MovesFrame, Frames, GetTimesOut, StopIfTold, FrameTypes
<1>2. CASE Capture
  BY <1>2 DEF MovesFrame, Capture, LoopOrReturn, OpenFails, OpenSucceeds, Connected, ReadFails,
     CloseCapture, WaitToReconnect, frameVars, FrameTypes
<1>3. CASE ChangeSettings \/ Restart \/ Serve \/ Signal \/ UNCHANGED vars
  BY <1>3 DEF ChangeSettings, Restart, Serve, Signal, vars, threadVars, frameVars, FrameTypes
<1>4. CASE Stopping
  BY <1>4 DEF Stopping, StopCapture, StopFrames, TakeTail, FlushTail, JoinAssembler, LockCache,
     StopCache, LockHeatmap, EndStop, threadVars, frameVars, FrameTypes
<1> QED
  BY <1>1, <1>2, <1>3, <1>4 DEF Next

LEMMA FrameTypesKept == FrameTypes /\ FrameInv /\ [Next]_vars => FrameTypes'
<1> SUFFICES ASSUME FrameTypes, FrameInv, [Next]_vars PROVE FrameTypes'
  OBVIOUS
<1>1. CASE ReadFrame
  <2>1. /\ captured' \in 0..MaxFrames /\ captured' > 0 /\ Captured \subseteq Captured'
        /\ capPc' = "delivering"
    BY <1>1, FramePathAssumption DEF ReadFrame, FrameTypes, Captured
  <2>2. UNCHANGED <<queue, dropped, frameVars>>
    BY <1>1 DEF ReadFrame
  <2>3. queue' \in Seq(Captured') /\ dropped' \subseteq Captured' /\ handled' \subseteq Captured'
    BY <2>1, <2>2, WiderSeq DEF FrameTypes, frameVars
  <2> QED
    BY <2>1, <2>2, <2>3 DEF FrameTypes, frameVars
<1>2. CASE Deliver
  <2>1. captured' = captured /\ captured \in Captured /\ Captured' = Captured
    BY <1>2, FramePathAssumption DEF Deliver, FrameTypes, Captured
  <2>2. queue' \in Seq(Captured') /\ Len(queue') <= QueueSize /\ dropped' \subseteq Captured'
    <3>1. queue \in Seq(Captured) /\ Len(queue) <= QueueSize /\ dropped \subseteq Captured
      BY DEF FrameTypes
    <3>2. CASE Len(queue) < QueueSize
      <4>1. queue' = Append(queue, captured) /\ dropped' = dropped
        BY <1>2, <3>2 DEF Deliver
      <4>2. queue' \in Seq(Captured) /\ Len(queue') = Len(queue) + 1 /\ Len(queue) \in Nat
        BY <2>1, <3>1, <4>1
      <4> QED
        BY <2>1, <3>1, <3>2, <4>1, <4>2, FramePathAssumption
    <3>3. CASE ~(Len(queue) < QueueSize)
      <4>1. queue' = queue /\ dropped' = dropped \union {captured}
        BY <1>2, <3>3 DEF Deliver, Shed
      <4> QED
        BY <2>1, <3>1, <4>1
    <3> QED
      BY <3>2, <3>3
  <2>3. UNCHANGED frameVars /\ capPc' \in {"closing", "reading"}
    BY <1>2 DEF Deliver
  <2> QED
    BY <2>1, <2>2, <2>3 DEF FrameTypes, frameVars
<1>3. CASE GetFrame
  <2>1. /\ queue # <<>> /\ inHand' = Head(queue) /\ queue' = Tail(queue) /\ framePc' = "handling"
        /\ UNCHANGED <<capPc, captured, dropped, handled>>
    BY <1>3 DEF GetFrame, captureVars
  <2>2. Captured' = Captured
    BY <2>1 DEF Captured
  <2>3. inHand' \in Captured /\ queue' \in Seq(Captured) /\ Len(queue') <= QueueSize
    BY <2>1, FramePathAssumption DEF FrameTypes
  <2>4. inHand' # None
    BY <2>3, FramePathAssumption DEF Captured, FrameTypes
  <2> QED
    BY <2>1, <2>2, <2>3, <2>4 DEF FrameTypes
<1>4. CASE HandleFrame
  <2>1. /\ framePc = "handling" /\ handled' = handled \union {inHand} /\ inHand' = None
        /\ framePc' = "getting" /\ UNCHANGED <<capPc, captured, queue, dropped>>
    BY <1>4 DEF HandleFrame, captureVars
  <2>2. inHand \in Captured /\ Captured' = Captured
    BY <2>1, InHandCaptured DEF FrameTypes, Captured
  <2> QED
    BY <2>1, <2>2 DEF FrameTypes
<1>5. CASE ~MovesFrame
  BY <1>5, FramesLeft, FramePcLeft DEF FrameTypes, Captured
<1> QED
  BY <1>1, <1>2, <1>3, <1>4, <1>5 DEF MovesFrame

LEMMA FrameInvKept == FrameTypes /\ FrameInv /\ [Next]_vars => FrameInv'
<1> SUFFICES ASSUME FrameTypes, FrameInv, [Next]_vars PROVE FrameInv'
  OBVIOUS
<1>0. captured \in Nat /\ queue \in Seq(Captured) /\ Captured = 1..captured
  BY FramePathAssumption DEF FrameTypes, Captured
<1>1. CASE ReadFrame
  <2>1. /\ capPc = "reading" /\ captured' = captured + 1 /\ capPc' = "delivering"
        /\ UNCHANGED <<queue, dropped, inHand, handled>>
    BY <1>1 DEF ReadFrame, frameVars
  <2>2. Known' = Known /\ (Apart' <=> Apart) /\ (InOrder' <=> InOrder)
    BY <2>1 DEF Known, InHand, Apart, InOrder
  <2>3. Undelivered = {} /\ Undelivered' = {captured'}
    BY <2>1 DEF Undelivered
  <2>4. Captured' = Captured \union {captured'} /\ captured' \notin Captured
    BY <1>0, <2>1 DEF Captured
  <2> QED
    BY <2>2, <2>3, <2>4 DEF FrameInv, Nowhere
<1>2. CASE Deliver
  <2>1. /\ capPc = "delivering" /\ capPc' # "delivering"
        /\ UNCHANGED <<captured, inHand, handled>>
    BY <1>2 DEF Deliver, frameVars
  <2>2. /\ captured \in Captured /\ captured \notin Known /\ Captured' = Captured
        /\ Undelivered = {captured} /\ Undelivered' = {} /\ InHand' = InHand
    BY <2>1 DEF FrameInv, Nowhere, Undelivered, Captured, InHand
  <2>3. \A f \in Known : f \in Nat /\ f < captured
    BY <1>0, <2>2 DEF FrameInv
  <2>4. CASE Len(queue) < QueueSize
    <3>1. queue' = Append(queue, captured) /\ dropped' = dropped
      BY <1>2, <2>4 DEF Deliver
    <3>2. ToSet(queue') = ToSet(queue) \union {captured}
      BY <1>0, <2>2, <3>1, AppendSet
    <3>3. Known' = Known \union {captured}
      BY <2>1, <2>2, <3>1, <3>2 DEF Known
    <3>4. Apart'
      BY <2>1, <2>2, <3>1, <3>2 DEF FrameInv, Apart, Known
    <3>5. /\ DOMAIN queue' = 1..(Len(queue) + 1) /\ DOMAIN queue = 1..Len(queue)
          /\ Len(queue) \in Nat
          /\ \A i \in 1..Len(queue) : queue'[i] = queue[i] /\ queue[i] \in Known
          /\ queue'[Len(queue) + 1] = captured
      BY <1>0, <3>1 DEF Known, ToSet
    <3>6. ASSUME NEW i \in DOMAIN queue', NEW f \in (handled \union InHand)' PROVE f < queue'[i]
      <4>1. f \in Known /\ f \in handled \union InHand
        BY <2>1, <2>2, <3>6 DEF Known
      <4>2. CASE i = Len(queue) + 1
        BY <2>3, <3>5, <4>1, <4>2
      <4>3. CASE i \in 1..Len(queue)
        BY <3>5, <4>1, <4>3 DEF FrameInv, InOrder
      <4> QED
        BY <3>5, <3>6, <4>2, <4>3
    <3>7. ASSUME NEW i \in DOMAIN queue', NEW j \in DOMAIN queue', i < j PROVE queue'[i] < queue'[j]
      <4>1. i \in 1..Len(queue)
        BY <3>5, <3>7
      <4>2. CASE j = Len(queue) + 1
        BY <2>3, <3>5, <4>1, <4>2
      <4>3. CASE j \in 1..Len(queue)
        BY <3>5, <3>7, <4>1, <4>3 DEF FrameInv, InOrder
      <4> QED
        BY <3>5, <3>7, <4>2, <4>3
    <3>8. InOrder'
      BY <3>6, <3>7 DEF InOrder
    <3> QED
      BY <2>1, <2>2, <3>3, <3>4, <3>8 DEF FrameInv, Nowhere
  <2>5. CASE ~(Len(queue) < QueueSize)
    <3>1. queue' = queue /\ dropped' = dropped \union {captured}
      BY <1>2, <2>1, <2>5 DEF Deliver, Shed
    <3>2. Known' = Known \union {captured}
      BY <2>1, <2>2, <3>1 DEF Known
    <3>3. Apart' /\ InOrder'
      BY <2>1, <2>2, <3>1 DEF FrameInv, Apart, InOrder, Known
    <3> QED
      BY <2>1, <2>2, <3>2, <3>3 DEF FrameInv, Nowhere
  <2> QED
    BY <2>4, <2>5
<1>3. CASE GetFrame
  <2>1. /\ framePc = "getting" /\ queue # <<>> /\ inHand' = Head(queue) /\ queue' = Tail(queue)
        /\ UNCHANGED <<capPc, captured, dropped, handled>>
    BY <1>3 DEF GetFrame, captureVars
  <2>2. /\ Len(queue) \in Nat \ {0} /\ DOMAIN queue = 1..Len(queue) /\ Head(queue) = queue[1]
        /\ DOMAIN queue' = 1..(Len(queue) - 1)
        /\ \A i \in DOMAIN queue' : queue'[i] = queue[i + 1] /\ i + 1 \in DOMAIN queue
    BY <1>0, <2>1
  <2>3. inHand' \in Captured
    BY <1>0, <2>1
  <2>4. InHand = {} /\ InHand' = {Head(queue)}
    BY <1>0, <2>1, <2>3, FramePathAssumption DEF FrameTypes, InHand
  <2>5. ToSet(queue) = ToSet(queue') \union InHand'
    BY <1>0, <2>1, <2>4, HeadTailSet
  <2>6. Known' = Known /\ Captured' = Captured /\ Undelivered' = Undelivered
    BY <2>1, <2>4, <2>5 DEF Known, Captured, Undelivered
  <2>7. Apart'
    BY <2>1, <2>4, <2>5 DEF FrameInv, Apart
  <2>8. ASSUME NEW i \in DOMAIN queue', NEW f \in (handled \union InHand)' PROVE f < queue'[i]
    <3>1. CASE f \in handled
      BY <2>2, <2>8, <3>1 DEF FrameInv, InOrder
    <3>2. CASE f = queue[1]
      <4>1. 1 \in DOMAIN queue /\ i + 1 \in DOMAIN queue /\ 1 < i + 1 /\ queue'[i] = queue[i + 1]
        BY <2>2, <2>8
      <4> QED
        BY <3>2, <4>1 DEF FrameInv, InOrder
    <3> QED
      BY <2>1, <2>2, <2>4, <2>8, <3>1, <3>2
  <2>9. ASSUME NEW i \in DOMAIN queue', NEW j \in DOMAIN queue', i < j PROVE queue'[i] < queue'[j]
    <3>1. i + 1 \in DOMAIN queue /\ j + 1 \in DOMAIN queue /\ i + 1 < j + 1
      BY <2>2, <2>9
    <3> QED
      BY <2>2, <2>9, <3>1 DEF FrameInv, InOrder
  <2>10. InOrder'
    BY <2>8, <2>9 DEF InOrder
  <2> QED
    BY <2>1, <2>6, <2>7, <2>10 DEF FrameInv, Nowhere
<1>4. CASE HandleFrame
  <2>1. /\ framePc = "handling" /\ handled' = handled \union {inHand} /\ inHand' = None
        /\ UNCHANGED <<capPc, captured, queue, dropped>>
    BY <1>4 DEF HandleFrame, captureVars
  <2>2. inHand # None /\ InHand = {inHand} /\ InHand' = {}
    BY <2>1 DEF FrameTypes, InHand
  <2>3. Known' = Known /\ Captured' = Captured /\ Undelivered' = Undelivered
    BY <2>1, <2>2 DEF Known, Captured, Undelivered
  <2>4. inHand \notin ToSet(queue)
    <3>1. inHand \in Nat /\ \A i \in DOMAIN queue : inHand < queue[i]
      BY <1>0, <2>2, InHandCaptured DEF FrameInv, InOrder
    <3> QED
      BY <3>1 DEF ToSet
  <2>5. Apart' /\ InOrder'
    BY <2>1, <2>2, <2>4 DEF FrameInv, Apart, InOrder
  <2> QED
    BY <2>1, <2>3, <2>5 DEF FrameInv, Nowhere
<1>5. CASE ~MovesFrame
  <2>1. /\ Known' = Known /\ Captured' = Captured /\ Undelivered' = Undelivered
        /\ (Apart' <=> Apart) /\ (InOrder' <=> InOrder) /\ (Nowhere' <=> Nowhere)
    BY <1>5, FramesLeft DEF Known, Captured, Undelivered, InHand, Apart, InOrder, Nowhere
  <2> QED
    BY <2>1 DEF FrameInv
<1> QED
  BY <1>1, <1>2, <1>3, <1>4, <1>5 DEF MovesFrame

LEMMA FrameInit == Init => FrameInv
<1> SUFFICES ASSUME Init PROVE FrameInv
  OBVIOUS
<1>1. captured = 0 /\ queue = <<>> /\ handled = {} /\ dropped = {} /\ inHand = None /\ capPc = "looping"
  BY DEF Init
<1>2. DOMAIN queue = {} /\ ToSet(queue) = {} /\ InHand = {} /\ Captured = {} /\ Undelivered = {}
  BY <1>1 DEF ToSet, InHand, Captured, Undelivered
<1> QED
  BY <1>1, <1>2 DEF FrameInv, Known, Nowhere, Apart, InOrder

-----------------------------------------------------------------------------
(* The stop.  Only the innermost stop of the stack matters.                 *)

Top == IF stops = <<>> THEN "none" ELSE Last(stops)

Flushed == {"flush", "release", "cache", "cache locked", "heatmap", "saving"}

StopInv ==
  /\ Top \in Flushed => tail # "open"
  /\ tail = "open" \/ Top = "flush" => cacheRunning
  /\ tail = "taken" => Top = "flush" \/ interrupted
  /\ TailKept

LEMMA LastReplaced ==
  ASSUME NEW S, NEW s \in Seq(S), s # <<>>, NEW y \in S, NEW t, t = [s EXCEPT ![Len(s)] = y]
  PROVE  t \in Seq(S) /\ t # <<>> /\ Last(t) = y
<1>1. Len(s) \in 1..Len(s) /\ s \in [1..Len(s) -> S]
  OBVIOUS
<1>2. t \in Seq(S) /\ Len(t) = Len(s) /\ t[Len(s)] = y
  BY <1>1
<1> QED
  BY <1>1, <1>2 DEF Last

LEMMA LastAppended ==
  ASSUME NEW S, NEW s \in Seq(S), NEW y \in S
  PROVE  Append(s, y) \in Seq(S) /\ Append(s, y) # <<>> /\ Last(Append(s, y)) = y
BY DEF Last

LEMMA ThenTop ==
  ASSUME StopTypes, NEW x, NEW y \in StopSteps, At(x), Then(y)
  PROVE  stops' \in Seq(StopSteps) /\ Top = x /\ Top' = y
<1>1. stops \in Seq(StopSteps) /\ stops # <<>> /\ Last(stops) = x
      /\ stops' = [stops EXCEPT ![Len(stops)] = y]
  BY DEF StopTypes, At, Then
<1>2. stops' \in Seq(StopSteps) /\ stops' # <<>> /\ Last(stops') = y
  <2>1. stops' = [stops EXCEPT ![Len(stops)] = y]
    BY <1>1
  <2> QED
    BY <1>1, <2>1, LastReplaced, Zenon
<1> QED
  BY <1>1, <1>2 DEF Top

LEMMA StopsKept ==
  ASSUME StopTypes, Stopping, ~EndStop PROVE stops' \in Seq(StopSteps)
<1>1. CASE StopCapture \/ StopFrames \/ TakeTail
  BY <1>1, ThenTop DEF StopCapture, StopFrames, TakeTail, StopSteps, NextToStop
<1>2. CASE FlushTail \/ JoinAssembler \/ LockCache \/ StopCache \/ LockHeatmap
  BY <1>2, ThenTop DEF FlushTail, JoinAssembler, LockCache, StopCache, LockHeatmap, StopSteps
<1> QED
  BY <1>1, <1>2 DEF Stopping

LEMMA StopsAreSteps ==
  ASSUME NEW s, s = <<>> \/ s = <<"capture">> PROVE s \in Seq(StopSteps)
<1>1. <<>> \in Seq(StopSteps)
  OBVIOUS
<1>2. "capture" \in StopSteps
  BY DEF StopSteps
<1>3. <<"capture">> \in Seq(StopSteps)
  BY <1>2
<1> QED
  BY <1>1, <1>3

LEMMA StopTypesKept == StopTypes /\ [Next]_vars => StopTypes'
<1> SUFFICES ASSUME StopTypes, [Next]_vars PROVE StopTypes'
  OBVIOUS
<1>1. CASE Stopping
  <2>1. CASE EndStop
    <3>1. /\ UNCHANGED <<tail, signals>>
          /\ \/ phase' = "finally" /\ stops' = <<"capture">>
             \/ phase' = "exited" /\ stops' = <<>>
      BY <2>1 DEF EndStop, LeaveStop, tailVars
    <3> QED
      BY <3>1, StopsAreSteps DEF StopTypes
  <2>2. CASE ~EndStop
    <3>1. stops' \in Seq(StopSteps)
      BY <1>1, <2>2, StopsKept
    <3>2. phase' = phase /\ signals' = signals /\ tail' \in {tail, "taken", "kept", "lost"}
      BY <1>1, <2>2 DEF Stopping, StopCapture, StopFrames, TakeTail, FlushTail, JoinAssembler,
         LockCache, StopCache, LockHeatmap, tailVars
    <3> QED
      BY <3>1, <3>2 DEF StopTypes
  <2> QED
    BY <2>1, <2>2
<1>2. CASE Signal
  <2>1. /\ signals < MaxSignals /\ signals' = signals + 1 /\ stops' = Append(stops, "capture")
        /\ UNCHANGED <<phase, tail>>
    BY <1>2 DEF Signal
  <2>2. stops' \in Seq(StopSteps)
    BY <2>1, LastAppended DEF StopTypes, StopSteps
  <2> QED
    BY <2>1, <2>2, FramePathAssumption DEF StopTypes
<1>3. CASE Serve
  BY <1>3 DEF Serve, StopTypes, tailVars
<1>4. CASE Capture \/ Frames \/ ChangeSettings \/ Restart \/ UNCHANGED vars
  <2>1. UNCHANGED <<phase, signals, stops, tail>>
    BY <1>4 DEF Capture, LoopOrReturn, OpenFails, OpenSucceeds, Connected, ReadFrame, ReadFails,
       Deliver, CloseCapture, WaitToReconnect, Frames, GetFrame, GetTimesOut, StopIfTold,
       HandleFrame, ChangeSettings, Restart, stopVars, tailVars, vars
  <2> QED
    BY <2>1 DEF StopTypes
<1> QED
  BY <1>1, <1>2, <1>3, <1>4 DEF Next

LEMMA TypesKept == AllTypes /\ FrameInv /\ [Next]_vars => AllTypes'
BY CaptureTypesKept, FrameTypesKept, StopTypesKept, FlagTypesKept DEF AllTypes

LEMMA StopInit == Init => StopInv
BY DEF Init, StopInv, Top, Flushed, TailKept

LEMMA StopInvKept == StopTypes /\ StopInv /\ [Next]_vars => StopInv'
<1> SUFFICES ASSUME StopTypes, StopInv, [Next]_vars PROVE StopInv'
  OBVIOUS
<1>1. CASE Stopping
  <2>2. CASE StopCapture \/ StopFrames
    <3>1. UNCHANGED <<phase, tail, cacheRunning, interrupted>>
      BY <2>2 DEF StopCapture, StopFrames, tailVars
    <3>2. Top' \in {"frames", "recorder"} /\ Top # "flush"
      BY <2>2, ThenTop DEF StopCapture, StopFrames, NextToStop, StopSteps
    <3> QED
      BY <3>1, <3>2 DEF StopInv, Flushed, TailKept
  <2>3. CASE TakeTail /\ tail = "open"
    <3>1. tail' = "taken" /\ UNCHANGED <<phase, cacheRunning, interrupted>>
      BY <2>3 DEF TakeTail
    <3>2. Top' = "flush"
      BY <2>3, ThenTop DEF TakeTail, StopSteps
    <3> QED
      BY <2>3, <3>1, <3>2 DEF StopInv, Flushed, TailKept
  <2>4. CASE TakeTail /\ tail # "open"
    <3>1. UNCHANGED <<tail, phase, cacheRunning, interrupted>>
      BY <2>4 DEF TakeTail
    <3>2. Top = "recorder" /\ Top' = "cache"
      BY <2>4, ThenTop DEF TakeTail, StopSteps
    <3> QED
      BY <2>4, <3>1, <3>2 DEF StopInv, Flushed, TailKept
  <2>5. CASE FlushTail
    <3>1. Top = "flush" /\ Top' = "release"
      BY <2>5, ThenTop DEF FlushTail, StopSteps
    <3>2. tail' = "kept" /\ UNCHANGED <<phase, cacheRunning, interrupted>>
      BY <2>5, <3>1 DEF FlushTail, StopInv
    <3> QED
      BY <3>1, <3>2 DEF StopInv, Flushed, TailKept
  <2>6. CASE JoinAssembler \/ LockCache \/ LockHeatmap
    <3>1. UNCHANGED <<tail, phase, cacheRunning, interrupted>>
      BY <2>6 DEF JoinAssembler, LockCache, LockHeatmap, tailVars
    <3>2. /\ Top \in {"release", "cache", "heatmap"} /\ Top' \in {"cache", "cache locked", "saving"}
      BY <2>6, ThenTop DEF JoinAssembler, LockCache, LockHeatmap, StopSteps
    <3> QED
      BY <3>1, <3>2 DEF StopInv, Flushed, TailKept
  <2>7. CASE StopCache
    <3>1. UNCHANGED <<tail, phase, interrupted>>
      BY <2>7 DEF StopCache
    <3>2. Top = "cache locked" /\ Top' = "heatmap"
      BY <2>7, ThenTop DEF StopCache, StopSteps
    <3> QED
      BY <3>1, <3>2 DEF StopInv, Flushed, TailKept
  <2>8. CASE EndStop
    <3>1. /\ UNCHANGED <<tail, cacheRunning, interrupted>>
          /\ \/ phase' = "finally" /\ stops' = <<"capture">>
             \/ phase' = "exited" /\ stops' = <<>>
      BY <2>8 DEF EndStop, LeaveStop, tailVars
    <3>2. Top \in {"heatmap", "saving"}
      BY <2>8 DEF EndStop, At, Top
    <3>3. Top' \in {"capture", "none"}
      BY <3>1 DEF Top, Last
    <3>4. tail = "kept" \/ interrupted
      BY <3>2 DEF StopInv, Flushed, TailKept, StopTypes
    <3> QED
      BY <3>1, <3>2, <3>3, <3>4 DEF StopInv, Flushed, TailKept
  <2> QED
    BY <1>1, <2>2, <2>3, <2>4, <2>5, <2>6, <2>7, <2>8 DEF Stopping
<1>2. CASE Signal
  <2>1. /\ stops' = Append(stops, "capture") /\ UNCHANGED <<phase, tail, cacheRunning>>
    BY <1>2 DEF Signal
  <2>2. Top' = "capture"
    <3>1. stops \in Seq(StopSteps) /\ "capture" \in StopSteps
      BY DEF StopTypes, StopSteps
    <3>2. stops' # <<>> /\ Last(stops') = "capture"
      BY <2>1, <3>1, LastAppended
    <3> QED
      BY <3>2 DEF Top
  <2>3. Top = "flush" \/ interrupted => interrupted'
    BY <1>2 DEF Signal, Top
  <2> QED
    BY <2>1, <2>2, <2>3 DEF StopInv, Flushed, TailKept
<1>3. CASE Serve
  <2>1. phase' = "serving" /\ UNCHANGED <<stops, tail, cacheRunning, interrupted>>
    BY <1>3 DEF Serve, tailVars
  <2>2. Top' = Top
    BY <2>1 DEF Top
  <2> QED
    BY <2>1, <2>2 DEF StopInv, TailKept
<1>4. CASE Capture \/ Frames \/ ChangeSettings \/ Restart \/ UNCHANGED vars
  <2>1. UNCHANGED <<phase, stops, tail, cacheRunning, interrupted>>
    BY <1>4 DEF Capture, LoopOrReturn, OpenFails, OpenSucceeds, Connected, ReadFrame, ReadFails,
       Deliver, CloseCapture, WaitToReconnect, Frames, GetFrame, GetTimesOut, StopIfTold,
       HandleFrame, ChangeSettings, Restart, stopVars, tailVars, vars
  <2>2. Top' = Top
    BY <2>1 DEF Top
  <2> QED
    BY <2>1, <2>2 DEF StopInv, TailKept
<1> QED
  BY <1>1, <1>2, <1>3, <1>4 DEF Next

-----------------------------------------------------------------------------
(* No frame is handled once the frame thread has returned.                  *)

LEMMA ReturnedStays ==
  ASSUME [Next]_vars, framePc = "returned" PROVE framePc' = "returned"
<1>1. CASE Frames
  BY <1>1 DEF Frames, GetFrame, GetTimesOut, StopIfTold, HandleFrame
<1>2. CASE Capture \/ ChangeSettings \/ Restart \/ Serve \/ Signal \/ Stopping \/ UNCHANGED vars
  BY <1>2 DEF Capture, LoopOrReturn, OpenFails, OpenSucceeds, Connected, ReadFrame, ReadFails,
     Deliver, CloseCapture, WaitToReconnect, ChangeSettings, Restart, Serve, Signal, Stopping,
     StopCapture, StopFrames, TakeTail, FlushTail, JoinAssembler, LockCache, StopCache,
     LockHeatmap, EndStop, threadVars, frameVars, vars
<1> QED
  BY <1>1, <1>2 DEF Next

LEMMA FlushKept == StopTypes /\ StopInv /\ FlushComesLast /\ [Next]_vars => FlushComesLast'
<1> SUFFICES ASSUME StopTypes, StopInv, FlushComesLast, [Next]_vars,
                    (tail # "open")', (~timedOut)'
             PROVE  framePc' = "returned"
  BY DEF FlushComesLast
<1>1. ~timedOut
  BY DEF Next, Capture, LoopOrReturn, OpenFails, OpenSucceeds, Connected, ReadFrame, ReadFails,
     Deliver, CloseCapture, WaitToReconnect, Frames, GetFrame, GetTimesOut, StopIfTold,
     HandleFrame, ChangeSettings, Restart, Serve, Signal, Stopping, StopCapture, StopFrames,
     TakeTail, JoinFrames, FlushTail, JoinAssembler, LockCache, StopCache, LockHeatmap, EndStop,
     stopVars, vars
<1>2. CASE tail # "open"
  BY <1>1, <1>2, ReturnedStays DEF FlushComesLast
<1>3. CASE tail = "open"
  <2>1. TakeTail
    <3>1. ~FlushTail
      <4>1. ASSUME FlushTail PROVE FALSE
        <5>1. Top = "flush"
          BY <4>1 DEF FlushTail, At, Top
        <5> QED
          BY <1>3, <5>1 DEF StopInv, Flushed
      <4> QED
        BY <4>1
    <3> QED
      BY <1>3, <3>1 DEF Next, Capture, LoopOrReturn, OpenFails, OpenSucceeds, Connected,
         ReadFrame, ReadFails, Deliver, CloseCapture, WaitToReconnect, Frames, GetFrame,
         GetTimesOut, StopIfTold, HandleFrame, ChangeSettings, Restart, Serve, Signal, Stopping,
         StopCapture, StopFrames, JoinAssembler, LockCache, StopCache, LockHeatmap, EndStop,
         stopVars, tailVars, vars
  <2>2. framePc = "returned"
    BY <2>1 DEF TakeTail, JoinFrames
  <2> QED
    BY <2>2, ReturnedStays
<1> QED
  BY <1>2, <1>3

LEMMA FlushInit == Init => FlushComesLast
BY DEF Init, FlushComesLast

-----------------------------------------------------------------------------
IInv == AllTypes /\ FrameInv /\ StopInv /\ FlushComesLast

\* The four parts are an inductive invariant.
THEOREM IInvAlways == Spec => []IInv
<1>1. Init => IInv
  BY TypeInit, FrameInit, StopInit, FlushInit DEF IInv
<1>2. IInv /\ [Next]_vars => IInv'
  BY TypesKept, FrameInvKept, StopInvKept, FlushKept DEF IInv, AllTypes
<1> QED
  BY <1>1, <1>2, PTL DEF Spec

\* Every variable keeps its type: the capture's delay stays between its
\* bounds, the queue within its size and the stack of stops well formed.
THEOREM FramePathTypeCorrect == Spec => []TypeOK
<1>1. IInv => TypeOK
  BY TypesSuffice DEF IInv
<1> QED
  BY <1>1, IInvAlways, PTL

\* capture.py, pipeline._on_frame and _process_loop lose no frame silently, and
\* hand each to the recorder once and in its turn.
THEOREM FramesAlwaysAccounted == Spec => []FramesAccounted
<1>1. IInv => FramesAccounted
  BY DEF IInv, FrameInv, Known, Apart, InOrder, FramesAccounted
<1> QED
  BY <1>1, IInvAlways, PTL

\* pipeline.stop flushes the recorder after the last frame, unless a join
\* timed out, however the signals are nested.
THEOREM FlushAlwaysLast == Spec => []FlushComesLast
<1>1. IInv => FlushComesLast
  BY DEF IInv
<1> QED
  BY <1>1, IInvAlways, PTL

\* pipeline.stop assembles the window open at the shutdown while the segment
\* cache still runs, however often it is started over.
THEOREM TailAlwaysKept == Spec => []TailKept
<1>1. IInv => TailKept
  BY DEF IInv, StopInv
<1> QED
  BY <1>1, IInvAlways, PTL
-----------------------------------------------------------------------------
(* Restarts *)

\* While a stream is being opened, new settings have reached it, or the restart
\* that follows them is still to come or has come.
OpeningInv ==
  capPc \in {"opening", "opened"} => capSettings = settings \/ applying \/ restartEvent

LEMMA OpeningKept == OpeningInv /\ [Next]_vars => OpeningInv'
<1> SUFFICES ASSUME OpeningInv, [Next]_vars PROVE OpeningInv'
  OBVIOUS
<1> USE DEF OpeningInv
<1>1. CASE Capture
  BY <1>1 DEF Capture, LoopOrReturn, ReadSettings, OpenFails, OpenSucceeds, Connected, ReadFrame,
     ReadFails, Deliver, CloseCapture, WaitToReconnect, configVars
<1>2. CASE Frames \/ UNCHANGED vars
  BY <1>2 DEF Frames, GetFrame, GetTimesOut, StopIfTold, HandleFrame, vars, threadVars,
     captureVars, configVars
<1>3. CASE ChangeSettings \/ Restart
  BY <1>3 DEF ChangeSettings, Restart, captureVars
<1>4. CASE Serve \/ Signal \/ Stopping
  BY <1>4 DEF Serve, Signal, Stopping, StopCapture, StopFrames, TakeTail, FlushTail,
     JoinAssembler, LockCache, StopCache, LockHeatmap, EndStop, threadVars, captureVars,
     configVars
<1> QED
  BY <1>1, <1>2, <1>3, <1>4 DEF Next

LEMMA StaleFromOpening ==
  OpeningInv /\ [Next]_vars => [~Stale /\ Stale' => Connected /\ restartEvent]_vars
<1> SUFFICES ASSUME OpeningInv, Next, ~Stale, Stale' PROVE Connected /\ restartEvent
  OBVIOUS
<1> USE DEF Stale
<1>1. CASE Connected
  BY <1>1 DEF Connected, OpeningInv, configVars
<1>2. CASE Deliver
  BY <1>2 DEF Deliver, configVars
<1>3. CASE Capture /\ ~Connected /\ ~Deliver
  BY <1>3 DEF Capture, LoopOrReturn, OpenFails, OpenSucceeds, ReadFrame, ReadFails,
     CloseCapture, WaitToReconnect, configVars
<1>4. CASE Frames
  BY <1>4 DEF Frames, GetFrame, GetTimesOut, StopIfTold, HandleFrame, captureVars, configVars
<1>5. CASE ChangeSettings \/ Restart
  BY <1>5 DEF ChangeSettings, Restart
<1>6. CASE Serve \/ Signal \/ Stopping
  BY <1>6 DEF Serve, Signal, Stopping, StopCapture, StopFrames, TakeTail, FlushTail,
     JoinAssembler, LockCache, StopCache, LockHeatmap, EndStop, threadVars, captureVars,
     configVars
<1> QED
  BY <1>1, <1>2, <1>3, <1>4, <1>5, <1>6 DEF Next

\* A stream is read on settings that were replaced only if the restart came
\* while capture.py was opening it, whose success clears the event
\* (capture.py:93): in no other order of a change, its restart and the
\* capture thread's steps is a restart missed.
THEOREM RestartsOnlyMissedOpening == Spec => StaleOnlyFromOpening
<1>1. Init => OpeningInv
  BY DEF Init, OpeningInv
<1>2. OpeningInv /\ [Next]_vars => OpeningInv'
  BY OpeningKept
<1>3. OpeningInv /\ [Next]_vars => [~Stale /\ Stale' => Connected /\ restartEvent]_vars
  BY StaleFromOpening
<1> QED
  BY <1>1, <1>2, <1>3, PTL DEF Spec, StaleOnlyFromOpening

-----------------------------------------------------------------------------
(* The heatmap: the inductive invariant                                    *)

Array       == [width : {0, 1}, count : Int]
Accumulator == [path : Paths, width : {0, 1}, dirty : BOOLEAN, lock : Threads \union {None},
                count : Int]
FrameStates == {"idle", "checking", "publishing", "adding", "locking", "returned"}
UseStates   == {"loading", "locking", "replacing"}
ThreadStates == UseStates \union {"idle", "configuring", "repathing", "checking", "dropping",
                                  "joining", "exiting", "returned"}
Reference   == Ids \union {None}
ThreadState == [at : ThreadStates, task : {"apply", "reset", "save", None}, ref : Reference,
                settings : Settings, overlapped : BOOLEAN]

FlatTypes ==
  /\ up \in BOOLEAN /\ saved \in Settings /\ path \in Paths /\ width \in {0, 1}
  /\ current \in Reference
  /\ frame \in [at : FrameStates, width : {0, 1}, ref : Reference]
  /\ thread \in [Threads -> ThreadState]
  /\ file \in [Paths -> Array \union {None}] /\ temp \in [Paths -> Array \union {None}]
  /\ expected \in Int \union {None}

HeapTypes == accumulators \in [Referenced -> Accumulator]

\* Where a thread can be, what for, and when it has an accumulator in hand.
Places ==
  /\ ~up => current = None /\ frame = NoFrame /\ \A t \in Threads : thread[t] = Waiting
  /\ frame.ref # None <=> frame.at \in {"publishing", "locking"}
  /\ \A t \in Threads :
       /\ thread[t].ref # None <=> thread[t].at \in {"locking", "replacing", "dropping"}
       /\ thread[t].at \in {"configuring", "repathing", "checking", "dropping"} =>
            t \in Requests /\ thread[t].task = "apply"
       /\ thread[t].task = "apply" =>
            /\ t \in Requests
            /\ thread[t].at \in {"configuring", "repathing", "checking", "dropping"} \union UseStates
  /\ \A r \in Requests : thread[r].at \notin {"joining", "exiting", "returned"}
  /\ thread["persist"].at \in UseStates \union {"idle", "returned"}
  /\ thread["main"].at \in UseStates \union {"idle", "joining", "exiting"}

\* An accumulator is locked by the thread that is between the two halves of its
\* save, and marked as unsaved meanwhile.
Locks ==
  /\ \A i \in Referenced : accumulators[i].lock # None =>
       /\ thread[accumulators[i].lock].at = "replacing"
       /\ thread[accumulators[i].lock].ref = i
       /\ accumulators[i].dirty
  /\ \A t \in Threads : thread[t].at = "replacing" => accumulators[thread[t].ref].lock = t

\* A new accumulator is nobody else's, and there is no other meanwhile.
Unpublished ==
  frame.at = "publishing" =>
    /\ current = None /\ \A t \in Threads : thread[t].ref # frame.ref
    /\ accumulators[frame.ref].lock = None

\* Two apply_settings at a time overlap each other, and one that nobody has
\* overlapped since it looked finds the accumulator it has seen.
Overlapping ==
  /\ \A r \in Requests, q \in Applying :
       r # q /\ thread[r].task = "apply"
             /\ thread[r].at \in {"configuring", "repathing", "checking", "loading"}
         => thread[r].overlapped
  /\ \A r \in Requests :
       thread[r].task = "apply" /\ thread[r].at = "loading" /\ ~thread[r].overlapped
         => current # None
  /\ ~failedAlone

\* While nothing was lost: the accumulator in use has the hits, or the file has
\* them when there is none; one that is not marked as unsaved agrees with its
\* file; what a save has written is what it is about to put in the file's place.
Agrees(a) == a.count = LoadOrNew(a.path, a.width)
Counts ==
  expected # None =>
    /\ Shown = expected
    /\ frame.at = "publishing" => Agrees(accumulators[frame.ref])
    /\ current # None =>
         /\ ~accumulators[current].dirty => Agrees(accumulators[current])
         /\ accumulators[current].lock # None =>
              temp[accumulators[current].path] = Content(accumulators[current])

\* While nothing was lost: the main thread saves when the two others are done,
\* and after that only a request can have left something unsaved.
LastSave ==
  expected # None /\ thread["main"].at \notin {"idle", "joining"} =>
    /\ frame.at = "returned" /\ thread["persist"].at = "returned"
    /\ thread["main"].at = "exiting" /\ Unsaved => accumulators[current].lock \in Requests

HInv == FlatTypes /\ HeapTypes /\ Places /\ Locks /\ Unpublished /\ Overlapping /\ Counts /\ LastSave

-----------------------------------------------------------------------------
(* Facts about the heatmap that the proofs keep needing                    *)

LEMMA LeastOf ==
  ASSUME NEW N, N \subseteq Nat, N # {}
  PROVE  \E n \in N : \A m \in N : n <= m
<1>1. \E n \in N : \A m \in N : <<m, n>> \notin OpToRel(<, Nat)
  BY NatLessThanWellFounded, WFMin
<1>2. ASSUME NEW m \in N, NEW n \in N, <<m, n>> \notin OpToRel(<, Nat) PROVE n <= m
  BY <1>2 DEF OpToRel
<1> QED
  BY <1>1, <1>2

LEMMA NoneFacts ==
  /\ None \notin Int /\ None \notin Threads /\ None \notin Array
  /\ None # "apply" /\ None # "reset" /\ None # "save"
  /\ "main" \in Threads /\ "persist" \in Threads /\ Requests \subseteq Threads
  /\ "main" \notin Requests /\ "persist" \notin Requests
  /\ None \notin Ids /\ Threads = Requests \union {"persist", "main"}
BY HeatmapAssumption DEF HeatmapAssumption, Threads, Array, Ids

LEMMA LoadType ==
  ASSUME FlatTypes, NEW p \in Paths, NEW w
  PROVE  LoadOrNew(p, w) \in Int
BY NoneFacts DEF FlatTypes, LoadOrNew, Array

LEMMA ExpectType ==
  ASSUME FlatTypes, NEW lost, NEW count, expected # None => count \in Int, Expect(lost, count)
  PROVE  expected' \in Int \union {None}
BY DEF FlatTypes, Expect

LEMMA BecomeValues ==
  ASSUME NEW accs, Become(accs)
  PROVE  /\ DOMAIN accumulators' = Referenced'
         /\ \A i \in Referenced' : accumulators'[i] = accs[i]
BY DEF Become, Restrict

LEMMA BecomeType ==
  ASSUME NEW accs, Become(accs), \A i \in Referenced' : accs[i] \in Accumulator
  PROVE  HeapTypes'
BY DEF Become, Restrict, HeapTypes

LEMMA RefsAre ==
  ASSUME FlatTypes
  PROVE  /\ current # None => current \in Referenced
         /\ frame.ref # None => frame.ref \in Referenced
         /\ \A t \in Threads : thread[t].ref # None => thread[t].ref \in Referenced
         /\ Referenced \subseteq Ids
BY DEF FlatTypes, Referenced, Reference, ThreadState

\* The accumulator a thread has in hand.
LEMMA InHandType ==
  ASSUME FlatTypes, HeapTypes, Places
  PROVE  /\ current # None => accumulators[current] \in Accumulator
         /\ frame.at \in {"publishing", "locking"} => accumulators[frame.ref] \in Accumulator
         /\ \A t \in Threads : thread[t].at \in {"locking", "replacing", "dropping"} =>
              /\ thread[t].ref \in Referenced /\ accumulators[thread[t].ref] \in Accumulator
BY RefsAre DEF HeapTypes, Places

LEMMA FreeId ==
  ASSUME FlatTypes, Places, frame.at = "checking", current = None
  PROVE  LET id == CHOOSE i \in Ids : i \notin Referenced /\ 1..(i - 1) \subseteq Referenced
         IN  id \in Ids /\ id \notin Referenced
<1> DEFINE n == Cardinality(Requests)
           refs == {thread[t].ref : t \in Threads}
<1>1. IsFiniteSet(Requests) /\ n \in Nat
  BY HeatmapAssumption, FS_CardinalityType DEF HeatmapAssumption
<1>2. IsFiniteSet(Threads) /\ Cardinality(Threads) = n + 2
  <2>1. IsFiniteSet(Requests \union {"persist"}) /\ Cardinality(Requests \union {"persist"}) = n + 1
    BY <1>1, NoneFacts, FS_AddElement
  <2>2. "main" \notin Requests \union {"persist"}
    BY NoneFacts
  <2>3. /\ IsFiniteSet((Requests \union {"persist"}) \union {"main"})
        /\ Cardinality((Requests \union {"persist"}) \union {"main"}) = (n + 1) + 1
    BY <2>1, <2>2, FS_AddElement
  <2>4. Threads = (Requests \union {"persist"}) \union {"main"}
    BY DEF Threads
  <2> QED
    BY <1>1, <2>3, <2>4
<1>3. IsFiniteSet(refs) /\ Cardinality(refs) <= n + 2
  <2> DEFINE f == [t \in Threads |-> thread[t].ref]
  <2>1. f \in Surjection(Threads, refs)
    BY DEF Surjection
  <2>2. IsFiniteSet(refs) /\ Cardinality(refs) <= Cardinality(Threads)
    BY <1>2, <2>1, FS_Surjection
  <2> QED
    BY <1>2, <2>2
<1>4. Referenced \subseteq refs
  BY DEF Referenced, Places
<1>5. IsFiniteSet(Referenced) /\ Cardinality(Referenced) <= n + 2
  <2>1. IsFiniteSet(Referenced) /\ Cardinality(Referenced) <= Cardinality(refs)
    BY <1>3, <1>4, FS_Subset
  <2>2. Cardinality(Referenced) \in Nat /\ Cardinality(refs) \in Nat
    BY <1>3, <2>1, FS_CardinalityType
  <2> QED
    BY <1>1, <1>3, <2>1, <2>2
<1>6. Ids = 1..(n + 3) /\ IsFiniteSet(Ids) /\ Cardinality(Ids) = n + 3
  <2>1. IsFiniteSet(1..(n + 3)) /\ Cardinality(1..(n + 3)) = n + 3
    BY <1>1, FS_Interval
  <2> QED
    BY <2>1 DEF Ids
<1>7. PICK i \in Ids : i \notin Referenced
  <2>1. SUFFICES ASSUME Ids \subseteq Referenced PROVE FALSE
    OBVIOUS
  <2>2. Cardinality(Ids) <= Cardinality(Referenced)
    BY <1>5, <2>1, FS_Subset
  <2>3. Cardinality(Referenced) \in Nat
    BY <1>5, FS_CardinalityType
  <2> QED
    BY <1>1, <1>5, <1>6, <2>2, <2>3
<1> DEFINE Free == {k \in Nat : k \in Ids /\ k \notin Referenced}
<1>8. PICK k \in Free : \A j \in Free : k <= j
  <2>1. Free \in SUBSET Nat /\ Free # {}
    BY <1>6, <1>7
  <2> QED
    BY <2>1, LeastOf
<1>9. 1..(k - 1) \subseteq Referenced
  <2> SUFFICES ASSUME NEW j \in 1..(k - 1), j \notin Referenced PROVE FALSE
    OBVIOUS
  <2>1. k \in 1..(n + 3)
    BY <1>6, <1>8
  <2>2. j \in Nat /\ j < k /\ j \in 1..(n + 3)
    BY <1>1, <2>1
  <2>3. j \in Free
    BY <1>6, <2>2
  <2> QED
    BY <1>8, <2>1, <2>2, <2>3
<1> QED
  BY <1>8, <1>9

-----------------------------------------------------------------------------
(* Types are kept                                                          *)

LEMMA HeatmapSteps ==
  ASSUME HeatmapNext
  PROVE  \/ BeginFrame \/ FrameStep
         \/ \E r \in Requests : Request(r)
         \/ \E t \in Threads : Use(t)
         \/ PersistWakes \/ PersistReturns \/ Stop \/ JoinThreads
         \/ Exit \/ Crash \/ Start
BY NoneFacts DEF HeatmapNext, Persist

LEMMA WaitingTypes ==
  /\ Waiting \in ThreadState
  /\ \A at \in ThreadStates : [Waiting EXCEPT !.at = at] \in ThreadState
  /\ NoFrame \in [at : FrameStates, width : {0, 1}, ref : Reference]
BY DEF Waiting, NoFrame, ThreadState, ThreadStates, FrameStates, Reference, Settings

LEMMA FrameStepTypes ==
  ASSUME FlatTypes, HeapTypes, Places, BeginFrame \/ FrameStep PROVE FlatTypes'
<1>1. CASE BeginFrame \/ FindAccumulator \/ LoadToAdd \/ FramesEnd
  BY <1>1, WaitingTypes DEF BeginFrame, FindAccumulator, LoadToAdd, FramesEnd, FlatTypes,
     settingVars, heat, ghosts, NoFrame, FrameStates, Reference
<1>2. CASE NewAccumulator
  <2>1. PICK id \in Ids : frame' = [NoFrame EXCEPT !.at = "publishing", !.ref = id]
    BY <1>2, FreeId DEF NewAccumulator
  <2>2. UNCHANGED <<up, settingVars, current, file, temp, thread, ghosts>>
    BY <1>2 DEF NewAccumulator
  <2> QED
    BY <2>1, <2>2 DEF FlatTypes, settingVars, ghosts, NoFrame, FrameStates, Reference
<1>3. CASE Publish
  <2>1. expected' \in Int \union {None}
    BY <1>3, ExpectType DEF Publish, FlatTypes
  <2>2. frame' = [NoFrame EXCEPT !.at = "adding"] /\ current' = frame.ref
    BY <1>3 DEF Publish
  <2>3. UNCHANGED <<up, settingVars, file, temp, thread>>
    BY <1>3 DEF Publish
  <2> QED
    BY <2>1, <2>2, <2>3 DEF FlatTypes, settingVars, NoFrame, FrameStates, Reference
<1>4. CASE Add
  <2>1. expected # None => (IF frame.ref = current THEN expected + 1 ELSE expected) \in Int
    BY DEF FlatTypes
  <2>2. expected' \in Int \union {None}
    BY <1>4, <2>1, ExpectType DEF Add
  <2>3. frame' = NoFrame /\ UNCHANGED <<up, settingVars, current, file, temp, thread>>
    BY <1>4 DEF Add
  <2> QED
    BY <2>2, <2>3, WaitingTypes DEF FlatTypes, settingVars
<1> QED
  BY <1>1, <1>2, <1>3, <1>4 DEF FrameStep

LEMMA ContentType ==
  ASSUME NEW a \in Accumulator, NEW t
  PROVE  /\ Content(a) \in Array /\ Content(Cleared(t, a)) \in Array
         /\ Cleared(t, a) \in Accumulator
         /\ Cleared(t, a).path = a.path /\ Cleared(t, a).width = a.width
         /\ Cleared(t, a).lock = a.lock
         /\ thread[t].task # "reset" => Cleared(t, a) = a
         /\ thread[t].task = "reset" => Cleared(t, a).count = 0 /\ Cleared(t, a).dirty
<1> DEFINE c == [a EXCEPT !.count = 0, !.dirty = TRUE]
<1>0. c \in Accumulator
  <2>1. [a EXCEPT !.count = 0] \in Accumulator
    BY DEF Accumulator
  <2>2. \A b \in Accumulator : [b EXCEPT !.dirty = TRUE] \in Accumulator
    BY DEF Accumulator
  <2> QED
    BY <2>1, <2>2
<1>1. /\ c \in Accumulator /\ c.path = a.path /\ c.width = a.width /\ c.lock = a.lock
      /\ c.count = 0 /\ c.dirty
  <2>1. c.path = a.path /\ c.width = a.width /\ c.lock = a.lock /\ c.count = 0
    BY DEF Accumulator
  <2>2. c.dirty = TRUE
    BY DEF Accumulator
  <2> QED
    BY <1>0, <2>1, <2>2
<1>2. Cleared(t, a) = IF thread[t].task = "reset" THEN c ELSE a
  BY DEF Cleared
<1>3. Cleared(t, a) \in Accumulator
  BY <1>1, <1>2
<1>4. \A b \in Accumulator : Content(b) \in Array
  BY DEF Content, Array, Accumulator
<1> HIDE DEF c
<1> QED
  BY <1>1, <1>2, <1>3, <1>4

\* A thread stays a thread when one of its fields changes.
LEMMA ThreadFields ==
  ASSUME NEW x \in ThreadState
  PROVE  /\ \A at \in ThreadStates : [x EXCEPT !.at = at] \in ThreadState
         /\ \A task \in {"apply", "reset", "save"} : [x EXCEPT !.task = task] \in ThreadState
         /\ \A s \in Settings : [x EXCEPT !.settings = s] \in ThreadState
<1>1. \A at \in ThreadStates : [x EXCEPT !.at = at] \in ThreadState
  BY DEF ThreadState
<1>2. \A task \in {"apply", "reset", "save"} : [x EXCEPT !.task = task] \in ThreadState
  BY DEF ThreadState
<1>3. \A s \in Settings : [x EXCEPT !.settings = s] \in ThreadState
  BY DEF ThreadState
<1> QED
  BY <1>1, <1>2, <1>3

\* Where the steps of one thread leave it.
LEMMA ThreadGoes ==
  ASSUME FlatTypes, NEW t \in Threads
  PROVE  /\ \A at \in ThreadStates : Goto(t, at) => thread' \in [Threads -> ThreadState]
         /\ Finish(t) => thread' \in [Threads -> ThreadState]
         /\ Saved(t) => thread' \in [Threads -> ThreadState]
         /\ \A task \in {"apply", "reset", "save"} :
              CheckAccumulator(t, task) => thread' \in [Threads -> ThreadState]
<1> USE DEF FlatTypes
<1>1. \A at \in ThreadStates : Goto(t, at) => thread' \in [Threads -> ThreadState]
  BY DEF Goto, ThreadState
<1>2. Finish(t) => thread' \in [Threads -> ThreadState]
  BY WaitingTypes DEF Finish, ThreadStates
<1>3. Saved(t) => thread' \in [Threads -> ThreadState]
  BY <1>1, <1>2 DEF Saved, ThreadStates
<1>4. \A task \in {"apply", "reset", "save"} :
        CheckAccumulator(t, task) => thread' \in [Threads -> ThreadState]
  <2> SUFFICES ASSUME NEW task \in {"apply", "reset", "save"}, CheckAccumulator(t, task)
               PROVE  thread' \in [Threads -> ThreadState]
    OBVIOUS
  <2>1. /\ [thread[t] EXCEPT !.at = "loading", !.task = task] \in ThreadState
        /\ [thread[t] EXCEPT !.at = "exiting"] \in ThreadState
    <3> DEFINE x == thread[t]
               y == [x EXCEPT !.at = "loading"]
    <3>1. x \in ThreadState /\ {"loading", "exiting"} \subseteq ThreadStates
      BY DEF ThreadStates, UseStates
    <3>2. y \in ThreadState /\ [x EXCEPT !.at = "exiting"] \in ThreadState
      <4> HIDE DEF x
      <4> QED
        BY <3>1, ThreadFields
    <3>3. [y EXCEPT !.task = task] \in ThreadState
      <4> HIDE DEF y
      <4> QED
        BY <3>2, ThreadFields
    <3>4. [x EXCEPT !.at = "loading", !.task = task] = [y EXCEPT !.task = task]
      OBVIOUS
    <3> QED
      BY <3>2, <3>3, <3>4
  <2> PICK s \in ThreadState : thread' = [thread EXCEPT ![t] = s]
    BY <2>1, WaitingTypes DEF CheckAccumulator
  <2> QED
    OBVIOUS
<1> QED
  BY <1>1, <1>2, <1>3, <1>4

LEMMA UseTypesKept ==
  ASSUME FlatTypes, HeapTypes, Places, NEW t \in Threads, Use(t) PROVE FlatTypes'
<1>1. CASE Check(t)
  BY <1>1, ThreadGoes DEF Check, FlatTypes, settingVars, heat, ghosts
<1>2. CASE Load(t)
  <2>1. thread' \in [Threads -> ThreadState]
    BY <1>2, ThreadGoes DEF Load, FlatTypes, ThreadState, ThreadStates, UseStates, Reference
  <2> QED
    BY <1>2, <2>1 DEF Load, FlatTypes, settingVars, heat
<1>3. CASE LockAndWrite(t)
  <2> DEFINE a == Cleared(t, accumulators[thread[t].ref])
  <2>1. a \in Accumulator /\ Content(a) \in Array /\ thread[t].ref \in Referenced
    BY <1>3, InHandType, ContentType DEF LockAndWrite, IsAt
  <2>2. thread' \in [Threads -> ThreadState]
    BY <1>3, ThreadGoes DEF LockAndWrite, ThreadStates, UseStates
  <2>3. expected' \in Int \union {None}
    BY <1>3, ExpectType DEF LockAndWrite, FlatTypes
  <2>4. temp' \in [Paths -> Array \union {None}]
    BY <1>3, <2>1 DEF LockAndWrite, FlatTypes, Accumulator
  <2>5. UNCHANGED <<up, settingVars, current, file, frame>>
    BY <1>3 DEF LockAndWrite
  <2> QED
    BY <2>2, <2>3, <2>4, <2>5 DEF FlatTypes, settingVars
<1>4. CASE WriteFails(t)
  <2>1. thread' \in [Threads -> ThreadState] /\ expected' \in Int \union {None}
    BY <1>4, ThreadGoes, ExpectType DEF WriteFails, FlatTypes
  <2>2. UNCHANGED <<up, settingVars, current, frame, file, temp>>
    BY <1>4 DEF WriteFails
  <2> QED
    BY <2>1, <2>2 DEF FlatTypes, settingVars
<1>5. CASE ReplaceFile(t)
  <2>1. thread' \in [Threads -> ThreadState] /\ expected' \in Int \union {None}
    BY <1>5, ThreadGoes, ExpectType DEF ReplaceFile, FlatTypes
  <2>2. accumulators[thread[t].ref].path \in Paths
    BY <1>5, InHandType DEF ReplaceFile, IsAt, Accumulator
  <2>3. file' \in [Paths -> Array \union {None}] /\ temp' \in [Paths -> Array \union {None}]
    BY <1>5, <2>2 DEF ReplaceFile, FlatTypes
  <2>4. UNCHANGED <<up, settingVars, current, frame>>
    BY <1>5 DEF ReplaceFile
  <2> QED
    BY <2>1, <2>3, <2>4 DEF FlatTypes, settingVars
<1> QED
  BY <1>1, <1>2, <1>3, <1>4, <1>5 DEF Use

LEMMA RequestTypesKept ==
  ASSUME FlatTypes, HeapTypes, Places, NEW r \in Requests, Request(r) PROVE FlatTypes'
<1>0. r \in Threads
  BY NoneFacts
<1>1. CASE BeginApply(r)
  <2>1. PICK s \in Settings :
          /\ saved' = s
          /\ thread' = [t \in Threads |->
               IF t = r THEN [Waiting EXCEPT !.at = "configuring", !.task = "apply",
                                             !.settings = s, !.overlapped = Applying # {}]
               ELSE IF t \in Applying THEN [thread[t] EXCEPT !.overlapped = TRUE]
               ELSE thread[t]]
    BY <1>1 DEF BeginApply
  <2>2. \A t \in Threads : [thread[t] EXCEPT !.overlapped = TRUE] \in ThreadState
    BY DEF FlatTypes, ThreadState
  <2>3. [Waiting EXCEPT !.at = "configuring", !.task = "apply",
                        !.settings = s, !.overlapped = Applying # {}] \in ThreadState
    BY DEF Waiting, ThreadState, ThreadStates, Reference
  <2>4. thread' \in [Threads -> ThreadState]
    BY <2>1, <2>2, <2>3 DEF FlatTypes
  <2> QED
    BY <1>1, <2>1, <2>4 DEF BeginApply, FlatTypes, heat, ghosts
<1>2. CASE Configure(r)
  <2>1. width' \in {0, 1} /\ thread' \in [Threads -> ThreadState]
    BY <1>0, <1>2, ThreadGoes DEF Configure, FlatTypes, ThreadState, ThreadStates, Settings
  <2>2. expected' \in Int \union {None}
    BY <1>2, LoadType, ExpectType DEF Configure, FlatTypes
  <2> QED
    BY <1>2, <2>1, <2>2 DEF Configure, FlatTypes, heat
<1>3. CASE Repath(r)
  <2>1. path' \in Paths /\ current' \in Reference
    BY <1>0, <1>3 DEF Repath, FlatTypes, ThreadState, Settings, Paths, Reference
  <2>2. thread' \in [Threads -> ThreadState]
    <3>1. [thread[r] EXCEPT !.at = "checking", !.settings = <<0, 0>>] \in ThreadState
      <4> DEFINE x == thread[r]
                 y == [x EXCEPT !.at = "checking"]
      <4>1. x \in ThreadState /\ "checking" \in ThreadStates /\ <<0, 0>> \in Settings
        BY <1>0 DEF FlatTypes, ThreadStates, Settings
      <4>2. y \in ThreadState
        <5> HIDE DEF x
        <5> QED
          BY <4>1, ThreadFields
      <4>3. [y EXCEPT !.settings = <<0, 0>>] \in ThreadState
        <5> HIDE DEF y
        <5> QED
          BY <4>1, <4>2, ThreadFields
      <4> QED
        BY <4>3
    <3>2. thread' = [thread EXCEPT ![r] = [thread[r] EXCEPT !.at = "checking", !.settings = <<0, 0>>]]
      BY <1>0, <1>3 DEF Repath, FlatTypes
    <3> QED
      BY <3>1, <3>2 DEF FlatTypes
  <2>3. expected' \in Int \union {None}
    BY <1>3, <2>1, LoadType, ExpectType DEF Repath, FlatTypes
  <2> QED
    BY <1>3, <2>1, <2>2, <2>3 DEF Repath, FlatTypes
<1>4. CASE Drop(r)
  <2>1. thread' \in [Threads -> ThreadState] /\ current' \in Reference
    BY <1>0, <1>4, ThreadGoes DEF Drop, Reference
  <2>2. expected' \in Int \union {None}
    BY <1>4, LoadType, ExpectType DEF Drop, FlatTypes, Stored
  <2> QED
    BY <1>4, <2>1, <2>2 DEF Drop, FlatTypes, settingVars
<1>5. CASE BeginReset(r)
  BY <1>0, <1>5, ThreadGoes DEF BeginReset, FlatTypes, settingVars, heat, ghosts
<1> QED
  BY <1>1, <1>2, <1>3, <1>4, <1>5 DEF Request

LEMMA ProcessTypesKept ==
  ASSUME FlatTypes, HeapTypes, Places,
         PersistWakes \/ PersistReturns \/ Stop \/ JoinThreads \/ Exit \/ Crash \/ Start
  PROVE  FlatTypes'
<1>0. "main" \in Threads /\ "persist" \in Threads
  BY NoneFacts
<1>1. CASE PersistWakes \/ PersistReturns \/ Stop
  BY <1>0, <1>1, ThreadGoes DEF PersistWakes, PersistReturns, Stop, FlatTypes, settingVars, heat,
     ghosts, ThreadStates
<1>2. CASE JoinThreads
  <2>1. thread' \in [Threads -> ThreadState] /\ expected' \in Int \union {None}
    BY <1>0, <1>2, ThreadGoes, ExpectType DEF JoinThreads, FlatTypes
  <2> QED
    BY <1>2, <2>1 DEF JoinThreads, FlatTypes, settingVars, heat
<1>3. CASE Exit \/ Crash
  <2>1. expected' \in Int \union {None}
    BY <1>3, LoadType, ExpectType DEF Exit, Crash, FlatTypes, Stored
  <2>2. LoseMemory /\ UNCHANGED <<settingVars, file, temp>>
    BY <1>3 DEF Exit, Crash
  <2> QED
    BY <2>1, <2>2, WaitingTypes DEF LoseMemory, FlatTypes, settingVars, Reference
<1>4. CASE Start
  <2>1. path' \in Paths /\ width' \in {0, 1}
    BY <1>4 DEF Start, FlatTypes, Settings, Paths
  <2>2. expected' \in Int \union {None}
    BY <1>4, <2>1, LoadType, ExpectType DEF Start, FlatTypes
  <2> QED
    BY <1>4, <2>1, <2>2 DEF Start, FlatTypes
<1> QED
  BY <1>1, <1>2, <1>3, <1>4

LEMMA FlatTypesKept ==
  FlatTypes /\ HeapTypes /\ Places /\ [HeatmapNext]_heatmapVars => FlatTypes'
<1> SUFFICES ASSUME FlatTypes, HeapTypes, Places, [HeatmapNext]_heatmapVars PROVE FlatTypes'
  OBVIOUS
<1>1. CASE UNCHANGED heatmapVars
  BY <1>1 DEF heatmapVars, settingVars, heat, ghosts, FlatTypes
<1>2. CASE HeatmapNext
  BY <1>2, HeatmapSteps, FrameStepTypes, UseTypesKept, RequestTypesKept, ProcessTypesKept
<1> QED
  BY <1>1, <1>2

-----------------------------------------------------------------------------
(* Where the steps take the threads                                        *)

EndOf(t) == IF t = "main" THEN "exiting" ELSE "idle"

MovesTo(t, at, task, ref, overlapped) ==
  /\ thread' \in [Threads -> ThreadState]
  /\ thread'[t].at = at /\ thread'[t].task = task /\ thread'[t].ref = ref
  /\ thread'[t].overlapped = overlapped
  /\ \A u \in Threads \ {t} : thread'[u] = thread[u]

LEMMA StateMoves ==
  ASSUME FlatTypes, NEW t \in Threads, NEW s \in ThreadState, thread' = [thread EXCEPT ![t] = s]
  PROVE  MovesTo(t, s.at, s.task, s.ref, s.overlapped)
BY DEF FlatTypes, MovesTo

LEMMA GotoMoves ==
  ASSUME FlatTypes, NEW t \in Threads, NEW at \in ThreadStates, Goto(t, at)
  PROVE  MovesTo(t, at, thread[t].task, thread[t].ref, thread[t].overlapped)
<1> DEFINE s == [thread[t] EXCEPT !.at = at]
<1>1. thread[t] \in ThreadState
  BY DEF FlatTypes
<1>2. s \in ThreadState /\ s.at = at /\ s.task = thread[t].task /\ s.ref = thread[t].ref
      /\ s.overlapped = thread[t].overlapped
  <2>1. s \in ThreadState
    BY <1>1 DEF ThreadState
  <2>2. s.at = at /\ s.task = thread[t].task /\ s.ref = thread[t].ref
    BY <1>1 DEF ThreadState
  <2>3. s.overlapped = thread[t].overlapped
    BY <1>1 DEF ThreadState
  <2> QED
    BY <2>1, <2>2, <2>3
<1>3. thread' = [thread EXCEPT ![t] = s]
  BY DEF Goto, FlatTypes
<1> HIDE DEF s
<1> QED
  BY <1>2, <1>3, StateMoves

LEMMA FinishMoves ==
  ASSUME FlatTypes, NEW t \in Threads, Finish(t)
  PROVE  MovesTo(t, EndOf(t), None, None, FALSE)
<1> DEFINE s == IF t = "main" THEN [Waiting EXCEPT !.at = "exiting"] ELSE Waiting
<1>1. s \in ThreadState
  BY WaitingTypes DEF ThreadStates
<1>2. s.at = EndOf(t) /\ s.task = None /\ s.ref = None /\ s.overlapped = FALSE
  BY DEF EndOf, Waiting
<1>3. thread' = [thread EXCEPT ![t] = s]
  BY DEF Finish
<1> HIDE DEF s
<1> QED
  BY <1>1, <1>2, <1>3, StateMoves

LEMMA SavedMoves ==
  ASSUME FlatTypes, NEW t \in Threads, Saved(t)
  PROVE  IF thread[t].task = "apply"
         THEN MovesTo(t, "dropping", thread[t].task, thread[t].ref, thread[t].overlapped)
         ELSE MovesTo(t, EndOf(t), None, None, FALSE)
BY GotoMoves, FinishMoves DEF Saved, ThreadStates

LEMMA CheckMoves ==
  ASSUME FlatTypes, NEW t \in Threads, NEW task \in {"apply", "reset", "save"},
         CheckAccumulator(t, task)
  PROVE  IF current # None
         THEN MovesTo(t, "loading", task, thread[t].ref, thread[t].overlapped)
         ELSE IF t = "main"
              THEN MovesTo(t, "exiting", thread[t].task, thread[t].ref, thread[t].overlapped)
              ELSE MovesTo(t, "idle", None, None, FALSE)
<1>1. thread[t] \in ThreadState
  BY DEF FlatTypes
<1>2. CASE current # None
  <2> DEFINE s == [thread[t] EXCEPT !.at = "loading", !.task = task]
  <2>1. s \in ThreadState
    BY <1>1 DEF ThreadState, ThreadStates, UseStates
  <2>2. s.at = "loading" /\ s.task = task /\ s.ref = thread[t].ref
    BY <1>1 DEF ThreadState
  <2>3. s.overlapped = thread[t].overlapped
    BY <1>1 DEF ThreadState
  <2>4. thread' = [thread EXCEPT ![t] = s]
    BY <1>2 DEF CheckAccumulator
  <2> HIDE DEF s
  <2> QED
    BY <1>2, <2>1, <2>2, <2>3, <2>4, StateMoves
<1>3. CASE current = None /\ t = "main"
  <2>1. Goto(t, "exiting")
    BY <1>3 DEF Goto, CheckAccumulator, FlatTypes
  <2> QED
    BY <1>3, <2>1, GotoMoves DEF ThreadStates
<1>4. CASE current = None /\ t # "main"
  <2>1. Finish(t)
    BY <1>4 DEF Finish, CheckAccumulator
  <2> QED
    BY <1>4, <2>1, FinishMoves DEF EndOf
<1> QED
  BY <1>2, <1>3, <1>4

LEMMA LoadMoves ==
  ASSUME FlatTypes, NEW t \in Threads, Load(t)
  PROVE  IF current = None THEN MovesTo(t, EndOf(t), None, None, FALSE)
         ELSE MovesTo(t, "locking", thread[t].task, current, FALSE)
<1>1. thread[t] \in ThreadState /\ current \in Reference
  BY DEF FlatTypes
<1>2. CASE current = None
  BY <1>2, FinishMoves DEF Load
<1>3. CASE current # None
  <2> DEFINE s == [thread[t] EXCEPT !.at = "locking", !.ref = current, !.overlapped = FALSE]
  <2>1. s \in ThreadState
    BY <1>1 DEF ThreadState, ThreadStates, UseStates
  <2>2. s.at = "locking" /\ s.task = thread[t].task /\ s.ref = current
    BY <1>1 DEF ThreadState
  <2>3. s.overlapped = FALSE
    BY <1>1 DEF ThreadState
  <2>4. thread' = [thread EXCEPT ![t] = s]
    BY <1>3 DEF Load, FlatTypes
  <2> HIDE DEF s
  <2> QED
    BY <1>3, <2>1, <2>2, <2>3, <2>4, StateMoves
<1> QED
  BY <1>2, <1>3

LEMMA RepathMoves ==
  ASSUME FlatTypes, NEW r \in Requests, Repath(r)
  PROVE  MovesTo(r, "checking", thread[r].task, thread[r].ref, thread[r].overlapped)
<1>1. r \in Threads /\ thread[r] \in ThreadState
  BY NoneFacts DEF FlatTypes
<1> DEFINE s == [thread[r] EXCEPT !.at = "checking", !.settings = <<0, 0>>]
<1>2. s \in ThreadState
  BY <1>1 DEF ThreadState, ThreadStates, Settings
<1>3. s.at = "checking" /\ s.task = thread[r].task /\ s.ref = thread[r].ref
  BY <1>1 DEF ThreadState
<1>4. s.overlapped = thread[r].overlapped
  BY <1>1 DEF ThreadState
<1>5. thread' = [thread EXCEPT ![r] = s]
  BY <1>1 DEF Repath, FlatTypes
<1> HIDE DEF s
<1> QED
  BY <1>1, <1>2, <1>3, <1>4, <1>5, StateMoves

\* A new apply_settings overlaps those that run.
LEMMA BeginApplyMoves ==
  ASSUME FlatTypes, NEW r \in Requests, BeginApply(r)
  PROVE  /\ thread'[r].at = "configuring" /\ thread'[r].task = "apply" /\ thread'[r].ref = None
         /\ thread'[r].overlapped <=> Applying # {}
         /\ \A u \in Threads \ {r} :
              /\ thread'[u].at = thread[u].at /\ thread'[u].task = thread[u].task
              /\ thread'[u].ref = thread[u].ref
              /\ thread[u].overlapped \/ u \in Applying => thread'[u].overlapped
<1>0. r \in Threads
  BY NoneFacts
<1>1. PICK s \in Settings :
          thread' = [t \in Threads |->
             IF t = r THEN [Waiting EXCEPT !.at = "configuring", !.task = "apply",
                                           !.settings = s, !.overlapped = Applying # {}]
             ELSE IF t \in Applying THEN [thread[t] EXCEPT !.overlapped = TRUE]
             ELSE thread[t]]
  BY DEF BeginApply
<1>2. /\ thread'[r].at = "configuring" /\ thread'[r].task = "apply" /\ thread'[r].ref = None
  BY <1>0, <1>1 DEF Waiting
<1>3. thread'[r].overlapped <=> Applying # {}
  BY <1>0, <1>1 DEF Waiting
<1>4. ASSUME NEW u \in Threads, u # r, u \in Applying
      PROVE  /\ thread'[u].at = thread[u].at /\ thread'[u].task = thread[u].task
             /\ thread'[u].ref = thread[u].ref /\ thread'[u].overlapped
  <2>1. thread'[u] = [thread[u] EXCEPT !.overlapped = TRUE] /\ thread[u] \in ThreadState
    BY <1>1, <1>4 DEF FlatTypes
  <2>2. thread'[u].at = thread[u].at /\ thread'[u].task = thread[u].task
        /\ thread'[u].ref = thread[u].ref
    BY <2>1 DEF ThreadState
  <2>3. thread'[u].overlapped = TRUE
    BY <2>1 DEF ThreadState
  <2> QED
    BY <2>2, <2>3
<1>5. ASSUME NEW u \in Threads, u # r, u \notin Applying PROVE thread'[u] = thread[u]
  BY <1>1, <1>5
<1> QED
  BY <1>2, <1>3, <1>4, <1>5

\* Where the frame thread goes.
LEMMA FrameMoves ==
  ASSUME FlatTypes, Places
  PROVE  /\ BeginFrame => frame'.at = "checking" /\ frame'.ref = None
         /\ FindAccumulator => frame'.at = "adding" /\ frame'.ref = None
         /\ NewAccumulator =>
              \E id \in Ids : /\ id \notin Referenced
                              /\ frame'.at = "publishing" /\ frame'.ref = id
         /\ Publish => frame'.at = "adding" /\ frame'.ref = None
         /\ LoadToAdd => \/ frame'.at = "idle" /\ frame'.ref = None
                         \/ current # None /\ frame'.at = "locking" /\ frame'.ref = current
         /\ Add => frame'.at = "idle" /\ frame'.ref = None
         /\ FramesEnd => frame.at = "idle" /\ frame'.at = "returned" /\ frame'.ref = None
<1>1. BeginFrame => frame'.at = "checking" /\ frame'.ref = None
  <2>1. BeginFrame => frame' = [at |-> "checking", width |-> width, ref |-> None]
    BY DEF BeginFrame, NoFrame
  <2> QED
    BY <2>1
<1>2. FindAccumulator => frame'.at = "adding" /\ frame'.ref = None
  BY DEF FindAccumulator, NoFrame
<1>3. NewAccumulator =>
        \E id \in Ids : /\ id \notin Referenced
                        /\ frame'.at = "publishing" /\ frame'.ref = id
  <2> SUFFICES ASSUME NewAccumulator
               PROVE  \E id \in Ids : /\ id \notin Referenced
                                      /\ frame'.at = "publishing" /\ frame'.ref = id
    OBVIOUS
  <2>1. PICK id \in Ids : id \notin Referenced
                          /\ frame' = [NoFrame EXCEPT !.at = "publishing", !.ref = id]
    BY FreeId DEF NewAccumulator
  <2>2. frame'.at = "publishing" /\ frame'.ref = id
    BY <2>1 DEF NoFrame
  <2> QED
    BY <2>1, <2>2
<1>4. Publish => frame'.at = "adding" /\ frame'.ref = None
  BY DEF Publish, NoFrame
<1>5. LoadToAdd => \/ frame'.at = "idle" /\ frame'.ref = None
                   \/ current # None /\ frame'.at = "locking" /\ frame'.ref = current
  <2>1. LoadToAdd => \/ frame' = NoFrame
                     \/ current # None /\ frame' = [frame EXCEPT !.at = "locking", !.ref = current]
    BY DEF LoadToAdd
  <2>2. NoFrame.at = "idle" /\ NoFrame.ref = None
    BY DEF NoFrame
  <2>3. LET f == [frame EXCEPT !.at = "locking", !.ref = current]
        IN  f.at = "locking" /\ f.ref = current
    BY DEF FlatTypes
  <2> QED
    BY <2>1, <2>2, <2>3
<1>6. Add => frame'.at = "idle" /\ frame'.ref = None
  BY DEF Add, NoFrame
<1>7. FramesEnd => frame.at = "idle" /\ frame'.at = "returned" /\ frame'.ref = None
  <2>1. FramesEnd => frame.at = "idle" /\ frame'.at = "returned" /\ frame'.ref = frame.ref
    BY DEF FramesEnd, FlatTypes
  <2>2. frame.at = "idle" => frame.ref = None
    BY DEF Places
  <2> QED
    BY <2>1, <2>2
<1> QED
  BY <1>1, <1>2, <1>3, <1>4, <1>5, <1>6, <1>7

-----------------------------------------------------------------------------
(* Places                                                                  *)

PlaceOf(t, at, task, ref) ==
  /\ ref # None <=> at \in {"locking", "replacing", "dropping"}
  /\ at \in {"configuring", "repathing", "checking", "dropping"} => t \in Requests /\ task = "apply"
  /\ task = "apply" =>
       t \in Requests /\ at \in {"configuring", "repathing", "checking", "dropping"} \union UseStates
  /\ t \in Requests => at \notin {"joining", "exiting", "returned"}
  /\ t = "persist" => at \in UseStates \union {"idle", "returned"}
  /\ t = "main" => at \in UseStates \union {"idle", "joining", "exiting"}

LEMMA PlacesAre ==
  Places <=>
    /\ ~up => current = None /\ frame = NoFrame /\ \A t \in Threads : thread[t] = Waiting
    /\ frame.ref # None <=> frame.at \in {"publishing", "locking"}
    /\ \A t \in Threads : PlaceOf(t, thread[t].at, thread[t].task, thread[t].ref)
BY NoneFacts DEF Places, PlaceOf

LEMMA EndPlace ==
  ASSUME NEW t \in Threads PROVE PlaceOf(t, EndOf(t), None, None)
BY NoneFacts DEF PlaceOf, EndOf, UseStates

\* A step of one thread.
LEMMA PlacesAfterMove ==
  ASSUME Places, NEW t \in Threads, NEW at, NEW task, NEW ref, NEW overlapped,
         MovesTo(t, at, task, ref, overlapped), PlaceOf(t, at, task, ref),
         up, up' = up, frame' = frame
  PROVE  Places'
<1>1. \A u \in Threads : PlaceOf(u, thread'[u].at, thread'[u].task, thread'[u].ref)
  <2> SUFFICES ASSUME NEW u \in Threads
               PROVE  PlaceOf(u, thread'[u].at, thread'[u].task, thread'[u].ref)
    OBVIOUS
  <2>1. CASE u = t
    BY <2>1 DEF MovesTo
  <2>2. CASE u # t
    BY <2>2, PlacesAre DEF MovesTo
  <2> QED
    BY <2>1, <2>2
<1>2. frame'.ref # None <=> frame'.at \in {"publishing", "locking"}
  BY DEF Places
<1> QED
  BY <1>1, <1>2, NoneFacts DEF Places, PlaceOf

LEMMA FramePlacesKept ==
  ASSUME FlatTypes, Places, BeginFrame \/ FrameStep PROVE Places'
<1>1. up' = up /\ thread' = thread /\ up
  <2>1. ~up => frame.at = "idle" /\ thread["main"].at = "idle"
    BY NoneFacts DEF Places, NoFrame, Waiting
  <2> QED
    BY <2>1 DEF BeginFrame, FrameStep, FindAccumulator, NewAccumulator, Publish, LoadToAdd, Add,
       FramesEnd, stopping
<1>2. frame'.ref # None <=> frame'.at \in {"publishing", "locking"}
  <2>1. CASE NewAccumulator
    BY <2>1, FrameMoves, NoneFacts
  <2>2. CASE LoadToAdd
    BY <2>2, FrameMoves
  <2>3. CASE BeginFrame \/ FindAccumulator \/ Publish \/ Add \/ FramesEnd
    BY <2>3, FrameMoves
  <2> QED
    BY <2>1, <2>2, <2>3 DEF FrameStep
<1> QED
  BY <1>1, <1>2 DEF Places

LEMMA UsePlacesKept ==
  ASSUME FlatTypes, Places, NEW t \in Threads, Use(t) PROVE Places'
<1>0. PlaceOf(t, thread[t].at, thread[t].task, thread[t].ref)
  BY PlacesAre
<1>1. CASE Check(t)
  <2>1. up /\ up' = up /\ frame' = frame /\ thread[t].at = "checking"
    BY <1>1 DEF Check, IsAt
  <2>2. t \in Requests /\ t # "main" /\ t # "persist" /\ thread[t].ref = None
    BY <1>0, <2>1, NoneFacts DEF PlaceOf
  <2>3. PlaceOf(t, "loading", "apply", thread[t].ref) /\ PlaceOf(t, "idle", None, None)
    BY <2>2, NoneFacts DEF PlaceOf, UseStates
  <2> QED
    BY <1>1, <2>1, <2>2, <2>3, CheckMoves, PlacesAfterMove DEF Check
<1>2. CASE Load(t)
  <2>1. up /\ up' = up /\ frame' = frame /\ thread[t].at = "loading"
    BY <1>2 DEF Load, IsAt
  <2>2. current # None => PlaceOf(t, "locking", thread[t].task, current)
    BY <1>0, <2>1 DEF PlaceOf, UseStates
  <2> QED
    BY <1>2, <2>1, <2>2, EndPlace, LoadMoves, PlacesAfterMove
<1>3. CASE LockAndWrite(t)
  <2>1. up /\ up' = up /\ frame' = frame /\ thread[t].at = "locking"
    BY <1>3 DEF LockAndWrite, IsAt
  <2>2. PlaceOf(t, "replacing", thread[t].task, thread[t].ref)
    BY <1>0, <2>1 DEF PlaceOf, UseStates
  <2>3. thread[t].task = "apply" => PlaceOf(t, "dropping", thread[t].task, thread[t].ref)
    BY <1>0, <2>1, NoneFacts DEF PlaceOf
  <2>4. Goto(t, "replacing") \/ Saved(t)
    BY <1>3 DEF LockAndWrite
  <2>5. CASE Goto(t, "replacing")
    BY <2>1, <2>2, <2>5, GotoMoves, PlacesAfterMove DEF ThreadStates, UseStates
  <2>6. CASE Saved(t)
    BY <2>1, <2>3, <2>6, EndPlace, SavedMoves, PlacesAfterMove
  <2> QED
    BY <2>4, <2>5, <2>6
<1>4. CASE WriteFails(t)
  <2>1. up /\ up' = up /\ frame' = frame /\ Finish(t)
    BY <1>4 DEF WriteFails, IsAt
  <2> QED
    BY <2>1, EndPlace, FinishMoves, PlacesAfterMove
<1>5. CASE ReplaceFile(t)
  <2>1. up /\ up' = up /\ frame' = frame /\ thread[t].at = "replacing"
    BY <1>5 DEF ReplaceFile, IsAt
  <2>2. Saved(t) \/ Finish(t)
    BY <1>5 DEF ReplaceFile
  <2>3. thread[t].task = "apply" => PlaceOf(t, "dropping", thread[t].task, thread[t].ref)
    BY <1>0, <2>1, NoneFacts DEF PlaceOf
  <2>4. CASE Saved(t)
    BY <2>1, <2>3, <2>4, EndPlace, SavedMoves, PlacesAfterMove
  <2>5. CASE Finish(t)
    BY <2>1, <2>5, EndPlace, FinishMoves, PlacesAfterMove
  <2> QED
    BY <2>2, <2>4, <2>5
<1> QED
  BY <1>1, <1>2, <1>3, <1>4, <1>5 DEF Use

LEMMA RequestPlacesKept ==
  ASSUME FlatTypes, Places, NEW r \in Requests, Request(r) PROVE Places'
<1>0. /\ r \in Threads /\ r # "main" /\ r # "persist"
      /\ PlaceOf(r, thread[r].at, thread[r].task, thread[r].ref)
  BY PlacesAre, NoneFacts
<1>1. CASE BeginApply(r)
  <2>1. up /\ up' = up /\ frame' = frame
    BY <1>1 DEF BeginApply, IsAt
  <2>2. PlaceOf(r, "configuring", "apply", None)
    BY <1>0 DEF PlaceOf
  <2>3. ASSUME NEW u \in Threads PROVE PlaceOf(u, thread'[u].at, thread'[u].task, thread'[u].ref)
    <3>1. CASE u = r
      BY <1>1, <2>2, <3>1, BeginApplyMoves
    <3>2. CASE u # r
      <4>1. thread'[u].at = thread[u].at /\ thread'[u].task = thread[u].task
            /\ thread'[u].ref = thread[u].ref
        BY <1>1, <3>2, BeginApplyMoves
      <4> QED
        BY <4>1, PlacesAre
    <3> QED
      BY <3>1, <3>2
  <2>4. frame'.ref # None <=> frame'.at \in {"publishing", "locking"}
    BY <2>1 DEF Places
  <2> QED
    BY <2>1, <2>3, <2>4, NoneFacts DEF Places, PlaceOf
<1>2. CASE Configure(r)
  <2>1. up /\ up' = up /\ frame' = frame /\ thread[r].at = "configuring" /\ Goto(r, "repathing")
    BY <1>2 DEF Configure, IsAt
  <2>2. PlaceOf(r, "repathing", thread[r].task, thread[r].ref)
    BY <1>0, <2>1 DEF PlaceOf
  <2> QED
    BY <1>0, <2>1, <2>2, GotoMoves, PlacesAfterMove DEF ThreadStates
<1>3. CASE Repath(r)
  <2>1. up /\ up' = up /\ frame' = frame /\ thread[r].at = "repathing"
    BY <1>3 DEF Repath, IsAt
  <2>2. PlaceOf(r, "checking", thread[r].task, thread[r].ref)
    BY <1>0, <2>1 DEF PlaceOf
  <2> QED
    BY <1>0, <1>3, <2>1, <2>2, RepathMoves, PlacesAfterMove
<1>4. CASE Drop(r)
  <2>1. up /\ up' = up /\ frame' = frame /\ Finish(r)
    BY <1>4 DEF Drop, IsAt
  <2> QED
    BY <1>0, <2>1, EndPlace, FinishMoves, PlacesAfterMove
<1>5. CASE BeginReset(r)
  <2>1. up /\ up' = up /\ frame' = frame /\ thread[r].at = "idle" /\ CheckAccumulator(r, "reset")
    BY <1>5 DEF BeginReset, IsAt
  <2>2. thread[r].ref = None /\ PlaceOf(r, "loading", "reset", None) /\ PlaceOf(r, "idle", None, None)
    BY <1>0, <2>1, NoneFacts DEF PlaceOf, UseStates
  <2> QED
    BY <1>0, <2>1, <2>2, CheckMoves, PlacesAfterMove
<1> QED
  BY <1>1, <1>2, <1>3, <1>4, <1>5 DEF Request

LEMMA ProcessPlacesKept ==
  ASSUME FlatTypes, Places,
         PersistWakes \/ PersistReturns \/ Stop \/ JoinThreads \/ Exit \/ Crash \/ Start
  PROVE  Places'
<1>0. "main" \in Threads /\ "persist" \in Threads /\ "main" \notin Requests
      /\ "persist" \notin Requests
  BY NoneFacts
<1>p. PlaceOf("persist", thread["persist"].at, thread["persist"].task, thread["persist"].ref)
  BY <1>0, PlacesAre
<1>m. PlaceOf("main", thread["main"].at, thread["main"].task, thread["main"].ref)
  BY <1>0, PlacesAre
<1>1. CASE PersistWakes
  <2>1. up /\ up' = up /\ frame' = frame /\ thread["persist"].at = "idle"
        /\ CheckAccumulator("persist", "save")
    BY <1>1 DEF PersistWakes, IsAt
  <2>2. thread["persist"].ref = None /\ PlaceOf("persist", "loading", "save", None)
        /\ PlaceOf("persist", "idle", None, None)
    BY <1>0, <1>p, <2>1, NoneFacts DEF PlaceOf, UseStates
  <2> QED
    BY <1>0, <2>1, <2>2, CheckMoves, PlacesAfterMove
<1>2. CASE PersistReturns
  <2>1. up /\ up' = up /\ frame' = frame /\ thread["persist"].at = "idle"
        /\ Goto("persist", "returned")
    BY <1>2 DEF PersistReturns, IsAt
  <2>2. PlaceOf("persist", "returned", thread["persist"].task, thread["persist"].ref)
    BY <1>0, <1>p, <2>1, NoneFacts DEF PlaceOf, UseStates
  <2> QED
    BY <1>0, <2>1, <2>2, GotoMoves, PlacesAfterMove DEF ThreadStates
<1>3. CASE Stop
  <2>1. up /\ up' = up /\ frame' = frame /\ thread["main"].at = "idle" /\ Goto("main", "joining")
    BY <1>3 DEF Stop, IsAt
  <2>2. PlaceOf("main", "joining", thread["main"].task, thread["main"].ref)
    BY <1>0, <1>m, <2>1, NoneFacts DEF PlaceOf, UseStates
  <2> QED
    BY <1>0, <2>1, <2>2, GotoMoves, PlacesAfterMove DEF ThreadStates
<1>4. CASE JoinThreads
  <2>1. up /\ up' = up /\ frame' = frame /\ thread["main"].at = "joining"
        /\ CheckAccumulator("main", "save")
    BY <1>4 DEF JoinThreads, IsAt
  <2>2. thread["main"].ref = None /\ PlaceOf("main", "loading", "save", None)
        /\ PlaceOf("main", "exiting", thread["main"].task, None)
    BY <1>0, <1>m, <2>1, NoneFacts DEF PlaceOf, UseStates
  <2> QED
    BY <1>0, <2>1, <2>2, CheckMoves, PlacesAfterMove
<1>5. CASE Exit \/ Crash
  <2>1. LoseMemory
    BY <1>5 DEF Exit, Crash
  <2>2. \A t \in Threads : thread'[t] = Waiting /\ PlaceOf(t, Waiting.at, Waiting.task, Waiting.ref)
    BY <2>1, NoneFacts DEF LoseMemory, PlaceOf, Waiting, UseStates
  <2>3. frame' = NoFrame /\ current' = None /\ NoFrame.ref = None /\ NoFrame.at = "idle"
    BY <2>1 DEF LoseMemory, NoFrame
  <2> QED
    BY <2>2, <2>3, NoneFacts DEF Places, PlaceOf
<1>6. CASE Start
  BY <1>6 DEF Start, Places
<1> QED
  BY <1>1, <1>2, <1>3, <1>4, <1>5, <1>6

LEMMA PlacesKept ==
  FlatTypes /\ Places /\ [HeatmapNext]_heatmapVars => Places'
<1> SUFFICES ASSUME FlatTypes, Places, [HeatmapNext]_heatmapVars PROVE Places'
  OBVIOUS
<1>1. CASE UNCHANGED heatmapVars
  BY <1>1 DEF heatmapVars, heat, Places
<1>2. CASE HeatmapNext
  BY <1>2, HeatmapSteps, FramePlacesKept, UsePlacesKept, RequestPlacesKept, ProcessPlacesKept
<1> QED
  BY <1>1, <1>2

-----------------------------------------------------------------------------
(* Overlapping                                                             *)

Early == {"configuring", "repathing", "checking", "loading"}

\* A step of one thread that begins no apply_settings.  It can drop the
\* accumulator under another only if it is an apply_settings itself.
LEMMA OverlappingAfterMove ==
  ASSUME FlatTypes, Places, Overlapping, NEW t \in Threads, NEW at, NEW task, NEW ref,
         NEW overlapped,
         MovesTo(t, at, task, ref, overlapped),
         task = "apply" => /\ thread[t].task = "apply"
                           /\ at \in Early =>
                                thread[t].at \in Early /\ (thread[t].overlapped => overlapped),
         current' # None \/ current = None \/ thread[t].task = "apply",
         task = "apply" /\ at = "loading" /\ ~overlapped => current' # None,
         ~failedAlone'
  PROVE  Overlapping'
<1>1. Applying' \subseteq Applying
  BY NoneFacts DEF Applying, MovesTo
<1>2. ASSUME NEW r \in Requests, NEW q \in Applying',
             r # q, thread'[r].task = "apply", thread'[r].at \in Early
      PROVE  thread'[r].overlapped
  <2>1. r \in Threads /\ q \in Applying
    BY <1>1, NoneFacts
  <2>2. CASE r = t
    <3>1. thread[r].task = "apply" /\ thread[r].at \in Early
          /\ (thread[r].overlapped => thread'[r].overlapped)
      BY <1>2, <2>2 DEF MovesTo
    <3> QED
      BY <1>2, <2>1, <3>1 DEF Overlapping, Early
  <2>3. CASE r # t
    <3>1. thread'[r] = thread[r]
      BY <2>1, <2>3 DEF MovesTo
    <3> QED
      BY <1>2, <2>1, <3>1 DEF Overlapping, Early
  <2> QED
    BY <2>2, <2>3
<1>3. ASSUME NEW r \in Requests, thread'[r].task = "apply", thread'[r].at = "loading",
             ~thread'[r].overlapped
      PROVE  current' # None
  <2>1. r \in Threads
    BY NoneFacts
  <2>2. CASE r = t
    BY <1>3, <2>2 DEF MovesTo
  <2>3. CASE r # t
    <3>1. thread'[r] = thread[r]
      BY <2>1, <2>3 DEF MovesTo
    <3>2. current # None
      BY <1>3, <3>1 DEF Overlapping
    <3>3. CASE thread[t].task = "apply"
      <4>1. t \in Applying
        BY <3>3 DEF Applying, Places
      <4>2. thread[r].overlapped
        BY <1>3, <2>3, <3>1, <4>1 DEF Overlapping
      <4> QED
        BY <1>3, <3>1, <4>2
    <3> QED
      BY <3>2, <3>3
  <2> QED
    BY <2>2, <2>3
<1> QED
  BY <1>2, <1>3 DEF Overlapping, Early

\* A step of the frame thread only sets the accumulator.
LEMMA OverlappingAfterFrame ==
  ASSUME Overlapping, thread' = thread, failedAlone' = failedAlone,
         current' # None \/ current = None
  PROVE  Overlapping'
BY DEF Overlapping, Applying

LEMMA FrameOverlappingKept ==
  ASSUME FlatTypes, Places, Overlapping, BeginFrame \/ FrameStep PROVE Overlapping'
<1>1. thread' = thread /\ failedAlone' = failedAlone
  BY DEF BeginFrame, FrameStep, FindAccumulator, NewAccumulator, Publish, LoadToAdd, Add,
     FramesEnd, ghosts
<1>2. current' = current \/ (frame.at = "publishing" /\ current' = frame.ref)
  BY DEF BeginFrame, FrameStep, FindAccumulator, NewAccumulator, Publish, LoadToAdd, Add,
     FramesEnd, heat
<1>3. current' # None \/ current = None
  BY <1>2 DEF Places
<1> QED
  BY <1>1, <1>3, OverlappingAfterFrame

LEMMA UseOverlappingKept ==
  ASSUME FlatTypes, Places, Overlapping, NEW t \in Threads, Use(t) PROVE Overlapping'
<1>0. current' = current
  BY DEF Use, Check, Load, LockAndWrite, WriteFails, ReplaceFile, heat
<1>n. None # "apply" /\ ~failedAlone
  BY NoneFacts DEF Overlapping
<1>1. CASE Check(t)
  <2>1. CheckAccumulator(t, "apply") /\ ~failedAlone' /\ thread[t].at = "checking"
    BY <1>1, <1>n DEF Check, IsAt, ghosts
  <2>2. thread[t].task = "apply" /\ t # "main"
    BY <2>1, NoneFacts DEF Places
  <2>3. CASE current # None
    <3>1. MovesTo(t, "loading", "apply", thread[t].ref, thread[t].overlapped)
      BY <2>1, <2>3, CheckMoves
    <3> QED
      BY <1>0, <2>1, <2>2, <2>3, <3>1, OverlappingAfterMove DEF Early
  <2>4. CASE current = None
    <3>1. MovesTo(t, "idle", None, None, FALSE)
      BY <2>1, <2>2, <2>4, CheckMoves
    <3> QED
      BY <1>0, <1>n, <2>1, <2>2, <2>4, <3>1, OverlappingAfterMove
  <2> QED
    BY <2>3, <2>4
<1>2. CASE Load(t)
  <2>1. thread[t].at = "loading"
    BY <1>2 DEF Load, IsAt
  <2>2. CASE current = None
    <3>1. MovesTo(t, EndOf(t), None, None, FALSE)
      BY <1>2, <2>2, LoadMoves
    <3>2. failedAlone' = (failedAlone \/ (thread[t].task = "apply" /\ ~thread[t].overlapped))
      BY <1>2, <2>2 DEF Load
    <3>3. thread[t].task = "apply" => t \in Requests
      BY DEF Places
    <3>4. ~failedAlone'
      BY <1>n, <2>1, <2>2, <3>2, <3>3 DEF Overlapping
    <3> QED
      BY <1>0, <1>n, <2>2, <3>1, <3>4, OverlappingAfterMove
  <2>3. CASE current # None
    <3>1. MovesTo(t, "locking", thread[t].task, current, FALSE)
      BY <1>2, <2>3, LoadMoves
    <3>2. ~failedAlone'
      BY <1>2, <1>n, <2>3 DEF Load
    <3> QED
      BY <1>0, <2>3, <3>1, <3>2, OverlappingAfterMove DEF Early
  <2> QED
    BY <2>2, <2>3
<1>3. CASE LockAndWrite(t) \/ WriteFails(t) \/ ReplaceFile(t)
  <2>1. ~failedAlone'
    BY <1>3, <1>n DEF LockAndWrite, WriteFails, ReplaceFile
  <2>2. Goto(t, "replacing") \/ Saved(t) \/ Finish(t)
    BY <1>3 DEF LockAndWrite, WriteFails, ReplaceFile
  <2>3. \/ \E at \in {"replacing", "dropping"} :
             MovesTo(t, at, thread[t].task, thread[t].ref, thread[t].overlapped)
        \/ MovesTo(t, EndOf(t), None, None, FALSE)
    BY <2>2, GotoMoves, SavedMoves, FinishMoves DEF ThreadStates, UseStates
  <2>4. current' # None \/ current = None
    BY <1>0
  <2>5. CASE \E at \in {"replacing", "dropping"} :
               MovesTo(t, at, thread[t].task, thread[t].ref, thread[t].overlapped)
    BY <2>1, <2>4, <2>5, OverlappingAfterMove DEF Early
  <2>6. CASE MovesTo(t, EndOf(t), None, None, FALSE)
    BY <1>n, <2>1, <2>4, <2>6, OverlappingAfterMove
  <2> QED
    BY <2>3, <2>5, <2>6
<1> QED
  BY <1>1, <1>2, <1>3 DEF Use

LEMMA RequestOverlappingKept ==
  ASSUME FlatTypes, Places, Overlapping, NEW r \in Requests, Request(r) PROVE Overlapping'
<1>0. r \in Threads /\ r # "main" /\ None # "apply" /\ ~failedAlone
  BY NoneFacts DEF Overlapping
<1>1. CASE BeginApply(r)
  <2>1. current' = current /\ ~failedAlone' /\ thread[r].at = "idle"
    BY <1>0, <1>1 DEF BeginApply, IsAt, heat, ghosts
  <2>3. Applying' = Applying \union {r}
    BY <1>1, BeginApplyMoves, NoneFacts DEF Applying
  <2>4. ASSUME NEW q \in Requests, NEW s \in Applying',
               q # s, thread'[q].task = "apply", thread'[q].at \in Early
        PROVE  thread'[q].overlapped
    <3>1. CASE q = r
      <4>1. s \in Applying
        BY <2>3, <2>4, <3>1
      <4> QED
        BY <1>1, <3>1, <4>1, BeginApplyMoves
    <3>2. CASE q # r
      <4>1. q \in Threads /\ q \in Applying
        BY <1>1, <2>4, <3>2, BeginApplyMoves, NoneFacts DEF Applying
      <4> QED
        BY <1>1, <3>2, <4>1, BeginApplyMoves
    <3> QED
      BY <3>1, <3>2
  <2>5. ASSUME NEW q \in Requests, thread'[q].task = "apply", thread'[q].at = "loading",
               ~thread'[q].overlapped
        PROVE  current' # None
    <3>1. q # r
      BY <1>1, <2>5, BeginApplyMoves
    <3>2. thread[q].task = "apply" /\ thread[q].at = "loading" /\ ~thread[q].overlapped
      BY <1>1, <2>5, <3>1, BeginApplyMoves, NoneFacts
    <3> QED
      BY <2>1, <3>2 DEF Overlapping
  <2> QED
    BY <2>1, <2>4, <2>5 DEF Overlapping, Early
<1>2. CASE Configure(r)
  <2>1. MovesTo(r, "repathing", thread[r].task, thread[r].ref, thread[r].overlapped)
    BY <1>0, <1>2, GotoMoves DEF Configure, ThreadStates
  <2>2. current' = current /\ ~failedAlone' /\ thread[r].at = "configuring"
    BY <1>0, <1>2 DEF Configure, IsAt, heat
  <2> QED
    BY <1>0, <2>1, <2>2, OverlappingAfterMove DEF Early
<1>3. CASE Repath(r)
  <2>1. MovesTo(r, "checking", thread[r].task, thread[r].ref, thread[r].overlapped)
    BY <1>3, RepathMoves
  <2>2. ~failedAlone' /\ thread[r].at = "repathing"
    BY <1>0, <1>3 DEF Repath, IsAt
  <2>3. thread[r].task = "apply"
    BY <1>0, <2>2 DEF Places
  <2> QED
    BY <1>0, <2>1, <2>2, <2>3, OverlappingAfterMove DEF Early
<1>4. CASE Drop(r)
  <2>1. MovesTo(r, EndOf(r), None, None, FALSE)
    BY <1>0, <1>4, FinishMoves DEF Drop
  <2>2. ~failedAlone' /\ thread[r].at = "dropping"
    BY <1>0, <1>4 DEF Drop, IsAt
  <2>3. thread[r].task = "apply"
    BY <1>0, <2>2 DEF Places
  <2> QED
    BY <1>0, <2>1, <2>2, <2>3, OverlappingAfterMove
<1>5. CASE BeginReset(r)
  <2>1. CheckAccumulator(r, "reset") /\ current' = current /\ ~failedAlone'
    BY <1>0, <1>5 DEF BeginReset, heat, ghosts
  <2>2. \E at, task, ref, overlapped :
          task # "apply" /\ MovesTo(r, at, task, ref, overlapped)
    BY <1>0, <2>1, CheckMoves
  <2> QED
    BY <1>0, <2>1, <2>2, OverlappingAfterMove
<1> QED
  BY <1>1, <1>2, <1>3, <1>4, <1>5 DEF Request

LEMMA ProcessOverlappingKept ==
  ASSUME FlatTypes, Places, Overlapping,
         PersistWakes \/ PersistReturns \/ Stop \/ JoinThreads \/ Exit \/ Crash \/ Start
  PROVE  Overlapping'
<1>0. /\ "main" \in Threads /\ "persist" \in Threads /\ None # "apply" /\ ~failedAlone
      /\ thread["main"].task # "apply" /\ thread["persist"].task # "apply"
  BY NoneFacts DEF Overlapping, Places
<1>1. CASE PersistWakes \/ PersistReturns
  <2>1. current' = current /\ ~failedAlone'
    BY <1>0, <1>1 DEF PersistWakes, PersistReturns, heat, ghosts
  <2>2. \E at, task, ref, overlapped :
          task # "apply" /\ MovesTo("persist", at, task, ref, overlapped)
    BY <1>0, <1>1, CheckMoves, GotoMoves DEF PersistWakes, PersistReturns, ThreadStates
  <2> QED
    BY <1>0, <2>1, <2>2, OverlappingAfterMove
<1>2. CASE Stop \/ JoinThreads
  <2>1. current' = current /\ ~failedAlone'
    BY <1>0, <1>2 DEF Stop, JoinThreads, heat, ghosts
  <2>2. \E at, task, ref, overlapped :
          task # "apply" /\ MovesTo("main", at, task, ref, overlapped)
    BY <1>0, <1>2, CheckMoves, GotoMoves DEF Stop, JoinThreads, ThreadStates
  <2> QED
    BY <1>0, <2>1, <2>2, OverlappingAfterMove
<1>3. CASE Exit \/ Crash
  <2>1. LoseMemory /\ failedAlone' = failedAlone
    BY <1>3 DEF Exit, Crash
  <2>2. \A t \in Threads : thread'[t].task = None
    BY <2>1 DEF LoseMemory, Waiting
  <2> QED
    BY <1>0, <2>1, <2>2, NoneFacts DEF Overlapping, Applying
<1>4. CASE Start
  BY <1>4 DEF Start, Overlapping, Applying
<1> QED
  BY <1>1, <1>2, <1>3, <1>4

LEMMA OverlappingKept ==
  FlatTypes /\ Places /\ Overlapping /\ [HeatmapNext]_heatmapVars => Overlapping'
<1> SUFFICES ASSUME FlatTypes, Places, Overlapping, [HeatmapNext]_heatmapVars PROVE Overlapping'
  OBVIOUS
<1>1. CASE UNCHANGED heatmapVars
  BY <1>1 DEF heatmapVars, heat, ghosts, Overlapping, Applying
<1>2. CASE HeatmapNext
  BY <1>2, HeatmapSteps, FrameOverlappingKept, UseOverlappingKept, RequestOverlappingKept,
     ProcessOverlappingKept
<1> QED
  BY <1>1, <1>2

-----------------------------------------------------------------------------
(* What the steps make of the accumulators                                 *)

\* Accumulator i becomes v; some may be garbage now.  No i: none is changed.
Changes(i, v) ==
  /\ Referenced' \subseteq Referenced
  /\ accumulators' = [j \in Referenced' |-> IF j = i THEN v ELSE accumulators[j]]

LEMMA FewerRefs ==
  ASSUME FlatTypes, current' \in {None, current, frame.ref},
         frame'.ref \in {None, current, frame.ref},
         \A t \in Threads : thread'[t].ref \in {None, current, thread[t].ref}
  PROVE  Referenced' \subseteq Referenced
BY DEF Referenced

LEMMA SameRefs ==
  ASSUME current' = current,
         frame'.ref = frame.ref \/ (frame.ref = None /\ frame'.ref \in {None, current}),
         \A t \in Threads : \/ thread'[t].ref = thread[t].ref
                            \/ thread[t].ref = None /\ thread'[t].ref \in {None, current}
  PROVE  Referenced' = Referenced
BY DEF Referenced

LEMMA RefsAfterMove ==
  ASSUME FlatTypes, NEW t \in Threads, NEW at, NEW task, NEW ref, NEW overlapped,
         MovesTo(t, at, task, ref, overlapped), ref \in {None, current, thread[t].ref},
         current' \in {None, current, frame.ref}, frame'.ref \in {None, current, frame.ref}
  PROVE  Referenced' \subseteq Referenced
<1>1. \A u \in Threads : thread'[u].ref \in {None, current, thread[u].ref}
  BY DEF MovesTo
<1> QED
  BY <1>1, FewerRefs

LEMMA BecomeChanges ==
  ASSUME HeapTypes, NEW i, NEW v, Referenced' \subseteq Referenced,
         Become([accumulators EXCEPT ![i] = v])
  PROVE  Changes(i, v)
BY DEF Become, Restrict, Changes, HeapTypes

LEMMA BecomeSame ==
  ASSUME HeapTypes, Referenced' \subseteq Referenced, Become(accumulators)
  PROVE  Changes(None, None)
BY RefsAre, NoneFacts DEF Become, Restrict, Changes, HeapTypes, Referenced

LEMMA NoneChanged ==
  ASSUME HeapTypes, Referenced' = Referenced, accumulators' = accumulators
  PROVE  Changes(None, None)
BY DEF Changes, HeapTypes, Referenced

LEMMA BumpedIs ==
  ASSUME NEW a \in Accumulator
  PROVE  /\ Bumped(a) \in Accumulator /\ Bumped(a).count = a.count + 1
         /\ Bumped(a).path = a.path /\ Bumped(a).width = a.width
         /\ Bumped(a).lock = a.lock /\ Bumped(a).dirty
<1>1. Bumped(a) = [[a EXCEPT !.count = a.count + 1] EXCEPT !.dirty = TRUE]
  BY DEF Bumped, Accumulator
<1>2. [a EXCEPT !.count = a.count + 1] \in Accumulator
  BY DEF Accumulator
<1>3. \A b \in Accumulator : [b EXCEPT !.dirty = TRUE] \in Accumulator
  BY DEF Accumulator
<1>4. Bumped(a) \in Accumulator
  BY <1>1, <1>2, <1>3
<1>5. /\ Bumped(a).count = a.count + 1
      /\ Bumped(a).path = a.path /\ Bumped(a).width = a.width
  BY DEF Bumped, Accumulator
<1>6. Bumped(a).lock = a.lock
  BY DEF Bumped, Accumulator
<1>7. Bumped(a).dirty = TRUE
  BY DEF Bumped, Accumulator
<1> QED
  BY <1>4, <1>5, <1>6, <1>7

LEMMA LockedIs ==
  ASSUME NEW a \in Accumulator, NEW t \in Threads
  PROVE  LET l == [a EXCEPT !.lock = t]
         IN  /\ l \in Accumulator /\ l.lock = t /\ l.count = a.count /\ l.path = a.path
             /\ l.width = a.width /\ l.dirty = a.dirty /\ Content(l) = Content(a)
<1> DEFINE l == [a EXCEPT !.lock = t]
<1>1. l \in Accumulator
  BY DEF Accumulator
<1>2. l.lock = t /\ l.count = a.count /\ l.path = a.path /\ l.width = a.width
  BY DEF Accumulator
<1>3. l.dirty = a.dirty
  BY DEF Accumulator
<1> HIDE DEF l
<1>4. Content(l) = Content(a)
  BY <1>2 DEF Content
<1>5. /\ l \in Accumulator /\ l.lock = t /\ l.count = a.count /\ l.path = a.path
      /\ l.width = a.width /\ l.dirty = a.dirty /\ Content(l) = Content(a)
  BY <1>1, <1>2, <1>3, <1>4
<1> QED
  BY <1>5 DEF l

Unlocked(a, dirty) == [a EXCEPT !.lock = None, !.dirty = dirty]

LEMMA UnlockedIs ==
  ASSUME NEW a \in Accumulator, NEW dirty \in BOOLEAN
  PROVE  /\ Unlocked(a, dirty) \in Accumulator /\ Unlocked(a, dirty).lock = None
         /\ Unlocked(a, dirty).count = a.count /\ Unlocked(a, dirty).path = a.path
         /\ Unlocked(a, dirty).width = a.width /\ Unlocked(a, dirty).dirty = dirty
<1>1. [a EXCEPT !.lock = None] \in Accumulator
  BY DEF Accumulator
<1>2. \A b \in Accumulator : [b EXCEPT !.dirty = dirty] \in Accumulator
  BY DEF Accumulator
<1>3. Unlocked(a, dirty) = [[a EXCEPT !.lock = None] EXCEPT !.dirty = dirty]
  BY DEF Unlocked, Accumulator
<1>4. /\ Unlocked(a, dirty).lock = None
      /\ Unlocked(a, dirty).count = a.count /\ Unlocked(a, dirty).path = a.path
      /\ Unlocked(a, dirty).width = a.width
  BY DEF Unlocked, Accumulator
<1>5. Unlocked(a, dirty).dirty = dirty
  BY DEF Unlocked, Accumulator
<1> QED
  BY <1>1, <1>2, <1>3, <1>4, <1>5

\* A step that changes no accumulator that is still referred to, begins and
\* ends no save, and publishes none.
Calm ==
  /\ Changes(None, None)
  /\ \A t \in Threads :
       /\ thread'[t].at = "replacing" <=> thread[t].at = "replacing"
       /\ thread[t].at = "replacing" => thread'[t].ref = thread[t].ref
       /\ thread'[t].ref \in {None, current, thread[t].ref}
  /\ frame'.at = "publishing" =>
       frame.at = "publishing" /\ frame'.ref = frame.ref /\ current' \in {current, None}

LEMMA CalmMove ==
  ASSUME FlatTypes, Places, HeapTypes, NEW t \in Threads, NEW at, NEW task, NEW ref, NEW overlapped,
         MovesTo(t, at, task, ref, overlapped), UNCHANGED heat, frame' = frame,
         at # "replacing", thread[t].at # "replacing",
         ref = thread[t].ref \/ (thread[t].ref = None /\ ref \in {None, current})
  PROVE  Calm
<1>1. \A u \in Threads : \/ thread'[u].ref = thread[u].ref
                         \/ thread[u].ref = None /\ thread'[u].ref \in {None, current}
  BY DEF MovesTo
<1>2. Changes(None, None)
  BY <1>1, SameRefs, NoneChanged DEF heat
<1>3. \A u \in Threads : thread'[u].at = "replacing" <=> thread[u].at = "replacing"
  BY DEF MovesTo
<1>4. \A u \in Threads : thread[u].at = "replacing" => thread'[u].ref = thread[u].ref
  BY DEF MovesTo
<1> QED
  BY <1>1, <1>2, <1>3, <1>4 DEF Calm, heat

LEMMA CalmFrame ==
  ASSUME FlatTypes, Places, HeapTypes,
         BeginFrame \/ FindAccumulator \/ LoadToAdd \/ FramesEnd \/ Publish
  PROVE  Calm
<1>1. thread' = thread /\ frame'.at # "publishing" /\ frame'.ref \in {None, current}
  BY FrameMoves DEF BeginFrame, FindAccumulator, LoadToAdd, FramesEnd, Publish
<1>2. CASE Publish
  <2>1. Referenced' \subseteq Referenced
    BY <1>1, <1>2, FewerRefs DEF Publish
  <2> QED
    BY <1>1, <1>2, <2>1, BecomeSame DEF Calm, Publish
<1>3. CASE BeginFrame \/ FindAccumulator \/ LoadToAdd \/ FramesEnd
  <2>1. frame.at \notin {"publishing", "locking"} /\ UNCHANGED heat
    BY <1>3 DEF BeginFrame, FindAccumulator, LoadToAdd, FramesEnd
  <2>2. Changes(None, None)
    BY <1>1, <2>1, SameRefs, NoneChanged DEF heat, Places
  <2> QED
    BY <1>1, <2>2 DEF Calm
<1> QED
  BY <1>2, <1>3

\* A thread with no accumulator in hand takes none before it loads one.
LEMMA EmptyHanded ==
  ASSUME FlatTypes, NEW t \in Threads, thread[t].ref = None,
         \/ \E task \in {"apply", "reset", "save"} : CheckAccumulator(t, task)
         \/ \E at \in ThreadStates \ {"replacing"} : Goto(t, at)
  PROVE  \E at, task, overlapped : MovesTo(t, at, task, None, overlapped) /\ at # "replacing"
<1>1. CASE \E task \in {"apply", "reset", "save"} : CheckAccumulator(t, task)
  <2>1. PICK task \in {"apply", "reset", "save"} : CheckAccumulator(t, task)
    BY <1>1
  <2>2. \/ MovesTo(t, "loading", task, None, thread[t].overlapped)
        \/ MovesTo(t, "exiting", thread[t].task, None, thread[t].overlapped)
        \/ MovesTo(t, "idle", None, None, FALSE)
    BY <2>1, CheckMoves
  <2>3. "loading" # "replacing" /\ "exiting" # "replacing" /\ "idle" # "replacing"
    OBVIOUS
  <2> QED
    BY <2>2, <2>3, Zenon
<1>2. CASE \E at \in ThreadStates \ {"replacing"} : Goto(t, at)
  <2>1. PICK at \in ThreadStates \ {"replacing"} : Goto(t, at)
    BY <1>2
  <2>2. MovesTo(t, at, thread[t].task, None, thread[t].overlapped)
    BY <2>1, GotoMoves
  <2> QED
    BY <2>1, <2>2
<1> QED
  BY <1>1, <1>2

LEMMA CalmThread ==
  ASSUME FlatTypes, Places, HeapTypes, NEW t \in Threads, Check(t) \/ Load(t)
  PROVE  Calm
<1>1. UNCHANGED heat /\ frame' = frame /\ thread[t].at \in {"checking", "loading"}
  BY DEF Check, Load, IsAt
<1>2. thread[t].ref = None
  BY <1>1 DEF Places
<1>3. \E at, task, ref, overlapped :
        /\ MovesTo(t, at, task, ref, overlapped) /\ at # "replacing" /\ ref \in {None, current}
  BY <1>2, CheckMoves, LoadMoves DEF Check, EndOf
<1> QED
  BY <1>1, <1>2, <1>3, CalmMove

LEMMA CalmRequest ==
  ASSUME FlatTypes, Places, HeapTypes, NEW r \in Requests,
         BeginApply(r) \/ Configure(r) \/ BeginReset(r) \/ Repath(r) \/ Drop(r)
  PROVE  Calm
<1>0. r \in Threads
  BY NoneFacts
<1>1. CASE BeginApply(r)
  <2>1. UNCHANGED heat /\ frame' = frame /\ thread[r].at = "idle"
    BY <1>1 DEF BeginApply, IsAt
  <2>2. thread[r].ref = None
    BY <1>0, <2>1 DEF Places
  <2>3. \A u \in Threads : thread'[u].ref = thread[u].ref
    BY <1>1, <2>2, BeginApplyMoves
  <2>4. Changes(None, None)
    BY <2>1, <2>3, SameRefs, NoneChanged DEF heat
  <2>5. \A u \in Threads : thread'[u].at = "replacing" <=> thread[u].at = "replacing"
    BY <1>1, <2>1, BeginApplyMoves
  <2> QED
    BY <2>1, <2>3, <2>4, <2>5 DEF Calm, heat
<1>2. CASE Configure(r) \/ BeginReset(r)
  <2>1. UNCHANGED heat /\ frame' = frame /\ thread[r].at \in {"configuring", "idle"}
    BY <1>2 DEF Configure, BeginReset, IsAt
  <2>2. thread[r].ref = None
    BY <1>0, <2>1 DEF Places
  <2>3. \E at, task, overlapped :
          MovesTo(r, at, task, None, overlapped) /\ at # "replacing"
    BY <1>0, <1>2, <2>2, EmptyHanded DEF Configure, BeginReset, ThreadStates
  <2> QED
    BY <1>0, <2>1, <2>2, <2>3, CalmMove
<1>3. CASE Repath(r) \/ Drop(r)
  <2>1. /\ thread[r].at # "replacing" /\ frame' = frame /\ current' \in {None, current}
        /\ Become(accumulators)
    BY <1>3 DEF Repath, Drop, IsAt
  <2>2. \E at, task, ref, overlapped :
          /\ MovesTo(r, at, task, ref, overlapped) /\ at # "replacing"
          /\ ref \in {None, thread[r].ref}
    BY <1>0, <1>3, RepathMoves, FinishMoves DEF Drop, EndOf
  <2>3. Referenced' \subseteq Referenced
    BY <1>0, <2>1, <2>2, RefsAfterMove
  <2>4. Changes(None, None)
    BY <2>1, <2>3, BecomeSame
  <2>5. \A u \in Threads : thread'[u].at = "replacing" <=> thread[u].at = "replacing"
    BY <2>1, <2>2 DEF MovesTo
  <2>6. \A u \in Threads : thread[u].at = "replacing" => thread'[u].ref = thread[u].ref
    BY <2>1, <2>2 DEF MovesTo
  <2>7. \A u \in Threads : thread'[u].ref \in {None, current, thread[u].ref}
    BY <2>2 DEF MovesTo
  <2> QED
    BY <2>1, <2>4, <2>5, <2>6, <2>7 DEF Calm
<1> QED
  BY <1>1, <1>2, <1>3

LEMMA CalmProcess ==
  ASSUME FlatTypes, Places, HeapTypes,
         PersistWakes \/ PersistReturns \/ Stop \/ JoinThreads \/ Start
  PROVE  Calm
<1>0. "main" \in Threads /\ "persist" \in Threads
  BY NoneFacts
<1>1. CASE PersistWakes \/ PersistReturns
  <2>1. UNCHANGED heat /\ frame' = frame /\ thread["persist"].at = "idle"
    BY <1>1 DEF PersistWakes, PersistReturns, IsAt
  <2>2. thread["persist"].ref = None
    BY <1>0, <2>1 DEF Places
  <2>3. \E at, task, overlapped :
          MovesTo("persist", at, task, None, overlapped) /\ at # "replacing"
    BY <1>0, <1>1, <2>2, EmptyHanded DEF PersistWakes, PersistReturns, ThreadStates
  <2> QED
    BY <1>0, <2>1, <2>2, <2>3, CalmMove
<1>2. CASE Stop \/ JoinThreads
  <2>1. UNCHANGED heat /\ frame' = frame /\ thread["main"].at \in {"idle", "joining"}
    BY <1>2 DEF Stop, JoinThreads, IsAt
  <2>2. thread["main"].ref = None
    BY <1>0, <2>1 DEF Places
  <2>3. \E at, task, overlapped :
          MovesTo("main", at, task, None, overlapped) /\ at # "replacing"
    BY <1>0, <1>2, <2>2, EmptyHanded DEF Stop, JoinThreads, ThreadStates
  <2> QED
    BY <1>0, <2>1, <2>2, <2>3, CalmMove
<1>3. CASE Start
  <2>1. UNCHANGED <<accumulators, current, frame, thread>>
    BY <1>3 DEF Start
  <2>2. Changes(None, None)
    BY <2>1, SameRefs, NoneChanged
  <2> QED
    BY <2>1, <2>2 DEF Calm
<1> QED
  BY <1>1, <1>2, <1>3

LEMMA AddEffect ==
  ASSUME FlatTypes, Places, HeapTypes, Add
  PROVE  /\ frame.ref \in Referenced /\ accumulators[frame.ref] \in Accumulator
         /\ accumulators[frame.ref].lock = None
         /\ Changes(frame.ref, Bumped(accumulators[frame.ref]))
         /\ current' = current /\ thread' = thread /\ frame'.at = "idle"
<1>1. frame.at = "locking" /\ frame.ref # None
  BY DEF Add, Places
<1>2. Referenced' \subseteq Referenced
  BY FrameMoves, FewerRefs DEF Add
<1>3. Become([accumulators EXCEPT ![frame.ref] = Bumped(accumulators[frame.ref])])
  BY DEF Add
<1>4. Changes(frame.ref, Bumped(accumulators[frame.ref]))
  BY <1>2, <1>3, BecomeChanges
<1> QED
  BY <1>1, <1>4, RefsAre, InHandType, FrameMoves DEF Add

\* Nobody else can know of a new accumulator.
LEMMA NewEffect ==
  ASSUME FlatTypes, Places, HeapTypes, NewAccumulator
  PROVE  \E id \in Ids :
           LET new == [path |-> path, width |-> frame.width, dirty |-> FALSE, lock |-> None,
                       count |-> LoadOrNew(path, frame.width)]
           IN  /\ id \notin Referenced /\ new \in Accumulator
               /\ frame'.at = "publishing" /\ frame'.ref = id
               /\ current = None /\ current' = None /\ thread' = thread
               /\ Referenced' \subseteq Referenced \union {id}
               /\ accumulators' =
                    [j \in Referenced' |-> IF j = id THEN new ELSE accumulators[j]]
<1> DEFINE new == [path |-> path, width |-> frame.width, dirty |-> FALSE, lock |-> None,
                   count |-> LoadOrNew(path, frame.width)]
           id == CHOOSE i \in Ids : i \notin Referenced /\ 1..(i - 1) \subseteq Referenced
<1>1. frame.at = "checking" /\ current = None /\ current' = None /\ thread' = thread
  BY DEF NewAccumulator
<1>2. id \in Ids /\ id \notin Referenced
  BY <1>1, FreeId
<1>3. frame' = [NoFrame EXCEPT !.at = "publishing", !.ref = id]
  BY DEF NewAccumulator
<1>4. Become([i \in DOMAIN accumulators \union {id} |-> IF i # id THEN accumulators[i] ELSE new])
  BY DEF NewAccumulator
<1>5. new \in Accumulator
  <2>1. LoadOrNew(path, frame.width) \in Int
    BY LoadType DEF FlatTypes
  <2> QED
    BY <2>1 DEF FlatTypes, Accumulator
<1> HIDE DEF id, new
<1>6. frame'.at = "publishing" /\ frame'.ref = id
  BY <1>3 DEF NoFrame
<1>7. Referenced' \subseteq Referenced \union {id}
  BY <1>1, <1>6 DEF Referenced
<1>8. accumulators' = [j \in Referenced' |-> IF j = id THEN new ELSE accumulators[j]]
  BY <1>4, <1>7 DEF Become, Restrict, HeapTypes
<1>9. /\ id \notin Referenced /\ new \in Accumulator
      /\ frame'.at = "publishing" /\ frame'.ref = id
      /\ current = None /\ current' = None /\ thread' = thread
      /\ Referenced' \subseteq Referenced \union {id}
      /\ accumulators' = [j \in Referenced' |-> IF j = id THEN new ELSE accumulators[j]]
  BY <1>1, <1>2, <1>5, <1>6, <1>7, <1>8
<1> QED
  BY <1>2, <1>9 DEF new

\* The lock is free, and what is to be written is written; or nothing is.
LEMMA WriteEffect ==
  ASSUME FlatTypes, Places, HeapTypes, NEW t \in Threads, LockAndWrite(t)
  PROVE  LET ref == thread[t].ref
             a   == Cleared(t, accumulators[ref])
         IN  /\ ref \in Referenced /\ accumulators[ref] \in Accumulator /\ a \in Accumulator
             /\ thread[t].at = "locking" /\ accumulators[ref].lock = None /\ a.lock = None
             /\ frame' = frame /\ current' = current /\ file' = file
             /\ \/ /\ a.dirty /\ Changes(ref, [a EXCEPT !.lock = t])
                   /\ temp' = [temp EXCEPT ![a.path] = Content(a)]
                   /\ thread'[t].at = "replacing" /\ thread'[t].ref = ref
                   /\ \A u \in Threads \ {t} : thread'[u] = thread[u]
                \/ /\ ~a.dirty /\ a = accumulators[ref] /\ thread[t].task # "reset"
                   /\ temp' = temp /\ Calm
<1> DEFINE ref == thread[t].ref
           old == accumulators[ref]
           a   == Cleared(t, old)
<1>1. ref \in Referenced /\ old \in Accumulator /\ thread[t].at = "locking"
  BY InHandType DEF LockAndWrite, IsAt
<1>2. a \in Accumulator /\ old.lock = None /\ a.lock = None
  BY <1>1, ContentType DEF LockAndWrite
<1>3. frame' = frame /\ current' = current /\ file' = file
  BY DEF LockAndWrite
<1>4. CASE a.dirty
  <2>1. /\ Goto(t, "replacing") /\ temp' = [temp EXCEPT ![a.path] = Content(a)]
        /\ accumulators' = [accumulators EXCEPT ![ref] = [a EXCEPT !.lock = t]]
    BY <1>4 DEF LockAndWrite
  <2>2. MovesTo(t, "replacing", thread[t].task, ref, thread[t].overlapped)
    BY <2>1, GotoMoves DEF ThreadStates, UseStates
  <2>3. \A u \in Threads : thread'[u].ref = thread[u].ref
    BY <2>2 DEF MovesTo
  <2>4. Referenced' = Referenced
    BY <1>3, <2>3, SameRefs
  <2>5. Changes(ref, [a EXCEPT !.lock = t])
    <3> HIDE DEF a
    <3> QED
      BY <2>1, <2>4 DEF Changes, HeapTypes
  <2> HIDE DEF a
  <2> QED
    BY <1>1, <1>2, <1>3, <1>4, <2>1, <2>2, <2>5 DEF MovesTo, a
<1>5. CASE ~a.dirty
  <2>1. Saved(t) /\ temp' = temp /\ Become(accumulators)
    BY <1>5 DEF LockAndWrite
  <2>2. thread[t].task # "reset" /\ a = old
    BY <1>1, <1>5, ContentType
  <2>3. \E at, task, r, overlapped :
          MovesTo(t, at, task, r, overlapped) /\ at # "replacing" /\ r \in {None, ref}
    BY <2>1, SavedMoves DEF EndOf
  <2>4. Referenced' \subseteq Referenced
    BY <1>3, <2>3, FewerRefs DEF MovesTo
  <2>5. Changes(None, None)
    BY <2>1, <2>4, BecomeSame
  <2>6. \A u \in Threads : thread'[u].at = "replacing" <=> thread[u].at = "replacing"
    BY <1>1, <2>3 DEF MovesTo
  <2>7. \A u \in Threads : thread[u].at = "replacing" => thread'[u].ref = thread[u].ref
    BY <1>1, <2>3 DEF MovesTo
  <2>8. \A u \in Threads : thread'[u].ref \in {None, current, thread[u].ref}
    BY <2>3 DEF MovesTo
  <2>9. Calm
    BY <1>3, <2>5, <2>6, <2>7, <2>8 DEF Calm
  <2> HIDE DEF a
  <2> QED
    BY <1>1, <1>2, <1>3, <1>5, <2>1, <2>2, <2>9 DEF a
<1> QED
  BY <1>4, <1>5

LEMMA FailEffect ==
  ASSUME FlatTypes, Places, HeapTypes, NEW t \in Threads, WriteFails(t)
  PROVE  LET ref == thread[t].ref
             a   == Cleared(t, accumulators[ref])
         IN  /\ ref \in Referenced /\ a \in Accumulator
             /\ thread[t].at = "locking" /\ a.lock = None
             /\ frame' = frame /\ current' = current
             /\ Changes(ref, a)
             /\ thread'[t].at # "replacing" /\ thread'[t].ref = None
             /\ \A u \in Threads \ {t} : thread'[u] = thread[u]
<1> DEFINE ref == thread[t].ref
           a   == Cleared(t, accumulators[ref])
<1>1. ref \in Referenced /\ accumulators[ref] \in Accumulator /\ thread[t].at = "locking"
  BY InHandType DEF WriteFails, IsAt
<1>2. a \in Accumulator /\ a.lock = None
  BY <1>1, ContentType DEF WriteFails
<1>3. MovesTo(t, EndOf(t), None, None, FALSE) /\ frame' = frame /\ current' = current
  BY FinishMoves DEF WriteFails
<1>4. Referenced' \subseteq Referenced
  BY <1>3, FewerRefs DEF MovesTo
<1>5. Become([accumulators EXCEPT ![ref] = a])
  BY DEF WriteFails
<1> HIDE DEF a
<1>6. Changes(ref, a)
  BY <1>4, <1>5, BecomeChanges
<1> QED
  BY <1>1, <1>2, <1>3, <1>6 DEF MovesTo, EndOf, a

LEMMA ReplaceEffect ==
  ASSUME FlatTypes, Places, HeapTypes, NEW t \in Threads, ReplaceFile(t)
  PROVE  LET ref == thread[t].ref
             p   == accumulators[ref].path
             renamed == temp[p] # None
         IN  /\ ref \in Referenced /\ accumulators[ref] \in Accumulator
             /\ thread[t].at = "replacing"
             /\ frame' = frame /\ current' = current
             /\ file' = IF renamed THEN [file EXCEPT ![p] = temp[p]] ELSE file
             /\ temp' = [temp EXCEPT ![p] = None]
             /\ Changes(ref, Unlocked(accumulators[ref], ~renamed))
             /\ thread'[t].at # "replacing" /\ thread'[t].ref \in {None, ref}
             /\ \A u \in Threads \ {t} : thread'[u] = thread[u]
<1> DEFINE ref == thread[t].ref
           p   == accumulators[ref].path
           renamed == temp[p] # None
<1>1. ref \in Referenced /\ accumulators[ref] \in Accumulator /\ thread[t].at = "replacing"
  BY InHandType DEF ReplaceFile, IsAt
<1>2. /\ frame' = frame /\ current' = current /\ temp' = [temp EXCEPT ![p] = None]
      /\ file' = IF renamed THEN [file EXCEPT ![p] = temp[p]] ELSE file
  BY DEF ReplaceFile
<1>3. \E at, task, r, overlapped :
        MovesTo(t, at, task, r, overlapped) /\ at # "replacing" /\ r \in {None, ref}
  <2>1. Saved(t) \/ Finish(t)
    BY DEF ReplaceFile
  <2> QED
    BY <2>1, SavedMoves, FinishMoves DEF EndOf
<1>4. Referenced' \subseteq Referenced
  BY <1>2, <1>3, FewerRefs DEF MovesTo
<1>5. Become([accumulators EXCEPT ![ref] = Unlocked(accumulators[ref], ~renamed)])
  <2>1. Become([accumulators EXCEPT ![ref].lock = None, ![ref].dirty = ~renamed])
    BY DEF ReplaceFile
  <2>2. [accumulators EXCEPT ![ref].lock = None, ![ref].dirty = ~renamed]
          = [accumulators EXCEPT ![ref] = Unlocked(accumulators[ref], ~renamed)]
    BY <1>1 DEF Unlocked, HeapTypes, Accumulator
  <2> QED
    BY <2>1, <2>2
<1>6. Changes(ref, Unlocked(accumulators[ref], ~renamed))
  BY <1>4, <1>5, BecomeChanges
<1> QED
  BY <1>1, <1>2, <1>3, <1>6 DEF MovesTo

LEMMA Kinds ==
  ASSUME FlatTypes, Places, HeapTypes, [HeatmapNext]_heatmapVars
  PROVE  \/ Calm \/ NewAccumulator \/ Add \/ LoseMemory
         \/ \E t \in Threads : LockAndWrite(t) \/ WriteFails(t) \/ ReplaceFile(t)
<1>1. CASE UNCHANGED heatmapVars
  <2>1. UNCHANGED <<accumulators, current, frame, thread>>
    BY <1>1 DEF heatmapVars, heat
  <2>2. Changes(None, None)
    BY <2>1, SameRefs, NoneChanged
  <2> QED
    BY <2>1, <2>2 DEF Calm
<1>2. CASE HeatmapNext
  <2>1. CASE BeginFrame \/ FrameStep
    BY <2>1, CalmFrame DEF FrameStep
  <2>2. CASE \E r \in Requests : Request(r)
    BY <2>2, CalmRequest DEF Request
  <2>3. CASE \E t \in Threads : Use(t)
    BY <2>3, CalmThread DEF Use
  <2>4. CASE PersistWakes \/ PersistReturns \/ Stop \/ JoinThreads \/ Exit \/ Crash \/ Start
    BY <2>4, CalmProcess DEF Exit, Crash
  <2> QED
    BY <1>2, <2>1, <2>2, <2>3, <2>4, HeatmapSteps
<1> QED
  BY <1>1, <1>2

LEMMA ChangesTypes ==
  ASSUME HeapTypes, NEW i, NEW v, Changes(i, v), i \in Referenced => v \in Accumulator
  PROVE  HeapTypes'
BY DEF HeapTypes, Changes

LEMMA HeapTypesKept ==
  FlatTypes /\ Places /\ HeapTypes /\ [HeatmapNext]_heatmapVars => HeapTypes'
<1> SUFFICES ASSUME FlatTypes, Places, HeapTypes, [HeatmapNext]_heatmapVars PROVE HeapTypes'
  OBVIOUS
<1>1. CASE Calm
  BY <1>1, ChangesTypes DEF Calm, Referenced
<1>2. CASE NewAccumulator
  BY <1>2, NewEffect DEF HeapTypes
<1>3. CASE Add
  BY <1>3, AddEffect, BumpedIs, ChangesTypes
<1>4. CASE LoseMemory
  BY <1>4 DEF LoseMemory, Referenced, HeapTypes, Waiting, NoFrame
<1>5. ASSUME NEW t \in Threads, LockAndWrite(t) PROVE HeapTypes'
  <2>1. CASE Calm
    BY <1>1, <2>1
  <2>2. CASE ~Calm
    BY <1>5, <2>2, WriteEffect, LockedIs, ChangesTypes
  <2> QED
    BY <2>1, <2>2
<1>6. ASSUME NEW t \in Threads, WriteFails(t) PROVE HeapTypes'
  BY <1>6, FailEffect, ChangesTypes
<1>7. ASSUME NEW t \in Threads, ReplaceFile(t) PROVE HeapTypes'
  BY <1>7, ReplaceEffect, UnlockedIs, ChangesTypes
<1> QED
  BY <1>1, <1>2, <1>3, <1>4, <1>5, <1>6, <1>7, Kinds

-----------------------------------------------------------------------------
(* Locks, and the accumulator that is not published yet                    *)

\* A change of one accumulator by a thread that holds its lock or finds it free.
LEMMA LocksAfterChange ==
  ASSUME FlatTypes, Places, HeapTypes, Locks, FlatTypes', Places',
         NEW i \in Referenced, NEW v, NEW t \in Threads, Changes(i, v),
         accumulators[i].lock \in {None, t},
         thread[t].at = "replacing" => thread[t].ref = i,
         \A u \in Threads \ {t} : thread'[u] = thread[u],
         \/ v.lock = None /\ thread'[t].at # "replacing"
         \/ v.lock = t /\ v.dirty /\ thread'[t].at = "replacing" /\ thread'[t].ref = i
  PROVE  Locks'
<1>0. t # None
  BY NoneFacts
<1>1. ASSUME NEW j \in Referenced', accumulators'[j].lock # None
      PROVE  /\ thread'[accumulators'[j].lock].at = "replacing"
             /\ thread'[accumulators'[j].lock].ref = j
             /\ accumulators'[j].dirty
  <2>1. CASE j = i
    BY <1>0, <1>1, <2>1 DEF Changes
  <2>2. CASE j # i
    <3>1. accumulators'[j] = accumulators[j] /\ j \in Referenced
      BY <1>1, <2>2 DEF Changes
    <3>2. /\ thread[accumulators[j].lock].at = "replacing"
          /\ thread[accumulators[j].lock].ref = j /\ accumulators[j].dirty
      BY <1>1, <3>1 DEF Locks
    <3>3. accumulators[j].lock # t
      BY <2>2, <3>2
    <3>4. accumulators[j].lock \in Threads
      BY <1>1, <3>1 DEF HeapTypes, Accumulator
    <3>5. thread'[accumulators[j].lock] = thread[accumulators[j].lock]
      BY <3>3, <3>4
    <3> QED
      BY <3>1, <3>2, <3>5
  <2> QED
    BY <2>1, <2>2
<1>2. ASSUME NEW u \in Threads, thread'[u].at = "replacing"
      PROVE  accumulators'[thread'[u].ref].lock = u
  <2>0. thread'[u].ref \in Referenced'
    <3>1. thread'[u].ref # None
      BY <1>2 DEF Places
    <3> QED
      BY <3>1 DEF Referenced
  <2>1. CASE u = t
    BY <1>2, <2>0, <2>1 DEF Changes
  <2>2. CASE u # t
    <3>1. thread'[u] = thread[u]
      BY <2>2
    <3>2. accumulators[thread[u].ref].lock = u /\ u # None
      BY <1>2, <3>1, NoneFacts DEF Locks
    <3>3. thread[u].ref # i
      BY <2>2, <3>2
    <3> QED
      BY <2>0, <3>1, <3>2, <3>3 DEF Changes
  <2> QED
    BY <2>1, <2>2
<1> QED
  BY <1>1, <1>2 DEF Locks

LEMMA LocksKept ==
  ASSUME FlatTypes, Places, HeapTypes, Locks, FlatTypes', Places', [HeatmapNext]_heatmapVars
  PROVE  Locks'
<1>n. /\ \A t \in Threads : t # None
      /\ \A i \in Referenced : i # None /\ accumulators[i].lock \in Threads \union {None}
  BY NoneFacts DEF HeapTypes, Accumulator, Referenced
<1>r. \A t \in Threads : thread'[t].at = "replacing" => thread'[t].ref \in Referenced'
  BY DEF Places, Referenced
<1>1. CASE Calm
  <2>1. \A j \in Referenced' : j \in Referenced /\ accumulators'[j] = accumulators[j]
    BY <1>1, <1>n DEF Calm, Changes
  <2>2. ASSUME NEW j \in Referenced', accumulators'[j].lock # None
        PROVE  /\ thread'[accumulators'[j].lock].at = "replacing"
               /\ thread'[accumulators'[j].lock].ref = j
               /\ accumulators'[j].dirty
    <3>1. accumulators[j].lock \in Threads /\ accumulators'[j] = accumulators[j] /\ j \in Referenced
      BY <1>n, <2>1, <2>2
    <3>2. /\ thread[accumulators[j].lock].at = "replacing"
          /\ thread[accumulators[j].lock].ref = j /\ accumulators[j].dirty
      BY <2>2, <3>1 DEF Locks
    <3> QED
      BY <1>1, <3>1, <3>2 DEF Calm
  <2>3. ASSUME NEW u \in Threads, thread'[u].at = "replacing"
        PROVE  accumulators'[thread'[u].ref].lock = u
    <3>1. thread[u].at = "replacing" /\ thread'[u].ref = thread[u].ref
      BY <1>1, <2>3 DEF Calm
    <3>2. accumulators[thread[u].ref].lock = u
      BY <3>1 DEF Locks
    <3> QED
      BY <1>r, <2>1, <2>3, <3>1, <3>2
  <2> QED
    BY <2>2, <2>3 DEF Locks
<1>2. CASE NewAccumulator
  <2>1. PICK id \in Ids :
          LET new == [path |-> path, width |-> frame.width, dirty |-> FALSE, lock |-> None,
                      count |-> LoadOrNew(path, frame.width)]
          IN  /\ id \notin Referenced /\ thread' = thread
              /\ Referenced' \subseteq Referenced \union {id}
              /\ accumulators' = [j \in Referenced' |-> IF j = id THEN new ELSE accumulators[j]]
    BY <1>2, NewEffect
  <2>2. \A j \in Referenced' : accumulators'[j].lock # None =>
          j \in Referenced /\ accumulators'[j] = accumulators[j]
    BY <2>1
  <2>3. ASSUME NEW u \in Threads, thread'[u].at = "replacing"
        PROVE  accumulators'[thread'[u].ref].lock = u
    <3>1. thread[u].at = "replacing" /\ thread'[u].ref = thread[u].ref
          /\ thread[u].ref \in Referenced
      BY <2>1, <2>3, RefsAre DEF Places
    <3>2. accumulators[thread[u].ref].lock = u
      BY <3>1 DEF Locks
    <3> QED
      BY <1>r, <2>1, <2>3, <3>1, <3>2
  <2> QED
    BY <2>1, <2>2, <2>3 DEF Locks
<1>3. CASE Add
  <2>1. /\ frame.ref \in Referenced /\ accumulators[frame.ref] \in Accumulator
        /\ accumulators[frame.ref].lock = None
        /\ Changes(frame.ref, Bumped(accumulators[frame.ref])) /\ thread' = thread
    BY <1>3, AddEffect
  <2>2. Bumped(accumulators[frame.ref]).lock = None
    BY <2>1, BumpedIs
  <2>3. \A j \in Referenced' : accumulators'[j].lock # None =>
          j \in Referenced /\ accumulators'[j] = accumulators[j]
    BY <2>1, <2>2 DEF Changes
  <2>4. ASSUME NEW u \in Threads, thread'[u].at = "replacing"
        PROVE  accumulators'[thread'[u].ref].lock = u
    <3>1. accumulators[thread[u].ref].lock = u /\ thread'[u] = thread[u]
      BY <2>1, <2>4 DEF Locks
    <3>2. thread[u].ref # frame.ref
      BY <1>n, <2>1, <3>1
    <3> QED
      BY <1>r, <2>1, <2>4, <3>1, <3>2 DEF Changes
  <2> QED
    BY <2>1, <2>3, <2>4 DEF Locks
<1>4. CASE LoseMemory
  <2>1. Referenced' = {} /\ \A t \in Threads : thread'[t].at = "idle"
    BY <1>4 DEF LoseMemory, Referenced, Waiting, NoFrame
  <2> QED
    BY <2>1 DEF Locks
<1>5. ASSUME NEW t \in Threads, LockAndWrite(t), ~Calm PROVE Locks'
  <2> DEFINE ref == thread[t].ref
             a   == Cleared(t, accumulators[ref])
             v   == [a EXCEPT !.lock = t]
  <2>1. /\ ref \in Referenced /\ a \in Accumulator /\ thread[t].at = "locking"
        /\ accumulators[ref].lock = None /\ a.dirty /\ Changes(ref, v)
        /\ thread'[t].at = "replacing" /\ thread'[t].ref = ref
        /\ \A u \in Threads \ {t} : thread'[u] = thread[u]
    BY <1>5, WriteEffect
  <2>2. v.lock = t /\ v.dirty
    BY <2>1, LockedIs
  <2> HIDE DEF ref, v
  <2> QED
    BY <2>1, <2>2, LocksAfterChange
<1>6. ASSUME NEW t \in Threads, WriteFails(t) PROVE Locks'
  <2> DEFINE ref == thread[t].ref
             a   == Cleared(t, accumulators[ref])
  <2>1. /\ ref \in Referenced /\ thread[t].at = "locking" /\ a.lock = None
        /\ Changes(ref, a) /\ thread'[t].at # "replacing"
        /\ \A u \in Threads \ {t} : thread'[u] = thread[u]
    BY <1>6, FailEffect
  <2>2. accumulators[ref].lock = None
    BY <1>6 DEF WriteFails
  <2> HIDE DEF ref, a
  <2> QED
    BY <2>1, <2>2, LocksAfterChange
<1>7. ASSUME NEW t \in Threads, ReplaceFile(t) PROVE Locks'
  <2> DEFINE ref == thread[t].ref
             v   == Unlocked(accumulators[ref], ~(temp[accumulators[ref].path] # None))
  <2>1. /\ ref \in Referenced /\ accumulators[ref] \in Accumulator /\ thread[t].at = "replacing"
        /\ Changes(ref, v) /\ thread'[t].at # "replacing"
        /\ \A u \in Threads \ {t} : thread'[u] = thread[u]
    BY <1>7, ReplaceEffect
  <2>2. v.lock = None
    BY <2>1, UnlockedIs
  <2>3. accumulators[ref].lock = t /\ thread[t].ref = ref
    BY <2>1 DEF Locks
  <2> HIDE DEF ref, v
  <2> QED
    BY <2>1, <2>2, <2>3, LocksAfterChange
<1> QED
  BY <1>1, <1>2, <1>3, <1>4, <1>5, <1>6, <1>7, Kinds

LEMMA UnpublishedKept ==
  ASSUME FlatTypes, Places, HeapTypes, Unpublished, FlatTypes', Places',
         [HeatmapNext]_heatmapVars
  PROVE  Unpublished'
<1> SUFFICES ASSUME frame'.at = "publishing"
             PROVE  /\ current' = None /\ \A t \in Threads : thread'[t].ref # frame'.ref
                    /\ accumulators'[frame'.ref].lock = None
  BY DEF Unpublished
<1>0. frame'.ref # None /\ frame'.ref \in Referenced'
  BY DEF Places, Referenced
<1>1. CASE Calm
  <2>1. frame.at = "publishing" /\ frame'.ref = frame.ref /\ current' = None /\ current = None
    BY <1>1 DEF Calm, Unpublished
  <2>2. \A t \in Threads : thread'[t].ref # frame'.ref
    BY <1>0, <1>1, <2>1 DEF Calm, Unpublished
  <2>3. accumulators'[frame'.ref] = accumulators[frame.ref]
    BY <1>0, <1>1, <2>1 DEF Calm, Changes
  <2> QED
    BY <2>1, <2>2, <2>3 DEF Unpublished
<1>2. CASE NewAccumulator
  <2>1. PICK id \in Ids :
          LET new == [path |-> path, width |-> frame.width, dirty |-> FALSE, lock |-> None,
                      count |-> LoadOrNew(path, frame.width)]
          IN  /\ id \notin Referenced /\ thread' = thread /\ frame'.ref = id /\ current' = None
              /\ accumulators' = [j \in Referenced' |-> IF j = id THEN new ELSE accumulators[j]]
    BY <1>2, NewEffect
  <2>2. \A t \in Threads : thread[t].ref # id
    BY <2>1, <1>0, RefsAre
  <2> QED
    BY <1>0, <2>1, <2>2
<1>3. CASE Add
  BY <1>3, AddEffect
<1>4. CASE LoseMemory
  BY <1>4 DEF LoseMemory, NoFrame
<1>5. ASSUME NEW t \in Threads, NEW v, Changes(thread[t].ref, v), frame' = frame,
             current' = current, thread'[t].ref \in {None, thread[t].ref},
             \A u \in Threads \ {t} : thread'[u] = thread[u]
      PROVE  /\ current' = None /\ \A u \in Threads : thread'[u].ref # frame'.ref
             /\ accumulators'[frame'.ref].lock = None
  <2>1. frame.at = "publishing" /\ frame'.ref = frame.ref
    BY <1>5
  <2>2. thread[t].ref # frame.ref /\ accumulators'[frame.ref] = accumulators[frame.ref]
    BY <1>0, <1>5, <2>1 DEF Unpublished, Changes
  <2> QED
    BY <1>0, <1>5, <2>1, <2>2 DEF Unpublished
<1>6. ASSUME NEW t \in Threads, LockAndWrite(t), ~Calm
      PROVE  \E v : /\ Changes(thread[t].ref, v) /\ frame' = frame
                    /\ current' = current /\ thread'[t].ref \in {None, thread[t].ref}
                    /\ \A u \in Threads \ {t} : thread'[u] = thread[u]
  BY <1>6, WriteEffect
<1>7. ASSUME NEW t \in Threads, WriteFails(t)
      PROVE  \E v : /\ Changes(thread[t].ref, v) /\ frame' = frame
                    /\ current' = current /\ thread'[t].ref \in {None, thread[t].ref}
                    /\ \A u \in Threads \ {t} : thread'[u] = thread[u]
  BY <1>7, FailEffect
<1>8. ASSUME NEW t \in Threads, ReplaceFile(t)
      PROVE  \E v : /\ Changes(thread[t].ref, v) /\ frame' = frame
                    /\ current' = current /\ thread'[t].ref \in {None, thread[t].ref}
                    /\ \A u \in Threads \ {t} : thread'[u] = thread[u]
  BY <1>8, ReplaceEffect
<1> QED
  BY <1>1, <1>2, <1>3, <1>4, <1>5, <1>6, <1>7, <1>8, Kinds

-----------------------------------------------------------------------------
(* Counts                                                                  *)

LEMMA ExpectIs ==
  ASSUME NEW lost, NEW count, Expect(lost, count), expected' # None
  PROVE  expected # None /\ ~lost /\ expected' = count
BY DEF Expect

\* A step that leaves the files, the settings and what is expected alone.
LEMMA CountsAfterCalm ==
  ASSUME FlatTypes, Places, HeapTypes, Counts, Calm,
         UNCHANGED <<path, width, file, temp, current>>, expected' \in {expected, None}
  PROVE  Counts'
<1> SUFFICES ASSUME expected' # None PROVE Counts'
  BY DEF Counts
<1>1. expected' = expected /\ expected # None
  OBVIOUS
<1>2. \A p, w : LoadOrNew(p, w)' = LoadOrNew(p, w)
  BY DEF LoadOrNew
<1>3. Stored' = Stored
  BY <1>2 DEF Stored
<1>4. current # None => accumulators'[current'] = accumulators[current]
  BY NoneFacts DEF Calm, Changes, Referenced
<1>5. frame'.at = "publishing" =>
        frame.at = "publishing" /\ accumulators'[frame'.ref] = accumulators[frame.ref]
  <2> SUFFICES ASSUME frame'.at = "publishing"
               PROVE  frame.at = "publishing" /\ accumulators'[frame'.ref] = accumulators[frame.ref]
    OBVIOUS
  <2>1. frame.at = "publishing" /\ frame'.ref = frame.ref /\ frame.ref # None
    BY DEF Calm, Places
  <2> QED
    BY <2>1 DEF Calm, Changes, Referenced
<1>6. Shown' = Shown
  BY <1>3, <1>4 DEF Shown
<1> QED
  BY <1>1, <1>2, <1>4, <1>5, <1>6 DEF Counts, Agrees, Content

LEMMA FrameCountsKept ==
  ASSUME FlatTypes, Places, HeapTypes, Unpublished, Counts, BeginFrame \/ FrameStep
  PROVE  Counts'
<1>1. CASE BeginFrame \/ FindAccumulator \/ LoadToAdd \/ FramesEnd
  <2>1. UNCHANGED <<path, width, file, temp, current, expected>>
    BY <1>1 DEF BeginFrame, FindAccumulator, LoadToAdd, FramesEnd, settingVars, heat, ghosts
  <2> QED
    BY <1>1, <2>1, CalmFrame, CountsAfterCalm
<1>2. CASE NewAccumulator
  <2> SUFFICES ASSUME expected' # None PROVE Counts'
    BY DEF Counts
  <2>1. UNCHANGED <<path, width, file, temp, expected>>
    BY <1>2 DEF NewAccumulator, settingVars, ghosts
  <2>2. PICK id \in Ids :
          LET new == [path |-> path, width |-> frame.width, dirty |-> FALSE, lock |-> None,
                      count |-> LoadOrNew(path, frame.width)]
          IN  /\ frame'.at = "publishing" /\ frame'.ref = id /\ current = None /\ current' = None
              /\ accumulators' = [j \in Referenced' |-> IF j = id THEN new ELSE accumulators[j]]
    BY <1>2, NewEffect
  <2>3. \A p, w : LoadOrNew(p, w)' = LoadOrNew(p, w)
    BY <2>1 DEF LoadOrNew
  <2>4. Shown' = expected'
    BY <2>1, <2>2, <2>3 DEF Counts, Shown, Stored
  <2>5. id \in Referenced'
    BY <2>2, NoneFacts DEF Referenced
  <2>6. Agrees(accumulators[frame.ref])'
    BY <2>2, <2>3, <2>5 DEF Agrees
  <2> QED
    BY <2>2, <2>4, <2>6 DEF Counts
<1>3. CASE Publish
  <2> SUFFICES ASSUME expected' # None PROVE Counts'
    BY DEF Counts
  <2>1. /\ expected # None /\ ~Outdated(accumulators[frame.ref]) /\ expected' = expected
        /\ frame.at = "publishing" /\ current' = frame.ref
        /\ UNCHANGED <<path, width, file>>
    BY <1>3, ExpectIs DEF Publish, settingVars
  <2>2. frame.ref # None /\ current = None /\ accumulators[frame.ref].lock = None
    BY <2>1 DEF Places, Unpublished
  <2>3. accumulators'[current'] = accumulators[frame.ref]
    BY <1>3, <2>1, <2>2, CalmFrame DEF Calm, Changes, Referenced
  <2>4. \A p, w : LoadOrNew(p, w)' = LoadOrNew(p, w)
    BY <2>1 DEF LoadOrNew
  <2>5. Agrees(accumulators[frame.ref]) /\ Shown = expected
    BY <2>1 DEF Counts
  <2>6. Agrees(accumulators[current])'
    BY <2>3, <2>4, <2>5 DEF Agrees
  <2>7. Shown' = expected'
    BY <2>1, <2>2, <2>3, <2>5 DEF Shown, Stored, Agrees, Outdated
  <2>8. frame'.at # "publishing"
    BY <1>3, FrameMoves
  <2> QED
    BY <2>1, <2>2, <2>3, <2>6, <2>7, <2>8 DEF Counts
<1>4. CASE Add
  <2> SUFFICES ASSUME expected' # None PROVE Counts'
    BY DEF Counts
  <2> DEFINE old == accumulators[frame.ref]
  <2>1. /\ expected # None /\ expected' = IF frame.ref = current THEN expected + 1 ELSE expected
        /\ UNCHANGED <<path, width, file, temp>>
    BY <1>4 DEF Add, Expect, settingVars
  <2>2. /\ old \in Accumulator /\ old.lock = None /\ Changes(frame.ref, Bumped(old))
        /\ current' = current /\ frame'.at # "publishing"
    BY <1>4, AddEffect
  <2>3. \A p, w : LoadOrNew(p, w)' = LoadOrNew(p, w)
    BY <2>1 DEF LoadOrNew
  <2>4. CASE current = None
    BY <2>1, <2>2, <2>3, <2>4, <1>4 DEF Counts, Shown, Stored, Add, Places
  <2>5. CASE current # None /\ frame.ref = current
    <3>1. accumulators'[current'] = Bumped(old)
      BY <2>2, <2>5 DEF Changes, Referenced
    <3>2. Bumped(old).dirty /\ Bumped(old).lock = None /\ Bumped(old).count = old.count + 1
      BY <2>2, BumpedIs
    <3>3. Shown' = expected'
      BY <2>1, <2>2, <2>5, <3>1, <3>2 DEF Counts, Shown
    <3> QED
      BY <2>2, <3>1, <3>2, <3>3 DEF Counts
  <2>6. CASE current # None /\ frame.ref # current
    <3>1. accumulators'[current'] = accumulators[current]
      BY <2>2, <2>6 DEF Changes, Referenced
    <3>2. Shown' = expected'
      BY <2>1, <2>2, <2>6, <3>1 DEF Counts, Shown
    <3> QED
      BY <2>1, <2>2, <2>3, <2>6, <3>1, <3>2 DEF Counts, Agrees, Content
  <2> QED
    BY <2>4, <2>5, <2>6
<1> QED
  BY <1>1, <1>2, <1>3, <1>4 DEF FrameStep

LEMMA UseCountsKept ==
  ASSUME FlatTypes, Places, HeapTypes, Locks, Unpublished, Counts, NEW t \in Threads, Use(t)
  PROVE  Counts'
<1>1. CASE Check(t) \/ Load(t)
  <2>1. UNCHANGED <<path, width, file, temp, current, expected>>
    BY <1>1 DEF Check, Load, settingVars, heat, ghosts
  <2> QED
    BY <1>1, <2>1, CalmThread, CountsAfterCalm
<1>2. CASE LockAndWrite(t)
  <2> SUFFICES ASSUME expected' # None PROVE Counts'
    BY DEF Counts
  <2> DEFINE ref == thread[t].ref
             a   == Cleared(t, accumulators[ref])
             v   == [a EXCEPT !.lock = t]
  <2>1. /\ expected # None /\ ref = current
        /\ expected' = IF thread[t].task = "reset" THEN 0 ELSE expected
        /\ UNCHANGED <<path, width>>
    BY <1>2 DEF LockAndWrite, Expect, settingVars
  <2>2. CASE Calm
    <3>1. CASE a.dirty
      <4>1. thread[t].at = "locking" /\ thread'[t].at = "replacing"
        <5>1. thread[t].at = "locking" /\ Goto(t, "replacing")
          BY <1>2, <3>1 DEF LockAndWrite, IsAt
        <5> QED
          BY <5>1, GotoMoves DEF MovesTo, ThreadStates, UseStates
      <4> QED
        BY <2>2, <4>1 DEF Calm
    <3>2. CASE ~a.dirty
      <4>1. thread[t].task # "reset" /\ UNCHANGED <<file, temp, current>>
        BY <1>2, <3>2, WriteEffect
      <4>2. expected' = expected
        BY <2>1, <4>1
      <4> QED
        BY <2>1, <2>2, <4>1, <4>2, CountsAfterCalm
    <3> QED
      BY <3>1, <3>2
  <2>3. CASE ~Calm
    <3>1. /\ ref \in Referenced /\ accumulators[ref] \in Accumulator /\ a \in Accumulator
          /\ a.dirty /\ Changes(ref, v) /\ temp' = [temp EXCEPT ![a.path] = Content(a)]
          /\ frame' = frame /\ current' = current /\ file' = file
      BY <1>2, <2>3, WriteEffect
    <3>2. /\ v.lock = t /\ v.count = a.count /\ v.path = a.path /\ v.dirty = a.dirty
          /\ Content(v) = Content(a)
      BY <3>1, LockedIs
    <3>3. a.count = IF thread[t].task = "reset" THEN 0 ELSE accumulators[ref].count
      BY <3>1, ContentType
    <3>4. ref # None /\ frame.at # "publishing"
      BY <2>1, <3>1, NoneFacts DEF Unpublished, Referenced
    <3>5. temp'[a.path] = Content(a)
      <4> HIDE DEF a
      <4> QED
        BY <3>1 DEF FlatTypes, Accumulator
    <3> HIDE DEF v
    <3>6. accumulators'[current'] = v /\ current' # None
      BY <2>1, <3>1, <3>4 DEF Changes, Referenced
    <3>7. Shown' = expected'
      <4>1. Shown' = v.count
        BY <3>6 DEF Shown
      <4>2. Shown = accumulators[ref].count /\ Shown = expected
        BY <2>1, <3>4 DEF Shown, Counts
      <4> QED
        BY <2>1, <3>2, <3>3, <4>1, <4>2
    <3> HIDE DEF a
    <3>8. ~accumulators'[current'].dirty => FALSE
      BY <3>1, <3>2, <3>6
    <3>9. temp'[accumulators'[current'].path] = Content(accumulators[current])'
      BY <3>2, <3>5, <3>6 DEF Content
    <3> QED
      BY <3>1, <3>4, <3>7, <3>8, <3>9 DEF Counts
  <2> QED
    BY <2>2, <2>3
<1>3. CASE WriteFails(t)
  <2>1. expected' = None
    BY <1>3 DEF WriteFails, Expect
  <2> QED
    BY <2>1 DEF Counts
<1>4. CASE ReplaceFile(t)
  <2> SUFFICES ASSUME expected' # None PROVE Counts'
    BY DEF Counts
  <2> DEFINE ref == thread[t].ref
             old == accumulators[ref]
             renamed == temp[old.path] # None
             v == Unlocked(old, ~renamed)
  <2>1. expected # None /\ renamed /\ ref = current /\ expected' = expected
        /\ UNCHANGED <<path, width>>
    BY <1>4, ExpectIs DEF ReplaceFile, settingVars
  <2>2. /\ ref \in Referenced /\ old \in Accumulator /\ thread[t].at = "replacing"
        /\ frame' = frame /\ current' = current
        /\ file' = [file EXCEPT ![old.path] = temp[old.path]]
        /\ Changes(ref, v)
    BY <1>4, <2>1, ReplaceEffect
  <2>3. ref # None /\ frame.at # "publishing" /\ t # None
    BY <2>1, <2>2, NoneFacts DEF Unpublished, Referenced
  <2>4. temp[old.path] = Content(old)
    BY <2>1, <2>2, <2>3 DEF Locks, Counts
  <2>5. /\ v.lock = None /\ v.count = old.count /\ v.path = old.path /\ v.width = old.width
    BY <2>2, UnlockedIs
  <2>6. file'[old.path] = [width |-> old.width, count |-> old.count] /\ file'[old.path] # None
    BY <2>1, <2>2, <2>4 DEF FlatTypes, Accumulator, Content
  <2> HIDE DEF v, old, renamed
  <2>7. accumulators'[current'] = v /\ current' # None
    BY <2>1, <2>2, <2>3 DEF Changes, Referenced
  <2>8. Agrees(accumulators[current])'
    BY <2>5, <2>6, <2>7 DEF Agrees, LoadOrNew
  <2>9. Shown' = expected'
    BY <2>1, <2>3, <2>5, <2>7 DEF Counts, Shown, old
  <2> QED
    BY <2>2, <2>3, <2>5, <2>7, <2>8, <2>9 DEF Counts
<1> QED
  BY <1>1, <1>2, <1>3, <1>4 DEF Use

LEMMA RequestCountsKept ==
  ASSUME FlatTypes, Places, HeapTypes, Counts, NEW r \in Requests, Request(r)
  PROVE  Counts'
<1>1. CASE BeginApply(r) \/ BeginReset(r)
  <2>1. UNCHANGED <<path, width, file, temp, current, expected>>
    BY <1>1 DEF BeginApply, BeginReset, settingVars, heat, ghosts
  <2> QED
    BY <1>1, <2>1, CalmRequest, CountsAfterCalm
<1> SUFFICES ASSUME expected' # None, Configure(r) \/ Repath(r) \/ Drop(r) PROVE Counts'
  BY <1>1 DEF Counts, Request
<1>2. Calm /\ file' = file /\ temp' = temp /\ frame' = frame
  BY CalmRequest DEF Configure, Repath, Drop, heat
<1>3. \A p, w : LoadOrNew(p, w)' = LoadOrNew(p, w)
  BY <1>2 DEF LoadOrNew
<1>4. expected # None
  BY ExpectIs DEF Configure, Repath, Drop
<1>5. frame'.at = "publishing" => Agrees(accumulators[frame.ref])'
  <2> SUFFICES ASSUME frame.at = "publishing" PROVE Agrees(accumulators[frame.ref])'
    BY <1>2
  <2>1. frame.ref # None
    BY DEF Places
  <2>2. accumulators'[frame'.ref] = accumulators[frame.ref]
    BY <1>2, <2>1 DEF Calm, Changes, Referenced
  <2> QED
    BY <1>3, <1>4, <2>2 DEF Counts, Agrees
<1>6. current' # None /\ current' = current =>
        /\ accumulators'[current'] = accumulators[current]
        /\ ~accumulators'[current'].dirty => Agrees(accumulators[current])'
        /\ accumulators'[current'].lock # None =>
             temp'[accumulators'[current'].path] = Content(accumulators[current])'
  <2> SUFFICES ASSUME current' # None, current' = current
               PROVE  /\ accumulators'[current'] = accumulators[current]
                      /\ ~accumulators'[current'].dirty => Agrees(accumulators[current])'
                      /\ accumulators'[current'].lock # None =>
                           temp'[accumulators'[current'].path] = Content(accumulators[current])'
    OBVIOUS
  <2>1. accumulators'[current'] = accumulators[current]
    BY <1>2 DEF Calm, Changes, Referenced
  <2> QED
    BY <1>2, <1>3, <1>4, <2>1 DEF Counts, Agrees, Content
<1>7. CASE Configure(r)
  <2>1. /\ expected' = IF current = None THEN LoadOrNew(path, width') ELSE expected
        /\ path' = path /\ current' = current
    BY <1>7 DEF Configure, Expect, heat
  <2>2. Shown' = expected'
    BY <1>3, <1>4, <1>6, <2>1 DEF Counts, Shown, Stored
  <2> QED
    BY <1>5, <1>6, <2>1, <2>2 DEF Counts
<1>8. CASE Repath(r)
  <2>1. /\ expected' = IF path' = path THEN expected ELSE LoadOrNew(path', width)
        /\ width' = width /\ current' = IF path' = path THEN current ELSE None
    BY <1>8 DEF Repath, Expect
  <2>2. Shown' = expected'
    BY <1>3, <1>4, <1>6, <2>1 DEF Counts, Shown, Stored
  <2> QED
    BY <1>5, <1>6, <2>1, <2>2 DEF Counts
<1>9. CASE Drop(r)
  <2>1. /\ expected' = IF OutdatedInUse THEN Stored ELSE expected
        /\ ~Unsaved /\ path' = path /\ width' = width /\ current' = None
    BY <1>9, ExpectIs DEF Drop, settingVars
  <2>2. Shown' = Stored
    BY <1>3, <2>1 DEF Shown, Stored
  <2>3. ~OutdatedInUse => Stored = expected
    BY <1>4, <2>1 DEF Counts, Shown, Stored, Agrees, OutdatedInUse, Outdated, Unsaved
  <2> QED
    BY <1>5, <2>1, <2>2, <2>3 DEF Counts
<1> QED
  BY <1>7, <1>8, <1>9

LEMMA ProcessCountsKept ==
  ASSUME FlatTypes, Places, HeapTypes, Locks, Counts, LastSave,
         PersistWakes \/ PersistReturns \/ Stop \/ JoinThreads \/ Exit \/ Crash \/ Start
  PROVE  Counts'
<1>1. CASE PersistWakes \/ PersistReturns \/ Stop \/ JoinThreads
  <2>1. UNCHANGED <<path, width, file, temp, current>> /\ expected' \in {expected, None}
    BY <1>1 DEF PersistWakes, PersistReturns, Stop, JoinThreads, settingVars, heat, ghosts, Expect
  <2> QED
    BY <1>1, <2>1, CalmProcess, CountsAfterCalm
<1> SUFFICES ASSUME expected' # None, Exit \/ Crash \/ Start PROVE Counts'
  BY <1>1 DEF Counts
<1>2. file' = file
  BY DEF Exit, Crash, Start
<1>3. \A p, w : LoadOrNew(p, w)' = LoadOrNew(p, w)
  BY <1>2 DEF LoadOrNew
<1>4. expected # None
  BY ExpectIs DEF Exit, Crash, Start
<1>5. current' = None /\ frame'.at # "publishing"
  <2>1. CASE Exit \/ Crash
    <3>1. current' = None /\ frame' = [at |-> "idle", width |-> 0, ref |-> None]
      BY <2>1 DEF Exit, Crash, LoseMemory, NoFrame
    <3> QED
      BY <3>1
  <2>2. CASE Start
    BY <2>2 DEF Start, Places, NoFrame
  <2> QED
    BY <2>1, <2>2
<1>6. Shown' = LoadOrNew(path', width')
  BY <1>3, <1>5 DEF Shown, Stored
<1>7. CASE Exit
  <2>1. /\ expected' = IF OutdatedInUse THEN Stored ELSE expected
        /\ ~(Unsaved /\ \E r \in Requests : ~IsAt(r, "idle"))
        /\ path' = path /\ width' = width /\ thread["main"].at = "exiting" /\ up
    BY <1>7 DEF Exit, Expect, settingVars, IsAt
  <2>2. ~Unsaved
    <3> SUFFICES ASSUME Unsaved PROVE FALSE
      OBVIOUS
    <3>1. accumulators[current].lock \in Requests /\ current # None
      BY <1>4, <2>1 DEF LastSave, Unsaved
    <3>2. thread[accumulators[current].lock].at = "replacing"
      BY <3>1, NoneFacts, RefsAre DEF Locks
    <3> QED
      BY <2>1, <3>1, <3>2 DEF IsAt
  <2>3. ~OutdatedInUse => Stored = expected
    BY <1>4, <2>2 DEF Counts, Shown, Stored, Agrees, OutdatedInUse, Outdated, Unsaved
  <2>4. Shown' = expected'
    BY <1>6, <2>1, <2>3 DEF Stored
  <2> QED
    BY <1>5, <2>4 DEF Counts
<1>8. CASE Crash
  <2>1. expected' = Stored /\ path' = path /\ width' = width
    BY <1>8, ExpectIs DEF Crash, settingVars
  <2> QED
    BY <1>5, <1>6, <2>1 DEF Counts, Stored
<1>9. CASE Start
  <2>1. /\ expected' = IF saved = <<path, width>> THEN expected ELSE LoadOrNew(path', width')
        /\ path' = saved[1] /\ width' = saved[2] /\ current = None
    BY <1>9 DEF Start, Expect, Places
  <2>2. Shown = LoadOrNew(path, width) /\ Shown = expected
    BY <1>4, <2>1 DEF Counts, Shown, Stored
  <2>3. saved = <<path, width>> => path' = path /\ width' = width
    BY <2>1
  <2>4. CASE saved = <<path, width>>
    <3>1. LoadOrNew(path', width') = LoadOrNew(path, width)
      BY <2>3, <2>4
    <3> QED
      BY <1>5, <1>6, <2>1, <2>2, <2>4, <3>1 DEF Counts
  <2>5. CASE saved # <<path, width>>
    BY <1>5, <1>6, <2>1, <2>5 DEF Counts
  <2> QED
    BY <2>4, <2>5
<1> QED
  BY <1>7, <1>8, <1>9

-----------------------------------------------------------------------------
(* The last save                                                           *)

LEMMA SameInUse ==
  ASSUME Calm, current' = current \/ current' = None
  PROVE  Unsaved' => Unsaved /\ accumulators'[current'] = accumulators[current]
BY NoneFacts DEF Calm, Changes, Referenced, Unsaved

\* A step of a thread other than main and persist.
LEMMA LastSaveAfterRequest ==
  ASSUME LastSave, expected' # None => expected # None, frame' = frame,
         thread'["main"].at = thread["main"].at, thread'["persist"].at = thread["persist"].at,
         expected' # None /\ Unsaved' =>
           \/ accumulators'[current'].lock \in Requests
           \/ Unsaved /\ accumulators'[current'] = accumulators[current]
  PROVE  LastSave'
BY DEF LastSave

LEMMA UseLastSaveKept ==
  ASSUME FlatTypes, Places, HeapTypes, Locks, LastSave, NEW t \in Threads, Use(t)
  PROVE  LastSave'
<1>0. /\ "main" \in Threads /\ "persist" \in Threads /\ "main" \notin Requests
      /\ "persist" \notin Requests /\ Threads = Requests \union {"persist", "main"}
      /\ "main" # "persist"
  BY NoneFacts
<1> SUFFICES ASSUME expected' # None PROVE LastSave'
  BY DEF LastSave
<1>e. expected # None
  <2>1. CASE Check(t) \/ Load(t)
    BY <2>1 DEF Check, Load, ghosts
  <2>2. CASE LockAndWrite(t) \/ WriteFails(t) \/ ReplaceFile(t)
    BY <2>2 DEF LockAndWrite, WriteFails, ReplaceFile, Expect
  <2> QED
    BY <2>1, <2>2 DEF Use
<1>f. frame' = frame /\ current' = current
  BY DEF Use, Check, Load, LockAndWrite, WriteFails, ReplaceFile, heat
<1>m. \A u \in Threads \ {t} : thread'[u] = thread[u]
  <2>1. CASE Check(t) \/ Load(t)
    BY <2>1, CheckMoves, LoadMoves DEF Check, MovesTo
  <2>2. CASE LockAndWrite(t) \/ WriteFails(t) \/ ReplaceFile(t)
    <3>1. Goto(t, "replacing") \/ Saved(t) \/ Finish(t)
      BY <2>2 DEF LockAndWrite, WriteFails, ReplaceFile
    <3> QED
      BY <3>1, GotoMoves, SavedMoves, FinishMoves DEF MovesTo, ThreadStates, UseStates
  <2> QED
    BY <2>1, <2>2 DEF Use
<1>a. thread[t].at \in {"checking", "loading", "locking", "replacing"}
  BY DEF Use, Check, Load, LockAndWrite, WriteFails, ReplaceFile, IsAt
\* What is unsaved afterwards was so before, or t is about to replace the file.
<1>u. Unsaved' =>
        \/ accumulators'[current'].lock = t /\ thread'[t].at = "replacing"
        \/ /\ Unsaved /\ accumulators'[current'] = accumulators[current]
           /\ ~(t = "main" /\ thread'["main"].at = "exiting")
  <2> SUFFICES ASSUME Unsaved'
               PROVE  \/ accumulators'[current'].lock = t /\ thread'[t].at = "replacing"
                      \/ /\ Unsaved /\ accumulators'[current'] = accumulators[current]
                         /\ ~(t = "main" /\ thread'["main"].at = "exiting")
    OBVIOUS
  <2>c. current # None
    BY <1>f DEF Unsaved
  <2>1. CASE Check(t) \/ Load(t)
    <3>1. Unsaved /\ accumulators'[current'] = accumulators[current]
      BY <1>f, <2>1, CalmThread, SameInUse
    <3>2. thread'[t].at \in {"loading", "locking"}
      BY <2>1, <2>c, CheckMoves, LoadMoves DEF Check, MovesTo
    <3> QED
      BY <3>1, <3>2
  <2>2. CASE LockAndWrite(t)
    <3> DEFINE ref == thread[t].ref
               a   == Cleared(t, accumulators[ref])
    <3>1. ref = current
      BY <2>2 DEF LockAndWrite, Expect
    <3>2. CASE Calm
      <4>1. Unsaved /\ accumulators'[current'] = accumulators[current]
        BY <1>f, <3>2, SameInUse
      <4>2. thread[t].at = "locking" /\ ~a.dirty
        <5>1. CASE a.dirty
          <6>1. thread[t].at = "locking" /\ Goto(t, "replacing")
            BY <2>2, <5>1 DEF LockAndWrite, IsAt
          <6>2. thread'[t].at = "replacing"
            BY <6>1, GotoMoves DEF MovesTo, ThreadStates, UseStates
          <6> QED
            BY <3>2, <6>1, <6>2 DEF Calm
        <5> QED
          BY <2>2, <5>1, WriteEffect
      <4>3. a = accumulators[ref]
        BY <2>2, <4>2, WriteEffect
      <4> QED
        BY <3>1, <4>1, <4>2, <4>3 DEF Unsaved
    <3>3. CASE ~Calm
      <4>1. /\ ref \in Referenced /\ a \in Accumulator /\ Changes(ref, [a EXCEPT !.lock = t])
            /\ thread'[t].at = "replacing"
        BY <2>2, <3>3, WriteEffect
      <4>2. accumulators'[current'] = [a EXCEPT !.lock = t]
        BY <1>f, <2>c, <3>1, <4>1 DEF Changes, Referenced
      <4>3. accumulators'[current'].lock = t
        BY <4>1, <4>2, LockedIs
      <4> QED
        BY <4>1, <4>3
    <3> QED
      BY <3>2, <3>3
  <2>3. CASE WriteFails(t)
    BY <2>3 DEF WriteFails, Expect
  <2>4. CASE ReplaceFile(t)
    <3> DEFINE ref == thread[t].ref
               renamed == temp[accumulators[ref].path] # None
               v == Unlocked(accumulators[ref], ~renamed)
    <3>1. ref = current /\ renamed
      BY <2>4 DEF ReplaceFile, Expect
    <3>2. ref \in Referenced /\ accumulators[ref] \in Accumulator /\ Changes(ref, v)
      BY <2>4, ReplaceEffect
    <3>3. accumulators'[current'] = v
      BY <1>f, <2>c, <3>1, <3>2 DEF Changes, Referenced
    <3>4. v.dirty = ~renamed
      BY <3>2, UnlockedIs
    <3> HIDE DEF v
    <3>5. ~accumulators'[current'].dirty
      BY <3>1, <3>3, <3>4
    <3> QED
      BY <3>5 DEF Unsaved
  <2> QED
    BY <2>1, <2>2, <2>3, <2>4 DEF Use
<1>1. CASE t = "persist"
  <2>1. thread'["main"] = thread["main"]
    BY <1>0, <1>1, <1>m
  <2> QED
    BY <1>1, <1>a, <1>e, <2>1 DEF LastSave
<1>2. CASE t = "main"
  <2>1. frame'.at = "returned" /\ thread'["persist"].at = "returned"
    BY <1>0, <1>2, <1>a, <1>e, <1>f, <1>m DEF LastSave
  <2>2. ~(thread'["main"].at = "exiting" /\ Unsaved')
    BY <1>2, <1>u
  <2> QED
    BY <2>1, <2>2 DEF LastSave
<1>3. CASE t \in Requests
  <2>1. thread'["main"] = thread["main"] /\ thread'["persist"] = thread["persist"]
    BY <1>0, <1>3, <1>m
  <2> QED
    BY <1>3, <1>e, <1>f, <1>u, <2>1, LastSaveAfterRequest
<1> QED
  BY <1>0, <1>1, <1>2, <1>3

LEMMA RequestLastSaveKept ==
  ASSUME FlatTypes, Places, HeapTypes, LastSave, NEW r \in Requests, Request(r)
  PROVE  LastSave'
<1>0. /\ "main" \in Threads /\ "persist" \in Threads /\ r \in Threads /\ r # "main"
      /\ r # "persist"
  BY NoneFacts
<1>1. Calm /\ frame' = frame /\ current' \in {current, None}
  BY CalmRequest DEF Request, BeginApply, Configure, BeginReset, Repath, Drop, heat
<1>2. expected' # None => expected # None
  BY DEF Request, BeginApply, Configure, BeginReset, Repath, Drop, ghosts, Expect
<1>3. thread'["main"].at = thread["main"].at /\ thread'["persist"].at = thread["persist"].at
  <2>1. CASE BeginApply(r)
    BY <1>0, <2>1, BeginApplyMoves
  <2>2. CASE Configure(r) \/ BeginReset(r) \/ Repath(r) \/ Drop(r)
    <3>1. \A u \in Threads \ {r} : thread'[u] = thread[u]
      <4>1. CASE Configure(r)
        BY <1>0, <4>1, GotoMoves DEF Configure, MovesTo, ThreadStates
      <4>2. CASE BeginReset(r)
        BY <1>0, <4>2, CheckMoves DEF BeginReset, MovesTo
      <4>3. CASE Repath(r)
        BY <1>0, <4>3, RepathMoves DEF MovesTo
      <4>4. CASE Drop(r)
        BY <1>0, <4>4, FinishMoves DEF Drop, MovesTo
      <4> QED
        BY <2>2, <4>1, <4>2, <4>3, <4>4
    <3> QED
      BY <1>0, <3>1
  <2> QED
    BY <2>1, <2>2 DEF Request
<1> QED
  BY <1>1, <1>2, <1>3, SameInUse, LastSaveAfterRequest

LEMMA LastSaveKept ==
  ASSUME FlatTypes, Places, HeapTypes, Locks, LastSave, [HeatmapNext]_heatmapVars
  PROVE  LastSave'
<1>0. "main" \in Threads /\ "persist" \in Threads /\ "main" # "persist"
  BY NoneFacts
<1>1. CASE UNCHANGED heatmapVars
  BY <1>1 DEF heatmapVars, heat, ghosts, LastSave, Unsaved
<1>2. CASE BeginFrame \/ FrameStep
  <2>1. thread' = thread /\ (expected' # None => expected # None)
        /\ (frame.at # "returned" \/ thread["main"].at = "idle")
    BY <1>2 DEF BeginFrame, FrameStep, FindAccumulator, NewAccumulator, Publish, LoadToAdd, Add,
       FramesEnd, ghosts, Expect
  <2> QED
    BY <2>1 DEF LastSave
<1>3. CASE \E r \in Requests : Request(r)
  BY <1>3, RequestLastSaveKept
<1>4. CASE \E t \in Threads : Use(t)
  BY <1>4, UseLastSaveKept
<1>5. CASE PersistWakes \/ PersistReturns
  <2>1. /\ thread["persist"].at = "idle" /\ expected' = expected
        /\ \A u \in Threads \ {"persist"} : thread'[u] = thread[u]
    BY <1>0, <1>5, CheckMoves, GotoMoves DEF PersistWakes, PersistReturns, IsAt, ghosts,
       MovesTo, ThreadStates
  <2> QED
    BY <1>0, <2>1 DEF LastSave
<1>6. CASE Stop
  <2>1. thread'["main"].at = "joining"
    BY <1>0, <1>6, GotoMoves DEF Stop, MovesTo, ThreadStates
  <2> QED
    BY <2>1 DEF LastSave
<1>7. CASE JoinThreads
  <2> SUFFICES ASSUME expected' # None PROVE LastSave'
    BY DEF LastSave
  <2>1. /\ frame.at = "returned" /\ thread["persist"].at = "returned" /\ frame' = frame
        /\ current' = current /\ CheckAccumulator("main", "save")
    BY <1>7 DEF JoinThreads, Expect, IsAt, heat
  <2>2. thread'["persist"] = thread["persist"]
    BY <1>0, <2>1, CheckMoves DEF MovesTo
  <2>3. thread'["main"].at = "exiting" => current = None
    BY <1>0, <2>1, CheckMoves DEF MovesTo
  <2> QED
    BY <2>1, <2>2, <2>3 DEF LastSave, Unsaved
<1>8. CASE Exit \/ Crash
  <2>1. thread'["main"] = Waiting
    BY <1>0, <1>8 DEF Exit, Crash, LoseMemory
  <2> QED
    BY <2>1 DEF LastSave, Waiting
<1>9. CASE Start
  <2>1. thread'["main"].at = "idle"
    BY <1>0, <1>9 DEF Start, Places, Waiting
  <2> QED
    BY <2>1 DEF LastSave
<1> QED
  BY <1>1, <1>2, <1>3, <1>4, <1>5, <1>6, <1>7, <1>8, <1>9, HeatmapSteps

-----------------------------------------------------------------------------
(* The invariant, and what it implies                                      *)

LEMMA HeatmapInitially == HeatmapInit => HInv
<1> SUFFICES ASSUME HeatmapInit PROVE HInv
  OBVIOUS
<1>0. /\ \A t \in Threads : thread[t] = Waiting
      /\ Waiting.at = "idle" /\ Waiting.task = None /\ Waiting.ref = None
      /\ frame = NoFrame /\ NoFrame.at = "idle" /\ NoFrame.ref = None
      /\ current = None /\ up = TRUE
  BY DEF HeatmapInit, Waiting, NoFrame
<1>1. FlatTypes
  <2>1. thread \in [Threads -> ThreadState] /\ frame \in [at : FrameStates, width : {0, 1}, ref : Reference]
    BY WaitingTypes DEF HeatmapInit
  <2>2. /\ file \in [Paths -> Array \union {None}] /\ temp \in [Paths -> Array \union {None}]
    BY DEF HeatmapInit, Array
  <2> QED
    BY <2>1, <2>2 DEF HeatmapInit, FlatTypes, Settings, Paths, Reference
<1>2. Referenced = {}
  BY <1>0 DEF Referenced
<1>3. HeapTypes
  BY <1>2 DEF HeapTypes, HeatmapInit
<1>4. Places
  BY <1>0, NoneFacts DEF Places, UseStates
<1>5. Locks /\ Unpublished /\ LastSave
  BY <1>0, <1>2, NoneFacts DEF Locks, Unpublished, LastSave
<1>6. Overlapping
  BY <1>0, NoneFacts DEF Overlapping, HeatmapInit
<1>7. Counts
  <2>1. file[0] = [width |-> 0, count |-> 1] /\ path = 0 /\ width = 0 /\ expected = 1
    BY DEF HeatmapInit, Paths
  <2>2. file[0] # None
    BY <2>1, NoneFacts DEF Array
  <2>3. Stored = 1
    BY <2>1, <2>2 DEF Stored, LoadOrNew
  <2> QED
    BY <1>0, <2>1, <2>3 DEF Counts, Shown
<1> QED
  BY <1>1, <1>3, <1>4, <1>5, <1>6, <1>7 DEF HInv

LEMMA HInvKept == HInv /\ [HeatmapNext]_heatmapVars => HInv'
<1> SUFFICES ASSUME HInv, [HeatmapNext]_heatmapVars PROVE HInv'
  OBVIOUS
<1>0. FlatTypes /\ HeapTypes /\ Places /\ Locks /\ Unpublished /\ Overlapping /\ Counts /\ LastSave
  BY DEF HInv
<1>1. FlatTypes' /\ Places' /\ HeapTypes' /\ Overlapping'
  BY <1>0, FlatTypesKept, PlacesKept, HeapTypesKept, OverlappingKept
<1>2. Locks' /\ Unpublished' /\ LastSave'
  BY <1>0, <1>1, LocksKept, UnpublishedKept, LastSaveKept
<1>3. Counts'
  <2>1. CASE UNCHANGED heatmapVars
    <3>1. UNCHANGED <<path, width, file, temp, current, expected, frame, accumulators>>
      BY <2>1 DEF heatmapVars, settingVars, heat, ghosts
    <3> QED
      BY <1>0, <3>1 DEF Counts, Shown, Stored, Agrees, LoadOrNew, Content
  <2>2. CASE HeatmapNext
    BY <1>0, <2>2, HeatmapSteps, FrameCountsKept, UseCountsKept, RequestCountsKept,
       ProcessCountsKept
  <2> QED
    BY <2>1, <2>2
<1> QED
  BY <1>1, <1>2, <1>3 DEF HInv

THEOREM HInvAlways == HeatmapSpec => []HInv
  BY HeatmapInitially, HInvKept, PTL DEF HeatmapSpec

\* The heatmap shows every hit since the last reset and no older one.
THEOREM HeatmapAlwaysExact == HeatmapSpec => []HeatmapExact
<1>1. HInv => HeatmapExact
  BY DEF HInv, Counts, HeatmapExact
<1> QED
  BY <1>1, HInvAlways, PTL

THEOREM OnlyUnsavedEverAtRisk == HeatmapSpec => []OnlyUnsavedAtRisk
<1>1. HInv => OnlyUnsavedAtRisk
  BY DEF HInv, Counts, OnlyUnsavedAtRisk, Unsaved, OutdatedInUse, Outdated, Agrees, Stored
<1> QED
  BY <1>1, HInvAlways, PTL

THEOREM ApplyOnlyFailsOverlapped == HeatmapSpec => []ApplyFailsOnlyOverlapped
<1>1. HInv => ApplyFailsOnlyOverlapped
  BY DEF HInv, Overlapping, ApplyFailsOnlyOverlapped
<1> QED
  BY <1>1, HInvAlways, PTL
===============================================================================
