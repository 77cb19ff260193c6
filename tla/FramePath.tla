------------------------------ MODULE FramePath -----------------------------
(***************************************************************************)
(* The path of a sub-stream frame: RtspCapture's thread (capture.py) reads *)
(* it, CameraPipeline._on_frame puts it in a bounded queue, _process_loop  *)
(* hands it to the recorder, and CameraPipeline.stop winds the two threads *)
(* up with joins that may time out (pipeline.py).  main.py runs stop in a  *)
(* signal handler, so a second signal runs it inside itself, and once more *)
(* when waitress returns.                                                  *)
(*                                                                         *)
(* Frames are numbered in the order they are read.  There is no clock: a   *)
(* read, an open or a frame's processing may take for ever, and a wait or  *)
(* a join with a timeout may end at any moment.                            *)
(***************************************************************************)
EXTENDS Nothing, Integers, Sequences, FiniteSets, SequencesExt

CONSTANTS
  QueueSize,      \* maxsize of _frame_queue
  InitialDelay,   \* reconnect_initial_delay
  MaxDelay,       \* reconnect_max_delay
  MaxFrames,      \* bound: frames the camera sends
  MaxFailures,    \* bound: failed opens and reads
  MaxChanges,     \* bound: settings changes
  MaxSignals      \* bound: SIGINT and SIGTERM

ASSUME FramePathAssumption ==
  /\ QueueSize \in Nat \ {0}
  /\ InitialDelay \in Nat \ {0} /\ MaxDelay \in Nat /\ InitialDelay <= MaxDelay
  /\ MaxFrames \in Nat /\ MaxFailures \in Nat /\ MaxChanges \in Nat /\ MaxSignals \in Nat
  /\ None \notin Nat

VARIABLES
  capPc,        \* "looping", "opening", "opened", "reading", "delivering",
                \* "closing", "waiting", "returned": the capture thread
  delay,        \* its reconnect delay
  stopEvent,    \* capture's _stop_event
  restartEvent, \* capture's _restart_event
  settings,     \* version of the URL and transport in force
  applying,     \* apply_settings has changed them and not yet called restart
  capSettings,  \* version the open stream was opened with
  failures,     \* failed opens and reads so far
  captured,     \* number of frames read so far
  queue,        \* _frame_queue
  dropped,      \* frames shed (_dropped_frames counts them)
  framePc,      \* "getting", "empty", "handling", "returned": the frame thread
  inHand,       \* the frame it is processing
  handled,      \* frames it has handed to the recorder
  processStop,  \* _process_stop
  phase,        \* "starting", "serving", "finally", "exited": main
  stops,        \* where each pipeline.stop on its stack is, the innermost last
  signals,      \* signals so far
  tail,         \* the window open at the stop: "open", "taken", "kept", "lost"
  cacheRunning, \* the segment cache's ffmpeg runs
  timedOut,     \* history: has a join timed out
  interrupted   \* history: did a signal come while the tail was assembled

captureVars == <<capPc, delay, capSettings, failures, captured>>
configVars  == <<settings, applying>>
frameVars   == <<framePc, inHand, handled>>
tailVars    == <<tail, cacheRunning, interrupted>>
stopVars    == <<stopEvent, processStop, phase, stops, signals, timedOut, tailVars>>
threadVars  == <<captureVars, restartEvent, configVars, queue, dropped, frameVars>>
vars == <<threadVars, stopVars>>

Init ==
  /\ capPc = "looping" /\ delay = InitialDelay
  /\ stopEvent = FALSE /\ restartEvent = FALSE
  /\ settings = 0 /\ applying = FALSE /\ capSettings = 0
  /\ failures = 0 /\ captured = 0
  /\ queue = <<>> /\ dropped = {}
  /\ framePc = "getting" /\ inHand = None /\ handled = {}
  /\ processStop = FALSE /\ timedOut = FALSE
  /\ phase = "starting" /\ stops = <<>> /\ signals = 0
  /\ tail = "open" /\ cacheRunning = TRUE /\ interrupted = FALSE

-----------------------------------------------------------------------------
(* RtspCapture._run                                                        *)

KeepSettings == capSettings' = capSettings      \* fault: the URL is read once
ReadSettings == capSettings' = settings         \* _open_capture

LoopOrReturn ==
  /\ capPc = "looping"
  /\ capPc' = IF stopEvent THEN "returned" ELSE "opening"
  /\ ReadSettings
  /\ UNCHANGED <<delay, failures, captured, restartEvent, configVars,
                 queue, dropped, frameVars, stopVars>>

OpenFails ==
  /\ capPc = "opening" /\ failures < MaxFailures
  /\ capPc' = "waiting"
  /\ failures' = failures + 1
  /\ UNCHANGED <<delay, capSettings, captured, restartEvent, configVars, queue,
                 dropped, frameVars, stopVars>>

OpenSucceeds ==
  /\ capPc = "opening"
  /\ capPc' = "opened"
  /\ UNCHANGED <<delay, capSettings, failures, captured, restartEvent,
                 configVars, queue, dropped, frameVars, stopVars>>

Connected ==
  /\ capPc = "opened"
  /\ capPc' = IF stopEvent THEN "closing" ELSE "reading"
  /\ delay' = InitialDelay
  /\ restartEvent' = FALSE
  /\ UNCHANGED <<capSettings, failures, captured, configVars, queue,
                 dropped, frameVars, stopVars>>

\* The loop's condition is evaluated, and cap.read returns, whenever it does.
ReadFrame ==
  /\ capPc = "reading" /\ captured < MaxFrames
  /\ captured' = captured + 1
  /\ capPc' = "delivering"
  /\ UNCHANGED <<delay, capSettings, failures, restartEvent, configVars, queue,
                 dropped, frameVars, stopVars>>

ReadFails ==
  /\ capPc = "reading" /\ failures < MaxFailures
  /\ capPc' = "closing"
  /\ failures' = failures + 1
  /\ UNCHANGED <<delay, capSettings, captured, restartEvent, configVars, queue,
                 dropped, frameVars, stopVars>>

\* fault: makes room without counting it
MakeRoom == queue' = Append(Tail(queue), captured) /\ UNCHANGED dropped
Shed     == dropped' = dropped \union {captured} /\ UNCHANGED queue

\* _on_frame, and the loop's condition.
Deliver ==
  /\ capPc = "delivering"
  /\ IF Len(queue) < QueueSize
     THEN queue' = Append(queue, captured) /\ UNCHANGED dropped
     ELSE Shed
  /\ capPc' = IF stopEvent \/ restartEvent THEN "closing" ELSE "reading"
  /\ UNCHANGED <<delay, capSettings, failures, captured, restartEvent,
                 configVars, frameVars, stopVars>>

CloseCapture ==
  /\ capPc = "closing"
  /\ restartEvent' = FALSE
  /\ capPc' = IF stopEvent THEN "returned"
              ELSE IF restartEvent THEN "looping" ELSE "waiting"
  /\ UNCHANGED <<delay, capSettings, failures, captured, configVars,
                 queue, dropped, frameVars, stopVars>>

Doubled(d) == IF 2 * d <= MaxDelay THEN 2 * d ELSE MaxDelay

WaitToReconnect ==
  /\ capPc = "waiting"
  /\ IF stopEvent THEN capPc' = "returned" /\ UNCHANGED delay
                  ELSE capPc' = "looping" /\ delay' = Doubled(delay)
  /\ UNCHANGED <<capSettings, failures, captured, restartEvent, configVars,
                 queue, dropped, frameVars, stopVars>>

-----------------------------------------------------------------------------
(* CameraPipeline._process_loop                                            *)

GetFrame ==
  /\ framePc = "getting" /\ queue # <<>>
  /\ inHand' = Head(queue) /\ queue' = Tail(queue)
  /\ framePc' = "handling"
  /\ UNCHANGED <<captureVars, restartEvent, configVars, dropped, handled, stopVars>>

\* get's timeout ends on an empty queue; the stop flag is looked at after that.
GetTimesOut ==
  /\ framePc = "getting" /\ queue = <<>>
  /\ framePc' = "empty"
  /\ UNCHANGED <<captureVars, restartEvent, configVars, queue, dropped, inHand,
                 handled, stopVars>>

StopIfTold ==
  /\ framePc = "empty"
  /\ framePc' = IF processStop THEN "returned" ELSE "getting"
  /\ UNCHANGED <<captureVars, restartEvent, configVars, queue, dropped, inHand,
                 handled, stopVars>>

HandleFrame ==
  /\ framePc = "handling"
  /\ handled' = handled \union {inHand} /\ inHand' = None
  /\ framePc' = "getting"
  /\ UNCHANGED <<captureVars, restartEvent, configVars, queue, dropped, stopVars>>

-----------------------------------------------------------------------------
(* CameraPipeline.apply_settings and CameraPipeline.stop                   *)

ChangeSettings ==
  /\ settings < MaxChanges /\ ~applying
  /\ settings' = settings + 1 /\ applying' = TRUE
  /\ UNCHANGED <<captureVars, restartEvent, queue, dropped, frameVars, stopVars>>

Restart ==
  /\ applying /\ applying' = FALSE
  /\ restartEvent' = TRUE
  /\ UNCHANGED <<captureVars, settings, queue, dropped, frameVars, stopVars>>

Serve ==
  /\ phase = "starting" /\ stops = <<>>
  /\ phase' = "serving"
  /\ UNCHANGED <<threadVars, stopEvent, processStop, stops, signals, timedOut, tailVars>>

\* The handler runs on the main thread, wherever that is.
Signal ==
  /\ signals < MaxSignals /\ signals' = signals + 1
  /\ stops' = Append(stops, "capture")
  /\ interrupted' = (interrupted \/ (stops # <<>> /\ Last(stops) = "flush"))
  /\ UNCHANGED <<threadVars, stopEvent, processStop, phase, timedOut, tail, cacheRunning>>

At(step)    == stops # <<>> /\ Last(stops) = step
Then(step)  == stops' = [stops EXCEPT ![Len(stops)] = step]
Outer(step) == \E i \in 1..(Len(stops) - 1) : stops[i] = step

StopCapture ==
  /\ At("capture") /\ Then("frames")
  /\ stopEvent' = TRUE
  /\ UNCHANGED <<threadVars, processStop, phase, signals, timedOut, tailVars>>

CacheFirst == "cache"        \* fault: the recorder is not stopped
NextToStop == "recorder"

\* join(timeout=5): over when the thread is, or when the time is up.
StopFrames ==
  /\ At("frames") /\ Then(NextToStop)
  /\ timedOut' = (timedOut \/ capPc # "returned")
  /\ processStop' = TRUE
  /\ UNCHANGED <<threadVars, stopEvent, phase, signals, tailVars>>

NoJoin     == timedOut' = timedOut                     \* fault: not joined
JoinFrames == timedOut' = (timedOut \/ framePc # "returned")

\* The frame thread is joined, then recorder.stop takes the open window, ...
TakeTail ==
  /\ At("recorder")
  /\ JoinFrames
  /\ IF tail = "open" THEN tail' = "taken" /\ Then("flush")
     ELSE Then("cache") /\ UNCHANGED tail
  /\ UNCHANGED <<threadVars, stopEvent, processStop, phase, signals, cacheRunning, interrupted>>

\* ... assembles it here, gives its footage free under the cache's lock ...
FlushTail ==
  /\ At("flush") /\ Then("release")
  /\ tail' = IF cacheRunning THEN "kept" ELSE "lost"
  /\ UNCHANGED <<threadVars, stopEvent, processStop, phase, signals, timedOut,
                 cacheRunning, interrupted>>

\* ... and joins the assembler.
JoinAssembler ==
  /\ At("release") /\ Then("cache")
  /\ UNCHANGED <<threadVars, stopEvent, processStop, phase, signals, timedOut, tailVars>>

\* segment_cache.stop takes that lock for a moment.
CacheLocked == Outer("release") \/ Outer("cache locked")
LockCache ==
  /\ At("cache") /\ ~CacheLocked /\ Then("cache locked")
  /\ UNCHANGED <<threadVars, stopEvent, processStop, phase, signals, timedOut, tailVars>>

StopCache ==
  /\ At("cache locked") /\ Then("heatmap")
  /\ cacheRunning' = FALSE
  /\ UNCHANGED <<threadVars, stopEvent, processStop, phase, signals, timedOut, tail, interrupted>>

\* accumulator.save, if there is one, holds the accumulator's lock.
LockHeatmap ==
  /\ At("heatmap") /\ ~Outer("saving") /\ Then("saving")
  /\ UNCHANGED <<threadVars, stopEvent, processStop, phase, signals, timedOut, tailVars>>

ReturnFromStop == stops' = Front(stops) /\ UNCHANGED phase   \* fault: no SystemExit

\* The handler raises SystemExit through every stop below it.  waitress.serve
\* catches it and returns, and then main stops the pipeline again.
LeaveStop ==
  IF phase = "serving" THEN phase' = "finally" /\ stops' = <<"capture">>
                       ELSE phase' = "exited" /\ stops' = <<>>

EndStop ==
  /\ At("heatmap") \/ At("saving")
  /\ LeaveStop
  /\ UNCHANGED <<threadVars, stopEvent, processStop, signals, timedOut, tailVars>>

-----------------------------------------------------------------------------
Capture ==
  \/ LoopOrReturn \/ OpenFails \/ OpenSucceeds \/ Connected
  \/ ReadFrame \/ ReadFails \/ Deliver \/ CloseCapture \/ WaitToReconnect

Frames == GetFrame \/ GetTimesOut \/ StopIfTold \/ HandleFrame

Stopping ==
  StopCapture \/ StopFrames \/ TakeTail \/ FlushTail \/ JoinAssembler \/ LockCache \/ StopCache
    \/ LockHeatmap \/ EndStop

Next ==
  /\ phase # "exited"
  /\ Capture \/ Frames \/ ChangeSettings \/ Restart \/ Serve \/ Signal \/ Stopping

\* The main thread keeps running; no join waits for ever.
Spec == Init /\ [][Next]_vars /\ WF_vars(Stopping)

-----------------------------------------------------------------------------
(* Properties *)

Captured == 1..captured
InHand   == {inHand} \ {None}
Undelivered == IF capPc = "delivering" THEN {captured} ELSE {}

\* Every variable has its type; the queue is within its bound.
TypeOK ==
  /\ capPc \in {"looping", "opening", "opened", "reading", "delivering", "closing",
                "waiting", "returned"}
  /\ delay \in InitialDelay..MaxDelay
  /\ {stopEvent, restartEvent, applying, processStop, timedOut, cacheRunning, interrupted}
       \subseteq BOOLEAN
  /\ settings \in 0..MaxChanges /\ capSettings \in 0..settings
  /\ failures \in 0..MaxFailures
  /\ captured \in 0..MaxFrames /\ (capPc = "delivering" => captured > 0)
  /\ queue \in Seq(Captured) /\ Len(queue) <= QueueSize /\ dropped \subseteq Captured
  /\ framePc \in {"getting", "empty", "handling", "returned"}
  /\ inHand = None <=> framePc # "handling"
  /\ handled \subseteq Captured
  /\ phase \in {"starting", "serving", "finally", "exited"} /\ signals \in 0..MaxSignals
  /\ stops \in Seq({"capture", "frames", "recorder", "flush", "release", "cache",
                    "cache locked", "heatmap", "saving"})
  /\ tail \in {"open", "taken", "kept", "lost"}

\* A frame that was read reaches the recorder once and in its turn, or is
\* counted as dropped: whatever the threads do, none is lost silently.
FramesAccounted ==
  /\ Captured = handled \union dropped \union ToSet(queue) \union InHand \union Undelivered
  /\ handled \cap (dropped \union ToSet(queue) \union InHand) = {}
  /\ \A i \in DOMAIN queue : \A f \in handled \union InHand : f < queue[i]
  /\ \A i, j \in DOMAIN queue : i < j => queue[i] < queue[j]

\* recorder.stop runs on the main thread and handle_frame on the frame thread,
\* and SegmentRecorder "is not thread-safe on its own": unless a join timed
\* out, no frame is handled once the recorder is being flushed.
FlushComesLast == tail # "open" /\ ~timedOut => framePc = "returned"

\* "Must run before the segment cache backing it is stopped" (recorder.py:393):
\* however often the stop is started over, the process does not exit before the
\* event being recorded is a clip, unless a signal came while that was written.
TailKept ==
  /\ phase = "exited" => tail = "kept" \/ interrupted
  /\ tail # "lost"

\* Whatever signals come, the process exits, unless one came while the main
\* thread held a lock that stopping takes: the stop run by it waits for ever.
SelfLocked ==
  \/ At("cache") /\ CacheLocked
  \/ At("heatmap") /\ Outer("saving")
ShutdownEnds == stops # <<>> ~> phase = "exited" \/ SelfLocked

\* RtspCapture.restart: "Force a reconnect on the next iteration, e.g. after
\* settings change".  A stream goes on being read on replaced settings only if
\* the restart came while that stream was being opened: _run clears the event
\* when the connection is made.
Stale ==
  /\ capPc \in {"reading", "delivering"}
  /\ ~restartEvent /\ ~applying /\ capSettings # settings
StaleOnlyFromOpening == [][~Stale /\ Stale' => Connected /\ restartEvent]_vars
=============================================================================
