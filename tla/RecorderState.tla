--------------------------- MODULE RecorderState ----------------------------
(***************************************************************************)
(* The state of SegmentRecorder (camera_watcher/recorder.py), and what     *)
(* must hold of it at every moment.  Recorder says how it changes;         *)
(* RecordingSystem has the same state beside that of the segment cache.    *)
(***************************************************************************)
EXTENDS Protection, Sequences

CONSTANTS
  PreBuffer,     \* pre_buffer_seconds
  PostBuffer,    \* post_buffer_seconds
  MaxChunk,      \* max_chunk_seconds
  Overlap,       \* overlap_seconds
  MaxLag,        \* bound: age a frame may reach in the queue before it is processed
  FrameHorizon   \* bound: no frame is captured after this time

Workers == {"assembler", "main"}   \* the threads that run _process_job

\* recorder.py's _Window and the (window, end_ts) pair it becomes when closed;
\* the motion statistics kept for the metadata file are left out.
Window == [id: Nat, start: Int, chunkStart: Int, lastFrame: Int]
Job    == [id: Nat, start: Int, end: Int]

ASSUME RecorderAssumption ==
  /\ PreBuffer \in Nat /\ PostBuffer \in Nat /\ Overlap \in Nat
  /\ MaxChunk \in Nat \ {0}
  /\ MaxLag \in Nat /\ FrameHorizon \in Nat /\ MaxTime \in Nat

ASSUME NoneAssumption ==
  None \notin Int /\ None \notin Window /\ None \notin Job

VARIABLES
  frameTs,         \* timestamp of the last frame handed to handle_frame
  frameThread,     \* "ready", or "rolling" between the two halves of _roll_chunk
  window,          \* _window; None when _recording is false
  lastMotion,      \* _last_motion_ts
  nextId,          \* number of windows opened so far (tells equal starts apart)
  jobs,            \* _job_queue
  processing,      \* the job each worker thread is in _process_job with
  phase,           \* "running", then "flushing", then "stopped" (_assembler_stop set)
  motionSeen,      \* history: timestamps of the frames with motion
  eventStart,      \* history: window start of the event in progress
  closed           \* history: every job ever enqueued or flushed

-----------------------------------------------------------------------------
\* The windows that still need the cache: open, queued, or being assembled.
ClaimOf(x) == [id |-> x.id, start |-> x.start]
OpenClaim   == IF window = None THEN {} ELSE {ClaimOf(window)}
QueuedClaims(q) == {ClaimOf(q[i]) : i \in DOMAIN q}
BusyClaim(w) == IF processing[w] = None THEN {} ELSE {ClaimOf(processing[w])}
LiveClaims  == OpenClaim \union QueuedClaims(jobs)
                 \union BusyClaim("assembler") \union BusyClaim("main")

\* While a chunk is being rolled, its successor's start is registered already.
RollClaim ==
  IF frameThread = "rolling"
  THEN {[id |-> nextId, start |-> frameTs - Overlap]} ELSE {}

\* _active_starts is exactly the starts of the live windows: no window loses
\* its protection when another with the same start is released, and no entry
\* is left behind to keep the cache from ever being pruned again.
ActiveStartsExact == activeStarts = LiveClaims \union RollClaim

\* The cache is told to protect from the earliest live window on, at every
\* moment at which one is open, queued or being assembled, the hand-over
\* between two chunks included, and to protect nothing when there is none.
ProtectionCoversLive ==
  /\ \A c \in LiveClaims : protectedSince # None /\ protectedSince <= c.start
  /\ LiveClaims = {} => protectedSince = None

InClosed(t) == \E j \in closed : j.start <= t /\ t <= j.end
Covered(t)  == (window # None /\ t >= window.start) \/ InClosed(t)

\* A shutdown ends the event in progress at its last frame.
PostOwed == IF phase = "running" THEN PostBuffer ELSE 0

\* Every frame with motion has its pre- and post-buffer inside the windows
\* opened so far (only its pre-buffer once a shutdown cut the event short).
MotionCovered ==
  \A m \in motionSeen : \A t \in (m - PreBuffer)..(m + PostOwed) : Covered(t)

\* "Nothing is lost across the cut": the chunks of the event in progress leave
\* no instant of it uncovered, however long it lasts.
NothingLostAcrossCut ==
  window # None => \A t \in eventStart..now : Covered(t)
=============================================================================
