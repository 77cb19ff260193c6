------------------------------ MODULE Recorder ------------------------------
(***************************************************************************)
(* SegmentRecorder (camera_watcher/recorder.py): the frame-processing      *)
(* thread turns motion verdicts into recording windows, closed windows are *)
(* queued for the clip-assembler thread, and every window that is open,    *)
(* queued or being assembled keeps an entry in _active_starts, whose       *)
(* minimum is what the segment cache must not prune.                       *)
(*                                                                         *)
(* What a job does between being taken and being released is left open     *)
(* here; RecordingSystem fills it in and implements this specification.    *)
(* Times are integers on one clock.                                        *)
(***************************************************************************)
EXTENDS RecorderState

frameVars == <<frameTs, frameThread, window, lastMotion, nextId>>
jobVars   == <<jobs, processing, phase>>
history   == <<motionSeen, eventStart, closed>>
vars      == <<now, frameVars, claimVars, jobVars, history>>

-----------------------------------------------------------------------------
Init ==
  /\ now = 0
  /\ frameTs = -1
  /\ frameThread = "ready"
  /\ window = None
  /\ lastMotion = None
  /\ nextId = 0
  /\ activeStarts = {}
  /\ protectedSince = None
  /\ jobs = <<>>
  /\ processing = [w \in Workers |-> None]
  /\ phase = "running"
  /\ motionSeen = {}
  /\ eventStart = None
  /\ closed = {}

Later(s, t) == IF s >= t THEN s ELSE t

RegisterLatestStart(id, start) ==       \* fault: protect_since(start_ts)
  /\ activeStarts' = activeStarts \union {[id |-> id, start |-> start]}
  /\ protectedSince' = start

\* Both run under _state_lock, so each is one step.  list.remove(start) drops
\* one entry with that start; which of several equal ones cannot be told.
RegisterActiveStart(id, start) ==
  /\ activeStarts' = activeStarts \union {[id |-> id, start |-> start]}
  /\ protectedSince' \in Earliest(activeStarts')

ReleaseEqualStarts(job) ==              \* fault: _active_starts kept as a set
  /\ activeStarts' = {c \in activeStarts : c.start # job.start}
  /\ protectedSince' \in Earliest(activeStarts')

KeepActiveStart(job) == UNCHANGED claimVars      \* fault: the start is never released

ReleaseActiveStart(job) ==
  /\ activeStarts' = activeStarts \ {[id |-> job.id, start |-> job.start]}
  /\ protectedSince' \in Earliest(activeStarts')

JobOf(w, end) ==
  [id |-> w.id, start |-> w.start, end |-> Later(end, w.lastFrame)]

EnqueueAssembly(w, end) ==
  /\ jobs' = Append(jobs, JobOf(w, end))
  /\ closed' = closed \union {JobOf(w, end)}

-----------------------------------------------------------------------------
(* handle_frame, one disjunct per path through it.                         *)

IgnoreFrame(motion) ==
  /\ window = None /\ ~motion
  /\ UNCHANGED <<frameThread, window, lastMotion, nextId, claimVars, jobs,
                 eventStart, closed>>

StartAtLastFrame(ts) == frameTs - PreBuffer      \* fault: before the frame before
WindowStart(ts)      == ts - PreBuffer

OpenWindow(ts, motion) ==
  /\ window = None /\ motion
  /\ window' = [id |-> nextId, start |-> WindowStart(ts),
                chunkStart |-> ts, lastFrame |-> ts]
  /\ nextId' = nextId + 1
  /\ lastMotion' = ts
  /\ RegisterActiveStart(nextId, WindowStart(ts))
  /\ eventStart' = WindowStart(ts)
  /\ UNCHANGED <<frameThread, jobs, closed>>

PostBufferExpired(ts, motion) == ~motion /\ ts - lastMotion > PostBuffer

EndAtLastMotion == lastMotion                    \* fault: no post-buffer
EventEnd        == lastMotion + PostBuffer

FinishEvent(ts, motion) ==
  /\ window # None /\ PostBufferExpired(ts, motion)
  /\ EnqueueAssembly(window, EventEnd)
  /\ window' = None
  /\ lastMotion' = None
  /\ eventStart' = None
  /\ UNCHANGED <<frameThread, nextId, claimVars>>

\* The frame joins the window; one that reaches max_chunk_seconds starts
\* _roll_chunk, whose first half registers the next chunk's start.
Accumulate(ts, motion) ==
  /\ window # None /\ ~PostBufferExpired(ts, motion)
  /\ window' = [window EXCEPT !.lastFrame = ts]
  /\ lastMotion' = IF motion THEN ts ELSE lastMotion
  /\ IF ts - window.chunkStart >= MaxChunk
     THEN /\ RegisterActiveStart(nextId, ts - Overlap)
          /\ frameThread' = "rolling"
     ELSE UNCHANGED <<claimVars, frameThread>>
  /\ UNCHANGED <<nextId, jobs, eventStart, closed>>

HandleFrame(ts, motion) ==
  /\ phase = "running" /\ frameThread = "ready"
  /\ frameTs' = ts
  /\ motionSeen' = IF motion THEN motionSeen \union {ts} ELSE motionSeen
  /\ \/ IgnoreFrame(motion)
     \/ OpenWindow(ts, motion)
     \/ FinishEvent(ts, motion)
     \/ Accumulate(ts, motion)
  /\ UNCHANGED <<now, processing, phase>>

NextChunk ==
  [id |-> nextId, start |-> frameTs - Overlap, chunkStart |-> frameTs, lastFrame |-> frameTs]

ReplacedChunk == NextChunk               \* fault: replaced, then enqueued
FullChunk     == window

\* The second half of _roll_chunk: the old window is enqueued and replaced.
RollChunk ==
  /\ frameThread = "rolling"
  /\ EnqueueAssembly(FullChunk, frameTs)
  /\ window' = NextChunk
  /\ nextId' = nextId + 1
  /\ frameThread' = "ready"
  /\ UNCHANGED <<now, frameTs, lastMotion, claimVars, processing, phase,
                 motionSeen, eventStart>>

-----------------------------------------------------------------------------
(* The assembler thread, and the thread that shuts the pipeline down.      *)

TakeJob ==
  /\ processing["assembler"] = None
  /\ jobs # <<>>
  /\ processing' = [processing EXCEPT !["assembler"] = Head(jobs)]
  /\ jobs' = Tail(jobs)
  /\ UNCHANGED <<now, frameVars, claimVars, phase, history>>

\* The finally clause of _assemble_loop and of flush_on_shutdown.
ReleaseJob(w) ==
  /\ processing[w] # None
  /\ ReleaseActiveStart(processing[w])
  /\ processing' = [processing EXCEPT ![w] = None]
  /\ UNCHANGED <<now, frameVars, jobs, phase, history>>

\* pipeline.stop has joined the frame thread; recorder.stop starts.
FlushOnShutdown ==
  /\ phase = "running" /\ frameThread = "ready"
  /\ phase' = "flushing"
  /\ IF window = None
     THEN UNCHANGED <<window, lastMotion, processing, eventStart, closed>>
     ELSE /\ processing' = [processing EXCEPT !["main"] =
                              JobOf(window, window.lastFrame)]
          /\ closed' = closed \union {JobOf(window, window.lastFrame)}
          /\ window' = None
          /\ lastMotion' = None
          /\ eventStart' = None
  /\ UNCHANGED <<now, frameTs, frameThread, nextId, claimVars, jobs, motionSeen>>

SetAssemblerStop ==
  /\ phase = "flushing" /\ processing["main"] = None
  /\ phase' = "stopped"
  /\ UNCHANGED <<now, frameVars, claimVars, jobs, processing, history>>

Tick ==
  /\ now < MaxTime
  /\ now' = now + 1
  /\ UNCHANGED <<frameVars, claimVars, jobVars, history>>

\* Frames reach handle_frame in capture order and at most MaxLag late.
FrameTimes == {t \in (now - MaxLag)..now : t > frameTs /\ t <= FrameHorizon}

\* The bounded clock has run out and every job is done: nothing is left to do.
Finished ==
  /\ now = MaxTime /\ phase = "stopped"
  /\ jobs = <<>> /\ \A w \in Workers : processing[w] = None
  /\ UNCHANGED vars

Next ==
  \/ \E ts \in FrameTimes, motion \in BOOLEAN : HandleFrame(ts, motion)
  \/ RollChunk
  \/ TakeJob
  \/ \E w \in Workers : ReleaseJob(w)
  \/ FlushOnShutdown
  \/ SetAssemblerStop
  \/ Tick
  \/ Finished

Spec == Init /\ [][Next]_vars

\* Each thread keeps running; ffmpeg's concat of files on disk terminates.
Fairness ==
  /\ WF_vars(RollChunk) /\ WF_vars(TakeJob)
  /\ \A w \in Workers : WF_vars(ReleaseJob(w))

FairSpec == Spec /\ Fairness

-----------------------------------------------------------------------------
(* Properties *)

\* Every variable has its type, and a motion time is remembered exactly while
\* a window is open.
TypeOK ==
  /\ now \in Nat /\ frameTs \in Int
  /\ frameThread \in {"ready", "rolling"}
  /\ window \in Window \union {None}
  /\ frameThread = "rolling" => window # None
  /\ IsTime(lastMotion) /\ (window = None <=> lastMotion = None)
  /\ nextId \in Nat
  /\ activeStarts \subseteq Claim
  /\ IsTime(protectedSince)
  /\ jobs \in Seq(Job)
  /\ processing \in [Workers -> Job \union {None}]
  /\ phase \in {"running", "flushing", "stopped"}
  /\ motionSeen \subseteq Int
  /\ IsTime(eventStart)
  /\ closed \subseteq Job

\* Every closed window is eventually assembled or dropped, and its start
\* released: protection never stays behind.
ClosedWindowsReleased ==
  \A id \in 0..FrameHorizon :
    (\E j \in closed : j.id = id) ~> (\A c \in activeStarts : c.id # id)
=============================================================================
