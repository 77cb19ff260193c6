-------------------------- MODULE RecordingSystem ---------------------------
(***************************************************************************)
(* The recording path as a whole: the recorder's threads (Recorder), the   *)
(* segment cache they slice (SegmentCache), and _process_job between the   *)
(* two, on the assembler thread and, during a shutdown, on the main thread *)
(* as well.  It implements both component specifications.                  *)
(***************************************************************************)
EXTENDS RecorderState, SegmentCacheState

CONSTANTS
  KeepMargin   \* segment_seconds * 5 + 10 in _cache_keep_seconds

VARIABLES
  workerPc,   \* where each worker is in _process_job
  deadline,   \* its deadline for the segment rollover
  listed,     \* its segments
  saved,      \* jobs whose clip was renamed to its final name
  startedAt,  \* history: when ffmpeg first delivered,
  outageAt,   \*   when it first stopped to,
  backAt      \*   and when it last started again

CacheKeepSeconds == PreBuffer + KeepMargin

R == INSTANCE Recorder
C == INSTANCE SegmentCache WITH
       KeepSeconds <- CacheKeepSeconds,
       Reach       <- PreBuffer + MaxLag,
       MaxClaims   <- FrameHorizon + 1

\* The margin is enough for the cache, and the next chunk starts at footage
\* that this one protects.
ASSUME SystemAssumption ==
  C!KeepAssumption /\ Overlap <= PreBuffer + MaxChunk

recorderVars == <<frameTs, frameThread, window, lastMotion, nextId,
                  jobs, processing, phase, motionSeen, eventStart, closed>>
cacheVars  == <<files, writing, flowing, exitAt, outages,
                prunePc, pruneProtected, pruneReadAt, victims, lastLost>>
workerVars == <<workerPc, deadline, listed>>
outageVars == <<startedAt, outageAt, backAt>>
vars == <<now, recorderVars, claimVars, cacheVars, workerVars, saved, outageVars>>

Init ==
  /\ R!Init /\ C!Init
  /\ workerPc = [w \in Workers |-> "idle"]
  /\ deadline = [w \in Workers |-> 0]
  /\ listed = [w \in Workers |-> {}]
  /\ saved = {}
  /\ startedAt = None /\ outageAt = None /\ backAt = None

-----------------------------------------------------------------------------
(* The frame-processing thread *)

HandleFrame(ts, motion) ==
  /\ R!HandleFrame(ts, motion)
  /\ UNCHANGED <<cacheVars, workerVars, saved, outageVars>>

RollChunk ==
  /\ R!RollChunk
  /\ UNCHANGED <<cacheVars, workerVars, saved, outageVars>>

-----------------------------------------------------------------------------
(* _process_job, one action per step of it that other threads can see.     *)

StartJob(w) ==
  /\ workerPc' = [workerPc EXCEPT ![w] = "waiting"]
  /\ deadline' = [deadline EXCEPT ![w] = now + SegmentSeconds + 2 * TicksPerSecond]

TakeJob ==
  /\ R!TakeJob
  /\ StartJob("assembler")
  /\ UNCHANGED <<cacheVars, listed, saved, outageVars>>

RolledOver(job) == \E s \in DOMAIN files : s > job.end

StopWaitingAtOnce(w) ==                 \* fault: no wait for the rollover
  /\ workerPc[w] = "waiting"
  /\ workerPc' = [workerPc EXCEPT ![w] = "listing"]
  /\ deadline' = [deadline EXCEPT ![w] = 0]
  /\ UNCHANGED <<now, recorderVars, claimVars, cacheVars, listed, saved, outageVars>>

StopWaiting(w) ==
  /\ workerPc[w] = "waiting"
  /\ \/ RolledOver(processing[w])
     \/ now >= deadline[w]
     \/ phase = "stopped"
  /\ workerPc' = [workerPc EXCEPT ![w] = "listing"]
  /\ deadline' = [deadline EXCEPT ![w] = 0]
  /\ UNCHANGED <<now, recorderVars, claimVars, cacheVars, listed, saved, outageVars>>

ListJobSegments(w) ==
  /\ workerPc[w] = "listing"
  /\ listed' = [listed EXCEPT ![w] =
       C!ListSegments(DOMAIN files, processing[w].start, processing[w].end)]
  /\ workerPc' = [workerPc EXCEPT ![w] = IF listed'[w] = {} THEN "releasing" ELSE "assembling"]
  /\ UNCHANGED <<now, recorderVars, claimVars, cacheVars, deadline, saved, outageVars>>

\* ffmpeg's concat fails on a file that is gone or has no index yet.
Readable(s) == s \in DOMAIN files /\ files[s].state = "closed"

\* assemble_clip and the rename, or AssemblyError.  (What the clip's name and
\* its sidecars come to is in ClipFiles.)
AssembleClip(w) ==
  /\ workerPc[w] = "assembling"
  /\ saved' = IF \A s \in listed[w] : Readable(s) THEN saved \union {processing[w]} ELSE saved
  /\ workerPc' = [workerPc EXCEPT ![w] = "releasing"]
  /\ listed' = [listed EXCEPT ![w] = {}]
  /\ UNCHANGED <<now, recorderVars, claimVars, cacheVars, deadline, outageVars>>

ReleaseJob(w) ==
  /\ workerPc[w] = "releasing"
  /\ R!ReleaseJob(w)
  /\ workerPc' = [workerPc EXCEPT ![w] = "idle"]
  /\ UNCHANGED <<cacheVars, deadline, listed, saved, outageVars>>

-----------------------------------------------------------------------------
(* pipeline.stop: the pruner, the capture and the frame thread are joined,  *)
(* then recorder.stop flushes the open window on the calling thread.        *)

FlushOnShutdown ==
  /\ now <= FrameHorizon
  /\ prunePc = "idle"
  /\ R!FlushOnShutdown
  /\ IF window = None THEN UNCHANGED <<workerPc, deadline>> ELSE StartJob("main")
  /\ UNCHANGED <<cacheVars, listed, saved, outageVars>>

SetAssemblerStop ==
  /\ R!SetAssemblerStop
  /\ UNCHANGED <<cacheVars, workerVars, saved, outageVars>>

-----------------------------------------------------------------------------
(* The segment cache *)

StreamStep ==
  /\ C!StreamNext
  /\ startedAt' = IF startedAt = None THEN now ELSE startedAt
  /\ outageAt' = IF outageAt = None /\ flowing /\ ~flowing' THEN now ELSE outageAt
  /\ backAt' = IF writing = None THEN now ELSE backAt
  /\ UNCHANGED <<recorderVars, workerVars, saved>>

PruneStep ==
  /\ prunePc = "idle" => phase = "running"
  /\ C!PruneNext
  /\ UNCHANGED <<recorderVars, workerVars, saved, outageVars>>

Tick ==
  /\ C!Tick
  /\ UNCHANGED <<recorderVars, workerVars, saved, outageVars>>

\* The clock has run out, the recorder is stopped and every job is done.
Finished ==
  /\ R!Finished
  /\ UNCHANGED <<cacheVars, workerVars, saved, outageVars>>

WorkerStep(w) ==
  StopWaiting(w) \/ ListJobSegments(w) \/ AssembleClip(w) \/ ReleaseJob(w)

Next ==
  \/ \E ts \in R!FrameTimes, motion \in BOOLEAN : HandleFrame(ts, motion)
  \/ RollChunk
  \/ TakeJob
  \/ \E w \in Workers : WorkerStep(w)
  \/ FlushOnShutdown
  \/ SetAssemblerStop
  \/ StreamStep
  \/ PruneStep
  \/ Tick
  \/ Finished

Spec == Init /\ [][Next]_vars

-----------------------------------------------------------------------------
(* Properties *)

\* The threads behave as the recorder's protocol and the cache's client and
\* pruner are specified to: whatever holds there holds here.
ComponentSpecs == R!Spec /\ C!Spec

\* The segments a job is assembled from are all the footage of its window:
\* nothing that was recorded is left out by list_segments or pruned before
\* it ran, up to what a segment holds beyond its nominal end.
WindowFullyListed ==
  \A w \in Workers : workerPc[w] = "assembling" =>
    LET job == processing[w]
    IN  /\ \A s \in DOMAIN files :
             files[s].to > job.start + C!Excess /\ files[s].from < job.end
               => s \in listed[w]
        /\ lastLost <= job.start + C!Excess

\* No event is lost silently, and an outage costs only the events it touches:
\* every closed window is waiting for its turn, in a worker's hands or a clip,
\* unless the stream broke off before its last segment can have been complete
\* and was not back before its window began, or the process is being stopped.
\* The rollover wait (segment_seconds + 2) is always long enough, and no segment
\* of a job vanishes under ffmpeg.
Coming == {jobs[i] : i \in DOMAIN jobs} \union {processing[w] : w \in Workers}
NoFootageBefore(t) == startedAt = None \/ t <= startedAt
OutageTouches(job) ==
  /\ outageAt # None /\ outageAt < job.end + TicksPerSecond - 1 + MaxSegment
  /\ backAt >= job.start \/ ~flowing
Excused(job) == phase = "stopped" \/ NoFootageBefore(job.end) \/ OutageTouches(job)
LostOnlyInOutage == \A job \in closed \ (saved \union Coming) : Excused(job)

\* What it takes of the settings and the camera: the wait is longer than a
\* segment begun in the second a window ends in, and a window reaches further
\* back than a segment may hold beyond its nominal end.
WaitOutlastsSegment ==
  TicksPerSecond - 2 + MaxSegment < SegmentSeconds + 2 * TicksPerSecond
WindowsOutlastExcess == C!Excess < PreBuffer /\ C!Excess < Overlap
=============================================================================
