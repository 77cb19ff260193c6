---------------------------- MODULE ClipAnalysis ----------------------------
(***************************************************************************)
(* One run of analyze_clip (clip_classifier/analysis.py): which frames of  *)
(* a clip it samples (sampling.py), what the CPU detector makes of the     *)
(* model's output for them (detectors/cpu.py) and the verdict that follows *)
(* (verdict.py), with the failures of every step.                          *)
(*                                                                         *)
(* Moments are integers, UnitsPerSecond to the second, counted from the    *)
(* window's start.  Boxes are intervals: one dimension stands for two.     *)
(***************************************************************************)
EXTENDS Integers, FiniteSets, Folds, Nothing

CONSTANTS
  UnitsPerSecond,
  LastSecond,      \* the motion timeline's seconds are among 0..LastSecond
  Scores,          \* a second's score; 0 is no motion
  PeakParts,       \* where in its second the peak may lie, in units
  Durations,       \* duration_seconds, None when ffprobe failed
  MaxFrames,       \* sampling.max_frames
  MinSpacing,      \* sampling.min_frame_spacing_seconds
  RawOutputs,      \* what the model may say of a frame: sets of anchors
  FrameFrom, FrameTo,                \* where the letterboxed input shows the frame
  ConfidenceFloor, HighConfidence,   \* DEFAULT_CONFIDENCE_FLOOR, high_confidence
  IouParts, IouWhole,                \* DEFAULT_NMS_IOU_THRESHOLD
  LargeSize,                         \* review_large_object_area_frac
  PersistentParts, PersistentWhole   \* review_persistent_detection_frac

\* A box of the model: its best class is one of TARGET_LABELS or is not.
Anchors == [target : BOOLEAN, confidence : Nat, from : Int, to : Int]

ASSUME AnalysisAssumption ==
  /\ UnitsPerSecond \in Nat \ {0} /\ LastSecond \in Nat
  /\ Scores \subseteq Nat /\ PeakParts \subseteq 0..(UnitsPerSecond - 1)
  /\ Durations \subseteq Nat \union {None}
  /\ MaxFrames \in Nat \ {0} /\ MinSpacing \in Nat \ {0}
  /\ \A raw \in RawOutputs : raw \subseteq Anchors /\ IsFiniteSet(raw)
  /\ FrameFrom \in Nat /\ FrameTo \in Nat /\ FrameFrom < FrameTo
  /\ ConfidenceFloor \in Nat /\ HighConfidence \in Nat
  /\ IouParts \in Nat /\ IouWhole \in Nat \ {0} /\ LargeSize \in Nat
  /\ PersistentParts \in Nat /\ PersistentWhole \in Nat \ {0}
  /\ None \notin Int \union {"error", "high", "review", "low"}

VARIABLES
  clip,      \* the metadata sidecar: timeline, peak, duration, persistent
  pc,        \* what analyze_clip does next
  offsets,   \* the moments select_offsets chose
  fallback,  \* whether it fell back to even spacing
  todo,      \* the offsets not yet decoded
  frames,    \* per decoded offset, the model's output for its frame
  analysis   \* the verdict in the analysis sidecar, None without one

analysisVars == <<clip, pc, offsets, fallback, todo, frames, analysis>>

-----------------------------------------------------------------------------
(* The metadata sidecar, as SegmentRecorder._accumulate builds it          *)

Highest(timeline) ==
  {s \in DOMAIN timeline : \A r \in DOMAIN timeline : timeline[r] <= timeline[s]}

\* The first frame with the highest score, if any frame had motion.
Peaks(timeline) ==
  LET moving == {s \in Highest(timeline) : timeline[s] > 0}
  IN  IF moving = {} THEN {None}
      ELSE LET first == CHOOSE s \in moving : \A r \in moving : s <= r
           IN  {first * UnitsPerSecond + p : p \in PeakParts}

Timelines == UNION {[S -> Scores] : S \in SUBSET (0..LastSecond)}

\* Persistent: detection_size and motion_frame_ratio reach their thresholds.
Metadata ==
  UNION {[timeline : {tl}, peak : Peaks(tl), duration : Durations, persistent : BOOLEAN]
           : tl \in Timelines}

AnalysisInit ==
  /\ clip \in Metadata
  /\ pc = "read" /\ offsets = {} /\ fallback = FALSE /\ todo = {}
  /\ frames = <<>> /\ analysis = None

-----------------------------------------------------------------------------
(* sampling.py                                                             *)

Distance(a, b) == IF a < b THEN b - a ELSE a - b

Moment(s) == s * UnitsPerSecond

\* Of the seconds S the one that comes last in select_offsets' order: the lowest
\* score, and of equal ones the latest in the timeline.
LastCandidate(S) ==
  LET score == clip.timeline
  IN  CHOOSE s \in S : \A r \in S : score[s] < score[r] \/ (score[s] = score[r] /\ r <= s)

FarFromPeak(t, chosen) ==               \* fault: spaced from the peak alone
  t \notin chosen /\ (clip.peak = None \/ Distance(t, clip.peak) >= MinSpacing)
FarFromAll(t, chosen) == \A c \in chosen : Distance(t, c) >= MinSpacing

\* One turn of select_offsets' loop.
Pick(t, chosen) ==
  IF Cardinality(chosen) < MaxFrames /\ FarFromAll(t, chosen) THEN chosen \union {t} ELSE chosen

Inside(t) == clip.duration = None \/ t \in 0..clip.duration

EvenlySpaced(duration) ==
  IF duration = None \/ duration = 0 THEN {0}
  ELSE {(duration * (2 * i + 1)) \div (2 * MaxFrames) : i \in 0..(MaxFrames - 1)}

Peak == IF clip.peak = None THEN {} ELSE {clip.peak}

\* The peak, then the best seconds of the timeline.
Chosen == MapThenFoldSet(Pick, Peak, Moment, LastCandidate, DOMAIN clip.timeline)

ReadMetadata ==
  /\ pc = "read"
  /\ pc' = "select"
  /\ UNCHANGED <<clip, offsets, fallback, todo, frames, analysis>>

\* A sidecar that cannot be read is an error verdict.
MetadataUnreadable ==
  /\ pc = "read"
  /\ pc' = "done" /\ analysis' = "error"
  /\ UNCHANGED <<clip, offsets, fallback, todo, frames>>

\* select_offsets.
SelectOffsets ==
  /\ pc = "select"
  /\ LET inside == {t \in Chosen : Inside(t)}
     IN  /\ fallback' = (inside = {})
         /\ offsets' = IF inside = {} THEN EvenlySpaced(clip.duration) ELSE inside
  /\ todo' = offsets'
  /\ pc' = "decode"
  /\ UNCHANGED <<clip, frames, analysis>>

NextOffset == CHOOSE t \in todo : \A u \in todo : t <= u

\* extract_frame: a frame, in which the detector will find what it finds.
ExtractFrame ==
  /\ pc = "decode" /\ todo # {}
  /\ \E raw \in RawOutputs :
       frames' = [t \in DOMAIN frames \union {NextOffset} |->
                    IF t = NextOffset THEN raw ELSE frames[t]]
  /\ todo' = todo \ {NextOffset}
  /\ UNCHANGED <<clip, pc, offsets, fallback, analysis>>

\* extract_frame: no frame, for an offset past the end or a damaged file.
ExtractNothing ==
  /\ pc = "decode" /\ todo # {}
  /\ todo' = todo \ {NextOffset}
  /\ UNCHANGED <<clip, pc, offsets, fallback, frames, analysis>>

\* extract_frame: ffmpeg takes longer than 15 s, subprocess.run raises
\* TimeoutExpired, and nothing on the way out of analyze_clip catches it.
ExtractTimesOut ==
  /\ pc = "decode" /\ todo # {}
  /\ pc' = "raised"
  /\ UNCHANGED <<clip, offsets, fallback, todo, frames, analysis>>

\* sample_frames returns, or raises SamplingError without a single frame.
EndDecoding ==
  /\ pc = "decode" /\ todo = {}
  /\ IF DOMAIN frames = {}
     THEN pc' = "done" /\ analysis' = "error"
     ELSE pc' = "detect" /\ UNCHANGED analysis
  /\ UNCHANGED <<clip, offsets, fallback, todo, frames>>

-----------------------------------------------------------------------------
(* detectors/cpu.py: postprocess                                           *)

Smaller(a, b) == IF a < b THEN a ELSE b
Greater(a, b) == IF a < b THEN b ELSE a
Common(a, b)  == Greater(0, Smaller(a.to, b.to) - Greater(a.from, b.from))
All(a, b)     == (a.to - a.from) + (b.to - b.from) - Common(a, b)

\* Intersection over union above the threshold.
Overlaps(a, b) == Common(a, b) * IouWhole > IouParts * All(a, b)

OverlapsSurer(kept, a) == \E k \in kept : Overlaps(k, a)

Keep(a, kept) == IF OverlapsSurer(kept, a) THEN kept ELSE kept \union {a}

\* Of boxes that are equally sure, any may come last.
LeastSure(S) == CHOOSE a \in S : \A b \in S : a.confidence <= b.confidence

\* cv2.dnn.NMSBoxes, whatever the classes: above the floor, surest first, a box
\* that overlaps one kept before it is dropped.
NMSBoxes(boxes) ==
  MapThenFoldSet(Keep, {}, LAMBDA a : a, LeastSure,
                 {a \in boxes : a.confidence > ConfidenceFloor})

\* fault: the padding is cut off in the coordinates the letterbox was undone to
ClippedAfterShift(b) ==
  [b EXCEPT !.from = Greater(b.from - FrameFrom, FrameFrom), !.to = Smaller(b.to - FrameFrom, FrameTo)]

\* The letterbox is undone, and what lies in its padding is cut off.
Clipped(b) ==
  [b EXCEPT !.from = Greater(b.from, FrameFrom) - FrameFrom, !.to = Smaller(b.to, FrameTo) - FrameFrom]

Detections(raw) ==
  {d \in {Clipped(b) : b \in NMSBoxes({a \in raw : a.confidence >= ConfidenceFloor})} :
     d.from < d.to}

-----------------------------------------------------------------------------
(* verdict.py and the rest of analyze_clip                                 *)

Detected(t)  == Detections(frames[t])
Found        == UNION {Detected(t) : t \in DOMAIN frames}
Sure(d)      == d.target /\ d.confidence >= HighConfidence
LargeOther(d) == ~d.target /\ d.to - d.from >= LargeSize

FramesWithDetections == Cardinality({t \in DOMAIN frames : Detected(t) # {}})

TotalSelected == Cardinality(offsets)            \* fault: counts frames never decoded
TotalFrames   == Cardinality(DOMAIN frames)

Persistent ==
  \/ TotalFrames > 0 /\ FramesWithDetections * PersistentWhole >= PersistentParts * TotalFrames
  \/ Found = {} /\ clip.persistent

\* evaluate_verdict: the first rule that matches.
EvaluateVerdict ==
  IF \E d \in Found : Sure(d) THEN "high"
  ELSE IF Persistent \/ \E d \in Found : LargeOther(d) THEN "review"
  ELSE "low"

DetectorFails ==
  /\ pc = "detect"
  /\ pc' = "done" /\ analysis' = "error"
  /\ UNCHANGED <<clip, offsets, fallback, todo, frames>>

WriteVerdict ==
  /\ pc = "detect"
  /\ pc' = "done" /\ analysis' = EvaluateVerdict
  /\ UNCHANGED <<clip, offsets, fallback, todo, frames>>

\* run goes on to the next clip.
Finished == pc \in {"done", "raised"} /\ UNCHANGED analysisVars

AnalysisNext ==
  \/ ReadMetadata \/ MetadataUnreadable \/ SelectOffsets
  \/ ExtractFrame \/ ExtractNothing \/ ExtractTimesOut \/ EndDecoding
  \/ DetectorFails \/ WriteVerdict
  \/ Finished

AnalysisSpec == AnalysisInit /\ [][AnalysisNext]_analysisVars

-----------------------------------------------------------------------------
Sampled == offsets # {}

EverythingInside ==
  /\ \A s \in DOMAIN clip.timeline : Inside(Moment(s))
  /\ clip.peak = None \/ Inside(clip.peak)

\* "Always includes the peak_motion_time offset", if the clip reaches it.
PeakSampled == clip.peak = None \/ ~Inside(clip.peak) \/ clip.peak \in offsets

ScoreAt(t) == clip.timeline[t \div UnitsPerSecond]

\* The reference for the greedy choice.  It spends no frame on a moment it has
\* already seen; the peak is sampled whenever the clip reaches it; and, when the
\* clip is as long as its window, a second is passed over only for one close by
\* that moved at least as much, or because better seconds took all the frames.
BestMomentsSampled ==
  Sampled =>
    /\ ~fallback => \A s, t \in offsets : s # t => Distance(s, t) >= MinSpacing
    /\ PeakSampled
    /\ EverythingInside => \A s \in DOMAIN clip.timeline :
         LET t      == Moment(s)
             better == {o \in offsets : ScoreAt(o) >= ScoreAt(t)}
         IN  \/ t \in offsets
             \/ \E o \in better : Distance(o, t) < MinSpacing
             \/ better = offsets /\ Cardinality(offsets) = MaxFrames

\* What "low" costs is the clip, two days later.  However many frames could
\* not be decoded: no frame shows a sure target or a large object, and what
\* was detected or had moved was not there most of the time.
LowIsEarned ==
  analysis = "low" =>
    /\ \A d \in Found : ~Sure(d) /\ ~LargeOther(d)
    /\ FramesWithDetections * PersistentWhole < PersistentParts * Cardinality(DOMAIN frames)
    /\ Found = {} => ~clip.persistent

\* The suppression knows no classes: a target the model is sure of, and above the
\* floor, is passed over only where a box of another class, or one outside the
\* frame, overlaps it with at least its confidence (cpu.py:104).
InFrame(b) == Greater(b.from, FrameFrom) < Smaller(b.to, FrameTo)
MissedOnlyIfCovered ==
  analysis = "low" =>
    \A t \in DOMAIN frames : \A a \in frames[t] :
      Sure(a) /\ a.confidence > ConfidenceFloor /\ InFrame(a) =>
        \E b \in frames[t] \ {a} :
          Overlaps(a, b) /\ b.confidence >= a.confidence /\ ~(b.target /\ InFrame(b))
=============================================================================
