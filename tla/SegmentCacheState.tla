------------------------- MODULE SegmentCacheState --------------------------
(***************************************************************************)
(* The state of SegmentCache (camera_watcher/segment_cache.py), and what   *)
(* must hold of it at every moment.  SegmentCache says how it changes;     *)
(* RecordingSystem has the same state beside that of the recorder.         *)
(***************************************************************************)
EXTENDS Protection

CONSTANTS
  TicksPerSecond,     \* resolution of the clock; file names only keep seconds
  SegmentSeconds,     \* segment_seconds, in ticks
  MinSegment,         \* shortest and longest segment ffmpeg really cuts: it
  MaxSegment,         \*   can only cut on the camera's next keyframe
  StallLimit,         \* segment_seconds * stall_multiplier
  MaxPruneDelay,      \* longest pause of the pruner between its two reads
  MaxOutages          \* bound: stalls and exits of the stream

File  == [from: Int, to: Int, state: {"open", "closed", "broken"}]

ASSUME SegmentAssumption ==
  /\ TicksPerSecond \in Nat \ {0}
  /\ SegmentSeconds \in Nat /\ MinSegment \in Nat /\ MaxSegment \in Nat
  /\ TicksPerSecond <= MinSegment /\ MinSegment <= MaxSegment
  /\ SegmentSeconds <= MaxSegment
  /\ StallLimit \in Nat /\ MaxOutages \in Nat
  /\ MaxTime \in Nat
  /\ None \notin Int

VARIABLES
  files,           \* cache_dir: parsed start time |-> the file of that name
  writing,         \* start of the file ffmpeg is writing; None when it is not running
  flowing,         \* is the camera sending data
  exitAt,          \* when ffmpeg last exited, while it is not running
  outages,         \* stalls and exits so far
  prunePc,         \* "idle", "read" (has the protected time), "unlink"
  pruneProtected,  \* prune's local protected_since
  pruneReadAt,     \* when it was read
  victims,         \* segments prune will still unlink
  lastLost         \* history: end of the latest footage unlinked

-----------------------------------------------------------------------------
\* What a segment may hold beyond the end the code computes for it.
Excess == MaxSegment - SegmentSeconds + TicksPerSecond - 1

\* No footage a claim needs is ever pruned: whatever was unlinked ended
\* before every claimed start, give or take what the names do not tell.
\* (recorder.py: "the segment cache is told never to prune anything inside".)
ClaimedFootageKept ==
  \A c \in activeStarts : lastLost <= c.start + Excess

\* The pruner never unlinks the file ffmpeg is writing, even in a stall.
FileBeingWrittenKept == writing # None => writing \in DOMAIN files
=============================================================================
