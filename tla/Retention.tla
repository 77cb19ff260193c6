----------------------------- MODULE Retention -----------------------------
(***************************************************************************)
(* A sweep of camera_watcher/retention.py over the clips of the fleet: age *)
(* windows first, then one shared size budget, each clip judged by the     *)
(* sidecars clip_classifier and the web UI write.  The sweep is a process  *)
(* of its own and takes no lock: the recorder finishes clips, the          *)
(* classifier writes verdicts and users review and delete clips between    *)
(* any two of its file operations.                                         *)
(*                                                                         *)
(* Clips are numbered by modification time, oldest first.  Listings and    *)
(* reading one clip's sidecars are one step each; ages are in units of the *)
(* windows and are those of `now`, which a sweep reads once.               *)
(***************************************************************************)
EXTENDS Integers, FiniteSets, Functions

CONSTANTS
  LastClip,      \* clips are 1..LastClip
  SizeOf,        \* bytes of each clip
  Verdicts,      \* verdicts the classifier gives
  Window,        \* per tier: max age, or None when it is disabled
  Budget,        \* max_total_gb, or None
  MaxAge,        \* bound: ages are told apart up to here
  MaxDisruptions,\* bound: web deletes and failing unlinks
  None           \* Python's None

Clips == 1..LastClip
Tiers == {"low", "review", "high"}

ASSUME RetentionAssumption ==
  /\ LastClip \in Nat /\ SizeOf \in [Clips -> Nat \ {0}]
  /\ Verdicts \subseteq {"low", "review", "high", "error"}
  /\ None \notin Int \union {"low", "review", "high", "error", "keep"}
  /\ Window \in [Tiers -> Nat \union {None}] /\ Budget \in Nat \union {None}
  /\ MaxAge \in Nat /\ MaxDisruptions \in Nat

VARIABLES
  clips,      \* finalized clips on the disk
  metadata,   \* clips with a <stem>.json
  verdict,    \* the verdict of each <stem>.analysis.json, or None
  decision,   \* the decision of each <stem>.review.json, or None
  age,        \* how old each clip is
  next,       \* the clip the recorder finishes next
  describing, \* clip renamed to its final name whose metadata is being written
  analysing,  \* clip in the classifier's hands
  phase,      \* "idle", "expiring", "sizing", "trimming", "done": the sweep
  dry,        \* --dry-run
  listed,     \* the clips the sweep found when it began
  todo,       \* those of them this phase has yet to visit
  ranked,     \* tier the budget phase read for each clip it could stat, or None
  total,      \* bytes the budget phase believes are left
  picked,     \* clip the sweep has decided to remove
  stripping,  \* clip just unlinked by the sweep, whose sidecars go next
  removed,    \* what the sweep reports
  refused,    \* history: clips this sweep failed to unlink
  expected,   \* history: what this sweep should remove if left alone
  vouched,    \* history: clips confirmed or kept as the sweep began
  disturbed,  \* history: somebody touched a listed clip during this sweep
  disruptions

sidecars == <<metadata, verdict, decision>>
files    == <<clips, sidecars>>
writers  == <<age, next, describing, analysing>>
scope    == <<phase, dry, listed>>
budget   == <<ranked, total>>
sweep    == <<scope, todo, budget, picked, stripping, removed>>
aims     == <<expected, vouched>>
history  == <<refused, aims, disturbed>>
vars     == <<files, writers, sweep, history, disruptions>>

-----------------------------------------------------------------------------
(* The policy                                                              *)

ForgetKeep(v, d) ==                     \* fault: the decision is not read
  IF v \in {"low", "review"} THEN v ELSE "high"

\* classify_tier
Tier(v, d) ==
  IF v = "low" THEN "low"
  ELSE IF v = "review" /\ d # "keep" THEN "review"
  ELSE "high"

TierOf(c) == Tier(verdict[c], decision[c])

\* _TIER_DELETE_PRIORITY
Priority(tier) == IF tier = "low" THEN 0 ELSE 1

\* _expire_by_age for one clip
PastWindow(c, tier) == Window[tier] # None /\ age[c] >= Window[tier]

Before(c, d, tier) ==
  \/ Priority(tier[c]) < Priority(tier[d])
  \/ Priority(tier[c]) = Priority(tier[d]) /\ c < d

Bytes(S) == SumFunctionOnSet(SizeOf, S)

\* Reference: what a sweep left alone removes.  A clip goes to the budget when
\* removing every clip before it would not have been enough.
Wanted ==
  LET aged    == {c \in clips : PastWindow(c, TierOf(c))}
      kept    == clips \ aged
      tiers   == [c \in kept |-> TierOf(c)]
      left(c) == {d \in kept : ~Before(d, c, tiers)}
  IN aged \union {c \in kept : Budget # None /\ Bytes(left(c)) > Budget}

Init ==
  /\ next \in 1..(LastClip + 1)
  /\ clips = 1..(next - 1) /\ metadata = clips
  /\ verdict \in {v \in [Clips -> Verdicts \union {None}] :
                     \A c \in Clips \ clips : v[c] = None}
  /\ decision \in {d \in [Clips -> {"keep", None}] :
                     \A c \in Clips : verdict[c] # "review" => d[c] = None}
  /\ age \in {a \in [Clips -> 0..MaxAge] :
                     \A c \in Clips : /\ c \notin clips => a[c] = 0
                                      /\ \A d \in Clips : c < d => a[c] >= a[d]}
  /\ describing = None /\ analysing = None
  /\ phase = "idle" /\ dry = FALSE
  /\ listed = {} /\ todo = {} /\ ranked = [c \in Clips |-> None] /\ total = 0
  /\ picked = None /\ stripping = None /\ removed = {}
  /\ refused = {} /\ expected = {} /\ vouched = {} /\ disturbed = FALSE
  /\ disruptions = 0

-----------------------------------------------------------------------------
(* The recorder, the classifier and the web UI                             *)

\* _process_job: the clip takes its final name ...
FinishClip ==
  /\ describing = None /\ next <= LastClip
  /\ clips' = clips \union {next} /\ describing' = next /\ next' = next + 1
  /\ UNCHANGED <<metadata, verdict, decision, age, analysing, sweep, history, disruptions>>

\* ... is probed, and _write_metadata renames the sidecar into place.
WriteMetadata ==
  /\ describing # None
  /\ metadata' = metadata \union {describing} /\ describing' = None
  /\ UNCHANGED <<clips, verdict, decision, age, next, analysing, sweep, history, disruptions>>

BeginAnalysis ==
  /\ analysing = None
  /\ \E c \in clips \intersect metadata : verdict[c] = None /\ analysing' = c
  /\ UNCHANGED <<files, age, next, describing, sweep, history, disruptions>>

\* analyze_clip writes its sidecar, whether or not the clip is still there.
WriteVerdict ==
  /\ analysing # None
  /\ \E v \in Verdicts : verdict' = [verdict EXCEPT ![analysing] = v]
  /\ analysing' = None
  /\ disturbed' = TRUE
  /\ UNCHANGED <<clips, metadata, decision, age, next, describing, sweep,
                 refused, aims, disruptions>>

\* review_recording with "keep".
Keep ==
  /\ \E c \in clips : decision' = [decision EXCEPT ![c] = "keep"]
  /\ disturbed' = TRUE
  /\ UNCHANGED <<clips, metadata, verdict, writers, sweep, refused, aims, disruptions>>

\* delete_recording, one clip of delete_recording_group, or review_recording
\* with "discard": _unlink_clip_and_metadata.
Delete ==
  /\ disruptions < MaxDisruptions /\ disruptions' = disruptions + 1
  /\ \E c \in clips :
       /\ clips' = clips \ {c} /\ metadata' = metadata \ {c}
       /\ verdict' = [verdict EXCEPT ![c] = None]
       /\ decision' = [decision EXCEPT ![c] = None]
  /\ disturbed' = TRUE
  /\ UNCHANGED <<writers, sweep, refused, aims>>

-----------------------------------------------------------------------------
(* The sweep                                                               *)

\* enforce_global_retention lists every camera's clips.
List ==
  /\ phase = "idle"
  /\ phase' = "expiring" /\ dry' \in BOOLEAN
  /\ listed' = clips /\ todo' = clips /\ removed' = {}
  /\ refused' = {} /\ expected' = Wanted /\ disturbed' = FALSE
  /\ vouched' = {c \in clips : \/ verdict[c] = "high"
                               \/ verdict[c] = "review" /\ decision[c] = "keep"}
  /\ UNCHANGED <<files, writers, budget, picked, stripping, disruptions>>

Free == picked = None /\ stripping = None

\* _expire_by_age looks at one clip: its sidecars, then its own age.
Judge ==
  /\ phase = "expiring" /\ Free
  /\ \E c \in todo :
       /\ todo' = todo \ {c}
       /\ picked' = IF c \in clips /\ PastWindow(c, TierOf(c)) THEN c ELSE None
  /\ UNCHANGED <<files, writers, scope, budget, stripping, removed, history, disruptions>>

\* _sweep goes on to _enforce_budget with what was not removed.
EndExpiry ==
  /\ phase = "expiring" /\ Free /\ todo = {}
  /\ IF Budget = None
     THEN phase' = "done" /\ UNCHANGED todo
     ELSE phase' = "sizing" /\ todo' = listed \ removed
  /\ ranked' = [c \in Clips |-> None] /\ total' = 0
  /\ UNCHANGED <<files, writers, dry, listed, picked, stripping, removed, history, disruptions>>

\* _enforce_budget stats one clip and reads its tier; a clip that is gone by
\* now is left out.
Size ==
  /\ phase = "sizing"
  /\ \E c \in todo :
       /\ todo' = todo \ {c}
       /\ IF c \in clips
          THEN ranked' = [ranked EXCEPT ![c] = TierOf(c)] /\ total' = total + SizeOf[c]
          ELSE UNCHANGED <<ranked, total>>
  /\ UNCHANGED <<files, writers, scope, picked, stripping, removed, history, disruptions>>

Ranked == {c \in Clips : ranked[c] # None}

EndSizing ==
  /\ phase = "sizing" /\ todo = {}
  /\ phase' = "trimming" /\ todo' = Ranked
  /\ UNCHANGED <<files, writers, dry, listed, budget, picked, stripping, removed,
                 history, disruptions>>

Oldest(c)   == \A d \in todo : c <= d                      \* fault: sorted by age alone
Foremost(c) == \A d \in todo \ {c} : Before(c, d, ranked)

\* The next clip in the sorted list, while the total is over the budget.
Trim ==
  /\ phase = "trimming" /\ Free /\ total > Budget
  /\ \E c \in todo : Foremost(c) /\ picked' = c /\ todo' = todo \ {c}
  /\ UNCHANGED <<files, writers, scope, budget, stripping, removed, history, disruptions>>

Credit(c) == IF phase = "trimming" THEN total - SizeOf[c] ELSE total

ReportPicked ==
  /\ picked # None /\ dry
  /\ removed' = removed \union {picked} /\ total' = Credit(picked)
  /\ picked' = None
  /\ UNCHANGED <<files, writers, scope, todo, ranked, stripping, history, disruptions>>

\* _unlink_clip_and_sidecars: clip.unlink() ...
Unlink ==
  /\ picked # None /\ ~dry /\ picked \in clips
  /\ clips' = clips \ {picked} /\ stripping' = picked
  /\ picked' = None
  /\ UNCHANGED <<sidecars, writers, scope, todo, budget, removed, history, disruptions>>

\* ... which raises if somebody else was faster ...
FindGone ==
  /\ picked # None /\ ~dry /\ picked \notin clips
  /\ picked' = None
  /\ UNCHANGED <<files, writers, scope, todo, budget, stripping, removed, history, disruptions>>

CreditFailed(c) == total' = Credit(c)   \* fault: the total shrinks all the same
KeepTotal(c)    == total' = total

\* ... or if the file system will not have it.
FailUnlink ==
  /\ picked # None /\ ~dry /\ picked \in clips
  /\ disruptions < MaxDisruptions /\ disruptions' = disruptions + 1
  /\ refused' = refused \union {picked} /\ disturbed' = TRUE
  /\ KeepTotal(picked) /\ picked' = None
  /\ UNCHANGED <<files, writers, scope, todo, ranked, stripping, removed, aims>>

\* The sidecars follow, each if it is there.
Strip ==
  /\ stripping # None
  /\ metadata' = metadata \ {stripping}
  /\ verdict' = [verdict EXCEPT ![stripping] = None]
  /\ decision' = [decision EXCEPT ![stripping] = None]
  /\ removed' = removed \union {stripping} /\ total' = Credit(stripping)
  /\ stripping' = None
  /\ UNCHANGED <<clips, writers, scope, todo, ranked, picked, history, disruptions>>

EndTrimming ==
  /\ phase = "trimming" /\ Free /\ (total <= Budget \/ todo = {})
  /\ phase' = "done"
  /\ UNCHANGED <<files, writers, dry, listed, todo, budget, picked, stripping, removed,
                 history, disruptions>>

\* The process exits; the timer starts another.
Exit ==
  /\ phase = "done"
  /\ phase' = "idle" /\ dry' = FALSE
  /\ listed' = {} /\ todo' = {} /\ removed' = {}
  /\ ranked' = [c \in Clips |-> None] /\ total' = 0
  /\ refused' = {} /\ expected' = {} /\ vouched' = {} /\ disturbed' = FALSE
  /\ UNCHANGED <<files, writers, picked, stripping, disruptions>>

Next ==
  \/ FinishClip \/ WriteMetadata \/ BeginAnalysis \/ WriteVerdict \/ Keep \/ Delete
  \/ List \/ Judge \/ EndExpiry \/ Size \/ EndSizing \/ Trim
  \/ ReportPicked \/ Unlink \/ FindGone \/ FailUnlink \/ Strip
  \/ EndTrimming \/ Exit

Spec == Init /\ [][Next]_vars

-----------------------------------------------------------------------------
\* Types of all the variables; the sweep only has listed clips in hand, and none
\* between its phases.
TypeOK ==
  /\ clips \subseteq 1..(next - 1) /\ metadata \subseteq Clips
  /\ verdict \in [Clips -> Verdicts \union {None}]
  /\ decision \in [Clips -> {"keep", None}]
  /\ age \in [Clips -> 0..MaxAge] /\ next \in 1..(LastClip + 1)
  /\ describing # None => describing \in Clips
  /\ analysing # None => analysing \in Clips
  /\ picked # None => picked \in listed
  /\ stripping # None => stripping \in listed \ clips
  /\ (phase \in {"idle", "sizing", "done"} => Free) /\ (phase = "idle" => listed = {})
  /\ phase \in {"idle", "expiring", "sizing", "trimming", "done"} /\ dry \in BOOLEAN
  /\ listed \subseteq 1..(next - 1) /\ todo \subseteq listed /\ removed \subseteq listed
  /\ ranked \in [Clips -> Tiers \union {None}] /\ Ranked \subseteq listed /\ total \in Int
  /\ refused \subseteq listed /\ expected \subseteq listed /\ vouched \subseteq listed
  /\ disturbed \in BOOLEAN /\ disruptions \in 0..MaxDisruptions

\* A sweep nobody interferes with, dry or not, reports (and, when it is not
\* dry, removes) exactly the clips the policy names, whatever new clips the
\* recorder finishes meanwhile.
SweepExact ==
  phase = "done" /\ ~disturbed => removed = expected /\ (~dry => removed \intersect clips = {})

\* However verdicts, reviews, deletions and failing unlinks fall between its
\* steps, a sweep ends with the clips it weighed within the budget, unless
\* what is left of them would not be unlinked; and it stops there: what it has
\* not removed itself is still over the budget whenever it picks another clip.
\* (A clip the web UI deletes after the sizing is still counted.)
BudgetMet ==
  /\ phase = "done" /\ ~dry /\ Budget # None =>
       LET left == Ranked \intersect clips
       IN Bytes(left) <= Budget \/ left \subseteq refused
  /\ phase = "trimming" /\ picked # None => Bytes(Ranked \ removed) > Budget

\* A clip the classifier had confirmed, or a user vouched for, by the time the
\* sweep began is not removed for its age before the long window has passed.
VouchedOutlive ==
  phase = "expiring" /\ picked \in vouched => PastWindow(picked, "high")
=============================================================================
