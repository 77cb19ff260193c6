---------------------------- MODULE SegmentCache ----------------------------
(***************************************************************************)
(* SegmentCache (camera_watcher/segment_cache.py): ffmpeg writes the main  *)
(* stream into short files named after the second they were started in,    *)
(* the recorder claims the time its windows start at, and the cache-pruner *)
(* thread deletes what is old and not claimed.                             *)
(*                                                                         *)
(* The pruner reads the protected time under the lock and then works from  *)
(* that copy, while claims come and go: what keeps a new claim's footage   *)
(* is only the margin in keep_seconds.                                     *)
(***************************************************************************)
EXTENDS SegmentCacheState

CONSTANTS
  KeepSeconds,        \* _cache_keep_seconds()
  Reach,              \* how far before now a new claim may start
  MaxClaims           \* bound: the largest number a claim may have

\* What _cache_keep_seconds' margin is for.
ASSUME KeepAssumption ==
  /\ KeepSeconds \in Nat /\ Reach \in Nat /\ MaxPruneDelay \in Nat
  /\ MaxClaims \in Nat
  /\ Reach + MaxPruneDelay <= KeepSeconds
  /\ StallLimit + 1 < KeepSeconds + SegmentSeconds
  /\ MaxSegment + TicksPerSecond <= KeepSeconds + SegmentSeconds

streamVars == <<files, writing, flowing, exitAt, outages>>
pruneVars  == <<prunePc, pruneProtected, pruneReadAt, victims, lastLost>>
vars       == <<now, claimVars, streamVars, pruneVars>>

Init ==
  /\ now = 0
  /\ activeStarts = {} /\ protectedSince = None
  /\ files = [s \in {} |-> [from |-> 0, to |-> 0, state |-> "open"]]
  /\ writing = None /\ flowing = FALSE
  /\ exitAt = -TicksPerSecond /\ outages = 0
  /\ prunePc = "idle" /\ pruneProtected = None /\ pruneReadAt = 0
  /\ victims = {} /\ lastLost = -KeepSeconds

-----------------------------------------------------------------------------
(* Segment lists.  S is the set of start times parsed from the file names. *)

\* -strftime names a file after the whole second it was started in.
NameTime(t) == t - (t % TicksPerSecond)

\* _segment_end: segment_seconds after its start, or the next segment's start
\* if that is sooner.
SegmentEnd(S, s) ==
  LET nominal == s + SegmentSeconds
      next == CHOOSE n \in S : n > s /\ \A m \in S : m > s => n <= m
  IN  IF (\E n \in S : n > s) /\ next < nominal THEN next ELSE nominal

\* The code only ever asks whether a segment ends after t (EndDecides).
EndsAfter(S, s, t) ==
  /\ s + SegmentSeconds > t
  /\ \A n \in S : n > s => n > t

ListStartedInside(S, start, end) == {s \in S : s >= start /\ s < end}   \* fault

ListSegments(S, start, end) == {s \in S : EndsAfter(S, s, start) /\ s < end}

\* prune walks the sorted list, breaks at the first segment that ends after
\* the cutoff and skips those that end after the protected time.
PruneByStart(S, cutoff, protected) ==   \* fault: seg_start > protected_since
  {s \in S : /\ \A r \in S : r <= s => ~EndsAfter(S, r, cutoff)
             /\ protected = None \/ s <= protected}

PruneTooLittle(S, cutoff, protected) == \* fault: one segment_seconds too many kept
  {s \in S : /\ \A r \in S : r <= s => ~EndsAfter(S, r, cutoff - SegmentSeconds)
             /\ protected = None \/ ~EndsAfter(S, s, protected)}

PruneUnprotected(S, cutoff, protected) ==   \* fault: only claims count
  {s \in S : protected = None \/ ~EndsAfter(S, s, protected)}

PruneVictims(S, cutoff, protected) ==
  {s \in S : /\ \A r \in S : r <= s => ~EndsAfter(S, r, cutoff)
             /\ protected = None \/ ~EndsAfter(S, s, protected)}

-----------------------------------------------------------------------------
(* The recorder's side of the interface: protect_since with the earliest   *)
(* of the claims.                                                          *)

ProtectSince(claims) ==
  /\ activeStarts' = claims
  /\ protectedSince' \in Earliest(claims)

\* A claim starts at most Reach ago, or within what is already protected.
MayClaim(start) ==
  \/ start >= now - Reach
  \/ protectedSince # None /\ start >= protectedSince

AddClaim ==
  /\ \E id \in 0..MaxClaims, start \in (-Reach)..now :
       /\ \A c \in activeStarts : c.id # id
       /\ MayClaim(start)
       /\ ProtectSince(activeStarts \union {[id |-> id, start |-> start]})
  /\ UNCHANGED <<now, streamVars, pruneVars>>

DropClaim ==
  /\ \E c \in activeStarts : ProtectSince(activeStarts \ {c})
  /\ UNCHANGED <<now, streamVars, pruneVars>>

-----------------------------------------------------------------------------
(* ffmpeg and the camera, as the supervisor sees them.                     *)

NewFile == [from |-> now, to |-> now, state |-> "open"]

WithNewFile(fs) ==
  [s \in DOMAIN fs \union {NameTime(now)} |->
     IF s = NameTime(now) THEN NewFile ELSE fs[s]]

\* ffmpeg is up again, one backoff step (at least a second) after it exited.
StartStream ==
  /\ writing = None /\ now >= exitAt + TicksPerSecond
  /\ files' = WithNewFile(files)
  /\ writing' = NameTime(now)
  /\ flowing' = TRUE
  /\ exitAt' = -TicksPerSecond
  /\ UNCHANGED <<now, claimVars, outages, pruneVars>>

CutSegment ==
  /\ writing # None /\ flowing
  /\ now - files[writing].from \in MinSegment..MaxSegment
  /\ files' = WithNewFile([files EXCEPT ![writing].state = "closed"])
  /\ writing' = NameTime(now)
  /\ UNCHANGED <<now, claimVars, flowing, exitAt, outages, pruneVars>>

\* The camera stops sending while the connection stays up.
Stall ==
  /\ writing # None /\ flowing /\ outages < MaxOutages
  /\ flowing' = FALSE
  /\ outages' = outages + 1
  /\ UNCHANGED <<now, claimVars, files, writing, exitAt, pruneVars>>

Exit(state) ==
  /\ files' = [files EXCEPT ![writing].state = state]
  /\ writing' = None
  /\ flowing' = FALSE
  /\ exitAt' = now

\* ffmpeg loses the connection, or is terminated: it finishes its file.
ExitStream ==
  /\ writing # None /\ flowing /\ outages < MaxOutages
  /\ Exit("closed")
  /\ outages' = outages + 1
  /\ UNCHANGED <<now, claimVars, pruneVars>>

\* _run_once sees no new segment for longer than the limit and kills ffmpeg,
\* which leaves the file it was writing without its index.
KillStalled ==
  /\ writing # None /\ now - writing > StallLimit
  /\ Exit("broken")
  /\ UNCHANGED <<now, claimVars, outages, pruneVars>>

-----------------------------------------------------------------------------
(* The cache-pruner thread.                                                *)

PruneRead ==
  /\ prunePc = "idle"
  /\ prunePc' = "read"
  /\ pruneProtected' = protectedSince
  /\ pruneReadAt' = now
  /\ UNCHANGED <<now, claimVars, streamVars, victims, lastLost>>

PruneList ==
  /\ prunePc = "read"
  /\ victims' = PruneVictims(DOMAIN files, now - KeepSeconds, pruneProtected)
  /\ prunePc' = IF victims' = {} THEN "idle" ELSE "unlink"
  /\ pruneProtected' = None /\ pruneReadAt' = 0    \* not used any more
  /\ UNCHANGED <<now, claimVars, streamVars, lastLost>>

Unlink(s) ==
  /\ prunePc = "unlink" /\ \A r \in victims : s <= r
  /\ files' = [r \in DOMAIN files \ {s} |-> files[r]]
  /\ lastLost' = IF files[s].to > lastLost THEN files[s].to ELSE lastLost
  /\ victims' = victims \ {s}
  /\ prunePc' = IF victims' = {} THEN "idle" ELSE "unlink"
  /\ UNCHANGED <<now, claimVars, writing, flowing, exitAt, outages,
                 pruneProtected, pruneReadAt>>

-----------------------------------------------------------------------------
\* Footage grows while the camera sends; a keyframe comes at least every
\* MaxSegment, the supervisor looks for a stall at every tick, and the pruner
\* does not pause for longer than MaxPruneDelay.
Tick ==
  /\ now < MaxTime
  /\ writing # None =>
       /\ now - writing <= StallLimit
       /\ flowing => now - files[writing].from < MaxSegment
  /\ prunePc = "read" => now < pruneReadAt + MaxPruneDelay
  /\ now' = now + 1
  /\ files' = IF writing # None /\ flowing
              THEN [files EXCEPT ![writing].to = now + 1] ELSE files
  /\ UNCHANGED <<claimVars, writing, flowing, exitAt, outages, pruneVars>>

StreamNext == StartStream \/ CutSegment \/ Stall \/ ExitStream \/ KillStalled

PruneNext == PruneRead \/ PruneList \/ \E s \in victims : Unlink(s)

Next == AddClaim \/ DropClaim \/ StreamNext \/ PruneNext \/ Tick

Spec == Init /\ [][Next]_vars

\* Time passes whatever the other threads do (their bounds on Tick must not
\* stop the clock), and the pruner's timer thread and the supervisor run.
FairSpec == Spec /\ SF_vars(Tick) /\ WF_vars(PruneNext)
                 /\ WF_vars(CutSegment) /\ WF_vars(KillStalled)

-----------------------------------------------------------------------------
(* Properties *)

\* Every variable has its type, and there is data only while ffmpeg runs.
TypeOK ==
  /\ now \in Nat
  /\ activeStarts \subseteq Claim /\ IsTime(protectedSince)
  /\ files \in [DOMAIN files -> File] /\ DOMAIN files \subseteq Int
  /\ IsTime(writing) /\ flowing \in BOOLEAN /\ (flowing => writing # None)
  /\ exitAt \in Int /\ outages \in Nat
  /\ prunePc \in {"idle", "read", "unlink"}
  /\ IsTime(pruneProtected) /\ pruneReadAt \in Nat
  /\ victims \subseteq Int /\ lastLost \in Int

\* The cache does not grow for ever: once time stands still, only segments
\* within keep_seconds or protected by a claim are left.
OnlyKept ==
  \A s \in DOMAIN files :
    \/ EndsAfter(DOMAIN files, s, now - KeepSeconds)
    \/ protectedSince # None /\ EndsAfter(DOMAIN files, s, protectedSince)
CacheBounded == []<>OnlyKept
=============================================================================
