-------------------------- MODULE ClassifierQueue --------------------------
(***************************************************************************)
(* How clip_classifier finds its work and hands it to one consumer         *)
(* (clip_classifier/watcher.py, main.py run, analysis.py).  The recorder   *)
(* publishes a clip's metadata sidecar; a scan (the startup backfill, then *)
(* a periodic one on its own thread) and the watchdog observer offer the   *)
(* clips they find to a bounded queue; the main thread takes one at a time *)
(* and writes its analysis sidecar.  The web UI and retention delete clips *)
(* meanwhile, and the process dies and is restarted at any point.          *)
(*                                                                         *)
(* Clips are numbered in the order of their sidecars' modification times.  *)
(* A listing of the directory is one step, and so is a rescan's turn of    *)
(* the clock: a scan may start whenever the last one is done.              *)
(***************************************************************************)
EXTENDS Integers, Sequences, Functions, Nothing

CONSTANTS
  LastClip,     \* clips are 1..LastClip
  QueueSize,    \* watch.queue_maxsize
  MaxFailures,  \* bound: runs of analyze_clip that raise
  MaxCrashes,   \* bound: deaths of the classifier
  MaxDeletes    \* bound: clips deleted by the web UI or retention

ASSUME QueueAssumption ==
  /\ LastClip \in Nat /\ QueueSize \in Nat \ {0}
  /\ MaxFailures \in Nat /\ MaxCrashes \in Nat /\ MaxDeletes \in Nat
  /\ None \notin Int

Clips   == 1..LastClip
Feeders == {"scan", "observer"}

VARIABLES
  published,  \* number of clips the recorder has published so far
  present,    \* clips on the disk, with their metadata sidecar
  analysed,   \* clips with an analysis sidecar
  phase,      \* "down", "backfill" or "running": the classifier process
  events,     \* the observer's undelivered notifications
  listed,     \* what is left of the scan's listing, offered in clip order
  putting,    \* per feeder: the clip between _queued.add and put_nowait
  refused,    \* per feeder: the clip the full queue refused, still in _queued
  queue,      \* ClipWatcher._queue
  queued,     \* ClipWatcher._queued
  worker,     \* "idle", "taking" (inside get) or "busy" (inside process_fn)
  job,        \* the consumer's clip
  failures, crashes, deletes

disk     == <<published, present, analysed>>
consumer == <<worker, job>>
feeding  == <<listed, putting, refused>>
counts   == <<failures, crashes, deletes>>
vars == <<disk, phase, events, feeding, queue, queued, consumer, counts>>

Idle == [f \in Feeders |-> None]

Init ==
  /\ published \in 0..LastClip
  /\ present = 1..published /\ analysed \in SUBSET present
  /\ phase = "down" /\ events = <<>>
  /\ listed = {} /\ putting = Idle /\ refused = Idle
  /\ queue = <<>> /\ queued = {}
  /\ worker = "idle" /\ job = None
  /\ failures = 0 /\ crashes = 0 /\ deletes = 0

-----------------------------------------------------------------------------
(* The recorder and the deleters                                           *)

\* The metadata sidecar appears under its final name.
Publish ==
  /\ published < LastClip
  /\ published' = published + 1
  /\ present' = present \union {published + 1}
  /\ events' = IF phase = "running" THEN Append(events, published + 1) ELSE events
  /\ UNCHANGED <<analysed, phase, feeding, queue, queued, consumer, counts>>

\* A clip goes with its sidecars.
Delete ==
  /\ deletes < MaxDeletes /\ deletes' = deletes + 1
  /\ \E c \in present : present' = present \ {c} /\ analysed' = analysed \ {c}
  /\ UNCHANGED <<published, phase, events, feeding, queue, queued, consumer,
                 failures, crashes>>

-----------------------------------------------------------------------------
(* Finding clips: discover_pending_clips, the scan and the observer        *)

\* discover_pending_clips: a sidecar, a clip and no verdict.
Pending == present \ analysed

FeederIdle(f) == putting[f] = None /\ refused[f] = None

OfferUnchecked(f, c) ==                 \* fault: no look at _queued
  /\ queued' = queued \union {c}
  /\ putting' = [putting EXCEPT ![f] = c]

\* The first half of _enqueue, under the lock.
Offer(f, c) ==
  IF c \in queued
  THEN UNCHANGED <<queued, putting>>
  ELSE /\ queued' = queued \union {c}
       /\ putting' = [putting EXCEPT ![f] = c]

\* ClipWatcher.start lists the directory: the backfill.
Start ==
  /\ phase = "down"
  /\ phase' = "backfill"
  /\ listed' = Pending
  /\ UNCHANGED <<disk, events, putting, refused, queue, queued, consumer, counts>>

\* One clip of the listing, by then perhaps classified or deleted.
OfferListed ==
  /\ FeederIdle("scan")
  /\ \E c \in listed :
       /\ \A d \in listed : c <= d
       /\ Offer("scan", c)
       /\ listed' = listed \ {c}
  /\ UNCHANGED <<disk, phase, events, refused, queue, consumer, counts>>

\* start goes on to the observer and the rescan thread; run begins.
StartObserver ==
  /\ phase = "backfill" /\ listed = {} /\ FeederIdle("scan")
  /\ phase' = "running"
  /\ UNCHANGED <<disk, events, feeding, queue, queued, consumer, counts>>

\* _rescan_loop after its wait.
Rescan ==
  /\ phase = "running" /\ listed = {} /\ FeederIdle("scan")
  /\ listed' = Pending
  /\ UNCHANGED <<disk, phase, events, putting, refused, queue, queued, consumer, counts>>

\* _maybe_report, on a notification of the observer.
Observe ==
  /\ events # <<>> /\ FeederIdle("observer")
  /\ events' = Tail(events)
  /\ IF Head(events) \in Pending
     THEN Offer("observer", Head(events))
     ELSE UNCHANGED <<queued, putting>>
  /\ UNCHANGED <<disk, phase, listed, refused, queue, consumer, counts>>

\* put_nowait, outside the lock.
Put(f) ==
  /\ putting[f] # None
  /\ putting' = [putting EXCEPT ![f] = None]
  /\ IF Len(queue) < QueueSize
     THEN queue' = Append(queue, putting[f]) /\ UNCHANGED refused
     ELSE refused' = [refused EXCEPT ![f] = putting[f]] /\ UNCHANGED queue
  /\ UNCHANGED <<disk, phase, events, listed, queued, consumer, counts>>

Remembered(c) == queued                 \* fault: a refused clip stays in _queued
Without(c)    == queued \ {c}

\* queue.Full: the clip leaves _queued, for a later scan to offer again.
Forget(f) ==
  /\ refused[f] # None
  /\ refused' = [refused EXCEPT ![f] = None]
  /\ queued' = Without(refused[f])
  /\ UNCHANGED <<disk, phase, events, listed, putting, queue, consumer, counts>>

-----------------------------------------------------------------------------
(* The consumer: run, ClipWatcher.get, analyze_clip                        *)

\* get: off the queue, not yet out of _queued.
Take ==
  /\ phase = "running" /\ worker = "idle" /\ queue # <<>>
  /\ worker' = "taking" /\ job' = Head(queue)
  /\ queue' = Tail(queue)
  /\ UNCHANGED <<disk, phase, events, feeding, queued, counts>>

\* get: out of _queued; process_fn begins.
Begin ==
  /\ worker = "taking"
  /\ worker' = "busy"
  /\ queued' = queued \ {job}
  /\ UNCHANGED <<disk, phase, events, feeding, queue, job, counts>>

\* analyze_clip writes the sidecar: a verdict, or "error" when the metadata
\* (of a clip deleted meanwhile, too), the sampling or the detector failed.
FinishJob ==
  /\ worker = "busy"
  /\ worker' = "idle" /\ job' = None
  /\ analysed' = analysed \union {job}
  /\ UNCHANGED <<published, present, phase, events, feeding, queue, queued, counts>>

\* analyze_clip raises, and run goes on with the next clip.
FailJob ==
  /\ worker = "busy" /\ failures < MaxFailures
  /\ worker' = "idle" /\ job' = None
  /\ failures' = failures + 1
  /\ UNCHANGED <<disk, phase, events, feeding, queue, queued, crashes, deletes>>

\* The process ends, killed or (between two clips) by run seeing stop_event.
Crash ==
  /\ phase # "down" /\ crashes < MaxCrashes
  /\ crashes' = crashes + 1
  /\ phase' = "down" /\ events' = <<>>
  /\ listed' = {} /\ putting' = Idle /\ refused' = Idle
  /\ queue' = <<>> /\ queued' = {}
  /\ worker' = "idle" /\ job' = None
  /\ UNCHANGED <<disk, failures, deletes>>

-----------------------------------------------------------------------------
Next ==
  \/ Publish \/ Delete
  \/ Start \/ OfferListed \/ StartObserver \/ Rescan \/ Observe
  \/ \E f \in Feeders : Put(f) \/ Forget(f)
  \/ Take \/ Begin \/ FinishJob \/ FailJob \/ Crash

Spec == Init /\ [][Next]_vars

\* systemd starts the process again, every thread of it runs, the rescan's
\* wait ends and analyze_clip returns.  Nobody has to publish or delete.
FairSpec ==
  /\ Spec
  /\ WF_vars(Start) /\ WF_vars(OfferListed) /\ WF_vars(StartObserver)
  /\ WF_vars(Rescan) /\ WF_vars(Observe)
  /\ \A f \in Feeders : WF_vars(Put(f)) /\ WF_vars(Forget(f))
  /\ WF_vars(Take) /\ WF_vars(Begin) /\ WF_vars(FinishJob \/ FailJob)

-----------------------------------------------------------------------------
InHand(f) == {putting[f], refused[f]} \ {None}

Handed == InHand("scan") \union InHand("observer")

Waiting == {queue[i] : i \in 1..Len(queue)}

Taken == IF worker = "taking" THEN {job} ELSE {}

IsClip(c) == c \in Clips \/ c = None      \* an Optional[Path] of the code

\* Types of all the variables.
TypeOK ==
  /\ published \in 0..LastClip
  /\ present \subseteq 1..published /\ analysed \subseteq Clips
  /\ phase \in {"down", "backfill", "running"}
  /\ events \in Seq(Clips) /\ listed \subseteq Clips
  /\ DOMAIN putting = Feeders /\ \A f \in Feeders : IsClip(putting[f])
  /\ DOMAIN refused = Feeders /\ \A f \in Feeders : IsClip(refused[f])
  /\ queue \in Seq(Clips) /\ Len(queue) <= QueueSize /\ queued \subseteq Clips
  /\ worker \in {"idle", "taking", "busy"}
  /\ IF worker = "idle" THEN job = None ELSE job \in Clips
  /\ failures \in 0..MaxFailures /\ crashes \in 0..MaxCrashes /\ deletes \in 0..MaxDeletes

\* The two halves of _enqueue and of get run outside one critical section,
\* and still _queued is at every moment exactly the clips that wait or that
\* a thread has in hand, each clip in one place only: no clip waits twice,
\* and none is stuck in _queued where no scan could offer it again.
QueuedExact ==
  /\ queued = Waiting \union Handed \union Taken
  /\ IsInjective(queue)
  /\ Waiting \intersect (Handed \union Taken) = {}
  /\ Handed \intersect Taken = {}
  /\ \A f \in Feeders : putting[f] = None \/ refused[f] = None
  /\ InHand("scan") \intersect InHand("observer") = {}

\* Whatever was missed between the backfill's listing and the observer's
\* start, refused by a full queue, lost with a crash or left by an analysis
\* that raised is classified in the end, unless somebody deletes it.
EveryClipClassified ==
  \A c \in Clips : (c \in Pending) ~> (c \notin Pending)
=============================================================================
