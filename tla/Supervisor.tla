----------------------------- MODULE Supervisor -----------------------------
(***************************************************************************)
(* SegmentCache's supervisor thread (camera_watcher/segment_cache.py):     *)
(* _supervise runs one ffmpeg after another with a backoff in between, and *)
(* _run_once watches the running one for an exit, a stop or a stall.  The  *)
(* web thread changes the settings and calls restart, the main thread      *)
(* calls stop, the pruner deletes old segments, and the camera comes and   *)
(* goes as it likes.                                                       *)
(*                                                                         *)
(* Time is kept as ages and countdowns, capped where no comparison tells   *)
(* larger values apart, so nothing here is bounded but MaxChanges.         *)
(***************************************************************************)
EXTENDS Integers, Sequences

CONSTANTS
  SegmentSeconds,  \* segment_seconds; the camera's keyframes let ffmpeg keep it
  StallAfter,      \* segment_seconds * stall_multiplier
  ConnectSeconds,  \* longest time ffmpeg takes from its start to a first segment
  HealthySeconds,  \* healthy_run_seconds
  Backoffs,        \* restart_backoff_seconds
  KeepSeconds,     \* _cache_keep_seconds()
  Reach,           \* how far back a claim of the recorder can start
  MaxChanges,      \* bound: settings changes
  None             \* Python's None

ASSUME SupervisorAssumption ==
  /\ SegmentSeconds \in Nat \ {0} /\ StallAfter \in Nat /\ ConnectSeconds \in Nat
  /\ HealthySeconds \in Nat /\ KeepSeconds \in Nat /\ Reach \in Nat
  /\ SegmentSeconds <= StallAfter /\ ConnectSeconds <= StallAfter
  /\ StallAfter < HealthySeconds
  /\ Backoffs \in Seq(Nat \ {0}) /\ Backoffs # <<>>
  /\ Reach <= KeepSeconds
  /\ MaxChanges \in Nat
  /\ None \notin Int

VARIABLES
  pc,          \* "deciding", "spawning", "spawned", "watching", "reaping",
               \* "ended", "backoff", "returned": the supervisor thread
  proc,        \* "none", "connecting", "streaming", "exiting", "exited": ffmpeg
  published,   \* _process is set
  runAge,      \* seconds since this run started
  segmentAge,  \* age of the newest segment in the cache; None when it is empty
  polled,      \* has _run_once looked at ffmpeg this second
  attempt,     \* backoff step
  waiting,     \* seconds of backoff left
  connected,   \* _connected
  stopping,    \* _stop is set
  settings,    \* version of the configuration in force
  applying,    \* apply_settings has changed it and not yet called restart
  procSettings,\* version the running ffmpeg was started with
  camera,      \* "up", "silent" (connected, sends nothing) or "down"
  protected    \* does a claim keep the pruner off the newest segment

retryVars  == <<attempt, waiting, connected>>
threadVars == <<pc, published, runAge, polled, retryVars>>
configVars == <<settings, applying, stopping>>
worldVars  == <<segmentAge, camera, protected>>
vars == <<threadVars, configVars, proc, procSettings, worldVars>>

Alive    == proc \in {"connecting", "streaming", "exiting"}
OldestAge == KeepSeconds + SegmentSeconds   \* such a segment may be pruned

Init ==
  /\ pc = "deciding" /\ proc = "none" /\ published = FALSE
  /\ runAge = 0 /\ segmentAge \in {None, OldestAge}    \* what an earlier run left
  /\ polled = FALSE /\ attempt = 0 /\ waiting = 0
  /\ connected = FALSE /\ stopping = FALSE
  /\ settings = 0 /\ applying = FALSE /\ procSettings = 0
  /\ camera \in {"up", "silent", "down"}
  /\ protected = FALSE

-----------------------------------------------------------------------------
(* _supervise and _run_once                                                *)

\* The loop condition, and the first line of _run_once, which reads the URL.
BeginRun ==
  /\ pc = "deciding"
  /\ pc' = IF stopping THEN "returned" ELSE "spawning"
  /\ procSettings' = settings
  /\ runAge' = 0
  /\ UNCHANGED <<published, polled, retryVars, configVars, proc, worldVars>>

Spawn ==
  /\ pc = "spawning"
  /\ pc' = "spawned" /\ proc' = "connecting"
  /\ UNCHANGED <<published, runAge, polled, retryVars, configVars, procSettings, worldVars>>

Publish ==
  /\ pc = "spawned"
  /\ pc' = "watching" /\ published' = TRUE /\ polled' = FALSE
  /\ UNCHANGED <<runAge, retryVars, configVars, proc, procSettings, worldVars>>

\* fault: an empty cache is never stalled
IgnoreEmptyCache == IF segmentAge = None THEN 0 ELSE segmentAge
NewestSegmentAge == IF segmentAge = None THEN runAge ELSE segmentAge

Terminate == proc' = IF Alive THEN "exiting" ELSE proc

NeverTold == FALSE                      \* fault: left to stop's own terminate
Told      == stopping

\* One turn of the loop that watches ffmpeg.
Poll ==
  /\ pc = "watching" /\ ~polled
  /\ polled' = TRUE
  /\ \/ Told /\ Terminate /\ pc' = "reaping" /\ UNCHANGED connected
     \/ ~Told /\ proc = "exited" /\ pc' = "reaping" /\ UNCHANGED <<proc, connected>>
     \/ /\ ~Told /\ proc # "exited" /\ NewestSegmentAge > StallAfter
        /\ proc' = "exited" /\ pc' = "reaping" /\ UNCHANGED connected
     \/ /\ ~Told /\ proc # "exited" /\ NewestSegmentAge <= StallAfter
        /\ connected' = TRUE /\ UNCHANGED <<pc, proc>>
  /\ UNCHANGED <<published, runAge, attempt, waiting, configVars, procSettings, worldVars>>

WaitForNothing == UNCHANGED proc        \* fault: no wait for ffmpeg to exit
Wait == proc \in {"exiting", "exited"} /\ proc' = "none"

\* The finally clause: ffmpeg has exited, or is killed five seconds later.
Reap ==
  /\ pc = "reaping"
  /\ Wait /\ published' = FALSE
  /\ pc' = "ended"
  /\ UNCHANGED <<runAge, polled, retryVars, configVars, procSettings, worldVars>>

Step(n) == IF n < Len(Backoffs) THEN n ELSE Len(Backoffs) - 1

EndRun ==
  /\ pc = "ended"
  /\ IF stopping
     THEN pc' = "returned" /\ UNCHANGED retryVars
     ELSE LET tries == IF runAge >= HealthySeconds THEN 0 ELSE attempt
          IN  /\ connected' = FALSE
              /\ waiting' = Backoffs[Step(tries) + 1]
              /\ attempt' = IF tries < Len(Backoffs) THEN tries + 1 ELSE tries
              /\ pc' = "backoff"
  /\ UNCHANGED <<published, runAge, polled, configVars, proc, procSettings, worldVars>>

\* _stop.wait(backoff) ends when it is set or the time is up.
WakeUp ==
  /\ pc = "backoff" /\ (stopping \/ waiting = 0)
  /\ pc' = IF stopping THEN "returned" ELSE "deciding"
  /\ waiting' = 0
  /\ UNCHANGED <<published, runAge, polled, attempt, connected, configVars, proc,
                 procSettings, worldVars>>

-----------------------------------------------------------------------------
(* Other threads                                                           *)

TellNothing == UNCHANGED proc           \* fault: ffmpeg is not told
TellProcess == IF published THEN Terminate ELSE UNCHANGED proc

\* pipeline.apply_settings swaps the configuration, then calls restart.
ChangeSettings ==
  /\ settings < MaxChanges /\ ~applying
  /\ settings' = settings + 1 /\ applying' = TRUE
  /\ UNCHANGED <<threadVars, stopping, proc, procSettings, worldVars>>

Restart ==
  /\ applying
  /\ applying' = FALSE
  /\ TellProcess
  /\ UNCHANGED <<threadVars, settings, stopping, procSettings, worldVars>>

Stop ==
  /\ ~stopping
  /\ stopping' = TRUE
  /\ TellProcess
  /\ UNCHANGED <<threadVars, settings, applying, procSettings, worldVars>>

NeverLast == FALSE                      \* fault: the newest segment is always kept
Prunable  == segmentAge # None /\ segmentAge >= OldestAge /\ ~protected

\* prune reaches the newest segment last of all.
PruneLast ==
  /\ Prunable
  /\ segmentAge' = None
  /\ UNCHANGED <<threadVars, configVars, proc, procSettings, camera, protected>>

\* A claim starts within Reach of now, so it cannot cover an older segment.
Protect ==
  /\ segmentAge # None /\ segmentAge < Reach + SegmentSeconds
  /\ protected' = TRUE
  /\ UNCHANGED <<threadVars, configVars, proc, segmentAge, procSettings, camera>>

Unprotect ==
  /\ protected /\ protected' = FALSE
  /\ UNCHANGED <<threadVars, configVars, proc, segmentAge, procSettings, camera>>

-----------------------------------------------------------------------------
(* The camera and ffmpeg                                                   *)

CameraChanges ==
  /\ camera' \in {"up", "silent", "down"} \ {camera}
  /\ UNCHANGED <<threadVars, configVars, proc, segmentAge, procSettings, protected>>

\* ffmpeg connects and opens a segment, or cuts to the next one.
NewSegment ==
  /\ camera = "up" /\ proc \in {"connecting", "streaming"}
  /\ proc = "streaming" => segmentAge # 0
  /\ proc' = "streaming" /\ segmentAge' = 0
  /\ UNCHANGED <<threadVars, configVars, procSettings, camera, protected>>

ProcExit ==
  /\ proc = "exiting" \/ (camera = "down" /\ Alive)
  /\ proc' = "exited"
  /\ UNCHANGED <<threadVars, configVars, segmentAge, procSettings, camera, protected>>

Older(age, limit) == IF age < limit THEN age + 1 ELSE limit

\* A second passes: the supervisor polls in every one and is never slow, and
\* ffmpeg delivers in time while the camera sends.
Tick ==
  /\ pc \in {"watching", "reaping", "backoff", "returned"}
  /\ pc = "watching" => polled
  /\ pc = "backoff" => waiting > 0
  /\ camera = "up" =>
       /\ proc = "streaming" => segmentAge < SegmentSeconds
       /\ proc = "connecting" => runAge < ConnectSeconds
  /\ polled' = FALSE
  /\ runAge' = Older(runAge, HealthySeconds)
  /\ segmentAge' = IF segmentAge = None THEN None ELSE Older(segmentAge, OldestAge)
  /\ waiting' = IF pc = "backoff" THEN waiting - 1 ELSE waiting
  /\ UNCHANGED <<pc, published, attempt, connected, configVars, proc, procSettings,
                 camera, protected>>

Supervise == BeginRun \/ Spawn \/ Publish \/ Poll \/ Reap \/ EndRun \/ WakeUp

Next ==
  \/ Supervise
  \/ ChangeSettings \/ Restart \/ Stop
  \/ PruneLast \/ Protect \/ Unprotect
  \/ CameraChanges \/ NewSegment \/ ProcExit
  \/ Tick

Spec == Init /\ [][Next]_vars

\* Threads run, time passes, claims are released (Recorder's
\* ClosedWindowsReleased) and a process that was told to exit does.
Fairness ==
  /\ WF_vars(Supervise) /\ WF_vars(Tick) /\ WF_vars(NewSegment) /\ WF_vars(ProcExit)
  /\ WF_vars(PruneLast) /\ WF_vars(Unprotect) /\ WF_vars(Restart)

FairSpec == Spec /\ Fairness

-----------------------------------------------------------------------------
(* Properties *)

\* Every variable has its type, and _process is set exactly while the
\* supervisor watches or reaps the process.
TypeOK ==
  /\ pc \in {"deciding", "spawning", "spawned", "watching", "reaping", "ended",
             "backoff", "returned"}
  /\ proc \in {"none", "connecting", "streaming", "exiting", "exited"}
  /\ published <=> pc \in {"watching", "reaping"}
  /\ runAge \in 0..HealthySeconds
  /\ segmentAge = None \/ segmentAge \in 0..OldestAge
  /\ attempt \in 0..Len(Backoffs) /\ waiting \in Nat
  /\ {polled, connected, stopping, applying, protected} \subseteq BOOLEAN
  /\ settings \in 0..MaxChanges /\ procSettings \in 0..settings
  /\ camera \in {"up", "silent", "down"}

\* The supervisor leaves no ffmpeg behind: none runs once it has returned, or
\* while it waits to start the next one.
NoOrphan == pc \in {"deciding", "spawning", "ended", "backoff", "returned"} => proc = "none"

\* stop ends the supervisor and its ffmpeg, wherever it catches them.
StopEnds == stopping ~> pc = "returned"

\* An ffmpeg that delivers nothing is never left running for good.
HangEnds == []<>~(camera = "silent" /\ proc \in {"connecting", "streaming"})

\* Once the camera is back for good the stream comes back for good: the stale
\* segments that get each new ffmpeg killed are pruned in the end.
Recovers == <>[](camera = "up") /\ []~stopping => <>[](proc = "streaming" /\ connected)

\* SegmentCache.restart: "Force a reconnect on the next iteration, e.g. after a
\* settings change".  A change made while an ffmpeg is watched gets one that was
\* started with it, whatever becomes of the old one.  (A change whose restart
\* falls between _run_once's reading of the URL and its publishing of _process
\* need not: nothing is terminated, and that ffmpeg stays.)
SettingsTakeEffect ==
  (pc = "watching" /\ applying) ~> (procSettings = settings \/ stopping)
=============================================================================
