--------------------------- MODULE MotionHeatmap ----------------------------
(***************************************************************************)
(* The motion heatmap: MotionAccumulator (camera_watcher/accumulator.py)   *)
(* and the reference to it, CameraPipeline.accumulator (pipeline.py),      *)
(* which no lock guards.  The frame thread creates the accumulator and     *)
(* adds to it, the persist thread saves it, web requests save and drop it  *)
(* (apply_settings) or clear it (reset_heatmap), and the main thread saves *)
(* it once more when it stops.  Each reads the reference twice: once to    *)
(* compare it with None and once to call a method.                         *)
(*                                                                         *)
(* One pixel stands for the array.                                         *)
(***************************************************************************)
EXTENDS Nothing, Integers, FiniteSets, Functions

CONSTANTS
  Requests,     \* web requests that may run at the same time
  MaxHits,      \* bound: frames that count
  MaxRequests,  \* bound: requests for other settings, and resets
  MaxFaults     \* bound: writes that fail, and starts after the first

ASSUME HeatmapAssumption ==
  /\ MaxHits \in Nat /\ MaxRequests \in Nat /\ MaxFaults \in Nat
  /\ IsFiniteSet(Requests) /\ Requests \cap {"persist", "main"} = {}
  /\ None \notin Int \union Requests
  /\ None \notin {"persist", "main", "apply", "reset", "save"}
  /\ None \notin [width : {0, 1}, count : Int]

Threads == Requests \union {"persist", "main"}
Paths   == {0, 1}   \* motion.heatmap_path

\* motion.heatmap_path and motion.analysis_width
Settings == {<<0, 0>>, <<1, 0>>, <<0, 1>>}

VARIABLES
  up,           \* the process is running
  saved,        \* the settings in the config file
  path, width,  \* _heatmap_path; the detector's analysis_width
  accumulators, \* the MotionAccumulators something refers to
  current,      \* CameraPipeline.accumulator
  file, temp,   \* per path, what it and its .tmp.npy hold, or None
  frame,        \* the frame thread: where it is, its frame, its accumulator
  thread,       \* the other threads: where they are, what for, with which one
  hits, changes, faults,
  expected,     \* history: the count the heatmap should show, or None after
                \* one of the races that lose hits or revive them
  failedAlone   \* history: did an apply_settings that none overlapped raise

settingVars == <<saved, path, width>>
heat     == <<accumulators, current, file, temp>>
bounds   == <<hits, changes, faults>>
ghosts   == <<expected, failedAlone>>
heatmapVars == <<up, settingVars, heat, frame, thread, bounds, ghosts>>

\* More accumulators than threads are never referred to at the same time.
Ids     == 1..(Cardinality(Requests) + 3)
Waiting == [at |-> "idle", task |-> None, ref |-> None,
            settings |-> <<0, 0>>, overlapped |-> FALSE]
NoFrame == [at |-> "idle", width |-> 0, ref |-> None]

HeatmapInit ==
  /\ up = TRUE
  /\ saved = <<0, 0>> /\ path = 0 /\ width = 0
  /\ accumulators = [i \in {} |-> None] /\ current = None
  /\ file = [p \in Paths |-> IF p = 0 THEN [width |-> 0, count |-> 1] ELSE None]
  /\ temp = [p \in Paths |-> None]
  /\ frame = NoFrame /\ thread = [t \in Threads |-> Waiting]
  /\ hits = 0 /\ changes = 0 /\ faults = 0
  /\ expected = 1 /\ failedAlone = FALSE

\* The stop events are set.
stopping == thread["main"].at # "idle"

\* What nothing refers to is garbage.
Referenced ==
  ({current, frame.ref} \union {thread[t].ref : t \in Threads}) \ {None}

Become(accs) == accumulators' = Restrict(accs, Referenced')

\* From now on the heatmap should show this, if nothing was lost by now.
Expect(lost, count) ==
  expected' = IF lost \/ expected = None THEN None ELSE count

Content(a) == [width |-> a.width, count |-> a.count]

\* _load_or_new: an array of another shape counts for nothing.
LoadOrNew(p, w) ==
  IF file[p] # None /\ file[p].width = w THEN file[p].count ELSE 0

Stored == LoadOrNew(path, width)

-----------------------------------------------------------------------------
(* The frame thread: _process_loop, MotionDetector.process and             *)
(* _accumulate_heatmap                                                     *)

BeginFrame ==
  /\ up /\ frame.at = "idle" /\ hits < MaxHits
  /\ frame' = [NoFrame EXCEPT !.at = "checking", !.width = width]
  /\ UNCHANGED <<up, settingVars, heat, thread, bounds, ghosts>>

FindAccumulator ==
  /\ frame.at = "checking" /\ current # None
  /\ frame' = [NoFrame EXCEPT !.at = "adding"]
  /\ UNCHANGED <<up, settingVars, heat, thread, bounds, ghosts>>

NewAccumulator ==
  /\ frame.at = "checking" /\ current = None
  /\ LET id == CHOOSE i \in Ids : i \notin Referenced /\ 1..(i - 1) \subseteq Referenced
     IN  /\ frame' = [NoFrame EXCEPT !.at = "publishing", !.ref = id]
         /\ UNCHANGED <<current, thread>>
         /\ Become([i \in DOMAIN accumulators \union {id} |->
              IF i # id THEN accumulators[i]
              ELSE [path |-> path, width |-> frame.width, dirty |-> FALSE, lock |-> None,
                    count |-> LoadOrNew(path, frame.width)]])
  /\ UNCHANGED <<up, settingVars, file, temp, bounds, ghosts>>

\* Meant for settings that are gone by now?
Outdated(a)   == a.path # path \/ a.width # width
OutdatedInUse == current # None /\ Outdated(accumulators[current])
Unsaved       == current # None /\ accumulators[current].dirty

Publish ==
  /\ frame.at = "publishing"
  /\ current' = frame.ref
  /\ frame' = [NoFrame EXCEPT !.at = "adding"] /\ UNCHANGED thread
  /\ Become(accumulators)
  /\ Expect(Outdated(accumulators[frame.ref]), expected)
  /\ UNCHANGED <<up, settingVars, file, temp, bounds, failedAlone>>

\* self.accumulator.add: the reference is read again, and may be None (caught).
\* A frame without motion adds nothing.
LoadToAdd ==
  /\ frame.at = "adding"
  /\ \/ frame' = NoFrame /\ UNCHANGED hits
     \/ /\ current # None /\ hits' = hits + 1
        /\ frame' = [frame EXCEPT !.at = "locking", !.ref = current]
  /\ UNCHANGED <<up, settingVars, heat, thread, changes, faults, ghosts>>

BumpedQuietly(a) == [a EXCEPT !.count = @ + 1]            \* fault: not marked
Bumped(a)        == [a EXCEPT !.count = @ + 1, !.dirty = TRUE]

\* add.  A hit that a replaced accumulator gets is lost.
Add ==
  /\ frame.at = "locking" /\ accumulators[frame.ref].lock = None
  /\ frame' = NoFrame /\ UNCHANGED <<current, thread>>
  /\ Become([accumulators EXCEPT ![frame.ref] = Bumped(@)])
  /\ Expect(FALSE, IF frame.ref = current THEN expected + 1 ELSE expected)
  /\ UNCHANGED <<up, settingVars, file, temp, bounds, failedAlone>>

FramesEnd ==
  /\ stopping /\ frame.at = "idle"
  /\ frame' = [frame EXCEPT !.at = "returned"]
  /\ UNCHANGED <<up, settingVars, heat, thread, bounds, ghosts>>

-----------------------------------------------------------------------------
(* What the other threads do with the accumulator                          *)

IsAt(t, at) == up /\ thread[t].at = at

Goto(t, at) == thread' = [thread EXCEPT ![t].at = at]

\* The thread is done with it, whether or not something was raised.
Finish(t) ==
  thread' = [thread EXCEPT ![t] =
    IF t = "main" THEN [Waiting EXCEPT !.at = "exiting"] ELSE Waiting]

\* apply_settings drops what it has saved.
Saved(t) == IF thread[t].task = "apply" THEN Goto(t, "dropping") ELSE Finish(t)

DoNotCheck(t, task) ==                                    \* fault: no check
  thread' = [thread EXCEPT ![t].at = "loading", ![t].task = task]

\* if self.accumulator is not None ...
CheckAccumulator(t, task) ==
  thread' = [thread EXCEPT ![t] =
    IF current # None THEN [@ EXCEPT !.at = "loading", !.task = task]
    ELSE IF t = "main" THEN [@ EXCEPT !.at = "exiting"] ELSE Waiting]

Check(t) ==
  /\ IsAt(t, "checking")
  /\ CheckAccumulator(t, "apply")
  /\ UNCHANGED <<up, settingVars, heat, frame, bounds, ghosts>>

\* ... self.accumulator.save(): an AttributeError if it is None by now.
Load(t) ==
  /\ IsAt(t, "loading")
  /\ IF current = None
     THEN /\ Finish(t)
          /\ failedAlone' = (failedAlone \/ (thread[t].task = "apply" /\ ~thread[t].overlapped))
     ELSE /\ thread' = [thread EXCEPT ![t].at = "locking", ![t].ref = current,
                                      ![t].overlapped = FALSE]
          /\ UNCHANGED failedAlone
  /\ UNCHANGED <<up, settingVars, heat, frame, bounds, expected>>

ClearedInMemory(t, a) ==                            \* fault: reset not saved
  IF thread[t].task = "reset" THEN [a EXCEPT !.count = 0] ELSE a

Cleared(t, a) ==
  IF thread[t].task = "reset" THEN [a EXCEPT !.count = 0, !.dirty = TRUE] ELSE a

\* save or reset under the lock: _save_locked writes the temporary file ...
LockAndWrite(t) ==
  /\ IsAt(t, "locking") /\ accumulators[thread[t].ref].lock = None
  /\ LET ref == thread[t].ref
         a   == Cleared(t, accumulators[ref])
     IN  /\ IF a.dirty
            THEN /\ Goto(t, "replacing")
                 /\ temp' = [temp EXCEPT ![a.path] = Content(a)]
                 /\ accumulators' = [accumulators EXCEPT ![ref] = [a EXCEPT !.lock = t]]
            ELSE /\ Saved(t) /\ UNCHANGED <<temp, current, frame>> /\ Become(accumulators)
         /\ Expect(ref # current, IF thread[t].task = "reset" THEN 0 ELSE expected)
  /\ UNCHANGED <<up, settingVars, current, file, frame, bounds, failedAlone>>

WriteFails(t) ==
  /\ IsAt(t, "locking") /\ accumulators[thread[t].ref].lock = None
  /\ faults < MaxFaults /\ faults' = faults + 1
  /\ LET a == Cleared(t, accumulators[thread[t].ref])
     IN  /\ a.dirty
         /\ Finish(t) /\ UNCHANGED <<current, frame>>
         /\ Become([accumulators EXCEPT ![thread[t].ref] = a])
  /\ Expect(TRUE, expected)
  /\ UNCHANGED <<up, settingVars, file, temp, hits, changes, failedAlone>>

\* ... and renames it, which fails when another accumulator of the same path
\* was faster with it.
ReplaceFile(t) ==
  /\ IsAt(t, "replacing")
  /\ LET ref == thread[t].ref
         p   == accumulators[ref].path
         renamed == temp[p] # None
     IN  /\ file' = IF renamed THEN [file EXCEPT ![p] = temp[p]] ELSE file
         /\ temp' = [temp EXCEPT ![p] = None]
         /\ IF renamed THEN Saved(t) ELSE Finish(t)
         /\ UNCHANGED <<current, frame>>
         /\ Become([accumulators EXCEPT ![ref].lock = None, ![ref].dirty = ~renamed])
         /\ Expect(~renamed \/ ref # current, expected)
  /\ UNCHANGED <<up, settingVars, bounds, failedAlone>>

-----------------------------------------------------------------------------
(* Web requests                                                            *)

Applying == {r \in Requests : thread[r].task = "apply"}

\* post_settings has saved settings and calls apply_settings.
BeginApply(r) ==
  /\ IsAt(r, "idle") /\ changes < MaxRequests /\ changes' = changes + 1
  /\ \E s \in Settings :
       /\ saved' = s
       /\ thread' = [t \in Threads |->
            IF t = r THEN [Waiting EXCEPT !.at = "configuring", !.task = "apply",
                                          !.settings = s, !.overlapped = Applying # {}]
            ELSE IF t \in Applying THEN [thread[t] EXCEPT !.overlapped = TRUE]
            ELSE thread[t]]
  /\ UNCHANGED <<up, path, width, heat, frame, hits, faults, ghosts>>

\* MotionDetector.configure
Configure(r) ==
  /\ IsAt(r, "configuring")
  /\ width' = thread[r].settings[2]
  /\ Goto(r, "repathing")
  /\ Expect(FALSE, IF current = None THEN LoadOrNew(path, width') ELSE expected)
  /\ UNCHANGED <<up, saved, path, heat, frame, bounds, failedAlone>>

\* Another path: the accumulator is dropped, unsaved.
Repath(r) ==
  /\ IsAt(r, "repathing")
  /\ path' = thread[r].settings[1]
  /\ current' = IF path' = path THEN current ELSE None
  /\ thread' = [thread EXCEPT ![r].at = "checking", ![r].settings = <<0, 0>>]
  /\ UNCHANGED <<file, frame>>
  /\ Become(accumulators)
  /\ Expect(FALSE, IF path' = path THEN expected ELSE LoadOrNew(path', width))
  /\ UNCHANGED <<up, saved, width, temp, bounds, failedAlone>>

Drop(r) ==
  /\ IsAt(r, "dropping")
  /\ current' = None /\ Finish(r) /\ UNCHANGED frame
  /\ Become(accumulators)
  /\ Expect(Unsaved, IF OutdatedInUse THEN Stored ELSE expected)
  /\ UNCHANGED <<up, settingVars, file, temp, bounds, failedAlone>>

\* POST /api/heatmap/reset: reset_heatmap.
BeginReset(r) ==
  /\ IsAt(r, "idle") /\ changes < MaxRequests /\ changes' = changes + 1
  /\ CheckAccumulator(r, "reset")
  /\ UNCHANGED <<up, settingVars, heat, frame, hits, faults, ghosts>>

-----------------------------------------------------------------------------
(* The persist thread, and the end of the process                          *)

PersistWakes ==
  /\ IsAt("persist", "idle") /\ ~stopping
  /\ CheckAccumulator("persist", "save")
  /\ UNCHANGED <<up, settingVars, heat, frame, bounds, ghosts>>

PersistReturns ==
  /\ IsAt("persist", "idle") /\ stopping
  /\ Goto("persist", "returned")
  /\ UNCHANGED <<up, settingVars, heat, frame, bounds, ghosts>>

\* pipeline.stop joins the two threads; no join waits longer than 5 seconds.
Stop ==
  /\ IsAt("main", "idle")
  /\ Goto("main", "joining")
  /\ UNCHANGED <<up, settingVars, heat, frame, bounds, ghosts>>

JoinThreads ==
  /\ IsAt("main", "joining")
  /\ CheckAccumulator("main", "save")
  /\ Expect(frame.at # "returned" \/ ~IsAt("persist", "returned"), expected)
  /\ UNCHANGED <<up, settingVars, heat, frame, bounds, failedAlone>>

LoseMemory ==
  /\ up' = FALSE
  /\ accumulators' = [i \in {} |-> None] /\ current' = None
  /\ frame' = NoFrame /\ thread' = [t \in Threads |-> Waiting]

Exit ==
  /\ IsAt("main", "exiting")
  /\ LoseMemory
  /\ Expect(Unsaved /\ \E r \in Requests : ~IsAt(r, "idle"),
            IF OutdatedInUse THEN Stored ELSE expected)
  /\ UNCHANGED <<settingVars, file, temp, bounds, failedAlone>>

Crash ==
  /\ up
  /\ LoseMemory
  /\ Expect(FALSE, Stored)
  /\ UNCHANGED <<settingVars, file, temp, bounds, failedAlone>>

\* CameraPipeline's constructor.
Start ==
  /\ ~up /\ up' = TRUE
  /\ faults < MaxFaults /\ faults' = faults + 1
  /\ path' = saved[1] /\ width' = saved[2]
  /\ UNCHANGED file
  /\ Expect(FALSE, IF saved = <<path, width>> THEN expected ELSE LoadOrNew(path', width'))
  /\ UNCHANGED <<saved, accumulators, current, temp, frame, thread,
                 hits, changes, failedAlone>>

-----------------------------------------------------------------------------
FrameStep ==
  FindAccumulator \/ NewAccumulator \/ Publish \/ LoadToAdd \/ Add \/ FramesEnd

Use(t) == Check(t) \/ Load(t) \/ LockAndWrite(t) \/ WriteFails(t) \/ ReplaceFile(t)

Request(r) ==
  BeginApply(r) \/ Configure(r) \/ Repath(r) \/ Drop(r) \/ BeginReset(r)

Persist == PersistWakes \/ PersistReturns \/ Use("persist")

HeatmapNext ==
  \/ BeginFrame \/ FrameStep
  \/ \E r \in Requests : Request(r) \/ Use(r)
  \/ Persist
  \/ Stop \/ JoinThreads \/ Use("main")
  \/ Exit \/ Crash \/ Start

HeatmapSpec == HeatmapInit /\ [][HeatmapNext]_heatmapVars

-----------------------------------------------------------------------------
(* Properties *)

Shown == IF current # None THEN accumulators[current].count ELSE Stored

\* The heatmap shows every hit since the last reset and no older one, across
\* settings, saves and clean restarts, unless one of these happened: a write
\* failed; an accumulator was saved or cleared after it was replaced, or gained
\* hits between being saved and being replaced; one was published for settings
\* that were gone by then; or the process ended before its threads did.  A new
\* path or width starts from what its file holds, and so does a crash.
HeatmapExact == up /\ expected # None => Shown = expected

\* A crash can only lose what is marked as unsaved: an accumulator that is not
\* dirty agrees with its file (pipeline.py:366, accumulator.py:69).
OnlyUnsavedAtRisk ==
  expected # None /\ current # None /\ ~Unsaved /\ ~OutdatedInUse
    => accumulators[current].count = Stored

\* apply_settings finds no accumulator where it has just seen one, and skips
\* the recorder, the cache and the camera (pipeline.py:344), only when another
\* apply_settings overlapped it.
ApplyFailsOnlyOverlapped == ~failedAlone
=============================================================================
