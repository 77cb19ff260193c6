------------------------------ MODULE ClipFiles ------------------------------
(***************************************************************************)
(* What lies in the clip directories, and everyone who changes it: the     *)
(* assembler thread (recorder.py, _process_job from line 304), web         *)
(* requests that delete or review a clip (web/routes.py), the classifier   *)
(* (clip_classifier/analysis.py) and rebuild_index.py.  None of them locks *)
(* anything; apply_settings swaps the recorder's directory at any time,    *)
(* and a clip's name is its local start time, which can occur twice.       *)
(*                                                                         *)
(* Writing a temporary JSON file and replacing the sidecar with it is one  *)
(* step.  The flush on the main thread is no second assembler here: two    *)
(* jobs at the same time have different names and share no file.           *)
(***************************************************************************)
EXTENDS Integers, FiniteSetsExt

CONSTANTS
  Dirs,        \* recording.output_dir may be one of these
  Requests,    \* web requests that may run at the same time
  MaxName,     \* bound: clip names, in the order glob's result is sorted
  MaxJobs,     \* bound: events to assemble
  MaxSwaps,    \* bound: changes of the directory
  MaxFaults,   \* bound: failures and crashes
  None         \* Python's None; a file that is not there

ASSUME FilesAssumption ==
  /\ MaxName \in Nat /\ MaxJobs \in Nat /\ MaxSwaps \in Nat /\ MaxFaults \in Nat
  /\ None \notin Int \union Dirs \union (Dirs \X Int)

Names == 1..MaxName
Keys  == Dirs \X Names

VARIABLES
  up, dir,     \* the process runs; the output directory in force
  files,       \* per key: the clip's job, its sidecars' and its temporary file
  assembler,   \* where _process_job is, its job and the two paths
  request,     \* per web request: what it does next, to which clip
  classifier,  \* the clip being analysed and the job it read
  rebuild,     \* rebuild_index: its directory, what is left, what it collected
  jobs, swaps, faults,
  steady,       \* history: the directory is that of the last start
  touched,     \* history: what changed since the rebuild began
  mixed,       \* history: keys that two operations work on at the same time
  broken       \* history: keys that such a mix, a failure or a crash left torn

bounds == <<jobs, swaps, faults>>
ghosts == <<steady, touched, mixed, broken>>
vars == <<up, dir, files, assembler, request, classifier, rebuild, bounds, ghosts>>

NoFiles   == [clip |-> None, whole |-> TRUE, meta |-> None, analysis |-> None,
              review |-> None, temp |-> None]
NoJob     == [at |-> "idle", job |-> None, final |-> None, temp |-> None]
NoRequest == [at |-> "idle", key |-> None, discard |-> FALSE, about |-> None]
NoClip    == [key |-> None, job |-> None]
NoRebuild == [at |-> "idle", dir |-> None, todo |-> {}, entries |-> {}]

Init ==
  /\ up = TRUE /\ dir \in Dirs
  /\ files = [k \in Keys |-> NoFiles]
  /\ assembler = NoJob /\ request = [r \in Requests |-> NoRequest]
  /\ classifier = NoClip /\ rebuild = NoRebuild
  /\ jobs = 0 /\ swaps = 0 /\ faults = 0
  /\ steady = TRUE /\ touched = {} /\ mixed = {} /\ broken = {}

At(r, at) == up /\ request[r].at = at

\* The keys an operation works on: the assembler between the rename and the
\* metadata, a request from its first change on, the classifier.
Busy ==
  {classifier.key} \union {request[r].key : r \in {q \in Requests : request[q].at # "clip"}}
    \union (IF assembler.at = "describing" THEN {assembler.final} ELSE {})

\* A clip comes with its own metadata, and what else lies there is about it.
Torn(f) == f.meta # f.clip \/ ~({f.analysis, f.review} \subseteq {None, f.clip})

Touch(k)  == touched' = IF rebuild = NoRebuild THEN {} ELSE touched \union {k}
Put(k, f) == files' = [files EXCEPT ![k] = f] /\ Touch(k)

Begins(k, replaces) ==
  /\ mixed' = IF k \in Busy \/ replaces THEN mixed \union {k} ELSE mixed
  /\ UNCHANGED broken

Ends(k, f, failed) ==
  /\ broken' = IF ~Torn(f) THEN broken \ {k}
               ELSE IF failed \/ k \in mixed THEN broken \union {k} ELSE broken
  /\ mixed' = IF k \in (Busy') THEN mixed ELSE mixed \ {k}

Fault == faults < MaxFaults /\ faults' = faults + 1

-----------------------------------------------------------------------------
(* The assembler thread: _process_job once it has its segments             *)

\* self.config is read once for each path; this is the final one.
TakeJob ==
  /\ up /\ assembler.at = "idle" /\ jobs < MaxJobs
  /\ jobs' = jobs + 1
  /\ \E n \in Names :
       assembler' = [NoJob EXCEPT !.at = "assembling", !.job = jobs', !.final = <<dir, n>>]
  /\ UNCHANGED <<up, dir, files, request, classifier, rebuild, swaps, faults, ghosts>>

\* assemble_clip: ffmpeg overwrites what it finds.
Assemble ==
  /\ assembler.at = "assembling"
  /\ LET k == <<dir, assembler.final[2]>>
     IN  /\ assembler' = [assembler EXCEPT !.at = "waiting", !.temp = k]
         /\ Put(k, [files[k] EXCEPT !.temp = "partial"])
  /\ UNCHANGED <<up, dir, request, classifier, rebuild, bounds, steady, mixed, broken>>

Assembled ==
  /\ assembler.at = "waiting"
  /\ assembler' = [assembler EXCEPT !.at = "renaming"]
  /\ Put(assembler.temp, [files[assembler.temp] EXCEPT !.temp = "whole"])
  /\ UNCHANGED <<up, dir, request, classifier, rebuild, bounds, steady, mixed, broken>>

TakenForAssembled == [assembler EXCEPT !.at = "renaming"]   \* fault: stderr ignored
GivenUp           == NoJob

AssemblyFails ==
  /\ assembler.at = "waiting" /\ Fault
  /\ assembler' = GivenUp
  /\ Put(assembler.temp, [files[assembler.temp] EXCEPT !.temp = None])
  /\ UNCHANGED <<up, dir, request, classifier, rebuild, jobs, swaps, steady, mixed, broken>>

\* temp_path.rename(final_path) replaces a clip of that name.
Rename ==
  /\ assembler.at = "renaming"
  /\ LET k == assembler.final
         t == assembler.temp
         moved == [files EXCEPT ![t].temp = None]
     IN  /\ files' = [moved EXCEPT ![k].clip = assembler.job, ![k].whole = files[t].temp = "whole"]
         /\ Touch(k)
         /\ Begins(k, files[k].clip # None)
  /\ assembler' = [assembler EXCEPT !.at = "describing"]
  /\ UNCHANGED <<up, dir, request, classifier, rebuild, bounds, steady>>

\* Another directory may be another file system.  The temporary file stays.
RenameFails ==
  /\ assembler.at = "renaming" /\ assembler.final # assembler.temp
  /\ assembler' = NoJob
  /\ UNCHANGED <<up, dir, files, request, classifier, rebuild, bounds, ghosts>>

\* _write_metadata: a failure to write is logged.
WriteMetadata ==
  /\ assembler.at = "describing"
  /\ assembler' = NoJob /\ UNCHANGED <<request, classifier>>
  /\ LET k == assembler.final
         f == [files[k] EXCEPT !.meta = assembler.job]
     IN  \/ Put(k, f) /\ Ends(k, f, FALSE) /\ UNCHANGED faults
         \/ Fault /\ Ends(k, files[k], TRUE) /\ UNCHANGED <<files, touched>>
  /\ UNCHANGED <<up, dir, rebuild, jobs, swaps, steady>>

-----------------------------------------------------------------------------
(* Web requests: delete_recording, delete_recording_group, review_recording *)

\* _resolve_clip_path; a review is written first.
Resolve(r) ==
  /\ At(r, "idle")
  /\ \E k \in Keys, at \in {"clip", "reviewing"}, discard \in BOOLEAN :
       /\ k[1] = dir /\ files[k].clip # None
       /\ at = "clip" => discard
       /\ request' = [request EXCEPT ![r] = [at |-> at, key |-> k, discard |-> discard,
                                             about |-> files[k].clip]]
       /\ IF at = "reviewing" THEN Begins(k, FALSE) ELSE UNCHANGED <<mixed, broken>>
  /\ UNCHANGED <<up, dir, files, assembler, classifier, rebuild, bounds, steady, touched>>

WriteReview(r) ==
  /\ At(r, "reviewing")
  /\ LET k == request[r].key
         f == [files[k] EXCEPT !.review = request[r].about]
     IN  /\ request' = [request EXCEPT ![r] = IF @.discard THEN [@ EXCEPT !.at = "clip"]
                                              ELSE NoRequest]
         /\ UNCHANGED <<assembler, classifier>>
         /\ Put(k, f) /\ Ends(k, f, FALSE)
  /\ UNCHANGED <<up, dir, rebuild, bounds, steady>>

\* file_path.unlink(): if the clip is gone by now, nothing else is removed.
UnlinkClip(r) ==
  /\ At(r, "clip")
  /\ LET k == request[r].key
     IN  IF files[k].clip = None
         THEN /\ request' = [request EXCEPT ![r] = NoRequest]
              /\ UNCHANGED <<files, touched, mixed, broken>>
         ELSE /\ request' = [request EXCEPT ![r].at = "meta"]
              /\ Put(k, [files[k] EXCEPT !.clip = None]) /\ Begins(k, FALSE)
  /\ UNCHANGED <<up, dir, assembler, classifier, rebuild, bounds, steady>>

AfterForgetting == [meta |-> "review", analysis |-> "review", review |-> "idle"]  \* fault
After == [meta |-> "analysis", analysis |-> "review", review |-> "idle"]

\* A sidecar that cannot be removed does not stop the rest.
UnlinkSidecar(r) ==
  /\ up /\ request[r].at \in DOMAIN After
  /\ LET k    == request[r].key
         at   == request[r].at
         last == at = "review"
         f    == [files[k] EXCEPT ![at] = None]
     IN  /\ request' = [request EXCEPT ![r] = IF last THEN NoRequest
                                              ELSE [@ EXCEPT !.at = After[at]]]
         /\ UNCHANGED <<assembler, classifier>>
         /\ \/ /\ Put(k, f) /\ UNCHANGED faults
               /\ IF last THEN Ends(k, f, FALSE) ELSE UNCHANGED <<mixed, broken>>
            \/ /\ f # files[k] /\ Fault /\ UNCHANGED <<files, touched>>
               /\ IF last THEN Ends(k, files[k], TRUE)
                  ELSE mixed' = mixed \union {k} /\ UNCHANGED broken
  /\ UNCHANGED <<up, dir, rebuild, jobs, swaps, steady>>

-----------------------------------------------------------------------------
(* The classifier: analyze_clip, and _write_analysis_sidecar at its end    *)

ReadClip ==
  /\ classifier = NoClip
  /\ \E k \in Keys :
       /\ None \notin {files[k].clip, files[k].meta} /\ files[k].analysis = None
       /\ classifier' = [key |-> k, job |-> files[k].clip]
       /\ Begins(k, FALSE)
  /\ UNCHANGED <<up, dir, files, assembler, request, rebuild, bounds, steady, touched>>

WriteVerdict ==
  /\ classifier # NoClip
  /\ classifier' = NoClip /\ UNCHANGED <<assembler, request>>
  /\ LET k == classifier.key
         f == [files[k] EXCEPT !.analysis = classifier.job]
     IN  Put(k, f) /\ Ends(k, f, FALSE)
  /\ UNCHANGED <<up, dir, rebuild, bounds, steady>>

-----------------------------------------------------------------------------
(* rebuild_index                                                           *)

\* _iter_metadata globs once ...
BeginRebuild ==
  /\ rebuild = NoRebuild
  /\ rebuild' = [at |-> "checking", dir |-> dir, entries |-> {},
                 todo |-> {n \in Names : files[<<dir, n>>].meta # None}]
  /\ UNCHANGED <<up, dir, files, assembler, request, classifier, bounds, ghosts>>

Item == <<rebuild.dir, Min(rebuild.todo)>>
StopAtOrphan ==                                      \* fault: break for continue
  rebuild' = [rebuild EXCEPT !.at = "checking", !.todo = {}]
Skip == rebuild' = [rebuild EXCEPT !.at = "checking", !.todo = @ \ {Min(@)}]

\* ... and for each file looks for the clip, then reads the metadata.
CheckClip ==
  /\ rebuild.at = "checking" /\ rebuild.todo # {}
  /\ IF files[Item].clip = None THEN Skip ELSE rebuild' = [rebuild EXCEPT !.at = "reading"]
  /\ UNCHANGED <<up, dir, files, assembler, request, classifier, bounds, ghosts>>

ReadMetadata ==
  /\ rebuild.at = "reading"
  /\ IF files[Item].meta = None THEN Skip
     ELSE rebuild' = [rebuild EXCEPT !.at = "checking", !.todo = @ \ {Min(@)},
                                     !.entries = @ \union {files[Item].meta}]
  /\ UNCHANGED <<up, dir, files, assembler, request, classifier, bounds, ghosts>>

\* The index replaces the one before it.
WriteIndex ==
  /\ rebuild.at = "checking" /\ rebuild.todo = {}
  /\ rebuild' = NoRebuild /\ touched' = {}
  /\ UNCHANGED <<up, dir, files, assembler, request, classifier, bounds, steady, mixed, broken>>

-----------------------------------------------------------------------------
(* Settings, crashes and starts                                            *)

Swap ==
  /\ up /\ swaps < MaxSwaps /\ swaps' = swaps + 1
  /\ dir' \in Dirs \ {dir} /\ steady' = FALSE
  /\ UNCHANGED <<up, files, assembler, request, classifier, rebuild, jobs, faults,
                 touched, mixed, broken>>

Crash ==
  /\ up /\ Fault
  /\ up' = FALSE
  /\ assembler' = NoJob /\ request' = [r \in Requests |-> NoRequest]
  /\ UNCHANGED classifier
  /\ broken' = broken \union {k \in Keys \cap Busy : Torn(files[k])}
  /\ mixed' = mixed \cap Busy'
  /\ UNCHANGED <<dir, files, rebuild, jobs, swaps, steady, touched>>

LeaveTempFiles(fs, d) == fs                           \* fault: no clean-up

\* _cleanup_orphaned_temp_files
CleanUp(fs, d) ==
  [k \in Keys |-> IF k[1] = d THEN [fs[k] EXCEPT !.temp = None] ELSE fs[k]]

Start ==
  /\ ~up /\ up' = TRUE
  /\ files' = CleanUp(files, dir) /\ steady' = TRUE
  /\ UNCHANGED <<dir, assembler, request, classifier, rebuild, bounds, touched, mixed, broken>>

-----------------------------------------------------------------------------
ProcessJob ==
  TakeJob \/ Assemble \/ Assembled \/ AssemblyFails \/ Rename \/ RenameFails
    \/ WriteMetadata

Next ==
  \/ ProcessJob
  \/ \E r \in Requests : Resolve(r) \/ WriteReview(r) \/ UnlinkClip(r) \/ UnlinkSidecar(r)
  \/ ReadClip \/ WriteVerdict
  \/ BeginRebuild \/ CheckClip \/ ReadMetadata \/ WriteIndex
  \/ Swap \/ Crash \/ Start

Spec == Init /\ [][Next]_vars

-----------------------------------------------------------------------------
(* Properties *)

\* Whoever deletes, reviews, classifies or replaces a clip in between: at rest
\* its metadata, verdict and review are its own, and a deleted clip leaves none
\* of them behind, unless two operations overlapped on it (routes.py:106), two
\* clips had its name (recorder.py:76), one step failed or the process died
\* between the rename and the metadata (recorder.py:316).
FamilyWhole == \A k \in Keys : Torn(files[k]) => k \in Busy \union broken

\* No file that ffmpeg has not finished gets a clip's name, across failures,
\* crashes and a directory that changes under the job (recorder.py:306).
NoPartialClip == \A k \in Keys : files[k].clip # None => files[k].whole

\* Until the directory changes, the only unfinished file in it is the one the
\* assembler works on: failures and dead processes leave none (pipeline.py:282).
TempsOwned ==
  up /\ steady =>
    \A k \in Keys : k[1] = dir /\ files[k].temp # None =>
      assembler.at \in {"waiting", "renaming"} /\ assembler.temp = k

\* The index about to be written lists exactly the clips with metadata, but for
\* those that changed while it was being collected (rebuild_index.py:25).
IndexExact ==
  rebuild.at = "checking" /\ rebuild.todo = {} =>
    \A n \in Names :
      LET k == <<rebuild.dir, n>>
      IN  k \notin touched =>
            (files[k].meta \in rebuild.entries <=> None \notin {files[k].clip, files[k].meta})
=============================================================================
