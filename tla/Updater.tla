------------------------------ MODULE Updater -------------------------------
(***************************************************************************)
(* update.sh: fetch, fast-forward, reinstall the dependencies and restart  *)
(* every service of the host, each step of which can fail, while systemd   *)
(* respawns services that crash and the operator commits, edits, resets    *)
(* and interrupts.                                                         *)
(*                                                                         *)
(* Commits are numbered as upstream made them.  A service runs the code of *)
(* a commit on the dependencies that were installed when it started.       *)
(***************************************************************************)
EXTENDS Integers, FiniteSets

CONSTANTS
  Cameras,      \* the camera-watcher@ instances of the host
  Classifier,   \* {} or the set of clip-classifier.service
  LastCommit,   \* bound: upstream's commits are 0..LastCommit
  MaxCrashes,   \* bound: services that crash
  None

Units == Cameras \union Classifier

Commits == 0..LastCommit
Mixed   == -1                \* what a pip install that failed leaves

Files   == {"requirements", "requirements-classifier"}
Service == [code : Commits, on : [Files -> Commits \union {Mixed}]]
Results == {"ok", "dirty", "detached", "fetch", "diverged", "install", "restart",
            "interrupted"}

ASSUME UpdaterAssumption ==
  /\ LastCommit \in Nat /\ MaxCrashes \in Nat /\ Cameras \intersect Classifier = {}
  /\ None \notin Results /\ None \notin Service

VARIABLES
  upstream,    \* the newest commit of origin's branch
  head,        \* the commit checked out
  tree,        \* "clean", "dirty", "local" commits or "detached"
  installed,   \* per requirements file, the commit whose packages are there
  running,     \* per unit: its code, and installed when it started
  stage,       \* the script's next step, "idle" outside a run
  noFetch,     \* --no-fetch
  before,      \* BEFORE_COMMIT
  fetched,     \* origin/<branch>, as the last fetch left it
  todo,        \* units the loop has still to restart
  restartFailures,
  result,      \* how the last run ended: None, "ok" or a reason
  atStart,     \* history: running when the last run began
  respawned,   \* history: units systemd has respawned since
  crashes

checkout == <<upstream, head, tree>>
script   == <<stage, noFetch, before, fetched, todo, restartFailures, result>>
history  == <<atStart, respawned>>
vars     == <<checkout, installed, running, script, history, crashes>>

Init ==
  /\ upstream = 0 /\ head = 0 /\ tree = "clean"
  /\ installed = [f \in Files |-> 0]
  /\ running = [u \in Units |-> [code |-> 0, on |-> installed]]
  /\ stage = "idle" /\ noFetch = FALSE /\ before = 0 /\ fetched = 0
  /\ todo = {} /\ restartFailures = 0 /\ result = None
  /\ atStart = running /\ respawned = {} /\ crashes = 0

-----------------------------------------------------------------------------
(* The script                                                              *)

Begin ==
  /\ stage = "idle"
  /\ \E skip \in BOOLEAN :
       noFetch' = skip /\ stage' = "check"
  /\ before' = head /\ result' = None /\ restartFailures' = 0 /\ todo' = {}
  /\ atStart' = running /\ respawned' = {}
  /\ UNCHANGED <<checkout, installed, running, fetched, crashes>>

End(how) == stage' = "idle" /\ result' = how

Goto(next) == stage' = next /\ UNCHANGED result

CheckTree ==
  /\ stage = "check"
  /\ IF tree = "dirty" THEN End("dirty")
     ELSE IF noFetch THEN Goto("install")
     ELSE IF tree = "detached" THEN End("detached")
     ELSE Goto("fetch")
  /\ UNCHANGED <<checkout, installed, running, noFetch, before, fetched, todo,
                 restartFailures, history, crashes>>

Fetch ==
  /\ stage = "fetch"
  /\ \/ fetched' = upstream /\ Goto("merge")
     \/ UNCHANGED fetched /\ End("fetch")
  /\ UNCHANGED <<checkout, installed, running, noFetch, before, todo,
                 restartFailures, history, crashes>>

\* Local commits, and upstream commits that are not under them.
Diverged == tree = "local" /\ fetched # head

\* git merge --ff-only.
Merge ==
  /\ stage = "merge"
  /\ IF Diverged
     THEN UNCHANGED head /\ End("diverged")
     ELSE head' = fetched /\ Goto("install")
  /\ UNCHANGED <<upstream, tree, installed, running, noFetch, before, fetched, todo,
                 restartFailures, history, crashes>>

\* One pip install -r; one that fails may have replaced some packages.
Pip(file, next) ==
  \/ installed' = [installed EXCEPT ![file] = head] /\ Goto(next)
  \/ \E left \in {installed[file], Mixed} :
       installed' = [installed EXCEPT ![file] = left] /\ End("install")

Install ==
  /\ stage = "install"
  /\ Pip("requirements", IF Classifier = {} THEN "list" ELSE "install_classifier")
  /\ UNCHANGED <<checkout, running, noFetch, before, fetched, todo,
                 restartFailures, history, crashes>>

InstallClassifier ==
  /\ stage = "install_classifier"
  /\ Pip("requirements-classifier", "list")
  /\ UNCHANGED <<checkout, running, noFetch, before, fetched, todo,
                 restartFailures, history, crashes>>

ListUnits ==
  /\ stage = "list"
  /\ todo' = Units /\ Goto("restart")
  /\ UNCHANGED <<checkout, installed, running, noFetch, before, fetched,
                 restartFailures, history, crashes>>

Started == [code |-> head, on |-> installed]

\* fault: the cameras are restarted once theirs are installed
RestartableEarly ==
  IF stage = "restart" THEN todo ELSE IF stage = "install_classifier" THEN Cameras ELSE {}
Restartable == IF stage = "restart" THEN todo ELSE {}

\* sudo systemctl restart: done, refused, or the unit is down now.
Restart ==
  /\ \E u \in Restartable :
       /\ todo' = todo \ {u}
       /\ \/ running' = [running EXCEPT ![u] = Started] /\ UNCHANGED restartFailures
          \/ restartFailures' = restartFailures + 1 /\ UNCHANGED running
          \/ restartFailures' = restartFailures + 1 /\ running' = [running EXCEPT ![u] = None]
  /\ UNCHANGED <<checkout, installed, stage, noFetch, before, fetched, result,
                 history, crashes>>

EndAnyway == "ok"                        \* fault: restart failures are only logged
Outcome   == IF restartFailures > 0 THEN "restart" ELSE "ok"

EndRestarts ==
  /\ stage = "restart" /\ todo = {}
  /\ End(Outcome)
  /\ UNCHANGED <<checkout, installed, running, noFetch, before, fetched, todo,
                 restartFailures, history, crashes>>

\* The terminal goes away; pip may have been at work.
Interrupt ==
  /\ stage # "idle" /\ End("interrupted")
  /\ \/ UNCHANGED installed
     \/ \E f \in Files : /\ stage = (IF f = "requirements" THEN "install" ELSE "install_classifier")
                         /\ installed' = [installed EXCEPT ![f] = Mixed]
  /\ UNCHANGED <<checkout, running, noFetch, before, fetched, todo,
                 restartFailures, history, crashes>>

-----------------------------------------------------------------------------
(* Upstream, the operator and systemd                                      *)

Push ==
  /\ upstream < LastCommit /\ upstream' = upstream + 1
  /\ UNCHANGED <<head, tree, installed, running, script, history, crashes>>

\* Edits, local commits and checkouts, none while the script runs.  The code
\* of a local commit goes by the number of the upstream commit it is based on.
Meddle ==
  /\ stage = "idle"
  /\ \E t \in {"clean", "dirty", "local", "detached"} \ {tree} : tree' = t
  /\ UNCHANGED <<upstream, head, installed, running, script, history, crashes>>

\* The recipe a failed install prints; ./update.sh --no-fetch follows.
RollBack ==
  /\ stage = "idle" /\ result = "install"
  /\ head' = before /\ result' = None
  /\ tree' = IF tree = "dirty" THEN "clean" ELSE tree
  /\ UNCHANGED <<upstream, installed, running, stage, noFetch, before, fetched, todo,
                 restartFailures, history, crashes>>

\* A service crashes, or was down, and Restart=on-failure starts it again.
Respawn ==
  /\ crashes < MaxCrashes /\ crashes' = crashes + 1
  /\ \E u \in Units : /\ running' = [running EXCEPT ![u] = Started]
                      /\ respawned' = respawned \union {u}
  /\ UNCHANGED <<checkout, installed, script, atStart>>

Next ==
  \/ Begin \/ CheckTree \/ Fetch \/ Merge \/ Install \/ InstallClassifier
  \/ ListUnits \/ Restart \/ EndRestarts \/ Interrupt
  \/ Push \/ Meddle \/ RollBack \/ Respawn

Spec == Init /\ [][Next]_vars

-----------------------------------------------------------------------------
\* The requirements files whose packages a unit imports.
Needed(u) == IF u \in Classifier THEN Files ELSE {"requirements"}

\* Types of all the variables; a restart loop runs on installed packages.
TypeOK ==
  /\ upstream \in Commits /\ head \in 0..upstream
  /\ tree \in {"clean", "dirty", "local", "detached"}
  /\ installed \in [Files -> Commits \union {Mixed}]
  /\ running \in [Units -> Service \union {None}] /\ atStart \in [Units -> Service \union {None}]
  /\ stage \in {"idle", "check", "fetch", "merge", "install", "install_classifier",
                "list", "restart"}
  /\ noFetch \in BOOLEAN /\ before \in 0..upstream /\ fetched \in 0..upstream
  /\ todo \subseteq Units /\ restartFailures \in Nat
  /\ result \in Results \union {None}
  /\ respawned \subseteq Units /\ crashes \in 0..MaxCrashes
  /\ stage \in {"list", "restart"} =>
       \A u \in Units : \A f \in Needed(u) : installed[f] = head

\* Whatever failed in the runs before it and whatever crashed during it: after
\* a run that ends well, until the next, every service runs the checked out
\* commit on that commit's packages.
CompleteMeansUniform ==
  result = "ok" =>
    \A u \in Units :
      /\ running[u] # None /\ running[u].code = head
      /\ \A f \in Needed(u) : running[u].on[f] = head

\* "Nothing was changed", says every refusal before the install, and a run
\* whose install failed has restarted nothing: each service runs what it ran
\* before, but for those that systemd respawned meanwhile.
FailureRestartsNothing ==
  result \in {"dirty", "detached", "fetch", "diverged", "install"} =>
    /\ result # "install" => head = before
    /\ \A u \in Units \ respawned : running[u] = atStart[u]
=============================================================================
