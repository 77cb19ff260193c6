---------------------------- MODULE UpdaterProofs ----------------------------
(***************************************************************************)
(* Proofs about Updater, for every host: any set of cameras, with or       *)
(* without the classifier, any number of commits, crashes and runs.        *)
(***************************************************************************)
EXTENDS Updater, TLAPS

Uniform(u) ==
  /\ running[u] # None /\ running[u].code = head
  /\ \A f \in Needed(u) : running[u].on[f] = head

InstalledHead == \A u \in Units : \A f \in Needed(u) : installed[f] = head

Untouched == \A u \in Units \ respawned : running[u] = atStart[u]

Types ==
  /\ head \in Commits /\ upstream \in Commits /\ before \in Commits /\ fetched \in Commits
  /\ installed \in [Files -> Commits \union {Mixed}]
  /\ running \in [Units -> Service \union {None}]
  /\ restartFailures \in Nat
  /\ result \in Results => stage = "idle"

\* What a run that gets as far as the restarts has established, and keeps
\* after a good end although services crash.
Progress ==
  /\ stage = "install_classifier" => installed["requirements"] = head
  /\ stage \in {"list", "restart"} \/ result = "ok" => InstalledHead
  /\ stage = "restart" /\ restartFailures = 0 => \A u \in Units \ todo : Uniform(u)
  /\ result = "ok" => \A u \in Units : Uniform(u)

\* What a run that has not got there has left alone.
Restraint ==
  /\ stage \in {"check", "fetch", "merge"} => head = before
  /\ stage \in {"check", "fetch", "merge", "install", "install_classifier", "list"} => Untouched
  /\ result \in {"dirty", "detached", "fetch", "diverged"} => head = before /\ Untouched
  /\ result = "install" => Untouched

IInv == Types /\ Progress /\ Restraint

LEMMA NeededFiles == \A u \in Units : Needed(u) \subseteq Files
  BY DEF Needed, Files

LEMMA StartedInService == ASSUME Types PROVE Started \in Service /\ Started # None
  BY UpdaterAssumption DEF Types, Started, Service

\* A service that has just started on installed packages is uniform.
LEMMA StartedUniform ==
  ASSUME Types, InstalledHead, NEW u \in Units, running'[u] = Started, head' = head
  PROVE  Uniform(u)'
<1>1. Started # None /\ Started.code = head /\ Started.on = installed
  BY StartedInService DEF Started
<1>2. \A f \in Needed(u) : installed[f] = head
  BY DEF InstalledHead
<1>3. Needed(u)' = Needed(u)
  BY DEF Needed
<1> QED
  BY <1>1, <1>2, <1>3 DEF Uniform

LEMMA InitIInv == Init => IInv
  BY UpdaterAssumption DEF Init, IInv, Types, Progress, Restraint, Commits, Files, Service,
     Results, Mixed

\* A step that changes neither the code nor the services keeps what the
\* services are known to be.
LEMMA KeptUniform ==
  ASSUME head' = head, NEW u, running'[u] = running[u]
  PROVE  Uniform(u)' <=> Uniform(u)
  BY DEF Uniform, Needed

LEMMA KeptServices ==
  ASSUME UNCHANGED <<head, running, installed, atStart, respawned>>
  PROVE  /\ InstalledHead' <=> InstalledHead
         /\ Untouched' <=> Untouched
         /\ \A u \in Units : Uniform(u)' <=> Uniform(u)
<1>1. \A u \in Units : Uniform(u)' <=> Uniform(u)
  BY KeptUniform
<1>2. InstalledHead' <=> InstalledHead
  BY DEF InstalledHead, Needed
<1>3. Untouched' <=> Untouched
  BY DEF Untouched
<1> QED
  BY <1>1, <1>2, <1>3

LEMMA NextIInv == IInv /\ [Next]_vars => IInv'
<1> SUFFICES ASSUME IInv, [Next]_vars PROVE IInv'
  OBVIOUS
<1> USE DEF IInv
<1>1. CASE Begin
  <2>1. Types'
    BY <1>1, UpdaterAssumption DEF Begin, Types, checkout, history, Results
  <2>2. Progress'
    BY <1>1, UpdaterAssumption DEF Begin, Progress, Results
  <2>3. Restraint'
    BY <1>1, UpdaterAssumption DEF Begin, Restraint, Untouched, checkout, Results
  <2> QED
    BY <2>1, <2>2, <2>3
<1>2. CASE CheckTree
  <2>0. UNCHANGED <<head, running, installed, atStart, respawned>>
    BY <1>2 DEF CheckTree, checkout, history
  <2>1. Types'
    BY <1>2 DEF CheckTree, Types, checkout, history, End, Goto, Results
  <2>2. Progress'
    BY <1>2, UpdaterAssumption DEF CheckTree, Types, Progress, checkout, End, Goto, Results
  <2>3. Restraint'
    BY <1>2, <2>0, KeptServices DEF CheckTree, Types, Restraint, End, Goto, Results
  <2> QED
    BY <2>1, <2>2, <2>3
<1>3. CASE Fetch
  <2>0. UNCHANGED <<head, running, installed, atStart, respawned>>
    BY <1>3 DEF Fetch, checkout, history
  <2>1. Types'
    BY <1>3 DEF Fetch, Types, checkout, history, End, Goto, Results
  <2>2. Progress'
    BY <1>3 DEF Fetch, Types, Progress, End, Goto, Results
  <2>3. Restraint'
    BY <1>3, <2>0, KeptServices DEF Fetch, Types, Restraint, End, Goto, Results
  <2> QED
    BY <2>1, <2>2, <2>3
<1>4. CASE Merge
  <2>1. Types'
    BY <1>4 DEF Merge, Types, history, End, Goto, Results
  <2>2. Progress'
    BY <1>4 DEF Merge, Types, Progress, End, Goto, Results
  <2>3. Untouched' <=> Untouched
    BY <1>4 DEF Merge, history, Untouched
  <2>4. Restraint'
    BY <1>4, <2>3 DEF Merge, Types, Restraint, End, Goto, Results
  <2> QED
    BY <2>1, <2>2, <2>4
<1>5. CASE Install
  <2>0. stage = "install" /\ UNCHANGED <<head, running, atStart, respawned, restartFailures>>
    BY <1>5 DEF Install, checkout, history
  <2>1. \/ /\ installed' = [installed EXCEPT !["requirements"] = head] /\ UNCHANGED result
           /\ stage' = IF Classifier = {} THEN "list" ELSE "install_classifier"
        \/ /\ \E left \in {installed["requirements"], Mixed} :
                installed' = [installed EXCEPT !["requirements"] = left]
           /\ stage' = "idle" /\ result' = "install"
    BY <1>5 DEF Install, Pip, Goto, End
  <2>2. Types'
    BY <1>5, <2>0, <2>1 DEF Install, Types, checkout, Files, Results
  <2>3. stage' = "idle" \/ installed'["requirements"] = head
    BY <2>1 DEF Types, Files
  <2>4. stage' = "list" => InstalledHead'
    BY <2>0, <2>1, <2>3 DEF InstalledHead, Needed, Units
  <2>5. result # "ok"
    BY <2>0 DEF Types, Results
  <2>6. Progress'
    BY <2>0, <2>1, <2>3, <2>4, <2>5 DEF Progress
  <2>7. Restraint'
    BY <2>0, <2>1 DEF Types, Restraint, Untouched, Results
  <2> QED
    BY <2>2, <2>6, <2>7
<1>6. CASE InstallClassifier
  <2> DEFINE file == "requirements-classifier"
  <2>0. /\ stage = "install_classifier"
        /\ UNCHANGED <<head, running, atStart, respawned, restartFailures>>
    BY <1>6 DEF InstallClassifier, checkout, history
  <2>1. \/ /\ installed' = [installed EXCEPT ![file] = head] /\ UNCHANGED result
           /\ stage' = "list"
        \/ /\ \E left \in {installed[file], Mixed} :
                installed' = [installed EXCEPT ![file] = left]
           /\ stage' = "idle" /\ result' = "install"
    BY <1>6 DEF InstallClassifier, Pip, Goto, End
  <2>2. Types'
    BY <1>6, <2>0, <2>1 DEF InstallClassifier, Types, checkout, Files, Results
  <2>3. stage' = "list" => \A f \in Files : installed'[f] = head
    BY <2>0, <2>1 DEF Types, Progress, Files
  <2>4. stage' = "list" => InstalledHead'
    BY <2>0, <2>3 DEF InstalledHead, Needed, Files
  <2>5. result # "ok"
    BY <2>0 DEF Types, Results
  <2>6. Progress'
    BY <2>0, <2>1, <2>4, <2>5 DEF Progress
  <2>7. Restraint'
    BY <2>0, <2>1 DEF Types, Restraint, Untouched, Results
  <2> QED
    BY <2>2, <2>6, <2>7
<1>7. CASE ListUnits
  <2>0. UNCHANGED <<head, running, installed, atStart, respawned>>
    BY <1>7 DEF ListUnits, checkout, history
  <2>1. Types'
    BY <1>7 DEF ListUnits, Types, checkout, Goto
  <2>2. Progress'
    BY <1>7, <2>0, KeptServices DEF ListUnits, Types, Progress, Goto, Results
  <2>3. Restraint'
    BY <1>7, <2>0, KeptServices DEF ListUnits, Types, Restraint, Goto, Results
  <2> QED
    BY <2>1, <2>2, <2>3
<1>8. CASE Restart
  <2>0. /\ stage = "restart"
        /\ UNCHANGED <<head, installed, atStart, respawned, stage, result>>
    BY <1>8 DEF Restart, Restartable, checkout, history
  <2>1. PICK u \in todo :
          /\ todo' = todo \ {u}
          /\ \/ running' = [running EXCEPT ![u] = Started] /\ UNCHANGED restartFailures
             \/ restartFailures' = restartFailures + 1 /\ UNCHANGED running
             \/ restartFailures' = restartFailures + 1 /\ running' = [running EXCEPT ![u] = None]
    BY <1>8 DEF Restart, Restartable
  <2>2. Types'
    BY <1>8, <2>0, <2>1, StartedInService DEF Restart, Restartable, Types, checkout, history
  <2>3. InstalledHead'
    BY <2>0 DEF Progress, InstalledHead, Needed
  <2>4. ASSUME restartFailures' = 0, NEW v \in Units \ todo' PROVE Uniform(v)'
    <3>1. restartFailures = 0 /\ running' = [running EXCEPT ![u] = Started]
      BY <2>1, <2>4 DEF Types
    <3>2. CASE v = u
      BY <2>0, <3>1, <3>2, StartedUniform DEF Types, Progress
    <3>3. CASE v # u
      BY <2>0, <2>1, <3>1, <3>3, KeptUniform DEF Types, Progress
    <3> QED
      BY <3>2, <3>3
  <2>5. result # "ok" /\ result # "install"
          /\ result \notin {"dirty", "detached", "fetch", "diverged"}
    BY <2>0 DEF Types, Results
  <2>6. Progress'
    BY <2>0, <2>3, <2>4, <2>5 DEF Progress
  <2>7. Restraint'
    BY <2>0, <2>5 DEF Restraint
  <2> QED
    BY <2>2, <2>6, <2>7
<1>9. CASE EndRestarts
  <2>0. UNCHANGED <<head, running, installed, atStart, respawned>>
    BY <1>9 DEF EndRestarts, checkout, history
  <2>1. Types'
    BY <1>9 DEF EndRestarts, Outcome, Types, checkout, End
  <2>2. /\ stage = "restart" /\ todo = {} /\ stage' = "idle"
        /\ result' = IF restartFailures > 0 THEN "restart" ELSE "ok"
    BY <1>9 DEF EndRestarts, Outcome, End
  <2>3. result' = "ok" => restartFailures = 0
    BY <2>2 DEF Types
  <2>4. Progress'
    BY <2>0, <2>2, <2>3, KeptServices DEF Progress
  <2>5. Restraint'
    BY <2>2 DEF Restraint
  <2> QED
    BY <2>1, <2>4, <2>5
<1>10. CASE Interrupt
  <2>1. Types'
    BY <1>10 DEF Interrupt, Types, checkout, End, Files
  <2>2. stage' = "idle" /\ result' = "interrupted"
    BY <1>10 DEF Interrupt, End
  <2>3. Progress' /\ Restraint'
    BY <2>2 DEF Progress, Restraint
  <2> QED
    BY <2>1, <2>3
<1>11. CASE Push \/ Meddle
  <2>0. UNCHANGED <<head, running, installed, script, history>>
    BY <1>11 DEF Push, Meddle
  <2>1. Types'
    BY <1>11, UpdaterAssumption DEF Push, Meddle, Types, Commits, script
  <2>2. Progress' /\ Restraint'
    BY <2>0, KeptServices, KeptUniform DEF Progress, Restraint, script, history
  <2> QED
    BY <2>1, <2>2
<1>12. CASE RollBack
  <2>1. Types'
    BY <1>12, UpdaterAssumption DEF RollBack, Types
  <2>2. stage' = "idle" /\ result' = None
    BY <1>12 DEF RollBack
  <2>3. Progress' /\ Restraint'
    BY <2>2, UpdaterAssumption DEF Progress, Restraint, Results
  <2> QED
    BY <2>1, <2>3
<1>13. CASE Respawn
  <2>0. UNCHANGED <<head, installed, script, atStart, before>>
    BY <1>13 DEF Respawn, checkout, script
  <2>1. PICK u \in Units : /\ running' = [running EXCEPT ![u] = Started]
                           /\ respawned' = respawned \union {u}
    BY <1>13 DEF Respawn
  <2>2. Types'
    BY <1>13, <2>0, <2>1, StartedInService DEF Respawn, Types, checkout, script
  <2>3. InstalledHead' <=> InstalledHead
    BY <2>0 DEF InstalledHead, Needed
  <2>4. ASSUME InstalledHead, NEW v \in Units, Uniform(v) \/ v = u PROVE Uniform(v)'
    BY <2>0, <2>1, <2>4, StartedUniform, KeptUniform DEF Types
  <2>5. Progress'
    BY <2>0, <2>3, <2>4 DEF Progress, script
  <2>6. Untouched => Untouched'
    BY <2>0, <2>1 DEF Types, Untouched
  <2>7. Restraint'
    BY <2>0, <2>6 DEF Restraint, script
  <2> QED
    BY <2>2, <2>5, <2>7
<1>14. CASE UNCHANGED vars
  <2>0. UNCHANGED <<head, running, installed, script, history>>
    BY <1>14 DEF vars, checkout
  <2>1. Types'
    BY <1>14 DEF vars, checkout, script, Types
  <2>2. Progress' /\ Restraint'
    BY <2>0, KeptServices, KeptUniform DEF Progress, Restraint, script, history
  <2> QED
    BY <2>1, <2>2
<1> QED
  BY <1>1, <1>2, <1>3, <1>4, <1>5, <1>6, <1>7, <1>8, <1>9, <1>10, <1>11, <1>12, <1>13,
     <1>14 DEF Next

LEMMA Invariance == Spec => []IInv
<1>1. Init => IInv
  BY InitIInv
<1>2. IInv /\ [Next]_vars => IInv'
  BY NextIInv
<1> QED
  BY <1>1, <1>2, PTL DEF Spec

\* An update that reports success leaves every service of the host on the
\* checked out commit and on that commit's packages, and so it stays until the
\* next run, whatever crashes (update.sh:146-185).
THEOREM CompleteUniform == Spec => []CompleteMeansUniform
<1>1. IInv => CompleteMeansUniform
  BY DEF IInv, Progress, Uniform, CompleteMeansUniform
<1> QED
  BY <1>1, Invariance, PTL

\* A run that refuses to start or cannot fetch or fast-forward has changed
\* neither the checkout nor a service, and one whose install failed has
\* restarted nothing (update.sh:61-144).
THEOREM FailuresHarmless == Spec => []FailureRestartsNothing
<1>1. IInv => FailureRestartsNothing
  BY DEF IInv, Restraint, Untouched, FailureRestartsNothing
<1> QED
  BY <1>1, Invariance, PTL

LEMMA TypeInit == Init => TypeOK
<1> SUFFICES ASSUME Init PROVE TypeOK
  OBVIOUS
<1>1. Types
  BY InitIInv DEF IInv
<1>2. /\ upstream \in Commits /\ head \in 0..upstream /\ before \in 0..upstream
      /\ fetched \in 0..upstream /\ tree = "clean" /\ stage = "idle" /\ noFetch = FALSE
      /\ todo = {} /\ respawned = {} /\ result = None /\ crashes \in 0..MaxCrashes
      /\ atStart = running
  BY UpdaterAssumption DEF Init, Commits
<1> QED
  BY <1>1, <1>2 DEF TypeOK, Types

\* What the conjunct of TypeOK about the restart loop says is in Progress; the
\* others need only the types.
LEMMA TypeNext == TypeOK /\ IInv /\ IInv' /\ [Next]_vars => TypeOK'
<1> SUFFICES ASSUME TypeOK, IInv, IInv', [Next]_vars PROVE TypeOK'
  OBVIOUS
<1>1. stage' \in {"list", "restart"} =>
        \A u \in Units : \A f \in Needed(u)' : installed'[f] = head'
  BY DEF IInv, Progress, InstalledHead
<1>2. /\ upstream' \in Commits /\ head' \in 0..upstream' /\ before' \in 0..upstream'
      /\ fetched' \in 0..upstream' /\ tree' \in {"clean", "dirty", "local", "detached"}
  <2>1. CASE Push
    BY <2>1, UpdaterAssumption DEF Push, TypeOK, Commits, script
  <2>2. CASE Begin \/ CheckTree \/ Fetch \/ Merge \/ RollBack
    BY <2>2, UpdaterAssumption
       DEF Begin, CheckTree, Fetch, Merge, RollBack, TypeOK, Commits, checkout
  <2>3. CASE Install \/ InstallClassifier \/ ListUnits \/ Restart \/ EndRestarts \/ Interrupt
               \/ Respawn \/ UNCHANGED vars
    BY <2>3 DEF Install, InstallClassifier, ListUnits, Restart, EndRestarts, Interrupt, Respawn,
                vars, TypeOK, Commits, checkout, script
  <2>4. CASE Meddle
    BY <2>4 DEF Meddle, TypeOK, script
  <2> QED
    BY <2>1, <2>2, <2>3, <2>4 DEF Next
<1>3. /\ installed' \in [Files -> Commits \union {Mixed}]
      /\ running' \in [Units -> Service \union {None}] /\ restartFailures' \in Nat
  BY DEF IInv, Types
<1>4. /\ stage' \in {"idle", "check", "fetch", "merge", "install", "install_classifier",
                     "list", "restart"}
      /\ noFetch' \in BOOLEAN /\ todo' \subseteq Units /\ result' \in Results \union {None}
  <2>1. CASE Begin \/ CheckTree \/ Fetch \/ Merge
    BY <2>1 DEF Begin, CheckTree, Fetch, Merge, TypeOK, End, Goto, Results
  <2>2. CASE Install \/ InstallClassifier
    BY <2>2 DEF Install, InstallClassifier, Pip, TypeOK, End, Goto, Results
  <2>3. CASE ListUnits \/ Restart \/ EndRestarts \/ Interrupt
    BY <2>3 DEF ListUnits, Restart, Restartable, EndRestarts, Outcome, Interrupt, TypeOK, End,
                Goto, Results
  <2>4. CASE Push \/ Meddle \/ RollBack \/ Respawn \/ UNCHANGED vars
    BY <2>4 DEF Push, Meddle, RollBack, Respawn, vars, TypeOK, script
  <2> QED
    BY <2>1, <2>2, <2>3, <2>4 DEF Next
<1>5. /\ atStart' \in [Units -> Service \union {None}]
      /\ respawned' \subseteq Units /\ crashes' \in 0..MaxCrashes
  <2>1. CASE Begin
    BY <2>1 DEF Begin, TypeOK
  <2>2. CASE Respawn
    BY <2>2, UpdaterAssumption DEF Respawn, TypeOK
  <2>3. CASE CheckTree \/ Fetch \/ Merge \/ Install \/ InstallClassifier \/ ListUnits
               \/ Restart \/ EndRestarts \/ Interrupt
    BY <2>3 DEF CheckTree, Fetch, Merge, Install, InstallClassifier, ListUnits, Restart,
                EndRestarts, Interrupt, TypeOK, history
  <2>4. CASE Push \/ Meddle \/ RollBack \/ UNCHANGED vars
    BY <2>4 DEF Push, Meddle, RollBack, vars, TypeOK, history
  <2> QED
    BY <2>1, <2>2, <2>3, <2>4 DEF Next
<1> QED
  BY <1>1, <1>2, <1>3, <1>4, <1>5 DEF TypeOK

\* Every variable has its type, and a run restarts services only once all that
\* they need is installed.
THEOREM UpdaterTypeCorrect == Spec => []TypeOK
<1>1. TypeOK /\ IInv /\ IInv' /\ [Next]_vars => TypeOK'
  BY TypeNext
<1> QED
  BY <1>1, TypeInit, Invariance, PTL DEF Spec
=============================================================================
