--------------------------- MODULE SupervisorProofs ---------------------------
(***************************************************************************)
(* Proofs about Supervisor: the types, and that no ffmpeg is left behind.  *)
(* TypeOK and NoOrphan are inductive together: a step that could leave a   *)
(* process running starts where NoOrphan says there is none.               *)
(***************************************************************************)
EXTENDS Supervisor, TLAPS

Inv == TypeOK /\ NoOrphan

\* A backoff is one of those configured, whatever the attempt.
LEMMA BackoffType ==
  ASSUME NEW n \in 0..Len(Backoffs) PROVE Backoffs[Step(n) + 1] \in Nat
<1>1. Backoffs \in Seq(Nat \ {0}) /\ Backoffs # <<>>
  BY SupervisorAssumption
<1>2. Len(Backoffs) \in Nat \ {0}
  BY <1>1
<1>3. Step(n) + 1 \in 1..Len(Backoffs)
  BY <1>2 DEF Step
<1> QED
  BY <1>1, <1>3

LEMMA OlderType ==
  ASSUME NEW limit \in Nat, NEW age \in 0..limit PROVE Older(age, limit) \in 0..limit
BY DEF Older

LEMMA Bounds == OldestAge \in Nat /\ HealthySeconds \in Nat /\ MaxChanges \in Nat
BY SupervisorAssumption DEF OldestAge

LEMMA InitOK == Init => Inv
<1> SUFFICES ASSUME Init PROVE Inv
  OBVIOUS
<1>1. segmentAge = None \/ segmentAge \in 0..OldestAge
  BY Bounds DEF Init
<1>2. Len(Backoffs) \in Nat
  BY SupervisorAssumption
<1>3. /\ runAge \in 0..HealthySeconds /\ attempt \in 0..Len(Backoffs) /\ waiting \in Nat
      /\ settings \in 0..MaxChanges /\ procSettings \in 0..settings
  BY <1>2, Bounds DEF Init
<1>4. /\ pc = "deciding" /\ proc = "none" /\ published = FALSE
      /\ {polled, connected, stopping, applying, protected} \subseteq BOOLEAN
      /\ camera \in {"up", "silent", "down"}
  BY DEF Init
<1> QED
  BY <1>1, <1>3, <1>4 DEF TypeOK, NoOrphan, Inv

\* The supervisor thread: each step that leaves or enters _run_once.
LEMMA SuperviseKeeps == Inv /\ Supervise => Inv'
<1> SUFFICES ASSUME Inv, Supervise PROVE Inv'
  OBVIOUS
<1> USE DEF Inv
<1>0. Len(Backoffs) \in Nat /\ HealthySeconds \in Nat
  BY SupervisorAssumption
<1>1. CASE BeginRun
  BY <1>1, <1>0 DEF BeginRun, TypeOK, NoOrphan, retryVars, configVars, worldVars
<1>2. CASE Spawn
  BY <1>2 DEF Spawn, TypeOK, NoOrphan, retryVars, configVars, worldVars
<1>3. CASE Publish
  BY <1>3 DEF Publish, TypeOK, NoOrphan, retryVars, configVars, worldVars
<1>4. CASE Poll
  <2>1. /\ proc' \in {"none", "connecting", "streaming", "exiting", "exited"}
        /\ pc' \in {"watching", "reaping"} /\ {polled, connected}' \subseteq BOOLEAN
    BY <1>4 DEF Poll, Terminate, Alive, TypeOK
  <2>2. UNCHANGED <<published, runAge, attempt, waiting, configVars, procSettings, worldVars>>
    BY <1>4 DEF Poll
  <2>3. published
    BY <1>4 DEF Poll, TypeOK
  <2> QED
    BY <2>1, <2>2, <2>3 DEF TypeOK, NoOrphan, configVars, worldVars
<1>5. CASE Reap
  BY <1>5 DEF Reap, Wait, TypeOK, NoOrphan, retryVars, configVars, worldVars
<1>6. CASE EndRun
  <2>1. UNCHANGED <<published, runAge, polled, configVars, proc, procSettings, worldVars>>
    BY <1>6 DEF EndRun
  <2>2. /\ pc' \in {"returned", "backoff"}
        /\ attempt' \in 0..Len(Backoffs) /\ waiting' \in Nat /\ connected' \in BOOLEAN
    <3>1. CASE stopping
      BY <1>6, <3>1 DEF EndRun, retryVars, TypeOK
    <3>2. CASE ~stopping
      <4> DEFINE tries == IF runAge >= HealthySeconds THEN 0 ELSE attempt
      <4>1. tries \in 0..Len(Backoffs)
        BY <1>0 DEF TypeOK
      <4>2. /\ connected' = FALSE /\ waiting' = Backoffs[Step(tries) + 1] /\ pc' = "backoff"
            /\ attempt' = IF tries < Len(Backoffs) THEN tries + 1 ELSE tries
        BY <1>6, <3>2 DEF EndRun
      <4>3. attempt' \in 0..Len(Backoffs)
        BY <4>1, <4>2, <1>0
      <4> QED
        BY <4>1, <4>2, <4>3, BackoffType
    <3> QED
      BY <3>1, <3>2
  <2>3. ~published /\ proc = "none"
    BY <1>6 DEF EndRun, TypeOK, NoOrphan
  <2> QED
    BY <2>1, <2>2, <2>3 DEF TypeOK, NoOrphan, configVars, worldVars
<1>7. CASE WakeUp
  BY <1>7 DEF WakeUp, TypeOK, NoOrphan, configVars, worldVars
<1> QED
  BY <1>1, <1>2, <1>3, <1>4, <1>5, <1>6, <1>7 DEF Supervise

\* The other threads, the camera and ffmpeg: none of them moves the supervisor,
\* and none makes a process of none.
LEMMA WorldKeeps ==
  Inv /\ (ChangeSettings \/ Restart \/ Stop \/ PruneLast \/ Protect \/ Unprotect
            \/ CameraChanges \/ NewSegment \/ ProcExit) => Inv'
<1> USE DEF Inv
<1>1. Inv /\ ChangeSettings => Inv'
  <2> SUFFICES ASSUME Inv, ChangeSettings PROVE Inv'
    OBVIOUS
  <2>1. settings' \in 0..MaxChanges /\ procSettings' \in 0..settings' /\ applying' \in BOOLEAN
    BY Bounds DEF ChangeSettings, TypeOK
  <2>2. UNCHANGED <<threadVars, stopping, proc, worldVars>>
    BY DEF ChangeSettings
  <2> QED
    BY <2>1, <2>2 DEF TypeOK, NoOrphan, threadVars, retryVars, worldVars
<1>2. Inv /\ (Restart \/ Stop) => Inv'
  <2> SUFFICES ASSUME Inv, Restart \/ Stop PROVE Inv'
    OBVIOUS
  <2>1. /\ proc' \in {"none", "connecting", "streaming", "exiting", "exited"}
        /\ proc = "none" => proc' = "none"
    BY DEF Restart, Stop, TellProcess, Terminate, Alive, TypeOK
  <2>2. UNCHANGED <<threadVars, settings, procSettings, worldVars>>
    BY DEF Restart, Stop
  <2>3. {applying, stopping}' \subseteq BOOLEAN
    BY DEF Restart, Stop, TypeOK
  <2> QED
    BY <2>1, <2>2, <2>3 DEF TypeOK, NoOrphan, threadVars, retryVars, worldVars
<1>3. Inv /\ (PruneLast \/ Protect \/ Unprotect \/ CameraChanges) => Inv'
  <2> SUFFICES ASSUME Inv, PruneLast \/ Protect \/ Unprotect \/ CameraChanges PROVE Inv'
    OBVIOUS
  <2>1. /\ segmentAge' = None \/ segmentAge' = segmentAge
        /\ protected' \in BOOLEAN /\ camera' \in {"up", "silent", "down"}
    BY DEF PruneLast, Protect, Unprotect, CameraChanges, TypeOK
  <2>2. UNCHANGED <<threadVars, configVars, proc, procSettings>>
    BY DEF PruneLast, Protect, Unprotect, CameraChanges
  <2> QED
    BY <2>1, <2>2 DEF TypeOK, NoOrphan, threadVars, retryVars, configVars
<1>4. Inv /\ (NewSegment \/ ProcExit) => Inv'
  BY Bounds DEF NewSegment, ProcExit, Alive, TypeOK, NoOrphan, threadVars, retryVars, configVars
<1> QED
  BY <1>1, <1>2, <1>3, <1>4

LEMMA TickKeeps == Inv /\ Tick => Inv'
<1> SUFFICES ASSUME Inv, Tick PROVE Inv'
  OBVIOUS
<1> USE DEF Inv
<1>1. UNCHANGED <<pc, published, attempt, connected, configVars, proc, procSettings,
                  camera, protected>>
  BY DEF Tick
<1>2. polled' = FALSE /\ runAge' \in 0..HealthySeconds
  BY OlderType, Bounds DEF Tick, TypeOK
<1>3. segmentAge' = None \/ segmentAge' \in 0..OldestAge
  BY OlderType, Bounds DEF Tick, TypeOK
<1>4. waiting' \in Nat
  BY DEF Tick, TypeOK
<1> QED
  BY <1>1, <1>2, <1>3, <1>4 DEF TypeOK, NoOrphan, configVars

LEMMA NextKeeps == Inv /\ [Next]_vars => Inv'
<1> SUFFICES ASSUME Inv, [Next]_vars PROVE Inv'
  OBVIOUS
<1>1. CASE UNCHANGED vars
  BY <1>1 DEF Inv, vars, threadVars, retryVars, configVars, worldVars, TypeOK, NoOrphan
<1> QED
  BY <1>1, SuperviseKeeps, WorldKeeps, TickKeeps DEF Next

THEOREM InvAlways == Spec => []Inv
BY InitOK, NextKeeps, PTL DEF Spec

\* _process is set exactly while the supervisor watches or reaps its process,
\* and every other variable has its type.
THEOREM SupervisorTypeCorrect == Spec => []TypeOK
BY InvAlways, PTL DEF Inv

\* No ffmpeg runs once _supervise has returned, or between two runs: whatever
\* the backoffs and limits are, and wherever stop, restart, a stall, an exit or
\* the pruner fall.
THEOREM NeverOrphaned == Spec => []NoOrphan
BY InvAlways, PTL DEF Inv
===============================================================================
