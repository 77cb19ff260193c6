------------------------ MODULE RecordingSystemProofs ------------------------
(***************************************************************************)
(* Theorems of the recorder (R!), of the segment cache (C!), and of the    *)
(* system that implements both, for every value of the constants.  The     *)
(* components' theorems are about every behaviour of their own             *)
(* specifications; their inductive invariants are then part of the         *)
(* system's, and their next-state lemmas its proof, once each of its steps *)
(* is known to be one of theirs.                                           *)
(***************************************************************************)
EXTENDS RecordingSystem, SequenceTheorems, WellFoundedInduction, TLAPS

\* The assumptions on the constants, in the terms of both components.
LEMMA Assumed ==
  /\ R!RecorderAssumption /\ R!NoneAssumption
  /\ C!SegmentAssumption /\ C!KeepAssumption
  /\ Overlap <= PreBuffer + MaxChunk
BY RecorderAssumption, NoneAssumption, SegmentAssumption, SystemAssumption
   DEF RecorderAssumption, NoneAssumption, SegmentAssumption, SystemAssumption,
       R!RecorderAssumption, R!NoneAssumption, C!SegmentAssumption,
       Window, Job, R!Window, R!Job

\* The state has the same properties in the components' own terms.
LEMMA SameProperties ==
  /\ R!ActiveStartsExact <=> ActiveStartsExact
  /\ R!ProtectionCoversLive <=> ProtectionCoversLive
  /\ R!MotionCovered <=> MotionCovered
  /\ R!NothingLostAcrossCut <=> NothingLostAcrossCut
  /\ C!ClaimedFootageKept <=> ClaimedFootageKept
  /\ C!FileBeingWrittenKept <=> FileBeingWrittenKept
<1>1. /\ \A x : R!ClaimOf(x) = ClaimOf(x)
      /\ \A t : R!Covered(t) <=> Covered(t)
      /\ R!PostOwed = PostOwed
  BY DEF R!ClaimOf, ClaimOf, R!Covered, Covered, R!InClosed, InClosed, R!PostOwed, PostOwed
<1>2. R!LiveClaims = LiveClaims /\ R!RollClaim = RollClaim
  BY <1>1 DEF R!LiveClaims, LiveClaims, R!OpenClaim, OpenClaim, R!QueuedClaims, QueuedClaims,
     R!BusyClaim, BusyClaim, R!RollClaim, RollClaim
<1>3. /\ R!ActiveStartsExact <=> ActiveStartsExact
      /\ R!ProtectionCoversLive <=> ProtectionCoversLive
  BY <1>2 DEF R!ActiveStartsExact, ActiveStartsExact, R!ProtectionCoversLive,
     ProtectionCoversLive
<1>4. /\ R!MotionCovered <=> MotionCovered
      /\ R!NothingLostAcrossCut <=> NothingLostAcrossCut
  BY <1>1 DEF R!MotionCovered, MotionCovered, R!NothingLostAcrossCut, NothingLostAcrossCut
<1>5. /\ C!ClaimedFootageKept <=> ClaimedFootageKept
      /\ C!FileBeingWrittenKept <=> FileBeingWrittenKept
  BY DEF C!ClaimedFootageKept, ClaimedFootageKept, C!Excess, Excess, C!FileBeingWrittenKept,
     FileBeingWrittenKept
<1> QED
  BY <1>3, <1>4, <1>5

-----------------------------------------------------------------------------
(* The recorder.  The job queue as a set of claims.                        *)

LEMMA AppendClaims ==
  ASSUME NEW q \in Seq(R!Job), NEW j \in R!Job
  PROVE  R!QueuedClaims(Append(q, j)) = R!QueuedClaims(q) \union {R!ClaimOf(j)}
<1>1. DOMAIN q = 1..Len(q) /\ Len(q) \in Nat
  OBVIOUS
<1>2. DOMAIN Append(q, j) = 1..(Len(q) + 1)
  OBVIOUS
<1>3. \A i \in 1..Len(q) : Append(q, j)[i] = q[i]
  OBVIOUS
<1>4. Append(q, j)[Len(q) + 1] = j
  OBVIOUS
<1> QED
  BY <1>1, <1>2, <1>3, <1>4 DEF R!QueuedClaims

LEMMA TailClaims ==
  ASSUME NEW q \in Seq(R!Job), q # <<>>
  PROVE  R!QueuedClaims(q) = R!QueuedClaims(Tail(q)) \union {R!ClaimOf(Head(q))}
<1>1. DOMAIN q = 1..Len(q) /\ Len(q) \in Nat \ {0}
  BY EmptySeq
<1>2. DOMAIN Tail(q) = 1..(Len(q) - 1)
  BY <1>1
<1>3. \A i \in 1..(Len(q) - 1) : Tail(q)[i] = q[i + 1]
  BY <1>1
<1>4. Head(q) = q[1]
  OBVIOUS
<1>5. ASSUME NEW i \in 1..Len(q)
      PROVE  i = 1 \/ \E k \in 1..(Len(q) - 1) : q[i] = Tail(q)[k]
  <2>1. CASE i # 1
    <3> i - 1 \in 1..(Len(q) - 1) /\ q[i] = Tail(q)[i - 1]
      BY <1>1, <1>3, <2>1
    <3> QED
      OBVIOUS
  <2> QED
    BY <2>1
<1>6. R!QueuedClaims(q) \subseteq R!QueuedClaims(Tail(q)) \union {R!ClaimOf(Head(q))}
  BY <1>1, <1>2, <1>4, <1>5 DEF R!QueuedClaims
<1>7. R!QueuedClaims(Tail(q)) \union {R!ClaimOf(Head(q))} \subseteq R!QueuedClaims(q)
  <2>1. \A i \in 1..(Len(q) - 1) : i + 1 \in 1..Len(q)
    BY <1>1
  <2>2. 1 \in 1..Len(q)
    BY <1>1
  <2> QED
    BY <1>1, <1>2, <1>3, <1>4, <2>1, <2>2 DEF R!QueuedClaims
<1> QED
  BY <1>6, <1>7

-----------------------------------------------------------------------------
(* The recorder's types                                                    *)

LEMMA EarliestType ==
  ASSUME NEW claims, claims \subseteq R!Claim, NEW p \in R!Earliest(claims)
  PROVE  /\ R!IsTime(p)
         /\ claims = {} => p = None
         /\ \A c \in claims : p # None /\ p <= c.start
<1>1. CASE claims = {}
  BY <1>1 DEF R!Earliest, R!IsTime
<1>2. CASE claims # {}
  <2>1. p \in R!Starts(claims) /\ \A t \in R!Starts(claims) : p <= t
    BY <1>2 DEF R!Earliest
  <2>2. PICK c \in claims : p = c.start
    BY <2>1 DEF R!Starts
  <2>3. p \in Int
    BY <2>2 DEF R!Claim
  <2> QED
    BY <1>2, <2>1, <2>3, Assumed DEF R!NoneAssumption, R!Starts, R!IsTime
<1> QED
  BY <1>1, <1>2 DEF R!IsTime

LEMMA JobOfType ==
  ASSUME NEW w \in R!Window, NEW end \in Int
  PROVE  /\ R!JobOf(w, end) \in R!Job
         /\ R!JobOf(w, end).id = w.id
         /\ R!JobOf(w, end).start = w.start
         /\ R!JobOf(w, end).end >= end
         /\ R!JobOf(w, end).end >= w.lastFrame
BY DEF R!JobOf, R!Later, R!Window, R!Job

LEMMA TypeInit == R!Init => R!TypeOK
BY Assumed DEF R!RecorderAssumption, R!NoneAssumption, R!Init, R!TypeOK, R!IsTime,
   R!Workers

\* A step of handle_frame, for any integer timestamp.
LEMMA TypeHandleFrame ==
  ASSUME R!TypeOK, NEW ts \in Int, NEW motion \in BOOLEAN, R!HandleFrame(ts, motion)
  PROVE  R!TypeOK'
<1> USE Assumed DEF R!RecorderAssumption, R!NoneAssumption
<1>0. /\ frameTs' \in Int /\ motionSeen' \subseteq Int
      /\ frameThread = "ready" /\ UNCHANGED <<now, processing, phase>>
  BY DEF R!HandleFrame, R!TypeOK
<1>1. CASE R!IgnoreFrame(motion)
  BY <1>0, <1>1 DEF R!IgnoreFrame, R!TypeOK, R!IsTime, R!claimVars
<1>2. CASE R!OpenWindow(ts, motion)
  <2>1. window' \in R!Window /\ nextId' \in Nat /\ lastMotion' \in Int
        /\ eventStart' \in Int
    BY <1>2 DEF R!OpenWindow, R!WindowStart, R!TypeOK, R!Window
  <2>2. activeStarts' \subseteq R!Claim
    BY <1>2 DEF R!OpenWindow, R!WindowStart, R!TypeOK, R!RegisterActiveStart, R!Claim
  <2>3. R!IsTime(protectedSince')
    BY <1>2, <2>2, EarliestType DEF R!OpenWindow, R!WindowStart, R!RegisterActiveStart
  <2>4. UNCHANGED <<frameThread, jobs, closed>>
    BY <1>2 DEF R!OpenWindow, R!WindowStart
  <2> QED
    BY <1>0, <2>1, <2>2, <2>3, <2>4 DEF R!TypeOK, R!IsTime
<1>3. CASE R!FinishEvent(ts, motion)
  <2>1. window \in R!Window /\ lastMotion \in Int
    BY <1>3 DEF R!FinishEvent, R!EventEnd, R!TypeOK, R!IsTime
  <2>2. R!JobOf(window, lastMotion + PostBuffer) \in R!Job
    BY <2>1, JobOfType
  <2>3. jobs' \in Seq(R!Job) /\ closed' \subseteq R!Job
    BY <1>3, <2>2 DEF R!FinishEvent, R!EventEnd, R!EnqueueAssembly, R!TypeOK, R!IsTime
  <2> QED
    BY <1>0, <1>3, <2>3 DEF R!FinishEvent, R!EventEnd, R!TypeOK, R!IsTime, R!claimVars
<1>4. CASE R!Accumulate(ts, motion)
  <2>1. window' \in R!Window /\ lastMotion' \in Int
    BY <1>4 DEF R!Accumulate, R!TypeOK, R!IsTime, R!Window
  <2>2. /\ frameThread' \in {"ready", "rolling"}
        /\ activeStarts' \subseteq R!Claim
        /\ R!IsTime(protectedSince')
    <3>1. CASE ts - window.chunkStart >= MaxChunk
      <4>1. frameThread' = "rolling" /\ R!RegisterActiveStart(nextId, ts - Overlap)
        BY <1>4, <3>1 DEF R!Accumulate
      <4>2. activeStarts' \subseteq R!Claim
        BY <4>1 DEF R!RegisterActiveStart, R!TypeOK, R!Claim
      <4> QED
        BY <4>1, <4>2, EarliestType DEF R!RegisterActiveStart
    <3>2. CASE ~(ts - window.chunkStart >= MaxChunk)
      BY <1>4, <3>2 DEF R!Accumulate, R!claimVars, R!TypeOK, R!IsTime
    <3> QED
      BY <3>1, <3>2
  <2>3. UNCHANGED <<nextId, jobs, eventStart, closed>>
    BY <1>4 DEF R!Accumulate
  <2> QED
    BY <1>0, <2>1, <2>2, <2>3 DEF R!TypeOK, R!IsTime
<1> QED
  BY <1>1, <1>2, <1>3, <1>4 DEF R!HandleFrame

LEMMA TypeNext == R!TypeOK /\ [R!Next]_R!vars => R!TypeOK'
<1> SUFFICES ASSUME R!TypeOK, [R!Next]_R!vars PROVE R!TypeOK'
  OBVIOUS
<1> USE Assumed DEF R!RecorderAssumption, R!NoneAssumption
<1>1. ASSUME NEW ts \in R!FrameTimes, NEW motion \in BOOLEAN, R!HandleFrame(ts, motion)
      PROVE  R!TypeOK'
  <2>1. ts \in Int
    BY DEF R!FrameTimes, R!TypeOK, R!IsTime
  <2> QED
    BY <1>1, <2>1, TypeHandleFrame
<1>2. CASE R!RollChunk
  <2>1. window \in R!Window /\ window # None /\ lastMotion # None
    BY <1>2 DEF R!RollChunk, R!NextChunk, R!FullChunk, R!TypeOK
  <2>2. window' \in R!Window /\ nextId' \in Nat /\ lastMotion' = lastMotion
    BY <1>2, <2>1 DEF R!RollChunk, R!NextChunk, R!FullChunk, R!TypeOK, R!Window
  <2>3. R!JobOf(window, frameTs) \in R!Job
    BY <1>2, <2>1, JobOfType DEF R!TypeOK
  <2>4. jobs' \in Seq(R!Job) /\ closed' \subseteq R!Job
    BY <1>2, <2>3 DEF R!RollChunk, R!NextChunk, R!FullChunk, R!EnqueueAssembly, R!TypeOK
  <2> QED
    BY <1>2, <2>1, <2>2, <2>4 DEF R!RollChunk, R!NextChunk, R!FullChunk, R!TypeOK, R!IsTime,
       R!claimVars
<1>3. CASE R!TakeJob
  <2>1. Head(jobs) \in R!Job /\ Tail(jobs) \in Seq(R!Job)
    BY <1>3, HeadTailProperties DEF R!TakeJob, R!TypeOK, R!IsTime
  <2> QED
    BY <1>3, <2>1 DEF R!TakeJob, R!TypeOK, R!frameVars, R!claimVars, R!history, R!Workers
<1>4. ASSUME NEW w \in R!Workers, R!ReleaseJob(w)
      PROVE  R!TypeOK'
  <2>1. activeStarts' \subseteq R!Claim
    BY <1>4 DEF R!ReleaseJob, R!ReleaseActiveStart, R!TypeOK, R!IsTime
  <2>2. R!IsTime(protectedSince')
    BY <1>4, <2>1, EarliestType DEF R!ReleaseJob, R!ReleaseActiveStart
  <2> QED
    BY <1>4, <2>1, <2>2 DEF R!ReleaseJob, R!TypeOK, R!frameVars, R!history
<1>5. CASE R!FlushOnShutdown
  <2>1. CASE window = None
    BY <1>5, <2>1 DEF R!FlushOnShutdown, R!TypeOK, R!IsTime, R!claimVars
  <2>2. CASE window # None
    <3>1. window \in R!Window /\ R!JobOf(window, window.lastFrame) \in R!Job
      BY <2>2, JobOfType DEF R!TypeOK, R!Window
    <3> QED
      BY <1>5, <2>2, <3>1 DEF R!FlushOnShutdown, R!TypeOK, R!IsTime, R!claimVars
  <2> QED
    BY <2>1, <2>2
<1>6. CASE R!SetAssemblerStop
  BY <1>6 DEF R!SetAssemblerStop, R!TypeOK, R!frameVars, R!claimVars, R!history
<1>7. CASE R!Tick
  BY <1>7 DEF R!Tick, R!TypeOK, R!frameVars, R!claimVars, R!jobVars, R!history
<1>8. CASE R!Finished \/ UNCHANGED R!vars
  BY <1>8 DEF R!Finished, R!TypeOK, R!vars, R!frameVars, R!claimVars, R!jobVars, R!history
<1> QED
  BY <1>1, <1>2, <1>3, <1>4, <1>5, <1>6, <1>7, <1>8 DEF R!Next

\* Every reachable state of the recorder has its type.
THEOREM TypeCorrect == R!Spec => []R!TypeOK
BY TypeInit, TypeNext, PTL DEF R!Spec

-----------------------------------------------------------------------------
(* Protection.  The claims of different windows are told apart by the      *)
(* windows' numbers, so releasing one leaves the others in place.          *)

\* No two live windows have the same number, nor the next one's.
IdsDistinct ==
  /\ window # None =>
       /\ window.id < nextId
       /\ \A i \in DOMAIN jobs : jobs[i].id # window.id
       /\ \A w \in R!Workers : processing[w] # None => processing[w].id # window.id
  /\ \A i \in DOMAIN jobs :
       /\ jobs[i].id < nextId
       /\ \A k \in DOMAIN jobs : i # k => jobs[i].id # jobs[k].id
       /\ \A w \in R!Workers : processing[w] # None => processing[w].id # jobs[i].id
  /\ \A w \in R!Workers : processing[w] # None => processing[w].id < nextId
  /\ processing["assembler"] # None /\ processing["main"] # None =>
       processing["assembler"].id # processing["main"].id

\* What the threads' positions say about each other's state.
Phases ==
  /\ frameThread = "rolling" => window # None /\ phase = "running"
  /\ phase = "running" => processing["main"] = None
  /\ phase # "running" => window = None

ProtectsEarliest == protectedSince \in R!Earliest(activeStarts)

ProtectionInv == IdsDistinct /\ Phases /\ R!ActiveStartsExact /\ ProtectsEarliest

LEMMA ProtectionInit == R!Init => ProtectionInv
BY DEF R!Init, ProtectionInv, IdsDistinct, Phases, R!ActiveStartsExact, ProtectsEarliest,
       R!Earliest, R!LiveClaims, R!RollClaim, R!OpenClaim, R!QueuedClaims, R!BusyClaim, R!Workers

\* A frame opens a window, closes it, extends it or passes by; only the one
\* that opens a window and the one that starts a roll touch the claims.
LEMMA ProtectionHandleFrame ==
  ASSUME R!TypeOK, ProtectionInv,
         NEW ts \in Int, NEW motion \in BOOLEAN, R!HandleFrame(ts, motion)
  PROVE  ProtectionInv'
<1> USE Assumed DEF R!NoneAssumption
<1>0. /\ phase = "running" /\ frameThread = "ready" /\ frameTs' = ts
      /\ UNCHANGED <<processing, phase>>
      /\ IdsDistinct /\ Phases /\ activeStarts = R!LiveClaims /\ ProtectsEarliest
  BY DEF R!HandleFrame, ProtectionInv, R!ActiveStartsExact, R!RollClaim
<1>1. CASE R!IgnoreFrame(motion)
  <2>1. UNCHANGED <<frameThread, window, nextId, activeStarts, protectedSince, jobs>>
    BY <1>1 DEF R!IgnoreFrame, R!claimVars
  <2> QED
    BY <1>0, <2>1 DEF ProtectionInv, IdsDistinct, Phases, R!ActiveStartsExact,
       ProtectsEarliest, R!LiveClaims, R!RollClaim, R!OpenClaim, R!BusyClaim
<1>2. CASE R!OpenWindow(ts, motion)
  <2>1. /\ window = None /\ window' # None
        /\ window'.id = nextId /\ window'.start = ts - PreBuffer
        /\ nextId' = nextId + 1 /\ nextId \in Nat
        /\ UNCHANGED <<frameThread, jobs>>
    <3>1. window' \in R!Window
      BY <1>2, Assumed DEF R!RecorderAssumption, R!OpenWindow, R!WindowStart,
         R!TypeOK, R!Window
    <3> QED
      BY <1>2, <3>1 DEF R!OpenWindow, R!WindowStart, R!TypeOK
  <2>2. IdsDistinct'
    <3>1. /\ \A i \in DOMAIN jobs : jobs[i].id < nextId
          /\ \A w \in R!Workers : processing[w] # None => processing[w].id < nextId
      BY <1>0 DEF IdsDistinct
    <3>2. /\ \A i \in DOMAIN jobs : jobs[i] \in R!Job
          /\ \A w \in R!Workers : processing[w] # None => processing[w] \in R!Job
      BY DEF R!TypeOK
    <3>3. \A n \in Nat : n < nextId => n < nextId + 1 /\ n # nextId
      BY <2>1
    <3> QED
      BY <1>0, <2>1, <3>1, <3>2, <3>3 DEF IdsDistinct, R!Job
  <2>3. Phases' /\ ProtectsEarliest'
    BY <1>0, <1>2, <2>1 DEF Phases, R!OpenWindow, R!WindowStart, R!RegisterActiveStart,
       ProtectsEarliest
  <2>4. R!ActiveStartsExact'
    <3>1. activeStarts' = activeStarts \union {R!ClaimOf(window')}
      BY <1>2, <2>1 DEF R!OpenWindow, R!WindowStart, R!RegisterActiveStart, R!ClaimOf
    <3> QED
      BY <1>0, <2>1, <3>1 DEF R!ActiveStartsExact, R!LiveClaims, R!RollClaim, R!OpenClaim,
         R!BusyClaim
  <2> QED
    BY <2>2, <2>3, <2>4 DEF ProtectionInv
<1>3. CASE R!FinishEvent(ts, motion)
  <2> DEFINE job == R!JobOf(window, lastMotion + PostBuffer)
  <2>1. /\ window # None /\ window \in R!Window /\ window' = None
        /\ job \in R!Job /\ job.id = window.id /\ job.start = window.start
        /\ jobs' = Append(jobs, job)
        /\ UNCHANGED <<frameThread, nextId, activeStarts, protectedSince>>
    <3>1. window \in R!Window /\ lastMotion \in Int
      BY <1>3 DEF R!FinishEvent, R!EventEnd, R!TypeOK, R!IsTime
    <3> QED
      BY <1>3, <3>1, JobOfType, Assumed DEF R!RecorderAssumption, R!FinishEvent,
         R!EventEnd, R!EnqueueAssembly, R!claimVars
  <2> HIDE DEF job
  <2>2. IdsDistinct'
    <3>1. /\ DOMAIN jobs' = 1..(Len(jobs) + 1) /\ DOMAIN jobs = 1..Len(jobs)
          /\ Len(jobs) \in Nat
          /\ \A i \in 1..Len(jobs) : jobs'[i] = jobs[i]
          /\ jobs'[Len(jobs) + 1] = job
      BY <2>1 DEF R!TypeOK
    <3>2. \A i \in DOMAIN jobs' : i \in DOMAIN jobs \/ i = Len(jobs) + 1
      BY <3>1
    <3> QED
      BY <1>0, <2>1, <3>1, <3>2, SMTT(40) DEF IdsDistinct
  <2>3. Phases' /\ ProtectsEarliest'
    BY <1>0, <2>1 DEF Phases, ProtectsEarliest
  <2>4. R!ActiveStartsExact'
    <3>1. R!QueuedClaims(jobs') = R!QueuedClaims(jobs) \union {R!ClaimOf(window)}
      BY <2>1, AppendClaims DEF R!TypeOK, R!ClaimOf
    <3> QED
      BY <1>0, <2>1, <3>1 DEF R!ActiveStartsExact, R!LiveClaims, R!RollClaim, R!OpenClaim,
         R!BusyClaim
  <2> QED
    BY <2>2, <2>3, <2>4 DEF ProtectionInv
<1>4. CASE R!Accumulate(ts, motion)
  <2>1. /\ window # None /\ window' # None
        /\ window'.id = window.id /\ window'.start = window.start
        /\ UNCHANGED <<nextId, jobs>>
    <3>1. window' \in R!Window
      BY <1>4 DEF R!Accumulate, R!TypeOK, R!Window
    <3> QED
      BY <1>4, <3>1 DEF R!Accumulate, R!TypeOK, R!Window
  <2>2. IdsDistinct'
    BY <1>0, <2>1 DEF IdsDistinct
  <2>3. Phases'
    BY <1>0, <2>1 DEF Phases
  <2>4. R!LiveClaims' = R!LiveClaims
    BY <1>0, <2>1 DEF R!LiveClaims, R!OpenClaim, R!BusyClaim, R!ClaimOf
  <2>5. R!ActiveStartsExact' /\ ProtectsEarliest'
    <3>1. CASE ts - window.chunkStart >= MaxChunk
      BY <1>0, <1>4, <2>1, <2>4, <3>1
         DEF R!Accumulate, R!RegisterActiveStart, R!ActiveStartsExact, R!RollClaim, ProtectsEarliest
    <3>2. CASE ~(ts - window.chunkStart >= MaxChunk)
      BY <1>0, <1>4, <2>4, <3>2
         DEF R!Accumulate, R!claimVars, R!ActiveStartsExact, R!RollClaim, ProtectsEarliest
    <3> QED
      BY <3>1, <3>2
  <2> QED
    BY <2>2, <2>3, <2>5 DEF ProtectionInv
<1> QED
  BY <1>1, <1>2, <1>3, <1>4 DEF R!HandleFrame

\* Between the halves of a roll both chunks are claimed; the second half
\* turns the registered start into the new window's.
LEMMA ProtectionRollChunk ==
  ASSUME R!TypeOK, ProtectionInv, R!RollChunk
  PROVE  ProtectionInv'
<1> DEFINE job == R!JobOf(window, frameTs)
<1>1. /\ frameThread = "rolling" /\ frameThread' = "ready"
      /\ window # None /\ window \in R!Window /\ phase = "running"
      /\ window' \in R!Window /\ window' # None
      /\ R!ClaimOf(window') = [id |-> nextId, start |-> frameTs - Overlap]
      /\ window'.id = nextId /\ nextId' = nextId + 1 /\ nextId \in Nat
      /\ job \in R!Job /\ job.id = window.id /\ R!ClaimOf(job) = R!ClaimOf(window)
      /\ jobs' = Append(jobs, job)
      /\ UNCHANGED <<frameTs, activeStarts, protectedSince, processing, phase>>
      /\ IdsDistinct /\ Phases /\ R!ActiveStartsExact /\ ProtectsEarliest
  <2>1. frameThread = "rolling" /\ window # None /\ window \in R!Window
        /\ phase = "running"
    BY DEF R!RollChunk, R!NextChunk, R!FullChunk, R!TypeOK, ProtectionInv, Phases
  <2>2. window' \in R!Window /\ window' # None
    BY Assumed DEF R!RecorderAssumption, R!NoneAssumption, R!RollChunk,
       R!NextChunk, R!FullChunk, R!TypeOK, R!Window
  <2>3. frameTs \in Int
    BY DEF R!TypeOK
  <2>4. job \in R!Job /\ job.id = window.id /\ R!ClaimOf(job) = R!ClaimOf(window)
    BY <2>1, <2>3, JobOfType DEF R!ClaimOf
  <2> HIDE DEF job
  <2> QED
    BY <2>1, <2>2, <2>4
       DEF R!RollChunk, R!NextChunk, R!FullChunk, R!EnqueueAssembly, R!claimVars, R!ClaimOf, R!TypeOK, ProtectionInv, job
<1> HIDE DEF job
<1>2. IdsDistinct'
  <2>1. /\ DOMAIN jobs' = 1..(Len(jobs) + 1) /\ DOMAIN jobs = 1..Len(jobs)
        /\ Len(jobs) \in Nat
        /\ \A i \in 1..Len(jobs) : jobs'[i] = jobs[i]
        /\ jobs'[Len(jobs) + 1] = job
    BY <1>1 DEF R!TypeOK
  <2>2. \A i \in DOMAIN jobs' : i \in DOMAIN jobs \/ i = Len(jobs) + 1
    BY <2>1
  <2>3. /\ \A i \in DOMAIN jobs : jobs[i] \in R!Job
        /\ \A w \in R!Workers : processing[w] # None => processing[w] \in R!Job
    BY <2>1 DEF R!TypeOK
  <2>4. \A n \in Nat : n < nextId => n < nextId' /\ n # window'.id
    BY <1>1
  <2>5. /\ window.id \in Nat
        /\ \A i \in DOMAIN jobs : jobs[i].id \in Nat
        /\ \A w \in R!Workers : processing[w] # None => processing[w].id \in Nat
    BY <1>1, <2>3 DEF R!Window, R!Job
  <2>6. /\ window'.id < nextId' /\ job.id < nextId' /\ job.id # window'.id
        /\ \A i \in DOMAIN jobs :
             jobs[i].id < nextId' /\ jobs[i].id # window'.id /\ jobs[i].id # job.id
        /\ \A w \in R!Workers : processing[w] # None =>
             /\ processing[w].id < nextId' /\ processing[w].id # window'.id
             /\ processing[w].id # job.id
    BY <1>1, <2>4, <2>5 DEF IdsDistinct
  <2> QED
    BY <1>1, <2>1, <2>2, <2>6 DEF IdsDistinct
<1>3. Phases' /\ ProtectsEarliest'
  BY <1>1 DEF Phases, ProtectsEarliest
<1>4. R!ActiveStartsExact'
  <2>1. R!QueuedClaims(jobs') = R!QueuedClaims(jobs) \union {R!ClaimOf(window)}
    BY <1>1, AppendClaims DEF R!TypeOK
  <2> QED
    BY <1>1, <2>1 DEF R!ActiveStartsExact, R!LiveClaims, R!RollClaim, R!OpenClaim,
       R!BusyClaim
<1> QED
  BY <1>2, <1>3, <1>4 DEF ProtectionInv

LEMMA ProtectionTakeJob ==
  ASSUME R!TypeOK, ProtectionInv, R!TakeJob
  PROVE  ProtectionInv'
<1>1. /\ processing["assembler"] = None /\ processing'["assembler"] = Head(jobs)
      /\ processing'["main"] = processing["main"]
      /\ Head(jobs) \in R!Job /\ Head(jobs) # None /\ jobs' = Tail(jobs)
      /\ UNCHANGED <<frameTs, frameThread, window, nextId, activeStarts,
                     protectedSince, phase>>
      /\ IdsDistinct /\ Phases /\ R!ActiveStartsExact /\ ProtectsEarliest
  <2>1. Head(jobs) \in R!Job
    BY HeadTailProperties DEF R!TakeJob, R!TypeOK
  <2> QED
    BY <2>1, Assumed DEF R!NoneAssumption, R!TakeJob, R!TypeOK, R!Workers,
       R!frameVars, R!claimVars, ProtectionInv
<1>2. /\ DOMAIN jobs = 1..Len(jobs) /\ DOMAIN jobs' = 1..(Len(jobs) - 1)
      /\ Len(jobs) \in Nat \ {0}
      /\ \A i \in 1..(Len(jobs) - 1) : jobs'[i] = jobs[i + 1]
      /\ Head(jobs) = jobs[1]
  BY <1>1, EmptySeq DEF R!TakeJob, R!TypeOK
<1>3. \A i \in DOMAIN jobs' : i + 1 \in DOMAIN jobs /\ i + 1 # 1
  BY <1>2
<1>4. IdsDistinct'
  <2>1. \A i, k \in DOMAIN jobs' : i # k => i + 1 # k + 1
    BY <1>2
  <2>2. 1 \in DOMAIN jobs
    BY <1>2
  <2>3. \A i \in DOMAIN jobs' :
          /\ jobs'[i].id < nextId
          /\ window # None => jobs'[i].id # window.id
          /\ \A k \in DOMAIN jobs' : i # k => jobs'[i].id # jobs'[k].id
          /\ \A w \in R!Workers : processing[w] # None => processing[w].id # jobs'[i].id
          /\ jobs'[i].id # Head(jobs).id
    BY <1>1, <1>2, <1>3, <2>1, <2>2 DEF IdsDistinct
  <2>4. /\ Head(jobs).id < nextId
        /\ window # None => Head(jobs).id # window.id
        /\ \A w \in R!Workers : processing[w] # None => processing[w].id # Head(jobs).id
    BY <1>1, <1>2, <2>2 DEF IdsDistinct
  <2>5. \A w \in R!Workers : processing'[w] = processing[w] \/ processing'[w] = Head(jobs)
    BY <1>1 DEF R!Workers
  <2> QED
    BY <1>1, <2>3, <2>4, <2>5 DEF IdsDistinct, R!Workers
<1>5. Phases' /\ ProtectsEarliest'
  BY <1>1 DEF Phases, ProtectsEarliest
<1>6. R!ActiveStartsExact'
  <2>1. R!QueuedClaims(jobs) = R!QueuedClaims(jobs') \union {R!ClaimOf(Head(jobs))}
    BY <1>1, TailClaims DEF R!TakeJob, R!TypeOK
  <2> QED
    BY <1>1, <2>1 DEF R!ActiveStartsExact, R!LiveClaims, R!RollClaim, R!OpenClaim,
       R!BusyClaim
<1> QED
  BY <1>4, <1>5, <1>6 DEF ProtectionInv

\* The claim taken out is the released job's and nobody else's.
LEMMA ProtectionReleaseJob ==
  ASSUME R!TypeOK, ProtectionInv, NEW w \in R!Workers, R!ReleaseJob(w)
  PROVE  ProtectionInv'
<1> DEFINE gone == R!ClaimOf(processing[w])
<1>1. /\ processing[w] # None /\ processing[w] \in R!Job
      /\ processing' = [processing EXCEPT ![w] = None]
      /\ activeStarts' = activeStarts \ {gone}
      /\ protectedSince' \in R!Earliest(activeStarts')
      /\ UNCHANGED <<frameTs, frameThread, window, nextId, jobs, phase>>
      /\ IdsDistinct /\ Phases /\ R!ActiveStartsExact
  BY DEF R!ReleaseJob, R!ReleaseActiveStart, R!ClaimOf, R!TypeOK, R!frameVars, ProtectionInv
<1>2. PICK v \in R!Workers : v # w /\ R!Workers = {v, w}
  BY DEF R!Workers
<1>3. processing'[w] = None /\ processing'[v] = processing[v]
  BY <1>1, <1>2 DEF R!TypeOK
<1>4. IdsDistinct'
  BY <1>1, <1>2, <1>3 DEF IdsDistinct, R!Workers
<1>5. Phases' /\ ProtectsEarliest'
  BY <1>1, <1>2, <1>3 DEF Phases, ProtectsEarliest, R!Workers
<1>6. /\ gone \notin R!OpenClaim /\ gone \notin R!QueuedClaims(jobs)
      /\ gone \notin R!BusyClaim(v) /\ gone \notin R!RollClaim
  <2>1. \A n \in Nat : n < nextId => n # nextId
    BY DEF R!TypeOK
  <2>2. gone.id = processing[w].id /\ gone.id \in Nat /\ gone.id < nextId
    BY <1>1 DEF R!ClaimOf, IdsDistinct, R!Job
  <2>3. gone \notin R!OpenClaim
    BY <1>1, <2>2 DEF R!OpenClaim, R!ClaimOf, IdsDistinct
  <2>4. gone \notin R!QueuedClaims(jobs)
    BY <1>1, <2>2 DEF R!QueuedClaims, R!ClaimOf, IdsDistinct
  <2>5. gone \notin R!BusyClaim(v)
    BY <1>1, <1>2, <2>2 DEF R!BusyClaim, R!ClaimOf, IdsDistinct, R!Workers
  <2>6. gone \notin R!RollClaim
    BY <2>1, <2>2 DEF R!RollClaim
  <2> QED
    BY <2>3, <2>4, <2>5, <2>6
<1>7. /\ R!LiveClaims = R!OpenClaim \union R!QueuedClaims(jobs)
                        \union R!BusyClaim(v) \union {gone}
      /\ R!LiveClaims' = R!OpenClaim \union R!QueuedClaims(jobs) \union R!BusyClaim(v)
      /\ R!RollClaim' = R!RollClaim
  <2>1. R!BusyClaim(w) = {gone} /\ R!BusyClaim(w)' = {} /\ R!BusyClaim(v)' = R!BusyClaim(v)
    BY <1>1, <1>3 DEF R!BusyClaim
  <2>2. /\ R!LiveClaims = R!OpenClaim \union R!QueuedClaims(jobs)
                           \union R!BusyClaim(v) \union R!BusyClaim(w)
        /\ R!LiveClaims' = R!OpenClaim' \union R!QueuedClaims(jobs)'
                           \union R!BusyClaim(v)' \union R!BusyClaim(w)'
    BY <1>2 DEF R!LiveClaims, R!Workers
  <2> QED
    BY <1>1, <2>1, <2>2 DEF R!OpenClaim, R!QueuedClaims, R!RollClaim
<1> HIDE DEF gone
<1>8. R!ActiveStartsExact'
  BY <1>1, <1>6, <1>7 DEF R!ActiveStartsExact
<1> QED
  BY <1>4, <1>5, <1>8 DEF ProtectionInv

LEMMA ProtectionFlush ==
  ASSUME R!TypeOK, ProtectionInv, R!FlushOnShutdown
  PROVE  ProtectionInv'
<1>1. /\ phase = "running" /\ phase' = "flushing" /\ frameThread = "ready"
      /\ processing["main"] = None
      /\ UNCHANGED <<frameTs, frameThread, nextId, activeStarts, protectedSince, jobs>>
      /\ IdsDistinct /\ R!ActiveStartsExact /\ ProtectsEarliest
  BY DEF R!FlushOnShutdown, ProtectionInv, Phases, R!claimVars
<1>2. CASE window = None
  <2>1. UNCHANGED <<window, processing>>
    BY <1>2 DEF R!FlushOnShutdown
  <2> QED
    BY <1>1, <1>2, <2>1
       DEF ProtectionInv, IdsDistinct, Phases, R!ActiveStartsExact, ProtectsEarliest,
           R!LiveClaims, R!RollClaim, R!OpenClaim, R!BusyClaim
<1>3. CASE window # None
  <2>1. /\ window' = None
        /\ processing'["main"] \in R!Job /\ processing'["main"] # None
        /\ processing'["main"].id = window.id
        /\ R!ClaimOf(processing'["main"]) = R!ClaimOf(window)
        /\ processing'["assembler"] = processing["assembler"]
    <3>1. window \in R!Window /\ window.lastFrame \in Int
      BY <1>3 DEF R!TypeOK, R!Window
    <3> QED
      BY <1>3, <3>1, JobOfType, Assumed DEF R!NoneAssumption, R!FlushOnShutdown,
         R!TypeOK, R!Workers, R!ClaimOf
  <2>2. IdsDistinct'
    BY <1>1, <1>3, <2>1 DEF IdsDistinct, R!Workers
  <2>3. Phases' /\ ProtectsEarliest'
    BY <1>1, <2>1 DEF Phases, ProtectsEarliest
  <2>4. R!ActiveStartsExact'
    BY <1>1, <1>3, <2>1
       DEF R!ActiveStartsExact, R!LiveClaims, R!RollClaim, R!OpenClaim, R!BusyClaim
  <2> QED
    BY <2>2, <2>3, <2>4 DEF ProtectionInv
<1> QED
  BY <1>2, <1>3

LEMMA ProtectionNext == R!TypeOK /\ ProtectionInv /\ [R!Next]_R!vars => ProtectionInv'
<1> SUFFICES ASSUME R!TypeOK, ProtectionInv, [R!Next]_R!vars PROVE ProtectionInv'
  OBVIOUS
<1>1. ASSUME NEW ts \in R!FrameTimes, NEW motion \in BOOLEAN, R!HandleFrame(ts, motion)
      PROVE  ProtectionInv'
  <2>1. ts \in Int
    BY DEF R!FrameTimes, R!TypeOK
  <2> QED
    BY <1>1, <2>1, ProtectionHandleFrame
<1>2. CASE R!SetAssemblerStop
  BY <1>2 DEF R!SetAssemblerStop, R!frameVars, R!claimVars, ProtectionInv, IdsDistinct,
     Phases, R!ActiveStartsExact, ProtectsEarliest, R!LiveClaims, R!RollClaim, R!OpenClaim,
     R!BusyClaim
<1>3. CASE R!Tick \/ R!Finished \/ UNCHANGED R!vars
  <2>1. UNCHANGED <<R!frameVars, R!claimVars, R!jobVars>>
    BY <1>3 DEF R!Tick, R!Finished, R!vars
  <2> QED
    BY <2>1 DEF R!frameVars, R!claimVars, R!jobVars, ProtectionInv, IdsDistinct, Phases,
       R!ActiveStartsExact, ProtectsEarliest, R!LiveClaims, R!RollClaim, R!OpenClaim, R!BusyClaim
<1> QED
  BY <1>1, <1>2, <1>3, ProtectionRollChunk, ProtectionTakeJob, ProtectionReleaseJob,
     ProtectionFlush DEF R!Next

LEMMA ProtectionInvariant == R!Spec => [](R!TypeOK /\ ProtectionInv)
BY TypeInit, TypeNext, ProtectionInit, ProtectionNext, PTL DEF R!Spec

\* _active_starts always holds exactly the starts of the windows still needed.
THEOREM ActiveStartsAlwaysExact == R!Spec => []ActiveStartsExact
<1>1. R!TypeOK /\ ProtectionInv => ActiveStartsExact
  BY SameProperties DEF ProtectionInv
<1> QED
  BY <1>1, ProtectionInvariant, PTL

\* The cache is always told to protect from the earliest live window on, and
\* nothing when there is none.
THEOREM LiveWindowsProtected == R!Spec => []ProtectionCoversLive
<1>1. R!TypeOK /\ ProtectionInv => R!ProtectionCoversLive
  <2> SUFFICES ASSUME R!TypeOK, ProtectionInv PROVE R!ProtectionCoversLive
    OBVIOUS
  <2>1. /\ activeStarts = {} => protectedSince = None
        /\ \A c \in activeStarts : protectedSince # None /\ protectedSince <= c.start
    BY EarliestType DEF R!TypeOK, ProtectionInv, ProtectsEarliest
  <2>2. R!LiveClaims \subseteq activeStarts
    BY DEF ProtectionInv, R!ActiveStartsExact
  <2>3. R!LiveClaims = {} => activeStarts = {}
    BY DEF ProtectionInv, R!ActiveStartsExact, Phases, R!LiveClaims, R!OpenClaim,
       R!RollClaim
  <2> QED
    BY <2>1, <2>2, <2>3 DEF R!ProtectionCoversLive
<1>2. R!ProtectionCoversLive => ProtectionCoversLive
  BY SameProperties
<1> QED
  BY <1>1, <1>2, ProtectionInvariant, PTL

-----------------------------------------------------------------------------
(* Coverage.  The windows of an event leave no gap from its start on, and  *)
(* every frame with motion belongs to the event in progress or has its     *)
(* whole pre- and post-buffer in closed windows.                           *)

EventInv ==
  /\ window = None <=> eventStart = None
  /\ window # None =>
       /\ lastMotion <= window.lastFrame
       /\ lastMotion <= frameTs
       /\ eventStart + PreBuffer <= frameTs
       /\ \A t \in eventStart..(window.start - 1) : R!InClosed(t)

OfEventInProgress(m) ==
  window # None /\ m <= lastMotion /\ eventStart <= m - PreBuffer

ClosedAround(m) == \A t \in (m - PreBuffer)..(m + R!PostOwed) : R!InClosed(t)

MotionInv == \A m \in motionSeen : OfEventInProgress(m) \/ ClosedAround(m)

CoverageInv == Phases /\ EventInv /\ MotionInv

LEMMA CoverageInit == R!Init => CoverageInv
BY Assumed DEF R!NoneAssumption, R!Init, CoverageInv, Phases, EventInv, MotionInv,
   R!Workers

\* Closed windows stay closed, so what they cover stays covered.
LEMMA ClosedMonotone ==
  ASSUME closed \subseteq closed'
  PROVE  \A t : R!InClosed(t) => R!InClosed(t)'
BY DEF R!InClosed

LEMMA CoverageHandleFrame ==
  ASSUME R!TypeOK, CoverageInv, Phases',
         NEW ts \in Int, ts > frameTs, NEW motion \in BOOLEAN, R!HandleFrame(ts, motion)
  PROVE  CoverageInv'
<1> USE Assumed DEF R!NoneAssumption, R!RecorderAssumption
<1>0. /\ frameTs' = ts /\ frameTs \in Int /\ phase = "running" /\ phase' = phase
      /\ motionSeen' = IF motion THEN motionSeen \union {ts} ELSE motionSeen
      /\ motionSeen \subseteq Int
      /\ R!PostOwed = PostBuffer /\ R!PostOwed' = PostBuffer
  BY DEF R!HandleFrame, R!TypeOK, R!PostOwed
<1>1. CASE R!IgnoreFrame(motion)
  <2>1. UNCHANGED <<window, closed, eventStart, motionSeen>> /\ window = None
    BY <1>0, <1>1 DEF R!IgnoreFrame
  <2>2. EventInv'
    BY <2>1 DEF CoverageInv, EventInv
  <2>3. MotionInv'
    BY <1>0, <2>1 DEF CoverageInv, MotionInv, OfEventInProgress, ClosedAround, R!InClosed
  <2> QED
    BY <2>2, <2>3 DEF CoverageInv
<1>2. CASE R!OpenWindow(ts, motion)
  <2>1. /\ window = None /\ motion /\ closed' = closed
        /\ window' # None /\ window'.start = ts - PreBuffer /\ window'.lastFrame = ts
        /\ lastMotion' = ts /\ eventStart' = ts - PreBuffer
    <3>1. window' \in R!Window
      BY <1>2 DEF R!OpenWindow, R!WindowStart, R!TypeOK, R!Window
    <3> QED
      BY <1>2, <3>1 DEF R!OpenWindow, R!WindowStart
  <2>2. EventInv'
    <3>1. eventStart' # None
      BY <2>1
    <3>2. eventStart'..(window'.start - 1) = {}
      BY <2>1
    <3> QED
      BY <1>0, <2>1, <3>1, <3>2 DEF EventInv
  <2>3. MotionInv'
    <3>1. OfEventInProgress(ts)'
      BY <2>1 DEF OfEventInProgress
    <3>2. ASSUME NEW m \in motionSeen PROVE ClosedAround(m)'
      BY <1>0, <2>1 DEF CoverageInv, MotionInv, OfEventInProgress, ClosedAround, R!InClosed
    <3> QED
      BY <1>0, <2>1, <3>1, <3>2 DEF MotionInv
  <2> QED
    BY <2>2, <2>3 DEF CoverageInv
<1>3. CASE R!FinishEvent(ts, motion)
  <2> DEFINE job == R!JobOf(window, lastMotion + PostBuffer)
  <2>1. /\ window # None /\ window \in R!Window /\ window' = None /\ ~motion
        /\ lastMotion \in Int /\ eventStart \in Int /\ eventStart' = None
        /\ closed' = closed \union {job}
    BY <1>3 DEF R!FinishEvent, R!EventEnd, R!EnqueueAssembly, R!PostBufferExpired, R!TypeOK,
       R!IsTime, CoverageInv, EventInv
  <2>2. job \in R!Job /\ job.start = window.start /\ job.end >= lastMotion + PostBuffer
    BY <2>1, JobOfType
  <2> HIDE DEF job
  <2>3. \A t : R!InClosed(t) => R!InClosed(t)'
    BY <2>1, ClosedMonotone
  <2>4. EventInv'
    BY <2>1 DEF EventInv
  <2>5. ASSUME NEW m \in motionSeen, OfEventInProgress(m) PROVE ClosedAround(m)'
    <3> SUFFICES ASSUME NEW t \in (m - PreBuffer)..(m + PostBuffer) PROVE R!InClosed(t)'
      BY <1>0 DEF ClosedAround
    <3>1. m \in Int /\ t \in Int /\ window.start \in Int /\ job.end \in Int
      BY <1>0, <2>1, <2>2 DEF R!Window, R!Job
    <3>2. CASE t >= window.start
      <4>1. job.start <= t /\ t <= job.end
        BY <1>0, <2>1, <2>2, <2>5, <3>1, <3>2 DEF OfEventInProgress
      <4> QED
        BY <2>1, <4>1 DEF R!InClosed
    <3>3. CASE t < window.start
      <4>1. t \in eventStart..(window.start - 1)
        BY <1>0, <2>1, <2>5, <3>1, <3>3 DEF OfEventInProgress
      <4> QED
        BY <2>1, <2>3, <4>1 DEF CoverageInv, EventInv
    <3> QED
      BY <3>1, <3>2, <3>3
  <2>6. MotionInv'
    BY <1>0, <2>1, <2>3, <2>5 DEF CoverageInv, MotionInv, ClosedAround
  <2> QED
    BY <2>4, <2>6 DEF CoverageInv
<1>4. CASE R!Accumulate(ts, motion)
  <2>1. /\ window # None /\ window' # None /\ closed' = closed
        /\ window'.start = window.start /\ window'.lastFrame = ts
        /\ lastMotion' = (IF motion THEN ts ELSE lastMotion)
        /\ eventStart' = eventStart /\ eventStart \in Int /\ lastMotion \in Int
    <3>1. window' \in R!Window
      BY <1>4 DEF R!Accumulate, R!TypeOK, R!Window
    <3> QED
      BY <1>4, <3>1 DEF R!Accumulate, R!TypeOK, R!IsTime, R!Window, CoverageInv, EventInv
  <2>2. /\ lastMotion <= lastMotion' /\ lastMotion' <= ts
        /\ eventStart + PreBuffer <= ts
    BY <1>0, <2>1 DEF CoverageInv, EventInv
  <2>3. EventInv'
    BY <1>0, <2>1, <2>2 DEF CoverageInv, EventInv, R!InClosed
  <2>4. MotionInv'
    <3>1. motion => OfEventInProgress(ts)'
      BY <1>0, <2>1, <2>2 DEF OfEventInProgress
    <3>2. ASSUME NEW m \in motionSeen PROVE OfEventInProgress(m)' \/ ClosedAround(m)'
      <4>1. m \in Int /\ lastMotion' \in Int
        BY <1>0, <2>1
      <4>2. CASE OfEventInProgress(m)
        BY <2>1, <2>2, <4>1, <4>2 DEF OfEventInProgress
      <4>3. CASE ClosedAround(m)
        BY <1>0, <2>1, <4>3 DEF ClosedAround, R!InClosed
      <4> QED
        BY <4>2, <4>3 DEF CoverageInv, MotionInv
    <3> QED
      BY <1>0, <3>1, <3>2 DEF MotionInv
  <2> QED
    BY <2>3, <2>4 DEF CoverageInv
<1> QED
  BY <1>1, <1>2, <1>3, <1>4 DEF R!HandleFrame

\* The new chunk starts Overlap before the old one ends, so the cut is covered
\* by the old window up to there and by the new one from there on.
LEMMA CoverageRollChunk ==
  ASSUME R!TypeOK, CoverageInv, Phases', R!RollChunk
  PROVE  CoverageInv'
<1> USE Assumed DEF R!NoneAssumption, R!RecorderAssumption
<1> DEFINE job == R!JobOf(window, frameTs)
<1>1. /\ window # None /\ window \in R!Window /\ frameTs \in Int
      /\ window' # None /\ window'.start = frameTs - Overlap
      /\ window'.lastFrame = frameTs
      /\ closed' = closed \union {job}
      /\ lastMotion \in Int /\ eventStart \in Int
      /\ UNCHANGED <<frameTs, lastMotion, eventStart, motionSeen, phase>>
  <2>1. window # None /\ window \in R!Window /\ lastMotion \in Int /\ eventStart \in Int
    BY DEF R!RollChunk, R!NextChunk, R!FullChunk, R!TypeOK, R!IsTime, CoverageInv, EventInv
  <2>2. window' \in R!Window
    BY DEF R!RollChunk, R!NextChunk, R!FullChunk, R!TypeOK, R!Window
  <2> QED
    BY <2>1, <2>2 DEF R!RollChunk, R!NextChunk, R!FullChunk, R!EnqueueAssembly, R!TypeOK
<1>2. job \in R!Job /\ job.start = window.start /\ job.end >= frameTs
  BY <1>1, JobOfType
<1> HIDE DEF job
<1>3. \A t : R!InClosed(t) => R!InClosed(t)'
  BY <1>1, ClosedMonotone
<1>4. ASSUME NEW t \in eventStart..(window'.start - 1) PROVE R!InClosed(t)'
  <2>1. t \in Int /\ t <= frameTs /\ window.start \in Int /\ job.end \in Int
    BY <1>1, <1>2 DEF R!Window, R!Job
  <2>2. CASE t >= window.start
    BY <1>1, <1>2, <2>1, <2>2 DEF R!InClosed
  <2>3. CASE t < window.start
    <3>1. t \in eventStart..(window.start - 1)
      BY <1>1, <2>1, <2>3
    <3> QED
      BY <1>1, <1>3, <3>1 DEF CoverageInv, EventInv
  <2> QED
    BY <2>1, <2>2, <2>3
<1>5. EventInv'
  BY <1>1, <1>4 DEF CoverageInv, EventInv
<1>6. MotionInv'
  BY <1>1, <1>3 DEF CoverageInv, MotionInv, OfEventInProgress, ClosedAround, R!PostOwed
<1> QED
  BY <1>5, <1>6 DEF CoverageInv

\* A shutdown closes the event at its last frame: after every motion, but
\* without the post-buffer.
LEMMA CoverageFlush ==
  ASSUME R!TypeOK, CoverageInv, Phases', R!FlushOnShutdown
  PROVE  CoverageInv'
<1> USE Assumed DEF R!NoneAssumption, R!RecorderAssumption
<1>1. /\ phase = "running" /\ phase' = "flushing" /\ window' = None
      /\ motionSeen' = motionSeen /\ motionSeen \subseteq Int
      /\ R!PostOwed = PostBuffer /\ R!PostOwed' = 0
  BY DEF R!FlushOnShutdown, R!TypeOK, R!PostOwed
<1>2. closed \subseteq closed'
  BY DEF R!FlushOnShutdown
<1>3. \A t : R!InClosed(t) => R!InClosed(t)'
  BY <1>2, ClosedMonotone
<1>4. EventInv'
  BY <1>1 DEF R!FlushOnShutdown, CoverageInv, EventInv
<1>5. ASSUME NEW m \in motionSeen, ClosedAround(m) PROVE ClosedAround(m)'
  <2>1. \A t \in (m - PreBuffer)..m : t \in (m - PreBuffer)..(m + PostBuffer)
    BY <1>1
  <2> QED
    BY <1>1, <1>3, <1>5, <2>1 DEF ClosedAround
<1>6. ASSUME NEW m \in motionSeen, OfEventInProgress(m) PROVE ClosedAround(m)'
  <2> DEFINE job == R!JobOf(window, window.lastFrame)
  <2>1. /\ window # None /\ window \in R!Window /\ lastMotion \in Int
        /\ eventStart \in Int /\ closed' = closed \union {job}
    BY <1>6 DEF OfEventInProgress, R!FlushOnShutdown, R!TypeOK, R!IsTime, CoverageInv,
       EventInv
  <2>2. /\ job \in R!Job /\ job.start = window.start
        /\ job.end >= window.lastFrame /\ window.lastFrame \in Int
    BY <2>1, JobOfType DEF R!Window
  <2> HIDE DEF job
  <2> SUFFICES ASSUME NEW t \in (m - PreBuffer)..m PROVE R!InClosed(t)'
    BY <1>1 DEF ClosedAround
  <2>3. m \in Int /\ t \in Int /\ window.start \in Int /\ job.end \in Int
    BY <1>1, <2>1, <2>2 DEF R!Window, R!Job
  <2>4. t <= job.end /\ t >= eventStart
    BY <1>6, <2>1, <2>2, <2>3 DEF OfEventInProgress, CoverageInv, EventInv
  <2>5. CASE t >= window.start
    BY <2>1, <2>2, <2>4, <2>5 DEF R!InClosed
  <2>6. CASE t < window.start
    <3>1. t \in eventStart..(window.start - 1)
      BY <2>1, <2>3, <2>4, <2>6
    <3> QED
      BY <1>3, <2>1, <3>1 DEF CoverageInv, EventInv
  <2> QED
    BY <2>3, <2>5, <2>6
<1>7. MotionInv'
  BY <1>1, <1>5, <1>6 DEF CoverageInv, MotionInv
<1> QED
  BY <1>4, <1>7 DEF CoverageInv

LEMMA CoverageNext ==
  R!TypeOK /\ ProtectionInv /\ CoverageInv /\ [R!Next]_R!vars => CoverageInv'
<1> SUFFICES ASSUME R!TypeOK, ProtectionInv, CoverageInv, [R!Next]_R!vars PROVE CoverageInv'
  OBVIOUS
<1>1. Phases'
  BY ProtectionNext DEF ProtectionInv
<1>2. ASSUME NEW ts \in R!FrameTimes, NEW motion \in BOOLEAN, R!HandleFrame(ts, motion)
      PROVE  CoverageInv'
  <2>1. ts \in Int /\ ts > frameTs
    BY DEF R!FrameTimes, R!TypeOK
  <2> QED
    BY <1>1, <1>2, <2>1, CoverageHandleFrame
<1>3. CASE R!TakeJob \/ (\E w \in R!Workers : R!ReleaseJob(w)) \/ R!Tick \/ R!Finished
           \/ UNCHANGED R!vars
  <2>1. UNCHANGED <<R!frameVars, phase, R!history>>
    BY <1>3 DEF R!TakeJob, R!ReleaseJob, R!Tick, R!Finished, R!vars, R!jobVars
  <2> QED
    BY <1>1, <2>1 DEF R!frameVars, R!history, CoverageInv, EventInv, MotionInv,
       OfEventInProgress, ClosedAround, R!InClosed, R!PostOwed
<1>4. CASE R!SetAssemblerStop
  <2>1. UNCHANGED <<R!frameVars, R!history>> /\ R!PostOwed' = R!PostOwed
    BY <1>4 DEF R!SetAssemblerStop, R!PostOwed
  <2> QED
    BY <1>1, <2>1 DEF R!frameVars, R!history, CoverageInv, EventInv, MotionInv,
       OfEventInProgress, ClosedAround, R!InClosed
<1> QED
  BY <1>1, <1>2, <1>3, <1>4, CoverageRollChunk, CoverageFlush DEF R!Next

LEMMA CoverageInvariant == R!Spec => [](R!TypeOK /\ CoverageInv)
<1>1. R!Init => R!TypeOK /\ ProtectionInv /\ CoverageInv
  BY TypeInit, ProtectionInit, CoverageInit
<1>2. R!TypeOK /\ ProtectionInv /\ CoverageInv /\ [R!Next]_R!vars
        => (R!TypeOK /\ ProtectionInv /\ CoverageInv)'
  BY TypeNext, ProtectionNext, CoverageNext
<1> QED
  BY <1>1, <1>2, PTL DEF R!Spec

\* The pre- and post-buffer of every frame with motion lie inside the windows.
THEOREM MotionAlwaysCovered == R!Spec => []MotionCovered
<1>1. R!TypeOK /\ CoverageInv => R!MotionCovered
  <2> SUFFICES ASSUME R!TypeOK, CoverageInv, NEW m \in motionSeen,
                      NEW t \in (m - PreBuffer)..(m + R!PostOwed)
               PROVE  R!Covered(t)
    BY DEF R!MotionCovered
  <2>1. CASE ClosedAround(m)
    BY <2>1 DEF ClosedAround, R!Covered
  <2>2. CASE OfEventInProgress(m)
    <3>1. window # None /\ window \in R!Window /\ eventStart \in Int /\ m \in Int
      BY <2>2 DEF OfEventInProgress, R!TypeOK, R!IsTime, CoverageInv, EventInv
    <3>2. t \in Int /\ window.start \in Int /\ eventStart <= t
      BY <2>2, <3>1, Assumed DEF R!RecorderAssumption, OfEventInProgress, R!Window,
         R!PostOwed
    <3>3. t >= window.start \/ t \in eventStart..(window.start - 1)
      BY <3>1, <3>2
    <3> QED
      BY <3>1, <3>3 DEF CoverageInv, EventInv, R!Covered
  <2> QED
    BY <2>1, <2>2 DEF CoverageInv, MotionInv
<1>2. R!MotionCovered => MotionCovered
  BY SameProperties
<1> QED
  BY <1>1, <1>2, CoverageInvariant, PTL

\* The chunks of the event in progress leave no instant of it uncovered.
THEOREM NothingEverLostAcrossCut == R!Spec => []NothingLostAcrossCut
<1>1. R!TypeOK /\ CoverageInv => R!NothingLostAcrossCut
  <2> SUFFICES ASSUME R!TypeOK, CoverageInv, window # None, NEW t \in eventStart..now
               PROVE  R!Covered(t)
    BY DEF R!NothingLostAcrossCut
  <2>1. window \in R!Window /\ eventStart \in Int /\ t \in Int /\ now \in Int
    BY DEF R!TypeOK, R!IsTime, CoverageInv, EventInv
  <2>2. t >= window.start \/ t \in eventStart..(window.start - 1)
    BY <2>1 DEF R!Window
  <2> QED
    BY <2>2 DEF CoverageInv, EventInv, R!Covered
<1>2. R!NothingLostAcrossCut => NothingLostAcrossCut
  BY SameProperties
<1> QED
  BY <1>1, <1>2, CoverageInvariant, PTL

-----------------------------------------------------------------------------
(* The segment cache.  File names                                          *)

LEMMA NameTimeBounds ==
  ASSUME NEW t \in Int
  PROVE  C!NameTime(t) \in Int /\ C!NameTime(t) <= t /\ t < C!NameTime(t) + TicksPerSecond
<1>1. TicksPerSecond \in Nat \ {0}
  BY Assumed DEF C!SegmentAssumption
<1>2. t % TicksPerSecond \in 0..(TicksPerSecond - 1)
  BY <1>1
<1> QED
  BY <1>1, <1>2 DEF C!NameTime

\* prune may stop at the first segment that is too young: no older one can be
\* younger than the cutoff, so breaking there skips nothing it should delete.
LEMMA BreakIsFilter ==
  ASSUME NEW S, S \subseteq Int, NEW r \in S, NEW s \in S, r <= s,
         NEW t \in Int, C!EndsAfter(S, r, t)
  PROVE  C!EndsAfter(S, s, t)
<1>1. CASE r = s
  BY <1>1
<1>2. CASE r < s
  BY <1>2, Assumed DEF C!SegmentAssumption, C!EndsAfter
<1> QED
  BY <1>1, <1>2

-----------------------------------------------------------------------------
(* Its inductive invariant                                                 *)

\* A file holds what came in between its start and the next file's start.
FilesInv ==
  /\ \A s \in DOMAIN files :
       /\ s = C!NameTime(files[s].from)
       /\ files[s].from <= files[s].to /\ files[s].to <= now
       /\ files[s].to - files[s].from <= MaxSegment
  /\ \A s, n \in DOMAIN files : s < n => files[s].to <= files[n].from

\* The file being written is the last one, and it is young: the supervisor
\* kills ffmpeg otherwise.
WritingInv ==
  /\ writing # None =>
       /\ writing \in DOMAIN files
       /\ \A s \in DOMAIN files : s <= writing
       /\ now - writing <= StallLimit + 1 \/ now - writing < TicksPerSecond
  /\ writing = None => \A s \in DOMAIN files : s <= exitAt
  /\ exitAt <= now

\* What the pruner holds, from its read of the protected time to its last
\* unlink, is no threat to the claims made before or since.
ReadInv ==
  prunePc = "read" =>
    /\ pruneReadAt <= now /\ now <= pruneReadAt + MaxPruneDelay
    /\ \A c \in activeStarts :
         \/ pruneProtected # None /\ pruneProtected <= c.start
         \/ c.start >= pruneReadAt - (PreBuffer + MaxLag)

VictimsInv ==
  prunePc = "unlink" =>
    /\ victims \subseteq DOMAIN files
    /\ writing \notin victims
    /\ \A s \in victims :
         /\ files[s].to <= now - CacheKeepSeconds + C!Excess
         /\ \A c \in activeStarts : files[s].to <= c.start + C!Excess

LostInv ==
  /\ lastLost <= now - CacheKeepSeconds + C!Excess
  /\ \A c \in activeStarts : lastLost <= c.start + C!Excess

StreamInv == C!TypeOK /\ FilesInv /\ WritingInv
CacheInv  == /\ StreamInv
             /\ protectedSince \in C!Earliest(activeStarts)
             /\ ReadInv /\ VictimsInv /\ LostInv

-----------------------------------------------------------------------------
(* Names, claims and ends                                                  *)

LEMMA Constants ==
  /\ TicksPerSecond \in Nat \ {0} /\ SegmentSeconds \in Nat
  /\ MinSegment \in Nat /\ MaxSegment \in Nat /\ StallLimit \in Nat
  /\ CacheKeepSeconds \in Nat /\ (PreBuffer + MaxLag) \in Nat /\ MaxPruneDelay \in Nat
  /\ TicksPerSecond <= MinSegment /\ SegmentSeconds <= MaxSegment
  /\ C!Excess \in Int /\ TicksPerSecond - 1 <= C!Excess
  /\ None \notin Int
  BY Assumed DEF C!SegmentAssumption, C!KeepAssumption, C!Excess

\* The earliest claim is at most as late as any other.
LEMMA EarliestIsLowerBound ==
  ASSUME NEW claims, claims \subseteq C!Claim, NEW e \in C!Earliest(claims)
  PROVE  /\ C!IsTime(e)
         /\ \A c \in claims : e # None /\ e <= c.start
<1>1. CASE claims = {}
  BY <1>1 DEF C!Earliest, C!IsTime
<1>2. CASE claims # {}
  <2>1. e \in C!Starts(claims) /\ \A t \in C!Starts(claims) : e <= t
    BY <1>2 DEF C!Earliest
  <2>2. e \in Int
    BY <2>1 DEF C!Starts, C!Claim
  <2>3. \A c \in claims : c.start \in C!Starts(claims)
    BY DEF C!Starts
  <2> QED
    BY <2>1, <2>2, <2>3, Constants DEF C!IsTime
<1> QED
  BY <1>1, <1>2

\* Some claim starts where the footage is protected from.
LEMMA EarliestIsClaimed ==
  ASSUME NEW claims, claims \subseteq C!Claim, NEW e \in C!Earliest(claims), e # None
  PROVE  \E c \in claims : c.start = e
  BY DEF C!Earliest, C!Starts

\* What the code takes for a segment's end is at most Excess too early.
LEMMA RealEnd ==
  ASSUME StreamInv, NEW s \in DOMAIN files, NEW t \in Int,
         ~C!EndsAfter(DOMAIN files, s, t)
  PROVE  files[s].to <= t + C!Excess
<1> DEFINE f == files[s]
<1>1. f.from \in Int /\ f.to \in Int /\ s \in Int /\ DOMAIN files \subseteq Int
  BY DEF StreamInv, C!TypeOK, C!File
<1>2. s = C!NameTime(f.from) /\ f.from < s + TicksPerSecond /\ f.to - f.from <= MaxSegment
  BY <1>1, NameTimeBounds DEF StreamInv, FilesInv
<1>3. CASE ~(s + SegmentSeconds > t)
  BY <1>1, <1>2, <1>3, Constants DEF C!Excess
<1>4. CASE \E n \in DOMAIN files : n > s /\ ~(n > t)
  <2>1. PICK n \in DOMAIN files : n > s /\ ~(n > t)
    BY <1>4
  <2>2. n \in Int /\ files[n].from \in Int /\ n = C!NameTime(files[n].from)
    BY DEF StreamInv, C!TypeOK, C!File, FilesInv
  <2>3. f.to <= files[n].from
    BY <1>1, <2>1, <2>2 DEF StreamInv, FilesInv
  <2>4. files[n].from < n + TicksPerSecond
    BY <2>2, NameTimeBounds
  <2> QED
    BY <1>1, <2>1, <2>2, <2>3, <2>4, Constants
<1> QED
  BY <1>3, <1>4 DEF C!EndsAfter

\* A file begun now has a name of its own, later than all the others.
LEMMA NewNameIsLast ==
  ASSUME StreamInv, C!StartStream \/ C!CutSegment
  PROVE  \A s \in DOMAIN files : s < C!NameTime(now)
<1>1. now \in Int /\ C!NameTime(now) \in Int /\ now < C!NameTime(now) + TicksPerSecond
      /\ DOMAIN files \subseteq Int
  BY NameTimeBounds DEF StreamInv, C!TypeOK
<1>2. CASE C!StartStream
  <2>1. writing = None /\ now >= exitAt + TicksPerSecond /\ exitAt \in Int
    BY <1>2 DEF C!StartStream, StreamInv, C!TypeOK
  <2>2. \A s \in DOMAIN files : s <= exitAt
    BY <2>1 DEF StreamInv, WritingInv
  <2> QED
    BY <1>1, <2>1, <2>2, Constants
<1>3. CASE C!CutSegment
  <2>1. writing # None /\ now - files[writing].from >= MinSegment
    BY <1>3 DEF C!CutSegment
  <2>2. writing \in DOMAIN files /\ \A s \in DOMAIN files : s <= writing
    BY <2>1 DEF StreamInv, WritingInv
  <2>3. files[writing].from \in Int /\ writing <= files[writing].from
    BY <2>2, NameTimeBounds DEF StreamInv, C!TypeOK, FilesInv, C!File
  <2> QED
    BY <1>1, <2>1, <2>2, <2>3, Constants
<1> QED
  BY <1>2, <1>3

-----------------------------------------------------------------------------
(* What the actions do to the files *)

LEMMA FileAdded ==
  ASSUME StreamInv, C!StartStream \/ C!CutSegment
  PROVE  /\ DOMAIN files' = DOMAIN files \union {C!NameTime(now)}
         /\ files' \in [DOMAIN files' -> C!File]
         /\ files'[C!NameTime(now)] = [from |-> now, to |-> now, state |-> "open"]
         /\ \A s \in DOMAIN files :
              files'[s].from = files[s].from /\ files'[s].to = files[s].to
<1> DEFINE n == C!NameTime(now)
<1>1. now \in Int /\ n \in Int /\ files \in [DOMAIN files -> C!File]
  BY NameTimeBounds DEF StreamInv, C!TypeOK
<1>2. n \notin DOMAIN files
  <2>1. DOMAIN files \subseteq Int
    BY DEF StreamInv, C!TypeOK
  <2> QED
    BY <1>1, <2>1, NewNameIsLast
<1>3. C!NewFile \in C!File
  BY <1>1 DEF C!NewFile, C!File
<1>4. CASE C!StartStream
  <2>1. files' = [s \in DOMAIN files \union {n} |-> IF s = n THEN C!NewFile ELSE files[s]]
    BY <1>4 DEF C!StartStream, C!WithNewFile
  <2> HIDE DEF n
  <2> QED
    BY <1>1, <1>2, <1>3, <2>1 DEF C!NewFile, n
<1>5. CASE C!CutSegment
  <2>1. writing \in DOMAIN files
    BY <1>5 DEF C!CutSegment, StreamInv, WritingInv
  <2> DEFINE settled == [files EXCEPT ![writing].state = "closed"]
  <2>2. settled \in [DOMAIN files -> C!File]
    BY <1>1, <2>1 DEF C!File
  <2>3. \A s \in DOMAIN files : settled[s].from = files[s].from /\ settled[s].to = files[s].to
    BY <1>1, <2>1 DEF C!File
  <2>4. files' = [s \in DOMAIN settled \union {n} |-> IF s = n THEN C!NewFile ELSE settled[s]]
    BY <1>5 DEF C!CutSegment, C!WithNewFile
  <2> HIDE DEF n, settled
  <2> QED
    BY <1>1, <1>2, <1>3, <2>2, <2>3, <2>4 DEF C!NewFile, n
<1> QED
  BY <1>4, <1>5

LEMMA FilesKept ==
  ASSUME StreamInv, C!Stall \/ C!ExitStream \/ C!KillStalled
  PROVE  /\ DOMAIN files' = DOMAIN files
         /\ files' \in [DOMAIN files' -> C!File]
         /\ \A s \in DOMAIN files :
              files'[s].from = files[s].from /\ files'[s].to = files[s].to
<1>1. files \in [DOMAIN files -> C!File]
  BY DEF StreamInv, C!TypeOK
<1>2. writing \in DOMAIN files
  BY DEF C!Stall, C!ExitStream, C!KillStalled, StreamInv, WritingInv
<1>3. \/ files' = files
      \/ files' = [files EXCEPT ![writing].state = "closed"]
      \/ files' = [files EXCEPT ![writing].state = "broken"]
  BY DEF C!Stall, C!ExitStream, C!KillStalled, C!Exit
<1> QED
  BY <1>1, <1>2, <1>3 DEF C!File

LEMMA FileGrows ==
  ASSUME StreamInv, C!Tick
  PROVE  /\ DOMAIN files' = DOMAIN files
         /\ files' \in [DOMAIN files' -> C!File]
         /\ \A s \in DOMAIN files :
              /\ files'[s].from = files[s].from
              /\ files'[s].to = IF s = writing /\ flowing THEN now + 1 ELSE files[s].to
<1>1. files \in [DOMAIN files -> C!File] /\ now \in Nat
  BY DEF StreamInv, C!TypeOK
<1>2. CASE writing # None /\ flowing
  <2>1. writing \in DOMAIN files
    BY <1>2 DEF StreamInv, WritingInv
  <2>2. files' = [files EXCEPT ![writing].to = now + 1]
    BY <1>2 DEF C!Tick
  <2> QED
    BY <1>1, <1>2, <2>1, <2>2 DEF C!File
<1>3. CASE ~(writing # None /\ flowing)
  <2>1. files' = files
    BY <1>3 DEF C!Tick
  <2>2. None \notin DOMAIN files
    BY Constants DEF StreamInv, C!TypeOK
  <2> QED
    BY <1>1, <1>3, <2>1, <2>2
<1> QED
  BY <1>2, <1>3

LEMMA FileUnlinked ==
  ASSUME StreamInv, NEW s \in victims, C!Unlink(s)
  PROVE  /\ DOMAIN files' = DOMAIN files \ {s}
         /\ files' \in [DOMAIN files' -> C!File]
         /\ \A r \in DOMAIN files' : files'[r] = files[r]
  BY DEF StreamInv, C!TypeOK, C!Unlink

-----------------------------------------------------------------------------
(* The stream's part of the invariant *)

LEMMA StreamInit == ASSUME C!Init PROVE StreamInv
<1> USE Constants DEF C!Init
<1>1. C!TypeOK
  <2>1. DOMAIN files = {}
    OBVIOUS
  <2>2. files \in [DOMAIN files -> C!File] /\ DOMAIN files \subseteq Int
    BY <2>1
  <2>3. -TicksPerSecond \in Int /\ -CacheKeepSeconds \in Int
    OBVIOUS
  <2> QED
    BY <2>2, <2>3 DEF C!TypeOK, C!IsTime
<1>2. FilesInv /\ WritingInv
  BY DEF FilesInv, WritingInv
<1> QED
  BY <1>1, <1>2 DEF StreamInv

LEMMA StreamAdds ==
  ASSUME StreamInv, C!StartStream \/ C!CutSegment
  PROVE  StreamInv'
<1> DEFINE n == C!NameTime(now)
<1>1. now \in Nat /\ n \in Int /\ n <= now /\ now < n + TicksPerSecond
  BY NameTimeBounds DEF StreamInv, C!TypeOK
<1>2. now' = now /\ writing' = n /\ exitAt' \in {exitAt, -TicksPerSecond}
  BY DEF C!StartStream, C!CutSegment
<1>3. writing' # None /\ exitAt \in Int
  BY <1>1, <1>2, Constants DEF StreamInv, C!TypeOK
<1>4. \A s \in DOMAIN files : s \in Int /\ s < n
  BY NewNameIsLast DEF StreamInv, C!TypeOK
<1>5. C!TypeOK'
  <2>1. flowing' \in BOOLEAN /\ outages' = outages
    BY DEF C!StartStream, C!CutSegment, StreamInv, C!TypeOK
  <2>2. exitAt' \in Int
    BY <1>2, <1>3, Constants
  <2>3. UNCHANGED <<C!claimVars, C!pruneVars>>
    BY DEF C!StartStream, C!CutSegment
  <2>4. DOMAIN files' \subseteq Int /\ files' \in [DOMAIN files' -> C!File]
    BY <1>1, <1>4, FileAdded
  <2> QED
    BY <1>1, <1>2, <1>3, <2>1, <2>2, <2>3, <2>4
    DEF StreamInv, C!TypeOK, C!IsTime, C!claimVars, C!pruneVars
<1>6. FilesInv'
  <2>1. \A s \in DOMAIN files : /\ files[s].from \in Int /\ files[s].to \in Int
                                /\ files[s].to <= now
    BY DEF StreamInv, C!TypeOK, FilesInv, C!File
  <2>2. files'[n].from = now /\ files'[n].to = now /\ n \notin DOMAIN files
    BY <1>1, <1>4, FileAdded
  <2>3. ASSUME NEW s \in DOMAIN files'
        PROVE  /\ s = C!NameTime(files'[s].from)
               /\ files'[s].from <= files'[s].to /\ files'[s].to <= now'
               /\ files'[s].to - files'[s].from <= MaxSegment
    <3>1. CASE s = n
      BY <1>1, <1>2, <2>2, <3>1, Constants
    <3>2. CASE s \in DOMAIN files
      BY <1>2, <2>1, <3>2, FileAdded DEF StreamInv, FilesInv
    <3> QED
      BY <3>1, <3>2, FileAdded
  <2>4. ASSUME NEW s \in DOMAIN files', NEW r \in DOMAIN files', s < r
        PROVE  files'[s].to <= files'[r].from
    <3>1. s \in DOMAIN files
      BY <1>1, <1>4, <2>4, FileAdded
    <3>2. CASE r = n
      BY <2>1, <2>2, <3>1, <3>2, FileAdded
    <3>3. CASE r \in DOMAIN files
      BY <2>4, <3>1, <3>3, FileAdded DEF StreamInv, FilesInv
    <3> QED
      BY <3>2, <3>3, FileAdded
  <2> QED
    BY <2>3, <2>4 DEF FilesInv
<1>7. WritingInv'
  <2>1. n \in DOMAIN files' /\ \A s \in DOMAIN files' : s <= n
    BY <1>1, <1>4, FileAdded
  <2>2. now - n < TicksPerSecond
    BY <1>1, Constants
  <2>3. exitAt' <= now
    BY <1>1, <1>2, <1>3, Constants DEF StreamInv, WritingInv
  <2> HIDE DEF n
  <2> QED
    BY <1>1, <1>2, <1>3, <2>1, <2>2, <2>3 DEF WritingInv
<1> QED
  BY <1>5, <1>6, <1>7 DEF StreamInv

LEMMA StreamStops ==
  ASSUME StreamInv, C!Stall \/ C!ExitStream \/ C!KillStalled
  PROVE  StreamInv'
<1>1. /\ now' = now /\ now \in Nat /\ outages' \in {outages, outages + 1}
      /\ flowing' = FALSE /\ UNCHANGED <<C!claimVars, C!pruneVars>>
      /\ writing \in DOMAIN files /\ writing # None /\ writing \in Int
      /\ \/ writing' = writing /\ exitAt' = exitAt
         \/ writing' = None /\ exitAt' = now
  BY DEF C!Stall, C!ExitStream, C!KillStalled, C!Exit, StreamInv, C!TypeOK, WritingInv
<1>2. \A s \in DOMAIN files : s \in Int /\ s <= writing /\ files[s].from \in Int
  BY <1>1 DEF StreamInv, WritingInv, C!TypeOK, C!File
<1>3. C!TypeOK'
  <2>1. outages' \in Nat /\ exitAt' \in Int /\ C!IsTime(writing')
    BY <1>1 DEF StreamInv, C!TypeOK, C!IsTime
  <2> QED
    BY <1>1, <1>2, <2>1, FilesKept DEF StreamInv, C!TypeOK, C!IsTime, C!claimVars,
       C!pruneVars
<1>4. FilesInv'
  BY <1>1, FilesKept DEF StreamInv, FilesInv
<1>5. WritingInv'
  <2>1. writing <= now
    <3>1. writing = C!NameTime(files[writing].from) /\ files[writing].from <= now
      <4>1. files[writing].from <= files[writing].to /\ files[writing].to <= now
            /\ files[writing].from \in Int /\ files[writing].to \in Int
        BY <1>1 DEF StreamInv, C!TypeOK, FilesInv, C!File
      <4> QED
        BY <1>1, <4>1 DEF StreamInv, FilesInv
    <3> QED
      BY <1>1, <1>2, <3>1, NameTimeBounds
  <2>2. CASE writing' = writing /\ exitAt' = exitAt
    BY <1>1, <1>2, <2>2, FilesKept DEF StreamInv, WritingInv
  <2>3. CASE writing' = None /\ exitAt' = now
    BY <1>1, <1>2, <2>1, <2>3, FilesKept DEF WritingInv
  <2> QED
    BY <1>1, <2>2, <2>3
<1> QED
  BY <1>3, <1>4, <1>5 DEF StreamInv

LEMMA StreamTicks ==
  ASSUME StreamInv, C!Tick
  PROVE  StreamInv'
<1>1. /\ now \in Nat /\ now' = now + 1 /\ writing' = writing /\ exitAt' = exitAt
      /\ UNCHANGED <<C!claimVars, flowing, outages, C!pruneVars>>
      /\ DOMAIN files \subseteq Int /\ exitAt \in Int /\ C!IsTime(writing)
  BY DEF C!Tick, StreamInv, C!TypeOK
<1>2. \A s \in DOMAIN files : /\ files[s].from \in Int /\ files[s].to \in Int
                              /\ files[s].from <= files[s].to /\ files[s].to <= now
  BY DEF StreamInv, C!TypeOK, FilesInv, C!File
<1>3. ASSUME writing # None
      PROVE  /\ writing \in DOMAIN files /\ \A s \in DOMAIN files : s <= writing
             /\ now - writing <= StallLimit
             /\ flowing => now - files[writing].from < MaxSegment
  BY <1>3 DEF C!Tick, StreamInv, WritingInv
<1>4. C!TypeOK'
  BY <1>1, FileGrows DEF StreamInv, C!TypeOK, C!IsTime, C!claimVars, C!pruneVars
<1>5. FilesInv'
  <2>1. ASSUME NEW s \in DOMAIN files'
        PROVE  /\ s = C!NameTime(files'[s].from)
               /\ files'[s].from <= files'[s].to /\ files'[s].to <= now'
               /\ files'[s].to - files'[s].from <= MaxSegment
    <3>1. s \in DOMAIN files /\ files'[s].from = files[s].from
          /\ s = C!NameTime(files[s].from)
      BY <2>1, FileGrows DEF StreamInv, FilesInv
    <3>2. CASE s = writing /\ flowing
      <4>1. writing # None
        BY <1>1, <3>1, <3>2, Constants
      <4> QED
        BY <1>1, <1>2, <1>3, <3>1, <3>2, <4>1, FileGrows, Constants
    <3>3. CASE ~(s = writing /\ flowing)
      <4>1. files'[s].to = files[s].to
        BY <3>1, <3>3, FileGrows
      <4> QED
        BY <1>1, <1>2, <3>1, <4>1 DEF StreamInv, FilesInv
    <3> QED
      BY <3>2, <3>3
  <2>2. ASSUME NEW s \in DOMAIN files', NEW n \in DOMAIN files', s < n
        PROVE  files'[s].to <= files'[n].from
    <3>1. s \in DOMAIN files /\ n \in DOMAIN files /\ s \in Int /\ n \in Int
      BY <1>1, FileGrows
    <3>2. s # writing
      BY <1>1, <1>3, <2>2, <3>1, Constants
    <3> QED
      BY <2>2, <3>1, <3>2, FileGrows DEF StreamInv, FilesInv
  <2> QED
    BY <2>1, <2>2 DEF FilesInv
<1>6. WritingInv'
  <2>1. ASSUME writing # None
        PROVE  now + 1 - writing <= StallLimit + 1
    BY <1>1, <1>3, <2>1, Constants DEF C!IsTime
  <2> QED
    BY <1>1, <1>3, <2>1, FileGrows DEF StreamInv, WritingInv
<1> QED
  BY <1>4, <1>5, <1>6 DEF StreamInv

LEMMA StreamUnlinks ==
  ASSUME StreamInv, VictimsInv, NEW s \in victims, C!Unlink(s)
  PROVE  StreamInv'
<1>1. /\ s \in DOMAIN files /\ s # writing
      /\ UNCHANGED <<now, C!claimVars, writing, flowing, exitAt, outages,
                     pruneProtected, pruneReadAt>>
  BY DEF VictimsInv, C!Unlink
<1>2. C!TypeOK'
  <2>1. files[s].to \in Int /\ lastLost \in Int /\ victims \subseteq Int
    BY <1>1 DEF StreamInv, C!TypeOK, C!File
  <2>2. lastLost' \in Int /\ victims' \subseteq Int /\ prunePc' \in {"idle", "unlink"}
    BY <2>1 DEF C!Unlink
  <2> QED
    BY <1>1, <2>2, FileUnlinked DEF StreamInv, C!TypeOK, C!IsTime, C!claimVars
<1>3. FilesInv' /\ WritingInv'
  BY <1>1, FileUnlinked DEF StreamInv, FilesInv, WritingInv
<1> QED
  BY <1>2, <1>3 DEF StreamInv

-----------------------------------------------------------------------------
(* The pruner's part of the invariant *)

LEMMA PrunerInit == ASSUME C!Init PROVE CacheInv
<1>1. activeStarts = {} /\ protectedSince = None /\ prunePc = "idle"
      /\ now = 0 /\ lastLost = -CacheKeepSeconds
  BY DEF C!Init
<1>2. protectedSince \in C!Earliest(activeStarts)
  BY <1>1 DEF C!Earliest
<1>3. LostInv
  BY <1>1, Constants DEF LostInv
<1> QED
  BY <1>1, <1>2, <1>3, StreamInit DEF CacheInv, ReadInv, VictimsInv

\* What was needed by no claim is needed by no claim made now: it starts
\* within (PreBuffer + MaxLag), which keep_seconds covers, or after another claim.
LEMMA NewClaimIsSafe ==
  ASSUME CacheInv, NEW start \in Int, C!MayClaim(start),
         NEW end \in Int, end <= now - CacheKeepSeconds + C!Excess,
         \A c \in activeStarts : end <= c.start + C!Excess
  PROVE  end <= start + C!Excess
<1>1. now \in Int /\ activeStarts \subseteq C!Claim
  BY DEF CacheInv, StreamInv, C!TypeOK
<1>2. CASE start >= now - (PreBuffer + MaxLag)
  BY <1>1, <1>2, Constants, Assumed DEF C!KeepAssumption
<1>3. CASE protectedSince # None /\ start >= protectedSince
  <2>1. PICK c \in activeStarts : c.start = protectedSince
    BY <1>1, <1>3, EarliestIsClaimed DEF CacheInv
  <2>2. c.start \in Int /\ end <= c.start + C!Excess
    BY <1>1, <2>1 DEF C!Claim
  <2> QED
    BY <1>3, <2>1, <2>2, Constants
<1> QED
  BY <1>2, <1>3 DEF C!MayClaim

\* A window opening, or a chunk following another, leaves the pruner harmless.
LEMMA ClaimAdded == ASSUME CacheInv, C!AddClaim PROVE CacheInv'
<1>1. PICK id \in 0..(FrameHorizon + 1), start \in (-(PreBuffer + MaxLag))..now :
        /\ C!MayClaim(start)
        /\ C!ProtectSince(activeStarts \union {[id |-> id, start |-> start]})
  BY DEF C!AddClaim
<1> DEFINE claims == activeStarts \union {[id |-> id, start |-> start]}
<1>2. /\ UNCHANGED <<now, C!streamVars, C!pruneVars>> /\ activeStarts \subseteq C!Claim
      /\ now \in Nat /\ id \in Nat /\ start \in Int /\ activeStarts' = claims
  BY <1>1, Constants, Assumed DEF C!SegmentAssumption, C!AddClaim, C!ProtectSince,
     CacheInv, StreamInv, C!TypeOK
<1>3. activeStarts' \subseteq C!Claim /\ protectedSince' \in C!Earliest(activeStarts')
  BY <1>1, <1>2 DEF C!ProtectSince, C!Claim
<1>4. StreamInv'
  <2>1. C!IsTime(protectedSince')
    BY <1>3, EarliestIsLowerBound
  <2> QED
    BY <1>2, <1>3, <2>1
    DEF CacheInv, StreamInv, C!TypeOK, FilesInv, WritingInv, C!IsTime, C!streamVars, C!pruneVars
<1>5. ReadInv'
  <2>1. SUFFICES ASSUME prunePc = "read"
        PROVE  \/ pruneProtected # None /\ pruneProtected <= start
               \/ start >= pruneReadAt - (PreBuffer + MaxLag)
    BY <1>2 DEF CacheInv, ReadInv, C!pruneVars
  <2>2. /\ pruneReadAt \in Int /\ pruneReadAt <= now /\ C!IsTime(pruneProtected)
        /\ \A c \in activeStarts : \/ pruneProtected # None /\ pruneProtected <= c.start
                                   \/ c.start >= pruneReadAt - (PreBuffer + MaxLag)
    BY <2>1 DEF CacheInv, ReadInv, StreamInv, C!TypeOK
  <2>3. CASE start >= now - (PreBuffer + MaxLag)
    BY <1>2, <2>2, <2>3, Constants
  <2>4. CASE protectedSince # None /\ start >= protectedSince
    <3>1. PICK c \in activeStarts : c.start = protectedSince
      BY <1>2, <2>4, EarliestIsClaimed DEF CacheInv
    <3>2. c.start \in Int /\ c.start <= start
      BY <1>2, <2>4, <3>1 DEF C!Claim
    <3>3. CASE c.start >= pruneReadAt - (PreBuffer + MaxLag)
      BY <1>2, <2>2, <3>2, <3>3, Constants
    <3>4. CASE pruneProtected # None /\ pruneProtected <= c.start
      BY <1>2, <2>2, <3>2, <3>4 DEF C!IsTime
    <3> QED
      BY <2>2, <3>3, <3>4
  <2> QED
    BY <1>1, <2>3, <2>4 DEF C!MayClaim
<1>6. VictimsInv'
  <2>1. ASSUME prunePc = "unlink", NEW s \in victims
        PROVE  files[s].to <= start + C!Excess
    <3>1. s \in DOMAIN files /\ files[s].to \in Int
      BY <2>1 DEF CacheInv, VictimsInv, StreamInv, C!TypeOK, C!File
    <3> QED
      BY <1>1, <1>2, <2>1, <3>1, NewClaimIsSafe DEF CacheInv, VictimsInv
  <2> QED
    BY <1>2, <2>1 DEF CacheInv, VictimsInv, C!pruneVars, C!streamVars
<1>7. LostInv'
  <2>1. lastLost <= start + C!Excess
    BY <1>1, <1>2, NewClaimIsSafe DEF CacheInv, LostInv, StreamInv, C!TypeOK
  <2> QED
    BY <1>2, <2>1 DEF CacheInv, LostInv, C!pruneVars
<1> QED
  BY <1>3, <1>4, <1>5, <1>6, <1>7 DEF CacheInv

LEMMA ClaimDropped == ASSUME CacheInv, C!DropClaim PROVE CacheInv'
<1>1. PICK c \in activeStarts : C!ProtectSince(activeStarts \ {c})
  BY DEF C!DropClaim
<1>2. /\ UNCHANGED <<now, C!streamVars, C!pruneVars>>
      /\ activeStarts' \subseteq activeStarts /\ activeStarts \subseteq C!Claim
      /\ protectedSince' \in C!Earliest(activeStarts')
  BY <1>1 DEF C!DropClaim, C!ProtectSince, CacheInv, StreamInv, C!TypeOK
<1>3. C!IsTime(protectedSince')
  BY <1>2, EarliestIsLowerBound
<1>4. StreamInv'
  BY <1>2, <1>3
  DEF CacheInv, StreamInv, C!TypeOK, FilesInv, WritingInv, C!IsTime, C!streamVars, C!pruneVars
<1> QED
  BY <1>2, <1>4
  DEF CacheInv, ReadInv, VictimsInv, LostInv, C!streamVars, C!pruneVars

\* ffmpeg only ever writes a file the pruner has not chosen.
LEMMA StreamMoves ==
  ASSUME CacheInv, C!StreamNext
  PROVE  CacheInv'
<1> USE DEF CacheInv
<1>1. UNCHANGED <<now, C!claimVars, C!pruneVars>>
  BY DEF C!StreamNext, C!StartStream, C!CutSegment, C!Stall, C!ExitStream, C!KillStalled
<1>2. StreamInv'
  BY StreamAdds, StreamStops DEF C!StreamNext
<1>3. ASSUME prunePc = "unlink"
      PROVE  /\ victims \subseteq DOMAIN files' /\ writing' \notin victims
             /\ \A s \in victims : files'[s].to = files[s].to
  <2>1. victims \subseteq DOMAIN files /\ writing \notin victims /\ None \notin victims
    BY <1>3, Constants DEF VictimsInv, StreamInv, C!TypeOK
  <2>2. CASE C!StartStream \/ C!CutSegment
    <3>1. writing' = C!NameTime(now) /\ C!NameTime(now) \notin DOMAIN files
      <4>1. C!NameTime(now) \in Int
        BY NameTimeBounds DEF StreamInv, C!TypeOK
      <4>2. ~(C!NameTime(now) < C!NameTime(now))
        BY <4>1
      <4> QED
        BY <2>2, <4>2, NewNameIsLast DEF C!StartStream, C!CutSegment
    <3> QED
      BY <2>1, <2>2, <3>1, FileAdded
  <2>3. CASE C!Stall \/ C!ExitStream \/ C!KillStalled
    <3>1. writing' = writing \/ writing' = None
      BY <2>3 DEF C!Stall, C!ExitStream, C!KillStalled, C!Exit
    <3> QED
      BY <2>1, <2>3, <3>1, FilesKept
  <2> QED
    BY <2>2, <2>3 DEF C!StreamNext
<1>4. VictimsInv'
  BY <1>1, <1>3 DEF VictimsInv, C!pruneVars, C!claimVars
<1> QED
  BY <1>1, <1>2, <1>4 DEF ReadInv, LostInv, C!pruneVars, C!claimVars

LEMMA ProtectedRead == ASSUME CacheInv, C!PruneRead PROVE CacheInv'
<1>1. /\ UNCHANGED <<now, C!claimVars, C!streamVars, victims, lastLost>>
      /\ prunePc' = "read" /\ pruneProtected' = protectedSince /\ pruneReadAt' = now
      /\ now \in Nat /\ activeStarts \subseteq C!Claim /\ C!IsTime(protectedSince)
  BY DEF C!PruneRead, CacheInv, StreamInv, C!TypeOK
<1>2. StreamInv'
  BY <1>1 DEF CacheInv, StreamInv, C!TypeOK, FilesInv, WritingInv, C!IsTime, C!claimVars,
     C!streamVars
<1>3. ReadInv'
  BY <1>1, EarliestIsLowerBound, Constants DEF CacheInv, ReadInv, C!claimVars
<1> QED
  BY <1>1, <1>2, <1>3 DEF CacheInv, VictimsInv, LostInv, C!claimVars, C!streamVars

\* The copy of the protected time is old, but not older than keep_seconds can
\* make up for; and the file being written is never among the victims.
LEMMA VictimsListed == ASSUME CacheInv, C!PruneList PROVE CacheInv'
<1> DEFINE chosen == C!PruneVictims(DOMAIN files, now - CacheKeepSeconds, pruneProtected)
<1>1. /\ UNCHANGED <<now, C!claimVars, C!streamVars, lastLost>> /\ prunePc = "read"
      /\ victims' = chosen /\ prunePc' \in {"idle", "unlink"}
      /\ pruneProtected' = None /\ pruneReadAt' = 0
  BY DEF C!PruneList
<1>2. /\ now \in Nat /\ activeStarts \subseteq C!Claim /\ pruneReadAt \in Nat
      /\ C!IsTime(pruneProtected) /\ DOMAIN files \subseteq Int
  BY DEF CacheInv, StreamInv, C!TypeOK
<1>3. chosen \subseteq DOMAIN files
  BY DEF C!PruneVictims
<1>4. StreamInv'
  <2> HIDE DEF chosen
  <2> QED
    BY <1>1, <1>2, <1>3
    DEF CacheInv, StreamInv, C!TypeOK, FilesInv, WritingInv, C!IsTime, C!claimVars, C!streamVars
<1>5. ASSUME NEW s \in chosen
      PROVE  /\ s \in DOMAIN files /\ files[s].to \in Int
             /\ files[s].to <= now - CacheKeepSeconds + C!Excess
             /\ \A c \in activeStarts : files[s].to <= c.start + C!Excess
  <2>1. s \in DOMAIN files /\ s <= s /\ files[s].to \in Int
    BY <1>2, <1>3 DEF CacheInv, StreamInv, C!TypeOK, C!File
  <2>2. /\ ~C!EndsAfter(DOMAIN files, s, now - CacheKeepSeconds)
        /\ pruneProtected # None => ~C!EndsAfter(DOMAIN files, s, pruneProtected)
    BY <2>1 DEF C!PruneVictims
  <2>3. files[s].to <= now - CacheKeepSeconds + C!Excess
    <3>1. now - CacheKeepSeconds \in Int
      BY <1>2, Constants
    <3> QED
      BY <2>1, <2>2, <3>1, RealEnd DEF CacheInv
  <2>4. ASSUME NEW c \in activeStarts
        PROVE  files[s].to <= c.start + C!Excess
    <3>1. c.start \in Int /\ now <= pruneReadAt + MaxPruneDelay
      BY <1>1, <1>2 DEF C!Claim, CacheInv, ReadInv
    <3>2. CASE pruneProtected # None /\ pruneProtected <= c.start
      <4>1. pruneProtected \in Int
        BY <1>2, <3>2 DEF C!IsTime
      <4>2. files[s].to <= pruneProtected + C!Excess
        BY <2>1, <2>2, <3>2, <4>1, RealEnd DEF CacheInv
      <4> QED
        BY <2>1, <3>1, <3>2, <4>1, <4>2, Constants
    <3>3. CASE c.start >= pruneReadAt - (PreBuffer + MaxLag)
      BY <1>2, <2>1, <2>3, <3>1, <3>3, Constants, Assumed DEF C!KeepAssumption
    <3> QED
      BY <1>1, <3>2, <3>3 DEF CacheInv, ReadInv
  <2> QED
    BY <2>1, <2>3, <2>4
<1>6. writing \notin chosen
  <2>1. SUFFICES ASSUME writing \in chosen PROVE FALSE
    OBVIOUS
  <2>2. writing \in DOMAIN files /\ writing \in Int /\ writing # None
    BY <1>2, <1>3, <2>1, Constants
  <2>3. ~C!EndsAfter(DOMAIN files, writing, now - CacheKeepSeconds)
    BY <2>1, <2>2 DEF C!PruneVictims
  <2>4. /\ \A n \in DOMAIN files : n <= writing
        /\ now - writing <= StallLimit + 1 \/ now - writing < TicksPerSecond
    BY <2>2 DEF CacheInv, StreamInv, WritingInv
  <2>5. ~(writing + SegmentSeconds > now - CacheKeepSeconds)
    <3>1. \A n \in DOMAIN files : ~(n > writing)
      BY <1>2, <2>2, <2>4
    <3> QED
      BY <2>3, <3>1 DEF C!EndsAfter
  <2> QED
    BY <1>2, <2>2, <2>4, <2>5, Constants, Assumed DEF C!KeepAssumption
<1>7. VictimsInv'
  <2> HIDE DEF chosen
  <2> QED
    BY <1>1, <1>3, <1>5, <1>6 DEF VictimsInv, C!claimVars, C!streamVars
<1>8. ReadInv'
  BY <1>1 DEF ReadInv
<1> QED
  BY <1>1, <1>4, <1>7, <1>8 DEF CacheInv, LostInv, C!claimVars

LEMMA VictimUnlinked ==
  ASSUME CacheInv, NEW s \in victims, C!Unlink(s)
  PROVE  CacheInv'
<1>1. /\ UNCHANGED <<now, C!claimVars, writing, flowing, exitAt, outages,
                     pruneProtected, pruneReadAt>>
      /\ prunePc = "unlink" /\ prunePc' \in {"idle", "unlink"}
      /\ victims' = victims \ {s} /\ lastLost' \in {lastLost, files[s].to}
  BY DEF C!Unlink
<1>2. StreamInv'
  BY StreamUnlinks DEF CacheInv
<1>3. /\ victims \subseteq DOMAIN files /\ writing \notin victims
      /\ \A r \in victims :
           /\ files[r].to <= now - CacheKeepSeconds + C!Excess
           /\ \A c \in activeStarts : files[r].to <= c.start + C!Excess
  BY <1>1 DEF CacheInv, VictimsInv
<1>4. VictimsInv'
  BY <1>1, <1>3, FileUnlinked DEF VictimsInv, C!claimVars, CacheInv
<1>5. LostInv'
  BY <1>1, <1>3 DEF CacheInv, LostInv, C!claimVars
<1> QED
  BY <1>1, <1>2, <1>4, <1>5 DEF CacheInv, ReadInv, C!claimVars

LEMMA TimePasses == ASSUME CacheInv, C!Tick PROVE CacheInv'
<1>1. /\ UNCHANGED <<C!claimVars, writing, flowing, exitAt, outages, C!pruneVars>>
      /\ now' = now + 1 /\ now \in Nat
      /\ prunePc = "read" => now < pruneReadAt + MaxPruneDelay
      /\ pruneReadAt \in Nat /\ lastLost \in Int
  BY DEF C!Tick, CacheInv, StreamInv, C!TypeOK
<1>2. StreamInv'
  BY StreamTicks DEF CacheInv
<1>3. ReadInv'
  BY <1>1, Constants DEF CacheInv, ReadInv, C!claimVars, C!pruneVars
<1>4. VictimsInv'
  <2>1. ASSUME prunePc = "unlink", NEW s \in victims
        PROVE  /\ s \in DOMAIN files' /\ files'[s].to = files[s].to
               /\ files[s].to <= now + 1 - CacheKeepSeconds + C!Excess
    <3>1. s \in DOMAIN files /\ s # writing
          /\ files[s].to <= now - CacheKeepSeconds + C!Excess /\ files[s].to \in Int
      BY <2>1 DEF CacheInv, VictimsInv, StreamInv, C!TypeOK, C!File
    <3> QED
      BY <1>1, <3>1, FileGrows, Constants DEF CacheInv
  <2>2. /\ prunePc' = prunePc /\ victims' = victims /\ writing' = writing
        /\ activeStarts' = activeStarts /\ now' = now + 1
    BY <1>1 DEF C!claimVars, C!pruneVars
  <2>3. ASSUME prunePc = "unlink", NEW s \in victims
        PROVE  /\ s \in DOMAIN files'
               /\ files'[s].to <= now + 1 - CacheKeepSeconds + C!Excess
               /\ \A c \in activeStarts : files'[s].to <= c.start + C!Excess
    <3>1. \A c \in activeStarts : files[s].to <= c.start + C!Excess
      BY <2>3 DEF CacheInv, VictimsInv
    <3> QED
      BY <2>1, <2>3, <3>1
  <2>4. prunePc = "unlink" => writing \notin victims
    BY DEF CacheInv, VictimsInv
  <2> QED
    <3>1. SUFFICES ASSUME prunePc = "unlink"
                   PROVE  /\ victims \subseteq DOMAIN files' /\ writing \notin victims
                          /\ \A s \in victims :
                               /\ files'[s].to <= now' - CacheKeepSeconds + C!Excess
                               /\ \A c \in activeStarts : files'[s].to <= c.start + C!Excess
      BY <2>2, Zenon DEF VictimsInv
    <3> QED
      BY <1>1, <2>2, <2>3, <2>4, <3>1, Constants
<1>5. LostInv'
  BY <1>1, Constants DEF CacheInv, LostInv, C!claimVars, C!pruneVars
<1> QED
  BY <1>1, <1>2, <1>3, <1>4, <1>5 DEF CacheInv, C!claimVars

-----------------------------------------------------------------------------
(* Theorems of the segment cache                                           *)

LEMMA CacheInductive == CacheInv /\ [C!Next]_C!vars => CacheInv'
<1>1. SUFFICES ASSUME CacheInv, [C!Next]_C!vars PROVE CacheInv'
  OBVIOUS
<1>2. CASE C!AddClaim
  BY <1>1, <1>2, ClaimAdded
<1>3. CASE C!DropClaim
  BY <1>1, <1>3, ClaimDropped
<1>4. CASE C!StreamNext
  BY <1>1, <1>4, StreamMoves
<1>5. CASE C!PruneNext
  BY <1>1, <1>5, ProtectedRead, VictimsListed, VictimUnlinked DEF C!PruneNext
<1>6. CASE C!Tick
  BY <1>1, <1>6, TimePasses
<1>7. CASE UNCHANGED C!vars
  <2>1. UNCHANGED <<now, activeStarts, protectedSince, files, writing, flowing, exitAt,
                    outages, prunePc, pruneProtected, pruneReadAt, victims, lastLost>>
    BY <1>7 DEF C!vars, C!claimVars, C!streamVars, C!pruneVars
  <2>2. StreamInv'
    BY <1>1, <2>1 DEF CacheInv, StreamInv, C!TypeOK, FilesInv, WritingInv, C!IsTime
  <2> QED
    BY <1>1, <2>1, <2>2 DEF CacheInv, ReadInv, VictimsInv, LostInv
<1> QED
  BY <1>1, <1>2, <1>3, <1>4, <1>5, <1>6, <1>7 DEF C!Next

THEOREM CacheInvariant == C!Spec => []CacheInv
<1>1. C!Init => CacheInv
  BY PrunerInit
<1> QED
  BY <1>1, CacheInductive, PTL DEF C!Spec

\* The cache's variables have their types in every reachable state.
THEOREM CacheTypeCorrect == C!Spec => []C!TypeOK
<1>1. CacheInv => C!TypeOK
  BY DEF CacheInv, StreamInv
<1> QED
  BY <1>1, CacheInvariant, PTL

\* prune(), working from a copy of _protected_since that may be out of date,
\* never unlinks footage a window of the recorder claims or comes to claim, as
\* long as keep_seconds covers the windows' reach into the past and the
\* pruner's longest pause.
THEOREM ClaimsAlwaysKept == C!Spec => []ClaimedFootageKept
<1>1. CacheInv => C!ClaimedFootageKept
  BY DEF CacheInv, LostInv, C!ClaimedFootageKept
<1>2. C!ClaimedFootageKept => ClaimedFootageKept
  BY SameProperties
<1> QED
  BY <1>1, <1>2, CacheInvariant, PTL

\* prune() never unlinks the segment ffmpeg has open, however long ffmpeg goes
\* without cutting, because the supervisor kills it before that.
THEOREM OpenFileAlwaysKept == C!Spec => []FileBeingWrittenKept
<1>1. CacheInv => C!FileBeingWrittenKept
  BY DEF CacheInv, StreamInv, WritingInv, C!FileBeingWrittenKept
<1>2. C!FileBeingWrittenKept => FileBeingWrittenKept
  BY SameProperties
<1> QED
  BY <1>1, <1>2, CacheInvariant, PTL

-----------------------------------------------------------------------------
(* The system: how far the recorder's windows and claims can be from now   *)

\* A frame opens one window at most, no chunk starts before the one it follows,
\* and a job ends no later than now.
PaceInv ==
  /\ -1 <= frameTs /\ frameTs <= now /\ frameTs <= FrameHorizon
  /\ nextId <= frameTs + 1
  /\ frameThread = "rolling" => nextId <= frameTs /\ window.start <= frameTs - Overlap
  /\ window # None =>
       /\ -PreBuffer <= window.start
       /\ window.start <= window.chunkStart - PreBuffer \/ window.start <= window.chunkStart - Overlap
       /\ window.chunkStart <= frameTs /\ window.lastFrame <= frameTs
  /\ \A job \in closed : job.end <= now
  /\ \A i \in DOMAIN jobs : jobs[i] \in closed
  /\ \A w \in Workers : processing[w] # None => processing[w] \in closed

\* A worker has a job exactly while it is at work.
WorkerInv ==
  /\ workerPc \in [Workers -> {"idle", "waiting", "listing", "assembling", "releasing"}]
  /\ DOMAIN listed = Workers
  /\ \A w \in Workers : workerPc[w] = "idle" <=> processing[w] = None

\* What a worker has not listed ends before its window, and grows no more than
\* to where the window starts.
ListedInv ==
  \A w \in Workers : workerPc[w] = "assembling" =>
    \A s \in DOMAIN files : files[s].from < processing[w].end /\ s \notin listed[w] =>
      /\ files[s].to <= processing[w].start + C!Excess
      /\ s = writing => s + SegmentSeconds <= processing[w].start

IInv == R!TypeOK /\ ProtectionInv /\ PaceInv /\ CacheInv /\ WorkerInv /\ ListedInv

LEMMA SystemConstants ==
  /\ PreBuffer \in Nat /\ PostBuffer \in Nat /\ Overlap \in Nat /\ MaxChunk \in Nat \ {0}
  /\ MaxLag \in Nat /\ FrameHorizon \in Nat
  /\ None \notin Int /\ None \notin R!Window /\ None \notin R!Job
  /\ Overlap <= PreBuffer + MaxChunk
BY Assumed DEF R!RecorderAssumption, R!NoneAssumption

LEMMA PaceInit == R!Init => PaceInv
BY SystemConstants DEF R!Init, PaceInv, Workers, R!Workers

LEMMA PaceHandleFrame ==
  ASSUME R!TypeOK, PaceInv, NEW ts \in R!FrameTimes, NEW motion \in BOOLEAN, R!HandleFrame(ts, motion)
  PROVE  PaceInv'
<1>0. /\ ts \in Int /\ frameTs < ts /\ ts <= now /\ ts <= FrameHorizon
      /\ now \in Nat /\ nextId \in Nat /\ frameTs \in Int /\ -1 <= frameTs
      /\ jobs \in Seq(R!Job) /\ window \in R!Window \union {None}
  BY SystemConstants DEF R!FrameTimes, R!TypeOK, PaceInv
<1>1. frameTs' = ts /\ now' = now /\ UNCHANGED processing /\ frameThread = "ready"
  BY DEF R!HandleFrame
<1>2. CASE R!IgnoreFrame(motion)
  BY <1>0, <1>1, <1>2 DEF R!IgnoreFrame, PaceInv
<1>3. CASE R!OpenWindow(ts, motion)
  <2>1. /\ window' = [id |-> nextId, start |-> ts - PreBuffer, chunkStart |-> ts, lastFrame |-> ts]
        /\ nextId' = nextId + 1 /\ UNCHANGED <<frameThread, jobs, closed>>
    BY <1>3 DEF R!OpenWindow, R!WindowStart
  <2>2. window'.start = ts - PreBuffer /\ window'.chunkStart = ts /\ window'.lastFrame = ts
    BY <2>1
  <2>3. nextId' <= ts + 1 /\ -PreBuffer <= ts - PreBuffer
    BY <1>0, <2>1, SystemConstants DEF PaceInv
  <2> QED
    BY <1>0, <1>1, <2>1, <2>2, <2>3, SystemConstants DEF PaceInv
<1>4. CASE R!FinishEvent(ts, motion)
  <2> DEFINE job == R!JobOf(window, lastMotion + PostBuffer)
  <2>1. /\ window # None /\ window' = None /\ lastMotion \in Int /\ ts - lastMotion > PostBuffer
        /\ jobs' = Append(jobs, job) /\ closed' = closed \union {job}
        /\ UNCHANGED <<frameThread, nextId>>
    BY <1>4 DEF R!FinishEvent, R!PostBufferExpired, R!EventEnd, R!EnqueueAssembly, R!TypeOK,
       R!IsTime
  <2>2. job.end <= now
    <3>1. window.lastFrame <= frameTs /\ window.lastFrame \in Int
      BY <1>0, <2>1 DEF PaceInv, R!Window
    <3> QED
      BY <1>0, <2>1, <3>1, SystemConstants DEF R!JobOf, R!Later
  <2> HIDE DEF job
  <2>3. \A i \in DOMAIN jobs' : jobs'[i] \in closed'
    BY <1>0, <2>1 DEF PaceInv
  <2> QED
    BY <1>0, <1>1, <2>1, <2>2, <2>3 DEF PaceInv
<1>5. CASE R!Accumulate(ts, motion)
  <2>1. /\ window # None /\ window' = [window EXCEPT !.lastFrame = ts]
        /\ UNCHANGED <<nextId, jobs, closed>>
        /\ frameThread' = "rolling" => ts - window.chunkStart >= MaxChunk
    BY <1>1, <1>5 DEF R!Accumulate
  <2>2. window \in R!Window
    BY <1>0, <2>1
  <2>3. /\ window' # None /\ window'.lastFrame = ts
        /\ window'.start = window.start /\ window'.chunkStart = window.chunkStart
    BY <1>0, <2>1, <2>2, SystemConstants DEF R!Window
  <2>4. window.start \in Int /\ window.chunkStart \in Int
    BY <2>2 DEF R!Window
  <2>5. frameThread' = "rolling" => window.start <= ts - Overlap
    <3>1. SUFFICES ASSUME frameThread' = "rolling" PROVE window.start <= ts - Overlap
      OBVIOUS
    <3>2. ts - window.chunkStart >= MaxChunk
      BY <2>1, <3>1
    <3>3. Overlap <= PreBuffer + MaxChunk /\ {Overlap, PreBuffer, MaxChunk} \subseteq Nat
      BY SystemConstants
    <3>4. CASE window.start <= window.chunkStart - PreBuffer
      BY <1>0, <2>4, <3>2, <3>3, <3>4
    <3>5. CASE window.start <= window.chunkStart - Overlap
      BY <1>0, <2>4, <3>2, <3>3, <3>5
    <3> QED
      BY <2>1, <3>4, <3>5 DEF PaceInv
  <2> QED
    BY <1>0, <1>1, <2>1, <2>3, <2>4, <2>5 DEF PaceInv
<1> QED
  BY <1>2, <1>3, <1>4, <1>5 DEF R!HandleFrame

LEMMA PaceRollChunk ==
  ASSUME R!TypeOK, PaceInv, R!RollChunk
  PROVE  PaceInv'
<1> DEFINE job == R!JobOf(window, frameTs)
<1>1. /\ frameThread = "rolling" /\ frameThread' = "ready" /\ nextId' = nextId + 1
      /\ window' = [id |-> nextId, start |-> frameTs - Overlap, chunkStart |-> frameTs,
                    lastFrame |-> frameTs]
      /\ jobs' = Append(jobs, job) /\ closed' = closed \union {job}
      /\ UNCHANGED <<now, frameTs, processing>>
  BY DEF R!RollChunk, R!NextChunk, R!FullChunk, R!EnqueueAssembly
<1>2. /\ window \in R!Window /\ window # None /\ frameTs \in Int /\ now \in Nat
      /\ nextId \in Nat /\ jobs \in Seq(R!Job)
  BY <1>1, SystemConstants DEF R!TypeOK
<1>3. window.lastFrame \in Int /\ window.start \in Int
  BY <1>2 DEF R!Window
<1>4. job.end <= now
  BY <1>2, <1>3 DEF PaceInv, R!JobOf, R!Later
<1> HIDE DEF job
<1>5. \A i \in DOMAIN jobs' : jobs'[i] \in closed'
  BY <1>1, <1>2 DEF PaceInv
<1>6. /\ window'.start = frameTs - Overlap /\ window'.chunkStart = frameTs
      /\ window'.lastFrame = frameTs
  BY <1>1
<1>7. -PreBuffer <= frameTs - Overlap /\ nextId' <= frameTs + 1
  BY <1>1, <1>2, <1>3, SystemConstants DEF PaceInv
<1> QED
  BY <1>1, <1>2, <1>4, <1>5, <1>6, <1>7, SystemConstants DEF PaceInv

LEMMA PaceNext == R!TypeOK /\ PaceInv /\ [R!Next]_R!vars => PaceInv'
<1> SUFFICES ASSUME R!TypeOK, PaceInv, [R!Next]_R!vars PROVE PaceInv'
  OBVIOUS
<1>1. CASE \E ts \in R!FrameTimes, motion \in BOOLEAN : R!HandleFrame(ts, motion)
  BY <1>1, PaceHandleFrame
<1>2. CASE R!RollChunk
  BY <1>2, PaceRollChunk
<1>3. CASE R!TakeJob
  <2>1. /\ jobs \in Seq(R!Job) /\ jobs # <<>> /\ jobs' = Tail(jobs)
        /\ processing' = [processing EXCEPT !["assembler"] = Head(jobs)]
        /\ UNCHANGED <<now, frameTs, frameThread, window, nextId, closed>>
    BY <1>3 DEF R!TakeJob, R!TypeOK, R!frameVars, R!history
  <2>2. Head(jobs) = jobs[1] /\ 1 \in DOMAIN jobs
        /\ \A i \in DOMAIN jobs' : i + 1 \in DOMAIN jobs /\ jobs'[i] = jobs[i + 1]
    BY <2>1
  <2>3. processing \in [Workers -> R!Job \union {None}]
    BY DEF R!TypeOK, Workers, R!Workers
  <2> QED
    BY <2>1, <2>2, <2>3 DEF PaceInv
<1>4. CASE \E w \in R!Workers : R!ReleaseJob(w)
  <2>1. PICK w \in R!Workers : processing' = [processing EXCEPT ![w] = None]
    BY <1>4 DEF R!ReleaseJob
  <2>2. UNCHANGED <<now, frameTs, frameThread, window, nextId, closed, jobs>>
    BY <1>4 DEF R!ReleaseJob, R!frameVars, R!history
  <2>3. processing \in [Workers -> R!Job \union {None}]
    BY DEF R!TypeOK, Workers, R!Workers
  <2> QED
    BY <2>1, <2>2, <2>3 DEF PaceInv
<1>5. CASE R!FlushOnShutdown
  <2>1. UNCHANGED <<now, frameTs, frameThread, nextId, jobs>> /\ frameThread = "ready"
    BY <1>5 DEF R!FlushOnShutdown
  <2>2. CASE window = None
    BY <1>5, <2>1, <2>2 DEF R!FlushOnShutdown, PaceInv
  <2>3. CASE window # None
    <3> DEFINE job == R!JobOf(window, window.lastFrame)
    <3>1. /\ processing' = [processing EXCEPT !["main"] = job]
          /\ closed' = closed \union {job} /\ window' = None
      BY <1>5, <2>3 DEF R!FlushOnShutdown
    <3>2. window \in R!Window /\ now \in Nat /\ frameTs \in Int
      BY <2>3 DEF R!TypeOK
    <3>3. job.end <= now
      BY <2>3, <3>2 DEF PaceInv, R!JobOf, R!Later, R!Window
    <3>4. processing \in [Workers -> R!Job \union {None}]
      BY DEF R!TypeOK, Workers, R!Workers
    <3> HIDE DEF job
    <3> QED
      BY <2>1, <3>1, <3>3, <3>4 DEF PaceInv
  <2> QED
    BY <2>2, <2>3
<1>6. CASE R!SetAssemblerStop \/ R!Finished \/ UNCHANGED R!vars
  BY <1>6 DEF R!SetAssemblerStop, R!Finished, R!vars, R!frameVars, R!claimVars, R!jobVars,
     R!history, PaceInv
<1>7. CASE R!Tick
  <2>1. UNCHANGED <<frameTs, frameThread, window, nextId, closed, jobs, processing>> /\ now' = now + 1
    BY <1>7 DEF R!Tick, R!frameVars, R!jobVars, R!history
  <2>2. now \in Nat /\ frameTs \in Int /\ \A job \in closed : job.end \in Int
    BY DEF R!TypeOK, R!Job
  <2> QED
    BY <2>1, <2>2 DEF PaceInv
<1> QED
  BY <1>1, <1>2, <1>3, <1>4, <1>5, <1>6, <1>7 DEF R!Next

-----------------------------------------------------------------------------
(* Each step of the system is a step of the recorder and one of the cache, *)
(* or none of theirs.                                                      *)

LEMMA RecorderStep == [Next]_vars => [R!Next]_R!vars
<1> SUFFICES ASSUME [Next]_vars PROVE [R!Next]_R!vars
  OBVIOUS
<1>1. CASE \E ts \in R!FrameTimes, motion \in BOOLEAN : HandleFrame(ts, motion)
  BY <1>1 DEF HandleFrame, R!Next
<1>2. CASE RollChunk \/ TakeJob \/ FlushOnShutdown \/ SetAssemblerStop \/ Finished
  BY <1>2 DEF RollChunk, TakeJob, FlushOnShutdown, SetAssemblerStop, Finished, R!Next
<1>3. CASE \E w \in Workers : ReleaseJob(w)
  BY <1>3 DEF ReleaseJob, Workers, R!Workers, R!Next
<1>4. CASE \E w \in Workers : StopWaiting(w) \/ ListJobSegments(w) \/ AssembleClip(w)
  <2>1. UNCHANGED <<now, recorderVars, claimVars>>
    BY <1>4 DEF StopWaiting, ListJobSegments, AssembleClip
  <2> QED
    BY <2>1 DEF recorderVars, claimVars, R!vars, R!frameVars, R!claimVars, R!jobVars,
       R!history
<1>5. CASE StreamStep \/ PruneStep
  <2>1. UNCHANGED <<now, recorderVars, claimVars>>
    BY <1>5 DEF StreamStep, PruneStep, C!StreamNext, C!StartStream, C!CutSegment, C!Stall,
       C!ExitStream, C!KillStalled, C!PruneNext, C!PruneRead, C!PruneList, C!Unlink, C!claimVars,
       claimVars
  <2> QED
    BY <2>1 DEF recorderVars, claimVars, R!vars, R!frameVars, R!claimVars, R!jobVars,
       R!history
<1>6. CASE Tick
  BY <1>6 DEF Tick, C!Tick, C!claimVars, recorderVars, R!Next, R!Tick, R!frameVars,
     R!claimVars, R!jobVars, R!history
<1>7. CASE UNCHANGED vars
  BY <1>7 DEF vars, recorderVars, claimVars, R!vars, R!frameVars, R!claimVars, R!jobVars,
     R!history
<1> QED
  BY <1>1, <1>2, <1>3, <1>4, <1>5, <1>6, <1>7 DEF Next, WorkerStep

\* A new window or chunk claims no more than the cache expects a client to.
LEMMA FrameIsClient ==
  ASSUME R!TypeOK, ProtectionInv, PaceInv,
         NEW ts \in R!FrameTimes, NEW motion \in BOOLEAN, R!HandleFrame(ts, motion)
  PROVE  \/ UNCHANGED <<activeStarts, protectedSince>>
         \/ \E id \in 0..(FrameHorizon + 1), start \in (-(PreBuffer + MaxLag))..now :
              /\ \A c \in activeStarts : c.id # id
              /\ C!MayClaim(start)
              /\ C!ProtectSince(activeStarts \union {[id |-> id, start |-> start]})
<1>0. /\ ts \in Int /\ frameTs < ts /\ ts <= now /\ now - MaxLag <= ts /\ ts <= FrameHorizon
      /\ now \in Nat /\ nextId \in Nat /\ frameTs \in Int /\ -1 <= frameTs /\ nextId <= frameTs + 1
      /\ frameThread = "ready"
  BY SystemConstants DEF R!FrameTimes, R!TypeOK, PaceInv, R!HandleFrame
<1>1. nextId \in 0..(FrameHorizon + 1)
  BY <1>0, SystemConstants
<1>2. \A c \in activeStarts : c.id # nextId
  <2>1. activeStarts = R!LiveClaims
    BY <1>0 DEF ProtectionInv, R!ActiveStartsExact, R!RollClaim
  <2>2. /\ \A i \in DOMAIN jobs : jobs[i].id \in Nat /\ jobs[i].id < nextId
        /\ window # None => window.id \in Nat /\ window.id < nextId
        /\ \A w \in R!Workers : processing[w] # None => processing[w].id \in Nat /\ processing[w].id < nextId
    <3>1. /\ \A i \in DOMAIN jobs : jobs[i] \in R!Job
          /\ window # None => window \in R!Window
          /\ \A w \in R!Workers : processing[w] # None => processing[w] \in R!Job
      BY DEF R!TypeOK
    <3>2. /\ \A i \in DOMAIN jobs : jobs[i].id < nextId
          /\ window # None => window.id < nextId
          /\ \A w \in R!Workers : processing[w] # None => processing[w].id < nextId
      BY DEF ProtectionInv, IdsDistinct
    <3> QED
      BY <3>1, <3>2 DEF R!Job, R!Window
  <2> QED
    BY <1>0, <2>1, <2>2 DEF R!LiveClaims, R!OpenClaim, R!QueuedClaims, R!BusyClaim,
       R!ClaimOf, R!Workers
<1>3. ASSUME NEW start \in Int, -PreBuffer <= start, start <= ts, C!MayClaim(start),
             R!RegisterActiveStart(nextId, start)
      PROVE  \E id \in 0..(FrameHorizon + 1), st \in (-(PreBuffer + MaxLag))..now :
              /\ \A c \in activeStarts : c.id # id
              /\ C!MayClaim(st)
              /\ C!ProtectSince(activeStarts \union {[id |-> id, start |-> st]})
  <2>1. start \in (-(PreBuffer + MaxLag))..now
    BY <1>0, <1>3, SystemConstants
  <2>2. C!ProtectSince(activeStarts \union {[id |-> nextId, start |-> start]})
    BY <1>3 DEF R!RegisterActiveStart, C!ProtectSince, R!Earliest, C!Earliest, R!Starts,
       C!Starts
  <2> QED
    BY <1>1, <1>2, <1>3, <2>1, <2>2
<1>4. CASE R!IgnoreFrame(motion) \/ R!FinishEvent(ts, motion)
  BY <1>4 DEF R!IgnoreFrame, R!FinishEvent, R!claimVars
<1>5. CASE R!OpenWindow(ts, motion)
  <2>1. R!RegisterActiveStart(nextId, ts - PreBuffer)
    BY <1>5 DEF R!OpenWindow, R!WindowStart
  <2>2. C!MayClaim(ts - PreBuffer)
    BY <1>0, SystemConstants DEF C!MayClaim
  <2>3. ts - PreBuffer \in Int /\ -PreBuffer <= ts - PreBuffer /\ ts - PreBuffer <= ts
    BY <1>0, SystemConstants
  <2> QED
    BY <1>3, <2>1, <2>2, <2>3
<1>6. CASE R!Accumulate(ts, motion)
  <2>1. CASE ~(ts - window.chunkStart >= MaxChunk)
    BY <1>6, <2>1 DEF R!Accumulate, R!claimVars
  <2>2. CASE ts - window.chunkStart >= MaxChunk
    <3>1. R!RegisterActiveStart(nextId, ts - Overlap) /\ window # None /\ window \in R!Window
      BY <1>6, <2>2 DEF R!Accumulate, R!TypeOK
    <3>2. window.start \in Int /\ window.chunkStart \in Int
      BY <3>1 DEF R!Window
    <3>3. /\ window.start <= window.chunkStart - PreBuffer \/ window.start <= window.chunkStart - Overlap
          /\ window.chunkStart <= frameTs /\ -PreBuffer <= window.start
      BY <3>1 DEF PaceInv
    <3>4. Overlap <= PreBuffer + MaxChunk /\ {Overlap, PreBuffer, MaxChunk} \subseteq Nat
      BY SystemConstants
    <3>5. window.start <= ts - Overlap
      BY <1>0, <2>2, <3>2, <3>3, <3>4
    <3>6. protectedSince # None /\ protectedSince \in Int /\ protectedSince <= window.start
      <4>1. [id |-> window.id, start |-> window.start] \in activeStarts
        BY <3>1 DEF ProtectionInv, R!ActiveStartsExact, R!LiveClaims, R!OpenClaim, R!ClaimOf
      <4>2. window.start \in R!Starts(activeStarts)
        BY <4>1 DEF R!Starts
      <4>3. protectedSince \in R!Starts(activeStarts) /\ protectedSince <= window.start
        BY <4>1, <4>2 DEF ProtectionInv, ProtectsEarliest, R!Earliest
      <4>4. protectedSince \in Int
        BY <4>3 DEF R!TypeOK, R!Starts, R!Claim
      <4> QED
        BY <4>3, <4>4, SystemConstants
    <3>7. C!MayClaim(ts - Overlap)
      BY <1>0, <3>2, <3>4, <3>5, <3>6 DEF C!MayClaim
    <3> QED
      BY <1>0, <1>3, <3>1, <3>2, <3>3, <3>4, <3>5, <3>7
  <2> QED
    BY <2>1, <2>2
<1> QED
  BY <1>4, <1>5, <1>6 DEF R!HandleFrame

LEMMA CacheStep == R!TypeOK /\ ProtectionInv /\ PaceInv /\ [Next]_vars => [C!Next]_C!vars
<1> SUFFICES ASSUME R!TypeOK, ProtectionInv, PaceInv, [Next]_vars PROVE [C!Next]_C!vars
  OBVIOUS
<1>1. CASE \E ts \in R!FrameTimes, motion \in BOOLEAN : HandleFrame(ts, motion)
  <2>1. PICK ts \in R!FrameTimes, motion \in BOOLEAN : R!HandleFrame(ts, motion)
    BY <1>1 DEF HandleFrame
  <2>2. UNCHANGED cacheVars /\ UNCHANGED now
    BY <1>1 DEF HandleFrame, R!HandleFrame
  <2>3. UNCHANGED <<C!streamVars, C!pruneVars>>
    BY <2>2 DEF cacheVars, C!streamVars, C!pruneVars
  <2>4. UNCHANGED C!claimVars \/ C!AddClaim
    BY <2>1, <2>2, <2>3, FrameIsClient DEF C!AddClaim, C!claimVars
  <2> QED
    BY <2>2, <2>3, <2>4 DEF C!Next, C!vars
<1>2. CASE RollChunk \/ TakeJob \/ FlushOnShutdown \/ SetAssemblerStop \/ Finished \/ UNCHANGED vars
  <2>1. UNCHANGED <<now, activeStarts, protectedSince, cacheVars>>
    BY <1>2 DEF RollChunk, R!RollChunk, TakeJob, R!TakeJob, FlushOnShutdown,
       R!FlushOnShutdown, SetAssemblerStop, R!SetAssemblerStop, Finished, R!Finished, vars,
       claimVars, R!claimVars, R!vars
  <2> QED
    BY <2>1 DEF cacheVars, C!vars, C!claimVars, C!streamVars, C!pruneVars
<1>3. CASE \E w \in Workers : StopWaiting(w) \/ ListJobSegments(w) \/ AssembleClip(w)
  <2>1. UNCHANGED <<now, claimVars, cacheVars>>
    BY <1>3 DEF StopWaiting, ListJobSegments, AssembleClip
  <2> QED
    BY <2>1 DEF cacheVars, claimVars, C!vars, C!claimVars, C!streamVars, C!pruneVars
<1>4. CASE \E w \in Workers : ReleaseJob(w)
  <2>1. PICK w \in R!Workers : R!ReleaseJob(w)
    BY <1>4 DEF ReleaseJob, Workers, R!Workers
  <2>2. UNCHANGED cacheVars /\ UNCHANGED now
    BY <1>4 DEF ReleaseJob, R!ReleaseJob
  <2>3. UNCHANGED <<C!streamVars, C!pruneVars>>
    BY <2>2 DEF cacheVars, C!streamVars, C!pruneVars
  <2> DEFINE c == [id |-> processing[w].id, start |-> processing[w].start]
  <2>4. c \in activeStarts
    BY <2>1 DEF R!ReleaseJob, ProtectionInv, R!ActiveStartsExact, R!LiveClaims, R!BusyClaim,
       R!ClaimOf, R!Workers
  <2>5. C!ProtectSince(activeStarts \ {c})
    BY <2>1 DEF R!ReleaseJob, R!ReleaseActiveStart, C!ProtectSince, R!Earliest, C!Earliest,
       R!Starts, C!Starts
  <2> QED
    BY <2>2, <2>3, <2>4, <2>5 DEF C!DropClaim, C!Next
<1>5. CASE StreamStep \/ PruneStep \/ Tick
  BY <1>5 DEF StreamStep, PruneStep, Tick, C!Next
<1> QED
  BY <1>1, <1>2, <1>3, <1>4, <1>5 DEF Next, WorkerStep

-----------------------------------------------------------------------------
(* The workers                                                             *)

LEMMA SystemInit == Init => IInv
<1> SUFFICES ASSUME Init PROVE IInv
  OBVIOUS
<1>1. R!TypeOK /\ ProtectionInv /\ PaceInv /\ CacheInv
  BY TypeInit, ProtectionInit, PaceInit, PrunerInit DEF Init
<1>2. WorkerInv /\ ListedInv
  BY DEF Init, R!Init, WorkerInv, ListedInv, Workers, R!Workers
<1> QED
  BY <1>1, <1>2 DEF IInv

LEMMA WorkerNext == R!TypeOK /\ Phases /\ WorkerInv /\ [Next]_vars => WorkerInv'
<1> SUFFICES ASSUME R!TypeOK, Phases, WorkerInv, [Next]_vars PROVE WorkerInv'
  OBVIOUS
<1>0. /\ Workers = {"assembler", "main"} /\ None \notin R!Job
      /\ processing \in [Workers -> R!Job \union {None}] /\ DOMAIN processing = Workers
      /\ DOMAIN workerPc = Workers
  BY SystemConstants DEF Workers, R!Workers, R!TypeOK, WorkerInv
<1>1. CASE UNCHANGED processing /\ UNCHANGED <<workerPc, listed>>
  BY <1>1 DEF WorkerInv
<1>2. CASE (\E ts \in R!FrameTimes, motion \in BOOLEAN : HandleFrame(ts, motion)) \/ RollChunk
             \/ SetAssemblerStop \/ StreamStep \/ PruneStep \/ Tick \/ Finished \/ UNCHANGED vars
  <2>1. UNCHANGED processing /\ UNCHANGED <<workerPc, listed>>
    BY <1>2 DEF HandleFrame, R!HandleFrame, RollChunk, R!RollChunk, SetAssemblerStop,
       R!SetAssemblerStop, StreamStep, PruneStep, Tick, Finished, R!Finished, R!vars, R!jobVars,
       vars, recorderVars, workerVars
  <2> QED
    BY <1>1, <2>1
<1>3. CASE TakeJob
  <2>1. Head(jobs) \in R!Job
    BY <1>3 DEF TakeJob, R!TakeJob, R!TypeOK
  <2>2. /\ processing' = [processing EXCEPT !["assembler"] = Head(jobs)]
        /\ workerPc' = [workerPc EXCEPT !["assembler"] = "waiting"] /\ UNCHANGED listed
    BY <1>3 DEF TakeJob, R!TakeJob, StartJob
  <2> QED
    BY <1>0, <2>1, <2>2 DEF WorkerInv
<1>4. CASE FlushOnShutdown
  <2>1. CASE window = None
    BY <1>1, <1>4, <2>1 DEF FlushOnShutdown, R!FlushOnShutdown
  <2>2. CASE window # None
    <3>1. R!JobOf(window, window.lastFrame) \in R!Job
      BY <2>2, JobOfType DEF R!TypeOK, R!Window
    <3>2. /\ processing' = [processing EXCEPT !["main"] = R!JobOf(window, window.lastFrame)]
          /\ workerPc' = [workerPc EXCEPT !["main"] = "waiting"] /\ UNCHANGED listed
      BY <1>4, <2>2 DEF FlushOnShutdown, R!FlushOnShutdown, StartJob
    <3> QED
      BY <1>0, <3>1, <3>2 DEF WorkerInv
  <2> QED
    BY <2>1, <2>2
<1>5. CASE \E w \in Workers : StopWaiting(w) \/ ListJobSegments(w) \/ AssembleClip(w)
  <2>1. PICK w \in Workers, pc \in {"listing", "assembling", "releasing"} :
          /\ workerPc[w] # "idle" /\ workerPc' = [workerPc EXCEPT ![w] = pc]
    BY <1>5 DEF StopWaiting, ListJobSegments, AssembleClip
  <2>2. UNCHANGED processing /\ DOMAIN listed' = Workers
    BY <1>5 DEF StopWaiting, ListJobSegments, AssembleClip, recorderVars, WorkerInv
  <2> QED
    BY <1>0, <2>1, <2>2 DEF WorkerInv
<1>6. CASE \E w \in Workers : ReleaseJob(w)
  <2>1. PICK w \in Workers : /\ processing' = [processing EXCEPT ![w] = None]
                             /\ workerPc' = [workerPc EXCEPT ![w] = "idle"] /\ UNCHANGED listed
    BY <1>6 DEF ReleaseJob, R!ReleaseJob
  <2> QED
    BY <1>0, <2>1 DEF WorkerInv
<1> QED
  BY <1>2, <1>3, <1>4, <1>5, <1>6 DEF Next, WorkerStep

\* What list_segments leaves out ends before the window.
LEMMA ListingComplete ==
  ASSUME R!TypeOK, PaceInv, CacheInv, NEW start \in Int, NEW end \in Int,
         NEW s \in DOMAIN files, files[s].from < end,
         s \notin C!ListSegments(DOMAIN files, start, end)
  PROVE  /\ files[s].to <= start + C!Excess
         /\ s = writing => s + SegmentSeconds <= start
<1>0. /\ s \in Int /\ files[s].from \in Int /\ files[s].to \in Int
      /\ s = C!NameTime(files[s].from) /\ files[s].to - files[s].from <= MaxSegment
      /\ \A n \in DOMAIN files : n \in Int /\ files[n].from \in Int /\ n = C!NameTime(files[n].from)
                                 /\ (s < n => files[s].to <= files[n].from)
      /\ writing # None => \A n \in DOMAIN files : n <= writing
  BY DEF CacheInv, StreamInv, FilesInv, WritingInv, C!TypeOK, C!File
<1>1. /\ TicksPerSecond \in Nat \ {0} /\ SegmentSeconds \in Nat /\ MaxSegment \in Nat
      /\ SegmentSeconds <= MaxSegment
      /\ C!Excess = MaxSegment - SegmentSeconds + TicksPerSecond - 1
  BY Assumed DEF C!SegmentAssumption, C!Excess
<1>2. s <= files[s].from /\ files[s].from < s + TicksPerSecond
  BY <1>0, NameTimeBounds
<1>3. ~C!EndsAfter(DOMAIN files, s, start)
  BY <1>0, <1>2 DEF C!ListSegments
<1>4. CASE s + SegmentSeconds <= start
  BY <1>0, <1>1, <1>2, <1>4
<1>5. CASE \E n \in DOMAIN files : s < n /\ n <= start
  <2>1. PICK n \in DOMAIN files : s < n /\ n <= start
    BY <1>5
  <2>2. files[n].from < n + TicksPerSecond /\ files[s].to <= files[n].from /\ n \in Int
        /\ files[n].from \in Int
    BY <1>0, <2>1, NameTimeBounds
  <2>3. s # writing
    BY <1>0, <2>1, SystemConstants
  <2> QED
    BY <1>0, <1>1, <2>1, <2>2, <2>3
<1> QED
  BY <1>0, <1>1, <1>3, <1>4, <1>5 DEF C!EndsAfter

\* The stream and the pruner: a new file begins now, which is after every job's
\* window, and no other file changes its times but by growing at a tick.
LEMMA FilesMove ==
  ASSUME R!TypeOK, CacheInv, CacheInv', StreamStep \/ PruneStep \/ Tick,
         NEW s \in DOMAIN files', files'[s].from < now
  PROVE  /\ s \in DOMAIN files /\ files'[s].from = files[s].from
         /\ s = writing' => s = writing
         /\ files'[s].to = files[s].to \/ s = writing
<1>0. now \in Int /\ now \in Nat
  BY DEF CacheInv, StreamInv, C!TypeOK
<1>1. CASE C!StartStream
  BY <1>0, <1>1 DEF C!StartStream, C!WithNewFile, C!NewFile
<1>2. CASE C!CutSegment
  <2>1. /\ writing \in DOMAIN files /\ writing' = C!NameTime(now)
        /\ files' = C!WithNewFile([files EXCEPT ![writing].state = "closed"])
    BY <1>2 DEF C!CutSegment, CacheInv, StreamInv, WritingInv
  <2> DEFINE settled == [files EXCEPT ![writing].state = "closed"]
  <2>2. /\ DOMAIN settled = DOMAIN files
        /\ \A r \in DOMAIN files : settled[r].from = files[r].from /\ settled[r].to = files[r].to
    BY <2>1 DEF CacheInv, StreamInv, C!TypeOK, C!File
  <2>3. files' = C!WithNewFile(settled)
    BY <2>1
  <2> HIDE DEF settled
  <2> QED
    BY <1>0, <2>1, <2>2, <2>3 DEF C!WithNewFile, C!NewFile
<1>3. CASE C!Stall
  BY <1>3 DEF C!Stall
<1>4. CASE C!ExitStream \/ C!KillStalled
  <2>1. writing \in DOMAIN files /\ writing' = None
    BY <1>4 DEF C!ExitStream, C!KillStalled, C!Exit, CacheInv, StreamInv, WritingInv
  <2>2. PICK state \in {"closed", "broken"} : files' = [files EXCEPT ![writing].state = state]
    BY <1>4 DEF C!ExitStream, C!KillStalled, C!Exit
  <2>3. \A r \in DOMAIN files : files[r] \in C!File /\ r \in Int
    BY DEF CacheInv, StreamInv, C!TypeOK
  <2> QED
    BY <2>1, <2>2, <2>3, SystemConstants DEF C!File
<1>5. CASE C!PruneRead \/ C!PruneList
  BY <1>5 DEF C!PruneRead, C!PruneList, C!streamVars
<1>6. CASE \E r \in victims : C!Unlink(r)
  BY <1>6 DEF C!Unlink
<1>7. CASE C!Tick
  <2>1. writing # None => writing \in DOMAIN files
    BY DEF CacheInv, StreamInv, WritingInv
  <2>2. \A r \in DOMAIN files : files[r] \in C!File
    BY DEF CacheInv, StreamInv, C!TypeOK
  <2>3. files' = IF writing # None /\ flowing THEN [files EXCEPT ![writing].to = now + 1] ELSE files
    BY <1>7 DEF C!Tick
  <2>4. writing' = writing
    BY <1>7 DEF C!Tick
  <2> QED
    BY <2>1, <2>2, <2>3, <2>4 DEF C!File
<1> QED
  BY <1>1, <1>2, <1>3, <1>4, <1>5, <1>6, <1>7 DEF StreamStep, PruneStep, Tick, C!StreamNext,
     C!PruneNext

LEMMA ListedNext == IInv /\ CacheInv' /\ [Next]_vars => ListedInv'
<1> SUFFICES ASSUME IInv, CacheInv', [Next]_vars, NEW w \in Workers, workerPc'[w] = "assembling",
                    NEW s \in DOMAIN files', files'[s].from < processing'[w].end, s \notin listed'[w]
             PROVE  /\ files'[s].to <= processing'[w].start + C!Excess
                    /\ s = writing' => s + SegmentSeconds <= processing'[w].start
  BY DEF ListedInv, C!Excess
<1>0. /\ R!TypeOK /\ PaceInv /\ CacheInv /\ WorkerInv /\ ListedInv
      /\ DOMAIN processing = Workers /\ DOMAIN workerPc = Workers /\ DOMAIN listed = Workers
      /\ now \in Nat
  BY DEF IInv, R!TypeOK, WorkerInv, Workers, R!Workers
<1>j. processing[w] # None =>
        processing[w].start \in Int /\ processing[w].end \in Int /\ processing[w].end <= now
  BY <1>0 DEF R!TypeOK, R!Job, PaceInv, Workers
<1>1. CASE UNCHANGED <<files, writing>> /\ workerPc[w] = "assembling"
           /\ processing'[w] = processing[w] /\ listed'[w] = listed[w]
  BY <1>0, <1>1 DEF ListedInv
<1>2. CASE StreamStep \/ PruneStep \/ Tick
  <2>1. UNCHANGED <<processing, workerPc, listed>>
    BY <1>2 DEF StreamStep, PruneStep, Tick, recorderVars, workerVars
  <2>2. processing[w] # None
    BY <1>0, <2>1 DEF WorkerInv
  <2>3. files'[s].from < now
    <3>1. files'[s].from \in Int
      BY DEF CacheInv, StreamInv, C!TypeOK, C!File
    <3> QED
      BY <1>0, <1>j, <2>1, <2>2, <3>1
  <2>4. /\ s \in DOMAIN files /\ files'[s].from = files[s].from
        /\ s = writing' => s = writing
        /\ files'[s].to = files[s].to \/ s = writing
    BY <1>0, <1>2, <2>3, FilesMove
  <2>5. /\ files[s].to <= processing[w].start + C!Excess
        /\ s = writing => s + SegmentSeconds <= processing[w].start
    BY <1>0, <2>1, <2>4 DEF ListedInv
  <2>6. CASE s = writing
    <3>1. /\ s \in Int /\ files'[s].from \in Int /\ files'[s].to \in Int
          /\ s = C!NameTime(files'[s].from) /\ files'[s].to - files'[s].from <= MaxSegment
      BY DEF CacheInv, StreamInv, FilesInv, C!TypeOK, C!File
    <3>2. files'[s].from < s + TicksPerSecond
      BY <3>1, NameTimeBounds
    <3>3. /\ TicksPerSecond \in Nat \ {0} /\ SegmentSeconds \in Nat /\ MaxSegment \in Nat
          /\ C!Excess = MaxSegment - SegmentSeconds + TicksPerSecond - 1
      BY Assumed DEF C!SegmentAssumption, C!Excess
    <3> QED
      BY <1>j, <2>1, <2>2, <2>5, <2>6, <3>1, <3>2, <3>3
  <2> QED
    BY <2>1, <2>4, <2>5, <2>6
<1>3. CASE (\E ts \in R!FrameTimes, motion \in BOOLEAN : HandleFrame(ts, motion)) \/ RollChunk
             \/ SetAssemblerStop \/ Finished \/ UNCHANGED vars
  <2>1. UNCHANGED processing /\ UNCHANGED <<workerPc, listed>> /\ UNCHANGED <<files, writing>>
    BY <1>3 DEF HandleFrame, R!HandleFrame, RollChunk, R!RollChunk, SetAssemblerStop,
       R!SetAssemblerStop, Finished, R!Finished, R!vars, R!jobVars,
       vars, recorderVars, workerVars, cacheVars
  <2> QED
    BY <1>1, <2>1
<1>4. CASE TakeJob
  <2>1. /\ processing' = [processing EXCEPT !["assembler"] = Head(jobs)]
        /\ workerPc' = [workerPc EXCEPT !["assembler"] = "waiting"]
        /\ UNCHANGED listed /\ UNCHANGED <<files, writing>>
    BY <1>4 DEF TakeJob, R!TakeJob, StartJob, cacheVars
  <2> QED
    BY <1>0, <1>1, <2>1
<1>5. CASE FlushOnShutdown
  <2>1. UNCHANGED listed /\ UNCHANGED <<files, writing>>
    BY <1>5 DEF FlushOnShutdown, cacheVars
  <2>2. CASE window = None
    BY <1>1, <1>5, <2>1, <2>2 DEF FlushOnShutdown, R!FlushOnShutdown
  <2>3. CASE window # None
    <3>1. /\ processing' = [processing EXCEPT !["main"] = R!JobOf(window, window.lastFrame)]
          /\ workerPc' = [workerPc EXCEPT !["main"] = "waiting"]
      BY <1>5, <2>3 DEF FlushOnShutdown, R!FlushOnShutdown, StartJob
    <3> QED
      BY <1>0, <1>1, <2>1, <3>1
  <2> QED
    BY <2>2, <2>3
<1>6. CASE \E v \in Workers : StopWaiting(v) \/ AssembleClip(v)
  <2>1. PICK v \in Workers : StopWaiting(v) \/ AssembleClip(v)
    BY <1>6
  <2>2. /\ \E pc \in {"listing", "releasing"} : workerPc' = [workerPc EXCEPT ![v] = pc]
        /\ \A u \in Workers \ {v} : listed'[u] = listed[u]
        /\ UNCHANGED processing /\ UNCHANGED <<files, writing>>
    BY <1>0, <2>1 DEF StopWaiting, AssembleClip, recorderVars, cacheVars
  <2> QED
    BY <1>0, <1>1, <2>2
<1>7. CASE \E v \in Workers : ListJobSegments(v)
  <2>1. PICK v \in Workers : ListJobSegments(v)
    BY <1>7
  <2>2. /\ workerPc' = [workerPc EXCEPT ![v] = IF listed'[v] = {} THEN "releasing" ELSE "assembling"]
        /\ listed' = [listed EXCEPT ![v] =
             C!ListSegments(DOMAIN files, processing[v].start, processing[v].end)]
        /\ UNCHANGED processing /\ UNCHANGED <<files, writing>>
        /\ workerPc[v] # "idle"
    BY <2>1 DEF ListJobSegments, recorderVars, cacheVars
  <2>3. CASE w = v
    <3>1. processing[w] # None
      BY <1>0, <2>2, <2>3 DEF WorkerInv
    <3>2. s \notin C!ListSegments(DOMAIN files, processing[w].start, processing[w].end)
      BY <1>0, <2>2, <2>3
    <3> QED
      BY <1>0, <1>j, <2>2, <3>1, <3>2, ListingComplete
  <2>4. CASE w # v
    BY <1>0, <1>1, <2>2, <2>4
  <2> QED
    BY <2>3, <2>4
<1>8. CASE \E v \in Workers : ReleaseJob(v)
  <2>1. PICK v \in Workers :
          /\ processing' = [processing EXCEPT ![v] = None]
          /\ workerPc' = [workerPc EXCEPT ![v] = "idle"]
          /\ UNCHANGED listed /\ UNCHANGED <<files, writing>>
    BY <1>8 DEF ReleaseJob, R!ReleaseJob, cacheVars
  <2> QED
    BY <1>0, <1>1, <2>1
<1> QED
  BY <1>2, <1>3, <1>4, <1>5, <1>6, <1>7, <1>8 DEF Next, WorkerStep

LEMMA SystemInductive == IInv /\ [Next]_vars => IInv'
<1> SUFFICES ASSUME IInv, [Next]_vars PROVE IInv'
  OBVIOUS
<1>1. R!TypeOK' /\ ProtectionInv' /\ PaceInv'
  BY RecorderStep, TypeNext, ProtectionNext, PaceNext DEF IInv
<1>2. CacheInv'
  BY CacheStep, CacheInductive DEF IInv
<1>3. WorkerInv'
  BY WorkerNext DEF IInv, ProtectionInv
<1>4. ListedInv'
  BY <1>2, ListedNext
<1> QED
  BY <1>1, <1>2, <1>3, <1>4 DEF IInv

LEMMA SystemInvariant == Spec => []IInv
<1>1. IInv /\ [Next]_vars => IInv'
  BY SystemInductive
<1> QED
  BY <1>1, SystemInit, PTL DEF Spec

\* The system's threads are the recorder and a client, a stream and a pruner of
\* the cache: every behaviour of the whole is one of each of the two component
\* specifications, which meet in protect_since
\* (recorder.py:252 and segment_cache.py:78) and list_segments (recorder.py:293) alone.
THEOREM SystemImplementsComponents == Spec => ComponentSpecs
<1>1. Init => R!Init /\ C!Init
  BY DEF Init
<1>2. IInv /\ [Next]_vars => [R!Next]_R!vars
  BY RecorderStep
<1>3. IInv /\ [Next]_vars => [C!Next]_C!vars
  BY CacheStep DEF IInv
<1>4. Spec => R!Spec
  BY <1>1, <1>2, SystemInvariant, PTL DEF Spec, R!Spec
<1>5. Spec => C!Spec
  BY <1>1, <1>3, SystemInvariant, PTL DEF Spec, C!Spec
<1> QED
  BY <1>4, <1>5 DEF ComponentSpecs

\* Between list_segments and the end of ffmpeg's concat (recorder.py:304), what
\* the job listed is all the footage of its window, and the pruner has not
\* unlinked any of it before.
THEOREM WindowsFullyListed == Spec => []WindowFullyListed
<1>1. IInv => WindowFullyListed
  <2> SUFFICES ASSUME IInv, NEW w \in Workers, workerPc[w] = "assembling"
               PROVE  LET job == processing[w]
                      IN  /\ \A s \in DOMAIN files :
                               files[s].to > job.start + C!Excess /\ files[s].from < job.end
                                 => s \in listed[w]
                          /\ lastLost <= job.start + C!Excess
    BY DEF WindowFullyListed
  <2>1. processing[w] \in R!Job /\ processing[w] # None
    BY DEF IInv, WorkerInv, R!TypeOK, Workers, R!Workers
  <2>2. ASSUME NEW s \in DOMAIN files, files[s].to > processing[w].start + C!Excess,
               files[s].from < processing[w].end
        PROVE  s \in listed[w]
    <3>1. files[s].to \in Int /\ processing[w].start + C!Excess \in Int
      BY <2>1, Assumed DEF IInv, CacheInv, StreamInv, C!TypeOK, C!File, R!Job,
         C!Excess, C!SegmentAssumption
    <3> QED
      BY <2>2, <3>1 DEF IInv, ListedInv
  <2>3. lastLost <= processing[w].start + C!Excess
    <3>1. [id |-> processing[w].id, start |-> processing[w].start] \in activeStarts
      BY <2>1 DEF IInv, ProtectionInv, R!ActiveStartsExact, R!LiveClaims, R!BusyClaim,
         R!ClaimOf, Workers, R!Workers
    <3>2. C!ClaimedFootageKept
      BY DEF IInv, CacheInv, LostInv, C!ClaimedFootageKept
    <3> QED
      BY <3>1, <3>2 DEF C!ClaimedFootageKept
  <2> QED
    BY <2>2, <2>3
<1> QED
  BY <1>1, SystemInvariant, PTL

-----------------------------------------------------------------------------
(* What an outage can cost.  The invariant                                 *)

\* The stream has been seen to start and to break off in the order it did, and
\* the footage of the file being written ends where the stream does.
HistoryInv ==
  /\ IsTime(startedAt) /\ IsTime(outageAt) /\ IsTime(backAt)
  /\ startedAt = None => writing = None
  /\ writing # None => backAt # None
  /\ outageAt # None => outageAt <= now
  /\ startedAt # None /\ ~flowing => outageAt # None
  /\ flowing => files[writing].to = now
  /\ writing # None /\ ~flowing => outageAt <= files[writing].to

\* Only the file being written is open, and only a stream that broke off left a
\* file without its index, which the next run's files follow.
StatesInv ==
  \A s \in DOMAIN files :
    /\ files[s].state = "open" => s = writing
    /\ files[s].state = "broken" =>
         /\ outageAt # None /\ outageAt <= files[s].to
         /\ writing = None \/ \E n \in DOMAIN files : s < n /\ n <= backAt

\* The camera sent at t: before the first outage, or since the last one.
Flowed(t) ==
  \/ startedAt # None /\ startedAt <= t /\ (outageAt = None \/ t < outageAt)
  \/ flowing /\ backAt <= t

\* What the camera sent and the pruner has not unlinked is in some file.
FootageInv ==
  \A t \in Int : lastLost <= t /\ t < now /\ Flowed(t) =>
    \E s \in DOMAIN files : files[s].from <= t /\ t < files[s].to

\* By their names, the victims end before all claims and before what is always
\* kept; and they are the oldest files there are.
DueInv ==
  prunePc = "unlink" =>
    \A s \in victims :
      /\ ~C!EndsAfter(DOMAIN files, s, now - CacheKeepSeconds)
      /\ \A c \in activeStarts : ~C!EndsAfter(DOMAIN files, s, c.start)
      /\ \A r \in DOMAIN files : r <= s => r \in victims

\* A window no longer than what the names of segments do not tell.
TooShort(job) == job.end <= job.start + C!Excess

WaitEnd(job) == job.end + SegmentSeconds + 2 * TicksPerSecond
Waited(job)  == phase = "stopped" \/ RolledOver(job) \/ now >= WaitEnd(job)

\* What each step of _process_job leaves to the next.
JobsInv ==
  /\ deadline \in [Workers -> Int]
  /\ \A w \in Workers : workerPc[w] # "idle" /\ ~TooShort(processing[w]) =>
       /\ workerPc[w] = "waiting" => deadline[w] >= WaitEnd(processing[w])
       /\ workerPc[w] \in {"listing", "assembling"} => Waited(processing[w])
       /\ workerPc[w] = "assembling" => \A s \in listed[w] :
            s \in DOMAIN files /\ s < processing[w].end
              /\ C!EndsAfter(DOMAIN files, s, processing[w].start)
       /\ workerPc[w] = "releasing" => processing[w] \in saved \/ Excused(processing[w])

-----------------------------------------------------------------------------
(* The pruner *)

\* list_segments and prune compare _segment_end with a time
\* (segment_cache.py:254, 267): seg_end > t is what EndsAfter says, for any
\* segments, since of those that start later one is the first.
THEOREM EndDecides ==
  ASSUME NEW S, S \subseteq Int, NEW s \in S, NEW t \in Int
  PROVE  C!EndsAfter(S, s, t) <=> C!SegmentEnd(S, s) > t
<1> DEFINE First(n) == n > s /\ \A m \in S : m > s => n <= m
           next == CHOOSE n \in S : First(n)
<1>1. s \in Int /\ s + SegmentSeconds \in Int
  BY Constants
<1>2. CASE \A n \in S : ~(n > s)
  BY <1>1, <1>2 DEF C!EndsAfter, C!SegmentEnd
<1>3. CASE \E n \in S : n > s
  <2>1. \E n \in S : First(n)
    <3> DEFINE gaps == {n - s : n \in {m \in S : m > s}}
    <3>1. gaps \subseteq Nat /\ gaps # {}
      BY <1>1, <1>3
    <3>2. PICK g \in gaps : \A h \in gaps : g <= h
      <4> HIDE DEF gaps
      <4>1. PICK g \in gaps : \A h \in gaps : <<h, g>> \notin OpToRel(<, Nat)
        BY <3>1, NatLessThanWellFounded, WFMin
      <4>2. ASSUME NEW h \in gaps, <<h, g>> \notin OpToRel(<, Nat) PROVE g <= h
        BY <3>1, <4>2 DEF OpToRel
      <4> QED
        BY <4>1, <4>2
    <3>3. PICK n \in S : n > s /\ g = n - s
      OBVIOUS
    <3>4. ASSUME NEW m \in S, m > s PROVE n <= m
      <4>1. m - s \in gaps /\ m \in Int /\ n \in Int
        BY <3>4
      <4> HIDE DEF gaps
      <4>2. g <= m - s
        BY <3>2, <4>1
      <4> QED
        BY <1>1, <3>3, <4>1, <4>2
    <3> QED
      BY <3>3, <3>4
  <2>2. next \in S /\ First(next)
    BY <2>1
  <2>3. C!SegmentEnd(S, s) = IF next < s + SegmentSeconds THEN next ELSE s + SegmentSeconds
    BY <1>3 DEF C!SegmentEnd
  <2> HIDE DEF next
  <2>4. (\A n \in S : n > s => n > t) <=> next > t
    <3>1. ASSUME next > t, NEW n \in S, n > s PROVE n > t
      BY <2>2, <3>1
    <3> QED
      BY <2>2, <3>1
  <2>5. C!EndsAfter(S, s, t) <=> s + SegmentSeconds > t /\ next > t
    BY <2>4 DEF C!EndsAfter
  <2> QED
    BY <1>1, <2>2, <2>3, <2>5
<1> QED
  BY <1>2, <1>3

\* More files, or a later time, do not make a segment end any later.
LEMMA EndStays ==
  ASSUME NEW S, NEW U, S \subseteq U, U \subseteq Int, NEW s \in Int,
         NEW t \in Int, NEW u \in Int, t <= u, ~C!EndsAfter(S, s, t)
  PROVE  ~C!EndsAfter(U, s, u)
BY Constants DEF C!EndsAfter

\* Nor do fewer, as long as those left out are not the later ones.
LEMMA EndStaysWithout ==
  ASSUME NEW S, S \subseteq Int, NEW r \in S, NEW s \in S, r <= s, NEW t \in Int,
         ~C!EndsAfter(S, s, t)
  PROVE  ~C!EndsAfter(S \ {r}, s, t)
BY DEF C!EndsAfter

LEMMA DueList == ASSUME CacheInv, C!PruneList PROVE DueInv'
<1> DEFINE F == DOMAIN files
           cutoff == now - CacheKeepSeconds
<1>1. /\ victims' = C!PruneVictims(F, cutoff, pruneProtected) /\ prunePc = "read"
      /\ UNCHANGED <<now, activeStarts, files>>
  BY DEF C!PruneList, C!claimVars, C!streamVars
<1>2. /\ now \in Nat /\ activeStarts \subseteq C!Claim /\ pruneReadAt \in Nat
      /\ C!IsTime(pruneProtected) /\ F \subseteq Int /\ cutoff \in Int
  BY Constants DEF CacheInv, StreamInv, C!TypeOK
<1>3. \A s \in victims' :
        /\ s \in F /\ \A r \in F : r <= s => ~C!EndsAfter(F, r, cutoff)
        /\ pruneProtected = None \/ ~C!EndsAfter(F, s, pruneProtected)
  BY <1>1 DEF C!PruneVictims
<1> SUFFICES ASSUME NEW s \in victims'
             PROVE  /\ ~C!EndsAfter(F, s, cutoff)
                    /\ \A c \in activeStarts : ~C!EndsAfter(F, s, c.start)
                    /\ \A r \in F : r <= s => r \in victims'
  BY <1>1 DEF DueInv
<1>4. s \in F /\ s \in Int /\ ~C!EndsAfter(F, s, cutoff)
  BY <1>2, <1>3
<1>5. ASSUME NEW c \in activeStarts
      PROVE  ~C!EndsAfter(F, s, c.start)
  <2>1. c.start \in Int /\ now <= pruneReadAt + MaxPruneDelay
    BY <1>1, <1>2 DEF C!Claim, CacheInv, ReadInv
  <2>2. CASE pruneProtected # None /\ pruneProtected <= c.start
    <3>1. pruneProtected \in Int /\ ~C!EndsAfter(F, s, pruneProtected)
      BY <1>2, <1>3, <2>2 DEF C!IsTime
    <3> QED
      BY <1>2, <1>4, <2>1, <2>2, <3>1, EndStays
  <2>3. CASE c.start >= pruneReadAt - (PreBuffer + MaxLag)
    <3>1. cutoff <= c.start
      BY <1>2, <2>1, <2>3, Constants, Assumed DEF C!KeepAssumption
    <3> QED
      BY <1>2, <1>4, <2>1, <3>1, EndStays
  <2> QED
    BY <1>1, <2>2, <2>3 DEF CacheInv, ReadInv
<1>6. ASSUME NEW r \in F, r <= s
      PROVE  r \in victims'
  <2>1. r \in Int /\ \A q \in F : q \in Int
    BY <1>2
  <2>2. \A q \in F : q <= r => ~C!EndsAfter(F, q, cutoff)
    BY <1>3, <1>4, <1>6, <2>1
  <2>3. pruneProtected = None \/ ~C!EndsAfter(F, r, pruneProtected)
    BY <1>2, <1>3, <1>4, <1>6, <2>1, BreakIsFilter DEF C!IsTime
  <2> HIDE DEF F, cutoff
  <2> QED
    BY <1>1, <1>6, <2>2, <2>3 DEF C!PruneVictims
<1> QED
  BY <1>4, <1>5, <1>6

LEMMA DueNext == ASSUME CacheInv, DueInv, [C!Next]_C!vars PROVE DueInv'
<1> DEFINE F == DOMAIN files
<1>0. /\ now \in Nat /\ activeStarts \subseteq C!Claim /\ F \subseteq Int
      /\ now - CacheKeepSeconds \in Int
      /\ prunePc = "unlink" => victims \subseteq F
  BY Constants DEF CacheInv, StreamInv, C!TypeOK, VictimsInv
<1>1. CASE C!AddClaim
  <2>1. PICK id \in 0..(FrameHorizon + 1), start \in (-(PreBuffer + MaxLag))..now :
          /\ C!MayClaim(start)
          /\ activeStarts' = activeStarts \union {[id |-> id, start |-> start]}
    BY <1>1 DEF C!AddClaim, C!ProtectSince
  <2>2. UNCHANGED <<now, files, prunePc, victims>> /\ start \in Int
    BY <1>0, <1>1, Constants DEF C!AddClaim, C!streamVars, C!pruneVars
  <2>3. ASSUME prunePc = "unlink", NEW s \in victims
        PROVE  ~C!EndsAfter(F, s, start)
    <3>1. /\ s \in F /\ s \in Int /\ ~C!EndsAfter(F, s, now - CacheKeepSeconds)
          /\ \A c \in activeStarts : ~C!EndsAfter(F, s, c.start)
      BY <1>0, <2>3 DEF DueInv
    <3>2. CASE start >= now - (PreBuffer + MaxLag)
      <4>1. now - CacheKeepSeconds <= start
        BY <1>0, <2>2, <3>2, Constants, Assumed DEF C!KeepAssumption
      <4> QED
        BY <1>0, <2>2, <3>1, <4>1, EndStays
    <3>3. CASE protectedSince # None /\ start >= protectedSince
      <4>1. PICK c \in activeStarts : c.start = protectedSince
        BY <1>0, <3>3, EarliestIsClaimed DEF CacheInv
      <4>2. c.start \in Int /\ c.start <= start
        BY <1>0, <3>3, <4>1 DEF C!Claim
      <4> QED
        BY <1>0, <2>2, <3>1, <4>2, EndStays
    <3> QED
      BY <2>1, <3>2, <3>3 DEF C!MayClaim
  <2> QED
    BY <2>1, <2>2, <2>3 DEF DueInv
<1>2. CASE C!DropClaim
  <2>1. UNCHANGED <<now, files, prunePc, victims>> /\ activeStarts' \subseteq activeStarts
    BY <1>2 DEF C!DropClaim, C!ProtectSince, C!streamVars, C!pruneVars
  <2> QED
    BY <2>1 DEF DueInv
<1>3. CASE C!StreamNext
  <2>1. UNCHANGED <<now, activeStarts, prunePc, victims>>
    BY <1>3 DEF C!StreamNext, C!StartStream, C!CutSegment, C!Stall, C!ExitStream, C!KillStalled,
       C!claimVars, C!pruneVars
  <2>2. /\ F \subseteq DOMAIN files' /\ DOMAIN files' \subseteq Int
        /\ \A r \in DOMAIN files' \ F : \A s \in F : s < r
    <3>1. CASE C!StartStream \/ C!CutSegment
      <4>1. C!NameTime(now) \in Int
        BY <1>0, NameTimeBounds
      <4> QED
        BY <1>0, <3>1, <4>1, FileAdded, NewNameIsLast DEF CacheInv
    <3>2. CASE C!Stall \/ C!ExitStream \/ C!KillStalled
      BY <1>0, <3>2, FilesKept DEF CacheInv
    <3> QED
      BY <1>3, <3>1, <3>2 DEF C!StreamNext
  <2>3. ASSUME prunePc = "unlink", NEW s \in victims
        PROVE  /\ ~C!EndsAfter(DOMAIN files', s, now - CacheKeepSeconds)
               /\ \A c \in activeStarts : ~C!EndsAfter(DOMAIN files', s, c.start)
               /\ \A r \in DOMAIN files' : r <= s => r \in victims
    <3>1. /\ s \in F /\ s \in Int /\ \A c \in activeStarts : c.start \in Int
      BY <1>0, <2>3 DEF C!Claim
    <3>2. \A r \in DOMAIN files' : r <= s => r \in F
      BY <1>0, <2>2, <3>1
    <3>3. ~C!EndsAfter(DOMAIN files', s, now - CacheKeepSeconds)
      BY <1>0, <2>2, <2>3, <3>1, EndStays DEF DueInv
    <3>4. \A c \in activeStarts : ~C!EndsAfter(DOMAIN files', s, c.start)
      BY <1>0, <2>2, <2>3, <3>1, EndStays DEF DueInv
    <3> QED
      BY <2>3, <3>2, <3>3, <3>4 DEF DueInv
  <2> QED
    BY <2>1, <2>3 DEF DueInv
<1>4. CASE C!PruneRead
  BY <1>4 DEF C!PruneRead, DueInv
<1>5. CASE C!PruneList
  BY <1>5, DueList
<1>6. CASE \E v \in victims : C!Unlink(v)
  <2>1. PICK v \in victims : C!Unlink(v)
    BY <1>6
  <2>2. /\ prunePc = "unlink" /\ \A r \in victims : v <= r
        /\ DOMAIN files' = F \ {v} /\ victims' = victims \ {v}
        /\ UNCHANGED <<now, activeStarts>>
    BY <2>1 DEF C!Unlink, C!claimVars
  <2>3. ASSUME NEW s \in victims'
        PROVE  /\ ~C!EndsAfter(F \ {v}, s, now - CacheKeepSeconds)
               /\ \A c \in activeStarts : ~C!EndsAfter(F \ {v}, s, c.start)
               /\ \A r \in F \ {v} : r <= s => r \in victims'
    <3>1. /\ s \in F /\ v \in F /\ v <= s /\ s \in victims
          /\ \A c \in activeStarts : c.start \in Int
      BY <1>0, <2>2, <2>3 DEF C!Claim
    <3>2. /\ ~C!EndsAfter(F, s, now - CacheKeepSeconds)
          /\ \A c \in activeStarts : ~C!EndsAfter(F, s, c.start)
          /\ \A r \in F : r <= s => r \in victims
      BY <2>2, <3>1 DEF DueInv
    <3> HIDE DEF F
    <3>3. ~C!EndsAfter(F \ {v}, s, now - CacheKeepSeconds)
      BY <1>0, <3>1, <3>2, EndStaysWithout
    <3>4. \A c \in activeStarts : ~C!EndsAfter(F \ {v}, s, c.start)
      BY <1>0, <3>1, <3>2, EndStaysWithout
    <3> QED
      BY <2>2, <3>2, <3>3, <3>4
  <2>4. F \ {v} = DOMAIN files' /\ now' = now /\ activeStarts' = activeStarts
    BY <2>2
  <2> HIDE DEF F
  <2> QED
    BY <2>3, <2>4 DEF DueInv
<1>7. CASE C!Tick
  <2>1. /\ now' = now + 1 /\ UNCHANGED <<activeStarts, prunePc, victims>>
        /\ DOMAIN files' = F
    BY <1>7, FileGrows DEF C!Tick, C!claimVars, C!pruneVars, CacheInv
  <2> DEFINE t == now - CacheKeepSeconds
             u == now' - CacheKeepSeconds
  <2>2. t \in Int /\ u \in Int /\ t <= u
    BY <1>0, <2>1, Constants
  <2>3. ASSUME prunePc = "unlink", NEW s \in victims
        PROVE  ~C!EndsAfter(F, s, u)
    <3>1. s \in Int /\ F \subseteq F /\ ~C!EndsAfter(F, s, t)
      BY <1>0, <2>3 DEF DueInv
    <3> HIDE DEF F, t, u
    <3> QED
      BY <1>0, <2>2, <3>1, EndStays
  <2> QED
    BY <2>1, <2>3 DEF DueInv
<1>8. CASE UNCHANGED C!vars
  BY <1>8 DEF C!vars, C!claimVars, C!streamVars, C!pruneVars, DueInv
<1> QED
  BY <1>1, <1>2, <1>3, <1>4, <1>5, <1>6, <1>7, <1>8 DEF C!Next, C!PruneNext

-----------------------------------------------------------------------------
(* The stream, and the footage it leaves                                   *)

\* What a step of the stream does to the states of the files.
LEMMA FileStates ==
  ASSUME StreamInv
  PROVE  /\ C!StartStream => /\ files'[C!NameTime(now)].state = "open"
                             /\ \A s \in DOMAIN files : files'[s].state = files[s].state
         /\ C!CutSegment => /\ files'[C!NameTime(now)].state = "open"
                            /\ \A s \in DOMAIN files : files'[s].state =
                                 IF s = writing THEN "closed" ELSE files[s].state
         /\ C!ExitStream => \A s \in DOMAIN files : files'[s].state =
                              IF s = writing THEN "closed" ELSE files[s].state
         /\ C!KillStalled => \A s \in DOMAIN files : files'[s].state =
                               IF s = writing THEN "broken" ELSE files[s].state
<1> DEFINE n == C!NameTime(now)
<1>1. files \in [DOMAIN files -> C!File] /\ (writing # None => writing \in DOMAIN files)
  BY DEF StreamInv, C!TypeOK, WritingInv
<1>n. n \in Int
  BY NameTimeBounds DEF StreamInv, C!TypeOK
<1>2. C!StartStream \/ C!CutSegment => n \notin DOMAIN files
  <2>1. ~(n < n)
    BY <1>n
  <2> QED
    BY <2>1, NewNameIsLast
<1>3. ASSUME C!StartStream
      PROVE  /\ files'[n].state = "open"
             /\ \A s \in DOMAIN files : files'[s].state = files[s].state
  <2>1. files' = [s \in DOMAIN files \union {n} |-> IF s = n THEN C!NewFile ELSE files[s]]
    BY <1>3 DEF C!StartStream, C!WithNewFile
  <2> HIDE DEF n
  <2> QED
    BY <1>2, <1>3, <2>1 DEF C!NewFile
<1>4. ASSUME C!CutSegment
      PROVE  /\ files'[n].state = "open"
             /\ \A s \in DOMAIN files : files'[s].state =
                  IF s = writing THEN "closed" ELSE files[s].state
  <2> DEFINE settled == [files EXCEPT ![writing].state = "closed"]
  <2>1. writing \in DOMAIN files
    BY <1>1, <1>4 DEF C!CutSegment
  <2>2. /\ DOMAIN settled = DOMAIN files
        /\ settled[writing].state = "closed"
        /\ \A s \in DOMAIN files : s # writing => settled[s] = files[s]
    BY <1>1, <2>1 DEF C!File
  <2>3. files' = [s \in DOMAIN settled \union {n} |-> IF s = n THEN C!NewFile ELSE settled[s]]
    BY <1>4 DEF C!CutSegment, C!WithNewFile
  <2> HIDE DEF n, settled
  <2> QED
    BY <1>2, <1>4, <2>2, <2>3 DEF C!NewFile
<1>5. ASSUME NEW state, files' = [files EXCEPT ![writing].state = state], writing # None
      PROVE  \A s \in DOMAIN files : files'[s].state =
               IF s = writing THEN state ELSE files[s].state
  BY <1>1, <1>5 DEF C!File
<1> QED
  BY <1>3, <1>4, <1>5 DEF C!ExitStream, C!KillStalled, C!Exit

\* A victim holds nothing of the file being written, which stays as it is.
LEMMA UnlinkSpares ==
  ASSUME CacheInv, NEW v \in victims, C!Unlink(v), writing # None
  PROVE  writing \in DOMAIN files' /\ files'[writing] = files[writing]
<1>1. writing \in DOMAIN files /\ writing # v
  BY DEF C!Unlink, CacheInv, VictimsInv, StreamInv, WritingInv
<1> QED
  BY <1>1, FileUnlinked DEF CacheInv

LEMMA HistoryNext ==
  ASSUME CacheInv, HistoryInv,
         StreamStep \/ PruneStep \/ Tick \/ UNCHANGED <<now, cacheVars, outageVars>>
  PROVE  HistoryInv'
<1>0. /\ now \in Nat /\ flowing \in BOOLEAN /\ (flowing => writing # None)
      /\ writing # None => /\ writing \in DOMAIN files /\ writing \in Int
                           /\ files[writing].to \in Int /\ files[writing].to <= now
      /\ None \notin Int
  BY Constants DEF CacheInv, StreamInv, C!TypeOK, WritingInv, FilesInv, C!File, C!IsTime
<1>1. CASE StreamStep
  <2>1. /\ now' = now
        /\ startedAt' = IF startedAt = None THEN now ELSE startedAt
        /\ outageAt' = IF outageAt = None /\ flowing /\ ~flowing' THEN now ELSE outageAt
        /\ backAt' = IF writing = None THEN now ELSE backAt
    BY <1>1 DEF StreamStep, C!StreamNext, C!StartStream, C!CutSegment, C!Stall, C!ExitStream,
       C!KillStalled
  <2>2. IsTime(startedAt)' /\ IsTime(outageAt)' /\ IsTime(backAt)' /\ startedAt' # None
        /\ (outageAt' # None => outageAt' <= now')
    BY <1>0, <2>1 DEF HistoryInv, IsTime
  <2>3. CASE C!StartStream
    <3>1. writing = None /\ flowing' = TRUE /\ writing' = C!NameTime(now) /\ writing' # None
      BY <1>0, <2>3, NameTimeBounds DEF C!StartStream
    <3>2. files'[writing'].to = now
      BY <2>3, <3>1, FileAdded DEF CacheInv
    <3> QED
      BY <1>0, <2>1, <2>2, <3>1, <3>2 DEF HistoryInv
  <2>4. CASE C!CutSegment
    <3>1. writing # None /\ flowing' = flowing /\ flowing /\ writing' = C!NameTime(now) /\ writing' # None
      BY <1>0, <2>4, NameTimeBounds DEF C!CutSegment
    <3>2. files'[writing'].to = now
      BY <2>4, <3>1, FileAdded DEF CacheInv
    <3> QED
      BY <1>0, <2>1, <2>2, <3>1, <3>2 DEF HistoryInv
  <2>5. CASE C!Stall
    <3>1. writing # None /\ flowing /\ ~flowing' /\ writing' = writing /\ files' = files
      BY <2>5 DEF C!Stall
    <3>2. outageAt' # None /\ outageAt' <= now /\ files[writing].to = now /\ backAt' # None
      BY <1>0, <2>1, <3>1 DEF HistoryInv
    <3> QED
      BY <1>0, <2>1, <2>2, <3>1, <3>2 DEF HistoryInv
  <2>6. CASE C!ExitStream \/ C!KillStalled
    <3>1. writing # None /\ ~flowing' /\ writing' = None
      BY <2>6 DEF C!ExitStream, C!KillStalled, C!Exit
    <3>2. startedAt # None /\ outageAt' # None /\ backAt' # None
      BY <1>0, <2>1, <3>1 DEF HistoryInv
    <3> QED
      BY <1>0, <2>1, <2>2, <3>1, <3>2 DEF HistoryInv
  <2> QED
    BY <1>1, <2>3, <2>4, <2>5, <2>6 DEF StreamStep, C!StreamNext
<1>2. CASE PruneStep
  <2>1. UNCHANGED <<now, writing, flowing, startedAt, outageAt, backAt>>
    BY <1>2 DEF PruneStep, C!PruneNext, C!PruneRead, C!PruneList, C!Unlink, C!streamVars,
       outageVars
  <2>2. writing # None => files'[writing] = files[writing]
    BY <1>2, UnlinkSpares DEF PruneStep, C!PruneNext, C!PruneRead, C!PruneList, C!streamVars
  <2> QED
    BY <1>0, <2>1, <2>2 DEF HistoryInv, IsTime
<1>3. CASE Tick
  <2>1. /\ UNCHANGED <<writing, flowing, startedAt, outageAt, backAt>> /\ now' = now + 1
    BY <1>3 DEF Tick, C!Tick, outageVars
  <2>2. writing # None => files'[writing].to = IF flowing THEN now + 1 ELSE files[writing].to
    BY <1>0, <1>3, FileGrows DEF Tick, CacheInv
  <2>3. outageAt # None => outageAt' <= now'
    BY <1>0, <2>1 DEF HistoryInv, IsTime
  <2> QED
    BY <1>0, <2>1, <2>2, <2>3 DEF HistoryInv, IsTime
<1>4. CASE UNCHANGED <<now, cacheVars, outageVars>>
  BY <1>4 DEF cacheVars, outageVars, HistoryInv, IsTime
<1> QED
  BY <1>1, <1>2, <1>3, <1>4

LEMMA StatesNext ==
  ASSUME CacheInv, DueInv, HistoryInv, StatesInv,
         StreamStep \/ PruneStep \/ Tick \/ UNCHANGED <<now, cacheVars, outageVars>>
  PROVE  StatesInv'
<1>0. /\ now \in Nat /\ flowing \in BOOLEAN /\ DOMAIN files \subseteq Int
      /\ writing # None => /\ writing \in DOMAIN files /\ files[writing].to \in Int
                           /\ files[writing].to <= now
      /\ None \notin DOMAIN files /\ None \notin Int
  BY Constants DEF CacheInv, StreamInv, C!TypeOK, WritingInv, FilesInv, C!File
<1>1. CASE StreamStep
  <2>1. /\ now' = now
        /\ outageAt' = IF outageAt = None /\ flowing /\ ~flowing' THEN now ELSE outageAt
        /\ backAt' = IF writing = None THEN now ELSE backAt
    BY <1>1 DEF StreamStep, C!StreamNext, C!StartStream, C!CutSegment, C!Stall, C!ExitStream,
       C!KillStalled
  <2>2. outageAt # None => outageAt' = outageAt
    BY <2>1
  <2>3. CASE C!StartStream \/ C!CutSegment
    <3> DEFINE n == C!NameTime(now)
    <3>1. /\ DOMAIN files' = DOMAIN files \union {n} /\ writing' = n
          /\ n \in Int /\ n <= now /\ \A s \in DOMAIN files : s < n
          /\ files'[n].state = "open"
          /\ \A s \in DOMAIN files : files'[s].to = files[s].to
      <4>1. n \in Int /\ n <= now /\ writing' = n /\ StreamInv
        BY <1>0, <2>3, NameTimeBounds DEF CacheInv, C!StartStream, C!CutSegment
      <4>2. files'[n].state = "open"
        BY <2>3, <4>1, FileStates
      <4> QED
        BY <2>3, <4>1, <4>2, FileAdded, NewNameIsLast
    <3> HIDE DEF n
    <3>2. n \in DOMAIN files'
      BY <3>1
    <3>3. ASSUME NEW s \in DOMAIN files
          PROVE  /\ files'[s].state # "open"
                 /\ files'[s].state = "broken" => files[s].state = "broken"
      <4>1. CASE C!StartStream
        <5>1. files'[s].state = files[s].state /\ writing = None
          BY <4>1, FileStates DEF CacheInv, C!StartStream
        <5> QED
          BY <1>0, <5>1 DEF StatesInv
      <4>2. CASE C!CutSegment
        <5>1. files'[s].state = IF s = writing THEN "closed" ELSE files[s].state
          BY <4>2, FileStates DEF CacheInv
        <5> QED
          BY <5>1 DEF StatesInv
      <4> QED
        BY <2>3, <4>1, <4>2
    <3>4. ASSUME NEW s \in DOMAIN files, files'[s].state = "broken"
          PROVE  /\ outageAt' # None /\ outageAt' <= files'[s].to
                 /\ \E m \in DOMAIN files' : s < m /\ m <= backAt'
      <4>1. outageAt # None /\ outageAt <= files[s].to
            /\ (writing = None \/ \E m \in DOMAIN files : s < m /\ m <= backAt)
        BY <3>3, <3>4 DEF StatesInv
      <4>2. CASE writing = None
        <5>1. backAt' = now /\ s < n /\ n <= now
          BY <2>1, <3>1, <4>2
        <5> QED
          BY <2>2, <3>1, <3>2, <4>1, <5>1
      <4>3. CASE writing # None
        <5>1. backAt' = backAt
          BY <2>1, <4>3
        <5> QED
          BY <2>2, <3>1, <4>1, <4>3, <5>1
      <4> QED
        BY <4>2, <4>3
    <3> QED
      BY <3>1, <3>3, <3>4 DEF StatesInv
  <2>4. CASE C!Stall
    <3>1. writing' = writing /\ files' = files /\ writing # None
      BY <2>4 DEF C!Stall
    <3> QED
      BY <2>1, <2>2, <3>1 DEF StatesInv
  <2>5. CASE C!ExitStream \/ C!KillStalled
    <3>1. writing # None /\ writing' = None /\ ~flowing'
          /\ DOMAIN files' = DOMAIN files
          /\ \A s \in DOMAIN files : files'[s].to = files[s].to
      BY <2>5, FilesKept DEF C!ExitStream, C!KillStalled, C!Exit, CacheInv
    <3>2. \A s \in DOMAIN files : s # writing => files'[s].state = files[s].state
      BY <2>5, FileStates DEF CacheInv
    <3>3. files'[writing].state # "open"
      BY <1>0, <2>5, <3>1, FileStates DEF CacheInv
    <3>4. outageAt' # None /\ outageAt' <= files[writing].to
      <4>1. CASE flowing
        BY <1>0, <2>1, <3>1, <4>1 DEF HistoryInv
      <4>2. CASE ~flowing
        <5>1. outageAt # None /\ outageAt <= files[writing].to
          BY <3>1, <4>2 DEF HistoryInv
        <5> QED
          BY <2>2, <5>1
      <4> QED
        BY <4>1, <4>2
    <3>5. ASSUME NEW s \in DOMAIN files
          PROVE  /\ files'[s].state # "open"
                 /\ files'[s].state = "broken" => outageAt' # None /\ outageAt' <= files'[s].to
      <4>1. CASE s = writing
        BY <3>1, <3>3, <3>4, <4>1
      <4>2. CASE s # writing
        BY <2>2, <3>1, <3>2, <4>2 DEF StatesInv
      <4> QED
        BY <4>1, <4>2
    <3> QED
      BY <3>1, <3>5 DEF StatesInv
  <2> QED
    BY <1>1, <2>3, <2>4, <2>5 DEF StreamStep, C!StreamNext
<1>2. CASE PruneStep
  <2>1. UNCHANGED <<now, writing, flowing, startedAt, outageAt, backAt>>
    BY <1>2 DEF PruneStep, C!PruneNext, C!PruneRead, C!PruneList, C!Unlink, C!streamVars,
       outageVars
  <2>2. CASE C!PruneRead \/ C!PruneList
    BY <2>1, <2>2 DEF C!PruneRead, C!PruneList, C!streamVars, StatesInv
  <2>3. CASE \E v \in victims : C!Unlink(v)
    <3>1. PICK v \in victims : C!Unlink(v)
      BY <2>3
    <3>2. /\ DOMAIN files' = DOMAIN files \ {v} /\ \A r \in DOMAIN files' : files'[r] = files[r]
          /\ v \in DOMAIN files /\ v \in Int
      BY <1>0, <3>1, FileUnlinked DEF CacheInv, VictimsInv, C!Unlink
    \* The oldest file goes first, so no file is left behind by its successors.
    <3>3. \A r \in DOMAIN files' : v < r
      <4>1. SUFFICES ASSUME NEW r \in DOMAIN files', r <= v PROVE FALSE
        BY <1>0, <3>2
      <4>2. r \in victims /\ r # v /\ r \in Int
        BY <1>0, <3>1, <3>2, <4>1 DEF DueInv, C!Unlink
      <4>3. v <= r
        BY <3>1, <4>2 DEF C!Unlink
      <4> QED
        BY <3>2, <4>1, <4>2, <4>3
    <3>4. ASSUME NEW s \in DOMAIN files', NEW n \in DOMAIN files, s < n
          PROVE  n \in DOMAIN files'
      <4>1. s \in Int /\ n \in Int /\ v < s
        BY <1>0, <3>2, <3>3
      <4> QED
        BY <3>2, <3>4, <4>1
    <3> QED
      BY <2>1, <3>2, <3>4 DEF StatesInv
  <2> QED
    BY <1>2, <2>2, <2>3 DEF PruneStep, C!PruneNext
<1>3. CASE Tick
  <2>1. /\ UNCHANGED <<writing, flowing, startedAt, outageAt, backAt>> /\ now' = now + 1
    BY <1>3 DEF Tick, C!Tick, outageVars
  <2>2. /\ DOMAIN files' = DOMAIN files
        /\ \A s \in DOMAIN files : /\ files[s].to \in Int /\ files[s].to <= now
                                   /\ files'[s].to \in {files[s].to, now + 1}
    BY <1>3, FileGrows DEF Tick, CacheInv, StreamInv, C!TypeOK, FilesInv, C!File
  <2>3. \A s \in DOMAIN files : files'[s].state = files[s].state
    <3>1. \A s \in DOMAIN files : files[s] \in C!File
      BY DEF CacheInv, StreamInv, C!TypeOK
    <3>2. files' = files \/ (writing \in DOMAIN files /\ files' = [files EXCEPT ![writing].to = now + 1])
      BY <1>0, <1>3 DEF Tick, C!Tick
    <3> QED
      BY <3>1, <3>2 DEF C!File
  <2>4. outageAt # None => outageAt \in Int
    BY DEF HistoryInv, IsTime
  <2>5. \A s \in DOMAIN files : outageAt # None /\ outageAt <= files[s].to => outageAt <= files'[s].to
    BY <1>0, <2>2, <2>4
  <2> QED
    BY <2>1, <2>2, <2>3, <2>5 DEF StatesInv
<1>4. CASE UNCHANGED <<now, cacheVars, outageVars>>
  BY <1>4 DEF cacheVars, outageVars, StatesInv
<1> QED
  BY <1>1, <1>2, <1>3, <1>4

LEMMA FootageNext ==
  ASSUME CacheInv, HistoryInv, FootageInv,
         StreamStep \/ PruneStep \/ Tick \/ UNCHANGED <<now, cacheVars, outageVars>>
  PROVE  FootageInv'
<1>0. /\ now \in Nat /\ flowing \in BOOLEAN /\ lastLost \in Int
      /\ \A s \in DOMAIN files : files[s].from \in Int /\ files[s].to \in Int
                                 /\ files[s].from <= files[s].to /\ files[s].to <= now
      /\ IsTime(startedAt) /\ IsTime(outageAt) /\ IsTime(backAt) /\ None \notin Int
  BY Constants DEF CacheInv, StreamInv, C!TypeOK, FilesInv, C!File, HistoryInv
<1> SUFFICES ASSUME NEW t \in Int, lastLost' <= t, t < now', Flowed(t)'
             PROVE  \E s \in DOMAIN files' : files'[s].from <= t /\ t < files'[s].to
  BY DEF FootageInv
<1>1. CASE StreamStep
  <2>1. /\ now' = now /\ lastLost' = lastLost
        /\ startedAt' = IF startedAt = None THEN now ELSE startedAt
        /\ outageAt' = IF outageAt = None /\ flowing /\ ~flowing' THEN now ELSE outageAt
        /\ backAt' = IF writing = None THEN now ELSE backAt
    BY <1>1 DEF StreamStep, C!StreamNext, C!StartStream, C!CutSegment, C!Stall, C!ExitStream,
       C!KillStalled, C!pruneVars
  <2>2. /\ DOMAIN files \subseteq DOMAIN files'
        /\ \A s \in DOMAIN files : files'[s].from = files[s].from /\ files'[s].to = files[s].to
    BY <1>1, FileAdded, FilesKept DEF StreamStep, C!StreamNext, CacheInv
  <2>3. flowing' => flowing \/ writing = None
    BY <1>1 DEF StreamStep, C!StreamNext, C!StartStream, C!CutSegment, C!Stall, C!ExitStream,
       C!KillStalled, C!Exit
  \* A stream that starts now has sent nothing yet.
  <2>4. Flowed(t)
    <3>1. CASE startedAt' # None /\ startedAt' <= t /\ (outageAt' = None \/ t < outageAt')
      <4>1. startedAt # None /\ startedAt' = startedAt
        BY <1>0, <2>1, <3>1
      <4>2. outageAt = None \/ t < outageAt
        BY <2>1, <3>1
      <4> QED
        BY <3>1, <4>1, <4>2 DEF Flowed
    <3>2. CASE flowing' /\ backAt' <= t
      <4>1. writing # None
        BY <1>0, <2>1, <3>2
      <4> QED
        BY <2>1, <2>3, <3>2, <4>1 DEF Flowed
    <3> QED
      BY <3>1, <3>2 DEF Flowed
  <2>5. PICK s \in DOMAIN files : files[s].from <= t /\ t < files[s].to
    BY <2>1, <2>4 DEF FootageInv
  <2> QED
    BY <2>2, <2>5
<1>2. CASE PruneStep
  <2>1. UNCHANGED <<now, flowing, startedAt, outageAt, backAt>>
    BY <1>2 DEF PruneStep, C!PruneNext, C!PruneRead, C!PruneList, C!Unlink, C!streamVars,
       outageVars
  <2>2. Flowed(t)
    BY <2>1 DEF Flowed
  <2>3. CASE C!PruneRead \/ C!PruneList
    <3>1. lastLost' = lastLost /\ files' = files
      BY <2>3 DEF C!PruneRead, C!PruneList, C!streamVars
    <3> QED
      BY <2>1, <2>2, <3>1 DEF FootageInv
  <2>4. CASE \E v \in victims : C!Unlink(v)
    <3>1. PICK v \in victims : C!Unlink(v)
      BY <2>4
    <3>2. v \in DOMAIN files /\ lastLost' = IF files[v].to > lastLost THEN files[v].to ELSE lastLost
      BY <3>1 DEF CacheInv, VictimsInv, C!Unlink
    <3>3. lastLost <= t /\ files[v].to <= t
      BY <1>0, <3>2
    <3>4. PICK s \in DOMAIN files : files[s].from <= t /\ t < files[s].to
      BY <2>1, <2>2, <3>3 DEF FootageInv
    <3>5. s # v
      BY <1>0, <3>3, <3>4
    <3> QED
      BY <3>1, <3>4, <3>5, FileUnlinked DEF CacheInv
  <2> QED
    BY <1>2, <2>3, <2>4 DEF PruneStep, C!PruneNext
<1>3. CASE Tick
  <2>1. UNCHANGED <<writing, flowing, startedAt, outageAt, backAt, lastLost>> /\ now' = now + 1
    BY <1>3 DEF Tick, C!Tick, outageVars, C!pruneVars
  <2>2. Flowed(t)
    BY <2>1 DEF Flowed
  <2>3. /\ DOMAIN files' = DOMAIN files
        /\ \A s \in DOMAIN files :
             /\ files'[s].from = files[s].from
             /\ files'[s].to = IF s = writing /\ flowing THEN now + 1 ELSE files[s].to
    BY <1>3, FileGrows DEF Tick, CacheInv
  <2>4. CASE t < now
    <3>1. PICK s \in DOMAIN files : files[s].from <= t /\ t < files[s].to
      BY <2>1, <2>2, <2>4 DEF FootageInv
    <3>2. t < files'[s].to
      BY <1>0, <2>3, <3>1
    <3> QED
      BY <2>3, <3>1, <3>2
  \* What is sent now goes to the file being written.
  <2>5. CASE t = now
    <3>1. flowing
      <4>1. outageAt = None \/ outageAt <= t
        BY <2>5 DEF HistoryInv
      <4>2. outageAt = None \/ ~(t < outageAt)
        BY <1>0, <4>1 DEF IsTime
      <4> QED
        BY <2>2, <4>2 DEF Flowed, HistoryInv
    <3>2. writing # None /\ writing \in DOMAIN files
      BY <3>1 DEF CacheInv, StreamInv, C!TypeOK, WritingInv
    <3>3. files'[writing].from <= t /\ t < files'[writing].to
      <4>1. files[writing].from <= now
        BY <1>0, <3>2
      <4> QED
        BY <1>0, <2>3, <2>5, <3>1, <3>2, <4>1
    <3> QED
      BY <2>3, <3>2, <3>3
  <2> QED
    BY <1>0, <2>1, <2>4, <2>5
<1>4. CASE UNCHANGED <<now, cacheVars, outageVars>>
  BY <1>4 DEF cacheVars, outageVars, FootageInv, Flowed
<1> QED
  BY <1>1, <1>2, <1>3, <1>4

-----------------------------------------------------------------------------
(* What one step leaves of a job's prospects                               *)

LEMMA CacheMovesAlone ==
  ASSUME [Next]_vars
  PROVE  StreamStep \/ PruneStep \/ Tick \/ UNCHANGED <<now, cacheVars, outageVars>>
<1>1. CASE (\E ts \in R!FrameTimes, motion \in BOOLEAN : HandleFrame(ts, motion)) \/ RollChunk
             \/ TakeJob \/ FlushOnShutdown \/ SetAssemblerStop \/ Finished
  BY <1>1 DEF HandleFrame, R!HandleFrame, RollChunk, R!RollChunk, TakeJob, R!TakeJob,
     FlushOnShutdown, R!FlushOnShutdown, SetAssemblerStop, R!SetAssemblerStop, Finished,
     R!Finished, R!vars
<1>2. CASE \E w \in Workers : WorkerStep(w)
  BY <1>2 DEF WorkerStep, StopWaiting, ListJobSegments, AssembleClip, ReleaseJob, R!ReleaseJob
<1>3. CASE UNCHANGED vars
  BY <1>3 DEF vars
<1> QED
  BY <1>1, <1>2, <1>3 DEF Next

LEMMA StoppedStays == ASSUME [Next]_vars, phase = "stopped" PROVE phase' = "stopped"
<1>1. CASE \E ts \in R!FrameTimes, motion \in BOOLEAN : R!HandleFrame(ts, motion)
  BY <1>1 DEF R!HandleFrame
<1>2. CASE R!RollChunk \/ R!TakeJob \/ R!FlushOnShutdown \/ R!SetAssemblerStop \/ R!Tick
             \/ R!Finished \/ UNCHANGED R!vars
  BY <1>2 DEF R!RollChunk, R!TakeJob, R!FlushOnShutdown, R!SetAssemblerStop, R!Tick,
     R!Finished, R!vars, R!jobVars
<1>3. CASE \E w \in R!Workers : R!ReleaseJob(w)
  BY <1>3 DEF R!ReleaseJob
<1> QED
  BY <1>1, <1>2, <1>3, RecorderStep DEF R!Next

\* A window that is long enough, by its times: it lies in the past.
LEMMA LongJob ==
  ASSUME R!TypeOK, PaceInv, NEW job \in closed, ~TooShort(job)
  PROVE  /\ job.start \in Int /\ job.end \in Int /\ now \in Nat
         /\ job.start + C!Excess < job.end /\ job.end <= now
         /\ job.start + TicksPerSecond - 1 < job.end
<1>1. job.start \in Int /\ job.end \in Int /\ now \in Nat /\ job.end <= now
  BY DEF R!TypeOK, R!Job, PaceInv
<1> QED
  BY <1>1, Constants DEF TooShort

\* A worker's job is a closed window with a claim of its own.
LEMMA WorkersJob ==
  ASSUME IInv, NEW w \in Workers, workerPc[w] # "idle"
  PROVE  /\ processing[w] \in closed /\ processing[w] # None
         /\ \E c \in activeStarts : c.start = processing[w].start
<1>1. processing[w] # None /\ processing[w] \in closed
  BY DEF IInv, WorkerInv, PaceInv
<1>2. [id |-> processing[w].id, start |-> processing[w].start] \in activeStarts
  BY <1>1 DEF IInv, ProtectionInv, R!ActiveStartsExact, R!LiveClaims, R!BusyClaim,
     R!ClaimOf, Workers, R!Workers
<1> QED
  BY <1>1, <1>2

\* An excuse remains one.
LEMMA ExcusedStays ==
  ASSUME IInv, HistoryInv, [Next]_vars, NEW job \in closed,
         ~TooShort(job), Excused(job)
  PROVE  Excused(job)'
<1>1. phase = "stopped" => phase' = "stopped"
  BY StoppedStays
<1>2. /\ job.start \in Int /\ job.end \in Int /\ now \in Nat
      /\ job.start <= now /\ job.end <= now
  <2>1. C!Excess \in Int /\ 0 <= C!Excess
    BY Constants
  <2> QED
    BY <2>1, LongJob DEF IInv
<1>3. CASE StreamStep
  <2>1. /\ startedAt' = IF startedAt = None THEN now ELSE startedAt
        /\ outageAt' = IF outageAt = None /\ flowing /\ ~flowing' THEN now ELSE outageAt
        /\ backAt' = IF writing = None THEN now ELSE backAt
    BY <1>3 DEF StreamStep
  <2>2. writing # None /\ flowing' => flowing
    BY <1>3 DEF StreamStep, C!StreamNext, C!StartStream, C!CutSegment, C!Stall, C!ExitStream,
       C!KillStalled, C!Exit
  <2>3. NoFootageBefore(job.end) => NoFootageBefore(job.end)'
    BY <1>2, <2>1 DEF NoFootageBefore
  <2>4. OutageTouches(job) => OutageTouches(job)'
    <3>1. SUFFICES ASSUME OutageTouches(job) PROVE OutageTouches(job)'
      OBVIOUS
    <3>2. outageAt' = outageAt /\ outageAt' # None
          /\ outageAt' < job.end + TicksPerSecond - 1 + MaxSegment
      BY <2>1, <3>1 DEF OutageTouches
    <3>3. backAt' >= job.start \/ ~flowing'
      <4>1. CASE writing = None
        BY <1>2, <2>1, <4>1
      <4>2. CASE writing # None
        BY <2>1, <2>2, <3>1, <4>2 DEF OutageTouches
      <4> QED
        BY <4>1, <4>2
    <3> QED
      BY <3>2, <3>3 DEF OutageTouches
  <2> QED
    BY <1>1, <2>3, <2>4 DEF Excused
<1>4. CASE ~StreamStep
  <2>1. UNCHANGED <<startedAt, outageAt, backAt, flowing>>
    <3>1. CASE PruneStep \/ Tick
      BY <3>1 DEF PruneStep, Tick, C!Tick, C!PruneNext, C!PruneRead, C!PruneList, C!Unlink,
         C!streamVars, outageVars
    <3>2. CASE UNCHANGED <<now, cacheVars, outageVars>>
      BY <3>2 DEF cacheVars, outageVars
    <3> QED
      BY <1>4, <3>1, <3>2, CacheMovesAlone
  <2> QED
    BY <1>1, <2>1 DEF Excused, NoFootageBefore, OutageTouches
<1> QED
  BY <1>3, <1>4

\* A job's segments stay, and no file that comes later makes one of them end any
\* sooner than the window starts; nor does the file it waited for go.
LEMMA SegmentsStay ==
  ASSUME IInv, DueInv, [Next]_vars, NEW w \in Workers, workerPc[w] # "idle",
         ~TooShort(processing[w]), NEW s \in DOMAIN files,
         C!EndsAfter(DOMAIN files, s, processing[w].start)
  PROVE  s \in DOMAIN files' /\ C!EndsAfter(DOMAIN files', s, processing[w].start)
<1> DEFINE start == processing[w].start
<1>1. /\ start \in Int /\ now \in Nat /\ start + TicksPerSecond - 1 < processing[w].end
      /\ processing[w].end \in Int /\ processing[w].end <= now
      /\ \E c \in activeStarts : c.start = start
  BY WorkersJob, LongJob DEF IInv
<1>2. CASE C!StartStream \/ C!CutSegment
  <2> DEFINE n == C!NameTime(now)
  <2>1. DOMAIN files' = DOMAIN files \union {n}
    BY <1>2, FileAdded DEF IInv, CacheInv
  <2>2. n \in Int /\ start < n
    <3>1. n \in Int /\ now < n + TicksPerSecond /\ TicksPerSecond \in Nat
      BY <1>1, NameTimeBounds, Constants
    <3> HIDE DEF n, start
    <3> QED
      BY <1>1, <3>1
  <2> HIDE DEF n, start
  <2> QED
    BY <1>1, <2>1, <2>2 DEF C!EndsAfter, start
<1>3. CASE C!Stall \/ C!ExitStream \/ C!KillStalled
  BY <1>3, FilesKept DEF IInv, CacheInv
<1>4. CASE PruneStep
  <2>1. CASE C!PruneRead \/ C!PruneList
    BY <2>1 DEF C!PruneRead, C!PruneList, C!streamVars
  <2>2. CASE \E v \in victims : C!Unlink(v)
    <3>1. PICK v \in victims : C!Unlink(v)
      BY <2>2
    <3>2. DOMAIN files' = DOMAIN files \ {v}
      BY <3>1, FileUnlinked DEF IInv, CacheInv
    <3>3. ~C!EndsAfter(DOMAIN files, v, start)
      BY <1>1, <3>1 DEF DueInv, C!Unlink
    <3>4. s # v
      BY <3>3
    <3> QED
      BY <3>2, <3>4 DEF C!EndsAfter
  <2> QED
    BY <1>4, <2>1, <2>2 DEF PruneStep, C!PruneNext
<1>5. CASE Tick
  BY <1>5, FileGrows DEF Tick, IInv, CacheInv
<1>6. CASE UNCHANGED <<now, cacheVars, outageVars>>
  BY <1>6 DEF cacheVars
<1> QED
  BY <1>2, <1>3, <1>4, <1>5, <1>6, CacheMovesAlone DEF StreamStep, C!StreamNext

LEMMA WaitedStays ==
  ASSUME IInv, DueInv, [Next]_vars, NEW w \in Workers, workerPc[w] # "idle",
         NEW job, job = processing[w], ~TooShort(job), Waited(job)
  PROVE  Waited(job)'
<1>1. /\ job.start \in Int /\ job.end \in Int /\ now \in Nat /\ job.start < job.end
  <2>1. C!Excess \in Int /\ 0 <= C!Excess
    BY Constants
  <2> QED
    BY <2>1, WorkersJob, LongJob DEF IInv
<1>2. CASE phase = "stopped"
  BY <1>2, StoppedStays DEF Waited
<1>3. CASE RolledOver(job)
  <2>1. PICK s \in DOMAIN files : s > job.end
    BY <1>3 DEF RolledOver
  <2>2. DOMAIN files \subseteq Int
    BY DEF IInv, CacheInv, StreamInv, C!TypeOK
  <2>3. C!EndsAfter(DOMAIN files, s, job.start)
    BY <1>1, <2>1, <2>2, Constants DEF C!EndsAfter
  <2>4. s \in DOMAIN files'
    BY <2>3, SegmentsStay
  <2> QED
    BY <2>1, <2>4 DEF Waited, RolledOver
<1>4. CASE now >= WaitEnd(job)
  <2>1. now' \in {now, now + 1}
    <3>1. CASE StreamStep \/ PruneStep
      BY <3>1 DEF StreamStep, C!StreamNext, C!StartStream, C!CutSegment, C!Stall, C!ExitStream,
         C!KillStalled, PruneStep, C!PruneNext, C!PruneRead, C!PruneList, C!Unlink
    <3>2. CASE Tick
      BY <3>2 DEF Tick, C!Tick
    <3> QED
      BY <3>1, <3>2, CacheMovesAlone
  <2>2. WaitEnd(job) \in Int
    BY <1>1, Constants DEF WaitEnd
  <2>3. now' >= WaitEnd(job)
    BY <1>1, <1>4, <2>1, <2>2
  <2> QED
    BY <2>3 DEF Waited, WaitEnd
<1> QED
  BY <1>2, <1>3, <1>4 DEF Waited

-----------------------------------------------------------------------------
(* The two ways to lose a window                                           *)

\* A window without segments had no footage: were there any, it would reach
\* from the window's start, or the stream's, into a file that is listed.
LEMMA NothingListed ==
  ASSUME IInv, HistoryInv, FootageInv, NEW w \in Workers, workerPc[w] # "idle",
         NEW job, job = processing[w], ~TooShort(job),
         C!ListSegments(DOMAIN files, job.start, job.end) = {}
  PROVE  Excused(job)
<1> SUFFICES ASSUME ~NoFootageBefore(job.end), ~OutageTouches(job) PROVE FALSE
  BY DEF Excused
<1>1. /\ job.start \in Int /\ job.end \in Int /\ now \in Nat /\ job.end <= now
      /\ job.start + C!Excess < job.end
  BY WorkersJob, LongJob DEF IInv
<1>2. /\ C!Excess \in Int /\ 0 <= C!Excess /\ MaxSegment \in Nat /\ TicksPerSecond \in Nat \ {0}
  BY Constants
<1>3. lastLost \in Int /\ lastLost <= job.start + C!Excess
  BY WorkersJob DEF IInv, CacheInv, LostInv, StreamInv, C!TypeOK
<1>4. startedAt # None /\ startedAt \in Int /\ startedAt < job.end
  BY <1>1 DEF NoFootageBefore, HistoryInv, IsTime
<1>5. ASSUME NEW t \in Int, job.start + C!Excess <= t, t < job.end, Flowed(t)
      PROVE  FALSE
  <2>1. lastLost <= t /\ t < now
    BY <1>1, <1>2, <1>3, <1>5
  <2>2. PICK s \in DOMAIN files : files[s].from <= t /\ t < files[s].to
    BY <1>5, <2>1 DEF FootageInv
  <2>3. files[s].from \in Int /\ files[s].to \in Int
    BY DEF IInv, CacheInv, StreamInv, C!TypeOK, C!File
  <2>4. files[s].from < job.end /\ ~(files[s].to <= job.start + C!Excess)
    BY <1>1, <1>2, <1>5, <2>2, <2>3
  <2> QED
    BY <1>1, <2>4, ListingComplete DEF IInv
<1>6. CASE outageAt = None \/ job.end <= outageAt
  <2> DEFINE t == IF job.start + C!Excess <= startedAt THEN startedAt ELSE job.start + C!Excess
  <2>1. t \in Int /\ job.start + C!Excess <= t /\ startedAt <= t /\ t < job.end
    BY <1>1, <1>2, <1>4
  <2>2. outageAt = None \/ t < outageAt
    <3>1. outageAt # None => outageAt \in Int
      BY DEF HistoryInv, IsTime
    <3> HIDE DEF t
    <3> QED
      BY <1>1, <1>6, <2>1, <3>1
  <2> HIDE DEF t
  <2> QED
    BY <1>4, <1>5, <2>1, <2>2 DEF Flowed
<1>7. CASE outageAt # None /\ outageAt < job.end
  <2>1. outageAt \in Int
    BY <1>7 DEF HistoryInv, IsTime
  <2>2. outageAt < job.end + TicksPerSecond - 1 + MaxSegment
    BY <1>1, <1>2, <1>7, <2>1
  <2>3. flowing /\ ~(backAt >= job.start)
    BY <1>7, <2>2 DEF OutageTouches
  <2>4. backAt \in Int
    BY <2>3 DEF HistoryInv, IsTime, IInv, CacheInv, StreamInv, C!TypeOK
  <2>5. backAt <= job.start + C!Excess /\ job.start + C!Excess \in Int
        /\ job.start + C!Excess <= job.start + C!Excess
    BY <1>1, <1>2, <2>3, <2>4
  <2> QED
    BY <1>1, <1>5, <2>3, <2>5 DEF Flowed
<1>8. outageAt = None \/ outageAt \in Int
  BY DEF HistoryInv, IsTime
<1> QED
  BY <1>1, <1>6, <1>7, <1>8

\* A concat fails on the file being written or on one ffmpeg left unfinished:
\* in the first case the window was waited for, longer than a segment takes; in
\* both the stream broke off before the segment was complete.
LEMMA ConcatFails ==
  ASSUME WaitOutlastsSegment, IInv, HistoryInv, StatesInv, JobsInv,
         NEW w \in Workers, workerPc[w] = "assembling",
         NEW job, job = processing[w], ~TooShort(job), NEW s \in listed[w], ~Readable(s)
  PROVE  Excused(job)
<1> SUFFICES ASSUME phase # "stopped" PROVE OutageTouches(job)
  BY DEF Excused
<1>1. /\ job.start \in Int /\ job.end \in Int /\ now \in Nat /\ job.end <= now
      /\ job.start + TicksPerSecond - 1 < job.end
  BY WorkersJob, LongJob DEF IInv
<1>2. s \in DOMAIN files /\ s < job.end /\ C!EndsAfter(DOMAIN files, s, job.start)
      /\ (RolledOver(job) \/ now >= WaitEnd(job))
  BY DEF JobsInv, Waited
<1>3. /\ s \in Int /\ files[s].from \in Int /\ files[s].to \in Int
      /\ files[s].state \in {"open", "closed", "broken"}
      /\ files[s].to - files[s].from <= MaxSegment /\ files[s].from < s + TicksPerSecond
  <2>1. s \in Int /\ files[s] \in C!File
    BY <1>2 DEF IInv, CacheInv, StreamInv, C!TypeOK
  <2>2. s = C!NameTime(files[s].from) /\ files[s].to - files[s].from <= MaxSegment
    BY <1>2 DEF IInv, CacheInv, StreamInv, FilesInv
  <2> QED
    BY <2>1, <2>2, NameTimeBounds DEF C!File
<1>4. /\ TicksPerSecond \in Nat \ {0} /\ MaxSegment \in Nat /\ SegmentSeconds \in Nat
      /\ None \notin Int
  BY Constants
\* The segment was begun before the end of the window, by its name.
<1>5. files[s].to < job.end + TicksPerSecond - 1 + MaxSegment
  BY <1>1, <1>2, <1>3, <1>4
<1>6. /\ outageAt # None => outageAt \in Int
      /\ backAt # None => backAt \in Int
  BY DEF HistoryInv, IsTime
<1>7. CASE files[s].state = "open"
  <2>1. s = writing /\ writing # None
    BY <1>2, <1>3, <1>4, <1>7 DEF StatesInv
  <2>2. ~RolledOver(job)
    <3>1. \A n \in DOMAIN files : n \in Int /\ n <= s
      BY <2>1 DEF IInv, CacheInv, StreamInv, WritingInv, C!TypeOK
    <3> QED
      BY <1>1, <1>2, <1>3, <3>1 DEF RolledOver
  <2>3. now >= job.end + SegmentSeconds + 2 * TicksPerSecond
    BY <1>2, <2>2 DEF WaitEnd
  <2>4. ~flowing
    <3>1. SUFFICES ASSUME flowing PROVE FALSE
      OBVIOUS
    <3>2. files[s].to = now
      BY <2>1, <3>1 DEF HistoryInv
    <3>3. TicksPerSecond - 2 + MaxSegment < SegmentSeconds + 2 * TicksPerSecond
      BY DEF WaitOutlastsSegment
    <3> QED
      BY <1>1, <1>2, <1>3, <1>4, <2>3, <3>2, <3>3
  <2>5. outageAt # None /\ outageAt <= files[s].to
    BY <2>1, <2>4 DEF HistoryInv
  <2>6. outageAt < job.end + TicksPerSecond - 1 + MaxSegment
    BY <1>1, <1>3, <1>4, <1>5, <1>6, <2>5
  <2> QED
    BY <2>4, <2>5, <2>6 DEF OutageTouches
<1>8. CASE files[s].state = "broken"
  <2>1. /\ outageAt # None /\ outageAt <= files[s].to
        /\ writing = None \/ \E n \in DOMAIN files : s < n /\ n <= backAt
    BY <1>2, <1>8 DEF StatesInv
  <2>2. outageAt < job.end + TicksPerSecond - 1 + MaxSegment
    BY <1>1, <1>3, <1>4, <1>5, <1>6, <2>1
  <2>3. flowing => backAt >= job.start
    <3>1. SUFFICES ASSUME flowing PROVE backAt >= job.start
      OBVIOUS
    <3>2. writing # None /\ backAt \in Int
      BY <1>6, <3>1 DEF HistoryInv, IInv, CacheInv, StreamInv, C!TypeOK
    <3>3. PICK n \in DOMAIN files : s < n /\ n <= backAt
      BY <2>1, <3>2
    <3>4. n > job.start /\ n \in Int
      BY <1>2, <1>3, <3>3 DEF C!EndsAfter, IInv, CacheInv, StreamInv, C!TypeOK
    <3> QED
      BY <1>1, <3>2, <3>3, <3>4
  <2> QED
    BY <2>1, <2>2, <2>3 DEF OutageTouches
<1> QED
  BY <1>2, <1>3, <1>7, <1>8 DEF Readable

-----------------------------------------------------------------------------
(* The workers                                                             *)

LEMMA DeadlinesKept ==
  ASSUME [Next]_vars, now \in Int, deadline \in [Workers -> Int]
  PROVE  deadline' \in [Workers -> Int]
<1>1. CASE UNCHANGED deadline
  BY <1>1
<1>2. CASE \E w \in Workers : StartJob(w) \/ StopWaiting(w)
  <2>1. now + SegmentSeconds + 2 * TicksPerSecond \in Int
    BY Constants
  <2>2. PICK w \in Workers, t \in Int : deadline' = [deadline EXCEPT ![w] = t]
    BY <1>2, <2>1 DEF StartJob, StopWaiting
  <2> QED
    BY <2>2
<1>3. "assembler" \in Workers /\ "main" \in Workers
  BY DEF Workers
<1> QED
  BY <1>1, <1>2, <1>3 DEF Next, HandleFrame, RollChunk, TakeJob, WorkerStep, ListJobSegments,
     AssembleClip, ReleaseJob, FlushOnShutdown, SetAssemblerStop, StreamStep, PruneStep, Tick,
     Finished, vars, workerVars

\* The next step of a worker, or the same one at a later time.
LEMMA JobsNext ==
  ASSUME WaitOutlastsSegment, IInv, IInv', HistoryInv, StatesInv, FootageInv, DueInv, JobsInv,
         [Next]_vars
  PROVE  JobsInv'
<1> DEFINE Kept(w, job) ==
             /\ workerPc'[w] = "waiting" => deadline'[w] >= WaitEnd(job)
             /\ workerPc'[w] \in {"listing", "assembling"} => Waited(job)'
             /\ workerPc'[w] = "assembling" => \A s \in listed'[w] :
                  s \in DOMAIN files' /\ s < job.end /\ C!EndsAfter(DOMAIN files', s, job.start)
             /\ workerPc'[w] = "releasing" => job \in saved' \/ Excused(job)'
<1> SUFFICES ASSUME NEW w \in Workers, NEW job, job = processing'[w], workerPc'[w] # "idle",
                    ~TooShort(job)
             PROVE  Kept(w, job)
  <2>1. deadline' \in [Workers -> Int]
    BY DeadlinesKept DEF JobsInv, IInv, R!TypeOK
  <2> QED
    BY <2>1 DEF JobsInv, TooShort, C!Excess, WaitEnd, C!EndsAfter
<1>0. /\ R!TypeOK /\ PaceInv /\ CacheInv /\ WorkerInv
      /\ DOMAIN processing = Workers /\ DOMAIN workerPc = Workers /\ DOMAIN listed = Workers
      /\ DOMAIN deadline = Workers /\ deadline \in [Workers -> Int] /\ now \in Nat
  BY DEF IInv, R!TypeOK, WorkerInv, Workers, R!Workers, JobsInv
\* Whatever the others do, a worker that stays where it is has what it had.
<1>1. CASE /\ workerPc'[w] = workerPc[w] /\ processing'[w] = processing[w]
           /\ listed'[w] = listed[w] /\ deadline'[w] = deadline[w]
           /\ saved \subseteq saved'
  <2>1. /\ job = processing[w] /\ workerPc[w] # "idle" /\ job \in closed
    BY <1>1, WorkersJob
  <2>2. /\ workerPc[w] = "waiting" => deadline[w] >= WaitEnd(job)
        /\ workerPc[w] \in {"listing", "assembling"} => Waited(job)
        /\ workerPc[w] = "assembling" => \A s \in listed[w] :
             s \in DOMAIN files /\ s < job.end /\ C!EndsAfter(DOMAIN files, s, job.start)
        /\ workerPc[w] = "releasing" => job \in saved \/ Excused(job)
    BY <2>1 DEF JobsInv
  <2>3. Waited(job) => Waited(job)'
    BY <2>1, WaitedStays
  <2>4. Excused(job) => Excused(job)'
    BY <2>1, ExcusedStays
  <2>5. ASSUME NEW s \in DOMAIN files, C!EndsAfter(DOMAIN files, s, job.start)
        PROVE  s \in DOMAIN files' /\ C!EndsAfter(DOMAIN files', s, job.start)
    BY <2>1, <2>5, SegmentsStay
  <2> QED
    BY <1>1, <2>2, <2>3, <2>4, <2>5
<1>2. CASE StreamStep \/ PruneStep \/ Tick \/ RollChunk \/ SetAssemblerStop \/ Finished
             \/ UNCHANGED vars
             \/ (\E ts \in R!FrameTimes, motion \in BOOLEAN : HandleFrame(ts, motion))
  <2>1. UNCHANGED processing /\ UNCHANGED <<workerPc, listed, deadline, saved>>
    BY <1>2 DEF HandleFrame, R!HandleFrame, RollChunk, R!RollChunk, SetAssemblerStop,
       R!SetAssemblerStop, StreamStep, PruneStep, Tick, Finished, R!Finished, R!vars, R!jobVars,
       vars, recorderVars, workerVars
  <2> QED
    BY <1>1, <2>1
\* A job that is taken ended no later than now.
<1>3. ASSUME NEW v \in Workers, StartJob(v), UNCHANGED <<listed, saved, now>>,
             \A u \in Workers \ {v} : processing'[u] = processing[u]
      PROVE  Kept(w, job)
  <2>1. CASE w = v
    <3>1. deadline'[w] = now + SegmentSeconds + 2 * TicksPerSecond /\ workerPc'[w] = "waiting"
      BY <1>0, <1>3, <2>1 DEF StartJob
    <3>2. R!TypeOK' /\ PaceInv' /\ WorkerInv'
      BY DEF IInv
    <3>3. job \in closed'
      BY <3>2 DEF PaceInv, WorkerInv
    <3>4. job.end \in Int /\ job.end <= now
      BY <1>3, <3>2, <3>3 DEF PaceInv, R!TypeOK, R!Job
    <3> QED
      BY <1>0, <3>1, <3>4, Constants DEF WaitEnd
  <2>2. CASE w # v
    <3>1. workerPc'[w] = workerPc[w] /\ deadline'[w] = deadline[w]
      BY <1>0, <1>3, <2>2 DEF StartJob
    <3> QED
      BY <1>1, <1>3, <2>2, <3>1
  <2> QED
    BY <2>1, <2>2
<1>4. CASE TakeJob
  <2>1. /\ processing' = [processing EXCEPT !["assembler"] = Head(jobs)]
        /\ StartJob("assembler") /\ UNCHANGED <<listed, saved, now>>
    BY <1>4 DEF TakeJob, R!TakeJob
  <2>2. "assembler" \in Workers /\ \A u \in Workers \ {"assembler"} : processing'[u] = processing[u]
    BY <1>0, <2>1 DEF Workers
  <2> QED
    BY <1>3, <2>1, <2>2
<1>5. CASE FlushOnShutdown
  <2>1. CASE window = None
    <3>1. UNCHANGED processing /\ UNCHANGED <<workerPc, deadline, listed, saved>>
      BY <1>5, <2>1 DEF FlushOnShutdown, R!FlushOnShutdown
    <3> QED
      BY <1>1, <3>1
  <2>2. CASE window # None
    <3>1. /\ processing' = [processing EXCEPT !["main"] = R!JobOf(window, window.lastFrame)]
          /\ StartJob("main") /\ UNCHANGED <<listed, saved, now>>
      BY <1>5, <2>2 DEF FlushOnShutdown, R!FlushOnShutdown
    <3>2. "main" \in Workers /\ \A u \in Workers \ {"main"} : processing'[u] = processing[u]
      BY <1>0, <3>1 DEF Workers
    <3> QED
      BY <1>3, <3>1, <3>2
  <2> QED
    BY <2>1, <2>2
<1>6. ASSUME NEW v \in Workers, StopWaiting(v)
      PROVE  Kept(w, job)
  <2>1. /\ workerPc[v] = "waiting"
        /\ workerPc' = [workerPc EXCEPT ![v] = "listing"]
        /\ deadline' = [deadline EXCEPT ![v] = 0]
        /\ RolledOver(processing[v]) \/ now >= deadline[v] \/ phase = "stopped"
        /\ UNCHANGED processing /\ UNCHANGED <<listed, saved, now, files, phase>>
    BY <1>6 DEF StopWaiting, recorderVars, cacheVars
  <2>2. CASE w = v
    <3>1. workerPc'[w] = "listing" /\ job = processing[w] /\ workerPc[w] = "waiting"
      BY <1>0, <2>1, <2>2
    <3>2. deadline[w] >= WaitEnd(job) /\ WaitEnd(job) \in Int
      <4>1. job.end \in Int
        BY <1>0, <3>1, WorkersJob DEF R!TypeOK, R!Job
      <4> QED
        BY <3>1, <4>1, Constants DEF JobsInv, WaitEnd
    <3>3. now >= deadline[w] => now >= WaitEnd(job)
      <4>1. deadline[w] \in Int /\ now \in Int
        BY <1>0
      <4> QED
        BY <3>2, <4>1
    <3>4. Waited(job)
      BY <2>1, <2>2, <3>1, <3>3 DEF Waited
    <3>5. Waited(job)'
      BY <2>1, <3>4 DEF Waited, RolledOver, WaitEnd
    <3> QED
      BY <3>1, <3>5
  <2>3. CASE w # v
    BY <1>0, <1>1, <2>1, <2>3
  <2> QED
    BY <2>2, <2>3
<1>7. ASSUME NEW v \in Workers, ListJobSegments(v)
      PROVE  Kept(w, job)
  <2> DEFINE found == C!ListSegments(DOMAIN files, processing[v].start, processing[v].end)
  <2>1. /\ workerPc[v] = "listing"
        /\ listed' = [listed EXCEPT ![v] = found]
        /\ workerPc' = [workerPc EXCEPT ![v] = IF listed'[v] = {} THEN "releasing" ELSE "assembling"]
        /\ UNCHANGED processing /\ UNCHANGED <<deadline, saved, files>>
    BY <1>7 DEF ListJobSegments, recorderVars, cacheVars
  <2>2. CASE w = v
    <3>1. /\ job = processing[w] /\ workerPc[w] = "listing" /\ listed'[w] = found
          /\ workerPc'[w] = IF found = {} THEN "releasing" ELSE "assembling"
          /\ job \in closed
      BY <1>0, <2>1, <2>2, WorkersJob
    <3>2. Waited(job)'
      <4>1. Waited(job)
        BY <3>1 DEF JobsInv
      <4> QED
        BY <3>1, <4>1, WaitedStays
    <3>3. \A s \in found : s \in DOMAIN files' /\ s < job.end
                             /\ C!EndsAfter(DOMAIN files', s, job.start)
      BY <2>1, <2>2, <3>1 DEF C!ListSegments
    <3>4. found = {} => Excused(job)'
      <4>1. SUFFICES ASSUME found = {} PROVE Excused(job)'
        OBVIOUS
      <4>2. Excused(job)
        BY <2>2, <3>1, <4>1, NothingListed
      <4> QED
        BY <3>1, <4>2, ExcusedStays
    <3> HIDE DEF found
    <3> QED
      BY <3>1, <3>2, <3>3, <3>4
  <2>3. CASE w # v
    <3> HIDE DEF found
    <3> QED
      BY <1>0, <1>1, <2>1, <2>3
  <2> QED
    BY <2>2, <2>3
<1>8. ASSUME NEW v \in Workers, AssembleClip(v)
      PROVE  Kept(w, job)
  <2>1. /\ workerPc[v] = "assembling"
        /\ workerPc' = [workerPc EXCEPT ![v] = "releasing"]
        /\ listed' = [listed EXCEPT ![v] = {}]
        /\ saved' = IF \A s \in listed[v] : Readable(s) THEN saved \union {processing[v]} ELSE saved
        /\ UNCHANGED processing /\ UNCHANGED deadline
    BY <1>8 DEF AssembleClip, recorderVars
  <2>2. CASE w = v
    <3>1. /\ job = processing[w] /\ workerPc[w] = "assembling" /\ workerPc'[w] = "releasing"
          /\ job \in closed
      BY <1>0, <2>1, <2>2, WorkersJob
    <3>2. CASE \A s \in listed[v] : Readable(s)
      BY <2>1, <2>2, <3>1, <3>2
    <3>3. CASE \E s \in listed[v] : ~Readable(s)
      <4>1. Excused(job)
        BY <2>2, <3>1, <3>3, ConcatFails
      <4> QED
        BY <3>1, <4>1, ExcusedStays
    <3> QED
      BY <3>2, <3>3
  <2>3. CASE w # v
    BY <1>0, <1>1, <2>1, <2>3
  <2> QED
    BY <2>2, <2>3
<1>9. ASSUME NEW v \in Workers, ReleaseJob(v)
      PROVE  Kept(w, job)
  <2>1. /\ workerPc' = [workerPc EXCEPT ![v] = "idle"]
        /\ processing' = [processing EXCEPT ![v] = None]
        /\ UNCHANGED <<deadline, listed, saved>>
    BY <1>9 DEF ReleaseJob, R!ReleaseJob
  <2>2. w # v
    BY <1>0, <2>1
  <2> QED
    BY <1>0, <1>1, <2>1, <2>2
<1> QED
  BY <1>2, <1>4, <1>5, <1>6, <1>7, <1>8, <1>9 DEF Next, WorkerStep

-----------------------------------------------------------------------------
(* The windows                                                             *)

\* A window that is closed is queued, or the main thread has it, until a worker
\* is done with it.
LEMMA ComingStays ==
  ASSUME IInv, [Next]_vars
  PROVE  /\ saved \subseteq saved' /\ closed' \subseteq closed \union Coming'
         /\ \A job \in Coming \ {None} :
              job \in Coming' \/ \E w \in Workers : ReleaseJob(w) /\ job = processing[w]
<1>0. /\ R!TypeOK /\ Phases /\ jobs \in Seq(R!Job)
      /\ processing \in [Workers -> R!Job \union {None}] /\ Workers = {"assembler", "main"}
  BY DEF IInv, ProtectionInv, R!TypeOK, Workers, R!Workers
<1>1. saved \subseteq saved'
  BY DEF Next, HandleFrame, RollChunk, TakeJob, WorkerStep, StopWaiting, ListJobSegments,
     AssembleClip, ReleaseJob, FlushOnShutdown, SetAssemblerStop, StreamStep, PruneStep, Tick,
     Finished, vars
<1> SUFFICES /\ closed' \subseteq closed \union Coming'
             /\ \A job \in Coming \ {None} :
                  job \in Coming' \/ \E w \in Workers : ReleaseJob(w) /\ job = processing[w]
  BY <1>1
<1>2. CASE UNCHANGED <<jobs, closed>> /\ UNCHANGED processing
  BY <1>2 DEF Coming
<1>3. ASSUME NEW w, NEW end, R!EnqueueAssembly(w, end), UNCHANGED processing
      PROVE  closed' \subseteq closed \union Coming' /\ Coming \subseteq Coming'
  <2> DEFINE job == R!JobOf(w, end)
  <2>1. jobs' = Append(jobs, job) /\ closed' = closed \union {job}
    BY <1>3 DEF R!EnqueueAssembly
  <2> HIDE DEF job
  <2>2. /\ Len(jobs) + 1 \in DOMAIN jobs' /\ jobs'[Len(jobs) + 1] = job
        /\ \A i \in DOMAIN jobs : i \in DOMAIN jobs' /\ jobs'[i] = jobs[i]
    BY <1>0, <2>1
  <2> QED
    BY <1>3, <2>1, <2>2 DEF Coming
<1>4. CASE \E ts \in R!FrameTimes, motion \in BOOLEAN : HandleFrame(ts, motion)
  <2>1. PICK ts \in R!FrameTimes, motion \in BOOLEAN : R!HandleFrame(ts, motion)
    BY <1>4 DEF HandleFrame
  <2>2. CASE R!FinishEvent(ts, motion)
    BY <1>3, <2>1, <2>2 DEF R!HandleFrame, R!FinishEvent
  <2>3. CASE R!IgnoreFrame(motion) \/ R!OpenWindow(ts, motion) \/ R!Accumulate(ts, motion)
    BY <1>2, <2>1, <2>3 DEF R!HandleFrame, R!IgnoreFrame, R!OpenWindow, R!Accumulate
  <2> QED
    BY <2>1, <2>2, <2>3 DEF R!HandleFrame
<1>5. CASE RollChunk
  BY <1>3, <1>5 DEF RollChunk, R!RollChunk
<1>6. CASE TakeJob
  <2>1. /\ processing["assembler"] = None /\ jobs # <<>>
        /\ processing' = [processing EXCEPT !["assembler"] = Head(jobs)]
        /\ jobs' = Tail(jobs) /\ UNCHANGED closed
    BY <1>6 DEF TakeJob, R!TakeJob, R!history
  <2>2. /\ Head(jobs) = jobs[1]
        /\ \A i \in DOMAIN jobs : i # 1 => i - 1 \in DOMAIN jobs' /\ jobs'[i - 1] = jobs[i]
    BY <1>0, <2>1
  <2>3. processing'["assembler"] = jobs[1] /\ processing'["main"] = processing["main"]
    BY <1>0, <2>1, <2>2
  <2>4. ASSUME NEW i \in DOMAIN jobs
        PROVE  jobs[i] \in Coming'
    BY <1>0, <2>2, <2>3 DEF Coming
  <2>5. ASSUME NEW w \in Workers, processing[w] # None
        PROVE  processing[w] \in Coming'
    BY <1>0, <2>1, <2>3, <2>5 DEF Coming
  <2>6. \A job \in Coming \ {None} : job \in Coming'
    BY <2>4, <2>5 DEF Coming
  <2> QED
    BY <2>1, <2>6
<1>7. CASE FlushOnShutdown
  <2>1. CASE window = None
    BY <1>2, <1>7, <2>1 DEF FlushOnShutdown, R!FlushOnShutdown
  <2>2. CASE window # None
    <3> DEFINE job == R!JobOf(window, window.lastFrame)
    <3>1. /\ phase = "running" /\ UNCHANGED jobs
          /\ processing' = [processing EXCEPT !["main"] = job] /\ closed' = closed \union {job}
      BY <1>7, <2>2 DEF FlushOnShutdown, R!FlushOnShutdown
    <3> HIDE DEF job
    <3>2. processing["main"] = None
      BY <1>0, <3>1 DEF Phases
    <3>3. processing'["main"] = job /\ processing'["assembler"] = processing["assembler"]
      BY <1>0, <3>1
    <3> QED
      BY <1>0, <3>1, <3>2, <3>3 DEF Coming
  <2> QED
    BY <2>1, <2>2
<1>8. ASSUME NEW w \in Workers, ReleaseJob(w)
      PROVE  /\ closed' \subseteq closed \union Coming'
             /\ \A job \in Coming \ {None} : job \in Coming' \/ job = processing[w]
  <2>1. processing' = [processing EXCEPT ![w] = None] /\ UNCHANGED <<jobs, closed>>
    BY <1>8 DEF ReleaseJob, R!ReleaseJob, R!history
  <2>2. \A v \in Workers : v # w => processing'[v] = processing[v]
    BY <1>0, <2>1
  <2> QED
    BY <2>1, <2>2 DEF Coming
<1>9. CASE (\E w \in Workers : StopWaiting(w) \/ ListJobSegments(w) \/ AssembleClip(w))
             \/ SetAssemblerStop \/ StreamStep \/ PruneStep \/ Tick \/ Finished \/ UNCHANGED vars
  BY <1>2, <1>9 DEF StopWaiting, ListJobSegments, AssembleClip, SetAssemblerStop,
     R!SetAssemblerStop, StreamStep, PruneStep, Tick, Finished, R!Finished, R!vars, R!jobVars,
     R!history, vars, recorderVars
<1> QED
  BY <1>4, <1>5, <1>6, <1>7, <1>8, <1>9 DEF Next, WorkerStep

\* A window that is long enough is on its way, a clip, or has an excuse.
ClosedInv ==
  \A job \in closed \ (saved \union Coming) : TooShort(job) \/ Excused(job)

LEMMA LostNext ==
  ASSUME IInv, HistoryInv, JobsInv, ClosedInv, [Next]_vars
  PROVE  ClosedInv'
<1> SUFFICES ASSUME NEW job \in closed', job \notin saved', job \notin Coming', ~TooShort(job)
             PROVE  Excused(job)'
  BY DEF ClosedInv, TooShort, C!Excess
<1>1. job \in closed /\ job \notin saved /\ job # None
  BY ComingStays, SystemConstants DEF IInv, R!TypeOK
<1>2. CASE job \notin Coming
  <2>1. Excused(job)
    BY <1>1, <1>2 DEF ClosedInv
  <2> QED
    BY <1>1, <2>1, ExcusedStays
<1>3. CASE job \in Coming
  <2>1. PICK w \in Workers : ReleaseJob(w) /\ job = processing[w]
    BY <1>1, <1>3, ComingStays
  <2>2. workerPc[w] = "releasing"
    BY <2>1 DEF ReleaseJob
  <2>3. Excused(job)
    BY <1>1, <2>1, <2>2 DEF JobsInv
  <2> QED
    BY <1>1, <2>3, ExcusedStays
<1> QED
  BY <1>2, <1>3

LossInv == HistoryInv /\ StatesInv /\ FootageInv /\ DueInv /\ JobsInv /\ ClosedInv

LEMMA LossInit == Init => LossInv
<1> SUFFICES ASSUME Init PROVE LossInv
  OBVIOUS
<1>1. R!Init /\ C!Init /\ startedAt = None /\ outageAt = None /\ backAt = None
  BY DEF Init
<1>2. HistoryInv /\ StatesInv /\ FootageInv /\ DueInv
  BY <1>1 DEF C!Init, HistoryInv, StatesInv, FootageInv, Flowed, DueInv, IsTime
<1>3. JobsInv
  BY DEF Init, JobsInv
<1>4. ClosedInv
  BY <1>1 DEF R!Init, ClosedInv
<1> QED
  BY <1>2, <1>3, <1>4 DEF LossInv

LEMMA LossNext ==
  ASSUME WaitOutlastsSegment, IInv, IInv', LossInv, [Next]_vars PROVE LossInv'
<1>1. [C!Next]_C!vars /\ CacheInv
  BY CacheStep DEF IInv
<1>2. HistoryInv' /\ StatesInv' /\ FootageInv' /\ DueInv'
  BY <1>1, CacheMovesAlone, HistoryNext, StatesNext, FootageNext, DueNext DEF LossInv
<1>3. JobsInv' /\ ClosedInv'
  BY JobsNext, LostNext DEF LossInv
<1> QED
  BY <1>2, <1>3 DEF LossInv

\* An open window reaches back from its last frame, and a closed one from its
\* end, by the pre-buffer or by the overlap of two chunks.
LongInv ==
  /\ window # None => window.start + C!Excess < window.lastFrame
  /\ \A job \in closed : ~TooShort(job)

LEMMA LongClosed ==
  ASSUME NEW w \in R!Window, NEW end \in Int, w.start + C!Excess < w.lastFrame
  PROVE  ~TooShort(R!JobOf(w, end))
<1>1. w.start \in Int /\ w.lastFrame \in Int /\ C!Excess \in Int
  BY Constants DEF R!Window
<1> QED
  BY <1>1 DEF TooShort, R!JobOf, R!Later

LEMMA LongNext ==
  ASSUME WindowsOutlastExcess, R!TypeOK, PaceInv, LongInv, [R!Next]_R!vars PROVE LongInv'
<1>0. /\ frameTs \in Int /\ now \in Nat /\ C!Excess \in Int
      /\ PreBuffer \in Nat /\ PostBuffer \in Nat /\ Overlap \in Nat /\ None \notin R!Window
      /\ C!Excess < PreBuffer /\ C!Excess < Overlap
      /\ window # None => /\ window \in R!Window /\ lastMotion \in Int
                          /\ window.lastFrame \in Int /\ window.lastFrame <= frameTs
  BY Constants, SystemConstants DEF R!TypeOK, R!IsTime, R!Window, PaceInv, WindowsOutlastExcess
<1> DEFINE Long(w) == w.start + C!Excess < w.lastFrame
<1> SUFFICES (window' # None => Long(window')) /\ \A job \in closed' : ~TooShort(job)
  BY DEF LongInv, TooShort, C!Excess
<1>1. CASE UNCHANGED <<window, closed>>
  BY <1>1 DEF LongInv
<1>2. CASE \E ts \in R!FrameTimes, motion \in BOOLEAN : R!HandleFrame(ts, motion)
  <2>1. PICK ts \in R!FrameTimes, motion \in BOOLEAN : R!HandleFrame(ts, motion)
    BY <1>2
  <2>2. ts \in Int /\ ts > frameTs
    BY <1>0, SystemConstants DEF R!FrameTimes
  <2>3. CASE R!IgnoreFrame(motion)
    BY <1>1, <2>3 DEF R!IgnoreFrame
  <2>4. CASE R!OpenWindow(ts, motion)
    <3>1. window'.start = ts - PreBuffer /\ window'.lastFrame = ts /\ UNCHANGED closed
      BY <2>4 DEF R!OpenWindow, R!WindowStart
    <3> QED
      BY <1>0, <2>2, <3>1 DEF LongInv
  <2>5. CASE R!FinishEvent(ts, motion)
    <3>1. /\ window # None /\ window' = None
          /\ closed' = closed \union {R!JobOf(window, lastMotion + PostBuffer)}
      BY <2>5 DEF R!FinishEvent, R!EnqueueAssembly, R!EventEnd
    <3>2. ~TooShort(R!JobOf(window, lastMotion + PostBuffer))
      BY <1>0, <3>1, LongClosed DEF LongInv
    <3> QED
      BY <3>1, <3>2 DEF LongInv
  <2>6. CASE R!Accumulate(ts, motion)
    <3>1. window # None /\ window' = [window EXCEPT !.lastFrame = ts] /\ UNCHANGED closed
      BY <2>6 DEF R!Accumulate
    <3>2. window.start \in Int /\ window'.start = window.start /\ window'.lastFrame = ts
      BY <1>0, <3>1 DEF R!Window
    <3> QED
      BY <1>0, <2>2, <3>1, <3>2 DEF LongInv
  <2> QED
    BY <2>1, <2>3, <2>4, <2>5, <2>6 DEF R!HandleFrame
<1>3. CASE R!RollChunk
  <2>1. /\ window # None /\ window' = R!NextChunk
        /\ closed' = closed \union {R!JobOf(window, frameTs)}
    BY <1>3 DEF R!RollChunk, R!FullChunk, R!EnqueueAssembly, R!TypeOK
  <2>2. ~TooShort(R!JobOf(window, frameTs))
    BY <1>0, <2>1, LongClosed DEF LongInv
  <2>3. Long(R!NextChunk)
    BY <1>0 DEF R!NextChunk
  <2> QED
    BY <2>1, <2>2, <2>3 DEF LongInv
<1>4. CASE R!FlushOnShutdown
  <2>1. CASE window = None
    BY <1>1, <1>4, <2>1 DEF R!FlushOnShutdown
  <2>2. CASE window # None
    <3>1. window' = None /\ closed' = closed \union {R!JobOf(window, window.lastFrame)}
      BY <1>4, <2>2 DEF R!FlushOnShutdown
    <3>2. ~TooShort(R!JobOf(window, window.lastFrame))
      BY <1>0, <2>2, LongClosed DEF LongInv
    <3> QED
      BY <3>1, <3>2 DEF LongInv
  <2> QED
    BY <2>1, <2>2
<1>5. CASE R!TakeJob \/ (\E w \in R!Workers : R!ReleaseJob(w)) \/ R!SetAssemblerStop \/ R!Tick
             \/ R!Finished \/ UNCHANGED R!vars
  BY <1>1, <1>5 DEF R!TakeJob, R!ReleaseJob, R!SetAssemblerStop, R!Tick, R!Finished, R!vars,
     R!frameVars, R!history
<1> QED
  BY <1>2, <1>3, <1>4, <1>5 DEF R!Next

\* No event is lost silently: a closed window is queued, in a worker's hands or
\* a clip on disk, and _process_job (recorder.py:285-304) drops one only when
\* the stream broke off before its last segment can have been complete and was
\* not back before it began, when nothing had been recorded by its end, or when
\* the process is being stopped.
THEOREM LostOnlyInOutages ==
  WaitOutlastsSegment /\ WindowsOutlastExcess => (Spec => []LostOnlyInOutage)
<1> SUFFICES ASSUME WaitOutlastsSegment, WindowsOutlastExcess
             PROVE  Spec => []LostOnlyInOutage
  OBVIOUS
<1>1. IInv /\ IInv' /\ LossInv /\ [Next]_vars => LossInv'
  BY LossNext
<1>2. Init => LongInv
  BY DEF Init, R!Init, LongInv
<1>3. IInv /\ LongInv /\ [Next]_vars => LongInv'
  BY LongNext, RecorderStep DEF IInv
<1>4. Spec => [](LossInv /\ LongInv)
  BY <1>1, <1>2, <1>3, LossInit, SystemInvariant, PTL DEF Spec
<1>5. LossInv /\ LongInv => LostOnlyInOutage
  BY DEF LossInv, ClosedInv, LongInv, LostOnlyInOutage
<1> QED
  BY <1>4, <1>5, PTL
====
