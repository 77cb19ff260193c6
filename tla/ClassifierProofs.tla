--------------------------- MODULE ClassifierProofs ---------------------------
(***************************************************************************)
(* Theorems about the clip classifier, for every value of the constants:   *)
(* of ClassifierQueue, how clips come to it, and of ClipAnalysis, what it  *)
(* makes of one.                                                           *)
(*                                                                         *)
(* The two loops of ClipAnalysis are folds over finite sets.  That such a  *)
(* fold takes its turns one by one is proved once for both (TurnsExist),   *)
(* and what holds after every turn by taking, among the sets it would not  *)
(* hold of, one with the fewest elements (FewestElements).                 *)
(***************************************************************************)
EXTENDS ClassifierQueue, ClipAnalysis, FiniteSetTheorems, WellFoundedInduction, TLAPS

-----------------------------------------------------------------------------
(* ClassifierQueue                                                         *)

\* TypeOK and QueuedExact together are inductive: a clip is put into the queue
\* only from a feeder's hand, so what is exact stays exact.
QueueInv == TypeOK /\ QueuedExact

-----------------------------------------------------------------------------
(* Queues without repetition *)

Elements(q) == {q[i] : i \in 1..Len(q)}

LEMMA AppendElements ==
  ASSUME NEW q \in Seq(Clips), NEW c \in Clips
  PROVE  /\ Append(q, c) \in Seq(Clips)
         /\ Elements(Append(q, c)) = Elements(q) \union {c}
         /\ IsInjective(q) /\ c \notin Elements(q) => IsInjective(Append(q, c))
<1> DEFINE r == Append(q, c)
<1>1. r \in Seq(Clips) /\ Len(r) = Len(q) + 1 /\ DOMAIN r = 1..Len(r) /\ DOMAIN q = 1..Len(q)
  OBVIOUS
<1>2. \A i \in 1..Len(q) : r[i] = q[i]
  OBVIOUS
<1>3. r[Len(q) + 1] = c
  OBVIOUS
<1>4. Len(q) \in Nat /\ 1..Len(r) = (1..Len(q)) \union {Len(q) + 1}
  BY <1>1
<1>5. Elements(r) = Elements(q) \union {c}
  BY <1>1, <1>2, <1>3, <1>4 DEF Elements
<1>6. ASSUME IsInjective(q), c \notin Elements(q) PROVE IsInjective(r)
  BY <1>1, <1>2, <1>3, <1>4, <1>6 DEF IsInjective, Elements
<1> QED
  BY <1>1, <1>5, <1>6

LEMMA TailElements ==
  ASSUME NEW q \in Seq(Clips), q # <<>>, IsInjective(q)
  PROVE  /\ Head(q) \in Clips /\ Tail(q) \in Seq(Clips) /\ Len(Tail(q)) = Len(q) - 1
         /\ Elements(Tail(q)) = Elements(q) \ {Head(q)}
         /\ Head(q) \in Elements(q)
         /\ IsInjective(Tail(q))
<1> DEFINE r == Tail(q)
<1>1. Len(q) \in Nat \ {0} /\ Head(q) = q[1] /\ DOMAIN q = 1..Len(q)
  OBVIOUS
<1>2. r \in Seq(Clips) /\ Len(r) = Len(q) - 1 /\ DOMAIN r = 1..Len(r)
  OBVIOUS
<1>3. \A i \in 1..Len(r) : r[i] = q[i + 1]
  OBVIOUS
<1>4. \A i \in 2..Len(q) : i - 1 \in 1..Len(r) /\ q[i] = r[i - 1] /\ q[i] # q[1]
  BY <1>1, <1>2, <1>3 DEF IsInjective
<1>5. Elements(r) \subseteq Elements(q) \ {Head(q)}
  BY <1>1, <1>2, <1>3, <1>4 DEF Elements
<1>6. ASSUME NEW x \in Elements(q) \ {Head(q)} PROVE x \in Elements(r)
  <2>1. PICK i \in 1..Len(q) : x = q[i]
    BY DEF Elements
  <2>2. i \in 2..Len(q)
    BY <1>1, <2>1
  <2> QED
    BY <1>4, <2>1, <2>2 DEF Elements
<1>7. IsInjective(r)
  BY <1>1, <1>2, <1>3 DEF IsInjective
<1>8. Head(q) \in Elements(q)
  BY <1>1 DEF Elements
<1>9. Head(q) \in Clips
  BY <1>1
<1> QED
  BY <1>2, <1>5, <1>6, <1>7, <1>8, <1>9

LEMMA WaitingElements == Waiting = Elements(queue)
BY DEF Waiting, Elements

LEMMA ConstantFacts ==
  /\ None \notin Clips
  /\ QueueSize \in Nat \ {0}
  /\ Feeders = {"scan", "observer"}
BY QueueAssumption DEF Clips, Feeders

-----------------------------------------------------------------------------
(* The steps *)

LEMMA InitQueue == Init => QueueInv
<1>1. SUFFICES ASSUME Init PROVE QueueInv
  OBVIOUS
<1>2. queue \in Seq(Clips) /\ Len(queue) = 0 /\ events \in Seq(Clips) /\ DOMAIN queue = {}
  BY <1>1 DEF Init
<1>3. published \in 0..LastClip /\ present = 1..published /\ analysed \subseteq Clips
  BY <1>1, QueueAssumption DEF Init, Clips
<1>4. TypeOK
  BY <1>1, <1>2, <1>3, QueueAssumption DEF Init, TypeOK, IsClip, Idle
<1>5. Waiting = {} /\ Handed = {} /\ Taken = {}
  BY <1>1, <1>2 DEF Init, Idle, Waiting, Handed, InHand, Taken, Feeders
<1>6. QueuedExact
  BY <1>1, <1>2, <1>5 DEF Init, Idle, QueuedExact, InHand, Feeders, IsInjective
<1> QED
  BY <1>4, <1>6 DEF QueueInv

\* The queue and what surrounds it depend on nothing else.
LEMMA ElsewhereKeeps ==
  ASSUME QueuedExact, UNCHANGED <<queue, queued, putting, refused>>, UNCHANGED Taken
  PROVE  QueuedExact'
<1>1. Waiting' = Waiting /\ Handed' = Handed /\ \A f \in Feeders : InHand(f)' = InHand(f)
  BY DEF Waiting, Handed, InHand
<1>2. Feeders = {"scan", "observer"}
  BY ConstantFacts
<1> QED
  BY <1>1, <1>2 DEF QueuedExact

\* The first half of _enqueue, by a feeder with empty hands.
LEMMA OfferKeeps ==
  ASSUME QueueInv, NEW f \in Feeders, NEW c \in Clips, FeederIdle(f), Offer(f, c),
         UNCHANGED <<queue, refused, consumer>>
  PROVE  /\ QueuedExact'
         /\ queued' \subseteq Clips
         /\ DOMAIN putting' = Feeders /\ \A g \in Feeders : IsClip(putting'[g])
<1>1. CASE c \in queued
  <2>1. UNCHANGED <<queue, queued, putting, refused>> /\ UNCHANGED Taken
    BY <1>1 DEF Offer, Taken, consumer
  <2> QED
    BY <2>1, ElsewhereKeeps DEF QueueInv, TypeOK
<1>2. CASE c \notin queued
  <2>1. queued' = queued \union {c} /\ putting' = [putting EXCEPT ![f] = c]
    BY <1>2 DEF Offer
  <2>2. DOMAIN putting = Feeders /\ putting[f] = None /\ refused[f] = None
    BY DEF QueueInv, TypeOK, FeederIdle
  <2>3. putting'[f] = c /\ \A g \in Feeders : g # f => putting'[g] = putting[g]
    BY <2>1, <2>2
  <2>4. None \notin Clips /\ Feeders = {"scan", "observer"}
    BY ConstantFacts
  <2>5. InHand(f) = {} /\ InHand(f)' = {c} /\ \A g \in Feeders : g # f => InHand(g)' = InHand(g)
    BY <2>2, <2>3, <2>4 DEF InHand
  <2>6. Handed' = Handed \union {c}
    BY <2>4, <2>5 DEF Handed
  <2>7. Waiting' = Waiting /\ Taken' = Taken
    BY DEF Waiting, Taken, consumer
  <2>8. c \notin Waiting /\ c \notin Handed /\ c \notin Taken
    BY <1>2 DEF QueueInv, QueuedExact
  <2>9. InHand("scan")' \intersect InHand("observer")' = {}
    BY <2>4, <2>5, <2>8 DEF QueueInv, QueuedExact, Handed
  <2>10. \A g \in Feeders : putting'[g] = None \/ refused'[g] = None
    BY <2>2, <2>3 DEF QueueInv, QueuedExact
  <2>11. QueuedExact'
    BY <2>1, <2>6, <2>7, <2>8, <2>9, <2>10 DEF QueueInv, QueuedExact
  <2> QED
    BY <2>1, <2>2, <2>3, <2>11 DEF QueueInv, TypeOK, IsClip
<1> QED
  BY <1>1, <1>2

LEMMA ListedOffered == QueueInv /\ OfferListed => QueueInv'
<1>1. SUFFICES ASSUME QueueInv, OfferListed PROVE QueueInv'
  OBVIOUS
<1>2. PICK c \in listed : Offer("scan", c) /\ listed' = listed \ {c}
  BY <1>1 DEF OfferListed
<1>3. c \in Clips /\ "scan" \in Feeders /\ FeederIdle("scan")
  BY <1>1, <1>2 DEF OfferListed, QueueInv, TypeOK, Feeders
<1>4. UNCHANGED <<disk, phase, events, refused, queue, consumer, counts>>
  BY <1>1 DEF OfferListed
<1>5. /\ QueuedExact' /\ queued' \subseteq Clips
      /\ DOMAIN putting' = Feeders /\ \A g \in Feeders : IsClip(putting'[g])
  BY <1>1, <1>2, <1>3, <1>4, OfferKeeps
<1>6. TypeOK'
  BY <1>1, <1>2, <1>4, <1>5 DEF QueueInv, TypeOK, disk, consumer, counts, IsClip
<1> QED
  BY <1>5, <1>6 DEF QueueInv

LEMMA EventObserved == QueueInv /\ Observe => QueueInv'
<1>1. SUFFICES ASSUME QueueInv, Observe PROVE QueueInv'
  OBVIOUS
<1>2. events \in Seq(Clips) /\ events # <<>>
  BY <1>1 DEF Observe, QueueInv, TypeOK
<1>3. Head(events) \in Clips /\ events' \in Seq(Clips)
  BY <1>1, <1>2 DEF Observe
<1>4. UNCHANGED <<disk, phase, listed, refused, queue, consumer, counts>>
  BY <1>1 DEF Observe
<1>5. /\ QueuedExact' /\ queued' \subseteq Clips
      /\ DOMAIN putting' = Feeders /\ \A g \in Feeders : IsClip(putting'[g])
  <2>1. CASE Head(events) \in Pending
    <3>1. Offer("observer", Head(events)) /\ FeederIdle("observer") /\ "observer" \in Feeders
      BY <1>1, <2>1 DEF Observe, Feeders
    <3> QED
      BY <1>1, <1>3, <1>4, <3>1, OfferKeeps
  <2>2. CASE Head(events) \notin Pending
    <3>1. UNCHANGED <<queue, queued, putting, refused>> /\ UNCHANGED Taken
      BY <1>1, <1>4, <2>2 DEF Observe, Taken, consumer
    <3> QED
      BY <1>1, <3>1, ElsewhereKeeps DEF QueueInv, TypeOK
  <2> QED
    BY <2>1, <2>2
<1>6. TypeOK'
  BY <1>1, <1>3, <1>4, <1>5 DEF QueueInv, TypeOK, disk, consumer, counts, IsClip
<1> QED
  BY <1>5, <1>6 DEF QueueInv

\* What a feeder holds leaves its hand for the queue, or stays in it refused.
LEMMA ClipPut ==
  ASSUME QueueInv, NEW f \in Feeders, Put(f)
  PROVE  QueueInv'
<1> DEFINE c == putting[f]
<1>1. /\ putting[f] # None /\ c \in Clips /\ refused[f] = None
      /\ DOMAIN putting = Feeders /\ DOMAIN refused = Feeders
  BY DEF Put, QueueInv, TypeOK, IsClip, QueuedExact
<1>2. UNCHANGED <<disk, phase, events, listed, queued, consumer, counts>>
  BY DEF Put
<1>3. putting' = [putting EXCEPT ![f] = None]
  BY DEF Put
<1>4. putting'[f] = None /\ \A g \in Feeders : g # f => putting'[g] = putting[g]
  BY <1>1, <1>3
<1>5. None \notin Clips /\ Feeders = {"scan", "observer"} /\ QueueSize \in Nat
  BY ConstantFacts
<1>6. Taken' = Taken
  BY <1>2 DEF Taken, consumer
<1>7. InHand(f) = {c} /\ c \in Handed
  BY <1>1, <1>5 DEF InHand, Handed
<1>8. c \notin Waiting /\ c \notin Taken
  BY <1>7 DEF QueueInv, QueuedExact
<1>9. CASE Len(queue) < QueueSize
  <2>1. queue' = Append(queue, c) /\ refused' = refused
    BY <1>9 DEF Put
  <2>2. queue \in Seq(Clips) /\ IsInjective(queue)
    BY DEF QueueInv, TypeOK, QueuedExact
  <2>3. /\ queue' \in Seq(Clips) /\ Len(queue') = Len(queue) + 1 /\ Len(queue) \in Nat
        /\ Waiting' = Waiting \union {c} /\ IsInjective(queue')
    <3>1. Elements(queue') = Elements(queue) \union {c} /\ queue' \in Seq(Clips)
      BY <1>1, <2>1, <2>2, AppendElements
    <3>2. IsInjective(queue')
      BY <1>1, <1>8, <2>1, <2>2, AppendElements DEF Waiting, Elements
    <3>3. Waiting = Elements(queue) /\ Waiting' = Elements(queue')
      BY DEF Waiting, Elements
    <3>4. Len(queue') = Len(queue) + 1 /\ Len(queue) \in Nat
      BY <2>1, <2>2
    <3> QED
      BY <3>1, <3>2, <3>3, <3>4
  <2>4. InHand(f)' = {} /\ \A g \in Feeders : g # f => InHand(g)' = InHand(g)
    BY <1>1, <1>4, <2>1 DEF InHand
  <2>5. Handed' = Handed \ {c}
    BY <1>5, <1>7, <2>4 DEF Handed, QueueInv, QueuedExact
  <2>6. InHand("scan")' \intersect InHand("observer")' = {}
    BY <1>5, <2>4 DEF QueueInv, QueuedExact
  <2>7. QueuedExact'
    BY <1>2, <1>4, <1>6, <1>7, <1>8, <2>1, <2>3, <2>5, <2>6 DEF QueueInv, QueuedExact
  <2>8. TypeOK'
    BY <1>1, <1>2, <1>3, <1>4, <1>5, <1>9, <2>1, <2>3
    DEF QueueInv, TypeOK, disk, consumer, counts, IsClip
  <2> QED
    BY <2>7, <2>8 DEF QueueInv
<1>10. CASE ~(Len(queue) < QueueSize)
  <2>1. refused' = [refused EXCEPT ![f] = c] /\ queue' = queue
    BY <1>10 DEF Put
  <2>2. refused'[f] = c /\ \A g \in Feeders : g # f => refused'[g] = refused[g]
    BY <1>1, <2>1
  <2>3. \A g \in Feeders : InHand(g)' = InHand(g)
    BY <1>1, <1>4, <2>2 DEF InHand
  <2>4. Handed' = Handed /\ Waiting' = Waiting
    BY <1>5, <2>1, <2>3 DEF Handed, Waiting
  <2>5. QueuedExact'
    BY <1>1, <1>2, <1>4, <1>5, <1>6, <2>1, <2>2, <2>3, <2>4 DEF QueueInv, QueuedExact
  <2>6. TypeOK'
    BY <1>1, <1>2, <1>3, <1>4, <2>1, <2>2
    DEF QueueInv, TypeOK, disk, consumer, counts, IsClip
  <2> QED
    BY <2>5, <2>6 DEF QueueInv
<1> QED
  BY <1>9, <1>10

LEMMA ClipForgotten ==
  ASSUME QueueInv, NEW f \in Feeders, Forget(f)
  PROVE  QueueInv'
<1> DEFINE c == refused[f]
<1>1. /\ c # None /\ putting[f] = None
      /\ DOMAIN putting = Feeders /\ DOMAIN refused = Feeders
  BY DEF Forget, Without, QueueInv, TypeOK, QueuedExact
<1>2. UNCHANGED <<disk, phase, events, listed, putting, queue, consumer, counts>>
  BY DEF Forget, Without
<1>3. refused' = [refused EXCEPT ![f] = None] /\ queued' = queued \ {c}
  BY DEF Forget, Without
<1>4. refused'[f] = None /\ \A g \in Feeders : g # f => refused'[g] = refused[g]
  BY <1>1, <1>3
<1>5. Feeders = {"scan", "observer"}
  BY ConstantFacts
<1>6. Taken' = Taken /\ Waiting' = Waiting
  BY <1>2 DEF Taken, Waiting, consumer
<1>7. InHand(f) = {c} /\ InHand(f)' = {} /\ \A g \in Feeders : g # f => InHand(g)' = InHand(g)
  BY <1>1, <1>2, <1>4 DEF InHand
<1>8. c \in Handed /\ Handed' = Handed \ {c}
  BY <1>5, <1>7 DEF Handed, QueueInv, QueuedExact
<1>9. InHand("scan")' \intersect InHand("observer")' = {}
  BY <1>5, <1>7 DEF QueueInv, QueuedExact
<1>10. \A g \in Feeders : putting'[g] = None \/ refused'[g] = None
  BY <1>2, <1>4 DEF QueueInv, QueuedExact
<1>11. QueuedExact'
  BY <1>2, <1>3, <1>6, <1>8, <1>9, <1>10 DEF QueueInv, QueuedExact
<1>12. TypeOK'
  BY <1>1, <1>2, <1>3, <1>4 DEF QueueInv, TypeOK, disk, consumer, counts, IsClip
<1> QED
  BY <1>11, <1>12 DEF QueueInv

LEMMA ClipTaken == QueueInv /\ Take => QueueInv'
<1>1. SUFFICES ASSUME QueueInv, Take PROVE QueueInv'
  OBVIOUS
<1>2. UNCHANGED <<disk, phase, events, feeding, queued, counts>>
  BY <1>1 DEF Take
<1>3. queue \in Seq(Clips) /\ queue # <<>> /\ IsInjective(queue) /\ queue' = Tail(queue)
  BY <1>1 DEF Take, QueueInv, TypeOK, QueuedExact
<1>4. /\ Head(queue) \in Clips /\ queue' \in Seq(Clips) /\ Len(queue') = Len(queue) - 1
      /\ Elements(queue') = Elements(queue) \ {Head(queue)} /\ Head(queue) \in Elements(queue)
      /\ IsInjective(queue')
  BY <1>3, TailElements
<1>5. Waiting = Elements(queue) /\ Waiting' = Elements(queue')
  BY DEF Waiting, Elements
<1>6. Taken = {} /\ Taken' = {Head(queue)}
  BY <1>1 DEF Take, Taken
<1>7. Handed' = Handed /\ \A f \in Feeders : InHand(f)' = InHand(f)
  BY <1>2 DEF Handed, InHand, feeding
<1>8. Len(queue) \in Nat /\ Len(queue') <= QueueSize
  BY <1>1, <1>3, <1>4, ConstantFacts DEF QueueInv, TypeOK
<1>9. QueuedExact'
  BY <1>1, <1>2, <1>4, <1>5, <1>6, <1>7, ConstantFacts DEF QueueInv, QueuedExact, feeding
<1>10. TypeOK'
  BY <1>1, <1>2, <1>4, <1>8 DEF QueueInv, TypeOK, Take, disk, feeding, counts
<1> QED
  BY <1>9, <1>10 DEF QueueInv

LEMMA JobBegun == QueueInv /\ Begin => QueueInv'
<1>1. SUFFICES ASSUME QueueInv, Begin PROVE QueueInv'
  OBVIOUS
<1>2. UNCHANGED <<disk, phase, events, feeding, queue, job, counts>>
  BY <1>1 DEF Begin
<1>3. worker = "taking" /\ worker' = "busy" /\ queued' = queued \ {job}
  BY <1>1 DEF Begin
<1>4. Taken = {job} /\ Taken' = {}
  BY <1>3 DEF Taken
<1>5. Waiting' = Waiting /\ Handed' = Handed /\ \A f \in Feeders : InHand(f)' = InHand(f)
  BY <1>2 DEF Waiting, Handed, InHand, feeding
<1>6. QueuedExact'
  BY <1>1, <1>2, <1>3, <1>4, <1>5, ConstantFacts DEF QueueInv, QueuedExact, feeding
<1>7. TypeOK'
  BY <1>1, <1>2, <1>3 DEF QueueInv, TypeOK, disk, feeding, counts
<1> QED
  BY <1>6, <1>7 DEF QueueInv

LEMMA JobEnded == QueueInv /\ (FinishJob \/ FailJob) => QueueInv'
<1>1. SUFFICES ASSUME QueueInv, FinishJob \/ FailJob PROVE QueueInv'
  OBVIOUS
<1>2. UNCHANGED <<published, present, phase, events, feeding, queue, queued, crashes, deletes>>
  BY <1>1 DEF FinishJob, FailJob, counts, disk
<1>3. worker = "busy" /\ worker' = "idle" /\ job' = None /\ job \in Clips
  BY <1>1 DEF FinishJob, FailJob, QueueInv, TypeOK
<1>4. Taken' = Taken
  BY <1>3 DEF Taken
<1>5. QueuedExact'
  BY <1>1, <1>2, <1>4, ElsewhereKeeps DEF QueueInv, feeding
<1>6. analysed' \subseteq Clips /\ failures' \in 0..MaxFailures
  BY <1>1, <1>3, QueueAssumption DEF FinishJob, FailJob, QueueInv, TypeOK, disk, counts
<1>7. TypeOK'
  BY <1>1, <1>2, <1>3, <1>6 DEF QueueInv, TypeOK, feeding
<1> QED
  BY <1>5, <1>7 DEF QueueInv

LEMMA ProcessDied == QueueInv /\ Crash => QueueInv'
<1>1. SUFFICES ASSUME QueueInv, Crash PROVE QueueInv'
  OBVIOUS
<1>2. queue' = <<>> /\ queued' = {} /\ events' = <<>> /\ UNCHANGED <<disk, failures, deletes>>
  BY <1>1 DEF Crash
<1>3. queue' \in Seq(Clips) /\ Len(queue') = 0 /\ DOMAIN queue' = {} /\ events' \in Seq(Clips)
  BY <1>2
<1>4. Waiting' = {} /\ Handed' = {} /\ Taken' = {} /\ \A f \in Feeders : InHand(f)' = {}
  BY <1>1, <1>3 DEF Crash, Idle, Waiting, Handed, InHand, Taken, Feeders
<1>5. QueuedExact'
  BY <1>1, <1>2, <1>3, <1>4, ConstantFacts DEF Crash, Idle, QueuedExact, IsInjective
<1>6. crashes' \in 0..MaxCrashes
  BY <1>1, QueueAssumption DEF Crash, QueueInv, TypeOK
<1>7. TypeOK'
  BY <1>1, <1>2, <1>3, <1>6, QueueAssumption DEF Crash, QueueInv, TypeOK, disk, IsClip, Idle
<1> QED
  BY <1>5, <1>7 DEF QueueInv

\* The steps that touch the disk, the process's phase or a scan's listing.
LEMMA ElsewhereSteps ==
  QueueInv /\ (Publish \/ Delete \/ Start \/ StartObserver \/ Rescan) => QueueInv'
<1>1. SUFFICES ASSUME QueueInv, Publish \/ Delete \/ Start \/ StartObserver \/ Rescan
               PROVE  QueueInv'
  OBVIOUS
<1>2. UNCHANGED <<putting, refused, queue, queued, worker, job, failures, crashes>>
  BY <1>1 DEF Publish, Delete, Start, StartObserver, Rescan, feeding, consumer, counts
<1>3. Taken' = Taken
  BY <1>2 DEF Taken
<1>4. QueuedExact'
  BY <1>1, <1>2, <1>3, ElsewhereKeeps DEF QueueInv
<1>5. Pending \subseteq Clips
  BY <1>1, QueueAssumption DEF QueueInv, TypeOK, Pending, Clips
<1>6. /\ published' \in 0..LastClip /\ present' \subseteq 1..published'
      /\ analysed' \subseteq Clips /\ events' \in Seq(Clips) /\ listed' \subseteq Clips
      /\ phase' \in {"down", "backfill", "running"} /\ deletes' \in 0..MaxDeletes
  <2>1. CASE Publish
    <3>1. published + 1 \in Clips
      BY <1>1, <2>1, QueueAssumption DEF QueueInv, TypeOK, Publish, Clips
    <3>2. Append(events, published + 1) \in Seq(Clips)
      BY <1>1, <3>1 DEF QueueInv, TypeOK
    <3>3. present' \subseteq 1..published'
      BY <1>1, <2>1, QueueAssumption DEF QueueInv, TypeOK, Publish
    <3>4. events' \in Seq(Clips)
      BY <1>1, <2>1, <3>2 DEF QueueInv, TypeOK, Publish
    <3>5. published' \in 0..LastClip
      BY <2>1, <3>1, QueueAssumption DEF Publish, Clips
    <3> QED
      BY <1>1, <2>1, <3>3, <3>4, <3>5 DEF QueueInv, TypeOK, Publish, feeding, counts
  <2>2. CASE Delete
    BY <1>1, <2>2, QueueAssumption DEF QueueInv, TypeOK, Delete, feeding
  <2>3. CASE Start
    BY <1>1, <1>5, <2>3 DEF QueueInv, TypeOK, Start, disk, counts
  <2>4. CASE StartObserver
    BY <1>1, <2>4 DEF QueueInv, TypeOK, StartObserver, disk, feeding, counts
  <2>5. CASE Rescan
    BY <1>1, <1>5, <2>5 DEF QueueInv, TypeOK, Rescan, disk, counts
  <2> QED
    BY <1>1, <2>1, <2>2, <2>3, <2>4, <2>5
<1>7. TypeOK'
  BY <1>1, <1>2, <1>6 DEF QueueInv, TypeOK, IsClip
<1> QED
  BY <1>4, <1>7 DEF QueueInv

-----------------------------------------------------------------------------
(* Theorems *)

LEMMA QueueInductive == QueueInv /\ [Next]_vars => QueueInv'
<1>1. SUFFICES ASSUME QueueInv, [Next]_vars PROVE QueueInv'
  OBVIOUS
<1>2. CASE UNCHANGED vars
  <2>1. UNCHANGED <<published, present, analysed, phase, events, listed, putting, refused,
                    queue, queued, worker, job, failures, crashes, deletes>>
    BY <1>2 DEF vars, disk, feeding, consumer, counts
  <2>2. QueuedExact'
    BY <1>1, <2>1, ElsewhereKeeps DEF QueueInv, Taken
  <2> QED
    BY <1>1, <2>1, <2>2 DEF QueueInv, TypeOK, IsClip
<1>3. CASE \E f \in Feeders : Put(f) \/ Forget(f)
  BY <1>1, <1>3, ClipPut, ClipForgotten
<1>4. CASE OfferListed \/ Observe
  BY <1>1, <1>4, ListedOffered, EventObserved
<1>5. CASE Take \/ Begin \/ FinishJob \/ FailJob \/ Crash
  BY <1>1, <1>5, ClipTaken, JobBegun, JobEnded, ProcessDied
<1>6. CASE Publish \/ Delete \/ Start \/ StartObserver \/ Rescan
  BY <1>1, <1>6, ElsewhereSteps
<1> QED
  BY <1>1, <1>2, <1>3, <1>4, <1>5, <1>6 DEF Next

THEOREM QueueInvariant == Spec => []QueueInv
<1> QED
  BY InitQueue, QueueInductive, PTL DEF Spec

\* The classifier's variables have their types in every reachable state.
THEOREM QueueTypeCorrect == Spec => []TypeOK
<1>1. QueueInv => TypeOK
  BY DEF QueueInv
<1> QED
  BY <1>1, QueueInvariant, PTL

\* ClipWatcher._queued names exactly the clips that wait or are in some
\* thread's hand, each once, although _enqueue and get touch _queue and
\* _queued in separate steps: no clip waits twice and none is locked out.
THEOREM QueuedAlwaysExact == Spec => []QueuedExact
<1>1. QueueInv => QueuedExact
  BY DEF QueueInv
<1> QED
  BY <1>1, QueueInvariant, PTL

-----------------------------------------------------------------------------
(* Numbers and finite sets                                                 *)

\* A set of naturals that is not empty has a least member.
LEMMA LeastNumber ==
  ASSUME NEW N, N \subseteq Nat, N # {}
  PROVE  \E n \in N : \A m \in N : n <= m
<1>1. \E n \in N : \A m \in N : <<m, n>> \notin OpToRel(<, Nat)
  BY NatLessThanWellFounded, WFMin
<1>2. ASSUME NEW m \in N, NEW n \in N, <<m, n>> \notin OpToRel(<, Nat) PROVE n <= m
  BY <1>2 DEF OpToRel
<1> QED
  BY <1>1, <1>2

\* Of the sets with some property, one with the fewest elements.
LEMMA FewestElements ==
  ASSUME NEW D, IsFiniteSet(D), NEW Q, Q \subseteq SUBSET D, Q # {}
  PROVE  \E s \in Q : \A t \in SUBSET s : t # s => t \notin Q
<1> DEFINE N == {Cardinality(s) : s \in Q}
<1>1. ASSUME NEW s \in Q PROVE IsFiniteSet(s) /\ Cardinality(s) \in Nat
  BY FS_Subset, FS_CardinalityType
<1>2. N \subseteq Nat /\ N # {}
  BY <1>1
<1>3. PICK n \in N : \A m \in N : n <= m
  BY <1>2, LeastNumber
<1>4. PICK s \in Q : n = Cardinality(s)
  OBVIOUS
<1>5. ASSUME NEW t \in SUBSET s, t # s PROVE t \notin Q
  <2>1. Cardinality(t) <= Cardinality(s) /\ Cardinality(s) # Cardinality(t)
    BY <1>1, <1>5, FS_Subset
  <2>2. IsFiniteSet(t) /\ Cardinality(t) \in Nat /\ Cardinality(s) \in Nat
    BY <1>1, FS_Subset, FS_CardinalityType
  <2> QED
    BY <1>3, <1>4, <2>1, <2>2
<1> QED
  BY <1>5

-----------------------------------------------------------------------------
(* The two loops.  select_offsets goes through the seconds of the timeline *)
(* and NMSBoxes through the boxes, both best first; Turn is one turn of    *)
(* either, on what the turns before it have come to.                       *)

First(loop) == IF loop = "seconds" THEN Peak ELSE {}
Last(loop, s) == IF loop = "seconds" THEN LastCandidate(s) ELSE LeastSure(s)
Turned(loop, x, c) == IF loop = "seconds" THEN Pick(Moment(x), c) ELSE Keep(x, c)

Turn(loop, g, s) ==
  IF s = {} THEN First(loop) ELSE Turned(loop, Last(loop, s), g[s \ {Last(loop, s)}])

\* g gives what the loop comes to on each set of members of D.
Turns(loop, g, D) == g = [s \in SUBSET D |-> Turn(loop, g, s)]

\* The loop can go through the members of D.
Ordered(loop, D) ==
  IsFiniteSet(D) /\ \A s \in SUBSET D : s # {} => Last(loop, s) \in s

\* Two such functions agree where both are defined ...
LEMMA TurnsAgree ==
  ASSUME NEW loop, NEW s, Ordered(loop, s), NEW S, NEW T, s \subseteq S, s \subseteq T,
         NEW g, NEW h, Turns(loop, g, S), Turns(loop, h, T)
  PROVE  g[s] = h[s]
<1> DEFINE Q == {t \in SUBSET s : g[t] # h[t]}
<1>1. SUFFICES ASSUME Q # {} PROVE FALSE
  OBVIOUS
<1>2. PICK t \in Q : \A u \in SUBSET t : u # t => u \notin Q
  <2>1. Q \subseteq SUBSET s
    OBVIOUS
  <2> HIDE DEF Q
  <2> QED
    BY <1>1, <2>1, FewestElements DEF Ordered
<1>3. g[t] = Turn(loop, g, t) /\ h[t] = Turn(loop, h, t)
  BY DEF Turns
<1>4. t # {}
  BY <1>3 DEF Turn
<1>5. Last(loop, t) \in t
  BY <1>4 DEF Ordered
<1>6. g[t \ {Last(loop, t)}] = h[t \ {Last(loop, t)}]
  BY <1>2, <1>5
<1> QED
  BY <1>3, <1>4, <1>6 DEF Turn

\* ... and every finite set has one.
LEMMA TurnsExist ==
  ASSUME NEW loop, NEW D, Ordered(loop, D)
  PROVE  \E g : Turns(loop, g, D)
<1> DEFINE Q == {s \in SUBSET D : ~\E g : Turns(loop, g, s)}
<1>0. ASSUME NEW s \in SUBSET D PROVE Ordered(loop, s)
  BY FS_Subset DEF Ordered
<1>1. SUFFICES ASSUME Q # {} PROVE FALSE
  OBVIOUS
<1>2. PICK s \in Q : \A t \in SUBSET s : t # s => t \notin Q
  <2>1. Q \subseteq SUBSET D
    OBVIOUS
  <2> HIDE DEF Q
  <2> QED
    BY <1>1, <2>1, FewestElements DEF Ordered
<1> DEFINE G(t) == CHOOSE g : Turns(loop, g, t)
           v == [t \in SUBSET s |-> G(t)[t]]
           f == [t \in SUBSET s |-> Turn(loop, v, t)]
<1>3. ASSUME NEW t \in SUBSET s, t # s PROVE Turns(loop, G(t), t)
  BY <1>2, <1>3
<1>4. ASSUME NEW t \in SUBSET s, t # s PROVE f[t] = v[t]
  <2>1. v[t] = Turn(loop, G(t), t)
    <3>1. G(t) = [u \in SUBSET t |-> Turn(loop, G(t), u)]
      BY <1>3, <1>4 DEF Turns
    <3> HIDE DEF G
    <3> QED
      BY <3>1
  <2>2. CASE t = {}
    BY <2>1, <2>2 DEF Turn
  <2>3. CASE t # {}
    <3> DEFINE r == t \ {Last(loop, t)}
    <3>1. Last(loop, t) \in t
      BY <1>0, <2>3 DEF Ordered
    <3>2. r \in SUBSET s /\ r # s /\ r \subseteq t /\ Ordered(loop, r)
      BY <1>0, <3>1
    <3>3. G(t)[r] = G(r)[r]
      <4>1. Turns(loop, G(t), t) /\ Turns(loop, G(r), r)
        BY <1>3, <1>4, <3>2
      <4> HIDE DEF G, r
      <4> QED
        BY <3>2, <4>1, TurnsAgree
    <3> QED
      BY <2>1, <2>3, <3>2, <3>3 DEF Turn
  <2> QED
    BY <2>2, <2>3
<1>5. ASSUME NEW t \in SUBSET s PROVE Turn(loop, v, t) = Turn(loop, f, t)
  <2>1. CASE t = {}
    BY <2>1 DEF Turn
  <2>2. CASE t # {}
    <3>1. Last(loop, t) \in t
      BY <1>0, <2>2 DEF Ordered
    <3>2. t \ {Last(loop, t)} \in SUBSET s /\ t \ {Last(loop, t)} # s
      BY <3>1
    <3>3. f[t \ {Last(loop, t)}] = v[t \ {Last(loop, t)}]
      BY <1>4, <3>2
    <3> QED
      BY <2>2, <3>3 DEF Turn
  <2> QED
    BY <2>1, <2>2
<1>6. Turns(loop, f, s)
  BY <1>5 DEF Turns
<1> QED
  BY <1>6

\* What the model's folds come to.
Picks(g, D) ==
  g = [s \in SUBSET D |->
         IF s = {} THEN Peak
         ELSE Pick(Moment(LastCandidate(s)), g[s \ {LastCandidate(s)}])]

LEMMA ChosenByTurns ==
  ASSUME Ordered("seconds", DOMAIN clip.timeline)
  PROVE  \E g : Picks(g, DOMAIN clip.timeline) /\ Chosen = g[DOMAIN clip.timeline]
<1> DEFINE D == DOMAIN clip.timeline
           iter == CHOOSE g : Picks(g, D)
<1>1. Chosen = iter[D]
  BY DEF Chosen, MapThenFoldSet, Picks
<1>2. PICK g : Turns("seconds", g, D)
  BY TurnsExist
<1>3. Picks(g, D)
  BY <1>2 DEF Turns, Turn, First, Last, Turned, Picks
<1>4. Picks(iter, D)
  BY <1>3
<1> QED
  BY <1>1, <1>4

Keeps(g, D) ==
  g = [s \in SUBSET D |->
         IF s = {} THEN {} ELSE Keep(LeastSure(s), g[s \ {LeastSure(s)}])]

LEMMA NMSBoxesByTurns ==
  ASSUME NEW boxes, NEW D, D = {a \in boxes : a.confidence > ConfidenceFloor},
         Ordered("boxes", D)
  PROVE  \E g : Keeps(g, D) /\ NMSBoxes(boxes) = g[D]
<1> DEFINE iter == CHOOSE g : Keeps(g, D)
<1>1. NMSBoxes(boxes) = iter[D]
  BY DEF NMSBoxes, MapThenFoldSet, Keeps
<1>2. PICK g : Turns("boxes", g, D)
  BY TurnsExist
<1>3. Keeps(g, D)
  BY <1>2 DEF Turns, Turn, First, Last, Turned, Keeps
<1>4. Keeps(iter, D)
  BY <1>3
<1> QED
  BY <1>1, <1>4

-----------------------------------------------------------------------------
(* Suppression                                                             *)

LEMMA LeastSureIsMember ==
  ASSUME NEW S, S \subseteq Anchors, S # {}
  PROVE  LeastSure(S) \in S /\ \A a \in S : LeastSure(S).confidence <= a.confidence
<1> DEFINE N == {a.confidence : a \in S}
<1>1. N \subseteq Nat /\ N # {}
  BY DEF Anchors
<1>2. PICK n \in N : \A m \in N : n <= m
  BY <1>1, LeastNumber
<1>3. \E a \in S : \A b \in S : a.confidence <= b.confidence
  BY <1>2
<1> QED
  BY <1>3 DEF LeastSure

LEMMA OverlapsBothWays ==
  ASSUME NEW a \in Anchors, NEW b \in Anchors PROVE Overlaps(a, b) <=> Overlaps(b, a)
<1>1. a.from \in Int /\ a.to \in Int /\ b.from \in Int /\ b.to \in Int
  BY DEF Anchors
<1>2. Common(a, b) = Common(b, a) /\ Common(a, b) \in Int
  BY <1>1 DEF Common, Smaller, Greater
<1>3. All(a, b) = All(b, a)
  BY <1>1, <1>2 DEF All
<1> QED
  BY <1>2, <1>3 DEF Overlaps

\* A box above the floor that is dropped overlaps one that was kept, and that is
\* at least as sure.
LEMMA DroppedOnlyIfCovered ==
  ASSUME NEW boxes, boxes \subseteq Anchors, IsFiniteSet(boxes)
  PROVE  /\ NMSBoxes(boxes) \subseteq boxes
         /\ \A a \in boxes : a.confidence > ConfidenceFloor =>
              \/ a \in NMSBoxes(boxes)
              \/ \E k \in NMSBoxes(boxes) \ {a} :
                   Overlaps(k, a) /\ k.confidence >= a.confidence
<1> DEFINE D == {a \in boxes : a.confidence > ConfidenceFloor}
<1>1. D \subseteq Anchors /\ IsFiniteSet(D)
  BY FS_Subset
<1>2. Ordered("boxes", D)
  BY <1>1, LeastSureIsMember DEF Ordered, Last
<1>3. PICK g : Keeps(g, D) /\ NMSBoxes(boxes) = g[D]
  BY <1>2, NMSBoxesByTurns
<1> DEFINE Covered(s) ==
             /\ g[s] \subseteq s
             /\ \A a \in s : \/ a \in g[s]
                             \/ \E k \in g[s] \ {a} : Overlaps(k, a) /\ k.confidence >= a.confidence
           Q == {s \in SUBSET D : ~Covered(s)}
<1>4. Q = {}
  <2> SUFFICES ASSUME Q # {} PROVE FALSE
    OBVIOUS
  <2>1. PICK s \in Q : \A u \in SUBSET s : u # s => u \notin Q
    <3>1. Q \subseteq SUBSET D
      OBVIOUS
    <3> HIDE DEF Q
    <3> QED
      BY <1>1, <3>1, FewestElements
  <2> DEFINE l == LeastSure(s)
             r == s \ {l}
  <2>2. s # {}
    BY <1>3 DEF Keeps
  <2>3. l \in s /\ \A a \in s : l.confidence <= a.confidence
    BY <1>1, <2>2, LeastSureIsMember
  <2>4. g[s] = Keep(l, g[r])
    BY <1>3, <2>2 DEF Keeps
  <2>5. Covered(r)
    <3>1. r \in SUBSET s /\ r # s /\ r \in SUBSET D
      BY <2>3
    <3>2. r \notin Q
      BY <2>1, <3>1
    <3> HIDE DEF Covered, r, D
    <3> QED
      BY <3>1, <3>2
  <2>6. \A a \in s : a \in Anchors /\ a.confidence \in Nat
    BY <1>1 DEF Anchors
  <2> HIDE DEF l
  <2>7. CASE OverlapsSurer(g[r], l)
    <3>1. g[s] = g[r]
      BY <2>4, <2>7 DEF Keep
    <3>2. PICK k \in g[r] : Overlaps(k, l)
      BY <2>7 DEF OverlapsSurer
    <3>3. k \in r /\ k.confidence >= l.confidence
      BY <2>3, <2>5, <2>6, <3>2
    <3>4. Covered(s)
      BY <2>3, <2>5, <3>1, <3>2, <3>3
    <3> QED
      BY <3>4
  <2>8. CASE ~OverlapsSurer(g[r], l)
    <3>1. g[s] = g[r] \union {l}
      BY <2>4, <2>8 DEF Keep
    <3>2. Covered(s)
      BY <2>3, <2>5, <3>1
    <3> QED
      BY <3>2
  <2> QED
    BY <2>7, <2>8
<1>5. Covered(D)
  BY <1>4
<1> QED
  BY <1>3, <1>5

-----------------------------------------------------------------------------
(* The verdict                                                             *)

Types ==
  /\ clip \in Metadata
  /\ IsFiniteSet(DOMAIN frames)
  /\ \A t \in DOMAIN frames : frames[t] \in RawOutputs

\* A verdict is given once, on all the frames there are, of which there is one.
VerdictInv ==
  /\ pc = "detect" => DOMAIN frames # {}
  /\ analysis # None => pc = "done"
  /\ analysis = "low" => DOMAIN frames # {} /\ EvaluateVerdict = "low"

\* Once moments were chosen, they are those select_offsets chooses.
Selection ==
  LET inside == {t \in Chosen : Inside(t)}
  IN  /\ fallback = (inside = {})
      /\ offsets = IF inside = {} THEN EvenlySpaced(clip.duration) ELSE inside

OffsetsInv == Sampled => Selection

AnalysisInv == Types /\ VerdictInv /\ OffsetsInv

LEMMA AnalysisInitially == AnalysisInit => AnalysisInv
<1> SUFFICES ASSUME AnalysisInit PROVE AnalysisInv
  OBVIOUS
<1>1. DOMAIN frames = {} /\ None # "low"
  BY AnalysisAssumption DEF AnalysisInit, AnalysisAssumption
<1>2. Types
  BY <1>1, FS_EmptySet DEF AnalysisInit, Types
<1> QED
  BY <1>1, <1>2 DEF AnalysisInit, AnalysisInv, VerdictInv, OffsetsInv, Sampled

\* The verdict rests on the clip and its frames.
LEMMA SameVerdict ==
  ASSUME UNCHANGED <<clip, frames>> PROVE EvaluateVerdict' = EvaluateVerdict
BY DEF EvaluateVerdict, Found, Detected, Persistent, FramesWithDetections, TotalFrames

LEMMA SameChoice == ASSUME UNCHANGED clip PROVE Chosen' = Chosen
BY DEF Chosen, MapThenFoldSet, Pick, Peak, LastCandidate, FarFromAll, Moment

LEMMA SameSelection ==
  ASSUME UNCHANGED <<clip, offsets, fallback>> PROVE Selection' <=> Selection
BY SameChoice DEF Selection, Inside

LEMMA AnalysisKept == AnalysisInv /\ [AnalysisNext]_analysisVars => AnalysisInv'
<1> SUFFICES ASSUME AnalysisInv, [AnalysisNext]_analysisVars PROVE AnalysisInv'
  OBVIOUS
<1> USE DEF AnalysisInv
<1>0. None \notin {"error", "high", "review", "low"}
  BY AnalysisAssumption DEF AnalysisAssumption
<1>1. CASE SelectOffsets
  <2>1. UNCHANGED <<clip, frames, analysis>> /\ pc = "select" /\ pc' = "decode"
    BY <1>1 DEF SelectOffsets
  <2>2. Types' /\ VerdictInv'
    BY <1>0, <2>1 DEF Types, VerdictInv
  <2>3. Selection'
    <3>1. Chosen' = Chosen /\ \A t : Inside(t)' <=> Inside(t)
      BY <2>1, SameChoice DEF Inside
    <3> QED
      BY <1>1, <2>1, <3>1 DEF SelectOffsets, Selection
  <2> QED
    BY <2>2, <2>3 DEF OffsetsInv
<1>2. CASE ReadMetadata \/ MetadataUnreadable \/ ExtractNothing \/ ExtractTimesOut \/ EndDecoding
           \/ DetectorFails \/ WriteVerdict \/ Finished \/ UNCHANGED analysisVars
  <2>1. UNCHANGED <<clip, offsets, fallback, frames>>
    BY <1>2 DEF ReadMetadata, MetadataUnreadable, ExtractNothing, ExtractTimesOut, EndDecoding,
       DetectorFails, WriteVerdict, Finished, analysisVars
  <2>2. Types' /\ OffsetsInv'
    BY <2>1, SameSelection DEF Types, OffsetsInv, Sampled
  <2>3. EvaluateVerdict' = EvaluateVerdict
    BY <2>1, SameVerdict
  <2>4. VerdictInv'
    <3>1. CASE ReadMetadata \/ ExtractNothing \/ ExtractTimesOut \/ Finished
               \/ UNCHANGED analysisVars
      BY <2>1, <2>3, <3>1 DEF ReadMetadata, ExtractNothing, ExtractTimesOut, Finished,
         analysisVars, VerdictInv
    <3>2. CASE MetadataUnreadable \/ DetectorFails \/ EndDecoding
      BY <1>0, <2>1, <2>3, <3>2 DEF MetadataUnreadable, DetectorFails, EndDecoding, VerdictInv
    <3>3. CASE WriteVerdict
      BY <2>1, <2>3, <3>3 DEF WriteVerdict, VerdictInv
    <3> QED
      BY <1>2, <3>1, <3>2, <3>3
  <2> QED
    BY <2>2, <2>4
<1>3. CASE ExtractFrame
  <2>1. UNCHANGED <<clip, offsets, fallback, pc, analysis>> /\ pc = "decode" /\ analysis = None
    BY <1>3 DEF ExtractFrame, VerdictInv
  <2>2. PICK raw \in RawOutputs :
          frames' = [t \in DOMAIN frames \union {NextOffset} |->
                       IF t = NextOffset THEN raw ELSE frames[t]]
    BY <1>3 DEF ExtractFrame
  <2>3. Types'
    <3>1. IsFiniteSet(DOMAIN frames \union {NextOffset})
      BY FS_AddElement DEF Types
    <3> QED
      BY <2>1, <2>2, <3>1 DEF Types
  <2> QED
    BY <1>0, <2>1, <2>3, SameSelection DEF VerdictInv, OffsetsInv, Sampled
<1> QED
  BY <1>1, <1>2, <1>3 DEF AnalysisNext

\* A verdict is given once and on the frames there are, and the moments sampled are
\* those select_offsets chooses, from a sidecar as the recorder writes it.
THEOREM AnalysisAlwaysInv == AnalysisSpec => []AnalysisInv
BY AnalysisInitially, AnalysisKept, PTL DEF AnalysisSpec

\* Of a clip judged "low", no frame shows a sure target or a large object, and
\* what was found or had moved was not there most of the time (evaluate_verdict
\* in clip_classifier/verdict.py), however many frames could not be decoded.
THEOREM LowAlwaysEarned == AnalysisSpec => []LowIsEarned
<1>1. AnalysisInv => LowIsEarned
  <2> SUFFICES ASSUME AnalysisInv, analysis = "low" PROVE LowIsEarned
    BY DEF LowIsEarned
  <2>1. EvaluateVerdict = "low" /\ DOMAIN frames # {} /\ IsFiniteSet(DOMAIN frames)
    BY DEF AnalysisInv, VerdictInv, Types
  <2>2. /\ ~\E d \in Found : Sure(d)
        /\ ~Persistent /\ ~\E d \in Found : LargeOther(d)
    BY <2>1 DEF EvaluateVerdict
  <2>3. TotalFrames \in Nat /\ TotalFrames > 0
    BY <2>1, FS_CardinalityType, FS_EmptySet DEF TotalFrames
  <2>4. FramesWithDetections \in Nat
    BY <2>1, FS_Subset, FS_CardinalityType DEF FramesWithDetections
  <2>5. PersistentWhole \in Nat /\ PersistentParts \in Nat
    BY AnalysisAssumption DEF AnalysisAssumption
  <2>6. FramesWithDetections * PersistentWhole < PersistentParts * TotalFrames
    <3>1. FramesWithDetections * PersistentWhole \in Nat /\ PersistentParts * TotalFrames \in Nat
      BY <2>3, <2>4, <2>5
    <3>2. ~(FramesWithDetections * PersistentWhole >= PersistentParts * TotalFrames)
      BY <2>2, <2>3 DEF Persistent
    <3> QED
      BY <3>1, <3>2
  <2> QED
    BY <2>2, <2>6 DEF LowIsEarned, Persistent, TotalFrames
<1> QED
  BY <1>1, AnalysisAlwaysInv, PTL

\* What lies in the frame and passes the suppression is detected.
LEMMA KeptIsDetected ==
  ASSUME NEW raw, NEW b \in NMSBoxes({a \in raw : a.confidence >= ConfidenceFloor}),
         b \in Anchors, InFrame(b)
  PROVE  \E d \in Detections(raw) : d.target = b.target /\ d.confidence = b.confidence
<1> DEFINE d == Clipped(b)
<1>1. b.from \in Int /\ b.to \in Int /\ FrameFrom \in Int /\ FrameTo \in Int
  BY AnalysisAssumption DEF AnalysisAssumption, Anchors
<1>2. /\ d.from = Greater(b.from, FrameFrom) - FrameFrom
      /\ d.to = Smaller(b.to, FrameTo) - FrameFrom
      /\ d.target = b.target /\ d.confidence = b.confidence
  BY DEF Clipped, Anchors
<1>3. d.from < d.to
  BY <1>1, <1>2 DEF InFrame, Greater, Smaller
<1>4. d \in Detections(raw)
  BY <1>3 DEF Detections
<1> QED
  BY <1>2, <1>4

\* The suppression of postprocess (clip_classifier/detectors/cpu.py) can cost a clip
\* its sure target only where another class, or what lies outside the frame,
\* covers it and is as sure.
THEOREM MissedOnlyEverCovered == AnalysisSpec => []MissedOnlyIfCovered
<1>1. AnalysisInv => MissedOnlyIfCovered
  <2> SUFFICES ASSUME AnalysisInv, analysis = "low", NEW t \in DOMAIN frames,
                      NEW a \in frames[t],
                      Sure(a), a.confidence > ConfidenceFloor, InFrame(a)
               PROVE  \E b \in frames[t] \ {a} :
                        /\ Overlaps(a, b) /\ b.confidence >= a.confidence
                        /\ ~(b.target /\ InFrame(b))
    BY DEF MissedOnlyIfCovered
  <2> DEFINE boxes == {b \in frames[t] : b.confidence >= ConfidenceFloor}
  <2>1. frames[t] \subseteq Anchors /\ IsFiniteSet(frames[t])
    BY AnalysisAssumption DEF AnalysisAssumption, AnalysisInv, Types
  <2>2. ConfidenceFloor \in Nat /\ HighConfidence \in Nat /\ \A b \in frames[t] : b.confidence \in Nat
    BY <2>1, AnalysisAssumption DEF AnalysisAssumption, Anchors
  <2>3. boxes \subseteq Anchors /\ IsFiniteSet(boxes) /\ a \in boxes
    BY <2>1, <2>2, FS_Subset
  <2>4. ~\E d \in Detections(frames[t]) : Sure(d)
    BY DEF AnalysisInv, VerdictInv, EvaluateVerdict, Found, Detected
  <2>5. ASSUME NEW b \in NMSBoxes(boxes), b \in Anchors, b.confidence >= a.confidence
        PROVE  ~(b.target /\ InFrame(b))
    <3> SUFFICES ASSUME b.target, InFrame(b) PROVE FALSE
      OBVIOUS
    <3>1. PICK d \in Detections(frames[t]) : d.target = b.target /\ d.confidence = b.confidence
      BY <2>5, KeptIsDetected
    <3>2. b.confidence >= HighConfidence
      BY <2>2, <2>5 DEF Sure, Anchors
    <3> QED
      BY <2>4, <3>1, <3>2 DEF Sure
  <2>6. a \notin NMSBoxes(boxes)
    <3>1. a.target /\ a.confidence >= a.confidence
      BY <2>2 DEF Sure
    <3> QED
      BY <2>1, <2>5, <3>1
  <2> HIDE DEF boxes
  <2>7. PICK k \in NMSBoxes(boxes) \ {a} : Overlaps(k, a) /\ k.confidence >= a.confidence
    BY <2>3, <2>6, DroppedOnlyIfCovered
  <2>8. k \in frames[t] /\ k \in Anchors
    BY <2>1, <2>3, DroppedOnlyIfCovered DEF boxes
  <2>9. Overlaps(a, k)
    BY <2>1, <2>7, <2>8, OverlapsBothWays
  <2> QED
    BY <2>5, <2>7, <2>8, <2>9
<1> QED
  BY <1>1, AnalysisAlwaysInv, PTL

-----------------------------------------------------------------------------
(* The choice of moments                                                   *)

\* What a metadata sidecar holds.
LEMMA SidecarFacts ==
  ASSUME clip \in Metadata
  PROVE  /\ DOMAIN clip.timeline \subseteq 0..LastSecond /\ IsFiniteSet(DOMAIN clip.timeline)
         /\ \A s \in DOMAIN clip.timeline : clip.timeline[s] \in Nat
         /\ clip.peak # None =>
              \E s \in DOMAIN clip.timeline, p \in PeakParts :
                /\ clip.peak = s * UnitsPerSecond + p
                /\ \A r \in DOMAIN clip.timeline : clip.timeline[r] <= clip.timeline[s]
<1>1. PICK tl \in Timelines : clip.timeline = tl /\ clip.peak \in Peaks(tl)
  BY DEF Metadata
<1>2. PICK S \in SUBSET (0..LastSecond) : tl \in [S -> Scores]
  BY DEF Timelines
<1>3. LastSecond \in Nat /\ Scores \subseteq Nat
  BY AnalysisAssumption DEF AnalysisAssumption
<1>4. IsFiniteSet(S)
  <2>1. IsFiniteSet(0..LastSecond)
    BY <1>3, FS_Interval
  <2> QED
    BY <2>1, FS_Subset
<1>5. ASSUME clip.peak # None
      PROVE  \E s \in DOMAIN tl, p \in PeakParts :
               clip.peak = s * UnitsPerSecond + p /\ \A r \in DOMAIN tl : tl[r] <= tl[s]
  <2> DEFINE moving == {s \in Highest(tl) : tl[s] > 0}
             first == CHOOSE s \in moving : \A r \in moving : s <= r
  <2>1. moving # {}
    BY <1>1, <1>5 DEF Peaks
  <2>2. moving \subseteq Nat
    <3>1. moving \subseteq S /\ S \subseteq Nat
      BY <1>2, <1>3 DEF Highest
    <3> QED
      BY <3>1
  <2>3. first \in moving
    BY <2>1, <2>2, LeastNumber
  <2>4. PICK p \in PeakParts : clip.peak = first * UnitsPerSecond + p
    BY <1>1, <2>1 DEF Peaks
  <2> HIDE DEF first
  <2>5. first \in DOMAIN tl /\ \A r \in DOMAIN tl : tl[r] <= tl[first]
    BY <2>3 DEF Highest
  <2> QED
    BY <2>4, <2>5
<1> QED
  BY <1>1, <1>2, <1>3, <1>4, <1>5

\* The second a moment belongs to.
LEMMA SecondOf ==
  ASSUME NEW s \in Nat, NEW p \in 0..(UnitsPerSecond - 1)
  PROVE  (s * UnitsPerSecond + p) \div UnitsPerSecond = s
<1>1. UnitsPerSecond \in Nat \ {0}
  BY AnalysisAssumption DEF AnalysisAssumption
<1> QED
  BY <1>1, Z3

LEMMA MomentFacts ==
  ASSUME clip \in Metadata
  PROVE  /\ \A s \in DOMAIN clip.timeline :
              Moment(s) \in Nat /\ ScoreAt(Moment(s)) = clip.timeline[s]
         /\ clip.peak # None =>
              /\ clip.peak \in Nat /\ ScoreAt(clip.peak) \in Nat
              /\ \A r \in DOMAIN clip.timeline : clip.timeline[r] <= ScoreAt(clip.peak)
<1>1. /\ UnitsPerSecond \in Nat \ {0} /\ LastSecond \in Nat
      /\ PeakParts \subseteq 0..(UnitsPerSecond - 1)
  BY AnalysisAssumption DEF AnalysisAssumption
<1>2. ASSUME NEW s \in DOMAIN clip.timeline
      PROVE  Moment(s) \in Nat /\ ScoreAt(Moment(s)) = clip.timeline[s]
  <2>1. s \in Nat /\ 0 \in 0..(UnitsPerSecond - 1)
    BY <1>1, SidecarFacts
  <2>2. s * UnitsPerSecond \in Nat
    BY <1>1, <2>1
  <2>3. (s * UnitsPerSecond + 0) \div UnitsPerSecond = s
    BY <2>1, SecondOf
  <2>4. Moment(s) = s * UnitsPerSecond + 0
    BY <2>2 DEF Moment
  <2> QED
    BY <2>2, <2>3, <2>4 DEF ScoreAt
<1>3. ASSUME clip.peak # None
      PROVE  /\ clip.peak \in Nat /\ ScoreAt(clip.peak) \in Nat
             /\ \A r \in DOMAIN clip.timeline : clip.timeline[r] <= ScoreAt(clip.peak)
  <2>1. PICK s \in DOMAIN clip.timeline, p \in PeakParts :
          /\ clip.peak = s * UnitsPerSecond + p
          /\ \A r \in DOMAIN clip.timeline : clip.timeline[r] <= clip.timeline[s]
    BY <1>3, SidecarFacts
  <2>2. s \in Nat /\ p \in 0..(UnitsPerSecond - 1) /\ clip.timeline[s] \in Nat
    BY <1>1, SidecarFacts
  <2>3. s * UnitsPerSecond \in Nat /\ p \in Nat
    BY <1>1, <2>2
  <2>4. ScoreAt(clip.peak) = clip.timeline[s]
    BY <2>1, <2>2, SecondOf DEF ScoreAt
  <2> QED
    BY <2>1, <2>2, <2>3, <2>4
<1> QED
  BY <1>2, <1>3

\* The seconds have a last one: of those with the least score the latest.
LEMMA LastCandidateIsLast ==
  ASSUME clip \in Metadata, NEW S, S \subseteq DOMAIN clip.timeline, S # {}
  PROVE  /\ LastCandidate(S) \in S
         /\ \A r \in S : clip.timeline[LastCandidate(S)] <= clip.timeline[r]
<1> DEFINE score == clip.timeline
           N == {score[s] : s \in S}
<1>1. /\ LastSecond \in Nat /\ \A s \in S : s \in 0..LastSecond /\ score[s] \in Nat
  BY SidecarFacts, AnalysisAssumption DEF AnalysisAssumption
<1>2. PICK n \in N : \A m \in N : n <= m
  <2>1. N \subseteq Nat /\ N # {}
    BY <1>1
  <2> HIDE DEF N
  <2> QED
    BY <2>1, LeastNumber
<1> DEFINE M == {LastSecond - s : s \in {r \in S : score[r] = n}}
<1>3. PICK l \in M : \A m \in M : l <= m
  <2>1. M \subseteq Nat /\ M # {}
    BY <1>1, <1>2
  <2> HIDE DEF M
  <2> QED
    BY <2>1, LeastNumber
<1>4. PICK s \in S : score[s] = n /\ l = LastSecond - s
  BY <1>3
<1>5. ASSUME NEW r \in S PROVE score[s] < score[r] \/ (score[s] = score[r] /\ r <= s)
  <2>1. n <= score[r]
    BY <1>2
  <2>2. score[r] = n => l <= LastSecond - r
    BY <1>3
  <2> QED
    BY <1>1, <1>4, <2>1, <2>2
<1>6. LastCandidate(S) \in S /\ \A r \in S : \/ score[LastCandidate(S)] < score[r]
                                           \/ score[LastCandidate(S)] = score[r]
  BY <1>5 DEF LastCandidate
<1> QED
  BY <1>1, <1>6

LEMMA DistanceFacts ==
  ASSUME NEW a \in Int, NEW b \in Int
  PROVE  Distance(a, b) \in Nat /\ Distance(a, b) = Distance(b, a) /\ Distance(a, a) = 0
BY DEF Distance

\* A second is served: it is among the moments, or one at least as good is close
\* by, or better ones have taken all the frames.
Served(x, chosen) ==
  \/ Moment(x) \in chosen
  \/ \E o \in chosen : ScoreAt(o) >= clip.timeline[x] /\ Distance(o, Moment(x)) < MinSpacing
  \/ Cardinality(chosen) = MaxFrames /\ \A o \in chosen : ScoreAt(o) >= clip.timeline[x]

\* What select_offsets has chosen when it has been through the seconds s.
Spaced(chosen, s) ==
  /\ IsFiniteSet(chosen) /\ Cardinality(chosen) <= MaxFrames
  /\ Peak \subseteq chosen
  /\ \A o \in chosen : o \in Peak \/ \E x \in s : o = Moment(x)
  /\ \A a, b \in chosen : a # b => Distance(a, b) >= MinSpacing
  /\ \A x \in s : Served(x, chosen)

LEMMA PeakSpaced == ASSUME clip \in Metadata PROVE Spaced(Peak, {})
<1>1. MaxFrames \in Nat \ {0}
  BY AnalysisAssumption DEF AnalysisAssumption
<1>2. IsFiniteSet(Peak) /\ Cardinality(Peak) <= 1
  <2>1. CASE clip.peak = None
    BY <2>1, FS_EmptySet DEF Peak
  <2>2. CASE clip.peak # None
    <3>1. PICK x : Peak = {x}
      BY <2>2 DEF Peak
    <3>2. IsFiniteSet({x}) /\ Cardinality({x}) = 1
      BY FS_Singleton
    <3> QED
      BY <3>1, <3>2
  <2> QED
    BY <2>1, <2>2
<1>3. Cardinality(Peak) \in Nat
  BY <1>2, FS_CardinalityType
<1> QED
  BY <1>1, <1>2, <1>3 DEF Spaced, Peak

\* One turn: the last of the seconds s, after all that come before it.
LEMMA PickSpaced ==
  ASSUME clip \in Metadata, NEW s, s \subseteq DOMAIN clip.timeline,
         NEW l \in s, \A r \in s : clip.timeline[l] <= clip.timeline[r],
         NEW chosen, Spaced(chosen, s \ {l})
  PROVE  Spaced(Pick(Moment(l), chosen), s)
<1> DEFINE t == Moment(l)
           picked == Pick(t, chosen)
<1>1. MaxFrames \in Nat \ {0} /\ MinSpacing \in Nat \ {0}
  BY AnalysisAssumption DEF AnalysisAssumption
<1>2. Cardinality(chosen) \in Nat
  BY FS_CardinalityType DEF Spaced
<1>3. \A x \in s : clip.timeline[x] \in Nat
  BY SidecarFacts
<1>4. ASSUME NEW o \in chosen
      PROVE  o \in Nat /\ ScoreAt(o) \in Nat /\ ScoreAt(o) >= clip.timeline[l]
  <2>1. CASE o \in Peak
    <3>1. o = clip.peak /\ clip.peak # None
      BY <2>1 DEF Peak
    <3> QED
      BY <1>3, <3>1, MomentFacts
  <2>2. CASE \E x \in s \ {l} : o = Moment(x)
    <3>1. PICK x \in s \ {l} : o = Moment(x)
      BY <2>2
    <3> QED
      BY <1>3, <3>1, MomentFacts
  <2> QED
    BY <2>1, <2>2 DEF Spaced
<1>5. t \in Nat
  BY MomentFacts
<1>6. CASE Cardinality(chosen) < MaxFrames /\ FarFromAll(t, chosen)
  <2>1. picked = chosen \union {t}
    BY <1>6 DEF Pick
  <2>2. IsFiniteSet(picked) /\ Cardinality(picked) <= MaxFrames
    <3>1. IsFiniteSet(chosen)
      BY DEF Spaced
    <3>2. /\ IsFiniteSet(chosen \union {t})
          /\ Cardinality(chosen \union {t}) \in {Cardinality(chosen), Cardinality(chosen) + 1}
      <4> HIDE DEF t
      <4> QED
        BY <3>1, FS_AddElement
    <3> HIDE DEF picked
    <3> QED
      BY <1>1, <1>2, <1>6, <2>1, <3>2
  <2>3. \A a, b \in picked : a # b => Distance(a, b) >= MinSpacing
    <3>1. \A a, b \in chosen : a # b => Distance(a, b) >= MinSpacing
      BY DEF Spaced
    <3>2. \A a \in chosen : Distance(t, a) >= MinSpacing /\ Distance(a, t) = Distance(t, a)
      BY <1>4, <1>5, <1>6, DistanceFacts DEF FarFromAll
    <3> HIDE DEF t, picked
    <3> QED
      BY <2>1, <3>1, <3>2
  <2>4. \A x \in s : Served(x, picked)
    <3> SUFFICES ASSUME NEW x \in s, x # l PROVE Served(x, picked)
      BY <2>1 DEF Served
    <3>1. Served(x, chosen) /\ Cardinality(chosen) # MaxFrames
      BY <1>1, <1>2, <1>6 DEF Spaced
    <3> QED
      BY <2>1, <3>1 DEF Served
  <2> QED
    BY <2>1, <2>2, <2>3, <2>4 DEF Spaced
<1>7. CASE ~(Cardinality(chosen) < MaxFrames /\ FarFromAll(t, chosen))
  <2>1. picked = chosen
    BY <1>7 DEF Pick
  <2>2. Served(l, chosen)
    <3>1. CASE ~FarFromAll(t, chosen)
      <4>1. PICK o \in chosen : ~(Distance(t, o) >= MinSpacing)
        BY <3>1 DEF FarFromAll
      <4>2. Distance(o, t) < MinSpacing
        BY <1>1, <1>4, <1>5, <4>1, DistanceFacts
      <4> QED
        BY <1>4, <4>2 DEF Served
    <3>2. CASE ~(Cardinality(chosen) < MaxFrames)
      <4>1. Cardinality(chosen) = MaxFrames
        BY <1>1, <1>2, <3>2 DEF Spaced
      <4> QED
        BY <1>4, <4>1 DEF Served
    <3> QED
      BY <1>7, <3>1, <3>2
  <2>3. \A x \in s : Served(x, chosen)
    BY <2>2 DEF Spaced
  <2> QED
    BY <2>1, <2>3 DEF Spaced
<1> QED
  BY <1>6, <1>7

LEMMA ChosenSpaced ==
  ASSUME clip \in Metadata PROVE Spaced(Chosen, DOMAIN clip.timeline)
<1> DEFINE D == DOMAIN clip.timeline
<1>1. Ordered("seconds", D)
  BY SidecarFacts, LastCandidateIsLast DEF Ordered, Last
<1>2. PICK g : Picks(g, D) /\ Chosen = g[D]
  BY <1>1, ChosenByTurns
<1> DEFINE Q == {s \in SUBSET D : ~Spaced(g[s], s)}
<1>3. Q = {}
  <2> SUFFICES ASSUME Q # {} PROVE FALSE
    OBVIOUS
  <2>1. PICK s \in Q : \A u \in SUBSET s : u # s => u \notin Q
    <3>1. Q \subseteq SUBSET D /\ IsFiniteSet(D)
      BY SidecarFacts
    <3> HIDE DEF Q, D
    <3> QED
      BY <3>1, FewestElements
  <2>2. CASE s = {}
    BY <1>2, <2>2, PeakSpaced DEF Picks
  <2>3. CASE s # {}
    <3> DEFINE l == LastCandidate(s)
               r == s \ {l}
    <3>1. l \in s /\ \A x \in s : clip.timeline[l] <= clip.timeline[x]
      BY <2>3, LastCandidateIsLast
    <3>2. g[s] = Pick(Moment(l), g[r])
      BY <1>2, <2>3 DEF Picks
    <3>3. r \in SUBSET s /\ r # s /\ r \in SUBSET D
      BY <3>1
    <3>4. Spaced(g[r], r)
      <4>1. r \notin Q
        BY <2>1, <3>3
      <4> HIDE DEF r, D
      <4> QED
        BY <3>3, <4>1
    <3>5. s \subseteq D /\ ~Spaced(g[s], s)
      OBVIOUS
    <3> HIDE DEF l
    <3> QED
      BY <3>1, <3>2, <3>4, <3>5, PickSpaced
  <2> QED
    BY <2>2, <2>3
<1>4. Spaced(g[D], D)
  BY <1>3
<1> QED
  BY <1>2, <1>4

\* The moments select_offsets (clip_classifier/sampling.py) samples keep their
\* distance, include the peak if the clip reaches it, and pass over a second only
\* for one close by that moved as much, or when better ones took all the frames.
THEOREM BestMomentsAlwaysSampled == AnalysisSpec => []BestMomentsSampled
<1>1. AnalysisInv => BestMomentsSampled
  <2> SUFFICES ASSUME AnalysisInv, Sampled PROVE BestMomentsSampled
    BY DEF BestMomentsSampled
  <2> DEFINE inside == {t \in Chosen : Inside(t)}
  <2>1. /\ clip \in Metadata /\ fallback = (inside = {})
        /\ inside # {} => offsets = inside
    BY DEF AnalysisInv, Types, OffsetsInv, Selection
  <2>2. Spaced(Chosen, DOMAIN clip.timeline)
    BY <2>1, ChosenSpaced
  <2>3. ~fallback => \A s, t \in offsets : s # t => Distance(s, t) >= MinSpacing
    BY <2>1, <2>2 DEF Spaced
  <2>4. PeakSampled
    BY <2>1, <2>2 DEF Spaced, Peak, PeakSampled
  <2>5. ASSUME EverythingInside, NEW s \in DOMAIN clip.timeline
        PROVE  LET t      == Moment(s)
                   better == {o \in offsets : ScoreAt(o) >= ScoreAt(t)}
               IN  \/ t \in offsets
                   \/ \E o \in better : Distance(o, t) < MinSpacing
                   \/ better = offsets /\ Cardinality(offsets) = MaxFrames
    <3>1. inside = Chosen
      BY <2>2, <2>5 DEF Spaced, Peak, EverythingInside
    <3>2. Served(s, Chosen)
      BY <2>2 DEF Spaced
    <3>3. Chosen # {}
      BY <3>2, FS_EmptySet, AnalysisAssumption DEF AnalysisAssumption, Served
    <3>4. offsets = Chosen /\ ScoreAt(Moment(s)) = clip.timeline[s]
      BY <2>1, <3>1, <3>3, MomentFacts
    <3> QED
      BY <3>2, <3>4 DEF Served
  <2> QED
    BY <2>3, <2>4, <2>5 DEF BestMomentsSampled
<1> QED
  BY <1>1, AnalysisAlwaysInv, PTL
=============================================================================
