---------------------------- MODULE RetentionProofs ----------------------------
(***************************************************************************)
(* Proofs about Retention, for any clips, sizes, windows and budget.       *)
(*                                                                         *)
(* VouchInv adds to VouchedOutlive that a clip vouched for as the sweep    *)
(* began keeps its verdict as long as it is there: only the classifier     *)
(* writes one, and only for a clip that has none.                          *)
(*                                                                         *)
(* BudgetInv adds to BudgetMet where the clips of the budget phase are and *)
(* that the running total is the sum of those not yet removed; it rests on *)
(* lemmas about SumFunctionOnSet, which are proved by taking a set with    *)
(* the fewest elements among the counterexamples.                          *)
(*                                                                         *)
(* ExactInv says of a sweep nobody interferes with that, with the tiers T  *)
(* the clips had when it began, what it has removed or has in hand is      *)
(* exactly what the policy names among the clips it has visited.           *)
(***************************************************************************)
EXTENDS Retention, FiniteSetTheorems, TLAPS

LEMMA Bounds == LastClip \in Nat /\ MaxDisruptions \in Nat
BY RetentionAssumption

LEMMA NoneIsNoNumber == None \notin Int
BY RetentionAssumption

LEMMA NoneIsNoWord == None \notin {"low", "review", "high", "error", "keep"}
BY RetentionAssumption

FileTypes ==
  /\ next \in 1..(LastClip + 1) /\ clips \subseteq 1..(next - 1) /\ metadata \subseteq Clips
  /\ verdict \in [Clips -> Verdicts \union {None}] /\ decision \in [Clips -> {"keep", None}]
  /\ age \in [Clips -> 0..MaxAge]
  /\ describing # None => describing \in Clips
  /\ analysing # None => analysing \in Clips

SweepTypes ==
  /\ picked # None => picked \in listed
  /\ stripping # None => stripping \in listed \ clips
  /\ (phase \in {"idle", "sizing", "done"} => Free) /\ (phase = "idle" => listed = {})
  /\ phase \in {"idle", "expiring", "sizing", "trimming", "done"}
  /\ listed \subseteq 1..(next - 1) /\ todo \subseteq listed /\ removed \subseteq listed
  /\ ranked \in [Clips -> Tiers \union {None}] /\ Ranked \subseteq listed

RestTypes ==
  /\ dry \in BOOLEAN /\ total \in Int
  /\ refused \subseteq listed /\ expected \subseteq listed /\ vouched \subseteq listed
  /\ disturbed \in BOOLEAN /\ disruptions \in 0..MaxDisruptions

AllTypes == FileTypes /\ SweepTypes /\ RestTypes

LEMMA TypesSuffice == AllTypes => TypeOK
BY DEF AllTypes, FileTypes, SweepTypes, RestTypes, TypeOK

LEMMA TypeInit == Init => AllTypes
<1> SUFFICES ASSUME Init PROVE AllTypes
  OBVIOUS
<1>1. FileTypes
  <2>1. next \in 1..(LastClip + 1) /\ clips = 1..(next - 1) /\ metadata = clips
    BY DEF Init
  <2>2. metadata \subseteq Clips
    BY <2>1, Bounds DEF Clips
  <2>3. /\ verdict \in [Clips -> Verdicts \union {None}] /\ decision \in [Clips -> {"keep", None}]
        /\ age \in [Clips -> 0..MaxAge] /\ describing = None /\ analysing = None
    BY DEF Init
  <2> QED
    BY <2>1, <2>2, <2>3 DEF FileTypes
<1>2. SweepTypes
  <2>1. Ranked = {} /\ ranked \in [Clips -> Tiers \union {None}]
    BY DEF Init, Ranked
  <2> QED
    BY <2>1 DEF Init, SweepTypes, Free
<1>3. RestTypes
  <2>1. dry \in BOOLEAN /\ disturbed \in BOOLEAN
    BY DEF Init
  <2>2. refused = {} /\ expected = {} /\ vouched = {} /\ total = 0 /\ disruptions = 0
    BY DEF Init
  <2> QED
    BY <2>1, <2>2, Bounds DEF RestTypes
<1> QED
  BY <1>1, <1>2, <1>3 DEF AllTypes

\* The steps of the recorder, the classifier and the web UI.
Outside == FinishClip \/ WriteMetadata \/ BeginAnalysis \/ WriteVerdict \/ Keep \/ Delete

LEMMA FileTypesKept == FileTypes /\ SweepTypes /\ [Next]_vars => FileTypes'
<1> SUFFICES ASSUME FileTypes, SweepTypes, [Next]_vars PROVE FileTypes'
  OBVIOUS
<1>1. CASE FinishClip
  <2>1. /\ next <= LastClip /\ next' = next + 1 /\ clips' = clips \union {next}
        /\ describing' = next
        /\ UNCHANGED <<metadata, verdict, decision, age, analysing>>
    BY <1>1 DEF FinishClip
  <2>2. next' \in 1..(LastClip + 1) /\ clips' \subseteq 1..(next' - 1) /\ next \in Clips
    BY <2>1, Bounds DEF FileTypes, Clips
  <2> QED
    BY <2>1, <2>2 DEF FileTypes
<1>2. CASE WriteMetadata
  BY <1>2 DEF WriteMetadata, FileTypes
<1>3. CASE BeginAnalysis
  <2>1. PICK c \in clips \intersect metadata : analysing' = c
    BY <1>3 DEF BeginAnalysis
  <2>2. UNCHANGED <<clips, metadata, verdict, decision, age, next, describing>>
    BY <1>3 DEF BeginAnalysis, files, sidecars
  <2> QED
    BY <2>1, <2>2 DEF FileTypes
<1>4. CASE WriteVerdict
  <2>1. PICK v \in Verdicts : verdict' = [verdict EXCEPT ![analysing] = v]
    BY <1>4 DEF WriteVerdict
  <2>2. analysing' = None /\ UNCHANGED <<clips, metadata, decision, age, next, describing>>
    BY <1>4 DEF WriteVerdict
  <2> QED
    BY <2>1, <2>2 DEF FileTypes
<1>5. CASE Keep
  BY <1>5 DEF Keep, FileTypes, writers
<1>6. CASE Delete
  <2>1. PICK c \in clips :
          /\ clips' = clips \ {c} /\ metadata' = metadata \ {c}
          /\ verdict' = [verdict EXCEPT ![c] = None]
          /\ decision' = [decision EXCEPT ![c] = None]
    BY <1>6 DEF Delete
  <2>2. UNCHANGED <<age, next, describing, analysing>>
    BY <1>6 DEF Delete, writers
  <2> QED
    BY <2>1, <2>2 DEF FileTypes
<1>7. CASE Unlink
  BY <1>7 DEF Unlink, FileTypes, writers, sidecars
<1>8. CASE Strip
  BY <1>8 DEF Strip, FileTypes, writers
<1>9. CASE \/ List \/ Judge \/ EndExpiry \/ Size \/ EndSizing \/ Trim \/ ReportPicked
           \/ FindGone \/ FailUnlink \/ EndTrimming \/ Exit \/ UNCHANGED vars
  <2>1. UNCHANGED <<files, writers>>
    BY <1>9 DEF List, Judge, EndExpiry, Size, EndSizing, Trim, ReportPicked, FindGone, FailUnlink,
       EndTrimming, Exit, vars
  <2> QED
    BY <2>1 DEF files, sidecars, writers, FileTypes
<1> QED
  BY <1>1, <1>2, <1>3, <1>4, <1>5, <1>6, <1>7, <1>8, <1>9 DEF Next

LEMMA ClipsShrink ==
  ASSUME Outside \/ UNCHANGED vars, FileTypes
  PROVE  next' \in Int /\ next <= next' /\ \A c \in clips' : c \in clips \/ c = next
BY DEF Outside, FinishClip, WriteMetadata, BeginAnalysis, WriteVerdict, Keep, Delete, vars, files,
   sidecars, writers, FileTypes

LEMMA SweepTypesKept == FileTypes /\ SweepTypes /\ [Next]_vars => SweepTypes'
<1> SUFFICES ASSUME FileTypes, SweepTypes, [Next]_vars PROVE SweepTypes'
  OBVIOUS
<1>0. next \in Int /\ listed \subseteq Clips /\ clips \subseteq Clips
  BY Bounds DEF FileTypes, SweepTypes, Clips
<1>1. CASE Outside \/ UNCHANGED vars
  <2>1. UNCHANGED sweep
    BY <1>1 DEF Outside, FinishClip, WriteMetadata, BeginAnalysis, WriteVerdict, Keep, Delete, vars
  <2>2. UNCHANGED <<phase, listed, todo, ranked, picked, stripping, removed>>
    BY <2>1 DEF sweep, scope, budget
  <2>3. listed' \subseteq 1..(next' - 1)
    BY <1>0, <1>1, <2>2, ClipsShrink DEF SweepTypes
  <2>4. stripping' # None => stripping' \in listed' \ clips'
    <3>1. next \notin listed
      BY <1>0 DEF SweepTypes
    <3> QED
      BY <1>1, <2>2, <3>1, ClipsShrink DEF SweepTypes
  <2>5. Ranked' = Ranked /\ (Free' <=> Free)
    BY <2>2 DEF Ranked, Free
  <2> QED
    BY <2>2, <2>3, <2>4, <2>5 DEF SweepTypes
<1>2. CASE List
  <2>1. /\ phase = "idle" /\ phase' = "expiring" /\ listed' = clips /\ todo' = clips
        /\ removed' = {} /\ UNCHANGED <<clips, next, ranked, picked, stripping>>
    BY <1>2 DEF List, files, writers, budget
  <2>2. picked = None /\ stripping = None /\ Ranked = {}
    BY <2>1 DEF SweepTypes, Free
  <2>3. Ranked' = {}
    BY <2>1, <2>2 DEF Ranked
  <2> QED
    BY <2>1, <2>2, <2>3 DEF SweepTypes, FileTypes
<1>3. CASE Judge
  <2>1. PICK c \in todo : /\ todo' = todo \ {c}
                         /\ picked' = IF c \in clips /\ PastWindow(c, TierOf(c)) THEN c ELSE None
    BY <1>3 DEF Judge
  <2>2. phase = "expiring" /\ UNCHANGED <<next, clips, phase, listed, ranked, stripping, removed>>
    BY <1>3 DEF Judge, files, writers, scope, budget
  <2>3. Ranked' = Ranked
    BY <2>2 DEF Ranked
  <2> QED
    BY <2>1, <2>2, <2>3 DEF SweepTypes
<1>4. CASE EndExpiry
  <2>1. /\ Free /\ todo = {} /\ phase' \in {"sizing", "done"}
        /\ todo' \in {todo, listed \ removed} /\ ranked' = [c \in Clips |-> None]
        /\ UNCHANGED <<next, clips, listed, picked, stripping, removed>>
    BY <1>4 DEF EndExpiry, files, writers
  <2>2. Ranked' = {} /\ Free'
    BY <2>1 DEF Ranked, Free
  <2> QED
    BY <2>1, <2>2 DEF SweepTypes
<1>5. CASE Size
  <2>1. PICK c \in todo :
          /\ todo' = todo \ {c}
          /\ ranked' \in {ranked, [ranked EXCEPT ![c] = TierOf(c)]}
    BY <1>5 DEF Size
  <2>2. phase = "sizing" /\ UNCHANGED <<next, clips, phase, listed, picked, stripping, removed>>
    BY <1>5 DEF Size, files, writers, scope
  <2>3. TierOf(c) \in Tiers
    BY DEF TierOf, Tier, Tiers
  <2>4. ranked' \in [Clips -> Tiers \union {None}] /\ Ranked' \subseteq Ranked \union {c}
    BY <2>1, <2>3 DEF SweepTypes, Ranked
  <2>5. Free'
    BY <2>2 DEF SweepTypes, Free
  <2> QED
    BY <2>1, <2>2, <2>4, <2>5 DEF SweepTypes
<1>6. CASE EndSizing
  <2>1. /\ phase = "sizing" /\ phase' = "trimming" /\ todo' = Ranked
        /\ UNCHANGED <<next, clips, listed, ranked, picked, stripping, removed>>
    BY <1>6 DEF EndSizing, files, writers, budget
  <2>2. Ranked' = Ranked
    BY <2>1 DEF Ranked
  <2> QED
    BY <2>1, <2>2 DEF SweepTypes
<1>7. CASE Trim
  <2>1. PICK c \in todo : picked' = c /\ todo' = todo \ {c}
    BY <1>7 DEF Trim
  <2>2. phase = "trimming" /\ UNCHANGED <<next, clips, phase, listed, ranked, stripping, removed>>
    BY <1>7 DEF Trim, files, writers, scope, budget
  <2>3. Ranked' = Ranked
    BY <2>2 DEF Ranked
  <2> QED
    BY <2>1, <2>2, <2>3 DEF SweepTypes
<1>8. CASE ReportPicked \/ FindGone \/ FailUnlink
  <2>1. /\ picked # None /\ picked' = None /\ removed' \in {removed, removed \union {picked}}
        /\ UNCHANGED <<next, clips, phase, listed, todo, ranked, stripping>>
    BY <1>8 DEF ReportPicked, FindGone, FailUnlink, files, writers, scope, budget
  <2>2. Ranked' = Ranked /\ phase \in {"expiring", "trimming"}
    BY <2>1 DEF Ranked, SweepTypes, Free
  <2> QED
    BY <2>1, <2>2 DEF SweepTypes
<1>9. CASE Unlink
  <2>1. /\ picked # None /\ picked' = None /\ clips' = clips \ {picked} /\ stripping' = picked
        /\ UNCHANGED <<next, phase, listed, todo, ranked, removed>>
    BY <1>9 DEF Unlink, writers, scope, budget
  <2>2. Ranked' = Ranked /\ phase \in {"expiring", "trimming"}
    BY <2>1 DEF Ranked, SweepTypes, Free
  <2> QED
    BY <2>1, <2>2 DEF SweepTypes
<1>10. CASE Strip
  <2>1. /\ stripping # None /\ stripping' = None /\ removed' = removed \union {stripping}
        /\ UNCHANGED <<next, clips, phase, listed, todo, ranked, picked>>
    BY <1>10 DEF Strip, writers, scope
  <2>2. Ranked' = Ranked /\ phase \in {"expiring", "trimming"}
    BY <2>1 DEF Ranked, SweepTypes, Free
  <2> QED
    BY <2>1, <2>2 DEF SweepTypes
<1>11. CASE EndTrimming
  <2>1. /\ Free /\ phase' = "done"
        /\ UNCHANGED <<next, clips, listed, todo, ranked, picked, stripping, removed>>
    BY <1>11 DEF EndTrimming, files, writers, budget
  <2>2. Ranked' = Ranked /\ Free'
    BY <2>1 DEF Ranked, Free
  <2> QED
    BY <2>1, <2>2 DEF SweepTypes
<1>12. CASE Exit
  <2>1. /\ phase = "done" /\ phase' = "idle" /\ listed' = {} /\ todo' = {} /\ removed' = {}
        /\ ranked' = [c \in Clips |-> None] /\ UNCHANGED <<next, picked, stripping>>
    BY <1>12 DEF Exit, files, writers
  <2>2. Ranked' = {} /\ picked = None /\ stripping = None
    BY <2>1 DEF Ranked, SweepTypes, Free
  <2> QED
    BY <2>1, <2>2 DEF SweepTypes, Free
<1> QED
  BY <1>1, <1>2, <1>3, <1>4, <1>5, <1>6, <1>7, <1>8, <1>9, <1>10, <1>11, <1>12 DEF Next, Outside

LEMMA Credits ==
  ASSUME NEW c \in Clips, total \in Int PROVE Credit(c) \in Int
BY RetentionAssumption DEF Credit

LEMMA RestTypesKept == AllTypes /\ [Next]_vars => RestTypes'
<1> SUFFICES ASSUME FileTypes, SweepTypes, RestTypes, [Next]_vars PROVE RestTypes'
  BY DEF AllTypes
<1>0. listed \subseteq Clips
  BY Bounds DEF FileTypes, SweepTypes, Clips
<1>1. CASE Outside \/ UNCHANGED vars
  <2>1. UNCHANGED <<sweep, refused, aims>>
    BY <1>1 DEF Outside, FinishClip, WriteMetadata, BeginAnalysis, WriteVerdict, Keep, Delete,
       vars, history
  <2>2. disturbed' \in BOOLEAN
    BY <1>1 DEF Outside, FinishClip, WriteMetadata, BeginAnalysis, WriteVerdict, Keep, Delete,
       vars, history, RestTypes
  <2>3. disruptions' \in {disruptions, disruptions + 1} /\ disruptions' <= MaxDisruptions
    BY <1>1, Bounds DEF Outside, FinishClip, WriteMetadata, BeginAnalysis, WriteVerdict, Keep,
       Delete, vars, RestTypes
  <2> QED
    BY <2>1, <2>2, <2>3, Bounds DEF sweep, scope, budget, aims, RestTypes
<1>2. CASE List
  <2>1. dry' \in BOOLEAN /\ disturbed' \in BOOLEAN
    BY <1>2 DEF List
  <2>2. expected' \subseteq listed' /\ vouched' \subseteq listed' /\ refused' = {}
    BY <1>2 DEF List, Wanted
  <2>3. UNCHANGED <<total, disruptions>>
    BY <1>2 DEF List, budget
  <2> QED
    BY <2>1, <2>2, <2>3 DEF RestTypes
<1>3. CASE Judge \/ EndSizing \/ Trim \/ Unlink \/ FindGone \/ EndTrimming
  <2>1. UNCHANGED <<dry, listed, total, refused, expected, vouched, disturbed, disruptions>>
    BY <1>3 DEF Judge, EndSizing, Trim, Unlink, FindGone, EndTrimming, scope, budget, history, aims
  <2> QED
    BY <2>1 DEF RestTypes
<1>4. CASE EndExpiry \/ Size \/ ReportPicked \/ Strip
  <2>1. UNCHANGED <<dry, listed, refused, expected, vouched, disturbed, disruptions>>
    BY <1>4 DEF EndExpiry, Size, ReportPicked, Strip, scope, history, aims
  <2>2. total' \in Int
    <3>1. CASE EndExpiry
      BY <3>1 DEF EndExpiry
    <3>2. CASE Size
      <4>1. PICK c \in todo : total' = total \/ total' = total + SizeOf[c]
        BY <3>2 DEF Size
      <4>2. SizeOf[c] \in Int
        BY <1>0, RetentionAssumption DEF SweepTypes
      <4> QED
        BY <4>1, <4>2 DEF RestTypes
    <3>3. CASE ReportPicked
      <4>1. total' = Credit(picked) /\ picked \in Clips
        BY <1>0, <3>3 DEF ReportPicked, SweepTypes
      <4> QED
        BY <4>1, Credits DEF RestTypes
    <3>4. CASE Strip
      <4>1. total' = Credit(stripping) /\ stripping \in Clips
        BY <1>0, <3>4 DEF Strip, SweepTypes
      <4> QED
        BY <4>1, Credits DEF RestTypes
    <3> QED
      BY <1>4, <3>1, <3>2, <3>3, <3>4
  <2> QED
    BY <2>1, <2>2 DEF RestTypes
<1>5. CASE FailUnlink
  <2>1. /\ disruptions < MaxDisruptions /\ disruptions' = disruptions + 1
        /\ refused' = refused \union {picked} /\ picked \in listed
        /\ UNCHANGED <<dry, listed, total, expected, vouched>>
    BY <1>5 DEF FailUnlink, KeepTotal, scope, aims, SweepTypes
  <2>2. disturbed' \in BOOLEAN
    BY <1>5 DEF FailUnlink
  <2> QED
    BY <2>1, <2>2, Bounds DEF RestTypes
<1>6. CASE Exit
  <2>1. /\ listed' = {} /\ total' = 0 /\ refused' = {} /\ expected' = {} /\ vouched' = {}
        /\ UNCHANGED disruptions
    BY <1>6 DEF Exit
  <2>2. dry' \in BOOLEAN /\ disturbed' \in BOOLEAN
    BY <1>6 DEF Exit
  <2> QED
    BY <2>1, <2>2 DEF RestTypes
<1> QED
  BY <1>1, <1>2, <1>3, <1>4, <1>5, <1>6 DEF Next, Outside

LEMMA TypesKept == AllTypes /\ [Next]_vars => AllTypes'
BY FileTypesKept, SweepTypesKept, RestTypesKept DEF AllTypes

-----------------------------------------------------------------------------
(* Clips vouched for *)

VouchedNow(c) == verdict[c] = "high" \/ (verdict[c] = "review" /\ decision[c] = "keep")

VouchInv ==
  /\ analysing # None => verdict[analysing] = None
  /\ \A c \in vouched : c \in clips => VouchedNow(c)
  /\ VouchedOutlive

LEMMA VouchInit == Init => VouchInv
BY DEF Init, VouchInv, VouchedOutlive

LEMMA NoneNotIn ==
  ASSUME NEW n \in Int, NEW S, S \subseteq 1..(n - 1) PROVE None \notin S
<1>1. 1..(n - 1) \subseteq Int
  OBVIOUS
<1> QED
  BY <1>1, NoneIsNoNumber, Zenon

LEMMA VouchedTier ==
  ASSUME NEW c, VouchedNow(c) PROVE TierOf(c) = "high"
BY DEF VouchedNow, TierOf, Tier

LEMMA VouchInvKept == AllTypes /\ VouchInv /\ [Next]_vars => VouchInv'
<1> SUFFICES ASSUME FileTypes, SweepTypes, RestTypes, AllTypes', VouchInv, [Next]_vars
             PROVE  VouchInv'
  BY TypesKept DEF AllTypes
<1>0. /\ vouched \subseteq Clips /\ next \notin vouched /\ None \notin vouched
      /\ None \notin vouched' /\ clips \subseteq Clips
  <2>1. next \in Int /\ listed \subseteq 1..(next - 1) /\ vouched \subseteq listed
    BY Bounds DEF FileTypes, SweepTypes, RestTypes
  <2>2. vouched \subseteq Clips /\ next \notin vouched /\ clips \subseteq Clips
    BY <2>1, Bounds DEF FileTypes, Clips
  <2>3. None \notin vouched /\ None \notin vouched'
    <3>1. vouched \subseteq 1..(next - 1)
      BY <2>1
    <3>2. next' \in 1..(LastClip + 1)
      BY DEF AllTypes, FileTypes
    <3>3. listed' \subseteq 1..(next' - 1) /\ vouched' \subseteq listed'
      BY Zenon DEF AllTypes, SweepTypes, RestTypes
    <3>4. next' \in Int /\ vouched' \subseteq 1..(next' - 1)
      <4>1. next' \in Int
        BY <3>2, Bounds
      <4> QED
        BY <3>3, <4>1, Zenon
    <3> QED
      BY <2>1, <3>1, <3>4, NoneNotIn, Zenon
  <2> QED
    BY <2>2, <2>3
<1>1. CASE FinishClip
  <2>1. clips' = clips \union {next} /\ UNCHANGED <<verdict, decision, age, analysing, vouched, phase, picked>>
    BY <1>1 DEF FinishClip, sweep, scope, history, aims
  <2> QED
    BY <1>0, <2>1 DEF VouchInv, VouchedNow, VouchedOutlive, PastWindow
<1>2. CASE WriteMetadata
  BY <1>2 DEF WriteMetadata, sweep, scope, history, aims, VouchInv, VouchedNow, VouchedOutlive,
     PastWindow
<1>3. CASE BeginAnalysis
  <2>1. analysing' \in clips /\ verdict[analysing'] = None
        /\ UNCHANGED <<clips, verdict, decision, age, vouched, phase, picked>>
    BY <1>3 DEF BeginAnalysis, files, sidecars, sweep, scope, history, aims
  <2> QED
    BY <2>1 DEF VouchInv, VouchedNow, VouchedOutlive, PastWindow
<1>4. CASE WriteVerdict
  <2>1. PICK v \in Verdicts : verdict' = [verdict EXCEPT ![analysing] = v]
    BY <1>4 DEF WriteVerdict
  <2>2. analysing # None /\ analysing' = None
        /\ UNCHANGED <<clips, decision, age, vouched, phase, picked>>
    BY <1>4 DEF WriteVerdict, sweep, scope, aims
  <2>3. ASSUME NEW c \in vouched, c \in clips PROVE VouchedNow(c)'
    <3>1. VouchedNow(c)
      BY <2>3 DEF VouchInv
    <3>2. c # analysing
      BY <2>2, <3>1, NoneIsNoWord DEF VouchInv, VouchedNow
    <3>3. verdict'[c] = verdict[c]
      BY <1>0, <2>1, <3>2 DEF FileTypes
    <3> QED
      BY <2>2, <3>1, <3>3 DEF VouchedNow
  <2> QED
    BY <2>2, <2>3 DEF VouchInv, VouchedOutlive, PastWindow
<1>5. CASE Keep
  <2>1. PICK c \in clips : decision' = [decision EXCEPT ![c] = "keep"]
    BY <1>5 DEF Keep
  <2>2. UNCHANGED <<clips, verdict, age, analysing, vouched, phase, picked>>
    BY <1>5 DEF Keep, writers, sweep, scope, aims
  <2>3. ASSUME NEW d \in vouched, d \in clips PROVE VouchedNow(d)'
    BY <1>0, <2>1, <2>2, <2>3 DEF VouchInv, VouchedNow, FileTypes
  <2> QED
    BY <2>2, <2>3 DEF VouchInv, VouchedOutlive, PastWindow
<1>6. CASE Delete
  <2>1. PICK c \in clips :
          /\ clips' = clips \ {c}
          /\ verdict' = [verdict EXCEPT ![c] = None]
          /\ decision' = [decision EXCEPT ![c] = None]
    BY <1>6 DEF Delete
  <2>2. UNCHANGED <<age, analysing, vouched, phase, picked>>
    BY <1>6 DEF Delete, writers, sweep, scope, aims
  <2>3. analysing # None => verdict'[analysing] = None
    BY <2>1 DEF VouchInv, FileTypes
  <2>4. ASSUME NEW d \in vouched, d \in clips' PROVE VouchedNow(d)'
    BY <1>0, <2>1, <2>4 DEF VouchInv, VouchedNow, FileTypes
  <2> QED
    BY <2>2, <2>3, <2>4 DEF VouchInv, VouchedOutlive, PastWindow
<1>7. CASE List
  <2>1. /\ vouched' = {c \in clips : VouchedNow(c)} /\ phase = "idle"
        /\ UNCHANGED <<clips, verdict, decision, age, analysing, picked>>
    <3>1. vouched' = {c \in clips : \/ verdict[c] = "high"
                                    \/ verdict[c] = "review" /\ decision[c] = "keep"}
      BY <1>7, Zenon DEF List
    <3>2. phase = "idle" /\ UNCHANGED <<clips, verdict, decision, age, analysing, picked>>
      BY <1>7 DEF List, files, sidecars, writers
    <3>3. vouched' = {c \in clips : VouchedNow(c)}
      BY <3>1, Zenon DEF VouchedNow
    <3> QED
      BY <3>2, <3>3
  <2>2. picked' = None
    BY <2>1 DEF SweepTypes, Free
  <2> QED
    BY <1>0, <2>1, <2>2 DEF VouchInv, VouchedNow, VouchedOutlive
<1>8. CASE Judge
  <2>1. PICK c \in todo : picked' = IF c \in clips /\ PastWindow(c, TierOf(c)) THEN c ELSE None
    BY <1>8 DEF Judge
  <2>2. UNCHANGED <<clips, verdict, decision, age, analysing, vouched>>
    BY <1>8 DEF Judge, files, sidecars, writers, history, aims
  <2>3. picked' \in vouched => PastWindow(picked', "high")
    <3> SUFFICES ASSUME picked' \in vouched PROVE PastWindow(picked', "high")
      OBVIOUS
    <3>1. picked' = c /\ c \in clips /\ PastWindow(c, TierOf(c))
      BY <1>0, <2>1
    <3>2. TierOf(c) = "high"
      BY <3>1, VouchedTier DEF VouchInv
    <3> QED
      BY <3>1, <3>2
  <2>4. VouchedOutlive'
    BY <2>2, <2>3 DEF VouchedOutlive, PastWindow
  <2> QED
    BY <2>2, <2>4 DEF VouchInv, VouchedNow
<1>9. CASE EndExpiry \/ Size \/ EndSizing \/ Trim \/ EndTrimming \/ Exit
  <2>1. /\ phase' # "expiring" /\ vouched' \in {vouched, {}}
        /\ UNCHANGED <<clips, verdict, decision, age, analysing>>
    BY <1>9 DEF EndExpiry, Size, EndSizing, Trim, EndTrimming, Exit, scope, files, sidecars,
       writers, history, aims
  <2> QED
    BY <2>1 DEF VouchInv, VouchedNow, VouchedOutlive
<1>10. CASE ReportPicked \/ FindGone \/ FailUnlink \/ Unlink
  <2>1. /\ picked' = None /\ vouched' = vouched /\ clips' \subseteq clips
        /\ UNCHANGED <<verdict, decision, age, analysing>>
    BY <1>10 DEF ReportPicked, FindGone, FailUnlink, Unlink, files, sidecars, writers, history, aims
  <2> QED
    BY <1>0, <2>1 DEF VouchInv, VouchedNow, VouchedOutlive
<1>11. CASE Strip
  <2>1. /\ stripping \notin clips
        /\ verdict' = [verdict EXCEPT ![stripping] = None]
        /\ decision' = [decision EXCEPT ![stripping] = None]
        /\ UNCHANGED <<clips, age, analysing, vouched, phase, picked>>
    BY <1>11 DEF Strip, writers, scope, history, aims, SweepTypes
  <2>2. analysing # None => verdict'[analysing] = None
    BY <2>1 DEF VouchInv, FileTypes
  <2>3. ASSUME NEW d \in vouched, d \in clips PROVE VouchedNow(d)'
    BY <1>0, <2>1, <2>3 DEF VouchInv, VouchedNow, FileTypes
  <2> QED
    BY <2>1, <2>2, <2>3 DEF VouchInv, VouchedOutlive, PastWindow
<1>12. CASE UNCHANGED vars
  BY <1>12 DEF vars, files, sidecars, writers, sweep, scope, history, aims, VouchInv, VouchedNow,
     VouchedOutlive, PastWindow
<1> QED
  BY <1>1, <1>2, <1>3, <1>4, <1>5, <1>6, <1>7, <1>8, <1>9, <1>10, <1>11, <1>12 DEF Next

-----------------------------------------------------------------------------
(* Numbers and finite sets                                                 *)

\* A set of naturals that is not empty has a least member.
LEMMA LeastNumber ==
  ASSUME NEW N, N \subseteq Nat, N # {}
  PROVE  \E n \in N : \A m \in N : n <= m
<1>1. \E n \in N : \A m \in N : <<m, n>> \notin OpToRel(<, Nat)
  BY NatLessThanWellFounded, WFMin
<1>2. ASSUME NEW m \in N, NEW n \in N, <<m, n>> \notin OpToRel(<, Nat) PROVE n <= m
  BY <1>2 DEF OpToRel
<1> QED
  BY <1>1, <1>2

\* Of the sets with some property, one with the fewest elements.
LEMMA FewestElements ==
  ASSUME NEW D, IsFiniteSet(D), NEW Q, Q \subseteq SUBSET D, Q # {}
  PROVE  \E s \in Q : \A t \in SUBSET s : t # s => t \notin Q
<1> DEFINE N == {Cardinality(s) : s \in Q}
<1>1. ASSUME NEW s \in Q PROVE IsFiniteSet(s) /\ Cardinality(s) \in Nat
  BY FS_Subset, FS_CardinalityType
<1>2. N \subseteq Nat /\ N # {}
  BY <1>1
<1>3. PICK n \in N : \A m \in N : n <= m
  BY <1>2, LeastNumber
<1>4. PICK s \in Q : n = Cardinality(s)
  OBVIOUS
<1>5. ASSUME NEW t \in SUBSET s, t # s PROVE t \notin Q
  <2>1. Cardinality(t) <= Cardinality(s) /\ Cardinality(s) # Cardinality(t)
    BY <1>1, <1>5, FS_Subset
  <2>2. IsFiniteSet(t) /\ Cardinality(t) \in Nat /\ Cardinality(s) \in Nat
    BY <1>1, FS_Subset, FS_CardinalityType
  <2> QED
    BY <1>3, <1>4, <2>1, <2>2
<1> QED
  BY <1>5

-----------------------------------------------------------------------------
(* Sums over finite sets.  SumFunctionOnSet unfolds to the function g with *)
(* Sums(w, g, S), which adds up the members of a set in the order CHOOSE   *)
(* takes them; the sum does not depend on that order.                      *)

Least(s) == CHOOSE x \in s : TRUE
Turn(w, g, s) == IF s = {} THEN 0 ELSE w[Least(s)] + g[s \ {Least(s)}]
Sums(w, g, D) == g = [s \in SUBSET D |-> Turn(w, g, s)]

\* What the community module's sum is.
LEMMA Unfold ==
  ASSUME NEW w, NEW S
  PROVE  SumFunctionOnSet(w, S) = (CHOOSE g : Sums(w, g, S))[S]
BY DEF SumFunctionOnSet, FoldFunctionOnSet, MapThenFoldSet, Sums, Turn, Least

\* Two such functions agree on the finite sets both are defined on ...
LEMMA SumsAgree ==
  ASSUME NEW w, NEW g, NEW h, NEW S, NEW T, Sums(w, g, S), Sums(w, h, T),
         NEW s, s \subseteq S, s \subseteq T, IsFiniteSet(s)
  PROVE  g[s] = h[s]
<1> DEFINE Q == {t \in SUBSET s : g[t] # h[t]}
<1>1. SUFFICES Q = {}
  OBVIOUS
<1>2. SUFFICES ASSUME Q # {} PROVE FALSE
  OBVIOUS
<1>3. PICK t \in Q : \A u \in SUBSET t : u # t => u \notin Q
  <2>1. Q \subseteq SUBSET s
    OBVIOUS
  <2> HIDE DEF Q
  <2> QED
    BY <1>2, <2>1, FewestElements
<1>4. g[t] = Turn(w, g, t) /\ h[t] = Turn(w, h, t)
  BY DEF Sums
<1>5. t # {}
  BY <1>4 DEF Turn
<1>6. Least(t) \in t
  BY <1>5 DEF Least
<1>7. g[t \ {Least(t)}] = h[t \ {Least(t)}]
  BY <1>3, <1>6
<1> QED
  BY <1>4, <1>5, <1>7 DEF Turn

\* ... and every finite set has one.
LEMMA SumsExist ==
  ASSUME NEW w, NEW D, IsFiniteSet(D) PROVE \E g : Sums(w, g, D)
<1> DEFINE Q == {s \in SUBSET D : ~\E g : Sums(w, g, s)}
<1>1. SUFFICES ASSUME Q # {} PROVE FALSE
  OBVIOUS
<1>2. PICK s \in Q : \A t \in SUBSET s : t # s => t \notin Q
  <2>1. Q \subseteq SUBSET D
    OBVIOUS
  <2> HIDE DEF Q
  <2> QED
    BY <1>1, <2>1, FewestElements
<1> DEFINE G(t) == CHOOSE g : Sums(w, g, t)
           v == [t \in SUBSET s |-> G(t)[t]]
           f == [t \in SUBSET s |-> Turn(w, v, t)]
<1>3. ASSUME NEW t \in SUBSET s, t # s PROVE Sums(w, G(t), t)
  BY <1>2, <1>3
<1>4. ASSUME NEW t \in SUBSET s, t # s PROVE f[t] = v[t]
  <2>1. v[t] = Turn(w, G(t), t)
    <3>1. G(t) = [u \in SUBSET t |-> Turn(w, G(t), u)]
      BY <1>3, <1>4 DEF Sums
    <3> HIDE DEF G
    <3> QED
      BY <3>1
  <2>2. CASE t = {}
    BY <2>1, <2>2 DEF Turn
  <2>3. CASE t # {}
    <3> DEFINE r == t \ {Least(t)}
    <3>1. Least(t) \in t
      BY <2>3 DEF Least
    <3>2. r \in SUBSET s /\ r # s /\ r \subseteq t /\ IsFiniteSet(r)
      BY <3>1, FS_Subset
    <3>3. G(t)[r] = G(r)[r]
      BY <1>3, <1>4, <3>2, SumsAgree
    <3> QED
      BY <2>1, <2>3, <3>2, <3>3 DEF Turn
  <2> QED
    BY <2>2, <2>3
<1>5. ASSUME NEW t \in SUBSET s PROVE Turn(w, v, t) = Turn(w, f, t)
  <2>1. CASE t = {}
    BY <2>1 DEF Turn
  <2>2. CASE t # {}
    <3>1. Least(t) \in t
      BY <2>2 DEF Least
    <3>2. t \ {Least(t)} \in SUBSET s /\ t \ {Least(t)} # s
      BY <3>1
    <3>3. f[t \ {Least(t)}] = v[t \ {Least(t)}]
      BY <1>4, <3>2
    <3> QED
      BY <2>2, <3>3 DEF Turn
  <2> QED
    BY <2>1, <2>2
<1>6. Sums(w, f, s)
  BY <1>5 DEF Sums
<1> QED
  BY <1>6

\* One turn of the sum, and its consequences.
LEMMA SumTurn ==
  ASSUME NEW w, NEW S, IsFiniteSet(S)
  PROVE  SumFunctionOnSet(w, S) =
           IF S = {} THEN 0 ELSE w[Least(S)] + SumFunctionOnSet(w, S \ {Least(S)})
<1> DEFINE G(t) == CHOOSE g : Sums(w, g, t)
<1>1. ASSUME NEW t, t \subseteq S PROVE Sums(w, G(t), t) /\ IsFiniteSet(t)
  BY <1>1, FS_Subset, SumsExist
<1>2. SumFunctionOnSet(w, S) = Turn(w, G(S), S)
  <2>1. G(S) = [t \in SUBSET S |-> Turn(w, G(S), t)]
    BY <1>1 DEF Sums
  <2>2. SumFunctionOnSet(w, S) = G(S)[S]
    BY Unfold
  <2> HIDE DEF G
  <2> QED
    BY <2>1, <2>2
<1>3. CASE S = {}
  BY <1>2, <1>3 DEF Turn
<1>4. CASE S # {}
  <2> DEFINE r == S \ {Least(S)}
  <2>1. SumFunctionOnSet(w, r) = G(r)[r]
    BY Unfold
  <2>2. G(S)[r] = G(r)[r]
    BY <1>1, SumsAgree
  <2> QED
    BY <1>2, <1>4, <2>1, <2>2 DEF Turn
<1> QED
  BY <1>3, <1>4

LEMMA SumType ==
  ASSUME NEW D, IsFiniteSet(D), NEW w \in [D -> Nat], NEW S \in SUBSET D
  PROVE  SumFunctionOnSet(w, S) \in Nat
<1> DEFINE Q == {s \in SUBSET D : SumFunctionOnSet(w, s) \notin Nat}
<1>1. SUFFICES ASSUME Q # {} PROVE FALSE
  OBVIOUS
<1>2. PICK s \in Q : \A t \in SUBSET s : t # s => t \notin Q
  <2>1. Q \subseteq SUBSET D
    OBVIOUS
  <2> HIDE DEF Q
  <2> QED
    BY <1>1, <2>1, FewestElements
<1>3. IsFiniteSet(s)
  BY FS_Subset
<1>4. s # {}
  <2>1. SumFunctionOnSet(w, {}) = 0
    BY FS_EmptySet, SumTurn
  <2> QED
    BY <2>1
<1>5. Least(s) \in s
  BY <1>4 DEF Least
<1>6. SumFunctionOnSet(w, s \ {Least(s)}) \in Nat /\ w[Least(s)] \in Nat
  BY <1>2, <1>5
<1> QED
  BY <1>3, <1>4, <1>6, SumTurn

LEMMA SumSplits ==
  ASSUME NEW D, IsFiniteSet(D), NEW w \in [D -> Nat], NEW S \in SUBSET D, NEW x \in S
  PROVE  SumFunctionOnSet(w, S) = w[x] + SumFunctionOnSet(w, S \ {x})
<1> DEFINE Sum(s) == SumFunctionOnSet(w, s)
           Q == {s \in SUBSET D : \E y \in s : Sum(s) # w[y] + Sum(s \ {y})}
<1> HIDE DEF Sum
<1>0. ASSUME NEW s \in SUBSET D
      PROVE  Sum(s) \in Nat /\ (s # {} => Sum(s) = w[Least(s)] + Sum(s \ {Least(s)}))
  <2>1. IsFiniteSet(s)
    BY FS_Subset
  <2> QED
    BY <2>1, SumType, SumTurn DEF Sum
<1>1. SUFFICES ASSUME Q # {} PROVE FALSE
  BY DEF Sum
<1>2. PICK s \in Q : \A t \in SUBSET s : t # s => t \notin Q
  <2>1. Q \subseteq SUBSET D
    OBVIOUS
  <2> HIDE DEF Q
  <2> QED
    BY <1>1, <2>1, FewestElements
<1>3. PICK y \in s : Sum(s) # w[y] + Sum(s \ {y})
  OBVIOUS
<1> DEFINE l == Least(s)
<1>4. l \in s
  BY <1>3 DEF Least
<1>5. Sum(s) = w[l] + Sum(s \ {l})
  BY <1>0, <1>3
<1>6. l # y
  BY <1>3, <1>5
<1> DEFINE r == (s \ {l}) \ {y}
<1>7. Sum(s \ {l}) = w[y] + Sum(r)
  BY <1>2, <1>4, <1>6
<1>8. Sum(s \ {y}) = w[l] + Sum(r)
  <2>1. (s \ {y}) \ {l} = r
    OBVIOUS
  <2>2. Sum(s \ {y}) = w[l] + Sum((s \ {y}) \ {l})
    BY <1>2, <1>4, <1>6
  <2> QED
    BY <2>1, <2>2, Zenon
<1>9. w[y] \in Nat /\ w[l] \in Nat /\ Sum(r) \in Nat
  BY <1>0, <1>4
<1>10. Sum(s) # w[y] + Sum(s \ {y})
  BY <1>3
<1> HIDE DEF r, l, Q
<1> QED
  BY <1>5, <1>7, <1>8, <1>9, <1>10

LEMMA SumMonotone ==
  ASSUME NEW D, IsFiniteSet(D), NEW w \in [D -> Nat],
         NEW S \in SUBSET D, NEW T \in SUBSET S
  PROVE  SumFunctionOnSet(w, T) <= SumFunctionOnSet(w, S)
<1> DEFINE Sum(s) == SumFunctionOnSet(w, s)
           Q == {s \in SUBSET D : T \subseteq s /\ ~(Sum(T) <= Sum(s))}
<1> HIDE DEF Sum
<1>1. SUFFICES ASSUME Q # {} PROVE FALSE
  BY DEF Sum
<1>2. PICK s \in Q : \A t \in SUBSET s : t # s => t \notin Q
  <2>1. Q \subseteq SUBSET D
    OBVIOUS
  <2> HIDE DEF Q
  <2> QED
    BY <1>1, <2>1, FewestElements
<1>3. Sum(s) \in Nat /\ Sum(T) \in Nat
  BY SumType DEF Sum
<1>4. PICK x \in s : x \notin T
  BY <1>3
<1>5. Sum(s) = w[x] + Sum(s \ {x}) /\ Sum(s \ {x}) \in Nat /\ w[x] \in Nat
  BY SumSplits, SumType DEF Sum
<1>6. Sum(T) <= Sum(s \ {x})
  BY <1>2, <1>4
<1> QED
  BY <1>3, <1>5, <1>6
-----------------------------------------------------------------------------
(* The bytes of sets of clips                                              *)

LEMMA ClipsFinite == IsFiniteSet(Clips) /\ SizeOf \in [Clips -> Nat]
<1>1. LastClip \in Int /\ 1 \in Int
  BY RetentionAssumption
<1>2. IsFiniteSet(1..LastClip)
  BY <1>1, FS_Interval
<1> QED
  BY <1>2, RetentionAssumption DEF Clips

LEMMA BytesType == \A S \in SUBSET Clips : Bytes(S) \in Nat
BY ClipsFinite, SumType DEF Bytes

LEMMA BytesSplit ==
  ASSUME NEW S \in SUBSET Clips, NEW c \in S
  PROVE  Bytes(S) = SizeOf[c] + Bytes(S \ {c})
BY ClipsFinite, SumSplits DEF Bytes

LEMMA BytesMonotone ==
  ASSUME NEW S \in SUBSET Clips, NEW T \in SUBSET S PROVE Bytes(T) <= Bytes(S)
BY ClipsFinite, SumMonotone DEF Bytes

LEMMA BytesEmpty == Bytes({}) = 0
BY FS_EmptySet, SumTurn DEF Bytes
-----------------------------------------------------------------------------
(* The budget                                                              *)

Held == {picked, stripping} \ {None}

\* Where the clips of the budget phase are, ...
Places ==
  /\ picked = None \/ stripping = None
  /\ phase \in {"sizing", "trimming"} => Budget # None
  /\ phase \in {"idle", "expiring"} => Ranked = {}
  /\ phase = "sizing" => /\ (Ranked \union todo) \intersect removed = {}
                         /\ Ranked \intersect todo = {}
  /\ phase \in {"expiring", "trimming"} => /\ (todo \union Held) \intersect removed = {}
                                          /\ Held \intersect todo = {}
  /\ phase = "trimming" => todo \union Held \subseteq Ranked
  /\ phase = "trimming" /\ picked # None => total > Budget

\* ... and the bytes it counts.
Totals ==
  /\ phase = "sizing" => total = Bytes(Ranked)
  /\ phase = "trimming" => total = Bytes(Ranked \ removed)

Counted == Places /\ Totals

\* What it has seen to.
Seen ==
  ~dry =>
    /\ removed \intersect clips = {}
    /\ phase = "trimming" => Ranked \intersect clips \subseteq todo \union Held \union refused

Met ==
  phase = "done" /\ ~dry /\ Budget # None =>
    Bytes(Ranked \intersect clips) <= Budget \/ Ranked \intersect clips \subseteq refused

BudgetInv == Counted /\ Seen /\ Met

-----------------------------------------------------------------------------
(* A sweep left alone                                                      *)

\* With the tiers T the clips had when the sweep began: those past their window,
\* what a clip's place in the budget leaves on the disk, and what is wanted.
Aged(T)    == {c \in listed : PastWindow(c, T[c])}
Rest(T)    == listed \ Aged(T)
Left(T, c) == {d \in Rest(T) : ~Before(d, c, T)}
Over(T)    == {c \in Rest(T) : Budget # None /\ Bytes(Left(T, c)) > Budget}

Begun(T) ==
  /\ expected = Aged(T) \union Over(T)
  /\ \A c \in listed \ (removed \union {stripping}) : c \in clips /\ TierOf(c) = T[c]

Expired(T) == phase = "expiring" => removed \union Held = Aged(T) \ todo

Weighed(T) ==
  phase \in {"sizing", "trimming"} =>
    /\ Aged(T) \subseteq removed
    /\ \A c \in Ranked : ranked[c] = T[c]
    /\ phase = "sizing" => removed = Aged(T) /\ Ranked \union todo = Rest(T)

Trimmed(T) ==
  phase = "trimming" =>
    /\ Ranked = Rest(T)
    /\ (removed \ Aged(T)) \union Held = Rest(T) \ todo
    /\ \A c \in Rest(T) \ todo : c \in Over(T) /\ \A d \in todo : Before(c, d, T)

Exact(T) == Begun(T) /\ Expired(T) /\ Weighed(T) /\ Trimmed(T)

ExactInv ==
  ~disturbed =>
    /\ phase \in {"expiring", "sizing", "trimming"} => \E T \in [listed -> Tiers] : Exact(T)
    /\ phase = "done" => removed = expected

LEMMA ListedAreClips == FileTypes /\ SweepTypes => listed \subseteq Clips /\ clips \subseteq Clips
BY Bounds DEF FileTypes, SweepTypes, Clips

LEMMA NoneIsNoClip == None \notin Clips
BY NoneIsNoNumber, Bounds DEF Clips

\* One more clip is credited to the budget.
LEMMA CreditOne ==
  ASSUME FileTypes, SweepTypes, Counted, phase = "trimming", NEW c \in Held,
         removed' = removed \union {c}, total' = Credit(c), UNCHANGED ranked
  PROVE  total' = Bytes(Ranked' \ removed')
<1>1. Ranked' = Ranked /\ Ranked \subseteq Clips
  BY DEF Ranked
<1>2. c \in Ranked \ removed
  BY DEF Counted, Places
<1>3. Bytes(Ranked \ removed) = SizeOf[c] + Bytes((Ranked \ removed) \ {c})
  BY <1>1, <1>2, BytesSplit
<1>4. (Ranked \ removed) \ {c} = Ranked' \ removed'
  BY <1>1
<1>5. Bytes((Ranked \ removed) \ {c}) \in Nat /\ SizeOf[c] \in Nat
  BY <1>1, <1>2, BytesType, ClipsFinite
<1>6. total = Bytes(Ranked \ removed) /\ total' = total - SizeOf[c]
  BY DEF Counted, Totals, Credit
<1> DEFINE B == Bytes(Ranked' \ removed')
<1>7. Bytes(Ranked \ removed) = SizeOf[c] + B /\ B \in Nat
  BY <1>3, <1>4, <1>5, Zenon
<1> HIDE DEF B
<1>8. total' = B
  BY <1>5, <1>6, <1>7
<1> QED
  BY <1>8 DEF B

LEMMA CountedKept == FileTypes /\ SweepTypes /\ Counted /\ [Next]_vars => Counted'
<1> SUFFICES ASSUME FileTypes, SweepTypes, Counted, Places, Totals, [Next]_vars
             PROVE  Places' /\ Totals'
  BY DEF Counted
<1>0. listed \subseteq Clips /\ clips \subseteq Clips /\ None \notin Clips /\ Ranked \subseteq Clips
  BY ListedAreClips, NoneIsNoClip DEF Ranked
<1>1. CASE Outside \/ UNCHANGED vars
  <2>1. UNCHANGED <<sweep, Ranked>>
    BY <1>1 DEF Outside, FinishClip, WriteMetadata, BeginAnalysis, WriteVerdict, Keep, Delete, vars,
       sweep, budget, Ranked
  <2>2. Places'
    BY <2>1 DEF sweep, scope, budget, Places, Held
  <2>3. Totals'
    BY <2>1, Zenon DEF sweep, scope, budget, Totals
  <2> QED
    BY <2>2, <2>3
<1>2. CASE List \/ Judge
  <2>1. phase \in {"idle", "expiring"} /\ phase' = "expiring" /\ Free /\ UNCHANGED <<ranked, stripping>>
    BY <1>2 DEF List, Judge, scope, budget, SweepTypes
  <2>2. Ranked' = Ranked
    BY <2>1 DEF Ranked
  <2>3. (todo' \union Held') \intersect removed' = {} /\ Held' \intersect todo' = {}
    <3>1. CASE List
      BY <2>1, <3>1 DEF List, Free, Held
    <3>2. CASE Judge
      <4>1. PICK c \in todo : todo' = todo \ {c} /\ picked' \in {c, None}
        BY <3>2 DEF Judge
      <4> QED
        BY <2>1, <3>2, <4>1 DEF Judge, Free, Held, Places
    <3> QED
      BY <1>2, <3>1, <3>2
  <2> QED
    BY <2>1, <2>2, <2>3 DEF Places, Totals, Free
<1>3. CASE EndExpiry
  <2>1. /\ Free /\ phase' \in {"sizing", "done"} /\ ranked' = [c \in Clips |-> None] /\ total' = 0
        /\ phase' = "sizing" => Budget # None /\ todo' = listed \ removed
        /\ UNCHANGED <<picked, stripping, removed>>
    BY <1>3 DEF EndExpiry
  <2>2. Ranked' = {} /\ total' = Bytes(Ranked')
    BY <2>1, BytesEmpty DEF Ranked
  <2> QED
    BY <2>1, <2>2 DEF Places, Totals, Free
<1>4. CASE Size
  <2>1. PICK c \in todo :
          /\ todo' = todo \ {c}
          /\ IF c \in clips
             THEN ranked' = [ranked EXCEPT ![c] = TierOf(c)] /\ total' = total + SizeOf[c]
             ELSE UNCHANGED <<ranked, total>>
    BY <1>4 DEF Size
  <2>2. phase = "sizing" /\ UNCHANGED <<phase, picked, stripping, removed>>
    BY <1>4 DEF Size, scope
  <2>3. c \in Clips /\ c \notin Ranked /\ TierOf(c) # None
    BY <1>0, <2>1, <2>2, NoneIsNoWord DEF SweepTypes, Places, TierOf, Tier
  <2>4. CASE c \in clips
    <3>1. Ranked' = Ranked \union {c}
      BY <2>1, <2>3, <2>4 DEF Ranked, SweepTypes
    <3>2. Bytes(Ranked') = SizeOf[c] + Bytes(Ranked' \ {c}) /\ Ranked' \ {c} = Ranked
      BY <1>0, <2>3, <3>1, BytesSplit
    <3>3. total' = total + SizeOf[c] /\ total = Bytes(Ranked)
      BY <2>1, <2>2, <2>4 DEF Totals
    <3>4. total' = Bytes(Ranked')
      <4>1. Bytes(Ranked) \in Nat /\ SizeOf[c] \in Nat
        BY <1>0, <2>3, BytesType, ClipsFinite
      <4>2. Bytes(Ranked') = SizeOf[c] + Bytes(Ranked)
        BY <3>2, Zenon
      <4> QED
        BY <3>3, <4>1, <4>2
    <3> QED
      BY <2>1, <2>2, <2>3, <3>1, <3>4 DEF Places, Totals
  <2>5. CASE c \notin clips
    <3>1. UNCHANGED <<ranked, total>> /\ Ranked' = Ranked
      BY <2>1, <2>5 DEF Ranked
    <3> QED
      BY <2>1, <2>2, <3>1 DEF Places, Totals
  <2> QED
    BY <2>4, <2>5
<1>5. CASE EndSizing
  <2>1. /\ phase = "sizing" /\ phase' = "trimming" /\ todo' = Ranked
        /\ UNCHANGED <<ranked, total, picked, stripping, removed>>
    BY <1>5 DEF EndSizing, budget
  <2>2. Ranked' = Ranked /\ picked = None /\ stripping = None /\ Held' = {}
    BY <2>1 DEF Ranked, SweepTypes, Free, Held
  <2>3. Ranked' \ removed' = Ranked
    BY <2>1, <2>2 DEF Places
  <2>4. total' = Bytes(Ranked' \ removed')
    BY <2>1, <2>3, Zenon DEF Totals
  <2> QED
    BY <2>1, <2>2, <2>4 DEF Places, Totals
<1>6. CASE Trim
  <2>1. PICK c \in todo : picked' = c /\ todo' = todo \ {c}
    BY <1>6 DEF Trim
  <2>2. /\ phase = "trimming" /\ total > Budget /\ stripping = None
        /\ UNCHANGED <<phase, ranked, total, stripping, removed>>
    BY <1>6 DEF Trim, Free, scope, budget
  <2>3. Ranked' = Ranked /\ Held' \subseteq {c}
    BY <2>1, <2>2 DEF Ranked, Held
  <2>4. total' = Bytes(Ranked' \ removed')
    BY <2>2, <2>3, Zenon DEF Totals
  <2>5. Places'
    BY <2>1, <2>2, <2>3 DEF Places
  <2> QED
    BY <2>2, <2>4, <2>5 DEF Totals
<1>7. CASE ReportPicked
  <2>1. /\ picked # None /\ removed' = removed \union {picked} /\ total' = Credit(picked)
        /\ picked' = None /\ UNCHANGED <<phase, todo, ranked, stripping>>
    BY <1>7 DEF ReportPicked, scope
  <2>2. stripping = None /\ phase \in {"expiring", "trimming"} /\ picked \in Held /\ Held' = {}
    BY <2>1 DEF Places, SweepTypes, Free, Held
  <2>3. Ranked' = Ranked
    BY <2>1 DEF Ranked
  <2>4. phase = "trimming" => total' = Bytes(Ranked' \ removed')
    BY <2>1, <2>2, CreditOne
  <2>5. Places'
    BY <2>1, <2>2, <2>3 DEF Places
  <2> QED
    BY <2>1, <2>2, <2>4, <2>5 DEF Totals
<1>8. CASE Unlink \/ FindGone \/ FailUnlink
  <2>1. /\ picked # None /\ picked' = None /\ UNCHANGED <<phase, todo, ranked, total, removed>>
        /\ stripping' \in {stripping, picked}
    BY <1>8 DEF Unlink, FindGone, FailUnlink, KeepTotal, scope, budget
  <2>2. Ranked' = Ranked /\ Held' \subseteq Held
    BY <2>1 DEF Ranked, Held
  <2>3. phase \in {"expiring", "trimming"}
    BY <2>1 DEF SweepTypes, Free
  <2>4. Places'
    BY <2>1, <2>2, <2>3 DEF Places
  <2>5. Totals'
    BY <2>1, <2>2, Zenon DEF Totals
  <2> QED
    BY <2>4, <2>5
<1>9. CASE Strip
  <2>1. /\ stripping # None /\ removed' = removed \union {stripping} /\ total' = Credit(stripping)
        /\ stripping' = None /\ UNCHANGED <<phase, todo, ranked, picked>>
    BY <1>9 DEF Strip, scope
  <2>2. picked = None /\ phase \in {"expiring", "trimming"} /\ stripping \in Held /\ Held' = {}
    BY <2>1 DEF Places, SweepTypes, Free, Held
  <2>3. Ranked' = Ranked
    BY <2>1 DEF Ranked
  <2>4. phase = "trimming" => total' = Bytes(Ranked' \ removed')
    BY <2>1, <2>2, CreditOne
  <2>5. Places'
    BY <2>1, <2>2, <2>3 DEF Places
  <2> QED
    BY <2>1, <2>2, <2>4, <2>5 DEF Totals
<1>10. CASE EndTrimming
  BY <1>10 DEF EndTrimming, Places, Totals, Free
<1>11. CASE Exit
  <2>1. /\ phase' = "idle" /\ ranked' = [c \in Clips |-> None] /\ UNCHANGED <<picked, stripping>>
    BY <1>11 DEF Exit
  <2>2. Ranked' = {}
    BY <2>1 DEF Ranked
  <2> QED
    BY <2>1, <2>2 DEF Places, Totals
<1> QED
  BY <1>1, <1>2, <1>3, <1>4, <1>5, <1>6, <1>7, <1>8, <1>9, <1>10, <1>11 DEF Next, Outside

\* What the steps of the others leave of the clips a sweep listed.
LEMMA OthersShrink ==
  ASSUME FileTypes, SweepTypes, Outside \/ UNCHANGED vars, NEW S, S \subseteq listed
  PROVE  S \intersect clips' \subseteq S \intersect clips
<1>1. next \notin listed
  BY DEF FileTypes, SweepTypes
<1> QED
  BY <1>1, ClipsShrink

LEMMA SeenKept == FileTypes /\ SweepTypes /\ Counted /\ Seen /\ [Next]_vars => Seen'
<1> SUFFICES ASSUME FileTypes, SweepTypes, Places, Seen, [Next]_vars PROVE Seen'
  BY DEF Counted
<1>0. listed \subseteq Clips /\ None \notin Clips
  BY ListedAreClips, NoneIsNoClip
<1>1. CASE Outside \/ UNCHANGED vars
  <2>1. UNCHANGED <<sweep, refused>>
    BY <1>1 DEF Outside, FinishClip, WriteMetadata, BeginAnalysis, WriteVerdict, Keep, Delete, vars,
       history
  <2>2. /\ removed' \intersect clips' \subseteq removed \intersect clips
        /\ Ranked' \intersect clips' \subseteq Ranked \intersect clips
    <3>1. Ranked' = Ranked /\ removed' = removed /\ Ranked \subseteq listed /\ removed \subseteq listed
      BY <2>1 DEF sweep, budget, Ranked, SweepTypes
    <3> QED
      BY <1>1, <3>1, OthersShrink
  <2> QED
    BY <2>1, <2>2 DEF sweep, scope, Seen, Held
<1>2. CASE List \/ Exit
  <2>1. removed' = {} /\ phase' # "trimming"
    BY <1>2 DEF List, Exit
  <2> QED
    BY <2>1 DEF Seen
<1>3. CASE Judge \/ EndExpiry \/ Size \/ EndTrimming
  <2>1. phase' # "trimming" /\ UNCHANGED <<dry, removed, clips>>
    BY <1>3 DEF Judge, EndExpiry, Size, EndTrimming, scope, files
  <2> QED
    BY <2>1 DEF Seen
<1>4. CASE EndSizing
  <2>1. todo' = Ranked /\ UNCHANGED <<dry, removed, clips, ranked>>
    BY <1>4 DEF EndSizing, files, budget
  <2> QED
    BY <2>1 DEF Seen, Ranked
<1>5. CASE Trim
  <2>1. PICK c \in todo : picked' = c /\ todo' = todo \ {c}
    BY <1>5 DEF Trim
  <2>2. /\ phase = "trimming" /\ picked = None /\ stripping = None
        /\ UNCHANGED <<phase, dry, clips, ranked, stripping, removed, refused>>
    BY <1>5 DEF Trim, Free, files, scope, budget, history
  <2>3. c # None /\ Ranked' = Ranked /\ todo \union Held \subseteq todo' \union Held'
    BY <1>0, <2>1, <2>2 DEF SweepTypes, Held, Ranked
  <2> QED
    BY <2>2, <2>3 DEF Seen
<1>6. CASE ReportPicked
  BY <1>6 DEF ReportPicked, scope, Seen
<1>7. CASE Unlink
  <2>1. /\ picked # None /\ picked' = None /\ clips' = clips \ {picked} /\ stripping' = picked
        /\ UNCHANGED <<phase, dry, todo, ranked, removed, refused>>
    BY <1>7 DEF Unlink, scope, budget, history
  <2>2. Ranked' = Ranked /\ Held \subseteq Held'
    BY <2>1 DEF Ranked, Held, Places
  <2> QED
    BY <2>1, <2>2 DEF Seen
<1>8. CASE FindGone \/ FailUnlink
  <2>1. /\ picked # None /\ picked' = None
        /\ \/ picked \notin clips /\ refused' = refused
           \/ refused' = refused \union {picked}
        /\ UNCHANGED <<phase, dry, clips, todo, ranked, stripping, removed>>
    BY <1>8 DEF FindGone, FailUnlink, scope, budget, history, files
  <2>2. Ranked' = Ranked /\ Held \subseteq Held' \union {picked}
    BY <2>1 DEF Ranked, Held
  <2> QED
    BY <2>1, <2>2 DEF Seen
<1>9. CASE Strip
  <2>1. /\ stripping # None /\ stripping' = None /\ removed' = removed \union {stripping}
        /\ stripping \notin clips /\ UNCHANGED <<phase, dry, clips, todo, ranked, picked, refused>>
    BY <1>9 DEF Strip, scope, history, SweepTypes
  <2>2. Ranked' = Ranked /\ Held \subseteq Held' \union {stripping}
    BY <2>1 DEF Ranked, Held
  <2> QED
    BY <2>1, <2>2 DEF Seen
<1> QED
  BY <1>1, <1>2, <1>3, <1>4, <1>5, <1>6, <1>7, <1>8, <1>9 DEF Next, Outside

LEMMA MetKept == FileTypes /\ SweepTypes /\ Counted /\ Seen /\ Met /\ [Next]_vars => Met'
<1> SUFFICES ASSUME FileTypes, SweepTypes, Counted, Seen, Met, [Next]_vars,
                    phase' = "done", ~dry', Budget # None
             PROVE  \/ Bytes(Ranked' \intersect clips') <= Budget
                    \/ Ranked' \intersect clips' \subseteq refused'
  BY DEF Met
<1>0. Ranked \subseteq Clips /\ Budget \in Int
  BY RetentionAssumption DEF Ranked
<1>1. CASE Outside \/ UNCHANGED vars
  <2>1. UNCHANGED <<sweep, refused>>
    BY <1>1 DEF Outside, FinishClip, WriteMetadata, BeginAnalysis, WriteVerdict, Keep, Delete, vars,
       history
  <2>2. Ranked' = Ranked /\ phase = "done" /\ ~dry /\ Ranked \subseteq listed
    BY <2>1 DEF sweep, scope, budget, Ranked, SweepTypes
  <2>3. Ranked' \intersect clips' \subseteq Ranked \intersect clips
    BY <1>1, <2>2, OthersShrink
  <2>4. Bytes(Ranked' \intersect clips') <= Bytes(Ranked \intersect clips)
    BY <1>0, <2>3, BytesMonotone
  <2>5. Bytes(Ranked' \intersect clips') \in Nat /\ Bytes(Ranked \intersect clips) \in Nat
    BY <1>0, <2>3, BytesType
  <2>6. CASE Bytes(Ranked \intersect clips) <= Budget
    BY <1>0, <2>4, <2>5, <2>6
  <2>7. CASE Ranked \intersect clips \subseteq refused
    BY <2>1, <2>3, <2>7
  <2> QED
    BY <2>2, <2>6, <2>7 DEF Met
<1>2. CASE EndTrimming
  <2>1. /\ phase = "trimming" /\ Free /\ (total <= Budget \/ todo = {})
        /\ UNCHANGED <<dry, clips, ranked, refused>>
    BY <1>2 DEF EndTrimming, files, budget, history
  <2>2. /\ Ranked' = Ranked
        /\ Ranked \intersect clips \subseteq todo \union refused
        /\ Ranked \intersect clips \subseteq Ranked \ removed
    BY <2>1 DEF Seen, Held, Free, Ranked
  <2>3. CASE todo = {}
    BY <2>1, <2>2, <2>3
  <2>4. CASE total <= Budget
    <3>1. Bytes(Ranked \intersect clips) <= Bytes(Ranked \ removed)
      BY <1>0, <2>2, BytesMonotone
    <3>2. Bytes(Ranked \intersect clips) \in Nat /\ Bytes(Ranked \ removed) \in Nat
      BY <1>0, BytesType
    <3>3. Bytes(Ranked \ removed) <= Budget
      BY <2>1, <2>4, Zenon DEF Counted, Totals
    <3>4. Bytes(Ranked \intersect clips) <= Budget
      BY <1>0, <3>1, <3>2, <3>3
    <3> QED
      BY <2>1, <2>2, <3>4, Zenon
  <2> QED
    BY <2>1, <2>3, <2>4
<1>3. CASE List \/ Judge \/ EndExpiry \/ Size \/ EndSizing \/ Trim \/ Exit
  BY <1>3 DEF List, Judge, EndExpiry, Size, EndSizing, Trim, Exit, scope
<1>4. CASE ReportPicked \/ Unlink \/ FindGone \/ FailUnlink \/ Strip
  <2>1. ~Free /\ phase' = phase
    BY <1>4 DEF ReportPicked, Unlink, FindGone, FailUnlink, Strip, scope, Free
  <2> QED
    BY <2>1 DEF SweepTypes
<1> QED
  BY <1>1, <1>2, <1>3, <1>4 DEF Next, Outside

\* The aims of a sweep are those of the clips it listed and of their ages.
LEMMA SameAims ==
  ASSUME NEW T, UNCHANGED <<listed, age>>
  PROVE  Aged(T)' = Aged(T) /\ Rest(T)' = Rest(T) /\ Over(T)' = Over(T)
<1>1. Aged(T)' = Aged(T)
  BY DEF Aged, PastWindow
<1>2. Rest(T)' = Rest(T)
  BY <1>1 DEF Rest
<1>3. ASSUME NEW c PROVE Left(T, c)' = Left(T, c)
  BY <1>2, Zenon DEF Left
<1>4. ASSUME NEW c PROVE c \in Over(T)' <=> c \in Over(T)
  <2>1. c \in Rest(T)' <=> c \in Rest(T)
    BY <1>2
  <2>2. Bytes(Left(T, c))' = Bytes(Left(T, c))
    BY <1>3, Zenon
  <2> QED
    BY <2>1, <2>2, Zenon DEF Over
<1>5. Over(T)' = Over(T)
  BY <1>4, Zenon DEF Over
<1> QED
  BY <1>1, <1>2, <1>5

LEMMA BeforeOrders ==
  ASSUME NEW c \in Clips, NEW d \in Clips, NEW T
  PROVE  ~Before(c, c, T) /\ (Before(c, d, T) => ~Before(d, c, T))
<1>1. c \in Int /\ d \in Int
  BY Bounds DEF Clips
<1>2. Priority(T[c]) \in {0, 1} /\ Priority(T[d]) \in {0, 1}
  BY DEF Priority
<1> QED
  BY <1>1, <1>2 DEF Before

\* The policy's reference and the aims agree when a sweep begins.
LEMMA WantedIsAimed ==
  ASSUME List, NEW T, T = [c \in clips |-> TierOf(c)]
  PROVE  expected' = Aged(T)' \union Over(T)'
<1> DEFINE aged    == {c \in clips : PastWindow(c, TierOf(c))}
           kept    == clips \ aged
           tiers   == [c \in kept |-> TierOf(c)]
           left(c) == {d \in kept : ~Before(d, c, tiers)}
<1>1. expected' = aged \union {c \in kept : Budget # None /\ Bytes(left(c)) > Budget}
  BY Zenon DEF List, Wanted
<1>2. listed' = clips /\ age' = age
  BY DEF List, writers
<1>3. Aged(T)' = aged /\ Rest(T)' = kept
  BY <1>2 DEF Aged, Rest, PastWindow
<1>4. ASSUME NEW c \in kept PROVE Left(T, c)' = left(c)
  <2>1. ASSUME NEW d \in kept PROVE Before(d, c, tiers) <=> Before(d, c, T)
    BY DEF Before
  <2> QED
    BY <1>3, <2>1 DEF Left
<1>5. Over(T)' = {c \in kept : Budget # None /\ Bytes(left(c)) > Budget}
  <2> HIDE DEF left, kept
  <2> QED
    BY <1>3, <1>4, Zenon DEF Over
<1> QED
  BY <1>1, <1>3, <1>5

\* While nobody interferes, a clip not yet removed is there and has its tier.
LEMMA AimedAt ==
  ASSUME NEW T, Begun(T), NEW c \in listed, c \notin removed, c # stripping
  PROVE  c \in clips /\ TierOf(c) = T[c]
BY DEF Begun

LEMMA ExactKept ==
  AllTypes /\ Counted /\ Seen /\ ExactInv /\ [Next]_vars => ExactInv'
<1> SUFFICES ASSUME FileTypes, SweepTypes, RestTypes, Places, Totals, Seen, ExactInv, [Next]_vars,
                    ~disturbed'
             PROVE  /\ phase' \in {"expiring", "sizing", "trimming"} =>
                         \E T \in [listed' -> Tiers] : Exact(T)'
                    /\ phase' = "done" => removed' = expected'
  BY DEF ExactInv, AllTypes, Counted
<1>0. listed \subseteq Clips /\ clips \subseteq Clips /\ None \notin Clips /\ Ranked \subseteq listed
  BY ListedAreClips, NoneIsNoClip DEF SweepTypes
<1>1. CASE FinishClip \/ WriteMetadata \/ BeginAnalysis \/ UNCHANGED vars
  <2>1. clips \subseteq clips' /\ UNCHANGED <<verdict, decision, age, sweep, history>>
    BY <1>1 DEF FinishClip, WriteMetadata, BeginAnalysis, vars, files, sidecars, writers
  <2>2. /\ UNCHANGED <<phase, listed, todo, ranked, picked, stripping, removed, expected, disturbed>>
        /\ Ranked' = Ranked /\ Held' = Held
    BY <2>1 DEF sweep, scope, budget, history, aims, Ranked, Held
  <2>3. ASSUME NEW T, Exact(T) PROVE Exact(T)'
    <3>1. Aged(T)' = Aged(T) /\ Rest(T)' = Rest(T) /\ Over(T)' = Over(T)
      BY <2>1, <2>2, SameAims
    <3>2. Begun(T)'
      BY <2>1, <2>2, <2>3, <3>1 DEF Exact, Begun, TierOf
    <3>3. Expired(T)' /\ Weighed(T)' /\ Trimmed(T)'
      BY <2>2, <2>3, <3>1 DEF Exact, Expired, Weighed, Trimmed, Before
    <3> QED
      BY <3>2, <3>3 DEF Exact
  <2> QED
    BY <2>2, <2>3 DEF ExactInv
<1>2. CASE List
  <2>0. PICK T : T = [c \in clips |-> TierOf(c)]
    OBVIOUS
  <2>1. /\ phase = "idle" /\ phase' = "expiring" /\ listed' = clips /\ todo' = clips /\ removed' = {}
        /\ UNCHANGED <<picked, stripping, clips, verdict, decision>>
    BY <1>2 DEF List, files, sidecars
  <2>2. picked = None /\ stripping = None /\ Held' = {}
    BY <2>1 DEF SweepTypes, Free, Held
  <2>3. T \in [listed' -> Tiers]
    BY <2>0, <2>1 DEF TierOf, Tier, Tiers
  <2>4. Begun(T)'
    <3>1. expected' = Aged(T)' \union Over(T)'
      BY <1>2, <2>0, WantedIsAimed
    <3>2. \A c \in listed' \ (removed' \union {stripping'}) : c \in clips' /\ TierOf(c)' = T[c]
      BY <2>0, <2>1 DEF TierOf
    <3> QED
      BY <3>1, <3>2 DEF Begun
  <2>5. Expired(T)' /\ Weighed(T)' /\ Trimmed(T)'
    <3>1. Aged(T)' \subseteq todo'
      BY <2>1 DEF Aged
    <3> QED
      BY <2>1, <2>2, <3>1 DEF Expired, Weighed, Trimmed
  <2> QED
    BY <2>1, <2>3, <2>4, <2>5 DEF Exact
<1>3. CASE EndTrimming \/ EndExpiry \/ Judge \/ Size \/ EndSizing \/ Trim
           \/ ReportPicked \/ Unlink \/ FindGone \/ Strip
  <2>1. ~disturbed /\ UNCHANGED <<listed, age, expected, dry>>
    BY <1>3 DEF EndTrimming, EndExpiry, Judge, Size, EndSizing, Trim, ReportPicked, Unlink,
       FindGone, Strip, history, aims, writers, scope
  <2>2. phase \in {"expiring", "sizing", "trimming"}
    BY <1>3 DEF EndTrimming, EndExpiry, Judge, Size, EndSizing, Trim, ReportPicked, Unlink,
       FindGone, Strip, SweepTypes, Free
  <2>3. PICK T \in [listed -> Tiers] : Exact(T)
    BY <2>1, <2>2 DEF ExactInv
  <2>4. Aged(T)' = Aged(T) /\ Rest(T)' = Rest(T) /\ Over(T)' = Over(T)
    BY <2>1, SameAims
  <2>5. /\ Aged(T) \subseteq listed /\ Rest(T) = listed \ Aged(T) /\ Over(T) \subseteq Rest(T)
        /\ expected = Aged(T) \union Over(T)
    BY <2>3 DEF Aged, Rest, Over, Exact, Begun
  <2>6. Begun(T) /\ Expired(T) /\ Weighed(T) /\ Trimmed(T)
    BY <2>3 DEF Exact
  <2>7. CASE Judge
    <3>1. PICK c \in todo :
            /\ todo' = todo \ {c}
            /\ picked' = IF c \in clips /\ PastWindow(c, TierOf(c)) THEN c ELSE None
      BY <2>7 DEF Judge
    <3>2. /\ phase = "expiring" /\ picked = None /\ stripping = None
          /\ UNCHANGED <<clips, verdict, decision, phase, listed, ranked, stripping, removed>>
      BY <2>7 DEF Judge, Free, files, sidecars, scope, budget
    <3>3. c \in listed /\ c \in clips /\ TierOf(c) = T[c] /\ c # None
      BY <1>0, <2>6, <3>1, <3>2, AimedAt DEF SweepTypes, Places
    <3>4. Held = {} /\ Held' = IF c \in Aged(T) THEN {c} ELSE {}
      BY <3>1, <3>2, <3>3 DEF Held, Aged
    <3>5. Expired(T)'
      BY <2>4, <2>6, <3>1, <3>2, <3>4 DEF Expired
    <3>6. Begun(T)'
      BY <2>1, <2>4, <2>6, <3>2 DEF Begun, TierOf
    <3> QED
      BY <2>1, <3>2, <3>5, <3>6 DEF Exact, Weighed, Trimmed
  <2>8. CASE EndExpiry
    <3>1. /\ phase = "expiring" /\ todo = {} /\ Held = {}
          /\ UNCHANGED <<clips, verdict, decision, listed, stripping, removed>>
      BY <2>8 DEF EndExpiry, Free, Held, files, sidecars
    <3>2. removed = Aged(T)
      BY <2>6, <3>1 DEF Expired
    <3>3. CASE Budget = None
      <4>1. Over(T) = {}
        BY <3>3 DEF Over
      <4> QED
        BY <2>1, <2>5, <2>8, <3>1, <3>2, <3>3, <4>1 DEF EndExpiry
    <3>4. CASE Budget # None
      <4>1. phase' = "sizing" /\ todo' = listed \ removed /\ Ranked' = {}
        BY <2>8, <3>4 DEF EndExpiry, Ranked
      <4>2. Begun(T)'
        BY <2>1, <2>4, <2>6, <3>1 DEF Begun, TierOf
      <4>3. Weighed(T)'
        BY <2>4, <2>5, <3>1, <3>2, <4>1 DEF Weighed
      <4> QED
        BY <2>1, <4>1, <4>2, <4>3 DEF Exact, Expired, Trimmed
    <3> QED
      BY <3>3, <3>4
  <2>9. CASE Size
    <3>1. PICK c \in todo :
            /\ todo' = todo \ {c}
            /\ c \in clips => ranked' = [ranked EXCEPT ![c] = TierOf(c)]
      BY <2>9 DEF Size
    <3>2. /\ phase = "sizing" /\ stripping = None
          /\ UNCHANGED <<clips, verdict, decision, phase, listed, stripping, removed>>
      BY <2>9 DEF Size, SweepTypes, Free, files, sidecars, scope
    <3>3. c \in listed /\ c \in clips /\ TierOf(c) = T[c] /\ c # None
      BY <1>0, <2>6, <3>1, <3>2, AimedAt DEF SweepTypes, Places
    <3>4. ranked' = [ranked EXCEPT ![c] = T[c]] /\ T[c] # None
      BY <3>1, <3>3, NoneIsNoWord DEF Tiers
    <3>5. Ranked' = Ranked \union {c}
      BY <1>0, <3>3, <3>4 DEF Ranked, SweepTypes
    <3>6. Begun(T)'
      BY <2>1, <2>4, <2>6, <3>2 DEF Begun, TierOf
    <3>7. \A d \in Ranked' : ranked'[d] = T[d]
      BY <1>0, <2>6, <3>2, <3>3, <3>4, <3>5 DEF Weighed, SweepTypes
    <3>8. Weighed(T)'
      BY <2>4, <2>6, <3>1, <3>2, <3>5, <3>7 DEF Weighed
    <3> QED
      BY <2>1, <3>2, <3>6, <3>8 DEF Exact, Expired, Trimmed
  <2>10. CASE EndSizing
    <3>1. /\ phase = "sizing" /\ todo = {} /\ phase' = "trimming" /\ todo' = Ranked /\ Held' = {}
          /\ UNCHANGED <<clips, verdict, decision, listed, ranked, stripping, removed>>
      BY <2>10 DEF EndSizing, SweepTypes, Free, Held, files, sidecars, budget
    <3>2. Ranked' = Ranked /\ Ranked = Rest(T) /\ removed = Aged(T)
      BY <2>6, <3>1 DEF Ranked, Weighed
    <3>3. Begun(T)'
      BY <2>1, <2>4, <2>6, <3>1 DEF Begun, TierOf
    <3>4. Weighed(T)'
      BY <2>4, <2>6, <3>1, <3>2 DEF Weighed
    <3>5. Trimmed(T)'
      BY <2>4, <3>1, <3>2 DEF Trimmed
    <3> QED
      BY <2>1, <3>1, <3>3, <3>4, <3>5 DEF Exact, Expired
  <2>11. ASSUME phase = "trimming", Held = {}
         PROVE  /\ Ranked \ removed = todo /\ total = Bytes(todo) /\ todo \subseteq Rest(T)
                /\ \A c \in todo : Left(T, c) \subseteq todo
    <3>1. Ranked = Rest(T) /\ removed \ Aged(T) = Rest(T) \ todo /\ todo \subseteq Ranked
      BY <2>6, <2>11 DEF Trimmed, Places
    <3>2. Ranked \ removed = todo
      BY <2>5, <2>11, <3>1 DEF Places
    <3>3. total = Bytes(todo)
      BY <2>11, <3>2, Zenon DEF Totals
    <3>4. ASSUME NEW c \in todo PROVE Left(T, c) \subseteq todo
      BY <2>6, <2>11 DEF Left, Trimmed
    <3> QED
      BY <3>1, <3>2, <3>3, <3>4
  <2>12. CASE Trim
    <3>1. PICK c \in todo : Foremost(c) /\ picked' = c /\ todo' = todo \ {c}
      BY <2>12 DEF Trim
    <3>2. /\ phase = "trimming" /\ Held = {} /\ total > Budget /\ Budget # None
          /\ UNCHANGED <<clips, verdict, decision, phase, listed, ranked, stripping, removed>>
      BY <2>12 DEF Trim, Free, Held, Places, files, sidecars, scope, budget
    <3>3. Ranked' = Ranked /\ Held' = {c} /\ c \in Clips /\ todo \subseteq Clips
      BY <1>0, <2>12, <3>1, <3>2 DEF Ranked, Held, SweepTypes, Trim, Free
    <3>4. \A d \in todo : ranked[d] = T[d]
      BY <2>6, <2>11, <3>2 DEF Weighed
    <3>5. \A d \in todo \ {c} : Before(c, d, T)
      BY <3>1, <3>4 DEF Foremost, Before
    <3>6. Left(T, c) = todo
      <4>1. ASSUME NEW d \in todo PROVE ~Before(d, c, T)
        BY <3>3, <3>5, BeforeOrders
      <4> QED
        BY <2>11, <3>2, <4>1 DEF Left
    <3>7. c \in Over(T)
      <4>1. Bytes(Left(T, c)) > Budget
        BY <2>11, <3>2, <3>6, Zenon
      <4> QED
        BY <2>11, <3>2, <4>1 DEF Over
    <3>8. Begun(T)'
      BY <2>1, <2>4, <2>6, <3>2 DEF Begun, TierOf
    <3>9. Weighed(T)'
      BY <2>4, <2>6, <3>2, <3>3 DEF Weighed
    <3>10. Trimmed(T)'
      <4>1. Rest(T) \ todo' = (Rest(T) \ todo) \union {c}
        BY <2>11, <3>1, <3>2
      <4>2. \A d \in Rest(T) \ todo' : d \in Over(T) /\ \A e \in todo' : Before(d, e, T)
        BY <2>6, <3>1, <3>2, <3>5, <3>7, <4>1 DEF Trimmed
      <4>3. Ranked' = Rest(T) /\ (removed' \ Aged(T)) \union Held' = Rest(T) \ todo'
        BY <2>6, <3>2, <3>3, <4>1 DEF Trimmed
      <4>4. \A d \in Rest(T) \ todo' : d \in Over(T)' /\ \A e \in todo' : Before(d, e, T)'
        BY <2>4, <4>2 DEF Before
      <4> QED
        BY <2>4, <4>3, <4>4 DEF Trimmed
    <3> QED
      BY <2>1, <3>2, <3>8, <3>9, <3>10 DEF Exact, Expired
  <2>13. CASE EndTrimming
    <3>1. /\ phase = "trimming" /\ Held = {} /\ (total <= Budget \/ todo = {})
          /\ phase' = "done" /\ removed' = removed
      BY <2>13 DEF EndTrimming, Free, Held
    <3>2. removed = Aged(T) \union (Rest(T) \ todo)
      BY <2>6, <3>1 DEF Weighed, Trimmed
    <3>3. ASSUME NEW c \in todo PROVE c \notin Over(T)
      <4>1. todo \subseteq Clips /\ total <= Budget /\ Budget \in Int
        BY <1>0, <3>1, <3>3, RetentionAssumption DEF SweepTypes, Places
      <4>2. Bytes(Left(T, c)) <= Bytes(todo)
        BY <2>11, <3>1, <4>1, BytesMonotone
      <4>3. Bytes(todo) \in Nat /\ Bytes(Left(T, c)) \in Nat
        BY <2>11, <3>1, <4>1, BytesType
      <4>4. Bytes(todo) <= Budget
        BY <2>11, <3>1, <4>1, Zenon
      <4>5. ~(Bytes(Left(T, c)) > Budget)
        BY <4>1, <4>2, <4>3, <4>4
      <4> QED
        BY <4>5, Zenon DEF Over
    <3>4. Over(T) = Rest(T) \ todo
      BY <2>5, <2>6, <3>1, <3>3 DEF Trimmed
    <3> QED
      BY <2>1, <2>5, <3>1, <3>2, <3>4
  <2>14. CASE ReportPicked \/ Unlink \/ FindGone \/ Strip
    <3>1. /\ UNCHANGED <<phase, listed, todo, ranked>> /\ Ranked' = Ranked
          /\ phase \in {"expiring", "trimming"} /\ Held \subseteq listed
      BY <1>0, <2>14 DEF ReportPicked, Unlink, FindGone, Strip, scope, budget, Ranked, SweepTypes,
         Free, Held
    <3>2. ~FindGone
      <4>1. SUFFICES ASSUME FindGone PROVE FALSE
        OBVIOUS
      <4>2. picked # None /\ picked \notin clips
        BY <4>1 DEF FindGone
      <4>3. picked \in listed /\ picked \notin removed /\ picked # stripping
        BY <3>1, <4>2 DEF SweepTypes, Places, Held
      <4> QED
        BY <2>6, <4>2, <4>3, AimedAt
    <3>3. /\ removed \subseteq removed' /\ removed' \union Held' = removed \union Held
          /\ removed' \subseteq removed \union Held
      BY <2>14, <3>2 DEF ReportPicked, Unlink, Strip, Places, Held
    <3>4. Begun(T)'
      <4>1. /\ listed' \ (removed' \union {stripping'}) \subseteq listed \ (removed \union {stripping})
            /\ \A c \in listed' \ (removed' \union {stripping'}) : c \in clips => c \in clips'
            /\ \A c \in listed' \ (removed' \union {stripping'}) :
                 c \in Clips => verdict'[c] = verdict[c] /\ decision'[c] = decision[c]
        <5>1. CASE ReportPicked
          BY <3>1, <3>3, <5>1 DEF ReportPicked, files, sidecars
        <5>2. CASE Unlink
          BY <1>0, <3>1, <3>3, <5>2 DEF Unlink, files, sidecars, Places
        <5>3. CASE Strip
          BY <3>1, <3>3, <5>3 DEF Strip, FileTypes
        <5> QED
          BY <2>14, <3>2, <5>1, <5>2, <5>3
      <4>2. ASSUME NEW c \in listed' \ (removed' \union {stripping'})
            PROVE  c \in clips' /\ TierOf(c)' = T[c]
        BY <1>0, <2>6, <4>1 DEF Begun, TierOf
      <4> QED
        BY <2>1, <2>4, <2>6, <4>2 DEF Begun
    <3>5. Expired(T)'
      BY <2>4, <2>6, <3>1, <3>3 DEF Expired
    <3>6. Weighed(T)'
      BY <2>4, <2>6, <3>1, <3>3 DEF Weighed
    <3>7. Trimmed(T)'
      <4>1. SUFFICES ASSUME phase = "trimming" PROVE Trimmed(T)'
        BY <3>1 DEF Trimmed
      <4>2. Ranked = Rest(T) /\ Held \intersect Aged(T) = {}
        BY <2>5, <2>6, <4>1 DEF Trimmed, Places
      <4>3. (removed' \ Aged(T)) \union Held' = (removed \ Aged(T)) \union Held
        <5>1. Held' \subseteq Held
          BY <2>14, <3>2 DEF ReportPicked, Unlink, Strip, Held
        <5> QED
          BY <3>3, <4>2, <5>1
      <4>4. \A c \in Rest(T) \ todo' : c \in Over(T)' /\ \A d \in todo' : Before(c, d, T)'
        BY <2>4, <2>6, <3>1, <4>1 DEF Trimmed, Before
      <4> QED
        BY <2>4, <2>6, <3>1, <4>1, <4>2, <4>3, <4>4 DEF Trimmed
    <3> QED
      BY <2>1, <3>1, <3>4, <3>5, <3>6, <3>7 DEF Exact
  <2> QED
    BY <1>3, <2>7, <2>8, <2>9, <2>10, <2>12, <2>13, <2>14
<1>4. CASE Exit
  BY <1>4 DEF Exit
<1>5. CASE WriteVerdict \/ Keep \/ Delete \/ FailUnlink
  BY <1>5 DEF WriteVerdict, Keep, Delete, FailUnlink
<1> QED
  BY <1>1, <1>2, <1>3, <1>4, <1>5 DEF Next

LEMMA SweepInit == Init => BudgetInv /\ ExactInv
<1>1. Init => Ranked = {} /\ phase = "idle" /\ removed = {} /\ picked = None
  BY DEF Init, Ranked
<1> QED
  BY <1>1 DEF BudgetInv, Counted, Places, Totals, Seen, Met, ExactInv

-----------------------------------------------------------------------------
IInv == AllTypes /\ VouchInv /\ BudgetInv /\ ExactInv

\* The types, VouchInv, BudgetInv and ExactInv are an inductive invariant.
THEOREM IInvAlways == Spec => []IInv
<1>1. Init => IInv
  BY TypeInit, VouchInit, SweepInit DEF IInv
<1>2. IInv /\ [Next]_vars => IInv'
  <2> SUFFICES ASSUME IInv, [Next]_vars PROVE IInv'
    OBVIOUS
  <2>1. /\ AllTypes /\ FileTypes /\ SweepTypes
        /\ VouchInv /\ Counted /\ Seen /\ Met /\ ExactInv
    BY DEF IInv, AllTypes, BudgetInv
  <2> QED
    BY <2>1, TypesKept, VouchInvKept, CountedKept, SeenKept, MetKept, ExactKept DEF IInv, BudgetInv
<1> QED
  BY <1>1, <1>2, PTL DEF Spec

\* Every variable keeps its type, and the sweep never has a clip in hand that
\* it did not list, or one between its phases.
THEOREM RetentionTypeCorrect == Spec => []TypeOK
<1>1. IInv => TypeOK
  BY TypesSuffice DEF IInv
<1> QED
  BY <1>1, IInvAlways, PTL

\* retention.py: whatever the classifier and the web UI do during a sweep, a
\* clip vouched for as it began is removed for its age by the long window only.
THEOREM VouchedAlwaysOutlive == Spec => []VouchedOutlive
<1>1. IInv => VouchedOutlive
  BY DEF IInv, VouchInv
<1> QED
  BY <1>1, IInvAlways, PTL

\* retention.py: a sweep ends with the clips it weighed within the budget, or
\* with only those left that would not be unlinked; and it never picks a clip
\* once what it has not removed is within the budget.
THEOREM BudgetAlwaysMet == Spec => []BudgetMet
<1>1. IInv => BudgetMet
  <2> SUFFICES ASSUME Met, Places, Totals PROVE BudgetMet
    BY DEF IInv, BudgetInv, Counted
  <2>1. phase = "trimming" /\ picked # None => Bytes(Ranked \ removed) > Budget
    BY Zenon DEF Places, Totals
  <2> QED
    BY <2>1, Zenon DEF Met, BudgetMet
<1> QED
  BY <1>1, IInvAlways, PTL

\* retention.py: a sweep nobody interferes with removes, or when dry reports,
\* exactly the clips the policy names, for any sizes, ages and tiers.
THEOREM SweepAlwaysExact == Spec => []SweepExact
<1>1. IInv => SweepExact
  BY DEF IInv, BudgetInv, Seen, ExactInv, SweepExact
<1> QED
  BY <1>1, IInvAlways, PTL
=============================================================================
