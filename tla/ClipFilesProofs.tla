--------------------------- MODULE ClipFilesProofs ---------------------------
(***************************************************************************)
(* Theorems of ClipFiles.  The inductive invariant has four parts beside   *)
(* the types: which unfinished file is whose; that no two clips are        *)
(* described by one job; what the rebuild has collected of the names that  *)
(* nobody touched; and, per key, what an operation that has the key to     *)
(* itself has made of its files so far (DoneAt), which is why the end of   *)
(* the operation leaves them in order.                                     *)
(***************************************************************************)
EXTENDS ClipFiles, FiniteSetTheorems, TLAPS

LEMMA LeastNumber ==
  ASSUME NEW N, N \subseteq Nat, N # {}
  PROVE  \E n \in N : \A m \in N : n <= m
<1>1. \E n \in N : \A m \in N : <<m, n>> \notin OpToRel(<, Nat)
  BY NatLessThanWellFounded, WFMin
<1>2. ASSUME NEW m \in N, NEW n \in N, <<m, n>> \notin OpToRel(<, Nat) PROVE n <= m
  BY <1>2 DEF OpToRel
<1> QED
  BY <1>1, <1>2
-----------------------------------------------------------------------------
(* Types, and who has work in hand                                         *)

File == [clip: Nat \union {None}, whole: BOOLEAN, meta: Nat \union {None},
         analysis: Nat \union {None}, review: Nat \union {None},
         temp: {None, "partial", "whole"}]

Working == {"assembling", "waiting", "renaming", "describing"}

AssemblerTypes ==
  \/ assembler = NoJob
  \/ /\ assembler \in [at: Working, job: Nat, final: Keys, temp: Keys \union {None}]
     /\ assembler.job <= jobs
     /\ assembler.at \in {"waiting", "renaming"} => assembler.temp \in Keys

RequestTypes ==
  \A r \in Requests :
    \/ request[r] = NoRequest
    \/ request[r] \in [at: {"clip", "reviewing"} \union DOMAIN After, key: Keys,
                       discard: BOOLEAN, about: Nat]

RebuildTypes ==
  \/ rebuild = NoRebuild
  \/ /\ rebuild \in [at: {"checking", "reading"}, dir: Dirs, todo: SUBSET Names, entries: SUBSET Nat]
     /\ rebuild.at = "reading" => rebuild.todo # {}

Types ==
  /\ up \in BOOLEAN /\ dir \in Dirs /\ files \in [Keys -> File]
  /\ AssemblerTypes
  /\ DOMAIN request = Requests /\ RequestTypes
  /\ classifier = NoClip \/ classifier \in [key: Keys, job: Nat]
  /\ RebuildTypes
  /\ jobs \in Nat /\ steady \in BOOLEAN
  /\ ~up => assembler = NoJob /\ \A r \in Requests : request[r] = NoRequest

-----------------------------------------------------------------------------
(* Unfinished files                                                        *)

TempInv ==
  /\ NoPartialClip
  /\ assembler.at = "renaming" => files[assembler.temp].temp = "whole"
  /\ up /\ steady /\ assembler # NoJob =>
       /\ assembler.final[1] = dir
       /\ assembler.at \in {"waiting", "renaming"} => assembler.temp = assembler.final
  /\ TempsOwned

-----------------------------------------------------------------------------
(* The index                                                               *)

\* A job describes one clip, once.
MetaInv ==
  /\ \A k \in Keys : files[k].meta # None => files[k].meta <= jobs
  /\ assembler # NoJob => \A k \in Keys : files[k].meta # assembler.job
  /\ \A k, l \in Keys : files[k].meta = files[l].meta => k = l \/ files[k].meta = None

Entered(k) == files[k].meta \in rebuild.entries
Current(k) == None \notin {files[k].clip, files[k].meta}

CollectInv ==
  rebuild # NoRebuild =>
    \A n \in Names :
      LET k == <<rebuild.dir, n>>
      IN  k \notin touched =>
            /\ n \notin rebuild.todo => (Entered(k) <=> Current(k))
            /\ n \in rebuild.todo => ~Entered(k)
            /\ rebuild.at = "reading" /\ k = Item => files[k].clip # None

-----------------------------------------------------------------------------
(* Clips and their sidecars                                                *)

Describing(k) == assembler.at = "describing" /\ assembler.final = k
Requested(r, k) == request[r].at \notin {"idle", "clip"} /\ request[r].key = k
Classified(k) == classifier.key = k

\* Two operations on one key do not go unnoticed, and what one that has the key
\* to itself has made of it so far.
OneAt(k) ==
  /\ Describing(k) => ~Classified(k) /\ \A r \in Requests : ~Requested(r, k)
  /\ Classified(k) => \A r \in Requests : ~Requested(r, k)
  /\ \A r, s \in Requests : Requested(r, k) /\ Requested(s, k) => r = s

Described(k) == files[k].clip = assembler.job /\ {files[k].analysis, files[k].review} \subseteq {None}
Removed(k, at) ==
  /\ files[k].clip = None
  /\ at # "meta" => files[k].meta = None
  /\ at = "review" => files[k].analysis = None

DoneAt(k) ==
  /\ Describing(k) => Described(k)
  /\ Classified(k) => files[k].clip = classifier.job /\ ~Torn(files[k])
  /\ \A r \in Requests : Requested(r, k) =>
       IF request[r].at = "reviewing" THEN files[k].clip = request[r].about /\ ~Torn(files[k])
       ELSE Removed(k, request[r].at)

KeyInv(k) ==
  /\ k \notin mixed => OneAt(k)
  /\ k \notin mixed \union broken => DoneAt(k)
  /\ Torn(files[k]) => k \in Busy \union broken

FamilyInv == \A k \in Keys : KeyInv(k)

LEMMA NoneIsNoOther == None \notin Int /\ None \notin Keys
BY FilesAssumption DEF Keys, Names

LEMMA KeyParts ==
  ASSUME NEW k \in Keys PROVE k[1] \in Dirs /\ k[2] \in Names /\ k = <<k[1], k[2]>>
BY DEF Keys

LEMMA TypesInit == Init => Types
BY FilesAssumption DEF Init, Types, File, NoFiles, AssemblerTypes, RequestTypes, RebuildTypes

LEMMA JobTypes ==
  ASSUME Types, assembler # NoJob
  PROVE  /\ assembler \in [at: Working, job: Nat, final: Keys, temp: Keys \union {None}]
         /\ up
BY DEF Types, AssemblerTypes

LEMMA RequestHas ==
  ASSUME Types, NEW r \in Requests, request[r].at # "idle"
  PROVE  request[r] \in [at: {"clip", "reviewing"} \union DOMAIN After, key: Keys,
                         discard: BOOLEAN, about: Nat]
BY DEF Types, RequestTypes, NoRequest

\* What the assembler leaves alone.
LEMMA ProcessScope ==
  ASSUME Types, ProcessJob
  PROVE  /\ UNCHANGED <<up, dir, request, classifier, rebuild, steady>>
         /\ up
         /\ jobs' = jobs \/ TakeJob
<1>1. CASE TakeJob
  BY <1>1 DEF TakeJob, ghosts
<1>2. assembler = NoJob => assembler.at = "idle"
  BY DEF NoJob
<1>3. CASE Assemble
  BY <1>2, <1>3 DEF Assemble, bounds, Types
<1>4. CASE Assembled \/ AssemblyFails
  BY <1>2, <1>4 DEF Assembled, AssemblyFails, bounds, Types
<1>5. CASE Rename
  BY <1>2, <1>5 DEF Rename, bounds, Types
<1>6. CASE RenameFails
  BY <1>2, <1>6 DEF RenameFails, bounds, ghosts, Types
<1>7. CASE WriteMetadata
  BY <1>2, <1>7 DEF WriteMetadata, Types
<1> QED
  BY <1>1, <1>3, <1>4, <1>5, <1>6, <1>7 DEF ProcessJob

LEMMA ProcessTypesKept == Types /\ ProcessJob => Types'
<1> SUFFICES ASSUME Types, ProcessJob PROVE Types'
  OBVIOUS
<1>0. UNCHANGED <<up, dir, request, classifier, rebuild, steady>> /\ up
  BY ProcessScope
<1>1. jobs' \in Nat /\ jobs <= jobs'
  <2>1. jobs' = jobs \/ jobs' = jobs + 1
    BY ProcessScope DEF TakeJob
  <2> QED
    BY <2>1 DEF Types
<1>2. files' \in [Keys -> File]
  <2>1. CASE TakeJob \/ RenameFails
    BY <2>1 DEF TakeJob, RenameFails, Types
  <2>2. CASE Assemble
    <3>1. assembler # NoJob
      BY <2>2 DEF Assemble, NoJob
    <3> DEFINE k == <<dir, assembler.final[2]>>
    <3>2. k \in Keys
      BY <3>1, JobTypes, KeyParts DEF Types, Keys
    <3>3. [files[k] EXCEPT !.temp = "partial"] \in File
      BY <3>2 DEF Types, File
    <3>4. files' = [files EXCEPT ![k] = [files[k] EXCEPT !.temp = "partial"]]
      BY <2>2 DEF Assemble, Put
    <3> HIDE DEF k
    <3> QED
      BY <3>2, <3>3, <3>4 DEF Types
  <2>3. CASE Assembled \/ AssemblyFails
    <3> DEFINE k == assembler.temp
    <3>1. k \in Keys
      BY <2>3 DEF Assembled, AssemblyFails, Types, AssemblerTypes, NoJob
    <3>2. \E t \in {"whole", None} : files' = [files EXCEPT ![k] = [files[k] EXCEPT !.temp = t]]
      BY <2>3 DEF Assembled, AssemblyFails, Put
    <3> HIDE DEF k
    <3> QED
      BY <3>1, <3>2 DEF Types, File
  <2>4. CASE Rename
    <3> DEFINE k == assembler.final
               t == assembler.temp
               moved == [files EXCEPT ![t].temp = None]
    <3>1. assembler # NoJob /\ t \in Keys
      BY <2>4 DEF Rename, Types, AssemblerTypes, NoJob
    <3>2. k \in Keys /\ assembler.job \in Nat
      BY <3>1, JobTypes
    <3>3. moved \in [Keys -> File]
      BY <3>1 DEF Types, File
    <3>4. files' = [moved EXCEPT ![k].clip = assembler.job, ![k].whole = files[t].temp = "whole"]
      BY <2>4 DEF Rename
    <3> HIDE DEF k, t, moved
    <3>5. PICK won \in BOOLEAN : won = (files[t].temp = "whole")
      OBVIOUS
    <3>6. files' = [moved EXCEPT ![k].clip = assembler.job, ![k].whole = won]
      BY <3>4, <3>5
    <3>7. moved[k] \in File /\ [moved[k] EXCEPT !.clip = assembler.job, !.whole = won] \in File
      BY <3>2, <3>3 DEF File
    <3>8. files' = [moved EXCEPT ![k] = [moved[k] EXCEPT !.clip = assembler.job, !.whole = won]]
      BY <3>6
    <3> QED
      BY <3>2, <3>3, <3>7, <3>8
  <2>5. CASE WriteMetadata
    <3> DEFINE k == assembler.final
    <3>1. assembler # NoJob
      BY <2>5 DEF WriteMetadata, NoJob
    <3>2. k \in Keys /\ assembler.job \in Nat
      BY <3>1, JobTypes
    <3>3. files' \in {files, [files EXCEPT ![k] = [files[k] EXCEPT !.meta = assembler.job]]}
      BY <2>5 DEF WriteMetadata, Put
    <3> HIDE DEF k
    <3> QED
      BY <3>2, <3>3 DEF Types, File
  <2> QED
    BY <2>1, <2>2, <2>3, <2>4, <2>5 DEF ProcessJob
<1>3. AssemblerTypes'
  <2>1. CASE TakeJob
    <3>1. PICK n \in Names :
            assembler' = [NoJob EXCEPT !.at = "assembling", !.job = jobs', !.final = <<dir, n>>]
      BY <2>1 DEF TakeJob
    <3>2. <<dir, n>> \in Keys
      BY DEF Types, Keys
    <3>3. assembler' = [at |-> "assembling", job |-> jobs', final |-> <<dir, n>>, temp |-> None]
      BY <3>1 DEF NoJob
    <3> QED
      BY <1>1, <3>2, <3>3 DEF AssemblerTypes, Working
  <2>2. CASE Assemble
    <3>1. assembler # NoJob /\ assembler.final[2] \in Names
      BY <2>2, JobTypes, KeyParts DEF Assemble, NoJob
    <3>2. assembler' = [assembler EXCEPT !.at = "waiting", !.temp = <<dir, assembler.final[2]>>]
          /\ jobs' = jobs
      BY <2>2 DEF Assemble, bounds
    <3> QED
      BY <3>1, <3>2, JobTypes DEF Types, AssemblerTypes, Working, Keys
  <2>3. CASE Assembled \/ Rename
    <3>1. assembler # NoJob /\ jobs' = jobs /\ assembler.job <= jobs
      BY <2>3 DEF Assembled, Rename, NoJob, bounds, Types, AssemblerTypes
    <3>2. /\ \/ assembler' = [assembler EXCEPT !.at = "renaming"] /\ assembler.at = "waiting"
             \/ assembler' = [assembler EXCEPT !.at = "describing"]
      BY <2>3 DEF Assembled, Rename
    <3> QED
      BY <3>1, <3>2, JobTypes DEF Types, AssemblerTypes, Working
  <2>4. CASE AssemblyFails \/ RenameFails \/ WriteMetadata
    BY <2>4 DEF AssemblyFails, RenameFails, WriteMetadata, GivenUp, AssemblerTypes
  <2> QED
    BY <2>1, <2>2, <2>3, <2>4 DEF ProcessJob
<1> QED
  BY <1>0, <1>1, <1>2, <1>3 DEF Types, RequestTypes, RebuildTypes

LEMMA WebTypesKept ==
  ASSUME Types, NEW r \in Requests,
         Resolve(r) \/ WriteReview(r) \/ UnlinkClip(r) \/ UnlinkSidecar(r)
  PROVE  Types'
<1>0. /\ up /\ UNCHANGED <<up, dir, assembler, classifier, rebuild, steady, jobs>>
      /\ request[r].at # "idle" \/ Resolve(r)
  <2>1. CASE Resolve(r)
    BY <2>1 DEF Resolve, At, bounds
  <2>2. CASE WriteReview(r) \/ UnlinkClip(r)
    BY <2>2 DEF WriteReview, UnlinkClip, At, bounds
  <2>3. CASE UnlinkSidecar(r)
    BY <2>3 DEF UnlinkSidecar, After
  <2> QED
    BY <2>1, <2>2, <2>3
<1>1. RequestTypes' /\ DOMAIN request' = Requests
  <2>1. \E q : request' = [request EXCEPT ![r] = q] /\
          (q = NoRequest \/ q \in [at: {"clip", "reviewing"} \union DOMAIN After, key: Keys,
                                   discard: BOOLEAN, about: Nat])
    <3>1. CASE Resolve(r)
      <4>1. PICK k \in Keys, at \in {"clip", "reviewing"}, discard \in BOOLEAN :
              /\ files[k].clip # None
              /\ request' = [request EXCEPT ![r] = [at |-> at, key |-> k, discard |-> discard,
                                                    about |-> files[k].clip]]
        BY <3>1 DEF Resolve
      <4>2. files[k].clip \in Nat
        BY <4>1 DEF Types, File
      <4>3. [at |-> at, key |-> k, discard |-> discard, about |-> files[k].clip] \in
              [at: {"clip", "reviewing"} \union DOMAIN After, key: Keys, discard: BOOLEAN, about: Nat]
        BY <4>2
      <4> QED
        BY <4>1, <4>3
    <3>2. CASE WriteReview(r)
      <4>1. request' = [request EXCEPT ![r] = IF @.discard THEN [@ EXCEPT !.at = "clip"]
                                              ELSE NoRequest]
        BY <3>2 DEF WriteReview
      <4>2. [request[r] EXCEPT !.at = "clip"] \in
              [at: {"clip", "reviewing"} \union DOMAIN After, key: Keys, discard: BOOLEAN, about: Nat]
        BY <1>0, <3>2, RequestHas DEF WriteReview, At
      <4> QED
        BY <4>1, <4>2 DEF Types
    <3>3. CASE UnlinkClip(r)
      <4>1. request' \in {[request EXCEPT ![r] = NoRequest], [request EXCEPT ![r].at = "meta"]}
        BY <3>3 DEF UnlinkClip
      <4>2. [request[r] EXCEPT !.at = "meta"] \in
              [at: {"clip", "reviewing"} \union DOMAIN After, key: Keys, discard: BOOLEAN, about: Nat]
        BY <1>0, <3>3, RequestHas DEF UnlinkClip, At, After
      <4> QED
        BY <4>1, <4>2 DEF Types
    <3>4. CASE UnlinkSidecar(r)
      <4>1. request' \in {[request EXCEPT ![r] = NoRequest],
                          [request EXCEPT ![r] = [@ EXCEPT !.at = After[request[r].at]]]}
        BY <3>4 DEF UnlinkSidecar
      <4>2. /\ request[r].at \in DOMAIN After /\ request[r].at # "idle"
            /\ request[r].at # "review" => After[request[r].at] \in DOMAIN After
        BY <3>4 DEF UnlinkSidecar, After
      <4>3. request[r].at # "review" => [request[r] EXCEPT !.at = After[request[r].at]] \in
              [at: {"clip", "reviewing"} \union DOMAIN After, key: Keys, discard: BOOLEAN, about: Nat]
        BY <4>2, RequestHas
      <4>4. request[r].at = "review" => request' = [request EXCEPT ![r] = NoRequest]
        BY <3>4 DEF UnlinkSidecar
      <4> QED
        BY <4>1, <4>3, <4>4 DEF Types
    <3> QED
      BY <3>1, <3>2, <3>3, <3>4
  <2> QED
    BY <2>1 DEF Types, RequestTypes
<1>2. files' \in [Keys -> File]
  <2>1. CASE Resolve(r)
    BY <2>1 DEF Resolve, Types
  <2>2. CASE WriteReview(r)
    <3> DEFINE k == request[r].key
    <3>1. k \in Keys /\ request[r].about \in Nat
      BY <1>0, <2>2, RequestHas DEF WriteReview, At
    <3>2. files' = [files EXCEPT ![k] = [files[k] EXCEPT !.review = request[r].about]]
      BY <2>2 DEF WriteReview, Put
    <3> HIDE DEF k
    <3> QED
      BY <3>1, <3>2 DEF Types, File
  <2>3. CASE UnlinkClip(r)
    <3> DEFINE k == request[r].key
    <3>1. k \in Keys
      BY <1>0, <2>3, RequestHas DEF UnlinkClip, At
    <3>2. files' \in {files, [files EXCEPT ![k] = [files[k] EXCEPT !.clip = None]]}
      BY <2>3 DEF UnlinkClip, Put
    <3> HIDE DEF k
    <3> QED
      BY <3>1, <3>2 DEF Types, File
  <2>4. CASE UnlinkSidecar(r)
    <3> DEFINE k == request[r].key
    <3>1. k \in Keys /\ request[r].at \in {"meta", "analysis", "review"}
      BY <1>0, <2>4, RequestHas DEF UnlinkSidecar, After
    <3>2. files' \in {files, [files EXCEPT ![k] = [files[k] EXCEPT ![request[r].at] = None]]}
      BY <2>4 DEF UnlinkSidecar, Put
    <3>3. [files[k] EXCEPT ![request[r].at] = None] \in File
      BY <3>1 DEF Types, File
    <3> HIDE DEF k
    <3> QED
      BY <3>1, <3>2, <3>3 DEF Types
  <2> QED
    BY <2>1, <2>2, <2>3, <2>4
<1> QED
  BY <1>0, <1>1, <1>2 DEF Types, AssemblerTypes, RebuildTypes

LEMMA ClassifierTypesKept == Types /\ (ReadClip \/ WriteVerdict) => Types'
<1> SUFFICES ASSUME Types, ReadClip \/ WriteVerdict PROVE Types'
  OBVIOUS
<1>1. UNCHANGED <<up, dir, assembler, request, rebuild, steady, jobs>>
  BY DEF ReadClip, WriteVerdict, bounds
<1>2. CASE ReadClip
  <2>1. PICK k \in Keys : files[k].clip # None /\ classifier' = [key |-> k, job |-> files[k].clip]
    BY <1>2 DEF ReadClip
  <2>2. files' = files
    BY <1>2 DEF ReadClip
  <2> QED
    BY <1>1, <2>1, <2>2 DEF Types, File, AssemblerTypes, RequestTypes, RebuildTypes
<1>3. CASE WriteVerdict
  <2> DEFINE k == classifier.key
  <2>1. k \in Keys /\ classifier.job \in Nat
    BY <1>3 DEF WriteVerdict, Types
  <2>2. files' = [files EXCEPT ![k] = [files[k] EXCEPT !.analysis = classifier.job]]
    BY <1>3 DEF WriteVerdict, Put
  <2>3. files' \in [Keys -> File]
    <3> HIDE DEF k
    <3> QED
      BY <2>1, <2>2 DEF Types, File
  <2>4. classifier' = NoClip
    BY <1>3 DEF WriteVerdict
  <2> QED
    BY <1>1, <2>3, <2>4 DEF Types, AssemblerTypes, RequestTypes, RebuildTypes
<1> QED
  BY <1>2, <1>3

\* min(todo): what glob's sorted list has next.
LEMMA MinIsMember ==
  ASSUME NEW S, S \subseteq Names, S # {}
  PROVE  Min(S) \in S
<1>1. S \subseteq Nat
  BY FilesAssumption DEF Names
<1>2. \E n \in S : \A m \in S : n <= m
  BY <1>1, LeastNumber
<1> QED
  BY <1>2 DEF Min

Rebuilding == BeginRebuild \/ CheckClip \/ ReadMetadata \/ WriteIndex

LEMMA RebuildTypesKept == Types /\ Rebuilding => Types'
<1> SUFFICES ASSUME Types, Rebuilding PROVE Types'
  OBVIOUS
<1>1. UNCHANGED <<up, dir, files, assembler, request, classifier, steady, jobs>>
  BY DEF Rebuilding, BeginRebuild, CheckClip, ReadMetadata, WriteIndex, bounds, ghosts
<1>2. RebuildTypes'
  <2>1. CASE BeginRebuild
    BY <2>1 DEF BeginRebuild, RebuildTypes, Types
  <2>2. CASE WriteIndex
    BY <2>2 DEF WriteIndex, RebuildTypes
  <2>3. CASE CheckClip \/ ReadMetadata
    <3>1. rebuild # NoRebuild
      BY <2>3 DEF CheckClip, ReadMetadata, NoRebuild
    <3>2. /\ rebuild \in [at: {"checking", "reading"}, dir: Dirs, todo: SUBSET Names,
                          entries: SUBSET Nat]
          /\ rebuild.todo # {}
      BY <2>3, <3>1 DEF CheckClip, ReadMetadata, Types, RebuildTypes
    <3>3. Item \in Keys
      BY <3>2, MinIsMember DEF Item, Keys
    <3>4. CASE CheckClip
      <4> DEFINE any == [at: {"checking", "reading"}, dir: Dirs, todo: SUBSET Names,
                         entries: SUBSET Nat]
      <4>1. [rebuild EXCEPT !.at = "reading"] \in any
        BY <3>2
      <4>2. [rebuild EXCEPT !.at = "checking", !.todo = @ \ {Min(@)}] \in any
        BY <3>2
      <4>3. rebuild' \in any
        BY <3>4, <4>1, <4>2, Zenon DEF CheckClip, Skip
      <4>4. rebuild'.at = "checking" \/ rebuild'.todo = rebuild.todo
        BY <3>2, <3>4 DEF CheckClip, Skip
      <4>5. rebuild'.at = "reading" => rebuild'.todo # {}
        BY <3>2, <4>4
      <4> QED
        BY <4>3, <4>5, Zenon DEF RebuildTypes
    <3>5. CASE ReadMetadata
      <4>1. files[Item].meta = None \/ files[Item].meta \in Nat
        BY <3>3 DEF Types, File
      <4>2. \E e \in SUBSET Nat :
              rebuild' = [at |-> "checking", dir |-> rebuild.dir,
                          todo |-> rebuild.todo \ {Min(rebuild.todo)}, entries |-> e]
        <5>1. CASE files[Item].meta = None
          BY <3>2, <3>5, <5>1 DEF ReadMetadata, Skip
        <5>2. CASE files[Item].meta # None
          BY <3>2, <3>5, <4>1, <5>2 DEF ReadMetadata
        <5> QED
          BY <5>1, <5>2
      <4> QED
        BY <3>2, <4>2 DEF RebuildTypes
    <3> QED
      BY <2>3, <3>4, <3>5
  <2> QED
    BY <2>1, <2>2, <2>3 DEF Rebuilding
<1> QED
  BY <1>1, <1>2 DEF Types, AssemblerTypes, RequestTypes

LEMMA RestTypesKept == Types /\ (Swap \/ Crash \/ Start \/ UNCHANGED vars) => Types'
<1> SUFFICES ASSUME Types, Swap \/ Crash \/ Start \/ UNCHANGED vars PROVE Types'
  OBVIOUS
<1>1. CASE Swap
  <2>1. up /\ dir' \in Dirs /\ steady' = FALSE
        /\ UNCHANGED <<up, files, assembler, request, classifier, rebuild, jobs>>
    BY <1>1 DEF Swap
  <2> QED
    BY <2>1 DEF Types, AssemblerTypes, RequestTypes, RebuildTypes
<1>2. CASE Crash
  <2>1. /\ up' = FALSE /\ assembler' = NoJob /\ request' = [r \in Requests |-> NoRequest]
        /\ UNCHANGED <<classifier, dir, files, rebuild, jobs, steady>>
    BY <1>2 DEF Crash
  <2> QED
    BY <2>1 DEF Types, AssemblerTypes, RequestTypes, RebuildTypes
<1>3. CASE Start
  <2>1. /\ up' = TRUE /\ steady' = TRUE /\ files' = CleanUp(files, dir)
        /\ UNCHANGED <<dir, assembler, request, classifier, rebuild, jobs>>
    BY <1>3 DEF Start, bounds
  <2>2. files' \in [Keys -> File]
    BY <2>1 DEF CleanUp, Types, File
  <2> QED
    BY <2>1, <2>2 DEF Types, AssemblerTypes, RequestTypes, RebuildTypes
<1>4. CASE UNCHANGED vars
  BY <1>4 DEF vars, bounds, ghosts, Types, AssemblerTypes, RequestTypes, RebuildTypes
<1> QED
  BY <1>1, <1>2, <1>3, <1>4

WebStep(r) == Resolve(r) \/ WriteReview(r) \/ UnlinkClip(r) \/ UnlinkSidecar(r)

\* Who may take a step.
LEMMA Steps ==
  ASSUME [Next]_vars
  PROVE  \/ ProcessJob \/ \E r \in Requests : WebStep(r)
         \/ ReadClip \/ WriteVerdict \/ Rebuilding \/ Swap \/ Crash \/ Start \/ UNCHANGED vars
BY DEF Next, WebStep, Rebuilding

LEMMA TypesKept == Types /\ [Next]_vars => Types'
BY Steps, ProcessTypesKept, WebTypesKept, ClassifierTypesKept, RebuildTypesKept, RestTypesKept
   DEF WebStep

-----------------------------------------------------------------------------
(* Unfinished files                                                        *)

\* Nobody but the assembler and the start touches an unfinished file, gives a
\* clip its name or describes one.
LEMMA OthersOnlyRemove ==
  ASSUME Types,
         (\E r \in Requests : WebStep(r)) \/ ReadClip \/ WriteVerdict \/ Rebuilding \/ UNCHANGED vars
  PROVE  /\ UNCHANGED <<up, dir, assembler, steady, jobs>>
         /\ \A k \in Keys : /\ files'[k].temp = files[k].temp /\ files'[k].whole = files[k].whole
                            /\ files'[k].clip \in {files[k].clip, None}
                            /\ files'[k].meta \in {files[k].meta, None}
<1>1. CASE \E r \in Requests : WebStep(r)
  <2> PICK r \in Requests : WebStep(r)
    BY <1>1
  <2>1. CASE Resolve(r)
    BY <2>1 DEF Resolve, bounds
  <2>2. CASE WriteReview(r)
    <3> DEFINE k == request[r].key
    <3>1. k \in Keys
      BY <2>2, RequestHas DEF WriteReview, At
    <3>2. files' = [files EXCEPT ![k] = [files[k] EXCEPT !.review = request[r].about]]
          /\ UNCHANGED <<up, dir, assembler, steady, jobs>>
      BY <2>2 DEF WriteReview, Put, bounds
    <3> HIDE DEF k
    <3> QED
      BY <3>1, <3>2 DEF Types, File
  <2>3. CASE UnlinkClip(r)
    <3> DEFINE k == request[r].key
    <3>1. k \in Keys
      BY <2>3, RequestHas DEF UnlinkClip, At
    <3>2. files' \in {files, [files EXCEPT ![k] = [files[k] EXCEPT !.clip = None]]}
          /\ UNCHANGED <<up, dir, assembler, steady, jobs>>
      BY <2>3 DEF UnlinkClip, Put, bounds
    <3> HIDE DEF k
    <3> QED
      BY <3>1, <3>2 DEF Types, File
  <2>4. CASE UnlinkSidecar(r)
    <3> DEFINE k == request[r].key
    <3>1. k \in Keys /\ request[r].at \in {"meta", "analysis", "review"}
      <4>1. request[r].at \in {"meta", "analysis", "review"}
        BY <2>4 DEF UnlinkSidecar, After
      <4> QED
        BY <4>1, RequestHas
    <3>2. files' \in {files, [files EXCEPT ![k] = [files[k] EXCEPT ![request[r].at] = None]]}
          /\ UNCHANGED <<up, dir, assembler, steady, jobs>>
      BY <2>4 DEF UnlinkSidecar, Put
    <3> HIDE DEF k
    <3>3. \A l \in Keys : files'[l] \in {files[l], [files[l] EXCEPT ![request[r].at] = None]}
      BY <3>1, <3>2 DEF Types
    <3> QED
      BY <3>1, <3>2, <3>3 DEF Types, File
  <2> QED
    BY <2>1, <2>2, <2>3, <2>4 DEF WebStep
<1>2. CASE WriteVerdict
  <2> DEFINE k == classifier.key
  <2>1. k \in Keys
    BY <1>2 DEF WriteVerdict, Types
  <2>2. files' = [files EXCEPT ![k] = [files[k] EXCEPT !.analysis = classifier.job]]
        /\ UNCHANGED <<up, dir, assembler, steady, jobs>>
    BY <1>2 DEF WriteVerdict, Put, bounds
  <2> HIDE DEF k
  <2> QED
    BY <2>1, <2>2 DEF Types, File
<1>3. CASE ReadClip \/ Rebuilding \/ UNCHANGED vars
  BY <1>3 DEF ReadClip, Rebuilding, BeginRebuild, CheckClip, ReadMetadata, WriteIndex, vars, bounds,
     ghosts
<1> QED
  BY <1>1, <1>2, <1>3

LEMMA TempInit == Init => TempInv
BY DEF Init, TempInv, NoPartialClip, TempsOwned, NoFiles, NoJob

LEMMA TempInvKept == Types /\ TempInv /\ [Next]_vars => TempInv'
<1> SUFFICES ASSUME Types, TempInv, [Next]_vars PROVE TempInv'
  OBVIOUS
<1> USE DEF TempInv, NoPartialClip, TempsOwned
<1>0. assembler = NoJob => assembler.at = "idle"
  BY DEF NoJob
<1>1. CASE (\E r \in Requests : WebStep(r)) \/ ReadClip \/ WriteVerdict \/ Rebuilding \/ UNCHANGED vars
  <2>1. /\ UNCHANGED <<up, dir, assembler, steady, jobs>>
        /\ \A k \in Keys : /\ files'[k].temp = files[k].temp /\ files'[k].whole = files[k].whole
                           /\ files'[k].clip \in {files[k].clip, None}
    BY <1>1, OthersOnlyRemove
  <2>2. assembler.at = "renaming" => assembler.temp \in Keys
    BY <1>0 DEF Types, AssemblerTypes
  <2> QED
    BY <2>1, <2>2
<1>2. CASE TakeJob
  <2>1. PICK n \in Names :
          assembler' = [NoJob EXCEPT !.at = "assembling", !.job = jobs', !.final = <<dir, n>>]
    BY <1>2 DEF TakeJob
  <2>2. assembler'.at = "assembling" /\ assembler'.final[1] = dir
    BY <2>1 DEF NoJob
  <2>3. assembler.at = "idle" /\ UNCHANGED <<up, dir, files, steady>>
    BY <1>2 DEF TakeJob, ghosts
  <2> QED
    BY <2>2, <2>3
<1>3. CASE Assemble
  <2> DEFINE k == <<dir, assembler.final[2]>>
  <2>1. assembler # NoJob /\ assembler.at = "assembling"
    BY <1>0, <1>3 DEF Assemble
  <2>2. k \in Keys /\ (assembler.final[1] = dir => k = assembler.final)
    BY <2>1, JobTypes, KeyParts DEF Types, Keys
  <2>3. /\ files' = [files EXCEPT ![k] = [files[k] EXCEPT !.temp = "partial"]]
        /\ assembler' = [assembler EXCEPT !.at = "waiting", !.temp = k]
        /\ UNCHANGED <<up, dir, steady>>
    BY <1>3 DEF Assemble, Put
  <2>4. assembler'.at = "waiting" /\ assembler'.temp = k /\ assembler'.final = assembler.final
    BY <2>1, <2>3, JobTypes
  <2> HIDE DEF k
  <2>5. \A l \in Keys : /\ files'[l].clip = files[l].clip /\ files'[l].whole = files[l].whole
                        /\ l # k => files'[l].temp = files[l].temp
    BY <2>2, <2>3 DEF Types, File
  <2> QED
    BY <2>1, <2>2, <2>3, <2>4, <2>5
<1>4. CASE Assembled
  <2> DEFINE k == assembler.temp
  <2>1. assembler # NoJob /\ k \in Keys /\ assembler.at = "waiting"
    BY <1>0, <1>4 DEF Assembled, Types, AssemblerTypes
  <2>2. /\ files' = [files EXCEPT ![k] = [files[k] EXCEPT !.temp = "whole"]]
        /\ assembler' = [assembler EXCEPT !.at = "renaming"]
        /\ UNCHANGED <<up, dir, steady>>
    BY <1>4 DEF Assembled, Put
  <2>3. assembler'.at = "renaming" /\ assembler'.temp = k /\ assembler'.final = assembler.final
    BY <2>1, <2>2, JobTypes
  <2> HIDE DEF k
  <2>4. \A l \in Keys : /\ files'[l].clip = files[l].clip /\ files'[l].whole = files[l].whole
                        /\ files'[l].temp = IF l = k THEN "whole" ELSE files[l].temp
    BY <2>1, <2>2 DEF Types, File
  <2>5. assembler.temp = k
    BY DEF k
  <2> QED
    BY <2>1, <2>2, <2>3, <2>4, <2>5
<1>5. CASE AssemblyFails
  <2> DEFINE k == assembler.temp
  <2>1. assembler # NoJob /\ k \in Keys /\ assembler.at = "waiting"
    BY <1>0, <1>5 DEF AssemblyFails, Types, AssemblerTypes
  <2>2. /\ files' = [files EXCEPT ![k] = [files[k] EXCEPT !.temp = None]]
        /\ assembler' = NoJob /\ UNCHANGED <<up, dir, steady>>
    BY <1>5 DEF AssemblyFails, GivenUp, Put
  <2>3. assembler'.at = "idle"
    BY <2>2 DEF NoJob
  <2> HIDE DEF k
  <2>4. \A l \in Keys : /\ files'[l].clip = files[l].clip /\ files'[l].whole = files[l].whole
                        /\ files'[l].temp = IF l = k THEN None ELSE files[l].temp
    BY <2>1, <2>2 DEF Types, File
  <2>5. assembler.temp = k
    BY DEF k
  <2> QED
    BY <2>1, <2>2, <2>3, <2>4, <2>5
<1>6. CASE Rename
  <2> DEFINE k == assembler.final
             t == assembler.temp
             moved == [files EXCEPT ![t].temp = None]
  <2>1. assembler # NoJob /\ t \in Keys /\ assembler.at = "renaming"
    BY <1>0, <1>6 DEF Rename, Types, AssemblerTypes
  <2>2. k \in Keys
    BY <2>1, JobTypes
  <2>3. /\ files' = [moved EXCEPT ![k].clip = assembler.job, ![k].whole = files[t].temp = "whole"]
        /\ assembler' = [assembler EXCEPT !.at = "describing"]
        /\ UNCHANGED <<up, dir, steady>>
    BY <1>6 DEF Rename
  <2>4. assembler'.at = "describing" /\ assembler'.final = k
    BY <2>1, <2>3, JobTypes
  <2>5. assembler.temp = t /\ files[t].temp = "whole"
    BY <2>1
  <2> HIDE DEF k, t
  <2>6. moved \in [Keys -> File]
        /\ \A l \in Keys : /\ moved[l].clip = files[l].clip /\ moved[l].whole = files[l].whole
                           /\ moved[l].temp = IF l = t THEN None ELSE files[l].temp
    <3>1. \A f \in File : LET g == [f EXCEPT !.temp = None]
                          IN  /\ g \in File /\ g.temp = None
                              /\ g.clip = f.clip /\ g.whole = f.whole
      BY DEF File
    <3>2. t \in Keys /\ files \in [Keys -> File]
      BY <2>1 DEF Types
    <3>3. moved = [files EXCEPT ![t] = [files[t] EXCEPT !.temp = None]]
      BY <3>2
    <3> QED
      BY <3>1, <3>2, <3>3
  <2> HIDE DEF moved
  <2>7. \A l \in Keys : /\ l # k => /\ files'[l].clip = files[l].clip
                                    /\ files'[l].whole = files[l].whole
                        /\ l = k => files'[l].whole = TRUE
                        /\ files'[l].temp = IF l = t THEN None ELSE files[l].temp
    <3>1. \A f \in File : LET g == [f EXCEPT !.clip = assembler.job]
                          IN  g.temp = f.temp /\ DOMAIN g = DOMAIN f /\ "whole" \in DOMAIN f
      BY DEF File
    <3>2. (files[t].temp = "whole") = TRUE
      BY <2>5
    <3>3. files' = [moved EXCEPT ![k] = [[moved[k] EXCEPT !.clip = assembler.job]
                                           EXCEPT !.whole = TRUE]]
      BY <2>2, <2>3, <2>6, <3>2
    <3>4. /\ files'[k].whole = TRUE /\ files'[k].temp = moved[k].temp
          /\ \A l \in Keys : l # k => files'[l] = moved[l]
      BY <2>2, <2>6, <3>1, <3>3
    <3>5. \A l \in Keys : files'[l].temp = moved[l].temp
      BY <3>4
    <3>6. \A l \in Keys : l # k => files'[l].clip = moved[l].clip /\ files'[l].whole = moved[l].whole
      BY <3>4, Zenon
    <3>7. \A l \in Keys : moved[l].clip = files[l].clip /\ moved[l].whole = files[l].whole
      BY <2>6, Zenon
    <3>8. \A l \in Keys : l # k => files'[l].clip = files[l].clip /\ files'[l].whole = files[l].whole
      BY <3>6, <3>7, Zenon
    <3>9. \A l \in Keys : files'[l].temp = IF l = t THEN None ELSE files[l].temp
      BY <2>6, <3>5
    <3>10. \A l \in Keys : l = k => files'[l].whole = TRUE
      BY <3>4, Zenon
    <3> QED
      BY <3>8, <3>9, <3>10, Zenon
  <2>8. k = assembler.final
    BY DEF k
  <2>9. \A l \in Keys : (files[l].clip # None => files[l].whole)'
    <3> SUFFICES ASSUME NEW l \in Keys, files'[l].clip # None PROVE files'[l].whole
      OBVIOUS
    <3>1. CASE l = k
      BY <2>7, <3>1
    <3>2. CASE l # k
      BY <2>7, <3>2
    <3> QED
      BY <3>1, <3>2
  <2>10. (assembler.at = "renaming" => files[assembler.temp].temp = "whole")'
    BY <2>4
  <2>11. \A l \in Keys : files'[l].temp # None => l # t /\ files[l].temp # None
    BY <2>7
  <2>12. (up /\ steady => \A l \in Keys : ~(l[1] = dir /\ files[l].temp # None))'
    BY <2>1, <2>3, <2>5, <2>11
  <2>13. assembler'.final[1] = assembler.final[1] /\ assembler'.at \notin {"waiting", "renaming"}
    BY <2>4, <2>8
  <2> QED
    BY <2>1, <2>3, <2>9, <2>10, <2>12, <2>13
<1>7. CASE RenameFails
  <2>1. assembler # NoJob /\ up /\ assembler.at = "renaming" /\ assembler.final # assembler.temp
    BY <1>0, <1>7 DEF RenameFails, Types
  <2>2. assembler' = NoJob /\ assembler'.at = "idle" /\ UNCHANGED <<up, dir, files, steady>>
    BY <1>7 DEF RenameFails, NoJob, ghosts
  <2>3. ~steady
    BY <2>1
  <2> QED
    BY <2>2, <2>3
<1>8. CASE WriteMetadata
  <2> DEFINE k == assembler.final
  <2>1. assembler # NoJob /\ assembler.at = "describing"
    BY <1>0, <1>8 DEF WriteMetadata
  <2>2. k \in Keys
    BY <2>1, JobTypes
  <2>3. /\ files' \in {files, [files EXCEPT ![k] = [files[k] EXCEPT !.meta = assembler.job]]}
        /\ assembler' = NoJob /\ assembler'.at = "idle" /\ UNCHANGED <<up, dir, steady>>
    BY <1>8 DEF WriteMetadata, Put, NoJob
  <2> HIDE DEF k
  <2>4. \A l \in Keys : /\ files'[l].clip = files[l].clip /\ files'[l].whole = files[l].whole
                        /\ files'[l].temp = files[l].temp
    BY <2>2, <2>3 DEF Types, File
  <2> QED
    BY <2>1, <2>3, <2>4
<1>9. CASE Swap
  BY <1>9 DEF Swap
<1>10. CASE Crash
  BY <1>10 DEF Crash, NoJob
<1>11. CASE Start
  <2>1. /\ ~up /\ assembler = NoJob /\ UNCHANGED <<dir, assembler>> /\ files' = CleanUp(files, dir)
    BY <1>11 DEF Start, Types
  <2>2. \A k \in Keys : /\ files'[k].clip = files[k].clip /\ files'[k].whole = files[k].whole
                        /\ k[1] = dir => files'[k].temp = None
    BY <2>1 DEF CleanUp, Types, File
  <2> QED
    BY <1>0, <2>1, <2>2
<1> QED
  BY <1>1, <1>2, <1>3, <1>4, <1>5, <1>6, <1>7, <1>8, <1>9, <1>10, <1>11, Steps DEF ProcessJob

-----------------------------------------------------------------------------
(* The index                                                               *)

\* The steps of the assembler but the last, settings, crashes and starts.
Undescribing ==
  \/ TakeJob \/ Assemble \/ Assembled \/ AssemblyFails \/ Rename \/ RenameFails
  \/ Swap \/ Crash \/ Start

LEMMA SidecarsStay ==
  ASSUME Types, Undescribing
  PROVE  \A k \in Keys :
           /\ files'[k].meta = files[k].meta
           /\ files'[k].analysis = files[k].analysis /\ files'[k].review = files[k].review
           /\ \/ files'[k].clip = files[k].clip
              \/ Rename /\ k = assembler.final /\ files'[k].clip = assembler.job
<1>1. CASE TakeJob \/ RenameFails \/ Swap \/ Crash
  BY <1>1 DEF TakeJob, RenameFails, Swap, Crash
<1>2. CASE Assemble
  <2> DEFINE k == <<dir, assembler.final[2]>>
  <2>1. k \in Keys
    BY <1>2, JobTypes, KeyParts DEF Assemble, NoJob, Types, Keys
  <2>2. files' = [files EXCEPT ![k] = [files[k] EXCEPT !.temp = "partial"]]
    BY <1>2 DEF Assemble, Put
  <2> HIDE DEF k
  <2> QED
    BY <2>1, <2>2 DEF Types, File
<1>3. CASE Assembled \/ AssemblyFails
  <2> DEFINE k == assembler.temp
  <2>1. k \in Keys
    BY <1>3 DEF Assembled, AssemblyFails, Types, AssemblerTypes, NoJob
  <2>2. \E t \in {"whole", None} : files' = [files EXCEPT ![k] = [files[k] EXCEPT !.temp = t]]
    BY <1>3 DEF Assembled, AssemblyFails, Put
  <2> HIDE DEF k
  <2> QED
    BY <2>1, <2>2 DEF Types, File
<1>4. CASE Rename
  <2> DEFINE k == assembler.final
             t == assembler.temp
             moved == [files EXCEPT ![t].temp = None]
  <2>1. assembler # NoJob /\ t \in Keys
    BY <1>4 DEF Rename, Types, AssemblerTypes, NoJob
  <2>2. k \in Keys
    BY <2>1, JobTypes
  <2>3. files' = [moved EXCEPT ![k].clip = assembler.job, ![k].whole = files[t].temp = "whole"]
    BY <1>4 DEF Rename
  <2>4. moved \in [Keys -> File]
        /\ \A l \in Keys : /\ moved[l].clip = files[l].clip /\ moved[l].meta = files[l].meta
                           /\ moved[l].analysis = files[l].analysis
                           /\ moved[l].review = files[l].review
    <3> HIDE DEF t
    <3> QED
      BY <2>1 DEF Types, File
  <2>5. k = assembler.final
    OBVIOUS
  <2> HIDE DEF k, t, moved
  <2>6. \A l \in Keys : /\ files'[l].meta = files[l].meta
                        /\ files'[l].analysis = files[l].analysis
                        /\ files'[l].review = files[l].review
                        /\ files'[l].clip = IF l = k THEN assembler.job ELSE files[l].clip
    BY <2>2, <2>3, <2>4 DEF File
  <2> QED
    BY <1>4, <2>5, <2>6
<1>5. CASE Start
  BY <1>5 DEF Start, CleanUp, Types, File
<1> QED
  BY <1>1, <1>2, <1>3, <1>4, <1>5 DEF Undescribing

\* What the last step of a job does.
LEMMA WrittenMetadata ==
  ASSUME Types, WriteMetadata
  PROVE  /\ assembler # NoJob /\ assembler.final \in Keys /\ assembler' = NoJob
         /\ \A k \in Keys : /\ files'[k].clip = files[k].clip
                            /\ files'[k].analysis = files[k].analysis
                            /\ files'[k].review = files[k].review
                            /\ k # assembler.final => files'[k] = files[k]
         /\ files'[assembler.final].meta \in {files[assembler.final].meta, assembler.job}
<1> DEFINE k == assembler.final
<1>1. assembler # NoJob /\ k \in Keys
  BY JobTypes DEF WriteMetadata, NoJob
<1>2. /\ files' \in {files, [files EXCEPT ![k] = [files[k] EXCEPT !.meta = assembler.job]]}
      /\ assembler' = NoJob
  BY DEF WriteMetadata, Put
<1>3. k = assembler.final
  OBVIOUS
<1> HIDE DEF k
<1> QED
  BY <1>1, <1>2, <1>3 DEF Types, File

LEMMA MetaInit == Init => MetaInv
BY DEF Init, MetaInv, NoFiles

LEMMA MetaInvKept == Types /\ MetaInv /\ [Next]_vars => MetaInv'
<1> SUFFICES ASSUME Types, MetaInv, [Next]_vars PROVE MetaInv'
  OBVIOUS
<1>1. CASE (\E r \in Requests : WebStep(r)) \/ ReadClip \/ WriteVerdict \/ Rebuilding \/ UNCHANGED vars
  <2>1. UNCHANGED <<assembler, jobs>> /\ \A k \in Keys : files'[k].meta \in {files[k].meta, None}
    BY <1>1, OthersOnlyRemove
  <2>2. assembler # NoJob => assembler.job \in Nat
    BY JobTypes
  <2> QED
    BY <2>1, <2>2, NoneIsNoOther DEF MetaInv
<1>2. CASE TakeJob
  <2>1. \A k \in Keys : files'[k].meta = files[k].meta
    BY <1>2, SidecarsStay DEF Undescribing
  <2>2. jobs' = jobs + 1 /\ jobs \in Nat /\ assembler'.job = jobs'
    BY <1>2 DEF TakeJob, NoJob, Types
  <2>3. \A k \in Keys : files[k].meta \in Nat \union {None}
    BY DEF Types, File
  <2> QED
    BY <2>1, <2>2, <2>3, NoneIsNoOther DEF MetaInv
<1>3. CASE Undescribing /\ ~TakeJob
  <2>1. \A k \in Keys : files'[k].meta = files[k].meta
    BY <1>3, SidecarsStay
  <2>2. jobs' = jobs /\ (assembler' = NoJob \/ (assembler # NoJob /\ assembler'.job = assembler.job))
    <3>1. CASE Assemble \/ Assembled \/ Rename
      <4>1. assembler # NoJob
        BY <3>1 DEF Assemble, Assembled, Rename, NoJob
      <4> QED
        BY <3>1, <4>1, JobTypes DEF Assemble, Assembled, Rename, bounds
    <3>2. CASE AssemblyFails \/ RenameFails \/ Crash
      BY <3>2 DEF AssemblyFails, GivenUp, RenameFails, Crash, bounds
    <3>3. CASE Swap \/ Start
      BY <3>3 DEF Swap, Start, bounds
    <3> QED
      BY <1>3, <3>1, <3>2, <3>3 DEF Undescribing
  <2> QED
    BY <2>1, <2>2 DEF MetaInv
<1>4. CASE WriteMetadata
  <2>1. /\ assembler # NoJob /\ assembler' = NoJob /\ assembler.job <= jobs /\ jobs' = jobs
        /\ assembler.final \in Keys
    BY <1>4, WrittenMetadata DEF Types, AssemblerTypes, WriteMetadata
  <2>2. /\ \A k \in Keys : k # assembler.final => files'[k].meta = files[k].meta
        /\ files'[assembler.final].meta \in {files[assembler.final].meta, assembler.job}
    BY <1>4, WrittenMetadata
  <2> QED
    BY <2>1, <2>2 DEF MetaInv
<1> QED
  BY <1>1, <1>2, <1>3, <1>4, Steps DEF ProcessJob, Undescribing

\* While the index is collected, a clip that is not in `touched` is as it was.
LEMMA TouchedChange ==
  ASSUME Types, rebuild # NoRebuild, [Next]_vars, ~Rebuilding
  PROVE  /\ rebuild' = rebuild /\ touched \subseteq touched'
         /\ \A k \in Keys \ touched' : /\ files'[k].clip = files[k].clip
                                       /\ files'[k].meta = files[k].meta
<1>0. ASSUME NEW k \in Keys, NEW f, Put(k, f)
      PROVE  touched \subseteq touched' /\ k \in touched' /\ \A l \in Keys : l # k => files'[l] = files[l]
  BY <1>0 DEF Put, Touch, Types
<1>1. CASE \E r \in Requests : WebStep(r)
  <2> PICK r \in Requests : WebStep(r)
    BY <1>1
  <2>1. CASE Resolve(r)
    BY <2>1 DEF Resolve
  <2>2. CASE WriteReview(r)
    <3>1. request[r].key \in Keys
      BY <2>2, RequestHas DEF WriteReview, At
    <3>2. (\E f : Put(request[r].key, f)) /\ rebuild' = rebuild
      BY <2>2 DEF WriteReview
    <3> QED
      BY <1>0, <3>1, <3>2
  <2>3. CASE UnlinkClip(r)
    <3>1. request[r].key \in Keys
      BY <2>3, RequestHas DEF UnlinkClip, At
    <3>2. ((\E f : Put(request[r].key, f)) \/ UNCHANGED <<files, touched>>) /\ rebuild' = rebuild
      BY <2>3 DEF UnlinkClip
    <3> QED
      BY <1>0, <3>1, <3>2
  <2>4. CASE UnlinkSidecar(r)
    <3>1. request[r].key \in Keys
      <4>1. request[r].at # "idle"
        BY <2>4 DEF UnlinkSidecar, After
      <4> QED
        BY <4>1, RequestHas
    <3>2. ((\E f : Put(request[r].key, f)) \/ UNCHANGED <<files, touched>>) /\ rebuild' = rebuild
      BY <2>4 DEF UnlinkSidecar
    <3> QED
      BY <1>0, <3>1, <3>2
  <2> QED
    BY <2>1, <2>2, <2>3, <2>4 DEF WebStep
<1>2. CASE ReadClip \/ Swap \/ Crash \/ UNCHANGED vars
  BY <1>2 DEF ReadClip, Swap, Crash, vars, ghosts
<1>3. CASE WriteVerdict
  <2>1. classifier.key \in Keys
    BY <1>3 DEF WriteVerdict, Types
  <2>2. (\E f : Put(classifier.key, f)) /\ rebuild' = rebuild
    BY <1>3 DEF WriteVerdict
  <2> QED
    BY <1>0, <2>1, <2>2
<1>4. CASE TakeJob \/ RenameFails \/ Start
  <2>1. UNCHANGED <<rebuild, touched>>
    BY <1>4 DEF TakeJob, RenameFails, Start, ghosts
  <2>2. \A k \in Keys : files'[k].clip = files[k].clip /\ files'[k].meta = files[k].meta
    <3>1. CASE TakeJob \/ RenameFails
      BY <3>1 DEF TakeJob, RenameFails
    <3>2. CASE Start
      <4>1. ~Rename
        BY <3>2 DEF Start, Rename, Types, NoJob
      <4> QED
        BY <3>2, <4>1, SidecarsStay DEF Undescribing
    <3> QED
      BY <1>4, <3>1, <3>2
  <2> QED
    BY <2>1, <2>2
<1>5. CASE Assemble
  <2>1. <<dir, assembler.final[2]>> \in Keys
    BY <1>5, JobTypes, KeyParts DEF Assemble, NoJob, Types, Keys
  <2>2. (\E f : Put(<<dir, assembler.final[2]>>, f)) /\ rebuild' = rebuild
    BY <1>5 DEF Assemble
  <2> QED
    BY <1>0, <2>1, <2>2
<1>6. CASE Assembled \/ AssemblyFails
  <2>1. assembler.temp \in Keys
    BY <1>6 DEF Assembled, AssemblyFails, Types, AssemblerTypes, NoJob
  <2>2. (\E f : Put(assembler.temp, f)) /\ rebuild' = rebuild
    BY <1>6 DEF Assembled, AssemblyFails
  <2> QED
    BY <1>0, <2>1, <2>2
<1>7. CASE Rename
  <2>1. touched' = touched \union {assembler.final} /\ rebuild' = rebuild
    BY <1>7 DEF Rename, Touch
  <2>2. \A k \in Keys : files'[k].meta = files[k].meta
                        /\ (k # assembler.final => files'[k].clip = files[k].clip)
    BY <1>7, SidecarsStay DEF Undescribing
  <2> QED
    BY <2>1, <2>2
<1>8. CASE WriteMetadata
  <2>1. assembler.final \in Keys
    BY <1>8, WrittenMetadata
  <2>2. ((\E f : Put(assembler.final, f)) \/ UNCHANGED <<files, touched>>) /\ rebuild' = rebuild
    BY <1>8 DEF WriteMetadata
  <2> QED
    BY <1>0, <2>1, <2>2
<1> QED
  BY <1>1, <1>2, <1>3, <1>4, <1>5, <1>6, <1>7, <1>8, Steps DEF ProcessJob

LEMMA CollectInit == Init => CollectInv
BY DEF Init, CollectInv

LEMMA CollectInvKept == Types /\ MetaInv /\ CollectInv /\ [Next]_vars => CollectInv'
<1> SUFFICES ASSUME Types, MetaInv, CollectInv, [Next]_vars, rebuild' # NoRebuild,
                    NEW n \in Names, <<rebuild.dir, n>>' \notin touched'
             PROVE  /\ n \notin rebuild.todo' => (Entered(<<rebuild.dir, n>>) <=> Current(<<rebuild.dir, n>>))'
                    /\ n \in rebuild.todo' => ~Entered(<<rebuild.dir, n>>)'
                    /\ rebuild'.at = "reading" /\ <<rebuild.dir, n>>' = Item' =>
                         files'[<<rebuild.dir, n>>'].clip # None
  BY DEF CollectInv
<1> DEFINE k == <<rebuild.dir, n>>
<1>1. CASE ~Rebuilding /\ rebuild # NoRebuild
  <2>1. rebuild' = rebuild /\ touched \subseteq touched' /\ k \in Keys
    BY <1>1, TouchedChange DEF Types, RebuildTypes, Keys
  <2>2. files'[k].clip = files[k].clip /\ files'[k].meta = files[k].meta /\ k \notin touched
    BY <1>1, <2>1, TouchedChange
  <2> QED
    BY <2>1, <2>2 DEF CollectInv, Entered, Current, Item
<1>2. CASE BeginRebuild
  <2>1. /\ rebuild' = [at |-> "checking", dir |-> dir, entries |-> {},
                       todo |-> {m \in Names : files[<<dir, m>>].meta # None}]
        /\ files' = files
    BY <1>2 DEF BeginRebuild
  <2>2. /\ rebuild'.at = "checking" /\ rebuild'.dir = dir /\ rebuild'.entries = {}
        /\ n \in rebuild'.todo <=> files[<<dir, n>>].meta # None
    BY <2>1
  <2> QED
    BY <2>1, <2>2 DEF Entered, Current
<1>3. CASE CheckClip \/ ReadMetadata
  <2>1. /\ rebuild # NoRebuild /\ UNCHANGED <<files, touched>> /\ rebuild.todo # {}
        /\ rebuild \in [at: {"checking", "reading"}, dir: Dirs, todo: SUBSET Names, entries: SUBSET Nat]
    BY <1>3 DEF CheckClip, ReadMetadata, NoRebuild, Types, RebuildTypes, ghosts
  <2> DEFINE m == Min(rebuild.todo)
  <2>2. m \in rebuild.todo /\ m \in Names /\ Item = <<rebuild.dir, m>> /\ Item \in Keys
    BY <2>1, MinIsMember DEF Item, Keys
  <2> HIDE DEF m
  <2>3. k \in Keys /\ (k = Item <=> n = m)
    BY <2>1, <2>2 DEF Keys
  <2>4. CASE /\ rebuild'.at = "checking" /\ rebuild'.dir = rebuild.dir
             /\ rebuild'.todo = rebuild.todo \ {m} /\ rebuild'.entries = rebuild.entries
             /\ None \in {files[Item].clip, files[Item].meta}
    <3>1. k \notin touched
      BY <2>1, <2>4
    <3>2. /\ n \notin rebuild.todo => (Entered(k) <=> Current(k))
          /\ n \in rebuild.todo => ~Entered(k)
      BY <2>1, <3>1 DEF CollectInv
    <3>3. n = m => ~Entered(k) /\ ~Current(k)
      BY <2>2, <2>3, <2>4, <3>2 DEF Current
    <3> QED
      BY <2>1, <2>2, <2>4, <3>2, <3>3 DEF Entered, Current
  <2>5. CASE /\ rebuild'.at = "reading" /\ rebuild'.dir = rebuild.dir
             /\ rebuild'.todo = rebuild.todo /\ rebuild'.entries = rebuild.entries
             /\ files[Item].clip # None
    <3>1. k \notin touched
      BY <2>1, <2>5
    <3>2. /\ n \notin rebuild.todo => (Entered(k) <=> Current(k))
          /\ n \in rebuild.todo => ~Entered(k)
      BY <2>1, <3>1 DEF CollectInv
    <3>3. Item' = Item
      BY <2>5 DEF Item
    <3> QED
      BY <2>1, <2>5, <3>2, <3>3 DEF Entered, Current
  <2>6. CASE /\ rebuild'.at = "checking" /\ rebuild'.dir = rebuild.dir
             /\ rebuild'.todo = rebuild.todo \ {m}
             /\ rebuild'.entries = rebuild.entries \union {files[Item].meta}
             /\ files[Item].meta # None /\ rebuild.at = "reading"
    <3>1. k \notin touched
      BY <2>1, <2>6
    <3>2. /\ n \notin rebuild.todo => (Entered(k) <=> Current(k))
          /\ n \in rebuild.todo => ~Entered(k)
          /\ k = Item => files[k].clip # None
      BY <2>1, <2>6, <3>1 DEF CollectInv
    <3>3. files[k].meta = files[Item].meta => k = Item
      BY <2>2, <2>3, <2>6 DEF MetaInv
    <3>4. Entered(k)' <=> Entered(k) \/ k = Item
      BY <2>1, <2>6, <3>3 DEF Entered
    <3>5. Current(k)' <=> Current(k)
      BY <2>1, <2>6 DEF Current
    <3>6. k = Item => Current(k)
      BY <2>6, <3>2 DEF Current
    <3>7. k' = k /\ (n \in rebuild.todo' <=> n \in rebuild.todo /\ n # m)
      BY <2>6
    <3> HIDE DEF k
    <3>8. /\ n \notin rebuild.todo' => (Entered(k)' <=> Current(k)')
          /\ n \in rebuild.todo' => ~Entered(k)'
      BY <2>2, <2>3, <3>2, <3>4, <3>5, <3>6, <3>7
    <3> QED
      BY <2>6, <3>7, <3>8 DEF k
  <2>7. CASE CheckClip
    <3>1. CASE files[Item].clip = None
      <4>1. rebuild' = [rebuild EXCEPT !.at = "checking", !.todo = @ \ {m}]
        BY <2>7, <3>1 DEF CheckClip, Skip, m
      <4> QED
        BY <2>1, <2>4, <3>1, <4>1
    <3>2. CASE files[Item].clip # None
      BY <2>1, <2>5, <2>7, <3>2 DEF CheckClip
    <3> QED
      BY <3>1, <3>2
  <2>8. CASE ReadMetadata
    <3>1. CASE files[Item].meta = None
      <4>1. rebuild' = [rebuild EXCEPT !.at = "checking", !.todo = @ \ {m}]
        BY <2>8, <3>1 DEF ReadMetadata, Skip, m
      <4> QED
        BY <2>1, <2>4, <3>1, <4>1
    <3>2. CASE files[Item].meta # None
      <4>1. rebuild' = [rebuild EXCEPT !.at = "checking", !.todo = @ \ {m},
                                       !.entries = @ \union {files[Item].meta}]
            /\ rebuild.at = "reading"
        BY <2>8, <3>2 DEF ReadMetadata, m
      <4> QED
        BY <2>1, <2>6, <3>2, <4>1
    <3> QED
      BY <3>1, <3>2
  <2> QED
    BY <1>3, <2>7, <2>8
<1>4. CASE WriteIndex
  BY <1>4 DEF WriteIndex
<1>5. CASE ~Rebuilding /\ rebuild = NoRebuild
  <2>1. rebuild' = rebuild
    <3>1. CASE ProcessJob
      BY <3>1, ProcessScope
    <3>2. CASE \E r \in Requests : WebStep(r)
      BY <3>2 DEF WebStep, Resolve, WriteReview, UnlinkClip, UnlinkSidecar
    <3>3. CASE ReadClip \/ WriteVerdict \/ Swap \/ Crash \/ Start \/ UNCHANGED vars
      BY <3>3 DEF ReadClip, WriteVerdict, Swap, Crash, Start, vars
    <3> QED
      BY <1>5, <3>1, <3>2, <3>3, Steps
  <2> QED
    BY <1>5, <2>1
<1> QED
  BY <1>1, <1>2, <1>3, <1>4, <1>5 DEF Rebuilding

-----------------------------------------------------------------------------
(* Clips and their sidecars                                                *)

LEMMA BusyMeans ==
  ASSUME Types, NEW k \in Keys
  PROVE  k \in Busy <=> Describing(k) \/ Classified(k) \/ \E r \in Requests : Requested(r, k)
<1>1. \A r \in Requests : request[r].key = k => request[r].at # "idle"
  BY NoneIsNoOther DEF Types, RequestTypes, NoRequest, After
<1> QED
  BY <1>1 DEF Busy, Describing, Classified, Requested

LEMMA BusyMeansNext ==
  ASSUME Types', NEW k \in Keys
  PROVE  k \in Busy' <=> Describing(k)' \/ Classified(k)' \/ \E r \in Requests : Requested(r, k)'
<1>1. \A r \in Requests : request'[r].key = k => request'[r].at # "idle"
  BY NoneIsNoOther DEF Types, RequestTypes, NoRequest, After
<1> QED
  BY <1>1 DEF Busy, Describing, Classified, Requested

\* A step that is not about k.
SameFiles(k) ==
  /\ files'[k].clip = files[k].clip /\ files'[k].meta = files[k].meta
  /\ files'[k].analysis = files[k].analysis /\ files'[k].review = files[k].review
SameWork(k) ==
  /\ Describing(k)' <=> Describing(k)
  /\ Describing(k) => assembler'.job = assembler.job
  /\ Classified(k)' <=> Classified(k)
  /\ Classified(k) => classifier' = classifier
  /\ \A r \in Requests : /\ Requested(r, k)' <=> Requested(r, k)
                         /\ Requested(r, k) => request'[r] = request[r]
SameMarks(k) == (k \in mixed' <=> k \in mixed) /\ (k \in broken' <=> k \in broken)

LEMMA SameKeeps ==
  ASSUME Types, Types', NEW k \in Keys, KeyInv(k), SameFiles(k), SameWork(k), SameMarks(k)
  PROVE  KeyInv(k)'
<1>1. k \in Busy' <=> k \in Busy
  BY BusyMeans, BusyMeansNext DEF SameWork
<1>2. Torn(files[k])' <=> Torn(files[k])
  BY DEF Torn, SameFiles
<1>3. OneAt(k) => OneAt(k)'
  BY DEF OneAt, SameWork
<1>4. DoneAt(k) => DoneAt(k)'
  BY <1>2 DEF DoneAt, Described, Removed, SameWork, SameFiles
<1> QED
  BY <1>1, <1>2, <1>3, <1>4 DEF KeyInv, SameMarks

\* An operation on k begins ...
LEMMA BeginsKeeps ==
  ASSUME Types, Types', NEW k \in Keys, NEW replaces, Begins(k, replaces), k \in Busy',
         k \notin Busy => OneAt(k)',
         k \notin Busy /\ ~replaces /\ k \notin broken => DoneAt(k)'
  PROVE  KeyInv(k)'
BY DEF Begins, KeyInv

\* ... or ends: it was alone and has left nothing torn, or else it is known.
LEMMA EndsKeeps ==
  ASSUME Types, Types', NEW k \in Keys, NEW f, NEW failed \in BOOLEAN, Ends(k, f, failed),
         Torn(files[k])' <=> Torn(f),
         k \notin mixed => k \notin Busy',
         k \notin mixed \union broken /\ ~failed => ~Torn(f)
  PROVE  KeyInv(k)'
<1>1. CASE k \in Busy'
  BY <1>1 DEF Ends, KeyInv
<1>2. CASE k \notin Busy'
  <2>1. OneAt(k)' /\ DoneAt(k)'
    BY <1>2, BusyMeansNext DEF OneAt, DoneAt
  <2>2. Torn(f) => k \in broken'
    BY DEF Ends
  <2> QED
    BY <2>1, <2>2 DEF KeyInv
<1> QED
  BY <1>1, <1>2

LEMMA OthersMarked ==
  ASSUME NEW k, NEW l, l # k,
         (\E replaces : Begins(k, replaces)) \/ (\E f, failed : Ends(k, f, failed))
           \/ UNCHANGED <<mixed, broken>>
  PROVE  SameMarks(l)
BY DEF Begins, Ends, SameMarks

LEMMA IdleSteps ==
  ASSUME Types,
         \/ TakeJob \/ Assemble \/ Assembled \/ AssemblyFails \/ RenameFails \/ Swap \/ Start
         \/ Rebuilding \/ UNCHANGED vars
  PROVE  \A k \in Keys : SameFiles(k) /\ SameWork(k) /\ SameMarks(k)
<1>1. UNCHANGED <<request, classifier, mixed, broken>>
  BY DEF TakeJob, Assemble, Assembled, AssemblyFails, RenameFails, Swap, Start, Rebuilding,
     BeginRebuild, CheckClip, ReadMetadata, WriteIndex, vars, ghosts
<1>2. UNCHANGED assembler \/ (assembler.at # "describing" /\ assembler'.at # "describing")
  <2>1. CASE TakeJob
    BY <2>1 DEF TakeJob, NoJob
  <2>2. CASE Assemble \/ Assembled
    <3>1. assembler # NoJob
      BY <2>2 DEF Assemble, Assembled, NoJob
    <3> QED
      BY <2>2, <3>1, JobTypes DEF Assemble, Assembled
  <2>3. CASE AssemblyFails \/ RenameFails
    BY <2>3 DEF AssemblyFails, GivenUp, RenameFails, NoJob
  <2>4. CASE Swap \/ Start \/ Rebuilding \/ UNCHANGED vars
    BY <2>4 DEF Swap, Start, Rebuilding, BeginRebuild, CheckClip, ReadMetadata, WriteIndex, vars
  <2> QED
    BY <2>1, <2>2, <2>3, <2>4
<1>3. ASSUME NEW k \in Keys PROVE SameFiles(k)
  <2>1. CASE Rebuilding \/ UNCHANGED vars
    BY <2>1 DEF Rebuilding, BeginRebuild, CheckClip, ReadMetadata, WriteIndex, vars, SameFiles
  <2>2. CASE TakeJob \/ RenameFails \/ Swap
    BY <2>2 DEF TakeJob, RenameFails, Swap, SameFiles
  <2>3. CASE Assemble \/ Assembled \/ AssemblyFails \/ Start
    <3>1. ~Rename
      BY <2>3 DEF Assemble, Assembled, AssemblyFails, Start, Rename, Types, NoJob
    <3> QED
      BY <2>3, <3>1, SidecarsStay DEF Undescribing, SameFiles
  <2> QED
    BY <2>1, <2>2, <2>3
<1> QED
  BY <1>1, <1>2, <1>3 DEF SameWork, SameMarks, Describing, Classified, Requested

\* The assembler gives the clip its name ...
LEMMA RenameKeeps ==
  ASSUME Types, Types', FamilyInv, Rename, NEW k \in Keys
  PROVE  KeyInv(k)'
<1>0. assembler # NoJob /\ assembler.final \in Keys /\ assembler.at = "renaming"
  BY JobTypes DEF Rename, NoJob
<1>p. PICK l \in Keys : l = assembler.final
  BY <1>0
<1>1. assembler # NoJob /\ l \in Keys /\ assembler.final = l /\ assembler.at = "renaming"
  BY <1>0, <1>p
<1>2. /\ Begins(l, files[l].clip # None)
      /\ assembler' = [assembler EXCEPT !.at = "describing"]
      /\ UNCHANGED <<request, classifier>>
  BY <1>1 DEF Rename
<1>3. assembler'.at = "describing" /\ assembler'.final = l /\ assembler'.job = assembler.job
  BY <1>1, <1>2, JobTypes
<1>4. files'[l].clip = assembler.job
  <2>1. files' = [[files EXCEPT ![assembler.temp].temp = None] EXCEPT
                    ![l].clip = assembler.job,
                    ![l].whole = files[assembler.temp].temp = "whole"]
    BY <1>1 DEF Rename
  <2>2. DOMAIN files = Keys
    BY DEF Types
  <2>3. l \in Keys /\ files' \in [Keys -> File]
    BY <1>1 DEF Types
  <2> DEFINE moved == [files EXCEPT ![assembler.temp].temp = None]
  <2>4. DOMAIN moved = Keys /\ assembler.temp \in Keys
    BY <1>1, <2>2 DEF Types, AssemblerTypes, NoJob
  <2>5. moved[l] \in File
    <3>1. \A f \in File : [f EXCEPT !.temp = None] \in File
      BY DEF File
    <3> QED
      BY <2>3, <2>4, <3>1 DEF Types
  <2>6. files' = [moved EXCEPT ![l].clip = assembler.job,
                               ![l].whole = files[assembler.temp].temp = "whole"]
    BY <2>1
  <2> HIDE DEF moved
  <2> QED
    BY <2>3, <2>4, <2>5, <2>6 DEF File
<1>5. /\ files'[l].meta = files[l].meta
      /\ files'[l].analysis = files[l].analysis /\ files'[l].review = files[l].review
  BY <1>1, SidecarsStay DEF Undescribing
<1>6. CASE k = l
  <2>1. l \in Busy' /\ Describing(l)'
    BY <1>1, <1>3, BusyMeansNext DEF Describing
  <2>2. ASSUME l \notin Busy
        PROVE  /\ ~Classified(l)' /\ \A r \in Requests : ~Requested(r, l)'
               /\ Torn(files[l]) => l \in broken
    BY <1>1, <1>2, <2>2, BusyMeans DEF Classified, Requested, FamilyInv, KeyInv
  <2>3. l \notin Busy => OneAt(l)'
    BY <2>2 DEF OneAt
  <2>4. l \notin Busy /\ ~(files[l].clip # None) /\ l \notin broken => DoneAt(l)'
    <3> SUFFICES ASSUME l \notin Busy, files[l].clip = None, l \notin broken PROVE DoneAt(l)'
      OBVIOUS
    <3>1. {files[l].analysis, files[l].review} \subseteq {None}
      BY <2>2 DEF Torn
    <3>2. Described(l)'
      BY <1>3, <1>4, <1>5, <3>1 DEF Described
    <3> QED
      BY <2>2, <3>2 DEF DoneAt
  <2> QED
    BY <1>1, <1>2, <1>6, <2>1, <2>3, <2>4, BeginsKeeps
<1>7. CASE k # l
  <2>1. SameFiles(k)
    BY <1>1, <1>7, SidecarsStay DEF Undescribing, SameFiles, ProcessJob
  <2>2. SameWork(k)
    BY <1>1, <1>2, <1>3, <1>7 DEF SameWork, Describing, Classified, Requested
  <2>3. SameMarks(k)
    BY <1>2, <1>7, OthersMarked
  <2> QED
    BY <2>1, <2>2, <2>3, SameKeeps DEF FamilyInv
<1> QED
  BY <1>6, <1>7

\* ... and writes its metadata.
LEMMA WriteMetadataKeeps ==
  ASSUME Types, Types', FamilyInv, WriteMetadata, NEW k \in Keys
  PROVE  KeyInv(k)'
<1>p. PICK l \in Keys : l = assembler.final
  BY WrittenMetadata
<1>1. /\ assembler # NoJob /\ assembler.final = l /\ assembler' = NoJob
      /\ assembler.at = "describing" /\ UNCHANGED <<request, classifier>>
  BY <1>p, WrittenMetadata DEF WriteMetadata
<1>2. /\ \A m \in Keys : /\ files'[m].clip = files[m].clip
                         /\ files'[m].analysis = files[m].analysis
                         /\ files'[m].review = files[m].review
                         /\ m # l => files'[m] = files[m]
  BY <1>p, WrittenMetadata
<1>3. PICK f, failed :
        /\ failed \in BOOLEAN /\ Ends(l, f, failed) /\ files'[l] = f
        /\ ~failed => f = [files[l] EXCEPT !.meta = assembler.job]
  <2>1. CASE /\ Put(l, [files[l] EXCEPT !.meta = assembler.job])
             /\ Ends(l, [files[l] EXCEPT !.meta = assembler.job], FALSE)
    BY <1>1, <1>p, <2>1 DEF Put, Types
  <2>2. CASE Ends(l, files[l], TRUE) /\ UNCHANGED <<files, touched>>
    BY <2>2
  <2> QED
    BY <1>1, <2>1, <2>2 DEF WriteMetadata
<1>4. ~Describing(l)' /\ Describing(l)
  BY <1>1 DEF Describing, NoJob
<1>5. CASE k = l
  <2>1. l \notin mixed => l \notin Busy'
    <3> SUFFICES ASSUME l \notin mixed PROVE l \notin Busy'
      OBVIOUS
    <3>1. ~Classified(l) /\ \A r \in Requests : ~Requested(r, l)
      BY <1>1, <1>4 DEF FamilyInv, KeyInv, OneAt
    <3>2. ~Classified(l)' /\ \A r \in Requests : ~Requested(r, l)'
      BY <1>1, <3>1 DEF Classified, Requested
    <3> QED
      BY <1>1, <1>4, <3>2, BusyMeansNext
  <2>2. l \notin mixed \union broken /\ ~failed => ~Torn(f)
    <3> SUFFICES ASSUME l \notin mixed \union broken, ~failed PROVE ~Torn(f)
      OBVIOUS
    <3>1. Described(l)
      BY <1>1, <1>4 DEF FamilyInv, KeyInv, DoneAt
    <3>2. f.meta = assembler.job /\ f.clip = files[l].clip /\ f.analysis = files[l].analysis
          /\ f.review = files[l].review
      BY <1>1, <1>3 DEF Types, File
    <3> QED
      BY <3>1, <3>2 DEF Described, Torn
  <2>3. Torn(files[l])' <=> Torn(f)
    BY <1>1, <1>3 DEF Torn
  <2> QED
    BY <1>1, <1>3, <1>5, <2>1, <2>2, <2>3, EndsKeeps
<1>6. CASE k # l
  <2>1. SameFiles(k)
    BY <1>2, <1>6 DEF SameFiles
  <2>2. SameWork(k)
    BY <1>1, <1>6 DEF SameWork, Describing, Classified, Requested, NoJob
  <2>3. SameMarks(k)
    BY <1>3, <1>6, OthersMarked
  <2> QED
    BY <2>1, <2>2, <2>3, SameKeeps DEF FamilyInv
<1> QED
  BY <1>5, <1>6

\* The work of all others when a request moves on.
LEMMA OthersWork ==
  ASSUME NEW r \in Requests, NEW k \in Keys, DOMAIN request = Requests, NEW q,
         request' = [request EXCEPT ![r] = q], UNCHANGED <<assembler, classifier>>
  PROVE  /\ \A s \in Requests \ {r} : /\ Requested(s, k)' <=> Requested(s, k)
                                      /\ request'[s] = request[s]
         /\ request'[r] = q
         /\ (Describing(k)' <=> Describing(k)) /\ (Classified(k)' <=> Classified(k))
BY DEF Requested, Describing, Classified

LEMMA ResolveKeeps ==
  ASSUME Types, Types', FamilyInv, NEW r \in Requests, Resolve(r), NEW k \in Keys
  PROVE  KeyInv(k)'
<1>1. PICK l \in Keys, at \in {"clip", "reviewing"}, discard \in BOOLEAN :
        /\ request' = [request EXCEPT ![r] = [at |-> at, key |-> l, discard |-> discard,
                                              about |-> files[l].clip]]
        /\ IF at = "reviewing" THEN Begins(l, FALSE) ELSE UNCHANGED <<mixed, broken>>
  BY DEF Resolve
<1>2. /\ request[r].at = "idle" /\ DOMAIN request = Requests
      /\ UNCHANGED files /\ UNCHANGED <<assembler, classifier>>
  BY DEF Resolve, At, Types
<1>3. request'[r].at = at /\ request'[r].key = l /\ request'[r].about = files[l].clip
  BY <1>1, <1>2
<1>4. \A m \in Keys : ~Requested(r, m) /\ (Requested(r, m)' <=> at = "reviewing" /\ m = l)
  BY <1>2, <1>3 DEF Requested
<1>5. \A m \in Keys : /\ \A s \in Requests \ {r} : /\ Requested(s, m)' <=> Requested(s, m)
                                                   /\ request'[s] = request[s]
                      /\ (Describing(m)' <=> Describing(m)) /\ (Classified(m)' <=> Classified(m))
  <2>1. PICK q : q = [at |-> at, key |-> l, discard |-> discard, about |-> files[l].clip]
    OBVIOUS
  <2>2. request' = [request EXCEPT ![r] = q]
    BY <1>1, <2>1
  <2> QED
    BY <1>2, <2>2, OthersWork
<1>6. CASE k = l /\ at = "reviewing"
  <2>1. l \in Busy'
    BY <1>4, <1>6, BusyMeansNext
  <2>2. ASSUME l \notin Busy
        PROVE  /\ ~Describing(l)' /\ ~Classified(l)' /\ \A s \in Requests \ {r} : ~Requested(s, l)'
               /\ Torn(files[l]) => l \in broken
    BY <1>5, <2>2, BusyMeans DEF FamilyInv, KeyInv
  <2>3. l \notin Busy => OneAt(l)'
    BY <2>2 DEF OneAt
  <2>4. l \notin Busy /\ ~FALSE /\ l \notin broken => DoneAt(l)'
    <3> SUFFICES ASSUME l \notin Busy, l \notin broken PROVE DoneAt(l)'
      OBVIOUS
    <3>1. ~Torn(files[l])' /\ files'[l].clip = request'[r].about /\ request'[r].at = "reviewing"
      BY <1>2, <1>3, <1>6, <2>2
    <3> QED
      BY <2>2, <3>1 DEF DoneAt
  <2> QED
    BY <1>1, <1>6, <2>1, <2>3, <2>4, BeginsKeeps
<1>7. CASE ~(k = l /\ at = "reviewing")
  <2>1. SameFiles(k)
    BY <1>2 DEF SameFiles
  <2>2. SameWork(k)
    BY <1>2, <1>4, <1>5, <1>7 DEF SameWork
  <2>3. SameMarks(k)
    BY <1>1, <1>7, OthersMarked DEF SameMarks
  <2> QED
    BY <2>1, <2>2, <2>3, SameKeeps DEF FamilyInv
<1> QED
  BY <1>6, <1>7

LEMMA WriteReviewKeeps ==
  ASSUME Types, Types', FamilyInv, NEW r \in Requests, WriteReview(r), NEW k \in Keys
  PROVE  KeyInv(k)'
<1>p. PICK l \in Keys : l = request[r].key
  BY RequestHas DEF WriteReview, At
<1>f. PICK f : f = [files[l] EXCEPT !.review = request[r].about]
  OBVIOUS
<1>1. l \in Keys /\ request[r].key = l /\ request[r].at = "reviewing" /\ DOMAIN request = Requests
  BY <1>p, RequestHas DEF WriteReview, At, Types
<1>2. /\ request' = [request EXCEPT ![r] = IF @.discard THEN [@ EXCEPT !.at = "clip"]
                                           ELSE NoRequest]
      /\ UNCHANGED <<assembler, classifier>> /\ Put(l, f) /\ Ends(l, f, FALSE)
  BY <1>1, <1>f DEF WriteReview
<1>3. \A m \in Keys : ~Requested(r, m)' /\ (Requested(r, m) <=> m = l)
  <2>1. request'[r].at \in {"clip", "idle"}
    BY <1>1, <1>2, RequestHas DEF NoRequest
  <2> QED
    BY <1>1, <2>1 DEF Requested
<1>4. \A m \in Keys : /\ \A s \in Requests \ {r} : /\ Requested(s, m)' <=> Requested(s, m)
                                                   /\ request'[s] = request[s]
                      /\ (Describing(m)' <=> Describing(m)) /\ (Classified(m)' <=> Classified(m))
  <2>1. PICK q : request' = [request EXCEPT ![r] = q]
    BY <1>2
  <2> QED
    BY <1>1, <1>2, <2>1, OthersWork
<1>5. files'[l] = f /\ \A m \in Keys : m # l => files'[m] = files[m]
  BY <1>1, <1>2 DEF Put, Types
<1>6. CASE k = l
  <2>1. l \notin mixed => l \notin Busy'
    BY <1>1, <1>3, <1>4, BusyMeansNext DEF FamilyInv, KeyInv, OneAt
  <2>2. l \notin mixed \union broken => ~Torn(f)
    <3> SUFFICES ASSUME l \notin mixed \union broken PROVE ~Torn(f)
      OBVIOUS
    <3>1. files[l].clip = request[r].about /\ ~Torn(files[l])
      BY <1>1, <1>3 DEF FamilyInv, KeyInv, DoneAt
    <3>2. f.meta = files[l].meta /\ f.clip = files[l].clip /\ f.analysis = files[l].analysis
          /\ f.review = request[r].about
      BY <1>1, <1>f DEF Types, File
    <3> QED
      BY <3>1, <3>2 DEF Torn
  <2>3. Torn(files[l])' <=> Torn(f)
    BY <1>1, <1>2, <1>5 DEF Torn, WriteReview
  <2> QED
    BY <1>1, <1>2, <1>6, <2>1, <2>2, <2>3, EndsKeeps
<1>7. CASE k # l
  <2>1. SameFiles(k)
    BY <1>5, <1>7 DEF SameFiles
  <2>2. SameWork(k)
    BY <1>2, <1>3, <1>4, <1>7 DEF SameWork
  <2>3. SameMarks(k)
    BY <1>2, <1>7, OthersMarked
  <2> QED
    BY <2>1, <2>2, <2>3, SameKeeps DEF FamilyInv
<1> QED
  BY <1>6, <1>7

LEMMA UnlinkClipKeeps ==
  ASSUME Types, Types', FamilyInv, NEW r \in Requests, UnlinkClip(r), NEW k \in Keys
  PROVE  KeyInv(k)'
<1>p. PICK l \in Keys : l = request[r].key
  BY RequestHas DEF UnlinkClip, At
<1>1. /\ l \in Keys /\ request[r].key = l /\ request[r].at = "clip" /\ DOMAIN request = Requests
      /\ UNCHANGED <<assembler, classifier>>
  BY <1>p DEF UnlinkClip, At, Types
<1>2. \A m \in Keys : ~Requested(r, m)
  BY <1>1 DEF Requested
<1>3. CASE files[l].clip = None
  <2>1. /\ request' = [request EXCEPT ![r] = NoRequest]
        /\ UNCHANGED files /\ UNCHANGED <<mixed, broken>>
    BY <1>1, <1>3 DEF UnlinkClip
  <2>2. /\ \A s \in Requests \ {r} : /\ Requested(s, k)' <=> Requested(s, k)
                                     /\ request'[s] = request[s]
        /\ (Describing(k)' <=> Describing(k)) /\ (Classified(k)' <=> Classified(k))
    BY <1>1, <2>1, OthersWork
  <2>3. ~Requested(r, k)'
    BY <1>1, <2>1 DEF Requested, NoRequest
  <2>4. SameFiles(k) /\ SameWork(k) /\ SameMarks(k)
    BY <1>1, <1>2, <2>1, <2>2, <2>3 DEF SameFiles, SameWork, SameMarks
  <2> QED
    BY <2>4, SameKeeps DEF FamilyInv
<1>4. CASE files[l].clip # None
  <2>f. PICK f : f = [files[l] EXCEPT !.clip = None]
    OBVIOUS
  <2>q. PICK q : q = [request[r] EXCEPT !.at = "meta"]
    OBVIOUS
  <2>1. request' = [request EXCEPT ![r] = q] /\ Put(l, f) /\ Begins(l, FALSE)
    <3>1. request' = [request EXCEPT ![r].at = "meta"] /\ Put(l, f) /\ Begins(l, FALSE)
      BY <1>1, <1>4, <2>f DEF UnlinkClip
    <3> QED
      BY <3>1, <2>q
  <2>2. \A m \in Keys : /\ \A s \in Requests \ {r} : /\ Requested(s, m)' <=> Requested(s, m)
                                                     /\ request'[s] = request[s]
                        /\ (Describing(m)' <=> Describing(m)) /\ (Classified(m)' <=> Classified(m))
    BY <1>1, <2>1, OthersWork
  <2>3. request'[r].at = "meta" /\ request'[r].key = l
    BY <1>1, <2>1, <2>q, RequestHas
  <2>4. \A m \in Keys : Requested(r, m)' <=> m = l
    BY <2>3 DEF Requested
  <2>5. files'[l] = f /\ \A m \in Keys : m # l => files'[m] = files[m]
    BY <1>1, <2>1 DEF Put, Types
  <2>6. CASE k = l
    <3>1. l \in Busy'
      BY <1>1, <2>4, BusyMeansNext
    <3>2. ASSUME l \notin Busy
          PROVE  ~Describing(l)' /\ ~Classified(l)' /\ \A s \in Requests \ {r} : ~Requested(s, l)'
      BY <1>1, <2>2, <3>2, BusyMeans
    <3>3. l \notin Busy => OneAt(l)'
      BY <3>2 DEF OneAt
    <3>4. l \notin Busy /\ ~FALSE /\ l \notin broken => DoneAt(l)'
      <4>1. files'[l].clip = None
        BY <1>1, <2>f, <2>5 DEF Types, File
      <4>2. Removed(l, request[r].at)'
        BY <2>3, <4>1 DEF Removed
      <4> QED
        BY <2>3, <3>2, <4>2 DEF DoneAt
    <3> QED
      BY <1>1, <2>1, <2>6, <3>1, <3>3, <3>4, BeginsKeeps
  <2>7. CASE k # l
    <3>1. SameFiles(k)
      BY <2>5, <2>7 DEF SameFiles
    <3>2. SameWork(k)
      BY <1>1, <1>2, <2>2, <2>4, <2>7 DEF SameWork
    <3>3. SameMarks(k)
      BY <2>1, <2>7, OthersMarked
    <3> QED
      BY <3>1, <3>2, <3>3, SameKeeps DEF FamilyInv
  <2> QED
    BY <2>6, <2>7
<1> QED
  BY <1>3, <1>4

\* Removing a sidecar gets the request one step further ...
LEMMA UnlinkSidecarKeeps ==
  ASSUME Types, Types', FamilyInv, NEW r \in Requests, UnlinkSidecar(r), NEW k \in Keys
  PROVE  KeyInv(k)'
<1>0. request[r].at \in {"meta", "analysis", "review"}
  BY DEF UnlinkSidecar, After
<1>p. PICK l \in Keys : l = request[r].key
  BY <1>0, RequestHas
<1>a. PICK at \in {"meta", "analysis", "review"} : at = request[r].at
  BY <1>0
<1>f. PICK f : f = [files[l] EXCEPT ![at] = None]
  OBVIOUS
<1>q. PICK q : q = IF at = "review" THEN NoRequest ELSE [request[r] EXCEPT !.at = After[at]]
  OBVIOUS
<1>1. /\ l \in Keys /\ request[r].key = l /\ request[r].at = at /\ DOMAIN request = Requests
      /\ UNCHANGED <<assembler, classifier>>
  BY <1>p, <1>a DEF UnlinkSidecar, Types
<1>2. /\ request' = [request EXCEPT ![r] = q]
      /\ \/ /\ Put(l, f)
            /\ IF at = "review" THEN Ends(l, f, FALSE) ELSE UNCHANGED <<mixed, broken>>
         \/ /\ UNCHANGED files
            /\ IF at = "review" THEN Ends(l, files[l], TRUE)
               ELSE mixed' = mixed \union {l} /\ UNCHANGED broken
  BY <1>1, <1>f, <1>q DEF UnlinkSidecar
<1>3. \A m \in Keys : /\ \A s \in Requests \ {r} : /\ Requested(s, m)' <=> Requested(s, m)
                                                   /\ request'[s] = request[s]
                      /\ (Describing(m)' <=> Describing(m)) /\ (Classified(m)' <=> Classified(m))
  BY <1>1, <1>2, OthersWork
<1>4. \A m \in Keys : Requested(r, m) <=> m = l
  BY <1>1 DEF Requested
<1>5. /\ \A m \in Keys : m # l => files'[m] = files[m]
      /\ files'[l] = f \/ files'[l] = files[l]
  BY <1>1, <1>2 DEF Put, Types
<1>6. CASE k # l
  <2>1. ~Requested(r, k)' /\ ~Requested(r, k)
    <3>1. q.at = "idle" \/ q.key = l
      BY <1>0, <1>1, <1>q, RequestHas DEF NoRequest
    <3> QED
      BY <1>1, <1>2, <1>4, <1>6, <3>1 DEF Requested
  <2>2. SameFiles(k) /\ SameWork(k)
    BY <1>1, <1>3, <1>5, <1>6, <2>1 DEF SameFiles, SameWork
  <2>3. SameMarks(k)
    BY <1>2, <1>6 DEF Ends, SameMarks
  <2> QED
    BY <2>2, <2>3, SameKeeps DEF FamilyInv
<1>7. CASE k = l /\ at # "review"
  <2>1. request'[r].at = After[at] /\ request'[r].key = l
    BY <1>0, <1>1, <1>2, <1>7, <1>q, RequestHas
  <2>2. After[at] \in {"analysis", "review"}
    BY <1>7, <1>a DEF After
  <2>3. Requested(r, l)' /\ l \in Busy'
    BY <1>1, <2>1, <2>2, BusyMeansNext DEF Requested
  <2>4. CASE l \in mixed'
    BY <1>7, <2>3, <2>4 DEF KeyInv
  <2>5. CASE l \notin mixed'
    <3>1. l \notin mixed /\ (l \in broken <=> l \in broken') /\ files'[l] = f
      BY <1>1, <1>2, <1>7, <2>5 DEF Put, Types
    <3>2. ~Describing(l) /\ ~Classified(l) /\ \A s \in Requests \ {r} : ~Requested(s, l)
      BY <1>4, <3>1 DEF FamilyInv, KeyInv, OneAt
    <3>3. ~Describing(l)' /\ ~Classified(l)' /\ \A s \in Requests \ {r} : ~Requested(s, l)'
      BY <1>1, <1>3, <3>2
    <3>4. OneAt(l)'
      BY <3>3 DEF OneAt
    <3>5. l \notin broken => Removed(l, request[r].at)'
      <4>1. l \notin broken => Removed(l, at)
        BY <1>1, <1>4, <3>1 DEF FamilyInv, KeyInv, DoneAt
      <4>2. CASE at = "meta"
        <5>1. f.meta = None /\ f.clip = files[l].clip
          BY <1>1, <1>f, <4>2 DEF Types, File
        <5> QED
          BY <2>1, <3>1, <4>1, <4>2, <5>1 DEF Removed, After
      <4>3. CASE at = "analysis"
        <5>1. f.analysis = None /\ f.meta = files[l].meta /\ f.clip = files[l].clip
          BY <1>1, <1>f, <4>3 DEF Types, File
        <5> QED
          BY <2>1, <3>1, <4>1, <4>3, <5>1 DEF Removed, After
      <4> QED
        BY <1>7, <1>a, <4>2, <4>3
    <3>6. l \notin broken => DoneAt(l)'
      BY <2>1, <2>2, <3>3, <3>5 DEF DoneAt
    <3> QED
      BY <1>7, <2>3, <3>1, <3>4, <3>6 DEF KeyInv
  <2> QED
    BY <2>4, <2>5
\* ... and the last one ends it.
<1>8. CASE k = l /\ at = "review"
  <2>1. ~Requested(r, l)'
    BY <1>1, <1>2, <1>8, <1>q DEF Requested, NoRequest
  <2>2. l \notin mixed => l \notin Busy'
    <3> SUFFICES ASSUME l \notin mixed PROVE l \notin Busy'
      OBVIOUS
    <3>1. ~Describing(l) /\ ~Classified(l) /\ \A s \in Requests \ {r} : ~Requested(s, l)
      BY <1>1, <1>4 DEF FamilyInv, KeyInv, OneAt
    <3> QED
      BY <1>1, <1>3, <2>1, <3>1, BusyMeansNext
  <2>3. l \notin mixed \union broken => ~Torn(f)
    <3> SUFFICES ASSUME l \notin mixed \union broken PROVE ~Torn(f)
      OBVIOUS
    <3>1. Removed(l, "review")
      BY <1>1, <1>4, <1>8 DEF FamilyInv, KeyInv, DoneAt
    <3>2. /\ f.meta = files[l].meta /\ f.clip = files[l].clip /\ f.analysis = files[l].analysis
          /\ f.review = None
      BY <1>1, <1>8, <1>f DEF Types, File
    <3> QED
      BY <3>1, <3>2 DEF Torn, Removed
  <2>4. CASE Put(l, f) /\ Ends(l, f, FALSE)
    <3>1. Torn(files[l])' <=> Torn(f)
      BY <1>1, <2>4 DEF Put, Types, Torn
    <3> QED
      BY <1>8, <2>2, <2>3, <2>4, <3>1, EndsKeeps
  <2>5. CASE UNCHANGED files /\ Ends(l, files[l], TRUE)
    <3>1. PICK g : g = files[l]
      OBVIOUS
    <3>2. Ends(l, g, TRUE) /\ (Torn(files[l])' <=> Torn(g))
      BY <2>5, <3>1 DEF Torn
    <3> QED
      BY <1>8, <2>2, <3>2, EndsKeeps
  <2> QED
    BY <1>2, <1>8, <2>4, <2>5
<1> QED
  BY <1>6, <1>7, <1>8

\* The classifier reads a clip that it has not yet judged ...
LEMMA ReadClipKeeps ==
  ASSUME Types, Types', FamilyInv, ReadClip, NEW k \in Keys
  PROVE  KeyInv(k)'
<1>1. PICK l \in Keys :
        /\ classifier' = [key |-> l, job |-> files[l].clip]
        /\ Begins(l, FALSE)
  BY DEF ReadClip
<1>2. UNCHANGED <<files, assembler, request>> /\ classifier = NoClip
  BY DEF ReadClip
<1>3. \A m \in Keys : /\ ~Classified(m) /\ (Classified(m)' <=> m = l)
                      /\ (Describing(m)' <=> Describing(m))
                      /\ \A r \in Requests : Requested(r, m)' <=> Requested(r, m)
  BY <1>1, <1>2, NoneIsNoOther DEF Classified, Describing, Requested, NoClip
<1>4. CASE k = l
  <2>1. l \in Busy'
    BY <1>3, BusyMeansNext
  <2>2. ASSUME l \notin Busy
        PROVE  /\ ~Describing(l)' /\ \A r \in Requests : ~Requested(r, l)'
               /\ Torn(files[l]) => l \in broken
    BY <1>3, <2>2, BusyMeans DEF FamilyInv, KeyInv
  <2>3. l \notin Busy => OneAt(l)'
    BY <2>2 DEF OneAt
  <2>4. l \notin Busy /\ ~FALSE /\ l \notin broken => DoneAt(l)'
    <3> SUFFICES ASSUME l \notin Busy, l \notin broken PROVE DoneAt(l)'
      OBVIOUS
    <3>1. ~Torn(files[l])' /\ files'[l].clip = classifier'.job
      BY <1>1, <1>2, <2>2
    <3> QED
      BY <2>2, <3>1 DEF DoneAt
  <2> QED
    BY <1>1, <1>4, <2>1, <2>3, <2>4, BeginsKeeps
<1>5. CASE k # l
  <2>1. SameFiles(k) /\ SameWork(k)
    BY <1>2, <1>3, <1>5 DEF SameFiles, SameWork
  <2>2. SameMarks(k)
    BY <1>1, <1>5, OthersMarked
  <2> QED
    BY <2>1, <2>2, SameKeeps DEF FamilyInv
<1> QED
  BY <1>4, <1>5

\* ... and writes what it found.
LEMMA WriteVerdictKeeps ==
  ASSUME Types, Types', FamilyInv, WriteVerdict, NEW k \in Keys
  PROVE  KeyInv(k)'
<1>p. PICK l \in Keys : l = classifier.key
  BY DEF WriteVerdict, Types
<1>f. PICK f : f = [files[l] EXCEPT !.analysis = classifier.job]
  OBVIOUS
<1>1. /\ l \in Keys /\ classifier.key = l /\ classifier' = NoClip
      /\ UNCHANGED <<assembler, request>> /\ Put(l, f) /\ Ends(l, f, FALSE)
  BY <1>p, <1>f DEF WriteVerdict
<1>2. files'[l] = f /\ \A m \in Keys : m # l => files'[m] = files[m]
  BY <1>1 DEF Put, Types
<1>3. \A m \in Keys : /\ ~Classified(m)' /\ (Classified(m) <=> m = l)
                      /\ (Describing(m)' <=> Describing(m))
                      /\ \A r \in Requests : Requested(r, m)' <=> Requested(r, m)
  BY <1>1, NoneIsNoOther DEF Classified, Describing, Requested, NoClip
<1>4. CASE k = l
  <2>1. l \notin mixed => l \notin Busy'
    <3> SUFFICES ASSUME l \notin mixed PROVE l \notin Busy'
      OBVIOUS
    <3>1. ~Describing(l) /\ \A r \in Requests : ~Requested(r, l)
      BY <1>1, <1>3 DEF FamilyInv, KeyInv, OneAt
    <3> QED
      BY <1>1, <1>3, <3>1, BusyMeansNext
  <2>2. l \notin mixed \union broken => ~Torn(f)
    <3> SUFFICES ASSUME l \notin mixed \union broken PROVE ~Torn(f)
      OBVIOUS
    <3>1. files[l].clip = classifier.job /\ ~Torn(files[l])
      BY <1>1, <1>3 DEF FamilyInv, KeyInv, DoneAt
    <3>2. /\ f.meta = files[l].meta /\ f.clip = files[l].clip /\ f.review = files[l].review
          /\ f.analysis = classifier.job
      BY <1>1, <1>f DEF Types, File
    <3> QED
      BY <3>1, <3>2 DEF Torn
  <2>3. Torn(files[l])' <=> Torn(f)
    BY <1>2 DEF Torn
  <2> QED
    BY <1>1, <1>4, <2>1, <2>2, <2>3, EndsKeeps
<1>5. CASE k # l
  <2>1. SameFiles(k) /\ SameWork(k)
    BY <1>1, <1>2, <1>3, <1>5 DEF SameFiles, SameWork
  <2>2. SameMarks(k)
    BY <1>1, <1>5, OthersMarked
  <2> QED
    BY <2>1, <2>2, SameKeeps DEF FamilyInv
<1> QED
  BY <1>4, <1>5

\* A crash ends all work but the classifier's, and what it leaves torn is known.
LEMMA CrashKeeps ==
  ASSUME Types, Types', FamilyInv, Crash, NEW k \in Keys
  PROVE  KeyInv(k)'
<1>1. /\ UNCHANGED <<files, classifier>>
      /\ assembler' = NoJob /\ request' = [r \in Requests |-> NoRequest]
      /\ broken' = broken \union {l \in Keys \cap Busy : Torn(files[l])}
      /\ mixed' = mixed \cap Busy'
  BY DEF Crash
<1>2. /\ ~Describing(k)' /\ \A r \in Requests : ~Requested(r, k)'
      /\ Classified(k)' <=> Classified(k)
  BY <1>1 DEF Describing, Requested, Classified, NoJob, NoRequest
<1>3. (k \in Busy' <=> Classified(k)) /\ (Classified(k) => k \in Busy)
  BY <1>2, BusyMeans, BusyMeansNext
<1>4. OneAt(k)'
  BY <1>2 DEF OneAt
<1>5. KeyInv(k)
  BY DEF FamilyInv
<1>6. k \notin mixed' \union broken' => DoneAt(k)'
  <2>1. k \notin mixed' \union broken' /\ Classified(k) => DoneAt(k)
    BY <1>1, <1>3, <1>5 DEF KeyInv
  <2>2. Torn(files[k])' <=> Torn(files[k])
    BY <1>1 DEF Torn
  <2>3. Classified(k) /\ DoneAt(k) => files[k].clip = classifier.job /\ ~Torn(files[k])
    BY DEF DoneAt
  <2> QED
    BY <1>1, <1>2, <2>1, <2>2, <2>3 DEF DoneAt
<1>7. Torn(files[k])' => k \in Busy' \union broken'
  <2>1. Torn(files[k])' <=> Torn(files[k])
    BY <1>1 DEF Torn
  <2> QED
    BY <1>1, <1>5, <2>1 DEF KeyInv
<1> QED
  BY <1>4, <1>6, <1>7 DEF KeyInv

LEMMA FamilyInit == Init => FamilyInv
<1> SUFFICES ASSUME Init, NEW k \in Keys PROVE KeyInv(k)
  BY DEF FamilyInv
<1>1. /\ files[k] = NoFiles /\ assembler = NoJob /\ classifier = NoClip
      /\ \A r \in Requests : request[r] = NoRequest
  BY DEF Init
<1>2. ~Torn(files[k])
  BY <1>1 DEF Torn, NoFiles
<1>3. ~Describing(k) /\ ~Classified(k) /\ \A r \in Requests : ~Requested(r, k)
  BY <1>1, NoneIsNoOther DEF Describing, Classified, Requested, NoJob, NoClip, NoRequest
<1> QED
  BY <1>2, <1>3 DEF KeyInv, OneAt, DoneAt

LEMMA FamilyInvKept == Types /\ FamilyInv /\ [Next]_vars => FamilyInv'
<1> SUFFICES ASSUME Types, FamilyInv, [Next]_vars, NEW k \in Keys PROVE KeyInv(k)'
  BY DEF FamilyInv
<1>1. Types'
  BY TypesKept
<1>2. CASE Rename \/ WriteMetadata
  BY <1>1, <1>2, RenameKeeps, WriteMetadataKeeps
<1>3. CASE \E r \in Requests : WebStep(r)
  BY <1>1, <1>3, ResolveKeeps, WriteReviewKeeps, UnlinkClipKeeps, UnlinkSidecarKeeps DEF WebStep
<1>4. CASE ReadClip \/ WriteVerdict \/ Crash
  BY <1>1, <1>4, ReadClipKeeps, WriteVerdictKeeps, CrashKeeps
<1>5. CASE \/ TakeJob \/ Assemble \/ Assembled \/ AssemblyFails \/ RenameFails \/ Swap \/ Start
           \/ Rebuilding \/ UNCHANGED vars
  BY <1>1, <1>5, IdleSteps, SameKeeps DEF FamilyInv
<1> QED
  BY <1>2, <1>3, <1>4, <1>5, Steps DEF ProcessJob

-----------------------------------------------------------------------------
(* The inductive invariant and what it gives                               *)

IInv == Types /\ TempInv /\ MetaInv /\ CollectInv /\ FamilyInv

\* The inductive invariant holds in every reachable state.
THEOREM FilesInvariant == Spec => []IInv
<1>1. Init => IInv
  BY TypesInit, TempInit, MetaInit, CollectInit, FamilyInit DEF IInv
<1>2. IInv /\ [Next]_vars => IInv'
  BY TypesKept, TempInvKept, MetaInvKept, CollectInvKept, FamilyInvKept DEF IInv
<1> QED
  BY <1>1, <1>2, PTL DEF Spec

\* A clip with a clip's name is one that ffmpeg finished: Rename takes the file
\* that the assembler owns (recorder.py:306), however often the directory changes
\* under the job and the process dies.
THEOREM ClipsWhole == Spec => []NoPartialClip
<1>1. IInv => NoPartialClip
  BY DEF IInv, TempInv
<1> QED
  BY <1>1, FilesInvariant, PTL

\* Unless the directory changed since the start, an unfinished file in it is the
\* assembler's: a start removes what a dead process left (pipeline.py:282).
THEOREM TempsAlwaysOwned == Spec => []TempsOwned
<1>1. IInv => TempsOwned
  BY DEF IInv, TempInv
<1> QED
  BY <1>1, FilesInvariant, PTL

\* The index that rebuild_index is about to write lists the clips that have
\* metadata, and only these, among the names nobody changed while it collected
\* (rebuild_index.py:25), with everyone else at work meanwhile.
THEOREM IndexAlwaysExact == Spec => []IndexExact
<1>1. IInv => IndexExact
  BY DEF IInv, Types, RebuildTypes, CollectInv, IndexExact, NoRebuild, Entered, Current
<1> QED
  BY <1>1, FilesInvariant, PTL

\* A clip is never seen with another's metadata, verdict or review, nor one of
\* these without it, unless someone works on it or an overlap, a failure or a
\* crash left it so: whatever the number of requests, clips and directories
\* (routes.py:106, recorder.py:316).
THEOREM FamilyAlwaysWhole == Spec => []FamilyWhole
<1>1. IInv => FamilyWhole
  BY DEF IInv, FamilyInv, KeyInv, FamilyWhole
<1> QED
  BY <1>1, FilesInvariant, PTL
====
