---------------------------- MODULE SettingsProofs ----------------------------
(***************************************************************************)
(* Proofs about Settings, for any number of requests, of them at the same  *)
(* time, of failed saves and of deaths.                                    *)
(*                                                                         *)
(* PatchKept is inductive given the types.  AppliedInv adds to             *)
(* SettingsApplied what the last request has done so far if it has had the *)
(* server to itself.                                                       *)
(***************************************************************************)
EXTENDS Settings, TLAPS

LEMMA PartsAre ==
  /\ Len(Parts) = 4 /\ DOMAIN Parts = 1..4
  /\ AnyRequest = [at: States, field: Fields \union {None}, credentials: BOOLEAN,
                   settings: AnySettings, part: 1..5]
<1>1. Len(Parts) = 4 /\ DOMAIN Parts = 1..4
  BY DEF Parts
<1>2. Len(Parts) + 1 = 5
  BY <1>1
<1> QED
  BY <1>1, <1>2 DEF AnyRequest

Busy == {"settings", "secrets", "resolve", "apply"}

\* What is left of TypeOK when the requests are taken out.
ConfigTypes ==
  /\ up \in BOOLEAN /\ alone \in BOOLEAN
  /\ memory \in AnySettings /\ saved \in AnySettings
  /\ secrets \in 0..MaxRequests /\ secretsFile \in Names
  /\ savedSecrets = [n \in Names |-> savedSecrets[n]]
  /\ \A n \in Names : savedSecrets[n] # None => savedSecrets[n] \in 0..MaxRequests
  /\ running \in [DOMAIN Parts -> AnySettings]
  /\ failures \in 0..MaxFailures /\ deaths \in 0..MaxDeaths

RequestTypes ==
  /\ request \in [Requests -> AnyRequest]
  /\ \A r \in Requests : request[r].at = "apply" => request[r].part \in DOMAIN Parts
  /\ ~up => InFlight = {}
  /\ \E n \in 0..MaxRequests : \A r \in Requests : request[r].at # "new" <=> r <= n

-----------------------------------------------------------------------------
(* One request moves at a time, and the others stay as they are.            *)

Others(r) == \A q \in Requests : q # r => request'[q] = request[q]

Answers(r) == UpdateSettings(r) \/ UpdateSecrets(r) \/ NoSettings(r) \/ NoSecrets(r)

LEMMA GotoMoves ==
  ASSUME RequestTypes, NEW r \in Requests, NEW at \in States, Goto(r, at)
  PROVE  /\ request' \in [Requests -> AnyRequest] /\ Others(r)
         /\ request'[r].at = at /\ request'[r].field = request[r].field
         /\ request'[r].part = request[r].part
         /\ request'[r].settings = request[r].settings
BY DEF RequestTypes, Goto, AnyRequest, Others

LEMMA ArriveMoves ==
  ASSUME RequestTypes, NEW r \in Requests, Arrive(r)
  PROVE  /\ request' \in [Requests -> AnyRequest] /\ Others(r)
         /\ request[r].at = "new" /\ request'[r].at = "settings"
<1>1. PICK field \in Fields \union {None}, credentials \in BOOLEAN :
        request' = [request EXCEPT ![r].at = "settings", ![r].field = field,
                                   ![r].credentials = credentials]
  BY DEF Arrive
<1> DEFINE new == [request[r] EXCEPT !.at = "settings", !.field = field,
                                    !.credentials = credentials]
<1>2. request \in [Requests -> AnyRequest]
  BY DEF RequestTypes
<1>3. new \in AnyRequest /\ new.at = "settings"
  BY <1>2 DEF AnyRequest, States
<1>4. request' = [request EXCEPT ![r] = new]
  BY <1>1, <1>2 DEF AnyRequest
<1> HIDE DEF new
<1> QED
  BY <1>2, <1>3, <1>4 DEF Arrive, Others

LEMMA AnswersMoves ==
  ASSUME RequestTypes, NEW r \in Requests, Answers(r)
  PROVE  /\ request' \in [Requests -> AnyRequest] /\ Others(r)
         /\ request[r].at \in {"settings", "secrets"}
         /\ request'[r].at \in {"secrets", "resolve", "failed"}
         /\ request'[r].field = request[r].field
<1>1. \E at \in {"secrets", "resolve", "failed"} : Goto(r, at)
  BY DEF Answers, UpdateSettings, UpdateSecrets, NoSettings, NoSecrets
<1>2. request[r].at \in {"settings", "secrets"}
  BY DEF Answers, UpdateSettings, UpdateSecrets, NoSettings, NoSecrets
<1> QED
  BY <1>1, <1>2, GotoMoves DEF States

LEMMA ResolveMoves ==
  ASSUME RequestTypes, ConfigTypes, NEW r \in Requests, Resolve(r)
  PROVE  /\ request' \in [Requests -> AnyRequest] /\ Others(r)
         /\ request[r].at = "resolve" /\ request'[r].at = "apply"
         /\ request'[r].field = request[r].field /\ request'[r].part = 1
         /\ request'[r].settings = memory
<1> DEFINE new == [request[r] EXCEPT !.at = "apply", !.settings = memory, !.part = 1]
<1>1. request \in [Requests -> AnyRequest] /\ memory \in AnySettings
  BY DEF RequestTypes, ConfigTypes
<1>2. /\ new \in AnyRequest /\ new.at = "apply" /\ new.field = request[r].field
      /\ new.part = 1 /\ new.settings = memory
  <2>1. request[r] \in [at: States, field: Fields \union {None}, credentials: BOOLEAN,
                        settings: AnySettings, part: 1..5]
    BY <1>1, PartsAre
  <2>2. 1 \in 1..5 /\ "apply" \in States
    BY DEF States
  <2>3. new \in [at: States, field: Fields \union {None}, credentials: BOOLEAN,
                 settings: AnySettings, part: 1..5]
    BY <1>1, <2>1, <2>2
  <2> QED
    BY <2>1, <2>3, PartsAre
<1>3. request' = [request EXCEPT ![r] = new]
  <2>1. request' = [request EXCEPT ![r].at = "apply", ![r].settings = memory, ![r].part = 1]
    BY DEF Resolve
  <2> DEFINE moved  == [request[r] EXCEPT !.at = "apply"]
             copied == [moved EXCEPT !.settings = memory]
  <2>2. [request EXCEPT ![r].at = "apply"] = [request EXCEPT ![r] = moved]
    BY <1>1
  <2>3. [request EXCEPT ![r].at = "apply", ![r].settings = memory]
          = [request EXCEPT ![r] = copied]
    <3> HIDE DEF moved
    <3> QED
      BY <1>1, <2>2
  <2>4. [request EXCEPT ![r].at = "apply", ![r].settings = memory, ![r].part = 1]
          = [request EXCEPT ![r] = [copied EXCEPT !.part = 1]]
    <3> HIDE DEF copied
    <3> QED
      BY <1>1, <2>3
  <2> QED
    BY <2>1, <2>4
<1>4. request[r].at = "resolve"
  BY DEF Resolve
<1> HIDE DEF new
<1>5. request' \in [Requests -> AnyRequest] /\ request'[r] = new /\ Others(r)
  BY <1>1, <1>2, <1>3 DEF Others
<1> QED
  BY <1>2, <1>4, <1>5

LEMMA ApplyMoves ==
  ASSUME RequestTypes, NEW r \in Requests, Apply(r)
  PROVE  /\ request' \in [Requests -> AnyRequest] /\ Others(r)
         /\ request[r].at = "apply" /\ request[r].part \in 1..4
         /\ request'[r].part = request[r].part + 1
         /\ request'[r].at = IF request[r].part = 4 THEN "done" ELSE "apply"
         /\ request'[r].field = request[r].field
         /\ request'[r].settings = request[r].settings
<1> DEFINE at  == IF request[r].part = 4 THEN "done" ELSE "apply"
           new == [request[r] EXCEPT !.part = request[r].part + 1, !.at = at]
<1>1. request \in [Requests -> AnyRequest] /\ request[r].part \in 1..4 /\ request[r].at = "apply"
  BY PartsAre DEF RequestTypes, Apply
<1>2. /\ new \in AnyRequest /\ new.at = at /\ new.field = request[r].field
      /\ new.part = request[r].part + 1 /\ new.settings = request[r].settings
  <2>1. request[r] \in [at: States, field: Fields \union {None}, credentials: BOOLEAN,
                        settings: AnySettings, part: 1..5]
    BY <1>1, PartsAre
  <2>2. request[r].part + 1 \in 1..5 /\ at \in States
    BY <1>1 DEF States
  <2> HIDE DEF at
  <2>3. new \in [at: States, field: Fields \union {None}, credentials: BOOLEAN,
                 settings: AnySettings, part: 1..5]
    BY <2>1, <2>2
  <2> QED
    BY <2>1, <2>3, PartsAre
<1>3. request' = [request EXCEPT ![r] = new]
  <2>1. request' = [request EXCEPT ![r].part = @ + 1, ![r].at = at]
    BY PartsAre DEF Apply
  <2> QED
    BY <1>1, <2>1 DEF AnyRequest
<1> HIDE DEF new
<1> QED
  BY <1>1, <1>2, <1>3 DEF Others

LEMMA DieMoves ==
  ASSUME RequestTypes, Die
  PROVE  /\ request' \in [Requests -> AnyRequest]
         /\ \A q \in Requests :
              /\ request'[q].field = request[q].field /\ request'[q].part = request[q].part
              /\ IF request[q].at \in Busy THEN request'[q].at = "lost"
                                           ELSE request'[q] = request[q]
<1>1. \A x \in AnyRequest :
        LET y == [x EXCEPT !.at = "lost"]
        IN  y \in AnyRequest /\ y.at = "lost" /\ y.field = x.field /\ y.part = x.part
  BY DEF AnyRequest, States
<1>2. \A q \in Requests :
        /\ request[q] \in AnyRequest
        /\ request'[q] = IF request[q].at \in Busy THEN [request[q] EXCEPT !.at = "lost"]
                                                  ELSE request[q]
  BY DEF RequestTypes, Die, InFlight, Busy
<1>3. request' = [q \in Requests |-> request'[q]]
  BY DEF Die
<1> QED
  BY <1>1, <1>2, <1>3

LEMMA BusyIsUp ==
  ASSUME RequestTypes, NEW r \in Requests, request[r].at \in Busy PROVE up
BY DEF RequestTypes, InFlight, Busy

-----------------------------------------------------------------------------
(* Types *)

LEMMA TypesSuffice == ConfigTypes /\ RequestTypes => TypeOK
BY DEF ConfigTypes, RequestTypes, TypeOK

LEMMA TypeInit == Init => ConfigTypes /\ RequestTypes
<1> SUFFICES ASSUME Init PROVE ConfigTypes /\ RequestTypes
  OBVIOUS
<1>1. 0 \in Names /\ Defaults \in AnySettings
  BY SettingsAssumption DEF Names, Defaults, AnySettings
<1>2. ConfigTypes
  <2>1. /\ savedSecrets = [n \in Names |-> savedSecrets[n]]
        /\ \A n \in Names : savedSecrets[n] # None => savedSecrets[n] \in 0..MaxRequests
    BY SettingsAssumption DEF Init
  <2>2. running \in [DOMAIN Parts -> AnySettings]
    BY <1>1 DEF Init
  <2>3. up \in BOOLEAN /\ alone \in BOOLEAN
    BY DEF Init
  <2>4. memory = Defaults /\ saved = Defaults /\ secrets = 0 /\ secretsFile = 0
        /\ failures = 0 /\ deaths = 0
    BY DEF Init
  <2> QED
    BY <1>1, <2>1, <2>2, <2>3, <2>4, SettingsAssumption DEF ConfigTypes
<1>3. RequestTypes
  <2> DEFINE first == [at |-> "new", field |-> None, credentials |-> FALSE,
                       settings |-> Defaults, part |-> 1]
  <2>1. 1 \in 1..5 /\ "new" \in States
    BY DEF States
  <2>2. first \in [at: States, field: Fields \union {None}, credentials: BOOLEAN,
                   settings: AnySettings, part: 1..5]
    BY <1>1, <2>1
  <2>3. request = [r \in Requests |-> first]
    BY DEF Init
  <2>4. request \in [Requests -> AnyRequest]
    BY <2>2, <2>3, PartsAre
  <2>5. \A r \in Requests : request[r].at = "new" /\ ~(r <= 0)
    BY <2>3 DEF Requests
  <2>6. InFlight = {}
    BY <2>5 DEF InFlight
  <2>7. 0 \in 0..MaxRequests
    BY SettingsAssumption
  <2> QED
    BY <2>4, <2>5, <2>6, <2>7 DEF RequestTypes
<1> QED
  BY <1>2, <1>3

LEMMA ConfigTypesKept ==
  ConfigTypes /\ RequestTypes /\ [Next]_vars => ConfigTypes'
<1> SUFFICES ASSUME ConfigTypes, RequestTypes, [Next]_vars PROVE ConfigTypes'
  OBVIOUS
<1>1. ASSUME NEW r \in Requests, Arrive(r) PROVE ConfigTypes'
  <2>1. UNCHANGED <<up, config, running, failures, deaths>> /\ alone' \in BOOLEAN
    BY <1>1 DEF Arrive
  <2> QED
    BY <2>1 DEF ConfigTypes, config
<1>2. ASSUME NEW r \in Requests, UpdateSettings(r) PROVE ConfigTypes'
  <2>1. PICK failing \in BOOLEAN, value \in ValuesOf(r) :
          /\ memory' = Merged(request[r].field, value)
          /\ saved' = IF failing THEN saved ELSE memory'
          /\ Save(failing)
    BY <1>2 DEF UpdateSettings
  <2>2. r \in Names /\ -r \in Names
    BY SettingsAssumption DEF Requests, Names
  <2>3. memory' \in AnySettings
    BY <2>1, <2>2 DEF Merged, ValuesOf, ConfigTypes, AnySettings
  <2>4. saved' \in AnySettings
    BY <2>1, <2>3 DEF ConfigTypes
  <2>5. failures' \in 0..MaxFailures
    BY <2>1, SettingsAssumption DEF Save, ConfigTypes
  <2>6. UNCHANGED <<up, secrets, secretsFile, savedSecrets, running, alone, deaths>>
    BY <1>2 DEF UpdateSettings
  <2> QED
    BY <2>3, <2>4, <2>5, <2>6 DEF ConfigTypes
<1>3. ASSUME NEW r \in Requests, UpdateSecrets(r) PROVE ConfigTypes'
  <2>1. PICK failing \in BOOLEAN : SaveSecrets(r, failing) /\ Save(failing)
    BY <1>3 DEF UpdateSecrets
  <2>2. secrets' = r /\ r \in 0..MaxRequests
    BY <1>3, SettingsAssumption DEF UpdateSecrets, Requests
  <2>3. /\ savedSecrets' = [n \in Names |-> savedSecrets'[n]]
        /\ \A n \in Names : savedSecrets'[n] # None => savedSecrets'[n] \in 0..MaxRequests
    BY <2>1, <2>2 DEF SaveSecrets, ConfigTypes
  <2>4. failures' \in 0..MaxFailures
    BY <2>1, SettingsAssumption DEF Save, ConfigTypes
  <2>5. UNCHANGED <<up, memory, saved, secretsFile, running, alone, deaths>>
    BY <1>3 DEF UpdateSecrets
  <2> QED
    BY <2>2, <2>3, <2>4, <2>5 DEF ConfigTypes
<1>4. ASSUME NEW r \in Requests, NoSettings(r) \/ NoSecrets(r) \/ Resolve(r) PROVE ConfigTypes'
  BY <1>4 DEF NoSettings, NoSecrets, Resolve, ConfigTypes, config
<1>5. ASSUME NEW r \in Requests, Apply(r) PROVE ConfigTypes'
  <2>1. UNCHANGED <<up, config, alone, failures, deaths>>
    BY <1>5 DEF Apply
  <2>2. request[r].settings \in AnySettings
    BY DEF RequestTypes, AnyRequest
  <2>3. running' \in [DOMAIN Parts -> AnySettings]
    BY <1>5, <2>2 DEF Apply, ConfigTypes
  <2> QED
    BY <2>1, <2>3 DEF ConfigTypes, config
<1>6. CASE Die
  <2>1. up' = FALSE /\ UNCHANGED <<config, running, alone, failures>>
    BY <1>6 DEF Die
  <2>2. deaths' \in 0..MaxDeaths
    BY <1>6, SettingsAssumption DEF Die, ConfigTypes
  <2> QED
    BY <2>1, <2>2 DEF ConfigTypes, config
<1>7. CASE Start
  <2>1. /\ up' = TRUE /\ memory' = saved /\ secretsFile' = saved["name"]
        /\ secrets' = savedSecrets[saved["name"]] /\ savedSecrets[saved["name"]] # None
        /\ running' = [i \in DOMAIN Parts |-> saved]
        /\ UNCHANGED <<saved, savedSecrets, alone, failures, deaths>>
    BY <1>7 DEF Start
  <2>2. saved \in AnySettings /\ saved["name"] \in Names
    BY DEF ConfigTypes, AnySettings, Fields
  <2>3. secrets' \in 0..MaxRequests
    BY <2>1, <2>2 DEF ConfigTypes
  <2>4. running' \in [DOMAIN Parts -> AnySettings]
    BY <2>1, <2>2
  <2> QED
    BY <2>1, <2>2, <2>3, <2>4 DEF ConfigTypes
<1>8. CASE UNCHANGED vars
  BY <1>8 DEF vars, config, ConfigTypes
<1> QED
  BY <1>1, <1>2, <1>3, <1>4, <1>5, <1>6, <1>7, <1>8 DEF Next

LEMMA RequestTypesKept ==
  ConfigTypes /\ RequestTypes /\ [Next]_vars => RequestTypes'
<1> SUFFICES ASSUME ConfigTypes, RequestTypes, [Next]_vars PROVE RequestTypes'
  OBVIOUS
<1>0. PICK n \in 0..MaxRequests : \A r \in Requests : request[r].at # "new" <=> r <= n
  BY DEF RequestTypes
<1>1. ASSUME NEW r \in Requests, Arrive(r) PROVE RequestTypes'
  <2>1. /\ request' \in [Requests -> AnyRequest] /\ Others(r)
        /\ request[r].at = "new" /\ request'[r].at = "settings"
    BY <1>1, ArriveMoves
  <2>2. up' = up /\ up /\ \A q \in Requests : q < r => request[q].at # "new"
    BY <1>1 DEF Arrive
  <2>3. \A q \in Requests : request'[q].at = "apply" => request'[q].part \in DOMAIN Parts
    BY <2>1 DEF Others, RequestTypes
  <2>4. r = n + 1
    <3>1. r \in Nat /\ n \in Nat /\ r > n /\ r <= MaxRequests
      BY <1>0, <2>1, SettingsAssumption DEF Requests
    <3>2. ASSUME r > n + 1 PROVE FALSE
      <4>1. n + 1 \in Requests /\ n + 1 < r
        BY <3>1, <3>2, SettingsAssumption DEF Requests
      <4>2. n + 1 <= n
        BY <1>0, <2>2, <4>1
      <4> QED
        BY <3>1, <4>2
    <3> QED
      BY <3>1, <3>2
  <2>5. \A q \in Requests : request'[q].at # "new" <=> q <= r
    <3> TAKE q \in Requests
    <3>1. q \in Int /\ n \in Int
      BY SettingsAssumption DEF Requests
    <3>2. CASE q = r
      BY <2>1, <3>1, <3>2
    <3>3. CASE q # r
      <4>1. request'[q] = request[q] /\ (q <= r <=> q <= n)
        BY <2>1, <2>4, <3>1, <3>3 DEF Others
      <4> QED
        BY <1>0, <4>1
    <3> QED
      BY <3>2, <3>3
  <2>6. r \in 0..MaxRequests
    BY SettingsAssumption DEF Requests
  <2> QED
    BY <2>1, <2>2, <2>3, <2>5, <2>6 DEF RequestTypes
<1>2. ASSUME NEW r \in Requests, up' = up, request[r].at \in Busy, request'[r].at # "new",
             request' \in [Requests -> AnyRequest], Others(r),
             request'[r].at = "apply" => request'[r].part \in DOMAIN Parts
      PROVE  RequestTypes'
  <2>1. up
    BY <1>2, BusyIsUp
  <2>2. \A q \in Requests : request'[q].at = "apply" => request'[q].part \in DOMAIN Parts
    BY <1>2 DEF Others, RequestTypes
  <2>3. \A q \in Requests : request'[q].at # "new" <=> q <= n
    BY <1>0, <1>2 DEF Others, Busy
  <2> QED
    BY <1>2, <2>1, <2>2, <2>3 DEF RequestTypes
<1>3. ASSUME NEW r \in Requests, Answers(r) PROVE RequestTypes'
  <2>1. up' = up
    BY <1>3 DEF Answers, UpdateSettings, UpdateSecrets, NoSettings, NoSecrets
  <2> QED
    BY <1>2, <1>3, <2>1, AnswersMoves DEF Busy
<1>4. ASSUME NEW r \in Requests, Resolve(r) PROVE RequestTypes'
  <2>1. up' = up
    BY <1>4 DEF Resolve
  <2> QED
    BY <1>2, <1>4, <2>1, ResolveMoves, PartsAre DEF Busy
<1>5. ASSUME NEW r \in Requests, Apply(r) PROVE RequestTypes'
  <2>1. up' = up
    BY <1>5 DEF Apply
  <2>2. /\ request' \in [Requests -> AnyRequest] /\ Others(r)
        /\ request[r].at \in Busy /\ request'[r].at # "new"
    BY <1>5, ApplyMoves DEF Busy
  <2>3. request'[r].at = "apply" => request'[r].part \in DOMAIN Parts
    BY <1>5, ApplyMoves, PartsAre
  <2> QED
    BY <1>2, <2>1, <2>2, <2>3
<1>6. CASE Die
  <2>1. request' \in [Requests -> AnyRequest]
    BY <1>6, DieMoves
  <2>2. \A q \in Requests : request'[q].at \notin Busy
    BY <1>6, DieMoves DEF Busy
  <2>3. \A q \in Requests : request'[q].at = "new" <=> request[q].at = "new"
    BY <1>6, DieMoves DEF Busy
  <2>4. InFlight' = {}
    BY <2>2 DEF InFlight, Busy
  <2>5. \A q \in Requests : request'[q].at # "new" <=> q <= n
    BY <1>0, <2>3
  <2>6. \A q \in Requests : request'[q].at # "apply"
    BY <2>2 DEF Busy
  <2> QED
    BY <2>1, <2>4, <2>5, <2>6 DEF RequestTypes
<1>7. CASE Start
  <2>1. up' /\ request' = request
    BY <1>7 DEF Start
  <2> QED
    BY <1>0, <2>1 DEF RequestTypes
<1>8. CASE UNCHANGED vars
  BY <1>8 DEF vars, RequestTypes, InFlight
<1> QED
  BY <1>1, <1>3, <1>4, <1>5, <1>6, <1>7, <1>8 DEF Next, Answers

-----------------------------------------------------------------------------
(* PatchKept, in three parts.                                               *)

FieldsKept ==
  \A r \in Requests :
    LET f == request[r].field
    IN  Stored(r) /\ (\A q \in Requests \ {r} : ~Patches(q, f)) =>
          saved[f] \in {r, -r} /\ (up => memory[f] = saved[f])

Explained ==
  up => \A f \in Fields : memory[f] # saved[f] =>
    \E r \in Requests : memory[f] \in {r, -r} /\ request[r].at = "failed"

SecretsExplained ==
  up /\ secrets # savedSecrets[secretsFile] =>
    secrets \in Requests /\ request[secrets].at = "failed"

PatchInv == FieldsKept /\ Explained /\ SecretsExplained

\* No request patches less than before, is newly stored, or gets over a failure.
Progress ==
  \A q \in Requests :
    /\ request[q].at = "failed" => request'[q].at = "failed"
    /\ \A f \in Fields : Patches(q, f) => Patches(q, f)'
    /\ Stored(q)' => Stored(q) /\ request'[q].field = request[q].field

LEMMA PatchesStay ==
  ASSUME RequestTypes, Progress, up' => up, UNCHANGED <<memory, saved>>, FieldsKept, Explained
  PROVE  FieldsKept' /\ Explained'
<1>1. ASSUME NEW r \in Requests, Stored(r)',
             \A q \in Requests \ {r} : ~Patches(q, request[r].field)'
      PROVE  /\ saved[request[r].field] \in {r, -r}
             /\ up => memory[request[r].field] = saved[request[r].field]
  <2>1. Stored(r) /\ request[r].field \in Fields
    BY <1>1 DEF Progress, Stored, RequestTypes, AnyRequest
  <2>2. \A q \in Requests \ {r} : ~Patches(q, request[r].field)
    BY <1>1, <2>1 DEF Progress
  <2> QED
    BY <2>1, <2>2 DEF FieldsKept
<1>2. FieldsKept'
  BY <1>1 DEF FieldsKept, Progress
<1>3. Explained'
  BY DEF Explained, Progress
<1> QED
  BY <1>2, <1>3

LEMMA SecretsStay ==
  ASSUME Progress, up' => up, UNCHANGED <<secrets, secretsFile, savedSecrets>>, SecretsExplained
  PROVE  SecretsExplained'
BY DEF SecretsExplained, Progress

LEMMA PatchInit == Init => PatchInv
<1> SUFFICES ASSUME Init PROVE PatchInv
  OBVIOUS
<1>1. \A r \in Requests : request[r].at = "new"
  BY DEF Init
<1>2. FieldsKept
  BY <1>1 DEF FieldsKept, Stored
<1>3. memory = saved /\ secrets = 0 /\ secretsFile = 0 /\ savedSecrets[0] = 0
  BY SettingsAssumption DEF Init, Names
<1> QED
  BY <1>2, <1>3 DEF PatchInv, Explained, SecretsExplained

LEMMA OneMoves ==
  ASSUME RequestTypes, NEW r \in Requests, Others(r), request[r].at # "failed",
         \A f \in Fields : Patches(r, f) => Patches(r, f)',
         Stored(r)' => Stored(r) /\ request'[r].field = request[r].field
  PROVE  Progress
<1> SUFFICES ASSUME NEW q \in Requests
             PROVE  /\ request[q].at = "failed" => request'[q].at = "failed"
                    /\ \A f \in Fields : Patches(q, f) => Patches(q, f)'
                    /\ Stored(q)' => Stored(q) /\ request'[q].field = request[q].field
  BY DEF Progress
<1>1. CASE q = r
  BY <1>1
<1>2. CASE q # r
  BY <1>2 DEF Others, Patches, Stored
<1> QED
  BY <1>1, <1>2

\* A patch is merged and saved, or merged and not saved.
LEMMA UpdateSettingsKeeps ==
  ASSUME ConfigTypes, RequestTypes, PatchInv, NEW r \in Requests, UpdateSettings(r)
  PROVE  PatchInv'
<1> DEFINE f == request[r].field
<1>1. PICK failing \in BOOLEAN, value \in ValuesOf(r) :
        /\ memory' = Merged(f, value)
        /\ saved' = IF failing THEN saved ELSE memory'
        /\ Goto(r, IF failing THEN "failed" ELSE "secrets")
  BY DEF UpdateSettings
<1>2. /\ request[r].at = "settings" /\ f \in Fields
      /\ UNCHANGED <<up, secrets, secretsFile, savedSecrets>>
  BY DEF UpdateSettings, RequestTypes, AnyRequest
<1>3. up /\ up'
  BY <1>2, BusyIsUp DEF Busy
<1>4. /\ Others(r) /\ request'[r].field = f
      /\ request'[r].at = IF failing THEN "failed" ELSE "secrets"
  BY <1>1, GotoMoves DEF States
<1>5. /\ memory'[f] = value /\ value \in {r, -r}
      /\ \A g \in Fields : g # f => memory'[g] = memory[g]
  BY <1>1, <1>2 DEF Merged, ValuesOf, ConfigTypes, AnySettings
<1>6. Patches(r, f)'
  BY <1>4 DEF Patches
<1>7. ASSUME NEW q \in Requests, Stored(q)',
             \A p \in Requests \ {q} : ~Patches(p, request[q].field)'
      PROVE  /\ saved'[request'[q].field] \in {q, -q}
             /\ memory'[request'[q].field] = saved'[request'[q].field]
  <2>1. CASE q = r
    <3>1. ~failing
      BY <1>4, <1>7, <2>1 DEF Stored
    <3> QED
      BY <1>1, <1>4, <1>5, <2>1, <3>1
  <2>2. CASE q # r
    <3>1. request'[q] = request[q] /\ Stored(q)
      BY <1>4, <1>7, <2>2 DEF Others, Stored
    <3>2. request[q].field # f /\ request[q].field \in Fields
      <4>1. request[q].field \in Fields
        BY <3>1 DEF Stored, RequestTypes, AnyRequest
      <4>2. request'[r].field # request'[q].field
        BY <1>4, <1>7, <2>2 DEF Patches
      <4> QED
        BY <1>4, <3>1, <4>1, <4>2
    <3>3. \A p \in Requests \ {q} : ~Patches(p, request[q].field)
      <4> SUFFICES ASSUME NEW p \in Requests \ {q}, Patches(p, request[q].field) PROVE FALSE
        OBVIOUS
      <4>1. p # r
        BY <1>2 DEF Patches
      <4> QED
        BY <1>4, <1>7, <3>1, <4>1 DEF Others, Patches
    <3>4. saved[request[q].field] \in {q, -q} /\ memory[request[q].field] = saved[request[q].field]
      BY <1>3, <3>1, <3>3 DEF PatchInv, FieldsKept
    <3> QED
      BY <1>1, <1>5, <3>1, <3>2, <3>4
  <2> QED
    BY <2>1, <2>2
<1>8. FieldsKept'
  BY <1>7 DEF FieldsKept
<1>9. Explained'
  <2> SUFFICES ASSUME NEW g \in Fields, memory'[g] # saved'[g]
               PROVE  \E q \in Requests : memory'[g] \in {q, -q} /\ request'[q].at = "failed"
    BY DEF Explained
  <2>1. failing
    BY <1>1
  <2>2. CASE g = f
    BY <1>4, <1>5, <2>1, <2>2
  <2>3. CASE g # f
    <3>1. memory'[g] = memory[g] /\ saved'[g] = saved[g]
      BY <1>1, <1>5, <2>1, <2>3
    <3>2. PICK q \in Requests : memory[g] \in {q, -q} /\ request[q].at = "failed"
      BY <1>3, <3>1 DEF PatchInv, Explained
    <3>3. request'[q] = request[q]
      BY <1>2, <1>4, <3>2 DEF Others
    <3> QED
      BY <3>1, <3>2, <3>3
  <2> QED
    BY <2>2, <2>3
<1>10. SecretsExplained'
  BY <1>2, <1>3, <1>4 DEF PatchInv, SecretsExplained, Others
<1> QED
  BY <1>8, <1>9, <1>10 DEF PatchInv

LEMMA UpdateSecretsKeeps ==
  ASSUME ConfigTypes, RequestTypes, PatchInv, NEW r \in Requests, UpdateSecrets(r)
  PROVE  PatchInv'
<1>1. PICK failing \in BOOLEAN :
        /\ secrets' = r /\ SaveSecrets(r, failing)
        /\ Goto(r, IF failing THEN "failed" ELSE "resolve")
  BY DEF UpdateSecrets
<1>2. request[r].at = "secrets" /\ UNCHANGED <<up, memory, saved, secretsFile>>
  BY DEF UpdateSecrets
<1>3. /\ Others(r) /\ request'[r].field = request[r].field
      /\ request'[r].at = IF failing THEN "failed" ELSE "resolve"
  BY <1>1, GotoMoves DEF States
<1>4. Progress
  <2>1. \A f \in Fields : Patches(r, f) => Patches(r, f)'
    BY <1>3 DEF Patches
  <2>2. Stored(r)' => Stored(r) /\ request'[r].field = request[r].field
    BY <1>2, <1>3 DEF Stored
  <2> QED
    BY <1>2, <1>3, <2>1, <2>2, OneMoves
<1>5. FieldsKept' /\ Explained'
  BY <1>2, <1>4, PatchesStay DEF PatchInv
<1>6. CASE failing
  BY <1>1, <1>3, <1>5, <1>6 DEF PatchInv, SecretsExplained
<1>7. CASE ~failing
  <2>1. savedSecrets'[secretsFile] = r
    BY <1>1, <1>7 DEF SaveSecrets, ConfigTypes
  <2> QED
    BY <1>1, <1>2, <1>5, <2>1 DEF PatchInv, SecretsExplained
<1> QED
  BY <1>6, <1>7

LEMMA PatchInvKept ==
  ConfigTypes /\ RequestTypes /\ PatchInv /\ [Next]_vars => PatchInv'
<1> SUFFICES ASSUME ConfigTypes, RequestTypes, PatchInv, [Next]_vars PROVE PatchInv'
  OBVIOUS
<1>1. ASSUME Progress, up' => up, UNCHANGED config PROVE PatchInv'
  BY <1>1, PatchesStay, SecretsStay DEF PatchInv, config
<1>2. ASSUME NEW r \in Requests, Arrive(r) PROVE PatchInv'
  <2>1. Others(r) /\ request[r].at = "new" /\ request'[r].at = "settings"
    BY <1>2, ArriveMoves
  <2>2. Progress
    BY <2>1, OneMoves DEF Patches, Stored
  <2> QED
    BY <1>1, <1>2, <2>2 DEF Arrive
<1>3. ASSUME NEW r \in Requests, NoSettings(r) PROVE PatchInv'
  <2>1. /\ Others(r) /\ request'[r].field = request[r].field /\ request'[r].at = "secrets"
    BY <1>3, GotoMoves DEF NoSettings, States
  <2>2. request[r].at = "settings" /\ request[r].field = None
    BY <1>3 DEF NoSettings
  <2>3. Progress
    BY <2>1, <2>2, OneMoves DEF Patches, Stored
  <2> QED
    BY <1>1, <1>3, <2>3 DEF NoSettings
<1>4. ASSUME NEW r \in Requests, NoSecrets(r) \/ Resolve(r) \/ Apply(r) PROVE PatchInv'
  <2>1. /\ Others(r) /\ request'[r].field = request[r].field
        /\ request[r].at \in {"secrets", "resolve", "apply"}
        /\ request'[r].at \in {"resolve", "apply", "done"}
    <3>1. CASE NoSecrets(r)
      BY <3>1, GotoMoves DEF NoSecrets, States
    <3>2. CASE Resolve(r)
      BY <3>2, ResolveMoves
    <3>3. CASE Apply(r)
      BY <3>3, ApplyMoves
    <3> QED
      BY <1>4, <3>1, <3>2, <3>3
  <2>2. Progress
    BY <2>1, OneMoves DEF Patches, Stored
  <2> QED
    BY <1>1, <1>4, <2>2 DEF NoSecrets, Resolve, Apply
<1>5. CASE Die
  <2>1. Progress
    BY <1>5, DieMoves DEF Progress, Patches, Stored, Busy
  <2> QED
    BY <1>1, <1>5, <2>1 DEF Die
<1>6. CASE Start
  <2>1. /\ memory' = saved /\ saved' = saved /\ request' = request
        /\ secrets' = savedSecrets'[secretsFile']
    BY <1>6 DEF Start
  <2>2. FieldsKept'
    BY <2>1 DEF PatchInv, FieldsKept, Stored, Patches
  <2> QED
    BY <2>1, <2>2 DEF PatchInv, Explained, SecretsExplained
<1>7. CASE UNCHANGED vars
  <2>1. Progress
    BY <1>7 DEF vars, Progress, Patches, Stored
  <2> QED
    BY <1>1, <1>7, <2>1 DEF vars
<1> QED
  BY <1>2, <1>3, <1>4, <1>5, <1>6, <1>7, UpdateSettingsKeeps, UpdateSecretsKeeps DEF Next

-----------------------------------------------------------------------------
(* SettingsApplied: what the last request has done, if it was alone.        *)

Newest(r) == request[r].at # "new" /\ \A q \in Requests : q > r => request[q].at = "new"

AppliedInv ==
  alone => \A r \in Requests : Newest(r) =>
    /\ \A q \in Requests : request[q].at \in Busy => q = r
    /\ request[r].at = "apply" =>
         /\ request[r].settings = memory
         /\ \A i \in 1..4 : i < request[r].part => running[i] = memory
    /\ request[r].at = "done" /\ up => \A i \in 1..4 : running[i] = memory

LEMMA AppliedInit == Init => AppliedInv
BY DEF Init, AppliedInv, Newest

LEMMA NewestStays ==
  ASSUME NEW r \in Requests, Others(r), request[r].at # "new", request'[r].at # "new",
         NEW q \in Requests, Newest(q)'
  PROVE  Newest(q)
BY DEF Others, Newest

\* The one that moves is the newest, if that one is alone.
LEMMA OnlyNewestMoves ==
  ASSUME AppliedInv, alone, alone' = alone, NEW r \in Requests, Others(r),
         request[r].at \in Busy, request'[r].at # "new", NEW q \in Requests, Newest(q)'
  PROVE  Newest(q) /\ q = r /\ \A p \in Requests : request'[p].at \in Busy => p = q
<1>1. Newest(q)
  BY NewestStays DEF Busy
<1>2. \A p \in Requests : request[p].at \in Busy => p = q
  BY <1>1 DEF AppliedInv
<1> QED
  BY <1>1, <1>2 DEF Others

LEMMA AppliedInvKept ==
  ConfigTypes /\ RequestTypes /\ AppliedInv /\ [Next]_vars => AppliedInv'
<1> SUFFICES ASSUME ConfigTypes, RequestTypes, AppliedInv, [Next]_vars, alone',
                    NEW q \in Requests, Newest(q)'
             PROVE  /\ \A p \in Requests : request'[p].at \in Busy => p = q
                    /\ request'[q].at = "apply" =>
                         /\ request'[q].settings = memory'
                         /\ \A i \in 1..4 : i < request'[q].part => running'[i] = memory'
                    /\ request'[q].at = "done" /\ up' => \A i \in 1..4 : running'[i] = memory'
  BY DEF AppliedInv
<1>1. ASSUME NEW r \in Requests, Arrive(r)
      PROVE  /\ \A p \in Requests : request'[p].at \in Busy => p = q
             /\ request'[q].at \notin {"apply", "done"}
  <2>1. Others(r) /\ request[r].at = "new" /\ request'[r].at = "settings"
    BY <1>1, ArriveMoves
  <2>2. InFlight = {} /\ \A p \in Requests : p < r => request[p].at # "new"
    BY <1>1 DEF Arrive
  <2>3. \A p \in Requests : request[p].at \notin Busy
    BY <2>2 DEF InFlight, Busy
  <2>4. PICK n \in 0..MaxRequests : \A p \in Requests : request[p].at # "new" <=> p <= n
    BY DEF RequestTypes
  <2>5. r \in Int /\ q \in Int /\ n \in Int
    BY SettingsAssumption DEF Requests
  <2>6. r > n
    BY <2>1, <2>4, <2>5
  <2>7. q = r
    <3>1. ~(r > q)
      BY <2>1 DEF Newest
    <3>2. ~(q > r)
      <4> SUFFICES ASSUME q > r PROVE FALSE
        OBVIOUS
      <4>1. request'[q] = request[q]
        BY <2>1, <2>5 DEF Others
      <4>2. request[q].at # "new"
        BY <4>1 DEF Newest
      <4> QED
        BY <2>4, <2>5, <2>6, <4>2
    <3> QED
      BY <2>5, <3>1, <3>2
  <2> QED
    BY <2>1, <2>3, <2>7 DEF Others
<1>2. ASSUME NEW r \in Requests, Answers(r)
      PROVE  /\ \A p \in Requests : request'[p].at \in Busy => p = q
             /\ request'[q].at \notin {"apply", "done"}
  <2>1. alone' = alone
    BY <1>2 DEF Answers, UpdateSettings, UpdateSecrets, NoSettings, NoSecrets
  <2>2. /\ Others(r) /\ request[r].at \in Busy
        /\ request'[r].at \in {"secrets", "resolve", "failed"}
    BY <1>2, AnswersMoves DEF Busy
  <2>3. q = r /\ \A p \in Requests : request'[p].at \in Busy => p = q
    BY <2>1, <2>2, OnlyNewestMoves
  <2> QED
    BY <2>2, <2>3
<1>3. ASSUME NEW r \in Requests, Resolve(r)
      PROVE  /\ \A p \in Requests : request'[p].at \in Busy => p = q
             /\ request'[q].at = "apply" /\ request'[q].settings = memory'
             /\ request'[q].part = 1
  <2>1. alone' = alone /\ memory' = memory
    BY <1>3 DEF Resolve, config
  <2>2. /\ Others(r) /\ request[r].at \in Busy /\ request'[r].at = "apply"
        /\ request'[r].settings = memory /\ request'[r].part = 1
    BY <1>3, ResolveMoves DEF Busy
  <2>3. q = r /\ \A p \in Requests : request'[p].at \in Busy => p = q
    BY <2>1, <2>2, OnlyNewestMoves
  <2> QED
    BY <2>1, <2>2, <2>3
<1>4. ASSUME NEW r \in Requests, Apply(r)
      PROVE  /\ \A p \in Requests : request'[p].at \in Busy => p = q
             /\ request'[q].settings = memory'
             /\ \A i \in 1..4 : i < request'[q].part => running'[i] = memory'
             /\ request'[q].at = "done" => request'[q].part = 5
  <2>1. alone' = alone /\ memory' = memory
    BY <1>4 DEF Apply, config
  <2>2. /\ Others(r) /\ request[r].at = "apply" /\ request[r].part \in 1..4
        /\ request'[r].at \in {"apply", "done"}
        /\ request'[r].settings = request[r].settings
        /\ request'[r].part = request[r].part + 1
        /\ request'[r].at = "done" => request[r].part = 4
    BY <1>4, ApplyMoves
  <2>3. Newest(q) /\ q = r /\ \A p \in Requests : request'[p].at \in Busy => p = q
    BY <2>1, <2>2, OnlyNewestMoves DEF Busy
  <2>4. /\ request[r].settings = memory
        /\ \A i \in 1..4 : i < request[r].part => running[i] = memory
    BY <2>1, <2>2, <2>3 DEF AppliedInv
  <2>5. running' = [running EXCEPT ![request[r].part] = request[r].settings]
    BY <1>4, <2>2, PartsAre DEF Apply, Replaced
  <2>6. \A i \in 1..4 : i < request[r].part + 1 => running'[i] = memory
    <3> TAKE i \in 1..4
    <3>1. DOMAIN running = 1..4
      BY PartsAre DEF ConfigTypes
    <3>2. CASE i = request[r].part
      BY <2>2, <2>4, <2>5, <3>1, <3>2
    <3>3. CASE i # request[r].part
      BY <2>2, <2>4, <2>5, <3>1, <3>3
    <3> QED
      BY <3>2, <3>3
  <2> QED
    BY <2>1, <2>2, <2>3, <2>4, <2>6
<1>5. CASE Die
  <2>1. \A p \in Requests : request'[p].at \notin Busy
    BY <1>5, DieMoves DEF Busy
  <2> QED
    BY <1>5, <2>1 DEF Die, Busy
<1>6. CASE Start
  <2>1. ~up /\ request' = request /\ alone' = alone /\ memory' = saved
        /\ running' = [i \in DOMAIN Parts |-> saved]
    BY <1>6 DEF Start
  <2>2. \A p \in Requests : request[p].at \notin Busy
    BY <2>1, BusyIsUp
  <2>3. \A i \in 1..4 : running'[i] = memory'
    BY <2>1, PartsAre
  <2> QED
    BY <2>1, <2>2, <2>3 DEF Busy
<1>7. CASE UNCHANGED vars
  <2>1. Newest(q)
    BY <1>7 DEF vars, Newest
  <2> QED
    BY <1>7, <2>1 DEF vars, config, AppliedInv
<1> QED
  <2>1. ASSUME NEW r \in Requests, Apply(r)
        PROVE  request'[q].at = "done" => \A i \in 1..4 : running'[i] = memory'
    BY <1>4, <2>1
  <2> QED
    BY <1>1, <1>2, <1>3, <1>4, <1>5, <1>6, <1>7, <2>1 DEF Next, Answers

LEMMA AppliedSuffices == RequestTypes /\ AppliedInv => SettingsApplied
<1> SUFFICES ASSUME RequestTypes, AppliedInv, up, InFlight = {}, Arrived # {} PROVE
      LET last == CHOOSE r \in Arrived : \A q \in Arrived : q <= r
      IN  request[last].at = "done" /\ alone => \A i \in DOMAIN Parts : running[i] = memory
  BY DEF SettingsApplied
<1> DEFINE last == CHOOSE r \in Arrived : \A q \in Arrived : q <= r
<1>1. PICK n \in 0..MaxRequests : \A r \in Requests : request[r].at # "new" <=> r <= n
  BY DEF RequestTypes
<1>2. n \in Arrived /\ \A q \in Arrived : q <= n
  BY <1>1, SettingsAssumption DEF Arrived, Requests
<1>3. last \in Arrived /\ \A q \in Arrived : q <= last
  BY <1>2
<1> HIDE DEF last
<1>4. last \in Requests /\ Newest(last)
  BY <1>3, SettingsAssumption DEF Newest, Arrived, Requests
<1>5. request[last].at = "done" /\ alone => \A i \in DOMAIN Parts : running[i] = memory
  BY <1>4, PartsAre DEF AppliedInv
<1> QED
  BY <1>5 DEF last

-----------------------------------------------------------------------------
IInv == ConfigTypes /\ RequestTypes /\ PatchInv /\ AppliedInv

\* The four parts are an inductive invariant.
THEOREM IInvAlways == Spec => []IInv
<1>1. Init => IInv
  BY TypeInit, PatchInit, AppliedInit DEF IInv
<1>2. IInv /\ [Next]_vars => IInv'
  BY ConfigTypesKept, RequestTypesKept, PatchInvKept, AppliedInvKept DEF IInv
<1> QED
  BY <1>1, <1>2, PTL DEF Spec

\* Every variable keeps its type, requests are numbered as they come, and none
\* is served while the process is down.
THEOREM SettingsTypeCorrect == Spec => []TypeOK
<1>1. IInv => TypeOK
  BY TypesSuffice DEF IInv
<1> QED
  BY <1>1, IInvAlways, PTL

\* config.py: a patch that was stored is lost to nothing but another patch of
\* its field, whatever overlaps, fails or dies.
THEOREM PatchesAlwaysKept == Spec => []PatchKept
<1>1. IInv => PatchKept
  BY DEF IInv, PatchInv, FieldsKept, Explained, SecretsExplained, PatchKept
<1> QED
  BY <1>1, IInvAlways, PTL

\* pipeline.apply_settings: once a request that was alone is answered, every
\* part of the pipeline works with the settings in memory.
THEOREM SettingsAlwaysApplied == Spec => []SettingsApplied
<1>1. IInv => SettingsApplied
  BY AppliedSuffices DEF IInv
<1> QED
  BY <1>1, IInvAlways, PTL
================================================================================
