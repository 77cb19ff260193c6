------------------------------ MODULE Settings ------------------------------
(***************************************************************************)
(* How a change of settings goes from the web UI to the running pipeline:  *)
(* post_settings (camera_watcher/web/routes.py) on one of the web server's *)
(* threads, Config (config.py) with its lock and its files, and            *)
(* CameraPipeline.apply_settings (pipeline.py), which no lock guards.      *)
(* Saving can fail, and the process can die and start again.               *)
(*                                                                         *)
(* Settings are a few fields, a request patches one of them with its own   *)
(* number, negated for a camera.name that CAMERA_NAME_RE refuses; 0 is the *)
(* value the process first started with.                                   *)
(***************************************************************************)
EXTENDS Integers, Sequences, FiniteSets

CONSTANTS
  MaxRequests,   \* bound: requests to /api/settings
  MaxInFlight,   \* requests at the same time (waitress has 8 threads)
  MaxFailures,   \* bound: saves that fail
  MaxDeaths,     \* bound: deaths of the process
  None

ASSUME SettingsAssumption ==
  /\ MaxRequests \in Nat /\ MaxInFlight \in Nat \ {0}
  /\ MaxFailures \in Nat /\ MaxDeaths \in Nat
  /\ None \notin Int

Requests == 1..MaxRequests
Fields   == {"name", "other"}
Parts    == <<"motion", "recorder", "segment_cache", "capture">>

VARIABLES
  up,             \* the process is running
  memory, saved,  \* Config._settings and the config file
  secrets,        \* Config._secrets, with the web token
  secretsFile,    \* the camera name Config.secrets_path was derived from
  savedSecrets,   \* per camera name, what its secrets file holds; None: no file
  running,        \* per part of the pipeline, the settings it works with
  request,        \* per request: how far it is, what it patches, what it applies
  alone,          \* history: was no other in flight when the last one came
  failures, deaths

config == <<memory, saved, secrets, secretsFile, savedSecrets>>
vars == <<up, config, running, request, alone, failures, deaths>>

Defaults == [f \in Fields |-> 0]

Names == -MaxRequests..MaxRequests

Init ==
  /\ up = TRUE
  /\ memory = Defaults /\ saved = Defaults
  /\ secrets = 0 /\ secretsFile = 0
  /\ savedSecrets = [n \in Names |-> IF n = 0 THEN 0 ELSE None]
  /\ running = [i \in DOMAIN Parts |-> Defaults]
  /\ request = [r \in Requests |->
                  [at |-> "new", field |-> None, credentials |-> FALSE,
                   settings |-> Defaults, part |-> 1]]
  /\ alone = TRUE /\ failures = 0 /\ deaths = 0

InFlight == {r \in Requests : request[r].at \in {"settings", "secrets", "resolve", "apply"}}

Goto(r, at) == request' = [request EXCEPT ![r].at = at]

Save(failing) ==
  IF failing THEN failures < MaxFailures /\ failures' = failures + 1 ELSE UNCHANGED failures

-----------------------------------------------------------------------------
(* post_settings                                                           *)

\* A request body: a field or no settings, credentials or none.
Arrive(r) ==
  /\ up /\ request[r].at = "new" /\ Cardinality(InFlight) < MaxInFlight
  /\ \A q \in Requests : q < r => request[q].at # "new"
  /\ \E field \in Fields \union {None}, credentials \in BOOLEAN :
       request' = [request EXCEPT ![r].at = "settings", ![r].field = field,
                                  ![r].credentials = credentials]
  /\ alone' = (InFlight = {})
  /\ UNCHANGED <<up, config, running, failures, deaths>>

\* Nothing checks the patch: a name can be one that no start accepts.
ValuesOf(r) == IF request[r].field = "name" THEN {r, -r} ELSE {r}

\* fault: merges into DEFAULTS
MergedOverDefaults(field, value) == [Defaults EXCEPT ![field] = value]
Merged(field, value)             == [memory EXCEPT ![field] = value]

\* Config.update_settings: merged under the lock, then saved.
UpdateSettings(r) ==
  /\ request[r].at = "settings" /\ request[r].field # None
  /\ \E failing \in BOOLEAN, value \in ValuesOf(r) :
       /\ memory' = Merged(request[r].field, value)
       /\ saved' = IF failing THEN saved ELSE memory'
       /\ Save(failing)
       /\ Goto(r, IF failing THEN "failed" ELSE "secrets")
  /\ UNCHANGED <<up, secrets, secretsFile, savedSecrets, running, alone, deaths>>

NoSettings(r) ==
  /\ request[r].at = "settings" /\ request[r].field = None
  /\ Goto(r, "secrets")
  /\ UNCHANGED <<up, config, running, alone, failures, deaths>>

\* To the file the name of the last start led to.
SaveSecrets(r, failing) ==
  savedSecrets' = IF failing THEN savedSecrets
                  ELSE [savedSecrets EXCEPT ![secretsFile] = r]

\* Config.update_secrets.
UpdateSecrets(r) ==
  /\ request[r].at = "secrets" /\ request[r].credentials
  /\ \E failing \in BOOLEAN :
       /\ secrets' = r
       /\ SaveSecrets(r, failing)
       /\ Save(failing)
       /\ Goto(r, IF failing THEN "failed" ELSE "resolve")
  /\ UNCHANGED <<up, memory, saved, secretsFile, running, alone, deaths>>

NoSecrets(r) ==
  /\ request[r].at = "secrets" /\ ~request[r].credentials
  /\ Goto(r, "resolve")
  /\ UNCHANGED <<up, config, running, alone, failures, deaths>>

\* Config.resolved: a copy of the settings.
Resolve(r) ==
  /\ request[r].at = "resolve"
  /\ request' = [request EXCEPT ![r].at = "apply", ![r].settings = memory, ![r].part = 1]
  /\ UNCHANGED <<up, config, running, alone, failures, deaths>>

AllButCapture == {i \in DOMAIN Parts : Parts[i] # "capture"}   \* fault: it keeps its settings
Replaced      == DOMAIN Parts

\* CameraPipeline.apply_settings, one part of the pipeline after the other;
\* after the last, the answer.
Apply(r) ==
  /\ request[r].at = "apply"
  /\ running' = [running EXCEPT ![request[r].part] =
                   IF request[r].part \in Replaced THEN request[r].settings ELSE @]
  /\ request' = [request EXCEPT
       ![r].part = @ + 1, ![r].at = IF request[r].part = Len(Parts) THEN "done" ELSE "apply"]
  /\ UNCHANGED <<up, config, alone, failures, deaths>>

-----------------------------------------------------------------------------
(* The process                                                             *)

\* The requests in flight get no answer.
Die ==
  /\ up /\ deaths < MaxDeaths
  /\ up' = FALSE /\ deaths' = deaths + 1
  /\ request' = [r \in Requests |->
       IF r \in InFlight THEN [request[r] EXCEPT !.at = "lost"] ELSE request[r]]
  /\ UNCHANGED <<config, running, alone, failures>>

\* Config.reload, which may refuse the name, require_token, which refuses the
\* defaults of a secrets file that is not there, CameraPipeline's constructor.
Start ==
  /\ ~up /\ saved["name"] >= 0 /\ savedSecrets[saved["name"]] # None
  /\ up' = TRUE
  /\ memory' = saved
  /\ secretsFile' = saved["name"] /\ secrets' = savedSecrets[saved["name"]]
  /\ running' = [i \in DOMAIN Parts |-> saved]
  /\ UNCHANGED <<saved, savedSecrets, request, alone, failures, deaths>>

Next ==
  \/ \E r \in Requests :
       \/ Arrive(r) \/ UpdateSettings(r) \/ NoSettings(r)
       \/ UpdateSecrets(r) \/ NoSecrets(r) \/ Resolve(r) \/ Apply(r)
  \/ Die \/ Start

Spec == Init /\ [][Next]_vars

-----------------------------------------------------------------------------
AnySettings == [Fields -> Names]

States == {"new", "settings", "secrets", "resolve", "apply", "done", "failed", "lost"}

AnyRequest ==
  [at: States, field: Fields \union {None}, credentials: BOOLEAN, settings: AnySettings,
   part: 1..(Len(Parts) + 1)]

\* Types of all the variables; no request is served while the process is down,
\* and requests are numbered as they come.
TypeOK ==
  /\ up \in BOOLEAN /\ alone \in BOOLEAN
  /\ memory \in AnySettings /\ saved \in AnySettings
  /\ secrets \in 0..MaxRequests /\ secretsFile \in Names
  /\ savedSecrets = [n \in Names |-> savedSecrets[n]]
  /\ \A n \in Names : savedSecrets[n] # None => savedSecrets[n] \in 0..MaxRequests
  /\ running \in [DOMAIN Parts -> AnySettings]
  /\ request \in [Requests -> AnyRequest]
  /\ \A r \in Requests : request[r].at = "apply" => request[r].part \in DOMAIN Parts
  /\ ~up => InFlight = {}
  /\ \E n \in 0..MaxRequests : \A r \in Requests : request[r].at # "new" <=> r <= n
  /\ failures \in 0..MaxFailures /\ deaths \in 0..MaxDeaths

\* Its settings are saved.
Stored(r) == request[r].at \in {"secrets", "resolve", "apply", "done"} /\ request[r].field # None

Patches(r, f) == request[r].field = f /\ request[r].at \notin {"new", "settings"}

\* A patch is lost to nothing but another patch of the same field: not to a
\* request that runs at the same time, not to one whose save failed, and not
\* to the process dying at any point after it was stored.  The settings in
\* memory and the files differ only where a save failed, and the next save that
\* works makes up for it.
PatchKept ==
  /\ \A r \in Requests :
       LET f == request[r].field
       IN  Stored(r) /\ (\A q \in Requests \ {r} : ~Patches(q, f)) =>
             saved[f] \in {r, -r} /\ (up => memory[f] = saved[f])
  /\ up => \A f \in Fields : memory[f] # saved[f] =>
       \E r \in Requests : memory[f] \in {r, -r} /\ request[r].at = "failed"
  /\ up /\ secrets # savedSecrets[secretsFile] => request[secrets].at = "failed"

Arrived == {r \in Requests : request[r].at # "new"}

\* routes.py:4 "All state changes are written straight through to disk [...]
\* and applied to the running pipeline immediately": once the last request is
\* answered every part works with the settings in memory, whatever failed, died
\* or overlapped before, if that request had the server to itself.  (Of two at
\* a time, the one that copied the settings first may apply them last.)
SettingsApplied ==
  up /\ InFlight = {} /\ Arrived # {} =>
    LET last == CHOOSE r \in Arrived : \A q \in Arrived : q <= r
    IN  request[last].at = "done" /\ alone =>
          \A i \in DOMAIN Parts : running[i] = memory
=============================================================================
