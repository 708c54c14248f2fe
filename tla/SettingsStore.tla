---------------------------- MODULE SettingsStore ----------------------------
(***************************************************************************)
(* settings.Manager, auth.Manager and the handlers that change settings.   *)
(* Get and Save lock the store, but a handler calls Get, changes its       *)
(* fields and calls Save, without a lock around the three.  Field values   *)
(* are version numbers; 0 is an empty field.                               *)
(***************************************************************************)
EXTENDS Integers

CONSTANTS
    Editors,       \* requests that change settings at the same time
    MaxVersions,   \* bound: versions of a field
    MaxSaveFaults  \* bound: failed saves and kills

ASSUME EditorsAssumption == {MaxVersions, MaxSaveFaults} \subseteq Nat

Fields == {"network", "hash", "token"}
Empty == [f \in Fields |-> 0]

VARIABLES
    file,      \* settings.json
    cached, loaded,
    up,        \* the process runs and EnsureDefaults is done
    edit,      \* the requests: the field they change, and their copy
    latest,    \* history: the last version given to each field
    overlap,   \* history: two requests were between Get and Save at once
    saveFaults

settingsVars == <<file, cached, loaded, up, edit, latest, overlap, saveFaults>>

NoEdit == [field |-> "none", copy |-> Empty]

SInit ==
    /\ file = Empty /\ cached = Empty /\ loaded = FALSE /\ up = FALSE
    /\ edit = [e \in Editors |-> NoEdit]
    /\ latest = Empty /\ overlap = FALSE /\ saveFaults = 0

\* Get: the cache, or the file.
GetSettings == IF loaded THEN cached ELSE file

\* Save: the new file is renamed into place, then the cache is set; or an error.
SaveSettings(s) ==
    \/ file' = s /\ cached' = s /\ loaded' = TRUE /\ UNCHANGED saveFaults
    \/ /\ saveFaults < MaxSaveFaults /\ saveFaults' = saveFaults + 1
       /\ UNCHANGED <<file, cached, loaded>>

\* EnsureDefaults before the server listens: a default password's hash and a
\* random token for empty fields.  An error ends the process.
EnsureDefaults ==
    /\ ~up
    /\ LET s == GetSettings
           full == [f \in Fields |-> IF f # "network" /\ s[f] = 0 THEN 1 ELSE s[f]]
       IN IF full = s
          THEN /\ cached' = s /\ loaded' = TRUE /\ up' = TRUE
               /\ UNCHANGED <<file, latest, saveFaults>>
          ELSE /\ SaveSettings(full)
               /\ up' = (file' = full)
               /\ latest' = IF file' = full THEN full ELSE latest
    /\ UNCHANGED <<edit, overlap>>

\* handleSaveSettings, SetPassword and RegenerateToken get the settings, ...
Open(e, f) ==
    /\ up /\ edit[e] = NoEdit /\ latest[f] < MaxVersions
    /\ edit' = [edit EXCEPT ![e] = [field |-> f, copy |-> GetSettings]]
    /\ cached' = GetSettings /\ loaded' = TRUE
    /\ overlap' = (overlap \/ \E other \in Editors : edit[other] # NoEdit)
    /\ UNCHANGED <<file, up, latest, saveFaults>>

\* Mutant of Close: the handler saves the fields of its form and no other.
CloseForm(e) ==
    /\ up /\ edit[e] # NoEdit
    /\ LET f == edit[e].field
       IN /\ SaveSettings([Empty EXCEPT ![f] = latest[f] + 1])
          /\ latest' = [latest EXCEPT ![f] = @ + 1]
    /\ edit' = [edit EXCEPT ![e] = NoEdit]
    /\ UNCHANGED <<up, overlap>>

\* ... change their field and save the whole copy.
Close(e) ==
    /\ up /\ edit[e] # NoEdit
    /\ LET f == edit[e].field
           s == [edit[e].copy EXCEPT ![f] = latest[f] + 1]
       IN /\ SaveSettings(s)
          /\ latest' = IF file' = s THEN [latest EXCEPT ![f] = @ + 1] ELSE latest
    /\ edit' = [edit EXCEPT ![e] = NoEdit]
    /\ UNCHANGED <<up, overlap>>

\* Killed at any point; before its rename a save has not happened.
KillServer ==
    /\ up /\ saveFaults < MaxSaveFaults /\ saveFaults' = saveFaults + 1
    /\ up' = FALSE /\ loaded' = FALSE /\ cached' = Empty
    /\ edit' = [e \in Editors |-> NoEdit]
    /\ UNCHANGED <<file, latest, overlap>>

SNext == EnsureDefaults \/ KillServer \/ \E e \in Editors : Close(e) \/ \E f \in Fields : Open(e, f)

SSpec == SInit /\ [][SNext]_settingsVars

-----------------------------------------------------------------------------
\* What Get returns is what a restarted process would read: a failed or
\* interrupted save changes neither the cache nor the file.
CacheIsFile == loaded => cached = file

\* A handler "only updates network fields" (or its own): a change that was
\* saved is lost only if two requests were between Get and Save at once.
LostOnlyByOverlap == ~overlap /\ up => file = latest

\* Once the server listens there are a password hash and a token, and no
\* request, failed save or kill takes them away, overlapping or not.
CredentialsStay == up => GetSettings["hash"] # 0 /\ GetSettings["token"] # 0
=============================================================================
