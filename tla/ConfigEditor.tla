---------------------------- MODULE ConfigEditor ----------------------------
(***************************************************************************)
(* Saving the configuration of a web server from its editor                *)
(* (internal/system/webservers/webservers.go, the WebserversHandler of     *)
(* internal/api/handlers/applications.go).  A save writes a temporary file *)
(* beside the configuration, tests it and renames it; the name of the      *)
(* temporary file is the same for every save.                              *)
(***************************************************************************)
EXTENDS Naturals, FiniteSets

CONSTANTS
  Editors,   \* requests that may be in flight at the same time
  NoFile,    \* the temporary file does not exist
  MaxSaves   \* bound of the model: number of saves

ASSUME ConfigAssumption == MaxSaves \in Nat

VARIABLES
  server,     \* type of the web server
  live,       \* its configuration file
  temp,       \* the temporary file, or NoFile
  saving,     \* editor -> its save
  running,    \* the configuration the server runs with
  saves,      \* number of saves so far
  overlapped  \* history: two saves were under way at the same time

confVars == <<server, live, temp, saving, running, saves, overlapped>>

Servers == {"nginx", "apache", "caddy"}

\* A text: the save it comes from, and whether it is free of errors.
Text == [save : 0..MaxSaves, good : BOOLEAN]
FirstText == [save |-> 0, good |-> TRUE]
NotSaving == [phase |-> "idle", text |-> FirstText]

ConfInit ==
  /\ server \in Servers
  /\ live = FirstText
  /\ temp = NoFile
  /\ saving = [e \in Editors |-> NotSaving]
  /\ running = FirstText
  /\ saves = 0
  /\ overlapped = FALSE

EndSave(e) == saving' = [saving EXCEPT ![e] = NotSaving]

\* PUT /api/webservers/{type}/config: WriteConfig writes the temporary file.
WriteTemp(e) ==
  /\ saving[e].phase = "idle"
  /\ saves < MaxSaves
  /\ saves' = saves + 1
  /\ \E good \in BOOLEAN :
       /\ temp' = [save |-> saves + 1, good |-> good]
       /\ saving' = [saving EXCEPT ![e] = [phase |-> "written",
                                           text |-> [save |-> saves + 1, good |-> good]]]
  /\ overlapped' = (overlapped \/ \E f \in Editors : saving[f].phase # "idle")
  /\ UNCHANGED <<server, live, running>>

\* Slip: the server's own configuration is tested, not the new one.
TestPassesOnLive ==
  CASE server = "nginx" -> live.good
    [] server = "apache" -> live.good
    [] server = "caddy" -> TRUE

\* testConfig: nginx reads the temporary file, apachectl can only test the live
\* configuration, Caddy's is not tested.
TestPasses ==
  CASE server = "nginx" -> temp # NoFile /\ temp.good
    [] server = "apache" -> live.good
    [] server = "caddy" -> TRUE

TestSucceeds(e) ==
  /\ saving[e].phase = "written"
  /\ TestPasses
  /\ saving' = [saving EXCEPT ![e].phase = "tested"]
  /\ UNCHANGED <<server, live, temp, running, saves, overlapped>>

\* The test fails: the temporary file is removed, the save is an error.
TestFails(e) ==
  /\ saving[e].phase = "written"
  /\ ~TestPasses
  /\ temp' = NoFile
  /\ EndSave(e)
  /\ UNCHANGED <<server, live, running, saves, overlapped>>

\* os.Rename; it fails when the file has been renamed or removed already.
Rename(e) ==
  /\ saving[e].phase = "tested"
  /\ live' = IF temp = NoFile THEN live ELSE temp
  /\ temp' = NoFile
  /\ EndSave(e)
  /\ UNCHANGED <<server, running, saves, overlapped>>

\* Slip: the server is restarted, and not asked to reload.
ReloadUntested ==
  /\ running' = live
  /\ UNCHANGED <<server, live, temp, saving, saves, overlapped>>

\* POST /api/webservers/{type}/reload: the server keeps what it runs with when
\* the file has errors.
Reload ==
  /\ live.good
  /\ running' = live
  /\ UNCHANGED <<server, live, temp, saving, saves, overlapped>>

ConfNext ==
  \/ Reload
  \/ \E e \in Editors : WriteTemp(e) \/ TestSucceeds(e) \/ TestFails(e) \/ Rename(e)

ConfSpec == ConfInit /\ [][ConfNext]_confVars

-----------------------------------------------------------------------------
ConfTypeOK ==
  /\ server \in Servers
  /\ live \in Text
  /\ temp \in Text \union {NoFile}
  /\ \A e \in Editors : saving[e] \in [phase : {"idle", "written", "tested"}, text : Text]
  /\ running \in Text /\ running.good
  /\ saves \in 0..MaxSaves
  /\ overlapped \in BOOLEAN

(* nginx never loses a working configuration to a save with errors, as     *)
(* long as no two saves overlap.                                           *)
SavedAloneIsGood == server = "nginx" /\ ~overlapped => live.good

(* "tested before writing": a configuration of nginx that is saved has     *)
(* passed the test, whoever else is saving.                                *)
TestedBeforeWriting == server = "nginx" => live.good
=============================================================================
