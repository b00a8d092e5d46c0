------------------------------ MODULE Services ------------------------------
(***************************************************************************)
(* Services of the host (internal/system/initsys,                          *)
(* internal/api/handlers/services.go).  Under systemd a list is made of    *)
(* two calls, of the units that are loaded and of the files that are       *)
(* installed, and an action is answered when its job is queued; under      *)
(* OpenRC a command prints the list and another the runlevels, and an      *)
(* action is a command that is waited for.  The host goes on in between.   *)
(***************************************************************************)
EXTENDS FiniteSets, Naturals

CONSTANTS
  Runnable,   \* names of units
  Template,   \* the name of a template, which is installed and never loaded
  Kinds,      \* the filters of the page: kinds of units, and "" for all
  KindOf,     \* unit -> its kind, the last part of its name
  MaxHostEvents   \* bound of the model: actions, and events of the host

ASSUME ServicesAssumption ==
  /\ Template \notin Runnable /\ "" \in Kinds
  /\ KindOf \in [Runnable \union {Template} -> Kinds \ {""}] /\ MaxHostEvents \in Nat

VARIABLES
  init,      \* the init system
  file,      \* unit -> state of its file, "none" if there is none
  state,     \* unit -> "unloaded", or what is known of it while it is loaded
  job,       \* unit -> the job that is queued
  listing,      \* the request that lists: what it does next, for which filter, its rows
  installed, loaded,  \* history: units installed, or loaded, all the time since it began
  short,     \* history: the second of its calls failed
  hostEvents     \* number of events so far

serviceVars == <<init, file, state, job, listing, installed, loaded, short, hostEvents>>

Units == Runnable \union {Template}
Active == {"active", "inactive", "failed"}
Duplicates == {"alias", "indirect", "generated", "transient", "bad"}
FileStates == {"enabled", "disabled", "static", "masked"}
NoList == [pc |-> "idle", kind |-> "", rows |-> {}]

ServicesInit ==
  /\ init \in {"systemd", "openrc"}
  /\ file \in [Units -> IF init = "systemd" THEN {"disabled", "static", "alias", "generated"}
                        ELSE {"disabled", "enabled"}]
  /\ file[Template] = "disabled"
  /\ state = [u \in Units |-> "unloaded"]
  /\ job = [u \in Units |-> "none"]
  /\ listing = NoList /\ installed = {} /\ loaded = {} /\ short = FALSE
  /\ hostEvents = 0

Listed(u) == file[u] \in FileStates
Event == hostEvents < MaxHostEvents /\ hostEvents' = hostEvents + 1
Witnessed ==
  /\ installed' = {u \in installed : file'[u] \in FileStates}
  /\ loaded' = {u \in loaded : state'[u] # "unloaded"}

-----------------------------------------------------------------------------
(* POST /api/services/{name}/action.  What the init system refuses changes nothing. *)

\* Under systemd the unit is loaded and a job replaces the one that was queued.
QueueJob(u, verb) ==
  /\ Event /\ init = "systemd"
  /\ u # Template /\ file[u] \notin {"none", "masked", "alias"}
  /\ job' = [job EXCEPT ![u] = verb]
  /\ state' = [state EXCEPT ![u] = IF @ = "unloaded" THEN "inactive" ELSE @]
  /\ UNCHANGED <<init, file, listing, short>> /\ Witnessed

JobEnds(u) ==
  /\ job[u] # "none"
  /\ job' = [job EXCEPT ![u] = "none"]
  /\ \E s \in IF job[u] = "stop" THEN {"inactive"} ELSE {"active", "failed"} :
       state' = [state EXCEPT ![u] = s]
  /\ UNCHANGED <<init, file, listing, short, hostEvents>> /\ Witnessed

\* rc-service.
RunVerb(u, verb) ==
  /\ Event /\ init = "openrc" /\ u # Template
  /\ state' = [state EXCEPT ![u] = IF verb = "stop" THEN "unloaded" ELSE "active"]
  /\ UNCHANGED <<init, file, job, listing, short>> /\ Witnessed

\* EnableUnitFiles and DisableUnitFiles, or rc-update.
SetBoot(u, on) ==
  /\ Event /\ file[u] \in {"enabled", "disabled"}
  /\ file' = [file EXCEPT ![u] = IF on THEN "enabled" ELSE "disabled"]
  /\ UNCHANGED <<init, state, job, listing, short>> /\ Witnessed

\* The host: a unit fails, is forgotten, or its package goes and comes.
Fails(u) == /\ Event /\ state[u] = "active" /\ state' = [state EXCEPT ![u] = "failed"]
            /\ UNCHANGED <<init, file, job, listing, short>> /\ Witnessed
Forget(u) == /\ state[u] = "inactive" /\ job[u] = "none"
             /\ state' = [state EXCEPT ![u] = "unloaded"]
             /\ UNCHANGED <<init, file, job, listing, short, hostEvents>> /\ Witnessed
Package(u, f) == /\ Event /\ init = "systemd" /\ f # file[u]
                 /\ (f = "none" \/ file[u] = "none")
                 /\ file' = [file EXCEPT ![u] = f]
                 /\ UNCHANGED <<init, state, job, listing, short>> /\ Witnessed

-----------------------------------------------------------------------------
\* GET /api/services?type=...
AskList(kind) ==
  /\ listing.pc \in {"idle", "answered"}
  /\ listing' = [pc |-> init, kind |-> kind, rows |-> {}]
  /\ installed' = {u \in Units : Listed(u)} /\ loaded' = {u \in Units : state[u] # "unloaded"}
  /\ short' = FALSE
  /\ UNCHANGED <<init, file, state, job, hostEvents>>

Fits(u) == listing.kind \in {"", KindOf[u]}
UnitRow(u) == [name |-> u, from |-> "units", active |-> state[u]]
FileRow(u) == [name |-> u, from |-> "files", active |-> "inactive"]

\* What a request goes on to, while the host stands still.
Goes(pc, rows, failed) ==
  /\ listing' = [listing EXCEPT !.pc = pc, !.rows = rows]
  /\ short' = failed
  /\ UNCHANGED <<init, file, state, job, installed, loaded, hostEvents>>

\* The error of the first call, or of the one command, is the answer: there is no list.
ListFails == listing.pc \in {"systemd", "openrc"} /\ Goes("idle", {}, FALSE)

\* ListUnits.
ListUnits ==
  /\ listing.pc = "systemd"
  /\ Goes("files", {UnitRow(u) : u \in {x \in Units : state[x] # "unloaded" /\ Fits(x)}}, FALSE)

\* Slip: a unit is taken for unloaded by its state at the second call.
UnseenNow == {u \in Runnable : Listed(u) /\ Fits(u) /\ state[u] = "unloaded"}

\* ListUnitFiles: the units that were not loaded and are installed follow.
Unseen == {u \in Runnable : /\ Listed(u) /\ Fits(u)
                            /\ \A r \in listing.rows : r.name # u}
ListUnitFiles ==
  /\ listing.pc = "files"
  /\ Goes("answered", listing.rows \union {FileRow(u) : u \in Unseen}, FALSE)

\* Its error is dropped: what the first call gave is the answer, and a success.
ListUnitFilesFails == listing.pc = "files" /\ Goes("answered", listing.rows, TRUE)

\* rc-status names the services of a runlevel and those that run (a service of two
\* runlevels for each; there is one in the model); the filter is not used, as all are
\* services.
RcRow(u) == [UnitRow(u) EXCEPT !.active = IF @ = "unloaded" THEN "inactive" ELSE @]
RcStatus ==
  /\ listing.pc = "openrc"
  /\ Goes("printed", {RcRow(u) : u \in {x \in Runnable : file[x] = "enabled" \/ state[x] # "unloaded"}},
          FALSE)

\* What is enabled is a column of the list; a failure of rc-update leaves it empty.
RcUpdate == listing.pc = "printed" /\ Goes("answered", listing.rows, FALSE)

ServicesNext ==
  \/ \E u \in Units :
       \/ \E verb \in {"start", "stop", "restart"} : QueueJob(u, verb) \/ RunVerb(u, verb)
       \/ JobEnds(u) \/ (\E on \in BOOLEAN : SetBoot(u, on)) \/ Fails(u) \/ Forget(u)
       \/ \E f \in {"none", "disabled", "masked"} : Package(u, f)
  \/ (\E kind \in Kinds : AskList(kind))
  \/ ListFails \/ ListUnits \/ ListUnitFiles \/ ListUnitFilesFails \/ RcStatus \/ RcUpdate

ServicesSpec == ServicesInit /\ [][ServicesNext]_serviceVars

-----------------------------------------------------------------------------
ServicesTypeOK ==
  /\ file \in [Units -> FileStates \union Duplicates \union {"none"}]
  /\ state \in [Units -> Active \union {"unloaded"}]
  /\ job \in [Units -> {"none", "start", "stop", "restart"}]
  /\ \A r \in listing.rows : r.name \in Units /\ r.active \in Active \union {"unloaded"}

\* A list that systemd's page is given has every unit of its kind exactly once that was
\* loaded from the beginning of the request to its end, and - unless the call for the
\* files failed, which the answer does not tell - every one that was installed all that
\* time, also one that is loaded or forgotten between the two calls. No unit is there
\* twice, and none of another kind.
EachUnitOnce ==
  init = "systemd" /\ listing.pc = "answered" =>
    /\ \A u \in Runnable : u \in loaded \union (IF short THEN {} ELSE installed) /\ Fits(u) =>
         Cardinality({r \in listing.rows : r.name = u}) = 1
    /\ \A u \in Units : Cardinality({r \in listing.rows : r.name = u}) <= (IF Fits(u) THEN 1 ELSE 0)
=============================================================================
