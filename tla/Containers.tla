----------------------------- MODULE Containers -----------------------------
(***************************************************************************)
(* Docker and Podman (internal/system/containers, the container handlers,  *)
(* web/src/routes/Containers.svelte).                                      *)
(*                                                                         *)
(* The server looks for the daemons once, when it starts, and settles for  *)
(* each, in up to three requests, on the version of the API that prefixes  *)
(* every later one.  A daemon can be stopped, started and replaced by      *)
(* another release at any time, between these requests too.  To deploy a   *)
(* container takes two requests to its daemon; a request is given up after *)
(* 30 seconds or when the browser goes away, and the daemon may carry it   *)
(* out nevertheless.                                                       *)
(***************************************************************************)
EXTENDS Naturals, FiniteSets

CONSTANTS
  Browsers,     \* tabs with a request to a daemon
  Names,        \* names given to containers
  Newest,       \* bound of the model: versions of the API are 1..Newest
  MaxAsked,     \* bound of the model: requests
  MaxEvents     \* bound of the model: stops, starts and replacements of daemons

ASSUME ContainerAssumption == Newest \in Nat \ {0} /\ MaxAsked \in Nat /\ MaxEvents \in Nat

VARIABLES
  probe,       \* the server that starts: the runtime it asks, and what it does next
  daemon,      \* runtime -> whether it answers, the versions it serves, what it advertises
  version,     \* runtime -> the prefix in use, or 0 when the runtime was not detected
  containers,  \* the containers that exist
  call,        \* tab -> its request
  late,        \* requests given up that the daemon has still to carry out or forget
  replaced,    \* history: runtimes whose daemon changed since their version was settled
  started,     \* history: ids of the containers that were started
  ctrAsked,       \* number of requests so far
  ctrEvents       \* number of events of the daemons so far

ctrVars == <<probe, daemon, version, containers, call, late, replaced, started, ctrAsked,
             ctrEvents>>

Runtimes == {"docker", "podman"}

\* dockerFallbackVersion is the oldest version in the model; podmanFallbackVersion,
\* like what some Podman builds advertise, is no version of the Docker API.
Native == Newest + 1
Fallback == [docker |-> 1, podman |-> Native]

Daemons == {d \in [up : {TRUE}, oldest : 1..Newest, newest : 1..Newest, says : 0..Native] :
              d.oldest <= d.newest}
Down == [up |-> FALSE, oldest |-> 1, newest |-> 1, says |-> 0]

\* A daemon advertises its newest version or none (0), Podman its own as well; what
\* stands between may route fewer versions than the daemon advertises.
Plausible(rt) ==
  {d \in Daemons : \/ d.says \in {0} \union (d.newest..Newest)
                   \/ rt = "podman" /\ d.says = Native}

Serves(rt, v) ==
  /\ daemon[rt].up
  /\ v \in daemon[rt].oldest..daemon[rt].newest \/ (rt = "podman" /\ v = Native)

Idle == [pc |-> "idle", do |-> "start", rt |-> "docker", id |-> 0, answer |-> "none"]

Ready == [pc |-> "ready", rt |-> "podman", says |-> 0]

CtrInit ==
  /\ probe = Ready
  /\ daemon \in [Runtimes -> {Down, [up |-> TRUE, oldest |-> 1, newest |-> Newest, says |-> Newest]}]
  /\ version = [rt \in Runtimes |-> 0]
  /\ containers = {} /\ late = {}
  /\ call = [t \in Browsers |-> Idle]
  /\ replaced = Runtimes /\ started = {}
  /\ ctrAsked = 0 /\ ctrEvents = 0

-----------------------------------------------------------------------------
(* Detect, called when the router is built: the server starts, and asks    *)
(* Docker and then Podman; nothing is listened to before it has.           *)

Detect ==
  /\ replaced # {}
  /\ probe' = [pc |-> "ping", rt |-> "docker", says |-> 0]
  /\ version' = [rt \in Runtimes |-> 0]
  /\ call' = [t \in Browsers |-> Idle]
  /\ late' = late \union {call[t] : t \in {u \in Browsers : call[u].pc \in {"create", "act", "start"}}}
  /\ UNCHANGED <<daemon, containers, replaced, started, ctrAsked, ctrEvents>>

\* The runtime is settled, with this version, or 0 for nil, and the next one is asked.
Settle(v) ==
  /\ version' = [version EXCEPT ![probe.rt] = v]
  /\ replaced' = replaced \ {probe.rt}
  /\ probe' = IF probe.rt = "docker" THEN [pc |-> "ping", rt |-> "podman", says |-> 0] ELSE Ready
  /\ UNCHANGED <<daemon, containers, call, late, started, ctrAsked, ctrEvents>>

Asks(pc, says) ==
  /\ probe' = [probe EXCEPT !.pc = pc, !.says = says]
  /\ UNCHANGED <<version, replaced, daemon, containers, call, late, started, ctrAsked, ctrEvents>>

\* pingDaemon: the unversioned path, and Podman's own, are served by every daemon that
\* answers. Any ping may run into the two seconds that all of a runtime have together.
Pings(rt) == daemon[rt].up

\* NewDocker, NewPodman: nil when the first ping fails.
NewRuntime ==
  /\ probe.pc = "ping"
  /\ (Pings(probe.rt) /\ Asks("ask", 0)) \/ Settle(0)

\* isDockerCompatVersion, the checker of Podman.
Accepts(rt, v) == v # 0 /\ (rt = "podman" => v # Native)

\* Slip: what the daemon advertises is not tried before it is adopted.
AdoptUntried ==
  LET says == daemon[probe.rt].says IN
  /\ probe.pc = "ask"
  /\ \/ Pings(probe.rt) /\ Accepts(probe.rt, says) /\ Settle(says)
     \/ Settle(Fallback[probe.rt])

\* negotiateAPIVersion: what the daemon advertises, and whether it routes that; the
\* fallback when a ping fails, or the version is none or not accepted.
AskVersion ==
  LET says == daemon[probe.rt].says IN
  /\ probe.pc = "ask"
  /\ \/ Pings(probe.rt) /\ Accepts(probe.rt, says) /\ Asks("confirm", says)
     \/ Settle(Fallback[probe.rt])

ConfirmVersion ==
  /\ probe.pc = "confirm"
  /\ (Serves(probe.rt, probe.says) /\ Settle(probe.says)) \/ Settle(Fallback[probe.rt])

\* The administrator stops, starts or replaces a daemon.
DaemonChanges(rt) ==
  /\ ctrEvents < MaxEvents /\ ctrEvents' = ctrEvents + 1
  /\ \E d \in Plausible(rt) \union {Down} :
       d # daemon[rt] /\ daemon' = [daemon EXCEPT ![rt] = d]
  /\ replaced' = replaced \union {rt}
  /\ UNCHANGED <<probe, version, containers, call, late, started, ctrAsked>>

-----------------------------------------------------------------------------
Detected == {rt \in Runtimes : version[rt] # 0}

\* runtimeFor: a runtime that was not detected stands for the first that was.
RuntimeFor(rt) ==
  IF rt \in Detected THEN rt ELSE IF "docker" \in Detected THEN "docker" ELSE "podman"

\* get, post, delete: the daemon answers and serves the prefix in use.
Reaches(rt) == Serves(rt, version[rt])

Begin(t, pc, do, rt, id) ==
  /\ probe = Ready
  /\ ctrAsked < MaxAsked /\ ctrAsked' = ctrAsked + 1
  /\ call[t].pc = "idle"
  /\ call' = [call EXCEPT ![t] = [pc |-> pc, do |-> do, rt |-> rt, id |-> id, answer |-> "none"]]
  /\ UNCHANGED <<probe, daemon, version, containers, late, replaced, started, ctrEvents>>

Answer(t, a) == call' = [call EXCEPT ![t] = [@ EXCEPT !.pc = "idle", !.answer = a]]

\* ContainersHandler.Action; the page may be older than the container's removal.
Action(t) ==
  /\ Detected # {}
  /\ \E do \in {"start", "stop", "restart", "remove"}, rt \in Runtimes, id \in 1..ctrAsked :
       Begin(t, "act", do, RuntimeFor(rt), id)

\* Start, Stop, Restart, Remove (with force) as the daemon carries them out.
Has(rt, id) == \E c \in containers : c.id = id /\ c.rt = rt

After(do, rt, id) ==
  LET others == {c \in containers : c.id # id}
      it == CHOOSE c \in containers : c.id = id
  IN CASE do \in {"start", "restart"} -> others \union {[it EXCEPT !.state = "running"]}
       [] do = "stop" -> others \union {[it EXCEPT !.state = "exited"]}
       [] do = "remove" -> others

Perform(do, rt, id) ==
  /\ Has(rt, id)
  /\ containers' = After(do, rt, id)
  /\ started' = IF do \in {"start", "restart"} THEN started \union {id} ELSE started

\* The daemon may refuse one it has: a port is in use, or it runs and is not to be
\* removed by force.
Acted(t) ==
  LET c == call[t] IN
  /\ c.pc = "act"
  /\ \/ Reaches(c.rt) /\ Perform(c.do, c.rt, c.id) /\ Answer(t, "ok")
     \/ Answer(t, "error") /\ UNCHANGED <<containers, started>>
  /\ UNCHANGED <<probe, daemon, version, late, replaced, ctrAsked, ctrEvents>>

\* ContainersHandler.Run.  The id the daemon will give is the number of the request.
\* A form validateRunConfig refuses is answered without any request.
RunRequest(t) ==
  /\ Detected # {}
  /\ \E rt \in Runtimes : Begin(t, "create", "start", RuntimeFor(rt), ctrAsked + 1)

New(rt, id, n) == [id |-> id, rt |-> rt, name |-> n, state |-> "created"]

\* The daemon refuses a name that is in use.
Create(c, n) ==
  /\ \A d \in containers : d.rt = c.rt => d.name # n
  /\ containers' = containers \union {New(c.rt, c.id, n)}

\* RunContainer: create, and the error of it; then start.
Created(t) ==
  LET c == call[t] IN
  /\ c.pc = "create"
  /\ \/ /\ Reaches(c.rt)
        /\ \E n \in Names : Create(c, n)
        /\ call' = [call EXCEPT ![t].pc = "start"]
     \/ Answer(t, "error") /\ UNCHANGED containers
  /\ UNCHANGED <<probe, daemon, version, late, replaced, started, ctrAsked, ctrEvents>>

\* Slip: the answer of the second request is not looked at.
StartedUnheard(t) ==
  LET c == call[t] IN
  /\ c.pc = "start"
  /\ \/ Reaches(c.rt) /\ Perform("start", c.rt, c.id)
     \/ UNCHANGED <<containers, started>>
  /\ Answer(t, "ok")
  /\ UNCHANGED <<probe, daemon, version, late, replaced, ctrAsked, ctrEvents>>

\* A start may fail for reasons of its own: a port in use, a command not found.
Started(t) ==
  LET c == call[t] IN
  /\ c.pc = "start"
  /\ \/ Reaches(c.rt) /\ Perform("start", c.rt, c.id) /\ Answer(t, "ok")
     \/ Answer(t, "error") /\ UNCHANGED <<containers, started>>
  /\ UNCHANGED <<probe, daemon, version, late, replaced, ctrAsked, ctrEvents>>

\* The 30 seconds of the http.Client, or the end of the browser's request.
GiveUp(t) ==
  /\ call[t].pc \in {"act", "create", "start"}
  /\ late' = late \union {call[t]}
  /\ Answer(t, "error")
  /\ UNCHANGED <<probe, daemon, version, containers, replaced, started, ctrAsked, ctrEvents>>

\* A daemon carries out, or forgets, a request that was given up.
Late(c) ==
  /\ late' = late \ {c}
  /\ \/ c.pc = "create" /\ (\E n \in Names : Create(c, n)) /\ UNCHANGED started
     \/ c.pc # "create" /\ Perform(c.do, c.rt, c.id)
     \/ UNCHANGED <<containers, started>>
  /\ UNCHANGED <<probe, daemon, version, call, replaced, ctrAsked, ctrEvents>>

CtrNext ==
  \/ Detect \/ NewRuntime \/ AskVersion \/ ConfirmVersion
  \/ \E rt \in Runtimes : DaemonChanges(rt)
  \/ \E t \in Browsers : Action(t) \/ Acted(t) \/ RunRequest(t) \/ Created(t) \/ Started(t) \/ GiveUp(t)
  \/ \E c \in late : Late(c)

CtrSpec == CtrInit /\ [][CtrNext]_ctrVars

-----------------------------------------------------------------------------
CtrTypeOK ==
  /\ probe \in [pc : {"ping", "ask", "confirm", "ready"}, rt : Runtimes, says : 0..Native]
  /\ daemon \in [Runtimes -> Daemons \union {Down}]
  /\ version \in [Runtimes -> 0..Native]
  /\ \A c \in containers : /\ c.id \in 1..ctrAsked /\ c.rt \in Runtimes /\ c.name \in Names
                           /\ c.state \in {"created", "running", "exited"}
  /\ \A c, d \in containers : (c.rt = d.rt /\ c.name = d.name) \/ c.id = d.id => c = d
  /\ \A t \in Browsers : call[t].pc \in {"idle", "act", "create", "start"}
  /\ started \subseteq 1..ctrAsked

(* negotiateAPIVersion: "an unusable answer can never be adopted".  Also   *)
(* when the daemon is replaced between the pings, a prefix other than the  *)
(* fallback is one it serves when it is adopted, and until it changes      *)
(* again; nothing is negotiated anew then.                                 *)
UnusableNeverAdopted ==
  \A rt \in Runtimes \ replaced : version[rt] \in {0, Fallback[rt]} \/ Serves(rt, version[rt])

(* A deployment that is answered with "ok" has started its container, also *)
(* when answers come late and daemons change under the request.            *)
OkMeansStarted ==
  [][\A t \in Browsers :
       call[t].pc = "start" /\ call'[t].answer = "ok" => call[t].id \in started']_ctrVars
=============================================================================
