------------------------------ MODULE Hardening ------------------------------
(***************************************************************************)
(* The hardening score (internal/system/hardening/hardening.go,            *)
(* internal/api/handlers/hardening.go, the goroutine of                    *)
(* cmd/webux/main.go, web/src/components/HardeningScore.svelte).  A scan   *)
(* runs the checks concurrently, each in a goroutine of its own, and its   *)
(* score is stored for a day; a page is given the stored score, or has a   *)
(* scan made when that is too old or when the user asks for one.  The      *)
(* server makes one whenever it starts.                                    *)
(*                                                                         *)
(* What the checks look at is one truth value each, which the user may     *)
(* change at any time.  A score carries, as history, the checks that have  *)
(* not changed since its scan began.                                       *)
(***************************************************************************)
EXTENDS Naturals

CONSTANTS
  ScorePages,    \* pages that show the score
  Checks,        \* the checks of a scan
  TTL,           \* hardeningCacheTTL
  LastHour,      \* bound of the model: the clock
  MaxScans,      \* bound of the model: scans asked for and starts of the server
  MaxFixes       \* bound of the model: changes of the host

ASSUME HardeningAssumption ==
  /\ TTL \in Nat /\ LastHour \in Nat /\ MaxScans \in Nat /\ MaxFixes \in Nat
  /\ "boot" \notin ScorePages

VARIABLES
  host,    \* check -> whether it would pass now
  hour,    \* the clock
  stored,  \* the row hardening.results of webux_settings: no score or one
  scans,   \* page, or "boot" -> its scan
  known,   \* history: the last score that a page was given, if any
  muddled, \* history: two scans have overlapped, or a score could not be stored
  asked,   \* number of scans so far
  fixes    \* number of changes of the host so far

scoreVars == <<host, hour, stored, scans, known, muddled, asked, fixes>>

Scanners == ScorePages \union {"boot"}
NoScan == [pc |-> "idle", ok |-> <<>>, still |-> {}, at |-> 0]
NewScan == [pc |-> "running", ok |-> <<>>, still |-> Checks, at |-> 0]
Score(a) == [ok |-> scans[a].ok, still |-> scans[a].still, at |-> scans[a].at]

ScoreInit ==
  /\ host \in [Checks -> BOOLEAN]
  /\ hour = 0 /\ stored = {} /\ known = {}
  /\ scans = [a \in Scanners |-> IF a = "boot" THEN NewScan ELSE NoScan]
  /\ muddled = FALSE /\ asked = 0 /\ fixes = 0

With(ok, c, passes) == [d \in DOMAIN ok \union {c} |-> IF d = c THEN passes ELSE ok[d]]

-----------------------------------------------------------------------------
\* RunAll: the goroutine of a check looks at the host ...
RunCheck(a, c) ==
  /\ scans[a].pc = "running" /\ c \notin DOMAIN scans[a].ok
  /\ scans' = [scans EXCEPT ![a].ok = With(@, c, host[c])]
  /\ UNCHANGED <<host, hour, stored, known, muddled, asked, fixes>>

\* ... and when all have, the score is dated.
RunAllReturns(a) ==
  /\ scans[a].pc = "running" /\ DOMAIN scans[a].ok = Checks
  /\ scans' = [scans EXCEPT ![a].pc = "scored", ![a].at = hour]
  /\ UNCHANGED <<host, hour, stored, known, muddled, asked, fixes>>

\* Slip: the row is inserted, and left alone when it is there.
SaveCacheOnce(a) ==
  /\ scans[a].pc = "scored"
  /\ stored' = IF stored = {} THEN {Score(a)} ELSE stored
  /\ scans' = [scans EXCEPT ![a] = IF a = "boot" THEN NoScan ELSE [@ EXCEPT !.pc = "saved"]]
  /\ UNCHANGED <<host, hour, known, muddled, asked, fixes>>

\* saveCache, whose error nobody sees; the goroutine of main ends with it.
SaveCache(a) ==
  /\ scans[a].pc = "scored"
  /\ \/ stored' = {Score(a)} /\ UNCHANGED muddled
     \/ muddled' = TRUE /\ UNCHANGED stored
  /\ scans' = [scans EXCEPT ![a] = IF a = "boot" THEN NoScan ELSE [@ EXCEPT !.pc = "saved"]]
  /\ UNCHANGED <<host, hour, known, asked, fixes>>

\* The score is written to the page, or to nobody when the page has been closed.
WriteScore(t) ==
  /\ scans[t].pc = "saved"
  /\ known' \in {known, {Score(t)}}
  /\ scans' = [scans EXCEPT ![t] = NoScan]
  /\ UNCHANGED <<host, hour, stored, muddled, asked, fixes>>

\* loadCached: the stored score unless it is too old.
Cached == {s \in stored : hour - s.at <= TTL}

Scan(t) ==
  /\ scans[t].pc = "idle" /\ asked < MaxScans
  /\ scans' = [scans EXCEPT ![t] = NewScan]
  /\ muddled' = (muddled \/ \E a \in Scanners : scans[a].pc # "idle")
  /\ asked' = asked + 1
  /\ UNCHANGED <<host, hour, stored, known, fixes>>

\* GET /api/hardening, when the page is opened.
Get(t) ==
  \/ /\ scans[t].pc = "idle" /\ Cached # {}
     /\ known' = Cached
     /\ UNCHANGED <<host, hour, stored, scans, muddled, asked, fixes>>
  \/ Cached = {} /\ Scan(t)

\* POST /api/hardening/refresh; the button is disabled until the answer.
Refresh(t) == Scan(t)

-----------------------------------------------------------------------------
\* A check comes to pass or to fail.
Changed(s, c) == [s EXCEPT !.still = @ \ {c}]

HostChanges(c) ==
  /\ fixes < MaxFixes
  /\ host' = [host EXCEPT ![c] = ~@]
  /\ stored' = {Changed(s, c) : s \in stored}
  /\ known' = {Changed(s, c) : s \in known}
  /\ scans' = [a \in Scanners |-> Changed(scans[a], c)]
  /\ fixes' = fixes + 1
  /\ UNCHANGED <<hour, muddled, asked>>

\* The server is started again: every scan in progress is lost, and one begins.
Restart ==
  /\ asked < MaxScans
  /\ scans' = [a \in Scanners |-> IF a = "boot" THEN NewScan ELSE NoScan]
  /\ asked' = asked + 1
  /\ UNCHANGED <<host, hour, stored, known, muddled, fixes>>

HourPasses ==
  /\ hour < LastHour
  /\ hour' = hour + 1
  /\ UNCHANGED <<host, stored, scans, known, muddled, asked, fixes>>

ScoreNext ==
  \/ \E a \in Scanners : (\E c \in Checks : RunCheck(a, c)) \/ RunAllReturns(a) \/ SaveCache(a)
  \/ \E t \in ScorePages : WriteScore(t) \/ Get(t) \/ Refresh(t)
  \/ (\E c \in Checks : HostChanges(c)) \/ Restart \/ HourPasses

ScoreSpec == ScoreInit /\ [][ScoreNext]_scoreVars

-----------------------------------------------------------------------------
ScoreTypeOK ==
  /\ \A a \in Scanners : scans[a].pc \in {"idle", "running", "scored", "saved"}
  /\ \A s \in stored \union known : s.ok \in [Checks -> BOOLEAN] /\ s.at \in 0..hour

(* As long as no two scans have overlapped and every score was stored,     *)
(* what a page has once been told of a check that has not changed since is *)
(* what every page is told from then on, after restarts, closed pages and  *)
(* changes in the middle of a scan as well: a fix that was seen is not     *)
(* unseen by an older result.                                              *)
(* (With two scans at once, the one that began earlier may be stored last, *)
(* and pages are given its result for a day.)                              *)
FixesStaySeen ==
  [][host' = host /\ ~muddled =>
       \A s \in known', k \in known : \A c \in k.still : s.ok[c] = k.ok[c]]_scoreVars
=============================================================================
