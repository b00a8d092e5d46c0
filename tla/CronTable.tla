------------------------------ MODULE CronTable ------------------------------
(***************************************************************************)
(* The cron editor (internal/system/cron/cron.go, the CronHandler of       *)
(* internal/api/handlers/applications.go, web/src/routes/Cron.svelte).     *)
(*                                                                         *)
(* Browser tabs list the jobs of one crontab and later ask to change the   *)
(* job they saw on a line.  A file (/etc/crontab, /etc/cron.d) is appended *)
(* to, or read and written back; a user's spool is read and written        *)
(* through crontab(1).  Between the listing and the request, and between   *)
(* its read and its write, anything may happen.                            *)
(***************************************************************************)
EXTENDS Naturals, Sequences, SequencesExt

CONSTANTS
  Tabs,       \* browser tabs
  MaxJobs,    \* bound of the model: jobs ever created, the first two included
  MaxChanges  \* bound of the model: requests that change the crontab

ASSUME CronAssumption == MaxJobs \in Nat \ {0, 1} /\ MaxChanges \in Nat

VARIABLES
  crontab,   \* "file" or "spool"
  lines,     \* the text, split at the newlines: a text that ends with one ends in Blank
  listed,    \* tab -> the text its list of jobs was made from
  change,    \* tab -> the request being served for it
  created,   \* number of jobs ever created
  changes,   \* number of requests so far
  raced      \* history: a request wrote back a text that had changed under it

cronVars == <<crontab, lines, listed, change, created, changes, raced>>

\* A line is a job, the comment above it, or empty.
JobLine(j) == [what |-> "job", job |-> j]
Comment(j) == [what |-> "comment", job |-> j]
Blank == [what |-> "blank", job |-> 0]

NoChange == [op |-> "none", row |-> 0, job |-> 0, text |-> <<>>, current |-> FALSE]

IsJob(text, i) == i \in 1..Len(text) /\ text[i].what = "job"
JobsIn(text) == {text[i].job : i \in {k \in 1..Len(text) : IsJob(text, k)}}

CronInit ==
  /\ crontab \in {"file", "spool"}
  /\ lines = IF crontab = "file"
             THEN <<Comment(1), JobLine(1), JobLine(2), Blank>>
             ELSE <<JobLine(1), JobLine(2), Blank>>
  /\ listed = [t \in Tabs |-> lines]
  /\ change = [t \in Tabs |-> NoChange]
  /\ created = 2
  /\ changes = 0
  /\ raced = FALSE

-----------------------------------------------------------------------------
\* GET /api/cron: every line that holds a job, with its number.
List(t) ==
  /\ change[t] = NoChange
  /\ listed' = [listed EXCEPT ![t] = lines]
  /\ UNCHANGED <<crontab, lines, change, created, changes, raced>>

\* More lines at the end of the text; the first of them runs on in the last line
\* of a text without a final newline.
Appended(text, new) ==
  (IF Last(text) = Blank THEN Front(text) \o new ELSE text \o Tail(new)) \o <<Blank>>

\* POST /api/cron for a file: one append of the comment, if any, and the job.
AddToFile(t) ==
  /\ crontab = "file"
  /\ change[t] = NoChange
  /\ created < MaxJobs /\ changes < MaxChanges
  /\ created' = created + 1
  /\ changes' = changes + 1
  /\ \E new \in {<<JobLine(created + 1)>>, <<Comment(created + 1), JobLine(created + 1)>>} :
       lines' = Appended(lines, new)
  /\ UNCHANGED <<crontab, listed, change, raced>>

\* POST for a spool, first half: crontab -l, whose failure counts as an empty text.
ReadToAdd(t) ==
  /\ crontab = "spool"
  /\ change[t] = NoChange
  /\ created < MaxJobs /\ changes < MaxChanges
  /\ created' = created + 1
  /\ changes' = changes + 1
  /\ \E text \in {lines, <<Blank>>} :
       change' = [change EXCEPT ![t] = [op |-> "add", row |-> 0, job |-> created + 1,
                                        text |-> text, current |-> TRUE]]
  /\ UNCHANGED <<crontab, lines, listed, raced>>

\* DELETE and PUT /api/cron, first half: the job the tab saw on a line, and the
\* text as it is now.
ReadToChange(t) ==
  /\ change[t] = NoChange
  /\ changes < MaxChanges
  /\ changes' = changes + 1
  /\ \E op \in {"delete", "update"}, row \in 1..Len(listed[t]) :
       /\ IsJob(listed[t], row)
       /\ change' = [change EXCEPT ![t] = [op |-> op, row |-> row, job |-> listed[t][row].job,
                                           text |-> lines, current |-> listed[t] = lines]]
  /\ UNCHANGED <<crontab, lines, listed, created, raced>>

\* Slip: the comment above stays.
BlankedAlone(text, row) == [text EXCEPT ![row] = Blank]

\* A file keeps its other lines where they are; the comment above goes too.
Blanked(text, row) ==
  [i \in 1..Len(text) |->
     IF i = row \/ (i = row - 1 /\ text[i].what = "comment") THEN Blank ELSE text[i]]

Removed(text, row) == IF Len(text) = 1 THEN <<Blank>> ELSE RemoveAt(text, row)

\* The text a request writes back.
Result(c) ==
  CASE c.op = "add" -> Appended(c.text, <<JobLine(c.job)>>)
    [] c.op = "delete" -> IF crontab = "file" THEN Blanked(c.text, c.row)
                                              ELSE Removed(c.text, c.row)
    [] c.op = "update" -> [c.text EXCEPT ![c.row] = JobLine(c.job)]

InRange(c) == c.op = "add" \/ c.row \in 1..Len(c.text)

\* Second half: the result is written.  crontab(1) refuses a text that does not
\* end with a newline.
WriteBack(t) ==
  LET c == change[t] IN
  /\ c # NoChange
  /\ InRange(c)
  /\ crontab = "spool" => Last(Result(c)) = Blank
  /\ lines' = Result(c)
  /\ raced' = (raced \/ c.text # lines)
  /\ change' = [change EXCEPT ![t] = NoChange]
  /\ UNCHANGED <<crontab, listed, created, changes>>

\* The line number is out of range, or reading or writing fails: an error.
ChangeFails(t) ==
  /\ change[t] # NoChange
  /\ change' = [change EXCEPT ![t] = NoChange]
  /\ UNCHANGED <<crontab, lines, listed, created, changes, raced>>

CronNext ==
  \E t \in Tabs :
    List(t) \/ AddToFile(t) \/ ReadToAdd(t) \/ ReadToChange(t) \/ WriteBack(t) \/ ChangeFails(t)

CronSpec == CronInit /\ [][CronNext]_cronVars

-----------------------------------------------------------------------------
CronTypeOK ==
  /\ crontab \in {"file", "spool"}
  /\ \A i \in 1..Len(lines) :
       lines[i] \in [what : {"job", "comment", "blank"}, job : 0..created]
  /\ lines # <<>> /\ (raced \/ Last(lines) = Blank)
  /\ created \in 0..MaxJobs
  /\ changes \in 0..MaxChanges
  /\ raced \in BOOLEAN

(* A request changes no job but the one the tab showed on that line: in a  *)
(* file whatever the age of the list, in a spool when the list is current. *)
OnlyTheJobShown ==
  [][\A t \in Tabs :
       LET c == change[t] IN
       /\ c # NoChange /\ change'[t] = NoChange /\ ~raced'
       /\ crontab = "file" \/ c.current
       => /\ JobsIn(lines) \ JobsIn(lines') \subseteq {c.job}
          /\ JobsIn(lines') \ JobsIn(lines) \subseteq {c.job}]_cronVars

(* In a file a comment stands above its own job and goes with it, so that  *)
(* the list never shows it next to another job.                            *)
CommentsStayWithTheirJob ==
  crontab = "file" /\ ~raced =>
    \A i \in 1..Len(lines) :
      lines[i].what = "comment" => lines[i + 1] = JobLine(lines[i].job)
=============================================================================
