------------------------------ MODULE Startup ------------------------------
(***************************************************************************)
(* The start of the server on its database: Migrate (internal/db/db.go,    *)
(* with the scripts of internal/db/migrations) and the signing secret      *)
(* (cmd/webux/main.go).                                                    *)
(*                                                                         *)
(* Nothing is wrapped in a transaction: the statements of a script are     *)
(* committed one by one, then the version is recorded.  The process may be *)
(* killed between any two of them, a statement may fail, and a second      *)
(* process may be started on the same file.  Of the schema the model keeps *)
(* the table webux_sessions, which two migrations drop, and one key of     *)
(* webux_settings for each migration that seeds some.                      *)
(***************************************************************************)
EXTENDS Naturals, Sequences, FiniteSets

CONSTANTS
  Procs,      \* server processes
  Values,     \* values a user may give to a setting
  Edited,     \* settings the user edits
  Absent,     \* value of a setting that has no row
  Blank,      \* the empty string
  MaxBoots,   \* bound of the model: starts of a process
  MaxLogins,  \* bound of the model: sessions stored
  MaxBootFaults   \* bound of the model: statements of main that fail

Versions == 1..10

Keys == {"terminal.shell", "ansible.inventory", "auth.jwt_secret",
         "auth.bypass_token", "health.checks", "hardening.results"}

ASSUME StartupAssumption ==
  /\ Edited \subseteq Keys \ {"auth.jwt_secret"}
  /\ Absent # Blank
  /\ Values \intersect (Nat \union {Absent, Blank}) = {}
  /\ Nat \intersect {Absent, Blank} = {}
  /\ MaxBoots \in Nat /\ MaxLogins \in Nat /\ MaxBootFaults \in Nat

VARIABLES
  db,        \* the file: versions recorded, schema and rows of webux_sessions, settings
  pc,        \* where each process is
  version,   \* the migration it is at
  at,        \* the statement of that migration it is at
  secret,    \* the signing secret it holds
  boots, faults,
  shared,    \* history: a process was started while another one was up
  made,      \* history: secrets generated
  used,      \* history: secrets that served
  logins,    \* history: sessions stored
  chosen     \* history: what the user chose for each setting (Absent: nothing)

bootVars == <<db, pc, version, at, secret, boots, faults, shared, made, used, logins, chosen>>

-----------------------------------------------------------------------------
(* The migration scripts, statement by statement.                          *)
Stmt(o, k) == [op |-> o, keys |-> k]

Recreate == <<Stmt("drop", {}), Stmt("create", {})>>

\* Slip: the fix of version 10 is left out.
ScriptWithoutFix ==
  << <<Stmt("createOld", {})>>,
     <<Stmt("other", {})>>,
     <<Stmt("other", {})>>,
     <<Stmt("seed", {"terminal.shell"})>>,
     <<Stmt("seed", {"ansible.inventory"}), Stmt("seed", {})>>,
     <<Stmt("seed", {"auth.jwt_secret", "auth.bypass_token"})>>,
     <<Stmt("seed", {"health.checks"})>>,
     <<Stmt("seed", {"hardening.results"})>>,
     Recreate,
     <<Stmt("other", {})>> >>

Script ==
  << <<Stmt("createOld", {})>>,
     <<Stmt("other", {})>>,
     <<Stmt("other", {})>>,
     <<Stmt("seed", {"terminal.shell"})>>,
     <<Stmt("seed", {"ansible.inventory"}), Stmt("seed", {})>>,
     <<Stmt("seed", {"auth.jwt_secret", "auth.bypass_token"})>>,
     <<Stmt("seed", {"health.checks"})>>,
     <<Stmt("seed", {"hardening.results"})>>,
     Recreate,
     Recreate >>

\* CREATE TABLE without IF NOT EXISTS is an error when the table is there.
Works(s, d) == s.op = "create" => d.schema = "none"

\* Slip: INSERT OR REPLACE.
SeededAnyway(settings, keys) == [k \in Keys |-> IF k \in keys THEN Blank ELSE settings[k]]

\* INSERT OR IGNORE: a key that has a row keeps it.
Seeded(settings, keys) ==
  [k \in Keys |-> IF k \in keys /\ settings[k] = Absent THEN Blank ELSE settings[k]]

\* CREATE TABLE IF NOT EXISTS leaves a table of either schema alone.
Run(s, d) ==
  CASE s.op = "createOld" -> [d EXCEPT !.schema = IF @ = "none" THEN "old" ELSE @]
    [] s.op = "seed"      -> [d EXCEPT !.settings = Seeded(@, s.keys)]
    [] s.op = "drop"      -> [d EXCEPT !.schema = "none", !.rows = {}]
    [] s.op = "create"    -> [d EXCEPT !.schema = "new"]
    [] s.op = "other"     -> d

-----------------------------------------------------------------------------
\* The file before the first start: none, or one left by an earlier release
\* that knew the first k migrations.  Databases older than v0.9.8 may have
\* recorded version 9 without getting the new table.  The user may have chosen
\* settings, and a secret (0) may have been generated.
SeededBy(k) == UNION {Script[v][1].keys : v \in 1..k}

LeftSchema(k) == IF k = 0 THEN {"none"}
                 ELSE IF k < 9 THEN {"old"}
                 ELSE IF k = 9 THEN {"old", "new"} ELSE {"new"}

LeftValues(k, key) ==
  IF key \notin SeededBy(k) THEN {Absent}
  ELSE {Blank} \union (IF key \in Edited THEN Values ELSE {})
               \union (IF key = "auth.jwt_secret" THEN {0} ELSE {})

BootInit ==
  /\ \E k \in 0..10, left \in [Keys -> Values \union {Absent, Blank, 0}] :
       \E schema \in LeftSchema(k) :
         /\ \A key \in Keys : left[key] \in LeftValues(k, key)
         /\ db = [applied |-> 1..k, schema |-> schema, rows |-> {}, settings |-> left]
         /\ chosen = [key \in Keys |-> IF left[key] \in Values THEN left[key] ELSE Absent]
         /\ used = {left["auth.jwt_secret"]} \intersect {0}
  /\ pc = [p \in Procs |-> "down"]
  /\ version = [p \in Procs |-> 1]
  /\ at = [p \in Procs |-> 1]
  /\ secret = [p \in Procs |-> Blank]
  /\ boots = 0
  /\ faults = 0
  /\ shared = FALSE
  /\ made = 0
  /\ logins = {}

-----------------------------------------------------------------------------
Start(p) ==
  /\ pc[p] = "down"
  /\ boots < MaxBoots
  /\ boots' = boots + 1
  /\ shared' = (shared \/ \E o \in Procs : pc[o] # "down")
  /\ pc' = [pc EXCEPT ![p] = "check"]
  /\ version' = [version EXCEPT ![p] = 1]
  /\ at' = [at EXCEPT ![p] = 1]
  /\ secret' = [secret EXCEPT ![p] = Blank]
  /\ UNCHANGED <<db, faults, made, used, logins, chosen>>

\* SELECT COUNT(*) ... WHERE version = ?: already applied, or to be executed.
Check(p) ==
  /\ pc[p] = "check"
  /\ IF version[p] \notin Versions
     THEN /\ pc' = [pc EXCEPT ![p] = "secret"]
          /\ UNCHANGED <<version, at>>
     ELSE IF version[p] \in db.applied
     THEN /\ version' = [version EXCEPT ![p] = @ + 1]
          /\ UNCHANGED <<pc, at>>
     ELSE /\ pc' = [pc EXCEPT ![p] = "exec"]
          /\ at' = [at EXCEPT ![p] = 1]
          /\ UNCHANGED version
  /\ UNCHANGED <<db, secret, boots, faults, shared, made, used, logins, chosen>>

\* The next statement of the script; an error makes main exit.
Exec(p) ==
  /\ pc[p] = "exec"
  /\ LET script == Script[version[p]]
         s      == script[at[p]]
     IN  IF Works(s, db)
         THEN /\ db' = Run(s, db)
              /\ at' = [at EXCEPT ![p] = @ + 1]
              /\ pc' = [pc EXCEPT ![p] = IF at[p] = Len(script) THEN "record" ELSE "exec"]
         ELSE /\ pc' = [pc EXCEPT ![p] = "failed"]
              /\ UNCHANGED <<db, at>>
  /\ UNCHANGED <<version, secret, boots, faults, shared, made, used, logins, chosen>>

\* INSERT INTO schema_migrations; version is its primary key.
Record(p) ==
  /\ pc[p] = "record"
  /\ IF version[p] \in db.applied
     THEN /\ pc' = [pc EXCEPT ![p] = "failed"]
          /\ UNCHANGED <<db, version>>
     ELSE /\ db' = [db EXCEPT !.applied = @ \union {version[p]}]
          /\ version' = [version EXCEPT ![p] = @ + 1]
          /\ pc' = [pc EXCEPT ![p] = "check"]
  /\ UNCHANGED <<at, secret, boots, faults, shared, made, used, logins, chosen>>

\* main reads auth.jwt_secret; an error of the query counts as "not there".
ReadSecret(p) ==
  /\ pc[p] = "secret"
  /\ \E failed \in BOOLEAN :
       /\ failed => faults < MaxBootFaults
       /\ faults' = IF failed THEN faults + 1 ELSE faults
       /\ LET stored == db.settings["auth.jwt_secret"]
          IN  IF failed \/ stored \in {Absent, Blank}
              THEN /\ pc' = [pc EXCEPT ![p] = "generate"]
                   /\ UNCHANGED <<secret, used>>
              ELSE /\ pc' = [pc EXCEPT ![p] = "serving"]
                   /\ secret' = [secret EXCEPT ![p] = stored]
                   /\ used' = used \union {stored}
  /\ UNCHANGED <<db, version, at, boots, shared, made, logins, chosen>>

\* A new secret is generated and stored; an error of the statement is ignored.
GenerateSecret(p) ==
  /\ pc[p] = "generate"
  /\ made' = made + 1
  /\ secret' = [secret EXCEPT ![p] = made + 1]
  /\ used' = used \union {made + 1}
  /\ \/ /\ db' = [db EXCEPT !.settings["auth.jwt_secret"] = made + 1]
        /\ UNCHANGED faults
     \/ /\ faults < MaxBootFaults
        /\ faults' = faults + 1
        /\ UNCHANGED db
  /\ pc' = [pc EXCEPT ![p] = "serving"]
  /\ UNCHANGED <<version, at, boots, shared, logins, chosen>>

-----------------------------------------------------------------------------
(* While it serves.                                                        *)

\* A handler stores a setting (INSERT ... ON CONFLICT DO UPDATE).
SaveSetting(p) ==
  /\ pc[p] = "serving"
  /\ \E k \in Edited, v \in Values \union {Blank} :
       /\ db' = [db EXCEPT !.settings[k] = v]
       /\ chosen' = [chosen EXCEPT ![k] = v]
  /\ UNCHANGED <<pc, version, at, secret, boots, faults, shared, made, used, logins>>

\* issueToken stores a session; the insert needs the new table.
StoreSession(p) ==
  /\ pc[p] = "serving"
  /\ db.schema = "new"
  /\ Cardinality(logins) < MaxLogins
  /\ LET row == Cardinality(logins) + 1
     IN  /\ db' = [db EXCEPT !.rows = @ \union {row}]
         /\ logins' = logins \union {row}
  /\ UNCHANGED <<pc, version, at, secret, boots, faults, shared, made, used, chosen>>

\* The process exits or is killed, at any moment.
Stop(p) ==
  /\ pc[p] # "down"
  /\ pc' = [pc EXCEPT ![p] = "down"]
  /\ UNCHANGED <<db, version, at, secret, boots, faults, shared, made, used, logins, chosen>>

BootStep(p) ==
  \/ Start(p) \/ Check(p) \/ Exec(p) \/ Record(p) \/ ReadSecret(p) \/ GenerateSecret(p)
  \/ SaveSetting(p) \/ StoreSession(p) \/ Stop(p)

BootNext == \E p \in Procs : BootStep(p)

BootSpec == BootInit /\ [][BootNext]_bootVars

-----------------------------------------------------------------------------
Setting == Values \union Nat \union {Absent, Blank}

BootTypeOK ==
  /\ db \in [applied : SUBSET Versions, schema : {"none", "old", "new"},
             rows : SUBSET (1..MaxLogins), settings : [Keys -> Setting]]
  /\ pc \in [Procs -> {"down", "check", "exec", "record", "secret", "generate",
                       "serving", "failed"}]
  /\ version \in [Procs -> 1..11]
  /\ at \in [Procs -> 1..3]
  /\ secret \in [Procs -> Nat \union {Blank}]
  /\ boots \in 0..MaxBoots
  /\ faults \in 0..MaxBootFaults
  /\ shared \in BOOLEAN
  /\ made \in Nat
  /\ used \in SUBSET Nat
  /\ logins \in SUBSET (1..MaxLogins)
  /\ chosen \in [Keys -> Setting]

(* Migrate never fails, whatever release left the database and wherever    *)
(* earlier starts were killed: a script that ran in part, or ran without   *)
(* being recorded, can be run again.  (Two processes that migrate at the   *)
(* same time can get in each other's way.)  A server that serves finds     *)
(* every migration applied, even when other processes start; and, alone,   *)
(* the sessions table in the schema its statements need, also on databases *)
(* that had recorded version 9 with the old table.                         *)
MigratesToCurrent ==
  \A p \in Procs :
    /\ pc[p] = "failed" => shared
    /\ pc[p] = "serving" =>
         /\ db.applied = Versions
         /\ \A k \in Keys : db.settings[k] # Absent
         /\ shared \/ db.schema = "new"

(* What was stored survives every start. Sessions: no start of a process   *)
(* that is alone drops one, and all servers, now and later, sign with the  *)
(* same secret, unless the statement that reads or stores it failed.       *)
(* Settings: what the user saved is never reset by a migration, not even   *)
(* by a second process that still migrates while the first one serves.     *)
ChoicesKept ==
  /\ ~shared => /\ db.rows = logins
                /\ faults = 0 => \A s, t \in used : s = t
  /\ \A k \in Keys : chosen[k] # Absent => db.settings[k] = chosen[k]
=============================================================================
