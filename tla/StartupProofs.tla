--------------------------- MODULE StartupProofs ---------------------------
(***************************************************************************)
(* Proofs about the start of the server, for any number of processes on    *)
(* the same database, any settings the user may edit, and any number of    *)
(* starts, kills, logins and failing statements; and, at the end, about    *)
(* the start together with the sessions and the limiter.                   *)
(***************************************************************************)
EXTENDS MCAuth, GateProofs, FiniteSetTheorems, TLAPS

Jwt == "auth.jwt_secret"

\* A process that executes a script is inside it.
Statements(v) == Len(Script[v])
InScript(p) ==
  /\ pc[p] \in {"exec", "record"} => version[p] \in Versions
  /\ pc[p] = "exec" => at[p] \in 1..Statements(version[p])

\* Migrations are recorded in order, and a process only passes what is recorded.
Closed == \A v \in db.applied : 1..v \subseteq db.applied
Passed(p) ==
  /\ \A v \in Versions : v < version[p] => v \in db.applied
  /\ pc[p] \in {"secret", "generate", "serving"} => db.applied = Versions

\* The settings that a recorded migration seeds have rows, as have those that a
\* process has seeded.
Present(v) == \A k \in Script[v][1].keys : db.settings[k] # Absent
SeedsPresent ==
  /\ \A v \in db.applied : Present(v)
  /\ \A p \in Procs :
       pc[p] = "record" \/ (pc[p] = "exec" /\ at[p] = 2) => Present(version[p])

\* The signing secret is only written by main; sessions are only stored once every
\* migration has been applied.
SecretApart == db.settings[Jwt] \in Nat \union {Absent, Blank} /\ chosen[Jwt] = Absent
LoginsLate == logins # {} => db.applied = Versions

\* What holds while no two processes have been up at the same time.
Alone ==
  /\ \A p, q \in Procs : pc[p] # "down" /\ pc[q] # "down" => p = q
  /\ 10 \in db.applied => db.schema = "new"
  /\ \A p \in Procs :
       /\ pc[p] # "failed"
       /\ pc[p] \in {"exec", "record"} => version[p] \notin db.applied
       /\ pc[p] = "exec" /\ version[p] \in {9, 10} /\ at[p] = 2 => db.schema = "none"
       /\ pc[p] = "record" /\ version[p] = 10 => db.schema = "new"
  /\ db.rows = logins
  /\ faults = 0 => /\ \A s \in used : s = db.settings[Jwt]
                   /\ \A p \in Procs : pc[p] = "generate" => db.settings[Jwt] \in {Absent, Blank}

Settled == \A k \in Keys : chosen[k] # Absent => db.settings[k] = chosen[k]

BootInv ==
  /\ BootTypeOK
  /\ \A p \in Procs : InScript(p) /\ Passed(p)
  /\ Closed
  /\ SeedsPresent
  /\ SecretApart
  /\ LoginsLate
  /\ Settled
  /\ ~shared => Alone

-----------------------------------------------------------------------------
\* What the ten scripts have in common: at most two statements, of which only the
\* first seeds settings; the table of the sessions is dropped, then created anew, by
\* the scripts 9 and 10 and by no other.
Ops == {"createOld", "other", "seed", "drop", "create"}
Database == [applied : SUBSET Versions, schema : {"none", "old", "new"},
             rows : SUBSET (1..MaxLogins), settings : [Keys -> Setting]]

LEMMA ScriptShape ==
  ASSUME NEW v \in Versions
  PROVE  /\ Statements(v) \in 1..2
         /\ \A i \in 1..Statements(v) :
              /\ Script[v][i].op \in Ops /\ Script[v][i].keys \subseteq Keys
              /\ Script[v][i].op # "seed" => Script[v][i].keys = {}
              /\ i = 2 => Script[v][i].keys = {}
              /\ Script[v][i].op = "drop" <=> v \in {9, 10} /\ i = 1
              /\ Script[v][i].op = "create" <=> v \in {9, 10} /\ i = 2
         /\ v \in {9, 10} => Statements(v) = 2
<1> USE DEF Ops, Statements
<1>1. CASE v = 1
  BY <1>1 DEF Script, Recreate, Stmt, Keys
<1>2. CASE v = 2
  BY <1>2 DEF Script, Recreate, Stmt, Keys
<1>3. CASE v = 3
  BY <1>3 DEF Script, Recreate, Stmt, Keys
<1>4. CASE v = 4
  BY <1>4 DEF Script, Recreate, Stmt, Keys
<1>5. CASE v = 5
  BY <1>5 DEF Script, Recreate, Stmt, Keys
<1>6. CASE v = 6
  BY <1>6 DEF Script, Recreate, Stmt, Keys
<1>7. CASE v = 7
  BY <1>7 DEF Script, Recreate, Stmt, Keys
<1>8. CASE v = 8
  BY <1>8 DEF Script, Recreate, Stmt, Keys
<1>9. CASE v = 9
  BY <1>9 DEF Script, Recreate, Stmt, Keys
<1>10. CASE v = 10
  BY <1>10 DEF Script, Recreate, Stmt, Keys
<1>11. QED
  BY <1>1, <1>2, <1>3, <1>4, <1>5, <1>6, <1>7, <1>8, <1>9, <1>10 DEF Versions

\* Together they seed every setting.
LEMMA EveryKeySeeded ==
  ASSUME NEW k \in Keys
  PROVE  \E v \in Versions : k \in Script[v][1].keys
<1>1. /\ "terminal.shell" \in Script[4][1].keys
      /\ "ansible.inventory" \in Script[5][1].keys
      /\ "auth.jwt_secret" \in Script[6][1].keys /\ "auth.bypass_token" \in Script[6][1].keys
      /\ "health.checks" \in Script[7][1].keys
      /\ "hardening.results" \in Script[8][1].keys
  BY DEF Script, Stmt
<1>2. QED
  BY <1>1 DEF Keys, Versions

\* A statement records no version; a setting that has a value keeps it, and one that
\* has none and is seeded becomes blank.
LEMMA RunEffect ==
  ASSUME NEW s, s.op \in Ops, s.keys \subseteq Keys, s.op # "seed" => s.keys = {},
         NEW d \in Database
  PROVE  /\ Run(s, d) \in Database
         /\ Run(s, d).applied = d.applied
         /\ \A k \in Keys : Run(s, d).settings[k] =
              IF k \in s.keys /\ d.settings[k] = Absent THEN Blank ELSE d.settings[k]
         /\ s.op # "drop" => Run(s, d).rows = d.rows
         /\ s.op = "drop" => Run(s, d).rows = {} /\ Run(s, d).schema = "none"
         /\ s.op = "create" => Run(s, d).schema = "new"
         /\ s.op \notin {"drop", "create"} /\ d.schema = "new" => Run(s, d).schema = "new"
<1> USE DEF Database
<1>1. CASE s.op = "createOld"
  BY <1>1 DEF Run
<1>2. CASE s.op = "seed"
  <2>1. Run(s, d) = [d EXCEPT !.settings = Seeded(d.settings, s.keys)]
    BY <1>2 DEF Run
  <2>2. Seeded(d.settings, s.keys) \in [Keys -> Setting]
    BY DEF Seeded, Setting
  <2>3. \A k \in Keys : Seeded(d.settings, s.keys)[k] =
                         IF k \in s.keys /\ d.settings[k] = Absent THEN Blank ELSE d.settings[k]
    BY DEF Seeded
  <2>4. QED
    BY <1>2, <2>1, <2>2, <2>3
<1>3. CASE s.op = "drop"
  BY <1>3 DEF Run
<1>4. CASE s.op = "create"
  BY <1>4 DEF Run
<1>5. CASE s.op = "other"
  BY <1>5 DEF Run
<1>6. QED
  BY <1>1, <1>2, <1>3, <1>4, <1>5 DEF Ops

-----------------------------------------------------------------------------
LEMMA BootInit_Inv == BootInit => BootInv
<1> SUFFICES ASSUME BootInit
             PROVE  BootInv
  OBVIOUS
<1> PICK k \in 0..10, left \in [Keys -> Values \union {Absent, Blank, 0}] :
      \E schema \in LeftSchema(k) :
         /\ \A key \in Keys : left[key] \in LeftValues(k, key)
         /\ db = [applied |-> 1..k, schema |-> schema, rows |-> {}, settings |-> left]
         /\ chosen = [key \in Keys |-> IF left[key] \in Values THEN left[key] ELSE Absent]
         /\ used = {left[Jwt]} \intersect {0}
  BY DEF BootInit, Jwt
<1>1. /\ \A key \in Keys : left[key] \in LeftValues(k, key)
      /\ db.applied = 1..k /\ db.schema \in {"none", "old", "new"} /\ db.rows = {}
      /\ k = 10 => db.schema = "new"
      /\ db.settings = left
      /\ db \in [applied : {1..k}, schema : {"none", "old", "new"}, rows : {{}}, settings : {left}]
      /\ chosen = [key \in Keys |-> IF left[key] \in Values THEN left[key] ELSE Absent]
      /\ used = {left[Jwt]} \intersect {0}
  BY DEF LeftSchema
<1>2. BootTypeOK
  <2>1. db \in Database
    BY <1>1 DEF Database, Setting, Versions
  <2>2. used \in SUBSET Nat /\ chosen \in [Keys -> Setting]
    BY <1>1 DEF Setting
  <2>3. /\ pc \in [Procs -> {"down", "check", "exec", "record", "secret", "generate",
                            "serving", "failed"}]
        /\ version \in [Procs -> 1..11]
        /\ at \in [Procs -> 1..3]
        /\ secret \in [Procs -> Nat \union {Blank}]
    BY DEF BootInit
  <2>4. /\ boots \in 0..MaxBoots
        /\ faults \in 0..MaxBootFaults
        /\ made \in Nat
    BY StartupAssumption DEF BootInit
  <2>5. shared \in BOOLEAN /\ logins \in SUBSET (1..MaxLogins)
    BY DEF BootInit
  <2>6. QED
    BY <2>1, <2>2, <2>3, <2>4, <2>5 DEF BootTypeOK, Database
<1>3. \A v \in 1..k : Present(v)
  <2> SUFFICES ASSUME NEW v \in 1..k, NEW key \in Script[v][1].keys
               PROVE  left[key] # Absent
    BY <1>1 DEF Present
  <2>1. key \in Keys
    <3>1. v \in Versions
      BY DEF Versions
    <3>2. 1 \in 1..Statements(v) /\ Script[v][1].keys \subseteq Keys
      BY <3>1, ScriptShape
    <3>3. QED
      BY <3>2
  <2>2. key \in SeededBy(k)
    BY DEF SeededBy
  <2>3. QED
    BY <1>1, <2>1, <2>2, StartupAssumption DEF LeftValues
<1>4. SecretApart
  BY <1>1, StartupAssumption DEF SecretApart, LeftValues, Jwt, Keys
<1>5. Settled
  BY <1>1 DEF Settled
<1>6. Alone
  BY <1>1 DEF BootInit, Alone
<1>7. \A p \in Procs : InScript(p) /\ Passed(p)
  BY DEF BootInit, InScript, Passed, Versions
<1>8. Closed /\ SeedsPresent /\ LoginsLate
  BY <1>1, <1>3 DEF BootInit, Closed, SeedsPresent, LoginsLate
<1>9. QED
  BY <1>2, <1>4, <1>5, <1>6, <1>7, <1>8 DEF BootInv

\* Start, Check and Stop leave the file alone.
LEMMA QuietStep ==
  ASSUME BootInv, NEW p \in Procs, Start(p) \/ Check(p) \/ Stop(p)
  PROVE  BootInv'
<1> USE DEF BootInv
<1>0. UNCHANGED <<db, faults, made, used, logins, chosen>>
  BY DEF Start, Check, Stop
<1>1. CASE Start(p)
  <2>1. BootTypeOK'
    BY <1>0, <1>1, StartupAssumption DEF Start, BootTypeOK
  <2>2. \A q \in Procs : InScript(q)' /\ Passed(q)'
    BY <1>0, <1>1 DEF Start, BootTypeOK, InScript, Passed, Versions
  <2>3. SeedsPresent'
    BY <1>0, <1>1 DEF Start, BootTypeOK, SeedsPresent, Present
  <2>4. ~shared' => Alone'
    BY <1>0, <1>1 DEF Start, BootTypeOK, Alone
  <2>5. QED
    BY <1>0, <2>1, <2>2, <2>3, <2>4 DEF Closed, SecretApart, LoginsLate, Settled
<1>2. CASE Check(p)
  <2>1. BootTypeOK'
    BY <1>0, <1>2 DEF Check, BootTypeOK, Versions
  <2>2. \A q \in Procs : InScript(q)' /\ Passed(q)'
    <3>1. \A q \in Procs \ {p} : InScript(q)' /\ Passed(q)'
      BY <1>0, <1>2 DEF Check, BootTypeOK, InScript, Passed
    <3>2. CASE version[p] \notin Versions
      BY <1>0, <1>2, <3>1, <3>2 DEF Check, BootTypeOK, InScript, Passed, Versions
    <3>3. CASE version[p] \in Versions /\ version[p] \in db.applied
      BY <1>0, <1>2, <3>1, <3>3 DEF Check, BootTypeOK, InScript, Passed, Versions
    <3>4. CASE version[p] \in Versions /\ version[p] \notin db.applied
      <4>1. 1 \in 1..Statements(version[p])
        BY <3>4, ScriptShape
      <4>2. QED
        BY <1>0, <1>2, <3>1, <3>4, <4>1 DEF Check, BootTypeOK, InScript, Passed
    <3>5. QED
      BY <3>2, <3>3, <3>4
  <2>3. SeedsPresent'
    BY <1>0, <1>2 DEF Check, BootTypeOK, SeedsPresent, Present
  <2>4. ~shared' => Alone'
    BY <1>0, <1>2 DEF Check, BootTypeOK, Alone
  <2>5. QED
    BY <1>0, <2>1, <2>2, <2>3, <2>4 DEF Closed, SecretApart, LoginsLate, Settled
<1>3. CASE Stop(p)
  <2>1. BootTypeOK' /\ \A q \in Procs : InScript(q)' /\ Passed(q)'
    BY <1>0, <1>3 DEF Stop, BootTypeOK, InScript, Passed
  <2>2. SeedsPresent' /\ (~shared' => Alone')
    BY <1>0, <1>3 DEF Stop, BootTypeOK, SeedsPresent, Present, Alone
  <2>3. QED
    BY <1>0, <2>1, <2>2 DEF Closed, SecretApart, LoginsLate, Settled
<1>4. QED
  BY <1>1, <1>2, <1>3

LEMMA ExecStep ==
  ASSUME BootInv, NEW p \in Procs, Exec(p)
  PROVE  BootInv'
<1> DEFINE v == version[p]
           i == at[p]
           s == Script[v][i]
<1> USE DEF BootInv
<1>0. /\ v \in Versions /\ i \in 1..Statements(v) /\ Statements(v) \in 1..2 /\ pc[p] = "exec"
      /\ UNCHANGED <<version, secret, boots, faults, shared, made, used, logins, chosen>>
  BY ScriptShape DEF Exec, InScript
<1>1. /\ s.op \in Ops /\ s.keys \subseteq Keys
      /\ s.op # "seed" => s.keys = {}
      /\ i = 2 => s.keys = {}
      /\ s.op = "drop" <=> v \in {9, 10} /\ i = 1
      /\ s.op = "create" <=> v \in {9, 10} /\ i = 2
      /\ v \in {9, 10} => Statements(v) = 2
      /\ \A k \in Script[v][1].keys : k \in Keys
  BY <1>0, ScriptShape
<1>2. CASE ~Works(s, db)
  <2>1. pc' = [pc EXCEPT ![p] = "failed"] /\ UNCHANGED <<db, at>>
    BY <1>2 DEF Exec
  <2>2. shared
    BY <1>0, <1>1, <1>2 DEF Works, Alone
  <2>3. QED
    BY <1>0, <2>1, <2>2 DEF BootTypeOK, InScript, Passed, Closed, SeedsPresent, Present,
       SecretApart, LoginsLate, Settled
<1>3. CASE Works(s, db)
  <2>1. /\ db' = Run(s, db)
        /\ at' = [at EXCEPT ![p] = i + 1]
        /\ pc' = [pc EXCEPT ![p] = IF i = Statements(v) THEN "record" ELSE "exec"]
    BY <1>3 DEF Exec, Statements
  <2>2. /\ db' \in Database
        /\ db'.applied = db.applied
        /\ \A k \in Keys : db'.settings[k] =
             IF k \in s.keys /\ db.settings[k] = Absent THEN Blank ELSE db.settings[k]
        /\ s.op # "drop" => db'.rows = db.rows
        /\ s.op = "drop" => db'.rows = {} /\ db'.schema = "none"
        /\ s.op = "create" => db'.schema = "new"
        /\ s.op \notin {"drop", "create"} /\ db.schema = "new" => db'.schema = "new"
    <3>1. db \in Database
      BY DEF BootTypeOK, Database
    <3>2. s.op \in Ops /\ s.keys \subseteq Keys /\ (s.op # "seed" => s.keys = {})
      BY <1>1
    <3> HIDE DEF s
    <3>3. QED
      BY <2>1, <3>1, <3>2, RunEffect
  <2> HIDE DEF s
  <2>3. BootTypeOK'
    <3>1. i + 1 \in 1..3
      BY <1>0
    <3>2. QED
      BY <1>0, <2>1, <2>2, <3>1 DEF BootTypeOK, Database
  <2>4. \A q \in Procs : InScript(q)' /\ Passed(q)'
    BY <1>0, <2>1, <2>2 DEF BootTypeOK, InScript, Passed
  <2>5. Closed' /\ LoginsLate'
    BY <1>0, <2>2 DEF Closed, LoginsLate
  <2>6. \A w \in Versions : Present(w) => Present(w)'
    BY <2>2, ScriptShape, StartupAssumption DEF Present
  <2>7. Present(v)'
    <3>1. CASE i = 1
      BY <1>0, <1>1, <2>2, <3>1, StartupAssumption DEF Present, s
    <3>2. CASE i = 2
      BY <1>0, <2>6, <3>2 DEF SeedsPresent
    <3>3. i = 1 \/ i = 2
      BY <1>0
    <3>4. QED
      BY <3>1, <3>2, <3>3
  <2>8. SeedsPresent'
    <3>1. \A q \in Procs \ {p} : pc'[q] = pc[q] /\ at'[q] = at[q] /\ version'[q] = version[q]
      BY <1>0, <2>1 DEF BootTypeOK
    <3>2. \A w \in db'.applied : Present(w)'
      BY <2>2, <2>6 DEF SeedsPresent, BootTypeOK
    <3>3. \A q \in Procs : pc[q] \in {"exec", "record"} => version[q] \in Versions
      BY DEF InScript
    <3>4. \A q \in Procs \ {p} : pc'[q] = "record" \/ (pc'[q] = "exec" /\ at'[q] = 2)
                                => Present(version[q])'
      BY <1>0, <2>6, <3>1, <3>3 DEF SeedsPresent
    <3>5. QED
      BY <1>0, <2>7, <3>2, <3>4 DEF SeedsPresent
  <2>9. SecretApart'
    BY <1>0, <2>2 DEF SecretApart, Jwt, Keys
  <2>10. Settled'
    BY <1>0, <2>2 DEF Settled
  <2>11. ~shared' => Alone'
    <3> SUFFICES ASSUME ~shared PROVE Alone'
      BY <1>0
    <3>1. /\ v \notin db.applied /\ 10 \notin db.applied
          /\ logins = {} /\ db.rows = {}
          /\ \A q \in Procs \ {p} : pc[q] = "down" /\ pc'[q] = "down"
          /\ pc'[p] # "down"
      BY <1>0, <2>1 DEF Alone, LoginsLate, Closed, Versions, BootTypeOK
    <3>2. db'.rows = {} /\ (i = 2 /\ v = 10 => db'.schema = "new")
      BY <1>1, <2>2, <3>1
    <3>3. /\ pc'[p] = "exec" => i = 1 /\ at'[p] = 2
          /\ pc'[p] = "record" => i = Statements(v)
          /\ pc'[p] \in {"exec", "record"}
      <4>1. i = 1 \/ i = Statements(v)
        BY <1>0
      <4>2. QED
        BY <2>1, <4>1 DEF BootTypeOK
    <3>4. pc'[p] = "exec" /\ v \in {9, 10} => db'.schema = "none"
      BY <1>1, <2>2, <3>3
    <3>5. faults = 0 => \A t \in used : t = db'.settings[Jwt]
      BY <2>2, StartupAssumption DEF Alone, BootTypeOK, Jwt, Keys
    <3>6. QED
      BY <1>0, <1>1, <2>2, <3>1, <3>2, <3>3, <3>4, <3>5 DEF Alone
  <2>12. QED
    BY <2>3, <2>4, <2>5, <2>8, <2>9, <2>10, <2>11
<1>4. QED
  BY <1>2, <1>3

LEMMA RecordStep ==
  ASSUME BootInv, NEW p \in Procs, Record(p)
  PROVE  BootInv'
<1> DEFINE v == version[p]
<1> USE DEF BootInv
<1>0. /\ v \in Versions /\ pc[p] = "record"
      /\ UNCHANGED <<at, secret, boots, faults, shared, made, used, logins, chosen>>
  BY DEF Record, InScript
<1>1. CASE v \in db.applied
  <2>1. pc' = [pc EXCEPT ![p] = "failed"] /\ UNCHANGED <<db, version>>
    BY <1>1 DEF Record
  <2>2. shared
    BY <1>0, <1>1 DEF Alone
  <2>3. QED
    BY <1>0, <2>1, <2>2 DEF BootTypeOK, InScript, Passed, Closed, SeedsPresent, Present,
       SecretApart, LoginsLate, Settled
<1>2. CASE v \notin db.applied
  <2>1. /\ db' = [db EXCEPT !.applied = @ \union {v}]
        /\ version' = [version EXCEPT ![p] = v + 1]
        /\ pc' = [pc EXCEPT ![p] = "check"]
    BY <1>2 DEF Record
  <2>2. /\ db' \in Database /\ db'.applied = db.applied \union {v}
        /\ db'.schema = db.schema /\ db'.rows = db.rows /\ db'.settings = db.settings
    BY <1>0, <2>1 DEF BootTypeOK, Database
  <2>3. BootTypeOK'
    <3>1. v + 1 \in 1..11
      BY <1>0 DEF Versions
    <3>2. QED
      BY <1>0, <2>1, <2>2, <3>1 DEF BootTypeOK, Database
  <2>4. \A q \in Procs : InScript(q)' /\ Passed(q)'
    BY <1>0, <2>1, <2>2 DEF BootTypeOK, InScript, Passed, Versions
  <2>5. Closed'
    BY <1>0, <2>2 DEF Closed, Passed, Versions
  <2>6. SeedsPresent'
    BY <1>0, <2>1, <2>2 DEF BootTypeOK, SeedsPresent, Present
  <2>7. SecretApart' /\ Settled'
    BY <1>0, <2>2 DEF SecretApart, Settled
  <2>8. LoginsLate'
    BY <1>0, <2>2 DEF LoginsLate
  <2>9. ~shared' => Alone'
    <3> SUFFICES ASSUME ~shared PROVE Alone'
      BY <1>0
    <3>1. \A q \in Procs \ {p} : pc[q] = "down" /\ pc'[q] = "down"
      BY <1>0, <2>1 DEF Alone, BootTypeOK
    <3>2. pc'[p] = "check" /\ (10 \in db'.applied => db'.schema = "new")
      BY <1>0, <2>1, <2>2 DEF Alone, BootTypeOK
    <3>3. QED
      BY <1>0, <2>2, <3>1, <3>2 DEF Alone
  <2>10. QED
    BY <2>3, <2>4, <2>5, <2>6, <2>7, <2>8, <2>9
<1>3. QED
  BY <1>1, <1>2

\* The steps of main behind Migrate.
LEMMA SecretStep ==
  ASSUME BootInv, NEW p \in Procs, ReadSecret(p) \/ GenerateSecret(p)
  PROVE  BootInv'
<1> USE DEF BootInv
<1>0. /\ UNCHANGED <<version, at, boots, shared, logins, chosen>>
      /\ faults' \in 0..MaxBootFaults /\ (faults' = 0 => faults = 0)
  BY StartupAssumption DEF ReadSecret, GenerateSecret, BootTypeOK
<1>1. CASE ReadSecret(p)
  <2>1. UNCHANGED <<db, made>> /\ pc[p] = "secret"
    BY <1>1 DEF ReadSecret
  <2>2. \/ /\ pc' = [pc EXCEPT ![p] = "generate"] /\ UNCHANGED <<secret, used>>
           /\ faults' = 0 => db.settings[Jwt] \in {Absent, Blank}
        \/ /\ pc' = [pc EXCEPT ![p] = "serving"]
           /\ db.settings[Jwt] \in Nat
           /\ secret' = [secret EXCEPT ![p] = db.settings[Jwt]]
           /\ used' = used \union {db.settings[Jwt]}
    BY <1>1 DEF ReadSecret, SecretApart, Jwt, BootTypeOK
  <2>3. BootTypeOK'
    BY <1>0, <2>1, <2>2 DEF BootTypeOK
  <2>4. \A q \in Procs : InScript(q)' /\ Passed(q)'
    BY <1>0, <2>1, <2>2 DEF BootTypeOK, InScript, Passed
  <2>5. Closed' /\ SeedsPresent' /\ SecretApart' /\ LoginsLate' /\ Settled'
    BY <1>0, <2>1, <2>2 DEF BootTypeOK, Closed, SeedsPresent, Present, SecretApart, LoginsLate, Settled
  <2>6. ~shared' => Alone'
    BY <1>0, <2>1, <2>2, ZenonT(60) DEF Alone, BootTypeOK
  <2>7. QED
    BY <2>3, <2>4, <2>5, <2>6
<1>2. CASE GenerateSecret(p)
  <2>1. /\ pc[p] = "generate" /\ pc' = [pc EXCEPT ![p] = "serving"]
        /\ made' = made + 1 /\ made + 1 \in Nat
        /\ secret' = [secret EXCEPT ![p] = made + 1]
        /\ used' = used \union {made + 1}
        /\ db' = [db EXCEPT !.settings[Jwt] = made + 1] \/ (faults' # 0 /\ UNCHANGED db)
    BY <1>2 DEF GenerateSecret, Jwt, BootTypeOK
  <2>2. /\ db' \in Database
        /\ db'.applied = db.applied /\ db'.schema = db.schema /\ db'.rows = db.rows
        /\ \A k \in Keys \ {Jwt} : db'.settings[k] = db.settings[k]
        /\ db'.settings[Jwt] \in {made + 1, db.settings[Jwt]}
        /\ faults' = 0 => db'.settings[Jwt] = made + 1
    BY <2>1 DEF BootTypeOK, Database, Setting, Jwt, Keys
  <2>3. BootTypeOK'
    BY <1>0, <2>1, <2>2 DEF BootTypeOK, Database
  <2>4. \A q \in Procs : InScript(q)' /\ Passed(q)'
    BY <1>0, <2>1, <2>2 DEF BootTypeOK, InScript, Passed
  <2>5. Closed' /\ LoginsLate' /\ SecretApart' /\ Settled'
    BY <1>0, <2>1, <2>2 DEF Closed, LoginsLate, SecretApart, Settled
  <2>6. SeedsPresent'
    <3>1. \A w \in Versions : Present(w) => Present(w)'
      <4>1. made + 1 # Absent
        BY <2>1, StartupAssumption
      <4>2. \A w \in Versions : Script[w][1].keys \subseteq Keys
        BY ScriptShape
      <4>3. QED
        BY <2>2, <4>1, <4>2 DEF Present
    <3>2. \A q \in Procs : pc'[q] = "record" \/ (pc'[q] = "exec" /\ at'[q] = 2)
                          => Present(version[q]) /\ version[q] \in Versions
      BY <1>0, <2>1 DEF BootTypeOK, SeedsPresent, InScript
    <3>3. \A w \in db'.applied : Present(w) /\ w \in Versions
      BY <2>2 DEF SeedsPresent, BootTypeOK
    <3>4. QED
      BY <1>0, <3>1, <3>2, <3>3 DEF SeedsPresent
  <2>7. ~shared' => Alone'
    <3> SUFFICES ASSUME ~shared PROVE Alone'
      BY <1>0
    <3>1. /\ \A q \in Procs \ {p} : pc[q] = "down" /\ pc'[q] = "down"
          /\ pc'[p] = "serving"
      BY <2>1 DEF Alone, BootTypeOK
    <3>2. faults' = 0 => used = {}
      BY <1>0, <2>1, StartupAssumption DEF Alone, BootTypeOK
    <3>3. QED
      BY <1>0, <2>1, <2>2, <3>1, <3>2 DEF Alone
  <2>8. QED
    BY <2>3, <2>4, <2>5, <2>6, <2>7
<1>3. QED
  BY <1>1, <1>2

\* What a server does while it serves.
LEMMA ServingStep ==
  ASSUME BootInv, NEW p \in Procs, SaveSetting(p) \/ StoreSession(p)
  PROVE  BootInv'
<1> USE DEF BootInv
<1>0. /\ pc[p] = "serving" /\ db.applied = Versions
      /\ UNCHANGED <<pc, version, at, secret, boots, faults, shared, made, used>>
  BY DEF SaveSetting, StoreSession, Passed
<1>1. CASE SaveSetting(p)
  <2>1. PICK k \in Edited, x \in Values \union {Blank} :
           /\ db' = [db EXCEPT !.settings[k] = x]
           /\ chosen' = [chosen EXCEPT ![k] = x]
    BY <1>1 DEF SaveSetting
  <2>2. k \in Keys /\ k # Jwt /\ x # Absent /\ x \in Setting
    BY StartupAssumption DEF Jwt, Setting
  <2>3. /\ db' \in Database
        /\ db'.applied = db.applied /\ db'.schema = db.schema /\ db'.rows = db.rows
        /\ db'.settings[k] = x /\ chosen'[k] = x
        /\ \A l \in Keys \ {k} : db'.settings[l] = db.settings[l] /\ chosen'[l] = chosen[l]
        /\ chosen' \in [Keys -> Setting]
        /\ UNCHANGED logins
    BY <1>1, <2>1, <2>2 DEF BootTypeOK, Database, SaveSetting
  <2>4. BootTypeOK'
    BY <1>0, <2>3 DEF BootTypeOK, Database
  <2>5. \A q \in Procs : InScript(q)' /\ Passed(q)'
    BY <1>0, <2>3 DEF InScript, Passed
  <2>6. Closed' /\ LoginsLate' /\ Settled'
    BY <1>0, <2>3 DEF Closed, LoginsLate, Settled
  <2>7. SecretApart' /\ db'.settings[Jwt] = db.settings[Jwt]
    BY <2>2, <2>3 DEF SecretApart, Jwt, Keys
  <2>8. \A w \in Versions : Present(w) => Present(w)'
    <3>1. \A w \in Versions : Script[w][1].keys \subseteq Keys
      BY ScriptShape
    <3>2. QED
      BY <2>2, <2>3, <3>1 DEF Present
  <2>9. SeedsPresent'
    <3>1. \A q \in Procs : pc[q] \in {"exec", "record"} => version[q] \in Versions
      BY DEF InScript
    <3>2. QED
      BY <1>0, <2>3, <2>8, <3>1 DEF SeedsPresent
  <2>10. ~shared' => Alone'
    BY <1>0, <2>3, <2>7 DEF Alone
  <2>11. QED
    BY <2>4, <2>5, <2>6, <2>7, <2>9, <2>10
<1>2. CASE StoreSession(p)
  <2> DEFINE row == Cardinality(logins) + 1
  <2>1. row \in 1..MaxLogins
    <3>1. IsFiniteSet(1..MaxLogins)
      BY StartupAssumption, FS_Interval
    <3>2. Cardinality(logins) \in Nat
      BY <3>1, FS_Subset, FS_CardinalityType DEF BootTypeOK
    <3>3. Cardinality(logins) < MaxLogins
      BY <1>2 DEF StoreSession
    <3>4. QED
      BY <3>2, <3>3, StartupAssumption
  <2>2. /\ db' = [db EXCEPT !.rows = @ \union {row}]
        /\ logins' = logins \union {row} /\ UNCHANGED chosen
    BY <1>2 DEF StoreSession
  <2> HIDE DEF row
  <2>3. /\ db' \in Database
        /\ db'.applied = db.applied /\ db'.schema = db.schema /\ db'.settings = db.settings
        /\ db'.rows = db.rows \union {row}
    BY <2>1, <2>2 DEF BootTypeOK, Database
  <2>4. BootTypeOK'
    BY <1>0, <2>1, <2>2, <2>3 DEF BootTypeOK, Database
  <2>5. \A q \in Procs : InScript(q)' /\ Passed(q)'
    BY <1>0, <2>3 DEF InScript, Passed
  <2>6. Closed' /\ SeedsPresent' /\ SecretApart' /\ LoginsLate' /\ Settled'
    BY <1>0, <2>2, <2>3 DEF Closed, SeedsPresent, Present, SecretApart, LoginsLate, Settled
  <2>7. ~shared' => Alone'
    BY <1>0, <2>2, <2>3 DEF Alone
  <2>8. QED
    BY <2>4, <2>5, <2>6, <2>7
<1>3. QED
  BY <1>1, <1>2

LEMMA BootInvStep == BootInv /\ [BootNext]_bootVars => BootInv'
<1> SUFFICES ASSUME BootInv, [BootNext]_bootVars
             PROVE  BootInv'
  OBVIOUS
<1>1. ASSUME NEW p \in Procs, BootStep(p) PROVE BootInv'
  BY <1>1, QuietStep, ExecStep, RecordStep, SecretStep, ServingStep DEF BootStep
<1>2. CASE UNCHANGED bootVars
  BY <1>2 DEF bootVars, BootInv, BootTypeOK, InScript, Passed, Closed, SeedsPresent, Present,
     SecretApart, LoginsLate, Settled, Alone
<1>3. QED
  BY <1>1, <1>2 DEF BootNext

LEMMA AlwaysBootInv == BootSpec => []BootInv
BY BootInvStep, BootInit_Inv, PTL DEF BootSpec

\* The variables of a start keep their types: no process runs past the end of a
\* script or past the last migration.
THEOREM BootTypeCorrect == BootSpec => []BootTypeOK
BY AlwaysBootInv, PTL DEF BootInv

\* Migrate never fails for a process that is alone, whatever was killed before, and
\* a server that serves finds every migration applied, every setting present and,
\* alone, the sessions table in its new schema.
THEOREM AlwaysMigratesToCurrent == BootSpec => []MigratesToCurrent
<1>1. BootInv => MigratesToCurrent
  <2> SUFFICES ASSUME BootInv, NEW p \in Procs
               PROVE  /\ pc[p] = "failed" => shared
                      /\ pc[p] = "serving" =>
                           /\ db.applied = Versions
                           /\ \A k \in Keys : db.settings[k] # Absent
                           /\ shared \/ db.schema = "new"
    BY DEF MigratesToCurrent
  <2> USE DEF BootInv
  <2>1. pc[p] = "failed" => shared
    BY DEF Alone
  <2>2. ASSUME pc[p] = "serving" PROVE db.applied = Versions
    BY <2>2 DEF Passed
  <2>3. ASSUME pc[p] = "serving", NEW k \in Keys PROVE db.settings[k] # Absent
    BY <2>2, <2>3, EveryKeySeeded DEF SeedsPresent, Present
  <2>4. ASSUME pc[p] = "serving" PROVE shared \/ db.schema = "new"
    BY <2>2, <2>4 DEF Alone, Versions
  <2>5. QED
    BY <2>1, <2>2, <2>3, <2>4
<1>2. QED
  BY <1>1, AlwaysBootInv, PTL

\* No start drops a session or changes the signing secret of servers that are alone,
\* and no migration ever resets a setting the user saved.
THEOREM ChoicesAlwaysKept == BootSpec => []ChoicesKept
<1>1. BootInv => ChoicesKept
  BY DEF BootInv, Alone, Settled, ChoicesKept
<1>2. QED
  BY <1>1, AlwaysBootInv, PTL

-----------------------------------------------------------------------------
(* Start, sessions and limiter together: a step of one is a stutter of the *)
(* others.                                                                 *)

AuthInv == SessionInv /\ LimiterTypeOK /\ BootInv

\* The variables of the three keep their types, whichever of them moves: every stored
\* session was signed, every login that is checked has a user and is counted for an
\* address, and no database is past the last migration.
THEOREM AuthTypeCorrect == AuthSpec => []AuthTypeOK
<1>1. AuthInit => AuthInv
  BY SessionInit, TypeInit, BootInit_Inv DEF AuthInit, AuthInv
<1>2. AuthInv /\ [AuthNext]_authVars => AuthInv'
  <2> SUFFICES ASSUME AuthInv, [AuthNext]_authVars
               PROVE  AuthInv'
    OBVIOUS
  <2>1. [Next]_vars /\ [LimiterNext]_limiterVars /\ [BootNext]_bootVars
    BY DEF AuthNext, authVars
  <2>2. QED
    BY <2>1, SessionStep, TypeStep, BootInvStep DEF AuthInv
<1>3. AuthInv => AuthTypeOK
  BY DEF AuthInv, AuthTypeOK, SessionInv, BootInv
<1>4. QED
  BY <1>1, <1>2, <1>3, PTL DEF AuthSpec
=============================================================================
