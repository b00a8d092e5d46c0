---------------------------- MODULE DbConnections ----------------------------
(***************************************************************************)
(* The database browser (internal/api/handlers/databases.go,               *)
(* internal/system/databases/).  The handlers share a map from driver to   *)
(* connection object.  A MySQL object is a pool: every statement takes the *)
(* free connection that was put back last, or opens one, and puts it back. *)
(* A PostgreSQL object is a single connection: a statement that finds it   *)
(* busy fails, and one whose client leaves closes it.                      *)
(***************************************************************************)
EXTENDS Naturals, Sequences, SequencesExt, FiniteSets

CONSTANTS
  Queries,    \* requests that may be in flight at the same time
  Databases,  \* databases a query may select
  NoDb,       \* no database selected
  MaxIdle,    \* free connections a pool keeps (2, the default)
  MaxDials,   \* bound of the model: connection objects ever opened
  MaxQueries  \* bound of the model: queries

ASSUME DbAssumption ==
  /\ NoDb \notin Databases
  /\ MaxIdle \in Nat \ {0}
  /\ MaxDials \in Nat /\ MaxQueries \in Nat

VARIABLES
  connections, \* the map: driver -> connection object, 0 when there is none
  dialed,      \* objects opened so far; object o is dialed[o], its driver
  alive,       \* objects that have not been closed
  free,        \* object -> its free connections, each named by its database
  serving,     \* slot -> the request being served
  asked,       \* number of queries so far
  abandoned    \* history: objects closed by a client that left

dbVars == <<connections, dialed, alive, free, serving, asked, abandoned>>

Drivers == {"mysql", "postgres"}
Objects == 1..Len(dialed)

\* phase "dialed"  Connect: the new object is to be stored
\*       "loaded"  Query: the object is read from the map
\*       "using"   USE runs on a connection, "used" it was put back
\*       "running" the statement itself runs on a connection
\*       "closing", "deleting" Disconnect: close, then remove from the map
\* on is the database of the connection held; alone, that no other request used
\* the object since this one began.
Unused == [phase |-> "idle", driver |-> "mysql", object |-> 0, want |-> NoDb, on |-> NoDb,
           alone |-> TRUE]

DbInit ==
  /\ connections = [d \in Drivers |-> 0]
  /\ dialed = <<>>
  /\ alive = {}
  /\ free = <<>>
  /\ serving = [q \in Queries |-> Unused]
  /\ asked = 0
  /\ abandoned = {}

On(o) == {q \in Queries : serving[q].object = o /\
                          serving[q].phase \in {"loaded", "using", "used", "running"}}
Goto(q, phase) == serving' = [serving EXCEPT ![q].phase = phase]
EndRequest(q) == serving' = [serving EXCEPT ![q] = Unused]

-----------------------------------------------------------------------------
\* databases.Connect: sql.Open and a ping, which leaves one free connection.
Dial(q) ==
  /\ serving[q].phase = "idle"
  /\ Len(dialed) < MaxDials
  /\ \E d \in Drivers :
       /\ dialed' = Append(dialed, d)
       /\ serving' = [serving EXCEPT ![q] =
                        [Unused EXCEPT !.phase = "dialed", !.driver = d, !.object = Len(dialed) + 1]]
  /\ alive' = alive \union {Len(dialed) + 1}
  /\ free' = Append(free, <<NoDb>>)
  /\ UNCHANGED <<connections, asked, abandoned>>

\* connections.Store: whatever was there is forgotten.
Store(q) ==
  /\ serving[q].phase = "dialed"
  /\ connections' = [connections EXCEPT ![serving[q].driver] = serving[q].object]
  /\ EndRequest(q)
  /\ UNCHANGED <<dialed, alive, free, asked, abandoned>>

\* Disconnect: load, close, delete.
Unload(q) ==
  /\ serving[q].phase = "idle"
  /\ \E d \in Drivers :
       /\ connections[d] # 0
       /\ serving' = [serving EXCEPT ![q] = [Unused EXCEPT !.phase = "closing", !.driver = d,
                                                           !.object = connections[d]]]
  /\ UNCHANGED <<connections, dialed, alive, free, asked, abandoned>>

\* Slip: the object is closed and left in the map.
CloseOnly(q) ==
  /\ serving[q].phase = "closing"
  /\ alive' = alive \ {serving[q].object}
  /\ free' = [free EXCEPT ![serving[q].object] = <<>>]
  /\ EndRequest(q)
  /\ UNCHANGED <<connections, dialed, asked, abandoned>>

Close(q) ==
  /\ serving[q].phase = "closing"
  /\ alive' = alive \ {serving[q].object}
  /\ free' = [free EXCEPT ![serving[q].object] = <<>>]
  /\ Goto(q, "deleting")
  /\ UNCHANGED <<connections, dialed, asked, abandoned>>

Delete(q) ==
  /\ serving[q].phase = "deleting"
  /\ connections' = [connections EXCEPT ![serving[q].driver] = 0]
  /\ EndRequest(q)
  /\ UNCHANGED <<dialed, alive, free, asked, abandoned>>

-----------------------------------------------------------------------------
\* Query, ListDatabases and ListTables (which select no database): getConn.
Ask(q) ==
  /\ serving[q].phase = "idle"
  /\ asked < MaxQueries
  /\ asked' = asked + 1
  /\ \E d \in Drivers, db \in Databases \union {NoDb} :
       LET o == connections[d] IN
       /\ o # 0
       /\ serving' = [p \in Queries |->
            IF p = q
            THEN [Unused EXCEPT !.phase = "loaded", !.driver = d, !.object = o, !.want = db,
                                !.alone = (On(o) = {})]
            ELSE [serving[p] EXCEPT !.alone = @ /\ p \notin On(o)]]
  /\ UNCHANGED <<connections, dialed, alive, free, abandoned>>

\* The pool hands out the connection put back last, or opens a new one.
Taken(o) == IF free[o] = <<>> THEN NoDb ELSE Last(free[o])
Rest(o) == IF free[o] = <<>> THEN <<>> ELSE Front(free[o])

\* Slip: a connection is put back at the other end.
PutBackFirst(o, db) == IF o \in alive /\ Len(free[o]) < MaxIdle THEN <<db>> \o free[o] ELSE free[o]

\* A connection beyond MaxIdle, or of a closed object, is not kept.
PutBack(o, db) == IF o \in alive /\ Len(free[o]) < MaxIdle THEN Append(free[o], db) ELSE free[o]

\* ExecContext "USE db" on some connection of the pool ...
Use(q) ==
  LET r == serving[q] IN
  /\ r.phase = "loaded"
  /\ r.driver = "mysql" /\ r.want # NoDb
  /\ r.object \in alive
  /\ free' = [free EXCEPT ![r.object] = Rest(r.object)]
  /\ serving' = [serving EXCEPT ![q].phase = "using", ![q].on = r.want]
  /\ UNCHANGED <<connections, dialed, alive, asked, abandoned>>

\* ... which is put back when the statement has ended.
UseDone(q) ==
  LET r == serving[q] IN
  /\ r.phase = "using"
  /\ free' = [free EXCEPT ![r.object] = PutBack(r.object, r.on)]
  /\ serving' = [serving EXCEPT ![q].phase = "used", ![q].on = NoDb]
  /\ UNCHANGED <<connections, dialed, alive, asked, abandoned>>

\* The statement starts: on a connection of the pool, or on the only one.
Run(q) ==
  LET r == serving[q]
      o == r.object
  IN
  /\ o \in alive
  /\ \/ /\ r.driver = "mysql"
        /\ r.phase = IF r.want = NoDb THEN "loaded" ELSE "used"
        /\ serving' = [serving EXCEPT ![q].phase = "running", ![q].on = Taken(o)]
        /\ free' = [free EXCEPT ![o] = Rest(o)]
     \/ /\ r.driver = "postgres"
        /\ r.phase = "loaded"
        /\ \A p \in On(o) : serving[p].phase # "running"
        /\ Goto(q, "running")
        /\ UNCHANGED free
  /\ UNCHANGED <<connections, dialed, alive, asked, abandoned>>

\* The rows are read and closed; the connection is put back.
RunDone(q) ==
  LET r == serving[q] IN
  /\ r.phase = "running"
  /\ free' = IF r.driver = "mysql" THEN [free EXCEPT ![r.object] = PutBack(r.object, r.on)] ELSE free
  /\ EndRequest(q)
  /\ UNCHANGED <<connections, dialed, alive, asked, abandoned>>

\* The object is closed, the connection busy, the statement wrong.
QueryFails(q) ==
  /\ serving[q].phase \in {"loaded", "used"}
  /\ EndRequest(q)
  /\ UNCHANGED <<connections, dialed, alive, free, asked, abandoned>>

\* The client leaves while its statement runs: the connection is closed.
ClientLeaves(q) ==
  LET r == serving[q] IN
  /\ r.phase \in {"using", "running"}
  /\ EndRequest(q)
  /\ IF r.driver = "postgres"
     THEN alive' = alive \ {r.object} /\ abandoned' = abandoned \union {r.object}
     ELSE UNCHANGED <<alive, abandoned>>
  /\ UNCHANGED <<connections, dialed, free, asked>>

DbNext ==
  \E q \in Queries :
    \/ Dial(q) \/ Store(q) \/ Unload(q) \/ Close(q) \/ Delete(q)
    \/ Ask(q) \/ Use(q) \/ UseDone(q) \/ Run(q) \/ RunDone(q) \/ QueryFails(q) \/ ClientLeaves(q)

DbSpec == DbInit /\ [][DbNext]_dbVars

-----------------------------------------------------------------------------
DbTypeOK ==
  /\ connections \in [Drivers -> 0..Len(dialed)]
  /\ dialed \in Seq(Drivers) /\ Len(dialed) <= MaxDials
  /\ alive \subseteq Objects /\ abandoned \subseteq Objects
  /\ \A o \in Objects : free[o] \in Seq(Databases \union {NoDb}) /\ Len(free[o]) <= MaxIdle
  /\ \A o \in Objects \ alive : dialed[o] = "mysql" => free[o] = <<>>
  /\ \A q \in Queries :
       serving[q] \in [phase : {"idle", "dialed", "loaded", "using", "used", "running",
                                "closing", "deleting"},
                       driver : Drivers, object : 0..Len(dialed),
                       want : Databases \union {NoDb}, on : Databases \union {NoDb},
                       alone : BOOLEAN]
  /\ asked \in 0..MaxQueries

(* The map never keeps a closed connection: one that is closed is about to *)
(* be removed by the disconnect that closed it, whatever connects and      *)
(* disconnects run at the same time.  (A PostgreSQL connection that was    *)
(* broken by a client leaving stays until somebody reconnects.)            *)
MapIsLive ==
  \A d \in Drivers :
    connections[d] \in Objects \ (alive \union abandoned) =>
      \E q \in Queries : serving[q].phase = "deleting" /\ serving[q].driver = d

(* A MySQL query runs in the database it selects, although USE and query   *)
(* are two statements of a pool, as long as no other request uses the pool *)
(* at the same time.                                                       *)
AloneInItsDatabase ==
  \A q \in Queries :
    LET r == serving[q] IN
    r.phase = "running" /\ r.driver = "mysql" /\ r.want # NoDb /\ r.alone => r.on = r.want

(* The same of every query, whoever else is using the pool.                *)
RunsInItsDatabase ==
  \A q \in Queries :
    LET r == serving[q] IN
    r.phase = "running" /\ r.driver = "mysql" /\ r.want # NoDb => r.on = r.want
=============================================================================
