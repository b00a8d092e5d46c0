----------------------------- MODULE LearnStore -----------------------------
(***************************************************************************)
(* The CLI echo store (internal/learn/echo.go).  Every request handler     *)
(* that changes the system calls Echo, from its own goroutine: under the   *)
(* mutex the entry is inserted into the SQLite table (best effort) and     *)
(* appended to the ring; after the unlock the subscribers are called.      *)
(***************************************************************************)
EXTENDS Naturals, Sequences, FiniteSets, Functions

CONSTANTS
  Requests,   \* goroutines that may be inside Echo at the same time
  RingSize,   \* capacity of the ring (500 in the code)
  MaxEchoes,  \* bound of the model: number of calls of Echo
  Free        \* value of mu when nobody holds it

ASSUME StoreAssumption ==
  /\ RingSize \in Nat \ {0}
  /\ MaxEchoes \in Nat
  /\ Free \notin Requests

VARIABLES
  mu,       \* holder of the mutex
  phase,    \* request -> where its goroutine is in Echo
  entry,    \* request -> the entry its call is building
  begun,    \* number of calls that have taken the mutex
  rows,     \* table webux_cli_echo_log: rows[id] is the number of its entry
  ring,     \* s.ring
  log,      \* history: every entry appended to the ring
  sent      \* history: every entry passed to the subscribers

storeVars == <<mu, phase, entry, begun, rows, ring, log, sent>>

\* An entry: n names the command (in the order the mutex was taken), id is its
\* row id, 0 when the insert failed or its result could not be read.
Entry == [n : Nat, id : Nat]
NoEntry == [n |-> 0, id |-> 0]

StoreInit ==
  /\ mu = Free
  /\ phase = [r \in Requests |-> "idle"]
  /\ entry = [r \in Requests |-> NoEntry]
  /\ begun = 0
  /\ rows = <<>>
  /\ ring = <<>>
  /\ log = <<>>
  /\ sent = <<>>

Pending == {r \in Requests : phase[r] = "waiting"}

Call(r) ==
  /\ phase[r] = "idle"
  /\ begun + Cardinality(Pending) < MaxEchoes
  /\ phase' = [phase EXCEPT ![r] = "waiting"]
  /\ UNCHANGED <<mu, entry, begun, rows, ring, log, sent>>

Lock(r) ==
  /\ phase[r] = "waiting"
  /\ mu = Free
  /\ mu' = r
  /\ begun' = begun + 1
  /\ entry' = [entry EXCEPT ![r] = [n |-> begun + 1, id |-> 0]]
  /\ phase' = [phase EXCEPT ![r] = "locked"]
  /\ UNCHANGED <<rows, ring, log, sent>>

\* Slip: the mutex is released for the insert.
PersistUnlocked(r) ==
  /\ phase[r] = "locked"
  /\ rows' = Append(rows, entry[r].n)
  /\ entry' = [entry EXCEPT ![r].id = Len(rows) + 1]
  /\ mu' = Free
  /\ phase' = [phase EXCEPT ![r] = "persisted"]
  /\ UNCHANGED <<begun, ring, log, sent>>

\* INSERT ... RETURNING id: done; not done (the request was cancelled, the
\* database is busy or full); or done, but the result is not read any more.
Persist(r) ==
  /\ phase[r] = "locked"
  /\ \/ /\ rows' = Append(rows, entry[r].n)
        /\ entry' = [entry EXCEPT ![r].id = Len(rows) + 1]
     \/ UNCHANGED <<rows, entry>>
     \/ /\ rows' = Append(rows, entry[r].n)
        /\ UNCHANGED entry
  /\ phase' = [phase EXCEPT ![r] = "persisted"]
  /\ UNCHANGED <<mu, begun, ring, log, sent>>

Push(s, e) == Append(IF Len(s) >= RingSize THEN Tail(s) ELSE s, e)

Record(r) ==
  /\ phase[r] = "persisted"
  /\ ring' = Push(ring, entry[r])
  /\ log' = Append(log, entry[r])
  /\ mu' = Free
  /\ phase' = [phase EXCEPT ![r] = "notifying"]
  /\ UNCHANGED <<entry, begun, rows, sent>>

\* Slip: the newest entry of the ring is sent, not the one of this call.
NotifyNewest(r) ==
  /\ phase[r] = "notifying"
  /\ sent' = Append(sent, ring[Len(ring)])
  /\ phase' = [phase EXCEPT ![r] = "idle"]
  /\ UNCHANGED <<mu, entry, begun, rows, ring, log>>

\* The subscriber (the hub's Broadcast) is called outside the mutex.
Notify(r) ==
  /\ phase[r] = "notifying"
  /\ sent' = Append(sent, entry[r])
  /\ phase' = [phase EXCEPT ![r] = "idle"]
  /\ UNCHANGED <<mu, entry, begun, rows, ring, log>>

Locked(r) == Call(r) \/ Lock(r) \/ Persist(r) \/ Record(r)

StoreNext == \E r \in Requests : Locked(r) \/ Notify(r)

\* Recent(n): the last n entries; it needs the read lock.
Recent(n) == IF n >= Len(ring) THEN ring ELSE SubSeq(ring, Len(ring) - n + 1, Len(ring))

StoreSpec == StoreInit /\ [][StoreNext]_storeVars

-----------------------------------------------------------------------------
StoreTypeOK ==
  /\ mu \in Requests \union {Free}
  /\ phase \in [Requests -> {"idle", "waiting", "locked", "persisted", "notifying"}]
  /\ entry \in [Requests -> Entry]
  /\ begun \in Nat
  /\ rows \in Seq(Nat)
  /\ ring \in Seq(Entry) /\ Len(ring) <= RingSize
  /\ log \in Seq(Entry)
  /\ sent \in Seq(Entry)

RingIsNewest ==
  LET k == IF Len(log) <= RingSize THEN 0 ELSE Len(log) - RingSize
  IN  ring = SubSeq(log, k + 1, Len(log))

(* The ring is the newest part of everything that was echoed, without a    *)
(* hole or a stale entry, and agrees with the table: entries that know     *)
(* their row id are in the order of their ids, and the row holds their     *)
(* command, whichever inserts fail.                                        *)
RingAgreesWithTable ==
  /\ RingIsNewest
  /\ \A i, j \in 1..Len(ring) :
       /\ ring[i].id # 0 => ring[i].id \in DOMAIN rows /\ rows[ring[i].id] = ring[i].n
       /\ i < j /\ ring[i].id # 0 /\ ring[j].id # 0 => ring[i].id < ring[j].id

(* Every recorded echo goes to the subscribers exactly once: those not yet *)
(* sent are in the hands of exactly one request that still has to.         *)
SentExactlyOnce ==
  LET inHand == {r \in Requests : phase[r] = "notifying"}
  IN  /\ IsInjective(sent)
      /\ \A r \in inHand : entry[r] \notin Range(sent)
      /\ Range(log) = Range(sent) \union {entry[r] : r \in inHand}
      /\ Len(log) = Len(sent) + Cardinality(inHand)
=============================================================================
