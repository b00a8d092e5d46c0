----------------------------- MODULE EchoProofs -----------------------------
(***************************************************************************)
(* What is proved of the CLI echo store (LearnStore) and of the Learn mode *)
(* pane of a tab (EchoPane), for every number of requests and every size   *)
(* of the ring, of the answer to a fetch and of the pane.                  *)
(***************************************************************************)
EXTENDS EchoPane, TLAPS, FiniteSetTheorems

-----------------------------------------------------------------------------
(* The store.  The entries are numbered in the order in which the mutex    *)
(* was taken, which is the order of the log and of the rows of the table;  *)
(* who holds the mutex is about to record the newest.                      *)

StoreShape ==
  /\ mu \in Requests \union {Free}
  /\ phase \in [Requests -> {"idle", "waiting", "locked", "persisted", "notifying"}]
  /\ entry \in [Requests -> Entry]
  /\ begun \in Nat
  /\ rows \in Seq(Nat) /\ ring \in Seq(Entry) /\ log \in Seq(Entry) /\ sent \in Seq(Entry)

OneInside == \A r \in Requests : phase[r] \in {"locked", "persisted"} <=> mu = r

LogNumbered ==
  /\ Len(log) = IF mu = Free THEN begun ELSE begun - 1
  /\ \A i \in 1..Len(log) : log[i].n = i
  /\ \A r \in Requests : phase[r] \in {"locked", "persisted"} => entry[r].n = begun /\ begun # 0

KnowsRow(e, table) == e.id # 0 => e.id \in 1..Len(table) /\ table[e.id] = e.n

TableInOrder ==
  /\ \A a \in 1..Len(rows) : rows[a] <= begun
  /\ \A a, b \in 1..Len(rows) : a < b => rows[a] < rows[b]
  /\ \A i \in 1..Len(log) : KnowsRow(log[i], rows)
  /\ \A r \in Requests : phase[r] = "persisted" => KnowsRow(entry[r], rows)
  /\ \A r \in Requests : phase[r] = "locked" =>
       entry[r].id = 0 /\ \A a \in 1..Len(rows) : rows[a] < begun

RingIsTail ==
  /\ Len(ring) = IF Len(log) <= RingSize THEN Len(log) ELSE RingSize
  /\ \A i \in 1..Len(ring) : ring[i] = log[Len(log) - Len(ring) + i]

InHand == {r \in Requests : phase[r] = "notifying"}

\* An entry of the log has been sent or is in hand, once.
Logged(e, history) == e.n \in 1..Len(history) /\ history[e.n] = e

SentOrInHand ==
  /\ \A r \in InHand : Logged(entry[r], log)
  /\ \A r, q \in InHand : entry[r].n = entry[q].n => r = q
  /\ \A i \in 1..Len(sent) : Logged(sent[i], log)
  /\ \A i, j \in 1..Len(sent) : sent[i].n = sent[j].n => i = j
  /\ \A i \in 1..Len(sent) : \A r \in InHand : sent[i].n # entry[r].n
  /\ \A k \in 1..Len(log) : \/ \E i \in 1..Len(sent) : sent[i].n = k
                            \/ \E r \in InHand : entry[r].n = k

HandsCounted == IsFiniteSet(InHand) /\ Len(log) = Len(sent) + Cardinality(InHand)

StoreInv ==
  /\ StoreShape /\ OneInside /\ LogNumbered /\ TableInOrder /\ RingIsTail
  /\ SentOrInHand /\ HandsCounted

LEMMA StoreInitial == StoreInit => StoreInv
<1> SUFFICES ASSUME StoreInit
             PROVE  StoreInv
  OBVIOUS
<1>1. StoreShape
  BY DEF StoreInit, StoreShape, NoEntry, Entry
<1>2. OneInside /\ LogNumbered /\ TableInOrder
  BY StoreAssumption DEF StoreInit, OneInside, LogNumbered, TableInOrder
<1>3. RingIsTail
  BY StoreAssumption DEF StoreInit, RingIsTail
<1>4. InHand = {}
  BY DEF StoreInit, InHand
<1>5. SentOrInHand
  BY <1>4 DEF StoreInit, SentOrInHand
<1>6. HandsCounted
  BY <1>4, FS_EmptySet DEF StoreInit, HandsCounted
<1>7. QED
  BY <1>1, <1>2, <1>3, <1>5, <1>6 DEF StoreInv

\* What a step that records and sends nothing leaves.
LEMMA NothingRecorded ==
  ASSUME StoreInv, UNCHANGED <<ring, log, sent>>, InHand' = InHand,
         \A r \in InHand : entry'[r] = entry[r]
  PROVE  RingIsTail' /\ SentOrInHand' /\ HandsCounted'
<1>1. RingIsTail'
  BY DEF StoreInv, RingIsTail
<1>2. SentOrInHand'
  BY DEF StoreInv, SentOrInHand, Logged
<1>3. HandsCounted'
  BY DEF StoreInv, HandsCounted
<1>4. QED
  BY <1>1, <1>2, <1>3

LEMMA CallStep ==
  ASSUME StoreInv, NEW r \in Requests, Call(r)
  PROVE  StoreInv'
<1> USE DEF StoreInv
<1>1. /\ phase[r] = "idle" /\ UNCHANGED <<mu, entry, begun, rows, ring, log, sent>>
      /\ phase' \in [Requests -> {"idle", "waiting", "locked", "persisted", "notifying"}]
      /\ \A q \in Requests : phase'[q] = IF q = r THEN "waiting" ELSE phase[q]
  BY DEF Call, StoreShape
<1>2. StoreShape' /\ OneInside' /\ LogNumbered'
  BY <1>1 DEF StoreShape, OneInside, LogNumbered
<1>3. TableInOrder'
  BY <1>1 DEF TableInOrder, KnowsRow
<1>4. InHand' = InHand
  BY <1>1 DEF InHand
<1>5. QED
  BY <1>1, <1>2, <1>3, <1>4, NothingRecorded

LEMMA LockStep ==
  ASSUME StoreInv, NEW r \in Requests, Lock(r)
  PROVE  StoreInv'
<1> USE DEF StoreInv
<1>1. /\ phase[r] = "waiting" /\ mu = Free /\ mu' = r /\ begun' = begun + 1
      /\ UNCHANGED <<rows, ring, log, sent>>
      /\ phase' \in [Requests -> {"idle", "waiting", "locked", "persisted", "notifying"}]
      /\ \A q \in Requests : phase'[q] = IF q = r THEN "locked" ELSE phase[q]
  BY DEF Lock, StoreShape
<1>2. begun \in Nat /\ r # Free
  BY StoreAssumption DEF StoreShape
<1>3. /\ entry' \in [Requests -> Entry]
      /\ entry'[r].n = begun + 1 /\ entry'[r].id = 0
      /\ \A q \in Requests : q # r => entry'[q] = entry[q]
  <2> DEFINE e == [n |-> begun + 1, id |-> 0]
  <2>1. e \in Entry /\ e.n = begun + 1 /\ e.id = 0
    BY <1>2 DEF Entry
  <2>2. entry' = [entry EXCEPT ![r] = e]
    BY DEF Lock
  <2> HIDE DEF e
  <2>3. QED
    BY <2>1, <2>2 DEF StoreShape
<1>4. StoreShape'
  BY <1>1, <1>2, <1>3 DEF StoreShape
<1>5. \A q \in Requests : phase[q] \notin {"locked", "persisted"}
  BY <1>1, <1>2, StoreAssumption DEF OneInside
<1>6. OneInside'
  BY <1>1, <1>5 DEF OneInside
<1>7. LogNumbered'
  BY <1>1, <1>2, <1>3, <1>5, StoreAssumption DEF LogNumbered
<1>8. TableInOrder'
  <2>1. \A a \in 1..Len(rows) : rows[a] \in Nat /\ rows[a] <= begun
    BY DEF StoreShape, TableInOrder
  <2>2. \A a \in 1..Len(rows) : rows[a] < begun + 1
    BY <1>2, <2>1
  <2>3. \A a \in 1..Len(rows) : rows[a] <= begun + 1
    BY <1>2, <2>1
  <2>4. QED
    BY <1>1, <1>3, <1>5, <2>2, <2>3 DEF TableInOrder, KnowsRow
<1>9. InHand' = InHand /\ \A q \in InHand : entry'[q] = entry[q]
  BY <1>1, <1>3 DEF InHand
<1>10. QED
  BY <1>1, <1>4, <1>6, <1>7, <1>8, <1>9, NothingRecorded

LEMMA PersistStep ==
  ASSUME StoreInv, NEW r \in Requests, Persist(r)
  PROVE  StoreInv'
<1> USE DEF StoreInv
<1>1. /\ phase[r] = "locked" /\ UNCHANGED <<mu, begun, ring, log, sent>>
      /\ phase' \in [Requests -> {"idle", "waiting", "locked", "persisted", "notifying"}]
      /\ \A q \in Requests : phase'[q] = IF q = r THEN "persisted" ELSE phase[q]
  BY DEF Persist, StoreShape
<1>2. /\ entry[r] \in Entry /\ entry[r].n = begun /\ entry[r].id = 0 /\ begun \in Nat
      /\ rows \in Seq(Nat) /\ \A a \in 1..Len(rows) : rows[a] \in Nat /\ rows[a] < begun
  BY <1>1 DEF StoreShape, LogNumbered, TableInOrder
<1>3. rows' = rows \/ rows' = Append(rows, begun)
  BY <1>2 DEF Persist
<1>4. /\ rows' \in Seq(Nat) /\ Len(rows) \in Nat
      /\ \A a \in 1..Len(rows) : a \in 1..Len(rows') /\ rows'[a] = rows[a]
      /\ \A a \in 1..Len(rows') : a \in 1..Len(rows) \/ (a = Len(rows) + 1 /\ rows'[a] = begun)
  <2>1. CASE rows' = rows
    BY <1>2, <2>1
  <2>2. CASE rows' = Append(rows, begun)
    <3>1. /\ rows' \in Seq(Nat) /\ Len(rows) \in Nat /\ Len(rows') = Len(rows) + 1
          /\ rows'[Len(rows) + 1] = begun /\ \A a \in 1..Len(rows) : rows'[a] = rows[a]
      BY <1>2, <2>2
    <3>2. \A a \in 1..(Len(rows) + 1) : a \in 1..Len(rows) \/ a = Len(rows) + 1
      BY <3>1
    <3>3. QED
      BY <3>1, <3>2
  <2>3. QED
    BY <1>3, <2>1, <2>2
<1>5. /\ entry' \in [Requests -> Entry]
      /\ \A q \in Requests : q # r => entry'[q] = entry[q]
      /\ entry'[r].n = begun
      /\ entry'[r].id = 0 \/ (entry'[r].id = Len(rows) + 1 /\ rows' = Append(rows, begun))
  <2>1. CASE UNCHANGED entry
    BY <1>2, <2>1 DEF StoreShape
  <2>2. CASE rows' = Append(rows, entry[r].n) /\ entry' = [entry EXCEPT ![r].id = Len(rows) + 1]
    <3> DEFINE e == [entry[r] EXCEPT !.id = Len(rows) + 1]
    <3>1. e \in Entry /\ e.n = begun /\ e.id = Len(rows) + 1
      BY <1>2, <1>4 DEF Entry
    <3>2. entry' = [entry EXCEPT ![r] = e]
      BY <2>2
    <3> HIDE DEF e
    <3>3. QED
      BY <1>2, <2>2, <3>1, <3>2 DEF StoreShape
  <2>3. QED
    BY <2>1, <2>2 DEF Persist
<1>6. StoreShape'
  BY <1>1, <1>4, <1>5 DEF StoreShape
<1>7. OneInside'
  BY <1>1 DEF OneInside
<1>8. \A q \in Requests : phase[q] \in {"locked", "persisted"} => q = r
  BY <1>1 DEF OneInside
<1>9. LogNumbered'
  BY <1>1, <1>5, <1>8 DEF LogNumbered
<1>10. TableInOrder'
  <2>1. \A a \in 1..Len(rows') : rows'[a] <= begun
    <3>1. \A a \in 1..Len(rows) : rows'[a] \in Nat /\ rows'[a] < begun
      BY <1>2, <1>4
    <3>2. QED
      BY <1>2, <1>4, <3>1
  <2>2. ASSUME NEW a \in 1..Len(rows'), NEW b \in 1..Len(rows'), a < b
        PROVE  rows'[a] < rows'[b]
    <3>1. a \in 1..Len(rows)
      BY <1>4, <2>2
    <3>2. CASE b \in 1..Len(rows)
      BY <1>4, <2>2, <3>1, <3>2 DEF TableInOrder
    <3>3. CASE rows'[b] = begun
      BY <1>2, <1>4, <3>1, <3>3
    <3>4. QED
      BY <1>4, <3>2, <3>3
  <2>3. \A e : KnowsRow(e, rows) => KnowsRow(e, rows')
    BY <1>4 DEF KnowsRow
  <2>4. \A i \in 1..Len(log) : KnowsRow(log[i], rows')
    BY <2>3 DEF TableInOrder
  <2>5. KnowsRow(entry'[r], rows')
    BY <1>2, <1>5 DEF KnowsRow
  <2>6. QED
    BY <1>1, <1>8, <2>1, <2>2, <2>4, <2>5 DEF TableInOrder, KnowsRow
<1>11. InHand' = InHand /\ \A q \in InHand : entry'[q] = entry[q]
  BY <1>1, <1>5 DEF InHand
<1>12. QED
  BY <1>1, <1>6, <1>7, <1>9, <1>10, <1>11, NothingRecorded

\* An entry pushed into the ring is its newest, and what is left are the newest before.
LEMMA Pushed ==
  ASSUME StoreInv, NEW e \in Entry, ring' = Push(ring, e), log' = Append(log, e)
  PROVE  ring' \in Seq(Entry) /\ log' \in Seq(Entry) /\ RingIsTail'
<1> DEFINE n == Len(log)
           m == Len(ring)
<1>1. /\ ring \in Seq(Entry) /\ log \in Seq(Entry) /\ n \in Nat /\ m \in Nat
      /\ m = (IF n <= RingSize THEN n ELSE RingSize)
      /\ RingSize \in Nat \ {0}
  BY StoreAssumption DEF StoreInv, StoreShape, RingIsTail
<1>2. \A i \in 1..m : ring[i] = log[n - m + i]
  BY DEF StoreInv, RingIsTail
<1>3. /\ log' \in Seq(Entry) /\ Len(log') = n + 1 /\ log'[n + 1] = e
      /\ \A i \in 1..n : log'[i] = log[i]
  BY <1>1
<1>4. CASE n < RingSize
  <2>1. m = n /\ ring' = Append(ring, e)
    BY <1>1, <1>4 DEF Push
  <2>2. /\ ring' \in Seq(Entry) /\ Len(ring') = n + 1 /\ ring'[n + 1] = e
        /\ \A i \in 1..n : ring'[i] = ring[i]
    BY <1>1, <2>1
  <2>3. \A i \in 1..m : n - m + i = i
    BY <1>1, <2>1
  <2>4. \A i \in 1..n : ring[i] = log[i]
    BY <1>2, <2>1, <2>3
  <2>5. \A i \in 1..(n + 1) : i \in 1..n \/ i = n + 1
    BY <1>1
  <2>6. \A i \in 1..(n + 1) : ring'[i] = log'[i]
    BY <1>3, <2>2, <2>4, <2>5
  <2>7. \A i \in 1..Len(ring') : ring'[i] = log'[Len(log') - Len(ring') + i]
    <3>1. \A i \in 1..(n + 1) : (n + 1) - (n + 1) + i = i
      BY <1>1
    <3>2. QED
      BY <1>3, <2>2, <2>6, <3>1
  <2>8. n + 1 <= RingSize
    BY <1>1, <1>4
  <2>9. QED
    BY <1>3, <2>2, <2>7, <2>8 DEF RingIsTail
<1>5. CASE ~(n < RingSize)
  <2>1. m = RingSize /\ m # 0 /\ m <= n /\ ring' = Append(Tail(ring), e)
    BY <1>1, <1>5 DEF Push
  <2>2. /\ Tail(ring) \in Seq(Entry) /\ Len(Tail(ring)) = m - 1
        /\ \A i \in 1..(m - 1) : Tail(ring)[i] = ring[i + 1]
    BY <1>1, <2>1
  <2>3. /\ ring' \in Seq(Entry) /\ Len(ring') = m /\ ring'[m] = e
        /\ \A i \in 1..(m - 1) : ring'[i] = ring[i + 1]
    BY <1>1, <2>1, <2>2
  <2>4. ASSUME NEW i \in 1..m
        PROVE  ring'[i] = log'[(n + 1) - m + i]
    <3>1. CASE i = m
      BY <1>1, <1>3, <2>3, <3>1
    <3>2. CASE i # m
      <4>1. i \in 1..(m - 1) /\ i + 1 \in 1..m /\ n - m + (i + 1) \in 1..n
            /\ n - m + (i + 1) = (n + 1) - m + i
        BY <1>1, <2>1, <3>2
      <4>2. ring'[i] = log[n - m + (i + 1)]
        BY <1>2, <2>3, <4>1
      <4>3. QED
        BY <1>3, <4>1, <4>2
    <3>3. QED
      BY <3>1, <3>2
  <2>5. ~(n + 1 <= RingSize)
    BY <1>1, <1>5
  <2> HIDE DEF n, m
  <2>6. QED
    BY <1>1, <1>3, <2>1, <2>3, <2>4, <2>5 DEF RingIsTail
<1>6. QED
  BY <1>4, <1>5

LEMMA RecordStep ==
  ASSUME StoreInv, NEW r \in Requests, Record(r)
  PROVE  StoreInv'
<1> USE DEF StoreInv
<1> DEFINE e == entry[r]
<1>1. /\ phase[r] = "persisted" /\ mu' = Free /\ UNCHANGED <<entry, begun, rows, sent>>
      /\ ring' = Push(ring, e) /\ log' = Append(log, e)
      /\ phase' \in [Requests -> {"idle", "waiting", "locked", "persisted", "notifying"}]
      /\ \A q \in Requests : phase'[q] = IF q = r THEN "notifying" ELSE phase[q]
  BY DEF Record, StoreShape
<1>2. \A q \in Requests : phase[q] \in {"locked", "persisted"} => q = r
  BY <1>1 DEF OneInside
<1>3. mu = r /\ r # Free
  BY <1>1, StoreAssumption DEF OneInside
<1>4. e \in Entry /\ e.n \in Nat /\ e.n = begun /\ begun \in Nat /\ begun # 0
  BY <1>1 DEF StoreShape, LogNumbered, Entry
<1>5. log \in Seq(Entry) /\ Len(log) \in Nat /\ begun = Len(log) + 1
  BY <1>3, <1>4 DEF StoreShape, LogNumbered
<1>6. ring' \in Seq(Entry) /\ log' \in Seq(Entry) /\ RingIsTail'
  BY <1>1, <1>4, Pushed
<1>7. /\ Len(log') = begun /\ log'[begun] = e
      /\ \A i \in 1..Len(log) : i \in 1..Len(log') /\ i # begun /\ log'[i] = log[i]
      /\ \A i \in 1..Len(log') : i \in 1..Len(log) \/ i = begun
  <2>1. Len(log') = Len(log) + 1 /\ log'[Len(log) + 1] = e /\ \A i \in 1..Len(log) : log'[i] = log[i]
    BY <1>1, <1>4, <1>5
  <2>2. \A i \in 1..(Len(log) + 1) : i \in 1..Len(log) \/ i = Len(log) + 1
    BY <1>5
  <2>3. \A i \in 1..Len(log) : i \in 1..(Len(log) + 1) /\ i # Len(log) + 1
    BY <1>5
  <2>4. QED
    BY <1>5, <2>1, <2>2, <2>3
<1> HIDE DEF e
<1>8. StoreShape'
  BY <1>1, <1>6 DEF StoreShape
<1>9. OneInside'
  BY <1>1, <1>2, StoreAssumption DEF OneInside
<1>10. LogNumbered'
  BY <1>1, <1>2, <1>4, <1>7 DEF LogNumbered
<1>11. TableInOrder'
  <2>1. KnowsRow(e, rows)
    BY <1>1 DEF TableInOrder, e
  <2>2. \A i \in 1..Len(log') : KnowsRow(log'[i], rows)
    BY <1>7, <2>1 DEF TableInOrder
  <2>3. \A q \in Requests : phase'[q] \notin {"locked", "persisted"}
    BY <1>1, <1>2
  <2>4. QED
    BY <1>1, <2>2, <2>3 DEF TableInOrder
<1>12. r \notin InHand /\ InHand' = InHand \union {r}
  BY <1>1 DEF InHand
<1>13. SentOrInHand'
  <2>1. \A f : Logged(f, log) => f.n # begun /\ Logged(f, log')
    BY <1>7 DEF Logged
  <2>2. Logged(e, log')
    BY <1>4, <1>7 DEF Logged
  <2>3. \A q \in InHand' : Logged(entry'[q], log')
    BY <1>1, <1>12, <2>1, <2>2 DEF SentOrInHand, e
  <2>4. \A q, p \in InHand' : entry[q].n = entry[p].n => q = p
    BY <1>4, <1>12, <2>1 DEF SentOrInHand, e
  <2>5. \A i \in 1..Len(sent) : Logged(sent[i], log') /\ \A q \in InHand' : sent[i].n # entry[q].n
    BY <1>4, <1>12, <2>1 DEF SentOrInHand, e
  <2>6. \A k \in 1..Len(log') : \/ \E i \in 1..Len(sent) : sent[i].n = k
                               \/ \E q \in InHand' : entry[q].n = k
    BY <1>4, <1>7, <1>12 DEF SentOrInHand, e
  <2>7. QED
    BY <1>1, <2>3, <2>4, <2>5, <2>6 DEF SentOrInHand
<1>14. HandsCounted'
  <2>1. IsFiniteSet(InHand') /\ Cardinality(InHand') = Cardinality(InHand) + 1
    BY <1>12, FS_AddElement DEF HandsCounted
  <2>2. Cardinality(InHand) \in Nat /\ Len(sent) \in Nat
    BY FS_CardinalityType DEF HandsCounted, StoreShape
  <2>3. QED
    BY <1>1, <1>5, <1>7, <2>1, <2>2 DEF HandsCounted
<1>15. QED
  BY <1>6, <1>8, <1>9, <1>10, <1>11, <1>13, <1>14

LEMMA NotifyStep ==
  ASSUME StoreInv, NEW r \in Requests, Notify(r)
  PROVE  StoreInv'
<1> USE DEF StoreInv
<1> DEFINE e == entry[r]
<1>1. /\ phase[r] = "notifying" /\ UNCHANGED <<mu, entry, begun, rows, ring, log>>
      /\ sent' = Append(sent, e)
      /\ phase' \in [Requests -> {"idle", "waiting", "locked", "persisted", "notifying"}]
      /\ \A q \in Requests : phase'[q] = IF q = r THEN "idle" ELSE phase[q]
  BY DEF Notify, StoreShape
<1>2. e \in Entry /\ sent \in Seq(Entry) /\ Len(sent) \in Nat
  BY DEF StoreShape
<1>3. /\ sent' \in Seq(Entry) /\ Len(sent') = Len(sent) + 1
      /\ \A i \in 1..Len(sent) : i \in 1..Len(sent') /\ sent'[i] = sent[i]
      /\ Len(sent) + 1 \in 1..Len(sent') /\ sent'[Len(sent) + 1] = e
      /\ \A i \in 1..Len(sent') : i \in 1..Len(sent) \/ i = Len(sent) + 1
  <2>1. /\ sent' \in Seq(Entry) /\ Len(sent') = Len(sent) + 1 /\ sent'[Len(sent) + 1] = e
        /\ \A i \in 1..Len(sent) : sent'[i] = sent[i]
    BY <1>1, <1>2
  <2>2. \A i \in 1..(Len(sent) + 1) : i \in 1..Len(sent) \/ i = Len(sent) + 1
    BY <1>2
  <2>3. Len(sent) + 1 \in 1..(Len(sent) + 1) /\ \A i \in 1..Len(sent) : i \in 1..(Len(sent) + 1)
    BY <1>2
  <2>4. QED
    BY <2>1, <2>2, <2>3
<1> HIDE DEF e
<1>4. StoreShape' /\ OneInside' /\ LogNumbered' /\ RingIsTail'
  BY <1>1, <1>3 DEF StoreShape, OneInside, LogNumbered, RingIsTail
<1>5. TableInOrder'
  BY <1>1 DEF TableInOrder
<1>6. r \in InHand /\ InHand' = InHand \ {r}
  BY <1>1 DEF InHand
<1>7. SentOrInHand'
  <2>1. \A i \in 1..Len(sent) : Logged(sent[i], log) /\ sent[i].n # e.n
    BY <1>6 DEF SentOrInHand, e
  <2>2. Logged(e, log)
    BY <1>6 DEF SentOrInHand, e
  <2>3. \A i \in 1..Len(sent') : Logged(sent'[i], log)
    BY <1>3, <2>1, <2>2
  <2>4. \A i, j \in 1..Len(sent) : sent[i].n = sent[j].n => i = j
    BY DEF SentOrInHand
  <2>5. \A i, j \in 1..Len(sent') : sent'[i].n = sent'[j].n => i = j
    BY <1>3, <2>1, <2>4
  <2>6. \A q \in InHand' : q \in InHand /\ entry[q].n # e.n
    BY <1>6 DEF SentOrInHand, e
  <2>7. \A i \in 1..Len(sent') : \A q \in InHand' : sent'[i].n # entry[q].n
    BY <1>3, <2>6 DEF SentOrInHand
  <2>8. ASSUME NEW k \in 1..Len(log)
        PROVE  \/ \E i \in 1..Len(sent') : sent'[i].n = k
               \/ \E q \in InHand' : entry[q].n = k
    <3>1. CASE k = e.n
      BY <1>3, <3>1
    <3>2. CASE \E i \in 1..Len(sent) : sent[i].n = k
      BY <1>3, <3>2
    <3>3. CASE k # e.n /\ \E q \in InHand : entry[q].n = k
      BY <1>6, <3>3 DEF e
    <3>4. QED
      BY <3>1, <3>2, <3>3 DEF SentOrInHand
  <2>9. QED
    BY <1>1, <2>3, <2>5, <2>6, <2>7, <2>8, SMTT(30) DEF SentOrInHand, Logged
<1>8. HandsCounted'
  <2>1. IsFiniteSet(InHand') /\ Cardinality(InHand') = Cardinality(InHand) - 1
    BY <1>6, FS_RemoveElement DEF HandsCounted
  <2>2. Cardinality(InHand) \in Nat
    BY FS_CardinalityType DEF HandsCounted
  <2>3. QED
    BY <1>1, <1>2, <1>3, <2>1, <2>2 DEF HandsCounted
<1>9. QED
  BY <1>4, <1>5, <1>7, <1>8

LEMMA StoreStep == StoreInv /\ [StoreNext]_storeVars => StoreInv'
<1> SUFFICES ASSUME StoreInv, [StoreNext]_storeVars
             PROVE  StoreInv'
  OBVIOUS
<1>1. CASE UNCHANGED storeVars
  <2>1. UNCHANGED <<mu, phase, entry, begun, rows, ring, log, sent>> /\ InHand' = InHand
    BY <1>1 DEF storeVars, InHand
  <2>2. StoreShape' /\ OneInside' /\ LogNumbered' /\ TableInOrder'
    BY <2>1 DEF StoreInv, StoreShape, OneInside, LogNumbered, TableInOrder
  <2>3. QED
    BY <2>1, <2>2, NothingRecorded DEF StoreInv
<1>2. CASE StoreNext
  BY <1>2, CallStep, LockStep, PersistStep, RecordStep, NotifyStep DEF StoreNext, Locked
<1>3. QED
  BY <1>1, <1>2

LEMMA AlwaysStoreInv == StoreSpec => []StoreInv
BY StoreInitial, StoreStep, PTL DEF StoreSpec

\* Every variable of the store keeps its type, and the ring its bound.
THEOREM StoreTypeCorrect == StoreSpec => []StoreTypeOK
<1>1. StoreInv => StoreTypeOK
  <2> SUFFICES ASSUME StoreInv
               PROVE  StoreTypeOK
    OBVIOUS
  <2>1. Len(ring) <= RingSize
    BY StoreAssumption DEF StoreInv, StoreShape, RingIsTail
  <2>2. QED
    BY <2>1 DEF StoreInv, StoreShape, StoreTypeOK
<1>2. QED
  BY <1>1, AlwaysStoreInv, PTL

\* Two sequences with the same elements are one.
LEMMA SameSequence ==
  ASSUME NEW S, NEW s \in Seq(S), NEW t \in Seq(S), Len(s) = Len(t),
         \A i \in 1..Len(s) : s[i] = t[i]
  PROVE  s = t
OBVIOUS

\* What follows the first k elements.
LEMMA SubSequence ==
  ASSUME NEW S, NEW s \in Seq(S), NEW k \in Nat, k <= Len(s)
  PROVE  LET t == SubSeq(s, k + 1, Len(s))
         IN  t \in Seq(S) /\ Len(t) = Len(s) - k /\ \A i \in 1..(Len(s) - k) : t[i] = s[k + i]
OBVIOUS

\* The ring is the newest part of the log and agrees with the table, for every size of
\* the ring and number of requests.
THEOREM RingAlwaysAgrees == StoreSpec => []RingAgreesWithTable
<1>1. StoreInv => RingAgreesWithTable
  <2> SUFFICES ASSUME StoreInv
               PROVE  RingAgreesWithTable
    OBVIOUS
  <2> DEFINE n == Len(log)
             m == Len(ring)
             k == IF n <= RingSize THEN 0 ELSE n - RingSize
             newest == SubSeq(log, k + 1, n)
  <2>1. /\ ring \in Seq(Entry) /\ log \in Seq(Entry) /\ n \in Nat /\ m \in Nat
        /\ RingSize \in Nat \ {0} /\ rows \in Seq(Nat)
        /\ m = (IF n <= RingSize THEN n ELSE RingSize)
    BY StoreAssumption DEF StoreInv, StoreShape, RingIsTail
  <2>2. k = n - m /\ k \in Nat /\ m <= n
    BY <2>1
  <2>3. \A i \in 1..m : k + i \in 1..n /\ ring[i] = log[k + i]
    <3>1. \A i \in 1..m : ring[i] = log[n - m + i]
      BY DEF StoreInv, RingIsTail
    <3>2. \A i \in 1..m : k + i \in 1..n
      BY <2>1, <2>2
    <3>3. QED
      BY <2>2, <3>1, <3>2
  <2> HIDE DEF k
  <2>4. newest \in Seq(Entry) /\ Len(newest) = m /\ \A i \in 1..m : newest[i] = log[k + i]
    <3>1. k \in Nat /\ k <= n /\ n - k = m
      BY <2>1, <2>2
    <3>2. newest \in Seq(Entry) /\ Len(newest) = n - k /\ \A i \in 1..(n - k) : newest[i] = log[k + i]
      BY <2>1, <3>1, SubSequence
    <3>3. QED
      BY <3>1, <3>2
  <2>5. RingIsNewest
    <3>1. ring = newest
      BY <2>1, <2>3, <2>4, SameSequence
    <3>2. QED
      BY <3>1 DEF RingIsNewest, k
  <2>6. \A i \in 1..m : KnowsRow(ring[i], rows) /\ ring[i].n = k + i
    BY <2>3 DEF StoreInv, TableInOrder, LogNumbered
  <2>7. ASSUME NEW i \in 1..m, NEW j \in 1..m, i < j, ring[i].id # 0, ring[j].id # 0
        PROVE  ring[i].id < ring[j].id
    <3>1. /\ ring[i].id \in 1..Len(rows) /\ rows[ring[i].id] = k + i
          /\ ring[j].id \in 1..Len(rows) /\ rows[ring[j].id] = k + j
      BY <2>6, <2>7 DEF KnowsRow
    <3>2. /\ k \in Nat /\ i \in Nat /\ j \in Nat
      BY <2>1, <2>2
    <3>3. k + i < k + j /\ k + i \in Nat /\ k + j \in Nat
      BY <2>7, <3>2
    <3>4. Len(rows) \in Nat
      BY <2>1
    <3>5. CASE ring[j].id < ring[i].id
      <4>1. rows[ring[j].id] < rows[ring[i].id]
        BY <3>1, <3>5 DEF StoreInv, TableInOrder
      <4>2. QED
        BY <3>1, <3>3, <4>1
    <3>6. CASE ring[j].id = ring[i].id
      BY <3>1, <3>3, <3>6
    <3>7. QED
      BY <3>1, <3>4, <3>5, <3>6
  <2>8. \A i \in 1..m : ring[i].id # 0 => ring[i].id \in DOMAIN rows /\ rows[ring[i].id] = ring[i].n
    BY <2>1, <2>6 DEF KnowsRow
  <2> HIDE DEF m
  <2>9. QED
    BY <2>5, <2>7, <2>8 DEF RingAgreesWithTable, m
<1>2. QED
  BY <1>1, AlwaysStoreInv, PTL

\* Every recorded echo goes to the subscribers exactly once.
THEOREM AlwaysSentOnce == StoreSpec => []SentExactlyOnce
<1>1. StoreInv => SentExactlyOnce
  <2> SUFFICES ASSUME StoreInv
               PROVE  SentExactlyOnce
    OBVIOUS
  <2>1. log \in Seq(Entry) /\ sent \in Seq(Entry) /\ DOMAIN log = 1..Len(log) /\ DOMAIN sent = 1..Len(sent)
    BY DEF StoreInv, StoreShape
  <2>2. IsInjective(sent)
    BY <2>1 DEF StoreInv, SentOrInHand, IsInjective
  <2>3. \A r \in InHand : entry[r] \notin Range(sent)
    BY <2>1 DEF StoreInv, SentOrInHand, Range
  <2>4. Range(log) = Range(sent) \union {entry[r] : r \in InHand}
    <3>1. ASSUME NEW k \in 1..Len(log)
          PROVE  log[k] \in Range(sent) \union {entry[r] : r \in InHand}
      BY <2>1 DEF StoreInv, SentOrInHand, Logged, Range
    <3>2. \A i \in 1..Len(sent) : sent[i] \in Range(log)
      BY <2>1 DEF StoreInv, SentOrInHand, Logged, Range
    <3>3. \A r \in InHand : entry[r] \in Range(log)
      BY <2>1 DEF StoreInv, SentOrInHand, Logged, Range
    <3>4. QED
      BY <2>1, <3>1, <3>2, <3>3 DEF Range
  <2>5. QED
    BY <2>2, <2>3, <2>4 DEF StoreInv, HandsCounted, SentExactlyOnce, InHand
<1>2. QED
  BY <1>1, AlwaysStoreInv, PTL

-----------------------------------------------------------------------------
(* The pane of a tab uses the store and does not disturb it.               *)

PaneShape ==
  /\ wire \in Seq(Entry) /\ last \in Entry
  /\ pane \in {"off", "fetching", "fetched", "live"}
  /\ fetched \in Seq(Entry) /\ Len(fetched) <= RecentSize
  /\ entries \in Seq(Entry) /\ Len(entries) <= PaneSize
  /\ mounts \in 0..MaxMounts /\ drops \in 0..MaxDrops
  /\ liveSince \in Nat

\* The entries in hand, those the tab is still to receive, and those that were sent and
\* that it has received or lost.
Hands == {entry[r] : r \in InHand}
Waiting == Range(wire) \union Hands
Past == Range(sent) \ Range(wire)

\* What the tab knows is in the log, and an event reaches it once.
PaneKnows ==
  /\ Range(wire) \subseteq Range(sent)
  /\ \A j, k \in 1..Len(wire) : wire[j] = wire[k] => j = k
  /\ last # NoEntry => last \in Past
  /\ \A k \in 1..Len(fetched) : Logged(fetched[k], log)
  /\ \A j, k \in 1..Len(fetched) : fetched[j] = fetched[k] => j = k
  /\ \A k \in 1..Len(entries) : Logged(entries[k], log)

\* A command is shown twice at most, and once at most if its event is to come.
Twice(t, past) ==
  /\ \A a, b, c \in 1..Len(t) : t[a] = t[b] /\ t[b] = t[c] => a = b \/ a = c \/ b = c
  /\ \A a, b \in 1..Len(t) : t[a] = t[b] /\ t[a] \notin past => a = b

TwiceAtMost == Twice(entries, Past)

\* From place p on the text has events that have arrived, each once.
OnceFrom(p, t, past) ==
  \A a \in p..Len(t) : t[a] \in past /\ \A b \in p..Len(t) : t[a] = t[b] => a = b

\* How the entry e is shown while its pane is live.
ShownAs(e, t, waiting, past) ==
  /\ e \in waiting => e \notin Range(t)
  /\ e \notin waiting /\ e \notin Range(t) => Len(t) = PaneSize /\ OnceFrom(1, t, past)
  /\ \A p \in 1..Len(t) : t[p] = e => OnceFrom(p, t, past)

LiveInOrder ==
  pane = "live" /\ online =>
    \A i \in (liveSince + 1)..Len(log) : ShownAs(log[i], entries, Waiting, Past)

PaneInv ==
  /\ StoreInv /\ online \in BOOLEAN /\ PaneShape
  /\ PaneKnows /\ TwiceAtMost /\ LiveInOrder

\* Every step of the tab and the store is one of the store, or none of it.
LEMMA PaneStepsTheStore == [PaneNext]_allVars => [StoreNext]_storeVars
BY DEF PaneNext, Publish, Tab, Mount, ServeRecent, FetchFails, Subscribe, Receive, Unmount,
   Disconnect, Reconnect, StoreNext, allVars, storeVars

\* The store works with the tab as it does without: what holds of the store alone holds
\* while tabs come and go.
THEOREM PaneImplementsStore == PaneSpec => StoreSpec
<1>1. PaneInit => StoreInit
  BY DEF PaneInit
<1>2. QED
  BY <1>1, PaneStepsTheStore, PTL DEF PaneSpec, StoreSpec

\* What is shown when one more event arrives: the oldest is dropped when the pane is full.
LEMMA ShownText ==
  ASSUME NEW shown \in Seq(Entry), Len(shown) <= PaneSize, NEW e \in Entry
  PROVE  LET t == Shown(shown, e)
             d == IF Len(shown) = PaneSize THEN 1 ELSE 0
         IN  /\ t \in Seq(Entry) /\ Len(t) = Len(shown) + 1 - d /\ Len(t) <= PaneSize
             /\ t[Len(t)] = e
             /\ \A k \in 1..(Len(t) - 1) : t[k] = shown[k + d]
<1> DEFINE kept == LastN(shown, PaneSize - 1)
           d == IF Len(shown) = PaneSize THEN 1 ELSE 0
<1>1. PaneSize - 1 \in Nat /\ PaneSize \in Nat /\ Len(shown) \in Nat
  BY PaneAssumption
<1>2. /\ kept \in Seq(Entry) /\ Len(kept) = Len(shown) - d
      /\ \A k \in 1..Len(kept) : kept[k] = shown[k + d]
  <2>1. CASE Len(shown) # PaneSize
    <3>1. kept = shown /\ d = 0
      BY <1>1, <2>1 DEF LastN
    <3>2. \A k \in 1..Len(shown) : k + 0 = k
      OBVIOUS
    <3>3. QED
      BY <1>1, <3>1, <3>2
  <2>2. CASE Len(shown) = PaneSize
    <3>1. d = 1 /\ ~(Len(shown) <= PaneSize - 1) /\ Len(shown) - (PaneSize - 1) = 1 /\ 1 <= Len(shown)
      BY <1>1, <2>2
    <3>2. kept = SubSeq(shown, 1 + 1, Len(shown))
      BY <3>1 DEF LastN
    <3> HIDE DEF kept, d
    <3>3. /\ kept \in Seq(Entry) /\ Len(kept) = Len(shown) - 1
          /\ \A k \in 1..(Len(shown) - 1) : kept[k] = shown[1 + k]
      BY <3>1, <3>2, SubSequence
    <3>4. \A k \in 1..(Len(shown) - 1) : 1 + k = k + 1
      OBVIOUS
    <3>5. QED
      BY <3>1, <3>3, <3>4
  <2>3. QED
    BY <2>1, <2>2
<1>3. d \in 0..1 /\ (d = 0 => Len(shown) + 1 <= PaneSize)
  BY <1>1
<1> DEFINE t == Append(kept, e)
<1>4. Shown(shown, e) = t
  BY DEF Shown
<1> HIDE DEF kept
<1>5. /\ t \in Seq(Entry) /\ Len(t) = Len(kept) + 1 /\ Len(kept) \in Nat
      /\ t[Len(kept) + 1] = e /\ \A k \in 1..Len(kept) : t[k] = kept[k]
  BY <1>2
<1> HIDE DEF t, d
<1>6. Len(t) = Len(shown) + 1 - d /\ Len(t) - 1 = Len(kept) /\ Len(t) <= PaneSize
  BY <1>1, <1>2, <1>3, <1>5
<1>7. t[Len(t)] = e /\ \A k \in 1..(Len(t) - 1) : t[k] = shown[k + d]
  BY <1>2, <1>5, <1>6
<1>8. QED
  BY <1>4, <1>5, <1>6, <1>7 DEF d

LEMMA ShownBounded ==
  ASSUME NEW shown \in Seq(Entry), Len(shown) <= PaneSize, NEW e \in Entry
  PROVE  Shown(shown, e) \in Seq(Entry) /\ Len(Shown(shown, e)) <= PaneSize
BY ShownText

\* The newest entries of the ring.
LEMMA RecentText ==
  ASSUME StoreInv
  PROVE  /\ Recent(RecentSize) \in Seq(Entry) /\ Len(Recent(RecentSize)) <= RecentSize
         /\ \E d \in Nat : \A k \in 1..Len(Recent(RecentSize)) :
              d + k \in 1..Len(ring) /\ Recent(RecentSize)[k] = ring[d + k]
<1> DEFINE k == Len(ring) - RecentSize
           t == Recent(RecentSize)
<1>1. ring \in Seq(Entry) /\ Len(ring) \in Nat /\ RecentSize \in Nat
  BY PaneAssumption DEF StoreInv, StoreShape
<1>2. CASE RecentSize >= Len(ring)
  <2>1. t = ring
    BY <1>2 DEF Recent
  <2>2. 0 \in Nat /\ \A i \in 1..Len(ring) : 0 + i = i
    OBVIOUS
  <2> HIDE DEF t
  <2>3. \A i \in 1..Len(t) : 0 + i \in 1..Len(ring) /\ t[i] = ring[0 + i]
    BY <2>1, <2>2
  <2>4. QED
    BY <1>1, <1>2, <2>1, <2>2, <2>3 DEF t
<1>3. CASE ~(RecentSize >= Len(ring))
  <2>1. k \in Nat /\ k <= Len(ring) /\ Len(ring) - k = RecentSize
    BY <1>1, <1>3
  <2>2. t = SubSeq(ring, k + 1, Len(ring))
    BY <1>3 DEF Recent
  <2> HIDE DEF k, t
  <2>3. t \in Seq(Entry) /\ Len(t) = RecentSize /\ \A i \in 1..RecentSize : t[i] = ring[k + i]
    BY <1>1, <2>1, <2>2, SubSequence
  <2>4. \A i \in 1..RecentSize : k + i \in 1..Len(ring)
    BY <1>1, <2>1
  <2>5. k \in Nat /\ \A i \in 1..Len(t) : k + i \in 1..Len(ring) /\ t[i] = ring[k + i]
    BY <2>1, <2>3, <2>4
  <2>6. t \in Seq(Entry) /\ Len(t) <= RecentSize
    BY <1>1, <2>3
  <2>7. QED
    BY <2>5, <2>6 DEF t
<1>4. QED
  BY <1>2, <1>3

LEMMA PaneInitial == PaneInit => PaneInv
<1> SUFFICES ASSUME PaneInit
             PROVE  PaneInv
  OBVIOUS
<1>1. PaneShape
  BY PaneAssumption DEF PaneInit, PaneShape, NoEntry, Entry
<1>2. PaneKnows /\ TwiceAtMost /\ LiveInOrder
  <2>1. wire = <<>> /\ entries = <<>> /\ fetched = <<>> /\ last = NoEntry /\ pane = "off"
    BY DEF PaneInit
  <2>2. Range(wire) = {}
    BY <2>1 DEF Range
  <2>3. QED
    BY <2>1, <2>2 DEF PaneKnows, TwiceAtMost, Twice, LiveInOrder
<1>3. QED
  BY <1>1, <1>2, StoreInitial DEF PaneInit, PaneInv

LEMMA PaneShapeKept ==
  ASSUME StoreInv, PaneShape, [PaneNext]_allVars
  PROVE  PaneShape'
<1>1. CASE UNCHANGED paneVars
  BY <1>1 DEF paneVars, PaneShape
<1>2. ASSUME NEW r \in Requests, Publish(r)
      PROVE  PaneShape'
  <2>1. entry[r] \in Entry
    BY DEF StoreInv, StoreShape
  <2>2. wire' \in Seq(Entry)
    BY <1>2, <2>1 DEF Publish, PaneShape
  <2>3. QED
    BY <1>2, <2>2 DEF Publish, PaneShape
<1>3. CASE Mount
  BY <1>3, PaneAssumption DEF Mount, PaneShape
<1>4. CASE ServeRecent
  BY <1>4, RecentText DEF ServeRecent, PaneShape
<1>5. CASE FetchFails \/ Unmount
  <2>1. <<>> \in Seq(Entry) /\ Len(<<>>) <= RecentSize /\ Len(<<>>) <= PaneSize
    BY PaneAssumption
  <2>2. CASE FetchFails
    BY <2>1, <2>2 DEF FetchFails, PaneShape
  <2>3. CASE Unmount
    BY <2>1, <2>3 DEF Unmount, PaneShape
  <2>4. QED
    BY <1>5, <2>2, <2>3
<1>6. CASE Subscribe
  <2>1. Len(log) \in Nat
    BY DEF StoreInv, StoreShape
  <2>2. entries' \in Seq(Entry) /\ Len(entries') <= PaneSize
    <3>1. fetched \in Seq(Entry) /\ Len(fetched) <= RecentSize /\ last \in Entry
      BY DEF PaneShape
    <3>2. Len(fetched) <= PaneSize
      BY <3>1, PaneAssumption
    <3>3. entries' = fetched \/ entries' = Shown(fetched, last)
      BY <1>6 DEF Subscribe
    <3>4. QED
      BY <3>1, <3>2, <3>3, ShownBounded
  <2>3. QED
    BY <1>6, <2>1, <2>2 DEF Subscribe, PaneShape
<1>7. CASE Receive
  <2>1. wire \in Seq(Entry) /\ wire # <<>> /\ entries \in Seq(Entry)
    BY <1>7 DEF Receive, PaneShape
  <2>2. Head(wire) \in Entry /\ Tail(wire) \in Seq(Entry)
    BY <2>1
  <2>3. entries' = entries \/ entries' = Shown(entries, Head(wire))
    BY <1>7 DEF Receive
  <2>4. entries' \in Seq(Entry) /\ Len(entries') <= PaneSize
    BY <2>1, <2>2, <2>3, ShownBounded DEF PaneShape
  <2>5. QED
    BY <1>7, <2>2, <2>4 DEF Receive, PaneShape
<1>8. CASE Disconnect
  BY <1>8, PaneAssumption DEF Disconnect, PaneShape
<1>9. CASE Reconnect
  <2>1. Len(log) \in Nat
    BY DEF StoreInv, StoreShape
  <2>2. QED
    BY <1>9, <2>1 DEF Reconnect, PaneShape
<1>10. UNCHANGED allVars => UNCHANGED paneVars
  BY DEF allVars
<1>11. QED
  BY <1>1, <1>2, <1>3, <1>4, <1>5, <1>6, <1>7, <1>8, <1>9, <1>10 DEF PaneNext, Tab

\* The elements of a sequence, and of one with an element more or less.
LEMMA RangeOf ==
  ASSUME NEW t \in Seq(Entry)
  PROVE  /\ \A k \in 1..Len(t) : t[k] \in Range(t)
         /\ \A e \in Range(t) : e \in Entry /\ \E k \in 1..Len(t) : t[k] = e
BY DEF Range

LEMMA RangeAppended ==
  ASSUME NEW t \in Seq(Entry), NEW e \in Entry
  PROVE  Range(Append(t, e)) = Range(t) \union {e}
<1> DEFINE u == Append(t, e)
<1>1. u \in Seq(Entry) /\ Len(u) = Len(t) + 1 /\ Len(t) \in Nat
  OBVIOUS
<1>2. u[Len(t) + 1] = e /\ \A k \in 1..Len(t) : u[k] = t[k]
  OBVIOUS
<1>3. /\ Len(t) + 1 \in 1..(Len(t) + 1) /\ \A k \in 1..Len(t) : k \in 1..(Len(t) + 1)
      /\ \A k \in 1..(Len(t) + 1) : k \in 1..Len(t) \/ k = Len(t) + 1
  BY <1>1
<1> HIDE DEF u
<1>4. Range(u) \subseteq Range(t) \union {e}
  <2>1. ASSUME NEW f \in Range(u)
        PROVE  f \in Range(t) \union {e}
    <3>1. PICK k \in 1..Len(u) : u[k] = f
      BY <1>1, RangeOf
    <3>2. QED
      BY <1>1, <1>2, <1>3, <3>1, RangeOf
  <2>2. QED
    BY <2>1
<1>5. e \in Range(u)
  BY <1>1, <1>2, <1>3, RangeOf
<1>6. Range(t) \subseteq Range(u)
  <2>1. ASSUME NEW f \in Range(t)
        PROVE  f \in Range(u)
    <3>1. PICK k \in 1..Len(t) : t[k] = f
      BY RangeOf
    <3>2. QED
      BY <1>1, <1>2, <1>3, <3>1, RangeOf
  <2>2. QED
    BY <2>1
<1>7. QED
  BY <1>4, <1>5, <1>6 DEF u

LEMMA RangeOfTail ==
  ASSUME NEW t \in Seq(Entry), t # <<>>, \A j, k \in 1..Len(t) : t[j] = t[k] => j = k
  PROVE  /\ Range(Tail(t)) = Range(t) \ {Head(t)} /\ Head(t) \in Range(t)
         /\ \A j, k \in 1..Len(Tail(t)) : Tail(t)[j] = Tail(t)[k] => j = k
<1> DEFINE u == Tail(t)
<1>1. /\ u \in Seq(Entry) /\ Len(u) = Len(t) - 1 /\ Len(t) \in Nat \ {0} /\ Head(t) = t[1]
      /\ \A k \in 1..Len(u) : u[k] = t[k + 1]
  OBVIOUS
<1>2. /\ 1 \in 1..Len(t)
      /\ \A k \in 1..Len(u) : k + 1 \in 1..Len(t) /\ k + 1 # 1
      /\ \A k \in 1..Len(t) : k = 1 \/ (k - 1 \in 1..Len(u) /\ (k - 1) + 1 = k)
      /\ \A j, k \in 1..Len(u) : j + 1 = k + 1 => j = k
  BY <1>1
<1> HIDE DEF u
<1>3. Head(t) \in Range(t)
  BY <1>1, <1>2, RangeOf
<1>4. ASSUME NEW f \in Range(u)
      PROVE  f \in Range(t) /\ f # Head(t)
  <2>1. PICK k \in 1..Len(u) : u[k] = f
    BY <1>1, RangeOf
  <2>2. t[k + 1] = f /\ k + 1 \in 1..Len(t) /\ k + 1 # 1
    BY <1>1, <1>2, <2>1
  <2>3. QED
    BY <1>1, <1>2, <2>2, RangeOf
<1>5. ASSUME NEW f \in Range(t), f # Head(t)
      PROVE  f \in Range(u)
  <2>1. PICK k \in 1..Len(t) : t[k] = f
    BY RangeOf
  <2>2. k - 1 \in 1..Len(u) /\ u[k - 1] = f
    BY <1>1, <1>2, <1>5, <2>1
  <2>3. QED
    BY <1>1, <2>2, RangeOf
<1>6. \A j, k \in 1..Len(u) : u[j] = u[k] => j = k
  BY <1>1, <1>2
<1>7. QED
  BY <1>3, <1>4, <1>5, <1>6 DEF u

\* The log only grows, by an entry that is then in hand.
LEMMA LogGrows ==
  ASSUME StoreInv, NEW r \in Requests, Locked(r)
  PROVE  /\ UNCHANGED sent /\ Len(log) \in Nat
         /\ \A i \in 1..Len(log) : i \in 1..Len(log') /\ log'[i] = log[i]
         /\ \A i \in 1..Len(log') : i \in 1..Len(log) \/ (i = Len(log) + 1 /\ log'[i] \in Hands')
         /\ \A e : Logged(e, log) => (e \in Hands' <=> e \in Hands)
<1>1. log \in Seq(Entry) /\ Len(log) \in Nat
  BY DEF StoreInv, StoreShape
<1>2. CASE Call(r) \/ Lock(r) \/ Persist(r)
  <2>1. UNCHANGED <<log, sent>> /\ InHand' = InHand
    BY <1>2 DEF Call, Lock, Persist, InHand, StoreInv, StoreShape
  <2>2. \A q \in InHand : q # r
    BY <1>2 DEF InHand, Call, Lock, Persist
  <2>3. \A q \in InHand : entry'[q] = entry[q]
    BY <1>2, <2>2 DEF Call, Lock, Persist, InHand, StoreInv, StoreShape
  <2>4. QED
    BY <1>1, <2>1, <2>3 DEF Hands
<1>3. CASE Record(r)
  <2> DEFINE e == entry[r]
  <2>1. UNCHANGED <<entry, sent>> /\ log' = Append(log, e) /\ r \notin InHand /\ InHand' = InHand \union {r}
    BY <1>3 DEF Record, InHand, StoreInv, StoreShape
  <2>2. e \in Entry /\ e.n = Len(log) + 1
    <3>1. e \in Entry /\ begun \in Nat
      BY DEF StoreInv, StoreShape
    <3>2. e.n = begun /\ begun # 0 /\ mu = r
      BY <1>3 DEF Record, StoreInv, OneInside, LogNumbered
    <3>3. Len(log) = begun - 1
      BY <3>2, StoreAssumption DEF StoreInv, LogNumbered
    <3>4. QED
      BY <3>1, <3>2, <3>3
  <2>3. /\ Len(log') = Len(log) + 1 /\ log'[Len(log) + 1] = e
        /\ \A i \in 1..Len(log) : log'[i] = log[i]
    BY <1>1, <2>1, <2>2
  <2>4. /\ \A i \in 1..Len(log) : i \in 1..(Len(log) + 1)
        /\ \A i \in 1..(Len(log) + 1) : i \in 1..Len(log) \/ i = Len(log) + 1
        /\ Len(log) + 1 \notin 1..Len(log)
    BY <1>1
  <2>5. Hands' = Hands \union {e}
    BY <2>1 DEF Hands
  <2>6. \A f : Logged(f, log) => f # e
    BY <2>2, <2>4 DEF Logged
  <2> HIDE DEF e
  <2>7. \A i \in 1..Len(log') : i \in 1..Len(log) \/ (i = Len(log) + 1 /\ log'[i] \in Hands')
    BY <2>3, <2>4, <2>5
  <2>8. QED
    BY <1>1, <2>1, <2>3, <2>4, <2>5, <2>6, <2>7
<1>4. QED
  BY <1>2, <1>3 DEF Locked

\* What was sent is in the log, and no longer in hand.
LEMMA SentFacts ==
  ASSUME StoreInv
  PROVE  /\ \A e \in Range(sent) : Logged(e, log) /\ e \notin Hands
         /\ \A e \in Hands : Logged(e, log)
         /\ \A i \in 1..Len(log) : Logged(log[i], log)
<1>1. sent \in Seq(Entry)
  BY DEF StoreInv, StoreShape
<1>2. \A e \in Range(sent) : Logged(e, log) /\ e \notin Hands
  BY <1>1, RangeOf DEF StoreInv, SentOrInHand, Hands
<1>3. \A e \in Hands : Logged(e, log)
  BY DEF StoreInv, SentOrInHand, Hands
<1>4. \A i \in 1..Len(log) : Logged(log[i], log)
  BY DEF StoreInv, LogNumbered, Logged
<1>5. QED
  BY <1>2, <1>3, <1>4

LEMMA StoreWorks ==
  ASSUME PaneInv, NEW r \in Requests, Locked(r), UNCHANGED paneVars
  PROVE  PaneKnows' /\ TwiceAtMost' /\ LiveInOrder'
<1>1. UNCHANGED <<sent, online, wire, last, pane, fetched, entries, liveSince>>
  BY LogGrows DEF paneVars, PaneInv
<1>2. /\ Len(log) \in Nat
      /\ \A i \in 1..Len(log) : i \in 1..Len(log') /\ log'[i] = log[i]
      /\ \A i \in 1..Len(log') : i \in 1..Len(log) \/ (i = Len(log) + 1 /\ log'[i] \in Hands')
      /\ \A e : Logged(e, log) => (e \in Hands' <=> e \in Hands)
  BY LogGrows DEF PaneInv
<1>3. \A e : Logged(e, log) => Logged(e, log')
  BY <1>2 DEF Logged
<1>4. Past' = Past
  BY <1>1 DEF Past
<1>5. PaneKnows'
  BY <1>1, <1>3, <1>4 DEF PaneInv, PaneKnows
<1>6. TwiceAtMost'
  BY <1>1, <1>4 DEF PaneInv, TwiceAtMost
<1>7. LiveInOrder'
  <2> SUFFICES ASSUME pane = "live", online, NEW i \in (liveSince + 1)..Len(log')
               PROVE  ShownAs(log'[i], entries, Waiting', Past)
    BY <1>1, <1>4 DEF LiveInOrder
  <2>1. liveSince \in Nat /\ i \in 1..Len(log')
    BY <1>2 DEF PaneInv, PaneShape
  <2>2. CASE i \in 1..Len(log)
    <3>1. i \in (liveSince + 1)..Len(log) /\ log'[i] = log[i]
      BY <1>2, <2>1, <2>2
    <3>2. Logged(log[i], log)
      BY <2>2, SentFacts DEF PaneInv
    <3>3. log[i] \in Waiting' <=> log[i] \in Waiting
      BY <1>1, <1>2, <3>2 DEF Waiting
    <3>4. QED
      BY <3>1, <3>3 DEF PaneInv, LiveInOrder, ShownAs
  <2>3. CASE i = Len(log) + 1 /\ log'[i] \in Hands'
    <3>1. log'[i] \in Waiting'
      BY <2>3 DEF Waiting
    <3>2. log'[i].n = Len(log) + 1
      BY <2>1, <2>3, StoreStep DEF PaneInv, StoreNext, StoreInv, LogNumbered
    <3>3. \A k \in 1..Len(entries) : entries[k].n \in 1..Len(log)
      BY DEF PaneInv, PaneKnows, Logged
    <3>4. \A k \in 1..Len(entries) : entries[k] # log'[i]
      BY <1>2, <3>2, <3>3
    <3>5. log'[i] \notin Range(entries)
      BY <3>4, RangeOf DEF PaneInv, PaneShape
    <3>6. QED
      BY <3>1, <3>4, <3>5 DEF ShownAs
  <2>4. QED
    BY <1>2, <2>1, <2>2, <2>3
<1>8. QED
  BY <1>5, <1>6, <1>7

\* What holds with fewer events past holds with more.
LEMMA MorePast ==
  ASSUME NEW t, NEW past, NEW more, past \subseteq more
  PROVE  /\ Twice(t, past) => Twice(t, more)
         /\ \A p : OnceFrom(p, t, past) => OnceFrom(p, t, more)
BY DEF Twice, OnceFrom

LEMMA PublishStep ==
  ASSUME PaneInv, NEW r \in Requests, Publish(r)
  PROVE  PaneKnows' /\ TwiceAtMost' /\ LiveInOrder'
<1> DEFINE e == entry[r]
<1>1. /\ UNCHANGED <<entry, log, online, last, pane, fetched, entries, liveSince>>
      /\ sent' = Append(sent, e) /\ r \in InHand /\ InHand' = InHand \ {r}
      /\ wire' = IF online THEN Append(wire, e) ELSE wire
  BY DEF Publish, Notify, InHand, PaneInv, StoreInv, StoreShape
<1>2. e \in Entry /\ sent \in Seq(Entry) /\ wire \in Seq(Entry)
  BY DEF PaneInv, StoreInv, StoreShape, PaneShape
<1>3. e \in Hands /\ Hands' = Hands \ {e}
  BY <1>1 DEF Hands, PaneInv, StoreInv, SentOrInHand
<1> HIDE DEF e
<1>4. e \notin Range(sent) /\ Range(sent') = Range(sent) \union {e}
  BY <1>1, <1>2, <1>3, SentFacts, RangeAppended DEF PaneInv
<1>5. Range(wire) \subseteq Range(sent) /\ e \notin Range(wire)
  BY <1>4 DEF PaneInv, PaneKnows
<1>6. online => wire' = Append(wire, e) /\ Range(wire') = Range(wire) \union {e}
  BY <1>1, <1>2, RangeAppended
<1>7. ~online => wire' = wire
  BY <1>1
<1>8. /\ Past \subseteq Past' /\ Range(wire') \subseteq Range(sent')
      /\ online => Past' = Past /\ Waiting' = Waiting
  BY <1>3, <1>4, <1>5, <1>6, <1>7 DEF Past, Waiting, PaneInv
<1>9. \A j, k \in 1..Len(wire') : wire'[j] = wire'[k] => j = k
  <2>1. \A j, k \in 1..Len(wire) : wire[j] = wire[k] => j = k
    BY DEF PaneInv, PaneKnows
  <2>2. CASE wire' = Append(wire, e)
    <3>1. Len(wire') = Len(wire) + 1 /\ wire'[Len(wire) + 1] = e /\ \A k \in 1..Len(wire) : wire'[k] = wire[k]
      BY <1>2, <2>2
    <3>2. \A k \in 1..(Len(wire) + 1) : k \in 1..Len(wire) \/ k = Len(wire) + 1
      BY <1>2
    <3>3. \A k \in 1..Len(wire) : wire[k] # e
      BY <1>2, <1>5, RangeOf
    <3>4. QED
      BY <2>1, <3>1, <3>2, <3>3
  <2>3. QED
    BY <1>6, <1>7, <2>1, <2>2
<1>10. PaneKnows'
  BY <1>1, <1>8, <1>9 DEF PaneInv, PaneKnows
<1>11. TwiceAtMost'
  BY <1>1, <1>8, MorePast DEF PaneInv, TwiceAtMost
<1>12. LiveInOrder'
  BY <1>1, <1>8 DEF PaneInv, LiveInOrder
<1>13. QED
  BY <1>10, <1>11, <1>12

\* Steps of the tab that show nothing new.
LEMMA TabStep ==
  ASSUME PaneInv, Mount \/ ServeRecent \/ FetchFails \/ Unmount \/ Disconnect \/ Reconnect
  PROVE  PaneKnows' /\ TwiceAtMost' /\ LiveInOrder'
<1>1. UNCHANGED <<storeVars, last>>
  BY DEF Mount, ServeRecent, FetchFails, Unmount, Disconnect, Reconnect
<1>2. UNCHANGED <<log, sent, entry, phase>>
  BY <1>1 DEF storeVars
<1>3. wire' = wire \/ wire' = <<>>
  BY DEF Mount, ServeRecent, FetchFails, Unmount, Disconnect, Reconnect
<1>4. entries' = entries \/ entries' = <<>>
  BY DEF Mount, ServeRecent, FetchFails, Unmount, Disconnect, Reconnect
<1>5. Past \subseteq Past' /\ Range(wire') \subseteq Range(sent')
  <2>1. Range(<<>>) = {}
    BY DEF Range
  <2>2. QED
    BY <1>2, <1>3, <2>1 DEF Past, PaneInv, PaneKnows
<1>6. \A j, k \in 1..Len(wire') : wire'[j] = wire'[k] => j = k
  BY <1>3 DEF PaneInv, PaneKnows
<1>7. /\ \A k \in 1..Len(fetched') : Logged(fetched'[k], log)
      /\ \A j, k \in 1..Len(fetched') : fetched'[j] = fetched'[k] => j = k
  <2>1. CASE fetched' = fetched \/ fetched' = <<>>
    BY <2>1 DEF PaneInv, PaneKnows
  <2>2. CASE fetched' = Recent(RecentSize)
    <3> DEFINE t == Recent(RecentSize)
    <3>1. PICK d \in Nat : \A k \in 1..Len(t) : d + k \in 1..Len(ring) /\ t[k] = ring[d + k]
      BY RecentText DEF PaneInv
    <3>2. \A i \in 1..Len(ring) : /\ Len(log) - Len(ring) + i \in 1..Len(log)
                                  /\ ring[i] = log[Len(log) - Len(ring) + i]
      <4>1. Len(log) \in Nat /\ Len(ring) \in Nat /\ Len(ring) <= Len(log)
        BY StoreAssumption DEF PaneInv, StoreInv, StoreShape, RingIsTail
      <4>2. \A i \in 1..Len(ring) : Len(log) - Len(ring) + i \in 1..Len(log)
        BY <4>1
      <4>3. QED
        BY <4>2 DEF PaneInv, StoreInv, RingIsTail
    <3>3. \A i \in 1..Len(ring) : Logged(ring[i], log) /\ ring[i].n = Len(log) - Len(ring) + i
      BY <3>2, SentFacts DEF PaneInv, StoreInv, LogNumbered
    <3> HIDE DEF t
    <3>4. \A k \in 1..Len(t) : Logged(t[k], log) /\ t[k].n = Len(log) - Len(ring) + (d + k)
      BY <3>1, <3>3
    <3>5. ASSUME NEW j \in 1..Len(t), NEW k \in 1..Len(t), t[j] = t[k]
          PROVE  j = k
      <4>1. Len(log) - Len(ring) + (d + j) = Len(log) - Len(ring) + (d + k)
        BY <3>4, <3>5
      <4>2. Len(log) \in Nat /\ Len(ring) \in Nat
        BY DEF PaneInv, StoreInv, StoreShape
      <4>3. QED
        BY <4>1, <4>2
    <3>6. QED
      BY <2>2, <3>4, <3>5 DEF t
  <2>3. QED
    BY <2>1, <2>2 DEF Mount, ServeRecent, FetchFails, Unmount, Disconnect, Reconnect
<1>8. PaneKnows'
  <2>1. \A k \in 1..Len(entries') : Logged(entries'[k], log)
    BY <1>4 DEF PaneInv, PaneKnows
  <2>2. last' # NoEntry => last' \in Past'
    BY <1>1, <1>5 DEF PaneInv, PaneKnows
  <2>3. QED
    BY <1>2, <1>5, <1>6, <1>7, <2>1, <2>2 DEF PaneKnows
<1>9. TwiceAtMost'
  <2>1. Twice(<<>>, Past')
    BY DEF Twice
  <2>2. QED
    BY <1>4, <1>5, <2>1, MorePast DEF PaneInv, TwiceAtMost
<1>10. LiveInOrder'
  <2>1. CASE pane' # "live" \/ ~online'
    BY <2>1 DEF LiveInOrder
  <2>2. CASE Reconnect
    <3>1. Len(log) \in Nat /\ liveSince' = Len(log)
      BY <2>2 DEF Reconnect, PaneInv, StoreInv, StoreShape
    <3>2. \A i \in (liveSince' + 1)..Len(log) : FALSE
      BY <3>1
    <3>3. QED
      BY <1>2, <3>2 DEF LiveInOrder
  <2>3. QED
    BY <2>1, <2>2 DEF Mount, ServeRecent, FetchFails, Unmount, Disconnect
<1>11. QED
  BY <1>8, <1>9, <1>10

\* Where the text with one more event has what the text before had.
LEMMA OldPlaces ==
  ASSUME NEW shown \in Seq(Entry), Len(shown) <= PaneSize, NEW f \in Entry
  PROVE  LET t == Shown(shown, f)
             n == Len(t)
             d == IF Len(shown) = PaneSize THEN 1 ELSE 0
         IN  /\ t \in Seq(Entry) /\ n \in Nat \ {0} /\ d \in 0..1 /\ t[n] = f
             /\ \A k \in 1..n : k = n \/ (k + d \in 1..Len(shown) /\ t[k] = shown[k + d])
             /\ \A k \in 1..Len(shown) :
                  \/ k - d \in 1..n /\ t[k - d] = shown[k]
                  \/ k = 1 /\ d = 1
             /\ d = 1 => n = PaneSize
<1> DEFINE t == Shown(shown, f)
           n == Len(t)
           d == IF Len(shown) = PaneSize THEN 1 ELSE 0
<1>1. /\ t \in Seq(Entry) /\ n = Len(shown) + 1 - d /\ t[n] = f
      /\ \A k \in 1..(n - 1) : t[k] = shown[k + d]
  BY ShownText
<1>2. Len(shown) \in Nat /\ PaneSize \in Nat \ {0}
  BY PaneAssumption
<1>3. d \in 0..1 /\ (d = 1 => Len(shown) = PaneSize)
  BY <1>2
<1> HIDE DEF t, d
<1>4. n \in Nat \ {0} /\ (d = 1 => n = PaneSize)
  BY <1>1, <1>2, <1>3
<1>5. \A k \in 1..n : k = n \/ (k \in 1..(n - 1) /\ k + d \in 1..Len(shown))
  BY <1>1, <1>2, <1>3
<1>6. \A k \in 1..Len(shown) : \/ k - d \in 1..(n - 1) /\ (k - d) + d = k /\ k - d \in 1..n
                               \/ k = 1 /\ d = 1
  BY <1>1, <1>2, <1>3
<1>7. \A k \in 1..Len(shown) : \/ k - d \in 1..n /\ t[k - d] = shown[k]
                               \/ k = 1 /\ d = 1
  BY <1>1, <1>6
<1>8. QED
  BY <1>1, <1>3, <1>4, <1>5, <1>7 DEF t, d

LEMMA OldOrNew ==
  ASSUME NEW shown \in Seq(Entry), Len(shown) <= PaneSize, NEW f \in Entry,
         NEW k \in 1..Len(Shown(shown, f))
  PROVE  Shown(shown, f)[k] = f \/ \E j \in 1..Len(shown) : Shown(shown, f)[k] = shown[j]
<1> DEFINE t == Shown(shown, f)
           d == IF Len(shown) = PaneSize THEN 1 ELSE 0
<1>1. /\ t[Len(t)] = f
      /\ \A i \in 1..Len(t) : i = Len(t) \/ (i + d \in 1..Len(shown) /\ t[i] = shown[i + d])
  BY OldPlaces
<1>2. k \in 1..Len(t)
  OBVIOUS
<1> HIDE DEF t, d
<1>3. t[k] = f \/ \E j \in 1..Len(shown) : t[k] = shown[j]
  BY <1>1, <1>2
<1>4. QED
  BY <1>3 DEF t

LEMMA OneMoreTwice ==
  ASSUME NEW shown \in Seq(Entry), Len(shown) <= PaneSize, NEW f \in Entry,
         NEW past, NEW more, past \subseteq more, f \in more, Twice(shown, past),
         \A a, b \in 1..Len(shown) : shown[a] = f /\ shown[b] = f => a = b
  PROVE  Twice(Shown(shown, f), more)
<1> DEFINE t == Shown(shown, f)
           n == Len(t)
           d == IF Len(shown) = PaneSize THEN 1 ELSE 0
<1>1. /\ n \in Nat \ {0} /\ d \in 0..1 /\ t[n] = f
      /\ \A k \in 1..n : k = n \/ (k + d \in 1..Len(shown) /\ t[k] = shown[k + d])
  BY OldPlaces
<1> HIDE DEF t, n, d
<1>2. \A j, k \in 1..n : j + d = k + d => j = k
  BY <1>1
<1>3. \A j, k \in 1..n : j # n /\ k # n /\ t[j] = f /\ t[k] = f => j = k
  BY <1>1, <1>2
<1>4. \A a, b, c \in 1..n : a # n /\ b # n /\ c # n /\ t[a] = t[b] /\ t[b] = t[c]
                              => a = b \/ a = c \/ b = c
  BY <1>1, <1>2 DEF Twice
<1>5. \A a, b, c \in 1..n : t[a] = t[b] /\ t[b] = t[c] => a = b \/ a = c \/ b = c
  BY <1>1, <1>3, <1>4
<1>6. ASSUME NEW a \in 1..n, NEW b \in 1..n, t[a] = t[b], t[a] \notin more
      PROVE  a = b
  <2>1. a # n /\ b # n
    BY <1>1, <1>6
  <2>2. a + d = b + d
    BY <1>1, <1>6, <2>1 DEF Twice
  <2>3. QED
    BY <1>2, <2>2
<1>7. QED
  BY <1>5, <1>6 DEF Twice, t, n

\* The events shown once from some place on are so after one more, which is new.
LEMMA OneMoreOnce ==
  ASSUME NEW shown \in Seq(Entry), Len(shown) <= PaneSize, NEW f \in Entry,
         NEW past, f \notin past,
         NEW q \in Nat \ {0}, NEW p \in Nat \ {0}, OnceFrom(q, shown, past),
         q <= p + (IF Len(shown) = PaneSize THEN 1 ELSE 0)
  PROVE  OnceFrom(p, Shown(shown, f), past \union {f})
<1> DEFINE t == Shown(shown, f)
           n == Len(t)
           d == IF Len(shown) = PaneSize THEN 1 ELSE 0
<1>1. /\ n \in Nat \ {0} /\ d \in 0..1 /\ t[n] = f
      /\ \A k \in 1..n : k = n \/ (k + d \in 1..Len(shown) /\ t[k] = shown[k + d])
  BY OldPlaces
<1>2. q <= p + d
  OBVIOUS
<1> HIDE DEF t, n, d
<1>3. \A k \in p..n : k \in 1..n /\ (k + d \in 1..Len(shown) => k + d \in q..Len(shown))
  BY <1>1, <1>2
<1>4. \A k \in p..n : k = n \/ (k + d \in q..Len(shown) /\ t[k] = shown[k + d])
  BY <1>1, <1>3
<1>5. \A k \in p..n : k = n \/ t[k] \in past
  BY <1>4 DEF OnceFrom
<1>6. \A a, b \in p..n : a + d = b + d => a = b
  BY <1>1
<1>7. \A a, b \in p..n : a # n /\ b # n /\ t[a] = t[b] => a = b
  BY <1>4, <1>6 DEF OnceFrom
<1>8. \A a, b \in p..n : t[a] = t[b] => a = b
  BY <1>1, <1>5, <1>7
<1>9. \A a \in p..n : t[a] \in past \union {f}
  BY <1>1, <1>5
<1>10. QED
  BY <1>8, <1>9 DEF OnceFrom, t, n

LEMMA OneMoreAs ==
  ASSUME NEW shown \in Seq(Entry), Len(shown) <= PaneSize, NEW f \in Entry,
         NEW past, f \notin past, NEW waiting, NEW e, ShownAs(e, shown, waiting, past)
  PROVE  ShownAs(e, Shown(shown, f), waiting \ {f}, past \union {f})
<1> DEFINE t == Shown(shown, f)
           n == Len(t)
           d == IF Len(shown) = PaneSize THEN 1 ELSE 0
           now == past \union {f}
<1>1. /\ t \in Seq(Entry) /\ n \in Nat \ {0} /\ d \in 0..1 /\ t[n] = f
      /\ \A k \in 1..n : k = n \/ (k + d \in 1..Len(shown) /\ t[k] = shown[k + d])
      /\ \A k \in 1..Len(shown) :
           \/ k - d \in 1..n /\ t[k - d] = shown[k]
           \/ k = 1 /\ d = 1
      /\ d = 1 => n = PaneSize
  BY OldPlaces
<1>2. \A q, p \in Nat \ {0} : OnceFrom(q, shown, past) /\ q <= p + d => OnceFrom(p, t, now)
  BY OneMoreOnce
<1>3. Len(shown) = PaneSize => d = 1
  OBVIOUS
<1>4. n \in 1..n
  BY <1>1
<1> HIDE DEF t, d, n
<1>5. ASSUME e \in waiting \ {f}
      PROVE  e \notin Range(t)
  <2>1. \A k \in 1..Len(shown) : shown[k] # e
    BY <1>5, RangeOf DEF ShownAs
  <2>2. \A k \in 1..n : t[k] # e
    BY <1>1, <1>5, <2>1
  <2>3. QED
    BY <1>1, <2>2, RangeOf DEF n
<1>6. ASSUME e \notin waiting \ {f}, e \notin Range(t)
      PROVE  n = PaneSize /\ OnceFrom(1, t, now)
  <2>1. \A k \in 1..n : t[k] # e
    BY <1>1, <1>6, RangeOf DEF n
  <2>2. e # f /\ e \notin waiting
    BY <1>1, <1>4, <1>6, <2>1
  <2>3. d = 1 /\ OnceFrom(1, shown, past)
    <3>1. CASE e \notin Range(shown)
      BY <1>3, <2>2, <3>1 DEF ShownAs
    <3>2. CASE e \in Range(shown)
      <4>1. PICK k \in 1..Len(shown) : shown[k] = e
        BY <3>2, RangeOf
      <4>2. k = 1 /\ d = 1
        BY <1>1, <2>1, <4>1
      <4>3. OnceFrom(k, shown, past)
        BY <4>1 DEF ShownAs
      <4>4. QED
        BY <4>2, <4>3
    <3>3. QED
      BY <3>1, <3>2
  <2>4. 1 \in Nat \ {0} /\ 1 <= 1 + d
    BY <1>1
  <2>5. QED
    BY <1>1, <1>2, <2>3, <2>4
<1>7. ASSUME NEW p \in 1..n, t[p] = e
      PROVE  OnceFrom(p, t, now)
  <2>1. CASE p = n
    <3>1. \A a \in p..n : a = n
      BY <1>1, <2>1
    <3>2. QED
      BY <1>1, <3>1 DEF OnceFrom, n
  <2>2. CASE p # n
    <3>1. p + d \in 1..Len(shown) /\ shown[p + d] = e
      BY <1>1, <1>7, <2>2
    <3>2. OnceFrom(p + d, shown, past)
      BY <3>1 DEF ShownAs
    <3>3. p \in Nat \ {0} /\ p + d \in Nat \ {0} /\ p + d <= p + d
      BY <1>1
    <3>4. QED
      BY <1>2, <3>2, <3>3
  <2>3. QED
    BY <2>1, <2>2
<1>8. QED
  BY <1>5, <1>6, <1>7 DEF ShownAs, t, n

LEMMA SubscribeStep ==
  ASSUME PaneInv, Subscribe
  PROVE  PaneKnows' /\ TwiceAtMost' /\ LiveInOrder'
<1>1. UNCHANGED <<log, sent, wire, last, fetched>> /\ Len(log) \in Nat /\ liveSince' = Len(log)
  BY DEF Subscribe, storeVars, PaneInv, StoreInv, StoreShape
<1>2. Past' = Past
  BY <1>1 DEF Past
<1>3. fetched \in Seq(Entry) /\ Len(fetched) <= PaneSize /\ last \in Entry
  <2>1. Len(fetched) \in Nat /\ Len(fetched) <= RecentSize
    BY DEF PaneInv, PaneShape
  <2>2. QED
    BY <2>1, PaneAssumption DEF PaneInv, PaneShape
<1>4. \A j, k \in 1..Len(fetched) : fetched[j] = fetched[k] => j = k
  BY DEF PaneInv, PaneKnows
<1>5. Twice(fetched, Past)
  BY <1>4 DEF Twice
<1>6. (\A k \in 1..Len(entries') : Logged(entries'[k], log)) /\ Twice(entries', Past)
  <2>1. CASE last = NoEntry
    <3>1. entries' = fetched
      BY <2>1 DEF Subscribe
    <3>2. QED
      BY <1>5, <3>1 DEF PaneInv, PaneKnows
  <2>2. CASE last # NoEntry
    <3>1. entries' = Shown(fetched, last)
      BY <2>2 DEF Subscribe
    <3>2. last \in Past
      BY <2>2 DEF PaneInv, PaneKnows
    <3>3. Logged(last, log)
      BY <3>2, SentFacts DEF Past, PaneInv
    <3>4. Twice(entries', Past)
      BY <1>3, <1>4, <1>5, <3>1, <3>2, OneMoreTwice
    <3>5. \A k \in 1..Len(entries') : entries'[k] = last \/ \E j \in 1..Len(fetched) : entries'[k] = fetched[j]
      BY <1>3, <3>1, OldOrNew
    <3>6. QED
      BY <3>3, <3>4, <3>5 DEF PaneInv, PaneKnows
  <2>3. QED
    BY <2>1, <2>2
<1>7. PaneKnows'
  BY <1>1, <1>2, <1>6 DEF PaneInv, PaneKnows
<1>8. TwiceAtMost'
  BY <1>2, <1>6 DEF TwiceAtMost
<1>9. LiveInOrder'
  <2>1. \A i \in (liveSince' + 1)..Len(log) : FALSE
    BY <1>1
  <2>2. QED
    BY <1>1, <2>1 DEF LiveInOrder
<1>10. QED
  BY <1>7, <1>8, <1>9

LEMMA ReceiveStep ==
  ASSUME PaneInv, Receive
  PROVE  PaneKnows' /\ TwiceAtMost' /\ LiveInOrder'
<1> DEFINE f == Head(wire)
<1>1. /\ UNCHANGED <<log, sent, entry, phase, online, pane, fetched, liveSince>>
      /\ wire # <<>> /\ wire' = Tail(wire) /\ last' = f
      /\ entries' = IF pane = "live" THEN Shown(entries, f) ELSE entries
  BY DEF Receive, storeVars
<1>2. wire \in Seq(Entry) /\ entries \in Seq(Entry) /\ Len(entries) <= PaneSize
  BY DEF PaneInv, PaneShape
<1>3. f \in Entry
  BY <1>1, <1>2
<1>4. /\ Range(wire') = Range(wire) \ {f} /\ f \in Range(wire)
      /\ \A j, k \in 1..Len(wire') : wire'[j] = wire'[k] => j = k
  BY <1>1, <1>2, RangeOfTail DEF PaneInv, PaneKnows
<1> HIDE DEF f
<1>5. f \in Range(sent) /\ Logged(f, log) /\ f \notin Hands
  BY <1>4, SentFacts DEF PaneInv, PaneKnows
<1>6. f \notin Past /\ Past' = Past \union {f}
  BY <1>1, <1>4, <1>5 DEF Past
<1>7. Hands' = Hands
  BY <1>1 DEF Hands, InHand
<1>8. Waiting' = Waiting \ {f}
  BY <1>4, <1>5, <1>7 DEF Waiting
<1>9. (\A k \in 1..Len(entries') : Logged(entries'[k], log)) /\ Twice(entries', Past')
  <2>1. CASE pane # "live"
    BY <1>1, <1>6, <2>1, MorePast DEF PaneInv, PaneKnows, TwiceAtMost
  <2>2. CASE pane = "live"
    <3>1. entries' = Shown(entries, f)
      BY <1>1, <2>2
    <3>2. \A a, b \in 1..Len(entries) : entries[a] = f /\ entries[b] = f => a = b
      BY <1>6 DEF PaneInv, TwiceAtMost, Twice
    <3>3. Past \subseteq Past' /\ f \in Past' /\ Twice(entries, Past)
      BY <1>6 DEF PaneInv, TwiceAtMost
    <3>4. Twice(Shown(entries, f), Past')
      BY <1>2, <1>3, <3>2, <3>3, OneMoreTwice
    <3>5. \A k \in 1..Len(entries') : entries'[k] = f \/ \E j \in 1..Len(entries) : entries'[k] = entries[j]
      BY <1>2, <1>3, <3>1, OldOrNew
    <3>6. QED
      BY <1>5, <3>1, <3>4, <3>5 DEF PaneInv, PaneKnows
  <2>3. QED
    BY <2>1, <2>2
<1>10. PaneKnows'
  BY <1>1, <1>4, <1>6, <1>9 DEF PaneInv, PaneKnows
<1>11. TwiceAtMost'
  BY <1>9 DEF TwiceAtMost
<1>12. LiveInOrder'
  <2> SUFFICES ASSUME pane = "live", online, NEW i \in (liveSince + 1)..Len(log)
               PROVE  ShownAs(log[i], entries', Waiting', Past')
    BY <1>1 DEF LiveInOrder
  <2>1. ShownAs(log[i], entries, Waiting, Past)
    BY DEF PaneInv, LiveInOrder
  <2>2. entries' = Shown(entries, f)
    BY <1>1
  <2>3. ShownAs(log[i], Shown(entries, f), Waiting \ {f}, Past \union {f})
    BY <1>2, <1>3, <1>6, <2>1, OneMoreAs
  <2>4. QED
    BY <1>6, <1>8, <2>2, <2>3
<1>13. QED
  BY <1>10, <1>11, <1>12

LEMMA PaneStep == PaneInv /\ [PaneNext]_allVars => PaneInv'
<1> SUFFICES ASSUME PaneInv, [PaneNext]_allVars
             PROVE  PaneInv'
  OBVIOUS
<1>1. StoreInv'
  BY PaneStepsTheStore, StoreStep DEF PaneInv
<1>2. PaneShape'
  BY PaneShapeKept DEF PaneInv
<1>3. CASE UNCHANGED allVars
  <2>1. UNCHANGED <<storeVars, paneVars>>
    BY <1>3 DEF allVars
  <2>2. UNCHANGED <<log, sent, entry, phase, online, wire, last, pane, fetched, entries, liveSince>>
    BY <2>1 DEF storeVars, paneVars
  <2>3. Past' = Past /\ Waiting' = Waiting
    BY <2>2 DEF Past, Waiting, Hands, InHand
  <2>4. PaneKnows' /\ TwiceAtMost' /\ LiveInOrder'
    BY <2>2, <2>3 DEF PaneInv, PaneKnows, TwiceAtMost, LiveInOrder
  <2>5. QED
    BY <1>1, <1>2, <2>2, <2>4 DEF PaneInv
<1>4. CASE \E r \in Requests : Publish(r) \/ (Locked(r) /\ UNCHANGED paneVars)
  <2>1. PaneKnows' /\ TwiceAtMost' /\ LiveInOrder'
    BY <1>4, PublishStep, StoreWorks
  <2>2. online' = online
    BY <1>4 DEF Publish, paneVars
  <2>3. QED
    BY <1>1, <1>2, <2>1, <2>2 DEF PaneInv
<1>5. CASE Tab
  <2>1. PaneKnows' /\ TwiceAtMost' /\ LiveInOrder'
    BY <1>5, TabStep, SubscribeStep, ReceiveStep DEF Tab
  <2>2. online' \in BOOLEAN
    BY <1>5 DEF PaneInv, Tab, Mount, ServeRecent, FetchFails, Subscribe, Receive, Unmount,
       Disconnect, Reconnect
  <2>3. QED
    BY <1>1, <1>2, <2>1, <2>2 DEF PaneInv
<1>6. QED
  BY <1>3, <1>4, <1>5 DEF PaneNext

LEMMA AlwaysPaneInv == PaneSpec => []PaneInv
BY PaneInitial, PaneStep, PTL DEF PaneSpec

\* The variables of the store and of the pane keep their types; the pane never shows more
\* than it has room for.
THEOREM PaneTypeCorrect == PaneSpec => []PaneTypeOK
<1>1. PaneInv => PaneTypeOK
  <2> SUFFICES ASSUME PaneInv
               PROVE  PaneTypeOK
    OBVIOUS
  <2>1. Len(ring) <= RingSize
    BY StoreAssumption DEF PaneInv, StoreInv, StoreShape, RingIsTail
  <2>2. StoreTypeOK
    BY <2>1 DEF PaneInv, StoreInv, StoreShape, StoreTypeOK
  <2>3. QED
    BY <2>2 DEF PaneInv, PaneShape, PaneTypeOK
<1>2. QED
  BY <1>1, AlwaysPaneInv, PTL

\* How often a command is shown, from where it is shown.
LEMMA TimesShown ==
  ASSUME NEW t \in Seq(Entry), NEW e
  PROVE  /\ e \notin Range(t) => Times(t, e) = 0
         /\ \A p \in 1..Len(t) : t[p] = e /\ (\A b \in 1..Len(t) : t[b] = e => b = p) => Times(t, e) = 1
         /\ (\A a, b, c \in 1..Len(t) : t[a] = e /\ t[b] = e /\ t[c] = e => a = b \/ a = c \/ b = c)
              => Times(t, e) <= 2
<1> DEFINE P == {i \in DOMAIN t : t[i] = e}
<1>1. DOMAIN t = 1..Len(t) /\ P = {i \in 1..Len(t) : t[i] = e} /\ Times(t, e) = Cardinality(P)
  BY DEF Times
<1>2. ASSUME e \notin Range(t)
      PROVE  Times(t, e) = 0
  <2>1. P = {}
    BY <1>1, <1>2, RangeOf
  <2>2. QED
    BY <1>1, <2>1, FS_EmptySet
<1>3. ASSUME NEW p \in 1..Len(t), t[p] = e, \A b \in 1..Len(t) : t[b] = e => b = p
      PROVE  Times(t, e) = 1
  <2>1. P = {p}
    BY <1>1, <1>3
  <2>2. QED
    BY <1>1, <2>1, FS_Singleton
<1>4. ASSUME \A a, b, c \in 1..Len(t) : t[a] = e /\ t[b] = e /\ t[c] = e => a = b \/ a = c \/ b = c
      PROVE  Times(t, e) <= 2
  <2>1. CASE P = {}
    <3>1. Cardinality(P) = 0
      BY <2>1, FS_EmptySet
    <3>2. QED
      BY <1>1, <3>1
  <2>2. CASE P # {}
    <3>1. PICK p \in P : TRUE
      BY <2>2
    <3>2. CASE P = {p}
      <4>1. Cardinality(P) = 1
        BY <3>2, FS_Singleton
      <4>2. QED
        BY <1>1, <4>1
    <3>3. CASE P # {p}
      <4>1. PICK q \in P : q # p
        BY <3>1, <3>3
      <4> DEFINE one == {p}
      <4>2. P = one \union {q} /\ q \notin one
        BY <1>1, <1>4, <3>1, <4>1
      <4>3. IsFiniteSet(one) /\ Cardinality(one) = 1
        BY FS_Singleton
      <4> HIDE DEF P, one
      <4>4. Cardinality(P) = Cardinality(one) + 1
        BY <4>2, <4>3, FS_AddElement
      <4>5. QED
        BY <1>1, <4>3, <4>4
    <3>4. QED
      BY <3>2, <3>3
  <2>3. QED
    BY <2>1, <2>2
<1>5. QED
  BY <1>2, <1>3, <1>4

\* What is echoed while a pane is live and its socket stays up is shown exactly once as
\* soon as it has arrived, until the pane is full of others, and no command is ever shown
\* more than twice: for every size of the ring, of the answer and of the pane.
THEOREM LiveEchoAlwaysShownOnce == PaneSpec => []LiveEchoShownOnce
<1>1. PaneInv => LiveEchoShownOnce
  <2> SUFFICES ASSUME PaneInv
               PROVE  LiveEchoShownOnce
    OBVIOUS
  <2>1. entries \in Seq(Entry) /\ DOMAIN entries = 1..Len(entries)
    BY DEF PaneInv, PaneShape
  <2>2. \A e : InFlight(e) <=> e \in Waiting
    BY DEF InFlight, Waiting, Hands, InHand
  <2>3. ASSUME pane = "live", online, NEW i \in (liveSince + 1)..Len(log)
        PROVE  \/ Times(entries, log[i]) = IF InFlight(log[i]) THEN 0 ELSE 1
               \/ ~InFlight(log[i]) /\ PushedOut(log[i])
    <3> DEFINE e == log[i]
    <3>1. ShownAs(e, entries, Waiting, Past)
      BY <2>3 DEF PaneInv, LiveInOrder
    <3> HIDE DEF e
    <3>2. CASE e \in Waiting
      <4>1. Times(entries, e) = 0
        BY <2>1, <3>1, <3>2, TimesShown DEF ShownAs
      <4>2. QED
        BY <2>2, <3>2, <4>1 DEF e
    <3>3. CASE e \notin Waiting /\ e \notin Range(entries)
      <4>1. Len(entries) = PaneSize /\ OnceFrom(1, entries, Past)
        BY <3>1, <3>3 DEF ShownAs
      <4>2. IsInjective(entries)
        BY <2>1, <4>1 DEF OnceFrom, IsInjective
      <4>3. QED
        BY <2>2, <3>3, <4>1, <4>2 DEF PushedOut, e
    <3>4. CASE e \notin Waiting /\ e \in Range(entries)
      <4>1. Times(entries, e) = 1
        <5>1. PICK p \in 1..Len(entries) : entries[p] = e
          BY <2>1, <3>4, RangeOf
        <5>2. \A k \in 1..Len(entries) : entries[k] = e => OnceFrom(k, entries, Past)
          BY <3>1 DEF ShownAs
        <5>3. \A k \in 1..Len(entries) : \A j \in 1..Len(entries) : j \in k..Len(entries) \/ k \in j..Len(entries)
          BY <2>1
        <5>4. \A k \in 1..Len(entries) : k \in k..Len(entries)
          BY <2>1
        <5>5. \A b \in 1..Len(entries) : entries[b] = e => b = p
          BY <5>1, <5>2, <5>3, <5>4 DEF OnceFrom
        <5>6. QED
          BY <2>1, <5>1, <5>5, TimesShown
      <4>2. QED
        BY <2>2, <3>4, <4>1 DEF e
    <3>5. QED
      BY <3>2, <3>3, <3>4
  <2>4. \A e \in Range(entries) : Times(entries, e) <= 2
    <3>1. \A a, b, c \in 1..Len(entries) :
            entries[a] = entries[b] /\ entries[b] = entries[c] => a = b \/ a = c \/ b = c
      BY DEF PaneInv, TwiceAtMost, Twice
    <3>2. ASSUME NEW e \in Range(entries)
          PROVE  Times(entries, e) <= 2
      <4>1. \A a, b, c \in 1..Len(entries) :
              entries[a] = e /\ entries[b] = e /\ entries[c] = e => a = b \/ a = c \/ b = c
        BY <3>1
      <4>2. QED
        BY <2>1, <4>1, TimesShown
    <3>3. QED
      BY <3>2
  <2>5. QED
    BY <2>3, <2>4 DEF LiveEchoShownOnce
<1>2. QED
  BY <1>1, AlwaysPaneInv, PTL
=============================================================================
