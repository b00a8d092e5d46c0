----------------------------- MODULE GateProofs -----------------------------
(***************************************************************************)
(* Proofs about the gate: the login limiter, for every number of           *)
(* concurrent requests and of addresses, every limit and every window; and *)
(* the sessions, for every number of requests in flight, any accounts and  *)
(* allow-list, every lifetime, and any number of restarts, logins and      *)
(* failing statements.  The sessions implement SessionLife.  Limiter and   *)
(* sessions have a specification each.                                     *)
(***************************************************************************)
EXTENDS LoginLimiter, Sessions, FiniteSetTheorems, TLAPS

-----------------------------------------------------------------------------
(* The login limiter. *)

\* The requests in flight from an address are among the slots.
LEMMA InFlightFinite ==
  ASSUME NEW a
  PROVE  /\ IsFiniteSet(InFlight(a))
         /\ Cardinality(InFlight(a)) \in Nat
         /\ Cardinality(Attempts) \in Nat
         /\ Cardinality(InFlight(a)) <= Cardinality(Attempts)
BY LimiterAssumption, FS_Subset, FS_CardinalityType DEF InFlight

\* A bucket looked up by loginRateLimited is a bucket with a deadline.
LEMMA FreshType ==
  ASSUME LimiterTypeOK, NEW a \in Addresses
  PROVE  Fresh(a) \in [failures : Nat, resetAt : Nat]
<1>1. CASE buckets[a] = NoBucket \/ clock > buckets[a].resetAt
  BY <1>1, LimiterAssumption DEF LimiterTypeOK, Fresh
<1>2. CASE ~(buckets[a] = NoBucket \/ clock > buckets[a].resetAt)
  <2>1. buckets[a].resetAt # -1
    BY <1>2 DEF LimiterTypeOK
  <2>2. QED
    BY <1>2, <2>1 DEF LimiterTypeOK, Fresh
<1>3. QED
  BY <1>1, <1>2

LEMMA TypeStep == LimiterTypeOK /\ [LimiterNext]_limiterVars => LimiterTypeOK'
<1> SUFFICES ASSUME LimiterTypeOK, [LimiterNext]_limiterVars
             PROVE  LimiterTypeOK'
  OBVIOUS
<1> USE DEF LimiterTypeOK
<1>1. CASE ClockTick
  BY <1>1 DEF ClockTick
<1>2. ASSUME NEW s \in Attempts, Admit(s) PROVE LimiterTypeOK'
  BY <1>2, FreshType DEF Admit
<1>3. ASSUME NEW s \in Attempts, Finish(s) PROVE LimiterTypeOK'
  BY <1>3 DEF Finish
<1>4. ASSUME NEW s \in Attempts, Fail(s) PROVE LimiterTypeOK'
  <2>1. checking[s] \in Addresses
    BY <1>4 DEF Fail
  <2>2. QED
    BY <1>4, <2>1 DEF Fail
<1>5. ASSUME NEW a \in Addresses, Refuse(a) PROVE LimiterTypeOK'
  BY <1>5, FreshType DEF Refuse
<1>6. CASE UNCHANGED limiterVars
  BY <1>6 DEF limiterVars
<1>7. QED
  BY <1>1, <1>2, <1>3, <1>4, <1>5, <1>6 DEF LimiterNext

LEMMA TypeInit == LimiterInit => LimiterTypeOK
BY DEF LimiterInit, LimiterTypeOK, NoBucket

\* The variables keep their types: every request in flight is counted for an
\* address, and a counter of failures never goes below zero.
THEOREM LimiterTypeCorrect == LimiterSpec => []LimiterTypeOK
BY TypeInit, TypeStep, PTL DEF LimiterSpec

\* A lookup never raises the number of failures.
LEMMA FreshFailures ==
  ASSUME LimiterTypeOK, NEW a \in Addresses
  PROVE  Fresh(a).failures <= buckets[a].failures
BY DEF LimiterTypeOK, Fresh

LEMMA BoundStep ==
  LimiterTypeOK /\ FailuresBounded /\ [LimiterNext]_limiterVars => FailuresBounded'
<1> SUFFICES ASSUME LimiterTypeOK, FailuresBounded, [LimiterNext]_limiterVars, NEW a \in Addresses
             PROVE  buckets'[a].failures + Cardinality(InFlight(a)')
                      <= MaxFailures - 1 + Cardinality(Attempts)
  BY DEF FailuresBounded
<1> DEFINE Before == Cardinality(InFlight(a))
           After  == Cardinality(InFlight(a)')
           All    == Cardinality(Attempts)
<1>1. buckets[a].failures + Before <= MaxFailures - 1 + All
  BY DEF FailuresBounded
<1>2. /\ Before \in Nat /\ All \in Nat /\ After \in Nat
      /\ Before <= All /\ After <= All
  <2>1. IsFiniteSet(InFlight(a)') /\ After \in Nat /\ After <= All
    BY LimiterAssumption, FS_Subset, FS_CardinalityType DEF InFlight
  <2>2. QED
    BY <2>1, InFlightFinite
<1>3. buckets[a].failures \in Nat /\ buckets'[a].failures \in Nat
  BY TypeStep DEF LimiterTypeOK
<1>4. MaxFailures \in Nat
  BY LimiterAssumption
<1>5. CASE UNCHANGED checking /\ buckets'[a].failures <= buckets[a].failures
  <2>1. After = Before
    BY <1>5 DEF InFlight
  <2>2. QED
    BY <1>1, <1>2, <1>3, <1>4, <1>5, <2>1
<1>6. CASE ClockTick
  BY <1>5, <1>6, <1>3 DEF ClockTick
<1>7. ASSUME NEW s \in Attempts, Admit(s)
      PROVE  buckets'[a].failures + After <= MaxFailures - 1 + All
  <2>1. PICK b \in Addresses : /\ ~Limited(Fresh(b))
                               /\ buckets' = [buckets EXCEPT ![b] = Fresh(b)]
                               /\ checking' = [checking EXCEPT ![s] = b]
    BY <1>7 DEF Admit
  <2>2. CASE b = a
    <3>1. buckets'[a].failures <= MaxFailures - 1
      BY <2>1, <2>2, <1>4, FreshType DEF Limited, LimiterTypeOK
    <3>2. QED
      BY <3>1, <1>2, <1>3, <1>4
  <2>3. CASE b # a
    <3>1. buckets'[a] = buckets[a]
      BY <2>1, <2>3 DEF LimiterTypeOK
    <3>2. InFlight(a)' = InFlight(a)
      BY <2>1, <2>3, <1>7, LimiterAssumption DEF InFlight, Admit, LimiterTypeOK
    <3>3. QED
      BY <1>1, <3>1, <3>2
  <2>4. QED
    BY <2>2, <2>3
<1>8. ASSUME NEW s \in Attempts, Finish(s)
      PROVE  buckets'[a].failures + After <= MaxFailures - 1 + All
  <2>1. InFlight(a)' \subseteq InFlight(a)
    BY <1>8, LimiterAssumption DEF InFlight, Finish, LimiterTypeOK
  <2>2. After <= Before
    BY <2>1, InFlightFinite, FS_Subset
  <2>3. QED
    BY <1>8, <1>1, <1>2, <1>3, <1>4, <2>2 DEF Finish
<1>9. ASSUME NEW s \in Attempts, Fail(s)
      PROVE  buckets'[a].failures + After <= MaxFailures - 1 + All
  <2>1. CASE checking[s] = a
    <3>1. InFlight(a)' = InFlight(a) \ {s} /\ s \in InFlight(a)
      BY <1>9, <2>1, LimiterAssumption DEF InFlight, Fail, LimiterTypeOK
    <3>2. After = Before - 1
      BY <3>1, InFlightFinite, FS_RemoveElement
    <3>3. buckets'[a].failures <= buckets[a].failures + 1
      BY <1>9, <2>1 DEF Fail, LimiterTypeOK
    <3>4. QED
      BY <1>1, <1>2, <1>3, <1>4, <3>2, <3>3
  <2>2. CASE checking[s] # a
    <3>1. InFlight(a)' = InFlight(a)
      BY <1>9, <2>2, LimiterAssumption DEF InFlight, Fail, LimiterTypeOK
    <3>2. buckets'[a] = buckets[a]
      BY <1>9, <2>2 DEF Fail, LimiterTypeOK
    <3>3. QED
      BY <1>1, <3>1, <3>2
  <2>3. QED
    BY <2>1, <2>2
<1>10. ASSUME NEW b \in Addresses, Refuse(b)
       PROVE  buckets'[a].failures + After <= MaxFailures - 1 + All
  <2>1. buckets'[a].failures <= buckets[a].failures
    BY <1>10, <1>3, FreshFailures DEF Refuse, LimiterTypeOK
  <2>2. QED
    BY <1>5, <1>10, <2>1 DEF Refuse
<1>11. CASE UNCHANGED limiterVars
  BY <1>5, <1>11, <1>3 DEF limiterVars
<1>12. QED
  BY <1>6, <1>7, <1>8, <1>9, <1>10, <1>11 DEF LimiterNext

\* The failures of one window exceed the limit at most by the requests that can
\* be in flight besides the one that reaches it, however the requests of the
\* address and the ends of its windows interleave.
THEOREM FailuresStayBounded == LimiterSpec => []FailuresBounded
<1>1. LimiterInit => FailuresBounded
  <2> SUFFICES ASSUME LimiterInit, NEW a \in Addresses
               PROVE  buckets[a].failures + Cardinality(InFlight(a))
                        <= MaxFailures - 1 + Cardinality(Attempts)
    BY DEF FailuresBounded
  <2>1. buckets[a].failures = 0
    BY DEF LimiterInit, NoBucket
  <2>2. QED
    BY <2>1, InFlightFinite, LimiterAssumption
<1>2. QED
  BY <1>1, TypeInit, TypeStep, BoundStep, PTL DEF LimiterSpec

\* A lock-out ends: no request from a locked-out address prolongs it, an address
\* whose window is over is not refused, and failures of a running window count.
THEOREM LockoutsEnd == LimiterSpec => LockoutEnds
<1>1. LimiterTypeOK /\ [LimiterNext]_limiterVars =>
        [\A a \in Addresses :
           /\ buckets[a] # NoBucket /\ ~(clock > buckets[a].resetAt) =>
                buckets'[a].resetAt = buckets[a].resetAt
           /\ refused'[a] # refused[a] =>
                buckets[a].failures >= MaxFailures /\ clock <= buckets[a].resetAt
           /\ buckets'[a].failures < buckets[a].failures =>
                clock > buckets[a].resetAt]_limiterVars
  <2> SUFFICES ASSUME LimiterTypeOK, LimiterNext, NEW a \in Addresses
               PROVE  /\ buckets[a] # NoBucket /\ ~(clock > buckets[a].resetAt) =>
                           buckets'[a].resetAt = buckets[a].resetAt
                      /\ refused'[a] # refused[a] =>
                           buckets[a].failures >= MaxFailures /\ clock <= buckets[a].resetAt
                      /\ buckets'[a].failures < buckets[a].failures =>
                           clock > buckets[a].resetAt
    BY DEF limiterVars
  <2> USE DEF LimiterTypeOK
  <2>1. CASE ClockTick
    BY <2>1 DEF ClockTick
  <2>2. ASSUME NEW s \in Attempts, Admit(s)
        PROVE  /\ buckets[a] # NoBucket /\ ~(clock > buckets[a].resetAt) =>
                    buckets'[a].resetAt = buckets[a].resetAt
               /\ refused'[a] = refused[a]
               /\ buckets'[a].failures < buckets[a].failures =>
                    clock > buckets[a].resetAt
    BY <2>2 DEF Admit, Fresh, NoBucket
  <2>3. ASSUME NEW s \in Attempts, Finish(s) \/ Fail(s)
        PROVE  /\ buckets'[a].resetAt = buckets[a].resetAt /\ refused'[a] = refused[a]
               /\ ~(buckets'[a].failures < buckets[a].failures)
    BY <2>3 DEF Finish, Fail, NoBucket
  <2>4. ASSUME NEW b \in Addresses, Refuse(b), b # a
        PROVE  buckets'[a] = buckets[a] /\ refused'[a] = refused[a]
    BY <2>4 DEF Refuse
  <2>5. ASSUME Refuse(a)
        PROVE  /\ buckets[a].failures >= MaxFailures
               /\ clock <= buckets[a].resetAt
               /\ buckets'[a] = buckets[a]
    <3>1. ~(buckets[a] = NoBucket \/ clock > buckets[a].resetAt)
      BY <2>5, LimiterAssumption DEF Refuse, Limited, Fresh
    <3>2. QED
      BY <2>5, <3>1 DEF Refuse, Limited, Fresh
  <2>6. QED
    BY <2>1, <2>2, <2>3, <2>4, <2>5 DEF LimiterNext
<1>2. QED
  BY <1>1, TypeInit, TypeStep, PTL DEF LimiterSpec, LockoutEnds

-----------------------------------------------------------------------------
(* The sessions. *)

\* Session ids are given out in order, so that the next one is nobody's.
Numbered == Signed = 1..Cardinality(Signed) /\ Cardinality(Signed) \in Nat

\* A session that is being stored has not been handed out, and only one request
\* is storing it.
Storing(q) == req[q].phase \in {"insert", "prune"}
OneStores ==
  /\ \A q \in Slots : Storing(q) => req[q].new \in Signed \ handed
  /\ \A p, q \in Slots : Storing(p) /\ Storing(q) /\ req[p].new = req[q].new => p = q

\* A logout is about a session that was handed out.
RevokesHanded == \A q \in Slots : req[q].phase = "revoke" => req[q].tok \in handed

\* The row of a session that was logged out is gone, and nobody puts it back.
RowsRevoked == \A j \in loggedOut : <<"delete", j>> \notin failed => j \notin rows

\* The row of a session that was handed out, or is about to be, is there until the
\* session has expired or is logged out.
Kept(j) ==
  j \in rows \/ j \in loggedOut \/ issued[j].exp < now \/ <<"insert", j>> \in failed
RowsKept ==
  /\ \A j \in handed : Kept(j)
  /\ \A q \in Slots : req[q].phase = "prune" => Kept(req[q].new)

\* What a request knows to be dead was logged out.
DeadLoggedOut == \A q \in Slots : req[q].dead \subseteq loggedOut

SessionInv ==
  /\ TypeOK
  /\ Numbered
  /\ OneStores
  /\ RevokesHanded
  /\ RowsRevoked
  /\ RowsKept
  /\ DeadLoggedOut
  /\ LogoutIsFinal

\* Signing makes a session id that no request and no row knows.
LEMMA SignFresh ==
  ASSUME TypeOK, Numbered, NEW q \in Slots, NEW u, Sign(q, u)
  PROVE  LET j == Cardinality(Signed) + 1 IN
         /\ j \in Jti \ Signed
         /\ Signed' = Signed \union {j}
         /\ issued'[j] = [user |-> u, exp |-> now + TTL]
         /\ \A i \in Signed : issued'[i] = issued[i]
         /\ Numbered'
<1> DEFINE n == Cardinality(Signed)
<1>1. n \in Nat /\ Signed = 1..n /\ n + 1 \in Jti
  BY DEF Numbered, Sign
<1>2. /\ Signed' = Signed \union {n + 1}
      /\ issued'[n + 1] = [user |-> u, exp |-> now + TTL]
      /\ \A i \in Signed : issued'[i] = issued[i]
  BY <1>1 DEF Sign, Signed
<1>3. Signed' = 1..(n + 1)
  BY <1>1, <1>2
<1>4. Cardinality(Signed') = n + 1
  BY <1>1, <1>3, FS_Interval
<1>5. QED
  BY <1>1, <1>2, <1>3, <1>4 DEF Numbered

LEMMA SignStep ==
  ASSUME SessionInv, NEW q \in Slots, NEW u \in Users \union {Sso}, Sign(q, u),
         req[q].phase \in {"pam", "gate"}
  PROVE  SessionInv'
<1> DEFINE j == Cardinality(Signed) + 1
<1> USE DEF SessionInv
<1>1. /\ j \in Jti /\ j \notin Signed
      /\ Signed' = Signed \union {j}
      /\ issued'[j] = [user |-> u, exp |-> now + TTL]
      /\ \A i \in Signed : issued'[i] = issued[i]
      /\ Numbered'
  BY SignFresh
<1>2. /\ req' = [req EXCEPT ![q].phase = "insert", ![q].new = j, ![q].user = u]
      /\ UNCHANGED <<now, rows, stored, inForce, handed, loggedOut, failed, restarts>>
  BY DEF Sign
<1> HIDE DEF j
<1>3. TypeOK'
  <2>1. \A i \in Signed' : issued'[i] \in [user : Users \union {Sso}, exp : Nat]
    <3>1. now + TTL \in Nat
      BY SessionAssumption DEF TypeOK
    <3>2. QED
      BY <1>1, <3>1 DEF TypeOK
  <2>2. req' \in [Slots -> [phase : Phases,
                           tok : Signed' \union {NoJti}, new : Signed' \union {NoJti},
                           user : Users \union {Sso, None}, hdr : Bypass \union {None},
                           dead : SUBSET Signed']]
    <3> DEFINE Requests(T) == [phase : Phases, tok : T \union {NoJti}, new : T \union {NoJti},
                               user : Users \union {Sso, None}, hdr : Bypass \union {None},
                               dead : SUBSET T]
    <3>1. \A p \in Slots : req[p] \in Requests(Signed')
      <4>1. \A p \in Slots : req[p] \in Requests(Signed)
        BY DEF TypeOK
      <4>2. Signed \subseteq Signed'
        BY <1>1
      <4> HIDE <1>1
      <4>3. QED
        BY <4>1, <4>2
    <3>2. j \in Signed' \union {NoJti} /\ "insert" \in Phases
      BY <1>1 DEF Phases
    <3>3. [req[q] EXCEPT !.phase = "insert", !.new = j, !.user = u] \in Requests(Signed')
      BY <3>1, <3>2
    <3>4. req' = [req EXCEPT ![q] = [req[q] EXCEPT !.phase = "insert", !.new = j, !.user = u]]
      BY <1>2 DEF TypeOK
    <3> HIDE DEF Requests
    <3>5. req' \in [Slots -> Requests(Signed')]
      BY <3>1, <3>3, <3>4 DEF TypeOK
    <3>6. QED
      BY <3>5 DEF Requests
  <2>3. \A p \in Slots : req'[p].phase = "pam" => req'[p].user \in Users
    BY <1>2 DEF TypeOK
  <2>4. QED
    BY <1>1, <1>2, <2>1, <2>2, <2>3 DEF TypeOK
<1>4. OneStores'
  BY <1>1, <1>2 DEF TypeOK, OneStores, Storing
<1>5. RevokesHanded' /\ RowsRevoked' /\ DeadLoggedOut' /\ LogoutIsFinal'
  BY <1>1, <1>2 DEF TypeOK, RevokesHanded, RowsRevoked, DeadLoggedOut, LogoutIsFinal, BySession
<1>6. RowsKept'
  BY <1>1, <1>2 DEF TypeOK, OneStores, Storing, RowsKept, Kept
<1>7. QED
  BY <1>1, <1>3, <1>4, <1>5, <1>6

\* A step that only gives one request a new state, in which it stores no session,
\* and in which it is handled only if its session has a row.
LEMMA RequestStep ==
  ASSUME SessionInv, NEW q \in Slots,
         NEW r \in [phase : Phases \ {"insert", "prune"},
                    tok : Signed \union {NoJti}, new : Signed \union {NoJti},
                    user : Users \union {Sso, None}, hdr : Bypass \union {None},
                    dead : SUBSET loggedOut],
         r.phase = "pam" => r.user \in Users,
         r.phase = "revoke" => r.tok \in handed,
         r.phase = "handle" => r.tok \in rows,
         req' = [req EXCEPT ![q] = r],
         stored' \in Bypass \union {None},
         UNCHANGED <<now, issued, rows, inForce, handed, loggedOut, failed, restarts>>
  PROVE  SessionInv'
<1> USE DEF SessionInv
<1>0. /\ req'[q] = r
      /\ \A p \in Slots \ {q} : req'[p] = req[p]
      /\ Signed' = Signed
  BY DEF TypeOK, Signed
<1>1. TypeOK'
  BY <1>0 DEF TypeOK, Phases
<1>2. Numbered' /\ OneStores'
  BY <1>0 DEF Numbered, OneStores, Storing
<1>3. RevokesHanded' /\ RowsRevoked' /\ DeadLoggedOut'
  BY <1>0 DEF RevokesHanded, RowsRevoked, DeadLoggedOut
<1>4. RowsKept'
  BY <1>0 DEF RowsKept, Kept
<1>5. LogoutIsFinal'
  BY <1>0 DEF LogoutIsFinal, BySession, RowsRevoked
<1>6. QED
  BY <1>1, <1>2, <1>3, <1>4, <1>5

LEMMA SessionStep == SessionInv /\ [Next]_vars => SessionInv'
<1> SUFFICES ASSUME SessionInv, [Next]_vars
             PROVE  SessionInv'
  OBVIOUS
<1> DEFINE Request == [phase : Phases \ {"insert", "prune"},
                       tok : Signed \union {NoJti}, new : Signed \union {NoJti},
                       user : Users \union {Sso, None}, hdr : Bypass \union {None},
                       dead : SUBSET loggedOut]
<1> USE DEF SessionInv
<1>1. Idle \in Request
  BY DEF Idle, Phases
<1>2. CASE Tick
  <2>1. TypeOK'
    BY <1>2, SessionAssumption DEF Tick, TypeOK, Signed
  <2>2. RowsKept'
    BY <1>2, SessionAssumption DEF Tick, TypeOK, Signed, RowsKept, Kept, OneStores, Storing
  <2>3. QED
    BY <1>2, <2>1, <2>2 DEF Tick, Numbered, Signed, OneStores, Storing, RevokesHanded, RowsRevoked,
        DeadLoggedOut, LogoutIsFinal, BySession
<1>3. CASE Restart
  <2>1. TypeOK'
    BY <1>3, SessionAssumption DEF Restart, TypeOK, Phases, Idle, Signed
  <2>2. QED
    BY <1>3, <2>1 DEF Restart, Idle, Numbered, Signed, OneStores, Storing, RevokesHanded, RowsRevoked,
        RowsKept, Kept, DeadLoggedOut, LogoutIsFinal, BySession
<1>4. ASSUME NEW q \in Slots, LoginArrives(q) PROVE SessionInv'
  <2>1. PICK u \in Users : req' = [req EXCEPT ![q] = [Idle EXCEPT !.phase = "pam", !.user = u]]
    BY <1>4 DEF LoginArrives
  <2>2. [Idle EXCEPT !.phase = "pam", !.user = u] \in Request
    BY <1>1 DEF Idle, Phases
  <2>3. QED
    BY <1>4, <2>1, <2>2, RequestStep DEF LoginArrives, Idle, TypeOK
<1>5. ASSUME NEW q \in Slots, LoginRefused(q) PROVE SessionInv'
  BY <1>1, <1>5, RequestStep DEF LoginRefused, Done, Idle, TypeOK
<1>6. ASSUME NEW q \in Slots, LoginAccepted(q) PROVE SessionInv'
  BY <1>6, SignStep DEF LoginAccepted, TypeOK
<1>7. ASSUME NEW q \in Slots, GateBypass(q) PROVE SessionInv'
  BY <1>7, SignStep DEF GateBypass, TypeOK
<1>8. ASSUME NEW q \in Slots, ApiArrives(q) PROVE SessionInv'
  <2>1. PICK t \in handed \union {NoJti}, h \in Bypass \union {None} :
          req' = [req EXCEPT ![q] =
                   [Idle EXCEPT !.phase = "gate", !.tok = t, !.hdr = h, !.dead = loggedOut]]
    BY <1>8 DEF ApiArrives
  <2>2. [Idle EXCEPT !.phase = "gate", !.tok = t, !.hdr = h, !.dead = loggedOut] \in Request
    BY <1>1 DEF Idle, Phases, TypeOK
  <2>3. QED
    BY <1>8, <2>1, <2>2, RequestStep DEF ApiArrives, Idle, TypeOK
<1>9. ASSUME NEW q \in Slots, LogoutArrives(q) PROVE SessionInv'
  <2>1. PICK t \in handed : req' = [req EXCEPT ![q] = [Idle EXCEPT !.phase = "revoke", !.tok = t]]
    BY <1>9 DEF LogoutArrives
  <2>2. [Idle EXCEPT !.phase = "revoke", !.tok = t] \in Request
    BY <1>1 DEF Idle, Phases, TypeOK
  <2>3. QED
    BY <1>9, <2>1, <2>2, RequestStep DEF LogoutArrives, Idle, TypeOK
<1>10. ASSUME NEW q \in Slots, GateSession(q) \/ VerifySession(q) PROVE SessionInv'
  <2>1. /\ \/ req' = [req EXCEPT ![q] = Idle]
           \/ req' = [req EXCEPT ![q].phase = "verify"]
           \/ req' = [req EXCEPT ![q].phase = "handle"] /\ req[q].tok \in rows
        /\ UNCHANGED <<now, issued, rows, stored, inForce, handed, loggedOut, failed, restarts>>
    BY <1>10 DEF GateSession, VerifySession, Step, Done, Live
  <2>2. req[q].dead \subseteq loggedOut /\ stored \in Bypass \union {None}
    BY DEF DeadLoggedOut, TypeOK
  <2>3. ASSUME NEW to \in {"verify", "handle"}, req' = [req EXCEPT ![q].phase = to],
               to = "handle" => req[q].tok \in rows
        PROVE  SessionInv'
    <3> DEFINE r == [req[q] EXCEPT !.phase = to]
    <3>1. r \in Request /\ req' = [req EXCEPT ![q] = r] /\ r.phase = to /\ r.tok = req[q].tok
      BY <2>2, <2>3 DEF TypeOK, Phases
    <3> HIDE DEF r
    <3>2. QED
      BY <2>1, <2>2, <2>3, <3>1, RequestStep
  <2>4. CASE req' = [req EXCEPT ![q] = Idle]
    BY <1>1, <2>1, <2>2, <2>4, RequestStep DEF Idle
  <2>5. QED
    BY <2>1, <2>3, <2>4
<1>11. ASSUME NEW q \in Slots, Handle(q) PROVE SessionInv'
  <2>1. stored' \in Bypass \union {None}
    BY <1>11 DEF Handle, TypeOK
  <2>2. QED
    BY <1>1, <1>11, <2>1, RequestStep DEF Handle, Done, Idle
<1>12. ASSUME NEW q \in Slots, InsertSession(q) PROVE SessionInv'
  <2> DEFINE j == req[q].new
  <2>1. /\ req[q].phase = "insert" /\ j \in Signed /\ j \notin handed /\ j \notin loggedOut
        /\ \A p \in Slots : Storing(p) /\ req[p].new = j => p = q
    BY <1>12 DEF InsertSession, OneStores, Storing, TypeOK
  <2>2. /\ req' = [req EXCEPT ![q].phase = "prune"]
        /\ rows \subseteq rows' /\ rows' \subseteq rows \union {j}
        /\ failed \subseteq failed' /\ failed' \subseteq failed \union {<<"insert", j>>}
        /\ j \in rows' \/ <<"insert", j>> \in failed'
        /\ UNCHANGED <<now, issued, stored, inForce, handed, loggedOut, restarts>>
    BY <1>12 DEF InsertSession, Fails, Step
  <2> HIDE DEF j
  <2>3. TypeOK'
    BY <2>1, <2>2 DEF TypeOK, Phases, Signed
  <2>4. Numbered' /\ OneStores'
    BY <2>1, <2>2 DEF Numbered, OneStores, Storing, Signed, TypeOK
  <2>5. RevokesHanded' /\ RowsRevoked' /\ DeadLoggedOut' /\ LogoutIsFinal'
    BY <2>1, <2>2 DEF TypeOK, RevokesHanded, RowsRevoked, DeadLoggedOut, LogoutIsFinal, BySession
  <2>6. RowsKept'
    BY <2>1, <2>2 DEF TypeOK, RowsKept, Kept, j
  <2>7. QED
    BY <2>3, <2>4, <2>5, <2>6
<1>13. ASSUME NEW q \in Slots, PruneSessions(q) PROVE SessionInv'
  <2> DEFINE j == req[q].new
  <2>1. /\ req[q].phase = "prune" /\ j \in Signed /\ j \notin handed
        /\ \A p \in Slots : Storing(p) /\ req[p].new = j => p = q
    BY <1>13 DEF PruneSessions, OneStores, Storing
  <2>2. /\ \/ req[q].user = Sso /\ req' = [req EXCEPT ![q].phase = "handle"]
           \/ req' = [req EXCEPT ![q] = Idle]
        /\ rows' = {i \in rows : ~(issued[i].exp < now)}
        /\ handed' = handed \union {j}
        /\ UNCHANGED <<now, issued, stored, inForce, loggedOut, failed, restarts>>
    BY <1>13 DEF PruneSessions, Step, Done, Expired
  <2> HIDE DEF j
  <2>3. TypeOK'
    BY <2>1, <2>2 DEF TypeOK, Phases, Signed, Idle
  <2>4. Numbered' /\ OneStores'
    BY <2>1, <2>2 DEF Numbered, OneStores, Storing, Signed, TypeOK, Idle, j
  <2>5. RevokesHanded' /\ RowsRevoked' /\ DeadLoggedOut'
    BY <2>1, <2>2 DEF TypeOK, RevokesHanded, RowsRevoked, DeadLoggedOut, Idle
  <2>6. RowsKept'
    BY <2>1, <2>2 DEF TypeOK, RowsKept, Kept, j, Idle
  <2>7. LogoutIsFinal'
    BY <2>1, <2>2 DEF TypeOK, LogoutIsFinal, BySession, Idle
  <2>8. QED
    BY <2>3, <2>4, <2>5, <2>6, <2>7
<1>14. ASSUME NEW q \in Slots, Revoke(q) PROVE SessionInv'
  <2> DEFINE j == req[q].tok
  <2>1. req[q].phase = "revoke" /\ j \in handed
    BY <1>14 DEF Revoke, RevokesHanded
  <2>2. /\ req' = [req EXCEPT ![q] = Idle]
        /\ rows \ {j} \subseteq rows' /\ rows' \subseteq rows
        /\ failed \subseteq failed' /\ failed' \subseteq failed \union {<<"delete", j>>}
        /\ j \notin rows' \/ <<"delete", j>> \in failed'
        /\ loggedOut' = loggedOut \union {j}
        /\ UNCHANGED <<now, issued, stored, inForce, handed, restarts>>
    BY <1>14 DEF Revoke, Fails, Done
  <2> HIDE DEF j
  <2>3. TypeOK'
    BY <2>1, <2>2 DEF TypeOK, Phases, Signed, Idle
  <2>4. Numbered' /\ OneStores'
    BY <2>1, <2>2 DEF Numbered, OneStores, Storing, Signed, TypeOK, Idle
  <2>5. RevokesHanded' /\ RowsRevoked' /\ DeadLoggedOut'
    BY <2>1, <2>2 DEF TypeOK, RevokesHanded, RowsRevoked, DeadLoggedOut, Idle
  <2>6. RowsKept'
    BY <2>1, <2>2 DEF TypeOK, RowsKept, Kept, Idle
  <2>7. LogoutIsFinal'
    BY <2>1, <2>2 DEF TypeOK, LogoutIsFinal, BySession, Idle
  <2>8. QED
    BY <2>3, <2>4, <2>5, <2>6, <2>7
<1>15. CASE UNCHANGED vars
  BY <1>15 DEF vars, TypeOK, Numbered, Signed, OneStores, Storing, RevokesHanded, RowsRevoked,
      RowsKept, Kept, DeadLoggedOut, LogoutIsFinal, BySession
<1>16. QED
  BY <1>2, <1>3, <1>4, <1>5, <1>6, <1>7, <1>8, <1>9, <1>10, <1>11, <1>12, <1>13, <1>14, <1>15
     DEF Next, Serve

LEMMA SessionInit == Init => SessionInv
<1> SUFFICES ASSUME Init
             PROVE  SessionInv
  OBVIOUS
<1>1. Signed = {}
  BY DEF Init, Signed
<1>2. TypeOK
  BY <1>1, SessionAssumption DEF Init, TypeOK, Idle, Phases
<1>3. Numbered
  BY <1>1, FS_EmptySet DEF Numbered
<1>4. QED
  BY <1>2, <1>3 DEF Init, Idle, SessionInv, OneStores, Storing, RevokesHanded, RowsRevoked,
     RowsKept, DeadLoggedOut, LogoutIsFinal, BySession

LEMMA AlwaysSessionInv == Spec => []SessionInv
BY SessionInit, SessionStep, PTL DEF Spec

\* The variables keep their types: every row of webux_sessions belongs to a signed
\* session, and every password that is checked is the password of an account.
THEOREM SessionTypeCorrect == Spec => []TypeOK
BY AlwaysSessionInv, PTL DEF SessionInv

\* Logout is final, however many requests, restarts and logins come between.
THEOREM LogoutStaysFinal == Spec => []LogoutIsFinal
BY AlwaysSessionInv, PTL DEF SessionInv

\* A cookie that was set, has not expired and was not logged out passes the
\* revocation check, unless the INSERT of its row failed.
THEOREM CookiesAlwaysWork == Spec => []CookiesWork
<1>1. SessionInv => CookiesWork
  <2> SUFFICES ASSUME SessionInv, NEW j \in handed, j \notin loggedOut,
                      issued[j].exp > now, <<"insert", j>> \notin failed
               PROVE  Live(j)
    BY DEF CookiesWork
  <2>1. now \in Nat /\ issued[j].exp \in Nat
    BY SessionAssumption DEF SessionInv, TypeOK
  <2>2. QED
    BY <2>1 DEF SessionInv, RowsKept, Kept, Live
<1>2. QED
  BY <1>1, AlwaysSessionInv, PTL

-----------------------------------------------------------------------------
(* The sessions implement SessionLife.                                     *)

\* A session whose INSERT is still to come has no row.
NotYetStored == \A q \in Slots : req[q].phase = "insert" => req[q].new \notin rows

LifeInv == SessionInv /\ NotYetStored

Inserting(j) == \E q \in Slots : req[q].phase = "insert" /\ req[q].new = j
LifeOf(j) == IF j \in rows THEN "live"
             ELSE IF j \notin Signed THEN "none"
             ELSE IF Inserting(j) THEN "signed"
             ELSE "over"

\* The life of a session that a step changes is read off its row, its signature and
\* the requests that are inserting it.
LEMMA LivesAre == Lives = [j \in Jti |-> LifeOf(j)] /\ Lives' = [j \in Jti |-> LifeOf(j)']
BY DEF Lives, LifeOf, Inserting, Jti

\* A step that leaves rows, signatures and inserting requests alone changes no life.
LEMMA LivesStay ==
  ASSUME issued' = issued, rows' = rows, \A j \in Jti : Inserting(j)' <=> Inserting(j)
  PROVE  Lives' = Lives /\ Expiries' = Expiries
<1>1. Signed' = Signed
  BY DEF Signed
<1>2. \A j \in Jti : LifeOf(j)' = LifeOf(j)
  BY <1>1 DEF LifeOf
<1>3. Lives' = Lives
  BY <1>2, LivesAre
<1>4. Expiries' = Expiries
  BY <1>1 DEF Expiries, Jti
<1>5. QED
  BY <1>3, <1>4

\* A request that was not inserting a session and does not begin to.
LEMMA InsertingStays ==
  ASSUME TypeOK, NEW q \in Slots, NEW r, req' = [req EXCEPT ![q] = r],
         req[q].phase # "insert", r.phase # "insert"
  PROVE  \A j : Inserting(j)' <=> Inserting(j)
BY DEF TypeOK, Inserting

\* One session signed.
LEMMA SignLives ==
  ASSUME LifeInv, NEW q \in Slots, NEW u, Sign(q, u), req[q].phase # "insert"
  PROVE  NotYetStored' /\ \E j \in Jti : Life!Sign(j)
<1>0. PICK j \in Jti \ Signed :
        /\ j = Cardinality(Signed) + 1
        /\ Signed' = Signed \union {j}
        /\ issued'[j] = [user |-> u, exp |-> now + TTL]
        /\ \A i \in Signed : issued'[i] = issued[i]
  BY SignFresh DEF LifeInv, SessionInv
<1>1. /\ Signed' = Signed \union {j}
      /\ issued'[j] = [user |-> u, exp |-> now + TTL]
      /\ \A i \in Signed : issued'[i] = issued[i]
  BY <1>0
<1>2. /\ req' = [req EXCEPT ![q].phase = "insert", ![q].new = j, ![q].user = u]
      /\ rows' = rows /\ now' = now
  BY <1>0 DEF Sign
<1>3. rows \subseteq Signed /\ req \in [Slots -> [phase : Phases,
                        tok : Signed \union {NoJti}, new : Signed \union {NoJti},
                        user : Users \union {Sso, None}, hdr : Bypass \union {None},
                        dead : SUBSET Signed]]
  BY DEF LifeInv, SessionInv, TypeOK
<1>4. /\ req'[q].phase = "insert" /\ req'[q].new = j
      /\ \A p \in Slots \ {q} : req'[p] = req[p]
  BY <1>2, <1>3
<1>5. NotYetStored'
  BY <1>1, <1>2, <1>3, <1>4 DEF LifeInv, NotYetStored
<1>6. LifeOf(j) = "none" /\ LifeOf(j)' = "signed"
  BY <1>1, <1>2, <1>3, <1>4 DEF LifeOf, Inserting
<1>7. ASSUME NEW i \in Jti, i # j PROVE LifeOf(i)' = LifeOf(i)
  <2>1. Inserting(i)' <=> Inserting(i)
    BY <1>4, <1>7 DEF Inserting
  <2>2. QED
    BY <1>1, <1>2, <1>7, <2>1 DEF LifeOf
<1>8. Lives[j] = "none" /\ Lives' = [Lives EXCEPT ![j] = "signed"]
  BY <1>1, <1>6, <1>7, LivesAre
<1>9. Expiries' = [Expiries EXCEPT ![j] = now + TTL]
  <2>1. \A i \in Jti : Expiries'[i] = IF i = j THEN now + TTL ELSE Expiries[i]
    BY <1>1 DEF Expiries
  <2>2. QED
    BY <2>1 DEF Expiries, Jti
<1>10. QED
  BY <1>1, <1>2, <1>5, <1>8, <1>9 DEF Life!Sign

\* One session stored, or lost because its INSERT failed.
LEMMA InsertLives ==
  ASSUME LifeInv, NEW q \in Slots, InsertSession(q)
  PROVE  NotYetStored' /\ ((\E j \in Jti : Life!Store(j)) \/ Life!Lose)
<1>0. PICK j \in Jti : j = req[q].new
  BY DEF LifeInv, SessionInv, OneStores, Storing, InsertSession, TypeOK
<1>1. /\ req[q].phase = "insert" /\ j \in Signed /\ j \notin rows
      /\ \A p \in Slots \ {q} : req[p].phase = "insert" => req[p].new # j
  BY <1>0 DEF LifeInv, SessionInv, OneStores, Storing, NotYetStored, InsertSession
<1>2. /\ req' = [req EXCEPT ![q].phase = "prune"]
      /\ issued' = issued /\ now' = now
      /\ rows' = rows \union {j} \/ rows' = rows
  BY <1>0 DEF InsertSession, Step
<1>3. req'[q].phase = "prune" /\ \A p \in Slots \ {q} : req'[p] = req[p]
  BY <1>2 DEF LifeInv, SessionInv, TypeOK
<1>4. Signed' = Signed /\ Expiries' = Expiries
  BY <1>2 DEF Signed, Expiries, Jti
<1>5. NotYetStored'
  BY <1>1, <1>2, <1>3 DEF LifeInv, NotYetStored
<1>6. LifeOf(j) = "signed" /\ Lives[j] = "signed"
  BY <1>1, <1>0, LivesAre DEF LifeOf, Inserting
<1>7. ASSUME NEW i \in Jti, i # j PROVE LifeOf(i)' = LifeOf(i)
  <2>1. Inserting(i)' <=> Inserting(i)
    BY <1>3, <1>7, <1>0 DEF Inserting
  <2>2. QED
    BY <1>2, <1>4, <1>7, <2>1 DEF LifeOf
<1>8. CASE rows' = rows \union {j}
  <2>1. LifeOf(j)' = "live"
    BY <1>8 DEF LifeOf
  <2>2. Lives' = [Lives EXCEPT ![j] = "live"]
    BY <1>1, <1>7, <2>1, LivesAre
  <2>3. QED
    BY <1>1, <1>2, <1>4, <1>5, <1>6, <2>2 DEF Life!Store
<1>9. CASE rows' = rows
  <2>1. LifeOf(j)' = "over"
    BY <1>1, <1>3, <1>4, <1>9 DEF LifeOf, Inserting
  <2>2. Lives' = [i \in Jti |-> IF i \in {j} THEN "over" ELSE Lives[i]]
    BY <1>1, <1>7, <2>1, LivesAre
  <2>3. Life!End({j})
    BY <1>2, <1>4, <2>2 DEF Life!End
  <2>4. {j} \in SUBSET {i \in Jti : Lives[i] = "signed"}
    BY <1>1, <1>6
  <2>5. QED
    BY <1>5, <2>3, <2>4 DEF Life!Lose
<1>10. QED
  BY <1>2, <1>8, <1>9

\* The sessions that expired are over.
LEMMA PruneLives ==
  ASSUME LifeInv, NEW q \in Slots, PruneSessions(q)
  PROVE  NotYetStored' /\ Life!Expire
<1> DEFINE out == {j \in rows : Expired(j)}
<1>1. /\ rows' = rows \ out /\ issued' = issued /\ now' = now
      /\ rows \subseteq Signed /\ Signed \subseteq Jti
  BY DEF LifeInv, SessionInv, TypeOK, PruneSessions
<1>2. PICK r : req' = [req EXCEPT ![q] = r] /\ r.phase # "insert"
  BY DEF PruneSessions, Step, Done, Idle, LifeInv, SessionInv, TypeOK
<1>3. \A j : Inserting(j)' <=> Inserting(j)
  BY <1>2, InsertingStays DEF PruneSessions, LifeInv, SessionInv
<1>4. Signed' = Signed /\ Expiries' = Expiries
  BY <1>1 DEF Signed, Expiries, Jti
<1>5. \A j : Inserting(j) => j \notin rows
  BY DEF Inserting, LifeInv, NotYetStored
<1>6. NotYetStored'
  BY <1>1, <1>3, <1>5 DEF Inserting, NotYetStored
<1> HIDE DEF out
<1>7. \A j \in Jti : LifeOf(j)' = IF j \in out THEN "over" ELSE LifeOf(j)
  BY <1>1, <1>3, <1>4, <1>5 DEF LifeOf, out
<1>8. Lives' = [j \in Jti |-> IF j \in out THEN "over" ELSE Lives[j]]
  BY <1>7, LivesAre
<1>9. out \in SUBSET {j \in Jti : Lives[j] = "live" /\ Expiries[j] < now}
  BY <1>1, LivesAre DEF out, Expired, LifeOf, Expiries
<1>10. QED
  BY <1>1, <1>4, <1>6, <1>8, <1>9 DEF Life!Expire, Life!End

\* A logout ends the session if it still has a row.
LEMMA RevokeLives ==
  ASSUME LifeInv, NEW q \in Slots, Revoke(q)
  PROVE  NotYetStored' /\ ((\E j \in Jti : Life!LogOut(j)) \/ UNCHANGED Life!lifeVars)
<1>0. PICK j : j = req[q].tok
  OBVIOUS
<1>1. /\ rows' = rows \ {j} \/ rows' = rows
      /\ issued' = issued /\ now' = now
      /\ rows \subseteq Signed /\ Signed \subseteq Jti
  BY <1>0 DEF LifeInv, SessionInv, TypeOK, Revoke
<1>2. \A i : Inserting(i)' <=> Inserting(i)
  <2>1. PICK r : req' = [req EXCEPT ![q] = r] /\ r.phase # "insert"
    <3>1. Idle.phase # "insert"
      BY DEF Idle
    <3>2. QED
      BY <3>1 DEF Revoke, Done
  <2>2. QED
    BY <2>1, InsertingStays DEF Revoke, LifeInv, SessionInv
<1>3. Signed' = Signed /\ Expiries' = Expiries
  BY <1>1 DEF Signed, Expiries, Jti
<1>4. \A i : Inserting(i) => i \notin rows
  BY DEF Inserting, LifeInv, NotYetStored
<1>5. NotYetStored'
  BY <1>1, <1>2, <1>4 DEF Inserting, NotYetStored
<1>6. CASE rows' # rows
  <2>1. j \in rows /\ rows' = rows \ {j}
    BY <1>1, <1>6
  <2>2. LifeOf(j) = "live" /\ LifeOf(j)' = "over"
    BY <1>1, <1>2, <1>3, <1>4, <2>1 DEF LifeOf
  <2>3. \A i \in Jti \ {j} : LifeOf(i)' = LifeOf(i)
    BY <1>2, <1>3, <2>1 DEF LifeOf
  <2>4. Lives[j] = "live" /\ Lives' = [Lives EXCEPT ![j] = "over"]
    BY <1>1, <2>1, <2>2, <2>3, LivesAre
  <2>5. QED
    BY <1>1, <1>3, <1>5, <2>1, <2>4 DEF Life!LogOut
<1>7. CASE rows' = rows
  BY <1>1, <1>2, <1>5, <1>7, LivesStay DEF Life!lifeVars
<1>8. QED
  BY <1>6, <1>7

\* A restart loses the requests that were storing a session.
LEMMA RestartLives ==
  ASSUME LifeInv, Restart
  PROVE  NotYetStored' /\ Life!Lose
<1> DEFINE lost == {j \in Jti : Lives[j] = "signed"}
<1>1. /\ rows' = rows /\ issued' = issued /\ now' = now
      /\ \A q \in Slots : req'[q].phase = "idle"
  BY DEF Restart, Idle
<1>2. Signed' = Signed /\ Expiries' = Expiries
  BY <1>1 DEF Signed, Expiries, Jti
<1>3. \A j : ~Inserting(j)'
  BY <1>1 DEF Inserting
<1>4. NotYetStored'
  BY <1>1 DEF NotYetStored
<1>5. \A j \in Jti : LifeOf(j)' = IF LifeOf(j) = "signed" THEN "over" ELSE LifeOf(j)
  BY <1>1, <1>2, <1>3 DEF LifeOf
<1>6. Lives' = [j \in Jti |-> IF j \in lost THEN "over" ELSE Lives[j]]
  BY <1>5, LivesAre
<1>7. QED
  BY <1>1, <1>2, <1>4, <1>6 DEF Life!Lose, Life!End

LEMMA LifeStep == LifeInv /\ [Next]_vars => NotYetStored' /\ [Life!Next]_(Life!lifeVars)
<1> SUFFICES ASSUME LifeInv, [Next]_vars
             PROVE  NotYetStored' /\ [Life!Next]_(Life!lifeVars)
  OBVIOUS
<1>0. TypeOK
  BY DEF LifeInv, SessionInv
<1>1. CASE Tick
  <2>1. /\ issued' = issued /\ rows' = rows /\ req' = req /\ now' = now + 1
    BY <1>1 DEF Tick
  <2>2. Lives' = Lives /\ Expiries' = Expiries
    BY <2>1, LivesStay DEF Inserting
  <2>3. NotYetStored'
    BY <2>1 DEF LifeInv, NotYetStored
  <2>4. QED
    BY <2>1, <2>2, <2>3 DEF Life!Next, Life!Tick
<1>2. CASE Restart
  BY <1>2, RestartLives DEF Life!Next
<1>3. ASSUME NEW q \in Slots, Serve(q)
      PROVE  NotYetStored' /\ [Life!Next]_(Life!lifeVars)
  <2>1. ASSUME NEW u, Sign(q, u), req[q].phase # "insert"
        PROVE  NotYetStored' /\ [Life!Next]_(Life!lifeVars)
    BY <2>1, SignLives DEF Life!Next
  <2>2. ASSUME NEW r, req' = [req EXCEPT ![q] = r], req[q].phase # "insert",
               r.phase # "insert", issued' = issued, rows' = rows, now' = now
        PROVE  NotYetStored' /\ [Life!Next]_(Life!lifeVars)
    <3>1. \A j : Inserting(j)' <=> Inserting(j)
      BY <1>0, <2>2, InsertingStays
    <3>2. Lives' = Lives /\ Expiries' = Expiries
      BY <2>2, <3>1, LivesStay
    <3>3. NotYetStored'
      BY <2>2, <3>1 DEF LifeInv, NotYetStored, Inserting
    <3>4. QED
      BY <2>2, <3>2, <3>3 DEF Life!lifeVars
  <2>3. CASE \/ LoginArrives(q) \/ LoginRefused(q) \/ ApiArrives(q) \/ GateSession(q)
             \/ VerifySession(q) \/ Handle(q) \/ LogoutArrives(q)
    <3>1. PICK r : req' = [req EXCEPT ![q] = r] /\ r.phase # "insert"
      <4>1. CASE LoginArrives(q)
        <5>1. PICK u : req' = [req EXCEPT ![q] = [Idle EXCEPT !.phase = "pam", !.user = u]]
          BY <4>1 DEF LoginArrives
        <5>2. [Idle EXCEPT !.phase = "pam", !.user = u].phase # "insert"
          BY DEF Idle
        <5>3. QED
          BY <5>1, <5>2
      <4>2. CASE ApiArrives(q)
        <5>1. PICK k, h : req' = [req EXCEPT ![q] = [Idle EXCEPT !.phase = "gate", !.tok = k,
                                                         !.hdr = h, !.dead = loggedOut]]
          BY <4>2 DEF ApiArrives
        <5>2. [Idle EXCEPT !.phase = "gate", !.tok = k, !.hdr = h,
                           !.dead = loggedOut].phase # "insert"
          BY DEF Idle
        <5>3. QED
          BY <5>1, <5>2
      <4>3. CASE LogoutArrives(q)
        <5>1. PICK k : req' = [req EXCEPT ![q] = [Idle EXCEPT !.phase = "revoke", !.tok = k]]
          BY <4>3 DEF LogoutArrives
        <5>2. [Idle EXCEPT !.phase = "revoke", !.tok = k].phase # "insert"
          BY DEF Idle
        <5>3. QED
          BY <5>1, <5>2
      <4>4. CASE LoginRefused(q) \/ GateSession(q) \/ VerifySession(q) \/ Handle(q)
        BY <1>0, <4>4 DEF LoginRefused, GateSession, VerifySession, Handle, Step, Done, Idle,
           TypeOK
      <4>5. QED
        BY <2>3, <4>1, <4>2, <4>3, <4>4
    <3>2. /\ req[q].phase # "insert"
          /\ issued' = issued /\ rows' = rows /\ now' = now
      BY <2>3 DEF LoginArrives, LoginRefused, ApiArrives, GateSession, VerifySession, Handle,
         LogoutArrives
    <3>3. QED
      BY <2>2, <3>1, <3>2
  <2>4. CASE LoginAccepted(q) \/ GateBypass(q)
    BY <2>1, <2>4 DEF LoginAccepted, GateBypass
  <2>5. CASE InsertSession(q)
    BY <2>5, InsertLives DEF Life!Next
  <2>6. CASE PruneSessions(q)
    BY <2>6, PruneLives DEF Life!Next
  <2>7. CASE Revoke(q)
    BY <2>7, RevokeLives DEF Life!Next
  <2>8. QED
    BY <1>3, <2>3, <2>4, <2>5, <2>6, <2>7 DEF Serve
<1>4. CASE UNCHANGED vars
  <2>1. issued' = issued /\ rows' = rows /\ req' = req /\ now' = now
    BY <1>4 DEF vars
  <2>2. Lives' = Lives /\ Expiries' = Expiries
    BY <2>1, LivesStay DEF Inserting
  <2>3. QED
    BY <2>1, <2>2 DEF LifeInv, NotYetStored, Life!lifeVars
<1>5. QED
  BY <1>1, <1>2, <1>3, <1>4 DEF Next

\* The sessions keep the promise of SessionLife: whatever requests, prunes, failing
\* statements and restarts come between, a session that was logged out, has expired or
\* was never stored is not live again, and one that is live ends only by its logout
\* or when it is pruned after its expiry.
THEOREM SessionsLiveOnce == Spec => EachLivesOnce
<1>1. Init => LifeInv /\ Life!Init
  <2> SUFFICES ASSUME Init
               PROVE  LifeInv /\ Life!Init
    OBVIOUS
  <2>1. Signed = {} /\ rows = {} /\ now = 0 /\ \A q \in Slots : req[q].phase = "idle"
    BY DEF Init, Signed, Idle
  <2>2. \A j \in Jti : LifeOf(j) = "none"
    BY <2>1 DEF LifeOf
  <2>3. Lives = [j \in Jti |-> "none"] /\ Expiries = [j \in Jti |-> 0]
    BY <2>1, <2>2, LivesAre DEF Expiries
  <2>4. QED
    BY <2>1, <2>3, SessionInit DEF LifeInv, NotYetStored, Life!Init
<1>2. LifeInv /\ [Next]_vars => LifeInv'
  BY SessionStep, LifeStep DEF LifeInv
<1>3. QED
  BY <1>1, <1>2, LifeStep, PTL DEF Spec, EachLivesOnce, Life!Spec
=============================================================================
