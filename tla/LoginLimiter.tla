---------------------------- MODULE LoginLimiter ----------------------------
(***************************************************************************)
(* The limit on failed logins (internal/api/handlers/auth.go).             *)
(*                                                                         *)
(* Login looks at the bucket of the address under the mutex, releases it,  *)
(* decodes the body and checks the password (PAM may take seconds), and    *)
(* takes the mutex again only to count a failure.  Any number of other     *)
(* requests, from the same address too, come between the two.              *)
(***************************************************************************)
EXTENDS Integers, FiniteSets

CONSTANTS
  Attempts,        \* requests that may be in flight at the same time
  Addresses,    \* client addresses
  MaxFailures,  \* loginMaxFailures (10)
  Window,       \* loginWindow (15 min)
  Nobody,       \* a slot without a request
  MaxClock       \* bound of the model: clock

ASSUME LimiterAssumption ==
  /\ IsFiniteSet(Attempts)
  /\ MaxFailures \in Nat \ {0}
  /\ Window \in Nat \ {0}
  /\ Nobody \notin Addresses
  /\ MaxClock \in Nat

VARIABLES
  clock,     \* the clock
  buckets,   \* loginBuckets: address -> [failures, resetAt]
  checking,  \* slot -> address whose password is being checked, or Nobody
  refused    \* history: address -> when a request was refused last (-1: never)

limiterVars == <<clock, buckets, checking, refused>>

\* An address without an entry in the map.
NoBucket == [failures |-> 0, resetAt |-> -1]

LimiterInit ==
  /\ clock = 0
  /\ buckets = [a \in Addresses |-> NoBucket]
  /\ checking = [s \in Attempts |-> Nobody]
  /\ refused = [a \in Addresses |-> -1]

InFlight(a) == {s \in Attempts : checking[s] = a}

-----------------------------------------------------------------------------
\* Slips: the window slides with every attempt; one failure too many.
FreshSliding(a) == [failures |-> IF clock > buckets[a].resetAt THEN 0 ELSE buckets[a].failures,
                    resetAt |-> clock + Window]
LimitedTooLate(b) == b.failures > MaxFailures

\* loginRateLimited: no bucket or an old one is replaced by a fresh one.
Fresh(a) == IF buckets[a] = NoBucket \/ clock > buckets[a].resetAt
            THEN [failures |-> 0, resetAt |-> clock + Window]
            ELSE buckets[a]

Limited(b) == b.failures >= MaxFailures

\* POST /auth/login is let through to the password check.
Admit(s) ==
  /\ checking[s] = Nobody
  /\ \E a \in Addresses :
       /\ ~Limited(Fresh(a))
       /\ buckets' = [buckets EXCEPT ![a] = Fresh(a)]
       /\ checking' = [checking EXCEPT ![s] = a]
  /\ UNCHANGED <<clock, refused>>

\* 429 Too Many Requests.
Refuse(a) ==
  /\ Limited(Fresh(a))
  /\ buckets' = [buckets EXCEPT ![a] = Fresh(a)]
  /\ refused' = [refused EXCEPT ![a] = clock]
  /\ UNCHANGED <<clock, checking>>

\* The body has no user name, or the password is right: nothing is counted.
Finish(s) ==
  /\ checking[s] # Nobody
  /\ checking' = [checking EXCEPT ![s] = Nobody]
  /\ UNCHANGED <<clock, buckets, refused>>

\* loginRecordFailure: counted in the bucket the address has by then, even one
\* whose window is over.
Fail(s) ==
  /\ checking[s] # Nobody
  /\ buckets' = [buckets EXCEPT ![checking[s]].failures =
                   IF buckets[checking[s]] = NoBucket THEN 0 ELSE @ + 1]
  /\ checking' = [checking EXCEPT ![s] = Nobody]
  /\ UNCHANGED <<clock, refused>>

ClockTick ==
  /\ clock < MaxClock
  /\ clock' = clock + 1
  /\ UNCHANGED <<buckets, checking, refused>>

LimiterNext ==
  \/ ClockTick
  \/ \E s \in Attempts : Admit(s) \/ Finish(s) \/ Fail(s)
  \/ \E a \in Addresses : Refuse(a)

LimiterSpec == LimiterInit /\ [][LimiterNext]_limiterVars

-----------------------------------------------------------------------------
LimiterTypeOK ==
  /\ clock \in Nat
  /\ buckets \in [Addresses -> [failures : Nat, resetAt : Nat \union {-1}]]
  /\ checking \in [Attempts -> Addresses \union {Nobody}]
  /\ refused \in [Addresses -> Nat \union {-1}]

(* The limit holds up to the requests that were already being checked when *)
(* it was reached: the failures counted against an address in one window,  *)
(* with those its requests in flight may still add, never exceed the limit *)
(* by more than the other requests that can be in flight.                  *)
FailuresBounded ==
  \A a \in Addresses :
    buckets[a].failures + Cardinality(InFlight(a))
      <= MaxFailures - 1 + Cardinality(Attempts)

(* A lock-out ends, and not before its time: being refused never prolongs *)
(* it, the window of a bucket that is still running is never moved, no     *)
(* address is refused except while the window in which it failed           *)
(* MaxFailures times runs, and until then no failure is forgotten.         *)
LockoutEnds ==
  [][\A a \in Addresses :
       /\ buckets[a] # NoBucket /\ ~(clock > buckets[a].resetAt) =>
            buckets'[a].resetAt = buckets[a].resetAt
       /\ refused'[a] # refused[a] =>
            buckets[a].failures >= MaxFailures /\ clock <= buckets[a].resetAt
       /\ buckets'[a].failures < buckets[a].failures =>
            clock > buckets[a].resetAt]_limiterVars
=============================================================================
