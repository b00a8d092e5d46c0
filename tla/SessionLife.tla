---------------------------- MODULE SessionLife ----------------------------
(***************************************************************************)
(* What the table of sessions promises (Sessions implements it): a session *)
(* is signed once, is live from the moment it is stored and is over when   *)
(* it has been logged out or has expired, or was never stored.  One that   *)
(* is over is never live again, and nothing else ends one that is live.    *)
(***************************************************************************)
EXTENDS Naturals

CONSTANTS
  Ids,  \* session ids
  TTL   \* lifetime of a session

VARIABLES
  life,   \* id -> "none", "signed", "live" or "over"
  until,  \* id -> when the session expires, 0 as long as there is none
  clock

lifeVars == <<life, until, clock>>

Init ==
  /\ life = [i \in Ids |-> "none"]
  /\ until = [i \in Ids |-> 0]
  /\ clock = 0

Sign(i) ==
  /\ life[i] = "none"
  /\ life' = [life EXCEPT ![i] = "signed"]
  /\ until' = [until EXCEPT ![i] = clock + TTL]
  /\ UNCHANGED clock

Store(i) ==
  /\ life[i] = "signed"
  /\ life' = [life EXCEPT ![i] = "live"]
  /\ UNCHANGED <<until, clock>>

LogOut(i) ==
  /\ life[i] = "live"
  /\ life' = [life EXCEPT ![i] = "over"]
  /\ UNCHANGED <<until, clock>>

\* Several end at once: what a stopped server had signed and not stored, or what has
\* expired when the table is pruned.
End(ids) ==
  /\ life' = [i \in Ids |-> IF i \in ids THEN "over" ELSE life[i]]
  /\ UNCHANGED <<until, clock>>

Lose == \E ids \in SUBSET {i \in Ids : life[i] = "signed"} : End(ids)
Expire == \E ids \in SUBSET {i \in Ids : life[i] = "live" /\ until[i] < clock} : End(ids)

Tick == clock' = clock + 1 /\ UNCHANGED <<life, until>>

Next == (\E i \in Ids : Sign(i) \/ Store(i) \/ LogOut(i)) \/ Lose \/ Expire \/ Tick

Spec == Init /\ [][Next]_lifeVars
=============================================================================
