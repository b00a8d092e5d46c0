------------------------------- MODULE Topic -------------------------------
(***************************************************************************)
(* What the event hub promises to the browser tabs connected to /ws: a     *)
(* best-effort topic.  Events are numbered in the order of the Broadcast   *)
(* calls.  A tab is attached once, may receive any event newer than those  *)
(* it already has (events may be skipped, never repeated, reordered or     *)
(* invented), and after it is detached it receives nothing any more.       *)
(***************************************************************************)
EXTENDS Naturals, Sequences

CONSTANT Clients

VARIABLES
  published,   \* number of events published so far
  received,    \* client -> events written to its connection, in order
  member       \* client -> "new", "attached" or "detached"

topicVars == <<published, received, member>>

Newest(s) == IF s = <<>> THEN 0 ELSE s[Len(s)]

Init ==
  /\ published = 0
  /\ received = [c \in Clients |-> <<>>]
  /\ member = [c \in Clients |-> "new"]

Publish ==
  /\ published' = published + 1
  /\ UNCHANGED <<received, member>>

Attach(c) ==
  /\ member[c] = "new"
  /\ member' = [member EXCEPT ![c] = "attached"]
  /\ UNCHANGED <<published, received>>

Receive(c) ==
  /\ member[c] = "attached"
  /\ \E n \in (Newest(received[c]) + 1)..published :
       received' = [received EXCEPT ![c] = Append(@, n)]
  /\ UNCHANGED <<published, member>>

Detach(c) ==
  /\ member[c] = "attached"
  /\ member' = [member EXCEPT ![c] = "detached"]
  /\ UNCHANGED <<published, received>>

Next ==
  \/ Publish
  \/ \E c \in Clients : Attach(c) \/ Receive(c) \/ Detach(c)

Spec == Init /\ [][Next]_topicVars
=============================================================================
