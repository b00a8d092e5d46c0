-------------------------------- MODULE Hub --------------------------------
(***************************************************************************)
(* The WebSocket event hub (internal/ws/hub.go).                           *)
(*                                                                         *)
(* Threads: the hub loop Run; for every connection the handler ServeWS,    *)
(* which turns into the goroutine readPump, and the goroutine writePump;   *)
(* and every goroutine that calls Broadcast.  They share nothing but the   *)
(* channels reg, unreg, bcast, c.send and the connection itself.           *)
(*                                                                         *)
(* The events are the numbers of the Broadcast calls: their payload is     *)
(* never looked at by the hub.                                             *)
(***************************************************************************)
EXTENDS Naturals, Sequences, FiniteSets, Functions

CONSTANTS
  Clients,    \* the connections opened during a behaviour
  RegCap,     \* capacity of h.reg            (8 in the code)
  UnregCap,   \* capacity of h.unreg          (8)
  BcastCap,   \* capacity of h.bcast          (256)
  SendCap,    \* capacity of each c.send      (64)
  MaxCalls    \* bound of the model: number of Broadcast calls

ASSUME CapAssumption ==
  /\ RegCap \in Nat \ {0}
  /\ UnregCap \in Nat \ {0}
  /\ BcastCap \in Nat \ {0}
  /\ SendCap \in Nat \ {0}
  /\ MaxCalls \in Nat

VARIABLES
  conn,      \* where ServeWS, then readPump, of a connection is
  pump,      \* where writePump of a connection is
  link,      \* TRUE while the connection can be read and written
  reg,       \* the channel h.reg
  unreg,     \* the channel h.unreg
  bcast,     \* the channel h.bcast
  clients,   \* the map h.clients
  buf,       \* the contents of c.send
  closed,    \* c.send has been closed
  todo,      \* clients the range loop over h.clients has still to offer to
  event,     \* the event of that loop (the last one the hub took)
  calls,     \* number of Broadcast calls so far
  got,       \* history: events written to the connection
  handled,   \* history: events the hub took from h.bcast
  since,     \* history: Len(handled) when the client was registered
  full       \* history: an offer to the client found c.send full

hubVars == <<reg, unreg, bcast, clients, todo, event>>
history == <<handled, since, full>>
vars == <<conn, pump, link, reg, unreg, bcast, clients, buf, closed, todo,
          event, calls, got, handled, since, full>>

ConnState == {"none", "registering", "reading", "leaving", "gone"}
PumpState == {"none", "running", "done"}

Init ==
  /\ conn = [c \in Clients |-> "none"]
  /\ pump = [c \in Clients |-> "none"]
  /\ link = [c \in Clients |-> FALSE]
  /\ reg = <<>> /\ unreg = <<>> /\ bcast = <<>>
  /\ clients = {}
  /\ buf = [c \in Clients |-> <<>>]
  /\ closed = [c \in Clients |-> FALSE]
  /\ todo = {}
  /\ event = 0
  /\ calls = 0
  /\ got = [c \in Clients |-> <<>>]
  /\ handled = <<>>
  /\ since = [c \in Clients |-> 0]
  /\ full = [c \in Clients |-> FALSE]

-----------------------------------------------------------------------------
(* ServeWS and readPump.                                                   *)

\* The upgrade succeeded; the handler is about to send on h.reg.
ServeWS(c) ==
  /\ conn[c] = "none"
  /\ conn' = [conn EXCEPT ![c] = "registering"]
  /\ link' = [link EXCEPT ![c] = TRUE]
  /\ UNCHANGED <<pump, hubVars, buf, closed, calls, got, history>>

\* h.reg <- c goes through; both pumps are started.
SendReg(c) ==
  /\ conn[c] = "registering"
  /\ Len(reg) < RegCap
  /\ reg' = Append(reg, c)
  /\ conn' = [conn EXCEPT ![c] = "reading"]
  /\ pump' = [pump EXCEPT ![c] = "running"]
  /\ UNCHANGED <<link, unreg, bcast, clients, todo, event, buf, closed, calls,
                 got, history>>

\* The tab is closed, the network drops, no pong for 60 s, a frame too long.
PeerGone(c) ==
  /\ link[c]
  /\ link' = [link EXCEPT ![c] = FALSE]
  /\ UNCHANGED <<conn, pump, hubVars, buf, closed, calls, got, history>>

\* ReadMessage returns an error: readPump runs its deferred function.
ReadError(c) ==
  /\ conn[c] = "reading"
  /\ ~link[c]
  /\ conn' = [conn EXCEPT ![c] = "leaving"]
  /\ UNCHANGED <<pump, link, hubVars, buf, closed, calls, got, history>>

\* h.unreg <- c goes through; the connection is closed.
SendUnreg(c) ==
  /\ conn[c] = "leaving"
  /\ Len(unreg) < UnregCap
  /\ unreg' = Append(unreg, c)
  /\ conn' = [conn EXCEPT ![c] = "gone"]
  /\ UNCHANGED <<pump, link, reg, bcast, clients, todo, event, buf, closed,
                 calls, got, history>>

-----------------------------------------------------------------------------
(* writePump.                                                              *)

\* Slip: a message that was written is written again.
PumpEventTwice(c) ==
  /\ pump[c] = "running"
  /\ buf[c] # <<>>
  /\ buf' = [buf EXCEPT ![c] = Tail(@)]
  /\ \/ /\ link[c]
        /\ got' = [got EXCEPT ![c] = Append(Append(@, Head(buf[c])), Head(buf[c]))]
        /\ UNCHANGED pump
     \/ /\ ~link[c]
        /\ pump' = [pump EXCEPT ![c] = "done"]
        /\ UNCHANGED got
  /\ UNCHANGED <<conn, link, hubVars, closed, calls, history>>

\* A message is received from c.send and written; a failed write ends the pump.
PumpEvent(c) ==
  /\ pump[c] = "running"
  /\ buf[c] # <<>>
  /\ buf' = [buf EXCEPT ![c] = Tail(@)]
  /\ \/ /\ link[c]
        /\ got' = [got EXCEPT ![c] = Append(@, Head(buf[c]))]
        /\ UNCHANGED pump
     \/ /\ ~link[c]
        /\ pump' = [pump EXCEPT ![c] = "done"]
        /\ UNCHANGED got
  /\ UNCHANGED <<conn, link, hubVars, closed, calls, history>>

\* c.send is closed and drained: close message, return, conn.Close().
PumpClosed(c) ==
  /\ pump[c] = "running"
  /\ buf[c] = <<>>
  /\ closed[c]
  /\ pump' = [pump EXCEPT ![c] = "done"]
  /\ link' = [link EXCEPT ![c] = FALSE]
  /\ UNCHANGED <<conn, hubVars, buf, closed, calls, got, history>>

\* Slip: the pump goes on after a failed ping.
PingIgnored(c) ==
  /\ pump[c] = "running"
  /\ ~link[c]
  /\ UNCHANGED vars

\* The 30 s ping cannot be written (a ping that is written changes nothing).
PingFails(c) ==
  /\ pump[c] = "running"
  /\ ~link[c]
  /\ pump' = [pump EXCEPT ![c] = "done"]
  /\ UNCHANGED <<conn, link, hubVars, buf, closed, calls, got, history>>

-----------------------------------------------------------------------------
(* The hub loop.  The select takes any ready case; the range over          *)
(* h.clients offers the event to one client after the other while the      *)
(* write pumps run.                                                        *)

RecvReg ==
  /\ todo = {}
  /\ reg # <<>>
  /\ LET c == Head(reg) IN
       /\ clients' = clients \union {c}
       /\ since' = [since EXCEPT ![c] = Len(handled)]
  /\ reg' = Tail(reg)
  /\ UNCHANGED <<conn, pump, link, unreg, bcast, todo, event, buf, closed,
                 calls, got, handled, full>>

\* Slip: the client is not deleted from the map.
RecvUnregKeeping ==
  /\ todo = {}
  /\ unreg # <<>>
  /\ closed' = [closed EXCEPT ![Head(unreg)] = @ \/ Head(unreg) \in clients]
  /\ unreg' = Tail(unreg)
  /\ UNCHANGED <<conn, pump, link, reg, bcast, clients, todo, event, buf, calls, got,
                 history>>

RecvUnreg ==
  /\ todo = {}
  /\ unreg # <<>>
  /\ LET c == Head(unreg) IN
       /\ clients' = clients \ {c}
       /\ closed' = [closed EXCEPT ![c] = @ \/ c \in clients]
  /\ unreg' = Tail(unreg)
  /\ UNCHANGED <<conn, pump, link, reg, bcast, todo, event, buf, calls, got,
                 history>>

RecvBcast ==
  /\ todo = {}
  /\ bcast # <<>>
  /\ event' = Head(bcast)
  /\ bcast' = Tail(bcast)
  /\ todo' = clients
  /\ handled' = Append(handled, Head(bcast))
  /\ UNCHANGED <<conn, pump, link, reg, unreg, clients, buf, closed, calls,
                 got, since, full>>

\* Slip: a full client ends the loop.

OfferOrStop(c) ==
  /\ c \in todo
  /\ \/ /\ Len(buf[c]) < SendCap
        /\ buf' = [buf EXCEPT ![c] = Append(@, event)]
        /\ todo' = todo \ {c}
        /\ UNCHANGED full
     \/ /\ Len(buf[c]) >= SendCap
        /\ full' = [full EXCEPT ![c] = TRUE]
        /\ todo' = {}
        /\ UNCHANGED buf
  /\ UNCHANGED <<conn, pump, link, reg, unreg, bcast, clients, closed, event,
                 calls, got, handled, since>>

\* The inner select of the loop: queue the event, or drop it when c.send is full.
Offer(c) ==
  /\ c \in todo
  /\ todo' = todo \ {c}
  /\ \/ /\ Len(buf[c]) < SendCap
        /\ buf' = [buf EXCEPT ![c] = Append(@, event)]
        /\ UNCHANGED full
     \/ /\ Len(buf[c]) >= SendCap
        /\ full' = [full EXCEPT ![c] = TRUE]
        /\ UNCHANGED buf
  /\ UNCHANGED <<conn, pump, link, reg, unreg, bcast, clients, closed, event,
                 calls, got, handled, since>>

\* Slip: the queue of events is not bounded.
BroadcastUnbounded ==
  /\ calls < MaxCalls
  /\ calls' = calls + 1
  /\ bcast' = Append(bcast, calls + 1)
  /\ UNCHANGED <<conn, pump, link, reg, unreg, clients, todo, event, buf,
                 closed, got, history>>

\* Broadcast never blocks: the event is dropped when h.bcast is full.
Broadcast ==
  /\ calls < MaxCalls
  /\ calls' = calls + 1
  /\ bcast' = IF Len(bcast) < BcastCap THEN Append(bcast, calls + 1) ELSE bcast
  /\ UNCHANGED <<conn, pump, link, reg, unreg, clients, todo, event, buf,
                 closed, got, history>>

-----------------------------------------------------------------------------
Reader(c) == ServeWS(c) \/ SendReg(c) \/ PeerGone(c) \/ ReadError(c) \/ SendUnreg(c)
Writer(c) == PumpEvent(c) \/ PumpClosed(c) \/ PingFails(c)
Loop == RecvReg \/ RecvUnreg \/ RecvBcast \/ \E c \in Clients : Offer(c)

Next ==
  \/ \E c \in Clients : Reader(c) \/ Writer(c)
  \/ Loop
  \/ Broadcast

Spec == Init /\ [][Next]_vars

(***************************************************************************)
(* A goroutine that can run does run.  Go's select chooses uniformly among *)
(* the ready cases and serves blocked senders first come first served, so  *)
(* a case that is ready again and again is eventually taken: strong        *)
(* fairness for the three cases of Run and for the sends on its channels.  *)
(* Nothing obliges a tab to connect, to leave or an event to happen.       *)
(***************************************************************************)
Fairness ==
  /\ SF_vars(RecvReg) /\ SF_vars(RecvUnreg) /\ SF_vars(RecvBcast)
  /\ \A c \in Clients :
       /\ WF_vars(Offer(c))
       /\ SF_vars(SendReg(c)) /\ SF_vars(SendUnreg(c))
       /\ WF_vars(ReadError(c))
       /\ WF_vars(Writer(c))

FairSpec == Spec /\ Fairness

-----------------------------------------------------------------------------
TypeOK ==
  /\ conn \in [Clients -> ConnState]
  /\ pump \in [Clients -> PumpState]
  /\ link \in [Clients -> BOOLEAN]
  /\ reg \in Seq(Clients) /\ Len(reg) <= RegCap
  /\ unreg \in Seq(Clients) /\ Len(unreg) <= UnregCap
  /\ bcast \in Seq(Nat) /\ Len(bcast) <= BcastCap
  /\ clients \subseteq Clients
  /\ buf \in [Clients -> Seq(Nat)]
  /\ \A c \in Clients : Len(buf[c]) <= SendCap
  /\ closed \in [Clients -> BOOLEAN]
  /\ todo \subseteq Clients
  /\ event \in Nat
  /\ calls \in Nat
  /\ got \in [Clients -> Seq(Nat)]
  /\ handled \in Seq(Nat)
  /\ since \in [Clients -> Nat]
  /\ full \in [Clients -> BOOLEAN]

Queued(c) == got[c] \o buf[c]

Ascending(s) == \A i, j \in 1..Len(s) : i < j => s[i] < s[j]

(* The hub process never panics: a channel in h.clients, and a channel the *)
(* range loop is about to send on, has not been closed (a send on a closed *)
(* channel and a second close both crash the whole server).                *)
NoClosedMember == \A c \in clients \union todo : ~closed[c]

(* A tab never sees an event twice, nor two events out of the order of the *)
(* Broadcast calls, whatever was dropped on the way.                       *)
InOrder == \A c \in Clients : Ascending(Queued(c))

(* Only a slow tab loses events: as long as c.send never filled up, the    *)
(* events queued for and written to a registered tab are exactly those the *)
(* hub took since it registered the tab (but the one being offered).       *)
OnlySlowClientsLose ==
  \A c \in clients :
    ~full[c] /\ pump[c] = "running" =>
      LET offered == IF c \in todo THEN Len(handled) - 1 ELSE Len(handled)
      IN  Queued(c) = SubSeq(handled, since[c] + 1, offered)

(* Nobody stays blocked: the upgrade handler and the leaving reader get    *)
(* through the hub's channels, and the write goroutine of a tab that has   *)
(* gone ends even when the hub never closes its channel (the failing ping  *)
(* ends it).                                                               *)
NobodyStuck ==
  \A c \in Clients :
    /\ conn[c] = "registering" ~> conn[c] # "registering"
    /\ conn[c] = "leaving" ~> conn[c] = "gone"
    /\ conn[c] = "gone" ~> pump[c] = "done"

(* Every event accepted by Broadcast is eventually taken by the hub and    *)
(* offered to every registered tab.                                        *)
EventsHandled ==
  \A n \in 1..MaxCalls :
    n \in Range(bcast) ~> n \in Range(handled) /\ (todo = {} \/ event # n)

-----------------------------------------------------------------------------
(* The hub implements the best-effort topic.                               *)
member ==
  [c \in Clients |->
     IF pump[c] = "none" THEN "new"
     ELSE IF pump[c] = "done" THEN "detached" ELSE "attached"]

TopicOf == INSTANCE Topic WITH published <- calls, received <- got

TopicSpec == TopicOf!Spec
=============================================================================
