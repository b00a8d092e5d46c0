------------------------------ MODULE Network ------------------------------
(***************************************************************************)
(* Network interfaces (internal/system/network/interfaces/interfaces.go,   *)
(* internal/api/handlers/network.go and netstats.go, Network.svelte): the  *)
(* list, the commands that change an interface, and the stream that sends  *)
(* the page of an open interface its bandwidth at every tick of a second.  *)
(*                                                                         *)
(* The server reads a counter into an unsigned number below Word and       *)
(* subtracts modulo Word, whatever the counter of the kernel starts again  *)
(* at.  Sending is counted, subtracted and sent as receiving is, so there  *)
(* is one counter.                                                         *)
(***************************************************************************)
EXTENDS Integers

CONSTANTS
  Interfaces,  \* names of interfaces
  Addresses,   \* addresses with their prefix
  MTUs,        \* sizes that a page asks for
  Word,        \* the numbers of the server are below it, 2^64
  Wraps,       \* what counters start again at: Word, or 2^32
  MaxBytes,    \* the most bytes that come at once
  MaxCame,     \* bound: bytes between two samples
  MaxSeconds,  \* bound of the model: seconds of a stream
  MaxNetActs      \* bound of the model: commands, and interfaces made and removed

\* Fewer than 2^64 bytes come between two samples.
ASSUME NetworkAssumption ==
  /\ Word \in Nat \ {0} /\ Wraps \subseteq 1..Word /\ Wraps # {}
  /\ MaxBytes \in Nat /\ \A w \in Wraps : MaxBytes < w
  /\ MaxCame \in 0..(Word - 1)
  /\ MaxSeconds \in Nat /\ MaxNetActs \in Nat /\ MTUs \subseteq Nat

VARIABLES
  nic,      \* interface -> its state in the kernel
  nics,     \* the list on the page
  stream,   \* interface -> the handler of its stream, or Closed
  graph,    \* interface -> the last rate the page was sent, bytes in seconds, or NoRate
  since,    \* history: interface -> the bytes that came since the sample that the stream
            \* holds, and how far its counter was set back
  last,     \* history: interface -> the same, at the last rate
  life,     \* history: interface -> the seconds of its stream, and those of its rates
  netActs      \* number of acts so far

netVars == <<nic, nics, stream, graph, since, last, life, netActs>>

Fresh(up, w) == [there |-> TRUE, up |-> up, addresses |-> {}, mtu |-> 1500, bytes |-> 0, wrap |-> w]
Removed(n) == [Fresh(FALSE, nic[n].wrap) EXCEPT !.there = FALSE]

\* An open stream: its sample, the whole seconds since the tick (or the start) that the
\* sample is of, and the one tick that its channel holds: the seconds it is after, or 0.
Opened(n) == [open |-> TRUE, prev |-> nic[n].bytes, age |-> 0, tick |-> 0]
Closed == [open |-> FALSE]
NoRate == [bytes |-> 0, secs |-> 0]
Nothing == [came |-> 0, back |-> 0]

\* List: the interfaces of the kernel with their addresses, counters and state.
NicRow(n) == [up |-> nic[n].up, addresses |-> nic[n].addresses, mtu |-> nic[n].mtu]
NicRows == [n \in {x \in Interfaces : nic[x].there} |-> NicRow(n)]

NetInit ==
  /\ nic \in [Interfaces -> {Fresh(TRUE, w) : w \in Wraps}]
  /\ nics = NicRows
  /\ stream = [n \in Interfaces |-> Closed]
  /\ graph = [n \in Interfaces |-> NoRate]
  /\ since = [n \in Interfaces |-> Nothing] /\ last = [n \in Interfaces |-> Nothing]
  /\ life = [n \in Interfaces |-> [secs |-> 0, told |-> 0]]
  /\ netActs = 0

NetAct == netActs < MaxNetActs /\ netActs' = netActs + 1

-----------------------------------------------------------------------------
(* Commands: ip refuses what is not there, and the interface stays as it is. *)

IpCommand(n, next) ==
  /\ NetAct
  /\ n \in DOMAIN nics /\ nic[n].there
  /\ nic' = [nic EXCEPT ![n] = next]
  /\ UNCHANGED <<nics, stream, graph, since, last, life>>

SetState(n, up) == IpCommand(n, [nic[n] EXCEPT !.up = up])
SetMTU(n, mtu) == mtu > 0 /\ IpCommand(n, [nic[n] EXCEPT !.mtu = mtu])
AddAddress(n, a) == a \notin nic[n].addresses
                    /\ IpCommand(n, [nic[n] EXCEPT !.addresses = @ \union {a}])
\* The request must name the address in its body; the page sends none, other clients
\* of the API may.
DelAddress(n, a) == a \in nic[n].addresses
                    /\ IpCommand(n, [nic[n] EXCEPT !.addresses = @ \ {a}])

LoadNics == /\ nics' = NicRows /\ nics' # nics
            /\ UNCHANGED <<nic, stream, graph, since, last, life, netActs>>

-----------------------------------------------------------------------------
(* The host. *)

\* The counter becomes what is given; back is how far it was set back.
Counts(n, next, bytes, back) ==
  /\ nic' = [nic EXCEPT ![n] = next]
  /\ since' = [since EXCEPT ![n] =
                 IF stream[n].open THEN [came |-> @.came + bytes, back |-> @.back + back] ELSE @]
  /\ UNCHANGED <<nics, stream, graph, last, life>>

\* Bytes come; a counter that comes round is set back by all it can count.
Receive(n, bytes) ==
  /\ nic[n].there /\ nic[n].up /\ since[n].came + bytes <= MaxCame
  /\ LET sum == nic[n].bytes + bytes
         back == IF sum < nic[n].wrap THEN 0 ELSE nic[n].wrap
     IN  Counts(n, [nic[n] EXCEPT !.bytes = sum - back], bytes, back)
  /\ UNCHANGED netActs

\* An interface is removed, or made with a counter at zero.
Unplug(n) == NetAct /\ nic[n].there /\ Counts(n, Removed(n), 0, nic[n].bytes)
Remake(n, w) == NetAct /\ ~nic[n].there /\ Counts(n, Fresh(FALSE, w), 0, 0)

-----------------------------------------------------------------------------
(* The stream of an interface. *)

\* Opening an interface starts its stream, unless it runs already; an interface that is
\* not there ends it with an error and the browser tries again later.
StartStream(n) ==
  /\ n \in DOMAIN nics /\ ~stream[n].open /\ nic[n].there
  /\ stream' = [stream EXCEPT ![n] = Opened(n)]
  /\ graph' = [graph EXCEPT ![n] = NoRate]
  /\ since' = [since EXCEPT ![n] = Nothing] /\ last' = [last EXCEPT ![n] = Nothing]
  /\ life' = [life EXCEPT ![n] = [secs |-> 0, told |-> 0]]
  /\ UNCHANGED <<nic, nics, netActs>>

\* Closing the interface ends it; opening another one does not.
StopStream(n) ==
  /\ stream[n].open
  /\ stream' = [stream EXCEPT ![n] = Closed]
  /\ UNCHANGED <<nic, nics, graph, since, last, life, netActs>>

\* A second of the ticker; the channel holds one tick, and the next ones are dropped
\* while the handler waits for a slow page.
Second(n) ==
  /\ stream[n].open /\ life[n].secs < MaxSeconds
  /\ stream' = [stream EXCEPT ![n] = [open |-> TRUE, prev |-> @.prev, age |-> @.age + 1,
                                      tick |-> IF @.tick = 0 THEN @.age + 1 ELSE @.tick]]
  /\ life' = [life EXCEPT ![n].secs = @ + 1]
  /\ UNCHANGED <<nic, nics, graph, since, last, netActs>>

\* Slip: the counters are subtracted as numbers with a sign.
RateSigned(curr, prev) == IF curr - prev < 0 THEN 0 ELSE curr - prev

\* The difference of two unsigned numbers, and "if rxRate < 0", which it never is.
Rate(curr, prev) == LET d == (curr - prev) % Word IN IF d < 0 THEN 0 ELSE d
Elapsed(secs) == IF secs <= 0 THEN 1 ELSE secs

\* The rate is of the bytes between two looks at the counter, in the seconds between two
\* ticks: a tick that waited is older than the look.
Tick(n) ==
  /\ stream[n].open /\ stream[n].tick # 0
  /\ IF nic[n].there
     THEN /\ graph' = [graph EXCEPT ![n] = [bytes |-> Rate(nic[n].bytes, stream[n].prev),
                                            secs |-> Elapsed(stream[n].tick)]]
          /\ stream' = [stream EXCEPT ![n] = [open |-> TRUE, prev |-> nic[n].bytes,
                                              age |-> @.age - @.tick, tick |-> 0]]
          /\ last' = [last EXCEPT ![n] = since[n]]
          /\ since' = [since EXCEPT ![n] = Nothing]
          /\ life' = [life EXCEPT ![n].told = @ + Elapsed(stream[n].tick)]
     ELSE /\ stream' = [stream EXCEPT ![n] = Closed]
          /\ UNCHANGED <<graph, last, since, life>>
  /\ UNCHANGED <<nic, nics, netActs>>

NetNext == \E n \in Interfaces :
  \/ \E up \in BOOLEAN : SetState(n, up)
  \/ \E mtu \in MTUs : SetMTU(n, mtu)
  \/ \E a \in Addresses : AddAddress(n, a) \/ DelAddress(n, a)
  \/ LoadNics
  \/ \E bytes \in 1..MaxBytes : Receive(n, bytes)
  \/ Unplug(n) \/ (\E w \in Wraps : Remake(n, w))
  \/ StartStream(n) \/ StopStream(n) \/ Second(n) \/ Tick(n)

NetSpec == NetInit /\ [][NetNext]_netVars

-----------------------------------------------------------------------------
NetTypeOK ==
  /\ \A n \in Interfaces : nic[n].wrap \in Wraps /\ nic[n].bytes \in 0..(nic[n].wrap - 1)
  /\ \A n \in Interfaces : graph[n].bytes \in 0..(Word - 1) /\ since[n].came \in 0..MaxCame
  /\ \A n \in Interfaces : stream[n].open => stream[n].tick \in 0..stream[n].age
  /\ DOMAIN nics \subseteq Interfaces

\* The bytes of a rate are those that came since the sample before it, exactly, when the
\* counter only went on or came round at Word.  A counter that was set back by less - one
\* of 32 bits came round, or an interface was made anew - gives so much less, and when that
\* is below zero a number near Word, not the 0 of the comment "counter wrap". A rate is
\* never in zero seconds, and the rates of a stream leave out no second and have none
\* twice, however slow the page is: what one has too few the next has too many.
RateIsWhatCame ==
  \A n \in Interfaces :
    /\ graph[n] # NoRate =>
         LET went == last[n].came - last[n].back
         IN  /\ graph[n].secs >= 1
             /\ graph[n].bytes = IF last[n].back \in {0, Word} THEN last[n].came
                                 ELSE IF went < 0 THEN Word + went ELSE went
    /\ stream[n].open => life[n].told + stream[n].age = life[n].secs
=============================================================================
