----------------------------- MODULE HubProofs -----------------------------
(***************************************************************************)
(* Proofs about the hub, for every set of connections, every channel       *)
(* capacity and every number of Broadcast calls.                           *)
(***************************************************************************)
EXTENDS Hub, SequenceTheorems, TLAPS

\* Taking the head of a channel leaves a channel.
LEMMA TailOfChannel ==
  ASSUME NEW S, NEW s \in Seq(S), s # <<>>
  PROVE  /\ Head(s) \in S
         /\ Tail(s) \in Seq(S)
         /\ Len(Tail(s)) = Len(s) - 1
         /\ \A i \in 1..Len(Tail(s)) : Tail(s)[i] = s[i + 1]
         /\ Head(s) = s[1]
         /\ Len(s) \in Nat \ {0}
  OBVIOUS

\* Sending on a channel that is not full leaves a channel.
LEMMA AppendToChannel ==
  ASSUME NEW S, NEW s \in Seq(S), NEW e \in S
  PROVE  /\ Append(s, e) \in Seq(S)
         /\ Len(Append(s, e)) = Len(s) + 1
         /\ \A i \in 1..Len(s) : Append(s, e)[i] = s[i]
         /\ Append(s, e)[Len(s) + 1] = e
         /\ Len(s) \in Nat
  OBVIOUS

\* The variables of the hub keep their types: in particular no channel ever
\* holds more than its capacity.
THEOREM TypeCorrect == Spec => []TypeOK
<1>1. Init => TypeOK
  BY CapAssumption DEF Init, TypeOK, ConnState, PumpState
<1>2. TypeOK /\ [Next]_vars => TypeOK'
  <2> SUFFICES ASSUME TypeOK, [Next]_vars
               PROVE  TypeOK'
    OBVIOUS
  <2> USE DEF TypeOK, ConnState, PumpState
  <2>1. ASSUME NEW c \in Clients, ServeWS(c) PROVE TypeOK'
    BY <2>1 DEF ServeWS, hubVars, history
  <2>2. ASSUME NEW c \in Clients, SendReg(c) PROVE TypeOK'
    <3>1. reg' \in Seq(Clients) /\ Len(reg') <= RegCap
      BY <2>2, AppendToChannel, CapAssumption DEF SendReg
    <3>2. QED
      BY <2>2, <3>1 DEF SendReg, history
  <2>3. ASSUME NEW c \in Clients, PeerGone(c) PROVE TypeOK'
    BY <2>3 DEF PeerGone, hubVars, history
  <2>4. ASSUME NEW c \in Clients, ReadError(c) PROVE TypeOK'
    BY <2>4 DEF ReadError, hubVars, history
  <2>5. ASSUME NEW c \in Clients, SendUnreg(c) PROVE TypeOK'
    <3>1. unreg' \in Seq(Clients) /\ Len(unreg') <= UnregCap
      BY <2>5, AppendToChannel, CapAssumption DEF SendUnreg
    <3>2. QED
      BY <2>5, <3>1 DEF SendUnreg, history
  <2>6. ASSUME NEW c \in Clients, PumpEvent(c) PROVE TypeOK'
    <3>1. /\ Tail(buf[c]) \in Seq(Nat) /\ Len(Tail(buf[c])) <= SendCap
          /\ Head(buf[c]) \in Nat
      BY <2>6, TailOfChannel, CapAssumption, SMTT(30) DEF PumpEvent
    <3>2. Append(got[c], Head(buf[c])) \in Seq(Nat)
      BY <3>1, AppendToChannel
    <3>3. buf' \in [Clients -> Seq(Nat)] /\ \A d \in Clients : Len(buf'[d]) <= SendCap
      BY <2>6, <3>1 DEF PumpEvent
    <3>4. got' \in [Clients -> Seq(Nat)]
      BY <2>6, <3>2 DEF PumpEvent
    <3>5. pump' \in [Clients -> PumpState]
      BY <2>6 DEF PumpEvent
    <3>6. QED
      BY <2>6, <3>3, <3>4, <3>5 DEF PumpEvent, hubVars, history
  <2>7. ASSUME NEW c \in Clients, PumpClosed(c) PROVE TypeOK'
    BY <2>7 DEF PumpClosed, hubVars, history
  <2>8. ASSUME NEW c \in Clients, PingFails(c) PROVE TypeOK'
    BY <2>8 DEF PingFails, hubVars, history
  <2>9. ASSUME RecvReg PROVE TypeOK'
    <3>1. /\ Head(reg) \in Clients
          /\ Tail(reg) \in Seq(Clients) /\ Len(Tail(reg)) <= RegCap
      BY <2>9, TailOfChannel, CapAssumption DEF RecvReg
    <3>2. Len(handled) \in Nat
      OBVIOUS
    <3>3. QED
      BY <2>9, <3>1, <3>2 DEF RecvReg
  <2>10. ASSUME RecvUnreg PROVE TypeOK'
    <3>1. /\ Head(unreg) \in Clients
          /\ Tail(unreg) \in Seq(Clients) /\ Len(Tail(unreg)) <= UnregCap
      BY <2>10, TailOfChannel, CapAssumption DEF RecvUnreg
    <3>2. closed' \in [Clients -> BOOLEAN]
      BY <2>10 DEF RecvUnreg
    <3>3. QED
      BY <2>10, <3>1, <3>2 DEF RecvUnreg, history
  <2>11. ASSUME RecvBcast PROVE TypeOK'
    <3>1. /\ Head(bcast) \in Nat
          /\ Tail(bcast) \in Seq(Nat) /\ Len(Tail(bcast)) <= BcastCap
      BY <2>11, TailOfChannel, CapAssumption DEF RecvBcast
    <3>2. Append(handled, Head(bcast)) \in Seq(Nat)
      BY <3>1, AppendToChannel
    <3>3. QED
      BY <2>11, <3>1, <3>2 DEF RecvBcast
  <2>12. ASSUME NEW c \in Clients, Offer(c) PROVE TypeOK'
    <3>1. Append(buf[c], event) \in Seq(Nat) /\ Len(Append(buf[c], event)) = Len(buf[c]) + 1
      BY AppendToChannel
    <3>2. buf' \in [Clients -> Seq(Nat)] /\ \A d \in Clients : Len(buf'[d]) <= SendCap
      <4>1. CASE Len(buf[c]) < SendCap /\ buf' = [buf EXCEPT ![c] = Append(@, event)]
        <5>1. Len(buf[c]) \in Nat
          OBVIOUS
        <5>2. Len(buf[c]) + 1 <= SendCap
          BY <4>1, <5>1, CapAssumption
        <5>3. QED
          BY <4>1, <5>2, <3>1
      <4>2. CASE UNCHANGED buf
        BY <4>2
      <4>3. QED
        BY <2>12, <4>1, <4>2 DEF Offer
    <3>3. full' \in [Clients -> BOOLEAN]
      BY <2>12 DEF Offer
    <3>4. QED
      BY <2>12, <3>2, <3>3 DEF Offer
  <2>13. ASSUME Broadcast PROVE TypeOK'
    <3>1. bcast' \in Seq(Nat) /\ Len(bcast') <= BcastCap
      BY <2>13, AppendToChannel, CapAssumption DEF Broadcast
    <3>2. QED
      BY <2>13, <3>1 DEF Broadcast, history
  <2>14. CASE UNCHANGED vars
    BY <2>14 DEF vars
  <2>15. QED
    BY <2>1, <2>2, <2>3, <2>4, <2>5, <2>6, <2>7, <2>8, <2>9, <2>10, <2>11,
       <2>12, <2>13, <2>14 DEF Next, Reader, Writer, Loop
<1>3. QED
  BY <1>1, <1>2, PTL DEF Spec

-----------------------------------------------------------------------------
(* No panic.  A channel may only be closed once its client is a member, and *)
(* a client that is a member, or was one, is no longer on its way in: this  *)
(* is what makes every close the first, and every member's channel open,    *)
(* although unreg may be served before reg.                                 *)

\* No client is twice on its way in.
RegOnce == \A i, j \in 1..Len(reg) : reg[i] = reg[j] => i = j

\* A client on its way in has an open channel, is not a member yet, and its
\* handler has sent it.
RegFresh ==
  \A i \in 1..Len(reg) :
    /\ ~closed[reg[i]]
    /\ reg[i] \notin clients
    /\ conn[reg[i]] \notin {"none", "registering"}

\* A client that has not been sent to the hub is unknown to it.
Unsent ==
  \A c \in Clients :
    conn[c] \in {"none", "registering"} => ~closed[c] /\ c \notin clients

NoPanicInv ==
  /\ RegOnce
  /\ RegFresh
  /\ Unsent
  /\ todo \subseteq clients
  /\ \A c \in clients : ~closed[c]

LEMMA NoPanicStep == TypeOK /\ NoPanicInv /\ [Next]_vars => NoPanicInv'
<1> SUFFICES ASSUME TypeOK, NoPanicInv, [Next]_vars
             PROVE  NoPanicInv'
  OBVIOUS
<1> USE DEF NoPanicInv, RegOnce, RegFresh, Unsent
<1>0. /\ reg \in Seq(Clients) /\ Len(reg) \in Nat
      /\ \A i \in 1..Len(reg) : reg[i] \in Clients
      /\ closed \in [Clients -> BOOLEAN]
      /\ conn \in [Clients -> ConnState]
      /\ clients \subseteq Clients
      /\ unreg \in Seq(Clients)
  BY DEF TypeOK
<1>1. ASSUME NEW c \in Clients, ServeWS(c) PROVE NoPanicInv'
  BY <1>0, <1>1 DEF ServeWS, hubVars
<1>2. ASSUME NEW c \in Clients, SendReg(c) PROVE NoPanicInv'
  <2>1. /\ Len(reg') = Len(reg) + 1
        /\ reg'[Len(reg) + 1] = c
        /\ \A i \in 1..Len(reg) : reg'[i] = reg[i]
        /\ \A i \in 1..Len(reg) : reg[i] # c
    BY <1>0, <1>2, AppendToChannel DEF SendReg
  <2>2. \A i \in 1..Len(reg') : i \in 1..Len(reg) \/ i = Len(reg) + 1
    BY <2>1, <1>0
  <2>3. RegOnce'
    BY <2>1, <2>2, <1>0
  <2>4. /\ ~closed[c] /\ c \notin clients
        /\ conn' = [conn EXCEPT ![c] = "reading"]
        /\ UNCHANGED <<closed, clients, todo>>
    BY <1>2 DEF SendReg
  <2>5. RegFresh'
    BY <2>1, <2>2, <2>4, <1>0
  <2>6. Unsent' /\ todo' \subseteq clients' /\ \A d \in clients' : ~closed'[d]
    BY <2>4, <1>0
  <2>7. QED
    BY <2>3, <2>5, <2>6
<1>3. ASSUME NEW c \in Clients, PeerGone(c) PROVE NoPanicInv'
  BY <1>3 DEF PeerGone, hubVars
<1>4. ASSUME NEW c \in Clients, ReadError(c) PROVE NoPanicInv'
  BY <1>0, <1>4 DEF ReadError, hubVars
<1>5. ASSUME NEW c \in Clients, SendUnreg(c) PROVE NoPanicInv'
  BY <1>0, <1>5 DEF SendUnreg
<1>6. ASSUME NEW c \in Clients, Writer(c) PROVE NoPanicInv'
  BY <1>6 DEF Writer, PumpEvent, PumpClosed, PingFails, hubVars
<1>7. ASSUME RecvReg PROVE NoPanicInv'
  <2>1. /\ Head(reg) = reg[1] /\ 1 \in 1..Len(reg)
        /\ reg' = Tail(reg) /\ Len(reg') = Len(reg) - 1
        /\ \A i \in 1..Len(reg') : reg'[i] = reg[i + 1] /\ i + 1 \in 1..Len(reg)
        /\ clients' = clients \union {reg[1]}
        /\ UNCHANGED <<conn, closed, todo>>
    BY <1>0, <1>7, TailOfChannel DEF RecvReg
  <2>2. \A i \in 1..Len(reg') : reg'[i] # reg[1]
    BY <2>1
  <2>3. RegOnce'
    BY <2>1, <1>0
  <2>4. RegFresh'
    BY <2>1, <2>2
  <2>5. ~closed[reg[1]] /\ conn[reg[1]] \notin {"none", "registering"}
    BY <2>1
  <2>6. Unsent'
    BY <2>1, <2>5
  <2>7. todo' \subseteq clients' /\ \A d \in clients' : ~closed'[d]
    BY <2>1, <2>5
  <2>8. QED
    BY <2>3, <2>4, <2>6, <2>7
<1>8. ASSUME RecvUnreg PROVE NoPanicInv'
  <2>1. /\ Head(unreg) \in Clients
        /\ clients' = clients \ {Head(unreg)}
        /\ closed' = [closed EXCEPT ![Head(unreg)] = @ \/ Head(unreg) \in clients]
        /\ todo = {} /\ UNCHANGED <<conn, reg, todo>>
    BY <1>0, <1>8, TailOfChannel DEF RecvUnreg
  <2>2. \A d \in Clients : closed'[d] = (closed[d] \/ (d = Head(unreg) /\ d \in clients))
    BY <2>1, <1>0
  <2>3. RegFresh'
    BY <2>1, <2>2, <1>0
  <2>4. Unsent'
    BY <2>1, <2>2
  <2>5. QED
    BY <2>1, <2>2, <2>3, <2>4, <1>0
<1>9. ASSUME RecvBcast PROVE NoPanicInv'
  BY <1>9 DEF RecvBcast
<1>10. ASSUME NEW c \in Clients, Offer(c) PROVE NoPanicInv'
  BY <1>10 DEF Offer
<1>11. ASSUME Broadcast PROVE NoPanicInv'
  BY <1>11 DEF Broadcast
<1>12. CASE UNCHANGED vars
  BY <1>12 DEF vars
<1>13. QED
  BY <1>1, <1>2, <1>3, <1>4, <1>5, <1>6, <1>7, <1>8, <1>9, <1>10, <1>11, <1>12
     DEF Next, Reader, Loop

\* The hub never sends on a closed channel and never closes one twice.
THEOREM NeverPanics == Spec => []NoClosedMember
<1>1. Init => NoPanicInv
  BY DEF Init, NoPanicInv, RegOnce, RegFresh, Unsent
<1>2. NoPanicInv => NoClosedMember
  BY DEF NoPanicInv, NoClosedMember
<1>3. QED
  BY <1>1, <1>2, TypeCorrect, NoPanicStep, PTL DEF Spec

-----------------------------------------------------------------------------
(* Order.  Events are numbered by the Broadcast calls; everything queued   *)
(* for or written to a tab is older than what the hub holds, which is      *)
(* older than what is in h.bcast.                                          *)

\* Every element of s is smaller than n.
Below(s, n) == \A i \in 1..Len(s) : s[i] < n

TabInOrder(c) ==
  /\ Ascending(got[c])
  /\ Ascending(buf[c])
  /\ \A i \in 1..Len(got[c]), j \in 1..Len(buf[c]) : got[c][i] < buf[c][j]
  /\ Below(got[c], event + 1) /\ Below(buf[c], event + 1)
  /\ c \in todo => 0 < event /\ Below(got[c], event) /\ Below(buf[c], event)
  /\ \A i \in 1..Len(buf[c]) : 0 < buf[c][i]

OrderInv ==
  /\ Ascending(bcast)
  /\ \A i \in 1..Len(bcast) : event < bcast[i] /\ bcast[i] <= calls
  /\ event <= calls
  /\ \A c \in Clients : TabInOrder(c)

\* A larger element at the end keeps a sequence ascending.
LEMMA AppendAscending ==
  ASSUME NEW s \in Seq(Nat), NEW n \in Nat, Ascending(s), Below(s, n)
  PROVE  Ascending(Append(s, n))
<1>1. /\ Len(Append(s, n)) = Len(s) + 1 /\ Len(s) \in Nat
      /\ \A i \in 1..Len(s) : Append(s, n)[i] = s[i]
      /\ Append(s, n)[Len(s) + 1] = n
  BY AppendToChannel
<1>2. SUFFICES ASSUME NEW i \in 1..(Len(s) + 1), NEW j \in 1..(Len(s) + 1), i < j
               PROVE  Append(s, n)[i] < Append(s, n)[j]
  BY <1>1 DEF Ascending
<1>3. i \in 1..Len(s)
  BY <1>1, <1>2
<1>4. CASE j = Len(s) + 1
  BY <1>1, <1>3, <1>4 DEF Below
<1>5. CASE j \in 1..Len(s)
  BY <1>1, <1>2, <1>3, <1>5 DEF Ascending
<1>6. QED
  BY <1>1, <1>4, <1>5

\* Receiving from a channel keeps what remains ascending, and every element
\* that remains is larger than the one received.
LEMMA TailAscending ==
  ASSUME NEW s \in Seq(Nat), s # <<>>, Ascending(s)
  PROVE  /\ Ascending(Tail(s))
         /\ \A i \in 1..Len(Tail(s)) : Head(s) < Tail(s)[i]
<1>1. /\ Len(Tail(s)) = Len(s) - 1 /\ Len(s) \in Nat \ {0} /\ Head(s) = s[1]
      /\ \A i \in 1..Len(Tail(s)) : Tail(s)[i] = s[i + 1]
  BY TailOfChannel
<1>2. \A i \in 1..Len(Tail(s)) : i + 1 \in 1..Len(s) /\ 1 < i + 1
  BY <1>1
<1>3. 1 \in 1..Len(s)
  BY <1>1
<1>4. \A i \in 1..Len(Tail(s)) : Head(s) < Tail(s)[i]
  BY <1>1, <1>2, <1>3 DEF Ascending
<1>5. ASSUME NEW i \in 1..Len(Tail(s)), NEW j \in 1..Len(Tail(s)), i < j
      PROVE  Tail(s)[i] < Tail(s)[j]
  <2>1. i + 1 < j + 1
    BY <1>5
  <2>2. QED
    BY <1>1, <1>2, <2>1 DEF Ascending
<1>6. QED
  BY <1>4, <1>5 DEF Ascending

\* Ascending sequences, the first below the second, concatenate to an
\* ascending one.
LEMMA ConcatAscending ==
  ASSUME NEW s \in Seq(Nat), NEW t \in Seq(Nat), Ascending(s), Ascending(t),
         \A i \in 1..Len(s), j \in 1..Len(t) : s[i] < t[j]
  PROVE  Ascending(s \o t)
<1> DEFINE m == Len(s)
<1> DEFINE n == Len(t)
<1>1. m \in Nat /\ n \in Nat
  BY LenProperties
<1>2. /\ Len(s \o t) = m + n
      /\ \A i \in 1..(m + n) : (s \o t)[i] = IF i <= m THEN s[i] ELSE t[i - m]
  BY ConcatProperties
<1> HIDE DEF m, n
<1>3. SUFFICES ASSUME NEW i \in 1..(m + n), NEW j \in 1..(m + n), i < j
               PROVE  (s \o t)[i] < (s \o t)[j]
  BY <1>2 DEF Ascending
<1>4. CASE j <= m
  <2>1. i \in 1..m /\ j \in 1..m /\ i <= m
    BY <1>1, <1>3, <1>4
  <2>2. QED
    BY <1>2, <1>3, <1>4, <2>1 DEF Ascending, m
<1>5. CASE i <= m /\ ~(j <= m)
  <2>1. i \in 1..m /\ j - m \in 1..n
    BY <1>1, <1>5
  <2>2. QED
    BY <1>2, <1>5, <2>1 DEF m, n
<1>6. CASE ~(i <= m)
  <2>1. i - m \in 1..n /\ j - m \in 1..n /\ i - m < j - m /\ ~(j <= m)
    BY <1>1, <1>3, <1>6
  <2>2. QED
    BY <1>2, <1>6, <2>1 DEF Ascending, n
<1>7. QED
  BY <1>4, <1>5, <1>6

\* A bound may be raised.
LEMMA BelowRaised ==
  ASSUME NEW s \in Seq(Nat), NEW m \in Nat, NEW n \in Nat, m <= n, Below(s, m)
  PROVE  Below(s, n)
<1>1. ASSUME NEW i \in 1..Len(s) PROVE s[i] < n
  <2>1. s[i] \in Nat /\ s[i] < m
    BY DEF Below
  <2>2. QED
    BY <2>1
<1>2. QED
  BY <1>1 DEF Below

LEMMA OrderStep == TypeOK /\ OrderInv /\ [Next]_vars => OrderInv'
<1> SUFFICES ASSUME TypeOK, OrderInv, [Next]_vars
             PROVE  OrderInv'
  OBVIOUS
<1>0. /\ bcast \in Seq(Nat) /\ Len(bcast) \in Nat
      /\ \A i \in 1..Len(bcast) : bcast[i] \in Nat
      /\ event \in Nat /\ calls \in Nat
      /\ got \in [Clients -> Seq(Nat)] /\ buf \in [Clients -> Seq(Nat)]
      /\ \A c \in Clients :
           /\ got[c] \in Seq(Nat) /\ Len(got[c]) \in Nat
           /\ buf[c] \in Seq(Nat) /\ Len(buf[c]) \in Nat
           /\ \A i \in 1..Len(got[c]) : got[c][i] \in Nat
           /\ \A i \in 1..Len(buf[c]) : buf[c][i] \in Nat
  <2>1. /\ bcast \in Seq(Nat) /\ event \in Nat /\ calls \in Nat
        /\ got \in [Clients -> Seq(Nat)] /\ buf \in [Clients -> Seq(Nat)]
    BY Zenon DEF TypeOK
  <2>2. \A s \in Seq(Nat) : Len(s) \in Nat /\ \A i \in 1..Len(s) : s[i] \in Nat
    OBVIOUS
  <2>3. \A c \in Clients : got[c] \in Seq(Nat) /\ buf[c] \in Seq(Nat)
    BY <2>1
  <2>4. QED
    BY <2>1, <2>2, <2>3, Zenon
<1>1. CASE UNCHANGED <<bcast, event, calls, got, buf, todo>>
  BY <1>1 DEF OrderInv, TabInOrder, Ascending, Below
<1>2. ASSUME NEW c \in Clients, PumpEvent(c) PROVE OrderInv'
  <2>1. /\ Ascending(Tail(buf[c])) /\ buf[c] # <<>>
        /\ \A i \in 1..Len(Tail(buf[c])) : Head(buf[c]) < Tail(buf[c])[i]
    BY <1>0, <1>2, TailAscending DEF PumpEvent, OrderInv, TabInOrder
  <2>2. /\ Head(buf[c]) = buf[c][1] /\ 1 \in 1..Len(buf[c]) /\ Head(buf[c]) \in Nat
        /\ Tail(buf[c]) \in Seq(Nat) /\ Len(Tail(buf[c])) \in Nat
        /\ \A i \in 1..Len(Tail(buf[c])) :
             Tail(buf[c])[i] = buf[c][i + 1] /\ i + 1 \in 1..Len(buf[c])
    BY <1>0, <2>1, TailOfChannel
  <2>3. Below(got[c], Head(buf[c]))
    BY <2>2 DEF OrderInv, TabInOrder, Below
  <2>4. Ascending(Append(got[c], Head(buf[c])))
    BY <1>0, <2>2, <2>3, AppendAscending DEF OrderInv, TabInOrder
  <2>5. /\ Len(Append(got[c], Head(buf[c]))) = Len(got[c]) + 1
        /\ \A i \in 1..Len(got[c]) : Append(got[c], Head(buf[c]))[i] = got[c][i]
        /\ Append(got[c], Head(buf[c]))[Len(got[c]) + 1] = Head(buf[c])
    BY <1>0, <2>2, AppendToChannel
  <2>6. /\ Below(Tail(buf[c]), event + 1)
        /\ \A i \in 1..Len(Tail(buf[c])) : 0 < Tail(buf[c])[i]
        /\ c \in todo => Below(Tail(buf[c]), event)
        /\ \A i \in 1..Len(got[c]), j \in 1..Len(Tail(buf[c])) : got[c][i] < Tail(buf[c])[j]
    BY <2>2 DEF OrderInv, TabInOrder, Below
  <2>7. ASSUME NEW s \in {got[c], Append(got[c], Head(buf[c]))}
        PROVE  /\ Ascending(s)
               /\ Below(s, event + 1)
               /\ c \in todo => Below(s, event)
               /\ \A i \in 1..Len(s), j \in 1..Len(Tail(buf[c])) : s[i] < Tail(buf[c])[j]
    <3>1. CASE s = got[c]
      BY <3>1, <2>6 DEF OrderInv, TabInOrder
    <3>2. CASE s = Append(got[c], Head(buf[c]))
      <4>1. \A i \in 1..Len(s) : i \in 1..Len(got[c]) \/ i = Len(got[c]) + 1
        BY <3>2, <2>5, <1>0
      <4>2. /\ Below(got[c], event + 1) /\ Head(buf[c]) < event + 1
            /\ c \in todo => Below(got[c], event) /\ Head(buf[c]) < event
        BY <2>2 DEF OrderInv, TabInOrder, Below
      <4>3. QED
        BY <3>2, <4>1, <4>2, <2>4, <2>5, <2>6, <2>1 DEF Below
    <3>3. QED
      BY <3>1, <3>2
  <2>8. /\ got'[c] \in {got[c], Append(got[c], Head(buf[c]))}
        /\ buf'[c] = Tail(buf[c])
        /\ \A d \in Clients \ {c} : got'[d] = got[d] /\ buf'[d] = buf[d]
        /\ UNCHANGED <<bcast, event, calls, todo>>
    BY <1>0, <1>2 DEF PumpEvent, hubVars
  <2>9. TabInOrder(c)'
    <3>1. c \in todo => 0 < event
      BY DEF OrderInv, TabInOrder
    <3>2. QED
      BY <2>1, <2>6, <2>7, <2>8, <3>1 DEF TabInOrder
  <2>10. \A d \in Clients \ {c} : TabInOrder(d)'
    BY <2>8 DEF OrderInv, TabInOrder
  <2>11. QED
    BY <2>8, <2>9, <2>10 DEF OrderInv, Ascending
<1>3. ASSUME RecvBcast PROVE OrderInv'
  <2>1. /\ Ascending(Tail(bcast)) /\ bcast # <<>>
        /\ \A i \in 1..Len(Tail(bcast)) : Head(bcast) < Tail(bcast)[i]
    BY <1>0, <1>3, TailAscending DEF RecvBcast, OrderInv
  <2>2. /\ Head(bcast) = bcast[1] /\ 1 \in 1..Len(bcast) /\ Head(bcast) \in Nat
        /\ \A i \in 1..Len(Tail(bcast)) :
             Tail(bcast)[i] = bcast[i + 1] /\ i + 1 \in 1..Len(bcast)
    BY <1>0, <2>1, TailOfChannel
  <2>3. event < event' /\ 0 < event' /\ event' = Head(bcast) /\ event' <= calls /\ event' \in Nat
    BY <1>0, <1>3, <2>2 DEF RecvBcast, OrderInv
  <2>4. ASSUME NEW c \in Clients PROVE TabInOrder(c)'
    <3>1. Below(got[c], event') /\ Below(buf[c], event')
      <4>1. event + 1 \in Nat /\ event + 1 <= event'
        BY <1>0, <2>3
      <4>2. Below(got[c], event + 1) /\ Below(buf[c], event + 1)
        BY DEF OrderInv, TabInOrder
      <4>3. QED
        BY <1>0, <2>3, <4>1, <4>2, BelowRaised
    <3>2. Below(got[c], event' + 1) /\ Below(buf[c], event' + 1)
      <4>1. event' + 1 \in Nat /\ event' <= event' + 1
        BY <2>3
      <4>2. QED
        BY <1>0, <2>3, <3>1, <4>1, BelowRaised
    <3>3. QED
      BY <1>3, <2>3, <3>1, <3>2 DEF RecvBcast, OrderInv, TabInOrder
  <2>5. \A i \in 1..Len(Tail(bcast)) : event' < Tail(bcast)[i] /\ Tail(bcast)[i] <= calls
    BY <2>1, <2>2, <2>3 DEF OrderInv
  <2>6. QED
    BY <1>3, <2>1, <2>3, <2>4, <2>5 DEF RecvBcast, OrderInv
<1>4. ASSUME NEW c \in Clients, Offer(c) PROVE OrderInv'
  <2>1. /\ UNCHANGED <<bcast, event, calls, got>>
        /\ todo' = todo \ {c} /\ c \in todo
        /\ buf'[c] \in {buf[c], Append(buf[c], event)}
        /\ \A d \in Clients \ {c} : buf'[d] = buf[d]
    BY <1>0, <1>4 DEF Offer
  <2>2. 0 < event /\ Below(got[c], event) /\ Below(buf[c], event) /\ Ascending(buf[c])
    BY <2>1 DEF OrderInv, TabInOrder
  <2>3. Ascending(Append(buf[c], event))
    BY <1>0, <2>2, AppendAscending
  <2>4. /\ Len(Append(buf[c], event)) = Len(buf[c]) + 1
        /\ \A i \in 1..Len(buf[c]) : Append(buf[c], event)[i] = buf[c][i]
        /\ Append(buf[c], event)[Len(buf[c]) + 1] = event
    BY <1>0, AppendToChannel
  <2>5. \A i \in 1..Len(Append(buf[c], event)) : i \in 1..Len(buf[c]) \/ i = Len(buf[c]) + 1
    BY <1>0, <2>4
  <2>6. Below(Append(buf[c], event), event + 1)
    BY <1>0, <2>2, <2>4, <2>5 DEF Below
  <2>7. \A i \in 1..Len(got[c]), j \in 1..Len(Append(buf[c], event)) :
          got[c][i] < Append(buf[c], event)[j]
    BY <2>1, <2>2, <2>4, <2>5 DEF OrderInv, TabInOrder, Below
  <2>11. \A j \in 1..Len(Append(buf[c], event)) : 0 < Append(buf[c], event)[j]
    BY <2>1, <2>2, <2>4, <2>5 DEF OrderInv, TabInOrder
  <2>8. TabInOrder(c)'
    BY <2>1, <2>3, <2>6, <2>7, <2>11 DEF OrderInv, TabInOrder
  <2>9. \A d \in Clients \ {c} : TabInOrder(d)'
    BY <2>1 DEF OrderInv, TabInOrder
  <2>10. QED
    BY <2>1, <2>8, <2>9 DEF OrderInv, Ascending
<1>5. ASSUME Broadcast PROVE OrderInv'
  <2>1. /\ UNCHANGED <<event, got, buf, todo>>
        /\ calls' = calls + 1
        /\ bcast' \in {bcast, Append(bcast, calls + 1)}
    BY <1>5 DEF Broadcast
  <2>2. Below(bcast, calls + 1)
    BY <1>0 DEF OrderInv, Below
  <2>3. Ascending(Append(bcast, calls + 1))
    BY <1>0, <2>2, AppendAscending DEF OrderInv
  <2>4. /\ Len(Append(bcast, calls + 1)) = Len(bcast) + 1
        /\ \A i \in 1..Len(bcast) : Append(bcast, calls + 1)[i] = bcast[i]
        /\ Append(bcast, calls + 1)[Len(bcast) + 1] = calls + 1
    BY <1>0, AppendToChannel
  <2>5. \A i \in 1..Len(Append(bcast, calls + 1)) : i \in 1..Len(bcast) \/ i = Len(bcast) + 1
    BY <1>0, <2>4
  <2>6. /\ Ascending(bcast')
        /\ \A i \in 1..Len(bcast') : event < bcast'[i] /\ bcast'[i] <= calls'
    <3>1. CASE bcast' = bcast
      <4>1. \A i \in 1..Len(bcast) : event < bcast[i] /\ bcast[i] <= calls + 1
        BY <1>0 DEF OrderInv
      <4>2. QED
        BY <2>1, <3>1, <4>1 DEF OrderInv, Ascending
    <3>2. CASE bcast' = Append(bcast, calls + 1)
      <4>1. event < calls + 1
        BY <1>0 DEF OrderInv
      <4>2. \A i \in 1..Len(bcast) : event < bcast[i] /\ bcast[i] <= calls + 1
        BY <1>0 DEF OrderInv
      <4>3. QED
        BY <1>0, <2>1, <2>3, <2>4, <2>5, <3>2, <4>1, <4>2 DEF Ascending
    <3>3. QED
      BY <2>1, <3>1, <3>2
  <2>7. \A c \in Clients : TabInOrder(c)'
    BY <2>1 DEF OrderInv, TabInOrder
  <2>8. QED
    BY <1>0, <2>1, <2>6, <2>7 DEF OrderInv
<1>6. QED
  BY <1>1, <1>2, <1>3, <1>4, <1>5
     DEF Next, Reader, Writer, Loop, ServeWS, SendReg, PeerGone, ReadError, SendUnreg,
         PumpClosed, PingFails, RecvReg, RecvUnreg, vars, hubVars

\* The inductive invariant holds of every behaviour of the hub.
LEMMA AlwaysOrdered == Spec => []OrderInv
<1>1. Init => OrderInv
  BY DEF Init, OrderInv, TabInOrder, Ascending, Below
<1>2. QED
  BY <1>1, TypeCorrect, OrderStep, PTL DEF Spec

\* No tab ever sees an event twice or out of order, at any load.
THEOREM DeliveredInOrder == Spec => []InOrder
<1>1. TypeOK /\ OrderInv => InOrder
  BY ConcatAscending DEF InOrder, Queued, TypeOK, OrderInv, TabInOrder
<1>2. QED
  BY <1>1, TypeCorrect, AlwaysOrdered, PTL

-----------------------------------------------------------------------------
(* Refinement.  Sending a client to the hub attaches it, a write pump that *)
(* ends detaches it, a write delivers, Broadcast publishes; every other    *)
(* step stutters.                                                          *)

\* The write pump is started by ServeWS, once the client has been sent.
PumpAfterReg ==
  \A c \in Clients : conn[c] \in {"none", "registering"} => pump[c] = "none"

LEMMA AlwaysPumpAfterReg == Spec => []PumpAfterReg
<1>1. Init => PumpAfterReg
  BY DEF Init, PumpAfterReg
<1>2. TypeOK /\ PumpAfterReg /\ [Next]_vars => PumpAfterReg'
  BY SMTT(30) DEF TypeOK, ConnState, PumpState, PumpAfterReg, Next, Reader, Writer, Loop,
         ServeWS, SendReg, PeerGone, ReadError, SendUnreg, PumpEvent, PumpClosed,
         PingFails, RecvReg, RecvUnreg, RecvBcast, Offer, Broadcast, vars
<1>3. QED
  BY <1>1, <1>2, TypeCorrect, PTL DEF Spec

\* The newest event a tab has is older than every event still to come.
LEMMA NewestBelow ==
  ASSUME NEW s \in Seq(Nat), NEW n \in Nat, 0 < n, Below(s, n)
  PROVE  TopicOf!Newest(s) \in Nat /\ TopicOf!Newest(s) < n
<1>1. CASE s = <<>>
  BY <1>1 DEF TopicOf!Newest
<1>2. CASE s # <<>>
  <2>1. Len(s) \in 1..Len(s) /\ s[Len(s)] \in Nat
    BY <1>2, LenProperties
  <2>2. QED
    BY <1>2, <2>1 DEF TopicOf!Newest, Below
<1>3. QED
  BY <1>1, <1>2

\* The hub implements the best-effort topic that its tabs may rely on.
THEOREM HubImplementsTopic == Spec => TopicSpec
<1>1. Init => TopicOf!Init
  BY DEF Init, TopicOf!Init, member
<1>2. TypeOK /\ OrderInv /\ PumpAfterReg /\ [Next]_vars
        => [TopicOf!Next]_(TopicOf!topicVars)
  <2> SUFFICES ASSUME TypeOK, OrderInv, PumpAfterReg, [Next]_vars
               PROVE  TopicOf!Next \/ UNCHANGED <<calls, got, member>>
    BY DEF TopicOf!topicVars
  <2>0. /\ got \in [Clients -> Seq(Nat)] /\ buf \in [Clients -> Seq(Nat)]
        /\ pump \in [Clients -> PumpState] /\ calls \in Nat /\ event \in Nat
    BY DEF TypeOK
  <2>1. CASE UNCHANGED <<calls, got, pump>>
    BY <2>1 DEF member
  <2>2. ASSUME NEW c \in Clients, SendReg(c)
        PROVE  TopicOf!Next
    <3>1. /\ pump[c] = "none" /\ pump' = [pump EXCEPT ![c] = "running"]
          /\ UNCHANGED <<calls, got>>
      BY <2>2 DEF SendReg, PumpAfterReg, history
    <3>2. member[c] = "new" /\ member' = [member EXCEPT ![c] = "attached"]
      BY <2>0, <3>1 DEF member
    <3>3. TopicOf!Attach(c)
      BY <3>1, <3>2 DEF TopicOf!Attach
    <3>4. QED
      BY <3>3 DEF TopicOf!Next
  <2>3. ASSUME NEW c \in Clients, pump[c] = "running",
               pump' = [pump EXCEPT ![c] = "done"], UNCHANGED <<calls, got>>
        PROVE  TopicOf!Next
    <3>1. member[c] = "attached" /\ member' = [member EXCEPT ![c] = "detached"]
      BY <2>0, <2>3 DEF member
    <3>2. TopicOf!Detach(c)
      BY <2>3, <3>1 DEF TopicOf!Detach
    <3>3. QED
      BY <3>2 DEF TopicOf!Next
  <2>4. ASSUME NEW c \in Clients, pump[c] = "running", buf[c] # <<>>,
               got' = [got EXCEPT ![c] = Append(@, Head(buf[c]))],
               UNCHANGED <<calls, pump>>
        PROVE  TopicOf!Next
    <3>1. /\ Head(buf[c]) = buf[c][1] /\ 1 \in 1..Len(buf[c]) /\ Head(buf[c]) \in Nat
          /\ got[c] \in Seq(Nat)
      BY <2>0, <2>4, TailOfChannel
    <3>2. Below(got[c], Head(buf[c])) /\ 0 < Head(buf[c]) /\ Head(buf[c]) < event + 1
      BY <3>1 DEF OrderInv, TabInOrder, Below
    <3>3. Head(buf[c]) \in (TopicOf!Newest(got[c]) + 1)..calls
      <4>1. TopicOf!Newest(got[c]) \in Nat /\ TopicOf!Newest(got[c]) < Head(buf[c])
        BY <3>1, <3>2, NewestBelow
      <4>2. Head(buf[c]) <= calls
        BY <2>0, <3>1, <3>2 DEF OrderInv
      <4>3. QED
        BY <2>0, <3>1, <4>1, <4>2
    <3>4. member[c] = "attached" /\ UNCHANGED member
      BY <2>0, <2>4 DEF member
    <3>5. TopicOf!Receive(c)
      BY <2>4, <3>3, <3>4 DEF TopicOf!Receive
    <3>6. QED
      BY <3>5 DEF TopicOf!Next
  <2>5. ASSUME Broadcast PROVE TopicOf!Next
    <3>1. TopicOf!Publish
      BY <2>5 DEF Broadcast, TopicOf!Publish, member
    <3>2. QED
      BY <3>1 DEF TopicOf!Next
  <2>6. ASSUME NEW c \in Clients, PumpEvent(c)
        PROVE  TopicOf!Next
    BY <2>3, <2>4, <2>6 DEF PumpEvent
  <2>7. ASSUME NEW c \in Clients, PumpClosed(c) \/ PingFails(c)
        PROVE  TopicOf!Next
    BY <2>3, <2>7 DEF PumpClosed, PingFails
  <2>8. QED
    BY <2>1, <2>2, <2>5, <2>6, <2>7
       DEF Next, Reader, Writer, Loop, ServeWS, PeerGone, ReadError, SendUnreg,
           RecvReg, RecvUnreg, RecvBcast, Offer, vars
<1>3. QED
  BY <1>1, <1>2, TypeCorrect, AlwaysOrdered, AlwaysPumpAfterReg, PTL
     DEF Spec, TopicSpec, TopicOf!Spec

-----------------------------------------------------------------------------
(* Losses.  A client that has not been registered has been offered nothing; *)
(* from then on what it is offered is what the hub takes, one event after   *)
(* the other, as long as its channel has room.                             *)

Untouched ==
  \A c \in Clients :
    conn[c] \in {"none", "registering"} \/ (\E i \in 1..Len(reg) : reg[i] = c)
      => got[c] = <<>> /\ buf[c] = <<>>

Offered(c) == IF c \in todo THEN Len(handled) - 1 ELSE Len(handled)

KeptUp(c) ==
  /\ since[c] <= Offered(c) /\ Offered(c) <= Len(handled) /\ Offered(c) \in Nat
  /\ ~full[c] /\ pump[c] = "running" => Queued(c) = SubSeq(handled, since[c] + 1, Offered(c))

LossInv ==
  /\ Untouched
  /\ todo # {} => handled # <<>> /\ handled[Len(handled)] = event
  /\ \A c \in clients : KeptUp(c)

\* What is written to a tab was at the head of its channel.
LEMMA HeadWritten ==
  ASSUME NEW s \in Seq(Nat), NEW t \in Seq(Nat), t # <<>>
  PROVE  Append(s, Head(t)) \o Tail(t) = s \o t
OBVIOUS

LEMMA OneMoreQueued ==
  ASSUME NEW s \in Seq(Nat), NEW t \in Seq(Nat), NEW n \in Nat
  PROVE  s \o Append(t, n) = Append(s \o t, n)
OBVIOUS

\* The events from a to b when one more is taken, and when one more is offered.
LEMMA OneMoreHandled ==
  ASSUME NEW s \in Seq(Nat), NEW n \in Nat, NEW a \in Nat \ {0}, NEW b \in Nat, b <= Len(s)
  PROVE  SubSeq(Append(s, n), a, b) = SubSeq(s, a, b)
OBVIOUS

LEMMA OneMoreOffered ==
  ASSUME NEW s \in Seq(Nat), NEW a \in Nat \ {0}, s # <<>>, a <= Len(s)
  PROVE  Append(SubSeq(s, a, Len(s) - 1), s[Len(s)]) = SubSeq(s, a, Len(s))
OBVIOUS

LEMMA NothingYet ==
  ASSUME NEW s \in Seq(Nat)
  PROVE  SubSeq(s, Len(s) + 1, Len(s)) = <<>> /\ <<>> \o <<>> = <<>>
OBVIOUS

LEMMA LossStep == TypeOK /\ NoPanicInv /\ LossInv /\ [Next]_vars => LossInv'
<1> SUFFICES ASSUME TypeOK, NoPanicInv, LossInv, [Next]_vars
             PROVE  LossInv'
  OBVIOUS
<1>0. /\ reg \in Seq(Clients) /\ Len(reg) \in Nat
      /\ \A i \in 1..Len(reg) : reg[i] \in Clients /\ reg[i] \notin clients
      /\ \A c \in Clients : conn[c] \in {"none", "registering"} => c \notin clients
      /\ clients \subseteq Clients /\ todo \subseteq clients
      /\ conn \in [Clients -> ConnState] /\ pump \in [Clients -> PumpState]
      /\ full \in [Clients -> BOOLEAN] /\ since \in [Clients -> Nat]
      /\ got \in [Clients -> Seq(Nat)] /\ buf \in [Clients -> Seq(Nat)]
      /\ handled \in Seq(Nat) /\ Len(handled) \in Nat /\ event \in Nat
  BY SMTT(30) DEF TypeOK, NoPanicInv, RegFresh, Unsent
<1>1. /\ Untouched /\ (todo # {} => handled # <<>> /\ handled[Len(handled)] = event)
      /\ \A c \in clients : KeptUp(c)
  BY DEF LossInv
\* Steps of the connections that do not touch channels.
<1>2. ASSUME UNCHANGED <<reg, clients, todo, event, buf, got, handled, since, full>>,
             \A c \in Clients :
               /\ conn'[c] \in {"none", "registering"} => conn[c] \in {"none", "registering"}
               /\ c \in clients /\ pump'[c] = "running" => pump[c] = "running"
      PROVE  LossInv'
  <2>1. Untouched'
    BY <1>1, <1>2 DEF Untouched
  <2>2. ASSUME NEW c \in clients PROVE KeptUp(c)'
    BY <1>0, <1>1, <1>2, <2>2 DEF KeptUp, Offered, Queued
  <2>3. QED
    BY <1>1, <1>2, <2>1, <2>2 DEF LossInv
<1>3. ASSUME NEW c \in Clients, ServeWS(c) \/ PeerGone(c) \/ ReadError(c) \/ SendUnreg(c)
      PROVE  LossInv'
  <2>1. UNCHANGED <<reg, clients, todo, event, buf, got, handled, since, full, pump>>
    BY <1>3 DEF ServeWS, PeerGone, ReadError, SendUnreg, hubVars, history
  <2>2. \A d \in Clients : conn'[d] \in {"none", "registering"} => conn[d] \in {"none", "registering"}
    BY <1>0, <1>3 DEF ServeWS, PeerGone, ReadError, SendUnreg
  <2>3. QED
    BY <1>2, <2>1, <2>2
<1>4. ASSUME NEW c \in Clients, PumpClosed(c) \/ PingFails(c)
      PROVE  LossInv'
  <2>1. UNCHANGED <<conn, reg, clients, todo, event, buf, got, handled, since, full>>
    BY <1>4 DEF PumpClosed, PingFails, hubVars, history
  <2>2. \A d \in Clients : pump'[d] = "running" => pump[d] = "running"
    BY <1>0, <1>4 DEF PumpClosed, PingFails
  <2>3. QED
    BY <1>2, <2>1, <2>2
<1>5. ASSUME UNCHANGED <<conn, pump, reg, clients, todo, event, buf, got, handled, since, full>>
      PROVE  LossInv'
  BY <1>2, <1>5
<1>6. ASSUME NEW c \in Clients, SendReg(c)
      PROVE  LossInv'
  <2>1. /\ conn[c] = "registering" /\ c \notin clients
        /\ Len(reg') = Len(reg) + 1 /\ reg'[Len(reg) + 1] = c
        /\ \A i \in 1..Len(reg) : reg'[i] = reg[i]
        /\ conn' = [conn EXCEPT ![c] = "reading"] /\ pump' = [pump EXCEPT ![c] = "running"]
        /\ UNCHANGED <<clients, todo, event, buf, got, handled, since, full>>
    BY <1>0, <1>6, AppendToChannel DEF SendReg, history
  <2>2. \A i \in 1..Len(reg') : i \in 1..Len(reg) \/ i = Len(reg) + 1
    BY <1>0, <2>1
  <2>3. Untouched'
    BY <1>0, <1>1, <2>1, <2>2 DEF Untouched
  <2>4. ASSUME NEW d \in clients PROVE KeptUp(d)'
    <3>1. d # c /\ pump'[d] = pump[d]
      BY <1>0, <2>1
    <3>2. QED
      BY <1>1, <2>1, <3>1 DEF KeptUp, Offered, Queued
  <2>5. QED
    BY <1>1, <2>1, <2>3, <2>4 DEF LossInv
<1>7. ASSUME NEW c \in Clients, PumpEvent(c)
      PROVE  LossInv'
  <2>1. /\ buf[c] # <<>> /\ buf' = [buf EXCEPT ![c] = Tail(@)]
        /\ \/ got' = [got EXCEPT ![c] = Append(@, Head(buf[c]))] /\ pump' = pump
           \/ pump' = [pump EXCEPT ![c] = "done"] /\ got' = got
        /\ UNCHANGED <<conn, reg, clients, todo, event, handled, since, full>>
    BY <1>7 DEF PumpEvent, hubVars, history
  <2>2. \A d \in Clients : d # c => got'[d] = got[d] /\ buf'[d] = buf[d] /\ pump'[d] = pump[d]
    BY <1>0, <2>1
  <2>3. Untouched'
    BY <1>0, <1>1, <2>1, <2>2 DEF Untouched
  <2>4. ASSUME NEW d \in clients PROVE KeptUp(d)'
    <3>1. CASE d # c
      <4>1. got'[d] = got[d] /\ buf'[d] = buf[d] /\ pump'[d] = pump[d]
        BY <1>0, <2>2, <3>1
      <4>2. QED
        BY <1>1, <2>1, <4>1 DEF KeptUp, Offered, Queued
    <3>2. CASE d = c
      <4>1. ASSUME pump'[c] = "running"
            PROVE  pump[c] = "running" /\ Queued(c)' = Queued(c)
        <5>1. pump' = pump /\ got'[c] = Append(got[c], Head(buf[c])) /\ buf'[c] = Tail(buf[c])
          BY <1>0, <2>1, <4>1 DEF PumpState
        <5>2. got[c] \in Seq(Nat) /\ buf[c] \in Seq(Nat)
          BY <1>0
        <5>3. Append(got[c], Head(buf[c])) \o Tail(buf[c]) = got[c] \o buf[c]
          BY <2>1, <5>2, HeadWritten
        <5>4. QED
          BY <4>1, <5>1, <5>3 DEF Queued
      <4>2. QED
        BY <1>1, <2>1, <3>2, <4>1 DEF KeptUp, Offered
    <3>3. QED
      BY <3>1, <3>2
  <2>5. QED
    BY <1>1, <2>1, <2>3, <2>4 DEF LossInv
<1>8. ASSUME RecvReg
      PROVE  LossInv'
  <2>0. PICK c \in Clients : c = Head(reg)
    BY <1>0, <1>8, TailOfChannel DEF RecvReg
  <2>1. /\ todo = {} /\ c = reg[1] /\ 1 \in 1..Len(reg)
        /\ \A i \in 1..Len(reg') : reg'[i] = reg[i + 1] /\ i + 1 \in 1..Len(reg)
    BY <1>0, <1>8, <2>0, TailOfChannel DEF RecvReg
  <2>2. /\ clients' = clients \union {c} /\ since' = [since EXCEPT ![c] = Len(handled)]
        /\ UNCHANGED <<conn, pump, todo, event, buf, got, handled, full>>
    BY <1>8, <2>0 DEF RecvReg
  <2>3. Untouched'
    BY <1>1, <2>1, <2>2 DEF Untouched
  <2>4. ASSUME NEW d \in clients' PROVE KeptUp(d)'
    <3>1. CASE d # c
      <4>1. d \in clients /\ since'[d] = since[d]
        BY <1>0, <2>2, <2>4, <3>1
      <4>2. QED
        BY <1>1, <2>2, <4>1 DEF KeptUp, Offered, Queued
    <3>2. CASE d = c
      <4>1. since'[c] = Len(handled) /\ Offered(c)' = Len(handled)
        BY <1>0, <2>1, <2>2 DEF Offered
      <4>2. got[c] = <<>> /\ buf[c] = <<>>
        BY <1>1, <2>1 DEF Untouched
      <4>3. Queued(c)' = <<>>
        <5>1. <<>> \o <<>> = <<>>
          OBVIOUS
        <5>2. QED
          BY <2>2, <4>2, <5>1 DEF Queued
      <4>4. SubSeq(handled, Len(handled) + 1, Len(handled)) = <<>>
        BY <1>0, NothingYet
      <4>5. Queued(c)' = SubSeq(handled', since'[c] + 1, Offered(c)')
        BY <2>2, <4>1, <4>3, <4>4
      <4>6. since'[c] <= Offered(c)' /\ Offered(c)' <= Len(handled') /\ Offered(c)' \in Nat
        BY <1>0, <2>2, <4>1
      <4>7. QED
        BY <3>2, <4>5, <4>6 DEF KeptUp
    <3>3. QED
      BY <3>1, <3>2
  <2>5. QED
    BY <1>1, <2>1, <2>2, <2>3, <2>4 DEF LossInv
<1>9. ASSUME RecvUnreg
      PROVE  LossInv'
  <2>1. /\ clients' \subseteq clients
        /\ UNCHANGED <<conn, pump, reg, todo, event, buf, got, handled, since, full>>
    BY <1>9 DEF RecvUnreg, history
  <2>2. Untouched'
    BY <1>1, <2>1 DEF Untouched
  <2>3. ASSUME NEW d \in clients' PROVE KeptUp(d)'
    BY <1>1, <2>1 DEF KeptUp, Offered, Queued
  <2>4. QED
    BY <1>1, <2>1, <2>2, <2>3 DEF LossInv
<1>10. ASSUME RecvBcast
       PROVE  LossInv'
  <2> DEFINE e == Head(bcast)
  <2>1. /\ todo = {} /\ bcast # <<>> /\ todo' = clients /\ event' = e /\ handled' = Append(handled, e)
        /\ UNCHANGED <<conn, pump, reg, clients, buf, got, since, full>>
    BY <1>10 DEF RecvBcast
  <2>2. e \in Nat
    BY <2>1, TailOfChannel DEF TypeOK
  <2> HIDE DEF e
  <2>3. /\ handled' # <<>> /\ Len(handled') = Len(handled) + 1 /\ handled'[Len(handled')] = e
        /\ handled' \in Seq(Nat)
    <3>1. handled \in Seq(Nat) /\ handled' = Append(handled, e)
      BY <1>0, <2>1
    <3>2. QED
      BY <2>2, <3>1
  <2>4. Untouched'
    BY <1>1, <2>1 DEF Untouched
  <2>5. ASSUME NEW d \in clients PROVE KeptUp(d)'
    <3>1. Offered(d) = Len(handled) /\ Offered(d)' = Len(handled)
      BY <1>0, <2>1, <2>3 DEF Offered
    <3>2. since[d] + 1 \in Nat \ {0}
      BY <1>0
    <3>3. SubSeq(handled', since[d] + 1, Len(handled)) = SubSeq(handled, since[d] + 1, Len(handled))
      <4>1. /\ handled \in Seq(Nat) /\ Len(handled) \in Nat /\ Len(handled) <= Len(handled)
            /\ handled' = Append(handled, e)
        BY <1>0, <2>1
      <4>2. QED
        BY <2>2, <3>2, <4>1, OneMoreHandled
    <3>4. Queued(d)' = Queued(d)
      BY <2>1 DEF Queued
    <3>5. KeptUp(d)
      BY <1>1
    <3>6. QED
      BY <1>0, <2>1, <2>3, <3>1, <3>3, <3>4, <3>5 DEF KeptUp
  <2>6. QED
    BY <2>1, <2>3, <2>4, <2>5 DEF LossInv
<1>11. ASSUME NEW c \in Clients, Offer(c)
       PROVE  LossInv'
  <2>1. /\ c \in todo /\ todo' = todo \ {c}
        /\ \/ buf' = [buf EXCEPT ![c] = Append(@, event)] /\ full' = full
           \/ full' = [full EXCEPT ![c] = TRUE] /\ buf' = buf
        /\ UNCHANGED <<conn, pump, reg, clients, event, got, handled, since>>
    BY <1>11 DEF Offer
  <2>2. \A d \in Clients : d # c => buf'[d] = buf[d] /\ full'[d] = full[d]
    BY <1>0, <2>1
  <2>3. c \in clients /\ handled # <<>> /\ handled[Len(handled)] = event
    BY <1>0, <1>1, <2>1
  <2>4. Untouched'
    <3>1. conn[c] \notin {"none", "registering"} /\ \A i \in 1..Len(reg) : reg[i] # c
      BY <1>0, <2>3
    <3>2. QED
      BY <1>1, <2>1, <2>2, <3>1 DEF Untouched
  <2>5. ASSUME NEW d \in clients PROVE KeptUp(d)'
    <3>1. CASE d # c
      <4>1. buf'[d] = buf[d] /\ full'[d] = full[d] /\ (d \in todo' <=> d \in todo)
        BY <1>0, <2>1, <2>2, <3>1
      <4>2. QED
        BY <1>1, <2>1, <4>1 DEF KeptUp, Offered, Queued
    <3>2. CASE d = c
      <4>1. Offered(c) = Len(handled) - 1 /\ Offered(c)' = Len(handled)
        BY <2>1 DEF Offered
      <4>2. KeptUp(c) /\ since[c] \in Nat
        BY <1>0, <1>1, <2>3
      <4>3. since[c] + 1 \in Nat \ {0} /\ since[c] + 1 <= Len(handled) /\ since[c] <= Len(handled)
        BY <1>0, <4>1, <4>2, SMTT(30) DEF KeptUp
      <4>4. ASSUME ~full'[c], pump[c] = "running"
            PROVE  Queued(c)' = SubSeq(handled, since[c] + 1, Len(handled))
        <5>1. ~full[c] /\ buf'[c] = Append(buf[c], event) /\ got[c] \in Seq(Nat) /\ buf[c] \in Seq(Nat)
          BY <1>0, <2>1, <4>4
        <5>2. got[c] \o buf[c] = SubSeq(handled, since[c] + 1, Len(handled) - 1)
          BY <4>1, <4>2, <4>4, <5>1 DEF KeptUp, Queued
        <5>3. got[c] \o Append(buf[c], event) = Append(got[c] \o buf[c], event)
          BY <1>0, <5>1, OneMoreQueued, SMTT(30)
        <5>4. Append(SubSeq(handled, since[c] + 1, Len(handled) - 1), event)
                = SubSeq(handled, since[c] + 1, Len(handled))
          BY <1>0, <2>3, <4>3, OneMoreOffered
        <5>5. QED
          BY <2>1, <5>1, <5>2, <5>3, <5>4 DEF Queued
      <4>5. QED
        BY <1>0, <2>1, <3>2, <4>1, <4>3, <4>4 DEF KeptUp
    <3>3. QED
      BY <3>1, <3>2
  <2>6. QED
    BY <1>1, <2>1, <2>3, <2>4, <2>5 DEF LossInv
<1>12. CASE Broadcast
  BY <1>5, <1>12 DEF Broadcast, history
<1>13. CASE UNCHANGED vars
  BY <1>5, <1>13 DEF vars
<1>14. QED
  BY <1>3, <1>4, <1>6, <1>7, <1>8, <1>9, <1>10, <1>11, <1>12, <1>13 DEF Next, Reader, Writer, Loop

\* A tab that is never too slow for its channel loses nothing.
THEOREM OnlySlowClientsEverLose == Spec => []OnlySlowClientsLose
<1>1. Init => LossInv
  BY DEF Init, LossInv, Untouched
<1>2. LossInv => OnlySlowClientsLose
  BY DEF LossInv, KeptUp, Offered, OnlySlowClientsLose
<1>3. Init => NoPanicInv
  BY DEF Init, NoPanicInv, RegOnce, RegFresh, Unsent
<1>4. QED
  BY <1>1, <1>2, <1>3, TypeCorrect, NoPanicStep, LossStep, PTL DEF Spec
=============================================================================
