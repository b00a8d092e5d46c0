---------------------------- MODULE StreamProofs ----------------------------
(***************************************************************************)
(* Proofs about the streams between a process and a browser: the terminal  *)
(* (TerminalSession), a command (CommandStream), a followed log            *)
(* (LogFollow), the log of a container (ContainerLog) and an answer of the *)
(* assistant (ChatStream).                                                 *)
(*                                                                         *)
(* In a terminal and in a command, elements go from hand to hand: through  *)
(* pipes, a goroutine that holds one of them, a channel.  The invariants   *)
(* put these places together to one sequence that no handing over changes, *)
(* and say of it what the properties say of its last part.  A terminal and *)
(* an answer implement Delivery.                                           *)
(***************************************************************************)
EXTENDS MCStreams, DataLemmas, TLAPS

-----------------------------------------------------------------------------
(* Sequences that are passed on, element by element.                       *)

LEMMA Joined ==
  ASSUME NEW S, NEW s \in Seq(S), NEW x \in S
  PROVE  /\ s \o <<>> = s /\ <<>> \o s = s
         /\ <<x>> \in Seq(S) /\ <<>> \in Seq(S) /\ s \o <<x>> = Append(s, x) /\ Append(s, x) \in Seq(S)
         /\ s # <<>> => /\ Head(s) \in S /\ Tail(s) \in Seq(S)
                        /\ <<Head(s)>> \in Seq(S) /\ s = <<Head(s)>> \o Tail(s)
<1>1. s \o <<>> = s /\ <<>> \o s = s
  BY ConcatEmptySeq
<1>2. <<x>> \in Seq(S) /\ <<>> \in Seq(S) /\ Append(s, x) \in Seq(S)
  OBVIOUS
<1>3. s \o <<x>> = Append(s, x)
  BY AppendIsConcat
<1>4. ASSUME s # <<>>
      PROVE  Head(s) \in S /\ Tail(s) \in Seq(S) /\ <<Head(s)>> \in Seq(S) /\ s = <<Head(s)>> \o Tail(s)
  <2> DEFINE h == Head(s)
             t == Tail(s)
             u == <<h>> \o t
  <2>1. h \in S /\ t \in Seq(S) /\ Len(t) = Len(s) - 1 /\ \A i \in 1..Len(t) : t[i] = s[i + 1]
    BY <1>4, HeadTailProperties
  <2>2. h = s[1] /\ Len(s) \in Nat \ {0}
    BY <1>4
  <2> HIDE DEF h, t
  <2>3. <<h>> \in Seq(S) /\ Len(<<h>>) = 1 /\ <<h>>[1] = h
    BY <2>1
  <2>4. /\ u \in Seq(S) /\ Len(u) = 1 + Len(t)
        /\ \A i \in 1..(1 + Len(t)) : u[i] = IF i <= 1 THEN <<h>>[i] ELSE t[i - 1]
    BY <2>1, <2>3, ConcatProperties
  <2> HIDE DEF u
  <2>5. Len(u) = Len(s)
    BY <2>1, <2>2, <2>4
  <2>6. ASSUME NEW i \in 1..Len(s)
        PROVE  s[i] = u[i]
    <3>1. CASE i = 1
      BY <2>2, <2>3, <2>4, <2>5, <3>1
    <3>2. CASE i # 1
      <4>1. i - 1 \in 1..Len(t) /\ (i - 1) + 1 = i /\ ~(i <= 1) /\ i \in 1..(1 + Len(t))
        BY <2>1, <2>2, <3>2
      <4>2. QED
        BY <2>1, <2>4, <4>1
    <3>3. QED
      BY <3>1, <3>2
  <2>7. s = u
    BY <2>4, <2>5, <2>6, SeqEqual
  <2>8. QED
    BY <2>1, <2>3, <2>7 DEF h, t, u
<1>5. QED
  BY <1>1, <1>2, <1>3, <1>4

\* What has been passed on, with what is on its way.
LEMMA PassedOn ==
  ASSUME NEW S, NEW s \in Seq(S), NEW t \in Seq(S), NEW x \in S
  PROVE  /\ s \o t \in Seq(S)
         /\ Append(s, x) \o t = (s \o <<x>>) \o t
         /\ s \o Append(t, x) = Append(s \o t, x)
<1>1. s \o t \in Seq(S) /\ Append(s, x) = s \o <<x>> /\ <<x>> \in Seq(S)
  BY Joined, ConcatProperties
<1>2. s \o Append(t, x) = Append(s \o t, x)
  <2>1. Append(t, x) = t \o <<x>> /\ Append(s \o t, x) = (s \o t) \o <<x>>
    BY <1>1, Joined
  <2>2. (s \o t) \o <<x>> = s \o (t \o <<x>>)
    BY <1>1, ConcatAssociative
  <2>3. QED
    BY <2>1, <2>2
<1>3. QED
  BY <1>1, <1>2

LEMMA HeadPassedOn ==
  ASSUME NEW S, NEW s \in Seq(S), NEW t \in Seq(S), t # <<>>
  PROVE  /\ Head(t) \in S /\ Tail(t) \in Seq(S) /\ Len(t) \in Nat \ {0} /\ Len(Tail(t)) = Len(t) - 1
         /\ s \o <<Head(t)>> \in Seq(S)
         /\ Append(s, Head(t)) \o Tail(t) = s \o t
         /\ (s \o <<Head(t)>>) \o Tail(t) = s \o t
<1> DEFINE h == Head(t)
           u == Tail(t)
<1>1. h \in S /\ u \in Seq(S) /\ <<h>> \in Seq(S) /\ t = <<h>> \o u
  BY Joined, HeadTailProperties
<1>2. Len(t) \in Nat \ {0} /\ Len(u) = Len(t) - 1
  BY HeadTailProperties
<1> HIDE DEF h, u
<1>3. (s \o <<h>>) \o u = s \o t
  <2>1. (s \o <<h>>) \o u = s \o (<<h>> \o u)
    BY <1>1, ConcatAssociative
  <2>2. QED
    BY <1>1, <2>1
<1>4. Append(s, h) = s \o <<h>> /\ Append(s, h) \in Seq(S)
  BY <1>1, Joined
<1>5. QED
  BY <1>1, <1>2, <1>3, <1>4 DEF h, u

LEMMA HeadInHand ==
  ASSUME NEW S, NEW s \in Seq(S), NEW t \in Seq(S), t # <<>>,
         NEW hand, hand = <<Head(t)>>, NEW u, u = Tail(t)
  PROVE  (s \o hand) \o u = s \o t
BY HeadPassedOn

LEMMA Regrouped ==
  ASSUME NEW S, NEW s \in Seq(S), NEW t \in Seq(S), NEW u \in Seq(S), NEW v, v = t \o u
  PROVE  s \o v = (s \o t) \o u
BY ConcatAssociative, SMTT(30)

\* Bounds that only grow.
LEMMA NumbersGrow ==
  ASSUME NEW n \in Nat
  PROVE  /\ Numbers(n) \in Seq(Nat) /\ Numbers(n + 1) = Append(Numbers(n), n + 1)
         /\ Numbers(0) = <<>> /\ n + 1 \in 1..(n + 1) /\ n + 1 \in 0..(n + 1)
         /\ \A s \in Seq(1..n) : s \in Seq(1..(n + 1)) /\ s \in Seq(0..n) /\ s \in Seq(Nat)
         /\ \A s \in Seq(0..n) : s \in Seq(0..(n + 1)) /\ s \in Seq(Nat)
<1>1. 1..n \subseteq 1..(n + 1) /\ 1..n \subseteq 0..n /\ 1..n \subseteq Nat
      /\ 0..n \subseteq 0..(n + 1) /\ 0..n \subseteq Nat
  OBVIOUS
<1>2. \A s \in Seq(1..n) : s \in Seq(1..(n + 1)) /\ s \in Seq(0..n) /\ s \in Seq(Nat)
  BY <1>1, SeqMonotonic
<1>3. \A s \in Seq(0..n) : s \in Seq(0..(n + 1)) /\ s \in Seq(Nat)
  BY <1>1, SeqMonotonic
<1>4. n + 1 \in 1..(n + 1) /\ n + 1 \in 0..(n + 1)
  OBVIOUS
<1>5. Numbers(0) = <<>>
  BY DEF Numbers
<1>6. Numbers(n) \in Seq(Nat) /\ Numbers(n + 1) = Append(Numbers(n), n + 1)
  BY DEF Numbers
<1>7. QED
  BY <1>2, <1>3, <1>4, <1>5, <1>6

-----------------------------------------------------------------------------
(* The terminal.                                                           *)

\* One chunk at most is in hand.
InHand(hand, busy, n) ==
  /\ hand \in Seq(1..n)
  /\ IF busy THEN \E x \in 1..n : hand = <<x>> ELSE hand = <<>>

TermShape ==
  /\ tab \in {"here", "gone"} /\ sock \in {"open", "closed"}
  /\ typed \in 0..MaxTyped /\ printed \in 0..MaxPrinted
  /\ wsIn \in Seq(1..typed) /\ received \in Seq(1..typed) /\ shown \in Seq(0..printed)
  /\ ttyIn \in Seq(1..typed) /\ Len(ttyIn) <= TtyCap
  /\ ttyOut \in Seq(1..printed) /\ Len(ttyOut) <= TtyCap
  /\ shell \in {"none", "running", "exited", "reaped"}
  /\ pump \in {"none", "reading", "sending", "done"}
  /\ loop \in {"starting", "reading", "writing", "closing", "killing", "waiting", "done"}
  /\ InHand(pumpHand, pump = "sending", printed)
  /\ InHand(loopHand, loop = "writing", typed)

Ended == pump = "done" \/ (pump = "none" /\ loop = "done")

\* Nobody but the pump takes a terminal down whose tab is there, and it does so when the
\* shell has gone.
TakenDown ==
  /\ loop = "starting" => pump = "none"
  /\ pump = "none" => shell = "none" /\ loop \in {"starting", "done"} /\ ttyOut = <<>>
  /\ tab = "here" =>
       /\ sock = "closed" <=> Ended
       /\ Ended => shell # "running"
       /\ loop \in {"closing", "killing", "waiting", "done"} => Ended

ShownAll ==
  tab = "here" =>
    (shown \o pumpHand) \o ttyOut = Numbers(printed) \o (IF Ended THEN <<Farewell>> ELSE <<>>)

ReadAll ==
  loop = "starting" \/ (shell = "running" /\ loop \in {"reading", "writing"}) =>
    ((received \o ttyIn) \o loopHand) \o wsIn = Numbers(typed)

TermInv == TermShape /\ TakenDown /\ ShownAll /\ ReadAll

LEMMA TermInitial == TermInit => TermInv
<1> SUFFICES ASSUME TermInit
             PROVE  TermInv
  OBVIOUS
<1>1. TermShape
  BY TermAssumption DEF TermInit, TermShape, InHand
<1>2. TakenDown
  BY DEF TermInit, TakenDown, Ended
<1>3. Numbers(0) = <<>> /\ (<<>> \o <<>>) \o <<>> = <<>> /\ <<>> \o <<>> = <<>>
  BY NumbersGrow
<1>4. ShownAll
  BY <1>3 DEF TermInit, ShownAll, Ended
<1>5. ReadAll
  BY <1>3 DEF TermInit, ReadAll
<1>6. QED
  BY <1>1, <1>2, <1>4, <1>5 DEF TermInv

LEMMA TermTypes ==
  ASSUME TermShape
  PROVE  /\ typed \in Nat /\ printed \in Nat
         /\ shown \in Seq(Nat) /\ pumpHand \in Seq(Nat) /\ ttyOut \in Seq(Nat)
         /\ received \in Seq(Nat) /\ ttyIn \in Seq(Nat) /\ loopHand \in Seq(Nat) /\ wsIn \in Seq(Nat)
<1>1. typed \in Nat /\ printed \in Nat
  BY TermAssumption DEF TermShape
<1>2. QED
  BY <1>1, NumbersGrow DEF TermShape, InHand

\* Steps that leave what is typed, and steps that leave what is printed.
LEMMA TypedLeft ==
  ASSUME ReadAll, UNCHANGED <<typed, received, ttyIn, loopHand, wsIn>>,
         loop' = "starting" => loop = "starting",
         shell' = "running" /\ loop' \in {"reading", "writing"} =>
           loop = "starting" \/ (shell = "running" /\ loop \in {"reading", "writing"})
  PROVE  ReadAll'
BY DEF ReadAll

LEMMA PrintedLeft ==
  ASSUME ShownAll, UNCHANGED <<printed, shown, pumpHand, ttyOut>>,
         tab' = "here" => tab = "here" /\ (Ended' <=> Ended)
  PROVE  ShownAll'
<1>1. CASE tab' = "here" /\ Ended
  BY <1>1 DEF ShownAll, Farewell
<1>2. CASE tab' = "here" /\ ~Ended
  BY <1>2 DEF ShownAll, Farewell
<1>3. QED
  BY <1>1, <1>2 DEF ShownAll

LEMMA ShellPrintsStep ==
  ASSUME TermInv, ShellPrints
  PROVE  TermInv'
<1> USE DEF TermInv
<1>1. /\ shell = "running" /\ printed < MaxPrinted /\ Len(ttyOut) < TtyCap
      /\ printed' = printed + 1 /\ ttyOut' = Append(ttyOut, printed + 1)
      /\ UNCHANGED <<tab, typed, sock, wsIn, shell, ttyIn, received, pump, pumpHand, loop, loopHand, shown>>
  BY DEF ShellPrints, tabVars, pumpVars, loopVars
<1>2. /\ typed \in Nat /\ printed \in Nat
      /\ shown \in Seq(Nat) /\ pumpHand \in Seq(Nat) /\ ttyOut \in Seq(Nat)
  BY TermTypes
<1>3. TermShape'
  <2>1. shown \in Seq(0..printed') /\ pumpHand \in Seq(1..printed') /\ ttyOut \in Seq(1..printed')
    BY <1>1, <1>2, NumbersGrow DEF TermShape, InHand
  <2>2. printed' \in 1..printed' /\ printed' \in 0..MaxPrinted
    BY <1>1, <1>2, TermAssumption
  <2>3. ttyOut' \in Seq(1..printed') /\ Len(ttyOut') = Len(ttyOut) + 1
    BY <1>1, <2>1, <2>2
  <2>4. Len(ttyOut') <= TtyCap
    BY <1>1, <1>2, <2>3, TermAssumption
  <2>5. InHand(pumpHand, pump = "sending", printed')
    <3>1. \A x \in 1..printed : x \in 1..printed'
      BY <1>1, <1>2
    <3>2. QED
      BY <2>1, <3>1 DEF TermShape, InHand
  <2>6. QED
    BY <1>1, <2>1, <2>2, <2>3, <2>4, <2>5 DEF TermShape
<1>4. TakenDown'
  BY <1>1 DEF TakenDown, Ended
<1>5. ReadAll'
  BY <1>1, TypedLeft
<1>6. ShownAll'
  <2> SUFFICES ASSUME tab = "here"
               PROVE  (shown \o pumpHand) \o ttyOut' = Numbers(printed') \o <<>> /\ ~Ended'
    BY <1>1 DEF ShownAll
  <2>1. ~Ended /\ ~Ended'
    BY <1>1 DEF TakenDown, Ended
  <2>2. (shown \o pumpHand) \o ttyOut = Numbers(printed)
    <3>1. (shown \o pumpHand) \o ttyOut = Numbers(printed) \o <<>>
      BY <2>1 DEF ShownAll
    <3>2. QED
      BY <1>2, <3>1, Joined, NumbersGrow
  <2>3. (shown \o pumpHand) \o ttyOut' = Append((shown \o pumpHand) \o ttyOut, printed + 1)
    <3>1. shown \o pumpHand \in Seq(Nat) /\ printed + 1 \in Nat
      BY <1>2, PassedOn
    <3>2. QED
      BY <1>1, <1>2, <3>1, PassedOn, SMTT(30)
  <2>4. (shown \o pumpHand) \o ttyOut' = Numbers(printed')
    BY <1>1, <1>2, <2>2, <2>3, NumbersGrow
  <2>5. Numbers(printed') \o <<>> = Numbers(printed')
    BY <1>1, <1>2, Joined, NumbersGrow
  <2>6. QED
    BY <2>1, <2>4, <2>5
<1>7. QED
  BY <1>3, <1>4, <1>5, <1>6

LEMMA ShellReadsStep ==
  ASSUME TermInv, ShellReads
  PROVE  TermInv'
<1> USE DEF TermInv
<1>1. /\ shell = "running" /\ ttyIn # <<>>
      /\ received' = Append(received, Head(ttyIn)) /\ ttyIn' = Tail(ttyIn)
      /\ UNCHANGED <<tab, typed, sock, wsIn, shell, printed, ttyOut, pump, pumpHand, loop, loopHand, shown>>
  BY DEF ShellReads, tabVars, pumpVars, loopVars
<1>2. /\ typed \in Nat /\ received \in Seq(Nat) /\ ttyIn \in Seq(Nat)
      /\ loopHand \in Seq(Nat) /\ wsIn \in Seq(Nat)
  BY TermTypes
<1>3. TermShape'
  <2>1. /\ ttyIn \in Seq(1..typed) /\ received \in Seq(1..typed) /\ Len(ttyIn) <= TtyCap
    BY DEF TermShape
  <2>2. /\ Head(ttyIn) \in 1..typed /\ ttyIn' \in Seq(1..typed) /\ Len(ttyIn') = Len(ttyIn) - 1
        /\ Len(ttyIn) \in Nat
    BY <1>1, <2>1, HeadPassedOn
  <2>3. received' \in Seq(1..typed)
    BY <1>1, <2>1, <2>2
  <2>4. Len(ttyIn') <= TtyCap
    BY <2>1, <2>2, TermAssumption
  <2>5. QED
    BY <1>1, <2>2, <2>3, <2>4 DEF TermShape
<1>4. TakenDown'
  BY <1>1 DEF TakenDown, Ended
<1>5. ShownAll'
  BY <1>1, PrintedLeft DEF Ended
<1>6. ReadAll'
  <2>1. received' \o ttyIn' = received \o ttyIn
    BY <1>1, <1>2, HeadPassedOn, SMTT(30)
  <2>2. QED
    BY <1>1, <2>1 DEF ReadAll
<1>7. QED
  BY <1>3, <1>4, <1>5, <1>6

LEMMA TabStep ==
  ASSUME TermInv, ShellExits \/ TabLeaves
  PROVE  TermInv'
<1> USE DEF TermInv
<1>1. UNCHANGED <<typed, sock, wsIn, ttyIn, received, printed, ttyOut, pump, pumpHand, loop, loopHand, shown>>
  BY DEF ShellExits, TabLeaves, tabVars, shellVars, pumpVars, loopVars
<1>2. /\ shell' = shell \/ (shell = "running" /\ shell' = "exited")
      /\ tab' = tab \/ tab' = "gone"
  BY DEF ShellExits, TabLeaves, tabVars
<1>3. TermShape'
  BY <1>1, <1>2 DEF TermShape
<1>4. TakenDown'
  BY <1>1, <1>2 DEF TakenDown, Ended
<1>5. ShownAll'
  BY <1>1, <1>2, PrintedLeft DEF Ended
<1>6. ReadAll'
  BY <1>1, <1>2, TypedLeft
<1>7. QED
  BY <1>3, <1>4, <1>5, <1>6

LEMMA TypeStep ==
  ASSUME TermInv, Type
  PROVE  TermInv'
<1> USE DEF TermInv
<1>1. /\ tab = "here" /\ sock = "open" /\ typed < MaxTyped
      /\ typed' = typed + 1 /\ wsIn' = Append(wsIn, typed + 1)
      /\ UNCHANGED <<tab, sock, shell, ttyIn, received, printed, ttyOut, pump, pumpHand, loop, loopHand, shown>>
  BY DEF Type, shellVars, pumpVars, loopVars
<1>2. /\ typed \in Nat /\ received \in Seq(Nat) /\ ttyIn \in Seq(Nat)
      /\ loopHand \in Seq(Nat) /\ wsIn \in Seq(Nat)
  BY TermTypes
<1>3. TermShape'
  <2>1. wsIn \in Seq(1..typed') /\ received \in Seq(1..typed') /\ ttyIn \in Seq(1..typed') /\ loopHand \in Seq(1..typed')
    BY <1>1, <1>2, NumbersGrow DEF TermShape, InHand
  <2>2. typed' \in 1..typed' /\ typed' \in 0..MaxTyped
    BY <1>1, <1>2, TermAssumption
  <2>3. wsIn' \in Seq(1..typed')
    BY <1>1, <2>1, <2>2
  <2>4. InHand(loopHand, loop = "writing", typed')
    <3>1. \A x \in 1..typed : x \in 1..typed'
      BY <1>1, <1>2
    <3>2. QED
      BY <2>1, <3>1 DEF TermShape, InHand
  <2>5. QED
    BY <1>1, <2>1, <2>2, <2>3, <2>4 DEF TermShape
<1>4. TakenDown'
  BY <1>1 DEF TakenDown, Ended
<1>5. ShownAll'
  BY <1>1, PrintedLeft DEF Ended
<1>6. ReadAll'
  <2> DEFINE front == (received \o ttyIn) \o loopHand
  <2>1. front \in Seq(Nat) /\ typed + 1 \in Nat
    <3>1. received \o ttyIn \in Seq(Nat)
      BY <1>2, PassedOn
    <3>2. QED
      BY <1>2, <3>1, PassedOn
  <2> HIDE DEF front
  <2>2. front \o Append(wsIn, typed + 1) = Append(front \o wsIn, typed + 1)
    BY <1>2, <2>1, PassedOn, SMTT(30)
  <2>3. Numbers(typed') = Append(Numbers(typed), typed + 1)
    BY <1>1, <1>2, NumbersGrow
  <2>4. QED
    BY <1>1, <2>2, <2>3 DEF ReadAll, front
<1>7. QED
  BY <1>3, <1>4, <1>5, <1>6

LEMMA PumpReadsStep ==
  ASSUME TermInv, PumpReads
  PROVE  TermInv'
<1> USE DEF TermInv
<1>1. /\ pump = "reading" /\ pump' = "sending" /\ ttyOut # <<>>
      /\ pumpHand' = <<Head(ttyOut)>> /\ ttyOut' = Tail(ttyOut)
      /\ UNCHANGED <<tab, typed, sock, wsIn, shell, ttyIn, received, printed, loop, loopHand, shown>>
  BY DEF PumpReads, tabVars, shellVars, loopVars
<1>2. printed \in Nat /\ shown \in Seq(Nat) /\ ttyOut \in Seq(Nat)
  BY TermTypes
<1>3. pumpHand = <<>>
  BY <1>1 DEF TermShape, InHand
<1>4. TermShape'
  <2>1. ttyOut \in Seq(1..printed) /\ Len(ttyOut) <= TtyCap
    BY DEF TermShape
  <2>2. Head(ttyOut) \in 1..printed /\ ttyOut' \in Seq(1..printed) /\ Len(ttyOut') = Len(ttyOut) - 1 /\ Len(ttyOut) \in Nat
    BY <1>1, <2>1, HeadPassedOn
  <2>3. Len(ttyOut') <= TtyCap
    BY <2>1, <2>2, TermAssumption
  <2>4. InHand(pumpHand', TRUE, printed)
    BY <1>1, <2>2 DEF InHand
  <2>5. QED
    BY <1>1, <2>2, <2>3, <2>4 DEF TermShape, InHand
<1>5. TakenDown'
  BY <1>1 DEF TakenDown, Ended
<1>6. ReadAll'
  BY <1>1, TypedLeft
<1>7. ShownAll'
  <2>1. ~Ended /\ ~Ended'
    BY <1>1 DEF Ended
  <2>2. (shown \o pumpHand') \o ttyOut' = shown \o ttyOut
    <3>1. ttyOut # <<>> /\ pumpHand' = <<Head(ttyOut)>> /\ ttyOut' = Tail(ttyOut)
      BY <1>1
    <3> HIDE DEF TermInv
    <3>2. QED
      BY <1>2, <3>1, HeadInHand, SMTT(30)
  <2>3. shown \o <<>> = shown
    BY <1>2, Joined
  <2>4. (shown \o pumpHand') \o ttyOut' = (shown \o pumpHand) \o ttyOut
    BY <1>3, <2>2, <2>3
  <2>5. QED
    BY <1>1, <2>1, <2>4 DEF ShownAll
<1>8. QED
  BY <1>4, <1>5, <1>6, <1>7

LEMMA PumpSendsStep ==
  ASSUME TermInv, PumpSends
  PROVE  TermInv'
<1> USE DEF TermInv
<1>1. /\ pump = "sending" /\ pumpHand' = <<>>
      /\ \/ sock = "open" /\ pump' = "reading"
         \/ (sock = "closed" \/ tab = "gone") /\ pump' = "done"
      /\ shown' = IF tab = "here" /\ sock = "open" THEN Append(shown, pumpHand[1]) ELSE shown
      /\ UNCHANGED <<tab, typed, sock, wsIn, shell, ttyIn, received, printed, ttyOut, loop, loopHand>>
  BY DEF PumpSends, ShowTo, tabVars, shellVars, loopVars
<1>2. printed \in Nat /\ shown \in Seq(Nat) /\ ttyOut \in Seq(Nat)
  BY TermTypes
<1>3. PICK x \in 1..printed : pumpHand = <<x>>
  BY <1>1 DEF TermShape, InHand
<1>4. TermShape'
  <2>1. x \in 0..printed /\ pumpHand[1] = x /\ shown \in Seq(0..printed)
    BY <1>2, <1>3 DEF TermShape
  <2>2. shown' \in Seq(0..printed)
    BY <1>1, <2>1, Joined
  <2>3. InHand(pumpHand', FALSE, printed)
    BY <1>1 DEF InHand
  <2>4. pump' # "sending" /\ pump' \in {"reading", "done"}
    BY <1>1
  <2>5. QED
    BY <1>1, <2>2, <2>3, <2>4 DEF TermShape, InHand
<1>5. tab = "here" => sock = "open"
  BY <1>1 DEF TakenDown, Ended, TermShape
<1>6. TakenDown'
  BY <1>1, <1>5 DEF TakenDown, Ended
<1>7. ReadAll'
  BY <1>1, TypedLeft
<1>8. ShownAll'
  <2> SUFFICES ASSUME tab = "here"
               PROVE  (shown' \o pumpHand') \o ttyOut = Numbers(printed) \o <<>> /\ ~Ended'
    BY <1>1 DEF ShownAll
  <2>1. ~Ended /\ ~Ended' /\ shown' = Append(shown, x)
    BY <1>1, <1>3, <1>5 DEF Ended
  <2>2. x \in Nat
    BY <1>2
  <2>3. Append(shown, x) \o <<>> = Append(shown, x) /\ Append(shown, x) = shown \o <<x>>
    BY <1>2, <2>2, Joined
  <2>4. (shown' \o pumpHand') \o ttyOut = (shown \o pumpHand) \o ttyOut
    BY <1>1, <1>3, <2>1, <2>3
  <2>5. QED
    BY <2>1, <2>4 DEF ShownAll
<1>9. QED
  BY <1>4, <1>6, <1>7, <1>8

LEMMA PumpSeesEndStep ==
  ASSUME TermInv, PumpSeesEnd
  PROVE  TermInv'
<1> USE DEF TermInv
<1>1. /\ pump = "reading" /\ pump' = "done" /\ sock' = "closed"
      /\ (ttyOut = <<>> /\ shell # "running") \/ PtmxClosed
      /\ shown' = IF tab = "here" /\ sock = "open" THEN Append(shown, Farewell) ELSE shown
      /\ UNCHANGED <<tab, typed, wsIn, shell, ttyIn, received, printed, ttyOut, pumpHand, loop, loopHand>>
  BY DEF PumpSeesEnd, ShowTo, tabVars, shellVars, loopVars
<1>2. printed \in Nat /\ shown \in Seq(Nat) /\ pumpHand = <<>>
  BY <1>1, TermTypes DEF TermShape, InHand
<1>3. tab = "here" => sock = "open" /\ ttyOut = <<>> /\ shell # "running"
  BY <1>1 DEF TakenDown, Ended, TermShape, PtmxClosed
<1>4. TermShape'
  <2>1. Farewell \in 0..printed /\ shown \in Seq(0..printed)
    BY <1>2 DEF TermShape, Farewell
  <2>2. shown' \in Seq(0..printed)
    BY <1>1, <2>1, Joined
  <2>3. QED
    BY <1>1, <2>2 DEF TermShape
<1>5. TakenDown'
  BY <1>1, <1>3 DEF TakenDown, Ended
<1>6. ReadAll'
  BY <1>1, TypedLeft
<1>7. ShownAll'
  <2> SUFFICES ASSUME tab = "here"
               PROVE  (shown' \o pumpHand) \o ttyOut = Numbers(printed) \o <<Farewell>>
    BY <1>1 DEF ShownAll, Ended
  <2>1. ~Ended /\ shown' = Append(shown, Farewell) /\ ttyOut = <<>>
    BY <1>1, <1>3 DEF Ended
  <2>2. shown \o <<>> = shown /\ Farewell \in Nat /\ Numbers(printed) \in Seq(Nat)
    BY <1>2, Joined, NumbersGrow DEF Farewell
  <2>3. /\ Append(shown, Farewell) \in Seq(Nat)
        /\ Numbers(printed) \o <<Farewell>> = Append(Numbers(printed), Farewell)
        /\ Numbers(printed) \o <<>> = Numbers(printed)
    BY <1>2, <2>2, Joined
  <2>4. Append(shown, Farewell) \o <<>> = Append(shown, Farewell)
    BY <2>2, <2>3, Joined
  <2>5. shown = Numbers(printed)
    BY <1>2, <2>1, <2>2, <2>3 DEF ShownAll
  <2>6. QED
    BY <1>2, <2>1, <2>3, <2>4, <2>5
<1>8. QED
  BY <1>4, <1>5, <1>6, <1>7

LEMMA StartShellStep ==
  ASSUME TermInv, StartShell
  PROVE  TermInv'
<1> USE DEF TermInv
<1>1. /\ loop = "starting"
      /\ UNCHANGED <<tab, typed, wsIn, ttyIn, received, printed, ttyOut, pumpHand, loopHand>>
      /\ \/ /\ shell' = "running" /\ pump' = "reading" /\ loop' = "reading"
            /\ UNCHANGED <<sock, shown>>
         \/ /\ shown' = (IF tab = "here" /\ sock = "open" THEN Append(shown, Farewell) ELSE shown)
            /\ sock' = "closed" /\ loop' = "done"
            /\ UNCHANGED <<shell, pump>>
  BY DEF StartShell, ShowTo, tabVars, shellVars
<1>2. pump = "none" /\ shell = "none" /\ ttyOut = <<>>
  BY <1>1 DEF TakenDown
<1>3. printed \in Nat /\ shown \in Seq(Nat) /\ pumpHand = <<>>
  BY <1>2, TermTypes DEF TermShape, InHand
<1>4. tab = "here" => sock = "open"
  BY <1>1, <1>2 DEF TakenDown, Ended, TermShape
<1>5. TermShape'
  <2>1. Farewell \in 0..printed /\ shown \in Seq(0..printed)
    BY <1>3 DEF TermShape, Farewell
  <2>2. shown' \in Seq(0..printed)
    BY <1>1, <2>1, Joined, ZenonT(60)
  <2>3. QED
    BY <1>1, <1>2, <2>2 DEF TermShape
<1>6. TakenDown'
  BY <1>1, <1>2, <1>4 DEF TakenDown, Ended
<1>7. ReadAll'
  BY <1>1, <1>2, TypedLeft
<1>8. ShownAll'
  <2>1. CASE pump' = "reading"
    BY <1>1, <1>2, <2>1, PrintedLeft DEF Ended
  <2>2. CASE loop' = "done" /\ tab = "here"
    <3>1. shown' = Append(shown, Farewell) /\ Ended' /\ ~Ended
      BY <1>1, <1>2, <1>4, <2>2 DEF Ended
    <3>2. shown \o <<>> = shown /\ Farewell \in Nat /\ Numbers(printed) \in Seq(Nat)
      BY <1>3, Joined, NumbersGrow DEF Farewell
    <3>3. /\ Append(shown, Farewell) \in Seq(Nat) /\ <<Farewell>> \in Seq(Nat)
          /\ Append(shown, Farewell) = shown \o <<Farewell>>
          /\ Numbers(printed) \o <<>> = Numbers(printed)
      BY <1>3, <3>2, Joined
    <3>4. Append(shown, Farewell) \o <<>> = Append(shown, Farewell)
      BY <3>2, <3>3, Joined
    <3>5. shown = Numbers(printed)
      BY <1>2, <1>3, <2>2, <3>1, <3>2, <3>3 DEF ShownAll
    <3>6. (shown' \o pumpHand') \o ttyOut' = Numbers(printed) \o <<Farewell>>
      BY <1>1, <1>2, <1>3, <3>1, <3>3, <3>4, <3>5
    <3>7. QED
      BY <1>1, <3>1, <3>6 DEF ShownAll
  <2>3. QED
    BY <1>1, <2>1, <2>2 DEF ShownAll
<1>9. QED
  BY <1>5, <1>6, <1>7, <1>8

LEMMA ReadMessageStep ==
  ASSUME TermInv, ReadMessage
  PROVE  TermInv'
<1> USE DEF TermInv
<1>1. /\ loop = "reading" /\ loop' = "writing" /\ wsIn # <<>>
      /\ loopHand' = <<Head(wsIn)>> /\ wsIn' = Tail(wsIn)
      /\ UNCHANGED <<tab, typed, sock, shell, ttyIn, received, printed, ttyOut, pump, pumpHand, shown>>
  BY DEF ReadMessage, tabVars, shellVars, pumpVars
<1>2. typed \in Nat /\ received \in Seq(Nat) /\ ttyIn \in Seq(Nat) /\ wsIn \in Seq(Nat)
  BY TermTypes
<1>3. loopHand = <<>>
  BY <1>1 DEF TermShape, InHand
<1>4. TermShape'
  <2>1. wsIn \in Seq(1..typed)
    BY DEF TermShape
  <2>2. Head(wsIn) \in 1..typed /\ wsIn' \in Seq(1..typed)
    BY <1>1, <2>1, HeadPassedOn
  <2>3. InHand(loopHand', TRUE, typed)
    BY <1>1, <2>2 DEF InHand
  <2>4. QED
    BY <1>1, <2>2, <2>3 DEF TermShape, InHand
<1>5. TakenDown'
  BY <1>1 DEF TakenDown, Ended
<1>6. ShownAll'
  BY <1>1, PrintedLeft DEF Ended
<1>7. ReadAll'
  <2> DEFINE front == received \o ttyIn
  <2>1. front \in Seq(Nat)
    BY <1>2, PassedOn
  <2>2. wsIn # <<>> /\ loopHand' = <<Head(wsIn)>> /\ wsIn' = Tail(wsIn)
    BY <1>1
  <2> HIDE DEF front, TermInv
  <2>3. (front \o loopHand') \o wsIn' = front \o wsIn
    <3>1. wsIn \in Seq(Nat)
      BY <1>2
    <3>2. QED
      BY <2>1, <2>2, <3>1, HeadInHand
  <2>4. front \o <<>> = front
    BY <2>1, Joined
  <2>5. ReadAll /\ ReadAll' = (loop' = "starting" \/ (shell' = "running" /\ loop' \in {"reading", "writing"}) =>
                                (front' \o loopHand') \o wsIn' = Numbers(typed'))
    BY DEF TermInv, ReadAll, front
  <2>6. front' = front
    BY <1>1 DEF front
  <2>7. QED
    BY <1>1, <1>3, <2>3, <2>4, <2>5, <2>6 DEF ReadAll, front
<1>8. QED
  BY <1>4, <1>5, <1>6, <1>7

LEMMA Written ==
  ASSUME received \in Seq(Nat), ttyIn \in Seq(Nat), loopHand \in Seq(Nat), ttyIn' = ttyIn \o loopHand
  PROVE  received \o ttyIn' = (received \o ttyIn) \o loopHand
BY Regrouped

LEMMA WriteTypedStep ==
  ASSUME TermInv, WriteTyped
  PROVE  TermInv'
<1> USE DEF TermInv
<1>1. /\ loop = "writing" /\ loop' = "reading" /\ loopHand' = <<>>
      /\ \/ shell = "running" /\ Len(ttyIn) < TtyCap /\ ttyIn' = ttyIn \o loopHand
         \/ shell # "running" /\ UNCHANGED ttyIn
      /\ UNCHANGED <<tab, typed, sock, wsIn, shell, received, printed, ttyOut, pump, pumpHand, shown>>
  BY DEF WriteTyped, tabVars, shellVars, pumpVars
<1>2. /\ typed \in Nat /\ received \in Seq(Nat) /\ ttyIn \in Seq(Nat) /\ wsIn \in Seq(Nat)
      /\ loopHand \in Seq(Nat)
  BY TermTypes
<1>3. PICK x \in 1..typed : loopHand = <<x>>
  BY <1>1 DEF TermShape, InHand
<1>4. TermShape'
  <2>1. ttyIn \in Seq(1..typed) /\ Len(ttyIn) <= TtyCap
    BY DEF TermShape
  <2>2. ttyIn \o loopHand = Append(ttyIn, x)
    BY <1>3, <2>1, Joined
  <2>3. ttyIn' \in Seq(1..typed) /\ Len(ttyIn') <= TtyCap
    <3>1. CASE ttyIn' = ttyIn
      BY <2>1, <3>1
    <3>2. CASE Len(ttyIn) < TtyCap /\ ttyIn' = Append(ttyIn, x)
      <4>1. ttyIn' \in Seq(1..typed) /\ Len(ttyIn') = Len(ttyIn) + 1 /\ Len(ttyIn) \in Nat
        BY <2>1, <3>2
      <4>2. QED
        BY <3>2, <4>1, TermAssumption
    <3>3. QED
      BY <1>1, <2>2, <3>1, <3>2
  <2>4. InHand(loopHand', FALSE, typed)
    BY <1>1 DEF InHand
  <2>5. QED
    BY <1>1, <2>3, <2>4 DEF TermShape, InHand
<1>5. TakenDown'
  BY <1>1 DEF TakenDown, Ended
<1>6. ShownAll'
  BY <1>1, PrintedLeft DEF Ended
<1>7. ReadAll'
  <2> SUFFICES ASSUME shell = "running"
               PROVE  ((received \o ttyIn') \o loopHand') \o wsIn = Numbers(typed)
    BY <1>1 DEF ReadAll
  <2>1. received \o ttyIn' = (received \o ttyIn) \o loopHand
    <3>1. received \in Seq(Nat) /\ ttyIn \in Seq(Nat) /\ loopHand \in Seq(Nat) /\ ttyIn' = ttyIn \o loopHand
      BY <1>1, <1>2
    <3>2. QED
      BY <3>1, Written
  <2>2. (received \o ttyIn) \o loopHand \in Seq(Nat)
    <3>1. received \o ttyIn \in Seq(Nat)
      BY <1>2, ConcatProperties
    <3>2. QED
      BY <1>2, <3>1, ConcatProperties
  <2>3. ((received \o ttyIn) \o loopHand) \o <<>> = (received \o ttyIn) \o loopHand
    BY <2>2, Joined
  <2>4. QED
    BY <1>1, <2>1, <2>3 DEF ReadAll
<1>8. QED
  BY <1>4, <1>5, <1>6, <1>7

LEMMA LoopLeavesStep ==
  ASSUME TermInv, ReadFails \/ ClosePtmx \/ KillShell \/ WaitShell
  PROVE  TermInv'
<1> USE DEF TermInv
<1>1. /\ UNCHANGED <<tab, typed, wsIn, ttyIn, received, printed, ttyOut, pump, pumpHand, loopHand, shown>>
      /\ loop \in {"reading", "closing", "killing", "waiting"}
      /\ loop' \in {"closing", "killing", "waiting", "done"}
  BY DEF ReadFails, ClosePtmx, KillShell, WaitShell, tabVars, shellVars, pumpVars
<1>2. /\ sock' = sock \/ (loop = "waiting" /\ sock' = "closed")
      /\ shell' = shell \/ shell' \in {"exited", "reaped"}
      /\ loop = "reading" => tab = "gone" \/ sock = "closed"
  BY DEF ReadFails, ClosePtmx, KillShell, WaitShell, tabVars, shellVars, pumpVars
<1>3. TermShape'
  <2>1. loop # "writing" /\ loop' # "writing"
    BY <1>1
  <2>2. QED
    BY <1>1, <1>2, <2>1 DEF TermShape, InHand
<1>4. pump # "none"
  BY <1>1 DEF TakenDown
<1>5. TakenDown'
  BY <1>1, <1>2, <1>4 DEF TakenDown, Ended
<1>6. ShownAll'
  BY <1>1, <1>4, PrintedLeft DEF Ended
<1>7. ReadAll'
  BY <1>1 DEF ReadAll
<1>8. QED
  BY <1>3, <1>5, <1>6, <1>7

LEMMA TermStep == TermInv /\ [TermNext]_termVars => TermInv'
<1> SUFFICES ASSUME TermInv, [TermNext]_termVars
             PROVE  TermInv'
  OBVIOUS
<1>1. CASE UNCHANGED termVars
  <2>1. UNCHANGED <<tab, typed, sock, wsIn, shell, ttyIn, received, printed, ttyOut, pump, pumpHand,
                    loop, loopHand, shown>>
    BY <1>1 DEF termVars, tabVars, shellVars, pumpVars, loopVars
  <2>2. TermShape' /\ TakenDown'
    BY <2>1 DEF TermInv, TermShape, TakenDown, Ended
  <2>3. ShownAll' /\ ReadAll'
    BY <2>1, PrintedLeft, TypedLeft DEF TermInv, Ended
  <2>4. QED
    BY <2>2, <2>3 DEF TermInv
<1>2. CASE TermNext
  BY <1>2, ShellPrintsStep, ShellReadsStep, TabStep, TypeStep, PumpReadsStep, PumpSendsStep,
     PumpSeesEndStep, StartShellStep, ReadMessageStep, WriteTypedStep, LoopLeavesStep
     DEF TermNext, Pump, Loop
<1>3. QED
  BY <1>1, <1>2

LEMMA AlwaysTermInv == TermSpec => []TermInv
BY TermInitial, TermStep, PTL DEF TermSpec

LEMMA TermTyped == TermInv => TermTypeOK
<1> SUFFICES ASSUME TermInv
             PROVE  TermTypeOK
  OBVIOUS
<1>1. Len(pumpHand) = (IF pump = "sending" THEN 1 ELSE 0) /\ Len(loopHand) = (IF loop = "writing" THEN 1 ELSE 0)
  BY DEF TermInv, TermShape, InHand
<1>2. QED
  BY <1>1 DEF TermInv, TermShape, TermTypeOK

\* A tab that stays is shown everything the shell has printed, in order, and then told the
\* end; and while shell and loop run, the shell reads all that was typed, once and in order:
\* however much is typed and printed and however little the pseudo-terminal holds.
THEOREM TerminalAlwaysFaithful == TermSpec => []TerminalFaithful
<1>1. TermInv => TerminalFaithful
  BY DEF TermInv, ShownAll, ReadAll, Ended, TerminalFaithful
<1>2. QED
  BY <1>1, AlwaysTermInv, PTL

-----------------------------------------------------------------------------
(* A command.                                                              *)

\* The elements of a sequence, and of one with an element more or less.
LEMMA RangeOf ==
  ASSUME NEW S, NEW t \in Seq(S)
  PROVE  /\ \A k \in 1..Len(t) : t[k] \in Range(t)
         /\ \A e \in Range(t) : e \in S /\ \E k \in 1..Len(t) : t[k] = e
BY DEF Range

LEMMA RangeAppended ==
  ASSUME NEW S, NEW t \in Seq(S), NEW e \in S
  PROVE  Range(Append(t, e)) = Range(t) \union {e}
<1> DEFINE u == Append(t, e)
<1>1. u \in Seq(S) /\ Len(u) = Len(t) + 1 /\ Len(t) \in Nat
  OBVIOUS
<1>2. u[Len(t) + 1] = e /\ \A k \in 1..Len(t) : u[k] = t[k]
  OBVIOUS
<1>3. /\ Len(t) + 1 \in 1..(Len(t) + 1) /\ \A k \in 1..Len(t) : k \in 1..(Len(t) + 1)
      /\ \A k \in 1..(Len(t) + 1) : k \in 1..Len(t) \/ k = Len(t) + 1
  BY <1>1
<1> HIDE DEF u
<1>4. ASSUME NEW f \in Range(u)
      PROVE  f \in Range(t) \union {e}
  <2>1. PICK k \in 1..Len(u) : u[k] = f
    BY <1>1, RangeOf
  <2>2. QED
    BY <1>1, <1>2, <1>3, <2>1, RangeOf
<1>5. e \in Range(u)
  BY <1>1, <1>2, <1>3, RangeOf
<1>6. ASSUME NEW f \in Range(t)
      PROVE  f \in Range(u)
  <2>1. PICK k \in 1..Len(t) : t[k] = f
    BY RangeOf
  <2>2. QED
    BY <1>1, <1>2, <1>3, <2>1, RangeOf
<1>7. QED
  BY <1>4, <1>5, <1>6 DEF u

\* Numbers that go up.
GoesUp(s) == \A j, k \in 1..Len(s) : j < k => s[j] < s[k]

LEMMA LastOneUp ==
  ASSUME NEW s \in Seq(Nat), NEW x \in Nat, GoesUp(s), \A y \in Range(s) : y < x
  PROVE  GoesUp(Append(s, x))
<1> DEFINE u == Append(s, x)
<1>1. u \in Seq(Nat) /\ Len(u) = Len(s) + 1 /\ Len(s) \in Nat /\ u[Len(s) + 1] = x
      /\ \A k \in 1..Len(s) : u[k] = s[k]
  OBVIOUS
<1>2. \A k \in 1..Len(s) : s[k] < x
  BY RangeOf
<1>3. \A k \in 1..(Len(s) + 1) : k \in 1..Len(s) \/ k = Len(s) + 1
  BY <1>1
<1> HIDE DEF u
<1>4. ASSUME NEW j \in 1..Len(u), NEW k \in 1..Len(u), j < k
      PROVE  u[j] < u[k]
  <2>1. j \in 1..Len(s)
    BY <1>1, <1>3, <1>4
  <2>2. CASE k \in 1..Len(s)
    BY <1>1, <1>4, <2>1, <2>2 DEF GoesUp
  <2>3. CASE k = Len(s) + 1
    BY <1>1, <1>2, <2>1, <2>3
  <2>4. QED
    BY <1>1, <1>3, <2>2, <2>3
<1>5. QED
  BY <1>4 DEF GoesUp, u

LEMMA FirstOneDown ==
  ASSUME NEW s \in Seq(Nat), s # <<>>, GoesUp(s)
  PROVE  /\ GoesUp(Tail(s)) /\ Head(s) \in Range(s)
         /\ Range(Tail(s)) = Range(s) \ {Head(s)}
         /\ \A y \in Range(s) : Head(s) <= y
<1> DEFINE u == Tail(s)
<1>1. /\ u \in Seq(Nat) /\ Len(u) = Len(s) - 1 /\ Len(s) \in Nat \ {0} /\ Head(s) = s[1]
      /\ \A k \in 1..Len(u) : u[k] = s[k + 1]
  OBVIOUS
<1>2. /\ 1 \in 1..Len(s)
      /\ \A k \in 1..Len(u) : k + 1 \in 1..Len(s) /\ 1 < k + 1
      /\ \A k \in 1..Len(s) : k = 1 \/ (k - 1 \in 1..Len(u) /\ (k - 1) + 1 = k /\ 1 < k)
      /\ \A j, k \in 1..Len(u) : j < k => j + 1 < k + 1
      /\ \A k \in 1..Len(s) : s[k] \in Nat
  BY <1>1
<1> HIDE DEF u
<1>3. GoesUp(u)
  BY <1>1, <1>2, ZenonT(60) DEF GoesUp
<1>4. \A k \in 1..Len(s) : k # 1 => s[1] < s[k]
  BY <1>2 DEF GoesUp
<1>5. ASSUME NEW f \in Range(u)
      PROVE  f \in Range(s) /\ f # s[1]
  <2>1. PICK k \in 1..Len(u) : u[k] = f
    BY <1>1, RangeOf
  <2>2. s[k + 1] = f /\ k + 1 \in 1..Len(s) /\ k + 1 # 1
    BY <1>1, <1>2, <2>1
  <2>3. s[1] < f
    BY <1>4, <2>2
  <2>4. QED
    BY <1>2, <2>2, <2>3, RangeOf
<1>6. ASSUME NEW f \in Range(s), f # s[1]
      PROVE  f \in Range(u)
  <2>1. PICK k \in 1..Len(s) : s[k] = f
    BY RangeOf
  <2>2. k - 1 \in 1..Len(u) /\ u[k - 1] = f
    BY <1>1, <1>2, <1>6, <2>1
  <2>3. QED
    BY <1>1, <2>2, RangeOf
<1>7. ASSUME NEW y \in Range(s)
      PROVE  s[1] <= y
  <2>1. PICK k \in 1..Len(s) : s[k] = y
    BY RangeOf
  <2>2. QED
    BY <1>2, <1>4, <2>1
<1>8. s[1] \in Range(s)
  BY <1>2, RangeOf
<1>9. QED
  BY <1>1, <1>3, <1>5, <1>6, <1>7, <1>8 DEF u

-----------------------------------------------------------------------------
(* What a client may be sent of the output of a command with the plan p.   *)

InFront(a, b, p) == IF p[a].fd = p[b].fd THEN a < b ELSE p[a].fd = "stdout"

Faithful(s, p) ==
  /\ \A i, j \in 1..Len(s) : i < j /\ s[i] # 0 /\ s[j] # 0 => InFront(s[i], s[j], p)
  /\ \A j \in 1..Len(s) : s[j] # 0 =>
       \A a \in 1..Len(p) : InFront(a, s[j], p) => \E i \in 1..(j - 1) : s[i] = a
  /\ \A i \in 1..Len(s) : s[i] = 0 => i = Len(s)

LEMMA FaithfulClosed ==
  ASSUME NEW s \in Seq(Nat), NEW p, Faithful(s, p),
         NEW b \in Range(s), b # 0, NEW a \in 1..Len(p), InFront(a, b, p)
  PROVE  a \in Range(s)
<1>1. PICK j \in 1..Len(s) : s[j] = b
  BY RangeOf
<1>2. PICK i \in 1..(j - 1) : s[i] = a
  BY <1>1 DEF Faithful
<1>3. i \in 1..Len(s)
  OBVIOUS
<1>4. QED
  BY <1>2, <1>3, RangeOf

\* One more line.
LEMMA OneMoreLine ==
  ASSUME NEW s \in Seq(Nat), NEW p, Faithful(s, p), 0 \notin Range(s), NEW h \in Nat,
         h # 0 => /\ \A b \in Range(s) : InFront(b, h, p)
                  /\ \A a \in 1..Len(p) : InFront(a, h, p) => a \in Range(s)
                  /\ ~InFront(h, h, p)
  PROVE  Faithful(Append(s, h), p)
<1> DEFINE u == Append(s, h)
           n == Len(s)
<1>1. u \in Seq(Nat) /\ Len(u) = n + 1 /\ n \in Nat /\ u[n + 1] = h /\ \A k \in 1..n : u[k] = s[k]
  OBVIOUS
<1>2. \A k \in 1..n : s[k] # 0 /\ s[k] \in Range(s)
  BY RangeOf
<1>3. \A k \in 1..(n + 1) : k \in 1..n \/ k = n + 1
  BY <1>1
<1>4. \A j \in 1..(n + 1) : \A i \in 1..(n + 1) : i < j => i \in 1..n
  BY <1>1
<1>5. \A j \in 1..n : \A i \in 1..(j - 1) : i \in 1..n
  BY <1>1
<1>6. (n + 1) - 1 = n /\ n + 1 \notin 1..n
  BY <1>1
<1> HIDE DEF u, n
<1>7. ASSUME NEW i \in 1..(n + 1), NEW j \in 1..(n + 1), i < j, u[j] # 0
      PROVE  InFront(u[i], u[j], p)
  <2>1. i \in 1..n
    BY <1>4, <1>7
  <2>2. CASE j = n + 1
    BY <1>1, <1>2, <1>7, <2>1, <2>2
  <2>3. CASE j \in 1..n
    BY <1>1, <1>2, <1>7, <2>1, <2>3 DEF Faithful, n
  <2>4. QED
    BY <1>3, <2>2, <2>3
<1>8. ASSUME NEW j \in 1..(n + 1), u[j] # 0, NEW a \in 1..Len(p), InFront(a, u[j], p)
      PROVE  \E i \in 1..(j - 1) : u[i] = a
  <2>1. CASE j = n + 1
    <3>1. a \in Range(s)
      BY <1>1, <1>8, <2>1
    <3>2. PICK k \in 1..n : s[k] = a
      BY <3>1, RangeOf DEF n
    <3>3. QED
      BY <1>1, <1>6, <2>1, <3>2
  <2>2. CASE j \in 1..n
    <3>1. PICK i \in 1..(j - 1) : s[i] = a
      BY <1>1, <1>8, <2>2 DEF Faithful, n
    <3>2. QED
      BY <1>1, <1>5, <2>2, <3>1
  <2>3. QED
    BY <1>3, <2>1, <2>2
<1>9. \A i \in 1..(n + 1) : u[i] = 0 => i = n + 1
  BY <1>1, <1>2, <1>3
<1>10. QED
  BY <1>1, <1>7, <1>8, <1>9 DEF Faithful, u

\* What is sent so far of it.
LEMMA FaithfulSoFar ==
  ASSUME NEW s \in Seq(Nat), NEW t \in Seq(Nat), NEW p, Faithful(s \o t, p)
  PROVE  Faithful(s, p)
<1> DEFINE u == s \o t
           n == Len(s)
<1>1. n \in Nat /\ Len(u) \in Nat /\ n <= Len(u) /\ u \in Seq(Nat) /\ \A k \in 1..n : u[k] = s[k]
  <2>1. u \in Seq(Nat) /\ Len(u) = n + Len(t) /\ n \in Nat /\ Len(t) \in Nat
    BY ConcatProperties
  <2>2. \A k \in 1..n : u[k] = s[k]
    OBVIOUS
  <2>3. QED
    BY <2>1, <2>2
<1>2. /\ \A k \in 1..n : k \in 1..Len(u) /\ (k = Len(u) => k = n)
      /\ \A j \in 1..n : \A i \in 1..(j - 1) : i \in 1..n
  BY <1>1
<1> HIDE DEF u, n
<1>3. Faithful(u, p)
  BY DEF u
<1>4. \A i, j \in 1..n : i < j /\ s[i] # 0 /\ s[j] # 0 => InFront(s[i], s[j], p)
  BY <1>1, <1>2, <1>3 DEF Faithful
<1>5. ASSUME NEW j \in 1..n, s[j] # 0, NEW a \in 1..Len(p), InFront(a, s[j], p)
      PROVE  \E i \in 1..(j - 1) : s[i] = a
  <2>1. PICK i \in 1..(j - 1) : u[i] = a
    BY <1>1, <1>2, <1>3, <1>5 DEF Faithful
  <2>2. QED
    BY <1>1, <1>2, <2>1
<1>6. \A i \in 1..n : s[i] = 0 => i = n
  BY <1>1, <1>2, <1>3 DEF Faithful
<1>7. QED
  BY <1>4, <1>5, <1>6 DEF Faithful, n

-----------------------------------------------------------------------------
(* The invariant.                                                          *)

\* A line in hand is on its way as well.
InTheHand(r, l) == IF r = "send" THEN <<l>> ELSE <<>>
Passed == (got \o out) \o InTheHand(reader, line)

\* While the goroutine reads, w lines of the plan p are written: each is passed on or in its
\* pipe, those of a pipe come after the passed ones, and those of stderr wait for the end.
Tracked(s, o, e, w, p, c) ==
  /\ GoesUp(o) /\ GoesUp(e)
  /\ \A x \in Range(o) : x \in 1..w /\ p[x].fd = "stdout"
  /\ \A x \in Range(e) : x \in 1..w /\ p[x].fd = "stderr"
  /\ \A a \in 1..w : a \in Range(s) \/ a \in Range(o) \/ a \in Range(e)
  /\ \A b \in Range(s) :
       /\ b \in 1..w
       /\ p[b].fd = "stdout" => \A x \in Range(o) : b < x
       /\ p[b].fd = "stderr" => o = <<>> /\ c = "exited" /\ \A x \in Range(e) : b < x

Complete(s, p) == (\A i \in 1..Len(p) : ~p[i].long) => \A a \in 1..Len(p) : a \in Range(s)

CmdShape ==
  /\ plan \in Plans
  /\ pipe \in [Fds -> Seq(1..Len(plan))]
  /\ TypeOK

\* The life of the command, of the goroutine and of the request.
Lives ==
  /\ reader = "start" => child = "none" /\ written = 0
  /\ child = "none" => reader \in {"start", "report", "echo", "closed"}
  /\ child = "running" => reader \in {"scan", "send", "wait"}
  /\ child = "exited" => reader \in {"scan", "send", "wait"} \/ client = "gone"
  /\ child = "reaped" => reader \in {"report", "echo", "closed"}
  /\ handler = "done" => reader = "closed" /\ out = <<>>
  /\ client = "here" /\ child \in {"exited", "reaped"} => written = Len(plan)

Output ==
  IF client = "here"
  THEN /\ Faithful(Passed, plan)
       /\ reader \notin {"echo", "closed"} => 0 \notin Range(Passed)
       /\ reader \in {"start", "scan", "send"} =>
            Tracked(Passed, pipe["stdout"], pipe["stderr"], written, plan, child)
       /\ reader \in {"wait", "report", "echo", "closed"} /\ child # "none" => Complete(Passed, plan)
  ELSE Faithful(got, plan)

CmdInv == CmdShape /\ Lives /\ Output

-----------------------------------------------------------------------------
(* Lines on their way.                                                     *)

LEMMA Emptied == ASSUME NEW S PROVE <<>> \in Seq(S) /\ Range(<<>>) = {} /\ GoesUp(<<>>)
<1>1. <<>> \in Seq(S) /\ Len(<<>>) = 0
  OBVIOUS
<1>2. Range(<<>>) = {}
  BY DEF Range
<1>3. QED
  BY <1>1, <1>2 DEF GoesUp

LEMMA AlongTheWay ==
  ASSUME NEW g \in Seq(Nat), NEW o \in Seq(Nat), NEW x \in Nat
  PROVE  /\ (g \o Append(o, x)) \o <<>> = (g \o o) \o <<x>>
         /\ (g \o o) \o <<x>> = Append(g \o o, x)
         /\ (g \o o) \o <<>> = g \o o /\ g \o o \in Seq(Nat) /\ (g \o o) \o <<x>> \in Seq(Nat)
<1>1. g \o o \in Seq(Nat)
  BY PassedOn
<1>2. /\ (g \o o) \o <<x>> = Append(g \o o, x) /\ (g \o o) \o <<>> = g \o o
      /\ Append(g \o o, x) \in Seq(Nat)
  BY <1>1, Joined
<1>3. g \o Append(o, x) = Append(g \o o, x)
  BY PassedOn
<1>4. Append(g \o o, x) \o <<>> = Append(g \o o, x)
  BY <1>2, Joined
<1>5. QED
  BY <1>1, <1>2, <1>3, <1>4

LEMMA HeadForwarded ==
  ASSUME NEW g \in Seq(Nat), NEW o \in Seq(Nat), o # <<>>,
         NEW h, h = Append(g, Head(o)), NEW u, u = Tail(o)
  PROVE  h \o u = g \o o
BY HeadPassedOn

LEMMA LineToStdout ==
  ASSUME NEW s, NEW o \in Seq(Nat), NEW e, NEW w \in Nat, NEW p, NEW c,
         Tracked(s, o, e, w, p, c), c # "exited", p[w + 1].fd = "stdout"
  PROVE  Tracked(s, Append(o, w + 1), e, w + 1, p, c)
<1> DEFINE u == Append(o, w + 1)
<1>1. Range(u) = Range(o) \union {w + 1}
  BY RangeAppended
<1>2. /\ \A a \in 1..w : a \in 1..(w + 1) /\ a < w + 1
      /\ \A a \in 1..(w + 1) : a \in 1..w \/ a = w + 1
      /\ w + 1 \in 1..(w + 1)
  OBVIOUS
<1>3. GoesUp(u)
  BY <1>2, LastOneUp DEF Tracked
<1> HIDE DEF u
<1>4. QED
  BY <1>1, <1>2, <1>3 DEF Tracked, u

LEMMA LineToStderr ==
  ASSUME NEW s, NEW o, NEW e \in Seq(Nat), NEW w \in Nat, NEW p, NEW c,
         Tracked(s, o, e, w, p, c), c # "exited", p[w + 1].fd = "stderr"
  PROVE  Tracked(s, o, Append(e, w + 1), w + 1, p, c)
<1> DEFINE u == Append(e, w + 1)
<1>1. Range(u) = Range(e) \union {w + 1}
  BY RangeAppended
<1>2. /\ \A a \in 1..w : a \in 1..(w + 1) /\ a < w + 1
      /\ \A a \in 1..(w + 1) : a \in 1..w \/ a = w + 1
      /\ w + 1 \in 1..(w + 1)
  OBVIOUS
<1>3. GoesUp(u)
  BY <1>2, LastOneUp DEF Tracked
<1> HIDE DEF u
<1>4. QED
  BY <1>1, <1>2, <1>3 DEF Tracked, u

\* A line of stdout is read.
LEMMA StdoutRead ==
  ASSUME NEW s \in Seq(Nat), NEW o \in Seq(Nat), NEW e \in Seq(Nat), NEW w \in Nat, NEW p, NEW c,
         Tracked(s, o, e, w, p, c), Faithful(s, p), o # <<>>, \A a \in 1..Len(p) : p[a].fd \in Fds,
         Len(p) \in Nat, w <= Len(p)
  PROVE  /\ Tracked(Append(s, Head(o)), Tail(o), e, w, p, c)
         /\ Faithful(Append(s, Head(o)), p) /\ 0 \notin Range(Append(s, Head(o)))
<1> DEFINE h == Head(o)
           u == Tail(o)
           t == Append(s, h)
<1>1. GoesUp(u) /\ h \in Range(o) /\ Range(u) = Range(o) \ {h} /\ \A y \in Range(o) : h <= y
  BY FirstOneDown DEF Tracked
<1>2. h \in 1..w /\ p[h].fd = "stdout" /\ h \in Nat \ {0}
  BY <1>1 DEF Tracked
<1>3. Range(t) = Range(s) \union {h}
  BY <1>2, RangeAppended
<1> HIDE DEF h, u, t
<1>4. \A x \in Range(o) : x \in Nat
  BY RangeOf
<1>5. \A x \in Range(u) : h < x
  BY <1>1, <1>2, <1>4
<1>6. \A b \in Range(s) : b \in 1..w /\ p[b].fd # "stderr"
  BY DEF Tracked
<1>7. 0 \notin Range(t) /\ 0 \notin Range(s)
  BY <1>2, <1>3, <1>6
<1>8. Tracked(t, u, e, w, p, c)
  BY <1>1, <1>2, <1>3, <1>5, <1>6 DEF Tracked
<1>9. Faithful(t, p)
  <2>1. ASSUME NEW b \in Range(s)
        PROVE  InFront(b, h, p)
    <3>1. p[b].fd = "stdout" => b < h
      BY <1>1 DEF Tracked
    <3>2. b \in 1..Len(p)
      BY <1>6
    <3>3. QED
      BY <1>2, <1>6, <3>1, <3>2 DEF InFront, Fds
  <2>2. ASSUME NEW a \in 1..Len(p), InFront(a, h, p)
        PROVE  a \in Range(s)
    <3>1. p[a].fd = "stdout" /\ a < h
      BY <1>2, <2>2 DEF InFront
    <3>2. a \in 1..w /\ a \notin Range(o)
      BY <1>1, <1>2, <1>4, <3>1
    <3>3. a \notin Range(e)
      BY <3>1 DEF Tracked
    <3>4. QED
      BY <3>2, <3>3 DEF Tracked
  <2>3. ~InFront(h, h, p)
    BY <1>2 DEF InFront
  <2>4. QED
    BY <1>2, <1>7, <2>1, <2>2, <2>3, OneMoreLine DEF t
<1>10. QED
  BY <1>7, <1>8, <1>9 DEF h, u, t

\* A line of stderr is read, when stdout has ended.
LEMMA StderrRead ==
  ASSUME NEW s \in Seq(Nat), NEW e \in Seq(Nat), NEW p, Len(p) \in Nat,
         Tracked(s, <<>>, e, Len(p), p, "exited"), Faithful(s, p), e # <<>>,
         \A a \in 1..Len(p) : p[a].fd \in Fds
  PROVE  /\ Tracked(Append(s, Head(e)), <<>>, Tail(e), Len(p), p, "exited")
         /\ Faithful(Append(s, Head(e)), p) /\ 0 \notin Range(Append(s, Head(e)))
<1> DEFINE h == Head(e)
           u == Tail(e)
           t == Append(s, h)
           w == Len(p)
<1>1. GoesUp(u) /\ h \in Range(e) /\ Range(u) = Range(e) \ {h} /\ \A y \in Range(e) : h <= y
  BY FirstOneDown DEF Tracked
<1>2. h \in 1..w /\ p[h].fd = "stderr"
  BY <1>1 DEF Tracked
<1>0. h \in Nat \ {0} /\ w \in Nat
  BY <1>2
<1>3. Range(t) = Range(s) \union {h}
  BY <1>0, RangeAppended
<1> HIDE DEF h, u, t, w
<1>4. \A x \in Range(e) : x \in Nat
  BY RangeOf
<1>5. \A x \in Range(u) : h < x
  BY <1>0, <1>1, <1>4
<1>6. Range(<<>>) = {}
  BY Emptied
<1>7. \A b \in Range(s) : b \in 1..w
  BY DEF Tracked, w
<1>8. 0 \notin Range(t) /\ 0 \notin Range(s)
  BY <1>0, <1>3, <1>7
<1>9. Tracked(t, <<>>, u, w, p, "exited")
  BY <1>1, <1>2, <1>3, <1>5, <1>6 DEF Tracked, w
<1>10. Faithful(t, p)
  <2>1. ASSUME NEW b \in Range(s)
        PROVE  InFront(b, h, p)
    <3>1. p[b].fd = "stderr" => b < h
      BY <1>1 DEF Tracked
    <3>2. p[b].fd \in Fds
      BY <1>7 DEF w
    <3>3. QED
      BY <1>2, <3>1, <3>2 DEF InFront, Fds
  <2>2. ASSUME NEW a \in 1..w, InFront(a, h, p)
        PROVE  a \in Range(s)
    <3>1. p[a].fd = "stdout" \/ a < h
      BY <1>0, <1>2, <2>2 DEF InFront
    <3>2. a \notin Range(e)
      BY <1>0, <1>1, <1>4, <3>1 DEF Tracked
    <3>3. QED
      BY <1>6, <3>2 DEF Tracked, w
  <2>3. ~InFront(h, h, p)
    BY <1>2 DEF InFront
  <2>4. QED
    BY <1>0, <1>8, <2>1, <2>2, <2>3, OneMoreLine DEF t, w
<1>11. QED
  BY <1>8, <1>9, <1>10 DEF h, u, t, w

-----------------------------------------------------------------------------
(* The steps.                                                              *)

LEMMA PlanTypes ==
  ASSUME NEW p \in Plans
  PROVE  /\ Len(p) \in Nat
         /\ \A a \in 1..Len(p) : p[a].fd \in Fds /\ p[a].long \in BOOLEAN
<1> DEFINE L == [fd : Fds, long : BOOLEAN]
<1>1. \A r \in L : r.fd \in Fds /\ r.long \in BOOLEAN
  OBVIOUS
<1>2. p \in Seq(L)
  BY StreamAssumption
<1> HIDE DEF L
<1>3. Len(p) \in Nat /\ \A a \in 1..Len(p) : p[a] \in L
  BY <1>2
<1>4. QED
  BY <1>1, <1>3

LEMMA CmdTypes ==
  ASSUME CmdShape
  PROVE  /\ Len(plan) \in Nat /\ written \in Nat /\ written <= Len(plan)
         /\ \A a \in 1..Len(plan) : plan[a].fd \in Fds /\ plan[a].long \in BOOLEAN
         /\ \A fd \in Fds : pipe[fd] \in Seq(1..Len(plan)) /\ pipe[fd] \in Seq(Nat)
         /\ "stdout" \in Fds /\ "stderr" \in Fds
         /\ got \in Seq(Nat) /\ out \in Seq(Nat) /\ line \in Nat
         /\ InTheHand(reader, line) \in Seq(Nat) /\ Passed \in Seq(Nat)
<1>2. Len(plan) \in Nat /\ \A a \in 1..Len(plan) : plan[a].fd \in Fds /\ plan[a].long \in BOOLEAN
  BY PlanTypes DEF CmdShape
<1>3. written \in Nat /\ written <= Len(plan) /\ line \in Nat
  BY <1>2 DEF CmdShape, TypeOK
<1>4. 0..Len(plan) \subseteq Nat /\ 1..Len(plan) \subseteq Nat
  BY <1>2
<1>5. got \in Seq(Nat) /\ out \in Seq(Nat)
  BY <1>4, SeqMonotonic DEF CmdShape, TypeOK
<1>6. \A fd \in Fds : pipe[fd] \in Seq(1..Len(plan)) /\ pipe[fd] \in Seq(Nat)
  BY <1>4, SeqMonotonic DEF CmdShape, TypeOK
<1>7. InTheHand(reader, line) \in Seq(Nat)
  BY <1>3 DEF InTheHand
<1>8. Passed \in Seq(Nat)
  <2>1. got \o out \in Seq(Nat)
    BY <1>5, PassedOn
  <2>2. QED
    BY <1>7, <2>1, PassedOn DEF Passed
<1>9. QED
  BY <1>2, <1>3, <1>5, <1>6, <1>7, <1>8 DEF Fds

LEMMA CmdInitial == Init => CmdInv
<1> SUFFICES ASSUME Init
             PROVE  CmdInv
  OBVIOUS
<1>1. plan \in Plans /\ Len(plan) \in Nat
  BY PlanTypes DEF Init
<1>2. <<>> \in Seq(1..Len(plan)) /\ <<>> \in Seq(0..Len(plan)) /\ Len(<<>>) = 0
  OBVIOUS
<1>3. CmdShape
  BY <1>1, <1>2, StreamAssumption DEF Init, CmdShape, TypeOK, Error
<1>4. Lives
  BY DEF Init, Lives
<1>5. Passed = <<>>
  BY DEF Init, Passed, InTheHand
<1>6. Range(<<>>) = {} /\ GoesUp(<<>>)
  BY Emptied
<1>7. Faithful(<<>>, plan)
  BY <1>2 DEF Faithful
<1>8. 1..0 = {}
  OBVIOUS
<1>9. Tracked(<<>>, <<>>, <<>>, 0, plan, "none")
  BY <1>6, <1>8 DEF Tracked
<1>10. pipe["stdout"] = <<>> /\ pipe["stderr"] = <<>>
  BY DEF Init, Fds
<1>11. Output
  BY <1>5, <1>6, <1>7, <1>9, <1>10 DEF Init, Output
<1>12. QED
  BY <1>3, <1>4, <1>11 DEF CmdInv

LEMMA WriteLineStep ==
  ASSUME CmdInv, WriteLine
  PROVE  CmdInv'
<1>0. CmdShape /\ Lives /\ Output
  BY DEF CmdInv
<1> DEFINE fd0 == plan[written + 1].fd
           p0 == Append(pipe[fd0], written + 1)
<1>1. /\ child = "running" /\ written < Len(plan) /\ Len(pipe[fd0]) < PipeCap
      /\ written' = written + 1 /\ pipe' = [pipe EXCEPT ![fd0] = p0]
      /\ UNCHANGED <<plan, child, reader, line, out, handler, client, got>>
  BY DEF WriteLine
<1>2. /\ Len(plan) \in Nat /\ written \in Nat /\ written + 1 \in 1..Len(plan) /\ written + 1 \in 0..Len(plan)
      /\ fd0 \in Fds
  BY <1>0, <1>1, CmdTypes
<1>3. /\ pipe[fd0] \in Seq(1..Len(plan)) /\ pipe[fd0] \in Seq(Nat)
      /\ p0 \in Seq(1..Len(plan)) /\ Len(p0) = Len(pipe[fd0]) + 1 /\ Len(pipe[fd0]) \in Nat
  BY <1>0, <1>2, CmdTypes
<1>4. Len(p0) <= PipeCap
  BY <1>1, <1>3, StreamAssumption
<1> HIDE DEF fd0, p0
<1>5. /\ pipe \in [Fds -> Seq(1..Len(plan))] /\ pipe' \in [Fds -> Seq(1..Len(plan))]
      /\ \A fd \in Fds : pipe'[fd] = IF fd = fd0 THEN p0 ELSE pipe[fd]
  BY <1>0, <1>1, <1>2, <1>3 DEF CmdShape
<1>6. CmdShape'
  <2>1. \A fd \in Fds : pipe'[fd] \in Seq(1..Len(plan)) /\ Len(pipe'[fd]) <= PipeCap
    BY <1>0, <1>4, <1>5 DEF CmdShape, TypeOK
  <2>2. QED
    BY <1>0, <1>1, <1>2, <1>5, <2>1 DEF CmdShape, TypeOK
<1>7. Lives'
  BY <1>0, <1>1 DEF Lives
<1>8. Passed' = Passed
  BY <1>1 DEF Passed
<1>9. reader \in {"scan", "send", "wait"}
  BY <1>0, <1>1 DEF Lives
<1>10. ASSUME client = "here", reader \in {"scan", "send"}
       PROVE  Tracked(Passed, pipe'["stdout"], pipe'["stderr"], written + 1, plan, child)
  <2>1. Tracked(Passed, pipe["stdout"], pipe["stderr"], written, plan, child)
    BY <1>0, <1>10 DEF Output
  <2>2. pipe["stdout"] \in Seq(Nat) /\ pipe["stderr"] \in Seq(Nat)
    BY <1>0, CmdTypes
  <2>3. CASE fd0 = "stdout"
    <3>1. pipe'["stdout"] = Append(pipe["stdout"], written + 1) /\ pipe'["stderr"] = pipe["stderr"]
      BY <1>5, <2>3 DEF Fds, p0
    <3>2. QED
      BY <1>1, <1>2, <2>1, <2>2, <2>3, <3>1, LineToStdout DEF fd0
  <2>4. CASE fd0 = "stderr"
    <3>1. pipe'["stderr"] = Append(pipe["stderr"], written + 1) /\ pipe'["stdout"] = pipe["stdout"]
      BY <1>5, <2>4 DEF Fds, p0
    <3>2. QED
      BY <1>1, <1>2, <2>1, <2>2, <2>4, <3>1, LineToStderr DEF fd0
  <2>5. QED
    BY <1>2, <2>3, <2>4 DEF Fds
<1>11. Output'
  BY <1>0, <1>1, <1>8, <1>9, <1>10 DEF Output
<1>12. QED
  BY <1>6, <1>7, <1>11 DEF CmdInv

\* The command starts, or does not; it exits; it is killed when the client has gone.
LEMMA ChildStep ==
  ASSUME CmdInv, Exit \/ KillOnCancel \/ StartCommand
  PROVE  CmdInv'
<1>0. CmdShape /\ Lives /\ Output
  BY DEF CmdInv
<1>1. UNCHANGED <<plan, written, pipe, line, out, handler, client, got>>
  BY DEF Exit, KillOnCancel, StartCommand
<1>2. \/ child = "running" /\ written = Len(plan) /\ child' = "exited" /\ reader' = reader
      \/ child = "running" /\ client = "gone" /\ child' = "exited" /\ reader' = reader
      \/ reader = "start" /\ child' = "running" /\ reader' = "scan"
      \/ reader = "start" /\ child' = child /\ reader' = "report"
  BY DEF Exit, KillOnCancel, StartCommand
<1>3. CmdShape'
  BY <1>0, <1>1, <1>2 DEF CmdShape, TypeOK
<1>4. Lives'
  BY <1>0, <1>1, <1>2 DEF Lives
<1>5. Passed' = Passed
  BY <1>1, <1>2 DEF Passed, InTheHand
<1>6. ASSUME client = "here", reader \in {"start", "scan", "send"}
      PROVE  Tracked(Passed, pipe["stdout"], pipe["stderr"], written, plan, child')
  <2>1. Tracked(Passed, pipe["stdout"], pipe["stderr"], written, plan, child)
    BY <1>0, <1>6 DEF Output
  <2>2. child = "exited" => child' = "exited"
    BY <1>0, <1>2 DEF Lives
  <2>3. QED
    BY <2>1, <2>2 DEF Tracked
<1>7. reader' = "report" /\ reader # "report" => child' = "none"
  BY <1>0, <1>2 DEF Lives
<1>8. Output'
  <2>1. CASE client = "gone"
    BY <1>0, <1>1, <2>1 DEF Output
  <2>2. CASE client = "here"
    <3>1. Faithful(Passed, plan) /\ (reader \notin {"echo", "closed"} => 0 \notin Range(Passed))
      BY <1>0, <2>2 DEF Output
    <3>2. reader \notin {"echo", "closed"} \/ reader' = reader
      BY <1>2
    <3>3. reader' \in {"wait", "report", "echo", "closed"} /\ child' # "none" => Complete(Passed, plan)
      BY <1>0, <1>2, <1>7, <2>2 DEF Output, Lives
    <3>4. reader' \in {"start", "scan", "send"} => reader \in {"start", "scan", "send"}
      BY <1>2
    <3>5. QED
      BY <1>1, <1>5, <1>6, <2>2, <3>1, <3>2, <3>3, <3>4 DEF Output
  <2>3. QED
    BY <1>0, <2>1, <2>2 DEF CmdShape, TypeOK
<1>9. QED
  BY <1>3, <1>4, <1>8 DEF CmdInv

\* What Take does, wherever the line comes from.
LEMMA Taken ==
  ASSUME CmdShape, NEW fd \in Fds, Take(fd), reader = "scan",
         UNCHANGED <<plan, written, child, out, handler, client, got>>
  PROVE  /\ CmdShape' /\ Head(pipe[fd]) \in 1..Len(plan)
         /\ pipe'[fd] = Tail(pipe[fd]) /\ \A f \in Fds : f # fd => pipe'[f] = pipe[f]
         /\ reader' \in {"wait", "send"}
         /\ plan[Head(pipe[fd])].long => reader' = "wait" /\ Passed' = Passed
         /\ ~plan[Head(pipe[fd])].long => reader' = "send" /\ Passed' = Append(Passed, Head(pipe[fd]))
<1> DEFINE h == Head(pipe[fd])
           u == Tail(pipe[fd])
<1>1. /\ pipe[fd] # <<>> /\ pipe' = [pipe EXCEPT ![fd] = u]
      /\ IF plan[h].long THEN reader' = "wait" /\ line' = line ELSE line' = h /\ reader' = "send"
  BY DEF Take
<1>2. pipe[fd] \in Seq(1..Len(plan)) /\ Len(pipe[fd]) <= PipeCap /\ Len(plan) \in Nat
  BY CmdTypes DEF CmdShape, TypeOK
<1>3. h \in 1..Len(plan) /\ u \in Seq(1..Len(plan)) /\ Len(u) = Len(pipe[fd]) - 1 /\ Len(pipe[fd]) \in Nat
  BY <1>1, <1>2, HeadPassedOn
<1>4. Len(u) <= PipeCap /\ h \in Nat /\ h \in 0..Len(plan)
  BY <1>2, <1>3, StreamAssumption
<1> HIDE DEF h, u
<1>5. /\ pipe \in [Fds -> Seq(1..Len(plan))] /\ pipe' \in [Fds -> Seq(1..Len(plan))]
      /\ \A f \in Fds : pipe'[f] = IF f = fd THEN u ELSE pipe[f]
  BY <1>1, <1>3 DEF CmdShape
<1>6. \A f \in Fds : pipe'[f] \in Seq(1..Len(plan)) /\ Len(pipe'[f]) <= PipeCap
  BY <1>4, <1>5 DEF CmdShape, TypeOK
<1>7. CmdShape'
  BY <1>1, <1>4, <1>5, <1>6 DEF CmdShape, TypeOK
<1>8. got \in Seq(Nat) /\ out \in Seq(Nat)
  BY CmdTypes
<1>9. Passed = got \o out
  BY <1>8, Joined, PassedOn DEF Passed, InTheHand
<1>10. reader' = "wait" => Passed' = Passed
  BY DEF Passed, InTheHand
<1>11. ASSUME reader' = "send", line' = h
       PROVE  Passed' = Append(Passed, h)
  <2>1. Passed' = (got \o out) \o <<h>>
    BY <1>11 DEF Passed, InTheHand
  <2>2. QED
    BY <1>4, <1>8, <1>9, <2>1, AlongTheWay
<1>12. QED
  BY <1>1, <1>3, <1>5, <1>7, <1>10, <1>11 DEF h, u

LEMMA ScanStep ==
  ASSUME CmdInv, Scan
  PROVE  CmdInv'
<1>0. CmdShape /\ Lives /\ Output
  BY DEF CmdInv
<1>1. reader = "scan" /\ UNCHANGED <<plan, written, child, out, handler, client, got>>
  BY DEF Scan
<1>2. /\ Len(plan) \in Nat /\ written \in Nat /\ written <= Len(plan)
      /\ \A a \in 1..Len(plan) : plan[a].fd \in Fds
      /\ pipe["stdout"] \in Seq(Nat) /\ pipe["stderr"] \in Seq(Nat) /\ Passed \in Seq(Nat)
      /\ "stdout" \in Fds /\ "stderr" \in Fds
  BY <1>0, CmdTypes
<1>3. /\ client = "here" => /\ Faithful(Passed, plan) /\ 0 \notin Range(Passed)
                            /\ Tracked(Passed, pipe["stdout"], pipe["stderr"], written, plan, child)
      /\ client # "here" => Faithful(got, plan)
      /\ client \in {"here", "gone"}
      /\ client = "here" /\ child = "exited" => written = Len(plan)
  BY <1>0, <1>1 DEF Output, Lives, CmdShape, TypeOK
<1>4. ASSUME reader' \in {"wait", "send"}
      PROVE  Lives'
  BY <1>0, <1>1, <1>4 DEF Lives
<1>5. ASSUME NEW fd \in Fds, Take(fd), plan[Head(pipe[fd])].long
      PROVE  CmdInv'
  <2>1. CmdShape' /\ Head(pipe[fd]) \in 1..Len(plan) /\ reader' = "wait" /\ Passed' = Passed
    BY <1>0, <1>1, <1>5, Taken
  <2>2. Complete(Passed, plan)
    BY <1>5, <2>1 DEF Complete
  <2>3. Output'
    BY <1>1, <1>3, <2>1, <2>2 DEF Output
  <2>4. QED
    BY <1>4, <2>1, <2>3 DEF CmdInv
<1>6. ASSUME Take("stdout"), ~plan[Head(pipe["stdout"])].long
      PROVE  CmdInv'
  <2>1. /\ CmdShape' /\ reader' = "send" /\ pipe["stdout"] # <<>>
        /\ Passed' = Append(Passed, Head(pipe["stdout"]))
        /\ pipe'["stdout"] = Tail(pipe["stdout"]) /\ pipe'["stderr"] = pipe["stderr"]
    BY <1>0, <1>1, <1>2, <1>6, Taken DEF Take
  <2>2. ASSUME client = "here"
        PROVE  /\ Faithful(Passed', plan) /\ 0 \notin Range(Passed')
               /\ Tracked(Passed', pipe'["stdout"], pipe'["stderr"], written, plan, child)
    <3> DEFINE o == pipe["stdout"]
               t == Append(Passed, Head(o))
    <3>1. /\ Tracked(Passed, o, pipe["stderr"], written, plan, child) /\ Faithful(Passed, plan)
          /\ o # <<>> /\ o \in Seq(Nat) /\ pipe["stderr"] \in Seq(Nat)
      BY <1>2, <1>3, <2>1, <2>2
    <3>2. Passed' = t /\ pipe'["stdout"] = Tail(o) /\ pipe'["stderr"] = pipe["stderr"]
      BY <2>1
    <3> HIDE DEF o
    <3>3. /\ Tracked(t, Tail(o), pipe["stderr"], written, plan, child)
          /\ Faithful(t, plan) /\ 0 \notin Range(t)
      BY <1>2, <3>1, StdoutRead
    <3> HIDE DEF t
    <3>4. QED
      BY <3>2, <3>3
  <2>3. Output'
    BY <1>1, <1>3, <2>1, <2>2 DEF Output
  <2>4. QED
    BY <1>4, <2>1, <2>3 DEF CmdInv
<1>7. ASSUME AtEnd("stdout"), Take("stderr"), ~plan[Head(pipe["stderr"])].long
      PROVE  CmdInv'
  <2>1. /\ CmdShape' /\ reader' = "send" /\ pipe["stderr"] # <<>>
        /\ Passed' = Append(Passed, Head(pipe["stderr"]))
        /\ pipe'["stderr"] = Tail(pipe["stderr"]) /\ pipe'["stdout"] = pipe["stdout"]
    BY <1>0, <1>1, <1>2, <1>7, Taken DEF Take
  <2>2. pipe["stdout"] = <<>> /\ child = "exited"
    BY <1>7 DEF AtEnd
  <2>3. ASSUME client = "here"
        PROVE  /\ Faithful(Passed', plan) /\ 0 \notin Range(Passed')
               /\ Tracked(Passed', pipe'["stdout"], pipe'["stderr"], written, plan, child)
    <3>1. /\ Tracked(Passed, <<>>, pipe["stderr"], Len(plan), plan, "exited")
          /\ Faithful(Passed, plan) /\ written = Len(plan)
      BY <1>3, <2>2, <2>3
    <3>2. /\ Tracked(Passed', <<>>, pipe'["stderr"], Len(plan), plan, "exited")
          /\ Faithful(Passed', plan) /\ 0 \notin Range(Passed')
      BY <1>2, <2>1, <3>1, StderrRead
    <3>3. QED
      BY <2>1, <2>2, <3>1, <3>2
  <2>4. Output'
    BY <1>1, <1>3, <2>1, <2>3 DEF Output
  <2>5. QED
    BY <1>4, <2>1, <2>4 DEF CmdInv
<1>8. ASSUME AtEnd("stdout"), AtEnd("stderr"), reader' = "wait", UNCHANGED <<pipe, line>>
      PROVE  CmdInv'
  <2>1. CmdShape'
    BY <1>0, <1>1, <1>8 DEF CmdShape, TypeOK
  <2>2. Passed' = Passed
    BY <1>1, <1>8 DEF Passed, InTheHand
  <2>3. ASSUME client = "here"
        PROVE  Complete(Passed, plan)
    <3>1. Tracked(Passed, <<>>, <<>>, Len(plan), plan, child)
      BY <1>3, <1>8, <2>3 DEF AtEnd
    <3>2. Range(<<>>) = {}
      BY Emptied
    <3>3. QED
      BY <3>1, <3>2 DEF Tracked, Complete
  <2>4. Output'
    BY <1>1, <1>3, <1>8, <2>2, <2>3 DEF Output
  <2>5. QED
    BY <1>4, <1>8, <2>1, <2>4 DEF CmdInv
<1>9. QED
  BY <1>2, <1>5, <1>6, <1>7, <1>8 DEF Scan

LEMMA SendStep ==
  ASSUME CmdInv, Send
  PROVE  CmdInv'
<1>0. CmdShape /\ Lives /\ Output
  BY DEF CmdInv
<1>1. reader = "send" /\ UNCHANGED <<plan, written, pipe, line, handler, client, got>>
  BY DEF Send
<1>2. got \in Seq(Nat) /\ out \in Seq(Nat) /\ line \in Nat
  BY <1>0, CmdTypes
<1>3. ASSUME Len(out) < OutCap, out' = Append(out, line), reader' = "scan", child' = child
      PROVE  CmdInv'
  <2>1. /\ out \in Seq(0..Len(plan)) /\ line \in 0..Len(plan)
    BY <1>0 DEF CmdShape, TypeOK
  <2>2. out' \in Seq(0..Len(plan)) /\ Len(out') = Len(out) + 1 /\ Len(out) \in Nat
    BY <1>3, <2>1
  <2>3. Len(out') <= OutCap
    BY <1>3, <2>2, StreamAssumption
  <2>4. CmdShape'
    BY <1>0, <1>1, <1>3, <2>2, <2>3 DEF CmdShape, TypeOK
  <2>5. Lives'
    BY <1>0, <1>1, <1>3 DEF Lives
  <2>6. Passed' = Passed
    <3>1. Passed' = (got \o Append(out, line)) \o <<>> /\ Passed = (got \o out) \o <<line>>
      BY <1>1, <1>3 DEF Passed, InTheHand
    <3>2. QED
      BY <1>2, <3>1, AlongTheWay
  <2>7. Output'
    BY <1>0, <1>1, <1>3, <2>6 DEF Output
  <2>8. QED
    BY <2>4, <2>5, <2>7 DEF CmdInv
<1>4. ASSUME client = "gone", child' = "exited", reader' = "report", out' = out
      PROVE  CmdInv'
  <2>1. CmdShape'
    BY <1>0, <1>1, <1>4 DEF CmdShape, TypeOK
  <2>2. Lives'
    BY <1>0, <1>1, <1>4 DEF Lives
  <2>3. Output'
    BY <1>0, <1>1, <1>4 DEF Output
  <2>4. QED
    BY <2>1, <2>2, <2>3 DEF CmdInv
<1>5. QED
  BY <1>3, <1>4 DEF Send

LEMMA WaitStep ==
  ASSUME CmdInv, Wait
  PROVE  CmdInv'
<1>0. CmdShape /\ Lives /\ Output
  BY DEF CmdInv
<1>1. /\ reader = "wait" /\ child = "exited" /\ child' = "reaped" /\ reader' \in {"report", "echo"}
      /\ pipe' = [fd \in Fds |-> <<>>]
      /\ UNCHANGED <<plan, written, line, out, handler, client, got>>
  BY DEF Wait
<1>2. <<>> \in Seq(1..Len(plan)) /\ Len(<<>>) = 0
  OBVIOUS
<1>3. CmdShape'
  <2>1. pipe' \in [Fds -> Seq(1..Len(plan))]
    BY <1>1, <1>2
  <2>2. \A fd \in Fds : pipe'[fd] \in Seq(1..Len(plan)) /\ Len(pipe'[fd]) <= PipeCap
    BY <1>1, <1>2, StreamAssumption
  <2>3. QED
    BY <1>0, <1>1, <2>1, <2>2 DEF CmdShape, TypeOK
<1>4. Lives'
  BY <1>0, <1>1 DEF Lives
<1>5. Passed' = Passed
  BY <1>1 DEF Passed, InTheHand
<1>6. Output'
  BY <1>0, <1>1, <1>5 DEF Output
<1>7. QED
  BY <1>3, <1>4, <1>6 DEF CmdInv

LEMMA ReportStep ==
  ASSUME CmdInv, Report
  PROVE  CmdInv'
<1>0. CmdShape /\ Lives /\ Output
  BY DEF CmdInv
<1>1. /\ reader = "report" /\ Len(out) < OutCap /\ out' = Append(out, 0) /\ reader' = "echo"
      /\ UNCHANGED <<plan, written, child, pipe, line, handler, client, got>>
  BY DEF Report, Error
<1>2. got \in Seq(Nat) /\ out \in Seq(Nat) /\ Passed \in Seq(Nat) /\ Len(plan) \in Nat
  BY <1>0, CmdTypes
<1>3. CmdShape'
  <2>1. out \in Seq(0..Len(plan)) /\ 0 \in 0..Len(plan)
    BY <1>0, <1>2 DEF CmdShape, TypeOK
  <2>2. out' \in Seq(0..Len(plan)) /\ Len(out') = Len(out) + 1 /\ Len(out) \in Nat
    BY <1>1, <2>1
  <2>3. Len(out') <= OutCap
    BY <1>1, <2>2, StreamAssumption
  <2>4. QED
    BY <1>0, <1>1, <2>2, <2>3 DEF CmdShape, TypeOK
<1>4. Lives'
  BY <1>0, <1>1 DEF Lives
<1>5. Passed' = Append(Passed, 0)
  <2>1. Passed' = (got \o Append(out, 0)) \o <<>> /\ Passed = (got \o out) \o <<>>
    BY <1>1 DEF Passed, InTheHand
  <2>2. (got \o Append(out, 0)) \o <<>> = (got \o out) \o <<0>>
    BY <1>2, AlongTheWay, SMTT(30)
  <2>3. (got \o out) \o <<0>> = Append(got \o out, 0) /\ (got \o out) \o <<>> = got \o out
    BY <1>2, AlongTheWay
  <2>4. QED
    BY <2>1, <2>2, <2>3
<1>6. ASSUME client = "here"
      PROVE  Faithful(Passed', plan) /\ (child # "none" => Complete(Passed', plan))
  <2>1. Faithful(Passed, plan) /\ 0 \notin Range(Passed) /\ (child # "none" => Complete(Passed, plan))
    BY <1>0, <1>1, <1>6 DEF Output
  <2>2. Faithful(Append(Passed, 0), plan)
    BY <1>2, <2>1, OneMoreLine
  <2>3. Range(Append(Passed, 0)) = Range(Passed) \union {0}
    BY <1>2, RangeAppended
  <2>4. QED
    BY <1>5, <2>1, <2>2, <2>3 DEF Complete
<1>7. Output'
  BY <1>0, <1>1, <1>6 DEF Output
<1>8. QED
  BY <1>3, <1>4, <1>7 DEF CmdInv

\* The goroutine and the handler end.
LEMMA EndStep ==
  ASSUME CmdInv, EchoAndClose \/ Return
  PROVE  CmdInv'
<1>0. CmdShape /\ Lives /\ Output
  BY DEF CmdInv
<1>1. /\ UNCHANGED <<plan, written, child, pipe, line, out, client, got>>
      /\ \/ reader = "echo" /\ reader' = "closed" /\ handler' = handler
         \/ reader = "closed" /\ out = <<>> /\ handler' = "done" /\ reader' = reader
  BY DEF EchoAndClose, Return
<1>2. CmdShape'
  BY <1>0, <1>1 DEF CmdShape, TypeOK
<1>3. Lives'
  BY <1>0, <1>1 DEF Lives
<1>4. Passed' = Passed
  BY <1>1 DEF Passed, InTheHand
<1>5. Output'
  BY <1>0, <1>1, <1>4 DEF Output
<1>6. QED
  BY <1>2, <1>3, <1>5 DEF CmdInv

LEMMA ForwardStep ==
  ASSUME CmdInv, Forward
  PROVE  CmdInv'
<1>0. CmdShape /\ Lives /\ Output
  BY DEF CmdInv
<1>1. /\ handler = "ranging" /\ out # <<>> /\ out' = Tail(out)
      /\ got' = IF client = "here" THEN Append(got, Head(out)) ELSE got
      /\ UNCHANGED <<plan, written, child, pipe, reader, line, handler, client>>
  BY DEF Forward
<1>2. got \in Seq(Nat) /\ out \in Seq(Nat) /\ line \in Nat
  BY <1>0, CmdTypes
<1>3. CmdShape'
  <2>1. out \in Seq(0..Len(plan)) /\ got \in Seq(0..Len(plan)) /\ Len(out) <= OutCap
    BY <1>0 DEF CmdShape, TypeOK
  <2>2. Head(out) \in 0..Len(plan) /\ out' \in Seq(0..Len(plan)) /\ Len(out') = Len(out) - 1 /\ Len(out) \in Nat
    BY <1>1, <2>1, HeadPassedOn
  <2>3. Len(out') <= OutCap
    BY <2>1, <2>2, StreamAssumption
  <2>4. got' \in Seq(0..Len(plan))
    <3>1. Append(got, Head(out)) \in Seq(0..Len(plan))
      BY <2>1, <2>2, Joined
    <3>2. QED
      BY <1>1, <2>1, <3>1
  <2>5. QED
    BY <1>0, <1>1, <2>2, <2>3, <2>4 DEF CmdShape, TypeOK
<1>4. Lives'
  BY <1>0, <1>1 DEF Lives
<1>5. ASSUME client = "here"
      PROVE  Passed' = Passed
  <2>1. got' = Append(got, Head(out))
    BY <1>1, <1>5
  <2>2. out # <<>> /\ out' = Tail(out) /\ UNCHANGED <<reader, line>>
    BY <1>1
  <2>3. got' \o out' = got \o out
    BY <1>2, <2>1, <2>2, HeadForwarded
  <2>4. QED
    BY <2>2, <2>3 DEF Passed
<1>6. Output'
  BY <1>0, <1>1, <1>5 DEF Output
<1>7. QED
  BY <1>3, <1>4, <1>6 DEF CmdInv

LEMMA SentFaithful ==
  ASSUME CmdShape, Faithful(Passed, plan)
  PROVE  Faithful(got, plan)
<1>1. got \in Seq(Nat) /\ out \in Seq(Nat) /\ InTheHand(reader, line) \in Seq(Nat) /\ got \o out \in Seq(Nat)
  BY CmdTypes, PassedOn
<1> DEFINE front == got \o out
<1>2. Faithful(front \o InTheHand(reader, line), plan)
  BY DEF Passed
<1> HIDE DEF front
<1>3. Faithful(front, plan)
  BY <1>1, <1>2, FaithfulSoFar DEF front
<1>4. QED
  BY <1>1, <1>3, FaithfulSoFar DEF front

LEMMA LeaveStep ==
  ASSUME CmdInv, Leave
  PROVE  CmdInv'
<1>0. CmdShape /\ Lives /\ Output
  BY DEF CmdInv
<1>1. /\ client = "here" /\ client' = "gone"
      /\ UNCHANGED <<plan, written, child, pipe, reader, line, out, handler, got>>
  BY DEF Leave
<1>2. CmdShape'
  BY <1>0, <1>1 DEF CmdShape, TypeOK
<1>3. Lives'
  BY <1>0, <1>1 DEF Lives
<1>4. Faithful(got, plan)
  BY <1>0, <1>1, SentFaithful DEF Output
<1>5. Output'
  BY <1>1, <1>4 DEF Output
<1>6. QED
  BY <1>2, <1>3, <1>5 DEF CmdInv

LEMMA CmdStep == CmdInv /\ [Next]_vars => CmdInv'
<1> SUFFICES ASSUME CmdInv, [Next]_vars
             PROVE  CmdInv'
  OBVIOUS
<1>1. CASE Command
  BY <1>1, WriteLineStep, ChildStep DEF Command
<1>2. CASE Reader
  BY <1>2, ChildStep, ScanStep, SendStep, WaitStep, ReportStep, EndStep DEF Reader
<1>3. CASE Handler \/ Leave
  BY <1>3, ForwardStep, EndStep, LeaveStep DEF Handler
<1>4. CASE UNCHANGED vars
  BY <1>4 DEF vars, CmdInv, CmdShape, TypeOK, Lives, Output, Passed
<1>5. QED
  BY <1>1, <1>2, <1>3, <1>4 DEF Next

LEMMA AlwaysCmdInv == Spec => []CmdInv
BY CmdInitial, CmdStep, PTL DEF Spec

-----------------------------------------------------------------------------
(* What the client is sent.                                                *)

\* Types, and the capacities of pipes and channels.
THEOREM StreamTypeCorrect == Spec => []TypeOK
<1>1. CmdInv => TypeOK
  BY DEF CmdInv, CmdShape
<1>2. QED
  BY <1>1, AlwaysCmdInv, PTL

\* A handler that returns leaves no command behind.
THEOREM NeverOrphaned == Spec => []NoOrphan
<1>1. CmdInv => NoOrphan
  BY DEF CmdInv, Lives, NoOrphan, CmdShape, TypeOK
<1>2. QED
  BY <1>1, AlwaysCmdInv, PTL

LEMMA FaithfulOutput ==
  ASSUME CmdInv
  PROVE  OutputFaithful
<1>1. CmdShape /\ Lives /\ Output
  BY DEF CmdInv
<1>2. got \in Seq(Nat) /\ out \in Seq(Nat) /\ Len(plan) \in Nat
  BY <1>1, CmdTypes
<1>3. Faithful(got, plan)
  BY <1>1, SentFaithful DEF Output
<1>4. \A a, b : Before(a, b) <=> InFront(a, b, plan)
  BY DEF Before, InFront
<1> DEFINE lines == {i \in 1..Len(got) : got[i] # Error}
<1>5. \A i, j \in lines : i < j => Before(got[i], got[j])
  BY <1>3, <1>4 DEF Faithful, Error
<1>6. \A j \in lines : \A a \in 1..Len(plan) : Before(a, got[j]) => \E i \in 1..(j - 1) : got[i] = a
  BY <1>3, <1>4 DEF Faithful, Error
<1>7. \A i \in 1..Len(got) : got[i] = Error => i = Len(got)
  BY <1>3 DEF Faithful, Error
<1>8. ASSUME handler = "done", client = "here", child # "none", ShortLines, NEW a \in 1..Len(plan)
      PROVE  \E i \in lines : got[i] = a
  <2>1. reader = "closed" /\ out = <<>>
    BY <1>1, <1>8 DEF Lives
  <2>2. Passed = got
    <3>1. Passed = (got \o <<>>) \o <<>>
      BY <2>1 DEF Passed, InTheHand
    <3>2. QED
      BY <1>2, <3>1, Joined
  <2>3. a \in Range(got)
    BY <1>1, <1>8, <2>1, <2>2 DEF Output, Complete, ShortLines
  <2>4. PICK i \in 1..Len(got) : got[i] = a
    BY <1>2, <2>3, RangeOf
  <2>5. a # Error
    BY <1>2 DEF Error
  <2>6. i \in lines
    BY <2>4, <2>5
  <2>7. QED
    BY <2>4, <2>6
<1>9. QED
  BY <1>5, <1>6, <1>7, <1>8 DEF OutputFaithful

\* The client is sent the output, stdout before stderr, and all of it if it stays.
THEOREM OutputAlwaysFaithful == Spec => []OutputFaithful
<1>1. QED
  BY FaithfulOutput, AlwaysCmdInv, PTL

-----------------------------------------------------------------------------
(* A followed log.                                                         *)

LEMMA Pieces ==
  ASSUME NEW s \in Seq(Nat), NEW n \in Nat
  PROVE  /\ FirstOf(n, s) \in Seq(Nat) /\ Len(FirstOf(n, s)) <= n /\ Len(FirstOf(n, s)) \in Nat
         /\ AfterFirst(n, s) \in Seq(Nat) /\ Len(AfterFirst(n, s)) <= Len(s)
         /\ Len(AfterFirst(n, s)) \in Nat /\ Len(s) \in Nat
<1> DEFINE k == AtMost(n, s)
<1>1. Len(s) \in Nat
  OBVIOUS
<1>2. k \in 0..Len(s) /\ k <= n
  BY <1>1 DEF AtMost
<1> HIDE DEF k
<1>3. \A i \in 1..k : i \in 1..Len(s)
  BY <1>1, <1>2
<1>4. \A i \in (k + 1)..Len(s) : i \in 1..Len(s)
  BY <1>1, <1>2
<1>5. \A i \in 1..Len(s) : s[i] \in Nat
  OBVIOUS
<1>6. SubSeq(s, 1, k) \in Seq(Nat) /\ Len(SubSeq(s, 1, k)) = IF 1 <= k THEN k - 1 + 1 ELSE 0
  BY <1>2, <1>3, <1>5, SubSeqProperties
<1>7. /\ SubSeq(s, k + 1, Len(s)) \in Seq(Nat)
      /\ Len(SubSeq(s, k + 1, Len(s))) = IF k + 1 <= Len(s) THEN Len(s) - (k + 1) + 1 ELSE 0
  BY <1>1, <1>2, <1>4, <1>5, SubSeqProperties
<1>8. /\ k \in Nat /\ Len(SubSeq(s, 1, k)) = k
      /\ Len(SubSeq(s, k + 1, Len(s))) <= Len(s) /\ Len(SubSeq(s, k + 1, Len(s))) \in Nat
  BY <1>1, <1>2, <1>6, <1>7
<1>9. QED
  BY <1>1, <1>2, <1>6, <1>7, <1>8 DEF FirstOf, AfterFirst, k

LogInv == LogTypeOK /\ osPipe \in Seq(Nat) /\ block \in Seq(Nat)

LEMMA LogInitial == LogInit => LogInv
BY LogAssumption DEF LogInit, LogInv, LogTypeOK

LEMMA LogStep == LogInv /\ [LogNext]_logVars => LogInv'
<1> SUFFICES ASSUME LogInv, [LogNext]_logVars
             PROVE  LogInv'
  OBVIOUS
<1>1. /\ LogTypeOK /\ osPipe \in Seq(Nat) /\ block \in Seq(Nat)
      /\ logText \in Seq(Nat) /\ Len(logText) \in Nat /\ logged \in Nat /\ logged <= Len(logText)
      /\ LogPipeCap \in Nat /\ BlockMax \in Nat /\ PieceMax \in Nat
  BY LogAssumption DEF LogInv, LogTypeOK
<1>2. CASE TailWrites
  <2>1. /\ logged < Len(logText) /\ Len(osPipe) < LogPipeCap
        /\ logged' = logged + 1 /\ osPipe' = Append(osPipe, logText[logged + 1])
        /\ UNCHANGED <<logText, tail, copier, block, follower, streamer, viewer, events>>
    BY <1>2 DEF TailWrites
  <2>2. logged' \in 0..Len(logText) /\ logText[logged + 1] \in Nat
    BY <1>1, <2>1
  <2>3. osPipe' \in Seq(Nat) /\ Len(osPipe') = Len(osPipe) + 1 /\ Len(osPipe) \in Nat
    BY <1>1, <2>1, <2>2
  <2>4. Len(osPipe') <= LogPipeCap
    BY <1>1, <2>1, <2>3
  <2>5. QED
    BY <1>1, <2>1, <2>2, <2>3, <2>4 DEF LogInv, LogTypeOK
<1>3. CASE CopyBlock
  <2>1. UNCHANGED <<logText, logged, tail, follower, streamer, viewer, events>>
    BY <1>3 DEF CopyBlock
  <2>2. /\ osPipe' \in {osPipe, AfterFirst(BlockMax, osPipe)}
        /\ block' \in {block, FirstOf(BlockMax, osPipe)}
        /\ copier' \in {"writing", "done"}
    BY <1>3 DEF CopyBlock
  <2>3. /\ osPipe' \in Seq(Nat) /\ Len(osPipe') <= LogPipeCap
        /\ block' \in Seq(Nat) /\ Len(block') <= BlockMax
    <3>1. Len(osPipe) <= LogPipeCap /\ Len(block) <= BlockMax
      BY <1>1 DEF LogTypeOK
    <3>2. /\ FirstOf(BlockMax, osPipe) \in Seq(Nat) /\ Len(FirstOf(BlockMax, osPipe)) <= BlockMax
          /\ AfterFirst(BlockMax, osPipe) \in Seq(Nat)
      BY <1>1, Pieces
    <3>3. Len(AfterFirst(BlockMax, osPipe)) <= LogPipeCap
      BY <1>1, <3>1, Pieces
    <3>4. QED
      BY <1>1, <2>2, <3>1, <3>2, <3>3
  <2>4. QED
    BY <1>1, <2>1, <2>2, <2>3 DEF LogInv, LogTypeOK
<1>4. CASE ReadPiece
  <2>1. /\ block' = AfterFirst(PieceMax, block) /\ streamer' = "checking"
        /\ UNCHANGED <<logText, logged, tail, osPipe, copier, follower, viewer>>
    BY <1>4 DEF ReadPiece
  <2>2. block' \in Seq(Nat) /\ Len(block') <= Len(block) /\ Len(block') \in Nat /\ Len(block) \in Nat
    BY <1>1, <2>1, Pieces
  <2>3. Len(block') <= BlockMax
    BY <1>1, <2>2 DEF LogTypeOK
  <2>4. QED
    BY <1>1, <2>1, <2>2, <2>3 DEF LogInv, LogTypeOK
<1>5. CASE BlockWritten
  <2>1. <<>> \in Seq(Nat) /\ Len(<<>>) <= BlockMax
    BY <1>1
  <2>2. QED
    BY <1>1, <1>5, <2>1 DEF BlockWritten, LogInv, LogTypeOK
<1>6. CASE TailExits \/ FollowReturns
  BY <1>1, <1>6 DEF TailExits, FollowReturns, LogInv, LogTypeOK
<1>7. CASE CheckContext \/ ReadEnd \/ ViewerLeaves
  BY <1>1, <1>7 DEF CheckContext, ReadEnd, ViewerLeaves, LogInv, LogTypeOK
<1>8. CASE UNCHANGED logVars
  BY <1>1, <1>8 DEF logVars, LogInv, LogTypeOK
<1>9. QED
  BY <1>2, <1>3, <1>4, <1>5, <1>6, <1>7, <1>8 DEF LogNext, Following, Streaming

-----------------------------------------------------------------------------
(* An answer of the assistant.                                             *)

\* The elements of a concatenation.
LEMMA NumbersJoined ==
  ASSUME NEW s \in Seq(Nat), NEW t \in Seq(Nat)
  PROVE  /\ s \o t \in Seq(Nat) /\ Len(s \o t) = Len(s) + Len(t)
         /\ \A i \in 1..Len(s) : (s \o t)[i] = s[i]
         /\ \A i \in 1..Len(t) : (s \o t)[Len(s) + i] = t[i]
OBVIOUS

\* Two sequences of numbers in two parts each.
LEMMA SameInParts ==
  ASSUME NEW s \in Seq(Nat), NEW t \in Seq(Nat), NEW a \in Nat, NEW b \in Nat,
         Len(s) = a + b, Len(t) = a + b,
         \A i \in 1..a : s[i] = t[i], \A i \in 1..b : s[a + i] = t[a + i]
  PROVE  s = t
<1>1. ASSUME NEW i \in 1..(a + b)
      PROVE  s[i] = t[i]
  <2>1. CASE i \in 1..a
    BY <2>1
  <2>2. CASE i \notin 1..a
    <3>1. i - a \in 1..b /\ a + (i - a) = i
      BY <2>2
    <3>2. QED
      BY <3>1
  <2>3. QED
    BY <2>1, <2>2
<1>2. QED
  BY <1>1, SeqEqual

LEMMA OneMoreToken ==
  ASSUME NEW s \in Seq(Nat), NEW x \in Nat
  PROVE  /\ Append(s, x) \in Seq(Nat)
         /\ Len(Append(s, x)) = Len(s) + 1 /\ Append(s, x)[Len(s) + 1] = x
         /\ \A i \in 1..Len(s) : Append(s, x)[i] = s[i]
OBVIOUS

LEMMA AppendOut ==
  ASSUME NEW s \in Seq(Nat), NEW t \in Seq(Nat), NEW x \in Nat
  PROVE  s \o Append(t, x) = Append(s \o t, x)
OBVIOUS

LEMMA TokenMoved ==
  ASSUME NEW s \in Seq(Nat), NEW t \in Seq(Nat), t # <<>>
  PROVE  Append(s, Head(t)) \o Tail(t) = s \o t
OBVIOUS

LEMMA TokenForwarded ==
  ASSUME NEW s \in Seq(Nat), NEW l \in Seq(Nat), NEW t \in Seq(Nat), t # <<>>
  PROVE  (s \o Append(l, Head(t))) \o Tail(t) = (s \o l) \o t
<1>1. Head(t) \in Nat /\ s \o l \in Seq(Nat)
  OBVIOUS
<1>2. s \o Append(l, Head(t)) = Append(s \o l, Head(t))
  BY <1>1, AppendOut, Zenon
<1>3. Append(s \o l, Head(t)) \o Tail(t) = (s \o l) \o t
  BY <1>1, TokenMoved, Zenon
<1>4. QED
  BY <1>2, <1>3, Zenon

LEMMA LinesShown ==
  ASSUME NEW s \in Seq(Nat), NEW l \in Seq(Nat), NEW m \in Seq(Nat)
  PROVE  s \o (l \o m) = (s \o l) \o m /\ s \o l \in Seq(Nat) /\ s \o <<>> = s
         /\ (s \o l = <<>> => s = <<>> /\ l = <<>>)
BY SMTT(30)

LEMMA LastToken ==
  ASSUME NEW l \in Seq(Nat), l # <<>>
  PROVE  \E f \in Seq(Nat), y \in Nat : l = Append(f, y)
<1>1. PICK n : n = Len(l) /\ n \in Nat \ {0}
  OBVIOUS
<1>2. PICK f : f = SubSeq(l, 1, n - 1)
  OBVIOUS
<1>3. f \in Seq(Nat) /\ l[n] \in Nat /\ l = Append(f, l[n])
  BY <1>1, <1>2
<1>4. QED
  BY <1>3

LEMMA SameEnds ==
  ASSUME NEW a \in Seq(Nat), NEW b \in Seq(Nat), NEW x \in Nat, NEW y \in Nat, Append(a, x) = Append(b, y)
  PROVE  a = b /\ x = y
<1>1. Len(Append(a, x)) = Len(a) + 1 /\ Append(a, x)[Len(a) + 1] = x
      /\ \A i \in 1..Len(a) : Append(a, x)[i] = a[i]
  BY OneMoreToken, Zenon
<1>2. Len(Append(b, y)) = Len(b) + 1 /\ Append(b, y)[Len(b) + 1] = y
      /\ \A i \in 1..Len(b) : Append(b, y)[i] = b[i]
  BY OneMoreToken, Zenon
<1>3. Len(a) = Len(b)
  <2>1. Len(a) + 1 = Len(b) + 1
    BY <1>1, <1>2, Zenon
  <2>2. QED
    BY <2>1
<1>4. x = y /\ \A i \in 1..Len(a) : a[i] = b[i]
  BY <1>1, <1>2, <1>3, Zenon
<1>5. QED
  BY <1>3, <1>4, SeqEqual

LEMMA SpokenOf ==
  ASSUME NEW f \in Seq(Nat), NEW y \in Nat
  PROVE  /\ Append(f, y) # <<>> /\ Spoken(<<>>) = <<>>
         /\ Spoken(Append(f, y)) = IF y = Done THEN f ELSE Append(f, y)
<1>1. Append(f, y) # <<>> /\ Last(Append(f, y)) = y /\ Front(Append(f, y)) = f
  BY DEF Last, Front
<1>2. Spoken(<<>>) = <<>>
  BY DEF Spoken
<1>3. QED
  BY <1>1, <1>2, Zenon DEF Spoken

LEMMA LineOf ==
  ASSUME NEW s \in Seq(Nat), NEW f \in Seq(Nat), NEW y \in Nat, NEW m \in Seq(Nat)
  PROVE  \E i \in 1..Len((s \o Append(f, y)) \o m) : ((s \o Append(f, y)) \o m)[i] = y
<1>1. PICK u, v, w : u = s \o f /\ v = Append(u, y) /\ w = v \o m
  BY Zenon
<1>2. s \o Append(f, y) = v /\ u \in Seq(Nat)
  <2>1. s \o f \in Seq(Nat)
    OBVIOUS
  <2>2. s \o Append(f, y) = Append(s \o f, y)
    BY AppendOut, Zenon
  <2>3. QED
    BY <1>1, <2>1, <2>2, Zenon
<1>3. v \in Seq(Nat) /\ Len(v) = Len(u) + 1 /\ v[Len(u) + 1] = y
  <2>1. Append(u, y) \in Seq(Nat) /\ Len(Append(u, y)) = Len(u) + 1 /\ Append(u, y)[Len(u) + 1] = y
    BY <1>2, OneMoreToken, Zenon
  <2>2. QED
    BY <1>1, <2>1, Zenon
<1>4. Len(w) = Len(v) + Len(m) /\ \A i \in 1..Len(v) : w[i] = v[i]
  <2>1. Len(v \o m) = Len(v) + Len(m) /\ \A i \in 1..Len(v) : (v \o m)[i] = v[i]
    BY <1>3, NumbersJoined, Zenon
  <2>2. QED
    BY <1>1, <2>1, Zenon
<1>5. Len(u) + 1 \in 1..Len(v) /\ Len(u) + 1 \in 1..Len(w)
  <2>1. Len(u) \in Nat /\ Len(m) \in Nat
    BY <1>2
  <2>2. QED
    BY <1>3, <1>4, <2>1
<1>6. w[Len(u) + 1] = y
  BY <1>3, <1>4, <1>5, Zenon
<1>7. QED
  BY <1>1, <1>2, <1>5, <1>6, Zenon

LEMMA ShownFirst ==
  ASSUME NEW s \in Seq(Nat), NEW l \in Seq(Nat), NEW t \in Seq(Nat)
  PROVE  Len(s) <= Len((s \o l) \o t) /\ \A i \in 1..Len(s) : s[i] = ((s \o l) \o t)[i]
<1>1. PICK u : u = s \o l
  OBVIOUS
<1>2. u \in Seq(Nat) /\ Len(u) = Len(s) + Len(l) /\ \A i \in 1..Len(s) : u[i] = s[i]
  BY <1>1, NumbersJoined, Zenon
<1>3. /\ u \o t \in Seq(Nat) /\ Len(u \o t) = Len(u) + Len(t)
      /\ \A i \in 1..Len(u) : (u \o t)[i] = u[i]
  BY <1>2, NumbersJoined, Zenon
<1>4. Len(s) <= Len(u \o t) /\ \A i \in 1..Len(s) : i \in 1..Len(u)
  BY <1>2, <1>3
<1>5. QED
  BY <1>1, <1>2, <1>3, <1>4, Zenon

Piece == [half : {1, 2}, token : Nat]

ChatShape ==
  /\ server \in {"calling", "reading", "failed", "closed", "answered"}
  /\ remote \in [tokens : 0..MaxBody, ends : {"open", "done", "error", "refused", "cut"}]
  /\ body \in Seq(Nat) /\ wire \in Seq(Piece)
  /\ tokens \in Seq(Nat) /\ Len(tokens) <= ChanSize
  /\ page \in [pc : {"reading", "idle", "closed"}, kept : Seq(Piece), text : Seq(Nat)]
  /\ Len(page.kept) <= 1

\* The lines b of a body go on after token k and up to token n.
Follows(b, k, n) ==
  /\ \A i \in 1..Len(b) : b[i] = 0 \/ b[i] \in (k + 1)..n
  /\ \A i, j \in 1..Len(b) : i < j /\ b[i] # 0 /\ b[j] # 0 => b[i] < b[j]
  /\ \A v \in (k + 1)..n : \E i \in 1..Len(b) : b[i] = v

\* What has left the body for good: k tokens, and perhaps the report of an error.
LeftTheBody(s, k) ==
  /\ \A i \in 1..k : s[i] = i
  /\ \/ server \in {"calling", "reading", "failed"} /\ Len(s) = k /\ Follows(body, k, remote.tokens)
     \/ server \in {"closed", "answered"} /\ Len(s) = k /\ k = remote.tokens /\ remote.ends # "open"
     \/ server \in {"closed", "answered"} /\ Len(s) = k + 1 /\ s[k + 1] = Mark

\* It is shown, on the wire or in the channel; the last line follows when the handler ends.
OnTheWay(s, way) ==
  /\ \E m \in Nat : Len(way) = 2 * m
  /\ \/ server # "answered" /\ (page.text \o Whole(way)) \o tokens = s
     \/ server = "answered" /\ tokens = <<>> /\ Whole(way) = <<>> /\ page.text = s
     \/ server = "answered" /\ tokens = <<>> /\ \E f \in Seq(Nat) : Whole(way) = Append(f, Done) /\ page.text \o f = s

Along ==
  /\ \E s \in Seq(Nat), k \in 0..remote.tokens : LeftTheBody(s, k) /\ OnTheWay(s, page.kept \o wire)
  /\ page.pc = "idle" => server = "answered" /\ wire = <<>>

\* What a page shows is the beginning of the answer, marked or not.
TextSound ==
  \E n \in 0..remote.tokens :
    /\ \A i \in 1..n : page.text[i] = i
    /\ Len(page.text) = n \/ (Len(page.text) = n + 1 /\ page.text[n + 1] = Mark)

ChatInv == ChatShape /\ IF Gone THEN TextSound ELSE Along

\* The lines that pieces make.
LEMMA LinesOfPieces ==
  ASSUME NEW way \in Seq(Piece), NEW m \in Nat, Len(way) = 2 * m \/ Len(way) = 2 * m + 1
  PROVE  /\ Len(way) \div 2 = m
         /\ Whole(way) \in Seq(Nat) /\ Len(Whole(way)) = m
         /\ \A i \in 1..m : 2 * i \in 1..Len(way) /\ Whole(way)[i] = way[2 * i].token
<1>1. Len(way) \in Nat /\ Len(way) \div 2 = m
  OBVIOUS
<1>2. \A i \in 1..m : 2 * i \in 1..Len(way)
  BY <1>1
<1>3. \A i \in 1..m : way[2 * i].token \in Nat
  <2> SUFFICES ASSUME NEW i \in 1..m PROVE way[2 * i].token \in Nat
    OBVIOUS
  <2>1. way[2 * i] \in Piece
    BY <1>2
  <2>2. QED
    BY <2>1 DEF Piece
<1>4. Whole(way) = [i \in 1..m |-> way[2 * i].token]
  BY <1>1 DEF Whole
<1>5. QED
  BY <1>1, <1>2, <1>3, <1>4

LEMMA PiecesJoined ==
  ASSUME NEW s \in Seq(Piece), NEW t \in Seq(Piece)
  PROVE  /\ s \o t \in Seq(Piece) /\ Len(s \o t) = Len(s) + Len(t)
         /\ \A i \in 1..Len(s) : (s \o t)[i] = s[i]
         /\ \A i \in 1..Len(t) : (s \o t)[Len(s) + i] = t[i]
OBVIOUS

LEMMA TokenToTheWire ==
  ASSUME NEW way \in Seq(Piece), NEW m \in Nat, Len(way) = 2 * m, NEW x \in Nat
  PROVE  /\ way \o Halves(x) \in Seq(Piece) /\ Len(way \o Halves(x)) = 2 * (m + 1)
         /\ Whole(way \o Halves(x)) = Append(Whole(way), x)
<1>1. PICK new, two, before, after, longer :
        /\ new = way \o two /\ two = Halves(x) /\ before = Whole(way) /\ after = Whole(new)
        /\ longer = Append(before, x)
  OBVIOUS
<1>2. two \in Seq(Piece) /\ Len(two) = 2 /\ two[2].token = x
  BY <1>1 DEF Halves, Piece
<1>3. /\ 2 * m \in Nat /\ 2 * m + 2 = 2 * (m + 1) /\ m + 1 \in Nat /\ 2 \in 1..2 /\ 2 \in Nat
  OBVIOUS
<1>4. /\ new \in Seq(Piece) /\ Len(new) = 2 * m + 2
      /\ \A i \in 1..(2 * m) : new[i] = way[i]
      /\ new[2 * m + 2] = two[2]
  <2>1. PICK a : a = 2 * m /\ a \in Nat /\ Len(way) = a
    BY <1>3
  <2>2. PICK b : b = 2 /\ b \in Nat /\ Len(two) = b
    BY <1>2, <1>3
  <2>3. new = way \o two /\ two \in Seq(Piece)
    BY <1>1, <1>2
  <2>4. /\ new \in Seq(Piece) /\ Len(new) = a + b
        /\ \A i \in 1..a : new[i] = way[i]
        /\ \A i \in 1..b : new[a + i] = two[i]
    <3>1. /\ way \o two \in Seq(Piece) /\ Len(way \o two) = Len(way) + Len(two)
          /\ \A i \in 1..Len(way) : (way \o two)[i] = way[i]
          /\ \A i \in 1..Len(two) : (way \o two)[Len(way) + i] = two[i]
      BY <2>3, PiecesJoined, Zenon
    <3>2. QED
      BY <2>1, <2>2, <2>3, <3>1
  <2>5. QED
    BY <1>3, <2>1, <2>2, <2>4
<1>5. /\ after \in Seq(Nat) /\ Len(after) = m + 1
      /\ \A i \in 1..(m + 1) : after[i] = new[2 * i].token
  <2>1. PICK n : n = m + 1 /\ n \in Nat /\ Len(new) = 2 * n
    BY <1>3, <1>4
  <2>2. /\ after \in Seq(Nat) /\ Len(after) = n
        /\ \A i \in 1..n : after[i] = new[2 * i].token
    BY <1>1, <1>4, <2>1, LinesOfPieces
  <2>3. QED
    BY <2>1, <2>2
<1>6. /\ before \in Seq(Nat) /\ Len(before) = m
      /\ \A i \in 1..m : 2 * i \in 1..(2 * m) /\ before[i] = way[2 * i].token
  BY <1>1, LinesOfPieces
<1>7. /\ longer \in Seq(Nat) /\ Len(longer) = m + 1 /\ longer[m + 1] = x
      /\ \A i \in 1..m : longer[i] = before[i]
  BY <1>1, <1>6
<1>8. \A i \in 1..m : after[i] = longer[i]
  <2> SUFFICES ASSUME NEW i \in 1..m PROVE after[i] = longer[i]
    OBVIOUS
  <2>1. i \in 1..(m + 1)
    OBVIOUS
  <2>2. QED
    BY <1>4, <1>5, <1>6, <1>7, <2>1, ZenonT(60)
<1>9. \A i \in 1..1 : after[m + i] = longer[m + i]
  <2>1. m + 1 \in 1..(m + 1)
    OBVIOUS
  <2>2. after[m + 1] = new[2 * (m + 1)].token
    BY <1>5, <2>1
  <2>3. after[m + 1] = longer[m + 1]
    BY <1>2, <1>3, <1>4, <1>7, <2>2
  <2>4. \A i \in 1..1 : i = 1
    OBVIOUS
  <2>5. QED
    BY <2>3, <2>4
<1>10. after = longer
  <2>1. PICK b : b = 1 /\ b \in Nat
    OBVIOUS
  <2>2. /\ Len(after) = m + b /\ Len(longer) = m + b
        /\ \A i \in 1..m : after[i] = longer[i]
        /\ \A i \in 1..b : after[m + i] = longer[m + i]
    BY <1>5, <1>7, <1>8, <1>9, <2>1
  <2>3. after \in Seq(Nat) /\ longer \in Seq(Nat)
    BY <1>5, <1>7
  <2>4. QED
    BY <2>1, <2>2, <2>3, SameInParts
<1>11. QED
  BY <1>1, <1>3, <1>4, <1>10

\* From its place d on, t goes on as s.
Agrees(s, t, d) == \A i \in 1..Len(s) : s[i] = t[d + i]

\* The pieces of a way, those that the page has and those that rest.
Cut(taken, rest, way) ==
  \E q \in Nat : /\ Len(taken) = 2 * q \/ Len(taken) = 2 * q + 1
                 /\ Len(taken) <= Len(way) /\ Agrees(taken, way, 0)
                 /\ 2 * q + Len(rest) = Len(way) /\ Agrees(rest, way, 2 * q)

\* A page that has read some of the pieces: the lines they complete, and the others.
LEMMA LinesRead ==
  ASSUME NEW way \in Seq(Piece), \E m \in Nat : Len(way) = 2 * m,
         NEW taken \in Seq(Piece), NEW rest \in Seq(Piece), Cut(taken, rest, way)
  PROVE  /\ \E d \in Nat : Len(rest) = 2 * d
         /\ Whole(taken) \in Seq(Nat) /\ Whole(rest) \in Seq(Nat)
         /\ Whole(way) = Whole(taken) \o Whole(rest)
<1> PICK m \in Nat : Len(way) = 2 * m
  OBVIOUS
<1> PICK q \in Nat : /\ Len(taken) = 2 * q \/ Len(taken) = 2 * q + 1
                    /\ Len(taken) <= Len(way) /\ Agrees(taken, way, 0)
                    /\ 2 * q + Len(rest) = Len(way) /\ Agrees(rest, way, 2 * q)
  BY DEF Cut
<1>1. PICK d : d = m - q /\ d \in Nat /\ Len(rest) = 2 * d /\ m = q + d
  <2>1. Len(rest) \in Nat /\ Len(taken) \in Nat
    OBVIOUS
  <2>2. m - q \in Nat /\ Len(rest) = 2 * (m - q) /\ m = q + (m - q)
    BY <2>1
  <2>3. QED
    BY <2>2
<1>2. PICK l, l1, l2, both : l = Whole(way) /\ l1 = Whole(taken) /\ l2 = Whole(rest) /\ both = l1 \o l2
  OBVIOUS
<1>3. /\ l \in Seq(Nat) /\ Len(l) = m
      /\ \A i \in 1..m : l[i] = way[2 * i].token
  BY <1>2, LinesOfPieces
<1>4. /\ l1 \in Seq(Nat) /\ Len(l1) = q
      /\ \A i \in 1..q : 2 * i \in 1..Len(taken) /\ l1[i] = taken[2 * i].token
  BY <1>2, LinesOfPieces
<1>5. /\ l2 \in Seq(Nat) /\ Len(l2) = d
      /\ \A i \in 1..d : 2 * i \in 1..Len(rest) /\ l2[i] = rest[2 * i].token
  BY <1>1, <1>2, LinesOfPieces
<1>6. /\ both \in Seq(Nat) /\ Len(both) = q + d
      /\ \A i \in 1..q : both[i] = l1[i]
      /\ \A i \in 1..d : both[q + i] = l2[i]
  <2>1. l1 \in Seq(Nat) /\ Len(l1) = q /\ l2 \in Seq(Nat) /\ Len(l2) = d /\ both = l1 \o l2
    BY <1>1, <1>2, <1>4, <1>5
  <2>2. /\ l1 \o l2 \in Seq(Nat) /\ Len(l1 \o l2) = Len(l1) + Len(l2)
        /\ \A i \in 1..Len(l1) : (l1 \o l2)[i] = l1[i]
        /\ \A i \in 1..Len(l2) : (l1 \o l2)[Len(l1) + i] = l2[i]
    BY <1>4, <1>5, NumbersJoined, Zenon
  <2>3. QED
    BY <2>1, <2>2
<1>7. \A i \in 1..q : l[i] = both[i]
  <2> SUFFICES ASSUME NEW i \in 1..q PROVE l[i] = both[i]
    OBVIOUS
  <2>1. i \in 1..m
    BY <1>1
  <2>2. taken[2 * i] = way[0 + 2 * i]
    BY <1>4 DEF Agrees
  <2>3. 0 + 2 * i = 2 * i
    OBVIOUS
  <2>4. l[i] = way[2 * i].token
    BY <1>3, <2>1
  <2>5. both[i] = taken[2 * i].token
    BY <1>4, <1>6
  <2>6. QED
    BY <2>2, <2>3, <2>4, <2>5
<1>8. \A i \in 1..d : l[q + i] = both[q + i]
  <2> SUFFICES ASSUME NEW i \in 1..d PROVE l[q + i] = both[q + i]
    OBVIOUS
  <2>1. q + i \in 1..m /\ 2 * (q + i) = 2 * q + 2 * i
    BY <1>1
  <2>2. rest[2 * i] = way[2 * q + 2 * i]
    BY <1>5 DEF Agrees
  <2>3. l[q + i] = way[2 * q + 2 * i].token
    BY <1>3, <2>1
  <2>4. both[q + i] = rest[2 * i].token
    BY <1>5, <1>6
  <2>5. QED
    BY <2>2, <2>3, <2>4
<1>9. l = both
  BY <1>1, <1>3, <1>6, <1>7, <1>8, SameInParts, ZenonT(60)
<1>10. QED
  BY <1>1, <1>2, <1>4, <1>5, <1>9

\* The part of a sequence of pieces that has been read, and the part that has not.
LEMMA PiecesCut ==
  ASSUME NEW s \in Seq(Piece), NEW n \in 0..Len(s)
  PROVE  /\ SubSeq(s, 1, n) \in Seq(Piece) /\ Len(SubSeq(s, 1, n)) = n
         /\ \A i \in 1..n : SubSeq(s, 1, n)[i] = s[i]
         /\ SubSeq(s, n + 1, Len(s)) \in Seq(Piece) /\ Len(SubSeq(s, n + 1, Len(s))) = Len(s) - n
         /\ \A i \in 1..(Len(s) - n) : SubSeq(s, n + 1, Len(s))[i] = s[n + i]
OBVIOUS

LEMMA Halved ==
  ASSUME NEW k \in Nat
  PROVE  \E q \in Nat : (k % 2 = 0 /\ k = 2 * q) \/ (k % 2 = 1 /\ k = 2 * q + 1)
<1>1. k \div 2 \in Nat /\ ((k % 2 = 0 /\ k = 2 * (k \div 2)) \/ (k % 2 = 1 /\ k = 2 * (k \div 2) + 1))
  OBVIOUS
<1>2. QED
  BY <1>1

\* The pieces that have been read, with the end of a line before them, begin those on the
\* way; the others end them.
Got(kept, sent, n) == kept \o SubSeq(sent, 1, n)
More(sent, n) == SubSeq(sent, n + 1, Len(sent))

LEMMA ReadPart ==
  ASSUME NEW kept \in Seq(Piece), NEW sent \in Seq(Piece), NEW n \in 0..Len(sent)
  PROVE  /\ Got(kept, sent, n) \in Seq(Piece) /\ kept \o sent \in Seq(Piece) /\ More(sent, n) \in Seq(Piece)
         /\ Len(Got(kept, sent, n)) + Len(More(sent, n)) = Len(kept \o sent)
         /\ Len(Got(kept, sent, n)) <= Len(kept \o sent)
         /\ Agrees(Got(kept, sent, n), kept \o sent, 0)
         /\ Agrees(More(sent, n), kept \o sent, Len(Got(kept, sent, n)))
<1>1. PICK first, taken, way, more :
        /\ first = SubSeq(sent, 1, n) /\ taken = Got(kept, sent, n) /\ way = kept \o sent
        /\ more = More(sent, n)
  OBVIOUS
<1>2. /\ first \in Seq(Piece) /\ Len(first) = n /\ \A i \in 1..n : first[i] = sent[i]
      /\ more \in Seq(Piece) /\ Len(more) = Len(sent) - n /\ \A i \in 1..(Len(sent) - n) : more[i] = sent[n + i]
  BY <1>1, PiecesCut DEF More
<1>3. /\ kept \o first \in Seq(Piece) /\ Len(kept \o first) = Len(kept) + Len(first)
      /\ \A i \in 1..Len(kept) : (kept \o first)[i] = kept[i]
      /\ \A i \in 1..Len(first) : (kept \o first)[Len(kept) + i] = first[i]
  BY <1>2, PiecesJoined, Zenon
<1>4. /\ kept \o sent \in Seq(Piece) /\ Len(kept \o sent) = Len(kept) + Len(sent)
      /\ \A i \in 1..Len(kept) : (kept \o sent)[i] = kept[i]
      /\ \A i \in 1..Len(sent) : (kept \o sent)[Len(kept) + i] = sent[i]
  BY PiecesJoined, Zenon
<1>5. PICK c, l : c = Len(kept) /\ l = Len(sent) /\ c \in Nat /\ l \in Nat /\ n \in 0..l
  <2>1. Len(kept) \in Nat /\ Len(sent) \in Nat
    OBVIOUS
  <2>2. QED
    BY <2>1
<1>6. /\ taken \in Seq(Piece) /\ Len(taken) = c + n /\ way \in Seq(Piece) /\ Len(way) = c + l
      /\ Len(more) = l - n
      /\ \A i \in 1..c : taken[i] = kept[i] /\ way[i] = kept[i]
      /\ \A i \in 1..n : taken[c + i] = sent[i]
      /\ \A i \in 1..l : way[c + i] = sent[i]
      /\ \A i \in 1..(l - n) : more[i] = sent[n + i]
  <2>1. taken = kept \o first
    BY <1>1 DEF Got
  <2>2. QED
    BY <1>1, <1>2, <1>3, <1>4, <1>5, <2>1
<1>7. ASSUME NEW i \in 1..(c + n)
      PROVE  taken[i] = way[0 + i]
  <2>1. 0 + i = i
    OBVIOUS
  <2>2. CASE i \in 1..c
    BY <1>6, <2>1, <2>2
  <2>3. CASE i \notin 1..c
    <3>1. PICK j : j \in 1..n /\ j \in 1..l /\ i = c + j
      <4>1. i - c \in 1..n /\ i - c \in 1..l /\ i = c + (i - c)
        BY <1>5, <2>3
      <4>2. QED
        BY <4>1
    <3>2. taken[c + j] = sent[j] /\ way[c + j] = sent[j]
      BY <1>6, <3>1
    <3>3. QED
      BY <2>1, <3>1, <3>2
  <2>4. QED
    BY <2>2, <2>3
<1>8. ASSUME NEW i \in 1..(l - n)
      PROVE  more[i] = way[(c + n) + i]
  <2>1. n + i \in 1..l /\ (c + n) + i = c + (n + i)
    BY <1>5
  <2>2. QED
    BY <1>6, <2>1
<1>9. Agrees(taken, way, 0) /\ Agrees(more, way, Len(taken))
  BY <1>6, <1>7, <1>8 DEF Agrees
<1>10. Len(taken) + Len(more) = Len(way) /\ Len(taken) <= Len(way)
  <2>1. (c + n) + (l - n) = c + l /\ c + n <= c + l
    BY <1>5
  <2>2. QED
    BY <1>6, <2>1
<1>11. QED
  BY <1>1, <1>2, <1>6, <1>9, <1>10, Zenon

LEMMA ElementIsPiece ==
  ASSUME NEW s \in Seq(Piece), NEW i \in 1..Len(s)
  PROVE  s[i] \in Piece
OBVIOUS

LEMMA OnePiece ==
  ASSUME NEW x \in Piece
  PROVE  <<x>> \in Seq(Piece) /\ Len(<<x>>) = 1 /\ <<x>>[1] = x
OBVIOUS

\* What is left when nothing is kept, and when a piece of a line is.
LEMMA NothingLeft ==
  ASSUME NEW more \in Seq(Piece)
  PROVE  <<>> \in Seq(Piece) /\ Len(<<>>) = 0 /\ <<>> \o more = more
OBVIOUS

LEMMA LastLeft ==
  ASSUME NEW taken \in Seq(Piece), NEW way, Agrees(taken, way, 0), NEW d \in Nat, Len(taken) = d + 1,
         NEW more \in Seq(Piece), Agrees(more, way, d + 1)
  PROVE  /\ <<Last(taken)>> \in Seq(Piece) /\ Len(<<Last(taken)>>) = 1
         /\ <<Last(taken)>> \o more \in Seq(Piece) /\ Len(<<Last(taken)>> \o more) = 1 + Len(more)
         /\ Agrees(<<Last(taken)>> \o more, way, d)
<1>1. PICK x, left, rest : x = taken[d + 1] /\ left = <<Last(taken)>> /\ rest = left \o more
  OBVIOUS
<1>2. d + 1 \in 1..Len(taken) /\ d + 1 = 0 + (d + 1)
  OBVIOUS
<1>3. x \in Piece /\ left = <<x>> /\ x = way[d + 1]
  <2>1. x \in Piece
    BY <1>1, <1>2, ElementIsPiece
  <2>2. left = <<x>>
    BY <1>1 DEF Last
  <2>3. x = way[d + 1]
    BY <1>1, <1>2 DEF Agrees
  <2>4. QED
    BY <2>1, <2>2, <2>3
<1>4. left \in Seq(Piece) /\ Len(left) = 1 /\ left[1] = x
  BY <1>3, OnePiece
<1>5. /\ left \o more \in Seq(Piece) /\ Len(left \o more) = Len(left) + Len(more)
      /\ \A i \in 1..Len(left) : (left \o more)[i] = left[i]
      /\ \A i \in 1..Len(more) : (left \o more)[Len(left) + i] = more[i]
  BY <1>4, PiecesJoined, Zenon
<1>6. PICK n : n = Len(more) /\ n \in Nat
  OBVIOUS
<1>7. rest \in Seq(Piece) /\ Len(rest) = 1 + n /\ rest[1] = x /\ \A i \in 1..n : rest[1 + i] = more[i]
  <2>1. 1 \in 1..1
    OBVIOUS
  <2>2. QED
    BY <1>1, <1>4, <1>5, <1>6, <2>1
<1>8. ASSUME NEW i \in 1..(1 + n)
      PROVE  rest[i] = way[d + i]
  <2>1. CASE i = 1
    BY <1>3, <1>7, <2>1
  <2>2. CASE i # 1
    <3>1. PICK j : j \in 1..n /\ i = 1 + j
      <4>1. i - 1 \in 1..n /\ i = 1 + (i - 1)
        BY <1>6, <2>2
      <4>2. QED
        BY <4>1
    <3>2. d + i = (d + 1) + j
      BY <3>1
    <3>3. more[j] = way[(d + 1) + j]
      BY <1>6, <3>1 DEF Agrees
    <3>4. QED
      BY <1>7, <3>1, <3>2, <3>3
  <2>3. QED
    BY <2>1, <2>2
<1>9. Agrees(rest, way, d)
  BY <1>7, <1>8 DEF Agrees
<1>10. QED
  BY <1>1, <1>4, <1>6, <1>7, <1>9

\* A line that is not complete is kept.
Left(taken) == IF Len(taken) % 2 = 1 THEN <<Last(taken)>> ELSE <<>>

LEMMA LeftCases ==
  ASSUME NEW taken \in Seq(Piece)
  PROVE  \E q \in Nat : (Left(taken) = <<>> /\ Len(taken) = 2 * q) \/ (Left(taken) = <<Last(taken)>> /\ Len(taken) = 2 * q + 1)
<1>1. PICK k : k = Len(taken) /\ k \in Nat
  OBVIOUS
<1>2. PICK q \in Nat : (k % 2 = 0 /\ k = 2 * q) \/ (k % 2 = 1 /\ k = 2 * q + 1)
  BY <1>1, Halved
<1>3. QED
  BY <1>1, <1>2 DEF Left

LEMMA PageLeft ==
  ASSUME NEW taken \in Seq(Piece), NEW way, Agrees(taken, way, 0),
         NEW more \in Seq(Piece), Agrees(more, way, Len(taken))
  PROVE  /\ Left(taken) \in Seq(Piece) /\ Len(Left(taken)) <= 1 /\ Left(taken) \o more \in Seq(Piece)
         /\ \E q \in Nat : /\ Len(taken) = 2 * q \/ Len(taken) = 2 * q + 1
                           /\ 2 * q + Len(Left(taken) \o more) = Len(taken) + Len(more)
                           /\ Agrees(Left(taken) \o more, way, 2 * q)
<1>1. PICK q \in Nat : \/ Left(taken) = <<>> /\ Len(taken) = 2 * q
                       \/ Left(taken) = <<Last(taken)>> /\ Len(taken) = 2 * q + 1
  BY LeftCases
<1>2. PICK d, left, rest : d = 2 * q /\ left = Left(taken) /\ rest = left \o more
  OBVIOUS
<1>3. PICK n : n = Len(more) /\ n \in Nat
  OBVIOUS
<1>4. d \in Nat
  BY <1>2
<1>5. /\ left \in Seq(Piece) /\ Len(left) <= 1 /\ rest \in Seq(Piece)
      /\ d + Len(rest) = Len(taken) + n /\ Agrees(rest, way, d)
  <2>1. CASE left = <<>> /\ Len(taken) = d
    <3>1. left \in Seq(Piece) /\ Len(left) = 0 /\ rest = more
      BY <1>2, <2>1, NothingLeft, Zenon
    <3>2. Agrees(rest, way, d)
      BY <2>1, <3>1, Zenon
    <3>3. Len(left) <= 1
      BY <3>1
    <3>4. d + Len(rest) = Len(taken) + n
      BY <1>3, <2>1, <3>1, Zenon
    <3>5. QED
      BY <3>1, <3>2, <3>3, <3>4
  <2>2. CASE left = <<Last(taken)>> /\ Len(taken) = d + 1
    <3>1. Agrees(more, way, d + 1)
      BY <2>2, Zenon
    <3>2. /\ left \in Seq(Piece) /\ Len(left) = 1 /\ rest \in Seq(Piece)
          /\ Len(rest) = 1 + Len(more) /\ Agrees(rest, way, d)
      <4>1. Len(taken) = d + 1
        BY <2>2
      <4>2. /\ <<Last(taken)>> \in Seq(Piece) /\ Len(<<Last(taken)>>) = 1
            /\ <<Last(taken)>> \o more \in Seq(Piece) /\ Len(<<Last(taken)>> \o more) = 1 + Len(more)
            /\ Agrees(<<Last(taken)>> \o more, way, d)
        BY <1>4, <3>1, <4>1, LastLeft
      <4>3. QED
        BY <1>2, <2>2, <4>2, Zenon
    <3>3. Len(left) <= 1
      BY <3>2
    <3>4. d + (1 + n) = (d + 1) + n
      BY <1>3, <1>4
    <3>5. QED
      BY <1>3, <2>2, <3>2, <3>3, <3>4, Zenon
  <2>3. QED
    BY <1>1, <1>2, <2>1, <2>2, Zenon
<1>6. QED
  BY <1>1, <1>2, <1>3, <1>5, Zenon

\* What the page does with n pieces.
LEMMA PageRead ==
  ASSUME ChatShape, NEW n \in 1..(2 * ChanSize + 2), PageReads(n)
  PROVE  /\ page'.kept \in Seq(Piece) /\ Len(page'.kept) <= 1 /\ wire' \in Seq(Piece)
         /\ page' = [pc |-> page.pc, kept |-> page'.kept, text |-> page'.text]
         /\ \E taken \in Seq(Piece), rest \in Seq(Piece), way \in Seq(Piece) :
              /\ way = page.kept \o wire /\ rest = page'.kept \o wire'
              /\ page'.text = page.text \o Spoken(Whole(taken)) /\ Cut(taken, rest, way)
<1>1. PICK kept, sent, more, taken, way :
        /\ kept = page.kept /\ sent = wire /\ more = More(sent, n)
        /\ taken = Got(kept, sent, n) /\ way = kept \o sent
  OBVIOUS
<1>2. /\ kept \in Seq(Piece) /\ sent \in Seq(Piece)
      /\ page = [pc |-> page.pc, kept |-> page.kept, text |-> page.text]
  BY <1>1 DEF ChatShape
<1>3. n \in 0..Len(sent)
  <2>1. n <= Len(sent) /\ n \in Nat
    BY <1>1, ChatAssumption DEF PageReads
  <2>2. Len(sent) \in Nat
    BY <1>2
  <2>3. QED
    BY <2>1, <2>2
<1>4. /\ taken \in Seq(Piece) /\ way \in Seq(Piece) /\ more \in Seq(Piece)
      /\ Len(taken) + Len(more) = Len(way) /\ Len(taken) <= Len(way)
      /\ Agrees(taken, way, 0) /\ Agrees(more, way, Len(taken))
  <2>1. /\ Got(kept, sent, n) \in Seq(Piece) /\ kept \o sent \in Seq(Piece) /\ More(sent, n) \in Seq(Piece)
        /\ Len(Got(kept, sent, n)) + Len(More(sent, n)) = Len(kept \o sent)
        /\ Len(Got(kept, sent, n)) <= Len(kept \o sent)
        /\ Agrees(Got(kept, sent, n), kept \o sent, 0)
        /\ Agrees(More(sent, n), kept \o sent, Len(Got(kept, sent, n)))
    BY <1>2, <1>3, ReadPart
  <2>2. QED
    BY <1>1, <2>1, Zenon
<1>5. PICK left, rest, text : left = Left(taken) /\ rest = left \o more /\ text = page.text \o Spoken(Whole(taken))
  OBVIOUS
<1>6. /\ left \in Seq(Piece) /\ Len(left) <= 1 /\ rest \in Seq(Piece)
      /\ \E q \in Nat : /\ Len(taken) = 2 * q \/ Len(taken) = 2 * q + 1
                        /\ 2 * q + Len(rest) = Len(taken) + Len(more)
                        /\ Agrees(rest, way, 2 * q)
  BY <1>4, <1>5, PageLeft, Zenon
<1>7. page' = [page EXCEPT !.kept = left, !.text = text] /\ wire' = more
  BY <1>1, <1>5 DEF PageReads, Left, Got, More
<1>8. page'.kept = left /\ page'.text = text /\ page' = [pc |-> page.pc, kept |-> left, text |-> text]
  BY <1>2, <1>7
<1>9. QED
  <2>1. Cut(taken, rest, way)
    <3>1. PICK q \in Nat : /\ Len(taken) = 2 * q \/ Len(taken) = 2 * q + 1
                           /\ 2 * q + Len(rest) = Len(taken) + Len(more)
                           /\ Agrees(rest, way, 2 * q)
      BY <1>6
    <3>2. 2 * q + Len(rest) = Len(way)
      BY <1>4, <3>1
    <3>3. QED
      BY <1>4, <3>1, <3>2, Zenon DEF Cut
  <2>2. way = page.kept \o wire /\ rest = page'.kept \o wire'
    BY <1>1, <1>5, <1>7, <1>8
  <2>3. \E g \in Seq(Piece), r \in Seq(Piece), w \in Seq(Piece) :
              /\ w = page.kept \o wire /\ r = page'.kept \o wire'
              /\ page'.text = page.text \o Spoken(Whole(g)) /\ Cut(g, r, w)
    BY <1>4, <1>5, <1>6, <1>8, <2>1, <2>2, Zenon
  <2>4. QED
    BY <1>4, <1>6, <1>7, <1>8, <2>3, Zenon

LEMMA ChatTypes ==
  ASSUME ChatShape
  PROVE  /\ remote.tokens \in Nat /\ remote.tokens <= MaxBody /\ MaxBody \in Nat /\ ChanSize \in Nat
         /\ remote = [tokens |-> remote.tokens, ends |-> remote.ends]
         /\ remote.ends \in {"open", "done", "error", "refused", "cut"}
         /\ page = [pc |-> page.pc, kept |-> page.kept, text |-> page.text]
         /\ page.pc \in {"reading", "idle", "closed"} /\ page.kept \in Seq(Piece) /\ page.text \in Seq(Nat)
         /\ Mark \in Nat /\ Done \in Nat /\ Done # Mark /\ remote.tokens < Mark /\ remote.tokens < Done
BY ChatAssumption DEF ChatShape, Mark, Done

LEMMA SpokenTyped ==
  ASSUME NEW l \in Seq(Nat)
  PROVE  Spoken(l) \in Seq(Nat)
<1>1. CASE l = <<>>
  BY <1>1, SpokenOf
<1>2. CASE l # <<>>
  <2>1. PICK f \in Seq(Nat), y \in Nat : l = Append(f, y)
    BY <1>2, LastToken
  <2>2. Spoken(l) = IF y = Done THEN f ELSE l
    BY <2>1, SpokenOf
  <2>3. QED
    BY <2>2
<1>3. QED
  BY <1>1, <1>2

LEMMA HalvesTyped ==
  ASSUME NEW w \in Seq(Piece), NEW x \in Nat
  PROVE  w \o Halves(x) \in Seq(Piece)
BY DEF Halves, Piece

LEMMA ChatShapeStep == ChatShape /\ [ChatNext]_chatVars => ChatShape'
<1> SUFFICES ASSUME ChatShape, [ChatNext]_chatVars
             PROVE  ChatShape'
  OBVIOUS
<1>1. /\ server \in {"calling", "reading", "failed", "closed", "answered"}
      /\ remote \in [tokens : 0..MaxBody, ends : {"open", "done", "error", "refused", "cut"}]
      /\ body \in Seq(Nat) /\ wire \in Seq(Piece)
      /\ tokens \in Seq(Nat) /\ Len(tokens) <= ChanSize /\ Len(tokens) \in Nat
      /\ page \in [pc : {"reading", "idle", "closed"}, kept : Seq(Piece), text : Seq(Nat)]
      /\ Len(page.kept) <= 1
  BY DEF ChatShape
<1>2. /\ remote.tokens \in Nat /\ MaxBody \in Nat /\ ChanSize \in Nat
      /\ Mark \in Nat /\ Done \in Nat
  BY ChatTypes
<1>3. /\ \A x \in Nat : Append(tokens, x) \in Seq(Nat) /\ Len(Append(tokens, x)) = Len(tokens) + 1
      /\ \A x \in Nat : Append(body, x) \in Seq(Nat)
      /\ body # <<>> => Head(body) \in Nat /\ Tail(body) \in Seq(Nat)
      /\ tokens # <<>> => Head(tokens) \in Nat /\ Tail(tokens) \in Seq(Nat) /\ Len(Tail(tokens)) = Len(tokens) - 1
  BY <1>1
<1>4. CASE Call
  BY <1>1, <1>4 DEF Call, CallOllama, CallOther, ChatShape
<1>5. ASSUME NEW l \in BOOLEAN, ProviderSends(l)
      PROVE  ChatShape'
  <2>1. /\ body' = Append(body, IF l THEN remote.tokens + 1 ELSE 0)
        /\ remote' = IF l THEN [remote EXCEPT !.tokens = @ + 1] ELSE remote
        /\ remote.tokens < MaxBody /\ UNCHANGED <<tokens, server, wire, page>>
    BY <1>5 DEF ProviderSends
  <2>2. remote.tokens + 1 \in 0..MaxBody /\ remote.tokens + 1 \in Nat /\ 0 \in Nat
    BY <1>2, <2>1
  <2>3. CASE l
    <3>1. body' = Append(body, remote.tokens + 1) /\ remote' = [remote EXCEPT !.tokens = remote.tokens + 1]
      BY <2>1, <2>3
    <3>2. body' \in Seq(Nat)
      BY <1>3, <2>2, <3>1, Zenon
    <3>3. remote' \in [tokens : 0..MaxBody, ends : {"open", "done", "error", "refused", "cut"}]
      <4>1. remote' = [tokens |-> remote.tokens + 1, ends |-> remote.ends]
        BY <1>1, <3>1
      <4>2. remote.ends \in {"open", "done", "error", "refused", "cut"}
        BY <1>1
      <4> HIDE DEF ChatShape
      <4>3. QED
        BY <2>2, <4>1, <4>2
    <3>4. QED
      BY <1>1, <2>1, <3>2, <3>3, Zenon DEF ChatShape
  <2>4. CASE ~l
    <3>1. body' = Append(body, 0) /\ remote' = remote
      BY <2>1, <2>4
    <3>2. body' \in Seq(Nat)
      BY <1>3, <2>2, <3>1, Zenon
    <3>3. QED
      BY <1>1, <2>1, <3>1, <3>2, Zenon DEF ChatShape
  <2>5. QED
    BY <2>3, <2>4
<1>6. ASSUME NEW how \in {"done", "error", "cut"}, ProviderEnds(how)
      PROVE  ChatShape'
  <2>1. /\ body' = IF how = "cut" THEN body ELSE Append(body, 0)
        /\ remote' = [remote EXCEPT !.ends = how] /\ UNCHANGED <<tokens, server, wire, page>>
    BY <1>6 DEF ProviderEnds
  <2>2. body' \in Seq(Nat)
    BY <1>1, <1>3, <2>1
  <2>3. QED
    BY <1>1, <2>1, <2>2 DEF ChatShape
<1>7. CASE ReadLine
  <2>1. /\ body # <<>> /\ body' = Tail(body) /\ UNCHANGED <<remote, wire, page>>
        /\ \/ Len(tokens) < ChanSize /\ tokens' = Append(tokens, Head(body)) /\ server' = server
           \/ tokens' = tokens /\ server' \in {server, "failed"}
    BY <1>7 DEF ReadLine
  <2>2. Head(body) \in Nat /\ body' \in Seq(Nat)
    BY <1>3, <2>1, Zenon
  <2>3. tokens' \in Seq(Nat) /\ Len(tokens') <= ChanSize
    <3>1. ASSUME Len(tokens) < ChanSize, tokens' = Append(tokens, Head(body))
          PROVE  tokens' \in Seq(Nat) /\ Len(tokens') <= ChanSize
      <4>1. tokens' \in Seq(Nat) /\ Len(tokens') = Len(tokens) + 1
        BY <1>3, <2>2, <3>1, Zenon
      <4>2. Len(tokens) + 1 <= ChanSize
        BY <1>1, <1>2, <3>1
      <4>3. QED
        BY <4>1, <4>2, Zenon
    <3>2. QED
      BY <1>1, <2>1, <3>1, Zenon
  <2>4. server' \in {"calling", "reading", "failed", "closed", "answered"}
    BY <1>1, <2>1
  <2>5. QED
    BY <1>1, <2>1, <2>2, <2>3, <2>4, Zenon DEF ChatShape
<1>8. CASE ReadEnds
  BY <1>1, <1>8 DEF ReadEnds, ChatShape
<1>9. CASE ReportError
  <2>1. /\ Len(tokens) < ChanSize /\ tokens' = Append(tokens, Mark) /\ server' = "closed"
        /\ UNCHANGED <<remote, body, wire, page>>
    BY <1>9 DEF ReportError
  <2>2. tokens' \in Seq(Nat) /\ Len(tokens') <= ChanSize
    BY <1>1, <1>2, <1>3, <2>1
  <2>3. QED
    BY <1>1, <2>1, <2>2 DEF ChatShape
<1>10. CASE ForwardToken
  <2>1. /\ tokens # <<>> /\ tokens' = Tail(tokens) /\ UNCHANGED <<remote, body, server, page>>
        /\ wire' = IF Gone THEN wire ELSE wire \o Halves(Head(tokens))
    BY <1>10 DEF ForwardToken
  <2>2. tokens' \in Seq(Nat) /\ Len(tokens') <= ChanSize
    BY <1>1, <1>2, <1>3, <2>1
  <2>3. wire' \in Seq(Piece)
    BY <1>1, <1>3, <2>1, HalvesTyped
  <2>4. QED
    BY <1>1, <2>1, <2>2, <2>3 DEF ChatShape
<1>11. CASE HandlerEnds
  <2>1. wire' = (IF Gone THEN wire ELSE wire \o Halves(Done)) /\ server' = "answered"
        /\ UNCHANGED <<remote, body, tokens, page>>
    BY <1>11 DEF HandlerEnds
  <2>2. wire' \in Seq(Piece)
    BY <1>1, <1>2, <2>1, HalvesTyped
  <2>3. QED
    BY <1>1, <2>1, <2>2 DEF ChatShape
<1>12. ASSUME NEW n \in 1..2 * ChanSize + 2, PageReads(n)
       PROVE  ChatShape'
  <2>1. /\ page'.kept \in Seq(Piece) /\ Len(page'.kept) <= 1 /\ wire' \in Seq(Piece)
        /\ page' = [pc |-> page.pc, kept |-> page'.kept, text |-> page'.text]
        /\ \E taken \in Seq(Piece) : /\ page'.text = page.text \o Spoken(Whole(taken))
                                   /\ \E q \in Nat : Len(taken) = 2 * q \/ Len(taken) = 2 * q + 1
    BY <1>12, PageRead DEF Cut
  <2>2. PICK l : page'.text = page.text \o l /\ l \in Seq(Nat)
    BY <2>1, LinesOfPieces, SpokenTyped
  <2>3. page.text \in Seq(Nat) /\ page.pc \in {"reading", "idle", "closed"}
    BY <1>1
  <2>4. page'.text \in Seq(Nat)
    BY <2>2, <2>3, LinesShown
  <2>5. page' \in [pc : {"reading", "idle", "closed"}, kept : Seq(Piece), text : Seq(Nat)]
    <3>1. PICK pc, kept, text : pc = page.pc /\ kept = page'.kept /\ text = page'.text
      OBVIOUS
    <3>2. /\ pc \in {"reading", "idle", "closed"} /\ kept \in Seq(Piece) /\ text \in Seq(Nat)
          /\ page' = [pc |-> pc, kept |-> kept, text |-> text]
      BY <2>1, <2>3, <2>4, <3>1, Zenon
    <3>3. QED
      BY <3>2
  <2>6. UNCHANGED <<remote, body, tokens, server>>
    BY <1>12 DEF PageReads
  <2>7. QED
    BY <1>1, <2>1, <2>5, <2>6 DEF ChatShape
<1>13. CASE PageEnds \/ PageCloses
  <2>1. /\ UNCHANGED <<remote, body, tokens, server>> /\ (wire' = wire \/ wire' = <<>>)
        /\ (page' = [page EXCEPT !.pc = "idle"] \/ page' = [page EXCEPT !.pc = "closed"])
    BY <1>13 DEF PageEnds, PageCloses
  <2>2. /\ page' \in [pc : {"reading", "idle", "closed"}, kept : Seq(Piece), text : Seq(Nat)]
        /\ page'.kept = page.kept /\ wire' \in Seq(Piece)
    <3>1. wire' \in Seq(Piece)
      BY <1>1, <2>1, NothingLeft, Zenon
    <3>2. PICK pc : page' = [page EXCEPT !.pc = pc] /\ pc \in {"reading", "idle", "closed"}
      BY <2>1
    <3>3. QED
      BY <1>1, <3>1, <3>2
  <2>3. QED
    BY <1>1, <2>1, <2>2 DEF ChatShape
<1>14. CASE UNCHANGED chatVars
  BY <1>1, <1>14 DEF chatVars, ChatShape
<1>15. QED
  BY <1>4, <1>5, <1>6, <1>7, <1>8, <1>9, <1>10, <1>11, <1>12, <1>13, <1>14 DEF ChatNext

LEMMA Grouped ==
  ASSUME NEW s \in Seq(Nat), NEW l \in Seq(Nat), NEW m \in Seq(Nat)
  PROVE  s \o (l \o m) = (s \o l) \o m
BY SMTT(30)

LEMMA EndsOf ==
  ASSUME NEW s \in Seq(Nat), NEW x \in Nat
  PROVE  Last(Append(s, x)) = x /\ Front(Append(s, x)) = s
BY DEF Last, Front

LEMMA DoneIsNumber == Done \in Nat
BY ChatAssumption DEF Done

\* Lines that do not hold the one after the last token.
NoDone(s) == \A i \in 1..Len(s) : s[i] # Done

LEMMA NoDoneBefore ==
  ASSUME NEW s \in Seq(Nat), NEW c \in Seq(Nat), NoDone(s \o c)
  PROVE  NoDone(s)
<1>1. Len(s \o c) = Len(s) + Len(c) /\ \A i \in 1..Len(s) : (s \o c)[i] = s[i]
  BY NumbersJoined, Zenon
<1>2. \A i \in 1..Len(s) : i \in 1..Len(s \o c)
  <2>1. Len(s) \in Nat /\ Len(c) \in Nat
    OBVIOUS
  <2>2. QED
    BY <1>1, <2>1
<1>3. QED
  BY <1>1, <1>2, Zenon DEF NoDone

LEMMA NoDoneAtEnd ==
  ASSUME NEW s \in Seq(Nat), NEW f \in Seq(Nat), NoDone(s \o Append(f, Done))
  PROVE  FALSE
<1>1. s \o Append(f, Done) = Append(s \o f, Done)
  BY AppendOut, DoneIsNumber, Zenon
<1>2. s \o f \in Seq(Nat)
  BY NumbersJoined, Zenon
<1>3. Len(Append(s \o f, Done)) = Len(s \o f) + 1 /\ Append(s \o f, Done)[Len(s \o f) + 1] = Done
  BY <1>2, DoneIsNumber, OneMoreToken, Zenon
<1>4. Len(s \o f) + 1 \in 1..(Len(s \o f) + 1)
  <2>1. Len(s \o f) \in Nat
    BY <1>2
  <2>2. QED
    BY <2>1
<1>5. QED
  BY <1>1, <1>3, <1>4, Zenon DEF NoDone

LEMMA AllSpoken ==
  ASSUME NEW s \in Seq(Nat), NEW l \in Seq(Nat), NoDone(s \o l)
  PROVE  Spoken(l) = l
<1>1. CASE l = <<>>
  BY <1>1, SpokenOf, Zenon
<1>2. CASE l # <<>>
  <2>1. PICK f \in Seq(Nat), y \in Nat : l = Append(f, y)
    BY <1>2, LastToken, Zenon
  <2>2. y # Done
    BY <2>1, NoDoneAtEnd, Zenon
  <2>3. QED
    BY <2>1, <2>2, SpokenOf, Zenon
<1>3. QED
  BY <1>1, <1>2, Zenon

\* The page that reads the last line stops before it.
LEMMA SpokenLast ==
  ASSUME NEW t \in Seq(Nat), NEW l \in Seq(Nat), NEW m \in Seq(Nat)
  PROVE  \A f \in Seq(Nat) : l \o m = Append(f, Done) /\ NoDone(t \o f) =>
           \/ m = <<>> /\ t \o Spoken(l) = t \o f
           \/ \E g \in Seq(Nat) : m = Append(g, Done) /\ (t \o Spoken(l)) \o g = t \o f
<1> SUFFICES ASSUME NEW f \in Seq(Nat), l \o m = Append(f, Done), NoDone(t \o f)
             PROVE  \/ m = <<>> /\ t \o Spoken(l) = t \o f
                    \/ \E g \in Seq(Nat) : m = Append(g, Done) /\ (t \o Spoken(l)) \o g = t \o f
  OBVIOUS
<1>1. CASE m = <<>>
  <2>1. l \o m = l
    BY <1>1, LinesShown, Zenon
  <2>2. Spoken(l) = f
    BY DoneIsNumber, <2>1, SpokenOf, Zenon
  <2>3. QED
    BY <1>1, <2>2, Zenon
<1>2. CASE m # <<>>
  <2>1. PICK g \in Seq(Nat), y \in Nat : m = Append(g, y)
    BY <1>2, LastToken, Zenon
  <2>2. l \o g \in Seq(Nat) /\ l \o m = Append(l \o g, y)
    <3>1. l \o Append(g, y) = Append(l \o g, y)
      BY <2>1, AppendOut, Zenon
    <3>2. QED
      BY <2>1, <3>1, NumbersJoined, Zenon
  <2>3. l \o g = f /\ y = Done
    <3>1. Last(Append(l \o g, y)) = y /\ Front(Append(l \o g, y)) = l \o g
      BY <2>2, EndsOf, Zenon
    <3>2. Last(Append(f, Done)) = Done /\ Front(Append(f, Done)) = f
      BY DoneIsNumber, EndsOf, Zenon
    <3>3. QED
      BY <2>2, <3>1, <3>2, Zenon
  <2>4. t \o (l \o g) = (t \o l) \o g
    BY Grouped, ZenonT(60)
  <2>5. t \o l \in Seq(Nat)
    BY NumbersJoined, Zenon
  <2>6. NoDone((t \o l) \o g)
    BY <2>3, <2>4, Zenon
  <2>7. NoDone(t \o l)
    BY <2>5, <2>6, NoDoneBefore, Zenon
  <2>8. Spoken(l) = l
    BY <2>7, AllSpoken, Zenon
  <2>9. QED
    BY <2>1, <2>3, <2>4, <2>8, Zenon
<1>3. QED
  BY <1>1, <1>2, Zenon

-----------------------------------------------------------------------------
LEMMA LeftNoDone ==
  ASSUME ChatShape, NEW s \in Seq(Nat), NEW k \in 0..remote.tokens, LeftTheBody(s, k)
  PROVE  NoDone(s) /\ Len(s) \in {k, k + 1}
<1>1. /\ \A i \in 1..k : s[i] = i
      /\ Len(s) = k \/ (Len(s) = k + 1 /\ s[k + 1] = Mark)
  BY DEF LeftTheBody
<1>2. remote.tokens \in Nat /\ remote.tokens < Done /\ Done # Mark
  BY ChatTypes
<1>3. ASSUME NEW i \in 1..Len(s)
      PROVE  s[i] # Done
  <2>1. i \in 1..k \/ (i = k + 1 /\ s[k + 1] = Mark)
    BY <1>1, <1>2
  <2>2. QED
    BY <1>1, <1>2, <2>1
<1>4. QED
  BY <1>1, <1>3 DEF NoDone

Begins(t, s) == Len(t) <= Len(s) /\ \A i \in 1..Len(t) : t[i] = s[i]

LEMMA WayBegins ==
  ASSUME ChatShape, NEW s \in Seq(Nat), NEW way \in Seq(Piece), OnTheWay(s, way)
  PROVE  Begins(page.text, s) /\ Whole(way) \in Seq(Nat)
<1>1. Whole(way) \in Seq(Nat)
  <2>1. PICK m \in Nat : Len(way) = 2 * m
    BY DEF OnTheWay
  <2>2. QED
    BY <2>1, LinesOfPieces
<1>2. page.text \in Seq(Nat) /\ tokens \in Seq(Nat)
  BY ChatTypes DEF ChatShape
<1>3. CASE (page.text \o Whole(way)) \o tokens = s
  <2>1. /\ Len(page.text) <= Len((page.text \o Whole(way)) \o tokens)
        /\ \A i \in 1..Len(page.text) : page.text[i] = ((page.text \o Whole(way)) \o tokens)[i]
    BY <1>1, <1>2, ShownFirst, Zenon
  <2>2. QED
    BY <1>1, <1>3, <2>1, Zenon DEF Begins
<1>4. CASE page.text = s
  <2>1. Len(s) <= Len(s)
    OBVIOUS
  <2>2. QED
    BY <1>1, <1>4, <2>1, Zenon DEF Begins
<1>5. ASSUME NEW f \in Seq(Nat), page.text \o f = s
      PROVE  Begins(page.text, s) /\ Whole(way) \in Seq(Nat)
  <2>1. PICK t : t = page.text /\ t \in Seq(Nat)
    BY <1>2, Zenon
  <2>2. /\ Len(t) <= Len(t \o f) /\ \A i \in 1..Len(t) : t[i] = (t \o f)[i]
    <3>1. Len(t \o f) = Len(t) + Len(f) /\ \A i \in 1..Len(t) : (t \o f)[i] = t[i]
      BY <2>1, NumbersJoined, Zenon
    <3>2. Len(t) \in Nat /\ Len(f) \in Nat
      BY <2>1
    <3>3. Len(t) <= Len(t \o f)
      BY <3>1, <3>2
    <3>4. QED
      BY <3>1, <3>3, Zenon
  <2>3. QED
    BY <1>1, <1>5, <2>1, <2>2, Zenon DEF Begins
<1>6. QED
  BY <1>3, <1>4, <1>5, Zenon DEF OnTheWay

LEMMA WayTyped ==
  ASSUME ChatShape
  PROVE  page.kept \o wire \in Seq(Piece)
BY ChatTypes, PiecesJoined, Zenon DEF ChatShape

LEMMA AlongSound == ChatShape /\ Along => TextSound
<1> SUFFICES ASSUME ChatShape, Along
             PROVE  TextSound
  OBVIOUS
<1>1. PICK s \in Seq(Nat), k \in 0..remote.tokens : LeftTheBody(s, k) /\ OnTheWay(s, page.kept \o wire)
  BY DEF Along
<1>2. Begins(page.text, s)
  BY <1>1, WayTyped, WayBegins, Zenon
<1>3. /\ \A i \in 1..k : s[i] = i
      /\ Len(s) = k \/ (Len(s) = k + 1 /\ s[k + 1] = Mark)
  BY <1>1 DEF LeftTheBody
<1>4. PICK t, n, l : t = page.text /\ n = Len(t) /\ l = Len(s) /\ n \in Nat /\ l \in Nat
  <2>1. Len(page.text) \in Nat /\ Len(s) \in Nat
    <3>1. page.text \in Seq(Nat)
      BY ChatTypes
    <3>2. QED
      BY <3>1
  <2>2. QED
    BY <2>1
<1>5. /\ remote.tokens \in Nat /\ n <= l /\ \A i \in 1..n : t[i] = s[i]
  BY <1>2, <1>4, ChatTypes DEF Begins
<1>6. CASE n <= k
  <2>1. n \in 0..remote.tokens /\ \A i \in 1..n : t[i] = i
    BY <1>3, <1>4, <1>5, <1>6
  <2>2. QED
    BY <1>4, <2>1, Zenon DEF TextSound
<1>7. CASE n = k + 1
  <2>1. k + 1 = l /\ s[k + 1] = Mark
    BY <1>3, <1>4, <1>5, <1>7
  <2>2. \A i \in 1..k : t[i] = i
    BY <1>3, <1>5, <1>7
  <2>3. t[k + 1] = Mark
    BY <1>5, <1>7, <2>1
  <2>4. QED
    BY <1>4, <1>7, <2>2, <2>3, Zenon DEF TextSound
<1>8. QED
  BY <1>3, <1>4, <1>5, <1>6, <1>7

LEMMA SoundKept ==
  ASSUME ChatShape, TextSound, remote'.tokens \in Nat, remote.tokens <= remote'.tokens, page'.text = page.text
  PROVE  TextSound'
<1>1. PICK n \in 0..remote.tokens : /\ \A i \in 1..n : page.text[i] = i
                                    /\ Len(page.text) = n \/ (Len(page.text) = n + 1 /\ page.text[n + 1] = Mark)
  BY DEF TextSound
<1>2. n \in 0..remote'.tokens
  BY ChatTypes
<1>3. QED
  BY <1>1, <1>2, Zenon DEF TextSound

-----------------------------------------------------------------------------
LEMMA FollowsMore ==
  ASSUME NEW b \in Seq(Nat), NEW n \in Nat, NEW k \in 0..n, Follows(b, k, n)
  PROVE  Follows(Append(b, 0), k, n) /\ Follows(Append(b, n + 1), k, n + 1)
<1>1. ASSUME NEW x \in Nat, NEW m \in Nat, (x = 0 /\ m = n) \/ (x = n + 1 /\ m = n + 1),
             NEW c \in Seq(Nat), Len(c) = Len(b) + 1, c[Len(b) + 1] = x,
             \A i \in 1..Len(b) : c[i] = b[i]
      PROVE  Follows(c, k, m)
  <2>1. PICK l : l = Len(b) /\ l \in Nat /\ Len(c) = l + 1 /\ c[l + 1] = x
    <3>1. Len(b) \in Nat
      OBVIOUS
    <3>2. QED
      BY <1>1, <3>1
  <2>2. /\ \A i \in 1..l : b[i] = 0 \/ b[i] \in (k + 1)..n
        /\ \A i, j \in 1..l : i < j /\ b[i] # 0 /\ b[j] # 0 => b[i] < b[j]
        /\ \A v \in (k + 1)..n : \E i \in 1..l : b[i] = v
        /\ \A i \in 1..l : c[i] = b[i]
    BY <1>1, <2>1 DEF Follows
  <2>3. \A i \in 1..(l + 1) : i \in 1..l \/ i = l + 1
    BY <2>1
  <2>4. ASSUME NEW i \in 1..(l + 1)
        PROVE  c[i] = 0 \/ c[i] \in (k + 1)..m
    <3>1. CASE i \in 1..l
      <4>1. b[i] = 0 \/ b[i] \in (k + 1)..n
        BY <2>2, <3>1
      <4>2. \A y \in (k + 1)..n : y \in (k + 1)..m
        BY <1>1
      <4>3. c[i] = b[i]
        BY <2>2, <3>1
      <4>4. QED
        BY <4>1, <4>2, <4>3, Zenon
    <3>2. CASE i = l + 1
      <4>1. c[i] = x
        BY <2>1, <3>2
      <4>2. x = 0 \/ x \in (k + 1)..m
        BY <1>1
      <4>3. QED
        BY <4>1, <4>2
    <3>3. QED
      BY <2>3, <3>1, <3>2
  <2>5. ASSUME NEW i \in 1..(l + 1), NEW j \in 1..(l + 1), i < j, c[i] # 0, c[j] # 0
        PROVE  c[i] < c[j]
    <3>1. i \in 1..l
      BY <2>1, <2>5
    <3>2. CASE j \in 1..l
      BY <2>2, <2>5, <3>1, <3>2
    <3>3. CASE j = l + 1
      <4>1. c[j] = n + 1
        BY <1>1, <2>1, <2>5, <3>3
      <4>2. c[i] \in (k + 1)..n
        BY <2>2, <2>5, <3>1
      <4>3. QED
        BY <4>1, <4>2
    <3>4. QED
      BY <2>3, <3>2, <3>3
  <2>6. ASSUME NEW v \in (k + 1)..m
        PROVE  \E i \in 1..(l + 1) : c[i] = v
    <3>1. CASE v \in (k + 1)..n
      <4>1. PICK i \in 1..l : b[i] = v
        BY <2>2, <3>1
      <4>2. i \in 1..(l + 1) /\ c[i] = v
        BY <2>1, <2>2, <4>1
      <4>3. QED
        BY <4>2
    <3>2. CASE v \notin (k + 1)..n
      <4>1. v = x /\ l + 1 \in 1..(l + 1)
        BY <1>1, <2>1, <3>2
      <4>2. QED
        BY <2>1, <4>1
    <3>3. QED
      BY <3>1, <3>2
  <2>7. QED
    BY <2>1, <2>4, <2>5, <2>6 DEF Follows
<1>2. /\ Append(b, 0) \in Seq(Nat) /\ Len(Append(b, 0)) = Len(b) + 1 /\ Append(b, 0)[Len(b) + 1] = 0
      /\ \A i \in 1..Len(b) : Append(b, 0)[i] = b[i]
  OBVIOUS
<1>3. /\ Append(b, n + 1) \in Seq(Nat) /\ Len(Append(b, n + 1)) = Len(b) + 1
      /\ Append(b, n + 1)[Len(b) + 1] = n + 1
      /\ \A i \in 1..Len(b) : Append(b, n + 1)[i] = b[i]
  OBVIOUS
<1>4. n + 1 \in Nat /\ 0 \in Nat
  OBVIOUS
<1>5. Follows(Append(b, 0), k, n)
  BY <1>1, <1>2, <1>4, Zenon
<1>6. Follows(Append(b, n + 1), k, n + 1)
  BY <1>1, <1>3, <1>4, Zenon
<1>7. QED
  BY <1>5, <1>6

LEMMA FollowsLess ==
  ASSUME NEW b \in Seq(Nat), NEW n \in Nat, NEW k \in 0..n, Follows(b, k, n), b # <<>>
  PROVE  /\ Head(b) = 0 => Follows(Tail(b), k, n)
         /\ Head(b) # 0 => Head(b) = k + 1 /\ k + 1 <= n /\ Follows(Tail(b), k + 1, n)
<1>1. PICK l, c, h : l = Len(b) /\ c = Tail(b) /\ h = Head(b)
  OBVIOUS
<1>2. /\ l \in Nat \ {0} /\ h = b[1] /\ h \in Nat /\ c \in Seq(Nat) /\ Len(c) = l - 1
      /\ \A i \in 1..(l - 1) : c[i] = b[i + 1]
  BY <1>1
<1>3. /\ \A i \in 1..l : b[i] = 0 \/ b[i] \in (k + 1)..n
      /\ \A i, j \in 1..l : i < j /\ b[i] # 0 /\ b[j] # 0 => b[i] < b[j]
      /\ \A v \in (k + 1)..n : \E i \in 1..l : b[i] = v
  BY <1>1 DEF Follows
<1>4. \A i \in 1..(l - 1) : i + 1 \in 1..l /\ 1 \in 1..l /\ 1 < i + 1
  BY <1>2
<1>5. \A i, j \in 1..(l - 1) : i < j /\ c[i] # 0 /\ c[j] # 0 => c[i] < c[j]
  <2> SUFFICES ASSUME NEW i \in 1..(l - 1), NEW j \in 1..(l - 1), i < j, c[i] # 0, c[j] # 0
               PROVE  c[i] < c[j]
    OBVIOUS
  <2>1. i + 1 < j + 1
    OBVIOUS
  <2>2. QED
    BY <1>2, <1>3, <1>4, <2>1
<1>6. ASSUME h = 0
      PROVE  Follows(c, k, n)
  <2>1. \A i \in 1..(l - 1) : c[i] = 0 \/ c[i] \in (k + 1)..n
    BY <1>2, <1>3, <1>4
  <2>2. ASSUME NEW v \in (k + 1)..n
        PROVE  \E i \in 1..(l - 1) : c[i] = v
    <3>1. PICK i \in 1..l : b[i] = v
      BY <1>3
    <3>2. i # 1
      <4>1. v # 0 /\ b[1] = 0
        BY <1>2, <1>6
      <4>2. QED
        BY <3>1, <4>1
    <3>3. i - 1 \in 1..(l - 1) /\ (i - 1) + 1 = i
      BY <1>2, <3>2
    <3>4. c[i - 1] = v
      BY <1>2, <3>1, <3>3
    <3>5. QED
      BY <3>3, <3>4
  <2>3. QED
    BY <1>2, <1>5, <2>1, <2>2 DEF Follows
<1>7. ASSUME h # 0
      PROVE  h = k + 1 /\ k + 1 <= n /\ Follows(c, k + 1, n)
  <2>1. 1 \in 1..l
    BY <1>2
  <2>2. h \in (k + 1)..n
    BY <1>2, <1>3, <1>7, <2>1
  <2>3. k + 1 \in (k + 1)..n /\ k + 1 # 0
    BY <2>2
  <2>4. PICK p \in 1..l : b[p] = k + 1
    BY <1>3, <2>3
  <2>5. p = 1
    <3>1. ASSUME p # 1
          PROVE  FALSE
      <4>1. 1 < p
        BY <3>1
      <4>2. b[1] < b[p]
        BY <1>2, <1>3, <1>7, <2>1, <2>3, <2>4, <4>1
      <4>3. QED
        BY <1>2, <2>2, <2>4, <4>2
    <3>2. QED
      BY <3>1
  <2>6. h = k + 1
    BY <1>2, <2>4, <2>5
  <2>7. ASSUME NEW i \in 1..(l - 1)
        PROVE  c[i] = 0 \/ c[i] \in ((k + 1) + 1)..n
    <3>1. c[i] = b[i + 1] /\ i + 1 \in 1..l /\ 1 < i + 1
      BY <1>2, <1>4
    <3>2. CASE c[i] # 0
      <4>1. b[1] < c[i]
        BY <1>2, <1>3, <1>7, <2>1, <3>1, <3>2
      <4>2. c[i] \in (k + 1)..n
        BY <1>3, <3>1, <3>2
      <4>3. QED
        BY <1>2, <2>6, <4>1, <4>2, SMTT(30)
    <3>3. QED
      BY <3>2
  <2>8. ASSUME NEW v \in ((k + 1) + 1)..n
        PROVE  \E i \in 1..(l - 1) : c[i] = v
    <3>0. v \in (k + 1)..n
      OBVIOUS
    <3>1. PICK i \in 1..l : b[i] = v
      BY <1>3, <3>0
    <3>2. i # 1
      <4>1. v # k + 1 /\ b[1] = k + 1
        BY <1>2, <2>6
      <4>2. QED
        BY <3>1, <4>1
    <3>3. i - 1 \in 1..(l - 1) /\ (i - 1) + 1 = i
      BY <1>2, <3>2
    <3>4. c[i - 1] = v
      BY <1>2, <3>1, <3>3
    <3>5. QED
      BY <3>3, <3>4
  <2>9. QED
    BY <1>2, <1>5, <2>2, <2>6, <2>7, <2>8 DEF Follows
<1>8. QED
  BY <1>1, <1>6, <1>7, Zenon

LEMMA FollowsNone ==
  ASSUME NEW n \in Nat, NEW k \in 0..n, Follows(<<>>, k, n)
  PROVE  k = n
<1>1. ASSUME k # n
      PROVE  FALSE
  <2>1. n \in (k + 1)..n
    BY <1>1
  <2>2. PICK i \in 1..Len(<<>>) : <<>>[i] = n
    BY <2>1 DEF Follows
  <2>3. QED
    BY <2>2
<1>2. QED
  BY <1>1

-----------------------------------------------------------------------------
\* The answer s has left the body up to token k.
AlongBy(s, k) ==
  /\ s \in Seq(Nat) /\ k \in 0..remote.tokens
  /\ LeftTheBody(s, k) /\ OnTheWay(s, page.kept \o wire)

\* The steps of the provider and of the goroutine.
LEMMA CallAlong ==
  ASSUME ChatShape, NEW s, NEW k, AlongBy(s, k), Call
  PROVE  AlongBy(s, k)'
<1>1. /\ server = "calling" /\ server' \in {"reading", "failed"} /\ remote'.tokens = remote.tokens
      /\ UNCHANGED <<body, tokens, wire, page>>
  BY ChatTypes DEF Call, CallOllama, CallOther
<1>2. LeftTheBody(s, k)'
  <2>1. Len(s) = k /\ Follows(body, k, remote.tokens) /\ \A i \in 1..k : s[i] = i
    BY <1>1 DEF AlongBy, LeftTheBody
  <2>2. Follows(body', k, remote'.tokens)
    BY <1>1, <2>1, Zenon
  <2>3. QED
    BY <1>1, <2>1, <2>2 DEF LeftTheBody
<1>3. OnTheWay(s, page.kept \o wire)'
  BY <1>1, Zenon DEF AlongBy, OnTheWay
<1>4. QED
  BY <1>1, <1>2, <1>3, Zenon DEF AlongBy

LEMMA ProviderAlong ==
  ASSUME ChatShape, NEW s, NEW k, AlongBy(s, k),
         (\E l \in BOOLEAN : ProviderSends(l)) \/ (\E how \in {"done", "error", "cut"} : ProviderEnds(how))
  PROVE  AlongBy(s, k)'
<1>1. /\ server # "calling" /\ remote.ends = "open" /\ UNCHANGED <<server, tokens, wire, page>>
      /\ \/ body' = Append(body, remote.tokens + 1) /\ remote'.tokens = remote.tokens + 1
         \/ body' = Append(body, 0) /\ remote'.tokens = remote.tokens
         \/ body' = body /\ remote'.tokens = remote.tokens
  BY ChatTypes DEF ProviderSends, ProviderEnds
<1>2. remote.tokens \in Nat /\ k \in 0..remote.tokens /\ body \in Seq(Nat)
  BY ChatTypes DEF AlongBy, ChatShape
<1>3. k \in 0..remote'.tokens
  <2>1. remote'.tokens \in {remote.tokens, remote.tokens + 1}
    BY <1>1
  <2>2. QED
    BY <1>2, <2>1
<1>4. Follows(body, k, remote.tokens) => Follows(body', k, remote'.tokens)
  BY <1>1, <1>2, FollowsMore, Zenon
<1>5. LeftTheBody(s, k)'
  BY <1>1, <1>4, Zenon DEF AlongBy, LeftTheBody
<1>6. OnTheWay(s, page.kept \o wire)'
  BY <1>1, Zenon DEF AlongBy, OnTheWay
<1>7. QED
  BY <1>3, <1>5, <1>6, Zenon DEF AlongBy

LEMMA ReadLineAlong ==
  ASSUME ChatShape, NEW s, NEW k, AlongBy(s, k), ReadLine, ~Gone
  PROVE  \E t, l : AlongBy(t, l)'
<1>1. /\ server = "reading" /\ server' = server /\ body # <<>> /\ body' = Tail(body)
      /\ UNCHANGED <<remote, wire, page>>
      /\ \/ Head(body) # 0 /\ tokens' = Append(tokens, Head(body))
         \/ Head(body) = 0 /\ tokens' = tokens
  BY DEF ReadLine
<1>2. /\ remote.tokens \in Nat /\ k \in 0..remote.tokens /\ body \in Seq(Nat)
      /\ s \in Seq(Nat) /\ tokens \in Seq(Nat) /\ page.text \in Seq(Nat)
  BY ChatTypes DEF AlongBy, ChatShape
<1>3. Len(s) = k /\ Follows(body, k, remote.tokens) /\ \A i \in 1..k : s[i] = i
  BY <1>1 DEF AlongBy, LeftTheBody
<1>4. /\ Head(body) = 0 => Follows(Tail(body), k, remote.tokens)
      /\ Head(body) # 0 => Head(body) = k + 1 /\ k + 1 <= remote.tokens /\ Follows(Tail(body), k + 1, remote.tokens)
  BY <1>1, <1>2, <1>3, FollowsLess
<1>5. /\ (page.text \o Whole(page.kept \o wire)) \o tokens = s
      /\ \E m \in Nat : Len(page.kept \o wire) = 2 * m
      /\ Whole(page.kept \o wire) \in Seq(Nat)
  <2>1. OnTheWay(s, page.kept \o wire)
    BY DEF AlongBy
  <2>2. Whole(page.kept \o wire) \in Seq(Nat)
    BY <1>2, <2>1, WayTyped, WayBegins, Zenon
  <2>3. QED
    BY <1>1, <2>1, <2>2 DEF OnTheWay
<1>6. CASE Head(body) = 0
  <2>1. LeftTheBody(s, k)'
    BY <1>1, <1>3, <1>4, <1>6, Zenon DEF LeftTheBody
  <2>2. OnTheWay(s, page.kept \o wire)'
    BY <1>1, <1>5, <1>6, Zenon DEF OnTheWay
  <2>3. AlongBy(s, k)'
    BY <1>1, <1>2, <2>1, <2>2, Zenon DEF AlongBy
  <2>4. QED
    BY <2>3
<1>7. CASE Head(body) # 0
  <2>1. PICK t, l : t = Append(s, k + 1) /\ l = k + 1
    OBVIOUS
  <2>2. k + 1 \in Nat /\ l \in 0..remote.tokens /\ Follows(body', l, remote'.tokens)
    <3>1. k + 1 \in Nat /\ k + 1 \in 0..remote.tokens
      BY <1>2, <1>4, <1>7
    <3>2. QED
      BY <1>1, <1>4, <1>7, <2>1, <3>1, Zenon
  <2>3. t \in Seq(Nat) /\ Len(t) = l /\ t[l] = l /\ \A i \in 1..k : t[i] = s[i]
    <3>1. /\ Append(s, k + 1) \in Seq(Nat)
          /\ Len(Append(s, k + 1)) = Len(s) + 1 /\ Append(s, k + 1)[Len(s) + 1] = k + 1
          /\ \A i \in 1..Len(s) : Append(s, k + 1)[i] = s[i]
      BY <1>2, <2>2, OneMoreToken, Zenon
    <3>2. QED
      BY <1>3, <2>1, <3>1, Zenon
  <2>4. \A i \in 1..l : t[i] = i
    <3>1. \A i \in 1..l : i \in 1..k \/ i = l
      BY <1>2, <2>1
    <3>2. QED
      BY <1>3, <2>3, <3>1, Zenon
  <2>5. LeftTheBody(t, l)'
    BY <1>1, <2>2, <2>3, <2>4, Zenon DEF LeftTheBody
  <2>6. (page.text \o Whole(page.kept \o wire)) \o tokens' = t
    <3>1. tokens' = Append(tokens, k + 1)
      BY <1>1, <1>4, <1>7, Zenon
    <3>2. page.text \o Whole(page.kept \o wire) \in Seq(Nat)
      BY <1>2, <1>5, NumbersJoined, Zenon
    <3>3. (page.text \o Whole(page.kept \o wire)) \o Append(tokens, k + 1)
            = Append((page.text \o Whole(page.kept \o wire)) \o tokens, k + 1)
      BY <1>2, <2>2, <3>2, AppendOut, Zenon
    <3>4. QED
      BY <1>5, <2>1, <3>1, <3>3, Zenon
  <2>7. OnTheWay(t, page.kept \o wire)'
    BY <1>1, <1>5, <2>6, Zenon DEF OnTheWay
  <2>8. AlongBy(t, l)'
    BY <1>1, <2>2, <2>3, <2>5, <2>7, Zenon DEF AlongBy
  <2>9. QED
    BY <2>8
<1>8. QED
  BY <1>6, <1>7

LEMMA ReadEndsAlong ==
  ASSUME ChatShape, NEW s, NEW k, AlongBy(s, k), ReadEnds, ~Gone
  PROVE  AlongBy(s, k)'
<1>1. /\ server = "reading" /\ body = <<>> /\ remote.ends # "open" /\ server' \in {"failed", "closed"}
      /\ UNCHANGED <<remote, body, tokens, wire, page>>
  BY DEF ReadEnds
<1>2. /\ remote.tokens \in Nat /\ k \in 0..remote.tokens
  BY ChatTypes DEF AlongBy
<1>3. Len(s) = k /\ Follows(body, k, remote.tokens) /\ \A i \in 1..k : s[i] = i
  BY <1>1 DEF AlongBy, LeftTheBody
<1>4. k = remote.tokens
  BY <1>1, <1>2, <1>3, FollowsNone
<1>5. LeftTheBody(s, k)'
  <2>1. body' = body /\ remote' = remote
    BY <1>1
  <2>2. QED
    BY <1>1, <1>3, <1>4, <2>1 DEF LeftTheBody
<1>6. OnTheWay(s, page.kept \o wire)'
  <2>1. server # "answered" /\ server' # "answered"
    BY <1>1
  <2>2. QED
    BY <1>1, <2>1, Zenon DEF AlongBy, OnTheWay
<1>7. QED
  BY <1>1, <1>5, <1>6, Zenon DEF AlongBy

LEMMA ReportErrorAlong ==
  ASSUME ChatShape, NEW s, NEW k, AlongBy(s, k), ReportError
  PROVE  \E t : AlongBy(t, k)'
<1>1. /\ server = "failed" /\ server' = "closed" /\ tokens' = Append(tokens, Mark)
      /\ UNCHANGED <<remote, body, wire, page>>
  BY DEF ReportError
<1>2. /\ remote.tokens \in Nat /\ k \in 0..remote.tokens /\ Mark \in Nat
      /\ s \in Seq(Nat) /\ tokens \in Seq(Nat) /\ page.text \in Seq(Nat)
  BY ChatTypes DEF AlongBy, ChatShape
<1>3. Len(s) = k /\ \A i \in 1..k : s[i] = i
  BY <1>1 DEF AlongBy, LeftTheBody
<1>4. /\ (page.text \o Whole(page.kept \o wire)) \o tokens = s
      /\ \E m \in Nat : Len(page.kept \o wire) = 2 * m
      /\ Whole(page.kept \o wire) \in Seq(Nat)
  <2>1. OnTheWay(s, page.kept \o wire)
    BY DEF AlongBy
  <2>2. Whole(page.kept \o wire) \in Seq(Nat)
    BY <1>2, <2>1, WayTyped, WayBegins, Zenon
  <2>3. QED
    BY <1>1, <2>1, <2>2 DEF OnTheWay
<1>5. PICK t : t = Append(s, Mark)
  OBVIOUS
<1>6. t \in Seq(Nat) /\ Len(t) = k + 1 /\ t[k + 1] = Mark /\ \A i \in 1..k : t[i] = i
  <2>1. /\ Append(s, Mark) \in Seq(Nat)
        /\ Len(Append(s, Mark)) = Len(s) + 1 /\ Append(s, Mark)[Len(s) + 1] = Mark
        /\ \A i \in 1..Len(s) : Append(s, Mark)[i] = s[i]
    BY <1>2, OneMoreToken, Zenon
  <2>2. QED
    BY <1>3, <1>5, <2>1, Zenon
<1>7. LeftTheBody(t, k)'
  BY <1>1, <1>6, Zenon DEF LeftTheBody
<1>8. (page.text \o Whole(page.kept \o wire)) \o tokens' = t
  <2>1. page.text \o Whole(page.kept \o wire) \in Seq(Nat)
    BY <1>2, <1>4, NumbersJoined, Zenon
  <2>2. (page.text \o Whole(page.kept \o wire)) \o Append(tokens, Mark)
          = Append((page.text \o Whole(page.kept \o wire)) \o tokens, Mark)
    BY <1>2, <2>1, AppendOut, Zenon
  <2>3. QED
    BY <1>1, <1>4, <1>5, <2>2, Zenon
<1>9. OnTheWay(t, page.kept \o wire)'
  <2>1. server' # "answered"
    BY <1>1
  <2>2. QED
    BY <1>1, <1>4, <1>8, <2>1, Zenon DEF OnTheWay
<1>10. AlongBy(t, k)'
  BY <1>1, <1>2, <1>6, <1>7, <1>9, Zenon DEF AlongBy
<1>11. QED
  BY <1>10

-----------------------------------------------------------------------------
\* The steps of the handler.
LEMMA PiecesGrouped ==
  ASSUME NEW s \in Seq(Piece), NEW t \in Seq(Piece), NEW u \in Seq(Piece)
  PROVE  s \o (t \o u) = (s \o t) \o u
OBVIOUS

LEMMA HalvesAre ==
  ASSUME NEW x \in Nat
  PROVE  Halves(x) \in Seq(Piece)
BY DEF Halves, Piece

LEMMA ForwardAlong ==
  ASSUME ChatShape, NEW s, NEW k, AlongBy(s, k), ForwardToken, ~Gone
  PROVE  AlongBy(s, k)'
<1>1. /\ tokens # <<>> /\ tokens' = Tail(tokens) /\ wire' = wire \o Halves(Head(tokens))
      /\ UNCHANGED <<remote, body, server, page>>
  BY DEF ForwardToken
<1>2. /\ s \in Seq(Nat) /\ tokens \in Seq(Nat) /\ page.text \in Seq(Nat)
      /\ page.kept \in Seq(Piece) /\ wire \in Seq(Piece)
  BY ChatTypes DEF AlongBy, ChatShape
<1>3. Head(tokens) \in Nat
  <2>1. \A t \in Seq(Nat) : t # <<>> => Head(t) \in Nat
    OBVIOUS
  <2>2. QED
    BY <1>1, <1>2, <2>1, Zenon
<1>4. PICK way, x : way = page.kept \o wire /\ x = Head(tokens)
  OBVIOUS
<1>5. way \in Seq(Piece)
  BY <1>4, WayTyped, Zenon
<1>6. /\ server # "answered" /\ (page.text \o Whole(way)) \o tokens = s
      /\ \E m \in Nat : Len(way) = 2 * m
      /\ Whole(way) \in Seq(Nat)
  <2>1. OnTheWay(s, way)
    BY <1>4 DEF AlongBy
  <2>2. Whole(way) \in Seq(Nat)
    BY <1>2, <1>5, <2>1, WayBegins, Zenon
  <2>3. QED
    BY <1>1, <2>1, <2>2, Zenon DEF OnTheWay
<1>7. page.kept \o (wire \o Halves(x)) = way \o Halves(x)
  BY <1>2, <1>3, <1>4, HalvesAre, PiecesGrouped, Zenon
<1>8. PICK m \in Nat : Len(way) = 2 * m
  BY <1>6
<1>9. Len(way \o Halves(x)) = 2 * (m + 1) /\ Whole(way \o Halves(x)) = Append(Whole(way), x)
  <2>1. x \in Nat
    BY <1>3, <1>4
  <2>2. QED
    BY <1>5, <1>8, <2>1, TokenToTheWire, Zenon
<1>10. (page.text \o Append(Whole(way), x)) \o Tail(tokens) = s
  <2>1. (page.text \o Append(Whole(way), Head(tokens))) \o Tail(tokens) = (page.text \o Whole(way)) \o tokens
    BY <1>1, <1>2, <1>6, TokenForwarded, Zenon
  <2>2. QED
    BY <1>4, <1>6, <2>1, Zenon
<1>11. OnTheWay(s, page.kept \o wire)'
  <2>1. m + 1 \in Nat
    OBVIOUS
  <2>2. page'.kept \o wire' = way \o Halves(x)
    BY <1>1, <1>4, <1>7, Zenon
  <2>3. QED
    BY <1>1, <1>6, <1>9, <1>10, <2>1, <2>2, Zenon DEF OnTheWay
<1>12. LeftTheBody(s, k)'
  BY <1>1, Zenon DEF AlongBy, LeftTheBody
<1>13. QED
  BY <1>1, <1>11, <1>12, Zenon DEF AlongBy

LEMMA HandlerEndsAlong ==
  ASSUME ChatShape, NEW s, NEW k, AlongBy(s, k), HandlerEnds, ~Gone
  PROVE  AlongBy(s, k)'
<1>1. /\ tokens = <<>> /\ tokens' = <<>> /\ server = "closed" /\ server' = "answered" /\ wire' = wire \o Halves(Done)
      /\ UNCHANGED <<remote, body, tokens, page>>
  BY DEF HandlerEnds
<1>2. /\ s \in Seq(Nat) /\ page.text \in Seq(Nat) /\ Done \in Nat
      /\ page.kept \in Seq(Piece) /\ wire \in Seq(Piece)
  BY ChatTypes DEF AlongBy, ChatShape
<1>3. PICK way : way = page.kept \o wire
  OBVIOUS
<1>4. way \in Seq(Piece)
  BY <1>3, WayTyped, Zenon
<1>5. /\ (page.text \o Whole(way)) \o <<>> = s
      /\ \E m \in Nat : Len(way) = 2 * m
      /\ Whole(way) \in Seq(Nat)
  <2>1. OnTheWay(s, way)
    BY <1>3 DEF AlongBy
  <2>2. Whole(way) \in Seq(Nat)
    BY <1>2, <1>4, <2>1, WayBegins, Zenon
  <2>3. server # "answered"
    BY <1>1
  <2>4. QED
    BY <1>1, <2>1, <2>2, <2>3, Zenon DEF OnTheWay
<1>6. page.text \o Whole(way) = s
  <2>1. page.text \o Whole(way) \in Seq(Nat)
    BY <1>2, <1>5, NumbersJoined, Zenon
  <2>2. QED
    BY <1>5, <2>1, LinesShown, Zenon
<1>7. page.kept \o (wire \o Halves(Done)) = way \o Halves(Done)
  BY <1>2, <1>3, HalvesAre, PiecesGrouped, Zenon
<1>8. PICK m \in Nat : Len(way) = 2 * m
  BY <1>5
<1>9. Len(way \o Halves(Done)) = 2 * (m + 1) /\ Whole(way \o Halves(Done)) = Append(Whole(way), Done)
  BY <1>2, <1>4, <1>8, TokenToTheWire, Zenon
<1>10. OnTheWay(s, page.kept \o wire)'
  <2>1. m + 1 \in Nat
    OBVIOUS
  <2>2. page'.kept \o wire' = way \o Halves(Done)
    BY <1>1, <1>3, <1>7, Zenon
  <2>3. QED
    BY <1>1, <1>5, <1>6, <1>9, <2>1, <2>2, Zenon DEF OnTheWay
<1>11. LeftTheBody(s, k)'
  <2>1. /\ \A i \in 1..k : s[i] = i
        /\ \/ Len(s) = k /\ k = remote.tokens /\ remote.ends # "open"
           \/ Len(s) = k + 1 /\ s[k + 1] = Mark
    BY <1>1 DEF AlongBy, LeftTheBody
  <2>2. QED
    BY <1>1, <2>1, Zenon DEF LeftTheBody
<1>12. QED
  BY <1>1, <1>10, <1>11, Zenon DEF AlongBy

-----------------------------------------------------------------------------
\* The steps of the page.
LEMMA NoneJoined ==
  ASSUME NEW s \in Seq(Nat), NEW l \in Seq(Nat), s \o l = <<>>
  PROVE  s = <<>> /\ l = <<>>
OBVIOUS

LEMMA PageReadsAlong ==
  ASSUME ChatShape, NEW s, NEW k, AlongBy(s, k), NEW n \in 1..(2 * ChanSize + 2), PageReads(n)
  PROVE  AlongBy(s, k)'
<1>1. UNCHANGED <<remote, body, tokens, server>>
  BY DEF PageReads
<1>2. PICK taken \in Seq(Piece), rest \in Seq(Piece), way \in Seq(Piece) :
        /\ way = page.kept \o wire /\ rest = page'.kept \o wire'
        /\ page'.text = page.text \o Spoken(Whole(taken)) /\ Cut(taken, rest, way)
  BY PageRead
<1>3. s \in Seq(Nat) /\ k \in 0..remote.tokens /\ LeftTheBody(s, k) /\ OnTheWay(s, way)
  BY <1>2, Zenon DEF AlongBy
<1>4. page.text \in Seq(Nat) /\ tokens \in Seq(Nat) /\ NoDone(s)
  BY <1>3, ChatTypes, LeftNoDone, Zenon DEF ChatShape
<1>5. PICK m \in Nat : Len(way) = 2 * m
  BY <1>3, Zenon DEF OnTheWay
<1>6. /\ \E d \in Nat : Len(rest) = 2 * d
      /\ Whole(taken) \in Seq(Nat) /\ Whole(rest) \in Seq(Nat)
      /\ Whole(way) = Whole(taken) \o Whole(rest)
  BY <1>2, <1>5, LinesRead, Zenon
<1>7. PICK l1, l2, t : l1 = Whole(taken) /\ l2 = Whole(rest) /\ t = page.text
  OBVIOUS
<1>8. l1 \in Seq(Nat) /\ l2 \in Seq(Nat) /\ t \in Seq(Nat) /\ Whole(way) = l1 \o l2
  BY <1>4, <1>6, <1>7, Zenon
<1>9. \/ server # "answered" /\ ((t \o Spoken(l1)) \o l2) \o tokens = s
      \/ server = "answered" /\ tokens = <<>> /\ l2 = <<>> /\ t \o Spoken(l1) = s
      \/ server = "answered" /\ tokens = <<>> /\ \E f \in Seq(Nat) : l2 = Append(f, Done) /\ (t \o Spoken(l1)) \o f = s
  <2>1. CASE server # "answered" /\ (t \o (l1 \o l2)) \o tokens = s
    <3>1. t \o (l1 \o l2) = (t \o l1) \o l2
      BY <1>8, Grouped, Zenon
    <3>2. t \o l1 \in Seq(Nat)
      BY <1>8, NumbersJoined, Zenon
    <3>3. (t \o l1) \o l2 \in Seq(Nat)
      BY <1>8, <3>2, NumbersJoined, Zenon
    <3>4. NoDone(((t \o l1) \o l2) \o tokens)
      BY <1>4, <2>1, <3>1, Zenon
    <3>5. NoDone((t \o l1) \o l2)
      BY <1>4, <3>3, <3>4, NoDoneBefore, Zenon
    <3>6. NoDone(t \o l1)
      BY <1>8, <3>2, <3>5, NoDoneBefore, Zenon
    <3>7. Spoken(l1) = l1
      BY <1>8, <3>6, AllSpoken, Zenon
    <3>8. QED
      BY <2>1, <3>1, <3>7, Zenon
  <2>2. CASE server = "answered" /\ tokens = <<>> /\ l1 \o l2 = <<>> /\ t = s
    <3>1. l1 = <<>> /\ l2 = <<>>
      BY <1>8, <2>2, NoneJoined, Zenon
    <3>2. Spoken(l1) = <<>>
      BY <1>8, <3>1, DoneIsNumber, SpokenOf, Zenon
    <3>3. t \o <<>> = t
      BY <1>8, LinesShown, Zenon
    <3>4. QED
      BY <2>2, <3>1, <3>2, <3>3, Zenon
  <2>3. ASSUME NEW f \in Seq(Nat), server = "answered", tokens = <<>>, l1 \o l2 = Append(f, Done), t \o f = s
        PROVE  \/ server = "answered" /\ tokens = <<>> /\ l2 = <<>> /\ t \o Spoken(l1) = s
               \/ server = "answered" /\ tokens = <<>> /\ \E g \in Seq(Nat) : l2 = Append(g, Done) /\ (t \o Spoken(l1)) \o g = s
    <3>1. NoDone(t \o f)
      BY <1>4, <2>3, Zenon
    <3>2. \/ l2 = <<>> /\ t \o Spoken(l1) = t \o f
          \/ \E g \in Seq(Nat) : l2 = Append(g, Done) /\ (t \o Spoken(l1)) \o g = t \o f
      <4>1. \A g \in Seq(Nat) : l1 \o l2 = Append(g, Done) /\ NoDone(t \o g) =>
              \/ l2 = <<>> /\ t \o Spoken(l1) = t \o g
              \/ \E h \in Seq(Nat) : l2 = Append(h, Done) /\ (t \o Spoken(l1)) \o h = t \o g
        BY <1>8, SpokenLast, ZenonT(60)
      <4>2. QED
        BY <2>3, <3>1, <4>1, Zenon
    <3>3. QED
      BY <2>3, <3>2, Zenon
  <2>4. \/ server # "answered" /\ (t \o (l1 \o l2)) \o tokens = s
        \/ server = "answered" /\ tokens = <<>> /\ l1 \o l2 = <<>> /\ t = s
        \/ server = "answered" /\ tokens = <<>> /\ \E f \in Seq(Nat) : l1 \o l2 = Append(f, Done) /\ t \o f = s
    BY <1>3, <1>7, <1>8, Zenon DEF OnTheWay
  <2>5. QED
    BY <2>1, <2>2, <2>3, <2>4, Zenon
<1>10. OnTheWay(s, page.kept \o wire)'
  <2>1. /\ page'.text = t \o Spoken(l1) /\ Whole(page'.kept \o wire') = l2
        /\ \E d \in Nat : Len(page'.kept \o wire') = 2 * d
    BY <1>2, <1>6, <1>7, Zenon
  <2>2. QED
    BY <1>1, <1>9, <2>1, Zenon DEF OnTheWay
<1>11. LeftTheBody(s, k)'
  BY <1>1, <1>3, Zenon DEF LeftTheBody
<1>12. QED
  BY <1>1, <1>3, <1>10, <1>11, Zenon DEF AlongBy

LEMMA QuietAlong ==
  ASSUME ChatShape, NEW s, NEW k, AlongBy(s, k), PageEnds \/ UNCHANGED chatVars
  PROVE  AlongBy(s, k)'
<1>1. /\ UNCHANGED <<remote, body, tokens, server, wire>>
      /\ page'.kept = page.kept /\ page'.text = page.text
  BY ChatTypes DEF PageEnds, chatVars
<1>2. LeftTheBody(s, k)' /\ OnTheWay(s, page.kept \o wire)'
  BY <1>1, Zenon DEF AlongBy, LeftTheBody, OnTheWay
<1>3. QED
  BY <1>1, <1>2, Zenon DEF AlongBy

LEMMA ChatInvStep == ChatInv /\ [ChatNext]_chatVars => ChatInv'
<1> SUFFICES ASSUME ChatInv, [ChatNext]_chatVars
             PROVE  ChatInv'
  OBVIOUS
<1>1. ChatShape /\ ChatShape'
  BY ChatShapeStep DEF ChatInv
<1>2. remote.tokens \in Nat /\ remote'.tokens \in Nat /\ remote.tokens <= remote'.tokens
  <2>1. remote.tokens \in Nat
    BY <1>1, ChatTypes
  <2>2. remote'.tokens \in {remote.tokens, remote.tokens + 1}
    BY <1>1, ChatTypes DEF ChatNext, Call, CallOllama, CallOther, ProviderSends, ProviderEnds, ReadLine, ReadEnds,
                           ReportError, ForwardToken, HandlerEnds, PageReads, PageEnds, PageCloses, chatVars
  <2>3. QED
    BY <2>1, <2>2
<1>3. TextSound
  BY <1>1, AlongSound DEF ChatInv
<1>4. CASE Gone
  <2>1. page'.text = page.text /\ Gone'
    BY <1>4 DEF Gone, ChatNext, Call, ProviderSends, ProviderEnds, ReadLine, ReadEnds,
                ReportError, ForwardToken, HandlerEnds, PageReads, PageEnds, PageCloses, chatVars
  <2>2. TextSound'
    BY <1>1, <1>2, <1>3, <2>1, SoundKept
  <2>3. QED
    BY <1>1, <2>1, <2>2 DEF ChatInv
<1>5. CASE PageCloses
  <2>1. page'.text = page.text /\ Gone'
    BY <1>1, <1>5, ChatTypes DEF PageCloses, Gone
  <2>2. TextSound'
    BY <1>1, <1>2, <1>3, <2>1, SoundKept
  <2>3. QED
    BY <1>1, <2>1, <2>2 DEF ChatInv
<1>6. CASE ~Gone /\ ~PageCloses
  <2>1. Along
    BY <1>6 DEF ChatInv
  <2>2. PICK s, k : AlongBy(s, k)
    BY <2>1 DEF Along, AlongBy
  <2>3. \E t, l : AlongBy(t, l)'
    <3>1. CASE Call
      BY <1>1, <2>2, <3>1, CallAlong, Zenon
    <3>2. CASE (\E l \in BOOLEAN : ProviderSends(l)) \/ (\E how \in {"done", "error", "cut"} : ProviderEnds(how))
      BY <1>1, <2>2, <3>2, ProviderAlong, Zenon
    <3>3. CASE ReadLine
      BY <1>1, <1>6, <2>2, <3>3, ReadLineAlong, Zenon
    <3>4. CASE ReadEnds
      BY <1>1, <1>6, <2>2, <3>4, ReadEndsAlong, Zenon
    <3>5. CASE ReportError
      BY <1>1, <2>2, <3>5, ReportErrorAlong, Zenon
    <3>6. CASE ForwardToken
      BY <1>1, <1>6, <2>2, <3>6, ForwardAlong, Zenon
    <3>7. CASE HandlerEnds
      BY <1>1, <1>6, <2>2, <3>7, HandlerEndsAlong, Zenon
    <3>8. ASSUME NEW n \in 1..(2 * ChanSize + 2), PageReads(n)
          PROVE  \E t, l : AlongBy(t, l)'
      BY <1>1, <2>2, <3>8, PageReadsAlong, Zenon
    <3>9. CASE PageEnds \/ UNCHANGED chatVars
      BY <1>1, <2>2, <3>9, QuietAlong, Zenon
    <3>10. QED
      BY <1>6, <3>1, <3>2, <3>3, <3>4, <3>5, <3>6, <3>7, <3>8, <3>9, Zenon DEF ChatNext
  <2>4. page'.pc = "idle" => server' = "answered" /\ wire' = <<>>
    <3>1. CASE page.pc = "idle"
      <4>1. server = "answered" /\ wire = <<>>
        BY <2>1, <3>1 DEF Along
      <4>2. tokens = <<>>
        BY <2>2, <4>1, Zenon DEF AlongBy, OnTheWay
      <4>3. QED
        BY <1>6, <3>1, <4>1, <4>2 DEF ChatNext, Call, ProviderSends, ProviderEnds, ReadLine, ReadEnds,
                ReportError, ForwardToken, HandlerEnds, PageReads, PageEnds, PageCloses, chatVars
    <3>2. CASE page.pc # "idle"
      <4>1. page'.pc = "idle" => PageEnds
        BY <1>1, <1>6, <3>2, ChatTypes DEF ChatNext, Call, ProviderSends, ProviderEnds, ReadLine, ReadEnds,
                ReportError, ForwardToken, HandlerEnds, PageReads, PageCloses, chatVars
      <4>2. QED
        BY <4>1 DEF PageEnds
    <3>3. QED
      BY <3>1, <3>2
  <2>5. Along'
    <3>1. PICK t, l : AlongBy(t, l)'
      BY <2>3
    <3>2. QED
      BY <2>4, <3>1, Zenon DEF Along, AlongBy
  <2>6. ~Gone'
    BY <1>1, <1>6, ChatTypes DEF Gone, ChatNext, Call, ProviderSends, ProviderEnds, ReadLine, ReadEnds,
                ReportError, ForwardToken, HandlerEnds, PageReads, PageEnds, chatVars
  <2>7. QED
    BY <1>1, <2>5, <2>6 DEF ChatInv
<1>7. QED
  BY <1>4, <1>5, <1>6

LEMMA ChatInitial == ChatInit => ChatInv
<1> SUFFICES ASSUME ChatInit
             PROVE  ChatInv
  OBVIOUS
<1>1. /\ remote = [tokens |-> 0, ends |-> "open"] /\ body = <<>> /\ tokens = <<>> /\ wire = <<>>
      /\ server = "calling" /\ page = [pc |-> "reading", kept |-> <<>>, text |-> <<>>]
  BY DEF ChatInit
<1>2. ChatShape
  BY <1>1, ChatAssumption DEF ChatShape
<1>3. PICK s : s = <<>>
  OBVIOUS
<1>4. s \in Seq(Nat) /\ Len(s) = 0 /\ s \o s = s
  BY <1>3
<1>5. Follows(s, 0, 0) /\ \A i \in 1..0 : s[i] = i
  BY <1>3 DEF Follows
<1>6. Len(s) = 2 * 0 /\ 0 \in Nat /\ 0 \in 0..0 /\ Whole(s) = s
  <2>1. Len(s) = 2 * 0 /\ 0 \in Nat /\ 0 \in 0..0
    BY <1>4
  <2>2. s \in Seq(Piece)
    BY <1>3, EmptySeq
  <2>3. Whole(s) \in Seq(Nat) /\ Len(Whole(s)) = 0
    BY <2>1, <2>2, LinesOfPieces
  <2>4. Whole(s) = <<>>
    BY <2>3, EmptySeq
  <2>5. QED
    BY <1>3, <2>1, <2>4
<1>7. LeftTheBody(s, 0)
  <2>1. body = s /\ remote.tokens = 0 /\ server \in {"calling", "reading", "failed"}
    BY <1>1, <1>3
  <2>2. QED
    BY <1>4, <1>5, <2>1, Zenon DEF LeftTheBody
<1>8. OnTheWay(s, page.kept \o wire)
  <2>1. page.kept = s /\ wire = s /\ page.text = s /\ tokens = s /\ server # "answered"
    BY <1>1, <1>3
  <2>2. QED
    BY <1>4, <1>6, <2>1, Zenon DEF OnTheWay
<1>9. Along
  <2>1. page.pc # "idle" /\ remote.tokens = 0
    BY <1>1
  <2>2. QED
    BY <1>4, <1>6, <1>7, <1>8, <2>1, Zenon DEF Along
<1>10. ~Gone
  BY <1>1 DEF Gone
<1>11. QED
  BY <1>2, <1>9, <1>10 DEF ChatInv

LEMMA PieceKept ==
  ASSUME NEW s \in Seq(Piece), Len(s) <= 1
  PROVE  Len(s) = 2 * 0 \/ Len(s) = 2 * 0 + 1
<1>1. Len(s) \in Nat
  OBVIOUS
<1>2. \A n \in Nat : n <= 1 => n = 0 \/ n = 1
  OBVIOUS
<1>3. 2 * 0 = 0 /\ 2 * 0 + 1 = 1
  OBVIOUS
<1>4. QED
  BY <1>1, <1>2, <1>3, Zenon

\* A page that reads no more shows all that has left the body.
LEMMA IdleShowsAll ==
  ASSUME ChatInv, page.pc = "idle"
  PROVE  server = "answered" /\ \E k \in 0..remote.tokens : LeftTheBody(page.text, k)
<1>1. ChatShape /\ Along
  BY DEF ChatInv, Gone
<1>2. server = "answered" /\ wire = <<>>
  BY <1>1 DEF Along
<1>3. PICK s, k : AlongBy(s, k)
  BY <1>1 DEF Along, AlongBy
<1>4. s \in Seq(Nat) /\ k \in 0..remote.tokens /\ LeftTheBody(s, k) /\ OnTheWay(s, page.kept \o wire)
  BY <1>3, Zenon DEF AlongBy
<1>5. page.kept \in Seq(Piece) /\ Len(page.kept) <= 1
  BY <1>1, ChatTypes DEF ChatShape
<1>6. page.kept \o wire = page.kept
  BY <1>2, <1>5
<1>7. Whole(page.kept) = <<>>
  <2>1. Len(page.kept) = 2 * 0 \/ Len(page.kept) = 2 * 0 + 1
    BY <1>5, PieceKept, Zenon
  <2>2. Whole(page.kept) \in Seq(Nat) /\ Len(Whole(page.kept)) = 0
    BY <1>5, <2>1, LinesOfPieces
  <2>3. QED
    BY <2>2, EmptySeq
<1>8. page.text = s
  <2>1. \A f \in Seq(Nat) : Append(f, Done) # <<>>
    BY DoneIsNumber, SpokenOf, Zenon
  <2>2. OnTheWay(s, page.kept)
    BY <1>4, <1>6, Zenon
  <2>3. QED
    BY <1>2, <1>7, <2>1, <2>2, Zenon DEF OnTheWay
<1>9. QED
  BY <1>2, <1>4, <1>8, Zenon

\* What the invariant says of an answer.
LEMMA AnswerOfInv == ChatInv => ChatTypeOK /\ AnswerWholeOrMarked
<1> SUFFICES ASSUME ChatInv
             PROVE  ChatTypeOK /\ AnswerWholeOrMarked
  OBVIOUS
<1>1. ChatShape
  BY DEF ChatInv
<1>2. ChatTypeOK
  BY <1>1, ChatTypes DEF ChatTypeOK, ChatShape
<1>3. TextSound
  BY <1>1, AlongSound DEF ChatInv
<1> DEFINE marked == page.text # <<>> /\ Last(page.text) = Mark
           said == IF marked THEN Len(page.text) - 1 ELSE Len(page.text)
<1>4. PICK n \in 0..remote.tokens :
        /\ \A i \in 1..n : page.text[i] = i
        /\ Len(page.text) = n \/ (Len(page.text) = n + 1 /\ page.text[n + 1] = Mark)
  BY <1>3 DEF TextSound
<1>5. remote.tokens \in Nat /\ Mark \in Nat /\ remote.tokens < Mark /\ page.text \in Seq(Nat)
  BY <1>1, ChatTypes
<1>6. said = n /\ (~marked => Len(page.text) = n)
  <2>1. CASE Len(page.text) = n
    <3>1. ~marked
      <4>1. CASE n = 0
        BY <1>5, <2>1, <4>1
      <4>2. CASE n # 0
        <5>1. n \in 1..n
          BY <4>2
        <5>2. page.text[n] = n /\ n < Mark
          <6>1. page.text[n] = n
            BY <1>4, <5>1
          <6>2. n < Mark
            BY <1>5
          <6>3. QED
            BY <6>1, <6>2
        <5>3. Last(page.text) = n
          BY <2>1, <5>2 DEF Last
        <5>4. n # Mark
          <6>1. Mark \in Nat
            BY <1>1, ChatTypes
          <6>2. QED
            BY <5>2, <6>1
        <5>5. QED
          BY <5>3, <5>4
      <4>3. QED
        BY <4>1, <4>2
    <3>2. QED
      BY <2>1, <3>1
  <2>2. CASE Len(page.text) = n + 1 /\ page.text[n + 1] = Mark
    <3>1. Last(page.text) = Mark
      BY <2>2 DEF Last
    <3>2. page.text # <<>>
      BY <2>2
    <3>3. QED
      BY <2>2, <3>1, <3>2
  <2>3. QED
    BY <1>4, <2>1, <2>2
<1> HIDE DEF marked, said
<1>7. ASSUME page.pc = "idle", ~marked
      PROVE  said = remote.tokens
  <2>1. PICK k \in 0..remote.tokens : LeftTheBody(page.text, k)
    BY <1>7, IdleShowsAll
  <2>2. server = "answered"
    BY <1>7, IdleShowsAll
  <2>3. \/ Len(page.text) = k /\ k = remote.tokens
        \/ Len(page.text) = k + 1 /\ page.text[k + 1] = Mark
    BY <2>1, <2>2 DEF LeftTheBody
  <2>4. CASE Len(page.text) = k /\ k = remote.tokens
    BY <1>6, <1>7, <2>4
  <2>5. CASE Len(page.text) = k + 1 /\ page.text[k + 1] = Mark
    <3>1. Last(page.text) = Mark
      BY <2>5 DEF Last
    <3>2. page.text # <<>>
      <4>1. k \in Nat
        BY <1>5, <2>1
      <4>2. Len(page.text) # 0
        BY <2>5, <4>1
      <4>3. QED
        BY <4>2
    <3>3. QED
      BY <1>7, <3>1, <3>2 DEF marked
  <2>6. QED
    BY <2>3, <2>4, <2>5
<1>8. said <= remote.tokens /\ \A i \in 1..said : page.text[i] = i
  BY <1>4, <1>5, <1>6
<1>9. AnswerWholeOrMarked
  <2>1. /\ said <= remote.tokens /\ \A i \in 1..said : page.text[i] = i
        /\ page.pc = "idle" /\ ~marked => said = remote.tokens
    BY <1>7, <1>8
  <2>2. QED
    BY <2>1, Zenon DEF AnswerWholeOrMarked, marked, said
<1>10. QED
  BY <1>2, <1>9

\* The page shows the answer from its first token on, in order and nothing twice, whatever
\* the sizes of the pieces, of the channel and of the answer; and it shows all of it when
\* nothing marks an error.
THEOREM AnswerAlwaysWholeOrMarked == ChatSpec => []AnswerWholeOrMarked
<1>1. ChatInit => ChatInv
  BY ChatInitial
<1>2. ChatInv /\ [ChatNext]_chatVars => ChatInv'
  BY ChatInvStep
<1>3. ChatInv => AnswerWholeOrMarked
  BY AnswerOfInv
<1>4. QED
  BY <1>1, <1>2, <1>3, PTL DEF ChatSpec

-----------------------------------------------------------------------------
(* What is left of a followed log.                                         *)

\* A sequence with one element that is not there, and so on for all of it: what is kept
\* of a sequence is kept of its parts.
Cells(s) == [i \in 1..Len(s) |-> IF s[i] = Newline THEN <<>> ELSE <<s[i]>>]

LEMMA CellsTyped ==
  ASSUME NEW s \in Seq(Nat)
  PROVE  /\ Cells(s) \in Seq(Seq(Nat)) /\ Len(Cells(s)) = Len(s) /\ Len(s) \in Nat
         /\ \A i \in 1..Len(s) : Cells(s)[i] = IF s[i] = Newline THEN <<>> ELSE <<s[i]>>
<1>1. Len(s) \in Nat /\ \A i \in 1..Len(s) : s[i] \in Nat
  OBVIOUS
<1>2. \A c \in Nat : <<c>> \in Seq(Nat)
  OBVIOUS
<1>3. <<>> \in Seq(Nat)
  OBVIOUS
<1> DEFINE V == Seq(Nat)
           n == Len(s)
           none == <<>>
           kept == [i \in 1..n |-> IF s[i] = Newline THEN none ELSE <<s[i]>>]
<1>4. kept \in [1..n -> V]
  <2>1. \A i \in 1..n : <<s[i]>> \in V
    BY <1>1, <1>2
  <2>2. none \in V
    BY <1>3
  <2> HIDE DEF V, none
  <2>3. QED
    BY <2>1, <2>2
<1>5. \A i \in 1..n : kept[i] = IF s[i] = Newline THEN none ELSE <<s[i]>>
  OBVIOUS
<1> HIDE DEF V, kept
<1>6. kept \in Seq(V) /\ Len(kept) = n
  BY <1>1, <1>4
<1>7. Cells(s) = kept
  BY Zenon DEF Cells, kept
<1>8. QED
  BY <1>1, <1>5, <1>6, <1>7 DEF V

LEMMA CharactersTyped ==
  ASSUME NEW s \in Seq(Nat)
  PROVE  Characters(s) = FlattenSeq(Cells(s)) /\ Characters(s) \in Seq(Nat)
<1>1. Characters(s) = FlattenSeq(Cells(s))
  BY Zenon DEF Characters, Cells
<1>2. Cells(s) \in Seq(Seq(Nat)) /\ <<>> \in Seq(Nat)
  BY CellsTyped
<1>3. QED
  BY <1>1, <1>2, FlattenAppend

LEMMA CharactersConcat ==
  ASSUME NEW s \in Seq(Nat), NEW t \in Seq(Nat)
  PROVE  s \o t \in Seq(Nat) /\ Characters(s \o t) = Characters(s) \o Characters(t)
<1> DEFINE u == s \o t
           V == Seq(Nat)
           a == Cells(s)
           b == Cells(t)
           c == Cells(u)
<1>1. /\ u \in Seq(Nat) /\ Len(u) = Len(s) + Len(t) /\ Len(s) \in Nat /\ Len(t) \in Nat
      /\ \A i \in 1..(Len(s) + Len(t)) : u[i] = IF i <= Len(s) THEN s[i] ELSE t[i - Len(s)]
  BY ConcatProperties
<1> HIDE DEF u
<1>2. /\ a \in Seq(V) /\ Len(a) = Len(s)
      /\ \A i \in 1..Len(s) : a[i] = IF s[i] = Newline THEN <<>> ELSE <<s[i]>>
  BY CellsTyped
<1>3. /\ b \in Seq(V) /\ Len(b) = Len(t)
      /\ \A i \in 1..Len(t) : b[i] = IF t[i] = Newline THEN <<>> ELSE <<t[i]>>
  BY CellsTyped
<1>4. /\ c \in Seq(V) /\ Len(c) = Len(s) + Len(t)
      /\ \A i \in 1..(Len(s) + Len(t)) : c[i] = IF u[i] = Newline THEN <<>> ELSE <<u[i]>>
  BY <1>1, CellsTyped
<1> HIDE DEF V, a, b, c
<1>5. /\ a \o b \in Seq(V) /\ Len(a \o b) = Len(s) + Len(t)
      /\ \A i \in 1..(Len(s) + Len(t)) : (a \o b)[i] = IF i <= Len(s) THEN a[i] ELSE b[i - Len(s)]
  BY <1>2, <1>3, ConcatProperties
<1>6. \A i \in 1..(Len(s) + Len(t)) : c[i] = (a \o b)[i]
  <2> SUFFICES ASSUME NEW i \in 1..(Len(s) + Len(t))
               PROVE  c[i] = (a \o b)[i]
    OBVIOUS
  <2>1. CASE i <= Len(s)
    <3>1. i \in 1..Len(s)
      BY <1>1, <2>1
    <3>2. (a \o b)[i] = a[i] /\ u[i] = s[i]
      BY <1>1, <1>5, <2>1
    <3>3. QED
      BY <1>2, <1>4, <3>1, <3>2
  <2>2. CASE ~(i <= Len(s))
    <3>1. i - Len(s) \in 1..Len(t)
      BY <1>1, <2>2
    <3>2. QED
      BY <1>1, <1>3, <1>4, <1>5, <2>2, <3>1
  <2>3. QED
    BY <2>1, <2>2
<1>7. c = a \o b
  <2> DEFINE w == a \o b
  <2>1. w \in Seq(V) /\ c \in Seq(V) /\ Len(c) = Len(w) /\ \A i \in 1..Len(c) : c[i] = w[i]
    BY <1>4, <1>5, <1>6
  <2> HIDE DEF w
  <2>2. c = w
    BY <2>1, SeqEqual
  <2>3. QED
    BY <2>2 DEF w
<1>8. FlattenSeq(c) = FlattenSeq(a) \o FlattenSeq(b)
  BY <1>2, <1>3, <1>7, FlattenConcat DEF V
<1>9. QED
  BY <1>1, <1>8, CharactersTyped DEF a, b, c, u

LEMMA CharactersOfOne ==
  ASSUME NEW c \in Nat
  PROVE  Characters(<<c>>) = (IF c = Newline THEN <<>> ELSE <<c>>) /\ Characters(<<>>) = <<>>
<1> DEFINE s == <<c>>
           none == <<>>
<1>1. s \in Seq(Nat) /\ Len(s) = 1 /\ s[1] = c
  OBVIOUS
<1> HIDE DEF s
<1>2. /\ Cells(s) \in Seq(Seq(Nat)) /\ Len(Cells(s)) = 1
      /\ Cells(s)[1] = IF c = Newline THEN <<>> ELSE <<c>>
  <2>1. /\ Cells(s) \in Seq(Seq(Nat)) /\ Len(Cells(s)) = Len(s)
        /\ \A i \in 1..Len(s) : Cells(s)[i] = IF s[i] = Newline THEN <<>> ELSE <<s[i]>>
    BY <1>1, CellsTyped
  <2>2. 1 \in 1..Len(s)
    BY <1>1
  <2>3. Cells(s)[1] = IF s[1] = Newline THEN <<>> ELSE <<s[1]>>
    BY <2>1, <2>2
  <2>4. QED
    BY <1>1, <2>1, <2>3
<1>3. none \in Seq(Nat) /\ Len(none) = 0
  OBVIOUS
<1>4. Cells(none) = <<>>
  <2>1. Cells(none) \in Seq(Seq(Nat)) /\ Len(Cells(none)) = 0
    BY <1>3, CellsTyped
  <2>2. QED
    BY <2>1
<1>5. Characters(none) = <<>>
  BY <1>3, <1>4, CharactersTyped, FlattenNone
<1> DEFINE v == IF c = Newline THEN <<>> ELSE <<c>>
<1>6. v \in Seq(Nat)
  OBVIOUS
<1>7. Cells(s) = Append(<<>>, v)
  <2> HIDE DEF v
  <2>1. Cells(s)[1] = v
    BY <1>2 DEF v
  <2>2. Append(<<>>, v) = <<v>>
    OBVIOUS
  <2>3. QED
    BY <1>2, <2>1, <2>2
<1>8. Characters(s) = <<>> \o v
  <2> HIDE DEF v
  <2>1. <<>> \in Seq(Seq(Nat))
    OBVIOUS
  <2>2. FlattenSeq(Append(<<>>, v)) = FlattenSeq(<<>>) \o v
    BY <1>6, <2>1, FlattenAppend
  <2>3. QED
    BY <1>1, <1>7, <2>2, CharactersTyped, FlattenNone
<1>9. QED
  BY <1>5, <1>6, <1>8, ConcatEmptySeq DEF s, none

LEMMA CharactersMore ==
  ASSUME NEW s \in Seq(Nat), NEW n \in Nat, n < Len(s)
  PROVE  /\ SubSeq(s, 1, n) \in Seq(Nat)
         /\ Characters(SubSeq(s, 1, n + 1)) =
              IF s[n + 1] = Newline THEN Characters(SubSeq(s, 1, n))
              ELSE Characters(SubSeq(s, 1, n)) \o <<s[n + 1]>>
<1> DEFINE t == SubSeq(s, 1, n)
           u == SubSeq(s, 1, n + 1)
           c == s[n + 1]
           w == <<c>>
<1>1. Len(s) \in Nat /\ c \in Nat /\ \A i \in 1..n : s[i] \in Nat
  OBVIOUS
<1>2. t \in Seq(Nat)
  BY <1>1, SubSeqProperties
<1>3. u = t \o w
  <2>1. 1 \in 1..Len(s) /\ n + 1 \in 1..Len(s) /\ (n + 1) - 1 = n
    BY <1>1
  <2>2. SubSeq(s, 1, n + 1) = SubSeq(s, 1, (n + 1) - 1) \o <<s[n + 1]>>
    <3> DEFINE k == n + 1
    <3>1. k \in 1..Len(s)
      BY <2>1
    <3> HIDE DEF k
    <3>2. SubSeq(s, 1, k) = SubSeq(s, 1, k - 1) \o <<s[k]>>
      BY <2>1, <3>1, SubSeqRecursiveSecond
    <3>3. QED
      BY <3>2 DEF k
  <2>3. QED
    BY <2>1, <2>2
<1>4. w \in Seq(Nat) /\ Characters(w) = IF c = Newline THEN <<>> ELSE w
  BY <1>1, CharactersOfOne
<1>5. Characters(u) = Characters(t) \o Characters(w) /\ Characters(t) \in Seq(Nat)
  <2> HIDE DEF t, u, w
  <2>1. QED
    BY <1>2, <1>3, <1>4, CharactersConcat, CharactersTyped
<1>6. Characters(t) \o <<>> = Characters(t)
  BY <1>5, ConcatEmptySeq
<1> HIDE DEF t, u, c
<1>7. QED
  BY <1>2, <1>4, <1>5, <1>6 DEF t, u, c

\* The lines after each cell, as LinesUpTo builds them.
Split(s, f) ==
  f = [n \in 0..Len(s) |->
        IF n = 0 THEN <<>>
        ELSE LET before == f[n - 1]
             IN  IF s[n] = Newline THEN before
                 ELSE IF n = 1 \/ s[n - 1] = Newline THEN Append(before, <<s[n]>>)
                 ELSE [before EXCEPT ![Len(before)] = Append(@, s[n])]]

LEMMA SplitExists ==
  ASSUME NEW s \in Seq(Nat)
  PROVE  \E f : Split(s, f)
<1> DEFINE V == Seq(Seq(Nat))
           n == Len(s)
           none == <<>>
           step == [p \in (1..n) \X V |->
                     IF s[p[1]] = Newline THEN p[2]
                     ELSE IF p[1] = 1 \/ s[p[1] - 1] = Newline THEN Append(p[2], <<s[p[1]]>>)
                     ELSE Longer(p[2], s[p[1]])]
<1>1. n \in Nat /\ none \in V /\ \A i \in 1..n : s[i] \in Nat /\ <<s[i]>> \in Seq(Nat)
  OBVIOUS
<1>2. \A i \in 1..n : \A v \in V :
        step[<<i, v>>] = IF s[i] = Newline THEN v
                         ELSE IF i = 1 \/ s[i - 1] = Newline THEN Append(v, <<s[i]>>)
                         ELSE Longer(v, s[i])
  OBVIOUS
<1>3. \A i \in 1..n : \A v \in V : Append(v, <<s[i]>>) \in V /\ Longer(v, s[i]) \in V
  <2> SUFFICES ASSUME NEW i \in 1..n, NEW v \in V
               PROVE  Append(v, <<s[i]>>) \in V /\ Longer(v, s[i]) \in V
    OBVIOUS
  <2>1. s[i] \in Nat /\ <<s[i]>> \in Seq(Nat) /\ v \in Seq(Seq(Nat))
    BY <1>1
  <2>2. Longer(v, s[i]) \in V
    BY <2>1, LongerLast
  <2>3. Append(v, <<s[i]>>) \in V
    BY <2>1
  <2>4. QED
    BY <2>2, <2>3
<1>4. \A i \in 1..n : \A v \in V : step[<<i, v>>] \in V
  <2> HIDE DEF V, step, n
  <2>1. QED
    BY <1>2, <1>3
<1> HIDE DEF V, n, none, step
<1>5. \E f : f \in [0..n -> V] /\ Stepwise(f, none, n, step)
  BY <1>1, <1>4, StepByStep, Zenon
<1>6. PICK f : f \in [0..n -> V] /\ Stepwise(f, none, n, step)
  BY <1>5
<1> DEFINE At(i) ==
      IF i = 0 THEN <<>>
      ELSE LET before == f[i - 1]
           IN  IF s[i] = Newline THEN before
               ELSE IF i = 1 \/ s[i - 1] = Newline THEN Append(before, <<s[i]>>)
               ELSE [before EXCEPT ![Len(before)] = Append(@, s[i])]
<1>7. \A i \in 0..n : f[i] = At(i)
  <2>1. f[0] = At(0)
    BY <1>6 DEF Stepwise, none
  <2>2. ASSUME NEW i \in 1..n
        PROVE  f[i] = At(i)
    <3>1. i - 1 \in 0..n /\ f[i - 1] \in V /\ i # 0
      BY <1>1, <1>6
    <3>2. f[i] = step[<<i, f[i - 1]>>]
      BY <1>6 DEF Stepwise
    <3>3. f[i] = IF s[i] = Newline THEN f[i - 1]
                 ELSE IF i = 1 \/ s[i - 1] = Newline THEN Append(f[i - 1], <<s[i]>>)
                 ELSE Longer(f[i - 1], s[i])
      BY <1>2, <3>1, <3>2
    <3>4. QED
      BY <3>1, <3>3, Zenon DEF Longer
  <2>3. \A i \in 0..n : i = 0 \/ i \in 1..n
    BY <1>1
  <2> HIDE DEF At
  <2>4. QED
    BY <2>1, <2>2, <2>3
<1>8. f = [i \in 0..n |-> At(i)]
  <2> HIDE DEF At
  <2>1. QED
    BY <1>6, <1>7
<1>9. QED
  BY <1>8, Zenon DEF Split, n

LEMMA SplitBuilds ==
  ASSUME NEW s \in Seq(Nat)
  PROVE  \E f : Split(s, f) /\ \A m : LinesUpTo(s, m) = f[m]
<1> DEFINE f == CHOOSE f : f = [n \in 0..Len(s) |->
                  IF n = 0 THEN <<>>
                  ELSE LET before == f[n - 1]
                       IN  IF s[n] = Newline THEN before
                           ELSE IF n = 1 \/ s[n - 1] = Newline THEN Append(before, <<s[n]>>)
                           ELSE [before EXCEPT ![Len(before)] = Append(@, s[n])]]
<1>1. \A m : LinesUpTo(s, m) = f[m]
  BY Zenon DEF LinesUpTo
<1>2. Split(s, f)
  BY SplitExists, Zenon DEF Split
<1> HIDE DEF f
<1>3. QED
  BY <1>1, <1>2, Zenon

\* All characters of a piece are of one line between two newlines.
Steady(s) == \A i \in 1..(Len(s) - 1) : s[i] = s[i + 1] \/ Newline \in {s[i], s[i + 1]}

\* An event is a part of one line.
OneLine(e) == e # <<>> /\ \A j \in 1..Len(e) : e[j] = e[1]

\* splitLines: whatever the piece, all its characters are in its lines, in order; and a
\* piece of a log gives parts of lines.
LEMMA SplitKeeps ==
  ASSUME NEW s \in Seq(Nat), Steady(s)
  PROVE  /\ SplitLines(s) \in Seq(Seq(Nat))
         /\ FlattenSeq(SplitLines(s)) = Characters(s)
         /\ \A k \in 1..Len(SplitLines(s)) : OneLine(SplitLines(s)[k])
<1>1. PICK f : Split(s, f) /\ \A m : LinesUpTo(s, m) = f[m]
  BY SplitBuilds
<1> DEFINE Of(n) == Characters(SubSeq(s, 1, n))
           Good(n) == /\ f[n] \in Seq(Seq(Nat))
                      /\ FlattenSeq(f[n]) = Of(n)
                      /\ \A k \in 1..Len(f[n]) : OneLine(f[n][k])
                      /\ n > 0 /\ s[n] # Newline =>
                           f[n] # <<>> /\ f[n][Len(f[n])][1] = s[n]
           T == {n \in Nat : n <= Len(s) => Good(n)}
<1>2. Len(s) \in Nat /\ \A i \in 1..Len(s) : s[i] \in Nat
  OBVIOUS
<1>3. \A n \in 0..Len(s) :
        f[n] = IF n = 0 THEN <<>>
               ELSE IF s[n] = Newline THEN f[n - 1]
               ELSE IF n = 1 \/ s[n - 1] = Newline THEN Append(f[n - 1], <<s[n]>>)
               ELSE Longer(f[n - 1], s[n])
  BY <1>1, Zenon DEF Split, Longer
<1>4. 0 \in T
  <2>1. f[0] = <<>>
    <3>1. 0 \in 0..Len(s)
      BY <1>2
    <3>2. QED
      BY <1>3, <3>1, Zenon
  <2>2. SubSeq(s, 1, 0) = <<>>
    BY SubSeqEmpty
  <2>3. Of(0) = <<>>
    BY <2>2, CharactersOfOne
  <2>4. Good(0)
    <3>1. <<>> \in Seq(Seq(Nat)) /\ Len(<<>>) = 0
      OBVIOUS
    <3> HIDE DEF Of
    <3>2. QED
      BY <2>1, <2>3, <3>1, FlattenNone
  <2> HIDE DEF Good
  <2>5. QED
    BY <2>4
<1>5. ASSUME NEW n \in Nat, n \in T
      PROVE  n + 1 \in T
  <2> SUFFICES ASSUME n + 1 <= Len(s)
               PROVE  Good(n + 1)
    OBVIOUS
  <2> DEFINE c == s[n + 1]
             v == f[n]
             w == f[n + 1]
  <2>1. c \in Nat /\ n < Len(s) /\ n + 1 > 0
    BY <1>2
  <2>2. Good(n)
    BY <1>5, <2>1
  <2>3. Of(n + 1) = IF c = Newline THEN Of(n) ELSE Of(n) \o <<c>>
    BY <2>1, CharactersMore
  <2>4. w = IF c = Newline THEN v
            ELSE IF n = 0 \/ s[n] = Newline THEN Append(v, <<c>>)
            ELSE Longer(v, c)
    <3>1. n + 1 \in 0..Len(s) /\ n + 1 # 0 /\ (n + 1) - 1 = n /\ (n + 1 = 1 <=> n = 0)
      BY <1>2
    <3>2. QED
      BY <1>3, <3>1
  <2>5. /\ v \in Seq(Seq(Nat)) /\ FlattenSeq(v) = Of(n) /\ \A k \in 1..Len(v) : OneLine(v[k])
        /\ n > 0 /\ s[n] # Newline => v # <<>> /\ v[Len(v)][1] = s[n]
    BY <2>2
  <2>6. \A k \in 1..Len(v) : v[k] \in Seq(Nat) /\ Len(v) \in Nat
    BY <2>5
  <2> HIDE DEF Of, w, v
  <2>7. CASE c = Newline
    BY <2>3, <2>4, <2>5, <2>7 DEF w
  <2>8. CASE c # Newline /\ (n = 0 \/ s[n] = Newline)
    <3> DEFINE e == <<c>>
    <3>1. e \in Seq(Nat) /\ Len(e) = 1 /\ e[1] = c /\ OneLine(e)
      BY <2>1 DEF OneLine
    <3>2. w = Append(v, e)
      BY <2>4, <2>8
    <3> HIDE DEF e
    <3>3. /\ w \in Seq(Seq(Nat)) /\ Len(w) = Len(v) + 1 /\ w # <<>> /\ Len(v) \in Nat
          /\ w[Len(v) + 1] = e /\ \A k \in 1..Len(v) : w[k] = v[k]
      <4> DEFINE V == Seq(Nat)
      <4>1. v \in Seq(V) /\ e \in V /\ Len(v) \in Nat
        BY <2>5, <3>1
      <4> HIDE DEF V
      <4>2. /\ w \in Seq(V) /\ w # <<>> /\ Len(w) = Len(v) + 1
            /\ w[Len(v) + 1] = e /\ \A k \in 1..Len(v) : w[k] = v[k]
        BY <3>2, <4>1, AppendProperties
      <4>3. QED
        BY <4>1, <4>2 DEF V
    <3>4. FlattenSeq(w) = Of(n) \o e
      BY <2>5, <3>1, <3>2, FlattenAppend
    <3>5. FlattenSeq(w) = Of(n + 1)
      BY <2>3, <2>8, <3>4 DEF e
    <3>6. \A k \in 1..Len(w) : OneLine(w[k])
      <4>1. \A k \in 1..Len(w) : k \in 1..Len(v) \/ k = Len(v) + 1
        BY <3>3
      <4>2. QED
        BY <2>5, <3>1, <3>3, <4>1
    <3>7. w[Len(w)][1] = c
      BY <3>1, <3>3
    <3>8. QED
      BY <3>3, <3>5, <3>6, <3>7 DEF w
  <2>9. CASE c # Newline /\ n # 0 /\ s[n] # Newline
    <3>1. w = Longer(v, c) /\ v # <<>> /\ v[Len(v)][1] = s[n]
      BY <2>4, <2>5, <2>9
    <3>2. s[n] = c
      <4>1. n \in 1..(Len(s) - 1)
        BY <1>2, <2>1, <2>9
      <4>2. s[n] = s[n + 1] \/ Newline \in {s[n], s[n + 1]}
        BY <4>1 DEF Steady
      <4>3. QED
        BY <2>9, <4>2
    <3>3. /\ w \in Seq(Seq(Nat)) /\ Len(w) = Len(v)
          /\ FlattenSeq(w) = Of(n) \o <<c>>
          /\ w[Len(v)] = Append(v[Len(v)], c)
          /\ \A k \in 1..(Len(v) - 1) : w[k] = v[k]
      <4>1. Longer(v, c) \in Seq(Seq(Nat)) /\ Len(Longer(v, c)) = Len(v)
        BY <2>1, <2>5, LongerLast
      <4>2. /\ FlattenSeq(Longer(v, c)) = FlattenSeq(v) \o <<c>>
            /\ Longer(v, c)[Len(v)] = Append(v[Len(v)], c)
            /\ \A k \in 1..(Len(v) - 1) : Longer(v, c)[k] = v[k]
        BY <2>1, <2>5, <3>1, LongerLast
      <4>3. QED
        BY <2>5, <3>1, <4>1, <4>2
    <3>4. Len(v) \in Nat \ {0}
      BY <2>5, <3>1
    <3> DEFINE e == v[Len(v)]
               e2 == Append(e, c)
    <3>5. e \in Seq(Nat) /\ OneLine(e) /\ e[1] = c
      BY <2>5, <2>6, <3>1, <3>2, <3>4
    <3> HIDE DEF e
    <3>6. /\ e2 # <<>> /\ Len(e2) = Len(e) + 1 /\ Len(e) \in Nat \ {0}
          /\ e2[Len(e) + 1] = c /\ \A j \in 1..Len(e) : e2[j] = e[j]
      <4>1. e # <<>> /\ e \in Seq(Nat) /\ c \in Nat
        BY <2>1, <3>5 DEF OneLine
      <4>2. Len(e) \in Nat \ {0}
        BY <4>1
      <4>3. /\ e2 # <<>> /\ Len(e2) = Len(e) + 1
            /\ e2[Len(e) + 1] = c /\ \A j \in 1..Len(e) : e2[j] = e[j]
        BY <4>1, AppendProperties, SMTT(30)
      <4>4. QED
        BY <4>2, <4>3
    <3> HIDE DEF e2
    <3>7. OneLine(e2) /\ e2[1] = c
      <4>1. \A j \in 1..Len(e2) : j \in 1..Len(e) \/ j = Len(e) + 1
        BY <3>6
      <4>2. \A j \in 1..Len(e2) : e2[j] = c
        BY <3>5, <3>6, <4>1 DEF OneLine
      <4>3. 1 \in 1..Len(e2)
        BY <3>6
      <4>4. QED
        BY <3>6, <4>2, <4>3 DEF OneLine
    <3>8. w[Len(v)] = e2
      BY <3>3 DEF e2, e
    <3>9. \A k \in 1..Len(w) : OneLine(w[k])
      <4>1. \A k \in 1..Len(w) : k \in 1..(Len(v) - 1) \/ k = Len(v)
        BY <3>3, <3>4
      <4>2. \A k \in 1..(Len(v) - 1) : OneLine(v[k])
        BY <2>5, <3>4
      <4>3. QED
        BY <3>3, <3>7, <3>8, <4>1, <4>2
    <3>10. w # <<>>
      BY <3>3, <3>4
    <3>11. FlattenSeq(w) = Of(n + 1)
      BY <2>3, <2>9, <3>3
    <3>12. w[Len(w)][1] = c
      BY <3>3, <3>7, <3>8
    <3>13. QED
      BY <3>3, <3>9, <3>10, <3>11, <3>12 DEF w
  <2>10. QED
    BY <2>7, <2>8, <2>9
<1>6. Good(Len(s))
  <2>1. Nat \subseteq T
    <3> HIDE DEF T
    <3>1. QED
      BY <1>4, <1>5, EveryNumber
  <2> HIDE DEF Good
  <2>2. QED
    BY <1>2, <2>1
<1>7. SplitLines(s) = f[Len(s)]
  BY <1>1 DEF SplitLines
<1>8. SubSeq(s, 1, Len(s)) = s
  BY SubSeqFull
<1>9. QED
  BY <1>6, <1>7, <1>8

\* The two parts of what is cut are the whole, and parts of one line between newlines.
LEMMA CutInTwo ==
  ASSUME NEW s \in Seq(Nat), NEW n \in Nat
  PROVE  /\ FirstOf(n, s) \in Seq(Nat) /\ AfterFirst(n, s) \in Seq(Nat)
         /\ FirstOf(n, s) \o AfterFirst(n, s) = s
         /\ \E k \in 0..Len(s) :
              /\ Len(AfterFirst(n, s)) = Len(s) - k
              /\ \A i \in 1..(Len(s) - k) : AfterFirst(n, s)[i] = s[k + i]
         /\ Steady(s) => Steady(FirstOf(n, s)) /\ Steady(AfterFirst(n, s))
<1> DEFINE k == AtMost(n, s)
           a == FirstOf(n, s)
           b == AfterFirst(n, s)
<1>1. Len(s) \in Nat /\ k \in 0..Len(s) /\ \A i \in 1..Len(s) : s[i] \in Nat
  BY DEF AtMost
<1>2. a = SubSeq(s, 1, k) /\ b = SubSeq(s, k + 1, Len(s))
  BY DEF FirstOf, AfterFirst
<1> HIDE DEF k, a, b
<1>3. a \in Seq(Nat) /\ Len(a) = k /\ \A i \in 1..k : a[i] = s[i]
  <2>1. \A i \in 1..k : s[i] \in Nat
    BY <1>1
  <2>2. k \in Int /\ 1 \in Int
    BY <1>1
  <2>3. /\ SubSeq(s, 1, k) \in Seq(Nat)
        /\ Len(SubSeq(s, 1, k)) = IF 1 <= k THEN k - 1 + 1 ELSE 0
        /\ \A i \in 1..(k - 1 + 1) : SubSeq(s, 1, k)[i] = s[1 + i - 1]
    BY <2>1, <2>2, SubSeqProperties
  <2>4. k - 1 + 1 = k /\ \A i \in 1..k : 1 + i - 1 = i
    BY <1>1
  <2>5. QED
    BY <1>1, <1>2, <2>3, <2>4
<1>4. b \in Seq(Nat) /\ Len(b) = Len(s) - k /\ \A i \in 1..(Len(s) - k) : b[i] = s[k + i]
  <2>1. \A i \in (k + 1)..Len(s) : s[i] \in Nat
    BY <1>1
  <2>2. k + 1 \in Int /\ Len(s) \in Int
    BY <1>1
  <2>3. /\ SubSeq(s, k + 1, Len(s)) \in Seq(Nat)
        /\ Len(SubSeq(s, k + 1, Len(s))) = IF k + 1 <= Len(s) THEN Len(s) - (k + 1) + 1 ELSE 0
        /\ \A i \in 1..(Len(s) - (k + 1) + 1) : SubSeq(s, k + 1, Len(s))[i] = s[(k + 1) + i - 1]
    BY <2>1, <2>2, SubSeqProperties
  <2> DEFINE t == SubSeq(s, k + 1, Len(s))
  <2>4. \A i \in 1..(Len(s) - k) : t[i] = s[k + i]
    <3> SUFFICES ASSUME NEW i \in 1..(Len(s) - k)
                 PROVE  t[i] = s[k + i]
      OBVIOUS
    <3>1. i \in 1..(Len(s) - (k + 1) + 1) /\ (k + 1) + i - 1 = k + i
      BY <1>1
    <3>2. t[i] = s[(k + 1) + i - 1]
      BY <2>3, <3>1
    <3>3. QED
      BY <3>1, <3>2
  <2>5. t \in Seq(Nat) /\ Len(t) = Len(s) - k
    <3>1. (IF k + 1 <= Len(s) THEN Len(s) - (k + 1) + 1 ELSE 0) = Len(s) - k
      BY <1>1
    <3>2. QED
      BY <2>3, <3>1
  <2> HIDE DEF t
  <2>6. QED
    BY <1>2, <2>4, <2>5 DEF t
<1>5. a \o b = s
  <2>1. 1 \in 1..(Len(s) + 1) /\ k \in (1 - 1)..Len(s) /\ Len(s) \in k..Len(s)
    BY <1>1
  <2>2. SubSeq(s, 1, k) \o SubSeq(s, k + 1, Len(s)) = SubSeq(s, 1, Len(s))
    BY <2>1, ConcatAdjacentSubSeq
  <2>3. QED
    BY <1>2, <2>2, SubSeqFull
<1>6. ASSUME Steady(s)
      PROVE  Steady(a) /\ Steady(b)
  <2>1. \A i \in 1..(Len(s) - 1) : s[i] = s[i + 1] \/ Newline \in {s[i], s[i + 1]}
    BY <1>6 DEF Steady
  <2>2. Steady(a)
    <3>1. \A i \in 1..(k - 1) : i \in 1..(Len(s) - 1) /\ a[i] = s[i] /\ a[i + 1] = s[i + 1]
      BY <1>1, <1>3
    <3>2. QED
      BY <1>3, <2>1, <3>1 DEF Steady
  <2>3. Steady(b)
    <3>1. \A i \in 1..(Len(s) - k - 1) :
            k + i \in 1..(Len(s) - 1) /\ b[i] = s[k + i] /\ b[i + 1] = s[(k + i) + 1]
      <4> SUFFICES ASSUME NEW i \in 1..(Len(s) - k - 1)
                   PROVE  k + i \in 1..(Len(s) - 1) /\ b[i] = s[k + i] /\ b[i + 1] = s[(k + i) + 1]
        OBVIOUS
      <4>1. k + i \in 1..(Len(s) - 1) /\ i \in 1..(Len(s) - k) /\ i + 1 \in 1..(Len(s) - k)
        BY <1>1
      <4>2. (k + i) + 1 = k + (i + 1)
        BY <1>1
      <4>3. b[i] = s[k + i] /\ b[i + 1] = s[k + (i + 1)]
        BY <1>4, <4>1
      <4>4. QED
        BY <4>1, <4>2, <4>3
    <3>2. QED
      BY <1>4, <2>1, <3>1, ZenonT(60) DEF Steady
  <2>4. QED
    BY <2>2, <2>3
<1>7. QED
  BY <1>1, <1>3, <1>4, <1>5, <1>6 DEF a, b

\* What the pipe of the operating system holds is the end of what was written.
EndOfLog ==
  /\ Len(osPipe) <= logged
  /\ \A i \in 1..Len(osPipe) : osPipe[i] = logText[(logged - Len(osPipe)) + i]

\* How far the two goroutines are, and what that says of the block between them.
Stages ==
  /\ copier \in {"reading", "done"} => block = <<>>
  /\ follower = "closed" => copier = "done"
  /\ streamer = "done" /\ viewer = "here" => follower = "closed"

Told ==
  /\ events \in Seq(Seq(Nat))
  /\ \A k \in 1..Len(events) : OneLine(events[k])
  /\ viewer = "here" =>
       Characters(SubSeq(logText, 1, logged))
         = (FlattenSeq(events) \o Characters(block)) \o Characters(osPipe)

ToldInv == LogInv /\ EndOfLog /\ Stages /\ Steady(block) /\ Told

LEMMA LogTyped ==
  ASSUME LogInv
  PROVE  /\ logText \in Seq(Nat) /\ Steady(logText) /\ Len(logText) \in Nat
         /\ logged \in Nat /\ logged <= Len(logText)
         /\ osPipe \in Seq(Nat) /\ block \in Seq(Nat) /\ Len(osPipe) \in Nat
         /\ BlockMax \in Nat /\ PieceMax \in Nat
         /\ SubSeq(logText, 1, logged) \in Seq(Nat)
<1>1. logText \in Logs /\ logged \in 0..Len(logText) /\ osPipe \in Seq(Nat) /\ block \in Seq(Nat)
  BY DEF LogInv, LogTypeOK
<1>2. logText \in Seq(Nat) /\ Steady(logText) /\ BlockMax \in Nat /\ PieceMax \in Nat
  BY <1>1, LogAssumption DEF Steady
<1>3. Len(logText) \in Nat /\ Len(osPipe) \in Nat /\ \A i \in 1..logged : logText[i] \in Nat
  BY <1>1, <1>2
<1>4. SubSeq(logText, 1, logged) \in Seq(Nat)
  BY <1>1, <1>3, SubSeqProperties
<1>5. QED
  BY <1>1, <1>2, <1>3, <1>4

LEMMA PipeSteady ==
  ASSUME LogInv, EndOfLog
  PROVE  Steady(osPipe)
<1>1. \A i \in 1..(Len(logText) - 1) :
        logText[i] = logText[i + 1] \/ Newline \in {logText[i], logText[i + 1]}
  BY LogTyped DEF Steady
<1>2. Len(logText) \in Nat /\ logged \in Nat /\ logged <= Len(logText) /\ Len(osPipe) \in Nat
  BY LogTyped
<1> SUFFICES ASSUME NEW i \in 1..(Len(osPipe) - 1)
             PROVE  osPipe[i] = osPipe[i + 1] \/ Newline \in {osPipe[i], osPipe[i + 1]}
  BY DEF Steady
<1> DEFINE j == (logged - Len(osPipe)) + i
<1>3. j \in 1..(Len(logText) - 1) /\ (logged - Len(osPipe)) + (i + 1) = j + 1
  BY <1>2 DEF EndOfLog
<1>4. osPipe[i] = logText[j] /\ osPipe[i + 1] = logText[j + 1]
  <2>1. i \in 1..Len(osPipe) /\ i + 1 \in 1..Len(osPipe)
    BY <1>2
  <2>2. QED
    BY <1>3, <2>1 DEF EndOfLog
<1>5. QED
  BY <1>1, <1>3, <1>4

LEMMA ToldInitial == LogInit => ToldInv
<1> SUFFICES ASSUME LogInit
             PROVE  ToldInv
  OBVIOUS
<1>1. LogInv
  BY LogInitial
<1>2. EndOfLog /\ Stages /\ Steady(block)
  BY DEF LogInit, EndOfLog, Stages, Steady
<1>3. Told
  <2>1. /\ events = <<>> /\ block = <<>> /\ osPipe = <<>> /\ logged = 0
    BY DEF LogInit
  <2>2. SubSeq(logText, 1, 0) = <<>>
    BY SubSeqEmpty
  <2>3. Characters(<<>>) = <<>> /\ FlattenSeq(<<>>) = <<>>
    BY CharactersOfOne, FlattenNone
  <2>4. <<>> \in Seq(Seq(Nat)) /\ Len(<<>>) = 0 /\ (<<>> \o <<>>) \o <<>> = <<>>
    OBVIOUS
  <2>5. Characters(SubSeq(logText, 1, logged))
          = (FlattenSeq(events) \o Characters(block)) \o Characters(osPipe)
    BY <2>1, <2>2, <2>3, <2>4, Zenon
  <2>6. Len(events) = 0 /\ events \in Seq(Seq(Nat))
    BY <2>1, <2>4, Zenon
  <2>7. QED
    BY <2>5, <2>6 DEF Told
<1>4. QED
  BY <1>1, <1>2, <1>3 DEF ToldInv

LEMMA WritesTold ==
  ASSUME ToldInv, TailWrites, LogInv'
  PROVE  ToldInv'
<1>1. /\ copier # "done" /\ logged < Len(logText) /\ logged' = logged + 1
      /\ osPipe' = Append(osPipe, logText[logged + 1])
      /\ UNCHANGED <<logText, tail, copier, block, follower, streamer, viewer, events>>
  BY DEF TailWrites
<1>2. /\ logText \in Seq(Nat) /\ logged \in Nat /\ Len(logText) \in Nat /\ osPipe \in Seq(Nat)
      /\ block \in Seq(Nat) /\ Len(osPipe) \in Nat /\ Len(osPipe) <= logged
  BY LogTyped DEF ToldInv, EndOfLog
<1> DEFINE c == logText[logged + 1]
<1>3. c \in Nat
  BY <1>1, <1>2
<1>4. /\ osPipe' = osPipe \o <<c>> /\ <<c>> \in Seq(Nat) /\ Len(osPipe') = Len(osPipe) + 1
      /\ osPipe'[Len(osPipe) + 1] = c /\ \A i \in 1..Len(osPipe) : osPipe'[i] = osPipe[i]
  BY <1>1, <1>2, <1>3, AppendIsConcat
<1>5. EndOfLog'
  <2>1. \A i \in 1..(Len(osPipe) + 1) : osPipe'[i] = logText[(logged + 1 - (Len(osPipe) + 1)) + i]
    <3>1. logged + 1 - (Len(osPipe) + 1) = logged - Len(osPipe)
      BY <1>2
    <3>2. (logged - Len(osPipe)) + (Len(osPipe) + 1) = logged + 1
      BY <1>2
    <3>3. \A i \in 1..(Len(osPipe) + 1) : i \in 1..Len(osPipe) \/ i = Len(osPipe) + 1
      BY <1>2
    <3>4. QED
      BY <1>4, <3>1, <3>2, <3>3 DEF ToldInv, EndOfLog
  <2>2. Len(osPipe') <= logged' /\ logText' = logText /\ logged' = logged + 1
    BY <1>1, <1>2, <1>4
  <2>3. \A i \in 1..Len(osPipe') : osPipe'[i] = logText'[(logged' - Len(osPipe')) + i]
    <3> SUFFICES ASSUME NEW i \in 1..Len(osPipe')
                 PROVE  osPipe'[i] = logText'[(logged' - Len(osPipe')) + i]
      OBVIOUS
    <3>1. i \in 1..(Len(osPipe) + 1) /\ Len(osPipe') = Len(osPipe) + 1
      BY <1>4
    <3>2. osPipe'[i] = logText[(logged + 1 - (Len(osPipe) + 1)) + i]
      BY <2>1, <3>1
    <3>3. (logged' - Len(osPipe')) + i = (logged + 1 - (Len(osPipe) + 1)) + i
      BY <1>2, <2>2, <3>1
    <3>4. QED
      BY <2>2, <3>2, <3>3, Zenon
  <2>4. QED
    BY <2>2, <2>3 DEF EndOfLog
<1>6. ASSUME viewer = "here"
      PROVE  Characters(SubSeq(logText, 1, logged + 1))
               = (FlattenSeq(events) \o Characters(block)) \o Characters(osPipe')
  <2> DEFINE all == Characters(SubSeq(logText, 1, logged))
             x == FlattenSeq(events) \o Characters(block)
             p == Characters(osPipe)
             one == Characters(<<c>>)
  <2>1. all = x \o p
    BY <1>6 DEF ToldInv, Told
  <2>2. Characters(osPipe') = p \o one
    BY <1>2, <1>4, CharactersConcat
  <2>3. Characters(SubSeq(logText, 1, logged + 1)) = all \o one
    <3>1. Characters(SubSeq(logText, 1, logged + 1)) =
             IF c = Newline THEN all ELSE all \o <<c>>
      BY <1>1, <1>2, CharactersMore
    <3>2. one = IF c = Newline THEN <<>> ELSE <<c>>
      BY <1>3, CharactersOfOne
    <3>3. all \in Seq(Nat)
      BY LogTyped, CharactersTyped DEF ToldInv
    <3>4. all \o <<>> = all
      BY <3>3, ConcatEmptySeq
    <3> HIDE DEF all, one, c
    <3>5. QED
      BY <3>1, <3>2, <3>4
  <2>4. x \in Seq(Nat) /\ p \in Seq(Nat) /\ one \in Seq(Nat)
    <3>1. Characters(block) \in Seq(Nat) /\ p \in Seq(Nat) /\ one \in Seq(Nat)
      BY <1>2, <1>4, CharactersTyped
    <3>2. FlattenSeq(events) \in Seq(Nat)
      BY FlattenAppend, <<>> \in Seq(Nat) DEF ToldInv, Told
    <3>3. QED
      BY <3>1, <3>2, ConcatProperties
  <2> HIDE DEF all, x, p, one
  <2>5. (x \o p) \o one = x \o (p \o one)
    BY <2>4, ConcatAssociative, SMTT(30)
  <2>6. QED
    BY <2>1, <2>2, <2>3, <2>5 DEF x
<1>7. Told'
  BY <1>1, <1>6 DEF ToldInv, Told
<1>8. QED
  BY <1>1, <1>5, <1>7 DEF ToldInv, Stages, Steady

LEMMA CopyTold ==
  ASSUME ToldInv, CopyBlock, LogInv'
  PROVE  ToldInv'
<1>1. copier = "reading" /\ UNCHANGED <<logText, logged, tail, follower, streamer, viewer, events>>
  BY DEF CopyBlock
<1>2. block = <<>> /\ Steady(osPipe) /\ follower # "closed"
  BY <1>1, PipeSteady DEF ToldInv, Stages
<1>3. /\ osPipe \in Seq(Nat) /\ BlockMax \in Nat /\ logged \in Nat /\ Len(osPipe) \in Nat
      /\ Len(osPipe) <= logged
  BY LogTyped DEF ToldInv, EndOfLog
<1>4. CASE osPipe # <<>>
  <2> DEFINE a == FirstOf(BlockMax, osPipe)
             b == AfterFirst(BlockMax, osPipe)
  <2>1. block' = a /\ osPipe' = b /\ copier' = "writing"
    BY <1>4 DEF CopyBlock
  <2>2. /\ a \in Seq(Nat) /\ b \in Seq(Nat) /\ a \o b = osPipe /\ Steady(a)
        /\ \E k \in 0..Len(osPipe) :
             /\ Len(b) = Len(osPipe) - k
             /\ \A i \in 1..(Len(osPipe) - k) : b[i] = osPipe[k + i]
    BY <1>2, <1>3, CutInTwo
  <2> HIDE DEF a, b
  <2>3. EndOfLog'
    <3>1. PICK k \in 0..Len(osPipe) :
             /\ Len(b) = Len(osPipe) - k
             /\ \A i \in 1..(Len(osPipe) - k) : b[i] = osPipe[k + i]
      BY <2>2
    <3>2. Len(b) <= logged
      BY <1>3, <3>1
    <3>3. ASSUME NEW i \in 1..Len(b)
          PROVE  b[i] = logText[(logged - Len(b)) + i]
      <4>1. k + i \in 1..Len(osPipe) /\ b[i] = osPipe[k + i]
        <5>1. i \in 1..(Len(osPipe) - k)
          BY <3>1
        <5>2. b[i] = osPipe[k + i]
          BY <3>1, <5>1
        <5>3. k + i \in 1..Len(osPipe)
          BY <1>3, <5>1
        <5>4. QED
          BY <5>2, <5>3
      <4>2. osPipe[k + i] = logText[(logged - Len(osPipe)) + (k + i)]
        BY <4>1 DEF ToldInv, EndOfLog
      <4>3. (logged - Len(osPipe)) + (k + i) = (logged - Len(b)) + i
        BY <1>3, <3>1
      <4>4. QED
        BY <4>1, <4>2, <4>3
    <3>4. QED
      BY <1>1, <2>1, <3>2, <3>3 DEF EndOfLog
  <2>4. Told'
    <3> DEFINE e == FlattenSeq(events)
               x == Characters(a)
               y == Characters(b)
    <3>1. Characters(osPipe) = x \o y /\ x \in Seq(Nat) /\ y \in Seq(Nat)
      BY <2>2, CharactersConcat, CharactersTyped
    <3>2. e \in Seq(Nat)
      BY FlattenAppend, <<>> \in Seq(Nat) DEF ToldInv, Told
    <3>3. e \o Characters(block) = e
      <4>1. Characters(block) = <<>>
        BY <1>2, CharactersOfOne
      <4>2. QED
        BY <3>2, <4>1, ConcatEmptySeq
    <3> HIDE DEF e, x, y
    <3>4. e \o (x \o y) = (e \o x) \o y
      BY <3>1, <3>2, ConcatAssociative, SMTT(30)
    <3>5. viewer = "here" => Characters(SubSeq(logText, 1, logged)) = (e \o x) \o y
      <4>1. viewer = "here" => Characters(SubSeq(logText, 1, logged))
                                 = (e \o Characters(block)) \o Characters(osPipe)
        BY DEF ToldInv, Told, e
      <4>2. QED
        BY <3>1, <3>3, <3>4, <4>1
    <3>6. QED
      BY <1>1, <2>1, <3>5 DEF ToldInv, Told, e, x, y
  <2>5. QED
    BY <1>1, <1>2, <2>1, <2>2, <2>3, <2>4 DEF ToldInv, Stages
<1>5. CASE osPipe = <<>>
  <2>1. copier' = "done" /\ UNCHANGED <<osPipe, block>>
    BY <1>5 DEF CopyBlock
  <2>2. EndOfLog' /\ Told' /\ Steady(block)'
    BY <1>1, <2>1 DEF ToldInv, EndOfLog, Told, Steady
  <2>3. QED
    BY <1>1, <1>2, <2>1, <2>2 DEF ToldInv, Stages
<1>6. QED
  BY <1>4, <1>5

LEMMA PieceTold ==
  ASSUME ToldInv, ReadPiece, LogInv'
  PROVE  ToldInv'
<1> DEFINE a == FirstOf(PieceMax, block)
           b == AfterFirst(PieceMax, block)
<1>1. /\ copier = "writing" /\ block' = b /\ streamer' = "checking"
      /\ events' = IF viewer = "here" THEN events \o SplitLines(a) ELSE events
      /\ UNCHANGED <<logText, logged, tail, osPipe, copier, follower, viewer>>
  BY DEF ReadPiece
<1>2. block \in Seq(Nat) /\ PieceMax \in Nat /\ Steady(block) /\ osPipe \in Seq(Nat)
  BY LogTyped DEF ToldInv
<1>3. a \in Seq(Nat) /\ b \in Seq(Nat) /\ a \o b = block /\ Steady(a) /\ Steady(b)
  BY <1>2, CutInTwo
<1> DEFINE lines == SplitLines(a)
<1>4. /\ lines \in Seq(Seq(Nat)) /\ FlattenSeq(lines) = Characters(a)
      /\ \A k \in 1..Len(lines) : OneLine(lines[k])
  BY <1>3, SplitKeeps
<1> HIDE DEF a, b, lines
<1>5. CASE viewer = "here"
  <2>1. events' = events \o lines
    BY <1>1, <1>5 DEF lines
  <2>2. events \in Seq(Seq(Nat)) /\ \A k \in 1..Len(events) : OneLine(events[k])
    BY DEF ToldInv, Told
  <2>3. /\ events' \in Seq(Seq(Nat)) /\ Len(events') = Len(events) + Len(lines)
        /\ \A k \in 1..(Len(events) + Len(lines)) :
             events'[k] = IF k <= Len(events) THEN events[k] ELSE lines[k - Len(events)]
    <3> DEFINE V == Seq(Nat)
    <3>1. events \in Seq(V) /\ lines \in Seq(V)
      BY <1>4, <2>2
    <3> HIDE DEF V
    <3>2. QED
      BY <2>1, <3>1, ConcatProperties DEF V
  <2>4. \A k \in 1..Len(events') : OneLine(events'[k])
    <3>1. Len(events) \in Nat /\ Len(lines) \in Nat
      BY <1>4, <2>2
    <3> SUFFICES ASSUME NEW k \in 1..(Len(events) + Len(lines))
                 PROVE  OneLine(events'[k])
      BY <2>3
    <3>2. CASE k <= Len(events)
      <4>1. k \in 1..Len(events) /\ events'[k] = events[k]
        BY <2>3, <3>1, <3>2
      <4>2. QED
        BY <2>2, <4>1
    <3>3. CASE ~(k <= Len(events))
      <4>1. k - Len(events) \in 1..Len(lines)
        BY <3>1, <3>3
      <4>2. QED
        BY <1>4, <2>3, <3>3, <4>1
    <3>4. QED
      BY <3>2, <3>3
  <2> DEFINE e == FlattenSeq(events)
             x == Characters(a)
             y == Characters(b)
             p == Characters(osPipe)
  <2>5. FlattenSeq(events') = e \o x
    BY <1>4, <2>1, <2>2, FlattenConcat
  <2>6. Characters(block) = x \o y /\ x \in Seq(Nat) /\ y \in Seq(Nat)
    BY <1>3, CharactersConcat, CharactersTyped
  <2>7. e \in Seq(Nat)
    BY <2>2, FlattenAppend, <<>> \in Seq(Nat)
  <2>8. Characters(SubSeq(logText, 1, logged)) = (e \o Characters(block)) \o p
    BY <1>5 DEF ToldInv, Told
  <2>9. e \o (x \o y) = (e \o x) \o y
    <3> HIDE DEF e, x, y
    <3>1. QED
      BY <2>6, <2>7, ConcatAssociative, SMTT(30)
  <2>10. Characters(SubSeq(logText, 1, logged))'
           = (FlattenSeq(events') \o Characters(block')) \o Characters(osPipe')
    BY <1>1, <2>5, <2>6, <2>8, <2>9
  <2>11. Told'
    BY <2>3, <2>4, <2>10 DEF Told
  <2>12. QED
    BY <1>1, <1>3, <2>11 DEF ToldInv, EndOfLog, Stages
<1>6. CASE viewer # "here"
  <2>1. Told'
    BY <1>1, <1>6 DEF ToldInv, Told
  <2>2. QED
    BY <1>1, <1>3, <2>1 DEF ToldInv, EndOfLog, Stages
<1>7. QED
  BY <1>5, <1>6

LEMMA ToldStep == ToldInv /\ [LogNext]_logVars => ToldInv'
<1> SUFFICES ASSUME ToldInv, [LogNext]_logVars
             PROVE  ToldInv'
  OBVIOUS
<1>1. LogInv'
  BY LogStep DEF ToldInv
<1>2. CASE TailWrites
  BY <1>1, <1>2, WritesTold
<1>3. CASE CopyBlock
  BY <1>1, <1>3, CopyTold
<1>4. CASE ReadPiece
  BY <1>1, <1>4, PieceTold
<1>5. CASE BlockWritten
  <2>1. /\ copier = "writing" /\ block' = <<>> /\ copier' \in {"reading", "done"}
        /\ block = <<>> \/ streamer = "done"
        /\ UNCHANGED <<logText, logged, tail, osPipe, follower, streamer, viewer, events>>
    BY <1>5 DEF BlockWritten
  <2>2. follower # "closed" /\ (viewer = "here" => block = <<>>)
    BY <2>1 DEF ToldInv, Stages
  <2>3. Steady(block)'
    BY <2>1 DEF Steady
  <2>4. Told'
    BY <2>1, <2>2 DEF ToldInv, Told
  <2>5. QED
    BY <1>1, <2>1, <2>2, <2>3, <2>4 DEF ToldInv, EndOfLog, Stages
<1>6. CASE TailExits \/ FollowReturns \/ CheckContext \/ ReadEnd \/ ViewerLeaves
  <2>1. UNCHANGED <<logText, logged, osPipe, copier, block, events>>
    BY <1>6 DEF TailExits, FollowReturns, CheckContext, ReadEnd, ViewerLeaves
  <2>2. Stages' /\ (viewer' = "here" => viewer = "here")
    BY <1>6 DEF TailExits, FollowReturns, CheckContext, ReadEnd, ViewerLeaves, ToldInv, Stages
  <2>3. QED
    BY <1>1, <2>1, <2>2 DEF ToldInv, EndOfLog, Told, Steady
<1>7. CASE UNCHANGED logVars
  BY <1>1, <1>7 DEF logVars, ToldInv, EndOfLog, Stages, Told, Steady
<1>8. QED
  BY <1>2, <1>3, <1>4, <1>5, <1>6, <1>7 DEF LogNext, Following, Streaming

LEMMA ToldAll == ToldInv => NothingLost
<1> SUFFICES ASSUME ToldInv
             PROVE  NothingLost
  OBVIOUS
<1>1. ASSUME NEW k \in 1..Len(events)
      PROVE  Cardinality(ToSet(events[k])) = 1
  <2> DEFINE e == events[k]
  <2>1. e \in Seq(Nat) /\ OneLine(e)
    BY DEF ToldInv, Told
  <2> HIDE DEF e
  <2>2. Len(e) \in Nat \ {0} /\ \A j \in 1..Len(e) : e[j] = e[1]
    BY <2>1 DEF OneLine
  <2>3. ToSet(e) = {e[1]}
    BY <2>2 DEF ToSet
  <2>4. QED
    BY <2>3, FS_Singleton DEF e
<1>2. QED
  BY <1>1 DEF ToldInv, Told, NothingLost

\* Whatever is logged and however it is cut into blocks and pieces: a client that stays
\* has got, or will get from the two pipes, every character of the log once and in order.
THEOREM NothingEverLost == LogSpec => []NothingLost
<1>1. QED
  BY ToldInitial, ToldStep, ToldAll, PTL DEF LogSpec

-----------------------------------------------------------------------------
(* The log of a container.                                                 *)

\* What a container has logged is frames of one line, or of a part of one.
Framed ==
  /\ framed \in Seq(Seq(Nat))
  /\ \A i \in 1..Len(framed) : framed[i] # <<>> /\ \A k \in 1..(Len(framed[i]) - 1) : framed[i][k] > NL

LEMMA FramedInvariant == CtrLogInit => Framed
<1>1. <<>> \in Seq(Seq(Nat)) /\ Len(<<>>) = 0
  OBVIOUS
<1>2. QED
  BY <1>1 DEF CtrLogInit, Framed

LEMMA FramedStep == Framed /\ [Write]_framed => Framed'
<1>1. CASE UNCHANGED framed
  BY <1>1 DEF Framed
<1>2. ASSUME NEW text \in Texts, Len(framed) < Len(text), framed' = SubSeq(text, 1, Len(framed) + 1), Framed
      PROVE  Framed'
  <2> DEFINE V == Seq(Nat)
             n == Len(framed) + 1
  <2>1. text \in Seq(V)
    BY TextsAssumption
  <2>2. Len(text) \in Nat /\ n \in Nat /\ n >= 1 /\ n <= Len(text) /\ \A i \in 1..Len(text) : text[i] \in V
    <3>1. Len(framed) \in Nat
      BY <1>2 DEF Framed
    <3> HIDE DEF V
    <3>2. QED
      BY <1>2, <2>1, <3>1
  <2> HIDE DEF V, n
  <2>3. /\ SubSeq(text, 1, n) \in Seq(V)
        /\ Len(SubSeq(text, 1, n)) = IF 1 <= n THEN n - 1 + 1 ELSE 0
        /\ \A i \in 1..(n - 1 + 1) : SubSeq(text, 1, n)[i] = text[1 + i - 1]
    <3>1. \A i \in 1..n : text[i] \in V
      BY <2>2
    <3>2. n \in Int /\ 1 \in Int
      BY <2>2
    <3>3. QED
      BY <3>1, <3>2, SubSeqProperties
  <2>4. framed' \in Seq(V) /\ Len(framed') = n /\ \A i \in 1..n : framed'[i] = text[i] /\ i \in 1..Len(text)
    <3>1. n - 1 + 1 = n /\ \A i \in 1..n : 1 + i - 1 = i /\ i \in 1..Len(text)
      BY <2>2
    <3>2. framed' = SubSeq(text, 1, n)
      BY <1>2 DEF n
    <3>3. QED
      BY <2>2, <2>3, <3>1, <3>2
  <2>5. \A i \in 1..Len(text) : text[i] # <<>> /\ \A k \in 1..(Len(text[i]) - 1) : text[i][k] > NL
    BY TextsAssumption
  <2>6. QED
    BY <2>4, <2>5 DEF Framed, V
<1>3. QED
  BY <1>1, <1>2 DEF Write

\* The pieces after each byte, as Lines reads them.
ReadOn(s, f) ==
  f = [n \in 0..Len(s) |->
        IF n = 0 THEN <<>>
        ELSE LET begun == IF n = 1 \/ s[n - 1] = NL THEN Append(f[n - 1], <<>>) ELSE f[n - 1]
             IN  IF s[n] = NL THEN begun
                 ELSE [begun EXCEPT ![Len(begun)] = Append(@, s[n])]]

\* The pieces that a byte is read into.
Begun(s, i, v) == IF i = 1 \/ s[i - 1] = NL THEN Append(v, <<>>) ELSE v

LEMMA ScanExists ==
  ASSUME NEW s \in Seq(Nat)
  PROVE  \E f : ReadOn(s, f) /\ f \in [0..Len(s) -> Seq(Seq(Nat))]
<1> DEFINE V == Seq(Seq(Nat))
           n == Len(s)
           none == <<>>
           step == [p \in (1..n) \X V |->
                     IF s[p[1]] = NL THEN Begun(s, p[1], p[2])
                     ELSE Longer(Begun(s, p[1], p[2]), s[p[1]])]
<1>1. n \in Nat /\ none \in V /\ none \in Seq(Nat) /\ \A i \in 1..n : s[i] \in Nat
  OBVIOUS
<1>2. \A i \in 1..n : \A v \in V :
        step[<<i, v>>] = IF s[i] = NL THEN Begun(s, i, v) ELSE Longer(Begun(s, i, v), s[i])
  OBVIOUS
<1>3. \A i \in 1..n : \A v \in V : Begun(s, i, v) \in V
  <2> SUFFICES ASSUME NEW i \in 1..n, NEW v \in V
               PROVE  Begun(s, i, v) \in V
    OBVIOUS
  <2>1. Append(v, none) \in V
    BY <1>1
  <2>2. QED
    BY <2>1 DEF Begun
<1>4. \A i \in 1..n : \A v \in V : step[<<i, v>>] \in V
  <2> SUFFICES ASSUME NEW i \in 1..n, NEW v \in V
               PROVE  step[<<i, v>>] \in V
    OBVIOUS
  <2> DEFINE w == Begun(s, i, v)
  <2>1. w \in V /\ s[i] \in Nat
    BY <1>1, <1>3
  <2> HIDE DEF w
  <2>2. Longer(w, s[i]) \in V
    BY <2>1, LongerLast
  <2> HIDE DEF V, step, n
  <2>3. QED
    BY <1>2, <2>1, <2>2 DEF w
<1> HIDE DEF V, n, none, step
<1>5. \E f : f \in [0..n -> V] /\ Stepwise(f, none, n, step)
  BY <1>1, <1>4, StepByStep, Zenon
<1>6. PICK f : f \in [0..n -> V] /\ Stepwise(f, none, n, step)
  BY <1>5
<1> DEFINE At(i) ==
      IF i = 0 THEN <<>>
      ELSE LET begun == IF i = 1 \/ s[i - 1] = NL THEN Append(f[i - 1], <<>>) ELSE f[i - 1]
           IN  IF s[i] = NL THEN begun
               ELSE [begun EXCEPT ![Len(begun)] = Append(@, s[i])]
<1>7. \A i \in 0..n : f[i] = At(i)
  <2>1. f[0] = At(0)
    BY <1>6 DEF Stepwise, none
  <2>2. ASSUME NEW i \in 1..n
        PROVE  f[i] = At(i)
    <3>1. i - 1 \in 0..n /\ f[i - 1] \in V /\ i # 0
      BY <1>1, <1>6
    <3>2. f[i] = step[<<i, f[i - 1]>>]
      BY <1>6 DEF Stepwise
    <3>3. f[i] = IF s[i] = NL THEN Begun(s, i, f[i - 1]) ELSE Longer(Begun(s, i, f[i - 1]), s[i])
      BY <1>2, <3>1, <3>2
    <3>4. QED
      BY <3>1, <3>3, Zenon DEF Longer, Begun
  <2>3. \A i \in 0..n : i = 0 \/ i \in 1..n
    BY <1>1
  <2> HIDE DEF At
  <2>4. QED
    BY <2>1, <2>2, <2>3
<1>8. f = [i \in 0..n |-> At(i)]
  <2> HIDE DEF At
  <2>1. QED
    BY <1>6, <1>7
<1>9. ReadOn(s, f)
  BY <1>8, Zenon DEF ReadOn, n
<1>10. QED
  BY <1>6, <1>9 DEF n, V

LEMMA ScanReads ==
  ASSUME NEW s \in Seq(Nat), NEW f, ReadOn(s, f)
  PROVE  /\ f[0] = <<>>
         /\ \A n \in 1..Len(s) :
              f[n] = IF s[n] = NL THEN Begun(s, n, f[n - 1])
                     ELSE Longer(Begun(s, n, f[n - 1]), s[n])
<1>1. Len(s) \in Nat
  OBVIOUS
<1>2. 0 \in 0..Len(s) /\ \A n \in 1..Len(s) : n \in 0..Len(s) /\ n # 0
  BY <1>1
<1>3. \A n \in 0..Len(s) :
        f[n] = IF n = 0 THEN <<>>
               ELSE IF s[n] = NL THEN Begun(s, n, f[n - 1])
               ELSE Longer(Begun(s, n, f[n - 1]), s[n])
  BY Zenon DEF ReadOn, Longer, Begun
<1>4. QED
  BY <1>2, <1>3, Zenon

LEMMA ScanIs ==
  ASSUME NEW s \in Seq(Nat)
  PROVE  \E f : ReadOn(s, f) /\ Lines(s) = f[Len(s)]
<1> DEFINE f == CHOOSE f : f = [n \in 0..Len(s) |->
                  IF n = 0 THEN <<>>
                  ELSE LET begun == IF n = 1 \/ s[n - 1] = NL THEN Append(f[n - 1], <<>>)
                                    ELSE f[n - 1]
                       IN  IF s[n] = NL THEN begun
                           ELSE [begun EXCEPT ![Len(begun)] = Append(@, s[n])]]
<1>1. Lines(s) = f[Len(s)]
  BY Zenon DEF Lines
<1>2. ReadOn(s, f)
  BY ScanExists, Zenon DEF ReadOn
<1> HIDE DEF f
<1>3. QED
  BY <1>1, <1>2, Zenon

LEMMA LastCellLonger ==
  \A c \in Nat : \A e \in Seq(Nat) : \A v \in Seq(Seq(Nat)) :
    Longer(Append(v, e), c) = Append(v, Append(e, c))
BY LongerAppended, SMT

\* What ends with a newline and has no other is read to one piece more.
LEMMA LineRead ==
  ASSUME NEW s \in Seq(Nat), s = <<>> \/ s[Len(s)] = NL,
         NEW t \in Seq(Nat), t # <<>>, t[Len(t)] = NL, \A k \in 1..(Len(t) - 1) : t[k] # NL
  PROVE  /\ s \o t \in Seq(Nat) /\ s \o t # <<>> /\ (s \o t)[Len(s \o t)] = NL
         /\ Lines(s) \in Seq(Seq(Nat))
         /\ Lines(s \o t) = Append(Lines(s), SubSeq(t, 1, Len(t) - 1))
<1> DEFINE u == s \o t
           n == Len(s)
           m == Len(t)
<1>1. n \in Nat /\ m \in Nat \ {0} /\ \A k \in 1..m : t[k] \in Nat
  OBVIOUS
<1>2. /\ u \in Seq(Nat) /\ Len(u) = n + m
      /\ \A i \in 1..(n + m) : u[i] = IF i <= n THEN s[i] ELSE t[i - n]
  BY ConcatProperties
<1> HIDE DEF u
<1>3. (\A i \in 1..n : u[i] = s[i]) /\ \A k \in 1..m : u[n + k] = t[k]
  <2>1. ASSUME NEW k \in 1..m
        PROVE  u[n + k] = t[k]
    <3>1. n + k \in 1..(n + m) /\ ~(n + k <= n) /\ (n + k) - n = k
      BY <1>1
    <3>2. QED
      BY <1>2, <3>1
  <2>2. ASSUME NEW i \in 1..n
        PROVE  u[i] = s[i]
    <3>1. i \in 1..(n + m) /\ i <= n
      BY <1>1
    <3>2. QED
      BY <1>2, <3>1
  <2>3. QED
    BY <2>1, <2>2
<1>4. PICK f : ReadOn(s, f) /\ Lines(s) = f[n]
  BY ScanIs
<1>5. PICK g : ReadOn(u, g) /\ Lines(u) = g[n + m]
  BY <1>2, ScanIs
<1>6. /\ f[0] = <<>>
      /\ \A i \in 1..n : f[i] = IF s[i] = NL THEN Begun(s, i, f[i - 1])
                                ELSE Longer(Begun(s, i, f[i - 1]), s[i])
  BY <1>4, ScanReads
<1>7. /\ g[0] = <<>>
      /\ \A i \in 1..(n + m) : g[i] = IF u[i] = NL THEN Begun(u, i, g[i - 1])
                                      ELSE Longer(Begun(u, i, g[i - 1]), u[i])
  <2>1. /\ g[0] = <<>>
        /\ \A i \in 1..Len(u) : g[i] = IF u[i] = NL THEN Begun(u, i, g[i - 1])
                                       ELSE Longer(Begun(u, i, g[i - 1]), u[i])
    BY <1>2, <1>5, ScanReads
  <2>2. QED
    BY <1>2, <2>1, Zenon
<1>8. f[n] \in Seq(Seq(Nat))
  <2>1. PICK h : ReadOn(s, h) /\ h \in [0..n -> Seq(Seq(Nat))]
    BY ScanExists
  <2>2. /\ h[0] = <<>>
        /\ \A i \in 1..n : h[i] = IF s[i] = NL THEN Begun(s, i, h[i - 1])
                                  ELSE Longer(Begun(s, i, h[i - 1]), s[i])
    BY <2>1, ScanReads
  <2> DEFINE T == {i \in Nat : i <= n => f[i] = h[i]}
  <2>3. 0 \in T
    BY <1>6, <2>2
  <2>4. ASSUME NEW i \in Nat, i \in T
        PROVE  i + 1 \in T
    <3> SUFFICES ASSUME i + 1 <= n
                 PROVE  f[i + 1] = h[i + 1]
      OBVIOUS
    <3>1. i + 1 \in 1..n /\ (i + 1) - 1 = i /\ f[i] = h[i]
      BY <1>1, <2>4
    <3>2. QED
      BY <1>6, <2>2, <3>1, SMTT(30)
  <2>5. Nat \subseteq T
    <3> HIDE DEF T
    <3>1. QED
      BY <2>3, <2>4, EveryNumber
  <2>6. f[n] = h[n]
    BY <1>1, <2>5
  <2>7. QED
    BY <1>1, <2>1, <2>6
<1>9. f[n] = g[n]
  <2> DEFINE T == {i \in Nat : i <= n => f[i] = g[i]}
  <2>1. 0 \in T
    BY <1>6, <1>7
  <2>2. ASSUME NEW i \in Nat, i \in T
        PROVE  i + 1 \in T
    <3> SUFFICES ASSUME i + 1 <= n
                 PROVE  f[i + 1] = g[i + 1]
      OBVIOUS
    <3>1. i + 1 \in 1..n /\ (i + 1) - 1 = i /\ f[i] = g[i] /\ i + 1 \in 1..(n + m)
      BY <1>1, <2>2
    <3>2. u[i + 1] = s[i + 1] /\ (i # 0 => u[i] = s[i])
      <4>1. i # 0 => i \in 1..n
        BY <1>1, <3>1
      <4>2. QED
        BY <1>3, <3>1, <4>1
    <3>3. Begun(u, i + 1, g[i]) = Begun(s, i + 1, f[i])
      BY <3>1, <3>2 DEF Begun
    <3>4. QED
      BY <1>6, <1>7, <3>1, <3>2, <3>3, SMTT(30)
  <2>3. Nat \subseteq T
    <3> HIDE DEF T
    <3>1. QED
      BY <2>1, <2>2, EveryNumber
  <2>4. QED
    BY <1>1, <2>3
<1> DEFINE v == f[n]
           Part(j) == SubSeq(t, 1, j)
           K == {j \in Nat : j <= m - 1 => Begun(u, n + j + 1, g[n + j]) = Append(v, Part(j))}
<1>10. 0 \in K
  <2>1. Part(0) = <<>>
    BY SubSeqEmpty
  <2>2. n = 0 \/ u[n] = NL
    <3>1. CASE s = <<>>
      BY <3>1
    <3>2. CASE s # <<>>
      <4>1. n \in 1..n /\ s[n] = NL
        BY <1>1, <3>2
      <4>2. QED
        BY <1>3, <4>1
    <3>3. QED
      BY <3>1, <3>2
  <2>3. n + 0 + 1 = n + 1 /\ (n + 0 + 1) - 1 = n /\ n + 0 = n
    BY <1>1
  <2>4. Begun(u, n + 1, g[n]) = Append(v, <<>>)
    <3>1. (n + 1) - 1 = n /\ (n = 0 => n + 1 = 1)
      BY <1>1
    <3>2. QED
      BY <1>9, <2>2, <3>1 DEF Begun
  <2> HIDE DEF v, Part
  <2>5. QED
    BY <2>1, <2>3, <2>4
<1>11. ASSUME NEW j \in Nat, j \in K
       PROVE  j + 1 \in K
  <2> SUFFICES ASSUME j + 1 <= m - 1
               PROVE  Begun(u, n + (j + 1) + 1, g[n + (j + 1)]) = Append(v, Part(j + 1))
    OBVIOUS
  <2> DEFINE c == t[j + 1]
             i == n + j + 1
  <2>1. /\ j + 1 \in 1..(m - 1) /\ j + 1 \in 1..m /\ j \in 0..m
        /\ i \in 1..(n + m) /\ i - 1 = n + j /\ n + (j + 1) = i /\ i + 1 # 1 /\ (i + 1) - 1 = i
    BY <1>1, SMTT(30)
  <2>2. c \in Nat /\ c # NL /\ u[i] = c
    BY <1>1, <1>3, <2>1
  <2>3. Begun(u, i, g[n + j]) = Append(v, Part(j))
    BY <1>1, <1>11
  <2>4. Part(j) \in Seq(Nat) /\ Part(j + 1) = Append(Part(j), c)
    <3>1. \A k \in 1..j : t[k] \in Nat
      BY <1>1, <2>1
    <3>2. Part(j) \in Seq(Nat)
      BY <2>1, <3>1, SubSeqProperties
    <3> DEFINE k == j + 1
    <3>3. k \in 1..Len(t) /\ 1 \in 1..Len(t) /\ k \in 1..Len(t) /\ k - 1 = j
      BY <1>1, <2>1
    <3> HIDE DEF k
    <3>4. SubSeq(t, 1, k) = SubSeq(t, 1, k - 1) \o <<t[k]>>
      BY <3>3, SubSeqRecursiveSecond
    <3>5. Part(k) = Part(j) \o <<c>>
      BY <3>3, <3>4 DEF k
    <3> HIDE DEF Part, c
    <3>6. Append(Part(j), c) = Part(j) \o <<c>>
      BY <2>2, <3>2, AppendIsConcat
    <3>7. QED
      BY <3>2, <3>5, <3>6 DEF k
  <2>14. v \in Seq(Seq(Nat))
    BY <1>8
  <2> HIDE DEF c, i, Part, v
  <2>5. g[i] = Longer(Append(v, Part(j)), c)
    BY <1>7, <2>1, <2>2, <2>3
  <2>6. Longer(Append(v, Part(j)), c) = Append(v, Append(Part(j), c))
    <3> DEFINE e == Part(j)
    <3>1. c \in Nat /\ e \in Seq(Nat)
      BY <2>2, <2>4
    <3> HIDE DEF e
    <3>2. Longer(Append(v, e), c) = Append(v, Append(e, c))
      BY <2>14, <3>1, LastCellLonger, Zenon
    <3>3. QED
      BY <3>2 DEF e
  <2>7. g[i] = Append(v, Part(j + 1))
    BY <2>4, <2>5, <2>6
  <2>8. Begun(u, i + 1, g[i]) = g[i]
    BY <2>1, <2>2 DEF Begun
  <2>9. QED
    BY <2>1, <2>7, <2>8
<1>12. g[n + m] = Append(v, Part(m - 1))
  <2>1. Nat \subseteq K
    <3> HIDE DEF K
    <3>1. QED
      BY <1>10, <1>11, EveryNumber
  <2>2. m - 1 \in Nat /\ n + (m - 1) + 1 = n + m /\ n + (m - 1) = (n + m) - 1
    BY <1>1
  <2>3. Begun(u, n + (m - 1) + 1, g[n + (m - 1)]) = Append(v, Part(m - 1))
    <3> HIDE DEF v, Part
    <3>1. m - 1 \in K
      BY <2>1, <2>2
    <3>2. QED
      BY <2>2, <3>1
  <2>4. n + m \in 1..(n + m) /\ u[n + m] = NL
    BY <1>1, <1>3, SMTT(30)
  <2>5. g[n + m] = Begun(u, n + m, g[(n + m) - 1])
    BY <1>7, <2>4
  <2>6. QED
    BY <2>2, <2>3, <2>5
<1>13. u # <<>> /\ u[Len(u)] = NL
  <2>1. m \in 1..m /\ u[n + m] = NL
    BY <1>1, <1>3, SMTT(30)
  <2>2. Len(u) # 0
    BY <1>1, <1>2
  <2>3. QED
    BY <1>2, <2>1, <2>2
<1>14. QED
  BY <1>2, <1>4, <1>5, <1>8, <1>12, <1>13 DEF u

\* The bytes of a frame of one line: its header and the line, a newline at its end only.
Part(t) == FrameHeader(t) \o t

PlainFrame(t) ==
  /\ t \in Seq(Nat) /\ Len(t) > 1 /\ Len(t) # NL /\ t[Len(t)] = NL
  /\ \A k \in 1..(Len(t) - 1) : t[k] > NL

LEMMA PartOf ==
  ASSUME NEW t, PlainFrame(t)
  PROVE  /\ Part(t) \in Seq(Nat) /\ Part(t) # <<>> /\ Len(Part(t)) = Len(t) + 2 /\ Len(t) \in Nat
         /\ Part(t)[1] = 1 /\ Part(t)[2] = Len(t) /\ \A k \in 1..Len(t) : Part(t)[k + 2] = t[k]
         /\ Part(t)[Len(Part(t))] = NL
         /\ \A k \in 1..(Len(Part(t)) - 1) : Part(t)[k] # NL
<1> DEFINE h == <<1, Len(t)>>
           p == h \o t
<1>1. /\ t \in Seq(Nat) /\ Len(t) \in Nat /\ Len(t) > 1 /\ Len(t) # NL /\ t[Len(t)] = NL /\ NL = 3
      /\ \A k \in 1..(Len(t) - 1) : t[k] > NL
  BY DEF PlainFrame, NL
<1>2. h \in Seq(Nat) /\ Len(h) = 2 /\ h[1] = 1 /\ h[2] = Len(t)
  BY <1>1
<1> HIDE DEF h
<1>3. /\ p \in Seq(Nat) /\ Len(p) = 2 + Len(t)
      /\ \A i \in 1..(2 + Len(t)) : p[i] = IF i <= 2 THEN h[i] ELSE t[i - 2]
  <2>1. /\ p \in Seq(Nat) /\ Len(p) = Len(h) + Len(t)
        /\ \A i \in 1..(Len(h) + Len(t)) : p[i] = IF i <= Len(h) THEN h[i] ELSE t[i - Len(h)]
    BY <1>1, <1>2, ConcatProperties
  <2> HIDE DEF p
  <2>2. QED
    BY <1>2, <2>1
<1> HIDE DEF p
<1>4. p[1] = 1 /\ p[2] = Len(t)
  BY <1>1, <1>2, <1>3
<1>5. \A k \in 1..Len(t) : p[k + 2] = t[k]
  <2> SUFFICES ASSUME NEW k \in 1..Len(t)
               PROVE  p[k + 2] = t[k]
    OBVIOUS
  <2>1. k + 2 \in 1..(2 + Len(t)) /\ ~(k + 2 <= 2) /\ (k + 2) - 2 = k
    BY <1>1
  <2>2. QED
    BY <1>3, <2>1
<1>6. p # <<>> /\ Len(p) = Len(t) + 2 /\ p[Len(p)] = NL
  <2>1. Len(t) \in 1..Len(t) /\ Len(p) = Len(t) + 2
    BY <1>1, <1>3
  <2>2. p[Len(t) + 2] = NL
    BY <1>1, <1>5, <2>1
  <2>3. QED
    BY <1>1, <2>1, <2>2
<1>7. \A k \in 1..(Len(p) - 1) : p[k] # NL
  <2> SUFFICES ASSUME NEW k \in 1..(Len(p) - 1)
               PROVE  p[k] # NL
    OBVIOUS
  <2>1. CASE k \in {1, 2}
    <3>1. CASE k = 1
      BY <1>1, <1>4, <3>1
    <3>2. CASE k = 2
      BY <1>1, <1>4, <3>2
    <3>3. QED
      BY <2>1, <3>1, <3>2
  <2>2. CASE k > 2
    <3>1. k - 2 \in 1..(Len(t) - 1) /\ k - 2 \in 1..Len(t) /\ (k - 2) + 2 = k
      BY <1>1, <1>6, <2>2
    <3>2. p[k] = t[k - 2] /\ t[k - 2] > NL /\ t[k - 2] \in Nat
      BY <1>1, <1>5, <3>1
    <3>3. QED
      BY <1>1, <3>2
  <2>3. QED
    BY <1>1, <1>6, <2>1, <2>2
<1>8. Part(t) = p
  BY DEF Part, FrameHeader, p, h
<1>9. QED
  BY <1>1, <1>3, <1>4, <1>5, <1>6, <1>7, <1>8

\* What is shown of it is the line.
LEMMA PartShown ==
  ASSUME NEW t, PlainFrame(t)
  PROVE  Strip(SubSeq(Part(t), 1, Len(Part(t)) - 1)) = Front(t)
<1> DEFINE p == Part(t)
           n == Len(t)
           q == SubSeq(p, 1, Len(p) - 1)
           x == SubSeq(q, 3, Len(q))
           y == SubSeq(t, 1, n - 1)
<1>1. /\ p \in Seq(Nat) /\ Len(p) = n + 2 /\ p[1] = 1 /\ n \in Nat /\ n > 1 /\ t \in Seq(Nat)
      /\ \A k \in 1..n : p[k + 2] = t[k]
  BY PartOf DEF PlainFrame
<1> HIDE DEF p
<1>2. q \in Seq(Nat) /\ Len(q) = n + 1 /\ \A k \in 1..(n + 1) : q[k] = p[k]
  <2> DEFINE m == Len(p) - 1
  <2>1. m = n + 1 /\ m \in Int /\ 1 \in Int /\ \A i \in 1..m : p[i] \in Nat
    BY <1>1
  <2> HIDE DEF m
  <2>2. /\ SubSeq(p, 1, m) \in Seq(Nat)
        /\ Len(SubSeq(p, 1, m)) = IF 1 <= m THEN m - 1 + 1 ELSE 0
        /\ \A i \in 1..(m - 1 + 1) : SubSeq(p, 1, m)[i] = p[1 + i - 1]
    BY <2>1, SubSeqProperties
  <2>3. m - 1 + 1 = n + 1 /\ 1 <= m /\ \A i \in 1..(n + 1) : 1 + i - 1 = i
    BY <1>1, <2>1
  <2>4. QED
    BY <2>2, <2>3 DEF m
<1> HIDE DEF q
<1>3. x \in Seq(Nat) /\ Len(x) = n - 1 /\ \A k \in 1..(n - 1) : x[k] = t[k]
  <2> DEFINE m == Len(q)
  <2>1. m = n + 1 /\ m \in Int /\ 3 \in Int /\ \A i \in 3..m : q[i] \in Nat
    BY <1>1, <1>2
  <2> HIDE DEF m
  <2>2. /\ SubSeq(q, 3, m) \in Seq(Nat)
        /\ Len(SubSeq(q, 3, m)) = IF 3 <= m THEN m - 3 + 1 ELSE 0
        /\ \A i \in 1..(m - 3 + 1) : SubSeq(q, 3, m)[i] = q[3 + i - 1]
    BY <2>1, SubSeqProperties
  <2>3. m - 3 + 1 = n - 1 /\ 3 <= m /\ \A i \in 1..(n - 1) : 3 + i - 1 = i + 2
    BY <1>1, <2>1
  <2>4. \A k \in 1..(n - 1) : SubSeq(q, 3, m)[k] = q[k + 2]
    BY <2>2, <2>3
  <2>5. \A k \in 1..(n - 1) : k \in 1..n /\ k + 2 \in 1..(n + 1)
    BY <1>1
  <2>6. \A k \in 1..(n - 1) : q[k + 2] = t[k]
    BY <1>1, <1>2, <2>5
  <2>7. QED
    BY <2>2, <2>3, <2>4, <2>6 DEF m
<1>4. y \in Seq(Nat) /\ Len(y) = n - 1 /\ \A k \in 1..(n - 1) : y[k] = t[k]
  <2> DEFINE m == n - 1
  <2>1. m \in Int /\ 1 \in Int /\ m >= 1 /\ \A i \in 1..m : t[i] \in Nat
    BY <1>1
  <2> HIDE DEF m
  <2>2. /\ SubSeq(t, 1, m) \in Seq(Nat)
        /\ Len(SubSeq(t, 1, m)) = IF 1 <= m THEN m - 1 + 1 ELSE 0
        /\ \A i \in 1..(m - 1 + 1) : SubSeq(t, 1, m)[i] = t[1 + i - 1]
    BY <2>1, SubSeqProperties
  <2>3. m - 1 + 1 = m /\ \A i \in 1..m : 1 + i - 1 = i
    BY <2>1
  <2>4. QED
    BY <2>1, <2>2, <2>3 DEF m
<1> HIDE DEF x, y
<1>5. x = y
  BY <1>3, <1>4, SeqEqual
<1>6. Strip(q) = x
  <2>1. Len(q) > 2 /\ q[1] = 1 /\ 1 <= 2
    BY <1>1, <1>2
  <2>2. QED
    BY <2>1 DEF Strip, x
<1>7. Front(t) = y
  BY DEF Front, y, n
<1>8. QED
  BY <1>5, <1>6, <1>7 DEF q, p

LEMMA AllShown ==
  ASSUME Framed, Plain(framed)
  PROVE  Shown = [i \in DOMAIN framed |-> Front(framed[i])]
<1> DEFINE V == Seq(Nat)
           n == Len(framed)
           parts == [i \in 1..n |-> Part(framed[i])]
           To(m) == SubSeq(parts, 1, m)
           Upto(m) == FlattenSeq(To(m))
           Good(m) == /\ Upto(m) \in Seq(Nat)
                      /\ Upto(m) = <<>> \/ Upto(m)[Len(Upto(m))] = NL
                      /\ Lines(Upto(m)) \in Seq(V) /\ Len(Lines(Upto(m))) = m
                      /\ \A i \in 1..m :
                           Lines(Upto(m))[i] = SubSeq(Part(framed[i]), 1, Len(Part(framed[i])) - 1)
           T == {m \in Nat : m <= n => Good(m)}
<1>1. n \in Nat /\ DOMAIN framed = 1..n /\ \A i \in 1..n : framed[i] \in Seq(Nat)
  BY DEF Framed
<1>2. \A i \in 1..n : PlainFrame(framed[i])
  BY <1>1 DEF Framed, Plain, PlainFrame, Last
<1>3. \A i \in 1..n : parts[i] = Part(framed[i]) /\ Part(framed[i]) \in V
  BY <1>2, PartOf
<1>4. parts \in Seq(V) /\ Len(parts) = n
  <2> HIDE DEF V, n
  <2>1. parts \in [1..n -> V]
    BY <1>3
  <2> HIDE DEF parts
  <2>2. QED
    BY <1>1, <2>1
<1>5. Bytes(framed) = FlattenSeq(parts)
  BY <1>1, Zenon DEF Bytes, Part, parts
<1> HIDE DEF V, n, parts
<1>6. 0 \in T
  <2>1. To(0) = <<>>
    BY SubSeqEmpty
  <2>2. Upto(0) = <<>>
    BY <2>1, FlattenNone
  <2> DEFINE none == <<>>
  <2>3. none \in Seq(Nat) /\ none \in Seq(V) /\ Len(none) = 0
    OBVIOUS
  <2>4. Lines(none) = <<>>
    <3> HIDE DEF none
    <3>1. PICK f : ReadOn(none, f) /\ Lines(none) = f[Len(none)]
      BY <2>3, ScanIs
    <3>2. f[0] = <<>>
      BY <2>3, <3>1, ScanReads
    <3>3. QED
      BY <2>3, <3>1, <3>2
  <2>5. /\ none \in Seq(Nat) /\ none = <<>>
        /\ Lines(none) \in Seq(V) /\ Len(Lines(none)) = 0
    BY <2>3, <2>4
  <2>6. Upto(0) = none
    BY <2>2
  <2> HIDE DEF To, Upto, none
  <2>7. Good(0)
    <3>1. \A i \in 1..0 : FALSE
      OBVIOUS
    <3>2. /\ Upto(0) \in Seq(Nat) /\ Upto(0) = <<>>
          /\ Lines(Upto(0)) \in Seq(V) /\ Len(Lines(Upto(0))) = 0
      BY <2>5, <2>6, Zenon
    <3>3. QED
      BY <3>1, <3>2
  <2> HIDE DEF Good
  <2>8. QED
    BY <2>7
<1>7. ASSUME NEW m \in Nat, m \in T
      PROVE  m + 1 \in T
  <2> SUFFICES ASSUME m + 1 <= n
               PROVE  Good(m + 1)
    OBVIOUS
  <2> DEFINE t == parts[m + 1]
             k == m + 1
             s == Upto(m)
             row == SubSeq(t, 1, Len(t) - 1)
  <2>1. Good(m) /\ k \in 1..n /\ k - 1 = m /\ m \in 0..n /\ m \in Int
    BY <1>1, <1>7, SMTT(30)
  <2>2. /\ t \in Seq(Nat) /\ t # <<>> /\ t[Len(t)] = NL /\ \A j \in 1..(Len(t) - 1) : t[j] # NL
        /\ t = Part(framed[k])
    <3>1. t = Part(framed[k]) /\ PlainFrame(framed[k])
      BY <1>2, <1>3, <2>1
    <3> HIDE DEF t
    <3>2. QED
      BY <3>1, PartOf
  <2>3. To(m) \in Seq(V) /\ To(k) = Append(To(m), t)
    <3>1. \A i \in 1..m : parts[i] \in V
      BY <1>1, <1>3, <2>1, SMTT(30)
    <3>2. To(m) \in Seq(V)
      BY <2>1, <3>1, SubSeqProperties
    <3>3. 1 \in 1..Len(parts) /\ k \in 1..Len(parts)
      BY <1>1, <1>4, <2>1
    <3> HIDE DEF k
    <3>4. SubSeq(parts, 1, k) = SubSeq(parts, 1, k - 1) \o <<parts[k]>>
      BY <1>4, <3>3, SubSeqRecursiveSecond
    <3>5. To(k) = To(m) \o <<t>>
      BY <2>1, <3>4 DEF k
    <3>6. t \in V
      BY <2>2 DEF V
    <3> HIDE DEF To, t
    <3>7. Append(To(m), t) = To(m) \o <<t>>
      BY <3>2, <3>6, AppendIsConcat
    <3>8. QED
      BY <3>2, <3>5, <3>7
  <2>4. Upto(k) = s \o t
    <3> HIDE DEF To, t, k
    <3>1. FlattenSeq(Append(To(m), t)) = FlattenSeq(To(m)) \o t
      BY <2>2, <2>3, FlattenAppend DEF V
    <3>2. QED
      BY <2>3, <3>1
  <2>5. /\ s \in Seq(Nat) /\ (s = <<>> \/ s[Len(s)] = NL)
        /\ Lines(s) \in Seq(V) /\ Len(Lines(s)) = m
        /\ \A i \in 1..m : Lines(s)[i] = SubSeq(Part(framed[i]), 1, Len(Part(framed[i])) - 1)
    BY <2>1
  <2> DEFINE u == Upto(k)
  <2>6. /\ u \in Seq(Nat) /\ u # <<>> /\ u[Len(u)] = NL
        /\ Lines(u) = Append(Lines(s), row)
    <3> HIDE DEF s, t, Upto
    <3>1. u = s \o t
      BY <2>4 DEF u
    <3> HIDE DEF u
    <3>2. /\ s \o t \in Seq(Nat) /\ s \o t # <<>> /\ (s \o t)[Len(s \o t)] = NL
          /\ Lines(s \o t) = Append(Lines(s), row)
      BY <2>2, <2>5, LineRead
    <3>3. QED
      BY <3>1, <3>2, Zenon
  <2>7. row \in V
    <3>1. Len(t) \in Nat /\ \A j \in 1..(Len(t) - 1) : t[j] \in Nat
      BY <2>2
    <3> HIDE DEF t
    <3>2. QED
      BY <3>1, SubSeqProperties DEF V
  <2> DEFINE old == Lines(s)
  <2>8. /\ Append(old, row) \in Seq(V) /\ Len(Append(old, row)) = m + 1
        /\ \A i \in 1..m : Append(old, row)[i] = old[i]
        /\ Append(old, row)[m + 1] = row
    <3>1. old \in Seq(V) /\ Len(old) = m
      BY <2>5
    <3> HIDE DEF old, row, s
    <3>2. QED
      BY <2>7, <3>1, AppendProperties
  <2>9. \A i \in 1..k : Lines(u)[i] = SubSeq(Part(framed[i]), 1, Len(Part(framed[i])) - 1)
    <3>1. \A i \in 1..k : i \in 1..m \/ i = k
      OBVIOUS
    <3>2. row = SubSeq(Part(framed[k]), 1, Len(Part(framed[k])) - 1)
      BY <2>2
    <3> HIDE DEF row, u, s, t
    <3>3. \A i \in 1..m : Lines(u)[i] = old[i]
      BY <2>6, <2>8
    <3>4. Lines(u)[k] = row
      BY <2>6, <2>8
    <3>5. QED
      BY <2>5, <3>1, <3>2, <3>3, <3>4
  <2>10. Lines(u) \in Seq(V) /\ Len(Lines(u)) = k
    <3> HIDE DEF row, u, s, t
    <3>1. QED
      BY <2>6, <2>8
  <2> HIDE DEF Upto, s, row, old, t
  <2>11. QED
    BY <2>6, <2>9, <2>10 DEF u
<1>8. Good(n)
  <2>1. Nat \subseteq T
    <3> HIDE DEF T
    <3>1. QED
      BY <1>6, <1>7, EveryNumber
  <2> HIDE DEF Good
  <2>2. QED
    BY <1>1, <2>1
<1>9. Upto(n) = Bytes(framed)
  BY <1>4, <1>5, SubSeqFull
<1> DEFINE all == Lines(Bytes(framed))
<1>10. /\ all \in Seq(V) /\ Len(all) = n
       /\ \A i \in 1..n : all[i] = SubSeq(Part(framed[i]), 1, Len(Part(framed[i])) - 1)
  <2> HIDE DEF Upto
  <2>1. QED
    BY <1>8, <1>9
<1>11. Shown = [i \in DOMAIN all |-> Strip(all[i])]
  BY Zenon DEF Shown
<1> HIDE DEF all
<1>12. DOMAIN all = 1..n
  BY <1>1, <1>10
<1>13. \A i \in 1..n : Strip(all[i]) = Front(framed[i])
  BY <1>2, <1>10, PartShown
<1>14. QED
  BY <1>1, <1>11, <1>12, <1>13

\* Whatever a container logs, as long as its lines are not empty, whole and not of the
\* length that looks like a newline: each line is shown as it was logged.
THEOREM LinesAlwaysShown == CtrLogSpec => []LogLinesShown
<1>1. Framed => LogLinesShown
  BY AllShown DEF LogLinesShown
<1>2. QED
  BY <1>1, FramedInvariant, FramedStep, PTL DEF CtrLogSpec

-----------------------------------------------------------------------------
(* All streams.                                                            *)

\* Each stream keeps its own invariant, whichever of them runs.
StreamsInv == CmdInv /\ ToldInv /\ TermInv /\ ChatInv /\ Framed

LEMMA StreamsInvariant == StreamsSpec => []StreamsInv
<1>1. StreamsInit => StreamsInv
  BY CmdInitial, ToldInitial, TermInitial, ChatInitial, FramedInvariant DEF StreamsInit, StreamsInv
<1>2. StreamsInv /\ [StreamsNext]_streamsVars => StreamsInv'
  <2> SUFFICES ASSUME StreamsInv, [StreamsNext]_streamsVars
               PROVE  StreamsInv'
    OBVIOUS
  <2>1. [Next]_vars /\ [LogNext]_logVars /\ [TermNext]_termVars /\ [ChatNext]_chatVars /\ [Write]_framed
    BY DEF StreamsNext, streamsVars
  <2>2. QED
    BY <2>1, CmdStep, ToldStep, TermStep, ChatInvStep, FramedStep DEF StreamsInv
<1>3. QED
  BY <1>1, <1>2, PTL DEF StreamsSpec

\* Types and capacities: no pipe, channel or pseudo-terminal holds more than it can.
THEOREM StreamsTypeCorrect == StreamsSpec => []StreamsTypeOK
<1>1. StreamsInv => StreamsTypeOK
  BY TermTyped, AnswerOfInv DEF StreamsInv, StreamsTypeOK, CmdInv, CmdShape, ToldInv, LogInv
<1>2. QED
  BY <1>1, StreamsInvariant, PTL

\* What is logged is shown, to the one who follows a log and to the one who reads the log
\* of a container: nothing lost, in order, and without the headers of frames.
THEOREM LogsAlwaysShown == StreamsSpec => []LogsShown
<1>1. StreamsInv => LogsShown
  BY ToldAll, AllShown DEF StreamsInv, LogsShown, LogLinesShown
<1>2. QED
  BY <1>1, StreamsInvariant, PTL

-----------------------------------------------------------------------------
(* A terminal is a delivery.                                               *)

LEMMA EndOfLine ==
  ASSUME NEW s \in Seq(Nat), NEW x \in Nat
  PROVE  Append(s, x) # <<>> /\ Last(Append(s, x)) = x /\ Front(Append(s, x)) = s
BY DEF Last, Front

\* A sequence that begins the numbers is the first numbers.
LEMMA FirstNumbers ==
  ASSUME NEW s \in Seq(Nat), NEW n \in Nat, NEW t \in Seq(Nat), s \o t = Numbers(n)
  PROVE  Len(s) \in 0..n /\ s = Numbers(Len(s)) /\ Farewell \notin Range(s)
<1>1. /\ Len(s) \in Nat /\ Len(t) \in Nat /\ Len(s \o t) = Len(s) + Len(t)
      /\ \A i \in 1..Len(s) : (s \o t)[i] = s[i]
  BY NumbersJoined
<1>2. Len(Numbers(n)) = n /\ \A i \in 1..n : Numbers(n)[i] = i
  BY DEF Numbers
<1>3. Len(s) \in 0..n
  BY <1>1, <1>2
<1>4. \A i \in 1..Len(s) : i \in 1..n /\ s[i] = i
  BY <1>1, <1>2, <1>3
<1>5. Numbers(Len(s)) \in Seq(Nat) /\ Len(Numbers(Len(s))) = Len(s)
      /\ \A i \in 1..Len(s) : Numbers(Len(s))[i] = i
  BY <1>1 DEF Numbers
<1>6. s = Numbers(Len(s))
  BY <1>4, <1>5, SeqEqual
<1>7. Farewell \notin Range(s)
  <2>1. \A k \in 1..Len(s) : s[k] # Farewell
    BY <1>1, <1>4 DEF Farewell
  <2>2. \A e \in Range(s) : \E k \in 1..Len(s) : s[k] = e
    BY DEF Range
  <2>3. QED
    BY <2>1, <2>2, Zenon
<1>8. QED
  BY <1>3, <1>6, <1>7

\* Until a terminal ends, its tab has the first chunks printed and is not told the end.
LEMMA NotYetTold ==
  ASSUME TermInv, tab = "here", ~Ended
  PROVE  /\ shown \in Seq(Nat) /\ printed \in Nat /\ ~EndShown
         /\ Len(shown) \in 0..printed /\ shown = Numbers(Len(shown)) /\ TermHas = shown
<1>1. /\ shown \in Seq(Nat) /\ pumpHand \in Seq(Nat) /\ ttyOut \in Seq(Nat) /\ printed \in Nat
  BY TermTypes DEF TermInv
<1>2. (shown \o pumpHand) \o ttyOut = Numbers(printed) \o <<>>
  BY DEF TermInv, ShownAll
<1>3. Numbers(printed) \o <<>> = Numbers(printed)
  BY <1>1, NumbersGrow, Joined
<1>4. /\ shown \o (pumpHand \o ttyOut) = (shown \o pumpHand) \o ttyOut
      /\ pumpHand \o ttyOut \in Seq(Nat)
  <2>1. pumpHand \o ttyOut \in Seq(Nat)
    BY <1>1
  <2>2. QED
    BY <1>1, <2>1, LinesShown, SMTT(30)
<1>5. Len(shown) \in 0..printed /\ shown = Numbers(Len(shown)) /\ Farewell \notin Range(shown)
  BY <1>1, <1>2, <1>3, <1>4, FirstNumbers
<1>6. ~EndShown
  <2>1. SUFFICES ASSUME shown # <<>>, Last(shown) = Farewell
                 PROVE  FALSE
    BY DEF EndShown
  <2>2. PICK f \in Seq(Nat), y \in Nat : shown = Append(f, y)
    BY <1>1, <2>1, LastToken
  <2>3. y = Farewell
    BY <2>1, <2>2, EndOfLine
  <2>4. Farewell \in Range(shown)
    <3>1. Len(shown) \in 1..Len(shown) /\ shown[Len(shown)] = y
      BY <2>2, OneMoreToken
    <3>2. QED
      BY <1>1, <2>3, <3>1, RangeOf
  <2>5. QED
    BY <1>5, <2>4
<1>7. QED
  BY <1>1, <1>5, <1>6 DEF TermHas

LEMMA PumpShows ==
  ASSUME TermInv, PumpSends, tab = "here"
  PROVE  /\ ~Ended /\ ~EndShown' /\ tab' = "here" /\ printed' = printed
         /\ Len(shown') \in Len(shown)..printed /\ shown' = Numbers(Len(shown'))
<1>1. /\ pump = "sending"
      /\ \/ sock = "open" /\ pump' = "reading"
         \/ (sock = "closed" \/ tab = "gone") /\ pump' = "done"
      /\ shown' = IF tab = "here" /\ sock = "open" THEN Append(shown, pumpHand[1]) ELSE shown
      /\ UNCHANGED <<tab, printed>>
  BY DEF PumpSends, ShowTo, tabVars, shellVars
<1>2. ~Ended /\ sock = "open"
  BY <1>1 DEF TermInv, TakenDown, Ended, TermShape
<1>3. /\ shown \in Seq(Nat) /\ ttyOut \in Seq(Nat) /\ printed \in Nat
  BY TermTypes DEF TermInv
<1>4. PICK x \in 1..printed : pumpHand = <<x>>
  BY <1>1 DEF TermInv, TermShape, InHand
<1>5. x \in Nat /\ x # Farewell
  BY <1>3 DEF Farewell
<1>6. /\ shown' = Append(shown, x) /\ shown \o <<x>> = Append(shown, x)
      /\ Append(shown, x) \in Seq(Nat) /\ Len(Append(shown, x)) = Len(shown) + 1
  <2>1. pumpHand[1] = x
    BY <1>4
  <2>2. QED
    BY <1>1, <1>2, <1>3, <1>5, <2>1, Joined, OneMoreToken
<1>7. Append(shown, x) \o ttyOut = Numbers(printed)
  <2>1. (shown \o pumpHand) \o ttyOut = Numbers(printed) \o <<>>
    BY <1>2 DEF TermInv, ShownAll
  <2>2. Numbers(printed) \o <<>> = Numbers(printed)
    BY <1>3, NumbersGrow, Joined
  <2>3. QED
    BY <1>4, <1>6, <2>1, <2>2
<1>8. Len(Append(shown, x)) \in 0..printed /\ Append(shown, x) = Numbers(Len(Append(shown, x)))
  BY <1>3, <1>6, <1>7, FirstNumbers
<1>9. Len(shown') \in Len(shown)..printed
  <2>1. Len(shown) \in Nat
    BY <1>3
  <2>2. QED
    BY <1>3, <1>6, <1>8, <2>1
<1>10. ~EndShown'
  <2>1. Last(shown') = x
    BY <1>3, <1>5, <1>6, EndOfLine
  <2>2. QED
    BY <1>5, <2>1 DEF EndShown, Farewell
<1>11. QED
  BY <1>1, <1>2, <1>6, <1>8, <1>9, <1>10

\* Once the tab is told the end, the shell runs no more, whether the tab is there or not.
TermOver == EndShown => loop # "starting" /\ shell # "running"

LEMMA TermOverStep == TermInv /\ TermOver /\ [TermNext]_termVars => TermOver'
<1> SUFFICES ASSUME TermInv, TermOver, [TermNext]_termVars
             PROVE  TermOver'
  OBVIOUS
<1>1. CASE UNCHANGED termVars
  BY <1>1 DEF TermOver, EndShown, termVars, shellVars, loopVars
<1>2. CASE ShellPrints \/ ShellReads \/ ShellExits \/ Type \/ TabLeaves
  BY <1>2 DEF ShellPrints, ShellReads, ShellExits, Type, TabLeaves, TermOver, EndShown, loopVars
<1>3. CASE PumpReads \/ ReadMessage \/ ReadFails \/ WriteTyped \/ ClosePtmx \/ KillShell \/ WaitShell
  BY <1>3 DEF PumpReads, ReadMessage, ReadFails, WriteTyped, ClosePtmx, KillShell, WaitShell,
              TermOver, EndShown, loopVars
<1>4. CASE PumpSends
  <2>1. UNCHANGED <<loop, shell>> /\ (tab # "here" => shown' = shown)
    BY <1>4 DEF PumpSends, ShowTo, loopVars
  <2>2. CASE tab = "here"
    BY <1>4, <2>2, PumpShows DEF TermOver
  <2>3. CASE tab # "here"
    BY <2>1, <2>3 DEF TermOver, EndShown
  <2>4. QED
    BY <2>2, <2>3
<1>5. CASE PumpSeesEnd
  <2>1. /\ pump = "reading" /\ ((ttyOut = <<>> /\ shell # "running") \/ PtmxClosed)
        /\ UNCHANGED <<loop, shell>>
        /\ shown' = shown \/ tab = "here"
    BY <1>5 DEF PumpSeesEnd, ShowTo, loopVars
  <2>2. pump = "reading"
    BY <1>5 DEF PumpSeesEnd
  <2>3. tab = "here" => shell # "running" /\ loop # "starting"
    BY <2>1, <2>2 DEF TermInv, TakenDown, Ended, TermShape, PtmxClosed
  <2>4. QED
    BY <2>1, <2>3 DEF TermOver, EndShown
<1>6. CASE StartShell
  <2>1. loop = "starting" /\ ~EndShown
    BY <1>6 DEF StartShell, TermOver
  <2>2. shell = "none"
    BY <2>1 DEF TermInv, TakenDown
  <2>3. \/ shown' = shown
        \/ loop' = "done" /\ shell' = shell
    BY <1>6 DEF StartShell
  <2>4. QED
    BY <2>1, <2>2, <2>3 DEF TermOver, EndShown
<1>7. QED
  BY <1>1, <1>2, <1>3, <1>4, <1>5, <1>6 DEF TermNext, Pump, Loop

\* What leaves the tab, what is printed and what is shown leaves the delivery.
LEMMA TermDeliveryLeft ==
  ASSUME UNCHANGED <<tab, printed, shown>>
  PROVE  UNCHANGED <<printed, TermHas, TermEnding>>
BY DEF TermHas, TermEnding, EndShown

\* The end is shown to a tab that is there when all that was printed has been shown.
LEMMA EndIsWhole ==
  ASSUME TermInv, tab = "here", ~Ended, pumpHand = <<>>, ttyOut = <<>>,
         shown' = Append(shown, Farewell), UNCHANGED <<tab, printed>>
  PROVE  TermDelivery!EndWhole
<1>1. /\ shown \in Seq(Nat) /\ printed \in Nat /\ ~EndShown
      /\ Len(shown) \in 0..printed /\ shown = Numbers(Len(shown)) /\ TermHas = shown
  BY NotYetTold
<1>2. shown = Numbers(printed)
  <2>1. (shown \o <<>>) \o <<>> = Numbers(printed) \o <<>>
    BY DEF TermInv, ShownAll
  <2>2. shown \o <<>> = shown /\ Numbers(printed) \o <<>> = Numbers(printed)
    BY <1>1, NumbersGrow, Joined
  <2>3. QED
    BY <2>1, <2>2
<1>3. Len(shown) = printed
  <2>1. Len(Numbers(printed)) = printed
    BY <1>1 DEF Numbers
  <2>2. QED
    BY <1>2, <2>1
<1>4. Farewell \in Nat
  BY DEF Farewell
<1>5. EndShown' /\ TermHas' = shown
  <2>1. shown' # <<>> /\ Last(shown') = Farewell /\ Front(shown') = shown
    BY <1>1, <1>4, EndOfLine
  <2>2. QED
    BY <2>1 DEF EndShown, TermHas
<1>6. QED
  BY <1>1, <1>3, <1>5 DEF TermDelivery!EndWhole, TermEnding

\* For its tab a terminal is a delivery of what the shell prints: whatever is typed, however
\* little the pseudo-terminal holds and whichever side ends first, the tab has the first
\* chunks, each once; and told that the terminal has ended it has all there will ever be.
THEOREM TerminalAlwaysDelivers == TermSpec => TerminalDelivers
<1>1. TermInit => TermDelivery!Init
  BY DEF TermInit, TermDelivery!Init, TermHas, TermEnding, EndShown
<1>2. TermInit => TermOver
  BY DEF TermInit, TermOver, EndShown
<1>3. TermInv /\ TermOver /\ [TermNext]_termVars => [TermDelivery!Next]_(TermDelivery!deliveryVars)
  <2> SUFFICES ASSUME TermInv, TermOver, [TermNext]_termVars
               PROVE  TermDelivery!Next \/ UNCHANGED <<printed, TermHas, TermEnding>>
    BY DEF TermDelivery!deliveryVars
  <2>1. CASE UNCHANGED termVars
    BY <2>1, TermDeliveryLeft DEF termVars, tabVars, shellVars
  <2>2. CASE ShellPrints
    <3>1. /\ shell = "running" /\ printed' = printed + 1 /\ UNCHANGED <<tab, shown>>
      BY <2>2 DEF ShellPrints, tabVars
    <3>2. ~EndShown /\ UNCHANGED <<TermHas, TermEnding>>
      BY <3>1 DEF TermOver, TermHas, TermEnding, EndShown
    <3>3. TermDelivery!Make
      BY <3>1, <3>2 DEF TermDelivery!Make, TermEnding
    <3>4. QED
      BY <3>3 DEF TermDelivery!Next
  <2>3. CASE ShellReads \/ ShellExits \/ Type
    BY <2>3, TermDeliveryLeft DEF ShellReads, ShellExits, Type, tabVars, shellVars
  <2>4. CASE TabLeaves
    <3>1. tab = "here" /\ tab' = "gone" /\ UNCHANGED <<printed, shown>>
      BY <2>4 DEF TabLeaves, shellVars
    <3>2. TermHas' = TermHas /\ (EndShown' <=> EndShown)
      BY <3>1 DEF TermHas, EndShown
    <3>3. CASE EndShown
      BY <3>1, <3>2, <3>3 DEF TermEnding
    <3>4. CASE ~EndShown
      <4>1. TermDelivery!PageLeaves
        BY <3>1, <3>2, <3>4 DEF TermDelivery!PageLeaves, TermEnding
      <4>2. QED
        BY <4>1 DEF TermDelivery!Next
    <3>5. QED
      BY <3>3, <3>4
  <2>5. CASE PumpReads \/ ReadMessage \/ ReadFails \/ WriteTyped \/ ClosePtmx \/ KillShell \/ WaitShell
    BY <2>5, TermDeliveryLeft DEF PumpReads, ReadMessage, ReadFails, WriteTyped, ClosePtmx, KillShell,
                                  WaitShell, tabVars, shellVars
  <2>6. CASE PumpSends
    <3>1. CASE tab = "here"
      <4>1. /\ ~Ended /\ ~EndShown' /\ tab' = "here" /\ printed' = printed
            /\ Len(shown') \in Len(shown)..printed /\ shown' = Numbers(Len(shown'))
        BY <2>6, <3>1, PumpShows
      <4>2. ~EndShown /\ TermHas = shown
        BY <3>1, <4>1, NotYetTold
      <4>3. TermHas' = Numbers(Len(shown')) /\ TermEnding = "open" /\ TermEnding' = "open"
        BY <3>1, <4>1, <4>2 DEF TermHas, TermEnding
      <4>4. Numbers(Len(shown')) = TermDelivery!FirstPieces(Len(shown'))
        BY DEF Numbers, TermDelivery!FirstPieces
      <4>5. TermDelivery!Deliver
        BY <4>1, <4>2, <4>3, <4>4 DEF TermDelivery!Deliver
      <4>6. QED
        BY <4>5 DEF TermDelivery!Next
    <3>2. CASE tab # "here"
      BY <2>6, <3>2, TermDeliveryLeft DEF PumpSends, ShowTo, tabVars, shellVars
    <3>3. QED
      BY <3>1, <3>2
  <2>7. CASE PumpSeesEnd
    <3>1. /\ pump = "reading" /\ ((ttyOut = <<>> /\ shell # "running") \/ PtmxClosed)
          /\ shown' = IF tab = "here" /\ sock = "open" THEN Append(shown, Farewell) ELSE shown
          /\ UNCHANGED <<tab, printed>>
      BY <2>7 DEF PumpSeesEnd, ShowTo, tabVars, shellVars
    <3>2. pump = "reading"
      BY <2>7 DEF PumpSeesEnd
    <3>3. CASE tab = "here"
      <4>1. sock = "open" /\ ttyOut = <<>> /\ ~Ended /\ pumpHand = <<>>
        BY <3>1, <3>2, <3>3 DEF TermInv, TakenDown, Ended, TermShape, PtmxClosed, InHand
      <4>2. TermDelivery!EndWhole
        BY <3>1, <3>3, <4>1, EndIsWhole
      <4>3. QED
        BY <4>2 DEF TermDelivery!Next
    <3>4. CASE tab # "here"
      BY <3>1, <3>4, TermDeliveryLeft
    <3>5. QED
      BY <3>3, <3>4
  <2>8. CASE StartShell
    <3>1. /\ loop = "starting" /\ UNCHANGED <<tab, printed>>
          /\ \/ shown' = shown
             \/ shown' = IF tab = "here" /\ sock = "open" THEN Append(shown, Farewell) ELSE shown
      BY <2>8 DEF StartShell, ShowTo, tabVars, shellVars
    <3>2. CASE shown' = shown
      BY <3>1, <3>2, TermDeliveryLeft
    <3>3. CASE tab = "here" /\ shown' # shown
      <4>1. pump = "none" /\ ttyOut = <<>>
        BY <3>1 DEF TermInv, TakenDown
      <4>2. ~Ended /\ pumpHand = <<>>
        BY <3>1, <4>1 DEF TermInv, TermShape, Ended, InHand
      <4>3. TermDelivery!EndWhole
        BY <3>1, <3>3, <4>1, <4>2, EndIsWhole
      <4>4. QED
        BY <4>3 DEF TermDelivery!Next
    <3>4. QED
      BY <3>1, <3>2, <3>3
  <2>9. QED
    BY <2>1, <2>2, <2>3, <2>4, <2>5, <2>6, <2>7, <2>8 DEF TermNext, Pump, Loop
<1>4. QED
  BY <1>1, <1>2, <1>3, AlwaysTermInv, TermOverStep, PTL DEF TermSpec, TerminalDelivers, TermDelivery!Spec

-----------------------------------------------------------------------------
(* An answer of the assistant is a delivery.                               *)

\* The first n numbers, and perhaps the report of an error.
LEMMA PartsOfText ==
  ASSUME NEW t \in Seq(Nat), NEW n \in Nat, n <= MaxBody, \A i \in 1..n : t[i] = i,
         Len(t) = n \/ (Len(t) = n + 1 /\ t[n + 1] = Mark)
  PROVE  /\ (t # <<>> /\ Last(t) = Mark) <=> Len(t) = n + 1
         /\ IF Len(t) = n + 1 THEN Front(t) = Numbers(n) ELSE t = Numbers(n)
<1>1. Mark \in Nat /\ n < Mark
  BY ChatAssumption DEF Mark
<1>2. /\ Numbers(n) \in Seq(Nat) /\ Len(Numbers(n)) = n
      /\ \A i \in 1..n : Numbers(n)[i] = i
  BY DEF Numbers
<1>3. CASE Len(t) = n
  <2>1. t = Numbers(n)
    BY <1>2, <1>3, SeqEqual
  <2>2. ASSUME t # <<>>, Last(t) = Mark
        PROVE  FALSE
    <3>1. n \in 1..n
      BY <1>3, <2>2
    <3>2. Last(t) = n
      BY <1>3, <3>1 DEF Last
    <3>3. QED
      BY <1>1, <2>2, <3>2
  <2>3. Len(t) # n + 1
    BY <1>3
  <2>4. QED
    BY <2>1, <2>2, <2>3
<1>4. CASE Len(t) = n + 1 /\ t[n + 1] = Mark
  <2>1. t # <<>> /\ Last(t) = Mark
    BY <1>4 DEF Last
  <2>2. PICK f \in Seq(Nat), y \in Nat : t = Append(f, y)
    BY <2>1, LastToken
  <2>3. Front(t) = f
    BY <2>2, EndOfLine
  <2>4. Len(f) + 1 = Len(t) /\ \A i \in 1..Len(f) : t[i] = f[i]
    BY <2>2, OneMoreToken
  <2>5. Len(f) = n
    BY <1>4, <2>4
  <2>6. f = Numbers(n)
    BY <1>2, <2>4, <2>5, SeqEqual
  <2>7. QED
    BY <1>4, <2>1, <2>3, <2>6
<1>5. QED
  BY <1>3, <1>4

\* The page has the first n tokens, and perhaps the report of an error after them.
HasTokens(text, n) ==
  /\ \A i \in 1..n : text[i] = i
  /\ Len(text) = n \/ (Len(text) = n + 1 /\ text[n + 1] = Mark)

LEMMA PageHas ==
  ASSUME ChatShape, NEW n \in 0..remote.tokens, HasTokens(page.text, n)
  PROVE  /\ n \in Nat /\ n <= MaxBody /\ n <= remote.tokens /\ page.text \in Seq(Nat) /\ remote.tokens \in Nat
         /\ (Marked <=> Len(page.text) = n + 1) /\ ChatHas = Numbers(n) /\ Len(ChatHas) = n
<1>1. n \in Nat /\ n <= MaxBody /\ n <= remote.tokens /\ page.text \in Seq(Nat) /\ remote.tokens \in Nat
  BY ChatTypes
<1>2. /\ (page.text # <<>> /\ Last(page.text) = Mark) <=> Len(page.text) = n + 1
      /\ IF Len(page.text) = n + 1 THEN Front(page.text) = Numbers(n) ELSE page.text = Numbers(n)
  BY <1>1, PartsOfText DEF HasTokens
<1>3. Marked <=> Len(page.text) = n + 1
  BY <1>2 DEF Marked
<1>4. ChatHas = Numbers(n)
  BY <1>2, <1>3 DEF ChatHas
<1>5. Len(Numbers(n)) = n
  BY <1>1 DEF Numbers
<1>6. QED
  BY <1>1, <1>3, <1>4, <1>5

\* What a page has when it has been told the end is all there will ever be.
ChatOver ==
  page.pc = "idle" /\ ~Marked => remote.ends # "open" /\ Len(page.text) = remote.tokens

PageSound == \E n \in 0..remote.tokens : HasTokens(page.text, n)

LEMMA ChatSound == ChatInv => ChatShape /\ PageSound /\ ChatOver
<1> SUFFICES ASSUME ChatInv
             PROVE  ChatShape /\ PageSound /\ ChatOver
  OBVIOUS
<1>1. ChatShape
  BY DEF ChatInv
<1>2. PageSound
  BY <1>1, AlongSound, Zenon DEF ChatInv, PageSound, HasTokens, TextSound
<1>3. ASSUME page.pc = "idle", ~Marked
      PROVE  remote.ends # "open" /\ Len(page.text) = remote.tokens
  <2>1. server = "answered" /\ \E k \in 0..remote.tokens : LeftTheBody(page.text, k)
    BY <1>3, IdleShowsAll
  <2>2. PICK k \in 0..remote.tokens : LeftTheBody(page.text, k)
    BY <2>1
  <2>3. \/ Len(page.text) = k /\ k = remote.tokens /\ remote.ends # "open"
        \/ Len(page.text) = k + 1 /\ page.text[k + 1] = Mark
    BY <2>1, <2>2 DEF LeftTheBody
  <2>4. ASSUME Len(page.text) = k + 1, page.text[k + 1] = Mark
        PROVE  FALSE
    <3>1. HasTokens(page.text, k)
      BY <2>2, <2>4 DEF LeftTheBody, HasTokens
    <3>2. QED
      BY <1>1, <1>3, <2>4, <3>1, PageHas
  <2>5. QED
    BY <2>3, <2>4
<1>4. QED
  BY <1>1, <1>2, <1>3 DEF ChatOver

\* The shapes of an ending.
LEMMA ChatEndings ==
  ASSUME ChatShape
  PROVE  /\ Marked => ChatEnding = "broken"
         /\ ~Marked /\ page.pc = "idle" => ChatEnding = "whole"
         /\ ~Marked /\ page.pc = "closed" => ChatEnding = "left"
         /\ ~Marked /\ page.pc = "reading" => ChatEnding = "open"
<1>1. page.pc \in {"reading", "idle", "closed"}
  BY ChatTypes
<1>2. QED
  BY <1>1 DEF ChatEnding

\* All that a state of an answer says about its delivery.
PageFacts ==
  /\ remote.tokens \in Nat /\ page.text \in Seq(Nat) /\ page.pc \in {"reading", "idle", "closed"}
  /\ ChatOver
  /\ \E n \in 0..remote.tokens : /\ HasTokens(page.text, n) /\ n < Mark
                                 /\ (Marked <=> Len(page.text) = n + 1)
                                 /\ ChatHas = Numbers(n) /\ Len(ChatHas) = n
  /\ Marked => ChatEnding = "broken"
  /\ ~Marked => ChatEnding = CASE page.pc = "idle" -> "whole"
                               [] page.pc = "closed" -> "left"
                               [] page.pc = "reading" -> "open"

LEMMA FactsOfChat == ChatInv => PageFacts
<1> SUFFICES ASSUME ChatInv
             PROVE  PageFacts
  OBVIOUS
<1>1. ChatShape /\ PageSound /\ ChatOver
  BY ChatSound
<1>2. remote.tokens \in Nat /\ page.text \in Seq(Nat) /\ page.pc \in {"reading", "idle", "closed"}
      /\ Mark \in Nat /\ remote.tokens < Mark
  BY <1>1, ChatTypes
<1>3. PICK n \in 0..remote.tokens : HasTokens(page.text, n)
  BY <1>1 DEF PageSound
<1>4. (Marked <=> Len(page.text) = n + 1) /\ ChatHas = Numbers(n) /\ Len(ChatHas) = n /\ n < Mark
  <2>1. n < Mark
    BY <1>2
  <2>2. QED
    BY <1>1, <1>3, <2>1, PageHas
<1>5. /\ Marked => ChatEnding = "broken"
      /\ ~Marked => ChatEnding = CASE page.pc = "idle" -> "whole"
                                   [] page.pc = "closed" -> "left"
                                   [] page.pc = "reading" -> "open"
  <2>1. CASE page.pc = "idle"
    BY <1>1, <2>1, ChatEndings
  <2>2. CASE page.pc = "closed"
    BY <1>1, <2>2, ChatEndings
  <2>3. CASE page.pc = "reading"
    BY <1>1, <2>3, ChatEndings
  <2>4. QED
    BY <1>2, <2>1, <2>2, <2>3
<1>6. QED
  BY <1>1, <1>2, <1>3, <1>4, <1>5 DEF PageFacts

\* What leaves the page and the number of tokens leaves the delivery.
LEMMA ChatDeliveryLeft ==
  ASSUME UNCHANGED <<page, remote.tokens>>
  PROVE  UNCHANGED <<remote.tokens, ChatHas, ChatEnding>>
BY DEF ChatHas, ChatEnding, Marked

LEMMA PageReadsText ==
  ASSUME ChatShape, NEW x \in 1..2 * ChanSize + 2, PageReads(x)
  PROVE  /\ page.pc = "reading" /\ page'.pc = "reading" /\ remote' = remote
         /\ \E l \in Seq(Nat) : page'.text = page.text \o l
<1>1. page.pc = "reading" /\ remote' = remote
  BY DEF PageReads
<1>2. /\ page' = [pc |-> page.pc, kept |-> page'.kept, text |-> page'.text]
      /\ \E taken \in Seq(Piece) : /\ page'.text = page.text \o Spoken(Whole(taken))
                                 /\ \E q \in Nat : Len(taken) = 2 * q \/ Len(taken) = 2 * q + 1
  BY PageRead DEF Cut
<1>3. PICK l : page'.text = page.text \o l /\ l \in Seq(Nat)
  BY <1>2, LinesOfPieces, SpokenTyped
<1>4. page'.pc = page.pc
  <2>1. PICK pc, kept, text : pc = page.pc /\ kept = page'.kept /\ text = page'.text
    OBVIOUS
  <2>2. page' = [pc |-> pc, kept |-> kept, text |-> text]
    BY <1>2, <2>1, Zenon
  <2>3. QED
    BY <2>1, <2>2
<1>5. QED
  BY <1>1, <1>3, <1>4

LEMMA PageReadsDelivers ==
  ASSUME ChatShape, PageFacts, PageFacts', NEW x \in 1..2 * ChanSize + 2, PageReads(x)
  PROVE  ChatDelivery!Next \/ UNCHANGED <<remote.tokens, ChatHas, ChatEnding>>
<1>1. /\ page.pc = "reading" /\ page'.pc = "reading" /\ remote' = remote
      /\ \E l \in Seq(Nat) : page'.text = page.text \o l
  BY PageReadsText
<1>2. PICK l \in Seq(Nat) : page'.text = page.text \o l
  BY <1>1
<1>3. PICK n \in 0..remote.tokens : /\ HasTokens(page.text, n) /\ n < Mark
                                    /\ (Marked <=> Len(page.text) = n + 1)
                                    /\ ChatHas = Numbers(n) /\ Len(ChatHas) = n
  BY DEF PageFacts
<1>4. PICK m \in 0..remote'.tokens : /\ HasTokens(page'.text, m) /\ m < Mark
                                     /\ (Marked' <=> Len(page'.text) = m + 1)
                                     /\ ChatHas' = Numbers(m) /\ Len(ChatHas') = m
  BY DEF PageFacts
<1>5. /\ remote.tokens \in Nat /\ n \in Nat /\ m \in Nat /\ m <= remote.tokens
      /\ page.text \in Seq(Nat) /\ page'.text \in Seq(Nat) /\ Mark \in Nat
  BY <1>1, <1>3, <1>4, ChatAssumption, SMTT(30) DEF PageFacts, Mark
<1>6. /\ Len(page.text) \in Nat /\ Len(page'.text) \in Nat /\ Len(page.text) <= Len(page'.text)
      /\ \A i \in 1..Len(page.text) : page'.text[i] = page.text[i]
  <2>1. Len(page.text \o l) = Len(page.text) + Len(l) /\ Len(l) \in Nat
        /\ \A i \in 1..Len(page.text) : (page.text \o l)[i] = page.text[i]
    BY <1>5, NumbersJoined
  <2>2. QED
    BY <1>2, <1>5, <2>1, SMTT(30)
<1>7. CASE Marked
  <2>1. Len(page.text) = n + 1 /\ page'.text[n + 1] = Mark
    <3>1. Len(page.text) = n + 1 /\ page.text[n + 1] = Mark
      BY <1>3, <1>5, <1>7 DEF HasTokens
    <3>2. n + 1 \in 1..Len(page.text)
      BY <1>5, <3>1
    <3>3. QED
      BY <1>6, <3>1, <3>2
  <2>2. ~(n + 1 <= m)
    <3>1. ASSUME n + 1 <= m
          PROVE  FALSE
      <4>1. n + 1 \in 1..m
        BY <1>5, <3>1
      <4>2. page'.text[n + 1] = n + 1
        BY <1>4, <4>1 DEF HasTokens
      <4>3. QED
        BY <1>4, <1>5, <2>1, <3>1, <4>2
    <3>2. QED
      BY <3>1
  <2>3. m = n /\ Len(page'.text) = m + 1
    <3>1. Len(page'.text) = m \/ Len(page'.text) = m + 1
      BY <1>4 DEF HasTokens
    <3>2. QED
      BY <1>5, <1>6, <2>1, <2>2, <3>1
  <2>4. ChatHas' = ChatHas /\ Marked'
    BY <1>3, <1>4, <2>3
  <2>5. QED
    BY <1>1, <1>7, <2>4 DEF PageFacts
<1>8. CASE ~Marked
  <2>1. Len(page.text) = n
    BY <1>3, <1>8 DEF HasTokens
  <2>2. n <= m
    <3>1. CASE Len(page'.text) = m
      BY <1>6, <2>1, <3>1
    <3>2. CASE Len(page'.text) = m + 1 /\ page'.text[m + 1] = Mark
      <4>1. ASSUME n = m + 1
            PROVE  FALSE
        <5>1. n \in 1..n /\ n \in 1..Len(page.text)
          BY <1>5, <2>1, <4>1
        <5>2. page.text[n] = n /\ page'.text[n] = page.text[n]
          BY <1>3, <1>6, <5>1 DEF HasTokens
        <5>3. QED
          BY <1>3, <1>5, <3>2, <4>1, <5>2
      <4>2. n <= m + 1
        BY <1>6, <2>1, <3>2
      <4>3. QED
        BY <1>5, <4>1, <4>2
    <3>3. QED
      BY <1>4, <3>1, <3>2 DEF HasTokens
  <2>3. m \in Len(ChatHas)..remote.tokens
    BY <1>3, <1>5, <2>2
  <2>4. ChatHas' = ChatDelivery!FirstPieces(m)
    BY <1>4 DEF Numbers, ChatDelivery!FirstPieces
  <2>5. ChatEnding = "open" /\ ChatEnding' \in {"open", "broken"}
    BY <1>1, <1>8 DEF PageFacts
  <2>6. ChatDelivery!Deliver
    BY <1>1, <2>3, <2>4, <2>5 DEF ChatDelivery!Deliver
  <2>7. QED
    BY <2>6 DEF ChatDelivery!Next
<1>9. QED
  BY <1>7, <1>8

LEMMA ChatStepDelivers ==
  ASSUME ChatShape, PageFacts, PageFacts', [ChatNext]_chatVars
  PROVE  ChatDelivery!Next \/ UNCHANGED <<remote.tokens, ChatHas, ChatEnding>>
<1>1. CASE UNCHANGED chatVars
  BY <1>1, ChatDeliveryLeft DEF chatVars
<1>2. CASE Call
  <2>1. page' = page /\ (remote' = remote \/ remote' = [remote EXCEPT !.ends = "refused"])
    BY <1>2 DEF Call, CallOllama, CallOther
  <2>2. remote'.tokens = remote.tokens
    BY <2>1, ChatTypes
  <2>3. QED
    BY <2>1, <2>2, ChatDeliveryLeft
<1>3. ASSUME NEW isToken \in BOOLEAN, ProviderSends(isToken)
      PROVE  ChatDelivery!Next \/ UNCHANGED <<remote.tokens, ChatHas, ChatEnding>>
  <2>1. /\ page' = page /\ remote.ends = "open"
        /\ remote' = IF isToken THEN [remote EXCEPT !.tokens = @ + 1] ELSE remote
    BY <1>3 DEF ProviderSends
  <2>2. CASE isToken
    <3>1. remote'.tokens = remote.tokens + 1
      BY <2>1, <2>2, ChatTypes
    <3>2. ChatEnding # "whole" /\ UNCHANGED <<ChatHas, ChatEnding>>
      BY <2>1 DEF PageFacts, ChatOver, ChatHas, ChatEnding, Marked
    <3>3. ChatDelivery!Make
      BY <3>1, <3>2 DEF ChatDelivery!Make
    <3>4. QED
      BY <3>3 DEF ChatDelivery!Next
  <2>3. CASE ~isToken
    BY <2>1, <2>3, ChatDeliveryLeft
  <2>4. QED
    BY <2>2, <2>3
<1>4. ASSUME NEW how \in {"done", "error", "cut"}, ProviderEnds(how)
      PROVE  ChatDelivery!Next \/ UNCHANGED <<remote.tokens, ChatHas, ChatEnding>>
  <2>1. page' = page /\ remote' = [remote EXCEPT !.ends = how]
    BY <1>4 DEF ProviderEnds
  <2>2. remote'.tokens = remote.tokens
    BY <2>1, ChatTypes
  <2>3. QED
    BY <2>1, <2>2, ChatDeliveryLeft
<1>5. CASE ReadLine \/ ReadEnds \/ ReportError \/ ForwardToken \/ HandlerEnds
  BY <1>5, ChatDeliveryLeft DEF ReadLine, ReadEnds, ReportError, ForwardToken, HandlerEnds
<1>6. ASSUME NEW n \in 1..2 * ChanSize + 2, PageReads(n)
      PROVE  ChatDelivery!Next \/ UNCHANGED <<remote.tokens, ChatHas, ChatEnding>>
  BY <1>6, PageReadsDelivers
<1>7. CASE PageEnds \/ PageCloses
  <2>1. /\ page.pc = "reading" /\ remote' = remote
        /\ \/ PageEnds /\ page' = [page EXCEPT !.pc = "idle"]
           \/ PageCloses /\ page' = [page EXCEPT !.pc = "closed"]
    BY <1>7 DEF PageEnds, PageCloses
  <2>2. page'.text = page.text /\ page'.pc \in {"idle", "closed"}
    BY <2>1, ChatTypes
  <2>3. ChatHas' = ChatHas /\ (Marked' <=> Marked)
    <3>1. Marked' <=> Marked
      BY <2>2 DEF Marked
    <3>2. QED
      BY <2>2, <3>1 DEF ChatHas
  <2>4. CASE Marked
    BY <2>1, <2>3, <2>4 DEF PageFacts
  <2>5. CASE ~Marked
    <3>1. ChatEnding = "open"
      BY <2>1, <2>5 DEF PageFacts
    <3>2. CASE page'.pc = "closed"
      <4>1. ChatEnding' = "left"
        BY <2>3, <2>5, <3>2 DEF PageFacts
      <4>2. ChatDelivery!PageLeaves
        BY <2>1, <2>3, <3>1, <4>1 DEF ChatDelivery!PageLeaves
      <4>3. QED
        BY <4>2 DEF ChatDelivery!Next
    <3>3. CASE page'.pc = "idle"
      <4>1. ChatEnding' = "whole"
        BY <2>3, <2>5, <3>3 DEF PageFacts
      <4>2. Len(page.text) = remote.tokens
        BY <2>1, <2>2, <2>3, <2>5, <3>3 DEF PageFacts, ChatOver
      <4>3. ChatHas = page.text
        BY <2>5 DEF ChatHas
      <4>4. ChatDelivery!EndWhole
        BY <2>1, <2>3, <3>1, <4>1, <4>2, <4>3 DEF ChatDelivery!EndWhole
      <4>5. QED
        BY <4>4 DEF ChatDelivery!Next
    <3>4. QED
      BY <2>2, <3>2, <3>3
  <2>6. QED
    BY <2>4, <2>5
<1>8. QED
  BY <1>1, <1>2, <1>3, <1>4, <1>5, <1>6, <1>7 DEF ChatNext

\* For its page an answer is a delivery of the provider's tokens: whatever the sizes of the
\* channel and of the pieces, and whoever is slow, fails or leaves, the page has the first
\* tokens, each once; and an answer that ends without the report of an error is whole.
THEOREM AnswerAlwaysDelivers == ChatSpec => AnswerDelivers
<1>1. ChatInit => ChatDelivery!Init
  <2> SUFFICES ASSUME ChatInit
               PROVE  ChatDelivery!Init
    OBVIOUS
  <2>1. page.text = <<>> /\ page.pc = "reading" /\ remote.tokens = 0
    BY DEF ChatInit
  <2>2. ~Marked /\ ChatHas = <<>>
    BY <2>1 DEF Marked, ChatHas
  <2>3. ChatEnding = "open"
    BY <2>1, <2>2 DEF ChatEnding
  <2>4. QED
    BY <2>1, <2>2, <2>3 DEF ChatDelivery!Init
<1>2. ChatInv => ChatShape
  BY DEF ChatInv
<1>3. ChatShape /\ PageFacts /\ PageFacts' /\ [ChatNext]_chatVars
        => [ChatDelivery!Next]_(ChatDelivery!deliveryVars)
  BY ChatStepDelivers DEF ChatDelivery!deliveryVars
<1>4. QED
  BY <1>1, <1>2, <1>3, ChatInitial, ChatInvStep, FactsOfChat, PTL
     DEF ChatSpec, AnswerDelivers, ChatDelivery!Spec
=============================================================================
