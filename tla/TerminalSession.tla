-------------------------- MODULE TerminalSession --------------------------
(***************************************************************************)
(* A terminal in the browser (internal/api/handlers/terminal.go,           *)
(* ServeTerminal).                                                         *)
(*                                                                         *)
(* The handler starts a shell on a pseudo-terminal. A goroutine, the pump, *)
(* copies what the shell prints to the WebSocket; the handler itself, the  *)
(* loop, copies what the tab types to the pseudo-terminal. Whichever side  *)
(* ends first must take the other one down: the pump closes the WebSocket  *)
(* when the shell has gone, and the loop, when it can read the WebSocket   *)
(* no more, closes the pseudo-terminal, kills the shell and waits for it.  *)
(*                                                                         *)
(* Chunks of input and of output are named by their number. The handler    *)
(* puts its end of the pseudo-terminal in blocking mode (resizePTY calls   *)
(* Fd), so that closing it does not interrupt a read of the pump.          *)
(***************************************************************************)
EXTENDS Integers, Sequences, SequencesExt

CONSTANTS
  TtyCap,     \* chunks the pseudo-terminal holds in each direction
  MaxTyped,   \* bound: chunks the tab types
  MaxPrinted  \* bound: chunks the shell prints

ASSUME TermAssumption ==
  TtyCap \in Nat \ {0} /\ MaxTyped \in Nat /\ MaxPrinted \in Nat

VARIABLES
  tab,      \* the browser's tab: "here" or "gone"
  sock,     \* the WebSocket as the server sees it: "open" or "closed"
  typed,    \* chunks the tab has typed
  wsIn,     \* chunks on their way to the server
  shell,    \* "none", "running", "exited" (a zombie) or "reaped"
  ttyIn,    \* what the shell has not read yet
  received, \* history: what the shell has read
  printed,  \* chunks the shell has printed
  ttyOut,   \* what the pump has not read yet
  pump,     \* "none", "reading", "sending" or "done"
  pumpHand, \* the chunk the pump has in hand
  loop,     \* "starting", "reading", "writing", "closing", "killing", "waiting" or "done"
  loopHand, \* the chunk the loop has in hand
  shown     \* history: what the tab was sent

tabVars == <<tab, typed>>
shellVars == <<received, printed>>
pumpVars == <<pump, pumpHand>>
loopVars == <<loop, loopHand>>
termVars == <<tabVars, sock, wsIn, shell, ttyIn, shellVars, ttyOut, pumpVars, loopVars, shown>>

\* The last message of a terminal: the shell has exited, or did not start.
Farewell == 0

TermInit ==
  /\ tab = "here" /\ sock = "open" /\ typed = 0 /\ wsIn = <<>>
  /\ shell = "none" /\ ttyIn = <<>> /\ received = <<>> /\ printed = 0 /\ ttyOut = <<>>
  /\ pump = "none" /\ pumpHand = <<>>
  /\ loop = "starting" /\ loopHand = <<>>
  /\ shown = <<>>

PtmxClosed == loop \in {"killing", "waiting", "done"}

\* What is written to a tab that has gone is lost.
ShowTo(message) == shown' = IF tab = "here" /\ sock = "open" THEN Append(shown, message) ELSE shown

-----------------------------------------------------------------------------
(* The shell and the tab.                                                  *)

ShellPrints ==
  /\ shell = "running" /\ printed < MaxPrinted /\ Len(ttyOut) < TtyCap
  /\ printed' = printed + 1
  /\ ttyOut' = Append(ttyOut, printed + 1)
  /\ UNCHANGED <<tabVars, sock, wsIn, shell, ttyIn, received, pumpVars, loopVars, shown>>

ShellReads ==
  /\ shell = "running" /\ ttyIn # <<>>
  /\ received' = Append(received, Head(ttyIn))
  /\ ttyIn' = Tail(ttyIn)
  /\ UNCHANGED <<tabVars, sock, wsIn, shell, printed, ttyOut, pumpVars, loopVars, shown>>

ShellExits ==
  /\ shell = "running"
  /\ shell' = "exited"
  /\ UNCHANGED <<tabVars, sock, wsIn, ttyIn, shellVars, ttyOut, pumpVars, loopVars, shown>>

Type ==
  /\ tab = "here" /\ sock = "open" /\ typed < MaxTyped
  /\ typed' = typed + 1
  /\ wsIn' = Append(wsIn, typed + 1)
  /\ UNCHANGED <<tab, sock, shell, ttyIn, shellVars, ttyOut, pumpVars, loopVars, shown>>

TabLeaves ==
  /\ tab = "here"
  /\ tab' = "gone"
  /\ UNCHANGED <<typed, sock, wsIn, shell, ttyIn, shellVars, ttyOut, pumpVars, loopVars, shown>>

-----------------------------------------------------------------------------
(* The pump.                                                               *)

PumpReads ==
  /\ pump = "reading" /\ ttyOut # <<>> /\ ~PtmxClosed
  /\ pumpHand' = <<Head(ttyOut)>>
  /\ ttyOut' = Tail(ttyOut)
  /\ pump' = "sending"
  /\ UNCHANGED <<tabVars, sock, wsIn, shell, ttyIn, shellVars, loopVars, shown>>

\* A write fails on a closed socket, and may fail once the tab has gone; the
\* pump then returns and leaves the rest to the loop.
PumpSends ==
  /\ pump = "sending"
  /\ \/ sock = "open" /\ pump' = "reading"
     \/ (sock = "closed" \/ tab = "gone") /\ pump' = "done"
  /\ ShowTo(pumpHand[1])
  /\ pumpHand' = <<>>
  /\ UNCHANGED <<tabVars, sock, wsIn, shell, ttyIn, shellVars, ttyOut, loopVars>>

\* Slip: the pump ends with the shell, whatever it has printed last.
PumpEndsWithShell ==
  /\ pump = "reading" /\ (shell # "running" \/ PtmxClosed)
  /\ ShowTo(Farewell)
  /\ sock' = "closed"
  /\ pump' = "done"
  /\ UNCHANGED <<tabVars, wsIn, shell, ttyIn, shellVars, ttyOut, pumpHand, loopVars>>

\* A read fails when the shell has gone and all it printed was read, or when
\* the loop has closed the pseudo-terminal.
PumpSeesEnd ==
  /\ pump = "reading" /\ ((ttyOut = <<>> /\ shell # "running") \/ PtmxClosed)
  /\ ShowTo(Farewell)
  /\ sock' = "closed"
  /\ pump' = "done"
  /\ UNCHANGED <<tabVars, wsIn, shell, ttyIn, shellVars, ttyOut, pumpHand, loopVars>>

-----------------------------------------------------------------------------
(* The loop.                                                               *)

\* pty.Start, which may fail.
StartShell ==
  /\ loop = "starting"
  /\ \/ /\ shell' = "running" /\ pump' = "reading" /\ loop' = "reading"
        /\ UNCHANGED <<sock, shown>>
     \/ /\ ShowTo(Farewell)
        /\ sock' = "closed" /\ loop' = "done"
        /\ UNCHANGED <<shell, pump>>
  /\ UNCHANGED <<tabVars, wsIn, ttyIn, shellVars, ttyOut, pumpHand, loopHand>>

ReadMessage ==
  /\ loop = "reading" /\ wsIn # <<>>
  /\ loopHand' = <<Head(wsIn)>>
  /\ wsIn' = Tail(wsIn)
  /\ loop' = "writing"
  /\ UNCHANGED <<tabVars, sock, shell, ttyIn, shellVars, ttyOut, pumpVars, shown>>

\* What the tab typed last may be lost with the connection.
ReadFails ==
  /\ loop = "reading" /\ (tab = "gone" \/ sock = "closed")
  /\ loop' = "closing"
  /\ UNCHANGED <<tabVars, sock, wsIn, shell, ttyIn, shellVars, ttyOut, pumpVars, loopHand, shown>>

\* ptmx.Write blocks while the shell reads nothing, and fails, which the loop
\* ignores, when the shell has gone.
WriteTyped ==
  /\ loop = "writing"
  /\ \/ shell = "running" /\ Len(ttyIn) < TtyCap /\ ttyIn' = ttyIn \o loopHand
     \/ shell # "running" /\ UNCHANGED ttyIn
  /\ loop' = "reading" /\ loopHand' = <<>>
  /\ UNCHANGED <<tabVars, sock, wsIn, shell, shellVars, ttyOut, pumpVars, shown>>

\* The deferred calls: ptmx.Close ...
ClosePtmx ==
  /\ loop = "closing"
  /\ loop' = "killing"
  /\ UNCHANGED <<tabVars, sock, wsIn, shell, ttyIn, shellVars, ttyOut, pumpVars, loopHand, shown>>

\* Slip: nobody waits for the shell.
KillAndReturn ==
  /\ loop = "killing"
  /\ shell' = "exited"
  /\ loop' = "done" /\ sock' = "closed"
  /\ UNCHANGED <<tabVars, wsIn, ttyIn, shellVars, ttyOut, pumpVars, loopHand, shown>>

\* ... cmd.Process.Kill ...
KillShell ==
  /\ loop = "killing"
  /\ shell' = "exited"
  /\ loop' = "waiting"
  /\ UNCHANGED <<tabVars, sock, wsIn, ttyIn, shellVars, ttyOut, pumpVars, loopHand, shown>>

\* ... cmd.Wait and conn.Close.
WaitShell ==
  /\ loop = "waiting" /\ shell = "exited"
  /\ shell' = "reaped"
  /\ loop' = "done" /\ sock' = "closed"
  /\ UNCHANGED <<tabVars, wsIn, ttyIn, shellVars, ttyOut, pumpVars, loopHand, shown>>

Pump == PumpReads \/ PumpSends \/ PumpSeesEnd
Loop == StartShell \/ ReadMessage \/ ReadFails \/ WriteTyped \/ ClosePtmx \/ KillShell \/ WaitShell

TermNext == ShellPrints \/ ShellReads \/ ShellExits \/ Type \/ TabLeaves \/ Pump \/ Loop

TermSpec == TermInit /\ [][TermNext]_termVars

\* Pump and loop go on while they can, and the shell reads what is typed (or
\* exits); nothing makes it print or exit, nor the tab type or leave.
TermFairness == WF_termVars(ShellReads) /\ WF_termVars(Pump) /\ WF_termVars(Loop)

-----------------------------------------------------------------------------
Numbers(n) == [i \in 1..n |-> i]

TermTypeOK ==
  /\ tab \in {"here", "gone"} /\ sock \in {"open", "closed"}
  /\ typed \in 0..MaxTyped /\ printed \in 0..MaxPrinted
  /\ wsIn \in Seq(1..typed) /\ received \in Seq(1..typed) /\ shown \in Seq(0..printed)
  /\ ttyIn \in Seq(1..typed) /\ Len(ttyIn) <= TtyCap
  /\ ttyOut \in Seq(1..printed) /\ Len(ttyOut) <= TtyCap
  /\ shell \in {"none", "running", "exited", "reaped"}
  /\ pump \in {"none", "reading", "sending", "done"}
  /\ loop \in {"starting", "reading", "writing", "closing", "killing", "waiting", "done"}
  /\ Len(pumpHand) = (IF pump = "sending" THEN 1 ELSE 0)
  /\ Len(loopHand) = (IF loop = "writing" THEN 1 ELSE 0)

(* A tab that stays is shown everything the shell has printed, in order,   *)
(* and is told when the terminal has ended, after the last of it; and as   *)
(* long as shell and loop run, the shell reads all that was typed, once    *)
(* and in order, however slowly it reads.                                  *)
TerminalFaithful ==
  /\ tab = "here" =>
       LET ended == pump = "done" \/ (pump = "none" /\ loop = "done")
       IN  shown \o pumpHand \o ttyOut = Numbers(printed) \o (IF ended THEN <<Farewell>> ELSE <<>>)
  /\ shell = "running" /\ loop \in {"reading", "writing"} =>
       received \o ttyIn \o loopHand \o wsIn = Numbers(typed)

\* What the tab has of the shell's output, and how the output ends for it.
EndShown == shown # <<>> /\ Last(shown) = Farewell
TermHas == IF EndShown THEN Front(shown) ELSE shown
TermEnding == IF EndShown THEN "whole" ELSE IF tab = "gone" THEN "left" ELSE "open"

(* To its tab a terminal is a delivery of what the shell prints: in order, *)
(* nothing left out, and whole when the tab is told that it has ended.     *)
TermDelivery == INSTANCE Delivery WITH made <- printed, has <- TermHas, ending <- TermEnding
TerminalDelivers == TermDelivery!Spec

(* When the shell exits or the tab leaves, both goroutines end, the        *)
(* WebSocket is closed and the shell has ended and been waited for,        *)
(* provided the shell reads what is typed.                                 *)
TerminalEnds ==
  (shell = "exited" \/ tab = "gone") ~>
    /\ loop = "done" /\ pump \in {"none", "done"} /\ sock = "closed"
    /\ shell \in {"none", "reaped"}
=============================================================================
