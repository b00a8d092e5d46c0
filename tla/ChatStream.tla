----------------------------- MODULE ChatStream -----------------------------
(***************************************************************************)
(* One answer of the AI assistant (internal/system/ai/ai.go, Chat in       *)
(* internal/api/handlers/ai.go, sendMessage in                             *)
(* web/src/routes/AIAssistant.svelte).  A provider streams lines to the    *)
(* server; a goroutine puts the tokens they hold into a channel, the       *)
(* handler writes each to the page as one line, and the page joins what it *)
(* reads, in pieces that end anywhere, to the text it shows.               *)
(*                                                                         *)
(* The tokens of an answer are 1, 2, 3 ...; 0 is a line without any, as    *)
(* the last line of Ollama, an event of another type or the report of an   *)
(* error are.                                                              *)
(***************************************************************************)
EXTENDS Naturals, Sequences, SequencesExt

CONSTANTS
  Providers,  \* of "ollama", "openai" and "anthropic"
  ChanSize,   \* capacity of the channel
  MaxBody    \* bound of the model: lines of a body

ASSUME ChatAssumption ==
  /\ Providers \subseteq {"ollama", "openai", "anthropic"}
  /\ ChanSize \in Nat \ {0} /\ MaxBody \in Nat

VARIABLES
  provider,  \* the provider of the settings
  remote,    \* its answer: the tokens sent so far, and how the body ends
  body,      \* lines sent and not read by the server
  tokens,       \* the channel
  server,    \* the goroutine: calling, reading, failed (with an error to report), closed
  wire,      \* what the handler has written and the page has not read
  page       \* what the page does, the end of a line it keeps, and the text it shows

chatVars == <<provider, remote, body, tokens, server, wire, page>>

Mark == MaxBody + 1  \* the token that reports an error
Done == MaxBody + 2  \* the line after the last token

ChatInit ==
  /\ provider \in Providers
  /\ remote = [tokens |-> 0, ends |-> "open"]
  /\ body = <<>> /\ tokens = <<>> /\ wire = <<>>
  /\ server = "calling"
  /\ page = [pc |-> "reading", kept |-> <<>>, text |-> <<>>]

\* The client is gone when its page is closed, and the context is done with it.
Gone == page.pc = "closed"

-----------------------------------------------------------------------------
\* The request is answered or fails.  Ollama's status is verified, and without a model
\* there is an error as well; what another provider refuses is a body without tokens.
CallOllama ==
  /\ provider = "ollama"
  /\ server' \in {"reading", "failed"} /\ UNCHANGED remote

CallOther ==
  /\ provider # "ollama"
  /\ \/ server' \in {"reading", "failed"} /\ UNCHANGED remote
     \/ server' = "reading" /\ remote' = [remote EXCEPT !.ends = "refused"]

Call ==
  /\ server = "calling" /\ (CallOllama \/ CallOther)
  /\ UNCHANGED <<provider, body, tokens, wire, page>>

\* The provider sends a line, or ends the body; it may end for good, by a line that
\* reports an error, or be cut (by the network, or the two minutes of the client).
ProviderSends(line) ==
  /\ server # "calling" /\ remote.ends = "open"
  /\ remote.tokens < MaxBody /\ Len(body) < MaxBody
  /\ body' = Append(body, IF line THEN remote.tokens + 1 ELSE 0)
  /\ remote' = IF line THEN [remote EXCEPT !.tokens = @ + 1] ELSE remote
  /\ UNCHANGED <<provider, tokens, server, wire, page>>

ProviderEnds(how) ==
  /\ server # "calling" /\ remote.ends = "open"
  /\ remote' = [remote EXCEPT !.ends = how]
  /\ body' = IF how = "cut" THEN body ELSE Append(body, 0)
  /\ UNCHANGED <<provider, tokens, server, wire, page>>

\* Slip: the line that ends the loop is any line without a token.
ReadLineOrStop ==
  /\ server = "reading" /\ body # <<>>
  /\ \/ /\ Head(body) # 0 /\ Len(tokens) < ChanSize
        /\ tokens' = Append(tokens, Head(body)) /\ UNCHANGED server
     \/ Head(body) = 0 /\ server' = "closed" /\ UNCHANGED tokens
     \/ Gone /\ server' = "failed" /\ UNCHANGED tokens
  /\ body' = Tail(body)
  /\ UNCHANGED <<provider, remote, wire, page>>

\* One turn of the loop over the lines: a token waits for room in the channel, or for
\* the client to be gone; other lines are skipped.
ReadLine ==
  /\ server = "reading" /\ body # <<>>
  /\ \/ /\ Head(body) # 0 /\ Len(tokens) < ChanSize
        /\ tokens' = Append(tokens, Head(body)) /\ UNCHANGED server
     \/ Head(body) = 0 /\ UNCHANGED <<tokens, server>>
     \/ Gone /\ server' = "failed" /\ UNCHANGED tokens
  /\ body' = Tail(body)
  /\ UNCHANGED <<provider, remote, wire, page>>

\* The body is over: well, or with the error of the scanner, which the departure of
\* the client gives it at any moment.
ReadEnds ==
  /\ server = "reading"
  /\ Gone \/ (body = <<>> /\ remote.ends # "open")
  /\ server' = IF remote.ends = "cut" \/ Gone THEN "failed" ELSE "closed"
  /\ UNCHANGED <<provider, remote, body, tokens, wire, page>>

\* The goroutine reports the error as a token of its own and closes the channel.
ReportError ==
  /\ server = "failed" /\ Len(tokens) < ChanSize
  /\ tokens' = Append(tokens, Mark) /\ server' = "closed"
  /\ UNCHANGED <<provider, remote, body, wire, page>>

\* The handler writes a token as one line, newlines escaped; a line arrives in two
\* pieces at worst.  When the channel is closed and empty it writes the last line.
Halves(token) == <<[half |-> 1, token |-> token], [half |-> 2, token |-> token]>>

ForwardToken ==
  /\ tokens # <<>>
  /\ wire' = IF Gone THEN wire ELSE wire \o Halves(Head(tokens))
  /\ tokens' = Tail(tokens)
  /\ UNCHANGED <<provider, remote, body, server, page>>

HandlerEnds ==
  /\ tokens = <<>> /\ server = "closed"
  /\ server' = "answered"
  /\ wire' = IF Gone THEN wire ELSE wire \o Halves(Done)
  /\ UNCHANGED <<provider, remote, body, tokens, page>>

-----------------------------------------------------------------------------
\* The page reads n pieces; the lines they complete are shown, but for the line after
\* the last token, and the rest is kept.
Spoken(lines) == IF lines # <<>> /\ Last(lines) = Done THEN Front(lines) ELSE lines
Whole(pieces) == [i \in 1..Len(pieces) \div 2 |-> pieces[2 * i].token]

PageReads(n) ==
  /\ page.pc = "reading" /\ n <= Len(wire)
  /\ LET got == page.kept \o SubSeq(wire, 1, n)
     IN  page' = [page EXCEPT !.kept = IF Len(got) % 2 = 1 THEN <<Last(got)>> ELSE <<>>,
                              !.text = @ \o Spoken(Whole(got))]
  /\ wire' = SubSeq(wire, n + 1, Len(wire))
  /\ UNCHANGED <<provider, remote, body, tokens, server>>

PageEnds ==
  /\ page.pc = "reading" /\ server = "answered" /\ wire = <<>>
  /\ page' = [page EXCEPT !.pc = "idle"]
  /\ UNCHANGED <<provider, remote, body, tokens, server, wire>>

PageCloses ==
  /\ page.pc = "reading"
  /\ page' = [page EXCEPT !.pc = "closed"] /\ wire' = <<>>
  /\ UNCHANGED <<provider, remote, body, tokens, server>>

ChatNext ==
  \/ Call \/ (\E line \in BOOLEAN : ProviderSends(line))
  \/ (\E how \in {"done", "error", "cut"} : ProviderEnds(how))
  \/ ReadLine \/ ReadEnds \/ ReportError \/ ForwardToken \/ HandlerEnds
  \/ (\E n \in 1..2 * ChanSize + 2 : PageReads(n)) \/ PageEnds \/ PageCloses

\* The goroutine, the handler and the page go on when they can; the HTTP client gives a
\* provider two minutes, and cuts it.
ChatFairness ==
  /\ WF_chatVars(ReadLine) /\ WF_chatVars(ReadEnds) /\ WF_chatVars(ReportError)
  /\ WF_chatVars(ForwardToken) /\ WF_chatVars(HandlerEnds) /\ WF_chatVars(ProviderEnds("cut"))
  /\ WF_chatVars(\E n \in 1..2 * ChanSize + 2 : PageReads(n)) /\ WF_chatVars(PageEnds)

ChatSpec == ChatInit /\ [][ChatNext]_chatVars /\ ChatFairness

-----------------------------------------------------------------------------
ChatTypeOK ==
  /\ server \in {"calling", "reading", "failed", "closed", "answered"}
  /\ Len(tokens) <= ChanSize /\ Len(page.kept) <= 1
  /\ remote.ends \in {"open", "done", "error", "refused", "cut"}

\* The text shown is the answer from its first token on, in order and nothing twice,
\* with the report of an error, if any, at its end; and when the page stops reading
\* without one, the answer is whole: every token that the provider sent is there,
\* wherever the pieces ended and whichever of goroutine, handler and page was slow.
AnswerWholeOrMarked ==
  LET marked == page.text # <<>> /\ Last(page.text) = Mark
      said == IF marked THEN Len(page.text) - 1 ELSE Len(page.text)
  IN  /\ said <= remote.tokens /\ \A i \in 1..said : page.text[i] = i
      /\ page.pc = "idle" /\ ~marked => said = remote.tokens

\* What the page has of the answer, and how the answer ends for it.
Marked == page.text # <<>> /\ Last(page.text) = Mark
ChatHas == IF Marked THEN Front(page.text) ELSE page.text
ChatEnding ==
  CASE Marked -> "broken"
    [] ~Marked /\ page.pc = "idle" -> "whole"
    [] ~Marked /\ page.pc = "closed" -> "left"
    [] ~Marked /\ page.pc = "reading" -> "open"

\* To its page an answer is a delivery of the tokens of the provider, broken when an
\* error is reported.
ChatDelivery == INSTANCE Delivery WITH made <- remote.tokens, has <- ChatHas, ending <- ChatEnding
AnswerDelivers == ChatDelivery!Spec

\* Whatever the provider does, the request ends once it has been sent, and with it the
\* goroutine, which never waits for room in a channel that nobody reads.
ChatEnds == server # "calling" ~> server = "answered" /\ page.pc # "reading"
=============================================================================
