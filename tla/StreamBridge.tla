----------------------------- MODULE StreamBridge -----------------------------
(***************************************************************************)
(* One streamed generation on its way from the inference backend to the    *)
(* client: handleCompatibility (internal/httpapi), the goroutine of        *)
(* translateChatStream and translateGenerateStream (internal/llamacpp)     *)
(* that turns server-sent events into NDJSON behind an io.Pipe, and the    *)
(* pass-through of the Ollama proxy (internal/ollama).                     *)
(*                                                                         *)
(* Covered: the handler, the translator goroutine, the backend, the client *)
(* and the request's context as five participants; the deadline, the       *)
(* client leaving and the backend breaking off at any moment; a backend    *)
(* that refuses the request, stays silent or ends without a finish.        *)
(*                                                                         *)
(* Abstracted: a line is its kind, a chunk its kind and the line it came   *)
(* from; one Read takes one chunk.  The backend follows its protocol:      *)
(* after the finish only noise and [DONE] follow.                          *)
(***************************************************************************)
EXTENDS Naturals, Sequences, SequencesExt

CONSTANT MaxLines   \* bound: lines the backend sends
ASSUME MaxLinesAssumption == MaxLines \in Nat

VARIABLES
  bridge,      \* which code carries the response
  sent,        \* lines the backend has sent
  taken,       \* how many of them have been read from its body
  upstream,    \* the backend's side of the connection
  ctx,         \* context.WithTimeout of the request
  translator,  \* the goroutine: pc, chunks still to write, its done flag
  pipe,        \* the two ends of the io.Pipe
  handler,     \* handleCompatibility: pc and the chunk in its buffer
  client       \* what the client has seen, and whether it is still there

vars == <<bridge, sent, taken, upstream, ctx, translator, pipe, handler, client>>

-----------------------------------------------------------------------------
(* noise: blank, comment, another field, or a chunk without choices.         *)
Lines  == {"noise", "text", "finish", "text+finish", "tool", "garbage", "[DONE]"}
Ending == {"finish", "text+finish"}
Chunks == [kind : {"text", "done", "error", "raw"}, at : 0..(MaxLines + 1)]

Chunk(kind, at) == [kind |-> kind, at |-> at]
Nothing         == <<>>
Goroutine       == [pc |-> "none", out |-> Nothing, done |-> FALSE, returns |-> FALSE]

Init ==
  /\ bridge \in {"chat", "generate", "direct"}
  /\ sent = <<>>
  /\ taken = 0
  /\ upstream = "open"
  /\ ctx = "live"
  /\ translator = Goroutine
  /\ pipe = [writer |-> "open", reader |-> "open"]
  /\ handler = [pc |-> "calling", buffer |-> Nothing]
  /\ client = [connected |-> TRUE, status |-> "none", got |-> <<>>]

-----------------------------------------------------------------------------
(* The world: backend, client and clock.                                     *)
UpstreamSends(line) ==
  /\ handler.pc # "calling"
  /\ upstream = "open"
  /\ ctx = "live"
  /\ Len(sent) < MaxLines
  /\ ~Contains(sent, "[DONE]")
  /\ \A kind \in Ending : Contains(sent, kind) => line \in {"noise", "[DONE]"}
  /\ sent' = Append(sent, line)
  /\ UNCHANGED <<bridge, taken, upstream, ctx, translator, pipe, handler, client>>

(* The body ends, or the connection breaks.                                  *)
UpstreamStops ==
  /\ handler.pc # "calling"
  /\ upstream = "open"
  /\ ctx = "live"
  /\ upstream' \in {"ended", "broken"}
  /\ UNCHANGED <<bridge, sent, taken, ctx, translator, pipe, handler, client>>

DeadlinePasses ==
  /\ ctx = "live"
  /\ ctx' = "deadline"
  /\ UNCHANGED <<bridge, sent, taken, upstream, translator, pipe, handler, client>>

(* The server cancels the context of a request whose client is gone.         *)
ClientLeaves ==
  /\ client.connected
  /\ client' = [client EXCEPT !.connected = FALSE]
  /\ ctx' = IF ctx = "live" THEN "canceled" ELSE ctx
  /\ UNCHANGED <<bridge, sent, taken, upstream, translator, pipe, handler>>

-----------------------------------------------------------------------------
(* handleCompatibility.                                                      *)
Respond(status) == client' = [client EXCEPT !.status = status]

(* Do returns a 2xx response: the translator goroutine starts.               *)
UpstreamAnswers ==
  /\ handler.pc = "calling"
  /\ handler' = [handler EXCEPT !.pc = "read"]
  /\ translator' = IF bridge = "direct" THEN translator
                   ELSE [translator EXCEPT !.pc = "scan"]
  /\ Respond("200")
  /\ UNCHANGED <<bridge, sent, taken, upstream, ctx, pipe>>

(* Any other answer of llama.cpp is passed on as it is.                      *)
UpstreamRefuses ==
  /\ handler.pc = "calling"
  /\ bridge # "direct"
  /\ bridge' = "direct"
  /\ handler' = [handler EXCEPT !.pc = "read"]
  /\ Respond("refused")
  /\ UNCHANGED <<sent, taken, upstream, ctx, translator, pipe>>

(* Do returns an error: the connection's or the context's own.               *)
CallFails ==
  /\ handler.pc = "calling"
  /\ handler' = [handler EXCEPT !.pc = "returned"]
  /\ Respond(IF ctx = "deadline" THEN "504" ELSE "502")
  /\ ctx' = IF ctx = "live" THEN "canceled" ELSE ctx
  /\ UNCHANGED <<bridge, sent, taken, upstream, translator, pipe>>

(* Mutant: of the chunks of a line only the last is read.                    *)
ReadPipeOnce ==
  /\ handler.pc = "read"
  /\ translator.pc = "write"
  /\ handler' = [pc |-> "write", buffer |-> <<Last(translator.out)>>]
  /\ translator' = [translator EXCEPT
                     !.out = Nothing,
                     !.pc  = IF translator.returns THEN "close writer" ELSE "scan"]
  /\ UNCHANGED <<bridge, sent, taken, upstream, ctx, pipe, client>>

(* io.CopyBuffer reads: the chunk the translator is blocked on.              *)
ReadPipe ==
  /\ handler.pc = "read"
  /\ translator.pc = "write"
  /\ handler' = [pc |-> "write", buffer |-> <<Head(translator.out)>>]
  /\ translator' = [translator EXCEPT
                     !.out = Tail(@),
                     !.pc  = IF Len(translator.out) > 1 THEN "write"
                             ELSE IF translator.returns THEN "close writer" ELSE "scan"]
  /\ UNCHANGED <<bridge, sent, taken, upstream, ctx, pipe, client>>

(* The end of the pipe and its error are treated alike: the error is logged. *)
ReadPipeEnds ==
  /\ handler.pc = "read"
  /\ bridge # "direct"
  /\ pipe.writer # "open"
  /\ handler' = [handler EXCEPT !.pc = "close body"]
  /\ UNCHANGED <<bridge, sent, taken, upstream, ctx, translator, pipe, client>>

(* The handler copies the backend's own body: the Ollama proxy, or a refusal. *)
ReadBody ==
  /\ handler.pc = "read"
  /\ bridge = "direct"
  /\ taken < Len(sent)
  /\ taken' = taken + 1
  /\ handler' = [pc |-> "write", buffer |-> <<Chunk("raw", taken + 1)>>]
  /\ UNCHANGED <<bridge, sent, upstream, ctx, translator, pipe, client>>

AtEnd == taken = Len(sent) /\ upstream = "ended"
Cut   == upstream = "broken" \/ ctx # "live"

ReadBodyEnds ==
  /\ handler.pc = "read"
  /\ bridge = "direct"
  /\ AtEnd \/ Cut
  /\ handler' = [handler EXCEPT !.pc = "close body"]
  /\ UNCHANGED <<bridge, sent, taken, upstream, ctx, translator, pipe, client>>

(* flushingWriter: every chunk is flushed.  A write to a client that is gone *)
(* may still be taken by a buffer.                                           *)
WriteClient ==
  /\ handler.pc = "write"
  /\ client' = IF client.connected
               THEN [client EXCEPT !.got = @ \o handler.buffer] ELSE client
  /\ handler' = [pc |-> "read", buffer |-> Nothing]
  /\ UNCHANGED <<bridge, sent, taken, upstream, ctx, translator, pipe>>

WriteClientFails ==
  /\ handler.pc = "write"
  /\ ~client.connected
  /\ handler' = [pc |-> "close body", buffer |-> Nothing]
  /\ UNCHANGED <<bridge, sent, taken, upstream, ctx, translator, pipe, client>>

(* Mutant: the response body is not closed.                                  *)
BodyLeftOpen ==
  /\ handler.pc = "close body"
  /\ handler' = [handler EXCEPT !.pc = "cancel"]
  /\ UNCHANGED <<bridge, sent, taken, upstream, ctx, translator, pipe, client>>

(* The deferred calls: response.Body.Close, then cancel.                     *)
CloseBody ==
  /\ handler.pc = "close body"
  /\ handler' = [handler EXCEPT !.pc = "cancel"]
  /\ pipe' = [pipe EXCEPT !.reader = "closed"]
  /\ UNCHANGED <<bridge, sent, taken, upstream, ctx, translator, client>>

CancelAndReturn ==
  /\ handler.pc = "cancel"
  /\ handler' = [handler EXCEPT !.pc = "returned"]
  /\ ctx' = IF ctx = "live" THEN "canceled" ELSE ctx
  /\ UNCHANGED <<bridge, sent, taken, upstream, translator, pipe, client>>

-----------------------------------------------------------------------------
(* The translator goroutine.                                                 *)
Translating == UNCHANGED <<bridge, sent, upstream, ctx, handler, client>>

(* The scanner delivers the next line, of one of these kinds.                *)
Scan(kinds) ==
  /\ translator.pc = "scan"
  /\ taken < Len(sent)
  /\ sent[taken + 1] \in kinds
  /\ taken' = taken + 1
  /\ Translating

Write(chunks, done, returns) ==
  translator' = [pc |-> "write", out |-> chunks, done |-> done, returns |-> returns]

(* A completion chunk has no tool calls to look at.                          *)
SkipLine ==
  /\ Scan({"noise"} \cup IF bridge = "generate" THEN {"tool"} ELSE {})
  /\ UNCHANGED <<translator, pipe>>

(* Mutant: a line with a finish reason is not searched for text.             *)
FinishFirst ==
  /\ Scan({"text", "finish", "text+finish"})
  /\ IF sent[taken'] = "text"
     THEN Write(<<Chunk("text", taken')>>, translator.done, FALSE)
     ELSE Write(<<Chunk("done", taken')>>, TRUE, FALSE)
  /\ UNCHANGED pipe

TranslateLine ==
  /\ Scan({"text", "finish", "text+finish"})
  /\ LET text   == IF sent[taken'] # "finish" THEN <<Chunk("text", taken')>> ELSE <<>>
         finish == IF sent[taken'] # "text"   THEN <<Chunk("done", taken')>> ELSE <<>>
     IN  Write(text \o finish, translator.done \/ finish # <<>>, FALSE)
  /\ UNCHANGED pipe

RefuseToolCall ==
  /\ bridge = "chat"
  /\ Scan({"tool"})
  /\ Write(<<Chunk("error", taken')>>, translator.done, TRUE)
  /\ UNCHANGED pipe

CloseWithError ==
  /\ pipe' = [pipe EXCEPT !.writer = "error"]
  /\ translator' = [translator EXCEPT !.pc = "close writer", !.out = Nothing]

RefuseGarbage == Scan({"garbage"}) /\ CloseWithError

(* What the client is told when the backend never said it was done.          *)
FinishFor(at) ==
  IF translator.done
  THEN translator' = [translator EXCEPT !.pc = "close writer"]
  ELSE Write(<<Chunk("done", at)>>, translator.done, TRUE)

(* Mutant: [DONE] is translated even after a finish.                         *)
TranslateEveryDone ==
  /\ Scan({"[DONE]"})
  /\ Write(<<Chunk("done", taken')>>, translator.done, TRUE)
  /\ UNCHANGED pipe

TranslateDone ==
  /\ Scan({"[DONE]"})
  /\ FinishFor(taken')
  /\ UNCHANGED pipe

ScanEnds ==
  /\ translator.pc = "scan"
  /\ AtEnd
  /\ FinishFor(taken + 1)
  /\ UNCHANGED <<taken, pipe>>
  /\ Translating

(* Mutant: scanner.Err is not looked at.                                     *)
ScanErrorIgnored ==
  /\ translator.pc = "scan"
  /\ Cut
  /\ FinishFor(taken + 1)
  /\ UNCHANGED <<taken, pipe>>
  /\ Translating

(* A broken connection, a line too long, or a context that ended.            *)
ScanFails ==
  /\ translator.pc = "scan"
  /\ Cut
  /\ CloseWithError
  /\ UNCHANGED taken
  /\ Translating

(* The handler has closed its end of the pipe.                               *)
WriteFails ==
  /\ translator.pc = "write"
  /\ pipe.reader = "closed"
  /\ CloseWithError
  /\ UNCHANGED taken
  /\ Translating

(* The deferred calls: writer.Close, which keeps an earlier error, and then  *)
(* the Close of the backend's body.                                          *)
CloseWriter ==
  /\ translator.pc = "close writer"
  /\ translator' = [translator EXCEPT !.pc = "close body"]
  /\ pipe' = [pipe EXCEPT !.writer = IF @ = "open" THEN "closed" ELSE @]
  /\ UNCHANGED taken
  /\ Translating

CloseUpstream ==
  /\ translator.pc = "close body"
  /\ translator' = [translator EXCEPT !.pc = "exited"]
  /\ UNCHANGED <<taken, pipe>>
  /\ Translating

-----------------------------------------------------------------------------
HandlerSteps ==
  \/ ReadPipe \/ ReadPipeEnds \/ ReadBody \/ ReadBodyEnds
  \/ CloseBody \/ CancelAndReturn \/ WriteClientFails

TranslatorSteps ==
  \/ SkipLine \/ TranslateLine \/ RefuseToolCall \/ RefuseGarbage \/ TranslateDone
  \/ ScanEnds \/ ScanFails \/ WriteFails \/ CloseWriter \/ CloseUpstream

Environment ==
  \/ \E line \in Lines : UpstreamSends(line)
  \/ UpstreamStops \/ DeadlinePasses \/ ClientLeaves

Next ==
  \/ UpstreamAnswers \/ UpstreamRefuses \/ CallFails \/ WriteClient
  \/ HandlerSteps \/ TranslatorSteps \/ Environment

Spec == Init /\ [][Next]_vars

(* Go schedules both goroutines, a call ends when its context does and a     *)
(* write to the client completes while the client reads.  The backend owes   *)
(* nothing: it may be silent for ever.                                       *)
GoSpec ==
  /\ Spec
  /\ WF_vars(HandlerSteps)
  /\ WF_vars(TranslatorSteps)
  /\ WF_vars(ctx # "live" /\ CallFails)
  /\ WF_vars(WriteClient)

-----------------------------------------------------------------------------
Workers  == [pc : {"none", "scan", "write", "close writer", "close body", "exited"},
             out : Seq(Chunks), done : BOOLEAN, returns : BOOLEAN]
Pipes    == [writer : {"open", "closed", "error"}, reader : {"open", "closed"}]
Handlers == [pc : {"calling", "read", "write", "close body", "cancel", "returned"},
             buffer : Seq(Chunks)]
Clients  == [connected : BOOLEAN, got : Seq(Chunks),
             status : {"none", "200", "refused", "502", "504"}]

\* Every variable keeps its type.
TypeOK ==
  /\ bridge \in {"chat", "generate", "direct"}
  /\ sent \in Seq(Lines) /\ Len(sent) <= MaxLines
  /\ taken \in 0..Len(sent)
  /\ upstream \in {"open", "ended", "broken"}
  /\ ctx \in {"live", "deadline", "canceled"}
  /\ translator \in Workers
  /\ pipe \in Pipes
  /\ handler \in Handlers
  /\ client \in Clients

(* The lines among the first n that hold a piece of the answer, and the lines  *)
(* whose pieces some chunks carry.                                             *)
Pieces(n)      == {i \in 1..n : bridge = "direct" \/ sent[i] \in {"text", "text+finish"}}
Carries(chunk) == chunk.kind \in {"text", "raw"}
Carried(chunks) == {chunks[i].at : i \in {i \in DOMAIN chunks : Carries(chunks[i])}}
InOrder(chunks) ==
  \A i, j \in DOMAIN chunks :
    i < j /\ Carries(chunks[i]) /\ Carries(chunks[j]) => chunks[i].at < chunks[j].at
ToldDone == \E i \in DOMAIN client.got : client.got[i].kind = "done"

(* Between the backend's body, the goroutine's pending chunks, the handler's  *)
(* buffer and the client no piece is lost, repeated or overtaken, and a client *)
(* whose stream breaks off holds the beginning of the answer                   *)
(* (client.go:632-687, server.go:356-362).                                     *)
NothingLost ==
  /\ InOrder(client.got) /\ Carried(client.got) \subseteq Pieces(taken)
  /\ \A i \in Pieces(taken), j \in Carried(client.got) : i < j => i \in Carried(client.got)
  /\ client.connected /\ handler.pc \in {"read", "write"} =>
       LET stream == client.got \o handler.buffer \o translator.out
       IN  InOrder(stream) /\ Carried(stream) = Pieces(taken)

(* A client that is told done has every piece the backend ever sent, was told *)
(* only once and receives nothing after it (client.go:638-645, 680-694).       *)
DoneMeansComplete ==
  ToldDone =>
    /\ Carried(client.got) = Pieces(Len(sent))
    /\ \A i \in DOMAIN client.got :
         client.got[i].kind = "done" => i = Len(client.got)

(* The end of a stream that was cut, by the backend, the deadline or a tool    *)
(* call, is never presented as the end of the answer (client.go:658-669,       *)
(* 688-691).                                                                   *)
CutIsNotDone ==
  ToldDone =>
    \/ upstream = "ended"
    \/ \E i \in 1..taken : sent[i] \in Ending \cup {"[DONE]"}

(* The bridge implements the relay.                                            *)
Relay == INSTANCE StreamRelay WITH
  MaxPieces <- MaxLines,
  offered   <- Pieces(Len(sent)),
  said      <- upstream = "ended" \/
               (bridge # "direct" /\ \E kind \in Ending \cup {"[DONE]"} : Contains(sent, kind)),
  got       <- Carried(client.got),
  end       <- IF handler.pc # "returned" THEN "open"
               ELSE IF IF bridge = "direct" THEN AtEnd /\ Len(client.got) = taken
                                           ELSE ToldDone
                    THEN "complete" ELSE "cut"

ImplementsRelay == Relay!Spec

(* The handler and the goroutine are both gone.                                *)
Over == handler.pc = "returned" /\ translator.pc \in {"none", "exited"}

(* Once the context of a request has ended, by the deadline, by a client that  *)
(* left or by the handler returning, handler and goroutine both come to their  *)
(* end, whatever the backend does or fails to do: no goroutine and no backend  *)
(* connection is left behind (server.go:333-350, client.go:626-628,            *)
(* docs/ARCHITECTURE.md:109).                                                  *)
EndedContextEndsStream == ctx # "live" ~> Over
=============================================================================
