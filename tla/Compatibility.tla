---------------------------- MODULE Compatibility ----------------------------
(***************************************************************************)
(* One request to the HTTP API (internal/httpapi) of a service with any    *)
(* configuration it starts with, up to its answer or the start of its      *)
(* stream: the gates of every handler, the readiness probe, and for the    *)
(* Ollama compatibility routes the llama.cpp adapter (internal/llamacpp),  *)
(* which decodes, refuses or translates, or the Ollama proxy               *)
(* (internal/ollama), which forwards the body unread.                      *)
(*                                                                         *)
(* Covered: the order of the checks; the deadline passing or the client    *)
(* leaving at any moment; a body over the limit, declared or chunked; a    *)
(* backend that fails, refuses, or answers with something unusable.        *)
(*                                                                         *)
(* Abstracted: a body is whether it decodes, whose model it names, which   *)
(* text fields it fills in and the features it asks for; one route stands  *)
(* for the routes the code treats alike ("tags": tags, ps and version;     *)
(* "pull": the mutations; "facts": what GET shows under /v1; "plan":       *)
(* route, placement, admission and benchmark-plan, whose results Routing,  *)
(* Placement and Admission have).  StreamBridge has what follows the start *)
(* of a stream.                                                            *)
(***************************************************************************)
EXTENDS Naturals, Sequences, FiniteSetsExt, Configuration

CONSTANTS
  MaxFeatures,  \* bound: features one request asks for
  None          \* no body, nothing forwarded, no answer
ASSUME MaxFeaturesAssumption == MaxFeatures \in Nat

VARIABLES
  config,     \* backend, whether a token is set, mutation policy, exposure
  request,    \* route, method, token and size as the gates see them
  pc,         \* where the handler is
  body,       \* the decoded body
  ctx,        \* the request's context with UpstreamTimeout
  forwarded,  \* what reached the backend
  upstream,   \* what the backend answered
  answer      \* status sent to the client

vars == <<config, request, pc, body, ctx, forwarded, upstream, answer>>

-----------------------------------------------------------------------------
Embedding == {"embed", "embeddings"}
Decoded   == {"chat", "generate", "show"} \cup Embedding
Ollama    == Decoded \cup {"tags", "pull"}
Probes    == {"health", "ready"}
Native    == {"facts", "plan", "calibrate"}
Routes    == Ollama \cup Probes \cup Native \cup {"unlisted"}
(* What the service was started with; an embedder may pass it no backend.     *)
Configs   == UNION {{[backend |-> b, token |-> c.token, mutation |-> c.mutation,
                      exposed |-> Exposed(c.listen)] : b \in {c.backend, "none"}} :
                    c \in {c \in Loaded : Binds(c.listen)}}
Requests  == [route : Routes, method : BOOLEAN, token : BOOLEAN,
              size : {"fits", "declared", "chunked"}]
Features  == {"tools", "think", "format", "images", "role", "history",
              "safe_option", "other_option"}
Texts     == {"messages", "prompt", "input"}
Bodies    == [json : BOOLEAN, model : {"blank", "other", "configured"},
              text : SUBSET Texts, stream : BOOLEAN,
              features : {f \in SUBSET Features : Cardinality(f) <= MaxFeatures}]
(* The text fields the struct of a route decodes.                             *)
Written(route) ==
  CASE route = "chat"      -> {"messages"}
    [] route = "generate"  -> {"prompt"}
    [] route \in Embedding -> {"prompt", "input"}
    [] OTHER               -> {}
(* The features the Ollama API has on a route.                                *)
Offered(route) ==
  CASE route = "chat"        -> Features
    [] route = "generate"    -> {"think", "format", "images", "safe_option", "other_option"}
    [] route \in Embedding   -> {"safe_option", "other_option"}
    [] OTHER                 -> {}
Statuses  == {200, 400, 401, 403, 404, 405, 413, 422, 500, 501, 502, 503, 504, 599}
ASSUME NoneAssumption == None \notin Statuses

Init ==
  /\ config \in Configs
  /\ request \in Requests
  /\ pc = "gates"
  /\ body = None
  /\ ctx = "live"
  /\ forwarded = None
  /\ upstream = "silent"
  /\ answer = None

-----------------------------------------------------------------------------
DeadlinePasses ==
  /\ pc \notin {"gates", "native", "answered"}
  /\ ctx = "live"
  /\ ctx' = "deadline"
  /\ UNCHANGED <<config, request, pc, body, forwarded, upstream, answer>>

ClientLeaves ==
  /\ pc # "answered"
  /\ ctx = "live"
  /\ ctx' = "canceled"
  /\ UNCHANGED <<config, request, pc, body, forwarded, upstream, answer>>

Answer(status) == answer' = status /\ pc' = "answered"

(* The status of the first check that fails, 0 if none does.                 *)
First(checks) ==
  LET failed == {i \in DOMAIN checks : checks[i].fails}
  IN  IF failed = {} THEN 0 ELSE checks[Min(failed)].status

Check(status, fails) == [status |-> status, fails |-> fails]

(* authorized: no token is configured, or the request carries it.            *)
Authorized == config.token => request.token

(* Mutant: the probes and the Ollama routes are open to everybody.           *)
GatesWithoutToken ==
  <<Check(404, request.route = "unlisted"),
    Check(405, ~request.method),
    Check(401, request.route \in Native /\ ~Authorized),
    Check(403, request.route = "pull" /\ ~config.mutation),
    Check(503, request.route \in Ollama \cup {"ready"} /\ config.backend = "none"),
    Check(413, request.route \in Ollama \cup {"plan"} /\ request.size = "declared")>>

Gates ==
  <<Check(404, request.route = "unlisted"),
    Check(405, ~request.method),
    Check(401, request.route \notin Probes /\ ~Authorized),
    Check(403, request.route = "pull" /\ ~config.mutation),
    Check(503, request.route \in Ollama \cup {"ready"} /\ config.backend = "none"),
    Check(413, request.route \in Ollama \cup {"plan"} /\ request.size = "declared")>>

PassGates ==
  /\ pc = "gates"
  /\ IF First(Gates) # 0 THEN Answer(First(Gates))
     ELSE /\ pc' = CASE request.route \in Ollama -> config.backend
                      [] request.route = "ready"  -> "probe"
                      [] OTHER                    -> "native"
          /\ UNCHANGED answer
  /\ UNCHANGED <<config, request, body, ctx, forwarded, upstream>>

(* The handlers that ask no backend.  What a GET shows may be unknown or not  *)
(* validate.                                                                   *)
AnswerFacts ==
  /\ pc = "native"
  /\ request.route \in {"health", "facts"}
  /\ \E status \in {200} \cup IF request.route = "facts" THEN {404, 500} ELSE {} :
       Answer(status)
  /\ UNCHANGED <<config, request, body, ctx, forwarded, upstream>>

AnswerCalibration ==
  /\ pc = "native"
  /\ request.route = "calibrate"
  /\ \E status \in {200, 500} : Answer(status)
  /\ UNCHANGED <<config, request, body, ctx, forwarded, upstream>>

(* Refused for its body, an unknown name, no backend that fits, or a host     *)
(* that does not validate.                                                    *)
AnswerPlan ==
  /\ pc = "native"
  /\ request.route = "plan"
  /\ \E status \in {200, 400, 404, 422, 500} : Answer(status)
  /\ UNCHANGED <<config, request, body, ctx, forwarded, upstream>>

(* Ready of either backend, under a deadline of 3 s.                          *)
Probe ==
  /\ pc = "probe"
  /\ forwarded' = IF ctx = "live"
                  THEN [to |-> config.backend, text |-> {}, features |-> {}, headers |-> {}]
                  ELSE None
  /\ pc' = "call"
  /\ UNCHANGED <<config, request, body, ctx, upstream, answer>>

-----------------------------------------------------------------------------
(* The llama.cpp adapter.                                                     *)

(* tags, ps and version are made up from the configuration; a mutation is    *)
(* refused even if the policy allows it.                                      *)
AnswerLocally ==
  /\ pc = "llama.cpp"
  /\ request.route \notin Decoded
  /\ Answer(IF request.route = "pull" THEN 501 ELSE 200)
  /\ UNCHANGED <<config, request, body, ctx, forwarded, upstream>>

(* decodeRequest: a body cut off by MaxBytesReader does not decode.          *)
ReadBody ==
  /\ pc = "llama.cpp"
  /\ request.route \in Decoded
  /\ body' \in {b \in Bodies : /\ request.size = "chunked" => ~b.json
                               /\ b.text \subseteq Written(request.route)
                               /\ b.features \subseteq Offered(request.route)}
  /\ pc' = "translate"
  /\ UNCHANGED <<config, request, ctx, forwarded, upstream, answer>>

Asks(feature) == feature \in body.features

(* validateRequestedModel, after decoding.                                    *)
Identity ==
  <<Check(400, ~body.json),
    Check(400, body.model = "blank"),
    Check(404, body.model = "other")>>

ChatChecks ==
  <<Check(400, "messages" \notin body.text),
    Check(422, Asks("tools")),
    Check(422, Asks("think")),
    Check(422, Asks("format")),
    Check(422, Asks("role") \/ Asks("images") \/ Asks("history")),
    Check(422, Asks("other_option"))>>

(* Mutant: images are looked for in chats alone.                              *)
GenerateChecksWithoutImages ==
  <<Check(422, Asks("format")),
    Check(422, Asks("other_option"))>>

(* A think is not in the struct, so it is not seen.                           *)
GenerateChecks ==
  <<Check(422, Asks("images")),
    Check(422, Asks("format")),
    Check(422, Asks("other_option"))>>

(* Neither route looks at the text field of the other.                        *)
EmbeddingChecks ==
  <<Check(422, Asks("safe_option") \/ Asks("other_option")),
    Check(400, request.route = "embed" /\ "input" \notin body.text)>>

Refusal ==
  First(Identity \o CASE request.route = "chat"       -> ChatChecks
                      [] request.route = "generate"   -> GenerateChecks
                      [] request.route \in Embedding  -> EmbeddingChecks
                      [] OTHER                        -> <<>>)

Refuse ==
  /\ pc = "translate"
  /\ Refusal # 0
  /\ Answer(Refusal)
  /\ UNCHANGED <<config, request, body, ctx, forwarded, upstream>>

Show ==
  /\ pc = "translate"
  /\ Refusal = 0
  /\ request.route = "show"
  /\ Answer(200)
  /\ UNCHANGED <<config, request, body, ctx, forwarded, upstream>>

(* The text field of which the payload is made; a missing prompt is empty.    *)
TextOf(route) ==
  CASE route = "chat"  -> "messages"
    [] route = "embed" -> "input"
    [] OTHER           -> "prompt"

(* What newRequest carries: one text, of the features only the three safe    *)
(* options, and none of the client's headers.                                 *)
Payload == [to |-> "llama.cpp", text |-> body.text \cap {TextOf(request.route)},
            features |-> body.features \cap {"safe_option"}, headers |-> {}]

(* The transport sends nothing for a context that has ended.                 *)
Forward ==
  /\ pc = "translate"
  /\ Refusal = 0
  /\ request.route # "show"
  /\ forwarded' = IF ctx = "live" THEN Payload ELSE None
  /\ pc' = "call"
  /\ UNCHANGED <<config, request, body, ctx, upstream, answer>>

-----------------------------------------------------------------------------
(* copyRequestHeaders, of a request with one header of every sort.           *)
Headers == {"other", "hop-by-hop", "Cookie", "Forwarded"}
             \cup IF request.token THEN {"Authorization"} ELSE {}
Copied  == Headers \ {"hop-by-hop", "Cookie", "Forwarded", "Authorization"}

(* The Ollama proxy: method, path, query and body as they are, all unread.   *)
ProxyForward ==
  /\ pc = "ollama"
  /\ forwarded' = IF ctx = "live"
                  THEN [to |-> "ollama", text |-> {}, features |-> {}, headers |-> Copied]
                  ELSE None
  /\ pc' = "call"
  /\ UNCHANGED <<config, request, body, ctx, upstream, answer>>

(* The status of an error of Do, or of Ready.                                 *)
ErrorStatus ==
  IF request.route = "ready" THEN 503
  ELSE IF ctx = "deadline" THEN 504 ELSE 502

(* Mutant: the request is built without the context.                          *)
CallFailsDetached ==
  /\ pc = "call"
  /\ ctx = "live"
  /\ upstream' = "failed"
  /\ Answer(ErrorStatus)
  /\ UNCHANGED <<config, request, body, ctx, forwarded>>

(* Do fails: the connection, or the context.                                  *)
CallFails ==
  /\ pc = "call"
  /\ upstream' = "failed"
  /\ Answer(ErrorStatus)
  /\ UNCHANGED <<config, request, body, ctx, forwarded>>

(* The proxied body turns out to be over the limit.                           *)
ProxyBodyTooLarge ==
  /\ pc = "call"
  /\ forwarded # None
  /\ config.backend = "ollama"
  /\ request.size = "chunked"
  /\ upstream' = "failed"
  /\ Answer(413)
  /\ UNCHANGED <<config, request, body, ctx, forwarded>>

(* A status of the backend's own is passed on, 599 standing for any failure; *)
(* a probe reports it as one of its own.                                      *)
BackendRefuses ==
  /\ pc = "call"
  /\ forwarded # None
  /\ upstream' = "refused"
  /\ Answer(IF request.route = "ready" THEN 503 ELSE 599)
  /\ UNCHANGED <<config, request, body, ctx, forwarded>>

(* A stream is asked of the adapter; the proxy does not look.                 *)
Streamed == request.route \in {"chat", "generate"} /\ body # None /\ body.stream

(* 2xx: proxied, or the goroutine of a translated stream is started, or ready. *)
BackendStreams ==
  /\ pc = "call"
  /\ forwarded # None
  /\ \/ config.backend = "ollama"
     \/ request.route = "ready"
     \/ Streamed
  /\ upstream' = "answered"
  /\ Answer(200)
  /\ UNCHANGED <<config, request, body, ctx, forwarded>>

(* 2xx to be decoded whole; "empty" has no choice, or no vector, in it, and   *)
(* in a "tool_call" the adapter sees a choice without text.                   *)
BackendAnswers ==
  /\ pc = "call"
  /\ forwarded # None
  /\ config.backend = "llama.cpp"
  /\ request.route # "ready"
  /\ ~Streamed
  /\ upstream' \in {"answered", "empty", "malformed"}
                    \cup IF request.route = "chat" THEN {"tool_call"} ELSE {}
  /\ pc' = "decode"
  /\ UNCHANGED <<config, request, body, ctx, forwarded, answer>>

(* Mutant: an answer without a choice is a success.                           *)
UnusableIfMalformed == upstream = "malformed"

(* translateChatResponse, translateGenerateResponse, doEmbeddings: /api/embed *)
(* alone takes no vector for an answer.                                       *)
Unusable ==
  \/ upstream = "malformed"
  \/ upstream = "empty" /\ request.route # "embed"

(* The end of the context may cut the body off.                               *)
DecodeAnswer ==
  /\ pc = "decode"
  /\ \E cut \in {FALSE, ctx # "live"} :
       Answer(IF cut \/ Unusable THEN ErrorStatus ELSE 200)
  /\ UNCHANGED <<config, request, body, ctx, forwarded, upstream>>

-----------------------------------------------------------------------------
Adapter == AnswerLocally \/ ReadBody \/ Refuse \/ Show \/ Forward \/ DecodeAnswer
Handler == PassGates \/ AnswerFacts \/ AnswerCalibration \/ AnswerPlan \/ Probe
             \/ Adapter \/ ProxyForward
Backend == CallFails \/ ProxyBodyTooLarge \/ BackendRefuses \/ BackendStreams
             \/ BackendAnswers

Next ==
  \/ PassGates \/ AnswerFacts \/ AnswerCalibration \/ AnswerPlan \/ Probe
  \/ AnswerLocally \/ ReadBody \/ Refuse \/ Show \/ Forward
  \/ ProxyForward \/ CallFails \/ ProxyBodyTooLarge \/ BackendRefuses
  \/ BackendStreams \/ BackendAnswers \/ DecodeAnswer
  \/ DeadlinePasses \/ ClientLeaves

Spec == Init /\ [][Next]_vars

(* The handler runs, the client sends its body, the deadline passes, and the *)
(* call ends with its context; the backend itself owes nothing.              *)
FairSpec ==
  /\ Spec
  /\ WF_vars(Handler)
  /\ WF_vars(DeadlinePasses)
  /\ WF_vars(CallFails /\ ctx # "live")

-----------------------------------------------------------------------------
Places    == {"gates", "native", "probe", "ollama", "llama.cpp", "translate", "call", "decode",
              "answered"}
Messages  == [to : {"ollama", "llama.cpp"}, text : SUBSET Texts,
              features : SUBSET {"safe_option"}, headers : SUBSET {"other"}]
Upstreams == {"silent", "failed", "refused", "answered", "empty", "malformed", "tool_call"}

\* Every variable keeps its type.
TypeOK ==
  /\ config \in Configs
  /\ request \in Requests
  /\ pc \in Places
  /\ body \in Bodies \cup {None}
  /\ ctx \in {"live", "deadline", "canceled"}
  /\ forwarded \in Messages \cup {None}
  /\ upstream \in Upstreams
  /\ answer \in Statuses \cup {None}

(* No request reaches a backend, and no body is read, unless it has passed    *)
(* every gate: a listed route and its method, the token, the mutation policy, *)
(* the declared size; no mutation reaches llama.cpp at all, a probe carries    *)
(* nothing of its request, and the client's token goes no further             *)
(* (server.go:304-328, client.go:159-162, proxy.go:171-185).                  *)
NothingSlipsThrough ==
  /\ request.route \in Ollama /\ (forwarded # None \/ body # None) =>
       /\ request.method
       /\ config.token => request.token
       /\ request.route = "pull" => config.mutation /\ config.backend = "ollama"
       /\ request.size # "declared"
  /\ request.route \notin Ollama => body = None /\ (forwarded # None => request.route = "ready")
  /\ forwarded # None => "Authorization" \notin forwarded.headers

(* However the environment is written, a service that other hosts can reach   *)
(* tells a request without the token nothing but whether it is alive and       *)
(* ready, reads none of its body and asks a backend nothing else for it        *)
(* (config.go:120-122, 141-152, server.go:369-380).                            *)
ExposedServiceIsGuarded ==
  config.exposed /\ ~request.token =>
    /\ body = None
    /\ forwarded # None => request.route = "ready"
    /\ answer = 200 => request.route \in Probes

(* What reaches llama.cpp was asked of its configured model, in a body within *)
(* the limit, and what the adapter cannot carry it refuses, but for what it    *)
(* does not look at: the think of /api/generate, against docs/API.md:215, and  *)
(* on an embedding route the text field of the other.  Only the routes that    *)
(* read a prompt are sent on without any text.  The tool call that a whole     *)
(* answer loses was not asked for (client.go:202-244, 280-300, 334-351,        *)
(* 461-500, 545-567).                                                          *)
UnsupportedIsRefused ==
  body # None /\ forwarded # None =>
    /\ body.json /\ body.model = "configured" /\ request.size = "fits"
    /\ body.features \subseteq
         forwarded.features \cup IF request.route = "generate" THEN {"think"} ELSE {}
    /\ body.text \subseteq
         forwarded.text \cup CASE request.route = "embed"      -> {"prompt"}
                               [] request.route = "embeddings" -> {"input"}
                               [] OTHER                        -> {}
    /\ forwarded.text = {} => request.route \in {"generate", "embeddings"}
    /\ upstream = "tool_call" => "tools" \notin body.features

(* A status tells who failed: 504 only after the deadline, 502 only with the  *)
(* deadline still ahead, every other refusal of the Runtime only if no backend *)
(* was asked, and a generation, an embedding or a probe succeeds only if the   *)
(* backend did (server.go:120-124, 335-349, client.go:257-259, 378-391,        *)
(* 562-567, 603-608).                                                           *)
StatusTellsWhoFailed ==
  /\ answer = 504 => ctx = "deadline"
  /\ answer = 502 => ctx # "deadline" /\ (upstream = "answered" => ctx = "canceled")
  /\ answer \in {400, 401, 403, 404, 405, 422, 501} => forwarded = None
  /\ answer = 503 /\ forwarded # None => upstream \in {"failed", "refused"}
  /\ answer = 200 /\ request.route \in {"chat", "generate", "embeddings", "ready"} =>
       upstream \in {"answered", "tool_call"}

(* Every request is answered within its deadline, whatever the backend does   *)
(* (docs/ARCHITECTURE.md:97, server.go:333-349).                              *)
RequestAnswered == <>(pc = "answered")
=============================================================================
