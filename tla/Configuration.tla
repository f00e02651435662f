---------------------------- MODULE Configuration ----------------------------
(***************************************************************************)
(* The configuration read once at start (internal/config, LoadWith and     *)
(* Validate) and the backend that main makes from it.                      *)
(*                                                                         *)
(* A setting of the environment is the case the code tells apart, "blank"  *)
(* for unset or white space; an address is what it makes the service bind. *)
(***************************************************************************)
EXTENDS Naturals

URLs == {"blank", "good", "unparsable", "other scheme", "no host", "credentials"}

Environments ==
  [listen   : {"blank", "127.0.0.1:p", "[::1]:p", "LocalHost:p", ":p", "0.0.0.0:p", "no port"},
   backend  : {"blank", "ollama", "Ollama", "LLAMA.CPP", "other"},
   ollama   : URLs,
   llama    : URLs,
   model    : {"blank", "good"},
   token    : {"blank", "good"},
   timeout  : {"blank", "positive", "not positive", "malformed"},
   limit    : {"blank", "a MiB", "less", "malformed"},
   mutation : {"blank", "true", "false", "malformed"}]

Or(value, default) == IF value = "blank" THEN default ELSE value

Lower(name) ==
  CASE name = "Ollama"    -> "ollama"
    [] name = "LLAMA.CPP" -> "llama.cpp"
    [] OTHER              -> name

(* LoadWith up to Validate: what does not parse is an error.                 *)
Parses(env) ==
  /\ "unparsable" \notin {env.ollama, env.llama}
  /\ "malformed" \notin {env.timeout, env.limit, env.mutation}

Config(env) ==
  [listen   |-> Or(env.listen, "127.0.0.1:p"),
   backend  |-> Lower(Or(env.backend, "ollama")),
   ollama   |-> Or(env.ollama, "good"),
   llama    |-> Or(env.llama, "good"),
   model    |-> env.model,
   token    |-> env.token # "blank",
   timeout  |-> Or(env.timeout, "positive"),
   limit    |-> Or(env.limit, "a MiB"),
   mutation |-> env.mutation = "true"]

(* Mutant: an address without a host is taken for this host.                 *)
IsLoopbackOrEmpty(listen) == listen \in {"127.0.0.1:p", "[::1]:p", "LocalHost:p", ":p"}

(* isLoopbackListenAddress: what does not split into host and port is not.   *)
IsLoopback(listen) == listen \in {"127.0.0.1:p", "[::1]:p", "LocalHost:p"}

Valid(c) ==
  /\ c.backend \in {"ollama", "llama.cpp"}
  /\ {c.ollama, c.llama} = {"good"}
  /\ c.backend = "llama.cpp" => c.model # "blank"
  /\ c.timeout = "positive"
  /\ c.limit = "a MiB"
  /\ IsLoopback(c.listen) \/ c.token

(* Load: every configuration the service starts with.                        *)
Loaded == {Config(env) : env \in {e \in Environments : Parses(e) /\ Valid(Config(e))}}

(* ListenAndServe: an address without a host is every interface, one without *)
(* a port is an error before the first request.                              *)
Binds(listen)   == listen # "no port"
Exposed(listen) == listen \in {":p", "0.0.0.0:p"}
=============================================================================
