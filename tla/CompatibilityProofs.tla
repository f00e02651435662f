-------------------------- MODULE CompatibilityProofs --------------------------
(***************************************************************************)
(* Proofs about Compatibility for every configuration, every request and   *)
(* bodies that ask for any number of features: no gate is passed by, no    *)
(* decoded feature is lost, and a status tells who failed.                 *)
(***************************************************************************)
EXTENDS Compatibility, SequenceTheorems, FiniteSetTheorems, WellFoundedInduction, TLAPS

(* Every gate is behind the request.                                         *)
Passed ==
  /\ request.route # "unlisted" /\ request.method
  /\ request.route \notin Probes => Authorized
  /\ request.route = "pull" => config.mutation
  /\ request.route \in Ollama \cup {"ready"} => config.backend # "none"
  /\ request.route \in Ollama \cup {"plan"} => request.size # "declared"

(* The adapter has read the body.                                            *)
ReadByAdapter ==
  /\ Passed /\ request.route \in Decoded /\ config.backend = "llama.cpp"
  /\ body \in Bodies /\ body.features \subseteq Offered(request.route)
  /\ body.text \subseteq Written(request.route)
  /\ request.size = "chunked" => ~body.json

Untouched == body = None /\ forwarded = None /\ upstream = "silent"

(* Where the handler is, and what it has done before it got there.           *)
Stages ==
  /\ pc = "gates" => Untouched
  /\ pc \in {"native", "probe", "ollama", "llama.cpp"} => Untouched /\ Passed
  /\ pc = "native" => request.route \notin Ollama \cup {"ready"}
  /\ pc = "probe" => request.route = "ready"
  /\ pc \in {"ollama", "llama.cpp"} => request.route \in Ollama /\ config.backend = pc
  /\ pc = "translate" => ReadByAdapter /\ forwarded = None /\ upstream = "silent"
  /\ pc \in {"call", "decode"} => Passed /\ request.route \in Ollama \cup {"ready"}
  /\ pc = "call" => upstream = "silent"
  /\ pc = "decode" => request.route # "ready"
                      /\ upstream \in {"answered", "empty", "malformed", "tool_call"}

(* What a body that was read and a request that was forwarded say of the past. *)
Sent ==
  /\ body # None => ReadByAdapter
  /\ forwarded # None => /\ Passed /\ request.route \in Ollama \cup {"ready"}
                         /\ request.route = "pull" => config.backend = "ollama"
  /\ body # None /\ forwarded # None =>
       Refusal = 0 /\ request.route # "show" /\ forwarded = Payload
  /\ upstream = "tool_call" => request.route = "chat"

Answered ==
  /\ pc # "answered" => answer = None
  /\ answer = 200 => Passed
  /\ StatusTellsWhoFailed

IInv == TypeOK /\ Stages /\ Sent /\ Answered

-----------------------------------------------------------------------------
(* A service that is exposed has a token.                                    *)
LEMMA Configured ==
  ASSUME NEW c \in Configs
  PROVE  /\ c.backend \in {"ollama", "llama.cpp", "none"}
         /\ c.token \in BOOLEAN /\ c.mutation \in BOOLEAN /\ c.exposed \in BOOLEAN
         /\ c.exposed => c.token
  <1>1. PICK l \in Loaded :
          \E b \in {l.backend, "none"} :
            c = [backend |-> b, token |-> l.token, mutation |-> l.mutation,
                 exposed |-> Exposed(l.listen)]
    BY DEF Configs
  <1>2. PICK env \in Environments : Valid(Config(env)) /\ l = Config(env)
    BY <1>1 DEF Loaded
  <1>3. l.backend \in {"ollama", "llama.cpp"} /\ (IsLoopback(l.listen) \/ l.token)
    BY <1>2 DEF Valid
  <1>4. l.token \in BOOLEAN /\ l.mutation \in BOOLEAN
    BY <1>2 DEF Config
  <1>5. Exposed(l.listen) \in BOOLEAN /\ (Exposed(l.listen) => ~IsLoopback(l.listen))
    BY DEF Exposed, IsLoopback
  <1> HIDE DEF Loaded
  <1> QED
    BY <1>1, <1>3, <1>4, <1>5

LEMMA Enveloped ==
  ASSUME TypeOK
  PROVE  /\ config.backend \in {"ollama", "llama.cpp", "none"}
         /\ config.token \in BOOLEAN /\ config.mutation \in BOOLEAN
         /\ config.exposed => config.token
         /\ request.route \in Routes /\ request.method \in BOOLEAN
         /\ request.token \in BOOLEAN
         /\ request.size \in {"fits", "declared", "chunked"}
  <1>1. config \in Configs /\ request \in Requests
    BY DEF TypeOK
  <1> QED
    BY <1>1, Configured DEF Requests

-----------------------------------------------------------------------------
(* A set of naturals that is not empty has a least: the one that has the     *)
(* fewest below it.                                                          *)
LEMMA Smallest ==
  ASSUME NEW S \in SUBSET Nat, IsFiniteSet(S), S # {}
  PROVE  Min(S) \in S /\ \A v \in S : Min(S) <= v
  <1> DEFINE Below(v) == {u \in S : u < v}
             belows == {Below(v) : v \in S}
  <1>1. belows \subseteq FiniteSubsetsOf(S) /\ belows # {}
    <2>1. FiniteSubsetsOf(S) = SUBSET S
      BY FS_FiniteSubsetsOfFinite
    <2>2. \A v \in S : Below(v) \in SUBSET S
      OBVIOUS
    <2>3. \A v \in S : Below(v) \in belows
      OBVIOUS
    <2>4. belows # {}
      BY <2>3
    <2>5. belows \subseteq SUBSET S
      BY <2>2
    <2> QED
      BY <2>1, <2>4, <2>5
  <1>2. PICK least \in belows : \A other \in belows : ~(<<other, least>> \in StrictSubsetOrdering(S))
    BY <1>1, FS_StrictSubsetOrderingWellFounded, WFMin
  <1>3. PICK best \in S : least = Below(best)
    BY <1>2
  <1>4. ASSUME NEW v \in S, ~(best <= v)
        PROVE  FALSE
    <2>1. v < best /\ \A u \in S : u < v => u < best
      BY <1>4
    <2>2. v \in Below(best) /\ v \notin Below(v)
      BY <2>1
    <2>3. Below(v) \in SUBSET Below(best) /\ Below(v) \in SUBSET S /\ Below(best) \in SUBSET S
      BY <2>1
    <2> HIDE DEF Below
    <2>4. <<Below(v), Below(best)>> \in StrictSubsetOrdering(S)
      BY <2>2, <2>3 DEF StrictSubsetOrdering
    <2> QED
      BY <1>2, <1>3, <2>4
  <1>5. \E m \in S : \A v \in S : m <= v
    BY <1>4
  <1> QED
    BY <1>5 DEF Min

(* The first of the checks that fail answers, with its own status.           *)
LEMMA FirstFails ==
  ASSUME NEW checks \in Seq([status : Statuses, fails : BOOLEAN])
  PROVE  /\ First(checks) = 0 <=> \A i \in 1..Len(checks) : ~checks[i].fails
         /\ First(checks) # 0 => \E i \in 1..Len(checks) :
              /\ checks[i].fails /\ First(checks) = checks[i].status
              /\ \A j \in 1..Len(checks) : j < i => ~checks[j].fails
  <1> DEFINE failed == {i \in DOMAIN checks : checks[i].fails}
  <1>1. First(checks) = IF failed = {} THEN 0 ELSE checks[Min(failed)].status
    BY DEF First
  <1>2. /\ DOMAIN checks = 1..Len(checks) /\ Len(checks) \in Nat
        /\ \A i \in 1..Len(checks) : checks[i].status \in Statuses
    <2>1. DOMAIN checks = 1..Len(checks) /\ Len(checks) \in Nat
      OBVIOUS
    <2>2. \A i \in 1..Len(checks) : checks[i] \in [status : Statuses, fails : BOOLEAN]
      BY <2>1, ElementOfSeq
    <2> QED
      BY <2>1, <2>2
  <1>3. failed \in SUBSET Nat /\ IsFiniteSet(failed)
    <2>1. IsFiniteSet(1..Len(checks)) /\ failed \subseteq 1..Len(checks)
      BY <1>2, FS_Interval
    <2>2. IsFiniteSet(failed)
      BY <2>1, FS_Subset
    <2> QED
      BY <1>2, <2>1, <2>2
  <1>4. CASE failed = {}
    <2>1. \A i \in 1..Len(checks) : checks[i].fails => i \in failed
      BY <1>2
    <2>2. \A i \in 1..Len(checks) : ~checks[i].fails
      BY <1>4, <2>1
    <2>3. First(checks) = 0
      BY <1>1, <1>4
    <2> QED
      BY <2>2, <2>3
  <1>5. CASE failed # {}
    <2>1. Min(failed) \in failed /\ \A i \in failed : Min(failed) <= i
      BY <1>3, <1>5, Smallest
    <2>2. PICK i \in 1..Len(checks) : i = Min(failed)
      BY <1>2, <2>1
    <2>3. /\ checks[i].fails /\ First(checks) = checks[i].status
          /\ checks[i].status \in Statuses
      BY <1>1, <1>2, <1>5, <2>1, <2>2
    <2>4. \A j \in 1..Len(checks) : j < i => ~checks[j].fails
      <3> SUFFICES ASSUME NEW j \in 1..Len(checks), j < i, checks[j].fails
                   PROVE  FALSE
        OBVIOUS
      <3>1. j \in failed
        BY <1>2
      <3>2. i <= j
        BY <2>1, <2>2, <3>1
      <3> QED
        BY <3>2
    <2>5. First(checks) # 0
      BY <2>3 DEF Statuses
    <2> QED
      BY <2>3, <2>4, <2>5
  <1> QED
    BY <1>4, <1>5

LEMMA Checked ==
  ASSUME NEW status, NEW fails \in BOOLEAN
  PROVE  Check(status, fails).status = status /\ (Check(status, fails).fails <=> fails)
  BY DEF Check

LEMMA GatesPassed ==
  ASSUME TypeOK
  PROVE  /\ First(Gates) = 0 <=> Passed
         /\ First(Gates) # 0 => First(Gates) \in {401, 403, 404, 405, 413, 503}
  <1>1. /\ (config.token => request.token) \in BOOLEAN /\ request.method \in BOOLEAN
        /\ config.mutation \in BOOLEAN
    BY Enveloped
  <1>2. Gates \in Seq([status : Statuses, fails : BOOLEAN]) /\ Len(Gates) = 6
    BY <1>1 DEF Gates, Check, Statuses, Authorized
  <1>4. /\ Gates[1].fails <=> request.route = "unlisted"
        /\ Gates[2].fails <=> ~request.method
        /\ Gates[3].fails <=> request.route \notin Probes /\ ~Authorized
        /\ Gates[4].fails <=> request.route = "pull" /\ ~config.mutation
        /\ Gates[5].fails <=> request.route \in Ollama \cup {"ready"} /\ config.backend = "none"
        /\ Gates[6].fails <=> request.route \in Ollama \cup {"plan"} /\ request.size = "declared"
    <2>1. Gates[1].fails <=> request.route = "unlisted"
      BY DEF Gates, Check
    <2>2. Gates[2].fails <=> ~request.method
      BY DEF Gates, Check
    <2>3. Gates[3].fails <=> request.route \notin Probes /\ ~Authorized
      BY DEF Gates, Check
    <2>4. Gates[4].fails <=> request.route = "pull" /\ ~config.mutation
      BY DEF Gates, Check
    <2>5. Gates[5].fails <=> request.route \in Ollama \cup {"ready"} /\ config.backend = "none"
      BY DEF Gates, Check
    <2>6. Gates[6].fails <=> request.route \in Ollama \cup {"plan"} /\ request.size = "declared"
      BY DEF Gates, Check
    <2> QED
      BY <2>1, <2>2, <2>3, <2>4, <2>5, <2>6
  <1>5. /\ Gates[1].status = 404 /\ Gates[2].status = 405 /\ Gates[3].status = 401
        /\ Gates[4].status = 403 /\ Gates[5].status = 503 /\ Gates[6].status = 413
    BY DEF Gates, Check
  <1>6. \A i : i \in 1..6 <=> i \in {1, 2, 3, 4, 5, 6}
    OBVIOUS
  <1>7. (\A i \in 1..6 : ~Gates[i].fails) <=> Passed
    BY <1>4, <1>6 DEF Passed
  <1>8. \A i \in 1..6 : Gates[i].status \in {401, 403, 404, 405, 413, 503}
    BY <1>5, <1>6
  <1>9. /\ First(Gates) = 0 <=> \A i \in 1..Len(Gates) : ~Gates[i].fails
        /\ First(Gates) # 0 => \E i \in 1..Len(Gates) : First(Gates) = Gates[i].status
    BY <1>2, FirstFails
  <1> QED
    BY <1>2, <1>7, <1>8, <1>9

(* The statuses the adapter refuses a body with.                             *)
Refusals == {400, 404, 422}
AllPass(checks) == \A i \in 1..Len(checks) : ~checks[i].fails
Refusing(checks) == \A i \in 1..Len(checks) : checks[i].status \in Refusals

LEMMA FirstOfTwo ==
  ASSUME NEW s \in Seq([status : Statuses, fails : BOOLEAN]),
         NEW t \in Seq([status : Statuses, fails : BOOLEAN]), Refusing(s), Refusing(t)
  PROVE  /\ First(s \o t) = 0 => AllPass(s) /\ AllPass(t)
         /\ First(s \o t) # 0 => First(s \o t) \in Refusals
  <1> DEFINE both == s \o t
             m == Len(s)
             n == Len(t)
  <1>1. /\ both \in Seq([status : Statuses, fails : BOOLEAN])
        /\ m \in Nat /\ n \in Nat /\ Len(both) = m + n
    BY ConcatProperties, LenProperties
  <1>2. \A i \in 1..Len(both) : both[i] = IF i <= m THEN s[i] ELSE t[i - m]
    BY ConcatProperties
  <1>3. /\ First(both) = 0 <=> \A i \in 1..Len(both) : ~both[i].fails
        /\ First(both) # 0 => \E i \in 1..Len(both) : First(both) = both[i].status
    BY <1>1, FirstFails
  <1> HIDE DEF both, m, n
  <1>4. ASSUME First(both) = 0
        PROVE  AllPass(s) /\ AllPass(t)
    <2>1. \A i \in 1..Len(both) : ~both[i].fails
      BY <1>3, <1>4
    <2>2. ASSUME NEW i \in 1..m
          PROVE  ~s[i].fails
      <3>1. i \in 1..Len(both) /\ i <= m
        BY <1>1
      <3> QED
        BY <1>2, <2>1, <3>1
    <2>3. ASSUME NEW i \in 1..n
          PROVE  ~t[i].fails
      <3>1. m + i \in 1..Len(both) /\ ~(m + i <= m) /\ (m + i) - m = i
        BY <1>1
      <3> QED
        BY <1>2, <2>1, <3>1
    <2> QED
      BY <2>2, <2>3 DEF AllPass, m, n
  <1>5. ASSUME NEW i \in 1..Len(both)
        PROVE  both[i].status \in Refusals
    <2>1. CASE i <= m
      <3>1. i \in 1..m
        BY <1>1, <2>1
      <3> QED
        BY <1>2, <2>1, <3>1 DEF Refusing, m
    <2>2. CASE ~(i <= m)
      <3>1. i - m \in 1..n
        BY <1>1, <2>2
      <3> QED
        BY <1>2, <2>2, <3>1 DEF Refusing, n
    <2> QED
      BY <2>1, <2>2
  <1> QED
    BY <1>3, <1>4, <1>5 DEF both

LEMMA TwoChecks ==
  ASSUME NEW checks, Len(checks) = 2
  PROVE  /\ AllPass(checks) <=> ~checks[1].fails /\ ~checks[2].fails
         /\ Refusing(checks) <=>
              /\ checks[1].status \in Refusals
              /\ checks[2].status \in Refusals
  <1>1. \A i : i \in 1..2 <=> i \in {1, 2}
    OBVIOUS
  <1>2. AllPass(checks) <=> \A i \in 1..2 : ~checks[i].fails
    BY Zenon DEF AllPass
  <1>3. Refusing(checks) <=> \A i \in 1..2 : checks[i].status \in Refusals
    BY Zenon DEF Refusing
  <1>4. AllPass(checks) <=> ~checks[1].fails /\ ~checks[2].fails
    BY <1>1, <1>2
  <1>5. Refusing(checks) <=>
              /\ checks[1].status \in Refusals
              /\ checks[2].status \in Refusals
    BY <1>1, <1>3
  <1> QED
    BY <1>4, <1>5

LEMMA ThreeChecks ==
  ASSUME NEW checks, Len(checks) = 3
  PROVE  /\ AllPass(checks) <=> ~checks[1].fails /\ ~checks[2].fails /\ ~checks[3].fails
         /\ Refusing(checks) <=>
              /\ checks[1].status \in Refusals
              /\ checks[2].status \in Refusals
              /\ checks[3].status \in Refusals
  <1>1. \A i : i \in 1..3 <=> i \in {1, 2, 3}
    OBVIOUS
  <1>2. AllPass(checks) <=> \A i \in 1..3 : ~checks[i].fails
    BY Zenon DEF AllPass
  <1>3. Refusing(checks) <=> \A i \in 1..3 : checks[i].status \in Refusals
    BY Zenon DEF Refusing
  <1>4. AllPass(checks) <=> ~checks[1].fails /\ ~checks[2].fails /\ ~checks[3].fails
    BY <1>1, <1>2
  <1>5. Refusing(checks) <=>
              /\ checks[1].status \in Refusals
              /\ checks[2].status \in Refusals
              /\ checks[3].status \in Refusals
    BY <1>1, <1>3
  <1> QED
    BY <1>4, <1>5

LEMMA SixChecks ==
  ASSUME NEW checks, Len(checks) = 6
  PROVE  /\ AllPass(checks) <=> 
              /\ ~checks[1].fails /\ ~checks[2].fails /\ ~checks[3].fails
              /\ ~checks[4].fails /\ ~checks[5].fails /\ ~checks[6].fails
         /\ Refusing(checks) <=>
              /\ checks[1].status \in Refusals
              /\ checks[2].status \in Refusals
              /\ checks[3].status \in Refusals
              /\ checks[4].status \in Refusals
              /\ checks[5].status \in Refusals
              /\ checks[6].status \in Refusals
  <1>1. \A i : i \in 1..6 <=> i \in {1, 2, 3, 4, 5, 6}
    OBVIOUS
  <1>2. AllPass(checks) <=> \A i \in 1..6 : ~checks[i].fails
    BY Zenon DEF AllPass
  <1>3. Refusing(checks) <=> \A i \in 1..6 : checks[i].status \in Refusals
    BY Zenon DEF Refusing
  <1>4. AllPass(checks) <=> 
              /\ ~checks[1].fails /\ ~checks[2].fails /\ ~checks[3].fails
              /\ ~checks[4].fails /\ ~checks[5].fails /\ ~checks[6].fails
    BY <1>1, <1>2
  <1>5. Refusing(checks) <=>
              /\ checks[1].status \in Refusals
              /\ checks[2].status \in Refusals
              /\ checks[3].status \in Refusals
              /\ checks[4].status \in Refusals
              /\ checks[5].status \in Refusals
              /\ checks[6].status \in Refusals
    BY <1>1, <1>3
  <1> QED
    BY <1>4, <1>5

(* What the adapter does not refuse: the configured model, and only features *)
(* it can carry.                                                             *)
LEMMA Translated ==
  ASSUME body \in Bodies, request.route \in Decoded
  PROVE  /\ Refusal # 0 => Refusal \in Refusals
         /\ Refusal = 0 =>
              /\ body.json /\ body.model = "configured"
              /\ request.route = "chat" =>
                   /\ "messages" \in body.text
                   /\ body.features \cap {"tools", "think", "format", "role", "images", "history",
                                          "other_option"} = {}
              /\ request.route = "generate" =>
                   body.features \cap {"images", "format", "other_option"} = {}
              /\ request.route \in Embedding =>
                   /\ body.features \cap {"safe_option", "other_option"} = {}
                   /\ request.route = "embed" => "input" \in body.text
  <1>1. /\ body.json \in BOOLEAN
        /\ body.model \in {"blank", "other", "configured"}
    BY DEF Bodies
  <1>3. /\ Identity \in Seq([status : Statuses, fails : BOOLEAN]) /\ Len(Identity) = 3
        /\ Identity[1].status = 400 /\ (Identity[1].fails <=> ~body.json)
        /\ Identity[2].status = 400 /\ (Identity[2].fails <=> body.model = "blank")
        /\ Identity[3].status = 404 /\ (Identity[3].fails <=> body.model = "other")
    <2>1. Identity \in Seq([status : Statuses, fails : BOOLEAN]) /\ Len(Identity) = 3
      BY <1>1 DEF Identity, Check, Asks, Statuses
    <2>2. Identity[1].status = 400 /\ (Identity[1].fails <=> ~body.json)
      BY <1>1 DEF Identity, Check, Asks
    <2>3. Identity[2].status = 400 /\ (Identity[2].fails <=> body.model = "blank")
      BY <1>1 DEF Identity, Check, Asks
    <2>4. Identity[3].status = 404 /\ (Identity[3].fails <=> body.model = "other")
      BY <1>1 DEF Identity, Check, Asks
    <2> QED
      BY <2>1, <2>2, <2>3, <2>4
  <1>4. /\ ChatChecks \in Seq([status : Statuses, fails : BOOLEAN]) /\ Len(ChatChecks) = 6
        /\ ChatChecks[1].status = 400 /\ (ChatChecks[1].fails <=> "messages" \notin body.text)
        /\ ChatChecks[2].status = 422 /\ (ChatChecks[2].fails <=> Asks("tools"))
        /\ ChatChecks[3].status = 422 /\ (ChatChecks[3].fails <=> Asks("think"))
        /\ ChatChecks[4].status = 422 /\ (ChatChecks[4].fails <=> Asks("format"))
        /\ ChatChecks[5].status = 422 /\ (ChatChecks[5].fails <=> Asks("role") \/ Asks("images") \/ Asks("history"))
        /\ ChatChecks[6].status = 422 /\ (ChatChecks[6].fails <=> Asks("other_option"))
    <2>1. ChatChecks \in Seq([status : Statuses, fails : BOOLEAN]) /\ Len(ChatChecks) = 6
      BY <1>1 DEF ChatChecks, Check, Asks, Statuses
    <2>2. ChatChecks[1].status = 400 /\ (ChatChecks[1].fails <=> "messages" \notin body.text)
      BY <1>1 DEF ChatChecks, Check, Asks
    <2>3. ChatChecks[2].status = 422 /\ (ChatChecks[2].fails <=> Asks("tools"))
      BY <1>1 DEF ChatChecks, Check, Asks
    <2>4. ChatChecks[3].status = 422 /\ (ChatChecks[3].fails <=> Asks("think"))
      BY <1>1 DEF ChatChecks, Check, Asks
    <2>5. ChatChecks[4].status = 422 /\ (ChatChecks[4].fails <=> Asks("format"))
      BY <1>1 DEF ChatChecks, Check, Asks
    <2>6. ChatChecks[5].status = 422 /\ (ChatChecks[5].fails <=> Asks("role") \/ Asks("images") \/ Asks("history"))
      BY <1>1 DEF ChatChecks, Check, Asks
    <2>7. ChatChecks[6].status = 422 /\ (ChatChecks[6].fails <=> Asks("other_option"))
      BY <1>1 DEF ChatChecks, Check, Asks
    <2> QED
      BY <2>1, <2>2, <2>3, <2>4, <2>5, <2>6, <2>7
  <1>5. /\ GenerateChecks \in Seq([status : Statuses, fails : BOOLEAN]) /\ Len(GenerateChecks) = 3
        /\ GenerateChecks[1].status = 422 /\ (GenerateChecks[1].fails <=> Asks("images"))
        /\ GenerateChecks[2].status = 422 /\ (GenerateChecks[2].fails <=> Asks("format"))
        /\ GenerateChecks[3].status = 422 /\ (GenerateChecks[3].fails <=> Asks("other_option"))
    <2>1. GenerateChecks \in Seq([status : Statuses, fails : BOOLEAN]) /\ Len(GenerateChecks) = 3
      BY <1>1 DEF GenerateChecks, Check, Asks, Statuses
    <2>2. GenerateChecks[1].status = 422 /\ (GenerateChecks[1].fails <=> Asks("images"))
      BY <1>1 DEF GenerateChecks, Check, Asks
    <2>3. GenerateChecks[2].status = 422 /\ (GenerateChecks[2].fails <=> Asks("format"))
      BY <1>1 DEF GenerateChecks, Check, Asks
    <2>4. GenerateChecks[3].status = 422 /\ (GenerateChecks[3].fails <=> Asks("other_option"))
      BY <1>1 DEF GenerateChecks, Check, Asks
    <2> QED
      BY <2>1, <2>2, <2>3, <2>4
  <1>6. /\ EmbeddingChecks \in Seq([status : Statuses, fails : BOOLEAN]) /\ Len(EmbeddingChecks) = 2
        /\ EmbeddingChecks[1].status = 422 /\ (EmbeddingChecks[1].fails <=> Asks("safe_option") \/ Asks("other_option"))
        /\ EmbeddingChecks[2].status = 400
        /\ EmbeddingChecks[2].fails <=> request.route = "embed" /\ "input" \notin body.text
    <2>1. EmbeddingChecks \in Seq([status : Statuses, fails : BOOLEAN]) /\ Len(EmbeddingChecks) = 2
      BY <1>1 DEF EmbeddingChecks, Check, Asks, Statuses
    <2>2. EmbeddingChecks[1].status = 422 /\ (EmbeddingChecks[1].fails <=> Asks("safe_option") \/ Asks("other_option"))
      BY <1>1 DEF EmbeddingChecks, Check, Asks
    <2>3. /\ EmbeddingChecks[2].status = 400
          /\ EmbeddingChecks[2].fails <=> request.route = "embed" /\ "input" \notin body.text
      BY <1>1 DEF EmbeddingChecks, Check, Asks
    <2> QED
      BY <2>1, <2>2, <2>3
  <1>7. <<>> \in Seq([status : Statuses, fails : BOOLEAN]) /\ Refusing(<<>>)
    BY DEF Refusing
  <1>8. Refusing(Identity) /\ (AllPass(Identity) => body.json /\ body.model = "configured")
    BY <1>1, <1>3, ThreeChecks DEF Refusals
  <1>9. /\ Refusing(ChatChecks)
        /\ AllPass(ChatChecks) =>
             /\ "messages" \in body.text
             /\ body.features \cap {"tools", "think", "format", "role", "images", "history",
                                    "other_option"} = {}
    <2>1. Len(ChatChecks) = 6
      BY <1>4
    <2>2. Refusing(ChatChecks)
      BY <1>4, SixChecks DEF Refusals
    <2>3. AllPass(ChatChecks) =>
                 /\ ~ChatChecks[1].fails
                 /\ ~ChatChecks[2].fails
                 /\ ~ChatChecks[3].fails
                 /\ ~ChatChecks[4].fails
                 /\ ~ChatChecks[5].fails
                 /\ ~ChatChecks[6].fails
      BY <2>1, SixChecks
    <2>4. AllPass(ChatChecks) =>
                 /\ "messages" \in body.text
                 /\ ~Asks("tools")
                 /\ ~Asks("think")
                 /\ ~Asks("format")
                 /\ ~Asks("role")
                 /\ ~Asks("images")
                 /\ ~Asks("history")
                 /\ ~Asks("other_option")
      BY <1>4, <2>3, Zenon
    <2> QED
      BY <2>2, <2>4 DEF Asks
  <1>10. /\ Refusing(GenerateChecks)
         /\ AllPass(GenerateChecks) =>
              body.features \cap {"images", "format", "other_option"} = {}
    <2>1. Len(GenerateChecks) = 3
      BY <1>5
    <2>2. Refusing(GenerateChecks)
      BY <1>5, ThreeChecks DEF Refusals
    <2>3. AllPass(GenerateChecks) =>
                 /\ ~GenerateChecks[1].fails
                 /\ ~GenerateChecks[2].fails
                 /\ ~GenerateChecks[3].fails
      BY <2>1, ThreeChecks
    <2>4. AllPass(GenerateChecks) =>
                 /\ ~Asks("images")
                 /\ ~Asks("format")
                 /\ ~Asks("other_option")
      BY <1>5, <2>3, Zenon
    <2> QED
      BY <2>2, <2>4 DEF Asks
  <1>11. /\ Refusing(EmbeddingChecks)
         /\ AllPass(EmbeddingChecks) =>
              /\ body.features \cap {"safe_option", "other_option"} = {}
              /\ request.route = "embed" => "input" \in body.text
    <2>1. Len(EmbeddingChecks) = 2
      BY <1>6
    <2>2. Refusing(EmbeddingChecks)
      BY <1>6, TwoChecks DEF Refusals
    <2>3. AllPass(EmbeddingChecks) =>
                 /\ ~EmbeddingChecks[1].fails
                 /\ ~EmbeddingChecks[2].fails
      BY <2>1, TwoChecks
    <2>4. AllPass(EmbeddingChecks) =>
                 /\ ~Asks("safe_option")
                 /\ ~Asks("other_option")
                 /\ request.route = "embed" => "input" \in body.text
      BY <1>6, <2>3, Zenon
    <2> QED
      BY <2>2, <2>4 DEF Asks
  <1>12. CASE request.route = "chat"
    <2>1. request.route \notin Embedding \cup {"generate", "show"}
      BY <1>12 DEF Embedding
    <2>2. Refusal = First(Identity \o ChatChecks)
      BY <1>12, <2>1 DEF Refusal
    <2>3. /\ First(Identity \o ChatChecks) = 0 => AllPass(Identity) /\ AllPass(ChatChecks)
          /\ First(Identity \o ChatChecks) # 0 => First(Identity \o ChatChecks) \in Refusals
      BY <1>3, <1>4, <1>9, <1>8, FirstOfTwo
    <2> QED
      BY <1>8, <1>4, <1>9, <1>12, <2>1, <2>2, <2>3
  <1>13. CASE request.route = "generate"
    <2>1. request.route \notin Embedding \cup {"chat", "show"}
      BY <1>13 DEF Embedding
    <2>2. Refusal = First(Identity \o GenerateChecks)
      BY <1>13, <2>1 DEF Refusal
    <2>3. /\ First(Identity \o GenerateChecks) = 0 => AllPass(Identity) /\ AllPass(GenerateChecks)
          /\ First(Identity \o GenerateChecks) # 0 => First(Identity \o GenerateChecks) \in Refusals
      BY <1>3, <1>5, <1>10, <1>8, FirstOfTwo
    <2> QED
      BY <1>8, <1>5, <1>10, <1>13, <2>1, <2>2, <2>3
  <1>14. CASE request.route \in Embedding
    <2>1. request.route \notin {"chat", "generate", "show"}
      BY <1>14 DEF Embedding
    <2>2. Refusal = First(Identity \o EmbeddingChecks)
      BY <1>14, <2>1 DEF Refusal
    <2>3. /\ First(Identity \o EmbeddingChecks) = 0 => AllPass(Identity) /\ AllPass(EmbeddingChecks)
          /\ First(Identity \o EmbeddingChecks) # 0 => First(Identity \o EmbeddingChecks) \in Refusals
      BY <1>3, <1>6, <1>11, <1>8, FirstOfTwo
    <2> QED
      BY <1>8, <1>6, <1>11, <1>14, <2>1, <2>2, <2>3
  <1>15. CASE request.route = "show"
    <2>1. request.route \notin Embedding \cup {"chat", "generate"}
      BY <1>15 DEF Embedding
    <2>2. Refusal = First(Identity \o <<>>)
      BY <1>15, <2>1 DEF Refusal
    <2>3. /\ First(Identity \o <<>>) = 0 => AllPass(Identity) /\ AllPass(<<>>)
          /\ First(Identity \o <<>>) # 0 => First(Identity \o <<>>) \in Refusals
      BY <1>3, <1>7, <1>8, FirstOfTwo
    <2> QED
      BY <1>8, <1>7, <1>15, <2>1, <2>2, <2>3
  <1> QED
    BY <1>12, <1>13, <1>14, <1>15 DEF Decoded

-----------------------------------------------------------------------------
LEMMA InitInvariant == Init => IInv
  <1> SUFFICES ASSUME Init
               PROVE  IInv
    OBVIOUS
  <1>1. /\ config \in Configs /\ request \in Requests /\ pc = "gates" /\ body = None
        /\ ctx = "live" /\ forwarded = None /\ upstream = "silent" /\ answer = None
    BY DEF Init
  <1>2. TypeOK
    BY <1>1 DEF TypeOK, Places, Upstreams
  <1>3. Stages /\ Sent
    BY <1>1 DEF Stages, Sent, Untouched
  <1>4. Answered
    BY <1>1, NoneAssumption DEF Answered, StatusTellsWhoFailed, Statuses
  <1> QED
    BY <1>2, <1>3, <1>4 DEF IInv

(* What is said of the configuration and the request alone does not change.  *)
LEMMA SameRequest ==
  ASSUME UNCHANGED <<config, request>>
  PROVE  Passed' <=> Passed
  BY DEF Passed, Authorized

LEMMA SameBody ==
  ASSUME UNCHANGED <<config, request, body>>
  PROVE  /\ ReadByAdapter' <=> ReadByAdapter
         /\ Refusal' = Refusal /\ Payload' = Payload
  <1>1. ReadByAdapter' <=> ReadByAdapter
    BY SameRequest DEF ReadByAdapter
  <1>2. /\ Identity' = Identity /\ ChatChecks' = ChatChecks
        /\ GenerateChecks' = GenerateChecks /\ EmbeddingChecks' = EmbeddingChecks
    BY DEF Identity, ChatChecks, GenerateChecks, EmbeddingChecks, Asks
  <1>3. Refusal' = Refusal /\ Payload' = Payload
    BY <1>2 DEF Refusal, Payload
  <1> QED
    BY <1>1, <1>3

(* What was sent stays what it was if nothing more is read or forwarded.     *)
LEMMA SentKeeps ==
  ASSUME Sent, UNCHANGED <<config, request, body, forwarded>>,
         upstream' = "tool_call" => request.route = "chat"
  PROVE  Sent'
  <1>1. /\ (ReadByAdapter' <=> ReadByAdapter) /\ Refusal' = Refusal /\ Payload' = Payload
        /\ (Passed' <=> Passed)
    BY SameBody, SameRequest
  <1>2. (body # None => ReadByAdapter)'
    BY <1>1 DEF Sent
  <1>3. (forwarded # None => /\ Passed /\ request.route \in Ollama \cup {"ready"}
                             /\ request.route = "pull" => config.backend = "ollama")'
    BY <1>1 DEF Sent
  <1>4. (body # None /\ forwarded # None =>
           Refusal = 0 /\ request.route # "show" /\ forwarded = Payload)'
    BY <1>1 DEF Sent
  <1> QED
    BY <1>2, <1>3, <1>4 DEF Sent

(* StatusTellsWhoFailed of any status and whatever became of the request.    *)
Tells(status, outcome, context, sent, route) ==
  /\ status = 504 => context = "deadline"
  /\ status = 502 => context # "deadline" /\ (outcome = "answered" => context = "canceled")
  /\ status \in {400, 401, 403, 404, 405, 422, 501} => sent = None
  /\ status = 503 /\ sent # None => outcome \in {"failed", "refused"}
  /\ status = 200 /\ route \in {"chat", "generate", "embeddings", "ready"} =>
       outcome \in {"answered", "tool_call"}

Blames(status, outcome) ==
  /\ status = 200 => Passed
  /\ Tells(status, outcome, ctx, forwarded, request.route)

(* A step that answers: what was sent stays as it is, and the status must be *)
(* one that tells who failed.                                                *)
LEMMA AnswerKeeps ==
  ASSUME IInv, NEW status \in Statuses, NEW outcome \in Upstreams,
         Answer(status), upstream' = outcome,
         UNCHANGED <<config, request, body, ctx, forwarded>>,
         outcome = "tool_call" => request.route = "chat",
         Blames(status, outcome)
  PROVE  IInv'
  <1>1. TypeOK /\ Sent /\ answer' = status /\ pc' = "answered"
    BY DEF IInv, Answer
  <1>2. /\ config' = config /\ request' = request /\ body' = body /\ ctx' = ctx
        /\ forwarded' = forwarded /\ (Passed' <=> Passed)
    BY SameRequest
  <1>3. TypeOK'
    <2>1. answer' \in Statuses \cup {None} /\ pc' \in Places
      BY <1>1 DEF Places
    <2> QED
      BY <1>1, <1>2, <2>1 DEF TypeOK
  <1>4. Stages'
    BY <1>1 DEF Stages
  <1>5. Sent'
    BY <1>1, SentKeeps
  <1>6. Answered'
    <2>1. Tells(status, outcome, ctx, forwarded, request.route)
      BY Zenon DEF Blames
    <2>2. Tells(answer', upstream', ctx', forwarded', request'.route)
      BY <1>1, <1>2, <2>1, Zenon
    <2>3. StatusTellsWhoFailed'
      BY <2>2, Zenon DEF StatusTellsWhoFailed, Tells
    <2>4. (answer = 200 => Passed)'
      BY <1>1, <1>2, Zenon DEF Blames
    <2> QED
      BY <1>1, <2>3, <2>4, Zenon DEF Answered
  <1> QED
    BY <1>3, <1>4, <1>5, <1>6 DEF IInv

(* Until the answer there is none, and nothing it would say.                 *)
LEMMA Unanswered ==
  ASSUME pc' # "answered", answer' = None
  PROVE  Answered'
  <1>1. answer' \notin Statuses
    BY NoneAssumption
  <1>2. answer' \notin {200, 502, 503, 504} /\ answer' \notin {400, 401, 403, 404, 405, 422, 501}
    BY <1>1 DEF Statuses
  <1>3. StatusTellsWhoFailed'
    BY <1>2 DEF StatusTellsWhoFailed
  <1> QED
    BY <1>2, <1>3 DEF Answered

LEMMA GatesKeep == IInv /\ PassGates => IInv'
  <1> SUFFICES ASSUME IInv, PassGates
               PROVE  IInv'
    OBVIOUS
  <1>1. /\ pc = "gates" /\ UNCHANGED <<config, request, body, ctx, forwarded, upstream>>
        /\ IF First(Gates) # 0 THEN Answer(First(Gates))
           ELSE /\ pc' = CASE request.route \in Ollama -> config.backend
                          [] request.route = "ready"  -> "probe"
                          [] OTHER                    -> "native"
                /\ UNCHANGED answer
    BY DEF PassGates
  <1>2. TypeOK /\ Stages /\ Sent /\ Answered /\ Untouched /\ answer = None
    BY <1>1 DEF IInv, Stages, Answered
  <1>3. /\ First(Gates) = 0 <=> Passed
        /\ First(Gates) # 0 => First(Gates) \in {401, 403, 404, 405, 413, 503}
    BY <1>2, GatesPassed
  <1>4. CASE First(Gates) # 0
    <2> DEFINE status == First(Gates)
    <2>1. status \in {401, 403, 404, 405, 413, 503} /\ Answer(status)
      BY <1>1, <1>3, <1>4
    <2>2. upstream' = "silent" /\ forwarded = None
      BY <1>1, <1>2 DEF Untouched
    <2> HIDE DEF status
    <2>3. status \in Statuses /\ status \notin {200, 502, 504}
      BY <2>1 DEF Statuses
    <2>4. Blames(status, "silent")
      BY <2>2, <2>3 DEF Blames, Tells
    <2>5. "silent" \in Upstreams /\ ("silent" = "tool_call" => request.route = "chat")
      BY DEF Upstreams
    <2>6. UNCHANGED <<config, request, body, ctx, forwarded>>
      BY <1>1
    <2>7. status \in Statuses /\ Answer(status) /\ upstream' = "silent"
      BY <2>1, <2>2, <2>3
    <2> QED
      BY <2>4, <2>5, <2>6, <2>7, AnswerKeeps
  <1>5. CASE First(Gates) = 0
    <2>1. Passed /\ UNCHANGED answer
      BY <1>1, <1>3, <1>5
    <2>2. pc' = CASE request.route \in Ollama -> config.backend
                  [] request.route = "ready"  -> "probe"
                  [] OTHER                    -> "native"
      BY <1>1, <1>5
    <2>3. config.backend \in {"ollama", "llama.cpp", "none"} /\ "ready" \notin Ollama
      BY <1>2, Enveloped DEF Ollama, Decoded, Embedding
    <2>4. \/ request.route \in Ollama /\ pc' = config.backend
             /\ config.backend \in {"ollama", "llama.cpp"}
          \/ request.route = "ready" /\ pc' = "probe"
          \/ request.route \notin Ollama \cup {"ready"} /\ pc' = "native"
      <3>1. request.route \in Ollama => config.backend # "none"
        BY <2>1 DEF Passed
      <3> QED
        BY <2>2, <2>3, <3>1
    <2>5. pc' \in {"native", "probe", "ollama", "llama.cpp"}
      BY <2>4
    <2>6. TypeOK'
      BY <1>1, <1>2, <2>1, <2>5 DEF TypeOK, Places
    <2>7. Passed' /\ Untouched'
      BY <1>1, <1>2, <2>1, SameRequest DEF Untouched
    <2>8. Stages'
      BY <1>1, <2>3, <2>4, <2>5, <2>7 DEF Stages
    <2>9. Sent'
      BY <2>7 DEF Sent, Untouched
    <2>10. Answered'
      BY <1>2, <2>1, <2>5, Unanswered
    <2> QED
      BY <2>6, <2>8, <2>9, <2>10 DEF IInv
  <1> QED
    BY <1>4, <1>5

(* What the handler knows before it asks a backend.                          *)
LEMMA NativeKeep == IInv /\ (AnswerFacts \/ AnswerCalibration \/ AnswerPlan) => IInv'
  <1> SUFFICES ASSUME IInv, AnswerFacts \/ AnswerCalibration \/ AnswerPlan
               PROVE  IInv'
    OBVIOUS
  <1>1. /\ pc = "native" /\ UNCHANGED <<config, request, body, ctx, forwarded>>
        /\ upstream' = upstream
    BY DEF AnswerFacts, AnswerCalibration, AnswerPlan
  <1>2. PICK status \in {200, 400, 404, 422, 500} : Answer(status)
    <2>1. CASE AnswerFacts
      <3>1. PICK status \in {200} \cup (IF request.route = "facts" THEN {404, 500} ELSE {}) :
              Answer(status)
        BY <2>1 DEF AnswerFacts
      <3> QED
        BY <3>1
    <2>2. CASE AnswerCalibration
      BY <2>2 DEF AnswerCalibration
    <2>3. CASE AnswerPlan
      BY <2>3 DEF AnswerPlan
    <2> QED
      BY <2>1, <2>2, <2>3
  <1>3. /\ Passed /\ request.route \notin Ollama \cup {"ready"} /\ forwarded = None
        /\ upstream = "silent"
    BY <1>1 DEF IInv, Stages, Untouched
  <1>4. status \in Statuses /\ status \notin {502, 503, 504}
    BY <1>2 DEF Statuses
  <1>5. Blames(status, "silent")
    BY <1>3, <1>4 DEF Blames, Tells, Ollama, Decoded, Embedding
  <1>6. "silent" \in Upstreams /\ ("silent" = "tool_call" => request.route = "chat")
    BY DEF Upstreams
  <1>7. upstream' = "silent"
    BY <1>1, <1>3
  <1> QED
    BY <1>1, <1>2, <1>4, <1>5, <1>6, <1>7, AnswerKeeps

(* A step that asks a backend, or that the context has ended for.            *)
LEMMA ForwardKeeps ==
  ASSUME IInv, pc \in {"probe", "translate", "ollama"}, pc' = "call",
         UNCHANGED <<config, request, body, ctx, upstream, answer>>,
         forwarded' \in Messages \cup {None},
         forwarded' # None /\ body # None =>
           Refusal = 0 /\ request.route # "show" /\ forwarded' = Payload
  PROVE  IInv'
  <1>1. /\ Passed /\ request.route \in Ollama \cup {"ready"}
        /\ request.route = "pull" => config.backend = "ollama"
    <2>1. CASE pc = "probe"
      BY <2>1 DEF IInv, Stages
    <2>2. CASE pc = "translate"
      BY <2>2 DEF IInv, Stages, ReadByAdapter, Ollama, Decoded, Embedding
    <2>3. CASE pc = "ollama"
      BY <2>3 DEF IInv, Stages
    <2> QED
      BY <2>1, <2>2, <2>3
  <1>2. upstream = "silent" /\ answer = None
    BY DEF IInv, Stages, Untouched, Answered
  <1>3. /\ (Passed' <=> Passed) /\ (ReadByAdapter' <=> ReadByAdapter)
        /\ Refusal' = Refusal /\ Payload' = Payload
    BY SameRequest, SameBody
  <1>4. TypeOK'
    BY DEF IInv, TypeOK, Places
  <1>5. Stages'
    BY <1>1, <1>2, <1>3 DEF Stages
  <1>6. Sent'
    <2>1. (body # None => ReadByAdapter)'
      BY <1>3 DEF IInv, Sent
    <2>2. (upstream = "tool_call" => request.route = "chat")'
      BY <1>2
    <2> QED
      BY <1>1, <1>3, <2>1, <2>2 DEF Sent
  <1>7. Answered'
    BY <1>2, Unanswered
  <1> QED
    BY <1>4, <1>5, <1>6, <1>7 DEF IInv

LEMMA ProbeKeeps == IInv /\ Probe => IInv'
  <1> SUFFICES ASSUME IInv, Probe
               PROVE  IInv'
    OBVIOUS
  <1>1. /\ pc = "probe" /\ pc' = "call"
        /\ UNCHANGED <<config, request, body, ctx, upstream, answer>>
        /\ forwarded' = IF ctx = "live"
                        THEN [to |-> config.backend, text |-> {}, features |-> {},
                              headers |-> {}]
                        ELSE None
    BY DEF Probe
  <1>2. body = None /\ config.backend \in {"ollama", "llama.cpp"}
    <2>1. request.route = "ready" /\ body = None /\ Passed
      BY <1>1 DEF IInv, Stages, Untouched
    <2> QED
      BY <2>1, Enveloped DEF IInv, Passed
  <1>3. forwarded' \in Messages \cup {None}
    BY <1>1, <1>2 DEF Messages
  <1> QED
    BY <1>1, <1>2, <1>3, ForwardKeeps

LEMMA ProxyForwardKeeps == IInv /\ ProxyForward => IInv'
  <1> SUFFICES ASSUME IInv, ProxyForward
               PROVE  IInv'
    OBVIOUS
  <1>1. /\ pc = "ollama" /\ pc' = "call"
        /\ UNCHANGED <<config, request, body, ctx, upstream, answer>>
        /\ forwarded' = IF ctx = "live"
                        THEN [to |-> "ollama", text |-> {}, features |-> {},
                              headers |-> Copied]
                        ELSE None
    BY DEF ProxyForward
  <1>2. body = None
    BY <1>1 DEF IInv, Stages, Untouched
  <1>3. forwarded' \in Messages \cup {None}
    <2>1. Copied \in SUBSET {"other"}
      BY DEF Copied, Headers
    <2> QED
      BY <1>1, <2>1 DEF Messages
  <1> QED
    BY <1>1, <1>2, <1>3, ForwardKeeps

LEMMA LocallyKeeps == IInv /\ AnswerLocally => IInv'
  <1> SUFFICES ASSUME IInv, AnswerLocally
               PROVE  IInv'
    OBVIOUS
  <1> DEFINE status == IF request.route = "pull" THEN 501 ELSE 200
  <1>1. /\ pc = "llama.cpp" /\ request.route \notin Decoded /\ Answer(status)
        /\ UNCHANGED <<config, request, body, ctx, forwarded>> /\ upstream' = upstream
    BY DEF AnswerLocally
  <1>2. Passed /\ forwarded = None /\ upstream = "silent" /\ request.route \in Ollama
    BY <1>1 DEF IInv, Stages, Untouched
  <1>3. status \in Statuses /\ status \notin {502, 503, 504}
    BY DEF Statuses
  <1> HIDE DEF status
  <1>4. Blames(status, "silent")
    BY <1>1, <1>2, <1>3 DEF Blames, Tells, Ollama, Decoded, Embedding
  <1>5. "silent" \in Upstreams /\ ("silent" = "tool_call" => request.route = "chat")
    BY DEF Upstreams
  <1>6. upstream' = "silent"
    BY <1>1, <1>2
  <1> QED
    BY <1>1, <1>3, <1>4, <1>5, <1>6, AnswerKeeps

LEMMA ReadKeeps == IInv /\ ReadBody => IInv'
  <1> SUFFICES ASSUME IInv, ReadBody
               PROVE  IInv'
    OBVIOUS
  <1>1. /\ pc = "llama.cpp" /\ pc' = "translate" /\ request.route \in Decoded
        /\ body' \in Bodies /\ body'.features \subseteq Offered(request.route)
        /\ body'.text \subseteq Written(request.route)
        /\ request.size = "chunked" => ~body'.json
        /\ UNCHANGED <<config, request, ctx, forwarded, upstream, answer>>
    BY DEF ReadBody
  <1>2. Passed /\ config.backend = "llama.cpp" /\ forwarded = None /\ upstream = "silent"
    BY <1>1 DEF IInv, Stages, Untouched
  <1>3. Passed'
    BY <1>1, <1>2, SameRequest
  <1>4. ReadByAdapter'
    BY <1>1, <1>2, <1>3 DEF ReadByAdapter
  <1>5. TypeOK'
    BY <1>1 DEF IInv, TypeOK, Places
  <1>6. Stages'
    BY <1>1, <1>2, <1>3, <1>4 DEF Stages
  <1>7. Sent'
    BY <1>1, <1>2, <1>4 DEF Sent
  <1>8. Answered'
    <2>1. answer' = None
      BY <1>1 DEF IInv, Answered
    <2> QED
      BY <1>1, <2>1, Unanswered
  <1> QED
    BY <1>5, <1>6, <1>7, <1>8 DEF IInv

LEMMA RefuseKeeps == IInv /\ Refuse => IInv'
  <1> SUFFICES ASSUME IInv, Refuse
               PROVE  IInv'
    OBVIOUS
  <1> DEFINE status == Refusal
  <1>1. /\ pc = "translate" /\ status # 0 /\ Answer(status)
        /\ UNCHANGED <<config, request, body, ctx, forwarded>> /\ upstream' = upstream
    BY DEF Refuse
  <1>2. ReadByAdapter /\ forwarded = None /\ upstream = "silent"
    BY <1>1 DEF IInv, Stages
  <1>3. status \in Refusals
    BY <1>1, <1>2, Translated DEF ReadByAdapter
  <1> HIDE DEF status
  <1>4. status \in Statuses /\ status \notin {200, 502, 503, 504}
    BY <1>3 DEF Refusals, Statuses
  <1>5. Blames(status, "silent")
    BY <1>2, <1>4 DEF Blames, Tells
  <1>6. "silent" \in Upstreams /\ ("silent" = "tool_call" => request.route = "chat")
    BY DEF Upstreams
  <1>7. upstream' = "silent"
    BY <1>1, <1>2
  <1> QED
    BY <1>1, <1>4, <1>5, <1>6, <1>7, AnswerKeeps

LEMMA ShowKeeps == IInv /\ Show => IInv'
  <1> SUFFICES ASSUME IInv, Show
               PROVE  IInv'
    OBVIOUS
  <1>1. /\ pc = "translate" /\ request.route = "show" /\ Answer(200)
        /\ UNCHANGED <<config, request, body, ctx, forwarded>> /\ upstream' = upstream
    BY DEF Show
  <1>2. Passed /\ upstream = "silent"
    BY <1>1 DEF IInv, Stages, ReadByAdapter
  <1>3. 200 \in Statuses /\ Blames(200, "silent")
    BY <1>1, <1>2 DEF Blames, Tells, Statuses
  <1>4. "silent" \in Upstreams /\ ("silent" = "tool_call" => request.route = "chat")
    BY DEF Upstreams
  <1>5. upstream' = "silent"
    BY <1>1, <1>2
  <1> QED
    BY <1>1, <1>3, <1>4, <1>5, AnswerKeeps

LEMMA ForwardingKeeps == IInv /\ Forward => IInv'
  <1> SUFFICES ASSUME IInv, Forward
               PROVE  IInv'
    OBVIOUS
  <1>1. /\ pc = "translate" /\ Refusal = 0 /\ request.route # "show" /\ pc' = "call"
        /\ forwarded' = IF ctx = "live" THEN Payload ELSE None
        /\ UNCHANGED <<config, request, body, ctx, upstream, answer>>
    BY DEF Forward
  <1>2. Payload \in Messages
    <2>1. TextOf(request.route) \in Texts
      BY DEF TextOf, Texts
    <2> QED
      BY <2>1 DEF Payload, Messages
  <1>3. forwarded' \in Messages \cup {None}
    BY <1>1, <1>2
  <1>4. forwarded' # None /\ body # None =>
          Refusal = 0 /\ request.route # "show" /\ forwarded' = Payload
    BY <1>1
  <1> QED
    BY <1>1, <1>3, <1>4, ForwardKeeps

-----------------------------------------------------------------------------
(* The status of a failed call tells who failed.                             *)
LEMMA ErrorBlames ==
  ASSUME NEW outcome, ctx \in {"live", "deadline", "canceled"},
         request.route = "ready" => outcome = "failed",
         outcome = "answered" => ctx # "live"
  PROVE  ErrorStatus \in Statuses /\ Blames(ErrorStatus, outcome)
  <1>1. CASE request.route = "ready"
    <2>1. ErrorStatus = 503
      BY <1>1 DEF ErrorStatus
    <2> QED
      BY <1>1, <2>1 DEF Blames, Tells, Statuses
  <1>2. CASE request.route # "ready" /\ ctx = "deadline"
    <2>1. ErrorStatus = 504
      BY <1>2 DEF ErrorStatus
    <2> QED
      BY <1>2, <2>1 DEF Blames, Tells, Statuses
  <1>3. CASE request.route # "ready" /\ ctx # "deadline"
    <2>1. ErrorStatus = 502
      BY <1>3 DEF ErrorStatus
    <2> QED
      BY <1>3, <2>1 DEF Blames, Tells, Statuses
  <1> QED
    BY <1>1, <1>2, <1>3

LEMMA FailKeeps == IInv /\ CallFails => IInv'
  <1> SUFFICES ASSUME IInv, CallFails
               PROVE  IInv'
    OBVIOUS
  <1> DEFINE status == ErrorStatus
  <1>1. /\ upstream' = "failed" /\ Answer(status)
        /\ UNCHANGED <<config, request, body, ctx, forwarded>>
    BY DEF CallFails
  <1>2. status \in Statuses /\ Blames(status, "failed")
    <2>1. ctx \in {"live", "deadline", "canceled"}
      BY DEF IInv, TypeOK
    <2> QED
      BY <2>1, ErrorBlames
  <1> HIDE DEF status
  <1>3. "failed" \in Upstreams /\ ("failed" = "tool_call" => request.route = "chat")
    BY DEF Upstreams
  <1> QED
    BY <1>1, <1>2, <1>3, AnswerKeeps

LEMMA TooLargeKeeps == IInv /\ ProxyBodyTooLarge => IInv'
  <1> SUFFICES ASSUME IInv, ProxyBodyTooLarge
               PROVE  IInv'
    OBVIOUS
  <1>1. /\ upstream' = "failed" /\ Answer(413)
        /\ UNCHANGED <<config, request, body, ctx, forwarded>>
    BY DEF ProxyBodyTooLarge
  <1>2. 413 \in Statuses /\ Blames(413, "failed")
    BY DEF Blames, Tells, Statuses
  <1>3. "failed" \in Upstreams /\ ("failed" = "tool_call" => request.route = "chat")
    BY DEF Upstreams
  <1> QED
    BY <1>1, <1>2, <1>3, AnswerKeeps

LEMMA BackendRefusesKeeps == IInv /\ BackendRefuses => IInv'
  <1> SUFFICES ASSUME IInv, BackendRefuses
               PROVE  IInv'
    OBVIOUS
  <1> DEFINE status == IF request.route = "ready" THEN 503 ELSE 599
  <1>1. /\ upstream' = "refused" /\ Answer(status)
        /\ UNCHANGED <<config, request, body, ctx, forwarded>>
    BY DEF BackendRefuses
  <1>2. status \in Statuses /\ Blames(status, "refused")
    BY DEF Blames, Tells, Statuses
  <1> HIDE DEF status
  <1>3. "refused" \in Upstreams /\ ("refused" = "tool_call" => request.route = "chat")
    BY DEF Upstreams
  <1> QED
    BY <1>1, <1>2, <1>3, AnswerKeeps

LEMMA StreamKeeps == IInv /\ BackendStreams => IInv'
  <1> SUFFICES ASSUME IInv, BackendStreams
               PROVE  IInv'
    OBVIOUS
  <1>1. /\ pc = "call" /\ upstream' = "answered" /\ Answer(200)
        /\ UNCHANGED <<config, request, body, ctx, forwarded>>
    BY DEF BackendStreams
  <1>2. Passed
    BY <1>1 DEF IInv, Stages
  <1>3. 200 \in Statuses /\ Blames(200, "answered")
    BY <1>2 DEF Blames, Tells, Statuses
  <1>4. "answered" \in Upstreams /\ ("answered" = "tool_call" => request.route = "chat")
    BY DEF Upstreams
  <1> QED
    BY <1>1, <1>3, <1>4, AnswerKeeps

LEMMA WholeKeeps == IInv /\ BackendAnswers => IInv'
  <1> SUFFICES ASSUME IInv, BackendAnswers
               PROVE  IInv'
    OBVIOUS
  <1>1. /\ pc = "call" /\ pc' = "decode" /\ request.route # "ready"
        /\ upstream' \in {"answered", "empty", "malformed"}
                           \cup IF request.route = "chat" THEN {"tool_call"} ELSE {}
        /\ UNCHANGED <<config, request, body, ctx, forwarded, answer>>
    BY DEF BackendAnswers
  <1>2. /\ upstream' \in {"answered", "empty", "malformed", "tool_call"}
        /\ upstream' = "tool_call" => request.route = "chat"
    BY <1>1
  <1>3. Passed' /\ request.route \in Ollama \cup {"ready"}
    BY <1>1, SameRequest DEF IInv, Stages
  <1>4. TypeOK'
    BY <1>1, <1>2 DEF IInv, TypeOK, Places, Upstreams
  <1>5. Stages'
    BY <1>1, <1>2, <1>3 DEF Stages
  <1>6. Sent'
    BY <1>1, <1>2, SentKeeps DEF IInv
  <1>7. Answered'
    <2>1. answer' = None
      BY <1>1 DEF IInv, Answered
    <2> QED
      BY <1>1, <2>1, Unanswered
  <1> QED
    BY <1>4, <1>5, <1>6, <1>7 DEF IInv

LEMMA DecodeKeeps == IInv /\ DecodeAnswer => IInv'
  <1> SUFFICES ASSUME IInv, DecodeAnswer
               PROVE  IInv'
    OBVIOUS
  <1>1. pc = "decode" /\ UNCHANGED <<config, request, body, ctx, forwarded, upstream>>
    BY DEF DecodeAnswer
  <1>2. PICK cut \in {FALSE, ctx # "live"} :
          Answer(IF cut \/ Unusable THEN ErrorStatus ELSE 200)
    BY DEF DecodeAnswer
  <1> DEFINE status == IF cut \/ Unusable THEN ErrorStatus ELSE 200
  <1>3. /\ Passed /\ request.route # "ready"
        /\ upstream \in {"answered", "empty", "malformed", "tool_call"}
        /\ upstream = "tool_call" => request.route = "chat"
        /\ ctx \in {"live", "deadline", "canceled"}
    BY <1>1 DEF IInv, Stages, Sent, TypeOK
  <1>4. status \in Statuses /\ Blames(status, upstream)
    <2>1. CASE cut \/ Unusable
      <3>1. upstream = "answered" => ctx # "live"
        <4>1. cut => ctx # "live"
          <5>1. cut = FALSE \/ cut = (ctx # "live")
            BY Zenon
          <5>2. CASE cut = FALSE
            BY <5>2, Zenon
          <5>3. CASE cut = (ctx # "live")
            BY <5>3, Zenon
          <5> QED
            BY <5>1, <5>2, <5>3, Zenon
        <4>2. upstream = "answered" => ~Unusable
          BY DEF Unusable
        <4> QED
          BY <2>1, <4>1, <4>2, Zenon
      <3>2. ErrorStatus \in Statuses /\ Blames(ErrorStatus, upstream)
        BY <1>3, <3>1, ErrorBlames
      <3> QED
        BY <2>1, <3>2
    <2>2. CASE ~(cut \/ Unusable)
      <3>1. upstream # "malformed" /\ (upstream = "empty" => request.route = "embed")
        BY <2>2 DEF Unusable
      <3>2. 200 \in Statuses /\ Blames(200, upstream)
        BY <1>3, <3>1 DEF Blames, Tells, Statuses
      <3> QED
        BY <2>2, <3>2
    <2> QED
      BY <2>1, <2>2
  <1>5. Answer(status)
    BY <1>2
  <1> HIDE DEF status
  <1>6. upstream \in Upstreams
    BY DEF IInv, TypeOK
  <1>7. PICK outcome \in Upstreams : outcome = upstream
    BY <1>6
  <1>8. Blames(status, outcome) /\ (outcome = "tool_call" => request.route = "chat")
    BY <1>3, <1>4, <1>7
  <1>9. upstream' = outcome /\ UNCHANGED <<config, request, body, ctx, forwarded>>
    BY <1>1, <1>7
  <1> QED
    BY <1>4, <1>5, <1>8, <1>9, AnswerKeeps

(* The context ends before the answer: nothing else is touched.              *)
LEMMA ContextEndKeeps == IInv /\ (DeadlinePasses \/ ClientLeaves) => IInv'
  <1> SUFFICES ASSUME IInv, DeadlinePasses \/ ClientLeaves
               PROVE  IInv'
    OBVIOUS
  <1>1. /\ pc # "answered" /\ ctx' \in {"deadline", "canceled"}
        /\ UNCHANGED <<config, request, pc, body, forwarded, upstream, answer>>
    BY DEF DeadlinePasses, ClientLeaves
  <1>2. (Passed' <=> Passed) /\ (ReadByAdapter' <=> ReadByAdapter)
    BY <1>1, SameRequest, SameBody
  <1>3. TypeOK'
    BY <1>1 DEF IInv, TypeOK
  <1>4. Stages'
    BY <1>1, <1>2 DEF IInv, Stages, Untouched
  <1>5. Sent'
    BY <1>1, SentKeeps DEF IInv, Sent
  <1>6. Answered'
    <2>1. answer' = None
      BY <1>1 DEF IInv, Answered
    <2> QED
      BY <1>1, <2>1, Unanswered
  <1> QED
    BY <1>3, <1>4, <1>5, <1>6 DEF IInv

LEMMA NextInvariant == IInv /\ [Next]_vars => IInv'
  <1> SUFFICES ASSUME IInv, [Next]_vars
               PROVE  IInv'
    OBVIOUS
  <1>1. CASE UNCHANGED vars
    <2>1. UNCHANGED <<config, request, pc, body, ctx, forwarded, upstream, answer>>
      BY <1>1 DEF vars
    <2>2. (Passed' <=> Passed) /\ (ReadByAdapter' <=> ReadByAdapter)
      BY <2>1, SameRequest, SameBody
    <2>3. TypeOK'
      BY <2>1 DEF IInv, TypeOK
    <2>4. Stages'
      BY <2>1, <2>2 DEF IInv, Stages, Untouched
    <2>5. Sent'
      BY <2>1, SentKeeps DEF IInv, Sent
    <2>6. Answered'
      BY <2>1, <2>2 DEF IInv, Answered, StatusTellsWhoFailed
    <2> QED
      BY <2>3, <2>4, <2>5, <2>6 DEF IInv
  <1>2. CASE Next
    BY <1>2, GatesKeep, NativeKeep, ProbeKeeps, LocallyKeeps, ReadKeeps, RefuseKeeps, ShowKeeps,
       ForwardingKeeps, ProxyForwardKeeps, FailKeeps, TooLargeKeeps, BackendRefusesKeeps,
       StreamKeeps, WholeKeeps, DecodeKeeps, ContextEndKeeps DEF Next
  <1> QED
    BY <1>1, <1>2

(* The invariant, of every configuration the service starts with.            *)
THEOREM Invariant == Spec => []IInv
  <1>1. Init => IInv
    BY InitInvariant
  <1>2. IInv /\ [Next]_vars => IInv'
    BY NextInvariant
  <1> QED
    BY <1>1, <1>2, PTL DEF Spec

(* Every variable keeps its type.                                            *)
THEOREM TypeCorrect == Spec => []TypeOK
  <1>1. IInv => TypeOK
    BY DEF IInv
  <1> QED
    BY <1>1, Invariant, PTL

-----------------------------------------------------------------------------
LEMMA Routed ==
  /\ Decoded \subseteq Ollama /\ Decoded \cap Probes = {}
  /\ "pull" \notin Decoded /\ "ready" \notin Ollama
  /\ Ollama \cap Probes = {}
  /\ Decoded = {"chat", "generate", "show"} \cup Embedding
  BY DEF Decoded, Ollama, Probes, Embedding

LEMMA GatesHold == IInv => NothingSlipsThrough
  <1> SUFFICES ASSUME IInv
               PROVE  NothingSlipsThrough
    OBVIOUS
  <1>1. body # None => Passed /\ request.route \in Decoded
    BY DEF IInv, Sent, ReadByAdapter
  <1>2. forwarded # None => /\ Passed /\ request.route \in Ollama \cup {"ready"}
                            /\ request.route = "pull" => config.backend = "ollama"
    BY DEF IInv, Sent
  <1>3. request.route \in Ollama /\ (forwarded # None \/ body # None) =>
          /\ request.method
          /\ config.token => request.token
          /\ request.route = "pull" => config.mutation /\ config.backend = "ollama"
          /\ request.size # "declared"
    BY <1>1, <1>2, Routed DEF Passed, Authorized
  <1>4. request.route \notin Ollama =>
          body = None /\ (forwarded # None => request.route = "ready")
    BY <1>1, <1>2, Routed
  <1>5. forwarded # None => "Authorization" \notin forwarded.headers
    BY DEF IInv, TypeOK, Messages
  <1> QED
    BY <1>3, <1>4, <1>5 DEF NothingSlipsThrough

LEMMA StrangersLearnNothing == IInv => ExposedServiceIsGuarded
  <1> SUFFICES ASSUME IInv, config.exposed, ~request.token
               PROVE  /\ body = None
                      /\ forwarded # None => request.route = "ready"
                      /\ answer = 200 => request.route \in Probes
    BY DEF ExposedServiceIsGuarded
  <1>1. config.token
    BY Enveloped DEF IInv
  <1>2. Passed => request.route \in Probes
    BY <1>1 DEF Passed, Authorized
  <1>3. body # None => Passed /\ request.route \in Decoded
    BY DEF IInv, Sent, ReadByAdapter
  <1>4. forwarded # None => Passed /\ request.route \in Ollama \cup {"ready"}
    BY DEF IInv, Sent
  <1>5. answer = 200 => Passed
    BY DEF IInv, Answered
  <1> QED
    BY <1>2, <1>3, <1>4, <1>5, Routed

LEMMA OnlyTheUnseenIsLost == IInv => UnsupportedIsRefused
  <1> DEFINE unseen == IF request.route = "generate" THEN {"think"} ELSE {}
             others == CASE request.route = "embed"      -> {"prompt"}
                         [] request.route = "embeddings" -> {"input"}
                         [] OTHER                        -> {}
  <1> SUFFICES ASSUME IInv, body # None, forwarded # None
               PROVE  /\ body.json /\ body.model = "configured" /\ request.size = "fits"
                      /\ body.features \subseteq forwarded.features \cup unseen
                      /\ body.text \subseteq forwarded.text \cup others
                      /\ forwarded.text = {} => request.route \in {"generate", "embeddings"}
                      /\ upstream = "tool_call" => "tools" \notin body.features
    BY DEF UnsupportedIsRefused
  <1>1. /\ Passed /\ request.route \in Decoded /\ body \in Bodies
        /\ body.features \subseteq Offered(request.route)
        /\ body.text \subseteq Written(request.route)
        /\ request.size = "chunked" => ~body.json
    BY DEF IInv, Sent, ReadByAdapter
  <1>2. Refusal = 0 /\ request.route # "show" /\ forwarded = Payload
    BY DEF IInv, Sent
  <1>3. /\ body.json /\ body.model = "configured"
        /\ request.route = "chat" =>
             /\ "messages" \in body.text
             /\ body.features \cap {"tools", "think", "format", "role", "images", "history",
                                    "other_option"} = {}
        /\ request.route = "generate" =>
             body.features \cap {"images", "format", "other_option"} = {}
        /\ request.route \in Embedding =>
             /\ body.features \cap {"safe_option", "other_option"} = {}
             /\ request.route = "embed" => "input" \in body.text
    BY <1>1, <1>2, Translated
  <1>4. request.size = "fits"
    BY <1>1, <1>3, Enveloped, Routed DEF IInv, Passed
  <1>5. /\ forwarded.features = body.features \cap {"safe_option"}
        /\ forwarded.text = body.text \cap {TextOf(request.route)}
    BY <1>1, <1>2 DEF Payload
  <1>6. CASE request.route = "chat"
    <2>1. /\ Written(request.route) = {"messages"} /\ TextOf(request.route) = "messages"
          /\ Offered(request.route) = Features
      BY <1>6 DEF Written, TextOf, Offered, Embedding
    <2> QED
      BY <1>1, <1>3, <1>4, <1>5, <1>6, <2>1 DEF Features
  <1>7. CASE request.route = "generate"
    <2>1. /\ Written(request.route) = {"prompt"} /\ TextOf(request.route) = "prompt"
          /\ Offered(request.route)
               = {"think", "format", "images", "safe_option", "other_option"}
      BY <1>7 DEF Written, TextOf, Offered, Embedding
    <2>2. upstream # "tool_call"
      BY <1>7 DEF IInv, Sent
    <2>3. unseen = {"think"} /\ others = {}
      BY <1>7
    <2>4. body.text \subseteq forwarded.text
      BY <1>1, <1>5, <2>1
    <2>5. body.features \subseteq forwarded.features \cup unseen
      BY <1>1, <1>3, <1>5, <1>7, <2>1, <2>3
    <2> QED
      BY <1>3, <1>4, <1>7, <2>2, <2>4, <2>5
  <1>8. CASE request.route \in Embedding
    <2>1. /\ Written(request.route) = {"prompt", "input"}
          /\ TextOf(request.route) = IF request.route = "embed" THEN "input" ELSE "prompt"
          /\ Offered(request.route) = {"safe_option", "other_option"}
          /\ others = IF request.route = "embed" THEN {"prompt"} ELSE {"input"}
          /\ request.route \in {"embed", "embeddings"}
      BY <1>8 DEF Written, TextOf, Offered, Embedding
    <2>2. upstream # "tool_call"
      BY <2>1 DEF IInv, Sent
    <2> HIDE DEF others
    <2>3. body.features = {}
      BY <1>1, <1>3, <1>8, <2>1
    <2>4. body.text \subseteq forwarded.text \cup others
      BY <1>1, <1>5, <2>1
    <2>5. forwarded.text = {} => request.route = "embeddings"
      BY <1>3, <1>5, <1>8, <2>1
    <2> QED
      BY <1>3, <1>4, <2>2, <2>3, <2>4, <2>5
  <1> QED
    BY <1>1, <1>2, <1>6, <1>7, <1>8, Routed

(* No request reaches a backend, and no body is read, unless it has passed   *)
(* every gate (server.go:304-328): whatever the configuration.               *)
THEOREM NothingPassesTheGates == Spec => []NothingSlipsThrough
  BY Invariant, GatesHold, PTL

(* However the environment is written, an exposed service tells a request    *)
(* without the token only whether it is alive and ready, and asks a backend  *)
(* nothing else for it (config.go:120-122, 141-152).                         *)
THEOREM ExposureIsGuarded == Spec => []ExposedServiceIsGuarded
  BY Invariant, StrangersLearnNothing, PTL

(* What a body asks for is carried to llama.cpp or refused, for any number   *)
(* of features at once, but for the think of /api/generate and the text      *)
(* field of the other embedding route (client.go:202-244, 334-351).          *)
THEOREM RefusedOrCarried == Spec => []UnsupportedIsRefused
  BY Invariant, OnlyTheUnseenIsLost, PTL

(* A status tells who failed (server.go:335-349, client.go:378-391).         *)
THEOREM StatusIsHonest == Spec => []StatusTellsWhoFailed
  <1>1. IInv => StatusTellsWhoFailed
    BY DEF IInv, Answered
  <1> QED
    BY <1>1, Invariant, PTL

=============================================================================
