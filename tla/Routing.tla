------------------------------- MODULE Routing -------------------------------
(***************************************************************************)
(* POST /v1/route: the registry of canonical models (internal/             *)
(* modelregistry), built once from the manifests, and the router           *)
(* (internal/backendrouter), which plans which backend and artifact serve  *)
(* a model identifier and a set of required capabilities, and which        *)
(* policies (internal/modelpolicy) apply.                                  *)
(*                                                                         *)
(* Covered: validation (ModelManifest) and registration manifest by        *)
(* manifest and alias by alias, its four conflicts; the descriptors'       *)
(* validation; lookup by id and alias; the scan of artifacts by backends   *)
(* in the order of the code.                                               *)
(*                                                                         *)
(* Abstracted: one capability stands for each way modelSupports treats     *)
(* one.  Left out: the validation of the embedded policies.                *)
(***************************************************************************)
EXTENDS ModelManifest

CONSTANTS
  Catalogs,      \* sequences of manifests a registry may be built from
  Descriptors,   \* backend descriptors
  BackendKinds,  \* the kinds a descriptor may have, fewer than a manifest
  Policies,      \* the embedded policies
  Identifiers,   \* identifiers a client may ask for
  MaxBackends    \* bound: backends configured

Capabilities == {"text", "expert_offload", "placement", "bogus"}
Support      == {"supported", "conditional", "unsupported", "unknown"}

ASSUME CatalogAssumption == Catalogs \subseteq Seq(Manifests)
ASSUME DescriptorAssumption == \A d \in Descriptors :
  /\ d.id \in Nat /\ d.kind \in Positive
  /\ d.state \in {"ready", "unknown", "unavailable", "disabled"}
  /\ d.offers \in [{"text", "expert_offload", "placement"} -> Support]
  /\ d.override \in [support : Support, verified : BOOLEAN]
ASSUME RequestAssumption == Identifiers \subseteq Nat /\ MaxBackends \in Nat
(* modelpolicy.Validate and Builtin: a policy has variants, its id is its own. *)
ASSUME PolicyAssumption ==
  /\ IsFiniteSet(Policies)
  /\ \A p, q \in Policies : p.variants # {} /\ p.id \in Nat /\ (p.id = q.id => p = q)

VARIABLES
  manifests,   \* the manifests, in the order they are read
  byID,        \* Registry.byID
  aliases,     \* Registry.aliases: pairs <<alias, id>>
  pc,          \* where New or Route is
  turn,        \* the next manifest, then the next candidate and backend
  unclaimed,   \* aliases of the current manifest still to register
  backends,    \* the descriptors the router was given
  request,     \* identifier and required capabilities
  plan         \* the Plan

vars == <<manifests, byID, aliases, pc, turn, unclaimed, backends, request, plan>>

-----------------------------------------------------------------------------
Init ==
  /\ manifests \in Catalogs
  /\ byID = {}
  /\ aliases = {}
  /\ pc = "manifest"
  /\ turn = [manifest |-> 1, candidate |-> 1, backend |-> 1]
  /\ unclaimed = {}
  /\ backends = <<>>
  /\ request = [identifier |-> 0, required |-> {}]
  /\ plan = None

Current     == manifests[turn.manifest]
IsID(name)  == \E m \in byID : m.id = name
Owned(name) == \E pair \in aliases : pair[1] = name

Register(conflict) ==
  /\ pc = "manifest"
  /\ turn.manifest <= Len(manifests)
  /\ IF ~Validates(Current) THEN pc' = "invalid" /\ UNCHANGED <<byID, unclaimed>>
     ELSE IF conflict      THEN pc' = "conflict" /\ UNCHANGED <<byID, unclaimed>>
     ELSE /\ byID' = byID \cup {Current}
          /\ unclaimed' = ToSet(Current.aliases)
          /\ pc' = "alias"
  /\ UNCHANGED <<manifests, aliases, turn, backends, request, plan>>

(* Mutant: a canonical id is only compared with the other ids.               *)
RegisterOverAlias == Register(IsID(Current.id))

RegisterID == Register(IsID(Current.id) \/ Owned(Current.id))

(* The aliases of one manifest do not depend on each other's order.          *)
RegisterAlias ==
  /\ pc = "alias"
  /\ \E alias \in unclaimed :
       IF IsID(alias) \/ Owned(alias)
       THEN pc' = "conflict" /\ UNCHANGED <<aliases, unclaimed>>
       ELSE /\ aliases' = aliases \cup {<<alias, Current.id>>}
            /\ unclaimed' = unclaimed \ {alias}
            /\ UNCHANGED pc
  /\ UNCHANGED <<manifests, byID, turn, backends, request, plan>>

NextManifest ==
  /\ pc = "alias"
  /\ unclaimed = {}
  /\ turn' = [turn EXCEPT !.manifest = @ + 1]
  /\ pc' = "manifest"
  /\ UNCHANGED <<manifests, byID, aliases, unclaimed, backends, request, plan>>

-----------------------------------------------------------------------------
Distinct(s) == \A i, j \in DOMAIN s : s[i].id = s[j].id => i = j

ValidDescriptor(d) ==
  /\ d.kind \in BackendKinds
  /\ d.override.verified => d.override.support = "supported"

(* The registry stands; a request arrives at a router with its backends, which *)
(* New refuses if one of them does not validate.                               *)
Ask ==
  /\ pc = "manifest"
  /\ turn.manifest > Len(manifests)
  /\ backends' \in {s \in SeqOf(Descriptors, MaxBackends) : Distinct(s)}
  /\ request' \in [identifier : Identifiers, required : SUBSET Capabilities]
  /\ pc' = IF \A i \in DOMAIN backends' : ValidDescriptor(backends'[i])
           THEN "lookup" ELSE "router_unavailable"
  /\ UNCHANGED <<manifests, byID, aliases, turn, unclaimed, plan>>

(* Lookup: an id hides an alias.                                              *)
Found(name) ==
  IF IsID(name) THEN {m \in byID : m.id = name}
  ELSE {m \in byID : <<name, m.id>> \in aliases}

Lookup ==
  /\ pc = "lookup"
  /\ pc' = IF Found(request.identifier) = {} THEN "model_not_found" ELSE "scan"
  /\ UNCHANGED <<manifests, byID, aliases, turn, unclaimed, backends, request, plan>>

Manifest == CHOOSE m \in Found(request.identifier) : TRUE

(* An artifact without a backend of its own takes the manifest's.            *)
Kind(m, artifact) == IF artifact.kind = 0 THEN m.kind ELSE artifact.kind

(* Mutant: candidates keep the order of the manifest.                         *)
UnsortedCandidates(m) ==
  [i \in DOMAIN m.artifacts |->
     [kind |-> Kind(m, m.artifacts[i]), uri |-> m.artifacts[i].uri]]

(* The elements of a set in the order sort.Slice leaves them in, when no two  *)
(* are alike.                                                                  *)
InOrder(S, Before(_, _)) ==
  CHOOSE s \in [1..Cardinality(S) -> S] :
    \A i, j \in 1..Cardinality(S) : i < j => Before(s[i], s[j])

Entries(m) == {[kind |-> Kind(m, a), uri |-> a.uri] : a \in ToSet(m.artifacts)}

CandidateArtifacts(m) ==
  InOrder(Entries(m), LAMBDA a, b : a.kind < b.kind \/ (a.kind = b.kind /\ a.uri < b.uri))

(* New sorts the backends.                                                    *)
Ordered == InOrder(ToSet(backends), LAMBDA a, b : a.id < b.id)

ModelSupports(m, capability) ==
  CASE capability = "text"           -> "text" \in m.capabilities
    [] capability = "expert_offload" -> m.class = "moe"
    [] capability = "placement"      -> TRUE
    [] OTHER                         -> FALSE

(* Capabilities.State: a name the contract does not know is unknown.         *)
State(d, capability) ==
  IF capability \in DOMAIN d.offers THEN d.offers[capability] ELSE "unknown"

(* Mutant: what the backend says is enough.                                   *)
BackendSatisfies(m, d, required) ==
  \A c \in required : State(d, c) \in {"supported", "conditional"}

RequirementsSatisfied(m, d, required) ==
  \A c \in required :
    ModelSupports(m, c) /\ State(d, c) \in {"supported", "conditional"}

Candidate  == CandidateArtifacts(Manifest)[turn.candidate]
Descriptor == Ordered[turn.backend]
InScan     == /\ pc = "scan"
              /\ turn.candidate <= Len(CandidateArtifacts(Manifest))

Usable(d, candidate) ==
  /\ d.kind = candidate.kind
  /\ d.state \notin {"disabled", "unavailable"}
  /\ RequirementsSatisfied(Manifest, d, request.required)

(* Match: the policies of a family and a variant on one kind of backend.     *)
Matching(m, kind) ==
  {p \in Policies : /\ p.family = m.family /\ p.kind = kind
                    /\ p.variants \cap {m.variant, "*"} # {}}

Match(m, kind) == InOrder({p.id : p \in Matching(m, kind)}, LAMBDA a, b : a < b)

Select ==
  /\ InScan /\ turn.backend <= Len(backends)
  /\ Usable(Descriptor, Candidate)
  /\ plan' = [model |-> Manifest.id, backend |-> Descriptor.id,
              kind |-> Candidate.kind, uri |-> Candidate.uri,
              override |-> Descriptor.override,
              policies |-> Match(Manifest, Descriptor.kind)]
  /\ pc' = "planned"
  /\ UNCHANGED <<manifests, byID, aliases, turn, unclaimed, backends, request>>

Skip ==
  /\ InScan /\ turn.backend <= Len(backends)
  /\ ~Usable(Descriptor, Candidate)
  /\ turn' = [turn EXCEPT !.backend = @ + 1]
  /\ UNCHANGED <<manifests, byID, aliases, pc, unclaimed, backends, request, plan>>

(* Mutant: the scan of the backends is not started afresh.                    *)
NextCandidateOnly ==
  /\ InScan /\ turn.backend > Len(backends)
  /\ turn' = [turn EXCEPT !.candidate = @ + 1]
  /\ UNCHANGED <<manifests, byID, aliases, pc, unclaimed, backends, request, plan>>

NextCandidate ==
  /\ InScan /\ turn.backend > Len(backends)
  /\ turn' = [turn EXCEPT !.candidate = @ + 1, !.backend = 1]
  /\ UNCHANGED <<manifests, byID, aliases, pc, unclaimed, backends, request, plan>>

GiveUp ==
  /\ pc = "scan"
  /\ ~InScan
  /\ pc' = "no_compatible_backend"
  /\ UNCHANGED <<manifests, byID, aliases, turn, unclaimed, backends, request, plan>>

Next ==
  \/ RegisterID \/ RegisterAlias \/ NextManifest
  \/ Ask \/ Lookup \/ Select \/ Skip \/ NextCandidate \/ GiveUp

Spec == Init /\ [][Next]_vars

-----------------------------------------------------------------------------
Stops == {"invalid", "conflict", "router_unavailable", "model_not_found",
          "no_compatible_backend", "planned"}
Turns == [manifest : Positive, candidate : Positive, backend : Positive]
Asked == [identifier : Nat, required : SUBSET Capabilities]
Plans == [model : Nat, backend : Nat, kind : Nat, uri : Nat, policies : Seq(Nat),
          override : [support : Support, verified : BOOLEAN]]

\* Every variable keeps its type.
TypeOK ==
  /\ manifests \in Seq(Manifests)
  /\ byID \subseteq ToSet(manifests)
  /\ aliases \subseteq Nat \X Nat
  /\ pc \in {"manifest", "alias", "lookup", "scan"} \cup Stops
  /\ turn \in Turns
  /\ unclaimed \subseteq Nat
  /\ backends \in Seq(Descriptors) /\ Len(backends) <= MaxBackends
  /\ request \in Asked
  /\ plan \in Plans \cup {None}

Names(m) == {m.id} \cup ToSet(m.aliases)

Disjoint(count) ==
  \A i, j \in 1..count : i # j => Names(manifests[i]) \cap Names(manifests[j]) = {}

(* Precedence of prereleases as semantic versioning has it, for numbers of    *)
(* any size.                                                                   *)
Precedes(p, q) ==
  \/ p # <<>> /\ q = <<>>
  \/ p # <<>> /\ IsStrictPrefix(p, q)
  \/ \E i \in DOMAIN p \cap DOMAIN q :
       /\ SubSeq(p, 1, i - 1) = SubSeq(q, 1, i - 1)
       /\ \/ p[i].numeric /\ ~q[i].numeric
          \/ p[i].numeric = q[i].numeric /\ p[i].value < q[i].value

(* Where they first differ, numbers that do not fit a word are all the same   *)
(* to the code, and the same as the largest that does.                         *)
Saturated(p, q) ==
  \E i \in DOMAIN p \cap DOMAIN q :
    /\ SubSeq(p, 1, i - 1) = SubSeq(q, 1, i - 1)
    /\ p[i].numeric /\ q[i].numeric /\ p[i] # q[i]
    /\ p[i].value >= MaxWord /\ q[i].value >= MaxWord

(* Whatever is offered, a manifest that gets into the registry has a window   *)
(* of versions that is not reversed, short of two numbers from 2^64-1 on, a    *)
(* verified one can be checked down to its artifacts, and none is active that *)
(* failed its verification (manifest.go:119-165, 281-297, 400-453,             *)
(* registry.go:41-43).                                                         *)
StandingManifestsAreSound ==
  \A m \in byID :
    /\ m.largest # None =>
         \/ m.least.core < m.largest.core
         \/ /\ m.least.core = m.largest.core
            /\ \/ ~Precedes(m.largest.prerelease, m.least.prerelease)
               \/ Saturated(m.largest.prerelease, m.least.prerelease)
    /\ m.state.verification = "verified" =>
         m.revision = "pinned" /\ \A a \in ToSet(m.artifacts) : a.digest
    /\ m.state.verification = "failed" => m.state.lifecycle # "active"

(* The registry is refused exactly if two manifests claim one name, in        *)
(* whatever order they are read, so that no identifier has two models         *)
(* (registry.go:44-60).                                                       *)
NamesHaveOneOwner ==
  /\ pc = "conflict" => ~Disjoint(turn.manifest)
  /\ pc # "conflict" => Disjoint(turn.manifest - 1)

Owners == {i \in DOMAIN manifests : request.identifier \in Names(manifests[i])}

(* Every pair of an artifact of m and an enabled backend that would serve it. *)
Compatible(m) ==
  {pair \in ToSet(CandidateArtifacts(m)) \X ToSet(backends) :
     /\ pair[1].kind = pair[2].kind
     /\ pair[2].state \in {"ready", "unknown"}
     /\ \A c \in request.required :
          /\ c = "text" => "text" \in m.capabilities
          /\ c = "expert_offload" => m.class = "moe"
          /\ c # "bogus"
          /\ pair[2].offers[c] \in {"supported", "conditional"}}

(* A plan serves the model that owns the identifier, never another one, with  *)
(* an artifact of it, on an enabled backend of the artifact's kind, with      *)
(* every capability granted by both; of a verified model it serves an         *)
(* artifact with a digest, it names the policies of exactly this model on     *)
(* this kind, and claims no context override that the backend has not         *)
(* (router.go:40-48, 62-85, policy.go:147-161, docs/ARCHITECTURE.md:128-130). *)
PlanServesRequest ==
  pc = "planned" =>
    /\ \E i \in Owners : \E pair \in Compatible(manifests[i]) :
         LET m == manifests[i]
         IN  /\ plan.model = m.id /\ plan.backend = pair[2].id
             /\ plan.kind = pair[1].kind /\ plan.uri = pair[1].uri
             /\ m.state.verification = "verified" =>
                  \E a \in ToSet(m.artifacts) : a.uri = plan.uri /\ a.digest
             /\ \A p \in Policies : p.id \in ToSet(plan.policies) <=>
                  /\ p.family = m.family /\ p.kind = pair[2].kind
                  /\ m.variant \in p.variants \/ "*" \in p.variants
    /\ plan.override.verified => plan.override.support = "supported"

(* The plan does not depend on the order of artifacts or backends: it is the  *)
(* least of all that would do, by kind, then URI, then backend                *)
(* (router.go:50, 110-115).                                                   *)
PlanIsLeast ==
  pc = "planned" =>
    \A i \in Owners : \A pair \in Compatible(manifests[i]) :
      \/ plan.kind < pair[1].kind
      \/ plan.kind = pair[1].kind /\ plan.uri < pair[1].uri
      \/ plan.kind = pair[1].kind /\ plan.uri = pair[1].uri /\ plan.backend <= pair[2].id

(* A refusal is justified: no manifest has the name, or nothing compatible    *)
(* exists (router.go:55-58, 87; server.go:252-260).                           *)
RefusalIsHonest ==
  /\ pc = "model_not_found" => Owners = {}
  /\ pc = "no_compatible_backend" => \A i \in Owners : Compatible(manifests[i]) = {}
=============================================================================
