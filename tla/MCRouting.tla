------------------------------ MODULE MCRouting ------------------------------
(***************************************************************************)
(* Routing for TLC: two models that may claim each other's ID or one alias, *)
(* with artifacts that inherit their backend, repeat or differ in it; and   *)
(* single manifests that fail one check each or have any window of versions *)
(* with up to two prerelease identifiers, below, at and above MaxWord.      *)
(***************************************************************************)
EXTENDS Routing

Artifact(kind, uri) == [kind |-> kind, uri |-> uri, digest |-> TRUE]
Number(n) == [numeric |-> TRUE, value |-> n]
Word(n)   == [numeric |-> FALSE, value |-> n]
Version(core, prerelease) == [core |-> core, prerelease |-> prerelease]

Plain(id, others, kind, capabilities, class, artifacts) ==
  [id |-> id, aliases |-> others, kind |-> kind, capabilities |-> capabilities,
   class |-> class, artifacts |-> artifacts, family |-> id, variant |-> "large",
   experts |-> None, revision |-> "pinned", wellFormed |-> TRUE,
   least |-> Version(1, <<>>), largest |-> None,
   state |-> [verification |-> "verified", lifecycle |-> "active"]]

First  == {Plain(1, <<3>>, 2, capabilities, class, artifacts) :
             capabilities \in {{"text"}, {"tools"}}, class \in {"dense", "moe"},
             artifacts \in {<<Artifact(0, 1)>>, <<Artifact(2, 1), Artifact(1, 2)>>,
                            <<Artifact(0, 2), Artifact(2, 2), Artifact(2, 1)>>}}
Second == {Plain(2, others, 1, {"text"}, "dense", <<Artifact(0, 1)>>) :
             others \in {<<>>, <<1>>, <<3>>}}

Good  == Plain(5, <<6>>, 3, {"text"}, "moe", <<Artifact(0, 1)>>)
Odd   == {[Good EXCEPT !.wellFormed = FALSE], [Good EXCEPT !.aliases = <<6, 6>>],
          [Good EXCEPT !.aliases = <<5>>], [Good EXCEPT !.revision = "unresolved"],
          [Good EXCEPT !.artifacts = <<>>],
          [Good EXCEPT !.artifacts = <<Artifact(0, 1), Artifact(0, 1)>>],
          [Good EXCEPT !.artifacts = <<[Artifact(0, 1) EXCEPT !.digest = FALSE]>>],
          [Good EXCEPT !.capabilities = {"text", "tool_streaming"}],
          [Good EXCEPT !.class = "dense", !.experts = [total |-> 2, active |-> 1]],
          [Good EXCEPT !.experts = [total |-> 1, active |-> 2]],
          [Good EXCEPT !.state.verification = "failed"]}
Prereleases == {<<>>, <<Number(1)>>, <<Number(2)>>, <<Number(3)>>, <<Number(4)>>, <<Word(1)>>,
                <<Number(1), Word(1)>>}
Versions == {Version(1, p) : p \in Prereleases} \cup {Version(2, <<Number(1)>>)}
Windows  == {[Good EXCEPT !.least = least, !.largest = largest] :
               least \in Versions, largest \in Versions}

MCCatalogs == {<<>>} \cup {<<m>> : m \in Odd \cup Windows}
                \cup {<<m, n>> : m \in First \cup Second, n \in First \cup Second}
                \cup {<<m, n>> : m \in First, n \in Odd}

Offering(text, experts) ==
  [c \in {"text", "expert_offload", "placement"} |->
     IF c = "text" THEN text ELSE IF c = "expert_offload" THEN experts ELSE "supported"]
Override(support, verified) == [support |-> support, verified |-> verified]

MCDescriptors ==
  [id : 1..2, kind : 1..2, state : {"ready", "unavailable"},
   offers : {Offering("supported", "unknown"), Offering("conditional", "conditional")},
   override : {Override("supported", TRUE)}]
  \cup
  [id : {1}, kind : {2, 3}, state : {"ready"}, offers : {Offering("supported", "unknown")},
   override : {Override("unknown", TRUE)}]

MCPolicies ==
  [id : {1}, family : {1}, kind : {1}, variants : {{"large", "small"}}]
  \cup [id : {2, 3}, family : {1}, kind : {2}, variants : {{"*"}}]
  \cup [id : {4}, family : {1}, kind : {2}, variants : {{"small"}}]
=============================================================================
