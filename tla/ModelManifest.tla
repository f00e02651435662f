---------------------------- MODULE ModelManifest ----------------------------
(***************************************************************************)
(* What a model manifest must satisfy before it is registered (internal/   *)
(* modelmanifest, Validate), and the order of the versions in its window.  *)
(*                                                                         *)
(* Names, kinds and URIs are numbers, ordered as the strings are; the      *)
(* fields that are checked one by one against a pattern, an enumeration or *)
(* a length are one field, wellFormed.  A version is its major.minor.patch *)
(* as one number and the identifiers of its prerelease, a numeric one      *)
(* being the number it spells out, of any size.                            *)
(***************************************************************************)
EXTENDS Integers, FiniteSets, SequencesExt

CONSTANTS
  MaxWord,  \* 2^64 - 1 in the code
  None      \* nothing given: no largest version, no expert topology, no plan

ASSUME MaxWordAssumption == MaxWord \in Nat

Positive    == Nat \ {0}
SemVersions == [core : Nat, prerelease : Seq([numeric : BOOLEAN, value : Nat])]
Artifacts   == [kind : Nat, uri : Nat, digest : BOOLEAN]  \* kind 0: the manifest's
Manifests   ==
  [id : Nat, aliases : Seq(Nat), kind : Positive, family : Nat, variant : STRING,
   class : {"dense", "moe", "unknown"}, experts : {None} \cup [total : Nat, active : Nat],
   capabilities : SUBSET {"text", "tools", "tool_streaming"}, artifacts : Seq(Artifacts),
   revision : {"pinned", "unresolved"}, wellFormed : BOOLEAN,
   least : SemVersions, largest : {None} \cup SemVersions,
   state : [verification : {"unverified", "verified", "failed"},
            lifecycle : {"active", "deprecated", "blocked"}]]

(* ParseUint of a number out of range returns the largest one, and the error  *)
(* that says so is dropped.                                                    *)
ParseUint(n) == IF n > MaxWord THEN MaxWord ELSE n

(* Mutant: a numeric identifier comes after the others.                       *)
CompareNumericLast(a, b) ==
  IF a = b THEN 0
  ELSE IF a.numeric /\ b.numeric
       THEN IF ParseUint(a.value) < ParseUint(b.value) THEN -1 ELSE 1
  ELSE IF a.numeric # b.numeric THEN IF b.numeric THEN -1 ELSE 1
  ELSE IF a.value < b.value THEN -1 ELSE 1

CompareIdentifiers(a, b) ==
  IF a = b THEN 0
  ELSE IF a.numeric /\ b.numeric
       THEN IF ParseUint(a.value) < ParseUint(b.value) THEN -1 ELSE 1
  ELSE IF a.numeric # b.numeric THEN IF a.numeric THEN -1 ELSE 1
  ELSE IF a.value < b.value THEN -1 ELSE 1

ComparePrereleases(p, q) ==
  LET shared == DOMAIN p \cap DOMAIN q
      apart  == {i \in shared : p[i] # q[i]}
  IN  IF p = q          THEN 0
      ELSE IF p = <<>>   THEN 1
      ELSE IF q = <<>>   THEN -1
      ELSE IF apart # {} THEN CompareIdentifiers(p[Min(apart)], q[Min(apart)])
      ELSE IF Len(p) < Len(q) THEN -1 ELSE 1

CompareVersion(v, w) ==
  CASE v.core < w.core -> -1
    [] v.core > w.core -> 1
    [] OTHER           -> ComparePrereleases(v.prerelease, w.prerelease)

-----------------------------------------------------------------------------
ValidAliases(m) ==
  /\ m.id \notin ToSet(m.aliases)
  /\ IsInjective(m.aliases)

ValidSource(m) == m.state.verification = "verified" => m.revision # "unresolved"

ValidArtifacts(m) ==
  /\ m.artifacts # <<>>
  /\ \A i, j \in DOMAIN m.artifacts :
       /\ m.artifacts[i].kind = m.artifacts[j].kind
       /\ m.artifacts[i].uri = m.artifacts[j].uri
       => i = j
  /\ m.state.verification = "verified" =>
       \A i \in DOMAIN m.artifacts : m.artifacts[i].digest

ValidModel(m) ==
  m.experts # None =>
    /\ m.class = "moe"
    /\ 1 <= m.experts.active /\ m.experts.active <= m.experts.total

ValidCapabilities(m) ==
  /\ m.capabilities \ {"tool_streaming"} # {}
  /\ "tool_streaming" \in m.capabilities => "tools" \in m.capabilities

ValidCompatibility(m) ==
  m.largest = None \/ CompareVersion(m.largest, m.least) >= 0

ValidState(m) == ~(m.state.verification = "failed" /\ m.state.lifecycle = "active")

Validates(m) ==
  /\ m.wellFormed /\ ValidAliases(m) /\ ValidSource(m) /\ ValidArtifacts(m)
  /\ ValidModel(m) /\ ValidCapabilities(m) /\ ValidCompatibility(m) /\ ValidState(m)
=============================================================================
