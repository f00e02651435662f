---------------------------- MODULE RoutingProofs ----------------------------
(***************************************************************************)
(* Proofs about Routing for every catalog of manifests, every set of       *)
(* descriptors and policies and any number of backends: what stands in the *)
(* registry is sound and has its names to itself, and a plan is the first  *)
(* that serves the request.                                                *)
(***************************************************************************)
EXTENDS Routing, SequenceTheorems, FiniteSetTheorems, WellFoundedInduction, TLAPS

(* What the aliases of the first n manifests become.                         *)
Pairs(n) ==
  UNION {{<<alias, manifests[i].id>> : alias \in ToSet(manifests[i].aliases)} : i \in 1..n}

(* The first n manifests are registered, with every alias.                   *)
Whole(n) ==
  /\ n \in 0..Len(manifests)
  /\ byID = {manifests[i] : i \in 1..n}
  /\ aliases = Pairs(n)
  /\ Disjoint(n)

Claimed == ToSet(Current.aliases) \ unclaimed

(* The current manifest is registered with the aliases claimed so far.       *)
Partly ==
  /\ turn.manifest \in 1..Len(manifests)
  /\ byID = {manifests[i] : i \in 1..turn.manifest}
  /\ Disjoint(turn.manifest - 1)
  /\ unclaimed \subseteq ToSet(Current.aliases)
  /\ aliases = Pairs(turn.manifest - 1) \cup {<<alias, Current.id>> : alias \in Claimed}
  /\ \A i \in 1..(turn.manifest - 1) :
       Names(manifests[i]) \cap ({Current.id} \cup Claimed) = {}

Started  == pc \in {"lookup", "scan", "planned", "model_not_found", "no_compatible_backend"}
Scanning == pc \in {"scan", "planned", "no_compatible_backend"}

Registry ==
  /\ \A m \in byID : Validates(m)
  /\ NamesHaveOneOwner
  /\ pc = "manifest" => Whole(turn.manifest - 1)
  /\ pc = "alias" => Partly
  /\ Started \/ pc = "router_unavailable" => Whole(Len(manifests))

Scanned(candidate, backend) ==
  \/ candidate < turn.candidate
  \/ candidate = turn.candidate /\ backend < turn.backend

Served ==
  [model |-> Manifest.id, backend |-> Descriptor.id,
   kind |-> Candidate.kind, uri |-> Candidate.uri,
   override |-> Descriptor.override,
   policies |-> Match(Manifest, Descriptor.kind)]

Scan ==
  /\ pc \in {"manifest", "alias", "lookup"} => turn.candidate = 1 /\ turn.backend = 1
  /\ Started => Distinct(backends) /\ \A i \in DOMAIN backends : ValidDescriptor(backends[i])
  /\ pc = "model_not_found" => Found(request.identifier) = {}
  /\ Scanning =>
       /\ Found(request.identifier) # {}
       /\ \A candidate \in 1..Len(CandidateArtifacts(Manifest)), backend \in 1..Len(backends) :
            Scanned(candidate, backend) =>
              ~Usable(Ordered[backend], CandidateArtifacts(Manifest)[candidate])
  /\ pc = "planned" =>
       /\ turn.candidate <= Len(CandidateArtifacts(Manifest)) /\ turn.backend <= Len(backends)
       /\ Usable(Descriptor, Candidate)
       /\ plan = Served
  /\ pc = "no_compatible_backend" => turn.candidate > Len(CandidateArtifacts(Manifest))

IInv == TypeOK /\ Registry /\ Scan

-----------------------------------------------------------------------------
(* R is a strict order in which any two elements of S can be compared.       *)
Orders(R, S) ==
  /\ \A x \in S : <<x, x>> \notin R
  /\ \A x, y, z \in S : <<x, y>> \in R /\ <<y, z>> \in R => <<x, z>> \in R
  /\ \A x, y \in S : x # y => <<x, y>> \in R \/ <<y, x>> \in R

(* A finite set has a sequence of its elements in order: the place of each   *)
(* is one more than the number of those before it.                           *)
LEMMA Orderable ==
  ASSUME NEW S, IsFiniteSet(S), NEW R, Orders(R, S)
  PROVE  \E s \in [1..Cardinality(S) -> S] :
           \A i, j \in 1..Cardinality(S) : i < j => <<s[i], s[j]>> \in R
  <1> DEFINE n == Cardinality(S)
             Below(x) == {y \in S : <<y, x>> \in R}
             place == [x \in S |-> Cardinality(Below(x)) + 1]
  <1>1. n \in Nat
    BY FS_CardinalityType
  <1>2. \A x \in S : IsFiniteSet(Below(x)) /\ Cardinality(Below(x)) \in Nat
    <2> TAKE x \in S
    <2>1. Below(x) \in SUBSET S
      OBVIOUS
    <2>2. IsFiniteSet(Below(x))
      BY <2>1, FS_Subset
    <2> QED
      BY <2>2, FS_CardinalityType
  <1>3. ASSUME NEW x \in S, NEW y \in S, <<x, y>> \in R
        PROVE  Cardinality(Below(x)) < Cardinality(Below(y))
    <2>1. Below(x) \in SUBSET Below(y)
      BY <1>3 DEF Orders
    <2>2. x \in Below(y) /\ x \notin Below(x)
      BY <1>3 DEF Orders
    <2>3. Below(x) # Below(y)
      BY <2>2
    <2> HIDE DEF Below
    <2>4. /\ Cardinality(Below(x)) <= Cardinality(Below(y))
          /\ Cardinality(Below(y)) = Cardinality(Below(x)) => Below(y) = Below(x)
      BY <1>2, <2>1, FS_Subset
    <2> QED
      BY <1>2, <2>3, <2>4
  <1>4. \A x \in S : Cardinality(Below(x)) + 1 \in 1..n
    <2> TAKE x \in S
    <2>1. Below(x) \in SUBSET S /\ x \notin Below(x)
      BY DEF Orders
    <2>2. Cardinality(Below(x)) <= n /\ (n = Cardinality(Below(x)) => S = Below(x))
      <3> HIDE DEF Below
      <3> QED
        BY <2>1, FS_Subset
    <2>3. Cardinality(Below(x)) # n
      BY <2>1, <2>2
    <2> QED
      BY <1>1, <1>2, <2>2, <2>3
  <1> HIDE DEF Below
  <1>5. place \in [S -> 1..n]
    BY <1>4
  <1>6. \A x, y \in S : place[x] = place[y] => x = y
    <2> SUFFICES ASSUME NEW x \in S, NEW y \in S, place[x] = place[y], x # y
                 PROVE  FALSE
      OBVIOUS
    <2>1. Cardinality(Below(x)) = Cardinality(Below(y))
      BY <1>2
    <2>2. <<x, y>> \in R \/ <<y, x>> \in R
      BY DEF Orders
    <2> QED
      BY <1>2, <1>3, <2>1, <2>2
  <1>7. \A k \in 1..n : \E x \in S : place[x] = k
    <2>1. IsFiniteSet(1..n) /\ Cardinality(1..n) = n
      BY <1>1, FS_Interval
    <2>2. place \in Injection(S, 1..n)
      BY <1>5, <1>6 DEF Injection, IsInjective
    <2>3. place \in Surjection(S, 1..n)
      BY <2>1, <2>2, FS_Injection
    <2> QED
      BY <2>3 DEF Surjection
  <1> DEFINE s == [k \in 1..n |-> CHOOSE x \in S : place[x] = k]
  <1>8. \A k \in 1..n : s[k] \in S /\ place[s[k]] = k
    BY <1>7
  <1>9. s \in [1..n -> S]
    BY <1>8
  <1>10. \A x \in S : place[x] = Cardinality(Below(x)) + 1
    OBVIOUS
  <1> HIDE DEF s, place
  <1>11. ASSUME NEW i \in 1..n, NEW j \in 1..n, i < j
         PROVE  <<s[i], s[j]>> \in R
    <2>1. /\ s[i] \in S /\ s[j] \in S
          /\ Cardinality(Below(s[i])) + 1 = i /\ Cardinality(Below(s[j])) + 1 = j
      BY <1>8, <1>10
    <2>2. s[i] # s[j]
      BY <1>8, <1>11
    <2>3. CASE <<s[j], s[i]>> \in R
      <3>1. Cardinality(Below(s[j])) < Cardinality(Below(s[i]))
        BY <1>3, <2>1, <2>3
      <3> QED
        BY <1>2, <1>11, <2>1, <3>1
    <2> QED
      BY <2>1, <2>2, <2>3 DEF Orders
  <1> QED
    BY <1>9, <1>11

(* A sequence in order has every element of the set.                         *)
LEMMA OrderedHasAll ==
  ASSUME NEW S, IsFiniteSet(S), NEW R, Orders(R, S), NEW s \in [1..Cardinality(S) -> S],
         \A i, j \in 1..Cardinality(S) : i < j => <<s[i], s[j]>> \in R
  PROVE  \A x \in S : \E i \in 1..Cardinality(S) : s[i] = x
  <1> DEFINE n == Cardinality(S)
  <1>1. n \in Nat
    BY FS_CardinalityType
  <1>2. IsFiniteSet(1..n) /\ Cardinality(1..n) = n
    BY <1>1, FS_Interval
  <1>3. \A i, j \in 1..n : s[i] = s[j] => i = j
    <2> SUFFICES ASSUME NEW i \in 1..n, NEW j \in 1..n, s[i] = s[j], i # j
                 PROVE  FALSE
      OBVIOUS
    <2>1. i < j \/ j < i
      BY <1>1
    <2>2. <<s[i], s[j]>> \in R \/ <<s[j], s[i]>> \in R
      BY <2>1
    <2> QED
      BY <2>2 DEF Orders
  <1>4. s \in Injection(1..n, S)
    BY <1>3 DEF Injection, IsInjective
  <1>5. s \in Surjection(1..n, S)
    BY <1>2, <1>4, FS_Injection
  <1> QED
    BY <1>5 DEF Surjection

-----------------------------------------------------------------------------
LEMMA Fields ==
  ASSUME NEW m \in Manifests
  PROVE  /\ m.id \in Nat /\ m.aliases \in Seq(Nat) /\ m.kind \in Positive
         /\ m.artifacts \in Seq(Artifacts)
         /\ m.revision \in {"pinned", "unresolved"}
         /\ m.least \in SemVersions /\ m.largest \in {None} \cup SemVersions
  BY DEF Manifests

LEMMA FiniteRange ==
  ASSUME NEW T, NEW s \in Seq(T)
  PROVE  IsFiniteSet(ToSet(s)) /\ Cardinality(ToSet(s)) <= Len(s)
  <1>1. Len(s) \in Nat /\ DOMAIN s = 1..Len(s) /\ s = [i \in 1..Len(s) |-> s[i]]
    OBVIOUS
  <1>2. s \in Surjection(1..Len(s), ToSet(s))
    <2>1. ToSet(s) = {s[i] : i \in 1..Len(s)}
      BY <1>1, Zenon DEF ToSet
    <2>2. s \in [1..Len(s) -> ToSet(s)]
      BY <1>1, <2>1
    <2>3. \A t \in ToSet(s) : \E i \in 1..Len(s) : s[i] = t
      BY <2>1
    <2> QED
      BY <2>2, <2>3 DEF Surjection
  <1>3. IsFiniteSet(1..Len(s)) /\ Cardinality(1..Len(s)) = Len(s)
    <2>1. \A n \in Nat : IsFiniteSet(1..n) /\ Cardinality(1..n) = n
      BY FS_Interval
    <2> QED
      BY <1>1, <2>1
  <1>4. /\ IsFiniteSet(ToSet(s))
        /\ Cardinality(ToSet(s)) <= Cardinality(1..Len(s))
    <2> DEFINE places == 1..Len(s)
               range == ToSet(s)
    <2>1. IsFiniteSet(places) /\ s \in Surjection(places, range)
      BY <1>2, <1>3
    <2> HIDE DEF places, range
    <2>2. IsFiniteSet(range) /\ Cardinality(range) <= Cardinality(places)
      BY <2>1, FS_Surjection
    <2> QED
      BY <2>2 DEF places, range
  <1> QED
    BY <1>3, <1>4

LEMMA EntriesTyped ==
  ASSUME NEW m \in Manifests
  PROVE  \A e \in Entries(m) : e \in [kind : Nat, uri : Nat]
  <1>1. m.artifacts \in Seq(Artifacts) /\ m.kind \in Positive
    BY Fields
  <1>2. \A a \in ToSet(m.artifacts) : a \in Artifacts
    BY <1>1 DEF ToSet
  <1>3. \A a \in Artifacts : Kind(m, a) \in Nat /\ a.uri \in Nat
    BY <1>1 DEF Artifacts, Kind, Positive
  <1> QED
    BY <1>2, <1>3 DEF Entries

LEMMA CandidatesInOrder ==
  ASSUME NEW m \in Manifests
  PROVE  /\ CandidateArtifacts(m) \in Seq(Entries(m))
         /\ \A e \in Entries(m) : \E i \in 1..Len(CandidateArtifacts(m)) : CandidateArtifacts(m)[i] = e
         /\ \A i, j \in 1..Len(CandidateArtifacts(m)) : i < j =>
              LET a == CandidateArtifacts(m)[i]
                  b == CandidateArtifacts(m)[j]
              IN  a.kind < b.kind \/ (a.kind = b.kind /\ a.uri < b.uri)
  <1> DEFINE S == Entries(m)
             n == Cardinality(S)
             Before(a, b) == a.kind < b.kind \/ (a.kind = b.kind /\ a.uri < b.uri)
             R == {pair \in S \X S : Before(pair[1], pair[2])}
             c == CandidateArtifacts(m)
  <1>1. m.artifacts \in Seq(Artifacts) /\ m.kind \in Positive
    BY Fields
  <1>2. IsFiniteSet(S)
    <2> DEFINE T == ToSet(m.artifacts)
               entry == [a \in T |-> [kind |-> Kind(m, a), uri |-> a.uri]]
    <2>1. IsFiniteSet(T)
      BY <1>1, FiniteRange
    <2>2. S = {[kind |-> Kind(m, a), uri |-> a.uri] : a \in T}
      BY DEF Entries
    <2> HIDE DEF S, T
    <2>3. entry \in Surjection(T, S)
      BY <2>2 DEF Surjection
    <2> QED
      BY <2>1, <2>3, FS_Surjection
  <1>3. \A a \in S : a \in [kind : Nat, uri : Nat]
    BY EntriesTyped
  <1>4. n \in Nat
    BY <1>2, FS_CardinalityType
  <1>5. c = CHOOSE s \in [1..n -> S] : \A i, j \in 1..n : i < j => Before(s[i], s[j])
    BY DEF CandidateArtifacts, InOrder
  <1> HIDE DEF S, c
  <1>6. Orders(R, S)
    <2>1. \A a, b \in S : <<a, b>> \in R <=> Before(a, b)
      OBVIOUS
    <2> HIDE DEF R
    <2>2. \A a \in S : a.kind \in Nat /\ a.uri \in Nat
      BY <1>3
    <2>3. \A a, b \in S : a.kind = b.kind /\ a.uri = b.uri => a = b
      <3> TAKE a, b \in S
      <3>1. a \in [kind : Nat, uri : Nat] /\ b \in [kind : Nat, uri : Nat]
        BY <1>3
      <3> QED
        BY <3>1
    <2>4. \A a \in S : ~Before(a, a)
      BY <2>2
    <2>5. \A a, b, d \in S : Before(a, b) /\ Before(b, d) => Before(a, d)
      BY <2>2
    <2>6. \A a, b \in S : a # b => Before(a, b) \/ Before(b, a)
      BY <2>2, <2>3
    <2> HIDE DEF Before
    <2> QED
      BY <2>1, <2>4, <2>5, <2>6 DEF Orders
  <1>7. \E s \in [1..n -> S] : \A i, j \in 1..n : i < j => Before(s[i], s[j])
    <2>1. PICK s \in [1..n -> S] : \A i, j \in 1..n : i < j => <<s[i], s[j]>> \in R
      BY <1>2, <1>6, Orderable
    <2> QED
      BY <2>1
  <1>8. c \in [1..n -> S] /\ \A i, j \in 1..n : i < j => Before(c[i], c[j])
    BY <1>5, <1>7
  <1>9. c \in Seq(S) /\ Len(c) = n
    BY <1>4, <1>8
  <1>10. \A i, j \in 1..n : i < j => <<c[i], c[j]>> \in R
    BY <1>8
  <1>11. \A e \in S : \E i \in 1..n : c[i] = e
    <2>1. c \in [1..Cardinality(S) -> S]
      BY <1>8
    <2>2. \A i, j \in 1..Cardinality(S) : i < j => <<c[i], c[j]>> \in R
      BY <1>10
    <2> HIDE DEF R
    <2> QED
      BY <1>2, <1>6, <2>1, <2>2, OrderedHasAll
  <1> QED
    BY <1>8, <1>9, <1>11 DEF c, S

(* A set whose elements differ in a number can be put in its order.          *)
LEMMA BackendsInOrder ==
  ASSUME backends \in Seq(Descriptors), Distinct(backends)
  PROVE  /\ Ordered \in Seq(ToSet(backends)) /\ Len(Ordered) = Len(backends)
         /\ \A d \in ToSet(backends) : \E i \in 1..Len(Ordered) : Ordered[i] = d
         /\ \A i, j \in 1..Len(Ordered) : i < j => Ordered[i].id < Ordered[j].id
  <1> DEFINE S == ToSet(backends)
             n == Cardinality(S)
             R == {pair \in S \X S : pair[1].id < pair[2].id}
             o == Ordered
  <1>1. Len(backends) \in Nat /\ DOMAIN backends = 1..Len(backends) /\ backends = [i \in 1..Len(backends) |-> backends[i]]
    OBVIOUS
  <1>2. S = {backends[i] : i \in 1..Len(backends)}
    BY <1>1, Zenon DEF ToSet
  <1>3. \A d \in S : d.id \in Nat
    BY <1>2, DescriptorAssumption
  <1>4. \A i, j \in 1..Len(backends) : backends[i].id = backends[j].id => i = j
    BY <1>1 DEF Distinct
  <1>5. \A a, b \in S : a.id = b.id => a = b
    BY <1>2, <1>4
  <1>6. IsFiniteSet(S) /\ n = Len(backends)
    <2> DEFINE places == 1..Len(backends)
    <2>1. IsFiniteSet(places) /\ Cardinality(places) = Len(backends)
      <3>1. \A k \in Nat : IsFiniteSet(1..k) /\ Cardinality(1..k) = k
        BY FS_Interval
      <3> QED
        BY <1>1, <3>1
    <2>2. backends \in Surjection(places, S)
      BY <1>1, <1>2 DEF Surjection
    <2>3. backends \in Injection(places, S)
      BY <1>1, <1>2, <1>4 DEF Injection, IsInjective
    <2> HIDE DEF places, S
    <2>4. IsFiniteSet(S) /\ Cardinality(S) = Cardinality(places)
      BY <2>1, <2>2, <2>3, FS_Surjection
    <2> QED
      BY <2>1, <2>4
  <1>7. o = CHOOSE s \in [1..n -> S] : \A i, j \in 1..n : i < j => s[i].id < s[j].id
    BY DEF Ordered, InOrder
  <1> HIDE DEF S, o
  <1>8. Orders(R, S)
    <2>1. \A a, b \in S : <<a, b>> \in R <=> a.id < b.id
      OBVIOUS
    <2> HIDE DEF R
    <2> QED
      BY <1>3, <1>5, <2>1 DEF Orders
  <1>9. \E s \in [1..n -> S] : \A i, j \in 1..n : i < j => s[i].id < s[j].id
    <2>1. PICK s \in [1..n -> S] : \A i, j \in 1..n : i < j => <<s[i], s[j]>> \in R
      BY <1>6, <1>8, Orderable
    <2> QED
      BY <2>1
  <1>10. o \in [1..n -> S] /\ \A i, j \in 1..n : i < j => o[i].id < o[j].id
    BY <1>7, <1>9
  <1>11. n \in Nat
    BY <1>1, <1>6
  <1>12. o \in Seq(S) /\ Len(o) = n
    BY <1>10, <1>11
  <1>13. \A e \in S : \E i \in 1..n : o[i] = e
    <2>1. \A i, j \in 1..Cardinality(S) : i < j => <<o[i], o[j]>> \in R
      BY <1>10
    <2>2. o \in [1..Cardinality(S) -> S]
      BY <1>10
    <2> HIDE DEF R
    <2> QED
      BY <1>6, <1>8, <2>1, <2>2, OrderedHasAll
  <1> QED
    BY <1>6, <1>10, <1>12, <1>13 DEF o, S

LEMMA PoliciesInOrder ==
  ASSUME NEW m, NEW kind
  PROVE  /\ Match(m, kind) \in Seq(Nat)
         /\ ToSet(Match(m, kind)) = {p.id : p \in Matching(m, kind)}
  <1> DEFINE S == {p.id : p \in Matching(m, kind)}
             n == Cardinality(S)
             R == {pair \in S \X S : pair[1] < pair[2]}
             o == Match(m, kind)
  <1>1. Matching(m, kind) \in SUBSET Policies
    BY DEF Matching
  <1>2. S \in SUBSET Nat
    BY <1>1, PolicyAssumption
  <1>3. IsFiniteSet(S)
    <2> DEFINE T == Matching(m, kind)
               id == [p \in T |-> p.id]
    <2>1. IsFiniteSet(T)
      BY <1>1, FS_Subset, PolicyAssumption
    <2> HIDE DEF T
    <2>2. id \in Surjection(T, {p.id : p \in T})
      BY DEF Surjection
    <2>3. IsFiniteSet({p.id : p \in T})
      BY <2>1, <2>2, FS_Surjection
    <2> QED
      BY <2>3 DEF T
  <1>4. o = CHOOSE s \in [1..n -> S] : \A i, j \in 1..n : i < j => s[i] < s[j]
    BY DEF Match, InOrder
  <1> HIDE DEF S, o
  <1>5. Orders(R, S)
    <2>1. \A a, b \in S : <<a, b>> \in R <=> a < b
      OBVIOUS
    <2> HIDE DEF R
    <2> QED
      BY <1>2, <2>1 DEF Orders
  <1>6. \E s \in [1..n -> S] : \A i, j \in 1..n : i < j => s[i] < s[j]
    <2>1. PICK s \in [1..n -> S] : \A i, j \in 1..n : i < j => <<s[i], s[j]>> \in R
      BY <1>3, <1>5, Orderable
    <2> QED
      BY <2>1
  <1>7. o \in [1..n -> S] /\ \A i, j \in 1..n : i < j => o[i] < o[j]
    BY <1>4, <1>6
  <1>8. n \in Nat
    BY <1>3, FS_CardinalityType
  <1>9. o \in Seq(S) /\ DOMAIN o = 1..n
    BY <1>7, <1>8
  <1>10. \A e \in S : \E i \in 1..n : o[i] = e
    <2>1. \A i, j \in 1..Cardinality(S) : i < j => <<o[i], o[j]>> \in R
      BY <1>7
    <2>2. o \in [1..Cardinality(S) -> S]
      BY <1>7
    <2> HIDE DEF R
    <2> QED
      BY <1>3, <1>5, <2>1, <2>2, OrderedHasAll
  <1>11. ToSet(o) = S
    BY <1>7, <1>9, <1>10 DEF ToSet
  <1>12. o \in Seq(Nat)
    <2>1. o \in [1..n -> Nat]
      BY <1>2, <1>7
    <2> QED
      BY <1>8, <2>1
  <1> QED
    BY <1>11, <1>12 DEF o, S

-----------------------------------------------------------------------------
LEMMA CatalogTyped ==
  ASSUME TypeOK
  PROVE  /\ Len(manifests) \in Nat /\ DOMAIN manifests = 1..Len(manifests)
         /\ \A i \in 1..Len(manifests) : manifests[i] \in Manifests /\ manifests[i].id \in Nat
         /\ \A i \in 1..Len(manifests) :
              /\ manifests[i].aliases \in Seq(Nat)
              /\ ToSet(manifests[i].aliases) \subseteq Nat
         /\ turn.manifest \in Positive /\ turn.candidate \in Positive /\ turn.backend \in Positive
  <1>1. manifests \in Seq(Manifests)
    BY DEF TypeOK
  <1>2. Len(manifests) \in Nat /\ DOMAIN manifests = 1..Len(manifests)
    BY <1>1
  <1>3. \A i \in 1..Len(manifests) : manifests[i] \in Manifests
    BY <1>1, ElementOfSeq
  <1>4. \A i \in 1..Len(manifests) : manifests[i].id \in Nat /\ manifests[i].aliases \in Seq(Nat)
    BY <1>3, Fields
  <1>5. \A s \in Seq(Nat) : ToSet(s) \subseteq Nat
    BY DEF ToSet
  <1>6. turn.manifest \in Positive /\ turn.candidate \in Positive /\ turn.backend \in Positive
    BY DEF TypeOK, Turns
  <1> QED
    BY <1>2, <1>3, <1>4, <1>5, <1>6

LEMMA InitInvariant == Init => IInv
  <1> SUFFICES ASSUME Init
               PROVE  IInv
    OBVIOUS
  <1>1. /\ manifests \in Catalogs /\ byID = {} /\ aliases = {} /\ pc = "manifest"
        /\ turn = [manifest |-> 1, candidate |-> 1, backend |-> 1] /\ unclaimed = {}
        /\ backends = <<>> /\ request = [identifier |-> 0, required |-> {}] /\ plan = None
    BY DEF Init
  <1>2. TypeOK
    <2>1. manifests \in Seq(Manifests)
      BY <1>1, CatalogAssumption
    <2>2. turn \in Turns /\ request \in Asked
      BY <1>1 DEF Turns, Asked, Positive
    <2>3. backends \in Seq(Descriptors) /\ Len(backends) <= MaxBackends
      BY <1>1, RequestAssumption
    <2> QED
      BY <1>1, <2>1, <2>2, <2>3 DEF TypeOK
  <1>3. turn.manifest = 1 /\ Disjoint(0) /\ Len(manifests) \in Nat
    BY <1>1, <1>2, CatalogTyped DEF Disjoint
  <1>4. Registry
    <2>1. Whole(0)
      BY <1>1, <1>3 DEF Whole, Pairs
    <2>2. NamesHaveOneOwner
      BY <1>1, <1>3 DEF NamesHaveOneOwner
    <2> QED
      BY <1>1, <1>3, <2>1, <2>2 DEF Registry, Started
  <1>5. Scan
    BY <1>1 DEF Scan, Started, Scanning
  <1> QED
    BY <1>2, <1>4, <1>5 DEF IInv

(* What is said of the registry does not change with the scan.               *)
LEMMA SameRegistry ==
  ASSUME UNCHANGED <<manifests, byID, aliases>>
  PROVE  /\ \A n : (Whole(n)' <=> Whole(n)) /\ (Disjoint(n)' <=> Disjoint(n))
         /\ \A name : Found(name)' = Found(name)
  <1>1. \A n : Disjoint(n)' <=> Disjoint(n)
    BY DEF Disjoint
  <1>2. \A n : Pairs(n)' = Pairs(n)
    BY DEF Pairs
  <1>3. \A n : Whole(n)' <=> Whole(n)
    BY <1>1, <1>2 DEF Whole
  <1>4. \A name : Found(name)' = Found(name)
    BY DEF Found, IsID
  <1> QED
    BY <1>1, <1>3, <1>4

LEMMA PairsAre ==
  ASSUME NEW n
  PROVE  \A pair : pair \in Pairs(n) <=>
           \E i \in 1..n : \E a \in ToSet(manifests[i].aliases) : pair = <<a, manifests[i].id>>
  BY DEF Pairs

(* A name the registry has is one of the registered manifests' names.        *)
LEMMA NamesOfWhole ==
  ASSUME NEW n, Whole(n), NEW name
  PROVE  IsID(name) \/ Owned(name) <=> \E i \in 1..n : name \in Names(manifests[i])
  <1>1. IsID(name) <=> \E i \in 1..n : manifests[i].id = name
    BY DEF Whole, IsID
  <1>2. Owned(name) <=> \E i \in 1..n : name \in ToSet(manifests[i].aliases)
    <2>1. \A pair \in aliases : \E i \in 1..n : \E alias \in ToSet(manifests[i].aliases) :
            pair = <<alias, manifests[i].id>>
      BY DEF Whole, Pairs
    <2>2. \A i \in 1..n : \A alias \in ToSet(manifests[i].aliases) :
            <<alias, manifests[i].id>> \in aliases
      BY DEF Whole, Pairs
    <2>3. ASSUME Owned(name)
          PROVE  \E i \in 1..n : name \in ToSet(manifests[i].aliases)
      BY <2>1, <2>3 DEF Owned
    <2>4. ASSUME NEW i \in 1..n, name \in ToSet(manifests[i].aliases)
          PROVE  Owned(name)
      <3>1. <<name, manifests[i].id>> \in aliases
        BY <2>2, <2>4
      <3> QED
        BY <3>1 DEF Owned
    <2> QED
      BY <2>3, <2>4
  <1> QED
    BY <1>1, <1>2 DEF Names

(* An alias that is still to be registered clashes with an earlier manifest. *)
LEMMA NamesOfPart ==
  ASSUME TypeOK, Partly, ValidAliases(Current), NEW name \in unclaimed
  PROVE  IsID(name) \/ Owned(name) <=>
           \E i \in 1..(turn.manifest - 1) : name \in Names(manifests[i])
  <1> DEFINE n == turn.manifest - 1
  <1>1. turn.manifest \in 1..Len(manifests) /\ n \in Nat /\ Len(manifests) \in Nat
    BY CatalogTyped DEF Partly
  <1>2. name # Current.id /\ name \notin Claimed
    BY DEF Partly, Claimed, ValidAliases
  <1>3. \A i : i \in 1..turn.manifest <=> i \in 1..n \/ i = turn.manifest
    BY <1>1
  <1>4. IsID(name) <=> \E i \in 1..n : manifests[i].id = name
    <2>1. IsID(name) <=> \E i \in 1..turn.manifest : manifests[i].id = name
      BY DEF Partly, IsID
    <2> QED
      BY <1>2, <1>3, <2>1 DEF Current
  <1>5. Owned(name) <=> \E i \in 1..n : name \in ToSet(manifests[i].aliases)
    <2>1. aliases = Pairs(n) \cup {<<alias, Current.id>> : alias \in Claimed}
      BY DEF Partly
    <2>2. \A pair \in Pairs(n) : \E i \in 1..n : \E alias \in ToSet(manifests[i].aliases) :
            pair = <<alias, manifests[i].id>>
      BY DEF Pairs
    <2>3. \A i \in 1..n : \A alias \in ToSet(manifests[i].aliases) :
            <<alias, manifests[i].id>> \in Pairs(n)
      BY DEF Pairs
    <2> HIDE DEF n
    <2>4. ASSUME Owned(name)
          PROVE  \E i \in 1..n : name \in ToSet(manifests[i].aliases)
      <3>1. PICK pair \in aliases : pair[1] = name
        BY <2>4 DEF Owned
      <3>2. pair \in Pairs(n)
        BY <1>2, <2>1, <3>1
      <3> QED
        BY <2>2, <3>1, <3>2
    <2>5. ASSUME NEW i \in 1..n, name \in ToSet(manifests[i].aliases)
          PROVE  Owned(name)
      <3>1. <<name, manifests[i].id>> \in aliases
        BY <2>1, <2>3, <2>5
      <3> QED
        BY <3>1 DEF Owned
    <2> QED
      BY <2>4, <2>5
  <1> QED
    BY <1>4, <1>5 DEF Names

LEMMA OneMore ==
  ASSUME NEW n \in Nat, Disjoint(n)
  PROVE  Disjoint(n + 1) <=>
           \A i \in 1..n : Names(manifests[i]) \cap Names(manifests[n + 1]) = {}
  <1>1. \A i : i \in 1..(n + 1) <=> i \in 1..n \/ i = n + 1
    OBVIOUS
  <1>2. n + 1 \notin 1..n
    OBVIOUS
  <1> QED
    BY <1>1, <1>2 DEF Disjoint

LEMMA RegisterKeeps == IInv /\ RegisterID => IInv'
  <1> SUFFICES ASSUME IInv, RegisterID
               PROVE  IInv'
    OBVIOUS
  <1> DEFINE n == turn.manifest - 1
  <1>1. /\ pc = "manifest" /\ turn.manifest <= Len(manifests)
        /\ UNCHANGED <<manifests, aliases, turn, backends, request, plan>>
        /\ \/ ~Validates(Current) /\ pc' = "invalid" /\ UNCHANGED <<byID, unclaimed>>
           \/ /\ IsID(Current.id) \/ Owned(Current.id)
              /\ pc' = "conflict" /\ UNCHANGED <<byID, unclaimed>>
           \/ /\ Validates(Current) /\ ~(IsID(Current.id) \/ Owned(Current.id))
              /\ byID' = byID \cup {Current} /\ unclaimed' = ToSet(Current.aliases)
              /\ pc' = "alias"
    BY Zenon DEF RegisterID, Register
  <1>2. TypeOK /\ Whole(n) /\ Disjoint(n) /\ \A m \in byID : Validates(m)
    BY <1>1 DEF IInv, Registry, Whole
  <1>3. turn.candidate = 1 /\ turn.backend = 1
    BY <1>1 DEF IInv, Scan
  <1>4. /\ n \in Nat /\ n + 1 = turn.manifest /\ turn.manifest \in 1..Len(manifests)
        /\ Current = manifests[n + 1] /\ Current \in Manifests
        /\ ToSet(Current.aliases) \subseteq Nat /\ Current \in ToSet(manifests)
    <2>1. turn.manifest \in 1..Len(manifests) /\ n \in Nat /\ n + 1 = turn.manifest
      BY <1>1, <1>2, CatalogTyped DEF Positive
    <2>2. DOMAIN manifests = 1..Len(manifests)
      BY <1>2, CatalogTyped
    <2>3. Current \in ToSet(manifests)
      BY <2>1, <2>2 DEF Current, ToSet
    <2> QED
      BY <1>2, <2>1, <2>3, CatalogTyped DEF Current
  <1>5. (pc # "conflict" => Disjoint(n))' /\ (Disjoint(n) <=> Disjoint(n)')
    BY <1>1, <1>2 DEF Disjoint
  <1>6. CASE pc' \in {"invalid", "conflict"} /\ UNCHANGED <<byID, unclaimed>>
    <2>1. TypeOK'
      BY <1>1, <1>2, <1>6 DEF TypeOK, Stops
    <2>2. NamesHaveOneOwner'
      <3>1. CASE pc' = "invalid"
        BY <1>1, <1>5, <3>1 DEF NamesHaveOneOwner
      <3>2. CASE pc' = "conflict"
        <4>1. IsID(Current.id) \/ Owned(Current.id)
          BY <1>1, <3>2
        <4>2. \E i \in 1..n : Current.id \in Names(manifests[i])
          BY <1>2, <4>1, NamesOfWhole
        <4>3. ~Disjoint(n + 1)
          BY <1>2, <1>4, <4>2, OneMore DEF Names
        <4>4. ~Disjoint(turn.manifest)'
          BY <1>1, <1>4, <4>3 DEF Disjoint
        <4> QED
          BY <3>2, <4>4 DEF NamesHaveOneOwner
      <3> QED
        BY <1>6, <3>1, <3>2
    <2>3. Registry'
      BY <1>2, <1>6, <2>2 DEF Registry, Started
    <2>4. Scan'
      BY <1>6 DEF Scan, Started, Scanning
    <2> QED
      BY <2>1, <2>3, <2>4 DEF IInv
  <1>7. CASE /\ Validates(Current) /\ ~(IsID(Current.id) \/ Owned(Current.id))
             /\ byID' = byID \cup {Current} /\ unclaimed' = ToSet(Current.aliases)
             /\ pc' = "alias"
    <2>1. TypeOK'
      BY <1>1, <1>2, <1>4, <1>7 DEF TypeOK
    <2>2. Partly'
      <3>1. byID' = {manifests[i] : i \in 1..turn.manifest}
        <4>1. byID = {manifests[i] : i \in 1..n}
          BY <1>2 DEF Whole
        <4>2. \A i : i \in 1..turn.manifest <=> i \in 1..n \/ i = turn.manifest
          BY <1>4
        <4> QED
          BY <1>4, <1>7, <4>1, <4>2
      <3>2. Current' = Current /\ Claimed' = {} /\ Pairs(n)' = Pairs(n)
        BY <1>1, <1>7 DEF Current, Claimed, Pairs
      <3>3. aliases' = Pairs(n)
        BY <1>1, <1>2 DEF Whole
      <3>4. \A i \in 1..n : Names(manifests[i]) \cap {Current.id} = {}
        BY <1>2, <1>7, NamesOfWhole
      <3>5. /\ (byID = {manifests[i] : i \in 1..turn.manifest})'
            /\ (turn.manifest \in 1..Len(manifests))' /\ (turn.manifest - 1)' = n
            /\ (unclaimed \subseteq ToSet(Current.aliases))'
        BY <1>1, <1>4, <1>7, <3>1, <3>2
      <3>6. (aliases = Pairs(turn.manifest - 1) \cup {<<alias, Current.id>> : alias \in Claimed})'
        BY <1>1, <3>2, <3>3
      <3>7. (\A i \in 1..(turn.manifest - 1) :
               Names(manifests[i]) \cap ({Current.id} \cup Claimed) = {})'
        BY <1>1, <3>2, <3>4
      <3>8. Disjoint(turn.manifest - 1)'
        BY <1>1, <1>2, <1>5
      <3> QED
        BY <3>5, <3>6, <3>7, <3>8 DEF Partly
    <2>3. NamesHaveOneOwner'
      BY <1>1, <1>2, <1>5, <1>7 DEF NamesHaveOneOwner
    <2>4. Registry'
      BY <1>2, <1>7, <2>2, <2>3 DEF Registry, Started
    <2>5. Scan'
      BY <1>1, <1>3, <1>7 DEF Scan, Started, Scanning
    <2> QED
      BY <2>1, <2>4, <2>5 DEF IInv
  <1> QED
    BY <1>1, <1>6, <1>7

(* What the registry has while the aliases of a manifest are registered.     *)
LEMMA Registering ==
  ASSUME IInv, pc = "alias"
  PROVE  /\ TypeOK /\ Partly /\ \A m \in byID : Validates(m)
         /\ turn.manifest - 1 \in Nat /\ (turn.manifest - 1) + 1 = turn.manifest
         /\ Current = manifests[turn.manifest] /\ Validates(Current) /\ ValidAliases(Current)
         /\ Current.id \in Nat /\ ToSet(Current.aliases) \subseteq Nat
         /\ turn.candidate = 1 /\ turn.backend = 1
  <1>1. TypeOK /\ Partly /\ \A m \in byID : Validates(m)
    BY DEF IInv, Registry
  <1>2. turn.candidate = 1 /\ turn.backend = 1
    BY DEF IInv, Scan
  <1>3. turn.manifest \in 1..Len(manifests) /\ Len(manifests) \in Nat
    BY <1>1, CatalogTyped DEF Partly
  <1>4. turn.manifest - 1 \in Nat /\ (turn.manifest - 1) + 1 = turn.manifest
    BY <1>3
  <1>5. /\ Current = manifests[turn.manifest]
        /\ Current.id \in Nat /\ ToSet(Current.aliases) \subseteq Nat
    BY <1>1, <1>3, CatalogTyped DEF Current
  <1>6. Current \in byID
    <2>1. byID = {manifests[i] : i \in 1..turn.manifest}
      BY <1>1 DEF Partly
    <2>2. turn.manifest \in 1..turn.manifest
      BY <1>3
    <2> QED
      BY <1>5, <2>1, <2>2
  <1>7. Validates(Current) /\ ValidAliases(Current)
    BY <1>1, <1>6 DEF Validates
  <1> QED
    BY <1>1, <1>2, <1>4, <1>5, <1>7

LEMMA AliasKeeps == IInv /\ RegisterAlias => IInv'
  <1> SUFFICES ASSUME IInv, RegisterAlias
               PROVE  IInv'
    OBVIOUS
  <1> DEFINE n == turn.manifest - 1
  <1>1. /\ pc = "alias"
        /\ UNCHANGED <<manifests, byID, turn, backends, request, plan>>
    BY DEF RegisterAlias
  <1>2. PICK alias \in unclaimed :
          \/ /\ IsID(alias) \/ Owned(alias)
             /\ pc' = "conflict" /\ UNCHANGED <<aliases, unclaimed>>
          \/ /\ ~(IsID(alias) \/ Owned(alias)) /\ UNCHANGED pc
             /\ aliases' = aliases \cup {<<alias, Current.id>>}
             /\ unclaimed' = unclaimed \ {alias}
    BY DEF RegisterAlias
  <1>3. /\ TypeOK /\ Partly /\ \A m \in byID : Validates(m)
        /\ n \in Nat /\ n + 1 = turn.manifest
        /\ Current = manifests[turn.manifest] /\ ValidAliases(Current)
        /\ Current.id \in Nat /\ ToSet(Current.aliases) \subseteq Nat
        /\ turn.candidate = 1 /\ turn.backend = 1
    BY <1>1, Registering
  <1>4. Disjoint(n) /\ Disjoint(n)' /\ unclaimed \subseteq ToSet(Current.aliases)
    BY <1>1, <1>3 DEF Partly, Disjoint
  <1>5. IsID(alias) \/ Owned(alias) <=> \E i \in 1..n : alias \in Names(manifests[i])
    BY <1>3, NamesOfPart
  <1>6. alias \in Nat /\ alias \in ToSet(Current.aliases)
    BY <1>3, <1>4
  <1>7. CASE /\ IsID(alias) \/ Owned(alias)
             /\ pc' = "conflict" /\ UNCHANGED <<aliases, unclaimed>>
    <2>1. TypeOK'
      BY <1>1, <1>3, <1>7 DEF TypeOK, Stops
    <2>2. ~Disjoint(n + 1)
      <3>1. PICK i \in 1..n : alias \in Names(manifests[i])
        BY <1>5, <1>7
      <3>2. alias \in Names(manifests[n + 1])
        BY <1>3, <1>6 DEF Names
      <3> QED
        BY <1>3, <1>4, <3>1, <3>2, OneMore
    <2>3. ~Disjoint(turn.manifest)'
      BY <1>1, <1>3, <2>2 DEF Disjoint
    <2>4. Registry'
      BY <1>1, <1>3, <1>7, <2>3 DEF Registry, Started, NamesHaveOneOwner
    <2>5. Scan'
      BY <1>7 DEF Scan, Started, Scanning
    <2> QED
      BY <2>1, <2>4, <2>5 DEF IInv
  <1>8. CASE /\ ~(IsID(alias) \/ Owned(alias)) /\ UNCHANGED pc
             /\ aliases' = aliases \cup {<<alias, Current.id>>}
             /\ unclaimed' = unclaimed \ {alias}
    <2>1. TypeOK'
      BY <1>1, <1>3, <1>6, <1>8 DEF TypeOK
    <2>2. Partly'
      <3>1. Current' = Current /\ Pairs(n)' = Pairs(n) /\ turn'.manifest - 1 = n
        BY <1>1 DEF Current, Pairs
      <3>2. Claimed' = Claimed \cup {alias}
        BY <1>6, <1>8, <3>1 DEF Claimed
      <3>3. aliases = Pairs(n) \cup {<<a, Current.id>> : a \in Claimed}
        BY <1>3 DEF Partly
      <3>4. aliases' = Pairs(n) \cup {<<a, Current.id>> : a \in Claimed \cup {alias}}
        BY <1>8, <3>3
      <3>5. \A i \in 1..n : alias \notin Names(manifests[i])
        BY <1>5, <1>8
      <3>6. \A i \in 1..n : Names(manifests[i]) \cap ({Current.id} \cup Claimed) = {}
        BY <1>3 DEF Partly
      <3>7. (\A i \in 1..(turn.manifest - 1) :
               Names(manifests[i]) \cap ({Current.id} \cup Claimed) = {})'
        BY <1>1, <3>1, <3>2, <3>5, <3>6
      <3>8. (aliases = Pairs(turn.manifest - 1) \cup {<<a, Current.id>> : a \in Claimed})'
        BY <1>1, <3>1, <3>2, <3>4
      <3>9. /\ (byID = {manifests[i] : i \in 1..turn.manifest})'
            /\ (turn.manifest \in 1..Len(manifests))'
            /\ (unclaimed \subseteq ToSet(Current.aliases))'
        BY <1>1, <1>3, <1>4, <1>8, <3>1 DEF Partly
      <3>10. Disjoint(turn.manifest - 1)'
        BY <1>1, <1>4
      <3> QED
        BY <3>7, <3>8, <3>9, <3>10 DEF Partly
    <2>3. NamesHaveOneOwner'
      BY <1>1, <1>4, <1>8 DEF NamesHaveOneOwner
    <2>4. Registry'
      BY <1>1, <1>3, <1>8, <2>2, <2>3 DEF Registry, Started
    <2>5. Scan'
      BY <1>1, <1>3, <1>8 DEF Scan, Started, Scanning
    <2> QED
      BY <2>1, <2>4, <2>5 DEF IInv
  <1> QED
    BY <1>2, <1>7, <1>8

LEMMA NextManifestKeeps == IInv /\ NextManifest => IInv'
  <1> SUFFICES ASSUME IInv, NextManifest
               PROVE  IInv'
    OBVIOUS
  <1> DEFINE n == turn.manifest - 1
             t == turn.manifest
  <1>1. /\ pc = "alias" /\ unclaimed = {} /\ turn' = [turn EXCEPT !.manifest = @ + 1]
        /\ pc' = "manifest"
        /\ UNCHANGED <<manifests, byID, aliases, unclaimed, backends, request, plan>>
    BY DEF NextManifest
  <1>2. /\ TypeOK /\ Partly /\ \A m \in byID : Validates(m)
        /\ n \in Nat /\ n + 1 = t
        /\ Current = manifests[t]
        /\ turn.candidate = 1 /\ turn.backend = 1
    BY <1>1, Registering
  <1>3. turn \in Turns /\ t \in Positive
    BY <1>2 DEF TypeOK, Turns
  <1>4. turn' \in Turns /\ turn'.manifest = t + 1 /\ turn'.candidate = 1 /\ turn'.backend = 1
    BY <1>1, <1>2, <1>3 DEF Turns, Positive
  <1>5. TypeOK'
    BY <1>1, <1>2, <1>4 DEF TypeOK
  <1>6. Claimed = ToSet(Current.aliases) /\ {Current.id} \cup Claimed = Names(Current)
    BY <1>1 DEF Claimed, Names
  <1>7. Disjoint(t)
    <2>1. Disjoint(n) /\ \A i \in 1..n : Names(manifests[i]) \cap Names(Current) = {}
      BY <1>2, <1>6 DEF Partly
    <2> QED
      BY <1>2, <2>1, OneMore
  <1>8. aliases = Pairs(t)
    <2> DEFINE New(pair) == \E a \in ToSet(Current.aliases) : pair = <<a, Current.id>>
    <2>1. \A pair : pair \in aliases <=> pair \in Pairs(n) \/ New(pair)
      <3>1. aliases = Pairs(n) \cup {<<a, Current.id>> : a \in Claimed}
        BY <1>2 DEF Partly
      <3> QED
        BY <1>6, <3>1
    <2>2. \A i : i \in 1..t <=> i \in 1..n \/ i = t
      BY <1>2, <1>3 DEF Positive
    <2>3. \A pair : pair \in Pairs(t) <=> pair \in Pairs(n) \/ New(pair)
      <3>1. \A pair : pair \in Pairs(t) <=>
              \E i \in 1..t : \E a \in ToSet(manifests[i].aliases) : pair = <<a, manifests[i].id>>
        BY PairsAre
      <3>2. \A pair : pair \in Pairs(n) <=>
              \E i \in 1..n : \E a \in ToSet(manifests[i].aliases) : pair = <<a, manifests[i].id>>
        BY PairsAre
      <3> HIDE DEF n, t
      <3> QED
        BY <1>2, <2>2, <3>1, <3>2
    <2> QED
      BY <2>1, <2>3
  <1>9. Whole(t)
    <2>1. t \in 0..Len(manifests) /\ byID = {manifests[i] : i \in 1..t}
      BY <1>2, CatalogTyped DEF Partly
    <2> QED
      BY <1>7, <1>8, <2>1 DEF Whole
  <1>10. (turn.manifest - 1)' = t
    BY <1>3, <1>4 DEF Positive
  <1>11. Whole(turn.manifest - 1)' /\ Disjoint(turn.manifest - 1)'
    <2>1. Disjoint(turn.manifest - 1)'
      BY <1>1, <1>7, <1>10 DEF Disjoint
    <2>2. (aliases = Pairs(turn.manifest - 1))'
      BY <1>1, <1>8, <1>10 DEF Pairs
    <2>3. (turn.manifest - 1 \in 0..Len(manifests))' /\ (byID = {manifests[i] : i \in 1..(turn.manifest - 1)})'
      BY <1>1, <1>9, <1>10 DEF Whole
    <2> QED
      BY <2>1, <2>2, <2>3 DEF Whole
  <1>12. Registry'
    BY <1>1, <1>2, <1>11 DEF Registry, Started, NamesHaveOneOwner
  <1>13. Scan'
    BY <1>1, <1>4 DEF Scan, Started, Scanning
  <1> QED
    BY <1>5, <1>12, <1>13 DEF IInv

LEMMA AskKeeps == IInv /\ Ask => IInv'
  <1> SUFFICES ASSUME IInv, Ask
               PROVE  IInv'
    OBVIOUS
  <1>1. /\ pc = "manifest" /\ turn.manifest > Len(manifests)
        /\ backends' \in SeqOf(Descriptors, MaxBackends) /\ Distinct(backends')
        /\ request' \in [identifier : Identifiers, required : SUBSET Capabilities]
        /\ pc' = IF \A i \in DOMAIN backends' : ValidDescriptor(backends'[i])
                 THEN "lookup" ELSE "router_unavailable"
        /\ UNCHANGED <<manifests, byID, aliases, turn, unclaimed, plan>>
    BY DEF Ask
  <1>2. /\ TypeOK /\ Whole(turn.manifest - 1) /\ \A m \in byID : Validates(m)
        /\ turn.candidate = 1 /\ turn.backend = 1
    BY <1>1 DEF IInv, Registry, Scan
  <1>3. turn.manifest - 1 = Len(manifests)
    BY <1>1, <1>2, CatalogTyped DEF Whole, Positive
  <1>4. Whole(Len(manifests)) /\ Disjoint(Len(manifests))
    BY <1>2, <1>3 DEF Whole
  <1>5. Whole(Len(manifests))' /\ Disjoint(turn.manifest - 1)'
    <2>1. Len(manifests)' = Len(manifests) /\ (turn.manifest - 1)' = Len(manifests)
      BY <1>1, <1>3
    <2>2. Whole(Len(manifests))'
      BY <1>1, <1>4, <2>1 DEF Whole, Pairs, Disjoint
    <2>3. Disjoint(turn.manifest - 1)'
      BY <1>1, <1>4, <2>1 DEF Disjoint
    <2> QED
      BY <2>2, <2>3
  <1>6. TypeOK'
    <2>1. backends' \in Seq(Descriptors) /\ Len(backends') <= MaxBackends
      <3>1. PICK k \in 0..MaxBackends : backends' \in [1..k -> Descriptors]
        BY <1>1 DEF SeqOf
      <3>2. k \in Nat /\ k <= MaxBackends
        BY RequestAssumption
      <3> QED
        BY <3>1, <3>2
    <2>2. request' \in Asked
      BY <1>1, RequestAssumption DEF Asked
    <2>3. pc' \in {"lookup"} \cup Stops
      BY <1>1 DEF Stops
    <2> QED
      BY <1>1, <1>2, <2>1, <2>2, <2>3 DEF TypeOK
  <1>7. pc' \in {"lookup", "router_unavailable"}
    BY <1>1
  <1>8. Registry'
    BY <1>1, <1>2, <1>5, <1>7 DEF Registry, Started, NamesHaveOneOwner
  <1>9. Scan'
    <2>1. pc' = "lookup" => \A i \in DOMAIN backends' : ValidDescriptor(backends'[i])
      BY <1>1
    <2> QED
      BY <1>1, <1>2, <1>7, <2>1 DEF Scan, Started, Scanning, Distinct
  <1> QED
    BY <1>6, <1>8, <1>9 DEF IInv

(* Looking up and scanning leave the registry, the backends and the request. *)
LEMMA ScanKeepsRegistry ==
  ASSUME IInv, Started, Started', pc' # "conflict", turn'.manifest = turn.manifest,
         UNCHANGED <<manifests, byID, aliases, unclaimed, backends, request>>
  PROVE  /\ Registry'
         /\ Distinct(backends)' /\ (\A i \in DOMAIN backends : ValidDescriptor(backends[i]))'
         /\ Found(request.identifier)' = Found(request.identifier)
  <1>1. Whole(Len(manifests)) /\ Disjoint(turn.manifest - 1) /\ \A m \in byID : Validates(m)
    BY DEF IInv, Registry, Started, NamesHaveOneOwner
  <1>2. Whole(Len(manifests))' /\ Disjoint(turn.manifest - 1)'
    <2>1. Len(manifests)' = Len(manifests) /\ (turn.manifest - 1)' = turn.manifest - 1
      OBVIOUS
    <2>2. Whole(Len(manifests))'
      BY <1>1, <2>1, SameRegistry
    <2>3. Disjoint(turn.manifest - 1)'
      BY <1>1, <2>1, SameRegistry
    <2> QED
      BY <2>2, <2>3
  <1>3. Registry'
    BY <1>1, <1>2 DEF Registry, Started, NamesHaveOneOwner
  <1>4. Distinct(backends)' /\ (\A i \in DOMAIN backends : ValidDescriptor(backends[i]))'
    BY DEF IInv, Scan, Distinct
  <1>5. Found(request.identifier)' = Found(request.identifier)
    BY DEF Found, IsID
  <1> QED
    BY <1>3, <1>4, <1>5

LEMMA LookupKeeps == IInv /\ Lookup => IInv'
  <1> SUFFICES ASSUME IInv, Lookup
               PROVE  IInv'
    OBVIOUS
  <1>1. /\ pc = "lookup"
        /\ pc' = IF Found(request.identifier) = {} THEN "model_not_found" ELSE "scan"
        /\ UNCHANGED <<manifests, byID, aliases, turn, unclaimed, backends, request, plan>>
    BY DEF Lookup
  <1>2. TypeOK /\ turn.candidate = 1 /\ turn.backend = 1
    BY <1>1 DEF IInv, Scan
  <1>3. pc' \in {"model_not_found", "scan"}
    BY <1>1
  <1>4. /\ Registry'
        /\ Distinct(backends)' /\ (\A i \in DOMAIN backends : ValidDescriptor(backends[i]))'
        /\ Found(request.identifier)' = Found(request.identifier)
    <2>1. Started /\ Started' /\ pc' # "conflict"
      BY <1>1, <1>3 DEF Started
    <2> QED
      BY <1>1, <2>1, ScanKeepsRegistry
  <1>5. TypeOK'
    BY <1>1, <1>2, <1>3 DEF TypeOK, Stops
  <1>6. pc' = "model_not_found" <=> Found(request.identifier)' = {}
    BY <1>1, <1>4
  <1>7. \A candidate, backend \in Nat \ {0} : ~Scanned(candidate, backend)'
    BY <1>1, <1>2 DEF Scanned
  <1>8. (\A candidate \in 1..Len(CandidateArtifacts(Manifest)), backend \in 1..Len(backends) :
           ~Scanned(candidate, backend))'
    BY <1>7
  <1>9. Scan'
    BY <1>3, <1>4, <1>6, <1>8 DEF Scan, Started, Scanning
  <1> QED
    BY <1>4, <1>5, <1>9 DEF IInv

LEMMA Registered ==
  ASSUME TypeOK
  PROVE  byID \subseteq Manifests
  <1>1. \A m \in ToSet(manifests) : m \in Manifests
    BY CatalogTyped DEF ToSet
  <1> QED
    BY <1>1 DEF TypeOK

(* A verified manifest that validates can be checked down to its artifacts.  *)
LEMMA VerifiedIsPinned ==
  ASSUME NEW m \in Manifests, Validates(m), m.state.verification = "verified"
  PROVE  m.revision = "pinned" /\ \A a \in ToSet(m.artifacts) : a.digest
  <1>1. m.revision = "pinned"
    BY Fields DEF Validates, ValidSource
  <1>2. \A i \in DOMAIN m.artifacts : m.artifacts[i].digest
    BY DEF Validates, ValidArtifacts
  <1> QED
    BY <1>1, <1>2 DEF ToSet

(* The model of the request, and what the scan goes through.                 *)
LEMMA InScanTyped ==
  ASSUME IInv, Scanning
  PROVE  /\ TypeOK /\ Manifest \in byID /\ Manifest \in Manifests
         /\ CandidateArtifacts(Manifest) \in Seq(Entries(Manifest))
         /\ Ordered \in Seq(ToSet(backends)) /\ Len(Ordered) = Len(backends)
         /\ Len(backends) \in Nat /\ Len(CandidateArtifacts(Manifest)) \in Nat
         /\ turn.candidate \in Positive /\ turn.backend \in Positive
         /\ ToSet(backends) \subseteq Descriptors
         /\ \A d \in ToSet(backends) : ValidDescriptor(d)
  <1>1. TypeOK /\ Found(request.identifier) # {} /\ Distinct(backends)
        /\ \A i \in DOMAIN backends : ValidDescriptor(backends[i])
    BY DEF IInv, Scan, Scanning, Started
  <1>2. Manifest \in Found(request.identifier)
    BY <1>1 DEF Manifest
  <1>3. Manifest \in byID
    BY <1>2 DEF Found
  <1>4. Manifest \in Manifests
    BY <1>1, <1>3, Registered
  <1>5. CandidateArtifacts(Manifest) \in Seq(Entries(Manifest))
    BY <1>4, CandidatesInOrder
  <1>6. backends \in Seq(Descriptors)
    BY <1>1 DEF TypeOK
  <1>7. Ordered \in Seq(ToSet(backends)) /\ Len(Ordered) = Len(backends)
    BY <1>1, <1>6, BackendsInOrder
  <1>8. Len(backends) \in Nat /\ Len(CandidateArtifacts(Manifest)) \in Nat
    BY <1>5, <1>6
  <1>9. turn.candidate \in Positive /\ turn.backend \in Positive
    BY <1>1, CatalogTyped
  <1>10. ToSet(backends) \subseteq Descriptors /\ \A d \in ToSet(backends) : ValidDescriptor(d)
    BY <1>1, <1>6 DEF ToSet
  <1> QED
    BY <1>1, <1>3, <1>4, <1>5, <1>7, <1>8, <1>9, <1>10

(* A step of the scan changes nothing but its place and, at the end, the plan. *)
LEMMA SameScan ==
  ASSUME UNCHANGED <<manifests, byID, aliases, backends, request>>
  PROVE  /\ Manifest' = Manifest /\ Ordered' = Ordered
         /\ CandidateArtifacts(Manifest)' = CandidateArtifacts(Manifest)
         /\ Len(CandidateArtifacts(Manifest))' = Len(CandidateArtifacts(Manifest))
         /\ \A d, c : Usable(d, c)' <=> Usable(d, c)
  <1>1. Found(request.identifier)' = Found(request.identifier)
    BY DEF Found, IsID
  <1>2. Manifest' = Manifest
    BY <1>1 DEF Manifest
  <1>3. CandidateArtifacts(Manifest)' = CandidateArtifacts(Manifest)
    BY <1>2
  <1>4. Ordered' = Ordered
    BY DEF Ordered, InOrder
  <1>5. \A d, c : Usable(d, c)' <=> Usable(d, c)
    BY <1>2 DEF Usable, RequirementsSatisfied
  <1> QED
    BY <1>2, <1>3, <1>4, <1>5

(* What has been tried of the candidates and backends so far.                *)
Tried ==
  \A candidate \in 1..Len(CandidateArtifacts(Manifest)), backend \in 1..Len(backends) :
    Scanned(candidate, backend) =>
      ~Usable(Ordered[backend], CandidateArtifacts(Manifest)[candidate])

(* A step of the scan that rules out what it says is tried keeps everything. *)
LEMMA ScanStepKeeps ==
  ASSUME IInv, pc = "scan", pc' \in {"scan", "no_compatible_backend"},
         turn' \in Turns, turn'.manifest = turn.manifest,
         UNCHANGED <<manifests, byID, aliases, unclaimed, backends, request, plan>>,
         pc' = "no_compatible_backend" => turn'.candidate > Len(CandidateArtifacts(Manifest)),
         \A candidate \in 1..Len(CandidateArtifacts(Manifest)), backend \in 1..Len(backends) :
           Scanned(candidate, backend)' =>
             ~Usable(Ordered[backend], CandidateArtifacts(Manifest)[candidate])
  PROVE  IInv'
  <1>1. TypeOK /\ Found(request.identifier) # {}
    BY DEF IInv, Scan, Scanning
  <1>2. TypeOK'
    BY <1>1 DEF TypeOK, Stops
  <1>3. /\ Registry'
        /\ Distinct(backends)' /\ (\A i \in DOMAIN backends : ValidDescriptor(backends[i]))'
        /\ Found(request.identifier)' = Found(request.identifier)
    <2>1. Started /\ Started' /\ pc' # "conflict"
      BY DEF Started
    <2> QED
      BY <2>1, ScanKeepsRegistry
  <1>4. /\ Ordered' = Ordered
        /\ CandidateArtifacts(Manifest)' = CandidateArtifacts(Manifest)
        /\ Len(CandidateArtifacts(Manifest))' = Len(CandidateArtifacts(Manifest))
        /\ \A d, c : Usable(d, c)' <=> Usable(d, c)
    BY SameScan
  <1>5. Tried'
    BY <1>4 DEF Tried
  <1>6. (pc = "no_compatible_backend" => turn.candidate > Len(CandidateArtifacts(Manifest)))'
    BY <1>4
  <1>7. Scan'
    BY <1>1, <1>3, <1>5, <1>6 DEF Scan, Started, Scanning, Tried
  <1> QED
    BY <1>2, <1>3, <1>7 DEF IInv

LEMMA SkipKeeps == IInv /\ Skip => IInv'
  <1> SUFFICES ASSUME IInv, Skip
               PROVE  IInv'
    OBVIOUS
  <1> DEFINE c == CandidateArtifacts(Manifest)
  <1>1. /\ InScan /\ turn.backend <= Len(backends) /\ ~Usable(Descriptor, Candidate)
        /\ turn' = [turn EXCEPT !.backend = @ + 1]
        /\ UNCHANGED <<manifests, byID, aliases, pc, unclaimed, backends, request, plan>>
    BY DEF Skip
  <1>2. pc = "scan" /\ Scanning
    BY <1>1 DEF InScan, Scanning
  <1>3. turn \in Turns /\ turn.backend \in Nat /\ turn.candidate \in Nat
    BY <1>2, InScanTyped DEF TypeOK, Turns, Positive
  <1>4. /\ turn' \in Turns /\ turn'.manifest = turn.manifest
        /\ turn'.candidate = turn.candidate /\ turn'.backend = turn.backend + 1
    BY <1>1, <1>3 DEF Turns, Positive
  <1>5. Tried
    BY <1>2 DEF IInv, Scan, Tried
  <1>6. ASSUME NEW candidate \in 1..Len(c), NEW backend \in 1..Len(backends),
               Scanned(candidate, backend)'
        PROVE  ~Usable(Ordered[backend], c[candidate])
    <2>1. Scanned(candidate, backend) \/ (candidate = turn.candidate /\ backend = turn.backend)
      BY <1>3, <1>4, <1>6 DEF Scanned
    <2>2. CASE Scanned(candidate, backend)
      BY <1>5, <2>2 DEF Tried
    <2>3. CASE candidate = turn.candidate /\ backend = turn.backend
      BY <1>1, <2>3 DEF Descriptor, Candidate
    <2> QED
      BY <2>1, <2>2, <2>3
  <1> HIDE DEF c
  <1>7. pc' = "scan" /\ \A candidate \in 1..Len(c), backend \in 1..Len(backends) :
           Scanned(candidate, backend)' => ~Usable(Ordered[backend], c[candidate])
    BY <1>1, <1>2, <1>6
  <1> QED
    BY <1>1, <1>2, <1>4, <1>7, ScanStepKeeps DEF c

LEMMA CandidateKeeps == IInv /\ NextCandidate => IInv'
  <1> SUFFICES ASSUME IInv, NextCandidate
               PROVE  IInv'
    OBVIOUS
  <1> DEFINE c == CandidateArtifacts(Manifest)
  <1>1. /\ InScan /\ turn.backend > Len(backends)
        /\ turn' = [turn EXCEPT !.candidate = @ + 1, !.backend = 1]
        /\ UNCHANGED <<manifests, byID, aliases, pc, unclaimed, backends, request, plan>>
    BY DEF NextCandidate
  <1>2. pc = "scan" /\ Scanning
    BY <1>1 DEF InScan, Scanning
  <1>3. turn \in Turns /\ turn.backend \in Nat /\ turn.candidate \in Nat /\ Len(backends) \in Nat
    BY <1>2, InScanTyped DEF TypeOK, Turns, Positive
  <1>4. /\ turn' \in Turns /\ turn'.manifest = turn.manifest
        /\ turn'.candidate = turn.candidate + 1 /\ turn'.backend = 1
    <2>1. /\ turn.candidate + 1 \in Positive /\ 1 \in Positive /\ turn.manifest \in Positive
          /\ turn = [manifest |-> turn.manifest, candidate |-> turn.candidate, backend |-> turn.backend]
      BY <1>3 DEF Turns, Positive
    <2>2. turn' = [manifest |-> turn.manifest, candidate |-> turn.candidate + 1, backend |-> 1]
      BY <1>1, <2>1
    <2> QED
      BY <2>1, <2>2 DEF Turns
  <1>5. Tried
    BY <1>2 DEF IInv, Scan, Tried
  <1>6. ASSUME NEW candidate \in 1..Len(c), NEW backend \in 1..Len(backends),
               Scanned(candidate, backend)'
        PROVE  ~Usable(Ordered[backend], c[candidate])
    <2>1. Len(c) \in Nat
      BY <1>2, InScanTyped
    <2>2. backend < turn.backend /\ candidate \in Nat
      BY <1>1, <1>3, <2>1
    <2>3. Scanned(candidate, backend)
      BY <1>3, <1>4, <1>6, <2>2 DEF Scanned
    <2> QED
      BY <1>5, <2>3 DEF Tried
  <1> HIDE DEF c
  <1>7. pc' = "scan" /\ \A candidate \in 1..Len(c), backend \in 1..Len(backends) :
           Scanned(candidate, backend)' => ~Usable(Ordered[backend], c[candidate])
    BY <1>1, <1>2, <1>6
  <1> QED
    BY <1>1, <1>2, <1>4, <1>7, ScanStepKeeps DEF c

LEMMA GiveUpKeeps == IInv /\ GiveUp => IInv'
  <1> SUFFICES ASSUME IInv, GiveUp
               PROVE  IInv'
    OBVIOUS
  <1>1. /\ pc = "scan" /\ ~InScan /\ pc' = "no_compatible_backend"
        /\ UNCHANGED <<manifests, byID, aliases, turn, unclaimed, backends, request, plan>>
    BY DEF GiveUp
  <1>2. Scanning /\ Tried
    BY <1>1 DEF IInv, Scan, Tried, Scanning
  <1>3. turn \in Turns /\ Len(CandidateArtifacts(Manifest)) \in Nat /\ turn.candidate \in Nat
    BY <1>2, InScanTyped DEF TypeOK, Turns, Positive
  <1>4. turn.candidate > Len(CandidateArtifacts(Manifest))
    BY <1>1, <1>3 DEF InScan
  <1>5. \A candidate \in 1..Len(CandidateArtifacts(Manifest)), backend \in 1..Len(backends) :
           Scanned(candidate, backend)' =>
             ~Usable(Ordered[backend], CandidateArtifacts(Manifest)[candidate])
    BY <1>1, <1>2 DEF Tried, Scanned
  <1>6. turn' \in Turns /\ turn'.manifest = turn.manifest /\ turn'.candidate = turn.candidate
    BY <1>1, <1>3
  <1> QED
    BY <1>1, <1>4, <1>5, <1>6, ScanStepKeeps

LEMMA SelectKeeps == IInv /\ Select => IInv'
  <1> SUFFICES ASSUME IInv, Select
               PROVE  IInv'
    OBVIOUS
  <1>1. /\ InScan /\ turn.backend <= Len(backends) /\ Usable(Descriptor, Candidate)
        /\ plan' = Served /\ pc' = "planned"
        /\ UNCHANGED <<manifests, byID, aliases, turn, unclaimed, backends, request>>
    BY DEF Select, Served
  <1>2. pc = "scan" /\ Scanning /\ turn.candidate <= Len(CandidateArtifacts(Manifest))
    BY <1>1 DEF InScan, Scanning
  <1>3. TypeOK /\ Found(request.identifier) # {} /\ Tried
    BY <1>2 DEF IInv, Scan, Scanning, Tried
  <1>4. Served \in Plans
    <2>1. /\ Manifest \in Manifests /\ CandidateArtifacts(Manifest) \in Seq(Entries(Manifest))
          /\ Ordered \in Seq(ToSet(backends)) /\ ToSet(backends) \subseteq Descriptors
          /\ turn.candidate \in 1..Len(CandidateArtifacts(Manifest))
          /\ turn.backend \in 1..Len(Ordered)
      BY <1>1, <1>2, InScanTyped DEF Positive
    <2>2. Candidate \in Entries(Manifest)
      BY <2>1 DEF Candidate
    <2>3. Candidate.kind \in Nat /\ Candidate.uri \in Nat
      BY <2>1, <2>2, EntriesTyped
    <2>4. Descriptor \in Descriptors
      BY <2>1 DEF Descriptor
    <2>5. /\ Descriptor.id \in Nat
          /\ Descriptor.override \in [support : Support, verified : BOOLEAN]
      BY <2>4, DescriptorAssumption
    <2>6. Manifest.id \in Nat
      BY <2>1, Fields
    <2>7. Match(Manifest, Descriptor.kind) \in Seq(Nat)
      BY PoliciesInOrder
    <2> QED
      BY <2>3, <2>5, <2>6, <2>7 DEF Served, Plans
  <1>5. TypeOK'
    BY <1>1, <1>3, <1>4 DEF TypeOK, Stops
  <1>6. /\ Registry'
        /\ Distinct(backends)' /\ (\A i \in DOMAIN backends : ValidDescriptor(backends[i]))'
        /\ Found(request.identifier)' = Found(request.identifier)
    <2>1. Started /\ Started' /\ pc' # "conflict"
      BY <1>1, <1>2 DEF Started
    <2> QED
      BY <1>1, <2>1, ScanKeepsRegistry
  <1>7. /\ Manifest' = Manifest /\ Ordered' = Ordered
        /\ CandidateArtifacts(Manifest)' = CandidateArtifacts(Manifest)
        /\ Len(CandidateArtifacts(Manifest))' = Len(CandidateArtifacts(Manifest))
        /\ \A d, c : Usable(d, c)' <=> Usable(d, c)
    BY <1>1, SameScan
  <1>8. Tried'
    BY <1>1, <1>3, <1>7 DEF Tried, Scanned
  <1>9. /\ (turn.candidate <= Len(CandidateArtifacts(Manifest)))'
        /\ (turn.backend <= Len(backends))'
    BY <1>1, <1>2, <1>7
  <1>10. Candidate' = Candidate /\ Descriptor' = Descriptor
    BY <1>1, <1>7 DEF Candidate, Descriptor
  <1>11. Usable(Descriptor, Candidate)'
    <2>1. Usable(Descriptor, Candidate)' <=> Usable(Descriptor, Candidate)
      BY <1>7, <1>10 DEF Usable, RequirementsSatisfied
    <2> QED
      BY <1>1, <2>1
  <1>12. (plan = Served)'
    <2>1. Match(Manifest, Descriptor.kind)' = Match(Manifest, Descriptor.kind)
      BY <1>7, <1>10
    <2>2. Served' = Served
      BY <1>7, <1>10, <2>1 DEF Served
    <2> QED
      BY <1>1, <2>2
  <1>13. Scan'
    BY <1>1, <1>3, <1>6, <1>8, <1>9, <1>11, <1>12 DEF Scan, Started, Scanning, Tried
  <1> QED
    BY <1>5, <1>6, <1>13 DEF IInv

LEMMA StutterKeeps == IInv /\ UNCHANGED vars => IInv'
  <1> SUFFICES ASSUME IInv, UNCHANGED vars
               PROVE  IInv'
    OBVIOUS
  <1>1. TypeOK'
    BY DEF IInv, TypeOK, vars
  <1>2. UNCHANGED <<manifests, byID, aliases, pc, turn, unclaimed, backends, request, plan>>
    BY DEF vars
  <1>3. Registry'
    <2>1. Registry
      BY DEF IInv
    <2>2. /\ \A n : Disjoint(n)' <=> Disjoint(n)
          /\ \A n : Whole(n)' <=> Whole(n)
          /\ \A n : Pairs(n)' = Pairs(n)
      BY <1>2, SameRegistry DEF Pairs
    <2>3. Partly => Partly'
      BY <1>2, <2>2 DEF Partly, Claimed, Current
    <2>4. Whole(Len(manifests))' <=> Whole(Len(manifests))
      BY <1>2, <2>2
    <2>5. Whole(turn.manifest - 1)' <=> Whole(turn.manifest - 1)
      BY <1>2, <2>2
    <2>6. NamesHaveOneOwner' <=> NamesHaveOneOwner
      BY <1>2 DEF NamesHaveOneOwner, Disjoint
    <2>7. (Started' <=> Started) /\ pc' = pc /\ byID' = byID
      BY <1>2 DEF Started
    <2> QED
      BY <2>1, <2>3, <2>4, <2>5, <2>6, <2>7 DEF Registry
  <1>4. Found(request.identifier)' = Found(request.identifier)
    BY <1>2 DEF Found, IsID
  <1>5. /\ Manifest' = Manifest /\ Ordered' = Ordered
        /\ CandidateArtifacts(Manifest)' = CandidateArtifacts(Manifest)
        /\ Len(CandidateArtifacts(Manifest))' = Len(CandidateArtifacts(Manifest))
        /\ \A d, c : Usable(d, c)' <=> Usable(d, c)
    BY <1>2, SameScan
  <1>6. Candidate' = Candidate /\ Descriptor' = Descriptor
    BY <1>2, <1>5 DEF Candidate, Descriptor
  <1>7. Usable(Descriptor, Candidate)' <=> Usable(Descriptor, Candidate)
    BY <1>5, <1>6 DEF Usable, RequirementsSatisfied
  <1>8. Served' = Served
    <2>1. Match(Manifest, Descriptor.kind)' = Match(Manifest, Descriptor.kind)
      BY <1>5, <1>6
    <2> QED
      BY <1>5, <1>6, <2>1 DEF Served
  <1>9. Tried' <=> Tried
    BY <1>2, <1>5 DEF Tried, Scanned
  <1>10. Scan <=> Scan'
    BY <1>2, <1>4, <1>5, <1>7, <1>8, <1>9 DEF Scan, Started, Scanning, Distinct, Tried
  <1> QED
    BY <1>1, <1>3, <1>10 DEF IInv

LEMMA NextInvariant == IInv /\ [Next]_vars => IInv'
  BY RegisterKeeps, AliasKeeps, NextManifestKeeps, AskKeeps, LookupKeeps, SelectKeeps,
     SkipKeeps, CandidateKeeps, GiveUpKeeps, StutterKeeps DEF Next

(* What the proofs below rest on: the registered manifests are the first ones *)
(* read, each sound, their names disjoint; whatever the scan has passed is    *)
(* unusable, and a plan is what it stopped at (registry.go:30-66,             *)
(* router.go:53-87).                                                          *)
THEOREM Invariant == Spec => []IInv
  BY InitInvariant, NextInvariant, PTL DEF Spec

(* Every variable keeps its type, for every catalog, descriptor and policy.  *)
THEOREM TypeCorrect == Spec => []TypeOK
  <1>1. IInv => TypeOK
    BY DEF IInv
  <1> QED
    BY <1>1, Invariant, PTL

(* The registry is refused exactly if two of the manifests read so far claim *)
(* one name, in whatever order their ids and aliases are registered          *)
(* (registry.go:44-60).                                                      *)
THEOREM NamesAreOwned == Spec => []NamesHaveOneOwner
  <1>1. IInv => NamesHaveOneOwner
    BY DEF IInv, Registry
  <1> QED
    BY <1>1, Invariant, PTL

-----------------------------------------------------------------------------
Prereleases == Seq([numeric : BOOLEAN, value : Nat])

(* The comparison of the code agrees with the precedence of semantic         *)
(* versioning, except for numbers it cannot hold.                            *)
LEMMA PrecedenceIsKept ==
  ASSUME NEW p \in Prereleases, NEW q \in Prereleases, Precedes(p, q), ~Saturated(p, q)
  PROVE  ComparePrereleases(p, q) = -1
  <1> DEFINE apart == {i \in DOMAIN p \cap DOMAIN q : p[i] # q[i]}
  <1>1. /\ Len(p) \in Nat /\ Len(q) \in Nat
        /\ DOMAIN p = 1..Len(p) /\ DOMAIN q = 1..Len(q)
    BY DEF Prereleases
  <1>0. p # q /\ p # <<>> /\ q # <<>> =>
          ComparePrereleases(p, q) =
            IF apart # {} THEN CompareIdentifiers(p[Min(apart)], q[Min(apart)])
            ELSE IF Len(p) < Len(q) THEN -1 ELSE 1
    BY DEF ComparePrereleases
  <1>2. CASE p # <<>> /\ q = <<>>
    BY <1>2 DEF ComparePrereleases
  <1>3. CASE p # <<>> /\ IsStrictPrefix(p, q)
    <2>1. Len(p) <= Len(q) /\ SubSeq(p, 1, Len(p)) = SubSeq(q, 1, Len(p)) /\ p # q
      BY <1>3 DEF IsStrictPrefix, IsPrefix
    <2>2. \A i \in 1..Len(p) : p[i] = q[i]
      <3> TAKE i \in 1..Len(p)
      <3>1. SubSeq(p, 1, Len(p))[i] = p[i] /\ SubSeq(q, 1, Len(p))[i] = q[i]
        BY <1>1, <2>1 DEF Prereleases
      <3> QED
        BY <2>1, <3>1
    <2>3. apart = {}
      BY <1>1, <2>1, <2>2
    <2>4. Len(p) # Len(q)
      <3>1. Len(p) = Len(q) => p = q
        BY <1>1, <2>2 DEF Prereleases
      <3> QED
        BY <2>1, <3>1
    <2>5. q # <<>>
      BY <1>1, <1>3, <2>1
    <2>6. Len(p) < Len(q)
      <3>1. Len(p) <= Len(q)
        BY <2>1
      <3>2. \A k, n \in Nat : k <= n /\ k # n => k < n
        OBVIOUS
      <3>3. Len(p) \in Nat /\ Len(q) \in Nat
        BY <1>1
      <3> QED
        BY <2>4, <3>1, <3>2, <3>3, Zenon
    <2> HIDE DEF apart
    <2> QED
      BY <1>0, <1>3, <2>1, <2>3, <2>5, <2>6
  <1>4. CASE \E i \in DOMAIN p \cap DOMAIN q :
               /\ SubSeq(p, 1, i - 1) = SubSeq(q, 1, i - 1)
               /\ \/ p[i].numeric /\ ~q[i].numeric
                  \/ p[i].numeric = q[i].numeric /\ p[i].value < q[i].value
    <2>1. PICK i \in DOMAIN p \cap DOMAIN q :
            /\ SubSeq(p, 1, i - 1) = SubSeq(q, 1, i - 1)
            /\ \/ p[i].numeric /\ ~q[i].numeric
               \/ p[i].numeric = q[i].numeric /\ p[i].value < q[i].value
      BY <1>4
    <2>2. /\ p[i] \in [numeric : BOOLEAN, value : Nat]
          /\ q[i] \in [numeric : BOOLEAN, value : Nat]
      BY <1>1, ElementOfSeq DEF Prereleases
    <2>3. p[i] # q[i]
      BY <2>1, <2>2
    <2>4. \A j \in 1..(i - 1) : p[j] = q[j]
      <3> TAKE j \in 1..(i - 1)
      <3>1. SubSeq(p, 1, i - 1)[j] = p[j] /\ SubSeq(q, 1, i - 1)[j] = q[j]
        BY <1>1, <2>1 DEF Prereleases
      <3> QED
        BY <2>1, <3>1
    <2>5. i \in apart /\ \A j \in apart : i <= j
      <3>1. i \in Nat /\ i \in DOMAIN p \cap DOMAIN q
        BY <1>1, <2>1
      <3>2. \A j \in 1..Len(p) : p[j] # q[j] => i <= j
        BY <1>1, <2>4, <3>1
      <3> QED
        BY <1>1, <2>3, <3>1, <3>2
    <2>6. Min(apart) = i
      <3>1. apart \subseteq Nat
        BY <1>1
      <3> HIDE DEF apart
      <3>2. \E j \in apart : \A k \in apart : j <= k
        BY <2>5
      <3>3. Min(apart) \in apart /\ \A j \in apart : Min(apart) <= j
        BY <3>2 DEF Min
      <3>4. i \in Nat /\ Min(apart) \in Nat /\ i <= Min(apart) /\ Min(apart) <= i
        BY <2>5, <3>1, <3>3
      <3> QED
        BY <3>4
    <2>7. p # q /\ p # <<>> /\ q # <<>>
      BY <1>1, <2>1, <2>3
    <2>8. ComparePrereleases(p, q) = CompareIdentifiers(p[i], q[i])
      <3> HIDE DEF apart
      <3> QED
        BY <1>0, <2>5, <2>6, <2>7
    <2>9. CompareIdentifiers(p[i], q[i]) = -1
      <3>1. CASE p[i].numeric /\ ~q[i].numeric
        BY <2>2, <2>3, <3>1 DEF CompareIdentifiers
      <3>2. CASE ~p[i].numeric /\ ~q[i].numeric
        BY <2>1, <2>2, <2>3, <3>2 DEF CompareIdentifiers
      <3>3. CASE p[i].numeric /\ q[i].numeric
        <4>1. p[i].value < q[i].value /\ p[i].value \in Nat /\ q[i].value \in Nat
          BY <2>1, <2>2, <3>3
        <4>2. ~(p[i].value >= MaxWord /\ q[i].value >= MaxWord)
          BY <2>1, <2>3, <3>3 DEF Saturated
        <4>3. ParseUint(p[i].value) < ParseUint(q[i].value)
          BY <4>1, <4>2, MaxWordAssumption DEF ParseUint
        <4> QED
          BY <2>3, <3>3, <4>3 DEF CompareIdentifiers
      <3> QED
        BY <2>1, <2>2, <3>1, <3>2, <3>3
    <2> QED
      BY <2>8, <2>9
  <1> QED
    BY <1>2, <1>3, <1>4 DEF Precedes

(* Whatever catalog is offered, a manifest in the registry has a window of   *)
(* versions that is not reversed, short of two numbers from 2^64-1 on, can be *)
(* checked if it is verified, and is not active if its verification failed   *)
(* (manifest.go:119-165, 281-297, 400-453, registry.go:41-43).               *)
THEOREM WhatStandsIsSound == Spec => []StandingManifestsAreSound
  <1>1. IInv => StandingManifestsAreSound
    <2> SUFFICES ASSUME IInv, NEW m \in byID
                 PROVE  /\ m.largest # None =>
                             \/ m.least.core < m.largest.core
                             \/ /\ m.least.core = m.largest.core
                                /\ \/ ~Precedes(m.largest.prerelease, m.least.prerelease)
                                   \/ Saturated(m.largest.prerelease, m.least.prerelease)
                        /\ m.state.verification = "verified" =>
                             m.revision = "pinned" /\ \A a \in ToSet(m.artifacts) : a.digest
                        /\ m.state.verification = "failed" => m.state.lifecycle # "active"
      BY DEF StandingManifestsAreSound
    <2>1. m \in Manifests /\ Validates(m)
      BY Registered DEF IInv, Registry
    <2>2. ASSUME m.largest # None
          PROVE  \/ m.least.core < m.largest.core
                 \/ /\ m.least.core = m.largest.core
                    /\ \/ ~Precedes(m.largest.prerelease, m.least.prerelease)
                       \/ Saturated(m.largest.prerelease, m.least.prerelease)
      <3>1. m.least \in SemVersions /\ m.largest \in SemVersions
        BY <2>1, <2>2, Fields
      <3>2. /\ m.least.core \in Nat /\ m.least.prerelease \in Prereleases
            /\ m.largest.core \in Nat /\ m.largest.prerelease \in Prereleases
        BY <3>1 DEF SemVersions, Prereleases
      <3>3. CompareVersion(m.largest, m.least) >= 0
        BY <2>1, <2>2 DEF Validates, ValidCompatibility
      <3>4. ~(m.largest.core < m.least.core)
        BY <3>2, <3>3 DEF CompareVersion
      <3>5. m.least.core = m.largest.core =>
              ComparePrereleases(m.largest.prerelease, m.least.prerelease) >= 0
        BY <3>2, <3>3 DEF CompareVersion
      <3>6. m.least.core = m.largest.core =>
              ~(/\ Precedes(m.largest.prerelease, m.least.prerelease)
                /\ ~Saturated(m.largest.prerelease, m.least.prerelease))
        BY <3>2, <3>5, PrecedenceIsKept
      <3> QED
        BY <3>2, <3>4, <3>6
    <2>3. ASSUME m.state.verification = "verified"
          PROVE  m.revision = "pinned" /\ \A a \in ToSet(m.artifacts) : a.digest
      BY <2>1, <2>3, VerifiedIsPinned
    <2>4. m.state.verification = "failed" => m.state.lifecycle # "active"
      BY <2>1 DEF Validates, ValidState
    <2> QED
      BY <2>2, <2>3, <2>4
  <1> QED
    BY <1>1, Invariant, PTL

-----------------------------------------------------------------------------
(* No identifier has two models: what the registry finds is the one manifest *)
(* that has the name, if there is one.                                       *)
LEMMA FoundIsOwner ==
  ASSUME Whole(Len(manifests)), DOMAIN manifests = 1..Len(manifests)
  PROVE  /\ \A i \in Owners : Found(request.identifier) = {manifests[i]}
         /\ Owners = {} => Found(request.identifier) = {}
  <1> DEFINE name == request.identifier
  <1>1. /\ byID = {manifests[j] : j \in 1..Len(manifests)}
        /\ \A j, k \in 1..Len(manifests) :
             j # k => Names(manifests[j]) \cap Names(manifests[k]) = {}
    BY DEF Whole, Disjoint
  <1>2. \A pair : pair \in aliases <=>
          \E j \in 1..Len(manifests) : \E a \in ToSet(manifests[j].aliases) :
            pair = <<a, manifests[j].id>>
    BY PairsAre DEF Whole
  <1>3. \A j : manifests[j].id \in Names(manifests[j])
               /\ ToSet(manifests[j].aliases) \subseteq Names(manifests[j])
    BY DEF Names
  <1>4. ASSUME NEW j \in 1..Len(manifests), NEW n,
               <<n, manifests[j].id>> \in aliases
        PROVE  n \in ToSet(manifests[j].aliases)
    <2>1. PICK k \in 1..Len(manifests) : \E a \in ToSet(manifests[k].aliases) :
            <<n, manifests[j].id>> = <<a, manifests[k].id>>
      BY <1>2, <1>4
    <2>2. n \in ToSet(manifests[k].aliases) /\ manifests[j].id = manifests[k].id
      BY <2>1
    <2>3. j = k
      BY <1>1, <1>3, <2>2
    <2> QED
      BY <2>2, <2>3
  <1>5. \A m \in Found(name) : \E j \in Owners : m = manifests[j]
    <2> TAKE m \in Found(name)
    <2>1. PICK j \in 1..Len(manifests) : m = manifests[j]
      BY <1>1 DEF Found
    <2>2. m.id = name \/ <<name, m.id>> \in aliases
      BY DEF Found
    <2>3. name \in Names(manifests[j])
      BY <1>3, <1>4, <2>1, <2>2
    <2> QED
      BY <2>1, <2>3 DEF Owners
  <1>6. \A i, j \in Owners : i = j
    BY <1>1 DEF Owners
  <1>7. \A i \in Owners : manifests[i] \in Found(name)
    <2> TAKE i \in Owners
    <2>1. i \in 1..Len(manifests) /\ name \in Names(manifests[i]) /\ manifests[i] \in byID
      BY <1>1 DEF Owners
    <2>2. CASE manifests[i].id = name
      BY <2>1, <2>2 DEF Found, IsID
    <2>3. CASE manifests[i].id # name
      <3>1. name \in ToSet(manifests[i].aliases)
        BY <2>1, <2>3 DEF Names
      <3>2. ~IsID(name)
        <4> SUFFICES ASSUME NEW m \in byID, m.id = name
                     PROVE  FALSE
          BY DEF IsID
        <4>1. PICK j \in 1..Len(manifests) : m = manifests[j]
          BY <1>1
        <4>2. j = i
          BY <1>1, <1>3, <2>1, <4>1
        <4> QED
          BY <2>3, <4>1, <4>2
      <3>3. <<name, manifests[i].id>> \in aliases
        BY <1>2, <2>1, <3>1
      <3> QED
        BY <2>1, <3>2, <3>3 DEF Found
    <2> QED
      BY <2>2, <2>3
  <1> QED
    BY <1>5, <1>6, <1>7

(* An artifact and a backend are compatible exactly if the scan would stop.  *)
LEMMA CompatibleIsUsable ==
  ASSUME IInv, Scanning,
         NEW c \in ToSet(CandidateArtifacts(Manifest)), NEW d \in ToSet(backends)
  PROVE  <<c, d>> \in Compatible(Manifest) <=> Usable(d, c)
  <1>1. d \in Descriptors /\ request \in Asked
    BY InScanTyped DEF TypeOK
  <1>2. /\ d.state \in {"ready", "unknown", "unavailable", "disabled"}
        /\ d.offers \in [{"text", "expert_offload", "placement"} -> Support]
    BY <1>1, DescriptorAssumption
  <1>3. d.state \in {"ready", "unknown"} <=> d.state \notin {"disabled", "unavailable"}
    BY <1>2
  <1>4. \A r \in Capabilities :
          (/\ r = "text" => "text" \in Manifest.capabilities
           /\ r = "expert_offload" => Manifest.class = "moe"
           /\ r # "bogus"
           /\ d.offers[r] \in {"supported", "conditional"})
          <=> ModelSupports(Manifest, r) /\ State(d, r) \in {"supported", "conditional"}
    <2> TAKE r \in Capabilities
    <2>1. CASE r = "text"
      BY <1>2, <2>1 DEF ModelSupports, State
    <2>2. CASE r = "expert_offload"
      BY <1>2, <2>2 DEF ModelSupports, State
    <2>3. CASE r = "placement"
      BY <1>2, <2>3 DEF ModelSupports, State
    <2>4. CASE r = "bogus"
      BY <1>2, <2>4 DEF ModelSupports, State
    <2> QED
      BY <2>1, <2>2, <2>3, <2>4 DEF Capabilities
  <1>5. request.required \subseteq Capabilities
    BY <1>1 DEF Asked
  <1>6. <<c, d>> \in Compatible(Manifest) <=>
          /\ c.kind = d.kind /\ d.state \in {"ready", "unknown"}
          /\ \A r \in request.required :
               /\ r = "text" => "text" \in Manifest.capabilities
               /\ r = "expert_offload" => Manifest.class = "moe"
               /\ r # "bogus"
               /\ d.offers[r] \in {"supported", "conditional"}
    BY DEF Compatible
  <1>7. Usable(d, c) <=>
          /\ c.kind = d.kind /\ d.state \notin {"disabled", "unavailable"}
          /\ \A r \in request.required :
               ModelSupports(Manifest, r) /\ State(d, r) \in {"supported", "conditional"}
    BY DEF Usable, RequirementsSatisfied
  <1> QED
    BY <1>3, <1>4, <1>5, <1>6, <1>7

(* The model of a request in the scan is that of the owner of its identifier. *)
LEMMA ModelIsOwners ==
  ASSUME IInv, Scanning
  PROVE  /\ Owners # {} /\ \A i \in Owners : manifests[i] = Manifest
         /\ TypeOK /\ Manifest \in byID
  <1>1. Whole(Len(manifests)) /\ Found(request.identifier) # {}
    BY DEF IInv, Registry, Scan, Started, Scanning
  <1>2. DOMAIN manifests = 1..Len(manifests) /\ TypeOK /\ Manifest \in byID
    BY InScanTyped, CatalogTyped
  <1>3. Manifest \in Found(request.identifier)
    BY <1>1 DEF Manifest
  <1> QED
    BY <1>1, <1>2, <1>3, FoundIsOwner

(* What a plan is made of: a candidate and a backend that the scan can use.  *)
LEMMA PlannedFrom ==
  ASSUME IInv, pc = "planned"
  PROVE  /\ Candidate \in ToSet(CandidateArtifacts(Manifest)) /\ Candidate \in Entries(Manifest)
         /\ Descriptor \in ToSet(backends) /\ Descriptor \in Descriptors
         /\ ValidDescriptor(Descriptor)
         /\ Usable(Descriptor, Candidate) /\ plan = Served
         /\ turn.candidate \in 1..Len(CandidateArtifacts(Manifest))
         /\ turn.backend \in 1..Len(Ordered)
  <1>1. Scanning
    BY DEF Scanning
  <1>2. /\ turn.candidate <= Len(CandidateArtifacts(Manifest)) /\ turn.backend <= Len(backends)
        /\ Usable(Descriptor, Candidate) /\ plan = Served
    BY DEF IInv, Scan
  <1>3. /\ CandidateArtifacts(Manifest) \in Seq(Entries(Manifest))
        /\ Ordered \in Seq(ToSet(backends)) /\ ToSet(backends) \subseteq Descriptors
        /\ turn.candidate \in 1..Len(CandidateArtifacts(Manifest))
        /\ turn.backend \in 1..Len(Ordered)
        /\ \A d \in ToSet(backends) : ValidDescriptor(d)
    BY <1>1, <1>2, InScanTyped DEF Positive
  <1>4. Candidate \in ToSet(CandidateArtifacts(Manifest)) /\ Candidate \in Entries(Manifest)
    BY <1>3 DEF Candidate, ToSet
  <1>5. Descriptor \in ToSet(backends) /\ Descriptor \in Descriptors
    BY <1>3 DEF Descriptor
  <1> QED
    BY <1>2, <1>3, <1>4, <1>5

(* A plan serves the model that owns the identifier, with an artifact of it, *)
(* on an enabled backend of the artifact's kind, with every capability       *)
(* granted by both; of a verified model an artifact with a digest; it names  *)
(* exactly the policies of the model on this kind of backend, and claims no  *)
(* context override the backend has not (router.go:40-48, 62-85,             *)
(* policy.go:147-161).                                                       *)
THEOREM PlanIsForTheRequest == Spec => []PlanServesRequest
  <1>1. IInv => PlanServesRequest
    <2> SUFFICES ASSUME IInv, pc = "planned"
                 PROVE  PlanServesRequest
      BY DEF PlanServesRequest
    <2>1. Scanning
      BY DEF Scanning
    <2>2. /\ Candidate \in ToSet(CandidateArtifacts(Manifest)) /\ Candidate \in Entries(Manifest)
          /\ Descriptor \in ToSet(backends) /\ Descriptor \in Descriptors
          /\ ValidDescriptor(Descriptor)
          /\ Usable(Descriptor, Candidate) /\ plan = Served
      BY PlannedFrom
    <2>3. PICK i \in Owners : manifests[i] = Manifest
      BY <2>1, ModelIsOwners
    <2>4. <<Candidate, Descriptor>> \in Compatible(Manifest)
      BY <2>1, <2>2, CompatibleIsUsable
    <2>5. Manifest \in Manifests /\ Validates(Manifest)
      BY <2>1, ModelIsOwners, Registered DEF IInv, Registry
    <2>6. /\ plan.model = Manifest.id /\ plan.backend = Descriptor.id
          /\ plan.kind = Candidate.kind /\ plan.uri = Candidate.uri
          /\ plan.override = Descriptor.override
          /\ plan.policies = Match(Manifest, Descriptor.kind)
      BY <2>2 DEF Served
    <2>7. Manifest.state.verification = "verified" =>
            \E a \in ToSet(Manifest.artifacts) : a.uri = plan.uri /\ a.digest
      <3>1. PICK a \in ToSet(Manifest.artifacts) : Candidate.uri = a.uri
        BY <2>2 DEF Entries
      <3> QED
        BY <2>5, <2>6, <3>1, VerifiedIsPinned
    <2>8. \A p \in Policies : p.id \in ToSet(plan.policies) <=>
            /\ p.family = Manifest.family /\ p.kind = Descriptor.kind
            /\ Manifest.variant \in p.variants \/ "*" \in p.variants
      <3> TAKE p \in Policies
      <3>1. p.id \in ToSet(plan.policies) <=>
              \E q \in Matching(Manifest, Descriptor.kind) : p.id = q.id
        BY <2>6, PoliciesInOrder
      <3>2. \A q \in Matching(Manifest, Descriptor.kind) : q \in Policies
        BY DEF Matching
      <3>3. p.id \in ToSet(plan.policies) <=> p \in Matching(Manifest, Descriptor.kind)
        BY <3>1, <3>2, PolicyAssumption
      <3> QED
        BY <3>3 DEF Matching
    <2>9. plan.override.verified => plan.override.support = "supported"
      BY <2>2, <2>6 DEF ValidDescriptor
    <2>10. \E pair \in Compatible(manifests[i]) :
             LET m == manifests[i]
             IN  /\ plan.model = m.id /\ plan.backend = pair[2].id
                 /\ plan.kind = pair[1].kind /\ plan.uri = pair[1].uri
                 /\ m.state.verification = "verified" =>
                      \E a \in ToSet(m.artifacts) : a.uri = plan.uri /\ a.digest
                 /\ \A p \in Policies : p.id \in ToSet(plan.policies) <=>
                      /\ p.family = m.family /\ p.kind = pair[2].kind
                      /\ m.variant \in p.variants \/ "*" \in p.variants
      <3> DEFINE pair == <<Candidate, Descriptor>>
      <3>1. pair[1] = Candidate /\ pair[2] = Descriptor
        OBVIOUS
      <3>2. pair \in Compatible(Manifest)
        BY <2>4
      <3> HIDE DEF pair
      <3> QED
        BY <2>3, <2>6, <2>7, <2>8, <3>1, <3>2
    <2> QED
      BY <2>9, <2>10 DEF PlanServesRequest
  <1> QED
    BY <1>1, Invariant, PTL

(* The plan is the least of all that would do, by kind, then URI, then       *)
(* backend, and so does not depend on the order of artifacts or backends     *)
(* (router.go:50, 110-115).                                                  *)
THEOREM PlanIsTheLeast == Spec => []PlanIsLeast
  <1>1. IInv => PlanIsLeast
    <2> SUFFICES ASSUME IInv, pc = "planned", NEW i \in Owners,
                        NEW pair \in Compatible(manifests[i])
                 PROVE  \/ plan.kind < pair[1].kind
                        \/ plan.kind = pair[1].kind /\ plan.uri < pair[1].uri
                        \/ /\ plan.kind = pair[1].kind /\ plan.uri = pair[1].uri
                           /\ plan.backend <= pair[2].id
      BY DEF PlanIsLeast
    <2> DEFINE c == CandidateArtifacts(Manifest)
    <2>1. Scanning
      BY DEF Scanning
    <2>2. /\ turn.candidate \in 1..Len(c) /\ turn.backend \in 1..Len(Ordered)
          /\ plan.kind = Candidate.kind /\ plan.uri = Candidate.uri
          /\ plan.backend = Descriptor.id
      BY PlannedFrom DEF Served
    <2>3. manifests[i] = Manifest /\ Manifest \in Manifests
      BY <2>1, ModelIsOwners, InScanTyped
    <2>4. pair[1] \in ToSet(c) /\ pair[2] \in ToSet(backends) /\ pair = <<pair[1], pair[2]>>
      BY <2>3 DEF Compatible
    <2>5. Usable(pair[2], pair[1])
      BY <2>1, <2>3, <2>4, CompatibleIsUsable
    <2>6. /\ c \in Seq(Entries(Manifest))
          /\ \A x, y \in 1..Len(c) : x < y =>
               c[x].kind < c[y].kind \/ (c[x].kind = c[y].kind /\ c[x].uri < c[y].uri)
      BY <2>3, CandidatesInOrder
    <2>7. /\ Ordered \in Seq(ToSet(backends)) /\ Len(Ordered) = Len(backends)
          /\ \A d \in ToSet(backends) : \E x \in 1..Len(Ordered) : Ordered[x] = d
          /\ \A x, y \in 1..Len(Ordered) : x < y => Ordered[x].id < Ordered[y].id
          /\ ToSet(backends) \subseteq Descriptors
      <3>1. Distinct(backends) /\ backends \in Seq(Descriptors)
        BY <2>1 DEF IInv, Scan, Scanning, Started, TypeOK
      <3> QED
        BY <2>1, <3>1, BackendsInOrder, InScanTyped
    <2>8. PICK x \in 1..Len(c) : c[x] = pair[1]
      BY <2>4, <2>6 DEF ToSet
    <2>9. PICK y \in 1..Len(Ordered) : Ordered[y] = pair[2]
      BY <2>4, <2>7
    <2>10. ~Scanned(x, y)
      BY <2>1, <2>5, <2>7, <2>8, <2>9 DEF IInv, Scan
    <2>11. turn.candidate < x \/ (turn.candidate = x /\ turn.backend <= y)
      <3>1. /\ turn.candidate \in Nat /\ turn.backend \in Nat
            /\ x \in Nat /\ y \in Nat
        BY <2>1, InScanTyped DEF Positive
      <3> QED
        BY <2>10, <3>1 DEF Scanned
    <2>12. Candidate = c[turn.candidate] /\ Descriptor = Ordered[turn.backend]
      BY DEF Candidate, Descriptor
    <2> HIDE DEF c
    <2>13. CASE turn.candidate < x
      BY <2>2, <2>6, <2>8, <2>12, <2>13
    <2>14. CASE turn.candidate = x /\ turn.backend < y
      <3>1. Descriptor \in Descriptors /\ pair[2] \in Descriptors
        BY <2>2, <2>4, <2>7, <2>12
      <3>2. Descriptor.id \in Nat /\ pair[2].id \in Nat
        BY <3>1, DescriptorAssumption
      <3>3. Descriptor.id < pair[2].id
        BY <2>2, <2>7, <2>9, <2>12, <2>14
      <3> QED
        BY <2>2, <2>8, <2>12, <2>14, <3>2, <3>3
    <2>15. CASE turn.candidate = x /\ turn.backend = y
      <3>1. Descriptor = pair[2] /\ Candidate = pair[1]
        BY <2>8, <2>9, <2>12, <2>15
      <3>2. pair[2].id \in Nat
        <4>1. pair[2] \in Descriptors
          BY <2>4, <2>7
        <4> QED
          BY <4>1, DescriptorAssumption
      <3> QED
        BY <2>2, <3>1, <3>2
    <2>16. turn.backend <= y => turn.backend < y \/ turn.backend = y
      BY <2>2, <2>7
    <2> QED
      BY <2>11, <2>13, <2>14, <2>15, <2>16
  <1> QED
    BY <1>1, Invariant, PTL

(* A refusal is justified: no manifest has the name, or no artifact of the   *)
(* model has a compatible backend (router.go:55-58, 87; server.go:252-260).  *)
THEOREM RefusalIsJustified == Spec => []RefusalIsHonest
  <1>1. IInv => RefusalIsHonest
    <2> SUFFICES ASSUME IInv
                 PROVE  RefusalIsHonest
      OBVIOUS
    <2>1. ASSUME pc = "model_not_found"
          PROVE  Owners = {}
      <3>1. Whole(Len(manifests)) /\ Found(request.identifier) = {}
        BY <2>1 DEF IInv, Registry, Scan, Started
      <3>2. DOMAIN manifests = 1..Len(manifests)
        BY CatalogTyped DEF IInv
      <3> QED
        BY <3>1, <3>2, FoundIsOwner
    <2>2. ASSUME pc = "no_compatible_backend", NEW i \in Owners
          PROVE  Compatible(manifests[i]) = {}
      <3>1. Scanning
        BY <2>2 DEF Scanning
      <3>2. manifests[i] = Manifest
        BY <3>1, ModelIsOwners
      <3> SUFFICES ASSUME NEW pair \in Compatible(Manifest)
                   PROVE  FALSE
        BY <3>2
      <3> DEFINE c == CandidateArtifacts(Manifest)
      <3>3. pair[1] \in ToSet(c) /\ pair[2] \in ToSet(backends) /\ pair = <<pair[1], pair[2]>>
        BY DEF Compatible
      <3>4. Usable(pair[2], pair[1])
        BY <3>1, <3>3, CompatibleIsUsable
      <3>5. \E x \in 1..Len(c) : c[x] = pair[1]
        <4>1. c \in Seq(Entries(Manifest))
          BY <3>1, InScanTyped
        <4>2. DOMAIN c = 1..Len(c)
          BY <4>1
        <4>3. PICK x \in DOMAIN c : c[x] = pair[1]
          BY <3>3 DEF ToSet
        <4> HIDE DEF c
        <4> QED
          BY <4>2, <4>3
      <3> HIDE DEF c
      <3>x. PICK x \in 1..Len(c) : c[x] = pair[1]
        BY <3>5
      <3>6. PICK y \in 1..Len(Ordered) : Ordered[y] = pair[2]
        <4>1. Distinct(backends) /\ backends \in Seq(Descriptors)
          BY <3>1 DEF IInv, Scan, Scanning, Started, TypeOK
        <4> QED
          BY <3>3, <4>1, BackendsInOrder
      <3>7. y \in 1..Len(backends) /\ Len(c) \in Nat /\ turn.candidate \in Nat
        BY <3>1, InScanTyped DEF Positive, c
      <3>8. x < turn.candidate
        <4>1. turn.candidate > Len(c)
          BY <2>2 DEF IInv, Scan, c
        <4> QED
          BY <3>7, <4>1
      <3>9. ~Usable(Ordered[y], c[x])
        BY <3>1, <3>7, <3>8, <3>x DEF IInv, Scan, Scanned, c
      <3> QED
        BY <3>4, <3>x, <3>6, <3>9
    <2> QED
      BY <2>1, <2>2 DEF RefusalIsHonest
  <1> QED
    BY <1>1, Invariant, PTL

=============================================================================
