---------------------------- MODULE AdmissionProofs ----------------------------
(***************************************************************************)
(* Proofs about Admission for machines of any size, any profiles and any   *)
(* evidence: the limits never exceed what the process may run on, what is  *)
(* admitted has its CPUs, and a benchmark plan leaves the reserve free.    *)
(***************************************************************************)
EXTENDS Admission, TLAPS

(* What was read of the affinity holds until the cgroup has been read.       *)
AffinityRead ==
  /\ limits >= 1 /\ limits <= NumCPU
  /\ files.affinity /\ ~allowed.late => limits <= allowed.now
  /\ moves = 0 => limits = allowed.now

Discovery ==
  /\ moves = 0 => allowed.startup = allowed.now /\ ~allowed.late
  /\ pc \in {"host", "not found", "affinity"} => ~allowed.late
  /\ pc = "cgroup" => AffinityRead
  /\ NeverMoreThanAllowed

(* A decision is what Decide makes of the checks of its request.             *)
Decided ==
  /\ request \in Admit
  /\ request.evidence.dedicated >= 0 /\ request.evidence.budget >= 0
  /\ decision = Decide(Checks(request))

Outcome ==
  /\ decision # "none" => pc = "done" /\ Decided
  /\ pc = "done" => request \in Bench \/ Decided
  /\ PlanLeavesReserve

IInv == TypeOK /\ Discovery /\ Outcome

-----------------------------------------------------------------------------
LEMMA Constants ==
  /\ MaxCores \in Nat /\ Counts \subseteq Nat /\ Counts \subseteq Int
  /\ \A n \in Counts, m \in Int : 0 <= m /\ m <= n => m \in Counts
  BY BoundsAssumption DEF Counts

(* A machine runs at least one CPU and at most two for a core.               *)
LEMMA Cores ==
  ASSUME TypeOK
  PROVE  /\ CPUs \in Counts /\ CPUs \in Nat /\ CPUs >= 1
         /\ machine.cores \in Counts
         /\ allowed.startup \in Counts /\ allowed.startup \in Nat
         /\ allowed.startup >= 1 /\ allowed.startup <= CPUs
         /\ allowed.now \in Nat /\ allowed.now >= 1 /\ allowed.now <= CPUs
         /\ allowed.late \in BOOLEAN
  <1>1. /\ machine.cores \in 1..MaxCores /\ machine.threads \in 1..2
        /\ allowed.startup \in 1..CPUs /\ allowed.now \in 1..CPUs /\ allowed.late \in BOOLEAN
    BY DEF TypeOK, Machines
  <1>2. CPUs = machine.cores \/ CPUs = machine.cores + machine.cores
    <2>1. machine.threads = 1 \/ machine.threads = 2
      BY <1>1
    <2>2. \A n \in Nat : n * 1 = n /\ n * 2 = n + n
      OBVIOUS
    <2> QED
      BY <1>1, <2>1, <2>2, BoundsAssumption DEF CPUs
  <1>3. CPUs \in Nat /\ CPUs >= 1 /\ CPUs <= 2 * MaxCores /\ machine.cores \in Counts
    BY <1>1, <1>2, BoundsAssumption DEF Counts
  <1> HIDE DEF CPUs
  <1> QED
    BY <1>1, <1>3, BoundsAssumption DEF Counts

(* A CPU set that counts names the process's CPUs or all there are.          *)
LEMMA CPUSet ==
  ASSUME TypeOK
  PROVE  /\ CgroupCPUSet \in Int
         /\ CgroupCPUSet > 0 => CgroupCPUSet \in Nat /\ CgroupCPUSet >= allowed.now
         /\ files.cpusets[1] = allowed.now => CgroupCPUSet = allowed.now
  <1>1. /\ allowed.now \in Nat /\ allowed.now >= 1 /\ CPUs \in Nat /\ CPUs >= allowed.now
    BY Cores
  <1> DEFINE now == allowed.now
             there == {i \in 1..3 : files.cpusets[i] # Missing}
             known == {Missing, Malformed, now, CPUs}
  <1>2. \/ \E set \in known : files.cpusets = <<set, CPUs, Missing>>
        \/ \E set \in {Missing, Malformed, now} : files.cpusets = <<Missing, Missing, set>>
    BY DEF TypeOK, Files
  <1>3. \A i \in 1..3 : files.cpusets[i] \in known
    <2>1. \A i \in 1..3 : i = 1 \/ i = 2 \/ i = 3
      OBVIOUS
    <2> HIDE DEF now
    <2> QED
      BY <1>2, <2>1
  <1>4. ASSUME there # {}
        PROVE  Min(there) \in there /\ \A i \in there : Min(there) <= i
    <2>1. \E m \in there : \A i \in there : m <= i
      <3>1. \A i \in 1..3 : i = 1 \/ i = 2 \/ i = 3
        OBVIOUS
      <3>2. there \subseteq {1, 2, 3}
        BY <3>1
      <3> HIDE DEF there
      <3>3. 1 \in there \/ 2 \in there \/ 3 \in there
        BY <1>4, <3>2
      <3>4. \A i \in there : i = 1 \/ i = 2 \/ i = 3
        BY <3>2
      <3>5. CASE 1 \in there
        BY <3>4, <3>5
      <3>6. CASE 1 \notin there /\ 2 \in there
        BY <3>4, <3>6
      <3>7. CASE 1 \notin there /\ 2 \notin there
        BY <3>3, <3>4, <3>7
      <3> QED
        BY <3>5, <3>6, <3>7
    <2> HIDE DEF there
    <2> QED
      BY <2>1 DEF Min
  <1>5. CgroupCPUSet \in known
    <2>1. CgroupCPUSet = IF there = {} THEN Missing ELSE files.cpusets[Min(there)]
      BY DEF CgroupCPUSet
    <2>2. there # {} => Min(there) \in 1..3
      BY <1>4
    <2> HIDE DEF there
    <2> QED
      BY <1>3, <2>1, <2>2
  <1>6. ASSUME files.cpusets[1] = now
        PROVE  CgroupCPUSet = now
    <2>1. 1 \in there
      BY <1>1, <1>6 DEF Missing
    <2>2. Min(there) \in 1..3 /\ Min(there) <= 1
      BY <1>4, <2>1
    <2>3. Min(there) = 1
      <3> HIDE DEF there
      <3> QED
        BY <2>2
    <2>4. CgroupCPUSet = files.cpusets[Min(there)]
      BY <2>1 DEF CgroupCPUSet
    <2> HIDE DEF there
    <2> QED
      BY <1>6, <2>3, <2>4
  <1>7. /\ \A s \in known : s \in Int
        /\ \A s \in known : s > 0 => s \in Nat /\ s >= now
    <2> HIDE DEF now
    <2> QED
      BY <1>1 DEF Missing, Malformed, now
  <1> HIDE DEF known
  <1> QED
    BY <1>5, <1>6, <1>7

-----------------------------------------------------------------------------
(* What the checks of a request weigh.  A class preference weighs nothing.   *)
LEMMA Weights ==
  ASSUME NEW r, r.profile.accelerator \in BOOLEAN
  PROVE  /\ "fail" \in Weighed(Checks(r)) <=>
              \/ ~(r.profile.arch \in {"any", r.arch})
              \/ ~(host.memory >= r.profile.memory)
              \/ ~(Stated(r.evidence.dedicated, host.physical) >= r.profile.cores)
              \/ ~BudgetHolds(r)
              \/ r.profile.accelerator /\ ~(host.accelerators > 0)
              \/ r.profile.ecc /\ r.evidence.ecc = "fail"
         /\ "unknown" \in Weighed(Checks(r)) <=> r.profile.ecc /\ r.evidence.ecc = "unknown"
  <1> DEFINE arch == Check("arch", TRUE, Pass(r.profile.arch \in {"any", r.arch}))
             memory == Check("memory", TRUE, Pass(host.memory >= r.profile.memory))
             cores == Check("cores", TRUE,
                        Pass(Stated(r.evidence.dedicated, host.physical) >= r.profile.cores))
             budget == Check("budget", TRUE, Pass(BudgetHolds(r)))
             accelerator == Check("accelerator", r.profile.accelerator,
                              Pass(r.profile.accelerator => host.accelerators > 0))
             clock == Check("clock", FALSE, "advisory")
             ecc == Check("ecc", TRUE, r.evidence.ecc)
             class == Check("class", FALSE, r.evidence.class)
  <1>1. \A c : c \in Checks(r) <=>
          \/ c \in {arch, memory, cores, budget, accelerator, clock}
          \/ c = ecc /\ r.profile.ecc
          \/ c = class /\ r.profile.class
    BY DEF Checks
  <1>2. \A id, state : /\ Check(id, TRUE, state).mandatory /\ ~Check(id, FALSE, state).mandatory
                       /\ \A m : Check(id, m, state).state = state
    BY DEF Check
  <1>3. accelerator.mandatory <=> r.profile.accelerator
    BY DEF Check
  <1>4. \A s : s \in Weighed(Checks(r)) <=>
          \/ s \in {arch.state, memory.state, cores.state, budget.state}
          \/ s = accelerator.state /\ r.profile.accelerator
          \/ s = ecc.state /\ r.profile.ecc
    <2>1. /\ arch.mandatory /\ memory.mandatory /\ cores.mandatory /\ budget.mandatory
          /\ ~clock.mandatory /\ ecc.mandatory /\ ~class.mandatory
      BY <1>2
    <2>2. \A s : s \in Weighed(Checks(r)) <=> \E c \in Checks(r) : c.mandatory /\ s = c.state
      BY DEF Weighed
    <2> HIDE DEF arch, memory, cores, budget, accelerator, clock, ecc, class
    <2> QED
      BY <1>1, <1>3, <2>1, <2>2
  <1>5. /\ arch.state = Pass(r.profile.arch \in {"any", r.arch})
        /\ memory.state = Pass(host.memory >= r.profile.memory)
        /\ cores.state = Pass(Stated(r.evidence.dedicated, host.physical) >= r.profile.cores)
        /\ budget.state = Pass(BudgetHolds(r))
        /\ accelerator.state = Pass(r.profile.accelerator => host.accelerators > 0)
        /\ ecc.state = r.evidence.ecc
    BY <1>2
  <1> HIDE DEF arch, memory, cores, budget, accelerator, clock, ecc, class
  <1> QED
    BY <1>4, <1>5 DEF Pass

LEMMA Decisions ==
  ASSUME NEW checks
  PROVE  /\ Decide(checks) \in {"rejected", "needs_operator_evidence", "admitted"}
         /\ Decide(checks) = "rejected" <=> "fail" \in Weighed(checks)
         /\ Decide(checks) = "admitted" <=>
              "fail" \notin Weighed(checks) /\ "unknown" \notin Weighed(checks)
         /\ Decide(checks) = "needs_operator_evidence" <=>
              "fail" \notin Weighed(checks) /\ "unknown" \in Weighed(checks)
  BY DEF Decide

LEMMA Asked ==
  ASSUME NEW r \in Admit
  PROVE  /\ r.kind = "admit"
         /\ r.profile.ecc \in BOOLEAN /\ r.profile.accelerator \in BOOLEAN
         /\ r.profile.cores \in Nat /\ r.profile.cores >= 1
         /\ r.evidence.dedicated \in Int /\ r.evidence.budget \in Int
         /\ r.evidence.ecc \in {"unknown", "pass", "fail"}
  <1>1. r.kind = "admit" /\ r.profile \in Profiles /\ r.evidence \in Evidence
    BY DEF Admit
  <1>2. r.profile.ecc \in BOOLEAN /\ r.profile.accelerator \in BOOLEAN
        /\ r.profile.cores \in Nat \ {0}
    BY <1>1, ProfilesAssumption
  <1>3. /\ r.evidence.dedicated \in Int /\ r.evidence.budget \in Int
        /\ r.evidence.ecc \in {"unknown", "pass", "fail"}
    BY <1>1, EvidenceAssumption
  <1> QED
    BY <1>1, <1>2, <1>3

-----------------------------------------------------------------------------
LEMMA InitInvariant == Init => IInv
  <1> SUFFICES ASSUME Init
               PROVE  IInv
    OBVIOUS
  <1>1. PICK n \in 1..CPUs : allowed = [startup |-> n, now |-> n, late |-> FALSE]
    BY DEF Init
  <1>2. 0 \in Counts /\ 0 \in 0..MaxMoves
    BY BoundsAssumption DEF Counts
  <1>3. allowed \in [startup : 1..CPUs, now : 1..CPUs, late : BOOLEAN]
    BY <1>1
  <1>4. /\ machine \in Machines /\ files \in Files(allowed.now) /\ moves = 0 /\ pc = "host"
        /\ host = [logical |-> 0, physical |-> 0, memory |-> 0, accelerators |-> 0]
        /\ limits = 0 /\ request = NoRequest /\ decision = "none"
        /\ plan = [max |-> 0, production |-> {}, full |-> {}]
    BY DEF Init
  <1>5. host \in [logical : Counts, physical : Counts, memory : Memory, accelerators : 0..1]
    BY <1>2, <1>4, MemoryAssumption
  <1>6. TypeOK
    BY <1>2, <1>3, <1>4, <1>5 DEF TypeOK
  <1>7. Discovery
    BY <1>1, <1>4 DEF Discovery, NeverMoreThanAllowed
  <1>8. Outcome
    BY <1>4 DEF Outcome, PlanLeavesReserve
  <1> QED
    BY <1>6, <1>7, <1>8 DEF IInv

(* Until the request is chosen there is no decision and no plan.             *)
LEMMA Undecided ==
  ASSUME IInv, pc # "done"
  PROVE  decision = "none"
  BY DEF IInv, Outcome

LEMMA MovesKeep == IInv /\ OperatorMoves => IInv'
  <1> SUFFICES ASSUME IInv, OperatorMoves
               PROVE  IInv'
    OBVIOUS
  <1>1. /\ moves < MaxMoves /\ pc \in {"host", "affinity", "cgroup"} /\ moves' = moves + 1
        /\ UNCHANGED <<machine, pc, host, limits, request, decision, plan>>
    BY DEF OperatorMoves
  <1>2. PICK n \in 1..CPUs :
          /\ allowed' = [allowed EXCEPT !.now = n, !.late = (pc = "cgroup")]
          /\ files' \in Files(n) /\ files'.affinity = files.affinity
    BY DEF OperatorMoves
  <1>3. TypeOK /\ Discovery /\ Outcome /\ moves \in 0..MaxMoves
    BY DEF IInv, TypeOK
  <1>4. allowed \in [startup : 1..CPUs, now : 1..CPUs, late : BOOLEAN]
    BY <1>3 DEF TypeOK
  <1>5. /\ allowed' \in [startup : 1..CPUs, now : 1..CPUs, late : BOOLEAN]
        /\ allowed'.now = n /\ allowed'.startup = allowed.startup
        /\ allowed'.late <=> pc = "cgroup"
    BY <1>2, <1>4
  <1>6. moves' \in 0..MaxMoves /\ moves' # 0
    BY <1>1, <1>3, BoundsAssumption
  <1>7. CPUs' = CPUs /\ Files(n)' = Files(n) /\ Machines' = Machines /\ Counts' = Counts
    BY <1>1 DEF CPUs, Files, Machines, Counts
  <1>8. TypeOK'
    <2>1. /\ files' = [affinity |-> files'.affinity, cpusets |-> files'.cpusets]
          /\ files'.affinity \in BOOLEAN
          /\ \/ \E set \in {Missing, Malformed, n, CPUs} :
                  files'.cpusets = <<set, CPUs, Missing>>
             \/ \E set \in {Missing, Malformed, n} :
                  files'.cpusets = <<Missing, Missing, set>>
      BY <1>2 DEF Files
    <2>2. files' \in Files(allowed.now)'
      <3> DEFINE sets == {<<set, CPUs', Missing>> : set \in {Missing, Malformed, allowed'.now, CPUs'}}
                           \cup {<<Missing, Missing, set>> :
                                   set \in {Missing, Malformed, allowed'.now}}
      <3>1. files'.cpusets \in sets
        BY <1>5, <1>7, <2>1
      <3> HIDE DEF sets
      <3>2. files' \in [affinity : BOOLEAN, cpusets : sets]
        BY <2>1, <3>1
      <3> QED
        BY <3>2 DEF Files, sets
    <2> QED
      BY <1>1, <1>3, <1>5, <1>6, <1>7, <2>2 DEF TypeOK
  <1>9. Discovery'
    <2>1. pc = "cgroup" => AffinityRead'
      BY <1>1, <1>3, <1>5, <1>6 DEF Discovery, AffinityRead, NumCPU
    <2> QED
      BY <1>1, <1>3, <1>5, <1>6, <2>1 DEF Discovery, NeverMoreThanAllowed
  <1>10. Outcome'
    BY <1>1, Undecided DEF Outcome, PlanLeavesReserve
  <1> QED
    BY <1>8, <1>9, <1>10 DEF IInv

LEMMA HostKeeps == IInv /\ DiscoverHost => IInv'
  <1> SUFFICES ASSUME IInv, DiscoverHost
               PROVE  IInv'
    OBVIOUS
  <1>1. /\ pc = "host" /\ pc' = "affinity"
        /\ UNCHANGED <<machine, allowed, moves, files, limits, request, decision, plan>>
    BY DEF DiscoverHost
  <1>2. PICK memory \in Memory, accelerators \in 0..1 :
          host' = [logical |-> NumCPU, physical |-> PhysicalCores, memory |-> memory,
                   accelerators |-> accelerators]
    BY DEF DiscoverHost
  <1>3. TypeOK /\ Discovery
    BY DEF IInv
  <1>4. NumCPU \in Counts /\ PhysicalCores \in Counts
    BY <1>3, Cores DEF NumCPU, PhysicalCores
  <1>5. host' \in [logical : Counts, physical : Counts, memory : Memory, accelerators : 0..1]
    BY <1>2, <1>4
  <1>6. TypeOK'
    BY <1>1, <1>3, <1>5 DEF TypeOK, CPUs, Files
  <1>7. Discovery'
    BY <1>1, <1>3 DEF Discovery, NeverMoreThanAllowed
  <1>8. Outcome'
    BY <1>1, Undecided DEF Outcome, PlanLeavesReserve
  <1> QED
    BY <1>6, <1>7, <1>8 DEF IInv

LEMMA AffinityKeeps == IInv /\ LimitByAffinity => IInv'
  <1> SUFFICES ASSUME IInv, LimitByAffinity
               PROVE  IInv'
    OBVIOUS
  <1>1. /\ pc = "affinity" /\ pc' = "cgroup"
        /\ limits' = IF files.affinity THEN Least(NumCPU, allowed.now) ELSE NumCPU
        /\ UNCHANGED <<machine, allowed, moves, files, host, request, decision, plan>>
    BY DEF LimitByAffinity
  <1>2. TypeOK /\ Discovery /\ limits \in Counts
    BY DEF IInv, TypeOK
  <1>3. /\ NumCPU \in Counts /\ NumCPU \in Nat /\ NumCPU >= 1
        /\ allowed.now \in Nat /\ allowed.now >= 1
        /\ moves = 0 => NumCPU = allowed.now
    BY <1>1, <1>2, Cores DEF NumCPU, Discovery
  <1>4. /\ limits' \in Nat /\ limits' >= 1 /\ limits' <= NumCPU
        /\ files.affinity => limits' <= allowed.now
        /\ moves = 0 => limits' = allowed.now
    BY <1>1, <1>3 DEF Least
  <1>5. limits' \in Counts
    <2>1. limits' \in Int /\ 0 <= limits'
      BY <1>4
    <2> QED
      BY <1>3, <1>4, <2>1, Constants
  <1>6. TypeOK'
    BY <1>1, <1>2, <1>5 DEF TypeOK, CPUs, Files
  <1>7. AffinityRead'
    BY <1>1, <1>4 DEF AffinityRead, NumCPU
  <1>8. Discovery'
    BY <1>1, <1>2, <1>7 DEF Discovery, NeverMoreThanAllowed
  <1>9. Outcome'
    BY <1>1, Undecided DEF Outcome, PlanLeavesReserve
  <1> QED
    BY <1>6, <1>8, <1>9 DEF IInv

LEMMA CgroupKeeps == IInv /\ LimitByCgroup => IInv'
  <1> SUFFICES ASSUME IInv, LimitByCgroup
               PROVE  IInv'
    OBVIOUS
  <1>1. /\ pc = "cgroup" /\ pc' = "asked"
        /\ limits' = IF CgroupCPUSet > 0 THEN Least(limits, CgroupCPUSet) ELSE limits
        /\ UNCHANGED <<machine, allowed, moves, files, host, request, decision, plan>>
    BY DEF LimitByCgroup
  <1>2. TypeOK /\ Discovery /\ AffinityRead /\ limits \in Counts /\ limits \in Nat
    BY <1>1, Constants DEF IInv, TypeOK, Discovery
  <1>3. /\ CgroupCPUSet \in Int
        /\ CgroupCPUSet > 0 => CgroupCPUSet \in Nat /\ CgroupCPUSet >= allowed.now
        /\ files.cpusets[1] = allowed.now => CgroupCPUSet = allowed.now
    BY <1>2, CPUSet
  <1>4. /\ NumCPU \in Nat /\ allowed.now \in Nat /\ allowed.now >= 1
        /\ limits >= 1 /\ limits <= NumCPU
        /\ files.affinity /\ ~allowed.late => limits <= allowed.now
        /\ moves = 0 => limits = allowed.now
    BY <1>2, Cores DEF AffinityRead, NumCPU
  <1>5. /\ limits' \in Nat /\ limits' >= 1 /\ limits' <= limits
        /\ CgroupCPUSet > 0 => limits' <= CgroupCPUSet
        /\ moves = 0 => limits' = allowed.now
    BY <1>1, <1>2, <1>3, <1>4 DEF Least
  <1>6. limits' \in Counts
    <2>1. limits' \in Int /\ 0 <= limits'
      BY <1>5
    <2> QED
      BY <1>2, <1>5, <2>1, Constants
  <1>7. TypeOK'
    BY <1>1, <1>2, <1>6 DEF TypeOK, CPUs, Files
  <1>8. /\ limits' <= NumCPU
        /\ files.affinity /\ ~allowed.late => limits' <= allowed.now
        /\ files.cpusets[1] = allowed.now => limits' <= allowed.now
    BY <1>2, <1>3, <1>4, <1>5
  <1>9. NeverMoreThanAllowed'
    BY <1>1, <1>5, <1>8 DEF NeverMoreThanAllowed, NumCPU
  <1>10. Discovery'
    BY <1>1, <1>2, <1>9 DEF Discovery
  <1>11. Outcome'
    BY <1>1, Undecided DEF Outcome, PlanLeavesReserve
  <1> QED
    BY <1>7, <1>10, <1>11 DEF IInv

LEMMA EvaluateKeeps == IInv /\ Evaluate => IInv'
  <1> SUFFICES ASSUME IInv, Evaluate
               PROVE  IInv'
    OBVIOUS
  <1>1. /\ pc = "asked"
        /\ UNCHANGED <<machine, allowed, moves, files, host, limits, plan>>
    BY DEF Evaluate
  <1>2. PICK r \in Admit :
          /\ request' = r
          /\ IF HostIsValid /\ r.evidence.dedicated >= 0 /\ r.evidence.budget >= 0
             THEN decision' = Decide(Checks(r)) /\ pc' = "done"
             ELSE pc' = "invalid" /\ UNCHANGED decision
    BY DEF Evaluate
  <1>3. TypeOK /\ Discovery /\ NeverMoreThanAllowed /\ decision = "none"
    BY <1>1, Undecided DEF IInv, Discovery
  <1>4. Decide(Checks(r)) \in {"rejected", "needs_operator_evidence", "admitted"}
    BY Decisions
  <1>5. TypeOK'
    BY <1>1, <1>2, <1>3, <1>4 DEF TypeOK, CPUs, Files
  <1>6. NeverMoreThanAllowed' /\ Discovery'
    BY <1>1, <1>2, <1>3 DEF Discovery, NeverMoreThanAllowed, NumCPU
  <1>7. pc' = "done" => Decided'
    <2>1. Checks(r)' = Checks(r)
      BY <1>1 DEF Checks, BudgetHolds
    <2>2. Decide(Checks(request))' = Decide(Checks(r))
      BY <1>1, <1>2 DEF Checks, BudgetHolds
    <2> QED
      BY <1>1, <1>2, <2>2 DEF Decided
  <1>8. Outcome'
    <2>1. r.kind = "admit"
      BY Asked
    <2>2. PlanLeavesReserve'
      BY <1>2, <2>1 DEF PlanLeavesReserve
    <2> QED
      BY <1>1, <1>2, <1>3, <1>7, <2>2 DEF Outcome
  <1> QED
    BY <1>5, <1>6, <1>8 DEF IInv

(* The most workers of a plan, for limits and a request that are accepted.   *)
LEMMA Maximum ==
  ASSUME NEW r \in Bench, limits \in Nat,
         r.budget >= 0, r.reserve >= 0, r.minimum >= 0,
         r.reserve < limits, r.budget <= limits
  PROVE  /\ r.reserve \in Nat /\ r.budget \in Nat
         /\ ProductionMax(r) \in Nat /\ ProductionMax(r) >= 1
         /\ ProductionMax(r) + r.reserve <= limits
         /\ r.budget > 0 => ProductionMax(r) <= r.budget
         /\ Minimum(r) \in Nat /\ Minimum(r) >= 1
  <1>1. r.reserve \in Nat /\ r.budget \in Nat /\ r.minimum \in Nat
    <2>1. r.reserve \in Int /\ r.budget \in Int /\ r.minimum \in Int
      BY AmountsAssumption DEF Bench
    <2> QED
      BY <2>1
  <1>2. /\ ProductionMax(r) \in Nat /\ ProductionMax(r) >= 1
        /\ ProductionMax(r) + r.reserve <= limits
        /\ r.budget > 0 => ProductionMax(r) <= r.budget
    BY <1>1 DEF ProductionMax, Least
  <1>3. Minimum(r) \in Nat /\ Minimum(r) >= 1
    BY <1>1, <1>2 DEF Minimum, Least
  <1> QED
    BY <1>1, <1>2, <1>3

LEMMA BuildPlanKeeps == IInv /\ BuildPlan => IInv'
  <1> SUFFICES ASSUME IInv, BuildPlan
               PROVE  IInv'
    OBVIOUS
  <1>1. /\ pc = "asked"
        /\ UNCHANGED <<machine, allowed, moves, files, host, limits, decision>>
    BY DEF BuildPlan
  <1>2. PICK r \in Bench :
          /\ request' = r
          /\ IF \/ r.budget < 0 \/ r.reserve < 0 \/ r.minimum < 0
                \/ r.reserve >= limits \/ r.budget > limits
             THEN pc' = "invalid" /\ UNCHANGED plan
             ELSE LET max == ProductionMax(r)
                  IN  /\ plan' = [max |-> max,
                                  production |-> {w \in WorkerCounts : w \in Minimum(r)..max}
                                                   \cup {max},
                                  full |-> IF r.full /\ limits > max THEN {limits} ELSE {}]
                      /\ pc' = "done"
    BY DEF BuildPlan
  <1>3. /\ TypeOK /\ Discovery /\ NeverMoreThanAllowed /\ decision = "none"
        /\ limits \in Counts /\ limits \in Nat
    BY <1>1, Undecided, Constants DEF IInv, Discovery, TypeOK
  <1>4. /\ r.kind = "benchmark" /\ r.full \in BOOLEAN
        /\ r.budget \in Int /\ r.reserve \in Int /\ r.minimum \in Int
    BY AmountsAssumption DEF Bench
  <1>5. NeverMoreThanAllowed' /\ Discovery'
    BY <1>1, <1>2, <1>3 DEF Discovery, NeverMoreThanAllowed, NumCPU
  <1>6. CASE \/ r.budget < 0 \/ r.reserve < 0 \/ r.minimum < 0
             \/ r.reserve >= limits \/ r.budget > limits
    <2>1. pc' = "invalid" /\ UNCHANGED plan
      BY <1>2, <1>6
    <2>2. TypeOK'
      BY <1>1, <1>2, <1>3, <2>1 DEF TypeOK, CPUs, Files
    <2>3. Outcome'
      BY <1>1, <1>3, <2>1 DEF Outcome, PlanLeavesReserve
    <2> QED
      BY <1>5, <2>2, <2>3 DEF IInv
  <1>7. CASE ~(\/ r.budget < 0 \/ r.reserve < 0 \/ r.minimum < 0
               \/ r.reserve >= limits \/ r.budget > limits)
    <2> DEFINE max == ProductionMax(r)
    <2>1. /\ pc' = "done"
          /\ plan' = [max |-> max,
                      production |-> {w \in WorkerCounts : w \in Minimum(r)..max} \cup {max},
                      full |-> IF r.full /\ limits > max THEN {limits} ELSE {}]
      BY <1>2, <1>7
    <2>2. /\ r.budget >= 0 /\ r.reserve >= 0 /\ r.minimum >= 0
          /\ r.reserve < limits /\ r.budget <= limits
      BY <1>3, <1>4, <1>7
    <2>3. /\ r.reserve \in Nat /\ r.budget \in Nat
          /\ max \in Nat /\ max >= 1 /\ max + r.reserve <= limits
          /\ r.budget > 0 => max <= r.budget
          /\ Minimum(r) \in Nat /\ Minimum(r) >= 1
      BY <1>3, <2>2, Maximum
    <2> HIDE DEF max
    <2>4. /\ plan'.max = max
          /\ \A w : w \in plan'.production <=> (w \in WorkerCounts /\ w \in Minimum(r)..max) \/ w = max
          /\ \A w : w \in plan'.full <=> w = limits /\ r.full /\ limits > max
      BY <2>1
    <2>5. \A w \in plan'.production :
            /\ w \in Nat /\ w >= 1 /\ w <= max /\ w + r.reserve <= limits
            /\ r.budget > 0 => w <= r.budget
      BY <1>3, <2>3, <2>4
    <2>6. \A w \in plan'.full : r.full /\ w = limits /\ w \notin plan'.production
      BY <1>3, <2>3, <2>4, <2>5
    <2>7. PlanLeavesReserve'
      BY <1>1, <1>2, <2>4, <2>5, <2>6 DEF PlanLeavesReserve
    <2>8. plan'.max \in Counts /\ plan'.production \cup plan'.full \subseteq Counts
      <3>1. \A w \in Nat : w <= max => w \in Counts
        <4>1. \A w \in Nat : w <= max => w <= limits /\ w \in Int /\ 0 <= w
          BY <1>3, <2>3
        <4> QED
          BY <1>3, <4>1, Constants
      <3>2. \A w \in plan'.full : w \in Counts
        BY <1>3, <2>4
      <3> QED
        BY <2>3, <2>4, <2>5, <3>1, <3>2
    <2>9. TypeOK'
      BY <1>1, <1>2, <1>3, <2>1, <2>8 DEF TypeOK, CPUs, Files
    <2>10. Outcome'
      BY <1>1, <1>2, <1>3, <2>7 DEF Outcome
    <2> QED
      BY <1>5, <2>9, <2>10 DEF IInv
  <1> QED
    BY <1>6, <1>7

LEMMA NotFoundKeeps == IInv /\ NotFound => IInv'
  <1> SUFFICES ASSUME IInv, NotFound
               PROVE  IInv'
    OBVIOUS
  <1>1. /\ pc = "host" /\ pc' = "not found"
        /\ UNCHANGED <<machine, allowed, moves, files, host, limits, request, decision, plan>>
    BY DEF NotFound
  <1>2. TypeOK /\ Discovery
    BY DEF IInv
  <1>3. TypeOK'
    BY <1>1, <1>2 DEF TypeOK, CPUs, Files
  <1>4. Discovery'
    BY <1>1, <1>2 DEF Discovery, NeverMoreThanAllowed
  <1>5. Outcome'
    BY <1>1, Undecided DEF Outcome, PlanLeavesReserve
  <1> QED
    BY <1>3, <1>4, <1>5 DEF IInv

LEMMA NextInvariant == IInv /\ [Next]_vars => IInv'
  <1> SUFFICES ASSUME IInv, [Next]_vars
               PROVE  IInv'
    OBVIOUS
  <1>1. CASE UNCHANGED vars
    <2>1. UNCHANGED <<machine, allowed, moves, files, pc, host, limits, request, decision, plan>>
      BY <1>1 DEF vars
    <2>2. TypeOK /\ Discovery /\ Outcome
      BY DEF IInv
    <2>3. TypeOK'
      BY <2>1, <2>2 DEF TypeOK, CPUs, Files
    <2>4. Discovery'
      BY <2>1, <2>2 DEF Discovery, NeverMoreThanAllowed, AffinityRead, NumCPU
    <2>5. Decided => Decided'
      BY <2>1 DEF Decided, Checks, BudgetHolds
    <2>6. Outcome'
      BY <2>1, <2>2, <2>5 DEF Outcome, PlanLeavesReserve
    <2> QED
      BY <2>3, <2>4, <2>6 DEF IInv
  <1> QED
    BY <1>1, NotFoundKeeps, MovesKeep, HostKeeps, AffinityKeeps, CgroupKeeps, EvaluateKeeps,
       BuildPlanKeeps DEF Next

-----------------------------------------------------------------------------
LEMMA AdmittedFits ==
  ASSUME IInv
  PROVE  BudgetFitsHost
  <1> SUFFICES ASSUME decision = "admitted"
               PROVE  BudgetFitsHost
    BY DEF BudgetFitsHost
  <1>1. /\ TypeOK /\ NeverMoreThanAllowed /\ pc = "done" /\ Decided
    BY DEF IInv, Discovery, Outcome
  <1> DEFINE cores == request.profile.cores
             budget == request.evidence.budget
             dedicated == request.evidence.dedicated
  <1>2. /\ request \in Admit /\ budget >= 0 /\ dedicated >= 0
        /\ decision = Decide(Checks(request))
    BY <1>1 DEF Decided
  <1>3. /\ cores \in Nat /\ budget \in Int /\ dedicated \in Int
        /\ request.profile.accelerator \in BOOLEAN
    BY <1>2, Asked
  <1>4. "fail" \notin Weighed(Checks(request))
    BY <1>2, Decisions
  <1>5. /\ Stated(dedicated, host.physical) >= cores
        /\ BudgetHolds(request)
    BY <1>3, <1>4, Weights
  <1>6. Stated(budget, limits) >= cores /\ Stated(budget, limits) <= limits
    BY <1>5 DEF BudgetHolds
  <1>7. /\ limits \in Nat /\ limits >= 1
        /\ files.affinity /\ ~allowed.late => limits <= allowed.now
        /\ allowed.now \in Nat
    BY <1>1, Constants, Cores DEF NeverMoreThanAllowed, TypeOK
  <1>8. host.physical \in Nat
    BY <1>1, Constants DEF TypeOK
  <1> HIDE DEF cores, budget, dedicated
  <1>9. limits >= cores /\ budget <= limits
    BY <1>2, <1>3, <1>6, <1>7 DEF Stated
  <1>10. dedicated >= cores \/ (dedicated = 0 /\ host.physical >= cores)
    BY <1>2, <1>3, <1>5, <1>8 DEF Stated
  <1>11. files.affinity /\ ~allowed.late => allowed.now >= cores
    BY <1>3, <1>7, <1>9
  <1> QED
    BY <1>9, <1>10, <1>11 DEF BudgetFitsHost, cores, budget, dedicated

LEMMA EvidenceSettles ==
  ASSUME IInv
  PROVE  OnlyECCIsAskedFor
  <1> SUFFICES ASSUME pc = "done", request.kind = "admit"
               PROVE  OnlyECCIsAskedFor
    BY DEF OnlyECCIsAskedFor
  <1>1. Decided
    BY DEF IInv, Outcome, Bench
  <1>2. request \in Admit /\ decision = Decide(Checks(request))
    BY <1>1 DEF Decided
  <1>3. /\ request.profile.ecc \in BOOLEAN /\ request.profile.accelerator \in BOOLEAN
        /\ request.evidence.ecc \in {"unknown", "pass", "fail"}
    BY <1>2, Asked
  <1> DEFINE With(ecc, class) ==
               [request EXCEPT !.evidence.ecc = ecc, !.evidence.class = class]
             Otherwise ==
               \/ ~(request.profile.arch \in {"any", request.arch})
               \/ ~(host.memory >= request.profile.memory)
               \/ ~(Stated(request.evidence.dedicated, host.physical) >= request.profile.cores)
               \/ ~BudgetHolds(request)
               \/ request.profile.accelerator /\ ~(host.accelerators > 0)
  <1>4. /\ "fail" \in Weighed(Checks(request)) <=>
             Otherwise \/ (request.profile.ecc /\ request.evidence.ecc = "fail")
        /\ "unknown" \in Weighed(Checks(request)) <=>
             request.profile.ecc /\ request.evidence.ecc = "unknown"
    BY <1>3, Weights
  <1>5. ASSUME NEW ecc, NEW class
        PROVE  /\ "fail" \in Weighed(Checks(With(ecc, class))) <=>
                    Otherwise \/ (request.profile.ecc /\ ecc = "fail")
               /\ "unknown" \in Weighed(Checks(With(ecc, class))) <=>
                    request.profile.ecc /\ ecc = "unknown"
    <2> DEFINE r == With(ecc, class)
    <2>1. /\ request = [kind |-> request.kind, profile |-> request.profile,
                        arch |-> request.arch, evidence |-> request.evidence]
          /\ request.evidence \in [ecc : {"unknown", "pass", "fail"},
                                   class : {"unknown", "pass", "preference_miss"},
                                   dedicated : Int, budget : Int]
      BY <1>2, EvidenceAssumption DEF Admit
    <2>2. /\ r.profile = request.profile /\ r.arch = request.arch
          /\ r.evidence.ecc = ecc
          /\ r.evidence.dedicated = request.evidence.dedicated
          /\ r.evidence.budget = request.evidence.budget
      BY <2>1
    <2> HIDE DEF r
    <2>3. BudgetHolds(r) <=> BudgetHolds(request)
      BY <2>2 DEF BudgetHolds
    <2>4. /\ "fail" \in Weighed(Checks(r)) <=>
              \/ ~(r.profile.arch \in {"any", r.arch})
              \/ ~(host.memory >= r.profile.memory)
              \/ ~(Stated(r.evidence.dedicated, host.physical) >= r.profile.cores)
              \/ ~BudgetHolds(r)
              \/ r.profile.accelerator /\ ~(host.accelerators > 0)
              \/ r.profile.ecc /\ r.evidence.ecc = "fail"
          /\ "unknown" \in Weighed(Checks(r)) <=> r.profile.ecc /\ r.evidence.ecc = "unknown"
      BY <1>3, <2>2, Weights
    <2>5. /\ "fail" \in Weighed(Checks(r)) <=>
                Otherwise \/ (request.profile.ecc /\ ecc = "fail")
          /\ "unknown" \in Weighed(Checks(r)) <=> request.profile.ecc /\ ecc = "unknown"
      BY <2>2, <2>3, <2>4
    <2> QED
      BY <2>5 DEF r
  <1> HIDE DEF Otherwise
  <1> DEFINE Verdict(ecc) ==
               IF Otherwise \/ (request.profile.ecc /\ ecc = "fail") THEN "rejected"
               ELSE IF request.profile.ecc /\ ecc = "unknown" THEN "needs_operator_evidence"
               ELSE "admitted"
  <1>6. ASSUME NEW ecc, NEW class
        PROVE  Decide(Checks(With(ecc, class))) = Verdict(ecc)
    <2> HIDE DEF With
    <2> QED
      BY <1>5 DEF Decide
  <1>7. decision = Verdict(request.evidence.ecc)
    BY <1>2, <1>4 DEF Decide
  <1>8. ASSUME NEW ecc \in {"unknown", "pass", "fail"},
               NEW class \in {"unknown", "pass", "preference_miss"}
        PROVE  LET other == Decide(Checks(With(ecc, class)))
               IN  /\ decision = "needs_operator_evidence" =>
                        other = IF ecc = "pass"      THEN "admitted"
                                ELSE IF ecc = "fail" THEN "rejected"
                                ELSE decision
                   /\ decision = "rejected" /\ request.evidence.ecc # "fail" => other = decision
                   /\ ecc = request.evidence.ecc => other = decision
    <2> DEFINE other == Decide(Checks(With(ecc, class)))
    <2>1. other = Verdict(ecc)
      BY <1>6
    <2> HIDE DEF other
    <2> QED
      BY <1>3, <1>7, <2>1 DEF other
  <1>9. /\ decision = "needs_operator_evidence" =>
             request.profile.ecc /\ request.evidence.ecc = "unknown"
        /\ decision = "admitted" /\ request.profile.ecc => request.evidence.ecc = "pass"
    BY <1>3, <1>7
  <1> QED
    BY <1>8, <1>9 DEF OnlyECCIsAskedFor

-----------------------------------------------------------------------------
(* The inductive invariant: what was read of the affinity bounds the limits  *)
(* until the cgroup is read too, and a decision is that of its checks.       *)
THEOREM Invariant == Spec => []IInv
  <1> QED
    BY InitInvariant, NextInvariant, PTL DEF Spec

(* Every variable keeps its type; no count exceeds the machine's threads.    *)
THEOREM TypeCorrect == Spec => []TypeOK
  <1>1. IInv => TypeOK
    BY DEF IInv
  <1> QED
    BY <1>1, Invariant, PTL

(* What counts as usable never exceeds what the process may run on, for a    *)
(* machine of any size and an operator who moves the process at any time     *)
(* before the affinity is read.                                              *)
THEOREM LimitsAreAllowed == Spec => []NeverMoreThanAllowed
  <1>1. IInv => NeverMoreThanAllowed
    BY DEF IInv, Discovery
  <1> QED
    BY <1>1, Invariant, PTL

(* An admitted application has its minimum of CPUs in what the kernel lets   *)
(* the process run on, and the operator's budget fits.                       *)
THEOREM AdmittedBudgetFits == Spec => []BudgetFitsHost
  BY AdmittedFits, Invariant, PTL

(* Of evidence only that of ECC is asked for, and then its answer settles    *)
(* the decision; what is unknown of ECC never admits nor hides a failure.    *)
THEOREM ECCIsAskedInEarnest == Spec => []OnlyECCIsAskedFor
  BY EvidenceSettles, Invariant, PTL

(* A benchmark plan stays within the budget and leaves the reserve free.     *)
THEOREM ReserveIsLeft == Spec => []PlanLeavesReserve
  <1>1. IInv => PlanLeavesReserve
    BY DEF IInv, Outcome
  <1> QED
    BY <1>1, Invariant, PTL

=============================================================================
