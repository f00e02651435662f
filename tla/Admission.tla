------------------------------ MODULE Admission ------------------------------
(***************************************************************************)
(* POST /v1/admission and POST /v1/benchmark-plan: what the Runtime knows  *)
(* of the CPUs it may use (internal/hostprofile, internal/hostlimits), the *)
(* decision whether a deployment profile is met (internal/admission), and  *)
(* the matrix of worker counts (internal/benchmarkplan).                   *)
(*                                                                         *)
(* Covered: the affinity at startup (runtime.NumCPU), the affinity now,    *)
(* which the operator may change between two reads, and the cgroup's CPU   *)
(* set in the three files it may be in, each of which may be missing or    *)
(* not count; evidence of the operator replacing what is seen; every check *)
(* and what it weighs.                                                     *)
(*                                                                         *)
(* Abstracted: a CPU list is how many CPUs it names; evidence is what its  *)
(* check makes of it; memory is a number of units, 0 if discovery failed.  *)
(* The request is chosen after the discovery, which does not read it.      *)
(* Left out: storage, NUMA, quota and virtualisation, which no decision    *)
(* reads.                                                                  *)
(***************************************************************************)
EXTENDS Integers, FiniteSetsExt

CONSTANTS
  MaxCores,   \* bound: cores of a machine
  MaxMoves,   \* bound: changes of the affinity by the operator
  Profiles,   \* deployment profiles
  Memory,     \* units of memory a host may show, 0 for none
  Evidence,   \* evidence an operator may give
  Amounts,    \* core counts in a request
  WorkerCounts  \* the canonical worker counts of a benchmark plan

ASSUME BoundsAssumption == MaxCores \in Nat \ {0} /\ MaxMoves \in Nat
ASSUME ProfilesAssumption == Profiles \subseteq
  [arch : {"dense", "moe", "any"}, memory : Nat \ {0}, ecc : BOOLEAN, class : BOOLEAN,
   cores : Nat \ {0}, accelerator : BOOLEAN]
ASSUME MemoryAssumption == 0 \in Memory /\ Memory \subseteq Nat
ASSUME EvidenceAssumption == Evidence \subseteq
  [ecc : {"unknown", "pass", "fail"}, class : {"unknown", "pass", "preference_miss"},
   dedicated : Int, budget : Int]
ASSUME AmountsAssumption == Amounts \subseteq Int
ASSUME WorkersAssumption == WorkerCounts \subseteq Nat \ {0}

VARIABLES
  machine,   \* cores and threads the kernel runs, and whether it says which is which
  allowed,   \* CPUs of the process: at startup, now, changed since they were read
  moves,     \* changes of the affinity
  files,     \* what /proc/self/status and the cgroup's files say
  pc,        \* where the handler is
  host,      \* hostprofile.Profile, as far as admission reads it
  limits,    \* Limits.EffectiveLogicalCPUs
  request,   \* profile, model and evidence, or a benchmark request
  decision,  \* the admission decision
  plan       \* the benchmark plan

vars == <<machine, allowed, moves, files, pc, host, limits, request, decision, plan>>

-----------------------------------------------------------------------------
Machines  == [cores : 1..MaxCores, threads : 1..2, topology : BOOLEAN]
CPUs      == machine.cores * machine.threads
Missing   == 0     \* a file that is not there, or blank
Malformed == -1    \* a file that does not count
Admit     == [kind : {"admit"}, profile : Profiles, arch : {"dense", "moe", "unknown"},
              evidence : Evidence]
Bench     == [kind : {"benchmark"}, budget : Amounts, reserve : Amounts,
              minimum : Amounts, full : BOOLEAN]
NoRequest == [kind |-> "none"]

(* The kernel keeps a process within its cgroup's CPU set: v2 has the set in  *)
(* force and the configured one, v1 the third file.                           *)
Files(now) ==
  [affinity : BOOLEAN,
   cpusets  : {<<set, CPUs, Missing>> : set \in {Missing, Malformed, now, CPUs}}
                \cup {<<Missing, Missing, set>> : set \in {Missing, Malformed, now}}]

Init ==
  /\ machine \in Machines
  /\ \E n \in 1..CPUs : allowed = [startup |-> n, now |-> n, late |-> FALSE]
  /\ moves = 0
  /\ files \in Files(allowed.now)
  /\ pc = "host"
  /\ host = [logical |-> 0, physical |-> 0, memory |-> 0, accelerators |-> 0]
  /\ limits = 0
  /\ request = NoRequest
  /\ decision = "none"
  /\ plan = [max |-> 0, production |-> {}, full |-> {}]

(* taskset or the cgroup moves the running process.                          *)
OperatorMoves ==
  /\ moves < MaxMoves
  /\ pc \in {"host", "affinity", "cgroup"}
  /\ moves' = moves + 1
  /\ \E n \in 1..CPUs :
       /\ allowed' = [allowed EXCEPT !.now = n, !.late = (pc = "cgroup")]
       /\ files' \in {f \in Files(n) :
            /\ f.affinity = files.affinity
            /\ \A i \in 1..3 : \A sort \in {Missing, Malformed} :
                 f.cpusets[i] = sort <=> files.cpusets[i] = sort}
  /\ UNCHANGED <<machine, pc, host, limits, request, decision, plan>>

-----------------------------------------------------------------------------
(* The profile and the model are looked up first.                             *)
NotFound ==
  /\ pc = "host"
  /\ pc' = "not found"
  /\ UNCHANGED <<machine, allowed, moves, files, host, limits, request, decision, plan>>

(* runtime.NumCPU is the affinity of the process as it started.              *)
NumCPU == allowed.startup

(* /proc/cpuinfo lists every CPU the kernel runs, allowed or not.            *)
PhysicalCores == IF machine.topology THEN machine.cores ELSE NumCPU

DiscoverHost ==
  /\ pc = "host"
  /\ \E memory \in Memory, accelerators \in 0..1 :
       host' = [logical |-> NumCPU, physical |-> PhysicalCores, memory |-> memory,
                accelerators |-> accelerators]
  /\ pc' = "affinity"
  /\ UNCHANGED <<machine, allowed, moves, files, limits, request, decision, plan>>

Least(a, b) == IF a < b THEN a ELSE b

(* Mutant: the affinity at startup is taken for the one there is now.         *)
LimitByStartup ==
  /\ pc = "affinity"
  /\ limits' = NumCPU
  /\ pc' = "cgroup"
  /\ UNCHANGED <<machine, allowed, moves, files, host, request, decision, plan>>

(* hostlimits.Discover: Cpus_allowed_list of /proc/self/status.               *)
LimitByAffinity ==
  /\ pc = "affinity"
  /\ limits' = IF files.affinity THEN Least(NumCPU, allowed.now) ELSE NumCPU
  /\ pc' = "cgroup"
  /\ UNCHANGED <<machine, allowed, moves, files, host, request, decision, plan>>

(* The first file that is there is taken, even if it does not count.          *)
CgroupCPUSet ==
  LET there == {i \in 1..3 : files.cpusets[i] # Missing}
  IN  IF there = {} THEN Missing ELSE files.cpusets[Min(there)]

LimitByCgroup ==
  /\ pc = "cgroup"
  /\ limits' = IF CgroupCPUSet > 0 THEN Least(limits, CgroupCPUSet) ELSE limits
  /\ pc' = "asked"
  /\ UNCHANGED <<machine, allowed, moves, files, host, request, decision, plan>>

-----------------------------------------------------------------------------
(* hostprofile.Validate.                                                      *)
HostIsValid == host.physical <= host.logical

(* Evidence of the operator replaces what the host shows.                    *)
Stated(evidence, seen) == IF evidence > 0 THEN evidence ELSE seen

(* Mutant: a budget of the operator's is not held against the CPUs there are. *)
BudgetUnbounded(r) == Stated(r.evidence.budget, limits) >= r.profile.cores

BudgetHolds(r) ==
  /\ Stated(r.evidence.budget, limits) >= r.profile.cores
  /\ Stated(r.evidence.budget, limits) <= limits

Pass(holds) == IF holds THEN "pass" ELSE "fail"

Check(id, mandatory, state) == [id |-> id, mandatory |-> mandatory, state |-> state]

Checks(r) ==
  {Check("arch", TRUE, Pass(r.profile.arch \in {"any", r.arch})),
   Check("memory", TRUE, Pass(host.memory >= r.profile.memory)),
   Check("cores", TRUE, Pass(Stated(r.evidence.dedicated, host.physical) >= r.profile.cores)),
   Check("budget", TRUE, Pass(BudgetHolds(r))),
   Check("accelerator", r.profile.accelerator,
         Pass(r.profile.accelerator => host.accelerators > 0)),
   Check("clock", FALSE, "advisory")}
  \cup {c \in {Check("ecc", TRUE, r.evidence.ecc)} : r.profile.ecc}
  \cup {c \in {Check("class", FALSE, r.evidence.class)} : r.profile.class}

Weighed(checks) == {c.state : c \in {c \in checks : c.mandatory}}

(* Mutant: an unknown is reported before a failure.                           *)
DecideUnknownFirst(checks) ==
  IF "unknown" \in Weighed(checks) THEN "needs_operator_evidence"
  ELSE IF "fail" \in Weighed(checks) THEN "rejected"
  ELSE "admitted"

Decide(checks) ==
  IF "fail" \in Weighed(checks) THEN "rejected"
  ELSE IF "unknown" \in Weighed(checks) THEN "needs_operator_evidence"
  ELSE "admitted"

Evaluate ==
  /\ pc = "asked"
  /\ \E r \in Admit :
       /\ request' = r
       /\ IF HostIsValid /\ r.evidence.dedicated >= 0 /\ r.evidence.budget >= 0
          THEN decision' = Decide(Checks(r)) /\ pc' = "done"
          ELSE pc' = "invalid" /\ UNCHANGED decision
  /\ UNCHANGED <<machine, allowed, moves, files, host, limits, plan>>

-----------------------------------------------------------------------------
(* Mutant: the budget replaces the maximum, reserve and all.                 *)
BudgetAsMax(r) == IF r.budget > 0 THEN r.budget ELSE limits - r.reserve

(* benchmarkplan.Build.  It reads the limits and nothing of the host.         *)
ProductionMax(r) ==
  IF r.budget > 0 THEN Least(r.budget, limits - r.reserve) ELSE limits - r.reserve

Minimum(r) == Least(IF r.minimum = 0 THEN 4 ELSE r.minimum, ProductionMax(r))

BuildPlan ==
  /\ pc = "asked"
  /\ \E r \in Bench :
       /\ request' = r
       /\ IF \/ r.budget < 0 \/ r.reserve < 0 \/ r.minimum < 0
             \/ r.reserve >= limits \/ r.budget > limits
          THEN pc' = "invalid" /\ UNCHANGED plan
          ELSE LET max == ProductionMax(r)
               IN  /\ plan' = [max |-> max,
                               production |-> {w \in WorkerCounts : w \in Minimum(r)..max}
                                                \cup {max},
                               full |-> IF r.full /\ limits > max THEN {limits} ELSE {}]
                   /\ pc' = "done"
  /\ UNCHANGED <<machine, allowed, moves, files, host, limits, decision>>

Next ==
  \/ NotFound \/ OperatorMoves \/ DiscoverHost \/ LimitByAffinity \/ LimitByCgroup
  \/ Evaluate \/ BuildPlan

Spec == Init /\ [][Next]_vars

-----------------------------------------------------------------------------
Counts == 0..(2 * MaxCores)

\* Every variable keeps its type.
TypeOK ==
  /\ machine \in Machines
  /\ allowed \in [startup : 1..CPUs, now : 1..CPUs, late : BOOLEAN]
  /\ moves \in 0..MaxMoves
  /\ files \in Files(allowed.now)
  /\ pc \in {"host", "not found", "affinity", "cgroup", "asked", "done", "invalid"}
  /\ host \in [logical : Counts, physical : Counts, memory : Memory, accelerators : 0..1]
  /\ limits \in Counts
  /\ request \in Admit \cup Bench \cup {NoRequest}
  /\ decision \in {"none", "rejected", "needs_operator_evidence", "admitted"}
  /\ plan.max \in Counts /\ plan.production \cup plan.full \subseteq Counts

(* What counts as usable never exceeds what the process may run on, even if   *)
(* that has changed since it started or since the host was discovered; only a *)
(* change after the affinity was read is missed, and no file that is missing   *)
(* or does not count takes CPUs away or lets more in than the other file has   *)
(* (limits.go:39-74, README.md:152).                                           *)
NeverMoreThanAllowed ==
  pc \in {"asked", "done", "invalid"} =>
    /\ limits >= 1 /\ limits <= NumCPU
    /\ files.affinity /\ ~allowed.late => limits <= allowed.now
    /\ files.cpusets[1] = allowed.now => limits <= allowed.now
    /\ moves = 0 => limits = allowed.now

(* Admission holds the operator's numbers against the CPUs there are: an      *)
(* admitted application has its minimum of them, in what the kernel lets the  *)
(* process run on, and its budget fits (admission.go:92-123).                 *)
BudgetFitsHost ==
  decision = "admitted" =>
    /\ limits >= request.profile.cores
    /\ files.affinity /\ ~allowed.late => allowed.now >= request.profile.cores
    /\ request.evidence.budget <= limits
    /\ \/ request.evidence.dedicated >= request.profile.cores
       \/ request.evidence.dedicated = 0 /\ host.physical >= request.profile.cores

(* Of evidence only that of ECC is asked for, and in earnest: the answer then *)
(* settles the decision, a rejection stands whatever might be said of ECC      *)
(* unless ECC itself failed, and what is unknown never admits.  What is said   *)
(* of the class of memory decides nothing.  Dedicated cores, an architecture   *)
(* class or memory that nobody stated are not asked for but rejected if what   *)
(* is seen does not do, though docs/API.md:281 promises to ask                 *)
(* (admission.go:72-98, 125-168, 222-239).                                     *)
OnlyECCIsAskedFor ==
  pc = "done" /\ request.kind = "admit" =>
    /\ decision = "needs_operator_evidence" =>
         request.profile.ecc /\ request.evidence.ecc = "unknown"
    /\ decision = "admitted" /\ request.profile.ecc => request.evidence.ecc = "pass"
    /\ \A ecc \in {"unknown", "pass", "fail"}, class \in {"unknown", "pass", "preference_miss"} :
         LET other == Decide(Checks([request EXCEPT !.evidence.ecc = ecc,
                                                    !.evidence.class = class]))
         IN  /\ decision = "needs_operator_evidence" =>
                  other = IF ecc = "pass"      THEN "admitted"
                          ELSE IF ecc = "fail" THEN "rejected"
                          ELSE decision
             /\ decision = "rejected" /\ request.evidence.ecc # "fail" => other = decision
             /\ ecc = request.evidence.ecc => other = decision

(* A benchmark plan stays within the budget and leaves the reserve free; only *)
(* the full-host comparison, if asked for, uses more                          *)
(* (benchmarkplan/plan.go:40-71, docs/API.md:287-307).                        *)
PlanLeavesReserve ==
  pc = "done" /\ request.kind = "benchmark" =>
    /\ plan.max \in plan.production
    /\ \A w \in plan.production :
         /\ w >= 1 /\ w + request.reserve <= limits
         /\ request.budget > 0 => w <= request.budget
    /\ \A w \in plan.full : request.full /\ w = limits /\ w \notin plan.production

-----------------------------------------------------------------------------
(* "The hardware profile and effective guest/process limits are deliberately  *)
(* distinct." (docs/API.md:229): whatever the process may run on, the profile  *)
(* of a sound machine is accepted.                                             *)
ProfileIndependentOfLimits == pc # "host" => HostIsValid
=============================================================================
