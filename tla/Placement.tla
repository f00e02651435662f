------------------------------ MODULE Placement ------------------------------
(***************************************************************************)
(* The placement planner (internal/placement): Build assigns the six hot   *)
(* memory classes of a request to RAM and VRAM, CPU first, and the cold    *)
(* bytes to an explicit NVMe tier.                                         *)
(*                                                                         *)
(* Covered: the validation, the reserve, the three decisions, the          *)
(* allocation class by class in the order of the code, unsigned arithmetic *)
(* that wraps at Modulus.  Left out: reasons and warnings, which are text, *)
(* and the capability requirements derived from the plan.                  *)
(***************************************************************************)
EXTENDS Naturals, FiniteSets, Sequences

CONSTANTS
  Sizes,       \* bytes a request may ask for in a hot class
  Extras,      \* cold bytes, NVMe budgets and reserves it may ask for
  Capacities,  \* bytes of RAM a host may have available
  Fleets,      \* sets of accelerators a host may have, as bytes of VRAM
  Modulus,     \* 2^64 in the code
  MinReserve   \* two GiB in the code

ASSUME ModulusAssumption == Modulus \in Nat \ {0}
ASSUME SizesAssumption == Sizes \cup Extras \subseteq 0..(Modulus - 1)
ASSUME HostAssumption ==
  /\ Capacities \subseteq 0..(Modulus - 1)
  /\ \A fleet \in Fleets : IsFiniteSet(fleet) /\ fleet \subseteq 0..(Modulus - 1)
  /\ MinReserve \in 0..(Modulus - 1)

VARIABLES
  host,     \* what hostprofile.Discover reported
  request,  \* the placement.Request
  pc,       \* where Build is
  class,    \* index in Order of the next class to allocate
  left,     \* room the plan leaves free; remainingVRAM and remainingRAM
  placed,   \* bytes of each class in each tier: Plan.Classes
  plan      \* decision, and bytes assigned to each tier

vars == <<host, request, pc, class, left, placed, plan>>

-----------------------------------------------------------------------------
(* The order in which a hybrid candidate is filled.                          *)
Order == <<"kv_cache", "projector", "model_weights", "moe_experts",
           "prefix_cache", "workspace">>
Hot   == {Order[i] : i \in 1..6}
Split == {"model_weights", "moe_experts"}
Whole == Hot \ Split
Word  == 0..(Modulus - 1)

Hosts == {h \in [available : Capacities, total : Capacities, fleet : Fleets] :
            h.available <= h.total}
Requests == [bytes : [Hot -> Sizes], cold : Extras, budget : Extras, reserve : Extras,
             acceleration : BOOLEAN, nvme : BOOLEAN]

Sum(b) == b["model_weights"] + b["moe_experts"] + b["kv_cache"]
            + b["prefix_cache"] + b["projector"] + b["workspace"]

AvailableRAM(h) == IF h.available = 0 THEN h.total ELSE h.available

(* defaultReserve is a fifth of the memory, two GiB at least.                *)
Reserve(h, r) ==
  IF r.reserve # 0 THEN r.reserve
  ELSE IF h.total \div 5 < MinReserve THEN MinReserve
  ELSE h.total \div 5

UsableRAM(h, r) ==
  IF AvailableRAM(h) > Reserve(h, r) THEN AvailableRAM(h) - Reserve(h, r) ELSE 0

BestVRAM(h) == CHOOSE best \in h.fleet \cup {0} : \A v \in h.fleet : v <= best

Init ==
  /\ host \in Hosts
  /\ request \in Requests
  /\ pc = "validate"
  /\ class = 1
  /\ left = [vram |-> 0, ram |-> 0]
  /\ placed = [c \in Hot |-> [vram |-> 0, ram |-> 0, unplaced |-> 0]]
  /\ plan = [decision |-> "none", vram |-> 0, ram |-> 0, nvme |-> 0, cold |-> 0]

-----------------------------------------------------------------------------
Valid(r) ==
  /\ r.bytes["model_weights"] # 0
  /\ r.nvme => r.cold <= r.budget

(* What the tiers offer before anything is placed.                           *)
Room == [vram |-> BestVRAM(host), ram |-> UsableRAM(host, request)]

Validate ==
  /\ pc = "validate"
  /\ IF Valid(request) THEN pc' = "decide" /\ left' = Room
                       ELSE pc' = "error"  /\ UNCHANGED left
  /\ UNCHANGED <<host, request, class, placed, plan>>

Fits == Sum(request.bytes) % Modulus <= UsableRAM(host, request)

(* Mutant: the reserve is not kept free.                                     *)
ChooseCPUWithoutReserve ==
  /\ pc = "decide"
  /\ Sum(request.bytes) % Modulus <= AvailableRAM(host)
  /\ plan' = [plan EXCEPT !.decision = "cpu_only",
                          !.ram = Sum(request.bytes) % Modulus]
  /\ placed' = [c \in Hot |-> [vram |-> 0, ram |-> request.bytes[c], unplaced |-> 0]]
  /\ left' = [left EXCEPT !.ram = @ - (Sum(request.bytes) % Modulus)]
  /\ pc' = "cold"
  /\ UNCHANGED <<host, request, class>>

ChooseCPU ==
  /\ pc = "decide"
  /\ Fits
  /\ plan' = [plan EXCEPT !.decision = "cpu_only",
                          !.ram = Sum(request.bytes) % Modulus]
  /\ placed' = [c \in Hot |-> [vram |-> 0, ram |-> request.bytes[c], unplaced |-> 0]]
  /\ left' = [left EXCEPT !.ram = @ - (Sum(request.bytes) % Modulus)]
  /\ pc' = "cold"
  /\ UNCHANGED <<host, request, class>>

ChooseHybrid ==
  /\ pc = "decide"
  /\ ~Fits
  /\ request.acceleration
  /\ BestVRAM(host) > 0
  /\ plan' = [plan EXCEPT !.decision = "hybrid_candidate"]
  /\ pc' = "allocate"
  /\ UNCHANGED <<host, request, class, left, placed>>

(* All or nothing: single classes that would fit are left out too.           *)
ChooseNothing ==
  /\ pc = "decide"
  /\ ~Fits
  /\ ~request.acceleration \/ BestVRAM(host) = 0
  /\ plan' = [plan EXCEPT !.decision = "capacity_exceeded"]
  /\ placed' = [c \in Hot |-> [vram |-> 0, ram |-> 0, unplaced |-> request.bytes[c]]]
  /\ pc' = "cold"
  /\ UNCHANGED <<host, request, class, left>>

(* A class goes to the tiers in these amounts.                               *)
Assign(inVRAM, inRAM, unplaced) ==
  /\ left' = [vram |-> left.vram - inVRAM, ram |-> left.ram - inRAM]
  /\ placed' = [placed EXCEPT ![Order[class]] =
                  [vram |-> inVRAM, ram |-> inRAM, unplaced |-> unplaced]]
  /\ plan' = [plan EXCEPT !.vram = (@ + inVRAM) % Modulus,
                          !.ram  = (@ + inRAM) % Modulus,
                          !.decision = IF unplaced > 0 THEN "capacity_exceeded" ELSE @]
  /\ class' = class + 1
  /\ pc' = IF class = 6 THEN "cold" ELSE "allocate"
  /\ UNCHANGED <<host, request>>

Least(a, b) == IF a < b THEN a ELSE b

(* Mutant: a class that must stay whole is split like the weights.           *)
SpillWhole ==
  /\ pc = "allocate"
  /\ Order[class] \in Whole
  /\ LET bytes  == request.bytes[Order[class]]
         inVRAM == Least(bytes, left.vram)
         inRAM  == Least(bytes - inVRAM, left.ram)
     IN  Assign(inVRAM, inRAM, bytes - inVRAM - inRAM)

AllocateWhole ==
  /\ pc = "allocate"
  /\ Order[class] \in Whole
  /\ LET bytes == request.bytes[Order[class]]
     IN  IF bytes <= left.vram     THEN Assign(bytes, 0, 0)
         ELSE IF bytes <= left.ram THEN Assign(0, bytes, 0)
         ELSE Assign(0, 0, bytes)

(* Mutant: once there is an accelerator, RAM takes no weights.               *)
SplitOverNothing ==
  /\ pc = "allocate"
  /\ Order[class] \in Split
  /\ LET bytes  == request.bytes[Order[class]]
         inVRAM == Least(bytes, left.vram)
     IN  Assign(inVRAM, 0, bytes - inVRAM)

AllocateSplit ==
  /\ pc = "allocate"
  /\ Order[class] \in Split
  /\ LET bytes  == request.bytes[Order[class]]
         inVRAM == Least(bytes, left.vram)
         inRAM  == Least(bytes - inVRAM, left.ram)
     IN  Assign(inVRAM, inRAM, bytes - inVRAM - inRAM)

AssignCold ==
  /\ pc = "cold"
  /\ plan' = IF request.nvme /\ request.cold <= request.budget
             THEN [plan EXCEPT !.nvme = request.cold]
             ELSE [plan EXCEPT !.cold = request.cold]
  /\ pc' = "done"
  /\ UNCHANGED <<host, request, class, left, placed>>

Next ==
  \/ Validate \/ ChooseCPU \/ ChooseHybrid \/ ChooseNothing
  \/ AllocateWhole \/ AllocateSplit \/ AssignCold

Spec == Init /\ [][Next]_vars

-----------------------------------------------------------------------------
Tiers == [vram : Word, ram : Word, unplaced : Word]

\* Every variable keeps its type.
TypeOK ==
  /\ host \in Hosts
  /\ request \in Requests
  /\ pc \in {"validate", "decide", "allocate", "cold", "done", "error"}
  /\ class \in 1..7
  /\ left \in [vram : Word, ram : Word]
  /\ placed \in [Hot -> Tiers]
  /\ plan \in [decision : {"none", "cpu_only", "hybrid_candidate", "capacity_exceeded"},
               vram : Word, ram : Word, nvme : Word, cold : Word]

Handled == IF pc \in {"cold", "done"} THEN Hot ELSE {Order[i] : i \in 1..(class - 1)}

(* Every byte of a hot class is in exactly one place of the plan, and a class  *)
(* that must not be split is in one tier (placement.go:100-105, 154-196).      *)
EveryByteOnce ==
  pc \notin {"validate", "decide", "error"} =>
    \A c \in Handled :
      /\ placed[c].vram + placed[c].ram + placed[c].unplaced = request.bytes[c]
      /\ c \in Whole =>
           \E amount \in {placed[c].vram, placed[c].ram, placed[c].unplaced} :
             amount = request.bytes[c]

In(tier) == Sum([c \in Hot |-> placed[c][tier]])

(* The CPU-only decision compares the wrapped sum with the RAM.              *)
BelievesWrappedSum == plan.decision = "cpu_only" /\ Sum(request.bytes) >= Modulus

(* No tier is given more than it has: the reserve stays free and VRAM is that  *)
(* of one accelerator, unless the decision for the CPU rests on a sum that     *)
(* wrapped; NVMe takes only what the operator allowed it                       *)
(* (placement.go:64-75, 80-82, 154-196, 230-242;                               *)
(* docs/HARDWARE-PLACEMENT.md:58).                                              *)
TiersHold ==
  /\ ~BelievesWrappedSum =>
       /\ In("ram") > 0 => In("ram") + Reserve(host, request) <= AvailableRAM(host)
       /\ In("vram") <= BestVRAM(host)
       /\ plan.ram = In("ram") /\ plan.vram = In("vram")
  /\ plan.nvme <= IF request.nvme THEN request.budget ELSE 0
  /\ pc = "done" => plan.nvme + plan.cold = request.cold

(* The plan says capacity_exceeded exactly if a hot byte found no place, and a *)
(* working set that one tier holds is never refused, even if sums wrap.  With  *)
(* an accelerator the greedy order refuses with care: a class that must stay   *)
(* whole is left out only if neither tier has room for it, and weights and     *)
(* experts only if both tiers are full.  Without one it is all or nothing:     *)
(* single classes that would fit are refused with the rest                     *)
(* (placement.go:82, 93-126, 154-196).                                         *)
RefusedBytesFitNowhere ==
  pc = "done" =>
    /\ plan.decision = "capacity_exceeded" <=> In("unplaced") > 0
    /\ In("unplaced") > 0 => Sum(request.bytes) > UsableRAM(host, request)
    /\ IF request.acceleration /\ BestVRAM(host) > 0
       THEN /\ In("unplaced") > 0 => Sum(request.bytes) > BestVRAM(host)
            /\ \A c \in Hot : placed[c].unplaced > 0 =>
                 IF c \in Split THEN left = [vram |-> 0, ram |-> 0]
                 ELSE placed[c].unplaced > left.vram /\ placed[c].unplaced > left.ram
       ELSE In("unplaced") \in {0, Sum(request.bytes)}
=============================================================================
