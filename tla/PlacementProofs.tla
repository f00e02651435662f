---------------------------- MODULE PlacementProofs ----------------------------
(***************************************************************************)
(* Proofs about Placement for words of any width, any fleet and any sizes: *)
(* every byte of a plan is in one place, no tier holds more than it has,   *)
(* and what a hybrid plan refuses fits nowhere.                            *)
(***************************************************************************)
EXTENDS Placement, FiniteSetTheorems, WellFoundedInduction, TLAPS

(* Nothing has been placed yet.                                              *)
Nil == [vram |-> 0, ram |-> 0, unplaced |-> 0]
Untouched ==
  /\ class = 1
  /\ \A c \in Hot : placed[c] = Nil
  /\ plan.decision = "none" /\ plan.vram = 0 /\ plan.ram = 0

(* The three decisions, and the state each leaves behind.                    *)
AllOnCPU ==
  /\ Fits
  /\ plan.decision = "cpu_only" /\ plan.vram = 0 /\ plan.ram = Sum(request.bytes) % Modulus
  /\ \A c \in Hot : placed[c] = [vram |-> 0, ram |-> request.bytes[c], unplaced |-> 0]

Nowhere ==
  /\ ~Fits /\ Valid(request)
  /\ ~request.acceleration \/ BestVRAM(host) = 0
  /\ plan.decision = "capacity_exceeded" /\ plan.vram = 0 /\ plan.ram = 0
  /\ \A c \in Hot : placed[c] = [vram |-> 0, ram |-> 0, unplaced |-> request.bytes[c]]

Settled(c) ==
  /\ placed[c].vram + placed[c].ram + placed[c].unplaced = request.bytes[c]
  /\ c \in Whole =>
       \E amount \in {placed[c].vram, placed[c].ram, placed[c].unplaced} :
         amount = request.bytes[c]

FitsNoMore(c) ==
  placed[c].unplaced > 0 =>
    IF c \in Split THEN left = [vram |-> 0, ram |-> 0]
    ELSE placed[c].unplaced > left.vram /\ placed[c].unplaced > left.ram

Hybrid ==
  /\ ~Fits /\ request.acceleration /\ BestVRAM(host) > 0
  /\ \A i \in 1..6 : IF i < class THEN Settled(Order[i]) ELSE placed[Order[i]] = Nil
  /\ \A c \in Hot : FitsNoMore(c)
  /\ In("vram") + left.vram = BestVRAM(host)
  /\ In("ram") + left.ram = UsableRAM(host, request)
  /\ plan.vram = In("vram") /\ plan.ram = In("ram")
  /\ plan.decision = IF In("unplaced") > 0 THEN "capacity_exceeded" ELSE "hybrid_candidate"

ColdBytes ==
  IF pc = "done"
  THEN plan.nvme + plan.cold = request.cold
       /\ plan.nvme <= IF request.nvme THEN request.budget ELSE 0
  ELSE plan.nvme = 0 /\ plan.cold = 0

Stages ==
  /\ pc \in {"validate", "decide", "error"} => Untouched
  /\ pc = "decide" => Valid(request) /\ left = Room
  /\ pc = "allocate" => Hybrid /\ class \in 1..6
  /\ pc \in {"cold", "done"} => AllOnCPU \/ Nowhere \/ (Hybrid /\ class = 7)

IInv == TypeOK /\ Stages /\ ColdBytes

-----------------------------------------------------------------------------
(* A finite set of naturals has a greatest: the one that has the fewest      *)
(* above it.                                                                 *)
LEMMA Greatest ==
  ASSUME NEW S \in SUBSET Nat, IsFiniteSet(S), S # {}
  PROVE  \E best \in S : \A v \in S : v <= best
  <1> DEFINE Above(v) == {u \in S : u > v}
             aboves == {Above(v) : v \in S}
  <1>1. aboves \subseteq FiniteSubsetsOf(S) /\ aboves # {}
    <2>1. FiniteSubsetsOf(S) = SUBSET S
      BY FS_FiniteSubsetsOfFinite
    <2>2. \A v \in S : Above(v) \in SUBSET S
      OBVIOUS
    <2>3. \A v \in S : Above(v) \in aboves
      OBVIOUS
    <2>4. aboves # {}
      BY <2>3
    <2>5. aboves \subseteq SUBSET S
      BY <2>2
    <2> QED
      BY <2>1, <2>4, <2>5
  <1>2. PICK least \in aboves : \A other \in aboves : ~(<<other, least>> \in StrictSubsetOrdering(S))
    BY <1>1, FS_StrictSubsetOrderingWellFounded, WFMin
  <1>3. PICK best \in S : least = Above(best)
    BY <1>2
  <1>4. ASSUME NEW v \in S, ~(v <= best)
        PROVE  FALSE
    <2>1. v > best /\ \A u \in S : u > v => u > best
      BY <1>4
    <2>2. v \in Above(best) /\ v \notin Above(v)
      BY <2>1
    <2>4. Above(v) \in SUBSET Above(best) /\ Above(v) \in SUBSET S /\ Above(best) \in SUBSET S
      BY <2>1
    <2> HIDE DEF Above
    <2>3. <<Above(v), Above(best)>> \in StrictSubsetOrdering(S)
      BY <2>2, <2>4 DEF StrictSubsetOrdering
    <2> QED
      BY <1>2, <1>3, <2>3
  <1> QED
    BY <1>4

LEMMA Words ==
  /\ Word \subseteq Nat /\ 0 \in Word
  /\ \A n \in Nat, w \in Word : n <= w => n \in Word
  /\ \A w \in Word : w % Modulus = w
  /\ \A n \in Nat : n % Modulus \in Word /\ (n < Modulus => n % Modulus = n)
  BY ModulusAssumption DEF Word

(* What the host offers is a word.                                           *)
LEMMA HostOffers ==
  ASSUME host \in Hosts, request \in Requests
  PROVE  /\ BestVRAM(host) \in Word
         /\ UsableRAM(host, request) \in Word
         /\ AvailableRAM(host) \in Nat /\ Reserve(host, request) \in Nat
         /\ UsableRAM(host, request) > 0 =>
              UsableRAM(host, request) + Reserve(host, request) = AvailableRAM(host)
  <1>1. host.available \in Word /\ host.total \in Word /\ host.fleet \in Fleets
    BY HostAssumption DEF Hosts, Word
  <1>2. BestVRAM(host) \in Word
    <2> DEFINE amounts == host.fleet \cup {0}
    <2>1. amounts \subseteq Word /\ amounts # {} /\ IsFiniteSet(amounts)
      BY <1>1, HostAssumption, Words, FS_AddElement DEF Word
    <2>2. \E best \in amounts : \A v \in amounts : v <= best
      BY <2>1, Words, Greatest
    <2>3. BestVRAM(host) \in amounts
      BY <2>2 DEF BestVRAM
    <2> QED
      BY <2>1, <2>3
  <1>3. AvailableRAM(host) \in Word
    BY <1>1 DEF AvailableRAM
  <1>4. Reserve(host, request) \in Nat
    <2>1. request.reserve \in Nat
      BY SizesAssumption DEF Requests
    <2>2. MinReserve \in Nat
      BY HostAssumption, ModulusAssumption
    <2>3. host.total \div 5 \in Nat
      <3>1. host.total \in Nat
        BY <1>1, Words
      <3> QED
        BY <3>1
    <2> QED
      BY <2>1, <2>2, <2>3 DEF Reserve
  <1>7. AvailableRAM(host) \in Nat
    BY <1>3, Words
  <1>5. UsableRAM(host, request) \in Word
    <2>1. UsableRAM(host, request) \in Nat /\ UsableRAM(host, request) <= AvailableRAM(host)
      BY <1>4, <1>7 DEF UsableRAM
    <2> QED
      BY <1>3, <2>1, Words
  <1>6. UsableRAM(host, request) > 0 =>
          UsableRAM(host, request) + Reserve(host, request) = AvailableRAM(host)
    BY <1>4, <1>7 DEF UsableRAM
  <1> QED
    BY <1>2, <1>4, <1>5, <1>6, <1>7

-----------------------------------------------------------------------------
(* The six classes and their sum.                                            *)
LEMMA Classes ==
  /\ Hot = {"kv_cache", "projector", "model_weights", "moe_experts", "prefix_cache", "workspace"}
  /\ \A i \in 1..6 : Order[i] \in Hot
  /\ \A c \in Hot : \E i \in 1..6 : c = Order[i]
  /\ \A i, j \in 1..6 : Order[i] = Order[j] => i = j
  /\ \A c \in Hot : (c \in Whole <=> c \notin Split)
  <1>1. \A i : i \in 1..6 <=> i \in {1, 2, 3, 4, 5, 6}
    OBVIOUS
  <1>2. /\ Order[1] = "kv_cache" /\ Order[2] = "projector" /\ Order[3] = "model_weights"
        /\ Order[4] = "moe_experts" /\ Order[5] = "prefix_cache" /\ Order[6] = "workspace"
    BY DEF Order
  <1>3. Hot = {Order[1], Order[2], Order[3], Order[4], Order[5], Order[6]}
    BY <1>1 DEF Hot
  <1>4. \A i, j \in {1, 2, 3, 4, 5, 6} : Order[i] = Order[j] => i = j
    BY <1>2
  <1> QED
    BY <1>1, <1>2, <1>3, <1>4 DEF Whole

LEMMA Total ==
  ASSUME NEW f \in [Hot -> Nat]
  PROVE  /\ Sum(f) \in Nat
         /\ \A c \in Hot : f[c] <= Sum(f)
         /\ Sum(f) > 0 <=> \E c \in Hot : f[c] > 0
  BY Classes DEF Sum

(* One class more: the sum grows by its bytes.                               *)
LEMMA OneMore ==
  ASSUME NEW f \in [Hot -> Nat], NEW g \in [Hot -> Nat], NEW c \in Hot,
         f[c] = 0, \A d \in Hot : d # c => g[d] = f[d]
  PROVE  Sum(g) = Sum(f) + g[c]
  <1>1. c \in {"kv_cache", "projector", "model_weights", "moe_experts", "prefix_cache", "workspace"}
    BY Classes
  <1>2. \A d \in Hot : f[d] \in Nat /\ g[d] \in Nat
    OBVIOUS
  <1>3. CASE c = "kv_cache"
    BY <1>2, <1>3, Classes DEF Sum
  <1>4. CASE c = "projector"
    BY <1>2, <1>4, Classes DEF Sum
  <1>5. CASE c = "model_weights"
    BY <1>2, <1>5, Classes DEF Sum
  <1>6. CASE c = "moe_experts"
    BY <1>2, <1>6, Classes DEF Sum
  <1>7. CASE c = "prefix_cache"
    BY <1>2, <1>7, Classes DEF Sum
  <1>8. CASE c = "workspace"
    BY <1>2, <1>8, Classes DEF Sum
  <1> QED
    BY <1>1, <1>3, <1>4, <1>5, <1>6, <1>7, <1>8

LEMMA SumOfSums ==
  ASSUME NEW f \in [Hot -> Nat], NEW g \in [Hot -> Nat], NEW h \in [Hot -> Nat],
         NEW s \in [Hot -> Nat], \A c \in Hot : f[c] + g[c] + h[c] = s[c]
  PROVE  Sum(s) = Sum(f) + Sum(g) + Sum(h)
  BY Classes DEF Sum

(* The bytes of a request and the bytes in a tier are such functions.        *)
LEMMA Amounts ==
  ASSUME TypeOK
  PROVE  /\ request.bytes \in [Hot -> Nat] /\ \A c \in Hot : request.bytes[c] \in Word
         /\ \A c \in Hot : /\ placed[c] \in Tiers
                           /\ placed[c].vram \in Nat /\ placed[c].ram \in Nat
                           /\ placed[c].unplaced \in Nat
         /\ [c \in Hot |-> placed[c]["vram"]] \in [Hot -> Nat]
         /\ [c \in Hot |-> placed[c]["ram"]] \in [Hot -> Nat]
         /\ [c \in Hot |-> placed[c]["unplaced"]] \in [Hot -> Nat]
         /\ Sum(request.bytes) \in Nat
         /\ In("vram") \in Nat /\ In("ram") \in Nat /\ In("unplaced") \in Nat
  <1>1. request.bytes \in [Hot -> Sizes] /\ placed \in [Hot -> Tiers]
    BY DEF TypeOK, Requests
  <1>2. Sizes \subseteq Word /\ Word \subseteq Nat
    BY SizesAssumption, Words DEF Word
  <1>3. request.bytes \in [Hot -> Nat] /\ \A c \in Hot : request.bytes[c] \in Word
    BY <1>1, <1>2
  <1>4. \A c \in Hot : /\ placed[c] \in Tiers
                      /\ placed[c].vram \in Nat /\ placed[c].ram \in Nat
                      /\ placed[c].unplaced \in Nat
    BY <1>1, <1>2 DEF Tiers
  <1>5. /\ [c \in Hot |-> placed[c]["vram"]] \in [Hot -> Nat]
        /\ [c \in Hot |-> placed[c]["ram"]] \in [Hot -> Nat]
        /\ [c \in Hot |-> placed[c]["unplaced"]] \in [Hot -> Nat]
    BY <1>4
  <1> QED
    BY <1>3, <1>4, <1>5, Total DEF In

-----------------------------------------------------------------------------
Plans == [decision : {"none", "cpu_only", "hybrid_candidate", "capacity_exceeded"},
          vram : Word, ram : Word, nvme : Word, cold : Word]

LEMMA InitInvariant == Init => IInv
  <1> SUFFICES ASSUME Init
               PROVE  IInv
    OBVIOUS
  <1>1. Nil \in Tiers /\ left \in [vram : Word, ram : Word]
    BY Words DEF Nil, Tiers, Init
  <1>2. TypeOK
    BY <1>1, Words DEF Init, TypeOK, Nil
  <1>3. Untouched /\ ColdBytes
    BY DEF Init, Untouched, Nil, ColdBytes
  <1> QED
    BY <1>2, <1>3 DEF IInv, Stages, Init

(* A class is assigned amounts the tiers have room for.                      *)
LEMMA AssignKeeps ==
  ASSUME IInv, pc = "allocate",
         NEW v \in Nat, NEW r \in Nat, NEW u \in Nat,
         v <= left.vram, r <= left.ram,
         v + r + u = request.bytes[Order[class]],
         Order[class] \in Whole => request.bytes[Order[class]] \in {v, r, u},
         u > 0 => IF Order[class] \in Split THEN v = left.vram /\ r = left.ram
                  ELSE u > left.vram - v /\ u > left.ram - r,
         Assign(v, r, u)
  PROVE  IInv'
  <1> DEFINE c == Order[class]
             tiers == [vram |-> v, ram |-> r, unplaced |-> u]
  <1>1. /\ TypeOK /\ Hybrid /\ class \in 1..6 /\ class \in Nat /\ ColdBytes
        /\ host \in Hosts /\ request \in Requests
    BY DEF IInv, Stages, TypeOK
  <1>2. /\ c \in Hot /\ placed[c] = Nil
        /\ \A i \in 1..6 : i # class => Order[i] # c
    BY <1>1, Classes DEF Hybrid
  <1>3. /\ left.vram \in Word /\ left.ram \in Word
        /\ left = [vram |-> left.vram, ram |-> left.ram]
        /\ left.vram \in Nat /\ left.ram \in Nat
    BY <1>1, Words DEF TypeOK
  <1>4. /\ left' = [vram |-> left.vram - v, ram |-> left.ram - r]
        /\ placed' = [placed EXCEPT ![c] = tiers]
        /\ class' = class + 1
        /\ pc' = IF class = 6 THEN "cold" ELSE "allocate"
        /\ UNCHANGED <<host, request>>
    BY DEF Assign
  <1>5. /\ request.bytes[c] \in Word /\ placed \in [Hot -> Tiers]
        /\ In("vram") \in Nat /\ In("ram") \in Nat /\ In("unplaced") \in Nat
    BY <1>1, <1>2, Amounts DEF TypeOK
  <1>6. v \in Word /\ r \in Word /\ u \in Word
    BY <1>5, Words
  <1>7. /\ placed' \in [Hot -> Tiers] /\ placed'[c] = tiers
        /\ \A d \in Hot : d # c => placed'[d] = placed[d]
    <2>1. tiers \in Tiers
      BY <1>6 DEF Tiers
    <2> HIDE DEF tiers, c
    <2> QED
      BY <1>2, <1>4, <1>5, <2>1
  <1>8. /\ In("vram")' = In("vram") + v
        /\ In("ram")' = In("ram") + r
        /\ In("unplaced")' = In("unplaced") + u
    <2>1. \A d \in Hot : /\ placed[d].vram \in Nat /\ placed[d].ram \in Nat
                         /\ placed[d].unplaced \in Nat
      BY <1>1, Amounts
    <2>2. \A d \in Hot : /\ placed'[d].vram = IF d = c THEN v ELSE placed[d].vram
                         /\ placed'[d].ram = IF d = c THEN r ELSE placed[d].ram
                         /\ placed'[d].unplaced = IF d = c THEN u ELSE placed[d].unplaced
      BY <1>7
    <2>3. placed[c].vram = 0 /\ placed[c].ram = 0 /\ placed[c].unplaced = 0
      BY <1>2 DEF Nil
    <2> HIDE DEF c
    <2>4. In("vram")' = In("vram") + v
      <3> DEFINE f == [d \in Hot |-> placed[d]["vram"]]
                 g == [d \in Hot |-> placed'[d]["vram"]]
      <3>1. /\ f \in [Hot -> Nat] /\ g \in [Hot -> Nat] /\ f[c] = 0 /\ g[c] = v
            /\ \A d \in Hot : d # c => g[d] = f[d]
        BY <1>2, <2>1, <2>2, <2>3
      <3> HIDE DEF f, g
      <3>2. Sum(g) = Sum(f) + v
        BY <1>2, <3>1, OneMore
      <3> QED
        BY <3>2 DEF In, f, g
    <2>5. In("ram")' = In("ram") + r
      <3> DEFINE f == [d \in Hot |-> placed[d]["ram"]]
                 g == [d \in Hot |-> placed'[d]["ram"]]
      <3>1. /\ f \in [Hot -> Nat] /\ g \in [Hot -> Nat] /\ f[c] = 0 /\ g[c] = r
            /\ \A d \in Hot : d # c => g[d] = f[d]
        BY <1>2, <2>1, <2>2, <2>3
      <3> HIDE DEF f, g
      <3>2. Sum(g) = Sum(f) + r
        BY <1>2, <3>1, OneMore
      <3> QED
        BY <3>2 DEF In, f, g
    <2>6. In("unplaced")' = In("unplaced") + u
      <3> DEFINE f == [d \in Hot |-> placed[d]["unplaced"]]
                 g == [d \in Hot |-> placed'[d]["unplaced"]]
      <3>1. /\ f \in [Hot -> Nat] /\ g \in [Hot -> Nat] /\ f[c] = 0 /\ g[c] = u
            /\ \A d \in Hot : d # c => g[d] = f[d]
        BY <1>2, <2>1, <2>2, <2>3
      <3> HIDE DEF f, g
      <3>2. Sum(g) = Sum(f) + u
        BY <1>2, <3>1, OneMore
      <3> QED
        BY <3>2 DEF In, f, g
    <2> QED
      BY <2>4, <2>5, <2>6
  <1>9. /\ BestVRAM(host) \in Word /\ UsableRAM(host, request) \in Word
        /\ BestVRAM(host) \in Nat /\ UsableRAM(host, request) \in Nat
        /\ BestVRAM(host)' = BestVRAM(host)
        /\ UsableRAM(host, request)' = UsableRAM(host, request)
        /\ Fits' = Fits
    BY <1>1, <1>4, HostOffers, Words DEF Fits
  <1>10. /\ In("vram") + left.vram = BestVRAM(host)
         /\ In("ram") + left.ram = UsableRAM(host, request)
         /\ plan.vram = In("vram") /\ plan.ram = In("ram")
    BY <1>1 DEF Hybrid
  <1>11. /\ In("vram") + v \in Word /\ In("ram") + r \in Word
         /\ (plan.vram + v) % Modulus = In("vram") + v
         /\ (plan.ram + r) % Modulus = In("ram") + r
    <2>1. /\ In("vram") + v \in Nat /\ In("vram") + v <= BestVRAM(host)
          /\ In("ram") + r \in Nat /\ In("ram") + r <= UsableRAM(host, request)
      BY <1>3, <1>5, <1>9, <1>10
    <2>2. In("vram") + v \in Word /\ In("ram") + r \in Word
      BY <1>9, <2>1, Words
    <2> QED
      BY <1>10, <2>2, Words
  <1>12. /\ plan' \in Plans
         /\ plan'.vram = In("vram") + v /\ plan'.ram = In("ram") + r
         /\ plan'.decision = IF u > 0 THEN "capacity_exceeded" ELSE plan.decision
         /\ plan'.nvme = plan.nvme /\ plan'.cold = plan.cold
    <2>1. plan \in Plans
      BY <1>1 DEF TypeOK, Plans
    <2>2. plan' = [plan EXCEPT !.vram = (@ + v) % Modulus,
                               !.ram  = (@ + r) % Modulus,
                               !.decision = IF u > 0 THEN "capacity_exceeded" ELSE @]
      BY DEF Assign
    <2> QED
      BY <1>11, <2>1, <2>2 DEF Plans
  <1>13. left' \in [vram : Word, ram : Word]
    <2>1. /\ left.vram - v \in Nat /\ left.vram - v <= left.vram
          /\ left.ram - r \in Nat /\ left.ram - r <= left.ram
      BY <1>3
    <2>2. left.vram - v \in Word /\ left.ram - r \in Word
      BY <1>3, <2>1, Words
    <2> QED
      BY <1>4, <2>2
  <1>14. TypeOK'
    BY <1>1, <1>4, <1>7, <1>12, <1>13 DEF TypeOK, Plans
  <1>15. ASSUME NEW i \in 1..6
         PROVE  IF i < class' THEN Settled(Order[i])' ELSE placed'[Order[i]] = Nil
    <2>1. CASE i = class
      <3>1. Order[i] = c /\ request'.bytes = request.bytes /\ placed'[Order[i]] = tiers
        BY <1>4, <1>7, <2>1
      <3>2. /\ v + r + u = request.bytes[c]
            /\ c \in Whole => \E amount \in {v, r, u} : amount = request.bytes[c]
        OBVIOUS
      <3> HIDE DEF c
      <3>3. Settled(Order[i])'
        BY <3>1, <3>2 DEF Settled
      <3> QED
        BY <1>1, <1>4, <2>1, <3>3
    <2>2. CASE i # class
      <3>1. placed'[Order[i]] = placed[Order[i]] /\ request' = request
        BY <1>2, <1>4, <1>7, <2>2, Classes
      <3>2. Settled(Order[i])' <=> Settled(Order[i])
        BY <3>1 DEF Settled
      <3>3. i < class' <=> i < class
        BY <1>1, <1>4, <2>2
      <3>4. IF i < class THEN Settled(Order[i]) ELSE placed[Order[i]] = Nil
        BY <1>1 DEF Hybrid
      <3> QED
        BY <3>1, <3>2, <3>3, <3>4
    <2> QED
      BY <2>1, <2>2
  <1>16. ASSUME NEW d \in Hot
         PROVE  FitsNoMore(d)'
    <2>1. left'.vram = left.vram - v /\ left'.ram = left.ram - r
      BY <1>4
    <2>2. CASE d = c
      <3>1. placed'[d].unplaced = u
        BY <1>7, <2>2
      <3>2. left.vram - left.vram = 0 /\ left.ram - left.ram = 0
        BY <1>3
      <3> QED
        BY <1>4, <2>1, <2>2, <3>1, <3>2 DEF FitsNoMore
    <2>3. CASE d # c
      <3>1. placed'[d] = placed[d] /\ placed[d].unplaced \in Nat
        BY <1>1, <1>7, <2>3, Amounts
      <3>2. FitsNoMore(d)
        BY <1>1 DEF Hybrid
      <3>3. left = [vram |-> 0, ram |-> 0] => left' = [vram |-> 0, ram |-> 0]
        <4>1. left = [vram |-> 0, ram |-> 0] => left.vram = 0 /\ left.ram = 0
          OBVIOUS
        <4>2. left.vram = 0 /\ left.ram = 0 => left.vram - v = 0 /\ left.ram - r = 0
          BY <1>3
        <4> QED
          BY <1>4, <4>1, <4>2
      <3>4. /\ placed[d].unplaced > left.vram => placed[d].unplaced > left.vram - v
            /\ placed[d].unplaced > left.ram => placed[d].unplaced > left.ram - r
        BY <1>3, <3>1
      <3> QED
        BY <2>1, <3>1, <3>2, <3>3, <3>4 DEF FitsNoMore
    <2> QED
      BY <2>2, <2>3
  <1>17. plan'.decision = IF In("unplaced")' > 0 THEN "capacity_exceeded" ELSE "hybrid_candidate"
    <2>1. plan.decision = IF In("unplaced") > 0 THEN "capacity_exceeded" ELSE "hybrid_candidate"
      BY <1>1 DEF Hybrid
    <2>2. In("unplaced") + u > 0 <=> In("unplaced") > 0 \/ u > 0
      BY <1>5
    <2> QED
      BY <1>8, <1>12, <2>1, <2>2
  <1>18. Hybrid'
    <2>1. /\ In("vram")' + left'.vram = BestVRAM(host)
          /\ In("ram")' + left'.ram = UsableRAM(host, request)
      BY <1>3, <1>4, <1>5, <1>8, <1>9, <1>10
    <2>2. ~Fits' /\ request'.acceleration /\ BestVRAM(host)' > 0
      BY <1>1, <1>4, <1>9 DEF Hybrid
    <2>3. plan'.vram = In("vram")' /\ plan'.ram = In("ram")'
      BY <1>8, <1>12
    <2> QED
      BY <1>9, <1>15, <1>16, <1>17, <2>1, <2>2, <2>3 DEF Hybrid
  <1>19. Stages'
    <2>1. pc' = "allocate" => class' \in 1..6
      BY <1>1, <1>4
    <2>2. pc' = "cold" => class' = 7
      BY <1>1, <1>4
    <2> QED
      BY <1>4, <1>18, <2>1, <2>2 DEF Stages
  <1>20. ColdBytes'
    BY <1>1, <1>4, <1>12 DEF ColdBytes
  <1> QED
    BY <1>14, <1>19, <1>20 DEF IInv

(* What a class asks for and what the tiers have left are naturals.          *)
LEMMA Asked ==
  ASSUME IInv, pc = "allocate"
  PROVE  /\ request.bytes[Order[class]] \in Nat
         /\ left.vram \in Nat /\ left.ram \in Nat
         /\ Order[class] \in Whole <=> Order[class] \notin Split
  <1>1. TypeOK /\ class \in 1..6
    BY DEF IInv, Stages
  <1>2. left.vram \in Word /\ left.ram \in Word /\ Order[class] \in Hot
    BY <1>1, Classes DEF TypeOK
  <1> QED
    BY <1>1, <1>2, Classes, Amounts, Words

LEMMA AllocateWholeKeeps == IInv /\ AllocateWhole => IInv'
  <1> SUFFICES ASSUME IInv, AllocateWhole
               PROVE  IInv'
    OBVIOUS
  <1> DEFINE bytes == request.bytes[Order[class]]
  <1>1. pc = "allocate" /\ Order[class] \in Whole
        /\ IF bytes <= left.vram THEN Assign(bytes, 0, 0)
           ELSE IF bytes <= left.ram THEN Assign(0, bytes, 0)
           ELSE Assign(0, 0, bytes)
    BY DEF AllocateWhole
  <1>2. /\ bytes \in Nat /\ left.vram \in Nat /\ left.ram \in Nat
        /\ Order[class] \notin Split
    BY <1>1, Asked
  <1>3. CASE bytes <= left.vram
    <2>1. 0 \in Nat /\ 0 <= left.ram /\ bytes + 0 + 0 = bytes /\ ~(0 > 0)
      BY <1>2
    <2> QED
      BY <1>1, <1>2, <1>3, <2>1, AssignKeeps
  <1>4. CASE ~(bytes <= left.vram) /\ bytes <= left.ram
    <2>1. 0 \in Nat /\ 0 <= left.vram /\ 0 + bytes + 0 = bytes /\ ~(0 > 0)
      BY <1>2
    <2> QED
      BY <1>1, <1>2, <1>4, <2>1, AssignKeeps
  <1>5. CASE ~(bytes <= left.vram) /\ ~(bytes <= left.ram)
    <2>1. /\ 0 \in Nat /\ 0 <= left.vram /\ 0 <= left.ram /\ 0 + 0 + bytes = bytes
          /\ bytes > left.vram - 0 /\ bytes > left.ram - 0
      BY <1>2, <1>5
    <2> QED
      BY <1>1, <1>2, <1>5, <2>1, AssignKeeps
  <1> QED
    BY <1>3, <1>4, <1>5

LEMMA AllocateSplitKeeps == IInv /\ AllocateSplit => IInv'
  <1> SUFFICES ASSUME IInv, AllocateSplit
               PROVE  IInv'
    OBVIOUS
  <1> DEFINE bytes  == request.bytes[Order[class]]
             inVRAM == Least(bytes, left.vram)
             inRAM  == Least(bytes - inVRAM, left.ram)
             rest   == bytes - inVRAM - inRAM
  <1>1. pc = "allocate" /\ Order[class] \in Split /\ Assign(inVRAM, inRAM, rest)
    BY DEF AllocateSplit
  <1>2. /\ bytes \in Nat /\ left.vram \in Nat /\ left.ram \in Nat
        /\ Order[class] \notin Whole
    BY <1>1, Asked
  <1>3. inVRAM \in Nat /\ inVRAM <= left.vram /\ inVRAM <= bytes
        /\ (inVRAM = bytes \/ inVRAM = left.vram)
    BY <1>2 DEF Least
  <1> HIDE DEF inVRAM, bytes
  <1>4. inRAM \in Nat /\ inRAM <= left.ram /\ inRAM <= bytes - inVRAM
        /\ (inRAM = bytes - inVRAM \/ inRAM = left.ram)
    BY <1>2, <1>3 DEF Least
  <1> HIDE DEF inRAM
  <1>5. /\ rest \in Nat /\ inVRAM + inRAM + rest = bytes
        /\ rest > 0 => inVRAM = left.vram /\ inRAM = left.ram
    BY <1>2, <1>3, <1>4
  <1> HIDE DEF rest
  <1> QED
    BY <1>1, <1>2, <1>3, <1>4, <1>5, AssignKeeps DEF bytes

LEMMA NextInvariant == IInv /\ [Next]_vars => IInv'
  <1> SUFFICES ASSUME IInv, [Next]_vars
               PROVE  IInv'
    OBVIOUS
  <1>1. TypeOK /\ Stages /\ ColdBytes /\ plan \in Plans
    BY DEF IInv, TypeOK, Plans
  <1>2. \A c \in Hot : request.bytes[c] \in Word
    BY <1>1, Amounts
  <1>3. CASE Validate
    <2>1. /\ pc = "validate" /\ pc' = IF Valid(request) THEN "decide" ELSE "error"
          /\ left' = IF Valid(request) THEN Room ELSE left
          /\ UNCHANGED <<host, request, class, placed, plan>>
      BY <1>3 DEF Validate
    <2>2. Room \in [vram : Word, ram : Word]
      BY <1>1, HostOffers DEF TypeOK, Room
    <2>3. TypeOK' /\ ColdBytes' /\ (Untouched' <=> Untouched)
      BY <1>1, <2>1, <2>2 DEF TypeOK, ColdBytes, Untouched
    <2>4. (Valid(request)' <=> Valid(request)) /\ Room' = Room
      BY <2>1 DEF Room
    <2> QED
      BY <1>1, <2>1, <2>3, <2>4 DEF IInv, Stages
  <1>4. CASE ChooseCPU
    <2> DEFINE onCPU == [c \in Hot |-> [vram |-> 0, ram |-> request.bytes[c], unplaced |-> 0]]
    <2>1. /\ pc = "decide" /\ Fits /\ pc' = "cold" /\ placed' = onCPU
          /\ plan' = [plan EXCEPT !.decision = "cpu_only", !.ram = Sum(request.bytes) % Modulus]
          /\ left' = [left EXCEPT !.ram = @ - (Sum(request.bytes) % Modulus)]
          /\ UNCHANGED <<host, request, class>>
      BY <1>4 DEF ChooseCPU
    <2>2. plan.vram = 0
      BY <1>1, <2>1 DEF Stages, Untouched
    <2>3. Sum(request.bytes) % Modulus \in Word
      BY <1>1, Amounts, Words
    <2>4. /\ plan' \in Plans /\ plan'.decision = "cpu_only" /\ plan'.vram = plan.vram
          /\ plan'.ram = Sum(request.bytes) % Modulus
          /\ plan'.nvme = plan.nvme /\ plan'.cold = plan.cold
      BY <1>1, <2>1, <2>3 DEF Plans
    <2>5. onCPU \in [Hot -> Tiers]
      BY <1>2, Words DEF Tiers
    <2>6. left' \in [vram : Word, ram : Word]
      <3> DEFINE usable == UsableRAM(host, request)
                 total == Sum(request.bytes) % Modulus
      <3>1. left = [vram |-> BestVRAM(host), ram |-> usable]
        BY <1>1, <2>1 DEF Stages, Room
      <3>2. total <= usable
        BY <2>1 DEF Fits
      <3>3. BestVRAM(host) \in Word /\ usable \in Word /\ total \in Word
        <4>1. host \in Hosts /\ request \in Requests
          BY <1>1 DEF TypeOK
        <4> QED
          BY <2>3, <4>1, HostOffers
      <3>4. left' = [vram |-> BestVRAM(host), ram |-> usable - total]
        BY <2>1, <3>1
      <3> HIDE DEF usable, total
      <3>5. usable - total \in Word
        BY <3>2, <3>3, ModulusAssumption DEF Word
      <3> QED
        BY <3>3, <3>4, <3>5
    <2>7. TypeOK'
      BY <1>1, <2>1, <2>4, <2>5, <2>6 DEF TypeOK, Plans
    <2>8. Fits' <=> Fits
      BY <2>1 DEF Fits
    <2>9. AllOnCPU'
      BY <2>1, <2>2, <2>4, <2>8 DEF AllOnCPU
    <2> QED
      BY <1>1, <2>1, <2>4, <2>7, <2>9 DEF IInv, Stages, ColdBytes
  <1>5. CASE ChooseHybrid
    <2>1. /\ pc = "decide" /\ ~Fits /\ request.acceleration /\ BestVRAM(host) > 0
          /\ pc' = "allocate"
          /\ plan' = [plan EXCEPT !.decision = "hybrid_candidate"]
          /\ left' = [vram |-> BestVRAM(host), ram |-> UsableRAM(host, request)]
          /\ UNCHANGED <<host, request, class, placed>>
      BY <1>1, <1>5 DEF ChooseHybrid, Stages, Room
    <2>2. /\ class = 1 /\ plan.vram = 0 /\ plan.ram = 0
          /\ \A c \in Hot : placed[c] = Nil
      BY <1>1, <2>1 DEF Stages, Untouched
    <2>3. /\ plan' \in Plans /\ plan'.decision = "hybrid_candidate"
          /\ plan'.vram = plan.vram /\ plan'.ram = plan.ram
          /\ plan'.nvme = plan.nvme /\ plan'.cold = plan.cold
      BY <1>1, <2>1 DEF Plans
    <2>4. /\ BestVRAM(host) \in Word /\ UsableRAM(host, request) \in Word
          /\ BestVRAM(host) \in Nat /\ UsableRAM(host, request) \in Nat
      BY <1>1, HostOffers, Words DEF TypeOK
    <2>5. TypeOK'
      BY <1>1, <2>1, <2>3, <2>4 DEF TypeOK, Plans
    <2>6. \A c \in Hot : placed'[c].vram = 0 /\ placed'[c].ram = 0 /\ placed'[c].unplaced = 0
      BY <2>1, <2>2 DEF Nil
    <2>7. In("vram")' = 0 /\ In("ram")' = 0 /\ In("unplaced")' = 0
      BY <2>6, Classes DEF In, Sum
    <2>8. \A i \in 1..6 : ~(i < class') /\ placed'[Order[i]] = Nil
      BY <2>1, <2>2, Classes
    <2>9. \A c \in Hot : FitsNoMore(c)'
      BY <2>6 DEF FitsNoMore
    <2>10. ~Fits' /\ request'.acceleration /\ BestVRAM(host)' > 0
      BY <2>1 DEF Fits
    <2>11. BestVRAM(host)' = BestVRAM(host) /\ UsableRAM(host, request)' = UsableRAM(host, request)
      BY <2>1
    <2>12. /\ In("vram")' + left'.vram = BestVRAM(host)'
           /\ In("ram")' + left'.ram = UsableRAM(host, request)'
      BY <2>1, <2>4, <2>7, <2>11
    <2>13. /\ plan'.vram = In("vram")' /\ plan'.ram = In("ram")'
           /\ plan'.decision = IF In("unplaced")' > 0 THEN "capacity_exceeded"
                               ELSE "hybrid_candidate"
      BY <2>2, <2>3, <2>7
    <2>14. Hybrid'
      BY <2>8, <2>9, <2>10, <2>12, <2>13 DEF Hybrid
    <2> QED
      BY <1>1, <2>1, <2>2, <2>3, <2>5, <2>14 DEF IInv, Stages, ColdBytes
  <1>6. CASE ChooseNothing
    <2> DEFINE nowhere == [c \in Hot |-> [vram |-> 0, ram |-> 0, unplaced |-> request.bytes[c]]]
    <2>1. /\ pc = "decide" /\ ~Fits /\ (~request.acceleration \/ BestVRAM(host) = 0)
          /\ pc' = "cold" /\ placed' = nowhere
          /\ plan' = [plan EXCEPT !.decision = "capacity_exceeded"]
          /\ UNCHANGED <<host, request, class, left>>
      BY <1>6 DEF ChooseNothing
    <2>2. /\ plan.vram = 0 /\ plan.ram = 0 /\ Valid(request)
      BY <1>1, <2>1 DEF Stages, Untouched
    <2>3. /\ plan' \in Plans /\ plan'.decision = "capacity_exceeded"
          /\ plan'.vram = plan.vram /\ plan'.ram = plan.ram
          /\ plan'.nvme = plan.nvme /\ plan'.cold = plan.cold
      BY <1>1, <2>1 DEF Plans
    <2>4. nowhere \in [Hot -> Tiers]
      BY <1>2, Words DEF Tiers
    <2>5. TypeOK'
      BY <1>1, <2>1, <2>3, <2>4 DEF TypeOK, Plans
    <2>6. (Fits' <=> Fits) /\ (Valid(request)' <=> Valid(request)) /\ BestVRAM(host)' = BestVRAM(host)
      BY <2>1 DEF Fits
    <2>7. Nowhere'
      BY <2>1, <2>2, <2>3, <2>6 DEF Nowhere
    <2> QED
      BY <1>1, <2>1, <2>3, <2>5, <2>7 DEF IInv, Stages, ColdBytes
  <1>7. CASE AssignCold
    <2>1. /\ pc = "cold" /\ pc' = "done"
          /\ plan' = IF request.nvme /\ request.cold <= request.budget
                     THEN [plan EXCEPT !.nvme = request.cold]
                     ELSE [plan EXCEPT !.cold = request.cold]
          /\ UNCHANGED <<host, request, class, left, placed>>
      BY <1>7 DEF AssignCold
    <2>2. request.cold \in Word /\ request.cold \in Nat /\ request.budget \in Nat
      BY <1>1, SizesAssumption, Words DEF TypeOK, Requests, Word
    <2>3. /\ plan' \in Plans /\ plan'.decision = plan.decision
          /\ plan'.vram = plan.vram /\ plan'.ram = plan.ram
          /\ IF request.nvme /\ request.cold <= request.budget
             THEN plan'.nvme = request.cold /\ plan'.cold = plan.cold
             ELSE plan'.nvme = plan.nvme /\ plan'.cold = request.cold
      BY <1>1, <2>1, <2>2 DEF Plans
    <2>4. TypeOK'
      BY <1>1, <2>1, <2>3 DEF TypeOK, Plans
    <2>5. plan.nvme = 0 /\ plan.cold = 0
      BY <1>1, <2>1 DEF ColdBytes
    <2>6. ColdBytes'
      BY <2>1, <2>2, <2>3, <2>5 DEF ColdBytes
    <2>7. /\ Fits' <=> Fits
          /\ Valid(request)' <=> Valid(request)
          /\ BestVRAM(host)' = BestVRAM(host)
          /\ UsableRAM(host, request)' = UsableRAM(host, request)
          /\ In("vram")' = In("vram") /\ In("ram")' = In("ram") /\ In("unplaced")' = In("unplaced")
          /\ \A c \in Hot : (FitsNoMore(c)' <=> FitsNoMore(c)) /\ (Settled(c)' <=> Settled(c))
      BY <2>1 DEF Fits, In, FitsNoMore, Settled
    <2>8. /\ AllOnCPU => AllOnCPU'
          /\ Nowhere => Nowhere'
      BY <2>1, <2>3, <2>7 DEF AllOnCPU, Nowhere
    <2>9. Hybrid => Hybrid'
      BY <2>1, <2>3, <2>7, Classes DEF Hybrid
    <2> QED
      BY <1>1, <2>1, <2>4, <2>6, <2>8, <2>9 DEF IInv, Stages
  <1>8. CASE UNCHANGED vars
    <2>1. UNCHANGED <<host, request, pc, class, left, placed, plan>>
      BY <1>8 DEF vars
    <2>2. /\ Fits' <=> Fits
          /\ In("vram")' = In("vram") /\ In("ram")' = In("ram") /\ In("unplaced")' = In("unplaced")
          /\ \A c \in Hot : (FitsNoMore(c)' <=> FitsNoMore(c)) /\ (Settled(c)' <=> Settled(c))
      BY <2>1 DEF Fits, In, FitsNoMore, Settled
    <2>3. /\ Hybrid => Hybrid'
          /\ AllOnCPU => AllOnCPU'
          /\ Nowhere => Nowhere'
          /\ Untouched => Untouched'
      BY <2>1, <2>2, Classes DEF Hybrid, AllOnCPU, Nowhere, Untouched
    <2>4. TypeOK' /\ ColdBytes' /\ Room' = Room /\ (Valid(request)' <=> Valid(request))
      BY <1>1, <2>1 DEF TypeOK, ColdBytes, Room
    <2> QED
      BY <1>1, <2>1, <2>3, <2>4 DEF IInv, Stages
  <1> QED
    BY <1>3, <1>4, <1>5, <1>6, <1>7, <1>8, AllocateWholeKeeps, AllocateSplitKeeps DEF Next

-----------------------------------------------------------------------------
(* The inductive invariant holds in every reachable state.                   *)
THEOREM Invariant == Spec => []IInv
  <1> QED
    BY InitInvariant, NextInvariant, PTL DEF Spec

(* Every variable keeps its type: no amount leaves the machine word.         *)
THEOREM TypeCorrect == Spec => []TypeOK
  <1>1. IInv => TypeOK
    BY DEF IInv
  <1> QED
    BY <1>1, Invariant, PTL

-----------------------------------------------------------------------------
(* What the two decisions that place all classes alike leave in each tier.   *)
LEMMA AllAlike ==
  /\ AllOnCPU => \A c \in Hot : /\ placed[c].vram = 0 /\ placed[c].ram = request.bytes[c]
                                /\ placed[c].unplaced = 0
  /\ Nowhere => \A c \in Hot : /\ placed[c].vram = 0 /\ placed[c].ram = 0
                               /\ placed[c].unplaced = request.bytes[c]
  <1>1. ASSUME AllOnCPU, NEW c \in Hot
        PROVE  placed[c].vram = 0 /\ placed[c].ram = request.bytes[c] /\ placed[c].unplaced = 0
    <2>1. placed[c] = [vram |-> 0, ram |-> request.bytes[c], unplaced |-> 0]
      BY <1>1, Zenon DEF AllOnCPU
    <2> QED
      BY <2>1
  <1>2. ASSUME Nowhere, NEW c \in Hot
        PROVE  placed[c].vram = 0 /\ placed[c].ram = 0 /\ placed[c].unplaced = request.bytes[c]
    <2>1. placed[c] = [vram |-> 0, ram |-> 0, unplaced |-> request.bytes[c]]
      BY <1>2, Zenon DEF Nowhere
    <2> QED
      BY <2>1
  <1> QED
    BY <1>1, <1>2, Zenon

LEMMA SettledIsPlaced ==
  ASSUME IInv
  PROVE  EveryByteOnce
  <1>1. TypeOK /\ Stages
    BY DEF IInv
  <1>2. \A c \in Hot : request.bytes[c] \in Nat
    BY <1>1, Amounts
  <1>3. CASE AllOnCPU
    <2>1. \A c \in Hot : Settled(c)
      BY <1>2, <1>3, AllAlike DEF Settled
    <2>2. \A c \in Handled : c \in Hot
      BY <1>1, Classes DEF Handled, TypeOK
    <2> QED
      BY <2>1, <2>2 DEF EveryByteOnce, Settled
  <1>4. CASE Nowhere
    <2>1. \A c \in Hot : Settled(c)
      BY <1>2, <1>4, AllAlike DEF Settled
    <2>2. \A c \in Handled : c \in Hot
      BY <1>1, Classes DEF Handled, TypeOK
    <2> QED
      BY <2>1, <2>2 DEF EveryByteOnce, Settled
  <1>5. CASE Hybrid /\ (pc \in {"cold", "done"} => class = 7)
    <2>1. \A i \in 1..6 : i < class => Settled(Order[i])
      BY <1>5 DEF Hybrid
    <2>2. class \in 1..7
      BY <1>1 DEF TypeOK
    <2>3. ASSUME NEW c \in Handled
          PROVE  Settled(c)
      <3>1. CASE pc \in {"cold", "done"}
        <4>1. c \in Hot /\ class = 7
          BY <1>5, <2>3, <3>1 DEF Handled
        <4>2. PICK i \in 1..6 : c = Order[i]
          BY <4>1, Classes
        <4> QED
          BY <2>1, <4>1, <4>2
      <3>2. CASE pc \notin {"cold", "done"}
        <4>1. PICK i \in 1..(class - 1) : c = Order[i]
          BY <2>3, <3>2 DEF Handled
        <4>2. i \in 1..6 /\ i < class
          BY <2>2
        <4> QED
          BY <2>1, <4>1, <4>2
      <3> QED
        BY <3>1, <3>2
    <2> QED
      BY <2>3 DEF EveryByteOnce, Settled
  <1>6. CASE pc \in {"validate", "decide", "error"}
    BY <1>6 DEF EveryByteOnce
  <1> QED
    BY <1>1, <1>3, <1>4, <1>5, <1>6 DEF Stages, TypeOK

(* What the tiers together hold is what the request asks for.                *)
LEMMA Together ==
  ASSUME TypeOK, \A c \in Hot : Settled(c)
  PROVE  Sum(request.bytes) = In("vram") + In("ram") + In("unplaced")
  <1> DEFINE f == [c \in Hot |-> placed[c]["vram"]]
             g == [c \in Hot |-> placed[c]["ram"]]
             h == [c \in Hot |-> placed[c]["unplaced"]]
  <1>1. /\ f \in [Hot -> Nat] /\ g \in [Hot -> Nat] /\ h \in [Hot -> Nat]
        /\ request.bytes \in [Hot -> Nat]
    BY Amounts
  <1>2. \A c \in Hot : f[c] + g[c] + h[c] = request.bytes[c]
    BY DEF Settled
  <1> HIDE DEF f, g, h
  <1>3. Sum(request.bytes) = Sum(f) + Sum(g) + Sum(h)
    BY <1>1, <1>2, SumOfSums
  <1> QED
    BY <1>3 DEF In, f, g, h

(* Of a sum of zeros nothing is in a tier, of the bytes everything.          *)
LEMMA OneTier ==
  ASSUME TypeOK, NEW tier \in {"vram", "ram", "unplaced"}
  PROVE  /\ (\A c \in Hot : placed[c][tier] = 0) => In(tier) = 0
         /\ (\A c \in Hot : placed[c][tier] = request.bytes[c]) => In(tier) = Sum(request.bytes)
  BY Classes, Amounts DEF In, Sum

LEMMA TiersAreFilled ==
  ASSUME IInv
  PROVE  TiersHold
  <1> DEFINE total == Sum(request.bytes)
             usable == UsableRAM(host, request)
             best == BestVRAM(host)
  <1>1. TypeOK /\ Stages /\ ColdBytes /\ host \in Hosts /\ request \in Requests
    BY DEF IInv, TypeOK
  <1>2. /\ best \in Nat /\ usable \in Nat
        /\ AvailableRAM(host) \in Nat /\ Reserve(host, request) \in Nat
        /\ usable > 0 => usable + Reserve(host, request) = AvailableRAM(host)
    BY <1>1, HostOffers, Words
  <1>3. /\ total \in Nat /\ In("vram") \in Nat /\ In("ram") \in Nat
        /\ left.vram \in Nat /\ left.ram \in Nat
    BY <1>1, Amounts, Words DEF TypeOK
  <1>4. /\ request.cold \in Nat /\ request.budget \in Nat
        /\ plan.nvme <= IF request.nvme THEN request.budget ELSE 0
        /\ pc = "done" => plan.nvme + plan.cold = request.cold
    <2>1. request.cold \in Nat /\ request.budget \in Nat
      BY <1>1, SizesAssumption DEF Requests
    <2> QED
      BY <1>1, <2>1 DEF ColdBytes
  <1>5. ASSUME ~BelievesWrappedSum
        PROVE  /\ In("ram") <= usable /\ In("vram") <= best
               /\ plan.ram = In("ram") /\ plan.vram = In("vram")
    <2>1. CASE Untouched
      <3>1. \A c \in Hot : placed[c]["vram"] = 0 /\ placed[c]["ram"] = 0
        BY <2>1 DEF Untouched, Nil
      <3>2. In("vram") = 0 /\ In("ram") = 0
        BY <1>1, <3>1, OneTier
      <3> QED
        BY <1>2, <2>1, <3>2 DEF Untouched
    <2>2. CASE AllOnCPU
      <3>1. \A c \in Hot : placed[c]["vram"] = 0 /\ placed[c]["ram"] = request.bytes[c]
        BY <2>2, AllAlike
      <3>2. In("vram") = 0 /\ In("ram") = total
        BY <1>1, <3>1, OneTier
      <3>3. total % Modulus = total
        <4>1. ~(total >= Modulus)
          BY <1>5, <2>2 DEF AllOnCPU, BelievesWrappedSum
        <4> QED
          BY <1>3, <4>1, Words, ModulusAssumption
      <3>4. plan.vram = 0 /\ plan.ram = total /\ total <= usable
        BY <2>2, <3>3 DEF AllOnCPU, Fits
      <3> QED
        BY <1>2, <3>2, <3>4
    <2>3. CASE Nowhere
      <3>1. \A c \in Hot : placed[c]["vram"] = 0 /\ placed[c]["ram"] = 0
        BY <2>3, AllAlike
      <3>2. In("vram") = 0 /\ In("ram") = 0
        BY <1>1, <3>1, OneTier
      <3> QED
        BY <1>2, <2>3, <3>2 DEF Nowhere
    <2>4. CASE Hybrid
      <3>1. /\ In("vram") + left.vram = best /\ In("ram") + left.ram = usable
            /\ plan.vram = In("vram") /\ plan.ram = In("ram")
        BY <2>4 DEF Hybrid
      <3> HIDE DEF best, usable
      <3> QED
        BY <1>2, <1>3, <3>1
    <2> QED
      BY <1>1, <2>1, <2>2, <2>3, <2>4 DEF Stages, TypeOK
  <1>6. ASSUME In("ram") > 0, In("ram") <= usable
        PROVE  In("ram") + Reserve(host, request) <= AvailableRAM(host)
    <2> HIDE DEF usable
    <2> QED
      BY <1>2, <1>3, <1>6
  <1> QED
    BY <1>4, <1>5, <1>6 DEF TiersHold

LEMMA RefusedForCause ==
  ASSUME IInv
  PROVE  RefusedBytesFitNowhere
  <1> SUFFICES ASSUME pc = "done"
               PROVE  RefusedBytesFitNowhere
    BY DEF RefusedBytesFitNowhere
  <1> DEFINE total == Sum(request.bytes)
             usable == UsableRAM(host, request)
             best == BestVRAM(host)
  <1>1. TypeOK /\ Stages /\ host \in Hosts /\ request \in Requests
    BY DEF IInv, TypeOK
  <1>2. best \in Nat /\ usable \in Nat
    BY <1>1, HostOffers, Words
  <1>3. /\ total \in Nat /\ In("vram") \in Nat /\ In("ram") \in Nat /\ In("unplaced") \in Nat
        /\ left.vram \in Nat /\ left.ram \in Nat
        /\ request.bytes \in [Hot -> Nat] /\ \A c \in Hot : request.bytes[c] \in Nat
    BY <1>1, Amounts, Words DEF TypeOK
  <1>4. ~Fits => total > usable
    <2>1. total < Modulus => total % Modulus = total
      BY <1>3, Words
    <2>2. usable < Modulus
      BY <1>1, HostOffers, ModulusAssumption DEF Word
    <2>3. ~Fits => ~(total % Modulus <= usable)
      BY DEF Fits
    <2> HIDE DEF total, usable
    <2>4. CASE total < Modulus
      BY <1>2, <1>3, <2>1, <2>3, <2>4
    <2>5. CASE ~(total < Modulus)
      BY <1>2, <1>3, <2>2, <2>5, ModulusAssumption
    <2> QED
      BY <2>4, <2>5
  <1>5. CASE AllOnCPU
    <2>1. \A c \in Hot : placed[c]["unplaced"] = 0
      BY <1>5, AllAlike
    <2>2. In("unplaced") = 0
      BY <1>1, <2>1, OneTier
    <2>3. plan.decision # "capacity_exceeded" /\ \A c \in Hot : ~(placed[c].unplaced > 0)
      BY <1>5, <2>1 DEF AllOnCPU
    <2> QED
      BY <2>2, <2>3 DEF RefusedBytesFitNowhere
  <1>6. CASE Nowhere
    <2>1. \A c \in Hot : placed[c]["unplaced"] = request.bytes[c]
      BY <1>6, AllAlike
    <2>2. In("unplaced") = total
      BY <1>1, <2>1, OneTier
    <2>3. total > 0
      <3>1. "model_weights" \in Hot /\ request.bytes["model_weights"] # 0
        BY <1>6, Classes DEF Nowhere, Valid
      <3> QED
        BY <1>3, <3>1, Total
    <2>4. /\ ~Fits /\ plan.decision = "capacity_exceeded"
          /\ ~(request.acceleration /\ BestVRAM(host) > 0)
      BY <1>6 DEF Nowhere
    <2> QED
      BY <1>4, <2>2, <2>3, <2>4 DEF RefusedBytesFitNowhere
  <1>7. CASE Hybrid /\ class = 7
    <2>1. \A c \in Hot : Settled(c)
      <3>1. ASSUME NEW i \in 1..6
            PROVE  Settled(Order[i])
        BY <1>7 DEF Hybrid
      <3> QED
        BY <3>1, Classes
    <2>2. total = In("vram") + In("ram") + In("unplaced")
      BY <1>1, <2>1, Together
    <2>3. /\ ~Fits /\ \A c \in Hot : FitsNoMore(c)
          /\ In("vram") + left.vram = best /\ In("ram") + left.ram = usable
          /\ request.acceleration /\ BestVRAM(host) > 0
          /\ plan.decision = IF In("unplaced") > 0 THEN "capacity_exceeded" ELSE "hybrid_candidate"
      BY <1>7 DEF Hybrid
    <2>4. ASSUME In("unplaced") > 0
          PROVE  total > best
      <3>1. PICK c \in Hot : placed[c].unplaced > 0
        BY <1>1, <2>4, Amounts, OneTier
      <3>2. placed[c].unplaced \in Nat /\ placed[c].unplaced <= In("unplaced")
        <4> DEFINE f == [d \in Hot |-> placed[d]["unplaced"]]
        <4>1. f \in [Hot -> Nat] /\ f[c] = placed[c].unplaced
          BY <1>1, Amounts
        <4> HIDE DEF f
        <4>2. f[c] <= Sum(f)
          BY <4>1, Total
        <4> QED
          BY <1>1, <4>1, <4>2, Amounts DEF In, f
      <3>3. left.vram = 0 \/ placed[c].unplaced > left.vram
        BY <2>3, <3>1 DEF FitsNoMore
      <3> HIDE DEF total, best
      <3> QED
        BY <1>2, <1>3, <2>2, <2>3, <2>4, <3>2, <3>3
    <2>5. \A c \in Hot : placed[c].unplaced > 0 =>
            IF c \in Split THEN left = [vram |-> 0, ram |-> 0]
            ELSE placed[c].unplaced > left.vram /\ placed[c].unplaced > left.ram
      BY <2>3 DEF FitsNoMore
    <2>6. plan.decision = "capacity_exceeded" <=> In("unplaced") > 0
      BY <2>3
    <2> HIDE DEF total, best, usable
    <2> QED
      BY <1>4, <2>3, <2>4, <2>5, <2>6 DEF RefusedBytesFitNowhere, total, best, usable
  <1> QED
    BY <1>1, <1>5, <1>6, <1>7 DEF Stages

(* Every byte of a hot class is in exactly one place of the plan, and a      *)
(* class that must not be split is in one tier, whatever the request.        *)
THEOREM PlacedOnce == Spec => []EveryByteOnce
  BY SettledIsPlaced, Invariant, PTL

(* No tier is given more than it has and the reserve stays free, whatever    *)
(* the request, unless the CPU-only decision rests on a sum that wrapped;     *)
(* NVMe takes what it was allowed.                                            *)
THEOREM TiersAreBounded == Spec => []TiersHold
  BY TiersAreFilled, Invariant, PTL

(* A plan says capacity_exceeded exactly if a hot byte found no place, never  *)
(* for a working set that one tier holds, and nothing a hybrid plan left out  *)
(* would fit into the room that remains.                                      *)
THEOREM RefusalIsHonest == Spec => []RefusedBytesFitNowhere
  BY RefusedForCause, Invariant, PTL
=============================================================================
