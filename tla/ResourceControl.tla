--------------------------- MODULE ResourceControl ---------------------------
(***************************************************************************)
(* Host calibration: POST /v1/host/calibrate (internal/httpapi), the       *)
(* Manager that serialises calibrations and keeps the last one             *)
(* (internal/resourcecontrol), and the worker sweep (internal/calibration).*)
(*                                                                         *)
(* Covered: concurrent requests queueing on calibrationMu, which does not  *)
(* heed their contexts; a context ending (3 s deadline, client gone) while *)
(* queued, between two measurements or inside one; the result stored for   *)
(* /v1/host and /v1/placement.                                             *)
(*                                                                         *)
(* Abstracted: throughput is a small number, 0 meaning nothing measured;   *)
(* the measuring goroutines of one candidate are one step.                 *)
(***************************************************************************)
EXTENDS Naturals, Sequences

CONSTANTS
  Callers,     \* concurrent requests
  Candidates,  \* how many worker counts the sweep tries
  MaxRate,     \* bound: throughput
  MaxRuns,     \* bound: calibrations requested
  None         \* no result, no holder

ASSUME CallersAssumption == None \notin Callers
ASSUME SweepAssumption == Candidates \in Nat \ {0} /\ MaxRate \in Nat \ {0}
ASSUME RunsAssumption == MaxRuns \in Nat

VARIABLES
  pc,        \* where each handler is
  ctx,       \* its context, started before it queues
  mutex,     \* holder of calibrationMu
  result,    \* the result each handler is building
  last,      \* Manager.last
  requested, \* calibrations requested
  started    \* calibrations started, which numbers them

vars == <<pc, ctx, mutex, result, last, requested, started>>

-----------------------------------------------------------------------------
Rates   == 0..MaxRate
Sample  == [copy : Rates, read : Rates]
Results == [run : 0..MaxRuns, best : 0..Candidates, samples : Seq(Sample)]
Empty   == [run |-> 0, best |-> 0, samples |-> <<>>]

Init ==
  /\ pc = [c \in Callers |-> "idle"]
  /\ ctx = [c \in Callers |-> "ended"]
  /\ mutex = None
  /\ result = [c \in Callers |-> Empty]
  /\ last = None
  /\ requested = 0
  /\ started = 0

-----------------------------------------------------------------------------
(* handleHostCalibration: the deadline runs from here on.                    *)
Request(c) ==
  /\ pc[c] = "idle"
  /\ requested < MaxRuns
  /\ requested' = requested + 1
  /\ pc' = [pc EXCEPT ![c] = "queued"]
  /\ ctx' = [ctx EXCEPT ![c] = "live"]
  /\ UNCHANGED <<mutex, result, last, started>>

ContextEnds(c) ==
  /\ pc[c] # "idle"
  /\ ctx[c] = "live"
  /\ ctx' = [ctx EXCEPT ![c] = "ended"]
  /\ UNCHANGED <<pc, mutex, result, last, requested, started>>

(* calibrationMu.Lock: whatever has become of the context.                   *)
Lock(c) ==
  /\ pc[c] = "queued"
  /\ mutex = None
  /\ mutex' = c
  /\ started' = started + 1
  /\ result' = [result EXCEPT ![c] = [Empty EXCEPT !.run = started']]
  /\ pc' = [pc EXCEPT ![c] = "sweep"]
  /\ UNCHANGED <<ctx, last, requested>>

Score(sample) == IF sample.copy < sample.read THEN sample.copy ELSE sample.read

(* Mutant: of equally fast candidates the last one wins.                     *)
LastOfTheBest(r, sample) ==
  LET bestScore == IF r.best = 0 THEN 0 ELSE Score(r.samples[r.best])
  IN  IF Score(sample) > 0 /\ Score(sample) >= bestScore
      THEN Len(r.samples) + 1 ELSE r.best

Best(r, sample) ==
  LET bestScore == IF r.best = 0 THEN 0 ELSE Score(r.samples[r.best])
  IN  IF Score(sample) > bestScore THEN Len(r.samples) + 1 ELSE r.best

Add(r, sample) ==
  [r EXCEPT !.samples = Append(@, sample), !.best = Best(r, sample)]

(* measureParallelCopy and measureParallelRead of one candidate: full while   *)
(* the context lives, cut short if it ends meanwhile, nothing afterwards.     *)
Measures(before, after) ==
  CASE before = "ended" -> {[copy |-> 0, read |-> 0]}
    [] after = "live"   -> [copy : Rates \ {0}, read : Rates \ {0}]
    [] OTHER            -> [copy : Rates, read : {0}]
                             \cup [copy : Rates \ {0}, read : Rates]

Measuring(c, enough) ==
  /\ pc[c] = "sweep"
  /\ ctx' \in {ctx, [ctx EXCEPT ![c] = "ended"]}
  /\ \E sample \in Measures(ctx[c], ctx'[c]) :
       result' = [result EXCEPT ![c] = Add(@, sample)]
  /\ pc' = IF enough \/ ctx'[c] = "ended"
           THEN [pc EXCEPT ![c] = "store"] ELSE pc
  /\ UNCHANGED <<last, requested, started>>

(* Mutant: the mutex covers the sweep and not the storing of its result.     *)
MeasureThenUnlock(c) ==
  /\ Measuring(c, Len(result[c].samples) + 1 = Candidates)
  /\ mutex' = IF pc'[c] = "store" THEN None ELSE mutex

MeasureCandidate(c) ==
  Measuring(c, Len(result[c].samples) + 1 = Candidates) /\ UNCHANGED mutex

Store(c) ==
  /\ pc[c] = "store"
  /\ last' = result[c]
  /\ pc' = [pc EXCEPT ![c] = "unlock"]
  /\ UNCHANGED <<ctx, mutex, result, requested, started>>

(* Mutant: the mutex is not released when the context has ended.             *)
ReplyIfLive(c) ==
  /\ pc[c] = "unlock"
  /\ mutex' = IF ctx[c] = "live" THEN None ELSE mutex
  /\ pc' = [pc EXCEPT ![c] = "idle"]
  /\ ctx' = [ctx EXCEPT ![c] = "ended"]
  /\ result' = [result EXCEPT ![c] = Empty]
  /\ UNCHANGED <<last, requested, started>>

(* The deferred Unlock, and the reply of the handler.                        *)
Reply(c) ==
  /\ pc[c] = "unlock"
  /\ mutex' = None
  /\ pc' = [pc EXCEPT ![c] = "idle"]
  /\ ctx' = [ctx EXCEPT ![c] = "ended"]
  /\ result' = [result EXCEPT ![c] = Empty]
  /\ UNCHANGED <<last, requested, started>>

Run(c) == MeasureCandidate(c) \/ Store(c) \/ Reply(c)

Next == \E c \in Callers : Request(c) \/ ContextEnds(c) \/ Lock(c) \/ Run(c)

Spec == Init /\ [][Next]_vars

(* A sweep always advances; sync.Mutex hands itself over in the order of     *)
(* arrival once somebody has waited for a millisecond.                       *)
FairSpec == Spec /\ \A c \in Callers : WF_vars(Run(c)) /\ SF_vars(Lock(c))

-----------------------------------------------------------------------------
\* Every variable keeps its type.
TypeOK ==
  /\ pc \in [Callers -> {"idle", "queued", "sweep", "store", "unlock"}]
  /\ ctx \in [Callers -> {"live", "ended"}]
  /\ mutex \in Callers \cup {None}
  /\ result \in [Callers -> Results]
  /\ \A c \in Callers : Len(result[c].samples) <= Candidates
  /\ last \in Results \cup {None}
  /\ requested \in 0..MaxRuns
  /\ started \in 0..requested

(* Whatever requests overlap, /v1/host and /v1/placement never fall back to   *)
(* an older calibration than the one they have seen (manager.go:28-35).        *)
LastIsNewest ==
  [][last # None => last'.run >= last.run]_vars

(* The recommended worker count is the smallest of those with the best worst   *)
(* throughput, and there is none exactly if nothing was measured, wherever     *)
(* the sweep was cut (calibration.go:56-76).                                   *)
BestIsFastest ==
  last # None =>
    LET scores == [i \in DOMAIN last.samples |-> Score(last.samples[i])]
    IN  IF last.best = 0
        THEN \A i \in DOMAIN scores : scores[i] = 0
        ELSE /\ scores[last.best] > 0
             /\ \A i \in DOMAIN scores :
                  /\ scores[i] <= scores[last.best]
                  /\ i < last.best => scores[i] < scores[last.best]

(* Every request is answered, those queued behind others included              *)
(* (manager.go:28-36).                                                         *)
EveryRequestAnswered == \A c \in Callers : pc[c] = "queued" ~> pc[c] = "idle"
=============================================================================
