---------------------------- MODULE LifecycleProofs ----------------------------
(***************************************************************************)
(* Proofs about Lifecycle for any clients, calibrations and timeouts that  *)
(* satisfy its assumptions: the calibrations of the service are those of   *)
(* ResourceControl, a clean exit hides nothing, and a failed Shutdown cuts *)
(* no probe, no native request that has been read, and a calibration only  *)
(* out of a queue too long for the time that is left.                      *)
(***************************************************************************)
EXTENDS Lifecycle, FiniteSetTheorems, TLAPS

(* ResourceControl once more, with what is proved about it.                  *)
Manager == INSTANCE ResourceControlProofs

-----------------------------------------------------------------------------
LEMMA SameNext == Calibration!Next = Manager!Next
  BY DEF Calibration!Next, Calibration!Request, Calibration!ContextEnds, Calibration!Lock,
         Calibration!Run, Calibration!MeasureCandidate, Calibration!Measuring,
         Calibration!Measures, Calibration!Rates, Calibration!Add, Calibration!Best,
         Calibration!Score, Calibration!Store, Calibration!Reply, Calibration!Empty,
         Manager!Next, Manager!Request, Manager!ContextEnds, Manager!Lock, Manager!Run,
         Manager!MeasureCandidate, Manager!Measuring, Manager!Measures, Manager!Rates,
         Manager!Add, Manager!Best, Manager!Score, Manager!Store, Manager!Reply,
         Manager!Empty

LEMMA SameInit == Calibration!Init = Manager!Init
  BY DEF Calibration!Init, Calibration!Empty, Manager!Init, Manager!Empty

LEMMA SameType ==
  /\ Calibration!TypeOK <=> Manager!TypeOK
  /\ Calibration!TypeOK' <=> Manager!TypeOK'
  BY DEF Calibration!TypeOK, Calibration!Results, Calibration!Sample, Calibration!Rates,
         Manager!TypeOK, Manager!Results, Manager!Sample, Manager!Rates

(* The inductive invariant of the calibrations holds here too.               *)
LEMMA CalibrationInvariant ==
  /\ Calibration!Init => Manager!IInv
  /\ Manager!IInv /\ (Calibration!Next \/ UNCHANGED Calibration!vars) => Manager!IInv'
  <1>1. Manager!Init => Manager!IInv
    BY Manager!InitInvariant, CalibrationAssumption, NoneAssumption
  <1>2. Manager!IInv /\ [Manager!Next]_(Manager!vars) => Manager!IInv'
    BY Manager!NextInvariant, CalibrationAssumption, NoneAssumption
  <1>3. UNCHANGED Calibration!vars => UNCHANGED Manager!vars
    BY DEF Calibration!vars, Manager!vars
  <1> QED
    BY <1>1, <1>2, <1>3, SameInit, SameNext

(* Every step of the process is one of the calibrations, or not theirs.      *)
LEMMA CalibrationStep ==
  [Next]_vars => Calibration!Next \/ UNCHANGED Calibration!vars
  <1> SUFFICES ASSUME [Next]_vars, ~UNCHANGED Calibration!vars
               PROVE  Calibration!Next
    OBVIOUS
  <1> USE DEF Calibration!vars
  <1>1. ~Main
    BY DEF Main, Start, SelectServe, SelectSignal, ShutdownReturns, ShutdownExpires, Drain,
           calibration, manager
  <1>2. ~(Listen \/ ListenerClosed \/ AcceptFails \/ Signal \/ Tick \/ UNCHANGED vars)
    BY DEF Listen, ListenerClosed, AcceptFails, Signal, Tick, calibration, manager, vars
  <1>3. ~\E r \in Clients : Client(r) \/ Expires(r)
    BY DEF Client, Arrive, BodyArrives, BackendAnswers, CopyEnds, ClientStalls, ClientReads,
           ClientLeaves, Expires, Step, calibration, manager
  <1>4. PICK c \in Callers : Calibrate(c) \/ CalibrationEnds(c) \/ Locks(c) \/ Calibrates(c)
    BY <1>1, <1>2, <1>3 DEF Next
  <1> QED
    BY <1>4 DEF Calibrate, CalibrationEnds, Locks, Calibrates, Calibration!Next

(* The calibrations of the process are those of ResourceControl, whatever    *)
(* the process, its clock and its other requests do.                         *)
THEOREM CalibrationsRun == Spec => Calibration!Spec
  <1>1. Init => Calibration!Init
    BY DEF Init
  <1>2. [Next]_vars => [Calibration!Next]_(Calibration!vars)
    BY CalibrationStep
  <1> QED
    BY <1>1, <1>2, PTL DEF Spec, Calibration!Spec

-----------------------------------------------------------------------------
(* The inductive invariant.                                                  *)
Clocks ==
  /\ \A c \in Callers : /\ left[c] \in Nat
                        /\ ctx[c] = "live" => left[c] <= ShortTimeout
                        /\ Overdue(c) => left[c] <= Overrun
  /\ \A r \in Clients : due[r] \in Nat /\ due[r] <= ShortTimeout + UpstreamTimeout
  /\ \A r \in Clients : kind[r] = "probe" => due[r] <= ShortTimeout
  /\ timer \in 0..ShutdownTimeout

(* A client that asked for nothing has no handler; a probe reads no body and *)
(* copies nothing; a native request does nothing but read its body.          *)
Phases ==
  \A r \in Clients :
    /\ kind[r] = None => phase[r] = "none"
    /\ kind[r] = "probe" => phase[r] \notin {"body", "copy", "stuck"}
    /\ kind[r] = "native" => phase[r] \notin {"call", "copy", "stuck"}

(* While Shutdown waits, whatever is short has less time left than it.       *)
LessThanShutdown ==
  stage = "shutdown" =>
    /\ \A c \in Callers : pc[c] # "idle" /\ ctx[c] = "live" => left[c] < timer
    /\ \A r \in Clients : kind[r] = "probe" /\ phase[r] = "call" => due[r] < timer

(* What the calibrations in flight still take once the last deadline has     *)
(* passed: an overrun each, less what the holder of the mutex has had of it. *)
Cost(k) == k * Overrun

Paid ==
  IF mutex = None THEN 0
  ELSE IF pc[mutex] # "sweep" THEN Overrun
  ELSE IF ctx[mutex] = "live" THEN 0 ELSE Overrun - left[mutex]

Work == Cost(Cardinality(Calibrating)) - Paid

Short(k, t) == ShortTimeout + k < t

(* Unless too many queue, the queue is served before Shutdown gives up.      *)
Fits == Grace + ShortTimeout + Cost(crowd) <= ShutdownTimeout

Queue ==
  stage = "shutdown" /\ Fits =>
    \A c \in Calibrating : /\ Work < timer
                           /\ ctx[c] = "live" => left[c] + Work < timer

Leaving ==
  /\ exit # None <=> stage = "exited"
  /\ stage = "drain" => InFlight = {}
  /\ CleanExitHidesNothing
  /\ ShortRequestsSurvive

IInv ==
  Manager!IInv /\ TypeOK /\ Clocks /\ Phases /\ LessThanShutdown /\ Queue /\ Leaving

LEMMA Durations ==
  /\ ShutdownTimeout \in Nat /\ ShortTimeout \in Nat /\ UpstreamTimeout \in Nat
  /\ ShutdownTimeout # 0 /\ ShortTimeout # 0 /\ UpstreamTimeout # 0
  /\ Grace \in Nat /\ Grace # 0 /\ Grace + ShortTimeout < ShutdownTimeout
  /\ Overrun \in Nat
  /\ ShortTimeout < ShutdownTimeout
  /\ \A n \in Nat : n <= ShortTimeout + UpstreamTimeout \/ n <= ShutdownTimeout
                     => n \in Ticks
  /\ {0, ShortTimeout, UpstreamTimeout, ShutdownTimeout, Overrun} \subseteq Ticks
  /\ Ticks \subseteq Nat
  BY TimeoutsAssumption DEF Ticks, Longest

(* An overrun each, for any number of calibrations.                          *)
LEMMA CostGrows ==
  /\ \A k \in Nat : Cost(k) \in Nat /\ Cost(k + 1) = Cost(k) + Overrun
  /\ \A j, k \in Nat : j <= k => Cost(j) <= Cost(k)
  <1>1. \A k \in Nat : Cost(k) \in Nat /\ Cost(k + 1) = Cost(k) + Overrun
    BY Durations DEF Cost
  <1>2. ASSUME NEW j \in Nat, NEW k \in Nat, j <= k PROVE Cost(j) <= Cost(k)
    <2>1. PICK d \in Nat : k = j + d
      BY <1>2
    <2>2. Cost(k) = Cost(j) + Cost(d)
      BY <2>1, Durations DEF Cost
    <2> QED
      BY <1>1, <2>2
  <1> QED
    BY <1>1, <1>2

(* Work that fits leaves time for one that has its deadline before it.       *)
LEMMA Slack ==
  ASSUME NEW w \in Int, NEW k \in Nat, NEW t \in Int,
         w <= k, Short(k, t)
  PROVE  w < t /\ \A n \in Nat : n <= ShortTimeout => n + w < t
  BY Durations DEF Short

LEMMA CrowdIsFinite == IsFiniteSet(Calibrating) /\ Cardinality(Calibrating) \in Nat
  BY FS_Subset, FS_CardinalityType, ClientsAssumption DEF Calibrating

(* What the invariant says of the calibrations' types and of the mutex.      *)
LEMMA Holder ==
  ASSUME IInv
  PROVE  /\ pc \in [Callers -> {"idle", "queued", "sweep", "store", "unlock"}]
         /\ ctx \in [Callers -> {"live", "ended"}]
         /\ left \in [Callers -> Nat]
         /\ mutex \in Callers \cup {None}
         /\ \A c \in Callers : pc[c] \in {"sweep", "store", "unlock"} <=> mutex = c
         /\ Paid \in 0..Overrun
         /\ Work \in Int
  <1>1. /\ pc \in [Callers -> {"idle", "queued", "sweep", "store", "unlock"}]
        /\ ctx \in [Callers -> {"live", "ended"}]
        /\ mutex \in Callers \cup {None}
        /\ \A c \in Callers : pc[c] \in {"sweep", "store", "unlock"} <=> mutex = c
    BY DEF IInv, Manager!IInv, Manager!TypeOK, Manager!Exclusive, Manager!Busy
  <1>2. left \in [Callers -> Nat]
    BY Durations DEF IInv, TypeOK
  <1>3. Paid \in 0..Overrun
    BY <1>1, <1>2, Durations DEF IInv, Clocks, Overdue, Paid
  <1>4. Work \in Int
    BY <1>3, CostGrows, CrowdIsFinite, Durations DEF Work
  <1> QED
    BY <1>1, <1>2, <1>3, <1>4

(* The type of what the process adds to the calibrations.                    *)
LEMMA StateType ==
  ASSUME TypeOK
  PROVE  /\ pc \in [Callers -> {"idle", "queued", "sweep", "store", "unlock"}]
         /\ ctx \in [Callers -> {"live", "ended"}]
         /\ left \in [Callers -> Ticks] /\ due \in [Clients -> Ticks] /\ timer \in Ticks
         /\ kind \in [Clients -> {None, "probe", "native", "relay"}]
         /\ phase \in [Clients -> {"none", "answered", "gone"} \cup Open]
         /\ crowd \in Nat
  BY DEF TypeOK, Calibration!TypeOK

-----------------------------------------------------------------------------
(* What a step of the calibrations leaves as it was, unless one is asked for. *)
LEMMA CalibrationsProceed ==
  ASSUME Manager!IInv,
         NEW c \in Callers,
         Calibration!ContextEnds(c) \/ Calibration!Lock(c) \/ Calibration!Run(c)
  PROVE  \A d \in Callers :
           /\ pc[d] = "idle" => pc'[d] = "idle"
           /\ pc'[d] # "idle" /\ ctx'[d] = "live" => pc[d] # "idle" /\ ctx[d] = "live"
  <1>1. /\ pc \in [Callers -> {"idle", "queued", "sweep", "store", "unlock"}]
        /\ ctx \in [Callers -> {"live", "ended"}]
    BY DEF Manager!IInv, Manager!TypeOK
  <1>2. CASE Calibration!ContextEnds(c)
    BY <1>1, <1>2 DEF Calibration!ContextEnds
  <1>3. CASE Calibration!Lock(c)
    BY <1>1, <1>3 DEF Calibration!Lock
  <1>4. CASE Calibration!MeasureCandidate(c)
    <2>1. /\ pc[c] = "sweep"
          /\ ctx' = ctx \/ ctx' = [ctx EXCEPT ![c] = "ended"]
          /\ pc' = pc \/ pc' = [pc EXCEPT ![c] = "store"]
      BY <1>4 DEF Calibration!MeasureCandidate, Calibration!Measuring
    <2> QED
      BY <1>1, <2>1
  <1>5. CASE Calibration!Store(c) \/ Calibration!Reply(c)
    BY <1>1, <1>5 DEF Calibration!Store, Calibration!Reply
  <1> QED
    BY <1>2, <1>3, <1>4, <1>5 DEF Calibration!Run

(* A step of a calibration never adds to the work that is left: a context     *)
(* that ends costs the overrun already counted, an answer ends one that the  *)
(* holder has paid.                                                          *)
LEMMA WorkShrinks ==
  ASSUME IInv,
         NEW c \in Callers,
         CalibrationEnds(c) \/ Locks(c) \/ Calibrates(c)
  PROVE  /\ Calibrating' \subseteq Calibrating
         /\ Work' \in Int /\ Work' <= Work
  <1>1. /\ pc \in [Callers -> {"idle", "queued", "sweep", "store", "unlock"}]
        /\ ctx \in [Callers -> {"live", "ended"}]
        /\ left \in [Callers -> Nat]
        /\ mutex \in Callers \cup {None}
        /\ \A d \in Callers : pc[d] \in {"sweep", "store", "unlock"} <=> mutex = d
        /\ Paid \in 0..Overrun
        /\ None \notin Callers
        /\ Overrun \in Nat
    BY Holder, NoneAssumption, Durations
  <1>2. /\ left' = Remaining
        /\ Calibration!ContextEnds(c) \/ Calibration!Lock(c) \/ Calibration!Run(c)
    BY DEF CalibrationEnds, Locks, Calibrates
  <1>3. ASSUME Calibrating' = Calibrating, Paid' \in Nat, Paid <= Paid'
        PROVE  Work' \in Int /\ Work' <= Work
    <2>1. /\ Cost(Cardinality(Calibrating)) \in Nat
          /\ Work = Cost(Cardinality(Calibrating)) - Paid
      BY CrowdIsFinite, CostGrows DEF Work
    <2>2. Work' = Cost(Cardinality(Calibrating)) - Paid'
      BY <1>3 DEF Work, Cost
    <2> QED
      BY <1>1, <1>3, <2>1, <2>2
  <1>4. CASE Calibration!ContextEnds(c)
    <2>1. /\ pc' = pc /\ mutex' = mutex /\ pc[c] # "idle" /\ ctx[c] = "live"
          /\ ctx' = [ctx EXCEPT ![c] = "ended"]
      BY <1>4 DEF Calibration!ContextEnds
    <2>2. Calibrating' = Calibrating
      BY <2>1 DEF Calibrating
    <2>3. CASE mutex = c /\ pc[c] = "sweep"
      <3>1. left'[c] = Overrun
        BY <1>1, <1>2, <2>1, <2>3 DEF Remaining, Overdue
      <3>2. Paid = 0 /\ Paid' = 0
        BY <1>1, <2>1, <2>3, <3>1 DEF Paid
      <3> QED
        BY <1>3, <2>2, <3>2
    <2>4. CASE mutex # None /\ mutex # c /\ pc[mutex] = "sweep" /\ ctx[mutex] = "ended"
      <3>1. left'[mutex] = left[mutex]
        BY <1>1, <1>2, <2>1, <2>4 DEF Remaining, Overdue
      <3>2. Paid' = Paid
        BY <1>1, <2>1, <2>4, <3>1 DEF Paid
      <3> QED
        BY <1>1, <1>3, <2>2, <3>2
    <2>5. CASE mutex = None \/ pc[mutex] # "sweep" \/ (mutex # c /\ ctx[mutex] = "live")
      <3>1. Paid' = Paid
        BY <1>1, <2>1, <2>5 DEF Paid
      <3> QED
        BY <1>1, <1>3, <2>2, <3>1
    <2> QED
      BY <1>1, <2>1, <2>2, <2>3, <2>4, <2>5
  <1>5. CASE Calibration!Lock(c)
    <2>1. /\ pc[c] = "queued" /\ pc' = [pc EXCEPT ![c] = "sweep"]
          /\ mutex = None /\ mutex' = c /\ ctx' = ctx
      BY <1>5 DEF Calibration!Lock
    <2>2. Calibrating' = Calibrating
      BY <1>1, <2>1 DEF Calibrating
    <2>3. ctx[c] = "ended" => left'[c] = Overrun
      BY <1>1, <1>2, <2>1 DEF Remaining, Overdue
    <2>4. Paid = 0 /\ Paid' = 0
      BY <1>1, <2>1, <2>3 DEF Paid
    <2> QED
      BY <1>3, <2>2, <2>4
  <1>6. CASE Calibration!MeasureCandidate(c)
    <2>1. /\ pc[c] = "sweep" /\ mutex' = mutex
          /\ ctx' = ctx \/ ctx' = [ctx EXCEPT ![c] = "ended"]
          /\ pc' = [pc EXCEPT ![c] = "store"] \/ (pc' = pc /\ ctx'[c] # "ended")
      BY <1>6 DEF Calibration!MeasureCandidate, Calibration!Measuring
    <2>2. Calibrating' = Calibrating
      BY <1>1, <2>1 DEF Calibrating
    <2>3. mutex = c
      BY <1>1, <2>1
    <2>4. CASE pc' = [pc EXCEPT ![c] = "store"]
      <3>1. Paid' = Overrun
        BY <1>1, <2>1, <2>3, <2>4 DEF Paid
      <3> QED
        BY <1>1, <1>3, <2>2, <3>1
    <2>5. CASE pc' = pc /\ ctx'[c] # "ended"
      <3>1. ctx[c] = "live" /\ ctx'[c] = "live"
        BY <1>1, <2>1, <2>5
      <3>2. Paid = 0 /\ Paid' = 0
        BY <1>1, <2>1, <2>3, <2>5, <3>1 DEF Paid
      <3> QED
        BY <1>3, <2>2, <3>2
    <2> QED
      BY <2>1, <2>2, <2>4, <2>5
  <1>7. CASE Calibration!Store(c)
    <2>1. /\ pc[c] = "store" /\ pc' = [pc EXCEPT ![c] = "unlock"]
          /\ mutex' = mutex /\ ctx' = ctx
      BY <1>7 DEF Calibration!Store
    <2>2. Calibrating' = Calibrating
      BY <1>1, <2>1 DEF Calibrating
    <2>3. mutex = c
      BY <1>1, <2>1
    <2>4. Paid = Overrun /\ Paid' = Overrun
      BY <1>1, <2>1, <2>3 DEF Paid
    <2> QED
      BY <1>1, <1>3, <2>2, <2>4
  <1>8. CASE Calibration!Reply(c)
    <2>1. /\ pc[c] = "unlock" /\ pc' = [pc EXCEPT ![c] = "idle"] /\ mutex' = None
      BY <1>8 DEF Calibration!Reply
    <2>2. Calibrating' = Calibrating \ {c} /\ c \in Calibrating
      BY <1>1, <2>1 DEF Calibrating
    <2>3. Paid = Overrun /\ Paid' = 0
      BY <1>1, <2>1 DEF Paid
    <2>4. /\ Cardinality(Calibrating') = Cardinality(Calibrating) - 1
          /\ Cardinality(Calibrating') \in Nat
      <3>1. Cardinality(Calibrating \ {c}) = Cardinality(Calibrating) - 1
        BY <2>2, CrowdIsFinite, FS_RemoveElement
      <3>2. Cardinality(Calibrating \ {c}) \in Nat
        BY CrowdIsFinite, FS_RemoveElement, FS_CardinalityType
      <3> QED
        BY <2>2, <3>1, <3>2
    <2>5. Cost(Cardinality(Calibrating)) = Cost(Cardinality(Calibrating')) + Overrun
      <3> DEFINE k == Cardinality(Calibrating')
      <3>1. k \in Nat /\ Cardinality(Calibrating) = k + 1
        BY <2>4, CrowdIsFinite
      <3> HIDE DEF k
      <3>2. Cost(k + 1) = Cost(k) + Overrun
        BY <3>1, CostGrows
      <3> QED
        BY <3>1, <3>2 DEF k
    <2>6. Work' = Cost(Cardinality(Calibrating'))
      BY <2>3, <2>4, CostGrows DEF Work, Cost
    <2> QED
      BY <1>1, <2>2, <2>3, <2>4, <2>5, <2>6, CostGrows DEF Work
  <1> QED
    BY <1>2, <1>3, <1>4, <1>5, <1>6, <1>7, <1>8 DEF Calibration!Run

LEMMA InitInvariant == Init => IInv
  <1> SUFFICES ASSUME Init PROVE IInv
    OBVIOUS
  <1>1. Manager!IInv
    BY CalibrationInvariant DEF Init
  <1>2. Calibration!TypeOK
    BY <1>1, SameType DEF Manager!IInv
  <1>4. TypeOK
    BY <1>2, Durations DEF Init, TypeOK, Open
  <1>5. Clocks /\ Phases /\ LessThanShutdown /\ Queue
    <2>1. Clocks
      BY Durations DEF Init, Clocks, Overdue
    <2>2. Phases
      BY NoneAssumption DEF Init, Phases
    <2> QED
      BY <2>1, <2>2 DEF Init, LessThanShutdown, Queue
  <1>6. Leaving
    BY NoneAssumption DEF Init, Leaving, CleanExitHidesNothing, ShortRequestsSurvive
  <1> QED
    BY <1>1, <1>4, <1>5, <1>6 DEF IInv

(* What the steps of the process itself leave of the calibrations' invariant. *)
LEMMA CalibrationKept ==
  ASSUME IInv, UNCHANGED calibration
  PROVE  Manager!IInv' /\ Calibration!TypeOK'
  <1>1. Manager!IInv'
    BY CalibrationInvariant DEF IInv, calibration, manager, Calibration!vars
  <1> QED
    BY <1>1, SameType DEF Manager!IInv

(* Clocks and queue of the calibrations while nothing of theirs changes.     *)
LEMMA QueueKept ==
  ASSUME IInv, UNCHANGED calibration,
         stage' = "shutdown" => stage = "shutdown" /\ timer' = timer
  PROVE  Queue'
  <1>1. /\ Calibrating' = Calibrating /\ Work' = Work /\ Fits' = Fits
        /\ ctx' = ctx /\ left' = left
    BY DEF calibration, manager, Calibrating, Work, Paid, Fits, Cost
  <1> QED
    BY <1>1 DEF IInv, Queue

(* Steps of main and of the serving goroutine.                               *)
LEMMA ProcessInvariant ==
  ASSUME IInv, Main \/ Listen \/ ListenerClosed \/ AcceptFails \/ Signal
  PROVE  IInv'
  <1>c. UNCHANGED <<manager, left, relays>>
    BY DEF Main, Start, SelectServe, SelectSignal, ShutdownReturns, ShutdownExpires, Drain,
           Listen, ListenerClosed, AcceptFails, Signal, calibration
  <1>1. Manager!IInv' /\ Calibration!TypeOK'
    <2>1. Manager!IInv'
      BY <1>c, CalibrationInvariant DEF IInv, manager, Calibration!vars
    <2> QED
      BY <2>1, SameType DEF Manager!IInv
  <1>2. /\ UNCHANGED <<pc, ctx, mutex, left, kind, phase, due>>
        /\ InFlight' = InFlight /\ InFlight \subseteq Callers \cup Clients
    BY <1>c DEF manager, relays, InFlight, Calibrating
  <1>3. ShutdownTimeout \in Nat /\ ShutdownTimeout # 0 /\ ShortTimeout \in Nat
        /\ UpstreamTimeout \in Nat /\ ShortTimeout < ShutdownTimeout
    BY TimeoutsAssumption
  <1>4. timer' \in {timer, ShutdownTimeout}
    BY DEF Main, Start, SelectServe, SelectSignal, ShutdownReturns, ShutdownExpires, Drain,
           Listen, ListenerClosed, AcceptFails, Signal
  <1>5. Clocks' /\ Phases'
    BY <1>2, <1>4, Durations DEF IInv, Clocks, Overdue, Phases
  <1>6. TypeOK'
    <2>1. /\ timer' \in Ticks /\ left' \in [Callers -> Ticks] /\ due' \in [Clients -> Ticks]
          /\ kind' \in [Clients -> {None, "probe", "native", "relay"}]
          /\ phase' \in [Clients -> {"none", "answered", "gone"} \cup Open]
          /\ Open' = Open
      BY <1>2, <1>4, Durations, StateType DEF IInv, Open
    <2>3. crowd' \in Nat
      <3>1. crowd' = crowd \/ crowd' = Cardinality(Calibrating)
        BY DEF Main, Start, SelectServe, SelectSignal, ShutdownReturns, ShutdownExpires,
               Drain, Listen, ListenerClosed, AcceptFails, Signal, calibration
      <3> QED
        BY <3>1, CrowdIsFinite, StateType DEF IInv
    <2>2. /\ stage' \in {"start", "select", "shutdown", "drain", "exited"}
          /\ serve' \in {None, "starting", "listening", "closed", "failed"}
          /\ exit' \in {None, "bad_flag", "bad_configuration", "serve_failed",
                        "shutdown_failed", "stopped"}
          /\ cut' \subseteq Callers \cup Clients
      BY <1>2
      DEF IInv, TypeOK, Main, Start, SelectServe, SelectSignal, ShutdownReturns,
          ShutdownExpires, Drain, Listen, ListenerClosed, AcceptFails, Signal, Exit
    <2>4. opened' \in BOOLEAN /\ signalled' \in BOOLEAN
      BY Zenon
      DEF IInv, TypeOK, Main, Start, SelectServe, SelectSignal, ShutdownReturns,
          ShutdownExpires, Drain, Listen, ListenerClosed, AcceptFails, Signal, Exit
    <2> QED
      BY <1>1, <2>1, <2>2, <2>3, <2>4 DEF TypeOK
  <1>7. LessThanShutdown'
    <2>1. CASE SelectSignal
      BY <1>2, <2>1, Durations DEF IInv, Clocks, LessThanShutdown, SelectSignal
    <2>2. CASE stage' = "shutdown" => stage = "shutdown" /\ timer' = timer
      BY <1>2, <2>2 DEF IInv, LessThanShutdown
    <2> QED
      BY <2>1, <2>2
      DEF Main, Start, SelectServe, ShutdownReturns, ShutdownExpires, Drain, Listen,
          ListenerClosed, AcceptFails, Signal, Exit
  <1>9. Queue'
    <2>1. CASE SelectSignal
      <3>1. /\ timer' = ShutdownTimeout /\ crowd' = Cardinality(Calibrating)
            /\ Calibrating' = Calibrating
        BY <1>2, <2>1 DEF SelectSignal, Calibrating
      <3>2. Cost(crowd') \in Nat /\ Paid \in 0..Overrun
        BY <3>1, CrowdIsFinite, CostGrows, Holder
      <3>3. Work' = Cost(crowd') - Paid
        BY <1>2, <3>1 DEF Work, Paid, Cost
      <3>4. Fits' => Grace + ShortTimeout + Cost(crowd') <= ShutdownTimeout
        BY DEF Fits, Cost
      <3>5. Work' \in Int /\ Work' <= Cost(crowd')
        BY <3>2, <3>3, Durations
      <3>6. ASSUME Fits'
            PROVE  /\ Work' < timer'
                   /\ \A n \in Nat : n <= ShortTimeout => n + Work' < timer'
        <4>1. Short(Cost(crowd'), timer') /\ timer' \in Int
          BY <3>1, <3>2, <3>4, <3>6, Durations DEF Short
        <4> QED
          BY <3>2, <3>5, <4>1, Slack
      <3>7. \A c \in Calibrating : left[c] \in Nat /\ (ctx[c] = "live" => left[c] <= ShortTimeout)
        BY DEF IInv, Clocks, Calibrating
      <3> QED
        BY <1>2, <3>1, <3>6, <3>7 DEF Queue
    <2>2. CASE ~SelectSignal
      <3>1. UNCHANGED calibration
        BY <2>2 DEF Main, Start, SelectServe, ShutdownReturns, ShutdownExpires, Drain,
                    Listen, ListenerClosed, AcceptFails, Signal
      <3>2. stage' = "shutdown" => stage = "shutdown" /\ timer' = timer
        BY <2>2 DEF Main, Start, SelectServe, ShutdownReturns, ShutdownExpires, Drain,
                    Listen, ListenerClosed, AcceptFails, Signal, Exit
      <3> QED
        BY <3>1, <3>2, QueueKept
    <2> QED
      BY <2>1, <2>2
  <1>8. Leaving'
    <2>1. CASE ShutdownExpires
      <3>1. /\ stage' = "exited" /\ exit' = "shutdown_failed" /\ cut' = InFlight
            /\ stage = "shutdown" /\ timer = 0
        BY <2>1 DEF ShutdownExpires, Exit
      <3>2. ASSUME NEW c \in Calibrating
            PROVE  /\ ctx[c] = "ended"
                   /\ Grace + ShortTimeout + crowd * Overrun > ShutdownTimeout
        <4>1. ctx[c] = "ended"
          <5>1. pc[c] # "idle" /\ ctx[c] \in {"live", "ended"} /\ left[c] \in Nat
            BY <3>2, Holder DEF Calibrating
          <5>2. ctx[c] = "live" => left[c] < 0
            BY <3>1, <5>1 DEF IInv, LessThanShutdown, Calibrating
          <5> QED
            BY <5>1, <5>2
        <4>2. ~Fits
          <5>1. SUFFICES ASSUME Fits PROVE FALSE
            OBVIOUS
          <5>2. Work < 0
            BY <3>1, <3>2, <5>1 DEF IInv, Queue
          <5>3. Cardinality(Calibrating) \in Nat /\ Cardinality(Calibrating) # 0
            BY <3>2, CrowdIsFinite, FS_EmptySet
          <5>4. Cost(1) <= Cost(Cardinality(Calibrating)) /\ Cost(1) = Overrun
                /\ Cost(Cardinality(Calibrating)) \in Nat
            BY <5>3, CostGrows, Durations DEF Cost
          <5>5. Paid \in 0..Overrun
            BY Holder
          <5> QED
            BY <5>2, <5>4, <5>5, Durations DEF Work
        <4>3. Cost(crowd) \in Nat /\ Cost(crowd) = crowd * Overrun
          BY StateType, CostGrows DEF IInv, Cost
        <4> QED
          BY <4>1, <4>2, <4>3, Durations DEF Fits
      <3>3. ASSUME NEW r \in Clients, phase[r] \in Open
            PROVE  kind[r] = "relay" \/ (kind[r] = "native" /\ phase[r] = "body")
        <4>1. kind[r] \in {None, "probe", "native", "relay"} /\ due[r] \in Nat
          BY StateType DEF IInv, Clocks
        <4>2. kind[r] # None
          BY <3>3 DEF IInv, Phases, Open
        <4>3. /\ kind[r] = "probe" => phase[r] = "call"
              /\ kind[r] = "native" => phase[r] = "body"
          BY <3>3 DEF IInv, Phases, Open
        <4>4. kind[r] = "probe" /\ phase[r] = "call" => due[r] < 0
          BY <3>1 DEF IInv, LessThanShutdown
        <4> QED
          BY <4>1, <4>2, <4>3, <4>4
      <3>4. InFlight \cap Clients \subseteq {r \in Clients : phase[r] \in Open}
            /\ InFlight \ Clients \subseteq Calibrating
        BY ClientsAssumption DEF InFlight, Calibrating
      <3>5. /\ UNCHANGED <<ctx, kind, phase, crowd>>
        BY <2>1 DEF ShutdownExpires, calibration, manager, relays
      <3>6. ShortRequestsSurvive'
        BY <3>1, <3>2, <3>3, <3>4, <3>5 DEF ShortRequestsSurvive
      <3> QED
        BY <1>2, <3>1, <3>6, NoneAssumption DEF Leaving, CleanExitHidesNothing
    <2>2. CASE Drain
      BY <1>2, <2>2, NoneAssumption
      DEF IInv, Drain, Exit, Leaving, CleanExitHidesNothing, ShortRequestsSurvive
    <2>3. CASE ShutdownReturns \/ SelectSignal
      BY <1>2, <2>3, NoneAssumption
      DEF IInv, ShutdownReturns, SelectSignal, Leaving, CleanExitHidesNothing,
          ShortRequestsSurvive
    <2>4. CASE Start \/ SelectServe
      BY <1>2, <2>4, NoneAssumption
      DEF IInv, Start, SelectServe, Exit, Leaving, CleanExitHidesNothing,
          ShortRequestsSurvive
    <2>5. CASE Listen \/ ListenerClosed \/ AcceptFails \/ Signal
      BY <1>2, <2>5, NoneAssumption
      DEF IInv, Listen, ListenerClosed, AcceptFails, Signal, Running, Stopping, Leaving,
          CleanExitHidesNothing, ShortRequestsSurvive
    <2> QED
      BY <2>1, <2>2, <2>3, <2>4, <2>5 DEF Main
  <1> QED
    BY <1>1, <1>5, <1>6, <1>7, <1>8, <1>9 DEF IInv

(* A request for a calibration arrives only while Shutdown has more time left *)
(* than the calibration may take.                                            *)
LEMMA CalibrateInvariant ==
  ASSUME IInv, NEW c \in Callers, Calibrate(c)
  PROVE  IInv'
  <1>1. Manager!IInv' /\ Calibration!TypeOK'
    <2>1. Calibration!Next
      BY DEF Calibrate, Calibration!Next
    <2> QED
      BY <2>1, CalibrationInvariant, SameType DEF IInv, Manager!IInv
  <1>2. /\ UNCHANGED <<kind, phase, due, stage, serve, opened, signalled, timer, exit, cut>>
        /\ left' = [left EXCEPT ![c] = ShortTimeout]
        /\ pc[c] = "idle" /\ pc' = [pc EXCEPT ![c] = "queued"]
        /\ ctx' = [ctx EXCEPT ![c] = "live"] /\ mutex' = mutex
        /\ crowd' = Crowd(Cardinality(Calibrating) + 1)
        /\ stage = "select" \/ (stage = "shutdown" /\ timer + Grace > ShutdownTimeout)
    BY DEF Calibrate, Calibration!Request, relays, process, Accepting
  <1>3. /\ crowd \in Nat /\ crowd' \in Nat
        /\ stage = "shutdown" => Cardinality(Calibrating) + 1 <= crowd'
    BY <1>2, StateType, CrowdIsFinite DEF IInv, Crowd
  <1>4. /\ left \in [Callers -> Ticks] /\ timer \in Nat
        /\ pc \in [Callers -> {"idle", "queued", "sweep", "store", "unlock"}]
        /\ ctx \in [Callers -> {"live", "ended"}]
    BY StateType, Durations DEF IInv
  <1>5. TypeOK'
    <2>1. left' \in [Callers -> Ticks]
      BY <1>2, <1>4, Durations
    <2> QED
      BY <1>1, <1>2, <1>3, <2>1 DEF IInv, TypeOK, Open
  <1>6. Clocks' /\ Phases'
    BY <1>2, <1>4, Durations DEF IInv, Clocks, Overdue, Phases
  <1>7. LessThanShutdown'
    BY <1>2, <1>4, Durations DEF IInv, LessThanShutdown
  <1>9. Queue'
    <2> SUFFICES ASSUME stage = "shutdown", Fits' PROVE Queue'
      BY <1>2 DEF Queue
    <2>1. Calibrating' = Calibrating \cup {c} /\ c \notin Calibrating
      BY <1>2, <1>4 DEF Calibrating
    <2>2. /\ Cardinality(Calibrating \cup {c}) = Cardinality(Calibrating) + 1
          /\ Cardinality(Calibrating \cup {c}) \in Nat
      BY <2>1, CrowdIsFinite, FS_AddElement
    <2>3. Paid' = Paid /\ Paid \in 0..Overrun
      <3>1. mutex # c
        BY <1>2, Holder
      <3>2. mutex = None \/ (/\ pc'[mutex] = pc[mutex] /\ ctx'[mutex] = ctx[mutex]
                             /\ left'[mutex] = left[mutex])
        BY <1>2, <1>4, <3>1, Holder
      <3> QED
        BY <1>2, <3>2, Holder DEF Paid
    <2>4. Work' = Cost(Cardinality(Calibrating \cup {c})) - Paid
      BY <2>1, <2>3 DEF Work, Cost
    <2>5. /\ Cost(Cardinality(Calibrating \cup {c})) \in Nat /\ Cost(crowd') \in Nat
          /\ Cost(Cardinality(Calibrating \cup {c})) <= Cost(crowd')
      BY <1>3, <2>2, CostGrows
    <2>6. Work' \in Int /\ Work' <= Cost(crowd')
      BY <2>3, <2>4, <2>5, Durations
    <2>7. Grace + ShortTimeout + Cost(crowd') <= ShutdownTimeout
      BY DEF Fits, Cost
    <2>8. Short(Cost(crowd'), timer) /\ timer \in Int
      BY <1>2, <1>4, <2>5, <2>7, Durations DEF Short
    <2>9. Work' < timer /\ \A n \in Nat : n <= ShortTimeout => n + Work' < timer
      BY <2>5, <2>6, <2>8, Slack
    <2>10. \A d \in Callers : left'[d] \in Nat /\ (ctx'[d] = "live" => left'[d] <= ShortTimeout)
      BY <1>6 DEF Clocks
    <2>11. Calibrating' \subseteq Callers /\ timer' = timer
      BY <1>2 DEF Calibrating
    <2> QED
      BY <2>9, <2>10, <2>11 DEF Queue
  <1>8. Leaving'
    BY <1>2, NoneAssumption DEF IInv, Leaving, CleanExitHidesNothing, ShortRequestsSurvive
  <1> QED
    BY <1>1, <1>5, <1>6, <1>7, <1>8, <1>9 DEF IInv

(* The other steps of the calibrations let deadlines be.                     *)
LEMMA CalibrationsInvariant ==
  ASSUME IInv, NEW c \in Callers, CalibrationEnds(c) \/ Locks(c) \/ Calibrates(c)
  PROVE  IInv'
  <1>1. Manager!IInv' /\ Calibration!TypeOK'
    <2>1. Calibration!Next
      BY DEF CalibrationEnds, Locks, Calibrates, Calibration!Next
    <2> QED
      BY <2>1, CalibrationInvariant, SameType DEF IInv, Manager!IInv
  <1>2. /\ UNCHANGED <<kind, phase, due, stage, serve, opened, signalled, timer, exit, cut>>
        /\ left' = Remaining /\ crowd' = crowd
        /\ Calibration!ContextEnds(c) \/ Calibration!Lock(c) \/ Calibration!Run(c)
    BY DEF CalibrationEnds, Locks, Calibrates, relays, process
  <1>3. \A d \in Callers :
          /\ pc[d] = "idle" => pc'[d] = "idle"
          /\ pc'[d] # "idle" /\ ctx'[d] = "live" => pc[d] # "idle" /\ ctx[d] = "live"
    BY <1>2, CalibrationsProceed DEF IInv
  <1>5. TypeOK'
    <2>1. left' \in [Callers -> Ticks]
      BY <1>2, Durations, StateType DEF IInv, Remaining
    <2> QED
      BY <1>1, <1>2, <2>1 DEF IInv, TypeOK, Open
  <1>4. \A d \in Callers :
          /\ ctx'[d] = "live" => left'[d] = left[d]
          /\ Overdue(d)' => left'[d] = Overrun \/ (Overdue(d) /\ left'[d] = left[d])
          /\ left'[d] \in {left[d], Overrun, 0}
    <2>1. \A d \in Callers :
            left'[d] = IF ctx'[d] = "live" \/ (Overdue(d) /\ Overdue(d)') THEN left[d]
                       ELSE IF Overdue(d)' THEN Overrun ELSE 0
      BY <1>2 DEF Remaining
    <2>2. \A d \in Callers : Overdue(d)' => ctx'[d] = "ended"
      BY DEF Overdue
    <2> QED
      BY <2>1, <2>2
  <1>6. Clocks' /\ Phases'
    <2>1. Phases'
      BY <1>2 DEF IInv, Phases
    <2>2. ASSUME NEW d \in Callers
          PROVE  /\ left'[d] \in Nat
                 /\ ctx'[d] = "live" => left'[d] <= ShortTimeout
                 /\ Overdue(d)' => left'[d] <= Overrun
      <3>1. /\ ctx'[d] = "live" => ctx[d] = "live"
            /\ left[d] \in Nat /\ Overrun \in Nat
        BY <1>2, Holder, Durations
        DEF Calibration!ContextEnds, Calibration!Lock, Calibration!Run,
            Calibration!MeasureCandidate, Calibration!Measuring, Calibration!Store,
            Calibration!Reply
      <3> QED
        BY <1>4, <3>1 DEF IInv, Clocks
    <2>3. /\ timer' \in 0..ShutdownTimeout
          /\ \A r \in Clients : /\ due'[r] \in Nat /\ due'[r] <= ShortTimeout + UpstreamTimeout
                                /\ kind'[r] = "probe" => due'[r] <= ShortTimeout
      BY <1>2 DEF IInv, Clocks
    <2> QED
      BY <2>1, <2>2, <2>3 DEF Clocks
  <1>7. LessThanShutdown'
    BY <1>2, <1>3, <1>4 DEF IInv, LessThanShutdown
  <1>9. Queue'
    <2> SUFFICES ASSUME stage = "shutdown", Fits, NEW d \in Calibrating'
                 PROVE  /\ Work' < timer
                        /\ ctx'[d] = "live" => left'[d] + Work' < timer
      BY <1>2 DEF Queue, Fits, Cost
    <2>1. /\ Calibrating' \subseteq Calibrating /\ Calibrating \subseteq Callers
          /\ Work' \in Int /\ Work' <= Work
      BY WorkShrinks DEF Calibrating
    <2>2. d \in Calibrating /\ d \in Callers /\ pc'[d] # "idle"
      BY <2>1 DEF Calibrating
    <2>3. /\ Work \in Int /\ timer \in Nat /\ left[d] \in Nat
          /\ ctx'[d] = "live" => left'[d] = left[d] /\ ctx[d] = "live"
      BY <1>3, <1>4, <2>2, Holder, StateType, Durations DEF IInv
    <2>4. Work < timer /\ (ctx[d] = "live" => left[d] + Work < timer)
      BY <2>2 DEF IInv, Queue
    <2> QED
      BY <2>1, <2>3, <2>4
  <1>8. Leaving'
    <2>1. stage = "drain" => InFlight' = {}
      BY <1>2, <1>3 DEF IInv, Leaving, InFlight, Calibrating
    <2>2. stage # "exited"
      BY DEF CalibrationEnds, Locks, Calibrates, Running
    <2> QED
      BY <1>2, <2>1, <2>2, NoneAssumption
      DEF IInv, Leaving, CleanExitHidesNothing, ShortRequestsSurvive
  <1> QED
    BY <1>1, <1>5, <1>6, <1>7, <1>8, <1>9 DEF IInv

(* A request arrives only while Shutdown has more time left than a probe may *)
(* take.                                                                     *)
LEMMA ArriveInvariant ==
  ASSUME IInv, NEW r \in Clients, Arrive(r)
  PROVE  IInv'
  <1>1. Manager!IInv' /\ Calibration!TypeOK'
    BY CalibrationKept DEF Arrive
  <1>2. PICK k \in {"probe", "native", "relay"} :
          /\ kind' = [kind EXCEPT ![r] = k]
          /\ phase' = [phase EXCEPT ![r] = IF k = "probe" THEN "call" ELSE "body"]
          /\ due' = [due EXCEPT ![r] = Deadline(k)]
    BY DEF Arrive
  <1>d. /\ Deadline(k) \in {0, ShortTimeout, UpstreamTimeout}
        /\ k = "probe" => Deadline(k) = ShortTimeout
    BY <1>2 DEF Deadline
  <1>3. /\ UNCHANGED <<pc, ctx, mutex, left, crowd, stage, serve, opened, signalled, timer,
                       exit, cut>>
        /\ stage = "select" \/ (stage = "shutdown" /\ timer + Grace > ShutdownTimeout)
    BY DEF Arrive, Accepting, calibration, manager, process
  <1>4. /\ left \in [Callers -> Ticks] /\ due \in [Clients -> Ticks] /\ timer \in Ticks
        /\ kind \in [Clients -> {None, "probe", "native", "relay"}]
        /\ phase \in [Clients -> {"none", "answered", "gone"} \cup Open]
    BY StateType DEF IInv
  <1>5. TypeOK'
    <2>1. /\ due' \in [Clients -> Ticks]
          /\ kind' \in [Clients -> {None, "probe", "native", "relay"}]
          /\ phase' \in [Clients -> {"none", "answered", "gone"} \cup Open]
      BY <1>2, <1>4, <1>d, Durations DEF Open
    <2> QED
      BY <1>1, <1>3, <2>1 DEF IInv, TypeOK, Open
  <1>6. Clocks'
    <2>1. ASSUME NEW q \in Clients
          PROVE  /\ due'[q] \in Nat /\ due'[q] <= ShortTimeout + UpstreamTimeout
                 /\ kind'[q] = "probe" => due'[q] <= ShortTimeout
      BY <1>2, <1>4, <1>d, Durations DEF IInv, Clocks
    <2> QED
      BY <1>3, <2>1 DEF IInv, Clocks, Overdue
  <1>7. Phases'
    BY <1>2, <1>4, NoneAssumption DEF IInv, Phases
  <1>8. LessThanShutdown'
    <2>1. stage = "shutdown" => timer # 0 /\ ShortTimeout < timer
      BY <1>3, <1>4, Durations
    <2> QED
      BY <1>2, <1>3, <1>4, <1>d, <2>1 DEF IInv, LessThanShutdown
  <1>q. Queue'
    BY <1>3, QueueKept DEF Arrive
  <1>9. Leaving'
    BY <1>3, NoneAssumption DEF IInv, Leaving, CleanExitHidesNothing, ShortRequestsSurvive
  <1> QED
    BY <1>1, <1>5, <1>6, <1>7, <1>8, <1>q, <1>9 DEF IInv

(* A handler moves on, a probe and a native request only to its answer.      *)
LEMMA StepInvariant ==
  ASSUME IInv, NEW r \in Clients, NEW from \in SUBSET Open,
         NEW to \in {"answered", "gone"} \cup Open,
         Step(r, from, to),
         kind[r] \in {"probe", "native"} => to \in {"answered", "gone"}
  PROVE  IInv'
  <1>1. Manager!IInv' /\ Calibration!TypeOK'
    BY CalibrationKept DEF Step
  <1>2. /\ UNCHANGED <<pc, ctx, mutex, left, crowd, kind, due, stage, serve, opened,
                       signalled, timer, exit, cut>>
        /\ phase[r] \in Open /\ phase' = [phase EXCEPT ![r] = to]
        /\ stage \notin {"start", "exited"}
    BY DEF Step, Running, calibration, manager, process
  <1>3. phase \in [Clients -> {"none", "answered", "gone"} \cup Open]
    BY StateType DEF IInv
  <1>4. TypeOK'
    <2>1. phase' \in [Clients -> {"none", "answered", "gone"} \cup Open]
      BY <1>2, <1>3
    <2> QED
      BY <1>1, <1>2, <2>1 DEF IInv, TypeOK, Open
  <1>5. Clocks'
    BY <1>2 DEF IInv, Clocks, Overdue
  <1>6. Phases'
    BY <1>2, <1>3 DEF IInv, Phases, Open
  <1>7. LessThanShutdown'
    BY <1>2, <1>3 DEF IInv, LessThanShutdown
  <1>q. Queue'
    BY <1>2, QueueKept DEF Step
  <1>8. Leaving'
    <2>1. stage # "drain"
      <3>1. r \in InFlight
        BY <1>2 DEF InFlight
      <3> QED
        BY <3>1 DEF IInv, Leaving
    <2> QED
      BY <1>2, <2>1, NoneAssumption
      DEF IInv, Leaving, CleanExitHidesNothing, ShortRequestsSurvive
  <1> QED
    BY <1>1, <1>4, <1>5, <1>6, <1>7, <1>8, <1>q DEF IInv

LEMMA ClientInvariant ==
  ASSUME IInv, NEW r \in Clients, Client(r) \/ Expires(r)
  PROVE  IInv'
  <1>1. /\ kind[r] = "probe" => phase[r] \notin {"body", "copy", "stuck"}
        /\ kind[r] = "native" => phase[r] \notin {"call", "copy", "stuck"}
    BY DEF IInv, Phases
  <1>2. CASE Arrive(r)
    BY <1>2, ArriveInvariant
  <1>3. CASE BodyArrives(r)
    BY <1>1, <1>3, StepInvariant DEF BodyArrives, Step, Open
  <1>4. CASE BackendAnswers(r)
    BY <1>1, <1>4, StepInvariant DEF BackendAnswers, Step, Open
  <1>5. CASE CopyEnds(r)
    BY <1>1, <1>5, StepInvariant DEF CopyEnds, Open
  <1>6. CASE ClientStalls(r)
    BY <1>1, <1>6, StepInvariant DEF ClientStalls, Step, Open
  <1>7. CASE ClientReads(r)
    BY <1>1, <1>7, StepInvariant DEF ClientReads, Step, Open
  <1>8. CASE ClientLeaves(r)
    BY <1>1, <1>8, StepInvariant DEF ClientLeaves, Open
  <1>9. CASE Expires(r)
    BY <1>1, <1>9, StepInvariant DEF Expires, Open
  <1> QED
    BY <1>2, <1>3, <1>4, <1>5, <1>6, <1>7, <1>8, <1>9 DEF Client

(* A tick is paid for: by the deadlines of all, or by the holder of the mutex *)
(* who is past his.                                                          *)
LEMMA TickIsWorked ==
  ASSUME IInv, Tick, NEW c \in Calibrating
  PROVE  /\ Work' \in Int
         /\ mutex # None
         /\ \/ Work' = Work - 1
            \/ Work' = Work /\ ctx[mutex] = "live" /\ left[mutex] # 0 /\ mutex \in Calibrating
  <1>1. /\ ~Urgent
        /\ left' = [d \in Callers |-> Less(left[d])]
        /\ UNCHANGED <<pc, ctx, mutex, crowd>>
    BY DEF Tick, manager
  <1>2. /\ pc \in [Callers -> {"idle", "queued", "sweep", "store", "unlock"}]
        /\ ctx \in [Callers -> {"live", "ended"}]
        /\ left \in [Callers -> Nat]
        /\ mutex \in Callers \cup {None}
        /\ \A d \in Callers : pc[d] \in {"sweep", "store", "unlock"} <=> mutex = d
        /\ Paid \in 0..Overrun /\ Work \in Int
    BY Holder
  <1>3. mutex # None
    <2>1. pc[c] # "idle" /\ c \in Callers
      BY DEF Calibrating
    <2>2. ~(pc[c] = "queued" /\ mutex = None)
      BY <1>1, <2>1 DEF Urgent
    <2>3. None \notin Callers
      BY NoneAssumption
    <2> QED
      BY <1>2, <2>1, <2>2, <2>3
  <1>4. mutex \in Callers /\ pc[mutex] = "sweep" /\ mutex \in Calibrating
    BY <1>1, <1>2, <1>3 DEF Urgent, Calibrating
  <1>5. Cardinality(Calibrating') = Cardinality(Calibrating)
    BY <1>1 DEF Calibrating
  <1>6. Work' = Cost(Cardinality(Calibrating)) - Paid' /\ Cost(Cardinality(Calibrating)) \in Nat
    BY <1>5, CrowdIsFinite, CostGrows DEF Work, Cost
  <1>7. CASE ctx[mutex] = "live"
    <2>1. Paid = 0 /\ Paid' = 0
      BY <1>1, <1>3, <1>4, <1>7 DEF Paid
    <2>2. left[mutex] # 0
      BY <1>1, <1>4, <1>7 DEF Urgent
    <2> QED
      BY <1>2, <1>3, <1>4, <1>6, <1>7, <2>1, <2>2 DEF Work
  <1>8. CASE ctx[mutex] = "ended"
    <2>1. left[mutex] # 0 /\ left[mutex] \in Nat
      BY <1>1, <1>2, <1>4, <1>8 DEF Urgent, Overdue
    <2>2. left'[mutex] = left[mutex] - 1
      BY <1>1, <1>4, <2>1 DEF Less
    <2>3. Paid = Overrun - left[mutex] /\ Paid' = Overrun - left'[mutex]
      BY <1>1, <1>3, <1>4, <1>8 DEF Paid
    <2> QED
      BY <1>2, <1>3, <1>6, <2>1, <2>2, <2>3, Durations DEF Work
  <1> QED
    BY <1>2, <1>4, <1>7, <1>8

(* Whatever is short and has a deadline comes to it before Shutdown does.    *)
LEMMA TickInvariant ==
  ASSUME IInv, Tick
  PROVE  IInv'
  <1>1. Manager!IInv'
    BY CalibrationInvariant DEF IInv, Tick, manager, Calibration!vars
  <1>2. Calibration!TypeOK'
    BY <1>1, SameType DEF Manager!IInv
  <1>3. /\ UNCHANGED <<pc, ctx, mutex, crowd, kind, phase, stage, serve, opened, signalled,
                       exit, cut>>
        /\ ~Urgent
        /\ timer' = Less(timer)
        /\ left' = [c \in Callers |-> Less(left[c])]
        /\ due' = [r \in Clients |-> IF phase[r] \in Open THEN Less(due[r]) ELSE due[r]]
    BY DEF Tick, manager
  <1>4. /\ left \in [Callers -> Ticks] /\ due \in [Clients -> Ticks] /\ timer \in Ticks
    BY StateType DEF IInv
  <1>5. /\ \A n \in Ticks : Less(n) \in Ticks
        /\ \A n \in Nat : Less(n) \in Nat /\ Less(n) <= n /\ (n # 0 => Less(n) = n - 1)
    BY TimeoutsAssumption DEF Less, Ticks, Longest
  <1> HIDE DEF Less
  <1>6. TypeOK'
    <2>1. left' \in [Callers -> Ticks] /\ due' \in [Clients -> Ticks] /\ timer' \in Ticks
      BY <1>3, <1>4, <1>5
    <2> QED
      BY <1>2, <1>3, <2>1 DEF IInv, TypeOK, Open
  <1>7. Clocks'
    <2>1. \A n \in Nat, b \in Nat : n <= b => Less(n) <= b
      BY <1>5
    <2>2. ShortTimeout + UpstreamTimeout \in Nat
      BY Durations
    <2>3. \A c \in Callers : /\ left'[c] \in Nat
                             /\ ctx'[c] = "live" => left'[c] <= ShortTimeout
                             /\ Overdue(c)' => left'[c] <= Overrun
      BY <1>3, <1>5, <2>1, Durations DEF IInv, Clocks, Overdue
    <2>4. \A r \in Clients : /\ due'[r] \in Nat /\ due'[r] <= ShortTimeout + UpstreamTimeout
                             /\ kind[r] = "probe" => due'[r] <= ShortTimeout
      BY <1>3, <1>5, <2>1, <2>2, Durations DEF IInv, Clocks
    <2>5. timer' \in 0..ShutdownTimeout
      BY <1>3, <1>5, <2>1, Durations DEF IInv, Clocks
    <2> QED
      BY <1>3, <2>3, <2>4, <2>5 DEF Clocks
  <1>8. Phases'
    BY <1>3 DEF IInv, Phases
  <1>9. LessThanShutdown'
    <2> SUFFICES ASSUME stage = "shutdown" PROVE LessThanShutdown'
      BY <1>3 DEF LessThanShutdown
    <2>1. timer \in Nat /\ timer # 0 /\ timer' = timer - 1
      BY <1>3, <1>4, <1>5, Durations DEF Urgent
    <2>2. ASSUME NEW c \in Callers, pc[c] # "idle", ctx[c] = "live" PROVE left'[c] < timer'
      <3>1. left[c] \in Nat /\ left[c] # 0 /\ left[c] < timer
        BY <1>3, <2>2, Durations DEF IInv, Clocks, LessThanShutdown, Urgent
      <3> QED
        BY <1>3, <1>5, <2>1, <3>1
    <2>3. ASSUME NEW r \in Clients, kind[r] = "probe", phase[r] = "call"
          PROVE  due'[r] < timer'
      <3>1. due[r] \in Nat /\ due[r] # 0 /\ due[r] < timer
        BY <1>3, <2>3 DEF IInv, Clocks, LessThanShutdown, Urgent
      <3>2. due'[r] = Less(due[r])
        BY <1>3, <2>3 DEF Open
      <3> QED
        BY <1>5, <2>1, <3>1, <3>2
    <2> QED
      BY <1>3, <2>2, <2>3 DEF LessThanShutdown
  <1>q. Queue'
    <2> SUFFICES ASSUME stage = "shutdown", Fits, NEW c \in Calibrating'
                 PROVE  /\ Work' < timer'
                        /\ ctx'[c] = "live" => left'[c] + Work' < timer'
      BY <1>3 DEF Queue, Fits, Cost
    <2>1. c \in Calibrating /\ c \in Callers /\ pc[c] # "idle"
      BY <1>3 DEF Calibrating
    <2>2. timer \in Nat /\ timer # 0 /\ timer' = timer - 1
      BY <1>3, <1>4, <1>5, Durations DEF Urgent
    <2>3. /\ Work \in Int /\ Work' \in Int /\ left \in [Callers -> Nat]
          /\ mutex \in Callers \cup {None}
      BY <2>1, TickIsWorked, Holder
    <2>4. Work' < timer'
      <3>1. CASE Work' = Work - 1
        <4>1. Work < timer
          BY <2>1 DEF IInv, Queue
        <4> QED
          BY <2>2, <2>3, <3>1, <4>1
      <3>2. CASE Work' = Work /\ ctx[mutex] = "live" /\ left[mutex] # 0 /\ mutex \in Calibrating
        <4>1. left[mutex] + Work < timer
          BY <3>2 DEF IInv, Queue
        <4>2. left[mutex] \in Nat
          BY <2>3, <3>2 DEF Calibrating
        <4> QED
          BY <2>2, <2>3, <3>2, <4>1, <4>2
      <3> QED
        BY <2>1, <3>1, <3>2, TickIsWorked
    <2>5. ASSUME ctx'[c] = "live" PROVE left'[c] + Work' < timer'
      <3>1. left[c] + Work < timer
        BY <1>3, <2>1, <2>5 DEF IInv, Queue
      <3>2. left[c] \in Nat /\ left[c] # 0
        BY <1>3, <2>1, <2>3, <2>5 DEF Urgent
      <3>3. left'[c] = left[c] - 1
        BY <1>3, <1>5, <2>1, <3>2
      <3>4. Work' <= Work
        BY <2>1, <2>3, TickIsWorked
      <3> QED
        BY <2>2, <2>3, <3>1, <3>2, <3>3, <3>4
    <2> QED
      BY <2>4, <2>5
  <1>10. Leaving'
    <2>1. stage # "exited"
      BY DEF Tick, Running
    <2> QED
      BY <1>3, <2>1, NoneAssumption
      DEF IInv, Leaving, InFlight, Calibrating, CleanExitHidesNothing, ShortRequestsSurvive
  <1> QED
    BY <1>1, <1>6, <1>7, <1>8, <1>9, <1>10, <1>q DEF IInv

(* The inductive invariant: as long as Shutdown waits, every probe has less   *)
(* time left than it has, and so has a queue of calibrations that fits.      *)
THEOREM Invariant == Spec => []IInv
  <1>1. ASSUME IInv, UNCHANGED vars PROVE IInv'
    <2>1. Manager!IInv' /\ Calibration!TypeOK'
      BY <1>1, CalibrationKept DEF vars
    <2>2. UNCHANGED <<pc, ctx, mutex, left, crowd, kind, phase, due, stage, serve, opened,
                      signalled, timer, exit, cut>>
      BY <1>1 DEF vars, calibration, manager, relays, process
    <2>3. Queue'
      BY <1>1, <2>2, QueueKept DEF vars
    <2>4. Leaving'
      BY <1>1, <2>2
      DEF IInv, Leaving, InFlight, Calibrating, CleanExitHidesNothing, ShortRequestsSurvive
    <2> QED
      BY <1>1, <2>1, <2>2, <2>3, <2>4
      DEF IInv, TypeOK, Open, Clocks, Overdue, Phases, LessThanShutdown
  <1>2. IInv /\ [Next]_vars => IInv'
    BY <1>1, ProcessInvariant, CalibrateInvariant, CalibrationsInvariant, ClientInvariant,
       TickInvariant DEF Next
  <1> QED
    BY <1>2, InitInvariant, PTL DEF Spec

(* Every variable keeps its type.                                            *)
THEOREM TypeCorrect == Spec => []TypeOK
  <1>1. IInv => TypeOK
    BY DEF IInv
  <1> QED
    BY <1>1, Invariant, PTL

(* An exit with status 0 after a signal leaves nobody unanswered and conceals *)
(* no failure of the listener.                                                *)
THEOREM NothingHidden == Spec => []CleanExitHidesNothing
  <1>1. IInv => CleanExitHidesNothing
    BY DEF IInv, Leaving
  <1> QED
    BY <1>1, Invariant, PTL

(* A Shutdown that gives up cuts no probe, no native request that has been    *)
(* read, and calibrations only out of a queue whose overruns fill the time    *)
(* it gave them.                                                              *)
THEOREM ShortRequestsAreServed == Spec => []ShortRequestsSurvive
  <1>1. IInv => ShortRequestsSurvive
    BY DEF IInv, Leaving
  <1> QED
    BY <1>1, Invariant, PTL
=============================================================================
