------------------------------- MODULE Lifecycle -------------------------------
(***************************************************************************)
(* The service process (cmd/quantum-runtime): start, the goroutine that    *)
(* serves, the signal, http.Server.Shutdown with its 15 s, and the exit    *)
(* status, over the requests that are in flight meanwhile: calibrations    *)
(* (module ResourceControl), readiness probes, requests to the native      *)
(* routes that read a body, and relayed answers.                           *)
(*                                                                         *)
(* Covered: a listener that fails before, during or instead of serving,    *)
(* racing the signal; requests that arrive on a connection opened before   *)
(* Shutdown; deadlines (3 s for calibrations and probes, the configured    *)
(* timeout for a backend) running down together with the 15 s; clients     *)
(* that stall with their body or do not read, which nothing bounds         *)
(* (main.go:62-68 sets no read or write timeout); a calibration whose      *)
(* deadline has passed and that still discovers the host, fills its        *)
(* buffers and measures one candidate when its turn comes.                 *)
(*                                                                         *)
(* Abstracted: time passes in ticks, and only while nobody on the server   *)
(* has something to do that takes no time worth a tick; StreamBridge has   *)
(* the inside of a relayed answer, Compatibility what precedes it.  A      *)
(* short answer fits into the connection's buffer, and a body is declared  *)
(* only for a route that reads it: net/http would wait for it elsewhere.   *)
(***************************************************************************)
EXTENDS Naturals, Sequences, FiniteSets

CONSTANTS
  Callers, Candidates, MaxRate, MaxRuns,  \* of ResourceControl
  Clients,          \* clients of the other requests, one request each
  ShortTimeout,     \* ticks of a calibration and of a readiness probe
  Overrun,          \* ticks a calibration may still take after its deadline
  UpstreamTimeout,  \* ticks of a call to the backend
  ShutdownTimeout,  \* ticks of Shutdown
  Grace,            \* ticks for which Shutdown leaves a new connection open
  None              \* nobody, nothing, not yet

ASSUME CalibrationAssumption == {Candidates, MaxRate} \subseteq Nat \ {0} /\ MaxRuns \in Nat
ASSUME ClientsAssumption == Clients \cap Callers = {} /\ IsFiniteSet(Callers)
ASSUME NoneAssumption ==
  None \notin Clients \cup Callers
                \cup {"probe", "native", "relay", "starting", "listening", "closed", "failed",
                      "bad_flag", "bad_configuration", "serve_failed", "shutdown_failed",
                      "stopped"}
ASSUME TimeoutsAssumption ==
  /\ {ShortTimeout, UpstreamTimeout, ShutdownTimeout, Grace} \subseteq Nat \ {0}
  /\ Overrun \in Nat /\ Grace + ShortTimeout < ShutdownTimeout

VARIABLES
  pc, ctx, mutex, result, last, requested, started,  \* of ResourceControl
  left,       \* ticks until each calibration's deadline, then of its overrun
  crowd,      \* history: the most calibrations in flight since Shutdown began
  kind,       \* what each client asked for
  phase,      \* where its handler is
  due,        \* ticks until its call's deadline
  stage,      \* where main is
  serve,      \* what ListenAndServe does, or the error it returned
  opened,     \* it has listened
  signalled,  \* SIGINT or SIGTERM has come
  timer,      \* ticks until Shutdown gives up
  exit,       \* why the process ended
  cut         \* history: the requests in flight at the exit

manager     == <<pc, ctx, mutex, result, last, requested, started>>
calibration == <<manager, left, crowd>>
relays      == <<kind, phase, due>>
process     == <<stage, serve, opened, signalled, timer, exit, cut>>
vars        == <<calibration, relays, process>>

Calibration == INSTANCE ResourceControl

-----------------------------------------------------------------------------
Init ==
  /\ Calibration!Init
  /\ left = [c \in Callers |-> 0]
  /\ crowd = 0
  /\ kind = [r \in Clients |-> None]
  /\ phase = [r \in Clients |-> "none"]
  /\ due = [r \in Clients |-> 0]
  /\ stage = "start"
  /\ serve = None
  /\ opened = FALSE
  /\ signalled = FALSE
  /\ timer = 0
  /\ exit = None
  /\ cut = {}

Running  == stage \notin {"start", "exited"}
Stopping == stage \in {"shutdown", "drain"}
Open     == {"body", "call", "copy", "stuck"}
Calibrating == {c \in Callers : pc[c] # "idle"}
InFlight == Calibrating \cup {r \in Clients : phase[r] \in Open}

(* Connections accepted before the listener closed or failed may bring a      *)
(* request: until the exit, and for a while after Shutdown was called.        *)
Accepting ==
  /\ opened
  /\ \/ stage = "select"
     \/ stage = "shutdown" /\ timer + Grace > ShutdownTimeout

-----------------------------------------------------------------------------
(* main.                                                                      *)
Exit(why) == stage' = "exited" /\ exit' = why /\ cut' = InFlight

(* The flags, the configuration, and the goroutine that serves.              *)
Start ==
  /\ stage = "start"
  /\ \/ stage' = "select" /\ serve' = "starting" /\ UNCHANGED <<exit, cut>>
     \/ \E why \in {"bad_flag", "bad_configuration"} : Exit(why) /\ UNCHANGED serve
  /\ UNCHANGED <<calibration, relays, opened, signalled, timer>>

SelectServe ==
  /\ stage = "select"
  /\ serve = "failed"
  /\ Exit("serve_failed")
  /\ UNCHANGED <<calibration, relays, serve, opened, signalled, timer>>

SelectSignal ==
  /\ stage = "select"
  /\ signalled
  /\ stage' = "shutdown"
  /\ timer' = ShutdownTimeout
  /\ crowd' = Cardinality(Calibrating)
  /\ UNCHANGED <<manager, left, relays, serve, opened, signalled, exit, cut>>

ShutdownReturns ==
  /\ stage = "shutdown"
  /\ InFlight = {}
  /\ stage' = "drain"
  /\ UNCHANGED <<calibration, relays, serve, opened, signalled, timer, exit, cut>>

(* Mutant: Shutdown waits for the last request, as without a deadline.       *)
ShutdownWaits ==
  /\ stage = "shutdown"
  /\ timer = 0
  /\ InFlight = {}
  /\ Exit("shutdown_failed")
  /\ UNCHANGED <<calibration, relays, serve, opened, signalled, timer>>

ShutdownExpires ==
  /\ stage = "shutdown"
  /\ timer = 0
  /\ Exit("shutdown_failed")
  /\ UNCHANGED <<calibration, relays, serve, opened, signalled, timer>>

(* Mutant: the process ends without asking how the serving ended.            *)
DrainUnread ==
  /\ stage = "drain"
  /\ serve \in {"closed", "failed"}
  /\ Exit("stopped")
  /\ UNCHANGED <<calibration, relays, serve, opened, signalled, timer>>

(* The second receive from serveErrors.                                       *)
Drain ==
  /\ stage = "drain"
  /\ serve \in {"closed", "failed"}
  /\ Exit(IF serve = "failed" THEN "serve_failed" ELSE "stopped")
  /\ UNCHANGED <<calibration, relays, serve, opened, signalled, timer>>

Main == Start \/ SelectServe \/ SelectSignal \/ ShutdownReturns \/ ShutdownExpires \/ Drain

-----------------------------------------------------------------------------
(* ListenAndServe: it does not listen once Shutdown has been called.         *)
Listen ==
  /\ Running
  /\ serve = "starting"
  /\ serve' \in IF Stopping THEN {"closed"} ELSE {"listening", "failed"}
  /\ opened' = (serve' = "listening")
  /\ UNCHANGED <<calibration, relays, stage, signalled, timer, exit, cut>>

ListenerClosed ==
  /\ Stopping
  /\ serve = "listening"
  /\ serve' = "closed"
  /\ UNCHANGED <<calibration, relays, stage, opened, signalled, timer, exit, cut>>

AcceptFails ==
  /\ stage = "select"
  /\ serve = "listening"
  /\ serve' = "failed"
  /\ UNCHANGED <<calibration, relays, stage, opened, signalled, timer, exit, cut>>

(* A second signal is caught by NotifyContext and changes nothing.           *)
Signal ==
  /\ Running
  /\ ~signalled
  /\ signalled' = TRUE
  /\ UNCHANGED <<calibration, relays, stage, serve, opened, timer, exit, cut>>

-----------------------------------------------------------------------------
(* Calibrations: their deadline runs from before they queue, and whoever      *)
(* finds it passed when the mutex is his still has a candidate to measure.    *)
Overdue(c) == pc[c] = "sweep" /\ ctx[c] = "ended"

Remaining ==
  [c \in Callers |-> IF ctx'[c] = "live" \/ (Overdue(c) /\ Overdue(c)') THEN left[c]
                    ELSE IF Overdue(c)' THEN Overrun ELSE 0]

Crowd(n) == IF stage = "shutdown" /\ n > crowd THEN n ELSE crowd

(* Mutant: a calibration is given the time of a call to the backend.         *)
CalibrateLong(c) ==
  /\ Accepting
  /\ Calibration!Request(c)
  /\ left' = [left EXCEPT ![c] = UpstreamTimeout]
  /\ crowd' = Crowd(Cardinality(Calibrating) + 1)
  /\ UNCHANGED <<relays, process>>

Calibrate(c) ==
  /\ Accepting
  /\ Calibration!Request(c)
  /\ left' = [left EXCEPT ![c] = ShortTimeout]
  /\ crowd' = Crowd(Cardinality(Calibrating) + 1)
  /\ UNCHANGED <<relays, process>>

CalibrationEnds(c) ==
  /\ Running
  /\ Calibration!ContextEnds(c)
  /\ left' = Remaining
  /\ UNCHANGED <<crowd, relays, process>>

Locks(c) ==
  /\ Running
  /\ Calibration!Lock(c)
  /\ left' = Remaining
  /\ UNCHANGED <<crowd, relays, process>>

Calibrates(c) ==
  /\ Running
  /\ Calibration!Run(c)
  /\ left' = Remaining
  /\ UNCHANGED <<crowd, relays, process>>

-----------------------------------------------------------------------------
(* Probes, native requests and relayed answers.                               *)
Step(r, from, to) ==
  /\ Running
  /\ phase[r] \in from
  /\ phase' = [phase EXCEPT ![r] = to]
  /\ UNCHANGED <<calibration, kind, due, process>>

Deadline(k) ==
  CASE k = "probe" -> ShortTimeout [] k = "relay" -> UpstreamTimeout [] k = "native" -> 0

(* handleReady asks the backend at once; handleCompatibility reads the body  *)
(* under a deadline that does not end the reading; the native handlers read   *)
(* theirs (route, placement, admission, benchmark plan) under none.           *)
Arrive(r) ==
  /\ Accepting
  /\ phase[r] = "none"
  /\ \E k \in {"probe", "native", "relay"} :
       /\ kind' = [kind EXCEPT ![r] = k]
       /\ phase' = [phase EXCEPT ![r] = IF k = "probe" THEN "call" ELSE "body"]
       /\ due' = [due EXCEPT ![r] = Deadline(k)]
  /\ UNCHANGED <<calibration, process>>

(* A native request is answered as soon as it has been read.                 *)
BodyArrives(r)    == Step(r, {"body"}, IF kind[r] = "native" THEN "answered" ELSE "call")
BackendAnswers(r) == Step(r, {"call"}, IF kind[r] = "probe" THEN "answered" ELSE "copy")
CopyEnds(r)       == Step(r, {"copy"}, "answered")
ClientStalls(r)   == Step(r, {"copy"}, "stuck")
ClientReads(r)    == Step(r, {"stuck"}, "copy")
ClientLeaves(r)   == Step(r, Open, "gone")

(* Mutant: the copy goes on after the deadline.                               *)
CallExpires(r) == due[r] = 0 /\ Step(r, {"call"}, "answered")

(* The context ends the call, or the copy of what the backend still sends.   *)
Expires(r) == due[r] = 0 /\ Step(r, {"call", "copy"}, "answered")

Client(r) ==
  \/ Arrive(r) \/ BodyArrives(r) \/ BackendAnswers(r) \/ CopyEnds(r)
  \/ ClientStalls(r) \/ ClientReads(r) \/ ClientLeaves(r)

-----------------------------------------------------------------------------
(* What the server does before the next tick.                                 *)
Urgent ==
  \/ serve = "starting"
  \/ (Stopping /\ serve = "listening")
  \/ stage = "select" /\ (signalled \/ serve = "failed")
  \/ stage = "shutdown" /\ (timer = 0 \/ (InFlight = {} /\ ~Accepting))
  \/ stage = "drain"
  \/ \E c \in Callers :
       \/ pc[c] # "idle" /\ ctx[c] = "live" /\ left[c] = 0
       \/ pc[c] = "queued" /\ mutex = None
       \/ Overdue(c) /\ left[c] = 0
       \/ pc[c] \in {"store", "unlock"}
  \/ \E r \in Clients : phase[r] \in {"call", "copy"} /\ due[r] = 0

Longest == ShortTimeout + UpstreamTimeout + ShutdownTimeout + Overrun

(* Mutant: a clock that runs on below zero.                                   *)
LessUnguarded(n) == IF n = 0 THEN Longest + 1 ELSE n - 1

Less(n) == IF n = 0 THEN 0 ELSE n - 1

Tick ==
  /\ Running
  /\ ~Urgent
  /\ timer' = Less(timer)
  /\ left' = [c \in Callers |-> Less(left[c])]
  /\ due' = [r \in Clients |-> IF phase[r] \in Open THEN Less(due[r]) ELSE due[r]]
  /\ UNCHANGED <<manager, crowd, kind, phase, stage, serve, opened, signalled,
                 exit, cut>>

Next ==
  \/ Main \/ Listen \/ ListenerClosed \/ AcceptFails \/ Signal \/ Tick
  \/ \E c \in Callers : Calibrate(c) \/ CalibrationEnds(c) \/ Locks(c) \/ Calibrates(c)
  \/ \E r \in Clients : Client(r) \/ Expires(r)

Spec == Init /\ [][Next]_vars

(* Time passes and the server's goroutines run; a copy that finds its context *)
(* ended whenever it gets to read on does end.  Nothing is assumed of the     *)
(* clients, the backend and the operator who signals.                         *)
Fairness ==
  /\ WF_vars(Tick)
  /\ WF_vars(Main)
  /\ WF_vars(Listen \/ ListenerClosed)
  /\ \A c \in Callers : /\ WF_vars(Calibrates(c) \/ (left[c] = 0 /\ CalibrationEnds(c)))
                        /\ SF_vars(Locks(c))
  /\ \A r \in Clients : SF_vars(Expires(r))

FairSpec == Spec /\ Fairness

-----------------------------------------------------------------------------
Ticks == 0..Longest

\* Every variable keeps its type.
TypeOK ==
  /\ Calibration!TypeOK
  /\ left \in [Callers -> Ticks] /\ due \in [Clients -> Ticks] /\ timer \in Ticks
  /\ crowd \in Nat
  /\ kind \in [Clients -> {None, "probe", "native", "relay"}]
  /\ phase \in [Clients -> {"none", "answered", "gone"} \cup Open]
  /\ stage \in {"start", "select", "shutdown", "drain", "exited"}
  /\ serve \in {None, "starting", "listening", "closed", "failed"}
  /\ opened \in BOOLEAN /\ signalled \in BOOLEAN
  /\ exit \in {None, "bad_flag", "bad_configuration", "serve_failed", "shutdown_failed",
               "stopped"}
  /\ cut \subseteq Callers \cup Clients

(* An exit with status 0 after a signal hides nothing: every request a handler *)
(* had begun was answered or left, those included that arrived after the       *)
(* signal on a connection opened before it, and the listener did not fail,     *)
(* whichever the select picked first (main.go:84-106).                         *)
CleanExitHidesNothing == exit = "stopped" => cut = {} /\ serve = "closed"

(* A Shutdown that fails cuts no probe; a native request only while its       *)
(* client still owes the body; a calibration only after its context has       *)
(* ended, and only if so many queued behind the mutex, which heeds no         *)
(* context, that what each still takes after that fills the rest of the 15 s  *)
(* (main.go:95, resource_routes.go:81, 115, server.go:114, 233,               *)
(* manager.go:28-31).                                                         *)
ShortRequestsSurvive ==
  exit = "shutdown_failed" =>
    \A r \in cut :
      IF r \in Clients
      THEN kind[r] = "relay" \/ (kind[r] = "native" /\ phase[r] = "body")
      ELSE ctx[r] = "ended" /\ Grace + ShortTimeout + crowd * Overrun > ShutdownTimeout

(* After a signal the process ends, whatever the backend and the clients do,  *)
(* those that send no body or read no answer included (main.go:62-68, 95).    *)
SignalEndsProcess == signalled ~> stage = "exited"

(* Only a client can hold a handler, by the body it owes or the answer it     *)
(* does not read: a calibration, a probe, a call and a copy end by            *)
(* themselves, however long the backend hangs (server.go:114, 333,            *)
(* resource_routes.go:81, manager.go:28).                                     *)
OnlyClientsHoldHandlers ==
  /\ \A c \in Callers : pc[c] # "idle" ~> pc[c] = "idle" \/ stage = "exited"
  /\ \A r \in Clients : phase[r] \in {"call", "copy"}
                          ~> phase[r] \notin {"call", "copy"} \/ stage = "exited"
=============================================================================
