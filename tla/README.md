# Quantum Runtime in TLA+

Specifications of Quantum Runtime (`src/`), a Go service that puts an
Ollama-compatible HTTP API in front of one inference backend, and of the
installer that puts the service on a Linux host. The modules are checked with
TLC on small instances; what the runs check short of liveness is proved with
TLAPS for every value of the constants. `PROJECT.json` maps each definition to the lines
it models and lists the runs, the mutants that show each property can fail, the
hazards, the findings and the theorems.

    tlc -workers 2 -config InstallerFaults.cfg MCInstaller.tla
    tlapm InstallerProofs.tla

## 1. Inventory

| Component | State it keeps | Operations | What is hard | What makes it correct |
|---|---|---|---|---|
| **Installer** `internal/installer`, `cmd/quantum-runtime-installer` | binary, environment file, systemd unit, ownership marker; a snapshot while it installs; the service under systemd | install, repair, uninstall with or without purge, rollback | killed between two files; a step failing, or a step of the rollback; systemctl errors dropped; an old process answering for a new binary; an operator editing meanwhile | never two builds mixed; a managed host stays managed; rollback restores the snapshot; the operator's file survives |
| **Stream bridge** `llamacpp/client.go` 610-816, `httpapi/server.go` 333-363, `ollama/proxy.go` | a goroutine, an `io.Pipe`, a handler's buffer, a context | translate SSE to NDJSON, copy, close | deadline, client leaving and backend breaking off at any moment; who closes what; a goroutine left behind | no piece lost, repeated or overtaken; "done" only after the whole answer; both goroutines end |
| **Compatibility gateway and adapter** `httpapi/server.go` 303-349, `llamacpp/client.go` 137-620 | nothing between requests | gates, decoding, fail-closed checks, forwarding, error mapping | the order of some thirty checks; a deadline racing a late answer | nothing reaches a backend past a gate; what is unsupported is refused; the status tells who failed |
| **Capability routing** `modelregistry`, `backendrouter`, `backendcontract` | a registry built once, sorted backends | register, look up, route | name conflicts found in any order; a plan independent of configuration order | one owner for a name; the plan satisfies the request; no refusal while a plan exists |
| **Host calibration** `calibration`, `resourcecontrol`, `httpapi/resource_routes.go` | a mutex, the latest result under a second lock | calibrate, read the latest | overlapping requests, contexts that end in the queue or in a sweep | newest result wins; the best is the best of its sweep; nobody waits for ever |
| **Placement planner** `placement` | none | build a plan | unsigned arithmetic, reserve, split classes | every byte in exactly one place; no tier overfilled |
| **Admission and limits** `admission`, `hostprofile`, `hostlimits`, `benchmarkplan`, `deploymentprofile` | none; reads /proc, cgroups and the affinity at different moments | discover, evaluate, plan a benchmark | an affinity that changes between two reads; unknown evidence against failed checks | limits within the mask; admission means it fits; a reserve is left |
| **Model manifests** `modelmanifest` | none | validate, order versions | checks that relate two fields or two entries; prerelease precedence; numbers of any size | a window of versions is not reversed; a verified model can be checked |
| **Configuration** `config` | read once | parse, validate | the listen address, the token and each request's check are decided in three places | whoever is not on this host needs the token |
| **Native routes** `httpapi/*_routes.go`, `server.go` 96-301 | none of their own | gates, body, answer | the same gates in every handler | no handler is left open |
| **Server lifecycle** `cmd/quantum-runtime` | a server, a serving goroutine, an error channel, a signal | start, serve, stop | signal and listener failing at once; a 15 s shutdown against requests of up to 15 minutes; calibrations queued on a lock; clients that stall | a signal ends the process; a clean exit hides nothing |
| Policy `modelpolicy`, profile list `deploymentprofile`, ledger `upstreamledger` | embedded documents | decode, validate, list, match | little: fixed when the binary is built | documents that load are well formed |
| Build information | three strings | | | |

How they interact: `cmd/quantum-runtime` parses the configuration, builds one
backend client (llama.cpp adapter or Ollama proxy) and the HTTP server. A
compatibility request goes through the gates into the client; a streamed answer
comes back through the bridge. `/v1/route` builds a router over the registry and
the one backend there is (`server.go:241-245`: at most one descriptor in the
deployed server, although the package accepts several). `/v1/host/calibrate`,
`/v1/host` and `/v1/placement` share the calibration manager; `/v1/placement`,
`/v1/admission` and `/v1/benchmark-plan` each discover the host afresh. The
installer shares nothing with the service but its files, its unit and its two
probes.

## 2. Modules

| Module | Models | Extends, uses |
|---|---|---|
| `Installer` | the installer, systemd, crashes, the operator | |
| `InstallTransaction` | abstract: an install as one transaction over binary, unit and marker | refined by `Installer` (`Transaction`) |
| `StreamBridge` | one streamed answer: backend, goroutine, pipe, handler, client | |
| `StreamRelay` | abstract: an answer relayed in order, complete or cut | refined by `StreamBridge` (`Relay`) |
| `Configuration` | the environment, what loads and what it exposes | |
| `Compatibility` | one request to any route up to its answer or the start of its stream | `Configuration` |
| `ModelManifest` | validation of a manifest, order of versions | |
| `Routing` | registry, router and the policies that match | `ModelManifest` |
| `ResourceControl` | concurrent calibrations | |
| `Placement` | the planner, class by class | |
| `Admission` | host discovery, limits, admission, benchmark plans | |
| `Lifecycle` | the process from start to exit, with the requests in flight | `ResourceControl` (`INSTANCE`) |
| `MC*` | constants for TLC | the module of the name |
| `...Proofs` | theorems about the component of the name, section 5 | the component, `TLAPS` and its libraries; `LifecycleProofs` also `ResourceControlProofs` (`INSTANCE`) |

Each module opens with what it covers, abstracts and leaves out. How state and
actions correspond to code:

**Installer.** `disk` is `Layout`'s four files, a file being the build that wrote
it; `svc` is the unit's enablement and the build its process runs, which is not
always the build on disk; `pc`, `cmd`, `snap` and `owned` are the locals of
`Install` and `Uninstall`. Every write, and every systemctl call that changes
something, is an action in the order of the code, and between any two of them
the installer may be killed (the CLI passes `context.Background()`, so an
interrupt is a kill), the host rebooted, the service restarted by systemd or the
environment file edited. `InstallStepFails` goes from any step to the rollback,
`RestoreFails` gives up the rest of the restore as `restoreSnapshot` does.
`RestoreService` and `DisableService` may silently have no effect, because their
errors are dropped (266-269, 350); a restart starts what was stopped, and what is
asked of a unit whose file is gone is refused (`Restarted`, `Disabled`): after a
first install `disable --now` comes when the rollback has removed the unit. `writeAtomic` is one step: a temporary file,
fsync and a rename. `history` holds what no code keeps (who created the
environment file, whether a command was cut); no guard of the code reads it.

**StreamBridge.** Five participants with their own program counters. `UpstreamSends`
produces SSE lines by kind; the goroutine takes one (`TranslateLine`,
`TranslateDone`, `ScanEnds`, ...) and holds the chunks it must write until the
handler reads them from the pipe, one by one, since an `io.Pipe` has no buffer.
The handler closes the body, cancels the context and returns, in the order of
the `defer` statements. The proxy is the same handler over a body that nobody
translates.

**Configuration.** `Environments` has one value for each case of a setting that
`LoadWith` and `Validate` tell apart; `Loaded` is every configuration the service
starts with, and `Exposed` says what an address makes `net/http` listen on,
which the code never asks.

**Compatibility.** It starts from every loaded configuration. `Gates` and the `...Checks` operators are sequences of
checks in the order of the code, and the first that fails decides the status.
A body is its text fields and its features, each field the
struct of the route decodes; `forwarded` is what of them reached the backend. The deadline and the client act between
any two steps. The native handlers are their gates and the statuses they may
answer; what they compute is in the modules below.

**ModelManifest.** `Validates` is `Validate` check by check; what is matched
field by field against a pattern or an enumeration is one field. `CompareVersion`
orders prereleases identifier by identifier, and `ParseUint` saturates as the
library's does when its error is dropped.

**Routing.** `New` manifest by manifest, validated, and alias by alias with its
conflicts; `Route` candidate by candidate and backend by backend, and the
policies of the model on the backend's kind. What `sort.Slice` leaves behind is
stated by its result (`InOrder`).

**ResourceControl.** One program counter per handler; the mutex, the sweep with
one action per worker count, and the second critical section that stores.

**Placement.** `Build` as a loop over the classes in `Order`, with sums that
wrap at `Modulus`, 2^64 in the code. `left` is what the plan leaves free of
`Room`, all of it where nothing is placed.

**Admission.** `DiscoverHost`, `LimitByAffinity` and `LimitByCgroup` read the
machine at different moments and `OperatorMoves` may come between. A CPU set is
in one of three files, and the first that is there decides even if it does not
count. `Checks` are the checks of `Evaluate` with their weight, `Decide` what
follows from them; `BuildPlan` is `benchmarkplan.Build`.

**Lifecycle.** `process` is what `main` and its serving goroutine hold: where
each is, the signal, the error channel, the exit status. The handlers of
`ResourceControl` are the calibrations in flight, `relays` the probes, the
native requests that read a body and the relayed answers, with what they wait
for: their client's body, the backend, the client reading. `Tick` advances one
clock for the calibration's 3 s, Shutdown's 15 s and the deadline of a request,
and never past an expiry that is due (`Urgent`). A calibration whose context ends
before its sweep is over still discovers the host, fills its buffers and measures
one candidate: that takes it up to `Overrun` ticks, one calibration after the
other. `crowd` is how many were in flight at once while Shutdown waited.

## 3. Runs

| Run | States | Shows |
|---|---|---|
| `InstallerFaults` | 538,722 | no build mixed with another at rest, managed hosts stay managed, a rollback brings the old build of a managed host back and no other (`RollbackServesOldBuild`), first activations are probed, the files implement a transaction, commands end |
| `InstallerOperator` | 1,487,266 | rollback restores the snapshot, the operator's file survives installs and purges |
| `InstallerStranded`, `InstallerGate` | violations | see 6 |
| `StreamBridge` | 337,858 | order, completeness, no false "done", the relay, no goroutine left |
| `Calibration` | 43,344 | best of the sweep, newest result, everybody answered |
| `ServerLifecycle` | 105,325 | a signal ends the process; a clean exit has cut nobody and hides no listener error (`CleanExitHidesNothing`); a shutdown cuts no probe, no native request that has been read, and calibrations only if those queued overrun the 15 s (`ShortRequestsSurvive`); only a client can hold a handler for ever |
| `PlacementPlans` | 1,057,824 | each byte in one place, no tier overfilled; what one tier holds is never refused, and with an accelerator nothing that fits into what is left free (`RefusedBytesFitNowhere`) |
| `CompatibilityGates` | 142,616 | gates, an exposed service answers nobody without the token (`ExposedServiceIsGuarded`), what cannot be carried is refused but for what the adapter does not look at (`UnsupportedIsRefused`), honest statuses, an answer always |
| `RoutingPlans` | 2,119,399 | only sound manifests stand (`StandingManifestsAreSound`), names, plans, order, refusals |
| `AdmissionDecisions` | 5,598,080 | limits, budgets, benchmark plans; of evidence only that of ECC is asked for, and it settles the decision (`OnlyECCIsAskedFor`) |
| `AdmissionProfile` | violation | see 6 |

`TypeOK` of a module is checked where a definition could break it, in
`InstallerFaults` and `ServerLifecycle` (which has `ResourceControl`'s in it);
in the other modules it is there for the reader and for proofs.

Bounds, and why they are enough:

- *Installer.* Two builds, one of which never answers its probes, is the smallest
  case with an update that succeeds and one that fails. Three commands reach
  install, update, uninstall, and install after a damaged update; the inductive
  invariant of section 5 shows that more commands, builds and kills reach nothing
  new for the properties proved. One kill or reboot, one exit of the service.
  In `InstallerOperator` the kills are traded for two acts of the operator and
  two different edits, which are interchangeable (symmetry).
- *StreamBridge.* Three lines: text, finish and [DONE], and every shorter or
  worse sequence: a line after the finish, a tool call or garbage after text.
- *Calibration.* Three handlers: one in the sweep and two in the queue. Two
  worker counts and rates of 0 to 2 give ties, a second count that is worse, and
  a sweep cut after the first.
- *Placement.* Sizes of 0 to 2 for six classes in words of three bits: all fit,
  some fit, nothing fits, the sum wraps; no accelerator, or two of different
  size; RAM unknown, small and large.
- *Lifecycle.* Two calibrations, one running and one queued, and one probe,
  native request or relayed answer beside them. With one tick for `Overrun`,
  `Grace` and `ShortTimeout` each and three for Shutdown, one calibration is
  within Shutdown's time and two are not, so both sides of the bound in
  `ShortRequestsSurvive` are met; for longer queues it is proved.
- *Compatibility.* Every configuration that loads, every route; up to two
  features at once: one that a later check refuses with one that an earlier
  check refuses or none does.
- *Routing.* Two models that may claim each other's ID or one alias in either
  order, up to three artifacts, and every list of up to two backends; one
  manifest for each check that fails alone; every pair of versions out of eight,
  with prereleases of numbers below, at and above the largest word, of words, and
  one that starts another.
- *Admission.* Up to three cores with one or two threads, every number of CPUs
  at start and now with one change, the CPU set in any of the three files.

`CHECK_DEADLOCK FALSE` is in every configuration: a host on which nobody runs a
command, a request that has been answered and a plan that has been computed
rightly stop, and the bounded environment runs out of acts.

## 4. Fairness

- `Installer`: `WF(Progress)`. A running command takes its next step; files and
  systemctl calls return, and `waitReady` gives up after twenty attempts
  (`installer.go:472-494`). Nothing is assumed of kills, reboots and operators.
- `StreamBridge`: weak fairness of the handler, of the goroutine, of a call
  whose context has ended and of a write while the client reads. Nothing is
  assumed of the backend, the client's leaving or the deadline: the property is
  that the *end of the context*, whatever brought it, ends both goroutines. A
  client that stays connected and never reads is outside it, because the server
  sets no write timeout (`cmd/quantum-runtime/main.go:62-68`).
- `ResourceControl`: weak fairness of a handler that holds the mutex, strong
  fairness of taking it, which Go's `sync.Mutex` gives through its starvation
  mode after a millisecond.
- `Lifecycle`: time passes, since no action waits for it; weak fairness of `main`,
  of the serving goroutine and of a handler's own steps; strong fairness of
  taking the calibration mutex, as above, and of an expiry, for a copy that
  finds its context ended whenever it gets to read on does end. Nothing is
  assumed of the signal, the listener, the backend or the clients, who may stall
  for ever. That a calibration whose context has ended is done after `Overrun`
  ticks more is an assumption about the machine: no code bounds it.
- `Compatibility`: weak fairness of the handler and of the deadline's timer; the
  client's body is assumed to arrive.

## 5. What is proved

Each safety invariant and each safety action property that a passing run checks,
and both refinements, are theorems, in one `...Proofs` module per component. A
theorem holds for every value of the constants that the `ASSUME`s of its module
admit: any number of builds, handlers, clients, lines, components, cores,
manifests and backends, and bounds of any size. Every inductive invariant was
given to TLC as an invariant of the runs before it was proved.

What is assumed of the constants: model values are distinct, bounds are numbers
(`VersionsAssumption`, `ConfigAssumption`, `BoundsAssumption`, `CallersAssumption`,
`ClientsAssumption`, `NoneAssumption`, `SweepAssumption`, `RunsAssumption`,
`CalibrationAssumption`, `MaxLinesAssumption`, `MaxFeaturesAssumption`, `WorkersAssumption`,
`AmountsAssumption`); the data has the type the decoder gives it
(`SizesAssumption`, `HostAssumption`, `MemoryAssumption`, `EvidenceAssumption`,
`CatalogAssumption`, `DescriptorAssumption`, `RequestAssumption`); embedded
documents passed the validation they pass when the process starts
(`ProfilesAssumption`, `PolicyAssumption`). Two say more: `ModulusAssumption` only
that a word holds something, so the planner is proved for words of any width;
`TimeoutsAssumption` that the 5 s for which Shutdown leaves a new connection open
and the 3 s of a short request are together less than Shutdown's 15 s, without
which `ShortRequestsSurvive` would be false. Of `Overrun` it says only that it is
a number: what queued calibrations take after their deadlines is in the statement
of the property.

### The invariants

What a run checks speaks of the end of something (a host at rest, an answer
given, a plan made) and is never inductive as it stands: `IInv` adds, for each
stage, what has been done by then. In every module `Invariant` is
`Spec => []IInv`, from `Init => IInv` and one lemma or step per action;
`TypeCorrect` follows from it.

| Module | `IInv` is `TypeOK` and | Theorems about the run's properties |
|---|---|---|
| `InstallerProofs` | `Arguments`: every stage of an install knows its build. `Stages`: what each stage has written, restored or removed, and that a snapshot is ours and coherent. `Facts`: which command runs, that a file is the old or the new one, what became of the environment file (`ConfigSoFar`), who made it (`Provenance`), what the service runs before `enable --now` | `OneVersion`, `StaysManageable`, `RollbackRestores`, `RollbackServes`, `ActivationIsProbed`, `OperatorConfigSurvives`, `PreexistingConfigStays`, `InstallerIsTransaction` |
| `StreamBridgeProofs` | `Shape`: buffers and program counters agree. `Protocol`: what a backend may still send. `NothingLost` itself, `Endings`: where an end comes from, once and last, and `PassedOn`: a body nobody translates arrives line by line | `StreamIsWhole`, `DoneIsComplete`, `CutIsToldApart`, `BridgeIsRelay` |
| `ResourceControlProofs` | `Counted`: requests are queued or had their turn. `Exclusive`: who is past the mutex holds it and builds the newest result. `Swept`: the best so far is the best of the samples so far | `NewestIsKept`, `RecommendsFastest` |
| `LifecycleProofs` | the invariant of `ResourceControlProofs`; `Clocks`, `Phases`; `LessThanShutdown`: while Shutdown waits, each short request has less time left than it; `Queue`: unless `crowd` calibrations are too many, those in flight need less time than Shutdown has left; `Leaving` | `CalibrationsRun`, `NothingHidden`, `ShortRequestsAreServed` |
| `PlacementProofs` | `Stages`: untouched, or all on the CPU, or nowhere, or the classes before `class` settled with what is left the rest of each tier (`Hybrid`); `ColdBytes` | `PlacedOnce`, `TiersAreBounded`, `RefusalIsHonest` |
| `AdmissionProofs` | `Discovery`: what was read holds until the next read, unless the affinity changed. `Outcome`: a decision is what the checks of its request give | `LimitsAreAllowed`, `AdmittedBudgetFits`, `ECCIsAskedInEarnest`, `ReserveIsLeft` |
| `CompatibilityProofs` | `Stages`: which gates each program counter has behind it. `Sent`: what a body read and a request forwarded say of the past. `Answered` | `NothingPassesTheGates`, `ExposureIsGuarded`, `RefusedOrCarried`, `StatusIsHonest` |
| `RoutingProofs` | `Registry`: the manifests so far, with every alias of those that are whole and some of the current one, share no name. `Scan`: every pair of candidate and backend that has been passed is unusable, and the plan is the one it stopped at | `NamesAreOwned`, `WhatStandsIsSound`, `PlanIsForTheRequest`, `PlanIsTheLeast`, `RefusalIsJustified` |

Some of the arguments:

- *Installer.* Only three actions write a marker and three the environment file
  (`WhoWritesConfig`); only eight end a command (`HowCommandsEnd`). `Provenance`
  is what makes a purge safe: an installer that holds a claim to the environment
  file holds it since before the operator could have made one.
- *Refinement of the transaction.* Outside an install the transaction sees the
  disk, inside it the snapshot. `InstallBeginsAndCommits`, `RollbackAborts`,
  `UninstallRemoves`, `CommandsBegin` and `EnvironmentTears` map the actions; a
  command that is cut anywhere is a `Tear` because `OldOrNew` holds everywhere.
- *Refinement of the relay.* A line read is a `Produce`, a chunk written to the
  client a `Deliver`, a handler that returns a `Complete` or a `BreakOff`;
  everything in between, the pipe and the goroutine, is a stutter (`Relayed`).
- *Shutdown.* Calibrations run one after the other, so those in flight need the
  overrun of each, and the one that holds the mutex what is left of its own. The
  deadlines pass within `Grace + ShortTimeout` of the signal; after that a queue
  of n is gone by `Grace + ShortTimeout + n * Overrun`, and n never exceeds
  `crowd`.
- *Placement.* Sums over the classes are written out, so that adding to one class
  adds to the sum; `Greatest` gives the largest accelerator by well-founded
  induction on what is above.
- *Compatibility.* Checks are a sequence and the first that fails decides: the
  least failing index exists by well-founded induction, and everything before it
  has passed.
- *Routing.* Candidates are *some* sequence of the artifacts in order; that one
  exists for every finite set and strict order is `Orderable`, by ranking each
  element with the number of those before it. A plan is the least because a pair
  that was passed is unusable and every later pair is greater.

### What the proofs changed

- `StandingManifestsAreSound` excepted too little: the model said that two numbers
  compare alike when both exceed 2^64-1, but 2^64-1 itself is read without an
  error and equals what a larger one is cut to. The exception (`Saturated`) and the
  prereleases of `RoutingPlans` now include it.
- `StreamRelay` held sequences whose growth had to be proved piece by piece. A piece
  is named by its position, so it now holds sets: a new piece comes after all there
  were, and what is delivered next is the least that has not arrived.
- Sorting is stated by its result (a sequence of the same elements in order)
  and evaluated as such by TLC; CASEs whose arms overlapped became IFs.
- `Memory` of `Admission`, `None` of `Compatibility` and the catalogs, requests and
  policies of `Routing` had conditions that were used and not written down.

### Only model-checked

- Liveness: `CommandTerminates`, `EndedContextEndsStream`, `EveryRequestAnswered`,
  `SignalEndsProcess`, `OnlyClientsHoldHandlers`, `RequestAnswered`. Fairness and
  ENABLED are out of the prover's reach.
- What a definition over data of any length computes by recursion. The order of
  versions avoids it: it speaks of the first place where two prereleases differ.
- The three violations of section 6 are counterexamples and have nothing to prove.

## 6. Where code and documentation disagree

Three have a run that shows them:

- `InstallerGate` (`installer.go:315`): an update runs `systemctl enable --now`,
  which leaves a running service alone, so the old process answers `/healthz`
  and `/readyz` and the new build is never started, let alone probed
  (`docs/INSTALLATION.md:57`). What does hold is `FreshActivationIsHealthy`:
  if the service was stopped, the build installed is the build probed.
- `InstallerStranded` (`installer.go:286`): a first install killed before its
  marker leaves files that `status` calls `external`, "not created by this
  installer" (`docs/INSTALLATION.md:33`), and that install, repair and uninstall
  all refuse.
- `AdmissionProfile` (`hostprofile/profile.go:83`): the profile counts logical
  CPUs by the process's affinity and physical cores by `/proc/cpuinfo`; pinned to
  fewer CPUs than there are cores, it refuses its own profile, although
  "hardware profile and effective guest/process limits are deliberately
  distinct" (`docs/API.md:229`).

Others were met while modelling. The models show them, no run is spent on them:

- the sum of the hot classes wraps and `cpu_only` is answered for what cannot fit
  (`placement.go:81`, `docs/HARDWARE-PLACEMENT.md:59`): `TiersHold` excepts
  exactly these plans (`BelievesWrappedSum`); `EveryByteOnce` and
  `RefusedBytesFitNowhere` hold for them too;
- without an accelerator the planner places all or nothing, so `capacity_exceeded`
  leaves out single classes that would fit (`placement.go:122-125`);
- prerelease numbers from 2^64-1 on are all that number to `compareVersion`,
  and the first of two unequal ones always the greater, so a reversed window of
  such versions is accepted (`manifest.go:430`): `StandingManifestsAreSound`
  excepts exactly these;
- a manifest may have the backends `gguf` and `safetensors`, which no descriptor
  may have (`manifest.go:199`, `contract.go:113`): such an artifact is never
  routed;
- a tool call in an answer that is not streamed is dropped, where a streamed one
  is an error (`llamacpp/client.go:545`); no request that asked for tools gets
  that far;
- rollback runs `systemctl restart` on a managed host, so a service the operator
  had stopped, or that was installed with `--no-start`, is running after a failed
  update (`installer.go:267`, `README.md:113`);
- rollback of a first install runs `disable --now` after the unit file was removed
  (`installer.go:269` after 546), which systemd refuses, so the build that failed
  to activate may go on running (`README.md:113`): `RollbackServesOldBuild`
  speaks of managed hosts only;
- an environment file created by the installer is no longer purged after an
  uninstall that kept it and a new install, for its ownership went with the
  marker (`installer.go:255`, `docs/INSTALLATION.md:82`);
- rollback writes back the environment file of the snapshot over an edit made
  during the install (`installer.go:545`, against 426);
- a calibration cut by its deadline is answered and recorded without the larger
  worker counts (`calibration.go:73`, `docs/HARDWARE-PLACEMENT.md:26`);
- the hybrid planner is greedy in a fixed order and may answer
  `capacity_exceeded` where another order fits (`placement.go:100`, 109);
- `/api/generate` has no `think` in its request type, so a request for thinking
  is forwarded without it, where `/api/chat` refuses it (`llamacpp/client.go:266`,
  `docs/API.md:215`, `README.md:146`): `UnsupportedIsRefused` excepts it by name;
- the two embedding routes decode one struct with `input` and `prompt` and each
  looks at one of them: a `prompt` sent to `/api/embed` is dropped, and an
  `input` sent to `/api/embeddings` is answered with the embedding of an empty
  text (`llamacpp/client.go:340-351`, `README.md:146`): excepted by name too;
- a body of unknown length over the limit is a 413 from the proxy and a 400 from
  the llama.cpp adapter (`llamacpp/client.go:530`);
- the minimum of physical cores is held against logical CPUs of the guest
  (`admission.go:108`, `README.md:158`);
- of mandatory evidence only that of ECC is ever asked for: dedicated cores that
  nobody stated, an unknown architecture class and unreadable memory are rejected
  if what is seen does not do (`admission.go:72-98`, against
  `docs/API.md:281`, "Unknown mandatory evidence therefore produces
  `needs_operator_evidence`"): `OnlyECCIsAskedFor` states what the code does.

## 7. Not modelled, and why

- *Two installers at once*: nothing in the code locks the host; a second command
  is planned, see 8.
- *Loss of a rename at a reboot*: `writeAtomic` syncs the file and not the
  directory; the model's reboot keeps every completed rename.
- *A body declared for a route that reads none*: `net/http` waits for it before
  the connection is idle, so such a client holds a connection and no handler.
- *Texts*: reasons, warnings, log lines, JSON layout.
- *Policy, ledger and deployment profile documents*: embedded data, decoded and
  validated when the process starts; what their validation guarantees is an
  assumption of `Routing` and `Admission`, and what is looked up or matched in
  them is modelled there. The ledger is only listed.
- *CPU quota, virtualisation, NUMA, storage, CPU features*: reported, and no
  decision reads them.
- *Build information*: three strings set at link time.
- *Response headers and the access log*: no state depends on them.

## 8. Plan

Done, in this order: `Installer` with its abstract transaction and first
theorems; `StreamBridge` with its relay; `ResourceControl`; `Placement`;
`Compatibility`; `Routing`; `Admission`; `Lifecycle` over `ResourceControl`;
`Configuration` under `Compatibility`; `ModelManifest` under `Routing`; the
remaining files and checks of `Admission`.

Then the proofs, one component after the other: `Installer` with its refinement,
`ResourceControl` and `Lifecycle` over it, `StreamBridge` with its refinement,
`Placement`, `Admission`, `Compatibility`, `Routing`.

Next:

1. *`Installer` with two commands at once*, which takes its proofs with it.
2. *Deeper theorems.* That the plan of `Placement` is determined by its request,
   and that of `Routing` by the sets of artifacts and backends; that `Decide`
   never gets better when a check gets worse; that the order of versions is a
   total order wherever no number is cut.
