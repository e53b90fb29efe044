# Verification of the benchmark service

TLA+ models of the benchmark service framework (`src/benchmark_service`), the
TLC configurations that check them on small instances, and TLAPS proofs of the
properties that matter most for every value of the constants. Paths and line
numbers below are relative to `src/src/benchmark_service/`; `src/README.md` is
the repository's own README.

`PROJECT.json` is the index: components, runs, the mutant that breaks each
property, the source lines every definition stands for, the hazards, findings
and theorems.

## The system

A benchmark is a Python class with hooks. The framework serves it over HTTP and
WebSocket, creates and drives sandboxes for it (Daytona, Modal, Docker, Compose),
grades submissions, and drains before a deployment. A client library talks to
the service. Inside a sandbox, an episode's agents run under
`valkyrie_stage.py`, which reports charged time to a Tracker.

| Part | State it keeps | Operations | What makes it correct | Module |
|---|---|---|---|---|
| Draining (`draining.py`, `blocking.py`) | SQLite store of one container: revision, gate, a row per admitted request | `admit`, `complete`, `set_admission`, `snapshot`; a middleware around every request | a report of "closed and idle" stays true; a refused request never ran | `DrainGate`, `Drain` |
| Drain retry (`client.py`) | tries and deadline of one call | HTTP and WebSocket retry loops | no call starts twice; every call ends | `DrainRetry` |
| Grading admission (`vals/app.py`, `vals/evaluation_quota.py`) | reservations, counters per tenant, the slot semaphore, the quota table | `reserve`, `consume_evaluation_request`, `acquire_active_slot` | no reservation, permit or unit is lost or passed | `GradingAdmission`, `AdmissionContract` |
| Tenant authentication and policies (`vals/auth.py`, `vals/allowlist.py`, `vals/app.py`) | a cache of tenants by access key, a cache of policies by tenant, the snapshot of a request | `resolve_descope_tenant`, `get_tenant_config`, dataset access, quota, trial projection | one policy decides all of a request; a new policy takes effect in bounded time, a revocation too once the exchange has answered | `TenantPolicy` |
| Sandbox grading (`grading.py`) | one grade: sandbox, evaluation task, generator, terminal chunk | `grade_instance_stream`, `collapse_stream` | the sandbox is deleted on every path, the answer is the verdict | `GradeRun` |
| Submission artifacts and `/v1/evaluate` (`submission_artifacts.py`, `vals/app.py`) | the object at a key, the identity accepted, the thread and the temporary directory of a request | `stat`, `download`, `materialize`, `_v1_evaluate_in_scope` | what is graded is what was accepted; nothing of a request stays behind | `SubmissionArtifacts`, `V1Evaluation`, `GradingContract` |
| Evaluation sessions and eval resume (`app.py`, `base.py`, `eval_resume.py`, `grading_credentials.py`, `client.py`) | the handler's context managers, checkpoints in S3, the caller's latest checkpoint | evaluate, resume from a checkpoint, stream, release | a stored checkpoint resolves; a retry grades what was saved with the grader that saved it | `EvalSession`, `EvaluationContract` |
| Sandbox-loss recovery (`client.py`) | attempt number, outage identity, policy | `run_with_sandbox_recovery`, the attempt's methods | one identity per outage, bounded and justified retries | `SandboxRecovery` |
| Stage reporter and agents (`valkyrie_stage.py`) | active turns, finished results, frames | `start`, `stop`, `wait_any`, signed BEGIN and END | running time is always charged, every turn has one result | `StageAgents`, `AgentsContract` |
| Controlled workloads (`sandbox/*.py`) | owner, group or cgroup, marker files, session, host tasks | launch, `wait`, `kill` | confirmed absence is true and final | `Workload`, `GroupWorkload`, `CgroupWorkload`, `ControlledWorkload`, `WorkloadContract` |
| Sandbox creation (`daytona.py`, `modal.py`, `docker.py`) | one `create_sandbox` call and the sandbox of its name | create, retry, recover by name, clean up, close | a good handle or no forgotten sandbox | `SandboxCreation` |
| Sandbox commands (same files) | PTY, exec stream, pid file, status file | `Sandbox.command` | runs once, an honest status, nothing left running | `SandboxCommand` |

How they interact. A request passes the drain middleware, then authentication
and the dataset scope. `/v1/evaluate` goes through grading admission, looks at the
submitted artifact and runs one grade, which creates a sandbox, downloads the
artifact, runs commands in it and deletes it; the WebSocket
endpoints run an evaluation session, which may create a sandbox for a retry. The
client wraps a session in drain retries, resumes it from a checkpoint, and wraps a
whole task in the recovery loop. `SandboxUse` composes creation, commands and
workloads (shared state: the provider and the fault budget); `DrainRetry`
composes client and container (shared state: requests and replies); `V1Evaluation`
composes the grading engine with the artifact's thread (shared state: the request's
cancellation, the copy it reads). The other boundaries are kept as promises: for
instance `GradingAdmission` assumes nothing of what a slot is used for, and
`V1Evaluation` shows that a slot comes back.

What is hard: one event loop with a cancellation possible at every await; threads
that outlive a cancelled caller; replies that are lost after their effect;
teardown that must go on while it is itself cancelled; several workers over one
file; processes that survive their owner. `PROJECT.json` lists the hazards, each
at its line with the properties that would catch it.

## The modules and the code

A step is what the code does without giving up control: a transaction, the code
between two awaits, one remote call. Time is an event: a bound that can expire
does so at any moment. A remote call that fails may have had its effect.

**Draining.** `Drain`'s store actions are the four transactions (`BEGIN IMMEDIATE`
to `COMMIT`, one step each). A request passes `Arrive`, `Admit`, `Resume`,
`Finish` or `Reject`, `Complete`; between the thread's transaction and the
coroutine's resumption anything may happen, a held-back cancellation wins
(`run_blocking`). Workers die and start; a store may be replaced or locked.
`DrainGate` is the abstract promise: work begins only through an open gate, and a
controller believes the service idle only when it is. `Drain` implements it under
the mapping at the end of its module. `DrainRetry` adds `_http_request` and
`_connect_websocket`; each try is a request of its own.

**Grading admission.** `Reserve`, `Count`/`Exceed`/`StorageFails` (the thread's
conditional update), `ResumeBilling`, then the semaphore: `TakeSlot`, `Start` of a
granted waiter, `Abandon` (queue timer or cancellation, also after a grant), `Leave`,
`Finish`. The semaphore's own rules (first come first served, a grant is
handed over before its waiter runs) are those of `asyncio.Semaphore`, which is
outside the repository. `AdmissionContract` is what a tenant may rely on, without
reservations, tickets, threads or counters: one request per key and so many per tenant
are inside, a unit is taken once and while there is one, slots are given in the order of the
line, and whoever is turned away is told a reason that is true. Each place of a
request stands for several stages of the code, and the line for the tickets: the
contract keeps, for each waiter, who joined before it.

**Grading.** `GradeRun` follows one request through preparation, the chunk loop and
the teardown task; each hook may answer, fail, hang, ignore a cancellation or raise
`CancelledError` itself.

**Submissions.** `SubmissionArtifacts` is one artifact: what lies at its key, which
may be uploaded again at any time, the identity `stat` accepted, and the thread
that asks, reads, writes the file or removes the directory. `V1Evaluation` extends
`GradeRun` with it: in the mode `sandbox` the engine's preparation downloads
(`Downloading`, the engine waits for `copy`); in the modes `bytes` and `file` the
benchmark evaluates in the service's process and `collapse_stream` folds its chunks
without the engine, so that `answer` and `terminal` serve both. `CancelRequest` is
`run_blocking`: the cancellation is held back until the thread is done, however often
it is repeated. The removal of the request's own directory is taken to succeed.
`GradingContract` is what a caller may rely on in all three modes and for a text, without
threads, timeouts, tasks or chunks: one evaluation of what was taken in, one verdict (a
result only when the evaluation ended with it), an answer that is the verdict, and
sandbox and directory given back once the evaluation was stopped, or left to itself.

**Tenant policies.** In `TenantPolicy` a request asks Descope (`exchange`),
then the catalog (`fetch`, with its attempts and a deadline over all of them), and
keeps the policy it was authorised with as `snapshot`, which dataset access, quota
and trial projection read. Descope decides in a thread (`DescopeDecides`), and the
coroutine resumes with that answer at any later time (`ExchangeAnswers`): the exchange
has no deadline in this repository. `delay` records how long the answer was on its way;
an entry of the cache carries it, and no guard reads it. Time is counted, since entries have an age: `Tick` expires
them, and waits for a timeout that is due. An answer of the catalog is on its
way (`reply`) while policies change; a catalog asked about a revoked key may answer
either way. A key belongs to one tenant until it is revoked. The allowlist takes
the catalog's place from the start or not at all.

**Evaluation sessions.** `EvalSession` has one handler and one client per session.
`scopes` is the stack of context managers the handler has entered, so that
`LeaveScope` unwinds in the code's order. The early checks of a handler, which hold
nothing, are one action (`Accept`), the object's write and the chunk that names it
another (`SaveGradingInput`: what comes in between is covered by `Cancel`, after
which the object may or may not exist). A lost connection and the idle timeout are
both `GiveUp`. A deployment may change the grader between sessions; digests stand
for bytes. `EvaluationContract` is the one evaluation the caller sees in all its
sessions: attempts that each go on from the latest checkpoint it stored, checkpoints
that only go forward with one input and one grader, and a verdict about one of them. Its
`saved` is the store, its `kept` what the caller holds; scopes, tokens, sandboxes and
sockets do not occur.

**Recovery.** `SandboxRecovery` is the loop with its state object. The operation and
`on_retry` belong to the caller: they may call the attempt's methods in any order
and from any attempt object that is still held.

**Stage agents.** `call` is the call that holds the lock, `call.at` where it is.
The turn owner is reduced to the states it reports. It may be killed (`OwnerDies`),
with its agent left alone until its death signal ends it (`OrphansEnd`); from then on
each write to its pipe raises (`GraceRaises`, and the ends of `Visit` and `Take`).
`Complete`, `Reap`, `Remove`,
`Ended`, `Copy` are `_complete`; `Collect`/`Visit` the sweep each call begins with.
Frames may be lost or overtaken by copies; the Tracker is modelled from what the
reporter expects of it. `AgentsContract` is what the orchestrator and whoever pays may
rely on, without frames, pipes, sweeps or listings: a turn is free, working or ending; it
begins in charged time after an admission, is given the first reason that is true, ends
when nothing of it is left, and its result is made once and brought to the call it is
due to. The places of a call are folded into what is asked (`start`, `admitted`,
`failed`, `stop`, `wait`), and the Tracker's interval is `charging`.

**Workloads.** `Workload` is what both kinds share, the agent as a foreground process
and a helper. In `GroupWorkload` the owner (a shell, or the Python supervisor of
an episode) and the host's tasks run side by side and meet in the control files;
the stop script is `Ask` and `Poll`. In `CgroupWorkload` the launch, watch,
finish and close tasks and the session's shell do. `ControlledWorkload` puts both
under `WorkloadContract`: once absence is confirmed no process of the agent runs
then or later, and a returned `wait` or `kill` confirmed it. An ordinary command's
helpers stay in its process group; an episode's may leave it. Compose's
outer workload is one task that ends or fails.

**Creation and commands.** `SandboxCreation` has the call (`call`) and the provider's
side (`creation`, `late`, `box`): a creation may be carried out after its sender has
given up. `SandboxCommand` has the sandbox (`program`, `pty`, `marked`, `host`) and
the call (`step`). Retries of single calls are folded into one failing call; the
attempts of create_sandbox, of the PTY's creation and of Modal's process start, the
PTY's reconnections, and the questions whether a sandbox has stopped under a failed or
killed command (`Ask`, until `Believe`) are counted. A call's failure is taken from the
fault budget; a connection of a PTY may drop whenever it likes. `SandboxUse` creates a sandbox and then uses it.

## The runs

| Run | What it asks | Bounds, and why they are enough | Distinct states |
|---|---|---|---|
| `drain_safety` | `IdleReportIsTrue`, `RefusalMeansNotStarted`, `RowsLeaveOnce`, `ImplementsGate` | 2 requests, 2 workers, 2 stores, revisions 0 and 1: a late admission beside another request, a stale report beside a newer command, a replaced file. All four are also proved for every instance | 942,757 |
| `drain_retry` | `AtMostOneStart`, `CallsSettle`, `DrainCompletes` | one WebSocket call of 3 tries, one worker that may die, revisions 0 to 2 (close, open, close). WebSocket is the harder client: it can be refused without the marker | 58,935 |
| `grading_quota` | `ReservationsExact`, `KeepsAdmissionContract` | 4 requests, two of them for one key and one outside admission, quota 1, one roll-over: every limit is hit | 504,322 |
| `grading_slots` | `SlotsAccounted`, `NoIdleSlot`, `WaitersSettle`, `KeepsAdmissionContract` | 4 requests, 2 slots, 2 queue places: two waiters whose timers meet two grants | 48,705 |
| `tenant_policy` | `OnePolicyPerRequest`, `RevocationReaches`, `PolicyIsRecent` | two interchangeable requests at a time, each again and again, one key, one policy (trial, with a quota) that the catalog may take away, times to live of 2 and 1, one timeout, 5 ticks: an exchange can answer late, an entry be stored late, expire before any question of a request and be stored again from an older answer. Several policies, one without access, and internal routes are left to the proof: all three are proved for every instance | 1,624,891 |
| `v1_evaluation` | `SandboxNotForgotten`, `EvaluationStoppedFirst`, `GradesWhatWasAccepted`, `NothingLeftBehind`, `KeepsGradingContract`, `RequestSettles` | two uploads after the admission began, three versions, one too large: the object can be replaced, removed, and be the accepted one again | 46,584 |
| `eval_session` | `GradesWhatWasSaved`, `ResourcesOutliveGrading`, `ResultIsEarned`, `SessionsSettle`, `KeepsEvaluationContract` | 2 sessions, 2 graders, 1 item per stream: a retry beside the abandoned handler, across a deployment | 261,914 |
| `sandbox_recovery` | `OutageIdentityKept`, `RetriesHaveACause`, `AcknowledgedOutageIsOver`, `CallEnds` | caller's cap 3; no policy and policies below, above and far above it | 1,182 |
| `sandbox_recovery_loop` | `LoopNeverFallsThrough` (violated) | the same with one policy less | - |
| `stage_turns` | `AliveIsCharged`, `KeepsAgentsContract`, `ExhaustionSettles`, `CallReturns` | 2 slots, one used twice, 3 frames before the last start, one fault (a killed owner among them), one lost frame: results wait while the next turn runs | 652,147 |
| `sandbox_use` | `HandleIsGood`, `CommandIsHonest`, `NoCommandLeft`, `ImplementsContract`, `CallsSettle` | four providers, 3 faults, 3 attempts or questions where the code has 3, 6, 10 or 30: a failure, one during its handling, one more | 43,441 |
| `docker_kill` | `KillAnswers` (violated) | 2 faults | - |

A run checks a contract as a property: every behaviour of the detailed module is one of
the contract under the mapping at the end of that module (`Contract == INSTANCE ... WITH`).
`QuotaExact`, `AnswerIsTheVerdict`, `CheckpointResolves`, `ResultsExact` and
`StopReturnsItsTurn` follow from the contracts of their modules and are properties of no
run; they remain theorems (below), and the mutants that broke them break the contracts.

`CHECK_DEADLOCK FALSE` is set where a finished run has nothing left to do (a bounded
number of requests, sessions, attempts or turns); `drain_safety` and
`drain_retry` keep the check, a controller can always take a snapshot.

### Fairness

Weak fairness only, each time of what the scheduler, a timer or a bounded call gives:

- Draining: the event loop and the thread pool run what is ready and accepted work
  ends. A client's steps run and its clock advances; a dead worker is replaced. Nobody is
  obliged to cancel, command or die.
- Admission: ready coroutines run, the counter update returns (its client has
  timeouts), the queue timer fires. Nothing is assumed of the grades.
- Grading and submissions: threads end (the store's client has timeouts), the engine's
  steps run, its bounds expire, and the hooks it awaits without a task of their own
  (`retrieve_task`, `create_sandbox`, `prepare_grading_sandbox`) give in to a
  cancellation. Nothing is assumed of the evaluation, its finalizer or the deletion;
  so an evaluation in this process, which has no deadline, may run for ever, and
  `RequestSettles` says what ends otherwise.
- Tenant policies: none, their properties are safety properties.
- Sessions: the client reads or times out; a handler that leaves finishes its bounded
  teardown. No hook need ever answer.
- Recovery: the operation, the retrieval, the callback and the delay end.
- Stage agents: the call that holds the lock runs on, an owner that was told to kill
  does, frames are sent again and arrive, and the orchestrator goes on waiting.
- Sandboxes: the call's steps, the sandbox's shells and owners, and the SDKs of Modal
  and Docker go on. A command need never end, and no failure need happen.

### What the runs show beyond "it holds"

- **The recovery loop reaches its assertion** (`sandbox_recovery_loop`,
  `client.py:754`). A retryable setup error within the caller's cap leads to
  `on_retry`; when this callback is the first to call `retrieve_task` and the policy's
  cap is not above the attempt's number, the loop ends without a result and the
  caller gets the `AssertionError` instead of the setup error.
- **Docker's kill can hang** (`docker_kill`, `docker.py:441`). After a failed
  status inspection or output stream and an owner that died before it published its
  group, `_stop` asks for ever: it looks at `_status_done`, which a failed or
  cancelled `_status` never sets. `CallsSettle` holds of every kill but this one
  (`Blind`).

Read in the code while modelling, and allowed by the models:

- `grade_instance_stream` promises exactly one terminal chunk and never to raise
  (`grading.py:298`), but a benchmark that raises `CancelledError` itself passes every
  `except Exception`; the request then ends cancelled (`ReceiveCancellation`).
- Frames need not alternate. `src/README.md:308` says that sequences "alternate odd
  `begin` / even `end`"; a turn whose owner exits before its readiness byte
  leaves an open interval without an active slot, so that the next start reports a
  second BEGIN, with an even number (`valkyrie_stage.py:188`). The same forgotten
  turn is why an END can be reported while its root may still run:
  `AliveIsCharged` excludes it (`stray`).
- A killed owner breaks its pipe. `_exhaust_all` (`valkyrie_stage.py:248`) raises at the
  first such write: turns later in its order are not killed, the slot stays active
  and END is never reported, so the Tracker charges on. Charging too long keeps
  `AliveIsCharged`; `ExhaustionSettles` and `CallReturns` say what is left.
- A policy that is not known reads as no quota (`vals/evaluation_quota.py:194`) and no trial
  (`vals/app.py:62`). Only the snapshot of the request keeps a cache entry that
  expires meanwhile from lifting both.
- A PTY creation that ends in `_bounded`'s own timeout raises
  `SandboxConnectionError`, which is not remembered as ambiguous: the retry's
  conflict with its own session fails the command and leaves the session (`OpenFalters`).
- A Docker command cancelled before its pid file is written is not killed
  (`spared = "unmarked"`); `src/README.md:237` says it is.
- A status file written while the PTY is being rejoined is lost with the failed join:
  the call ends in the connection's error although the command has a status
  (`unjoined`, which `CommandIsHonest` allows).
- After a command's exit code 137 Docker asks ten times, 0.1 s apart, whether the
  container has stopped (`docker.py:139`), Modal six times, 0.5 s apart (`modal.py:340`). A
  sandbox that stops and still reads as running for that long has its kill reported as
  the command's own failure (`SandboxCommandError(137)`) instead of the lost sandbox, which
  a caller would retry (`Believe`).
- Nothing in the service bounds how long an exchange with Descope takes. A key that Descope
  found valid just before its revocation is authorised, and cached for `AuthTTL`, whenever
  the thread returns (`vals/auth.py:245`); `RevocationReaches` adds that time to its bound.
- A failed teardown of the provider after the result was sent is sent as an error, and
  the client drops the result; the retry resumes from its checkpoint.
- A creation that was given up can leave an empty Daytona session or an unannounced
  sandbox (`MayStay`), to be reclaimed by its auto-stop. `CgroupWorkload` leaves out that a
  call of its own takes effect after its failure was seen: a session whose creation timed
  out and lands after `kill` returned would be left too, empty.

## The proofs

TLAPS checks these from nothing; the only assumptions are the named `ASSUME`s on the
constants, which TLC evaluates in the runs.

- **`DrainProofs`.** `TypeCorrect` first. `IdleReportIsTrue` alone is not inductive:
  a report says nothing of rows. `IInv` adds that whoever serves a request is a running
  worker, that the row of every request that works is in the store its worker
  opened (`WorkIsCounted`), and that a report at the store's revision and idle means
  an empty, closed store (`ReportIsCurrent`). From it `IdleReportSafe`,
  `WorkCounted`, and, step by step, `DrainRefinesGate`: every initial state and every
  step of `Drain` is one of `DrainGate`, or a stutter. `RefusalHonest` needs an
  invariant of its own (`RInv`: where a refused request can be, and that it has no row).
  `RowsLeave` and `CommandsOrdered` are action properties that follow from types.
  `RetriesRefineDrain`: whatever the clients of `DrainRetry` and the container do together
  is a behaviour of `Drain`, so that the theorems above hold of it. `StartsOnce` needs
  besides `RInv` that no try is sent beyond the last and each before it was refused
  by the drain (`TriesInv`); for any calls and any number of tries.
- **`GradingAdmissionProofs`.** `SlotsSafe` and `ReservationsSafe` are inductive
  with `TypeOK`; the work is in the cardinalities: `GrantCounts` (waking a set of
  waiters moves as many permits), `ReservationAdded` and `ReservationRemoved` (the
  counters follow the set). `QuotaSafe` needs to know how far each request is with its
  unit (`UnitInv`: none is charged before its thread ran, and what the thread answered
  says whether one was), and that a counter is the number of charged requests of its
  tenant and period. `SlotsKeepBusy` is inductive: each step that passes permits on
  grants one, or leaves none or nobody waiting. `AdmissionKeepsContract` is the refinement
  of `AdmissionContract`, step by step. Its `CInv` adds to the above only why a request is
  told what it is told (`ReasonInv`): an answer that waits for its thread was true when the
  thread looked, and stays true because no unit comes back within a period. The line is the
  harder half: tickets order the waiters, so that a set of woken waiters that is first by
  ticket is one in front of which nobody waits. The number of requests, the limits and
  the tenants are arbitrary; `Requests` is finite.
- **`TenantPolicyProofs`.** `PInv` says when a cached tenant was learnt (`AuthInv`) and a
  cached policy in force (`CacheInv`), what a request in each of its awaits may still
  learn and by when (`RequestInv`, with `ExchangeInv` for the answer on its way from
  Descope, `FetchInv` and `GrantInv`), and that a decision is that of the policy granted
  (`Decided`). The bounds come out of it: a revoked key authorises nothing after
  `AuthTTL`, two fetches and the time the exchange's answer was on its way, a replaced
  policy nothing after `PolicyTTL` and one fetch. For any keys, tenants, times to live,
  timeouts and delays.
- **`V1EvaluationProofs`.** For the engine alone, `GInv` relates the sandbox, the evaluation's
  task and the terminal chunk to where the engine is (`SandboxInv`, `TaskInv`,
  `VerdictInv`); `EngineTyped` and `EngineCorrect` (its three properties) follow. `EInv` has `GInv` as
  one part (`EngineInv`), so that the engine's proof is used again where a request
  takes the place of its caller, beside the folded evaluation (`FoldInv`), what was
  copied (`CopyInv`) and what the thread is at (`WorkInv`). Hence `AcceptedIsGraded`,
  `RequestCleanedUp`, `SandboxesEnd`, `TeardownOrdered` and `VerdictAnswered`.
  `RequestKeepsContract` refines `GradingContract`, one lemma per group of steps. It needs
  what the engine has not done yet at each place (`EnginePath`: no deletion before the
  teardown, nothing torn down without a verdict or a cancellation) and that a request
  leaves with an answer, a directory and no open stream (`FolderPath`). What the contract
  sees is the tuple `Sees`; a step that keeps it is a stutter.
- **`EvalSessionProofs`.** None of the four invariants of a session is inductive. `IInv`
  adds, for each session, what its stack of scopes says of its place, token and sandbox
  (`HeldInv`), what its two sides know of each other (`FlowInv`), that what is graded is
  saved and descends from the checkpoint that was resumed (`SavedInv`), and that
  every checkpoint under way is in the store and every result under way has its
  checkpoint before it, or held (`WireInv`). From it `StoredIsSaved`, `GradedIsSaved`,
  `GradingHolds` and `ReportedIsEarned`, for any number of sessions, graders and items.
  `SessionsKeepContract` refines `EvaluationContract`. A session alone does not know that
  the caller's checkpoints go forward; `CInv` adds that a handler collects and saves its own
  input for a grader that was deployed (`OwnInv`), that every checkpoint under way lies
  beyond those before it and beyond the newest the caller holds (`ChainInv`), and that the
  caller waits for one session at a time (`TurnInv`), so that what an abandoned handler
  still sends cannot overtake its successor.
- **`SandboxRecoveryProofs`.** `RInv` is the conjunction of what each cap allows
  (`CapInv`), which attempts have ended and how (`EndedInv`), which attempts an
  identity can name (`NamesInv`), what the next attempt is handed (`HandInv`) and how
  the consecutive errors relate to the history (`ErrorsInv`). All of
  `OutageIdentityKept`, `RetriesHaveACause`, `AttemptsCapped` (`CapsHold`) and
  `AcknowledgedOutageIsOver` follow for every cap and every set of policies.
- **`StageAgentsProofs`.** `SInv` says how far the Tracker is behind the log and what
  its interval is then (`TrackInv`), that only active turns and their containers are alive
  (`AliveInv`), and what each place of a call implies (`PlaceInv`). `Charged` is
  `AliveIsCharged` for any slots, parallelism and configuration; `LaunchesCharged` that
  every launch is in an open interval and no frame is sent before the previous one
  is acknowledged. `LInv` keeps the books beside it: a started turn is in exactly one of
  four places (`BookInv`), the results of a slot wait in the order of its turns
  (`OrderInv`), and a stop that found its slot active finds it unsettled or its result
  waiting (`PathInv`). `ResultsKept` is `ResultsExact`, `StopsReturned` is
  `StopReturnsItsTurn`; the work is in taking one result out of the middle of a
  sequence (`TakenOut`, `GiveLedger`) and in the cardinalities. `AgentsKeepContract` refines
  `AgentsContract`, which needs `AliveIsCharged` and `LInv` and two facts more: at
  most the last frame is unknown to the Tracker, and it is a BEGIN or an END according to
  where the call waits for it (`FrameInv`: hence charging ends only when nothing works or
  lives); and a turn under completion has its reason, nothing is asked of an idle call, and an
  admitted turn still has room when it begins (`HoldInv`). Steps that the contract does not
  see are stutters, or a call that comes back (`SilentMaps`, `QuietMaps`); a sweep, an
  exhaustion or a stop is a decision (`DecideMaps`), whoever caused it.
- **`SandboxUseProofs`.** Each part has an invariant of its own, and `UseInv` is their
  conjunction. `CreationInv` says which provider is at which step of a creation and that no
  cleanup runs behind a sandbox that was returned. `RunInv`, `PtyInv` and `StreamInv` say
  where the command's single run can be: nothing has run before it is typed, a session that
  ended without a status was lost to a fault (`Excused`), while connections drop freely;
  a killed command is killed together with its host or its PTY, and its status is believed
  only after every question. Confirmed absence is
  final because of who may still start a process: in a group only an owner that has not yet
  launched, and `GroupInv` says which status file proves that there is none; in a cgroup
  only a child that has not joined, and `CgroupInv` says that a removed cgroup is never
  made again and a closed session never opened again. `EndInv` is needed for types alone: a
  wait that closes its session knows how the agent ended. The theorems are `UseTyped`,
  `GoodHandles`, `HonestCommands`, `CommandsEnd` and `WorkloadsKeepPromise`, the refinement of
  `WorkloadContract`; for every set of providers, fault budget and number of attempts.

Only model-checked: the liveness properties `CallsSettle`, `DrainCompletes`,
`WaitersSettle`, `RequestSettles`, `CallEnds`, `ExhaustionSettles`, `CallReturns` and
`SessionsSettle` (fairness and `ENABLED` are out of the prover's reach). Every invariant, action property and refinement that a passing run
checks is proved for all values of the constants. Nothing here is an induction over
data: what a recursive definition computes is out of the prover's reach too, and
modules with theorems have no `RECURSIVE` operator.

## Not modelled, and why

- Daytona's admission capacity (`daytona.py`): a decision over one snapshot of the
  provider's usage. Nothing is reserved, and the scheduler that asks for it is not in
  this repository; volumes are single calls.
- Egress rules and the tunnel, plain HTTP routes, client methods of one request: one call
  and its answer, or data.
- The service without authentication asks no tenant policy at all.
- Traces, gauges and Sentry decide nothing; the command line interface and templates write
  files once; `vals-grading` is pure functions and single calls.
- `/ws/setup-task` and plain `evaluate_response` sessions share `EvalSession`'s handler
  and save nothing; `exec` and file transfers are single calls. `Sandbox.exec` on
  Daytona is retried after a failure and so may run twice, which Modal's process start
  refuses to (`modal.py:271`); callers must expect that.
- The service process's own death: drain rows and auto-stop are the only recovery
  (`WorkerDies`, `Reclaim`, `MayStay`).
- Output text, decoding, wording, labels and key formats.

## Plan

Written so far, most important first: draining, admission, grading, recovery, stage
agents, sessions, workloads, creation and commands, tenant policies, submissions.
The admission, one `/v1/evaluate` request, the evaluation sessions and the agents also
implement an abstract contract each, as draining implements its gate and the workloads
their promise. Next: the same for the recovery loop; composing
`GradingAdmission` with `V1Evaluation` (a slot per grade), as far as the state space
allows; and the ordinary `/ws/setup-task` and `evaluate_response` sessions in
`EvalSession`.
