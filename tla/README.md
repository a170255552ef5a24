# A verification project for badass-connector

TLA+ models of the connector (`src/badass_runner`), the TLC runs that check them on small
instances, and theorems checked by TLAPS for every value of the constants. Every definition is
translated from the Python source; `PROJECT.json` maps each one to the lines it stands for.

To run it: `tlc -config X.cfg M` for the runs of the table below, `tlapm M.tla` for the modules
whose name ends in `Proofs`.

## 1. The system

The connector runs on the operator's host, next to a target application. It asks a cloud service for
security test jobs, executes the tests against the target, and uploads the results. It is one Python
process with a few threads, some small files and the OS keyring, and a set of short commands.

| Component | Source | State | Operations |
| --- | --- | --- | --- |
| Job poller | `harness/job_poller.py` | the job at hand, the loop over its tests, results, stop event | poll, validate, claim, set up, execute tests, upload, fail, notify |
| Cloud client | `client.py` | none (an HTTP client) | register, heartbeat, poll, claim, complete, fail, upload capture |
| Runner process | `cli.py` `start` | `_state`, shutdown event, exit status | start-up, signals, callbacks, orderly shutdown |
| Heartbeat loop | `heartbeat.py` | back-off, stop event | beat, back off, report a refusal |
| Status server | `status_server.py` | one server thread | answer `/status`, stop |
| Registration, configuration | `cli.py`, `config.py` | `config.json` | exchange a one-time token, check the version, load, save |
| PID file, `status`, `stop` | `cli.py`, `config.py` | `runner.pid` | write, read, probe, signal, clear |
| Credential store, `cred` commands | `target/credentials.py`, `cli.py` | OS keyring and metadata index | set, remove, list, load, resolve by reference |
| Model-turn tests | `harness/executor.py` | session identity, suppression of the static one, reset flag | send prompts, extract identity, reset |
| Enforcement probes | `harness/executor.py`, `harness/enforcement.py` | headers of one leg, observations | guard, authorised leg, unauthorised leg, wipe |
| Surface probes | `harness/executor.py` | none | unauthenticated GETs |
| Reply extraction, native calls | `harness/executor.py`, `harness/native_calls.py` | none | pure functions |
| Sanitizer, redaction, logs | `harness/sanitize.py`, `recorder/redact.py`, `logs.py` | none | rewriting of strings |
| Target builder, validator, auth store | `target/builder.py`, `validator.py`, `proxy.py` | none kept | construct, validate with one trial request and at most one redirect |
| Recorder | `recorder/*.py`, `recorder_cli.py` | session, captures in memory and in a file | accept, forward, capture, persist, expire, stop, delete |
| Recorder commands | `recorder_cli.py` | the captures read | list, show, classify, upload, build and validate a target |
| Classifier | `classifier/classifier.py` | none | score a capture |
| Export guard, release gate | `scripts/` | stages, artifacts, manifests, output directory | stage, scan, build twice, compare, install |

How they interact:

- `start` registers (or loads the saved credential), writes the PID file, installs signal handlers, then
  starts the heartbeat thread, the status server thread and the poller thread. The threads
  call back into `start` (`_on_job_start`, `_on_job_complete`, `_shutdown`) and thereby share the
  dictionary `_state` without a lock.
- The poller calls the cloud client, and one executor per job, which calls the target and, for
  referenced enforcement probes, the credential store.
- `status`, `stop` and `cred` are other processes. They meet the connector only through
  `runner.pid`, the signals, the keyring and the index file. None of these is locked.
- `recorder start` is a process of its own with a server thread; the other `recorder` commands meet it only through
  the session's file, which they may read or delete while it grows.
- `release_gate.py` runs the guard and the build tools as child processes over a working tree that others edit.
- Several connectors may poll the same cloud; the claim decides between them.

What is hard: races between connectors for a job and between threads for `_state`; calls whose request
takes effect although the answer is lost; an early exit of the test loop by preflight, timeout or stop;
shutdown requested from four places; commands that read, decide and act in separate steps; files rewritten as
a whole; secrets kept in two stores; session state in an executor that outlives a test; observations that are paired by
position. `PROJECT.json` lists the hazards, each at the line where it bites, with the properties that
would catch it going wrong.

What makes each component correct:

- *Poller*: a job is executed at most once, by the connector that owns it; nothing is sent after a failed preflight, and
  after a stop at most what had passed its check; what is uploaded covers what was sent; what is shown as a success is one; it always gets out of
  a job.
- *Process*: every shutdown request and every refusal ends it, with a true exit status, and it tries to remove its PID file.
- *PID file*: it names the serving connector; no command denies that it serves.
- *Registration*: a serving connector can start again; no credential or token is given up for nothing.
- *Credentials*: keyring and index agree; a probe is complete, coherent and leaves no secret.
- *Tests*: identities are carried inside a session only; what is reported of a test is what was sent.
- *Replies*: a detail belongs to the call it is paired with; redaction changes no fact of what is uploaded.
- *Probes*: nothing that may change the target is sent unguarded; observations stay paired.
- *Recorder*: a capture is lost only with what is known to lose it, the count misses nothing, the session ends; a command finds what its user has seen answered,
  and a validation asks the target only.
- *Release gate*: nothing unguarded is built or released, and what is installed is what was released, as far as it is asked.

## 2. The modules

| Module | Role |
| --- | --- |
| `JobContract` | what the job service promises: abstract specification |
| `JobPoller` | the poller threads, their calls, and the cloud's job endpoints; implements `JobContract` |
| `MCJobPoller` | instances of `JobPoller` for TLC |
| `JobPollerProofs` | theorems about `JobPoller` |
| `RunnerProcess`, `RunnerProcessProofs` | one `start` process: main, heartbeat, status server and poller threads, signals; theorems |
| `PidFile`, `PidFileProofs` | connectors, other programs, `status` and `stop` over the PID file; theorems |
| `Registration`, `RegistrationProofs` | starts that register, save and load `config.json`; theorems |
| `CredentialStore`, `CredentialProofs` | commands, uninstallation and a resolving runner over keyring and index; theorems |
| `ReplyEvidence` | pure operators: what a reply becomes, from its body to the upload |
| `TestExecution` | the model-turn tests of a job |
| `EnforcementProbe` | one enforcement probe |
| `JobExecution`, `MCJobExecution` | composes both with surface probes: the tests of a job on one executor; its instances |
| `JobExecutionProofs` | theorems about `EnforcementProbe`, `TestExecution` and `ReplyEvidence`, alone and in their places in `JobExecution` |
| `Recorder` | one recording session |
| `CaptureClassifier` | pure operators: the score of a capture and the choice among those of a session |
| `RecorderCommands`, `MCRecorderCommands` | composes both with one command on the session's file; its instances |
| `RecorderProofs` | theorems about `Recorder`, `RecorderCommands` and the classifier's choice |
| `ReleaseGate`, `ReleaseGateProofs` | the release gate and the guard it calls; theorems |

Definitions preceded by a comment that begins with "Faulty" are variants of the one below them, with the mistake the comment
names. They are used by no specification: each is exchanged for the right definition to see that
the property it is paired with in `PROJECT.json` (`mutants`) is then violated.

### JobPoller

A call is three steps: the runner sends it and waits (`Call`), the cloud serves it (`CloudAccepts`,
`CloudRefuses`), the runner takes the reply (`CallReturns`). While it waits the client may raise
(`CallRaises`: timeout, lost connection, body that does not parse); the request it stopped waiting for stays in
`late` and may still reach the cloud, or not. `pc` is the place of the thread in `_loop` and
`_execute_job`; `cur`, `next`, `results`, `preflightFailed` and `expired` are the locals of
`_execute_job` and vanish with its frame (`Forget`). `dispatched` and `baseline` are what an observer
in front of the target sees. `activeRun` and `lastRun` are what the callbacks have shown. `Stop` sets the
event, `Kill` ends the process under the thread (a crash, or the ten-second limit on the join), `Start`
starts it again.

The check of the stop event and what follows it are steps of their own, before the poll (`CheckStop`, `Poll`, `PollFails`) and before
each test (`NextTest`, `BeginTest`), so a stop may come in between; `begun` counts the jobs and tests taken up since. `Unhandled` is
the last resort of the loop. The loop's waits have no durations. The kinds of tests differ in how a raised exception is recorded
and in whether they may be a preflight; their own requests are in `TestExecution` and
`EnforcementProbe`. The cloud is external: it is what `docs/api-contract.md` and the calls in
`client.py` expect of it, made as weak as they allow (any call may be refused at any time).

### RunnerProcess

`main` walks through `start` line by line; the other threads are `heartbeat`, `server` and
`poller`. `status` is `_state["status"]`, which three threads write. `cause` is a history variable: the
first reason the process had to end. The poller is reduced to what `start` sees of it: its callbacks and
its end. `backoff` is counted in seconds and capped as in the code. The signal handler runs in the main thread and sets the event on which that
thread waits: `SignalInLock` is the signal that comes while the thread holds the lock of the event, whose handler waits for
it for ever. `clear_pid` swallows the error of a file that it cannot remove, which is then `"undeletable"`.

### PidFile

`proc` says what each process id stands for: a connector in one of four phases, another program, or
nothing. `status` and `stop` read the file, look at the process, and clear the file in separate
steps. `Overlaps` says what the environment may do during a start: run commands, start a second connector, both or neither. Process ids are reused
freely, and the file may turn out not to be removable.

### Registration

A credential is named by the token it was exchanged for. `file` is the content of `config.json`: nothing, a
credential, or text that does not parse, since `save_config` empties the file before it writes it. A start
may be killed, refused, unanswered or unable to save at every step, and two starts may overlap.

### CredentialStore

`keyring` and `index` map each reference to the credential stored and the credential described.
A command loads the index (`Load`), changes the keyring (`SetSecret`, `DeleteSecret`) and replaces the index
(`Save`), and may be cut short before the last step (`SaveFails`, which is also its crash). The runner keeps the
`snapshot` it loaded at its start. `unsettled` and `changed` are history variables: references whose last change was cut
short, and references changed since the runner started. `Careful` lets commands run one at a time.

### ReplyEvidence

A body is opaque (a redirect, an error, an HTML page, raw text, no object) or an object of which are kept: for each place where an
answer is looked for, whether it is absent, blank or a text; the two lists of native calls; the number of `tool_use` blocks; and
whether the session field is there. `Source` is `_extract_reply`, `CaptureNativeCalls` and `TurnCalls` pair the two lists
by position, `Turn` is the `StepResult`, `Upload` is `sanitize_turns`. A tool's result is reduced to
what `bounded_result_facts` distinguishes. What redaction finds is left open: any set of names (`names`) and any set of results (`hits`), secret or not, so
that no claim about the patterns is made. `Kept` is what a list comprehension with a condition leaves: the i-th
element is the one whose place has rank i among the places kept. It stands where `SelectSeq` could, which the provers
know nothing of; on sequences of up to five elements TLC finds them equal. The label that says where an answer was found is left out.

### TestExecution

The fields of the executor (`session`, `suppress`, `resetRan`) live as long as a job. Every identity in a reply is new, so
that a request shows how old the identity it carries is. An identity is taken from a reply with an answer only: `told` is what such a reply said. The fixed
identity of the target's `extra_body_fields` is stripped in a test that names the session field, and sent in one that does not. `body`, `turn` and `upload` follow the last reply of a test
through `ReplyEvidence`. A reply may make the parser raise (`StepRaises`).

### EnforcementProbe

A leg is a variant and whether it is the authorised one. The guards on the probe and on each
variant, the overrides of a variant, the two legs in their order, the end of each request and the wiping of
headers are as in `execute_enforcement_probe`. `prepared` holds one dictionary of headers for each leg, which
`LegIsOver` clears. The bodies of requests and replies are left out.

### JobExecution

One executor serves the tests of a job in their order, whatever their kind. A referenced probe may fail to resolve, and a
surface probe makes one GET for each path, and may raise, which leaves an empty result without an error (`SurfaceProbeRaises`). Neither carries or touches the session of the tests around it; `sent` holds the requests
of model-turn tests only. (Enforcement legs do carry the fixed fields of the target, a fixed session field among them.)

### Recorder

One server thread, so one request at a time, from the accepted connection to the answer; the main thread
waits for a signal or the end of the lifetime; another process may delete the file at any time, between its opening and the writing of a line too
(`linked`). A line may be written in part or without its end (`torn`): the next one is then appended to it and cannot be read (`glued`).
`deleted` and `refused` are the other captures that are lost. A signal may come while the lock of the event is held, as in `RunnerProcess`. `answered` is what
the clients have seen, `failed` the requests to which the target did not answer; those are captured too, after the client was told.

### RecorderCommands

`traffic` says what each request is, in the terms of `CaptureClassifier`. A command loads the file once, at any moment of the recording,
and works on what it loaded. The validation of `build-target` is modelled request by request; what an endpoint path makes of the base URL
(it stays, extends the host or port, or leaves no URL) is an input. `owed` is a history variable: when the file was read, a client had
been answered a conversation that was kept and not deleted since. `list` and `show` only print.

### ReleaseGate

A tree has the Python files of the package, the other files, and a version; contents differ or are `unfit`, which stands for everything the guard
refuses. Files are copied one group after the other, as the code does, and `Edit` may come in between. `Made` says what a build
tool may produce: its stage, or its stage with one part altered. `output` may hold wheels of earlier releases (`Leftovers`), which nobody removes. The version in a
tree and in the name of a wheel is that of `pyproject.toml`; what the installed runner prints is a constant of its code (`Prints`), and the two
are independent: `CurrentCode` are the contents that print the expected version. The
comparison is that of `content`, without digests. `build`, `verify` and `clean-install` are parts of the `all` command that is modelled.

## 3. The runs

| Run | Module and cfg | Instance | Shows |
| --- | --- | --- | --- |
| `poller_race` | `MCJobPoller`, `JobPollerRace` | 2 connectors, 1 guarded job of 3 tests of different kinds | safety of the poller and that it implements `JobContract` |
| `poller_live` | `MCJobPoller`, `JobPollerLive` | 1 connector, 2 jobs (one rejected, one guarded) | every job is left, a stop ends the thread, queued jobs are served |
| `runner` | `RunnerProcess` | back-off 1 to 3 | exit status and PID file; refusals and requests end the process, unless a client or the event's lock keeps it |
| `runner_exit` | `RunnerProcess`, `RunnerProcessExit` | the same | **violation**: exit status 0 after a refusal |
| `pid_file` | `PidFile` | 2 process ids, one `status`, one `stop`, nothing overlaps a start | the file names the serving connector, no command denies it |
| `pid_overlap` | `PidFile`, `PidFileOverlap` | the same, commands overlap a start | **violation**: a command that read the id of a crashed connector denies the one that started since |
| `registration` | `Registration` | 2 processes, 3 tokens | saved credentials and tokens are not given up for nothing |
| `credentials` | `CredentialStore` | 2 references, 2 credentials, one command at a time | agreement of the stores, completeness and coherence of probes, wiping |
| `job_execution` | `MCJobExecution`, `JobExecution` | pairs of tests of 1, 2 or 4 prompts cut to 3 with every set of resets; every probe of 1 or 2 variants; mixed jobs of 3 tests; every reply | identities within sessions, true and complete results, pairing, guards, headers, evidence |
| `test_docs` | `MCJobExecution`, `TestExecutionDocs` | the example job of the API contract | **violation**: the reset comes one prompt late |
| `recorder` | `MCRecorderCommands`, `Recorder` | 3 requests (a conversation, a save, a form with a message), room for 2, one command | survival, count, end, conversations found, validation at the target |
| `release_gate` | `ReleaseGate` | 2 edits, at most one older wheel of each version, one content of two prints the expected version | nothing unguarded released, the release installed unless an older wheel prints its version |

Why the bounds are enough. Two connectors are needed, and suffice, for a race over a claim: every further
one sees either a queued job or one owned by another. Three tests are a
preflight, a test after it, and one after that at which the loop may break; three of the four kinds differ in the loop. Two process ids
allow a stale file, a reused id and a second start. Two references let a command on one harm the
other; two credentials tell a changed secret from an unchanged one. Three tokens allow
a registration after one that was lost after one that was saved. Two tests with four prompts each allow
resets before, at and after the cap on turns, and identities that cross a test. Two variants allow an
error in the first to disturb the second. A mixed job puts a probe between two tests that carry a session. Replies are
every combination of texts in the five places of an answer, and every two lists of up to two calls: two calls suffice for lists that
differ in length, order or one name. Two captures and three requests fill the session and go on, and three
exchanges put a conversation before and after others. Two edits can change a file and change it back, or
change two files. The
theorems of section 5 remove these bounds for every safety property; they stay for liveness.

Deadlock is checked in every run: a finished process, session or probe stutters by an action of its own,
so a thread that waits for something that never comes is reported, unless the model says who may keep it waiting: a client, the target,
or the lock of an event.

## 4. Fairness

- *JobPoller*: weak fairness of each thread, since Python schedules every thread and every wait of this one is
  bounded (calls by the client's timeout, requests to the target by the executor's; httpx limits each read, so an
  answer that keeps coming piece by piece is assumed to end), and of the
  cloud's RUNNER_OFFLINE timer. `JobIsServed` additionally assumes, as the antecedent `ServedFairness` of the
  property, that the cloud lists each queued job first again and again and that not every
  call is lost: the code promises nothing without them.
- *RunnerProcess*: weak fairness of the threads, strong fairness of `BeatRefused`, because heartbeats are repeated for ever
  and only a network that loses them all would prevent a refusal from arriving. Nothing is assumed of the clients of the
  status server: `ShutdownCompletes` says that the process ends unless one of them is served for ever, or the main thread waits for the lock
  of the shutdown event for ever.
- *Recorder*: weak fairness of the main thread and of what the server does by itself (`ServerWorks`); none of what waits for a client or for the target
  (`ServerWaits`), and none of the user's command. `SessionEnds` names these waits.
- *PidFile*: weak fairness of a command or a shutdown that has begun (`FairSpec`, used by `pid_overlap` only).

## 5. What is proved

All theorems hold for every value of the constants that satisfies the named assumptions of their
module. They are safety properties, proved with inductive invariants.

| Theorem | Module | Property |
| --- | --- | --- |
| `SingleExecution` | `JobPollerProofs` | `EachTestOnceByOwner` |
| `PreflightIsABoundary` | `JobPollerProofs` | `PreflightBoundary` |
| `SuccessfulRunsAreCompleted` | `JobPollerProofs` | `SuccessIsCompletion` |
| `StopIsHonoured` | `JobPollerProofs` | `NoWorkAfterStop` |
| `ActiveRunIsShown` | `JobPollerProofs` | `ActiveRunShown` |
| `CompletedJobsAreCovered` | `JobPollerProofs` | `CompletedCoversDispatches` |
| `PollersImplementContract` | `JobPollerProofs` | `ImplementsContract` |
| `ServingIsAlwaysNamed` | `PidFileProofs` | `ServingIsNamed`, if nothing overlaps a start |
| `StoresAgree` | `CredentialProofs` | `Settled` |
| `ProbesAreCoherent` | `CredentialProofs` | `ProbeIsCoherent` |
| `ProbesAreCompleteAndWiped` | `CredentialProofs` | `ProbeIsComplete` |
| `NotRunningIsSaidTruly` | `PidFileProofs` | `NotRunningIsTrue`, if nothing overlaps a start |
| `FailuresHaveACause` | `RunnerProcessProofs` | `FailureHasACause` |
| `StalePidsAreCrashes` | `RunnerProcessProofs` | `StalePidNeedsCrash` |
| `OnlyNewerCredentialsReplace` | `RegistrationProofs` | `CredentialsKept` |
| `ServesWhatIsSaved` | `RegistrationProofs` | `ServingIsSaved` |
| `NoTokenIsSpentForNothing` | `RegistrationProofs` | `SpentTokensAreSaved` |
| `MutationsAreGuarded` | `JobExecutionProofs` | `MutationIsGuarded` |
| `HeadersAreOwn` | `JobExecutionProofs` | `OwnHeaders` |
| `ObservationsAreComplete` | `JobExecutionProofs` | `ObservationsPaired` |
| `JobMakesProbes` | `JobExecutionProofs` | `ProbeSpec`, of the specification of a job |
| `JobIsGuarded` | `JobExecutionProofs` | `MutationIsGuarded`, `OwnHeaders` and `ObservationsPaired`, for the probes of a job |
| `TestsShareNoIdentity` | `JobExecutionProofs` | `TestsAreIndependent` |
| `NoIdentityOutlivesAReset` | `JobExecutionProofs` | `ResetsSeparate` |
| `IdentityIsPassedOn` | `JobExecutionProofs` | `IdentityIsCarried` |
| `ResultsReportAllDue` | `JobExecutionProofs` | `ResultsAreComplete` |
| `AssertionsAreTrue` | `JobExecutionProofs` | `AssertedIsTrue` |
| `PairsAreOfOneCall` | `JobExecutionProofs` | `PairingIsPositional` |
| `FactsAreOfTheRawResult` | `JobExecutionProofs` | `FactsOutliveRedaction` |
| `CapturesAreNotLost` | `RecorderProofs` | `CapturesSurvive` |
| `CountIncludesEverything` | `RecorderProofs` | `SavedCountIsTrue` |
| `CommandsOnlyRead` | `RecorderProofs` | `Recorder`'s `Spec`, of the specification with a command |
| `ProbesStayAtTheTarget` | `RecorderProofs` | `ValidationStaysAtOrigin` |
| `AnsweredMessagesAreFound` | `RecorderProofs` | `ConversationIsFound` |
| `OnlyGuardedReleases` | `ReleaseGateProofs` | `OnlyGuardedIsReleased` |
| `InstallsTheRelease` | `ReleaseGateProofs` | `InstalledIsReleased` |
| `TypeCorrect` | every module of proofs | its `TypeOK`; in `JobExecutionProofs` `JobTypeOK`, in `ReleaseGateProofs` `ReleaseTypeOK` |

What they assume. The constants have the named assumptions of their modules, which TLC evaluates on the instances. Two
theorems about credentials hold under `Careful` (commands that do not overlap), and those about what the PID file names and what commands say
of it under `Overlaps = {}`, and say so; section 6 tells what happens without. About the
replies of a target it is assumed that each is one of `Bodies`, which puts no bound on its lists.

The arguments:

- `SingleExecution`. That each dispatch is the owner's is not inductive: a claim granted while its answer is
  under way, or late, makes an owner that executes nothing. `ExecutionInv` adds that a connector whose claim was granted to it
  owns its job, that a queued job has no owner and a job without an owner has seen no dispatch, and that the loop
  index counts the dispatches of the job at hand. TLC finds the same formula invariant on the instance of `poller_race`.
- `StopIsHonoured`. A thread that is to stop has taken up nothing since, or one thing and is then no longer between a check and what it allows
  (`StopInv`).
- `PreflightIsABoundary`. `PreflightInv` ties the local `preflightFailed` of the executing thread
  to the `baseline` the observer saw; it needs `ExecutionInv`, by which no one else dispatches for the job.
- `SuccessfulRunsAreCompleted`. An upload that was answered was stored by its owner, and nothing
  leaves the state COMPLETED (`SuccessInv`).
- `CompletedJobsAreCovered`. The property speaks of what is stored; an upload may be stored long after it was sent, when its
  sender has gone on or died. `CompletionInv` says of every upload, be it under way, late or stored, that it `Reports` on
  what was dispatched and that its job is `Closed`: nobody tests it, and nobody can be granted it again (`ClosedStays`). `Gathering` says
  that the results of an executing thread are those of the tests before its index. That the cloud completes a job only with an upload under
  way is `StepsServeRequests`. It needs `ExecutionInv` and `PreflightInv`.
- `PollersImplementContract`. With these as invariants each step maps to a step of `JobContract` or to a stutter: a request that the cloud serves, a late
  one too, is the claim, the completion or the failure of its job (`ServedAsContract`), a test that begins is the dispatch of the next one
  (`BeginTestAsContract`).
- `ServingIsAlwaysNamed`, `NotRunningIsSaidTruly`. If nothing overlaps a start, a connector past the writing of the file is named in it, and a
  command about to clear the file has read a process id that is gone (`NamedInv`).
- `FailuresHaveACause`. Only a refusal ends the poller while the main thread still waits, so the token was refused whenever
  the status, or the reason read from it, is one of failure (`FailureInv`). The converse is violated (`runner_exit`).
- `StalePidsAreCrashes`. The ways a process ends are a crash, a failed start and `Exit`, and the end is not undone.
- `OnlyNewerCredentialsReplace`, `NoTokenIsSpentForNothing`. A start about to save holds the credential of its own
  token (`SavingInv`), which was never saved and which no other start holds (`FreshInv`), and no step loses sight of a credential (`AccountedFor`).
- `ServesWhatIsSaved`. Of starts that do not overlap, the one at work finds its own credential where it left it, or its own emptied file (`AloneInv`).
- `StoresAgree`, `ProbesAreCoherent`. When commands do not overlap, the records a command loaded are those of the
  index until it saves (`StoreInv`); the snapshot of the runner agrees with the index on
  what was not changed since (`SnapshotIsCurrent`).
- `ProbesAreCompleteAndWiped`. What is held is exactly what is planned and no longer pending (`HeldIsResolved`);
  this one holds for overlapping commands too.
- `MutationsAreGuarded`. The guards were passed for every request made and for the leg at hand (`GuardInv`).
- `HeadersAreOwn`. The dictionaries of the legs still to come are as they were prepared, the one in use is the
  leg's own, those of past legs are empty (`HeadersInv`).
- `ObservationsAreComplete`. The number of observations is that of the legs behind the one at hand, each is in its place, and
  requests were made for those and the one at hand only (`PairInv`).
- `JobMakesProbes`, `JobIsGuarded`. Every step of a job is a step of one probe or leaves the probe's variables alone, given that a probe at hand
  is one of the job's (`JobInv`); what holds of a probe then holds in a job.
- `TestsShareNoIdentity`, `NoIdentityOutlivesAReset`, `IdentityIsPassedOn`. None of the three is inductive: they speak of what was carried, and the next
  request carries what the fields of the executor hold. `SessionInv` says of those that the identity at hand is younger than every
  request that bars older ones (of an earlier test, or before a reset of this one), is the last one told if the last reply came with one and no reset is due,
  and that the fixed one is suppressed in every model-turn test.
- `ResultsReportAllDue`. What the test at hand has done so far is counted by where it is (`ResultsInv`); for a model-turn test this is the
  cardinality of a set of requests, which grows by one with each prompt, and for a probe it is the observations of `PairInv`.
- `AssertionsAreTrue`. The first request of a test carries no identity, and a reset that ran is one of a test with a session field (`AssertInv`).
- `PairsAreOfOneCall`, `FactsAreOfTheRawResult`. What is uploaded was made of the last reply (`EvidenceInv`); the rest is about the operators. `Kept` returns an
  element of a kept place for each rank, because each number up to the size of a set of places is the rank of one of them
  (`RanksAreTaken`, by the least place that has at least that rank), and the whole sequence if all places are kept (`AllKept`). A paired turn
  is one whose every entry is kept, so ranks are places.
- `CapturesAreNotLost`, `CountIncludesEverything`, `CommandsOnlyRead`. Memory is the file, what was deleted, refused or glued, and the one being written (`Kept`); a line without
  an end is that of a refused capture, and none but the one at hand has followed it (`LastLine`); the process counts when its
  server is done; the request at hand is later than all others and its client has no answer yet (`RecorderInv`). A command changes no variable of the session.
- `AnsweredMessagesAreFound`. A client that was answered was never told of a failure, and its capture was written before (`InOrder`), so
  a command that owes a conversation holds it until it says what it found (`HasConversation`). A conversation is likely by its points, and
  the choice exists because a set of numbers has a least one: the least loss of points, and among those the first (`BestIsLikely`).
- `ProbesStayAtTheTarget`. Where a validation is tells how many requests it has sent (`Probes`).
- `OnlyGuardedReleases`. A stage is guarded once it is complete and not touched until the next build (`StageInv`); a passed
  guard of the artifacts ties them to that stage (`ArtifactInv`), and so what is recorded of each build (`RecordInv`).
- `InstallsTheRelease`. Publishing leaves one wheel of the built version in the first directory and replaces the older one of that version; the second
  build does not touch it, and the comparison makes both builds' records one (`OutputInv`). Every other wheel there is an older one, and
  the installation refuses it by its version or, for the runner, by what it prints.

Every safety property that a passing run checks is thus stated by a theorem. Only model-checked are the five liveness properties,
`JobIsLeft`, `StopEndsThread`, `JobIsServed`, `ShutdownCompletes` and `SessionEnds`, because fairness and ENABLED are out of the
prover's reach. That the operators on replies agree with `SelectSeq` and the community modules' `SelectInSeq` on inputs of any length, and that
`BestOf` is what a stable sort by confidence puts first, is not proved: it would need induction over data. The
theorems about them use their definitions as they are. The three expected violations are counterexamples, for
which the run is the evidence.

## 6. Where code and documents differ

Three differences have a run that exhibits them:

- `runner_exit` (`cli.py:417`). The main thread reads the reason for its exit from `_state["status"]`, which a poller
  callback may have replaced since the refusal; the process then exits with 0, where `docs/api-contract.md:185-186` says 1.
- `pid_overlap` (`cli.py:447`). `status` and `stop` judge by the process id they read. A command that read the id of a crashed connector, when
  another one starts, writes its own and serves, says that nothing is running, and then removes the file that names the one that serves.
  `README.md:233` says that `status` shows whether a connector is running.
- `test_docs` (`executor.py:1167`). `new_session_before` resets one prompt later than
  `docs/api-contract.md:262` says. (The example of the document names no session field; the run's instance of it does.)

The models show these too, but no run is kept for them:

- A lost answer to `complete_job` is followed by `fail` (`job_poller.py:619`); `docs/api-contract.md:65-67` excludes that for
  network errors, while line 430 of the same document asks for it.
- An invalid envelope is failed without a claim (`job_poller.py:298`), although sections 4 and 585-595 of the contract
  reach FAILED from RUNNING. A connector of an older version can so fail a job that another one executes; `SuccessIsCompletion` is proved for
  that case as well.
- A claim refused with 5xx is made again at the next poll, where section 4 says it is not retried.
- The back-off of the heartbeat is exponential and capped (`heartbeat.py:71`), where line 180 of the contract describes it
  differently.
- `stop` signals whatever process has the id in a stale file (`cli.py:489`; `README.md:234`).
- Two `cred` commands that overlap each save the whole index they loaded, and one record is lost (`credentials.py:167`).
  `CredentialStore` shows it with `Careful = FALSE` and two writers: `Settled` is violated.
- Removing the configuration directory, the documented uninstallation (`docs/install.md:98-101`), leaves the secrets in
  the keyring (`Uninstall`).
- A later start that still finds its token in `BADASS_REG_TOKEN` registers again and is refused (`cli.py:279`), although its credential is
  saved (`cli.py:269`, `docs/install.md:169-173`).
- A client that stalls keeps the status server (`status_server.py:55`) or the recorder's proxy (`recorder/proxy.py:207`) from stopping,
  and with it the process; so does a target that answers piece by piece, since httpx limits the time between two pieces only. A signal that
  interrupts the main thread inside the wait on an event, while it holds the event's lock, makes the handler's `set()` wait for ever (`cli.py:356`,
  `recorder_cli.py:92`). `ShutdownCompletes` and `SessionEnds` except these cases, which TLC reaches, and no other.
- `start` writes its process id before it binds the status port and leaves it when the bind fails (`cli.py:346`, `380`). A second start
  thus hides the first one from `status` and `stop`. `PidFile` shows it with `Overlaps = {"starts"}`: `ServingIsNamed` is violated.
- `clear_pid` is silent about a file that it cannot remove (`config.py:63-68`), so an orderly exit may leave it.
- An identity in a reply without an answer is dropped: `send_step` returns before it looks at the session field (`executor.py:1041-1056`, `1083`).
- In a test without a `session_id_field` the fixed identity of `extra_body_fields` is sent (`executor.py:889-896`).
- A surface probe that raises is recorded as an empty list of observations without an error (`job_poller.py:582-590`).
- "Captures are not lost if the process crashes" (`recorder/storage.py:9-10`), but a line that was written in part, on a full disk, takes the capture
  appended to it along when the file is loaded (`storage.py:56-59`); and "n capture(s) saved" (`recorder_cli.py:115`) counts those that were refused.
- The classifier says that a plain POST of JSON scores 40 of 100 and so stays below the threshold (`classifier.py:26-32`). With the type of
  the response it scores 45, and with a keyword in its path 55: the keywords match inside words, so `/api/email` has one (`ai`). Nor does a prompt and a
  response field always give 70: sent by PUT as a form that is answered without a type they give 58.
- The classifier does not look at the status. A message that the target refused, or did not answer, may be the best of a session, and
  `upload` reports status 200 for whatever it uploads (`recorder_cli.py:386`), with an empty `target_url` since no capture has the field it reads
  (`recorder_cli.py:380`). Its warning `html_shell` looks at the type of the request (`recorder_cli.py:372`).
- `build-target` documents a default for `--base-url`, the target of the session (`recorder_cli.py:175`, `207`), and has none.
- A validation "sends one real HTTP request" (`validator.py:32`): two, when the first is redirected. A path that makes a URL
  without a proper port, and a JSON reply that is no object, raise instead of giving a result.
- The label of an answer (`_extract_reply_with_meta`) may name another place than the answer has, if the content of a choice is blank.
- A message that is `null` in the first choice of a reply makes `send_step` raise, and all turns of the test are lost to the report.
- The commit that the release gate prints (`release_gate.py:232`) is that of the repository at that moment; nothing ties it to the working tree that was staged.
- The release gate takes any wheel of its output directory (`release_gate.py:291`), which nobody empties. Of the runner it asks what `--version` prints
  (`release_gate.py:357`), which is a constant of the package (`badass_runner/__init__.py:1`) and not the version of the wheel: an older wheel whose constant
  already is that of this release is installed in its place, and the gate passes. Of the protocol it asks the version, by the runner's requirement: if the
  protocol's tree has another version than the gate expects and the directory holds an older wheel of the expected one, that one is
  installed. `InstalledIsReleased` excepts both.

## 7. What is not modelled

The patterns that recognise secrets in strings (what redaction finds is left open, and nothing is claimed of it, but that facts do not depend on it) and the lists of names, extensions and markers (data); the label and the wording of results; log output;
the local auth store and the header stripping of the builder, which no command uses; the details of archives (members, RECORD, sizes), which
the release gate's model reduces to fit or unfit; the code that the clean installation runs, but for its check of versions. TLS, the
deserialisation of envelopes, the protocol package and the build tools belong to others. Durations
are not modelled: a timeout is a step that may happen whenever the code looks at the clock.

## 8. Plan

The core came first: the poller with its contract, then the process around it, then the stores it relies on,
then the execution of a job with everything a reply goes through, the recorder with its commands, and the release gate; then the
proof of each safety property. What is left, in this order:

1. Abstract specifications of what other components promise, and proofs that the models implement them: a credential
   store in which each command is one step (under `Careful`), and a recording whose answered requests are kept.
2. The choice of the classifier: that `BestOf` depends on the order of the captures among equals only.
3. The safety half of `JobIsLeft` and `ShutdownCompletes`: that a thread in a job, or a process that is to end, is never in a place
   without an action of its own, stated without ENABLED as a disjunction of guards.
