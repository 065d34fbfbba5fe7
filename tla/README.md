# A verification of apiverity

TLA+ modules, TLC configurations and TLAPS proofs for apiverity (`src/apiverity`):
first the parts whose correctness depends on the order in which things happen
(requests that race in the self-hosted server, timers that race with an editor,
processes that are killed half-way, files that change while they are looked at),
then the parts that decide (the difference engine, the rules, the checks a
pipeline acts on), as operators inside small machines that exercise them.

Paths below are relative to `src/apiverity/` unless they start with `src/`.

| Module | Models | Checked by | Proved in |
|---|---|---|---|
| `JobQueue` | the server's run queue: `server/jobs.py`, the run methods of `server/store.py`, their routes in `server/api.py` | `JobQueue_crash`, `_events`, `_live`, `_retry` | `JobQueue_proofs` |
| `RunPhases` | what the run queue promises, one step per request | as a property of `JobQueue_events` | `JobQueue_proofs` |
| `ReleaseGate` | freeze, approvals, can-i-deploy, publishing and the audit log of the server | `ReleaseGate` | `ReleaseGate_proofs` |
| `AuditExport` | the hash chain and the checks on an export (operators) | by `ReleaseGate`'s properties | with `ReleaseGate` |
| `PlatformServer` | accounts, contracts with findings, environments, policies, webhooks, import and export: `server/store.py`, `webhooks.py`, `auth.py`, and the CLI's second connection | `PlatformServer` | `PlatformServer_proofs` |
| `OidcProvider` | the cache of sign-in keys: `server/oidc.py` | `PlatformServer` | `PlatformServer_proofs` |
| `LanguageServer` | the message loop and debounce timers of `lsp/server.py` | `LanguageServer` | `LanguageServer_proofs` |
| `Monitor` | `apiverity monitor`: `runtime/monitor.py` around a drift check | `Monitor` | `Monitor_proofs` |
| `FileWatcher` | `apiverity watch`: `cli/watch.py` | `FileWatcher` | `FileWatcher_proofs` |
| `Schema`, `Canonical`, `Validation` | the schema tree of `core/model.py`, its canonical form, the validator (operators) | `ContractEvolution` | |
| `SchemaDiff`, `ContractDiff`, `BreakingRules` | `diff/engine.py` and the rules its changes break (operators) | `ContractEvolution`, `Pipeline` | |
| `ContractEvolution` | two edits of a contract, and what is said of them | `ContractEvolution` | |
| `Compat`, `Semver`, `ProjectFiles`, `Lifecycle`, `Policy` | what `validate` and `breaking` add to a difference (operators) | `Pipeline` | |
| `ReleaseTrain` | releases through `validate` and `breaking`, over days | `Pipeline` | `PipelineCommands_proofs` |
| `Health` | `sweep` and `digest` of a tree of contracts | `Pipeline` | `PipelineCommands_proofs` |
| `ToolSurface` | drift of an MCP server, and the lock on its tools | `Pipeline` | `PipelineCommands_proofs` |
| `Observed`, `RuntimeChecks` | drift with a baseline, call budgets, ghosts; recordings and live | `Pipeline` | `PipelineCommands_proofs` |
| `Performance` | measurements, objectives, load runs from a pool of threads | `Pipeline` | `PipelineCommands_proofs` |
| `PipelineCommands` | these machines side by side, and what each promises | `Pipeline` | `PipelineCommands_proofs` |
| `ContractTests` | generated requests, their verdicts, the two-identity probe | `Pipeline` | |
| `References` | contracts of several files: bundling and the dependency graph | `Pipeline` | `PipelineCommands_proofs` |
| `MockServer`, `Workflows`, `Arazzo` | the stateful mock, manifests and their round trip (operators) | `WorkflowRun` | |
| `WorkflowRun` | workflow commands through the proxy against the threaded mock | `WorkflowRun` | `WorkflowRun_proofs` |

`MCContractEvolution`, `MCPlatformServer`, `MCWorkflowRun` and `MCPipeline` give
values to constants a configuration cannot write down; `MCPipeline` also puts
`PipelineCommands` and `ContractTests` side by side. Operators named `<Definition>_<Word>`
in a module are *mutants*: the definition as it would be with a plausible bug. No
specification uses them; `PROJECT.json` pairs each with the property that must
then fail.

Run, in this directory:

    tlc -workers 2 -config JobQueue_crash.cfg JobQueue
    tlapm JobQueue_proofs.tla

## 1. The system

apiverity reads API contracts, compares them, probes live services against them
and serves the results. Most of it is a function from documents to findings. The
parts with state and with interesting orders of events are few; the rest earns
its models by what it decides.

**Run queue** (`server/jobs.py`, `store.py`, `api.py`). State: the tables `runs`
and `run_events`. Operations: enqueue (with an idempotency key and a limit on
active runs), record, claim, progress, complete, cancel, stream. Workers pull.
Hard: every request is a thread; all threads share one SQLite connection and so
one transaction; check and use are different statements; the process may die
between two statements. Correct when a run is handed out once, what was answered
survives a restart, the limit is kept up to the number of racing clients, one
key names one run, events tell the status.

**Release gate and audit log** (`server/freeze.py`, `decision.py`,
`audit_export.py`, `store.py`, `api.py`). State: the tables `freezes`,
`approvals`, `contracts`, `runs` (verifications), `audit`. Operations: freeze,
lift, request and decide approvals, publish, verify, can-i-deploy, export and
check the audit log. Hard: a kill switch pulled from two terminals; a
read-append of the chain's tail by several threads; a decision read from three
tables that change. Correct when one lift releases a freeze, an honest log never
looks tampered with, nothing is released under a freeze.

**Other parts of the server** (`store.py`, `webhooks.py`, `schema.py`, `auth.py`,
`oidc.py`). State: accounts, contracts, findings, environments, policies, webhooks;
a cache of sign-in keys. Hard: publishing and importing commit several times and
may be cut in the middle or fail in one statement, while the command line writes
through a second connection; the key cache is shared by threads without a lock
while the issuer rotates. Correct when nothing is told to a caller or a webhook
that a restart takes back or that is there by half, and when a withdrawn key
stops working in time and a rotation locks nobody out.

**Language server** (`lsp/`). State: open buffers, pending timers, published
diagnostics. Operations: didOpen, didChange, didSave, didClose, shutdown, exit,
hover; and each timer's analysis on a thread of its own. Hard: the dictionaries
are shared without a lock. Correct when the editor ends up showing the
diagnostics of the current text, every text is analysed, a closed file has none.

**Synthetic monitor** (`runtime/monitor.py`, `runtime/drift.py`,
`cli/commands/platform.py`). State: a JSON file. Operation: check, difference with
the file, save, report. Hard: partial outages, kills between the steps,
processes that a clock starts too early. Correct when what was measured stays
known, reports add up, flap counts count.

**File watcher** (`cli/watch.py`). State: the last snapshot of modification times.
Operation: poll, settle, rerun. Hard: an editor writes at any moment, in more
than one step, and two writes may carry one time. Correct when no edit is missed,
nothing half-written is run, and it comes to rest.

**Contracts and their difference** (`core`, `specs`, `diff`, `rules/breaking.py`). No
state; the input is a pair of contracts. Hard: the same loss can be hidden in many
places (a type under `allOf`, a reused field number, a union that narrows); one
edit may be reported twice or not at all. Correct when what a caller loses is
reported with the severity it deserves, and silence means equality.

**Releases** (`rules`, `cli/commands/governance.py`). State: the version last
released, suppressions with an expiry, retirement dates, declared consumers.
Correct when a release that passes breaks nobody without a reason on record.

**Sweep and digest** (`specs`, `reports/digest.py`). State: the report of the last
sweep. Hard: files appear, disappear, move and change hands between sweeps.
Correct when what is said to be resolved is, and what fails is followed up.

**MCP servers** (`runtime/mcp_*.py`). State: a lock file. Hard: a server is redeployed
between two pages of its tool list. Correct when a locked surface is the reviewed
one and a missing tool is missing or the surface was unstable.

**Runtime checks** (`runtime`). State: a baseline file that several jobs share. Hard:
a job is killed while it writes; the target answers, times out or is rolled out
meanwhile. Correct when a pass was earned.

**Performance** (`performance`). State: a stored run. Hard: few samples, errors as fast
as answers, a pool that saturates. Correct when a dead target is never green, and
the load is the load asked for.

**Tests against a service** (`fuzz`, `security/authz.py`). Correct when a verdict was
earned by the request that was sent.

**Contracts of several files** (`specs/bundle.py`, `specs/graph.py`). Hard: files of one
name, cycles, limits, files edited between two commands. Correct when a bundled
reference means what it meant and a dependent is named.

**Workflows, mock and capture** (`stateful`, `mock`, `traffic`). State: the mock's store
and faults, the proxy's entries, the variables of a run. Hard: threads over an
unsynchronized store, timeouts, a restart in the middle, cleanup after a failure.
Correct when nothing is sent with a hole in it, what is left behind has a reason,
and a recording tells the run.

**The rest**: plugins, MCP tools and agent skills, the dashboard, the editor extension,
packaging and scripts hold no state between steps. `PROJECT.json` says of every
part what is modelled and what is not.

The components interact through files and through the server's database. The
command line calls them one at a time; the server, the language server, the mock
server and the capture proxy are the only ones with threads. The modelled parts
share no state with each other except the server's connection, which is why
`JobQueue`, `ReleaseGate` and `PlatformServer` use one model of it (section 2) and
can be read separately: each keeps the tables of the other out, and a foreign commit is a
commit by some thread of its own.


## 2. The shared connection (`JobQueue`, `ReleaseGate`, `PlatformServer`)

`Store` opens one `sqlite3` connection (`store.py:136-151`) and wraps it in
`_SerializedConnection` (`store.py:56-130`), whose lock is held for one `execute`
or `commit`. Flask answers each request on a thread. Therefore:

- A step of a model is one statement, of one thread. What a handler read in an
  earlier step is in its `req` and may be stale.
- `pc[t]` is the statement thread t executes next; a route is a path through the
  steps. The decisions a handler takes between two statements belong to the step
  of the statement before.
- There is *one* transaction for all threads. The tables (`runs`, `events`; `db`)
  are what everybody sees, `disk` what was last committed; a commit by any
  thread copies the one to the other, uncommitted work of others included. A
  commit with nothing of one's own to commit (a claim that found no run, a
  decision that changed nothing) does so as well.
- `Crash` takes the tables back to `disk` and ends every open request. Clients and
  workers live on: a worker still holds its `job`.
- `freeze`, `lift_freeze` and `audit_append` hold the lock across their statements:
  `lock` is the thread that does, and other threads' statements wait (`At`).


## 3. The modules

### JobQueue and RunPhases

`runs` is the table, a row's id its position (rows are never deleted: `purge` is
not modelled); a row is its status and its key. `events` is the set of what was
appended for each run; the order of events is abstracted. An empty key (`EmptyKey`) is
looked up like any other and stored as none. Progress events are left
out. One organization is modelled; every query is by organization, and only the
ids are shared.

| Step | Code |
|---|---|
| `StartEnqueue`, `FindKey`, `CheckLimit`, `InsertRun`, `CommitRow`, `AppendEvent`, `CommitEvent` | `POST /v1/jobs`, `JobQueue.enqueue`, `Store.record_run`, `append_run_event` |
| `StartRecord`, `InsertRun`, `CommitRow` | `POST /v1/runs`, which takes any status and looks at no limit |
| `StartClaim`, `TakeOldest`, `CommitRow` or `CommitNone`, `Reread`, ... | `POST /v1/jobs/claim`, `Store.claim_next_run` |
| `StartComplete`, `UpdateRun`, ... | `JobQueue.complete`, `Store.update_run` |
| `StartCancel`, `CheckCancel`, `UpdateRun`, ... | `JobQueue.cancel`; `POST /v1/runs/<id>/cancel` ("http_cancel"), which appends no event |
| `StartStream`, `ReadHistory`, `ReadFinal` | `GET /v1/runs/<id>/events` |
| `Reply` | the answer; `acks`, `handed` and `job` record what callers were told |

`InsertRun` includes the lookup after a failed insert: no statement removes a row
or changes its key, so nothing can come between that matters.

`RunPhases` is the abstract queue: a run waits, is held by one worker, is over; the
oldest waiting run is granted first. The mapping takes a row to the phase of its
status. A request that takes ten statements is one abstract step and nine
stutters. The refinement is stated without crashes: a crash may take back a run
nobody was told about, which an abstract queue with a growing list cannot do;
what a restart keeps is `AnsweredIsDurable` and, as a theorem, `NoGoingBack`.

### ReleaseGate and AuditExport

`db` and `disk` hold the freezes (a list of "open" and "lifted"), the approvals,
the audit log, and whether the one version of the one provider is published and
verified. `req[t].stopped` is history: has the organization been frozen, in memory
and on disk, ever since the request came in?

| Step | Code |
|---|---|
| `FreezeRead`, `FreezeInsert`, `FreezeCommit`, `AuditRead` ..., `FreezeState` | `Store.freeze` |
| `LiftRead`, `LiftWrite`, `LiftCommit`, `AuditRead` ... | `Store.lift_freeze` |
| `AuditRead`, `AuditInsert`, `AuditCommit` | `Store.audit_append` |
| `InsertApproval`; `DecideGate`, `Decide`; `Publish`; `Verify`; each with `Commit` | `request_approval`; the decision route and `decide_approval`; `publish_contract`; `record_run` |
| `DeployGate`, `DeployContract`, `DeployRuns` | `compute_can_i_deploy` |
| `Export` | `GET /v1/audit/export` |

Which requests append an audit entry follows the routes: publishing and a
decision that took effect do, requesting an approval and recording a run do not. A
second publish of the version fails on its unique index and leaves no entry.

`AuditExport` has `verify_chain` and the continuity check of two exports as
operators. SHA-256 is idealized: an entry's hash is the sequence of everything
hashed so far, so two hashes are equal only if all inputs are. The HMAC seal of an
export and the serialization are left out.

### LanguageServer

A step is one dictionary operation or one write to the editor, of the loop (thread
0) or of the timer made for the n-th message. The diagnostics of a text are
represented by the text itself: "the editor shows the diagnostics of its current
text" is `shown[u] = documents[u]`. `Raising` are texts on which the analysis
raises; the code logs and leaves the old diagnostics (`server.py:249-257`).
Cancelling stops a timer that has not gone off and nothing else, as
`threading.Timer.cancel` does. `_run` pops *whatever* timer is on record
(`server.py:239`): `Pop` does too. `fresh` and `clash` are history: was the editor
told about the current text, have two threads been at work on the document at
once?

### Monitor

One action per stage of a round: `Load`, `Check` (an outcome for every operation of
the contract as it is now: measured with some findings, or unreachable) or
`CheckFails`, `SaveOpen` (the file is emptied), `SaveWrite`, `Deliver`. `SaveFails`,
`Die` and an early `Start` of another process may come at any point. `ApplyRun`,
`Report`, `Carried`, `Appeared` and `Resolved` translate `apply_run`. `Delete` is the
operator who removes the state file for a new baseline.

History: `last` (what the last saved run that measured an operation found there, for the
operations that the contract of no run since was without), `learned` (the same, with
the run in progress), `told` (the findings as a reader of all reports knows them),
`overlap`, `lost` (a run was saved and its process died before it reported).

The target guard of the state file and `message_changed` are left out.

### FileWatcher

The editor saves in two steps (`BeginSave` empties the file), replaces, or removes;
each stamps the file with `now`, and several writes may get the same stamp. The
watcher runs the command (`Load`, file by file), takes snapshots (`Look`, file by
file), compares (`Still`, `Unsettled`, `Settled`), sleeps. A sleep is longer than
the granularity of stamps: the defaults are 0.4 s to poll and 0.15 s to
settle (`watch.py:40-43`), against nanoseconds to a few milliseconds on the file systems
in use. `Load` of a file that is
absent or no contract is the `sys.exit` of `_load`, which ends the watcher. `Interrupt`
is Ctrl-C: during a run `main` returns from it, elsewhere the watcher stops.

History: `fresh` (the last run loaded what the file is now), `excused` (edited during
the first run, or the load was interrupted), `torn` and `slow` (saves half done
when looked at, and saves longer than the settling sleep).

### PlatformServer and OidcProvider

`db` holds the committed rows, `work` the rows as the connection that has uncommitted ones
sees them, `writer` is that connection: the server's, which its threads share, or the
one `server-db import` opens for itself, and which waits while the other writes. A
handler is a list of statements with its commits (`job`), and any statement may fail,
which ends the request and leaves the open transaction to whoever commits next on
its connection. A process that dies takes what it had not committed with it. What was
`answered`, what a webhook was `told` and what an export `file` contained is kept, and
`HalfIsNotTold` compares it with the committed rows.

`OidcProvider` is one cache of the issuer's keys with the time of its fetch. A thread
verifies in steps: look at the cache, fetch (an answer that may be older than a
rotation, or a failure), store, look again. Signatures are idealized; discovery is
part of a fetch. The clock, the issuer's rotations and its withdrawals are the
environment's.

### Contracts: Schema, Canonical, Validation, SchemaDiff, ContractDiff, BreakingRules, ContractEvolution

`Schema` is the tree with the keywords the engine treats each in its own way.
`Canonical` translates the collapsing of `allOf` and of single-member unions;
`Validation` the runtime's validator, which is the *reference*: a payload that
the old contract accepted and the new one rejects is a loss whatever the engine
says. `SchemaDiff` and `ContractDiff` translate the walk, change by change, for the
protocols it distinguishes; `BreakingRules` names the rule and its severity.
`ContractEvolution` starts from small contracts and applies any two edits.

### Pipeline: ReleaseTrain, Health, ToolSurface, RuntimeChecks, Performance, ContractTests, References

Seven machines that share nothing, each a small world around commands a pipeline
runs: the world moves (days pass, files are edited, a server is redeployed, a
target slows down), a command runs as its code does, and history says what was
true when it answered. `ReleaseTrain` composes `Compat`, `BreakingRules`, `Semver`,
`ProjectFiles` (suppressions and consumers), `Lifecycle` and `Policy`; `RuntimeChecks` composes
`Observed`. The schema validator is a parameter of `Policy` (`Validates`), which `Pipeline.cfg`
makes `Valid` of `Validation`: that one recurses over the tree of a schema. A command is one action where it reads everything before it answers,
and several where the world may move meanwhile: page by page (`ToolSurface`), file
by file (`Health`), read, save and compare (`RuntimeChecks`), request by request
(`Performance`, whose pool of threads has its own steps).

The commands of `RuntimeChecks` take `fail_on` from the project (`FailOns`); a budget counts
every call of a recording that names an operation, answered or not (`Called`).
`References` folds fragments into the table of schemas, as `_hoist` does, and when the
contract's own walk reaches that table (`Reach`) it goes through the fragments again
(`Again`), reading them as if the contract contained them. A contract whose name on the
command line is not its place on the disk is read a second time when a file refers
back to it (`AsGiven`). Error rates in `Performance` are whole percents; the code keeps
four decimals.

### WorkflowRun, MockServer, Workflows, Arazzo

`Workflows` has the graph check, templates, extraction and the manifests a contract's
collections give (`stateful/model_based.py`); `Arazzo` the export and import of a
manifest. `WorkflowRun` runs two commands, each through the recording proxy, whose
threads append entries up to a limit, against the mock, whose threads read and
write its store in separate steps and which may be restarted or set to rate-limit: `Admit`
reads what a PATCH or PUT updates, `Update` writes it back, and a DELETE may fall between;
`Build` reads the counter of ids, `Store` moves it. Redaction and replay are operators
there. The token that unlocks destructive replays is not modelled: see section 8.

## 4. The runs

| Run | Question | Result |
|---|---|---|
| `JobQueue_crash` | Do racing submissions, claims and completions, with crashes at any statement, ever hand a run out twice (`ClaimedOnce`), lose what was answered (`AnsweredIsDurable`) or exceed the limit by more than racing requests (`OvershootBounded`)? | No |
| `JobQueue_events` | With retries of a key, cancels and streams, does one key name one run (`SameKeySameRun`), does the history tell the status and a stream not contradict itself (`HistoryIsTold`), is it the abstract queue (`ImplementsRunPhases`)? | Yes |
| `JobQueue_live` | Is every queued run eventually over (`EveryRunEnds`)? | Yes |
| `JobQueue_retry` | Is a run reported as created always new (`CreatedIsNew`)? | **No**, see section 6 |
| `ReleaseGate` | One open freeze (`OneOpenFreeze`), a chain that verifies (`ChainIsValid`), exports that stay contained in the log (`ExportsContinue`), approvals decided once, as audited (`DecisionsMatchAudit`), nothing released under a freeze (`StoppedMeansStopped`)? | Yes |
| `PlatformServer` | Is what was answered, exported or told to a webhook whole and durable (`HalfIsNotTold`)? Is a withdrawn key refused in time (`RotatedOutIsRefused`) and a rotation no outage (`RotationIsNoOutage`)? | Yes |
| `LanguageServer` | Does the editor end up with current diagnostics (`QuietMeansCurrent`), is every text answered (`EveryTextIsAnswered`)? | Yes |
| `Monitor` | Does the file hold what was last measured (`KnownIsLastMeasured`), do the reports and flap counts add up (`ReportsAddUp`)? | Yes |
| `FileWatcher` | Is a rerun based on whole files (`SettledIsWhole`), is every edit run (`EveryEditIsRun`), does it come to rest (`ComesToRest`)? | Yes |
| `ContractEvolution` | Is what callers lose reported (`LossIsReported`), one edit one finding (`OneEditOneFinding`), silence equality (`SilenceMeansEqual`)? | Yes |
| `WorkflowRun` | Is nothing sent with a placeholder in it (`NoPlaceholderIsSent`), has what is left behind a reason (`LeftoversAreExplained`), are ids shared only by overlapping requests (`SharedIdMeansOverlap`), does the recording tell the run (`CorpusTellsTheRun`)? | Yes |
| `Pipeline` | Is the advised version enough (`AdviceHolds`), a passing release vouched for (`ReleasesAreVouchedFor`), a failure followed (`FailureIsFollowed`), a missing tool missing (`MissingIsTrueOrUnstable`), a locked surface reviewed (`LockedMeansReviewed`), a pass earned (`PassIsEarned`), a dead target never green (`DeadIsNeverGreen`), the load as asked (`LoadIsAsAsked`), a verdict earned (`VerdictIsEarned`), a reference kept (`ReferencesAreKept`)? | Yes |

What a property says is in the comment above it, with the code it is about.

Several properties carry a condition, and the condition is part of what they say:

- `OvershootBounded` and `AnsweredIsDurable` are checked without cancels; the theorems have them.
- `OvershootBounded` assumes runs come through enqueue; `POST /v1/runs` with a status
  of "queued" is admitted whatever the limit.
- `HistoryIsTold` is checked, and proved, without http_cancel, which appends no event,
  without recorded runs, and without crashes.
- `QuietMeansCurrent` says the current text wins if no two threads were at work on
  the document at once: an analysis that takes longer than the debounce may
  overwrite a newer one.
- The monitor's properties hold while processes do not overlap, and `ReportsAddUp`
  while no process dies between saving and reporting. `KnownIsLastMeasured` is about
  operations the contract has kept since they were measured; section 8 says why.
- `EveryEditIsRun` excuses edits during the watcher's first run, which the code loses.
- `StoppedMeansStopped` is about requests that came in under the freeze. One that
  looked before the freeze was pulled may still grant.
- `LossIsReported` is about losses the engine looks for; what it leaves out by its
  own documentation is excluded by name, in the module.
- `LeftoversAreExplained` is about resources the mock still answers for: what a PATCH wrote back
  past a DELETE stays in its store but is answered with 404.
- In `CorpusTellsTheRun` the limit of entries is a hard cap for requests that came one
  after the other; beside each other they exceed it, by no more than their overlap.
- `VerdictIsEarned` leaves out the cases the generator gets wrong (`Unfair`), and what is
  said of a service that asks for a credential when the failing case is minimized.
- `ReferencesAreKept` lets a reference that is not followed, and of which a finding says so,
  stand for what the contract would mean by it.
- `NoPlaceholderIsSent` is about authored steps. A cleanup is sent with whatever was
  extracted, and a placeholder in its body may reach the mock's store.
- `MissingIsTrueOrUnstable` is about runs during which the server was redeployed once at
  most: two deploys, one in each listing, can hide from both a tool that was there all along.
- `DeadIsNeverGreen`, `PassIsEarned` and `VerdictIsEarned` name the ways a pass may be
  unearned that the code knows of and accepts; section 8 lists them.

### Bounds

| Run | Instance | Why it is enough | States, time (2 workers) |
|---|---|---|---|
| `JobQueue_crash` | 2 clients, 2 workers, limit 1, 3 submissions, 2 crashes | two clients race past the limit and a third submission is refused; two workers race for the two runs; a crash falls at any statement, ids are used again after it, and there may be another | 3.0M, 1 min |
| `JobQueue_events` | 2 clients, 1 worker, 1 key, 2 submissions | a submission and its retry race with each other, with a cancel and with a stream | 3.7M, 1 min |
| `JobQueue_live` | 1 client, 1 worker, 3 submissions | a run can wait behind another while a third is recorded or one is cancelled | 0.2M, 15 s |
| `JobQueue_retry` | 1 client, 1 worker, 1 key, 2 submissions | submit, cancel, submit again | 132 |
| `ReleaseGate` | 3 threads, 5 requests, 1 crash | freeze, lift and any third request interleave; after them there is one to observe with, and a restart | 2.3M, 45 s |
| `PlatformServer` | 2 threads, 2 keys, 3 requests, 1 crash; keys live 2, clock to 3 | a publish cut or failed at any statement between another thread's commits and the command line's; a rotation and a withdrawal between two fetches | 3.1M, 95 s |
| `LanguageServer` | 2 documents, 2 texts (one raising), 5 messages | open, change, change, close, open again on one document | 0.8M, 1 min |
| `Monitor` | 2 processes, 2 operations, 2 rules, 3 runs | a baseline, a change or a silence, and the return | 3.3M, 95 s |
| `FileWatcher` | 2 files, 2 edits | one edit the poll sees, and one while it settles, of the same file or of the other | 1.0M, 50 s |
| `ContractEvolution` | small contracts, 2 edits | each keyword edited alone, and each pair of edits at one place | 49k, 80 s |
| `WorkflowRun` | 2 commands, 1 fault, 3 entries, rate limit after 6 | two threads meet in the mock; a timeout or a restart falls at any request; the recording overflows | 0.5M, 30 s |
| `Pipeline` | release: 4 steps; sweep: 3 files, 2 edits; tools: 2 pages, 2 redeployments, 2 jobs; checks: 2 jobs, 3 runs, 1 rollout; loads: pool 2, burst 2, clock 6, 2 commands; tests: pairs up to the code's 60; references: 4 files, 1 remote, depth 3, 1 save | each stage sees its world change once, the tools twice, between any two of its steps and has a command left to notice | 1.5M, 90 s |

The machines of `Pipeline` run one per behaviour (`stage` is chosen first), so their
sizes add and do not multiply. Symmetry is declared where members of a set are
interchangeable: clients, workers, threads, processes, operations, rules, keys. No
run with symmetry checks liveness. Deadlock is checked, except where the system
really stops: a language server that has exited, a watcher that is gone, commands
that have all ended. `Done` in `JobQueue`, `ReleaseGate` and `Monitor` is the end of
the bound, not of the system.


## 5. Fairness

Only the liveness properties use it.

- `JobQueue`: threads are scheduled (`WF` of each thread's statements), and workers
  poll and report for as long as they live (`WF` of a worker's requests). Clients need
  do nothing. `EveryRunEnds` is checked without crashes: a run whose worker was
  not told of it stays running for ever (section 8).
- `LanguageServer`: the loop goes on with the message it has read, and each timer's
  thread is scheduled; the editor need not send anything.
- `FileWatcher`: the watching loop goes on. The editor is not fair: it may stop in
  the middle of a save. An editor that never stops writing starves the settle
  loop; the bound on edits makes it stop.


## 6. Finding

**A retried key is answered with a dead run** (`JobQueue_retry`, `server/jobs.py:58`).
After a run was cancelled or failed, enqueue with its key gets past the lookup and
fails on the unique index; `record_run` returns the old id, and enqueue appends
"queued" to the dead run and answers created=True. Nothing is queued. The run of
kind "violation" gives the shortest trace.


## 7. The proofs

`tlapm` checks them for every value of the constants: any number of threads,
workers, keys, operations, requests, crashes. Each follows the same plan: a
conjunction `IInv` that contains the property, `Init => IInv`, and
`IInv /\ [Next]_vars => IInv'` with one step per action; TLC checks `IInv` on small
instances first.

**JobQueue_proofs.** Assumes `QueueAssumption` (clients and workers are different, the
clients are finitely many and at least one, the limit is positive).
`ClaimedOnce`, `AnsweredIsDurable` and `NoGoingBack` are not inductive. What makes
them so is how the shared transaction treats a half-done request:

- `Grows(disk.runs, runs)`: the tables in memory extend the committed ones, rows only
  moving forward. A crash and any commit keep this.
- `Local(t)`: what a handler's locals say about the tables: a claimed run is not
  queued any more, and not on disk either once it is committed.
- `Distinct`: no two open claims hold one run.
- `JobsHanded` and `AnsweredIsDurable`.

Theorems: `TypeCorrect`, `ClaimOnce`, `Durable`, `Forward`, and `OvershootIsBounded`.
The last one needs a count: active runs plus requests that have passed the check
and not yet inserted (`Admitted`) are at most Limit + |Clients| - 1. A client that
passes the check does so below the limit, with at most |Clients| - 1 others
admitted. It assumes that no pending run is recorded past the queue
(`RecordedAs \cap Pending = {}`).

Three theorems are about a queue that is not restarted (MaxCrashes = 0), as their
runs are, and stand on `IInv` with a second invariant each:

- `OneKeyOneRun`: `KeyInv` ties the key a request carries to the row its lookup found,
  or will find when the insert fails on the index, and everything acknowledged
  under a key to the one row with that key.
- `Implements`: a simulation, action by action. A row's phase changes only at the
  statement that inserts it, takes it or updates it; claiming is granted in order
  because `TakeOldest` picks the smallest queued id; the rest stutters.
- `HistoryTold`: `LogInv` says for each row which events it must have (`Says`) or which
  request is about to append one (`Telling`). Without cancels over HTTP and runs
  recorded past the queue (`"http_cancel" \notin Ops`, `RecordedAs = {}`).

**ReleaseGate_proofs.** Assumes `GateAssumption`. The invariant rests on the lock:
`LockHeld` (whoever is inside a read-check-write section holds it), `Flow` (which
request is at which statement), `Switch` (one open freeze, and none where one is
about to be inserted), `Log` (both logs link up; the tail that was read is still
the tail; only the entry about to be committed is not on disk; what was exported
is on disk) and `Stops` (a request that came in under the freeze has not got past
it). `DecisionInv` adds that each approval's decisions agree with the log, up to the
entry its thread still owes (`Owed`), in memory and on disk. Theorems: `TypeCorrect`,
`OneFreeze`, `ChainHolds`, `CheckedIsContained`, `ExportsHold`, `FreezeStops`, `DecisionsAudited`.
That an export is contained (`ExportsHold`) is about the two commands as a whole, the
export with its optional seal and the check against it. `CheckedIsContained` is the
other direction, about any file: what the check accepts begins the log entry for entry,
from which `ChainedIsValid` and `SameHash` take that the hashes tell entries apart.

**Monitor_proofs.** Assumes `MonitorAssumption`. The invariant says, for a process
that is alone, what its memory is up to at each step: the last measurement, or the
one about to be saved (`Follows`), and the same of the reports (`AddsUp`). The lemmas
`ApplyRunType`, `ReportTells` and those on what a run learns are about `apply_run`
alone. Theorems: `TypeCorrect`, `KnownIsMeasured`, `ReportsTellAll`.

**PlatformServer_proofs.** Assumes `PlatformAssumption` (any set of requests with strings
for fields; the command line is no thread). `HalfIsNotTold` alone is not inductive: it
says nothing of the statements to come. The invariant says what each process owes
(`Safe`): a row of its request is in the database, or a commit is to come, and the row is
written already or before that commit (`Owed`). For a publication everything but its
audit entry is owed to a commit before that entry (`PublishPlan`). Any commit makes all
rows durable and an upsert alone takes a row away, leaving one of the same
identity (`Kept`, `Grows`), so that other processes only bring a debt nearer to its end;
a failure or a crash forgets the debt with the request, which is then never answered.
An import owns the organization it makes (`DoorOK`): the row of its name goes in first
and once, so a request that writes there has inserted that row itself (`Inside`), and
then the import has failed. One lemma per action; `RequestOwes` and `ImportIsPlanned` say
that each handler starts with its debts in order. Theorem: `HalfUntold`.

The same module proves what sign-in promises, from `OidcAssumption`. The invariant says that every set of
keys, in the cache or in a thread's hand, carries as its stamp a moment at which the
issuer still published it; a thread that trusts the cache has looked at the stamp. A second
invariant, `SteadyInv`, says of a call that saw its key published all along that it finds
the key when it asks the issuer itself, and that it asks before it refuses.
Theorems: `RotatedOut`, `NoOutage`, and
`ServerSignsIn`: the server's specification implements the provider's, so both hold of it.

**WorkflowRun_proofs.** Assumes `WorkflowAssumption`: finitely many commands, manifests
of the loader's shape, operations in a sequence; any limit, any number of faults. One
lemma for each action says what it does to each part of the state (`SendIs`, `BuildIs`
and so on), and the proofs use those. For `SharedIds`: an id that the running mock
gave is below its counter once its resource is stored (`IdsOK`), and of two exchanges the
later found the earlier open or answered (`BesideOK`), so that a number given twice
was given to two that were open together; numbers are assumed to be written
differently (`NumbersDiffer`). For `CorpusAccounts`: every exchange answered is in the
corpus, counted after the limit or counted as failed (`CountedOK`); each client waits
for one exchange and each timeout abandons one (`OpenIsBounded`, `AbandonedOK`), so
what is still to be appended to a corpus not full fits beside its limit
(`AppendingOK`). For `NothingUnfilled`: what the preflight found of the manifest as a
graph says that a step uses what inputs and earlier steps provide, and a run knows
the inputs and what the steps it has passed extract (`RunKnows`); no value it knows is
a placeholder, because no body in the mock's store or in an answer has one
(`ExchangePlain`, `MockPlain`), whichever command put it there. That rests on
`PlainTexts`, which `MCWorkflowRun` checks for its instance: inputs, examples and generated
values name no variable, and a cleanup, which the preflight does not look at, uses
the inputs only in its bodies; and on `NumbersArePlain`, no id being a placeholder.
For `LeftoversExplained`: behind every resource stored is the exchange that made it
(`MadeBy`), whose id its answer carries; a run that has read the answer knows the id
by a variable (`KeptOK`) until a later step writes over it, and, unless it has an excuse,
is still at its steps, has the DELETE of that very address ahead in its cleanup
(`WillDelete`) or has it on its way to the mock (`Deleting`), where it is refused only
over the rate limit, because what the mock answers for is not on the list of the
deleted: so `Left` holds of that at every step of any thread. An update between its two
steps is of an item that is stored or on that list (`ExchangeOK`), so writing it back adds
nothing to what the mock answers for. That rests on `CleanupsAim`,
which `MCWorkflowRun` checks for its manifests as well: where a cleanup's DELETE names
what a POST kept, it is the item of that POST's collection by its `id`, and the mock knows
the operation. A manifest that keeps another field, or deletes elsewhere, leaves its
resource without a reason, and no warning can tell. For `CorpusTold`, which adds the replay
to `CorpusAccounts`: the replayed mock and the recorded one differ in no more than
values that redaction hides (`Rebuilt`), and one request keeps them so, because no
decision of the mock looks at a value of a body, only at whether there is a body
(`RebuiltApply`, `RebuiltStore`, `Stands`). While requests do not overlap (`OneOpen`), what
the corpus replays to is behind the mock by the exchange at hand, stage by stage of
its handling (`Between`), and the entry that is appended is the next step of the replay
(`ReplayAppend`). A sensitive field that the mock generated itself, and that was never
sent, is generated again: it is the same at both mocks and no secret of the traffic,
so the property compares the stored resources after redaction and says what a
sensitive field of the replayed one may hold. Theorems: `TypeCorrect`, `SharedIds`,
`CorpusAccounts`, `NothingUnfilled`, `LeftoversExplained`, `CorpusTold`.

**PipelineCommands_proofs.** `PipelineCommands` puts `ReleaseTrain`, `Health`, `ToolSurface`,
`RuntimeChecks`, `Performance` and `References` side by side with their assumptions, which `MCPipeline`,
extending it, checks for its instance; each part holds in its stage, and the theorems are
about `CommandsSpec`. *Releases* (`TrainAssumption`: versions have three parts, an operation
speaks of its retirement in two places, days are numbers): for any two contracts, schemas
included, an operation that loses a call has a change with one of eight error rules
(`Breakers`), or the contract as a whole has an error (`LossIsTold`: a parameter, a body or
a scheme at a time). That error survives the overrides unless one weakens a rule
(`ErrorIsKept`), the suppressions unless a justified entry is in force (`ErrorIsActive`),
the registry unless a complete one names no caller (`ErrorIsNotSoftened`), and then decides
the exit code (`OkHasNoError`) and whom the blast radius names. The same way round,
`validate` stops at an operation past every date it declares (`DeclaredIs`: what is found
first is one of them) or without what the policy file asks for. The invariant `TrainInv`
only has to keep the two revisions of one protocol and the days numbers. *Tools* (`SurfaceAssumption`): while nothing is deployed the pages read are the beginning of the
list (`ReadOf`). A listing that reaches the end before the cap has seen that what is served
then fits into that many pages (`Fits`); so after one deploy either the first listing is
whole, or the second began after it and is not capped (`SecondOK`, `ListedOK`), and a name
in one of them only is reported as instability (`UnstableIsReported`). A signature in the
lock is always that of what was reviewed (`LockOK`). *Sweep* (`HealthAssumption`): a
record fails exactly when it is unreadable or has errors (`Sound`), and a team was told
only of contracts of its own that failed in the sweep before (`ToldOK`), so that one which
is quiet now was fixed in silence, handed over or is no longer swept, which its digest
says; owners are those of the last matching rule, teams all of them. *Checks*
(`ChecksAssumption`): every finding is its fingerprint and a grade (`Whole`), a baseline file
holds only fingerprints of what some run wrote to the end (`FilesOK`), and a run is only where
its command line sends it (`Named`); the busiest window that ends with a call is at
least as busy as any window at all, because a window's calls all lie in the one that ends
with its latest (`BusiestIsMostAnywhere`). *Loads* (`PerformanceAssumption`): a request waits in
the pool's queue only while every thread is out, those that began are the first ones
handed over, each was due by then, and sent, failed and out together are those that began
(`LoadOK`). A stored run tells the error rate of its counts and, if any, its interval
(`RateIsTold`), which is assumed of files earlier versions wrote and proved of those the
program writes; from four samples on, Wilson's interval of all failed lies above 50 and
that of none failed below (`RatesAreToldApart`), so that a death is never undecided.
*References* (`TreeAssumption`: documents are finite and hold four kinds of references, the
contracts are local files that every tree has, and no two files of a contract have one name in
its reports, see section 8): of a bundling, what it read the tree held (`ReadOK`), a
reference in it is as it was, rewritten to the fragment it meant, or rewritten to the one
the contract would mean and told of (`RefOK`, `TextsOK`), and every one of what was folded
in still waits in a frame of the stack (`Awaited`), or is rewritten or told of, and drawn as
an edge unless a limit of depth was met (`Settled`, `Attended`). The contract's own walk
meets what was folded in a second time with every reference in it settled (`FrameOK`), so
what it still rewrites has been told of. What is read, rewritten and refused in one step
is taken apart by what each operator keeps (`FoldedOn`, `PushedKeeps`, `DeepKeeps`,
`FollowKeeps`, `MetKeeps`, `AgainKeeps`). An edge begins in a file that
an earlier edge led to (`LedTo`), so the graph, which places a file by the reference that
introduced it, places them all (`BuildHolds`); dependents are closed under the edges,
since a set that grows takes a new edge each time and there are only so many
(`AboveClosed`), and so reach the contract (`UpToContract`).
Theorems: `AdviceIsSound`, `ReleasesHold`, `MissingIsTold`, `LockHolds`, `FailuresAreFollowed`,
`PassesAreEarned`, `LoadsAreAsAsked`, `DeadFailsTheComparison`, `ReferencesKept`.

**LanguageServer_proofs.** Assumes `ServerAssumption`. The invariant follows one
document that no two threads worked on at once (`Sound`): somebody will read its text
(`Awaited`: a timer waits, a thread is about to pop or read, the loop is storing or
scheduling), or a thread holds its present text and is about to publish or send it,
or what is published is what the text gives. A waiting timer counts as a reading to
come whether it is on the record or not, which is why `_run` may pop a newer timer
off the record: only `_cancel`, followed by another reading, stops one. `Roles` says
which threads may be at which step, and that the n-th message makes the n-th timer and
no other. `Lone` and `Knows` reduce soundness to what the one thread at work knows.
Theorems: `TypeCorrect`, `QuietIsCurrent`.

**FileWatcher_proofs.** Assumes `WatcherAssumption`; files need not be finitely many. For
types, `Stamps` counts: times given, plus one where the present one is used, plus the
saves that have still to end, stay within twice the edits. For `SettledIsWhole`: every
snapshot is of times past (`Past`); after the settling sleep began, a file that is
half saved was so before (`slow`) or carries a later time than the snapshot before it
(`Settling`), so that two snapshots that agree have not met it. Theorems: `TypeCorrect`,
`SettledWhole`.

**Only model-checked**: liveness (`EveryRunEnds`, `EveryTextIsAnswered`, `EveryEditIsRun`, `ComesToRest`),
which is beyond the prover with its fairness; the properties of `ContractEvolution`;
of `Pipeline`, `VerdictIsEarned`. Those of `ContractEvolution` and parts of the other rest on
recursion over trees, where an induction over data would be needed.


## 8. What the code does that no property forbids

Met while modelling. The code promises nothing else, or promises it in a comment
or a document that is quoted here; no run claims it wrong.

**Run queue.** The HTTP cancel route calls `Store.cancel_run` and leaves no event
(`api.py:334`). A cancel that read "running" overwrites a completion that came in
between (`store.py:306`), and a completion overwrites a cancellation. A run whose
claim was committed and whose answer was lost stays "running" and keeps a slot of
the limit: there is no lease (`store.py:402`). A retry with a key may be answered
with a run another thread has inserted and not yet committed; a crash then takes
it back (`jobs.py:42`). `purge` (`store.py:767`) would delete rows under the queue; it
has no caller.

**Release gate.** A transition is audited after its lock is released, so a lift can be
logged before the freeze it lifted, and a crash between the two leaves a freeze
without an entry (`store.py:600`).

**Platform server.** A failed statement leaves the transaction, and SQLite's write
lock, open until the next commit by any thread: a failed publish blocks `server-db
import`, and the rows of a failed `add_findings` become durable with somebody else's
commit. An import does not bring back webhooks and tokens. A webhook with an empty
event list is never called. A crash in `create_org` leaves an organization without
an owner, one in publish a contract that a retry cannot publish again. The rate
limiter's bucket is read and written without a lock (`api.py:81`).

**Language server.** A timer that has read the buffer publishes after didClose has
cleared, so a closed file may keep diagnostics (`lsp/server.py:257`).

**Monitor.** A run that established nothing is said to carry the previous state "forward whole
and nothing is called resolved" (`runtime/monitor.py:209-211`), but findings of operations
that have left the contract are dropped and called resolved by such a run too (298, 309);
`KnownIsLastMeasured` states what the code does. A monitor whose first run is an outage has spent its baseline
on it; what the next run finds is new. Overlapping monitors forget what the other
learned (`cli/commands/platform.py:430`); a state file torn by a kill is refused until
somebody deletes it.

**File watcher.** The command exits the process on a file that is not there yet
(`cli/commands/common.py:385`). New files in a watched directory are not noticed.

**Releases.** A complete registry of consumers softens errors of a whole "(service)". An
error that names no operation, such as a retyped security scheme, names nobody in the
blast radius (`rules/consumers.py:235`), hence the exception in `CallersAreNamed`. The
shorthand `operation_id: matches` loads with no pattern. `_satisfies` accepts a lower
major when the semver check is off. Suppressions expire by the local date, lifecycle
dates by UTC. A newly required body is no error (`rules/breaking.py:738`, against
`src/docs/rule-catalog.md:43`).

**Sweep and digest.** A digest lists an unreadable contract's findings as resolved, and
`quiet` ignores fixed ones (`src/docs/digest.md:73-76` says otherwise); a reassigned
contract vanishes from its old owner's digest and is "Still failing" in the new one's.

**Runtime checks.** `--save-baseline X --baseline X` saves before reading, so nothing gates.
With `--baseline` any new finding fails, of any severity (`src/docs/exit-codes.md:13` says
errors). `drift --corpus` exits 0 without findings even if its baseline is unreadable. A
finding accepted as a warning stays known when it becomes an error. `ghosts` exits 0
when every probe was unreachable, `replay` when every request failed.

**MCP tools.** A lock whose signature was stripped passes as merely unsigned. Duplicate
tool names make `changed` true with nothing added, removed or modified. A call that
is refused or lost takes the drift report with it. A server redeployed during the first
listing, and again during the second, may show neither a tool it served all along: the
two agree, and the tool is reported missing without a word on stability.

**Performance.** `client_bound` is never true: a plateau is named at the level before the
last one measured (`performance/curve.py:146`; the docstring says the client's own
ceiling "is checked for and named"); `NoSweepIsClientBound` in `MCPipeline` states it. A
curve with one level measured, or none, is told as "still rising". A
load run's pool makes it closed-loop once saturated, and `late_ms`, `kept_up` and
`achieved_rps` count the time of submission (`profiles.py:289-313`, against
`src/docs/load-shapes.md:33`). An empty schedule is "target unreachable". `error_rate`
of a policy divides by all requests, the report's by samples. A stored run without
`error_rate_pct` is not compared on it (`engine.py:475`), so that a target that lets
every request hang passes against it; `DeadIsNeverGreen` is about stored runs that have it. A target that only
times out is not "nothing answered". `SLO-NOT-MEASURED` is a warning, so `--slo` passes a
silent operation. Operations absent from the baseline are skipped.

**Tests.** The minimizer sends a failing case again without the run's auth headers
(`fuzz/minimize.py:62`), so with `--auth-profiles` a failing negative case becomes a pass; a
flaky failure as well. "Positive cases satisfy every constraint; negative cases violate
exactly one" (`fuzz/generate.py:4`) is not so of some limits: an integer with a maximum
below 1 and no minimum is sent as 1 (58-65); a greatest length of 0 counts as none (54);
a least length or number of 0 cannot be gone below, and what is sent for it is valid
(123-129, 160-163); `max_items` is never looked at; and where one side has an inclusive and
an exclusive bound, what lies on one of them is sent as valid whatever the other says
(`fuzz/boundary.py:106-114`, `generators.py:418-436`). `Unfair` names them; a right service
is called wrong for each.
A wrong-type value for a string query parameter arrives as text and is valid.
Negative parameter cases go without a required body. Invalid items are sent in a
one-element list, which `min_items` hides. Only the first two violations of a field
are tried. `authz` counts 404 and 405 as refused, so a lost object looks like a pass;
a transport error loses the findings made so far; the resource it made stays.

**References.** What `_hoist` has put into `components.schemas` (`specs/bundle.py:477-482`) is walked
again when the contract's own walk reaches that table (386-394, against the comment at
188-192), this time from the contract's directory: references "resolve against whichever
document contains them" (528-530), but one that was refused there is left as it was, and
may now become a fragment of a file of that name beside the contract. A finding of the
first walk names the reference. A contract given by a relative name is on record under that name
(361) and read again under its absolute one when a file refers back to it (249). A
same-document `$ref` inside an included file is left as it is and then
resolves against the entry document (`specs/bundle.py:377`). A contract another refers to
is a "schema" in the graph and never named as a dependent. A fragment first reached
at the depth limit stays unwalked when a shorter way leads to it. Only the first
reference into an unreadable file gives a finding. Two files may have one name in the
reports (`tmp/a.yaml` below the contract and `/tmp/a.yaml`, or `host/a.yaml` and
`https://host/a.yaml`: `_label` drops the root and the scheme), and a fragment of the second
is then taken for the first's.

**Workflows.** "cleanup always runs" (`stateful/engine.py:221`; "always runs, best-effort",
`src/docs/workflow-authoring.md:29`) is not so after an exception that is not HTTP's (an
unquoted date in a manifest), which `LeftoversAreExplained` names as a reason. An update
that read its item before a DELETE and writes it after leaves it in the mock's store
(`mock/server.py:148`, 158), where it is answered with 404 all the same. `--max-entries` "is a
hard cap [...] enforced where the entry is appended" (`src/docs/capture.md:81-84`,
`traffic/capture.py:223-226`), but the check (294) comes before the append (372) without a
lock, and concurrent threads exceed it; `CorpusTellsTheRun` says by how much. The
confirmation token of a replay "cannot be reused for a different run"
(`src/SAFETY_MODEL.md:41-43`), but is a digest of the host, the methods and the number of
requests (`traffic/safety.py:123-126`), which another corpus may share; what can be said of
it truly would restate the digest, so it is not modelled. The model-based run sends
PUT without a body and then reports "update not persisted". Two steps that extract
into one variable leave the first resource behind without a warning. The Arazzo
round trip is wrong where names of paths cross. Cleanup may send a placeholder.


## 9. What is not modelled, and the plan

Abstracted or left out inside modelled parts: SHA-256 and HMAC are idealized; progress
events; purge, backup and restore; the rate limiter; sizes and the
connection probe of the performance checks (percentiles are two, the bootstrap is its
exact distribution); nesting of JSON within a fragment, mermaid output and origins;
drafting of manifests (`infer.py`), Postman collections, auth profiles, header and
query redaction; faults of the mock that garble an answer; the failure corpus of the
fuzzer; the inventory of MCP servers. `PROJECT.json` says it per component.

Not planned: parsers, report formats and exporters (no state between steps); random
generation (its results are inputs); the dashboard, the editor extension, packaging
and scripts (clients and generators).

Next, a theorem: what `ContractTests` promises (`VerdictIsEarned`), with the validator and
the generators as parameters.
