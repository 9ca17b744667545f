# vasal: TLA+ models, checks and proofs

vasal is a host agent. It fetches work from a control plane, runs it through a
shell or a sidecar process, journals and reports the results, manages units and
its own binary, and keeps an audit log that it forwards. This directory models
the state-changing parts of the agent. TLC checks the models on small instances.
TLAPS proves every safety property of the passing runs for every value of the
constants.

`PROJECT.json` lists components, runs, mutants, hazards and theorems, and gives
the source lines of every definition. Paths below are relative to
`src/crates/vasal-core/src/` unless they say otherwise; `sdk/` stands for
`src/crates/vasal-sidecar-sdk/src/`.

## The system and its parts

| Part | Source | Model |
|---|---|---|
| Main select loop, shutdown drain | `main.rs` | `TaskManager`, `Transport` |
| Start, SIGHUP, restart | `main.rs` | `AgentProcess` |
| Task manager: `active_tasks`, semaphore, counts, result channel | `task/mod.rs` | `TaskManager` |
| Router | `task/router.rs` | `ExecStatuses` of `TaskManager` |
| Chain executor | `task/chain.rs` | `ChainExec` |
| Shell executor | `task/shell.rs` | `ShellExec` |
| Continuous executor | `task/continuous.rs` | `ContinuousExec`, over `ShellExec` |
| Sidecar executor | `task/sidecar.rs` | `SidecarExec`, over `SidecarCall` |
| Credential resolution | `credential.rs` | `SidecarExec` |
| Sidecar SDK: server, codec | `sdk/server.rs`, `sdk/codec.rs` | `SidecarCall`, `Codec`, socket path in `Units` |
| Audit log and forwarder | `audit.rs`, `state.rs` | `AuditForwarder`, implementing `AuditLog` |
| Transports (poll, gRPC) | `transport/` | `Transport`, implementing `WorkLink` |
| Units: install, upgrade, health | `unit/` | `Units` |
| Heartbeat | `heartbeat.rs` | `Units` (health), `TaskManager` (counts) |
| Self-upgrade | `self_upgrade.rs` | `SelfUpgrade` |
| Auth: token bootstrap | `auth.rs` | `AgentProcess` |
| Config, hot reload | `config.rs`, `main.rs` | `AgentProcess` |
| State store | `state.rs` | its tables, inside the modules above |
| Result statuses, chain results | `vasal-protocol/src/task.rs` | `TaskResults` |
| Bundled sidecars | `sidecars/` | not modelled |
| Metrics, telemetry | `metrics.rs`, `telemetry.rs` | not modelled |

How they interact: `run` receives a batch of work items from the transport and
hands each to `TaskManager::submit` or `submit_chain`. These register the task in
`active_tasks` and spawn a tokio task, a *run*. A run waits for a permit of the
semaphore, calls its executor, journals each result, records an audit event,
sends the result through a bounded channel back to `run`, and takes itself out
of `active_tasks`. `run` reports results through the transport. The sidecar
executor calls a sidecar over its socket, where the SDK's server answers. The
health checker, the heartbeat and the audit forwarder work beside all this.

## The modules

### TaskManager

Run `n` is the tokio task spawned for the `n`-th work item. `pc[n]` follows its
async block from one await point to the next:

    new -> inserted -> spawned -> [waiting ->] running -> journal
        -> [audit ->] send -> remove -> count -> [release ->] done

Routed tasks (install, upgrade, remove, self-upgrade) skip the semaphore and the
terminal audit event. Chains go round journal and send once per result.

- `active` is `active_tasks`: the run that an id maps to.
- `waiters` and `permits` are tokio's fair semaphore: a dropped permit goes to
  the head of the queue.
- `chan` is the result channel. `Send` is enabled only while it has room.
- `counts` is the watch channel the heartbeat reads. Registering or removing a
  task and refreshing the counts are separate steps, as in the code, where the
  mutex is released between them.
- `mpc` is where `run` is. The biased select appears in the guards: shutdown
  first, then a result, then new work.
- `StoreMayFail` lets each INSERT fail. The code goes on in that case.
- The control plane may use an id again, also while it is active.

What an executor returns is any status its kind can return (`ExecStatuses`). For
a chain it is any sequence `IsChainResult` allows, and `ChainExec` is shown to
return only such sequences.

### ChainExec

One call of `chain::execute` with `run_rollbacks`. Init chooses the strategy and
the set of steps with a rollback. Credentials and executors may succeed or fail
each time; `Cancel` may happen between any two steps of the code.

### ShellExec, ContinuousExec

`ShellExec` is one call of `shell::execute` with the processes around it: the
shell (running, zombie, reaped) and a background descendant that may keep the
pipes open. `ContinuousExec` extends it with the loop of `continuous::run`; its
select is not biased, so the branches compete. A tick reuses the variables of
the call.

### Codec, SidecarCall, SidecarExec, RemoteCall

`Codec` has the encoder and decoder of `LengthPrefixCodec` over sequences of
bytes: a header of four bytes, with the base of a byte and the limit as constants.
`SidecarCall` is `call_raw` on one end of the socket and `handle_connection` on
the other. Bytes arrive one at a time, so each end decodes every prefix of a
frame. The server may stop between any two steps, answers may exceed the limit
or be no response at all. `SidecarExec` puts `resolve_eager`, `execute` and
`poll_until_complete` on top; every call they make is a call of `SidecarCall`,
next to those of other clients. `OthersCall` bounds what these may ask and when: in
the run a health probe may begin from the submit call on, so that it overlaps the
calls of the task, and other requests come once the task is done; in the theorems
there is no bound. `poll_index` saturates
at the second entry of the delay table: only the first delay is zero. `RemoteCall`
is the abstract promise of a call: the handler runs at most once, before the call
returns, and a result means that it ran.

### AuditForwarder, AuditLog

`AuditForwarder` has the audit table, the forwarder loop and the control plane's
copy. Marking rows is one step per row, because `mark_forwarded` commits each
UPDATE by itself. `Crash` may happen anywhere; `Restart` keeps the database and
loses the locals. `AuditLog` is the abstract promise: the control plane never
has a row without all earlier ones. The refinement mapping is the identity on
`rows` and `received`.

### Transport, WorkLink

The main loop with the `recv_tasks` future it polls. `rpc` is the await the
future has reached: the sleep, the GET and the body of a poll, or the connect,
the opening of the stream, the backoff and the read of gRPC. Whenever a result
or the shutdown is ready the future is dropped where it is. `outq[c]` is the
bounded queue of stream `c` towards the control plane, `inq[c]` what the control
plane wrote on it; a stream may end or break at any time with both non-empty.
`send_result` waits for room with the main loop outside its select. `WorkLink`
is what the main loop relies on: the work it is given is a subsequence of what
was offered. The mapping is the identity on `offered` and `taken`. An answer to a
poll may have an item that is no task at any place; `Parsed` is the loop that
leaves it out.

### Units

One unit: its row, its files, the processes started for it and the file at its
socket path. `install`, `upgrade` and `perform_rollback` run from await to await
against the health checker, which reads the row and writes it back later, the
heartbeat, the processes and a crash of the agent. A process that gets SIGTERM
removes the file at the socket path as it goes, whoever bound it. The history
variables `stale`, `outlived` and `untracked` record three behaviours of the code
under which a property would not hold, so that the properties say exactly what
is left. What they record can happen; no property excludes it:

- `stale`: the row is one the checker put back over what an operation had written
  (the next operation that ends well writes the row anew and clears it);
- `outlived`: a process told to stop was still there when the next operation put
  its version in place, after the pause that follows SIGTERM or after a crash that
  cut the pause short, and may remove its successor's socket;
- `untracked`: a process was started whose pid no row was given (a second
  install, a crash or a failed write after the spawn), or whose pid was lost when
  the checker put an older row back.

### SelfUpgrade, AgentProcess

`SelfUpgrade` is `self_upgrade::execute` on a file system in which each write is
a truncation and a completion. Calls may overlap, because routed tasks take no
permit; then they share `vasal.new` (history variable `overlap`). After a
replacement `current_exe()` names a deleted file, so a second call in the same
process fails at its backup. `AgentProcess` extends it with the life of the
process: start, `Config::load`, `AuthManager::init`, SIGHUP reloads, and death at
any point. It is the process that dies: every write that returned survives. The code
syncs no file (`auth.rs:76`, `self_upgrade.rs:94`, 105, 108, 117), so after the host
went down a file may be there without its contents; `BinaryIsWhole`,
`RollbackUsable` and `KeyOrTokens` say nothing of that.

## Runs

| Run | Instance | Checks |
|---|---|---|
| `mixed` | 2 runs of all five kinds, 2 ids, 1 permit, channel of 2, batches up to 2 | entries of `active_tasks`, counts, permits, journal before send, each result in one place, step order |
| `liveness` | shell, chain and continuous, 1 id, 1 permit, channel of 1 | every task ends and is reported |
| `shutdown` | 2 shell tasks, any INSERT may fail, executors may never return | the agent exits after a signal |
| `chain` | 3 steps, every rollback set and strategy | results, rollback order and completeness, cancel bound, termination |
| `continuous_exec` | 3 ticks, failing store | the reported result, late ticks, leftover shells, honest statuses, termination |
| `sidecar_exec` | messages of up to 2 bytes, base 4, behind the 4-byte header, a health probe that overlaps, 1 stop of the server | success only for completed jobs, giving up means cancelling, frames intact, `RemoteCall`, termination |
| `audit` | 4 rows, batches of 2, 2 stops, backoff cap 4 | never lost, `AuditLog`, all received in the end |
| `transport` | both modes, 3 offers, 2 streams, outbound queue of 1 | no work skipped, accepted results on their way, `WorkLink`, fetching goes on, shutdown ends |
| `units` | 2 operations on a sidecar or 3 on a package, 3 processes, 1 crash, failing store | row against disk, orphans, socket path, health reaches the heartbeat |
| `process` | 3 starts, 2 edits, 2 calls of `execute`, 2 versions | binary whole, backup usable, key or tokens, channel up to date |
| `chain_completed`, `shell_timeout` | | end in a counterexample, see below |

### Why the bounds are enough

One permit and two runs give a holder and a waiter; longer queues are covered by
the proofs. Reused ids give both an overwritten entry and an entry removed by
the wrong run. A channel of one or two places fills with every run blocked
in `send`. A batch of two has a work item submitted while an earlier item of the
same batch is running. Three chain steps have a first, an inner and a last one.
Four rows in batches of two give a full batch, a half-marked one, and new rows
during a flush. Two stops allow a crash during the recovery from another. Frames
of zero, one, two and three bytes are empty, inside, at and past the limit; a
header of four bytes can be split. One stop of the server hits any of the calls, and
those after it meet a server that is down or has forgotten the job. Three offers on two streams have work before,
across and after a reconnect, and an outbound queue of one is full with one
result. Two operations and three processes have an install, an upgrade and its
rollback; a third operation, on a package, follows a row that the checker put back.
Two calls of `execute` overlap in every way two can; three starts have
a crash in each of two lives.

The ids are a symmetry set in `mixed`, which checks no temporal property.

### Fairness

- `MainFairSpec` (shutdown): the main task is scheduled and its awaits return. For
  reports, heartbeats and the audit forwarder the HTTP client's timeout of 30 s
  justifies it. `main.rs:338` also joins the health checker, whose `call_raw`
  (`unit/health.rs:107`, `task/sidecar.rs:262`) has neither a timeout nor an eye on
  the shutdown token: that it returns is an assumption on the sidecars. The checker
  calls only units in the store, and no code path of the agent puts any there today,
  since Install and Upgrade tasks are answered without calling `install` and
  `upgrade`. Nothing is assumed of executors. `Stops` of `Transport` shows what gRPC
  needs for this.
- `FairSpec` of `TaskManager`: each run is scheduled too, and its executor
  returns. A continuous task is exempt until it is cancelled or the agent stops;
  `EveryTaskEnds` excludes behaviours in which such tasks keep all permits.
  `SidecarExec` and `ContinuousExec` show their executors return under the
  assumptions below. `ShellExec` shows a case where the shell executor does not,
  so `EveryTaskEnds` speaks of scripts without such background processes.
- `ContinuousExec`: strong fairness of the cancel branch, because tokio polls the
  branches of an unbiased select in random order; background processes end, and the
  credentials of a tick are resolved or refused (a sidecar that provides them answers).
- `SidecarExec`: both ends are scheduled, a handler that is called returns
  (`call_raw` has no timeout), and time passes. The job need not end and a server
  that has gone need not come back.
- `AuditForwarder`: the agent is started again after a crash, as `vasal.service`
  does (`Restart=on-failure`), and after a shutdown, which is up to the operator or
  the next boot; reading, posting and marking succeed
  now and then if tried for ever. These are strong fairness conditions on
  the environment, without which nothing can be delivered.
- `Transport`: timers, connects and requests end; the control plane's side of a
  stream keeps taking what was queued, or goes away. Without this a full
  outbound queue would hold `send_result`, and with it the shutdown, for ever.
- `Units`: the checker and the heartbeat run on, their calls return, and the
  store does not fail for ever.

## Where the code and its documentation disagree

Two runs are expected to end in a counterexample.

- `chain_completed`: a chain whose cancel request is seen at the head of the loop,
  before its first or a later step, is recorded and logged as completed, with steps
  missing.
- `shell_timeout`: the executor "enforces timeouts", but once the shell has
  exited it waits for the end of the pipes without timeout or cancel. A script
  that leaves a process in the background holds the task and its permit.

Remarks without a run of their own, seen while modelling. README line numbers are
those of the repository's `README.md`.

- `main.rs` logs that a result it could not report is "preserved in local
  journal". The error of the journal write is discarded, so this holds only while
  the store works. `JournalBeforeSend` is checked, and `Journaled` proved, under
  that assumption.
- README 368: "No limit on concurrent sidecar IPC calls". `spawn_exec` acquires a
  permit of the shell semaphore for sidecar tasks too (`task/mod.rs:127`).
- README 229: every completed, failed or cancelled task gets an audit row. Routed
  tasks and chains get none of these events (`task/mod.rs:214`).
- `route_task` answers Install, Upgrade and Remove tasks with Success and does
  nothing (`task/router.rs:84-123`). `Units` models the functions themselves.
- README 385-391 lists `max_concurrent` and the log level as hot-reloadable; the
  semaphore is sized once (`task/mod.rs:56`).
- README 194 describes a backoff for gRPC reconnects. It applies when
  connecting fails; a stream that ends or breaks is reconnected at once.
- A self-upgrade that overlaps another one can leave a torn binary in place, and
  a stale row written by the health checker can undo an upgrade's row.
- An artifact without the unit's binary makes `upgrade` start the old binary and
  record it as the new version (`unit/upgrade.rs:102`).
- A heartbeat that cannot read the units reports none (`heartbeat.rs:67`).

## Proofs

The theorems hold for any number of runs, ids, permits, steps, rows, ticks,
streams, clients, bytes, crashes and so on. They assume only the named ASSUMEs of
the modules; `Journaled` also needs `StoreMayFail = FALSE`. Each module of proofs
has the type correctness of its component, by which the bounds of the types (such
as the pause between two connects) hold too.

`TaskManagerProofs`:

- `TypeCorrect`. `TypeOK` is not inductive: main must hold a batch while
  submitting and a result while sending (`MainOK`), a run in its result loop must
  have a result left and the queue must hold distinct waiting runs (`RunInv`).
- `Permits`, from `Concurrency` and `NoIdle`. The invariant is `PermitOK`: free
  permits plus holders make `max_concurrent`, and a free permit means an empty
  queue. The central step is `Release`, where a permit changes hands.
- `Counts`. Refreshing the counts reads the map under the lock, so whoever
  refreshes last leaves the right value.
- `Entry`, `Cancellable`. An entry only ever points to a registered run of its
  id, and only a run with the same id overwrites or removes it.
- `Journaled`. A run past its journal step has its row (`RowOK`), and the journal
  only grows.
- `Once`, `Ordered`. `FlowInv` says that main holds a result only while it reports
  it, that the channel holds distinct results, none of them anywhere else, and
  that whatever a run sent before a queued result is reported, in main's hands
  or ahead of it in the channel.

`ChainExecProofs`: `TypeCorrect`, `ChainResult`, `Rollbacks`, `Cancels` from one
inductive invariant that relates the program counter, the current step and the
number of results; `RollbacksComplete` from a second one, which says that every
step above the rollback index has been handled; `Closing` (one closing audit row,
of the right kind) from a third one about the events written so far.

`ContinuousExecProofs`: `TypeCorrect`, `LastTickReported`, `LateTickBound`,
`TicksCleanUp`, `TicksHonest`. `ShellInv` says what the child is at each await of
`shell::execute`, `RowsInv` that every tick but the pending one has its row, and
`LateInv` that after a late tick the loop does not sleep again.

`AuditForwarderProofs`: `TypeCorrect`, `NeverLost`, `NoDuplicates` and `Refinement`.
The invariant says that the marked rows, the received rows, and the marked rows
together with the batch in flight are all without gaps. It rests on a lemma
that the first pending rows extend a gap-free set to a gap-free set.

`TransportProofs`: `TypeCorrect`, `AcceptedOnItsWay`, `NoneSkipped`, `WorkInOrder`.
The stream and its sender come and go together (`RecvInv`), nothing is on a
connection before it is made (`FreshInv`), and the offers on the live connection
rise, above the work in hand, which is above all that was submitted (`OrderInv`).
With polling the same holds of the answer in flight and the batch being submitted
(`PollInv`). `ParsedRises`, by induction over the items of an answer, says that the
parsing loop keeps the order; the induction is the argument by a least
counterexample (`LeastNat`). The last theorem is the refinement of `WorkLink`:
every step is an offer, a take or a stutter.

`SidecarExecProofs`:

- `TypeCorrect`, `DecodeFirst`, `DecodeWaits`. Whatever follows a frame, `decode`
  gives the payload that was encoded and takes no byte more; of a proper prefix it
  makes nothing. Both rest on `HeaderValue`: four digits in base `Base` give the
  length back.
- `FramesIntact`. The invariant of a connection relates its two ends and the bytes
  between them (`ConnInv`). What the server has read and what is on the way to it
  make up one frame, and the handler runs with the whole of it (`Inbound`); the same
  holds of the one response, which the server sends last (`Outbound`). `Ends` says how
  far the ends can be apart: a call of the executor that has returned left no request
  behind that could still be handled.
- `CallsKeepPromise`, the refinement of `RemoteCall`. `CallStep` maps each step to one
  of the abstract call or to a stutter; `Once` says that the handler has not run before
  its turn and runs once at most.
- `SuccessTrue`, `GiveUpCancels`. `JobInv` says what the executor may be calling at
  each of its awaits, and that an answer about the end of the job stays true until
  it is read.

`AgentProcessProofs`: `TypeCorrect`, `BinaryWhole`, `BackupUsable`, `KeyKept`,
`RuntimeCurrent`. `FileInv` says that the file being written is never the one at
the agent's path, and that without overlap one call at a time works on the files,
with its backup, marker and new binary in place in that order (`CallInv`). As in the
model, crashes are deaths of the process.

`UnitsProofs`: `TypeCorrect`, `NoneOrphaned`, `RowTrue`, `SocketKept`. `Step` reduces the
operations, the checker and the crash to nine kinds of step on the recorded pids
(`StepShape`). A process nobody told to stop is the owner, which is the row's or the
one about to be recorded (`OrphanInv`). Once an upgrade is under way the row's process
was told to stop (`StopInv`), and one that still runs after that has been noticed or
has no successor (`TermInv`). With both, nobody but the owner is left to touch
the socket path (`OwnerAlone`). `DiskInv` carries the version from the files to the row
about to be written.

Only model-checked: the liveness properties (`EveryTaskEnds`, `ShutdownCompletes`,
`Terminates`, `CancelledEnds`, `GivesUp`, `EventuallyReceived`, `KeepsFetching`,
`Stops`, `HealthReported`), which are out of the prover's reach. The two violations
are counterexamples and need no proof.

## What is not modelled

- Output text and its truncation, log lines, the contents of payloads and
  credentials, TLS, and durations other than "the timeout has passed".
- Functions that only tests call: `check_pending` and `rollback` of
  `self_upgrade.rs`, `refresh` and `apply_auth` of `auth.rs`, `lint` of
  `config.rs`, `prune_journal` and `remove_unit` of `state.rs`.
- The bundled sidecars: SQLite, an echo and kernel counters behind the SDK's
  handler trait, whose answers `SidecarExec` leaves free. Metrics and telemetry:
  formatting without state. The database migrations.
- A host that goes down, and what is left of files that were not synced. SQLite's
  commits are taken as durable.
- Two operations on one unit at the same time: no caller in the agent runs any.
- A sidecar tick of a continuous task is not composed with `SidecarExec`, and
  processes left behind by a killed shell are modelled only as holders of its
  pipes.
