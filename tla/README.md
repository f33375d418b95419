# Formal model of the Experiment Console (v3)

The Experiment Console launches long-running commands on remote GPU hosts over
ssh, remembers them in a SQLite ledger, watches them, and reports their ends. This
directory holds TLA+ modules that model its control logic, TLC configurations that
check them on small instances, and TLAPS proofs that hold for every instance.
Paths below are relative to the repository; `service.py` and the like are in
`backend/experiment_console/`.

## 1. The system

    HTTP API threads ──┐                    one transaction at a time
      run/status/cancel├─► ConsoleService ─────────────────► Ledger (store.py)
    MonitorWorker ─────┘        │
                                │ ssh, one helper process per call; the answer
                                ▼ may be late, or never come
                      remote_helper.py verbs ──► files of the job's directory
                                                  ▲
                         supervisor process ──────┘──► the user's command

| Component | State it keeps | Operations | Talks to | What is hard |
|---|---|---|---|---|
| **Ledger** (`store.py`) | tables `jobs`, `resource_locks`, `events`, `outbox` | `create_job`, `update_observation`, `request_cancel`, reads | called by the service from all threads | an end is several writes; it may be observed twice, or after another end |
| **Outbox** (`store.py:408-456`) | delivery columns of `outbox` | `claim_outbox`, `ack_outbox` | external consumer | expired claims, replaced tokens |
| **Ledger start-up** (`store.py:46-151`) | the schema, `metadata.schema_version`, `ledger_id` | `_initialize` | other consoles on the same path | kills and other consoles between its statements |
| **Service** (`service.py`) | `_job_locks`; else only local variables of calls | `run`, `refresh`/`status`, `cancel`, `monitor_once`, `resources`, `logs`, `fetch` | ledger, remote executor | `run` holds no job lock; a status read before an ssh call is used after it |
| **Monitor** (`monitor.py`) | the thread, its stop event | `start`, `stop`, loop over `monitor_once` | service | must not starve, die, or be doubled |
| **Remote executor** (`remote.py`, `command.py`) | `_installed` cache | `call` per verb | ssh | lost answers, `TimeoutExpired` that is not a `RemoteError` |
| **Remote helper** (`remote_helper.py`) | per job: directory, `request.json`, `receipt.json`, `cancel-requested.json`, `status.json`; process table | `launch`, `inspect`, `cancel`, `supervise`; `resources`, `logs`, `fetch` | other helpers and the supervisor, only through those files and signals | helpers, supervisor and command interleave at every file operation; others send signals too |
| **Legacy runner** (`experiment.py`) | a temporary file per `exp fetch` | a loop of `fetch` calls | API | the file changes between two chunks; two fetches to one destination |
| **API**, **configuration**, **deployment**, **skill** | none of their own (a bearer token, settings) | routing, validation | service | - |

What makes each component correct:

* Ledger: GPUs exclusive, locks exactly those of unfinished jobs, one row per
  request id, an end notified once and never rewritten.
* Outbox: each event is delivered at least once and settled once, after
  somebody handled it; two consumers do not hold one event.
* Start-up: a console that serves has the whole schema; a ledger that is not
  its own stays untouched; consoles that start together all come to serve.
* Service and monitor: a recorded verdict is what happened remotely; a
  cancel is not forgotten; kills only on request; one launch per request; every
  end is eventually recorded; a GPU is granted only if the host had it to give.
* Monitor thread: one that is started goes on, one that is stopped ends.
* Executor: the helper that runs is whole, and the console's own.
* Remote helper: the command starts once, a cancel is never missed, an answer
  is never refuted afterwards, the directory moves through one life only.
* Logs and fetch: chunks make one file, without gap or repetition; a file that
  was there before a fetch is kept.

The list of hazards, each at its line, is `hazards` in `PROJECT.json`.

## 2. The modules

| Module | Models | Read with |
|---|---|---|
| `GpuLease` | abstract: whole grants of free GPUs, one release for each job | - |
| `Ledger` | the transactions of `store.py` on jobs, locks and events | implements `GpuLease` |
| `RemoteJob` | abstract: what one job's remote directory may show over its life | - |
| `RemoteHost` | `remote_helper.py`: helpers, supervisor, command, files | implements `RemoteJob` |
| `RemoteHostProofs` | theorems about `RemoteHost`; it implements `RemoteJob` | extends `RemoteHost` |
| `Console` | `service.py`, `monitor_once`, ssh calls and their failures, console crashes | extends `Ledger`; its remote side obeys `RemoteJob` |
| `ConsoleProofs` | theorems about `Ledger` and `Console`; `Console` implements `Ledger` and keeps to `RemoteJob` | extends `Console` |
| `Delivery` | abstract: an event is published, handled, settled, in this order and once | - |
| `Outbox` | `claim_outbox`, `ack_outbox`, and consumers that use them | implements `Delivery` |
| `OutboxProofs` | theorems about `Outbox` | extends `Outbox` |
| `FetchTransfer` | `action_fetch`, `action_logs`, the service's check, the loop of `exp fetch` | - |
| `FetchProofs` | theorems about `FetchTransfer` | extends `FetchTransfer` |
| `LedgerStart` | `_initialize`, statement by statement | - |
| `LedgerStartProofs` | theorems about `LedgerStart` | extends `LedgerStart` |
| `MonitorWorker` | the monitor thread's `start`, `stop` and loop | its turn is `Console`'s monitor |
| `MonitorWorkerProofs` | theorems about `MonitorWorker` | extends `MonitorWorker` |
| `Admission` | from the early look at the locks over the probe to `create_job` | implements `GpuLease`; its last step is `Ledger!CreateJob` |
| `AdmissionProofs` | theorems about `Admission` | extends `Admission` |
| `HelperInstall` | `ensure_helper`, its cache, and the installer on the host | comes before each remote call of `Console` |
| `HelperInstallProofs` | theorems about `HelperInstall` | extends `HelperInstall` |
| `MCLedger`, `MCConsole`, `MCOutbox`, `MCFetch`, `MCLedgerStart`, `MCHelperInstall` | finite sets and bounds for TLC | - |

`RemoteJob` is the seam: `Console` sees the host only as the phase of each
job's directory, and is checked and proved to assume no more than `RemoteJob`
(`RemoteContract`); `RemoteHost` is checked and proved to provide it
(`KeepsContract`).
So neither module carries the other's detail. `Ledger`'s `outbox` says when a
row appears and with which status; `Outbox` takes over from there (`Publish`). The
abstract `Delivery` is the seam here: `Ledger` and `Console` are proved to publish
as it says (`LedgerPublishes`, `ConsolePublishes`), `Outbox` to do the rest.

### Ledger

One action per transaction, because each runs under `BEGIN IMMEDIATE` and the
store's lock (`store.py:36`). `status`, `request` and `locks` are columns of
`jobs` and the table `resource_locks`; `events` holds the kinds that are ever
compared; `outbox` is the status in the terminal event's payload, `"none"` before.
Columns that only describe a job (command, progress, times, pids) are left out. A
job identifier is the uuid of one call of `run`, so a row is created once. In
`LedgerSpec` callers are free: any operation, any argument, at any moment.

| Action | Code |
|---|---|
| `CreateJob` | `create_job`: request id, conflicting locks, insert of row and locks |
| `UpdateObservation`, `RecordEnd`, `NewStatus` | `update_observation`: the new status; its terminal branch |
| `RequestCancel` | `request_cancel` |

### Console

`run[j]` is the program counter of the `run()` call that would create job `j`,
`wk[w]` that of a refresh or cancel made by a client thread or the monitor, `todo`
the snapshot of `monitor_once`. `phase`, `marker` and `stray` are the remote side:
the phase of each directory, whether `cancel-requested.json` exists, and whether a
cancel helper is still running whose caller gave up. `outside` remembers the jobs
that a signal ended which no cancel sent (`SupervisorStopped`).

Steps end where another thread can see or change something: a ledger
transaction, a remote file operation, the moment at which an answer is formed.
`wk[w].old` is the status a call read before ssh and uses after it. The job
lock is `JobFree`: taken by the first step of `refresh` and
`cancel`, never by `run`. Every remote call may be answered, fail
(`RunFail`, `WorkerFail`: a `RemoteError`, caught) or abort (`RunAbort`,
`WorkerAbort`: `TimeoutExpired` or an answer that does not validate, not
caught), at any of its steps, and what it started remotely may still go on.
`Crash` ends all threads and keeps ledger and host.
`wk[w].early` is a history variable, read only by `EndIsFinal`.

Not in it: an unknown profile; a `stop`/`start` of the monitor (a
second monitor would act as a client that refreshes).

### RemoteHost

One job's directory. `files` and `status` are its files, `sup`, `signalled` and
`verdict` the supervisor, `hp[h]` each helper with what it has read. `child` is the
process the supervisor has started and waits for. Where the profile has a bootstrap
(`conda run` in `config/server-profiles.json`), that is the child, and `command` is
the user's command behind it, in the same process group but unknown to the
supervisor; without one, the child is the command and `command` stays `"none"`. Each
action is one file operation, signal or look at the process table, so `launch`,
`cancel`, `inspect` and `supervise` interleave at every point at which they can
notice each other; the look after the grace period (`CancelGrace`) and the SIGKILL
(`CancelKill`) are two steps, and both signals fail, and with them the verb, if the
group is gone. `OutsideSignal` is a SIGTERM or SIGINT that no cancel sent, to the
supervisor or its whole group: the handler takes it for a cancel, and `outside`
remembers it. `atomic_json` writes through a rename, so a file is absent or whole. A helper may die anywhere, and so may the supervisor:
`sup = "killed"` is a supervisor killed alone, by something else than the helper,
while its child goes on; `"dead"` is any other end. All callers name the same
request: the checks that compare hashes become checks that the file is there. A
process id is not reused (`process_matches` compares start ticks and the group).
Zombies kept by a host without an init process are not modelled.

### Outbox

`stage`, `owner`, `token` and `left` are the delivery columns of each row; `left`
is what remains of `lease_until`, so that no absolute time is needed. A claim
has two steps, because `store.py:411` reads the clock before it waits for
`BEGIN IMMEDIATE`: `ClaimBegin` reads it, `claim[w].lag` is the age of what was
read, `ClaimCommit` is the transaction. `ClaimFail` is a ledger that stayed
busy. `Ack` is an update that found its row, `AckRefused` HTTP 409. A worker may
not hear the answer of a claim (`heard`) or of an ack, and may die with acks on
their way. `hold`, `done`, `alive` are the consumer, which is not part of the
repository: it acks what it has handled, with the token it was given.

### FetchTransfer

A call goes through `HelperResolve`, `HelperStat`, `HelperOpen` and `HelperRead`;
between any two of them the job may append to the file, change it in place, put
another one in its place, or remove it (`old` and `bytes` are the file a helper
still has open). A file that is gone fails the call; only for a log that goes away
after it was resolved is there an answer (`HelperMissing`). A log is sent as text,
and each chunk is decoded by itself: `Decoded` is `decode("utf-8",
errors="replace")` for characters of one byte and of two (`Lead`, `Trail`), where what
is no character becomes `Replaced`. `Receive` is `service.py:233-251`, which refuses
a chunk whose length does not fit its offsets, and one turn of the loop at
`experiment.py:267`; `Finish` is the move at `experiment.py:282`, a step of its own
after flush and fsync, which may fail; `Show` is the logs endpoint, which
checks nothing. `Fail` removes the temporary file. All clients have one path and
one destination: `dest` holds its bytes and who put them there, and `rivals`
remembers which fetches were under way when there first was one.

### LedgerStart

`db` is what `sqlite_master` and `metadata` hold; each statement of `_initialize`
is a step of its own, as the connection commits each one
(`isolation_level=None`) and the store's lock is one of its own process.
`Look` and `Check` are the two reads of the v3 test, `Create` one
`CREATE ... IF NOT EXISTS`, `ReadId`, `Name` and `Stamp` the rows of `metadata`.
`Die` is a kill or a statement that stayed busy.

### MonitorWorker

`stop` is the event all threads share, `cur` the attribute `_thread`. `Start`,
`StartClear`, `StartCreate` and `Stop`, `StopJoin` are the statements of
`start` and `stop`, called by one thread, the lifespan; a join gives up only on
a thread inside `monitor_once`, since its limit is longer than the loop's wait.
`LoopRaise` is an exception of `active_jobs`, which `monitor_once` calls outside its
`try`; `late` remembers threads that a join gave up on.

### Admission

`RunBegin` looks at the locks, `Resources` looks again, `Probe` reads the host,
`Verify` is `_verify_requested_gpus`, `Create` the transaction of `create_job`.
`Load` is whoever else uses the GPUs; a reading says whether a foreign process runs
there, which no action looks at. Memory and utilisation are small scales that
reach both sides of each threshold. `was` remembers what was true during the call.
Read as leases (`leaseStage`), the calls implement `GpuLease`: they compete for
GPUs as the ledger's jobs do, although they decide on what they read earlier.

### HelperInstall

`helper` is the file at the helper's path, `installed` the caches of the
consoles, `inst[t]` the installer a thread has started, which goes on if its caller
gives up or its console is replaced. `InstDigest`, `InstCurrent` and
`InstReplace` are the steps of `INSTALL_HELPER`. `Wipe` empties the state root.
`lost` remembers the versions that were there and were then replaced or wiped.

## 3. The runs

| Run | Instance | Checks |
|---|---|---|
| `ledger` | 3 jobs, 2 request ids, 3 payloads (both GPUs, one, none), 2 GPUs | `LockDiscipline`, `EndIsNotified`, `HistoryIsKept`, refinement `LeaseSpec` |
| `console_one_job` | 1 job, monitor, 2 clients, 1 crash, `FairSpec` | `ConsoleTypeOK`, `VerdictIsTrue`, `KillsAreAsked`, `RemoteContract`, `EndIsFinal`, `OnlyLaunchForgetsCancel`, `EndIsSettled`, `CancelComesTrue` |
| `console_two_jobs` | 2 jobs on one GPU, 2 request ids, monitor, 1 crash | `OneLaunchPerRequest`, `SharedOnlyAfterFalseEnd` |
| `remote_host` | 2 helpers, any verbs, `FairSpec` | `OneSupervisor`, `CancelReachesChild`, `AnswersAreSound`, `EndsAreOver`, refinement `KeepsContract`, `CancelStops` |
| `outbox` | 3 rows, of which the oldest and the youngest cannot be handled, claims of 2, 2 consumers of which one may die, lag up to 1 s, `MCSpec` | `HolderSettles`, `TakeoverNeedsExpiry`, refinement `DeliverySpec`, `Drains` |
| `fetch` | 2 clients with one destination, 1 reader of the log, files of up to 2 bytes, chunks of 1 and log chunks of 2, `MCSpec` | `CopyIsFaithful`, `DestinationIsFaithful`, `FoundIsKept`, `LogContinues`, `FetchEnds` |
| `ledger_start` | 2 consoles, 9 databases they may find, `FairSpec` | `ServingIsWhole`, `ForeignIsUntouched`, `IdIsStable`, `AllOpen` |
| `monitor_worker` | 3 threads, turns that may raise, `FairSpec` | `OnlyLateIsExtra`, `KeepsWatching`, `StopIsObeyed` |
| `admission` | 2 runs, a GPU the host lists and one it does not, every threshold and load | `GrantedWasIdle`, `RefusedHadCause` |
| `helper_install` | 2 threads of one console, 1 of its successor | `HelperIsWhole`, `RunsItsOwn` |
| `poll_race` | 2 helpers | a statement of the tests that the code does not keep; section 6 |
| `admission_foreign` | as `admission` | a statement of the repository's README that the code does not keep; section 6 |

What they show:

* **ledger** - whatever order its callers find, GPUs are handed out whole and one
  owner at a time, no lock row is left over, and an end, even if it is observed
  again or contradicted later, has exactly its first notification.
* **console_one_job** - a recorded success was the remote result and a recorded
  cancel was asked for, or was an outside signal to the supervisor, although verdicts are formed from stale statuses; the
  group kill reaches only jobs somebody cancelled. An end is undone, and a cancel
  forgotten, only by what overlaps the launch. An end on the host reaches the
  ledger for good in spite of lost answers and a restart; a cancel still on record
  comes true.
* **console_two_jobs** - however run calls overlap or die, a request is launched
  at most once and a GPU shared only after a false end.
* **remote_host** - duplicated or late launches start one command; the marker
  and receipt handshake misses no cancel; of an end that is reported nothing goes on
  but what `EndsAreOver` names: a supervisor killed alone, a job called lost
  before its receipt, a command whose bootstrap ended first. A child that ignores
  SIGTERM is killed, and the SIGKILL, if it comes to that, is for the whole group.
* **outbox** - although leases are judged by a clock that is past, a row goes to
  another consumer only when its lease is over; its token has one
  holder, who can settle it however late; it is settled once, after it
  was handled, and in the end: a claim has room for two of three rows, and takes the
  oldest, so a younger row that nobody can handle never displaces it.
* **fetch** - if the job only appends, a copy is a prefix of the file with all that
  was there at the start. What has the destination's name is always the copy of one
  fetch that reported success, and replaces nothing but the result of a fetch that
  overlapped it. A log read at `next_offset` starts there, without gap or
  repetition, except for characters that an end of a chunk cuts.
* **ledger_start** - two consoles that create one ledger at a time may fail or
  refuse, but come to serve when started again; a kill over a half made
  schema is the one exception.
* **monitor_worker** - what `Console` takes for granted: the monitor goes on,
  unless a turn raises. A second monitor is one whose join gave up.
* **admission** - a grant was within the thresholds of memory and utilization, and a
  refusal had its reason, at some moment of the call, not necessarily at one moment.
  Foreign processes are not asked for: `admission_foreign`.
* **helper_install** - broken uploads are never run; another version, or none,
  is run only after a later installation or a wipe.

### Bounds and why they are enough

* Identifiers are interchangeable to the code. A conflict takes two jobs; the
  third lets a job profit from what two others release. The payloads cover
  overlap, inclusion and no GPU. Each GPU row is treated alike.
* One job suffices for the properties of `console_one_job`: each speaks of one
  job, and jobs meet only through GPU locks and request ids, at `create_job`. Two
  clients and the monitor give a lock holder, a waiter, and a third thread. Calls
  of a worker are not bounded; a run call is one per job identifier.
* `console_two_jobs` has the monitor only: with clients the instance has more
  than sixteen million states, and clients add no step that launches a job.
* `MaxCrashes`: after a restart all threads are gone, so a second crash meets a
  state as the first one does.
* `remote_host`: helpers meet pairwise (launch-launch, launch-cancel,
  cancel-inspect), and the supervisor is a third actor. The safety properties are
  proved for any set of helpers.
* `outbox`: with three rows and claims of two, each claim of all three has to choose.
  `PoisonLater` (in `MCOutbox`) lets the rows that nobody can handle come only after
  the mortal worker is gone, so the instance is about two workers and one row first,
  which is where leases and tokens matter, and about one worker and three rows then,
  which is where the order matters. Four tokens are more than two workers can
  remember, so a fresh one is always left. `MaxLag` bounds the wait for the ledger,
  which the code bounds by 30 s; one second against a lease of one second already
  judges a lease by a time at which it was not over. Without the bounds, and with
  workers that share a consumer id, the safety properties are proved.
* `fetch`: two chunks of one byte have a first and a last, a boundary between them and
  an end that may move; log chunks of two have a character within and one that is
  cut. `MaxBytes` is what the file can hold, so exceeding it is covered by `Fail`. In
  `MCFetch`, `Apart` looks at clients and readers one kind at a time, as they share
  nothing but the file, and `RewritesAlone` lets the job rewrite or remove its file
  while at most one caller is under way: two clients meet only at the destination,
  and nothing is claimed of a file that is rewritten but whole copies of their own.
  The theorems have neither bound.
* `ledger_start`: `MCFound` has no ledger, whole ones, one without its last
  index, half made ones and several that are not v3. Two consoles suffice for
  each race; the proofs take any number.
* `monitor_worker`: three threads give a late one, its successor, and one more.
* `admission`: two values of free memory and three of utilisation lie below, at
  and above a threshold; two runs compete for a GPU.
* There is no state constraint; the bounds above are conjuncts of `MCSpec`. `CHECK_DEADLOCK FALSE` is set where the system may
  really stop: all run calls made, all jobs ended, all helpers over, all clients
  done, all threads used. In the other runs deadlock is checked.

### Fairness

* `Console!FairSpec`: the monitor loop keeps running and every call of a worker
  ends, because `subprocess.run` has a timeout. That the loop keeps running is
  `MonitorWorker!KeepsWatching`, with the exception stated there. Strong
  fairness for the monitor's turn at a job lock that
  is freed again and again, and for the steps of an answered call: the host, if
  it is asked for ever, does answer sometimes. No fairness for `run`, new
  calls, the launch helper, the supervisor or the user's command.
* `RemoteHost!FairSpec`: a helper process that was started is scheduled.
* `Outbox!Fairness`: time passes, and a worker that lives polls again (weak).
  For each event that can be handled, strong fairness for a claim that gives it a
  new token and is heard, for handling it while its token is current, and for its ack: a consumer that never hears an
  answer, or never finishes before its row is claimed again, settles nothing. None
  for publishing or dying.
* `FetchTransfer!Fairness`: a client that runs gets an answer or an error.
  `FetchEnds` is about a file the job leaves alone.
* `LedgerStart!FairSpec`: a console that ended is started again
  (`compose.yggdrasil.yaml:14`, `restart: unless-stopped`) and goes on.
  `AllOpen` is about consoles that are in the end killed no more.
* `MonitorWorker!FairSpec`: threads are scheduled, and each turn ends, since all it
  waits for has a time limit.

## 4. What is proved

All theorems hold for any values of the constants, that is for any sets of jobs,
requests, payloads, GPUs, threads, helpers, events, consumers, consoles and
versions, any lease and lag, any threshold and load, any file length and chunk
size, and any database a console may find. Assumptions are that `GpusOf` maps
payloads to sets of GPUs, that the `No...` values are not members of the sets they
stand outside of, that the monitor is not a client, that counts and times are
natural numbers (leases and chunk sizes positive), that clients and readers are
disjoint, that `Lead` is not `Trail` and `Replaced` is no byte, that `Found` is a set of databases in which a version or an id is a row
of a table that is there, that `MayRaise` is a Boolean, that the host lists GPUs a
request may name, and that each thread's console has a version, which is neither
no file nor a part of one.

`ConsoleProofs`, the ledger. The inductive invariant `LedgerInv` is
`TypeOK /\ BlankRows /\ LockDiscipline /\ EndIsNotified /\ OneJobPerRequest`.
`LockDiscipline` alone is not inductive: a job that is created must not yet
own an outbox row (`BlankRows`), and a second terminal observation may only
release nothing because the outbox row remembers the first
(`EndIsNotified`). One lemma for each action; then

* `LedgerTypeCorrect`, `LocksFollowJobs`, `EndsAreNotified`,
  `RequestsAreIdempotent` are parts of it;
* `GpusAreExclusive` follows from `LockDiscipline`: a GPU has one lock row;
* `LedgerHistoryIsKept`: an action property, from each action under `LedgerInv`;
* `LedgerImplementsLease`: the refinement `holder <- locks`,
  `stage <- leaseStage`; `CreateJob` grants, the first terminal observation
  releases, everything else stutters;
* `LedgerPublishes`: the outbox rows, as `Delivery`'s publications. A row appears
  once because the second terminal observation finds the first one's (`EndIsNotified`).

`RemoteHostProofs`. The inductive invariant `HostInv` is `TypeOK /\ OneCreator
/\ ReceiptOrder /\ CancelPlaces /\ CancelReachesChild`. `OneCreator`: only the
helper whose `mkdir` succeeded is between `resolve` and `popen`, and before
that there is no supervisor. `ReceiptOrder`: the receipt is there once the
command may run, which is what a cancel helper that found none relies on.
`CancelPlaces`: a helper's place tells its verb, and a cancel past `mark` has
left the marker, which is what the supervisor's check finds.
From it `HostTypeCorrect`, `CommandStartsOnce` and `CancelIsNotMissed`.

On top of it, `DirInv` adds to `HostInv` what the files say of each
other and of the processes: `RequestOrder` (`request.json` comes before any
supervisor and any marker), `StatusOrder` (`status.json` is the supervisor's
last word; a signal or a cancelled verdict implies the marker or a signal from
outside) and `ReadOrder`
(what a helper has read stays true, and so does its answer). It is needed
because a helper forms its answer several steps after its first read.

* `AnswersAreNotRefuted`: part of it. It speaks of answers that rest on a receipt:
  `lost` before the receipt may be followed by anything.
* `AnsweredEndsAreOver`: with `ChildOrder` (a child runs only under a supervisor
  between start and judgement, or outlives one that was killed alone; a supervisor
  that a cancel killed leaves no process), an end that was answered leaves no child,
  with the exceptions that `EndsAreOver` names.
* `HostKeepsContract`: `RemoteHost` implements `RemoteJob`. Most steps leave
  `jobPhase` alone (`SamePhase`); the launch's `mkdir`, its `request.json` or its
  failure, a cancel's marker, the supervisor's receipt, last write and death
  each take one step of the contract. An end that is `cancelled` without a marker is
  the step `Stop`, which `outside` accounts for.
* `LooksAreThePhases`: an action property about the three reads of `inspect_job`.
  `Console` models an inspection as one or two looks at the phase; each read is
  shown to fit the phase of its own moment, whatever moved since the one
  before. `LookOrder` says which files are there while a helper is reading.
* `KillsEndTheGroup`: a cancel's SIGKILL leaves nobody of the group, and a group that
  is over stays over.

`ConsoleProofs`, the console. `ConsoleInv` is `ConsoleTypeOK /\ RunPlaces /\
WorkerPlaces /\ CancelTraces /\ KillsAreAsked /\ VerdictIsTrue`. A verdict is
written in a later step than the one that formed it, so the invariant must follow
the answer on its way: `RunPlaces` and `WorkerPlaces` say that a terminal answer
in flight is the phase of the directory, which no longer changes, and that a
cancel, or a refresh that read `cancelling`, is about a job whose cancel is on
record. `CancelTraces` says the same of the row and of the directory.

* `ConsoleTypeCorrect`, `VerdictsAreTrue`, `KillsFollowRequests` are parts of it.
* `ConsoleImplementsLedger`: `Spec => LedgerSpec`. Each step of a thread, a host
  or a crash is one transaction with arguments the ledger knows, or none. All
  theorems about the ledger hold of the running system through it; those that are drawn
  are `ConsoleLocksFollowJobs`, `ConsoleEndsAreNotified`, `ConsoleHistoryIsKept`,
  `ConsoleImplementsLease` and `ConsolePublishes`.
* `RequestsLaunchOnce`: one row per request (from the ledger) and a directory
  only for a row (`RunPlaces`).
* `SharingFollowsFalseEnd`: of two jobs with processes on one GPU, one has no lock
  (`LockDiscipline`), so it ended in the ledger and was announced (`EndIsNotified`),
  and not as succeeded, for it lives (`VerdictIsTrue`).
* `ConsoleKeepsContract`: in each directory every step of the console and the host
  is a step of `RemoteJob` or none. With `HostKeepsContract`, `Console` assumes no
  step of a host that the helpers, the supervisor and its surroundings cannot take.
* `EndsAreFinal` and `CancelsAreKept` need `LockInv`, which says what the job
  lock is for: one call per job at a time; a call that began after the launch
  finds the job unfinished until it ends it itself; a refresh never holds a
  status older than a cancel. The exceptions in both statements (`InLaunch`,
  `early`) are exactly the calls that the lock does not order.

`OutboxProofs`. `OutboxInv` is `TypeOK /\ HolderSettles /\ LeasedIsOpen /\
DoneIsHandled`: only open rows are leased, and what a worker is about to ack was
handled under a token it was given. From it `HoldersSettle`;
`TakeoversFollowExpiry`, an action property, whose core is that a claim's lag is
never negative, so that what looks expired is; and `OutboxImplementsDelivery`, where
`Publish`, the first `Handle` and the first `Ack` are the three steps. `LeasesRunOut`:
no leased row has more time left than somebody asked for.

`FetchProofs`. `FetchInv` adds to the properties `Told` (what a caller saw of a
file that is only appended to stays true, and its answer is what `Sent` makes of the
bytes from its start to its `next`), `Copied`, `DestinationIsCopied` (the destination
has the copy of a client that is done, and whoever was under way since it came is among
its `rivals`), `OldIsRead`, `GoneIsRewritten` and `ClientsStartEmpty`. From it
`OffsetsAreLengths` (the offset a client asks for is the number of bytes it has, which
is the service's check), `CopiesAreFaithful`, `DestinationsAreFaithful`,
`FoundFilesAreKept`, and, with `TextIsPart` (decoding a part of the file changes only
what an end of the part cuts, or what is no character anyway), `LogsContinue`.
`EmptyAnswersNeedACut` says what could keep the loop from ending: an answer that is
empty and not the last, which takes a file that is cut between the helper's stat and its
read. Otherwise each turn moves on (`LoopsMoveOn`).

`LedgerStartProofs`. `StartInv`: no console writes to a ledger that is not v3
(`ForeignIsShut`), the statements a console has run are still in effect
(`ScriptIsKept`, `RowsAreKept`), and nothing else is ever made (`OwnIsPure`). From it
`ServersHaveTheSchema`, `ForeignLedgersAreKept` and `IdentifiersAreStable`;
`StampsComeLast` (a ledger of the console's own has its version only with the tables the
next start will ask for); and, with `WholeInv`, `WholeLedgersAreOpened` (on a whole v3
ledger no console is refused or fails, so the retries that `AllOpen` needs are needed
only while a ledger is created).

`MonitorWorkerProofs`. `WorkerInv`: the current thread meets a set event only in
the join of its own stop (`CurIsKept`), and `start` and `stop` do not overlap
(`CallerFacts`). From it `ExtraMonitorsAreLate` and `StartsAreWatched` (between
start and stop `/health` says what is the case).

`AdmissionProofs`. Each of the two properties speaks of what a call saw earlier, so
`AdmissionInv` follows that on its way: what is locked, or was seen locked, was locked
at some moment since the call began (`LocksAreKnown`), the rows of the answer are those
that were available when it was formed (`RowsAreRead`), a call past its verdict found
its GPUs idle unless the threshold was zero (`PassedIsIdle`), and one that was refused
has its cause (`RefusedHasCause`). From it `AdmissionTypeCorrect`, `GrantsWereIdle`
and `RefusalsHadCause`. `FitsIsAvailable` is the one fact about thresholds: the helper
is never stricter than the profile. `AdmissionImplementsLease`: `Create` grants,
`Release` releases, all looks and probes stutter.

`HelperInstallProofs`. `HelperInv`: an installer past the comparison of digests
has the whole helper (`OnlyWholeGoesOn`); and "was there, and is there still
unless something took it away" is handed on from the file to the installer's
success, to the cache and to the call (`OkWasThere`, `InstalledWasThere`,
`CallersAreInstalled`). The installer and the cache are needed because the
property speaks of a call that may come long after the installation it relies on.
From it `HelperTypeCorrect`, `HelperStaysWhole` and `CallsRunTheirOwn`.

Stated as theorems and in no run's list: the type invariants but `Console`'s,
`ExclusiveGpus`, `OneJobPerRequest`, `OffsetIsLength` and `StartedIsWatched`, because a
property of the run is stronger or goes deeper; `Admission`'s `LeaseSpec`,
`LooksFitPhases`, and what the table below names, because the run's liveness or safety
property covers the instance and the theorem adds all others.

Every invariant and action property and every refinement that a passing run checks
is also a theorem. Only model-checked is liveness, since fairness and `ENABLED`
are out of the prover's reach. What liveness needs of safety is proved where it
can be stated alone:

| Liveness property | What is proved of it |
|---|---|
| `CancelStops` | `KillsEndTheGroup`, `CancelIsNotMissed` |
| `EndIsSettled`, `CancelComesTrue` | `EndsAreFinal`, `CancelsAreKept`: what they reach is not undone |
| `Drains` | `LeasesRunOut`, `HoldersSettle` |
| `FetchEnds` | `EmptyAnswersNeedACut`, `LoopsMoveOn` |
| `AllOpen` | `WholeLedgersAreOpened`, `StampsComeLast` |
| `KeepsWatching`, `StopIsObeyed` | `StartsAreWatched`, `ExtraMonitorsAreLate` |

No module uses recursion, and no theorem needs induction over data.

## 5. What is not modelled

* Configuration other than the GPU thresholds: settings are validated once, at
  start, and never change.
* HTTP routing, the bearer check, error codes: no state over time.
* The legacy CLI other than `exp fetch`: each command is one request and its
  printing.
* Deployment scripts and the skill: process start-up and prose. The restart
  policy is an assumption of `LedgerStart`.
* Which paths `logs` and `fetch` admit, characters of more than two bytes, and the
  formatting of answers.
* SQLite is taken as correct: a transaction is atomic and durable. So are the
  rename of a file and the file system's order of writes: a power failure of the
  host is not modelled.
* `Admission` and `HelperInstall` are not composed with `Console`, where the probe
  may give any answer and a failed installation is a failed call.

## 6. Findings

*A success reported as lost* (`remote_helper.py:124`, run `poll_race`).
`inspect_job` reads `status.json` before the process table; a supervisor that
writes and exits in between is `lost`, which the console records as failed.
`PROJECT.json` quotes the test this contradicts.

*A GPU with a foreign process is granted* (`remote_helper.py:182`, run
`admission_foreign`). `README.md:34-35` says: "A GPU with a foreign or unknown compute
process is unavailable at v3 launch". Neither the probe nor anything after it looks at
processes: one that stays within the thresholds of memory and utilization when it is
asked is passed over. `GrantedWasIdle` and `RefusedHadCause` therefore speak of the
thresholds alone.

Weaknesses of the code without a run of their own; a passing property states the
behaviour with exactly this exception, so it shows that there is no other:

1. *A cancel during the launch is forgotten* (`service.py:169`;
   `OnlyLaunchForgetsCancel`). `run` writes `unknown` when the launch fails, over
   `cancelling`; the monitor then inspects and does not retry the cancel.
2. *A running job without locks* (`store.py:278`; `EndIsFinal`).
   `update_observation` takes an observation of an ended job and `run` takes no
   job lock: the launch's late answer reopens a job whose GPUs are free.
3. *A cancel that can never be answered* (`remote_helper.py:310`; the premise
   `phase[j] \in Placed` of `CancelComesTrue`). If the launch never reached the
   host, each retry fails for want of `request.json`; the job stays
   `cancelling`, its GPUs locked.
4. *Two jobs on one GPU* (`remote_helper.py:182`; `SharedOnlyAfterFalseEnd`). A
   premature `lost` frees the GPU of a job that is starting, and the probe does not
   ask for processes.
5. *A ledger that is refused for good* (`store.py:65`; `HalfMade` in `AllOpen`). A
   console killed between its first `CREATE TABLE` and the version leaves a
   schema that every later start takes for somebody else's.
6. *A threshold of zero means none* (`remote_helper.py:168`; the premise of
   `GrantedWasIdle`). `gpu_max_utilization: 0` is admitted by `config.py:30` and
   read as 100.
7. *A monitor that ends* (`monitor.py:35`; `KeepsWatching`). An exception of
   `active_jobs` ends the thread; `/health` then says so, and nobody starts another.
8. *A helper that is gone, or another version's* (`remote.py:81`; `lost` in
   `RunsItsOwn`). The cache is not undone by a failed call, nor by another console's
   installation.
9. *A cancel that nobody asked for* (`remote_helper.py:257-261,293`; `outside` in
   `VerdictIsTrue` and `RemoteJob!Stop`). The supervisor takes any SIGTERM or SIGINT
   for a cancel, also that of a host that shuts down or of an operator's `kill`: the
   ledger records `cancelled`, with no marker and no request.
10. *A command that survives its cancel* (`remote_helper.py:321`; the second part of
   `EndsAreOver`, the first of `CancelStops`). A bootstrap that obeys SIGTERM lets the
   supervisor write its status and exit within the grace period; a command behind it
   that ignores SIGTERM then gets no SIGKILL, while the ledger has released its GPUs.
   The same bootstrap may end before its command without any cancel.
11. *Rows that starve* (`store.py:421`; the premise of `Drains`). As many rows as a
   claim's limit that are older and that nobody can handle fill each claim for ever.
12. *Characters lost from a log* (`remote_helper.py:358`; `Lost` in `LogContinues`). Each
   chunk is decoded by itself, so a character that its end cuts is shown as U+FFFD in
   both chunks; who continues at `next_offset` never sees it.
13. *A fetched file that is replaced* (`experiment.py:259,282`; `rivals` in
   `FoundIsKept`). Of two fetches with one destination that overlap, both report
   success, and the later one's copy is what stays.

## 7. What is left

All components that keep state over time are modelled. Worth adding:

1. `Admission` composed with `Console`: what a false end (4 above) means for the
   thresholds of the next grant.
2. Two consumers that share an id under fairness in `Outbox` (a far larger instance
   than the one that is run).
3. `RemoteHost` with three helpers under fairness.
