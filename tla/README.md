# Verification of distributed-cron

TLA+ models, TLC configurations and TLAPS proofs for distributed-cron, a cron
service in Go: masters elect a leader through etcd, the leader's cron triggers
jobs, a dispatcher sends each triggered job to a worker by gRPC, and the worker
runs it, under a distributed lock if the job asks for that, and records the
execution in etcd.  Paths below are relative to `src/`.

The repository has no tests.  What its authors intend is taken from `README.md`
and from comments; what the models say is taken from the code.

## 1. The system

| component | code | state | operations |
|---|---|---|---|
| job lock | `internal/infra/etcd/etcd_locker.go`, contract in `internal/domain/locker.go` | per call of `Lock`: a session (lease), a key under `/cron/lock/<job>` | `Lock`, `Unlock`; expiry of a lease |
| worker server | `internal/worker/server.go` | one goroutine per execution, its record, its outcome | `ExecuteTask`, `runJob` and its deferred functions |
| execution history | `internal/infra/etcd/etcd_execution_repository.go` | records under `/cron/history/<job>/<execution>` | `Save`, `Get` (no caller), `ListByJobName` |
| worker process | `cmd/worker/main.go` | process, root context, gRPC server | start, signal, `GracefulStop`, deregistration, exit |
| worker registry and discovery | `internal/worker/registry.go`, `internal/master/discovery.go` | keys under `/cron/workers/` with a lease; the map of workers that each master holds | `Register`, `Deregister`; `WatchWorkers`, `GetWorkers` |
| dispatcher | `internal/master/dispatcher.go` | cache of gRPC clients | `DispatchTask`, `getOrCreateClient`, `domainToProto` |
| leader election | `internal/infra/etcd/etcd_leader_election.go` | session, candidate key under `/cron/leader`, `isLeader` | `Campaign`; `Resign` and `IsLeader` have no caller |
| scheduler service | `internal/usecase/schedular_service.go` | where its loop is | `Start`, `runSchedular` |
| cron scheduler | `internal/scheduler/cron_scheduler.go` | the cron library's entries, the map from job names to entries | `Start`, `Stop` (empty), `AddJob`, `RemoveJob`, `Run` |
| job service and HTTP API | `internal/usecase/job_service.go`, `internal/api/http/`, `internal/infra/etcd/etcd_job_repository.go` | jobs under `/cron/jobs/` | save, delete, get, list, list the history |
| master process | `cmd/master/main.go` | process, root context, HTTP server | start, signal, shutdown, exit |
| executors | `internal/infra/http/`, `internal/infra/shell/` | none beyond one call | `Execute` |
| configuration, tracing, metrics, etcd client | `internal/config`, `internal/tracing`, `internal/metrics` | none that the rest reads | |
| frontend, gRPC stubs | `frontend/`, `proto/` | none | |

### How they interact, and what is hard about it

* The masters share nothing but etcd.  Leadership is a key with a lease: it can
  end while its owner works, and the owner learns of it later, by the `Done`
  channel of its session.  `Campaign` can fail at any step and is called again
  five seconds later, with a new session, while the old one lives on.
* In one master the loop of `Start`, a goroutine for each call of
  `cronScheduler.Start`, the HTTP handlers and the cron library run
  concurrently; handlers and loop use the `jobs` map without a lock.
* The master's knowledge of the workers, and the followers' knowledge of the
  jobs, is stale by design of the code: the first is a list and a watch, the
  second is read once per term.
* A worker acknowledges a task before the goroutine that runs it does anything;
  nothing waits for that goroutine when the process ends.
* The job lock is a lease again; a request to etcd that has been given up by its
  client may still be applied.  Every call of `Lock` ends within 100 ms, so lost
  and late requests are part of its normal life.
* `runJob` ends through deferred functions, by a return, an error or a panic.

### What makes each component correct

* Job lock: two holders of one job's lock exist only if one has outlived its
  lease; a holder loses its key by nobody's doing but its own or its lease's; no
  call that has failed, no dead process and no late request keeps a lock for ever.
* Worker server: the lock covers the executor, and nothing but it; a record says
  only what happened; an execution whose saves were answered is recorded; a final
  record stays; every execution gets to its end.
* Election: one session at a time that was told to lead has its key, and
  sessions lead in the order of their candidate keys.
* Scheduler service: two leaders only if one has lost its lease unnoticed; a
  deposed leader steps down; somebody takes over; a cron that runs can be stopped.
* Registry, discovery, dispatcher: a worker that serves is registered; a worker
  that stays registered is known in the end, and one that is gone forgotten; a
  task is given to at most one worker, once, and to none if its dispatch is
  reported as failed.
* Job service and cron scheduler: the cron of a master triggers each job once,
  by the definition that etcd holds, as far as this master can know it, and the
  leader triggers all jobs that are stored; an entry can always be found and removed
  by the job's name.
* Job definitions, conversions, executors: what is stored can be run; the worker
  gets what was stored, and tries it as its policy says.
* History: a page holds the records that its number and size say; a client that
  reads page after page misses no record, although executions start and end
  meanwhile.

## 2. Modules

| module | about |
|---|---|
| `LeaseLock` | abstract: what a lock made of an etcd lease promises |
| `EtcdLocker` | `etcdLocker.Lock`, `etcdLock.Unlock`, sessions, leases, lost and late requests |
| `WorkerServer` | extends `EtcdLocker`: `ExecuteTask`, `runJob`, records, the end of worker processes |
| `LeaderElection` | `Campaign`, candidate keys, sessions, lost and late requests |
| `SchedularService` | extends `LeaderElection`: `Start`, `runSchedular`, the goroutine of `cronScheduler.Start`, the end of master processes |
| `JobService` | save and delete requests, `AddJob`, `RemoveJob`, the loader of a new leader, over etcd's jobs and the cron of every master |
| `TaskExecution` | one job on its way from the request through storage, dispatch and worker to the attempts of its executor |
| `WorkerDiscovery` | the life of a worker process, `Register` and `Deregister`, the list and the watch of `WatchWorkers` |
| `TaskDelivery` | abstract: what the dispatch of a task promises |
| `Dispatcher` | extends `WorkerDiscovery`: `cronJobWrapper.Run`, `DispatchTask`, the gRPC channel to the workers |
| `ExecutionHistory` | `Save` and `ListByJobName`, and the pages that `handleGetJobHistory` asks for |
| `EtcdLocker_proofs`, `WorkerServer_proofs`, `LeaderElection_proofs`, `SchedularService_proofs`, `JobService_proofs`, `TaskExecution_proofs`, `Dispatcher_proofs` (of `WorkerDiscovery` too), `ExecutionHistory_proofs` | theorems |
| `MC...` | instances for TLC |

`EtcdLocker` and `LeaderElection` both implement `LeaseLock`, by
`INSTANCE LeaseLock WITH ...`, and `Dispatcher` implements `TaskDelivery`, which
shares its variables; the composed modules take the steps of the module
they extend, and `UsesLocker` and `UsesElection` say that they take no others.
`JobService` has an election of its own, reduced to one leader key that may be
lost at any moment: which sessions lead is the question of `LeaderElection`, what
the masters do to their crons meanwhile that of `JobService`.  `TaskExecution` is
sequential and takes the place of the unit tests of the conversions.  What a
worker does with a task that `Dispatcher` has it accept is `WorkerServer`; what it
saves meanwhile, `ExecutionHistory` reads.

### EtcdLocker

An execution calls `Lock` at most once, so one set `Exec` stands for the calls,
the sessions and the keys.  `stage[e]` is where the call is:
`idle -> trying -> held -> closing -> done`, with `losing` for the moment between
the transaction that finds another key and the deletion of one's own, and `dead`
for a process that ended.  Etcd compares create revisions; since a key is younger
than all the keys it finds, "my key is the first" is "there is no other key"
(`Rivals(e) = {}`).  A lease is `alive` while its client renews it, `orphaned`
when nobody does, `gone` when etcd has deleted it and its keys.  There is no
clock: a lease can expire at any moment (an unreachable etcd does that after the
TTL of 10 s), and one that is orphaned has to expire in the end.  A failing
request is lost, applied, or late (`inflight`).

### WorkerServer

`pc[e]` follows `runJob`: `accepted`, `recorded` (after the first `Save`),
`locking`, `executing`, `unlocking`, `deciding`, `finishing`, `finished`; or `killed`
with the process.  The executor is reduced to how it ends (`ok`, `error`, `panic`);
an unknown executor type is an error too.  `Deferred` is the order in which the
deferred functions run, the reverse of the code's: `unlocking` (`Unlock`, deferred
only by an execution that has the lock), `deciding` (the function that looks at
`execErr` and sets `status[e]`, the record in memory, by `DecidedStatus`: a panic
leaves no error, so it takes one for a success), and `finishing` (the function that
recovers, sets a panicked record to failed and saves it, `FinalStatus` and
`SaveFinal`).  Every way out of the body enters this order at its first function that
applies.  Either `Save` may fail without effect, or be applied though it failed; the
first may also be applied late.  `reported` names the executions that were told of
such an error, which they only log.  `Shutdown`, `Exit` and `Crash` are the
signal with `GracefulStop`, the return of `main`, and the death of the process
at any moment.  A restarted worker is another member of `Worker`: it takes a new
identity and keeps nothing.

### LeaderElection

Each call of `Campaign` by node `n` uses a session `<<n, k>>`.  The client
library puts a candidate key, which gets the next create revision (`rank`), and
waits until there is no key with a smaller one.  It does not look at its own key,
so a candidate whose lease expired while it waited is told that it leads; the
model has that, and the `Done` channel (`doneChan`) which closes soon after.
A put that fails may be applied late; an error or a cancelled context while
waiting leaves the key, or deletes it if the context was cancelled.  `isLeader`
is set and, as in the code, never reset while the process lives.

### SchedularService

`pc[n]` follows the loop of `Start`.  `elected` is the moment before
`runSchedular`; `LoadJobs` and `LoadFails` are its two ways out.  The jobs are
reduced to "listed and added in this term" (`loaded`).  `AddJob` cannot fail on a
stored job, since the API validates expressions with the parser that cron uses
(`internal/api/http/job_handler.go:33-54`).  Every term that
loads its jobs creates one more goroutine of `cronScheduler.Start`: `starting[n]`
counts those that have not called `cron.Start` yet, `waiting[n]` those that wait for
the root context and then call `cron.Stop`.  They share one cron, so `cron` is a set of
nodes: the second start does nothing, and the first stop stops it for all.  The `Stop`
of a deposed leader is empty, so it has no effect in the model either.
After a cancellation `main` returns or `log.Fatalf` ends the process before the
HTTP server was shut down (`cmd/master/main.go:105-109`): `Exit` is either.

### JobService

Every request is a thread (`net/http` gives it a goroutine), and so is the loader
of every node.  `pc[t]` says what the thread does next: `putting` or `deleting`
(the repository's request to etcd), `finding` (reading the `jobs` map),
`removing` and `adding` (calls of the cron library, which has its own lock),
`recording` and `forgetting` (writing the map).  `Save` puts and then calls
`AddJob`; `Delete` calls `RemoveJob` and then deletes.  A failing write may still
be applied (`late`).  The map is unprotected: `FatalRace` is the Go runtime that
notices two concurrent accesses and ends the process; if it does not notice, the
accesses happen in some order.  `listed[n]` is what `runSchedular` has read and
has yet to add.

Two history variables hold no state of the program: `tangled` names the nodes and
jobs for which calls have overlapped, `settled` those for which the last change
went through this node.  They say for which states the code can be expected to
have cron and etcd agree.

### TaskExecution

A request is any combination of executor type, fields, policies and retries;
strings are reduced to what the code tells apart (empty, a valid value, an
invalid one).  `Accepted` is the validator's tags, `ToDomainJob`, `Valid` and
`Validated` are `SaveJobRequest.ToDomainJob` and `Job.Validate`, `DomainToProto`
and `ProtoToDomain` the two conversions with the backoff as a text on the way,
`HttpAttempt` and `ShellAttempt` the executors, with every way an attempt can
end.

`ValidatorPanics` is what a request with a retry policy meets: the tags
`omitempty,dive` (`internal/api/http/dto.go:28`) stand on a pointer to a struct, and the
validator of `go.mod:8` (v10.29.0) panics when it has to dive into anything but a slice,
an array or a map.  `net/http` recovers and closes the connection.  This is the
behaviour of that version of the library, whose source is not in the repository; it
depends on nothing but the type of the field.  So no stored job has a policy.  What
the code does with one further on is translated all the same: the conversions, and the
loop of the HTTP executor.

### WorkerDiscovery

`stage[w]` follows `main` of a worker: `new`, `granted` (the lease of `Register`),
`registered`, `listening` (the port is bound, the goroutine that calls `Serve` is
created), `serving`, `draining` (`GracefulStop`), and one of `exited`, `fatal`
(`log.Fatalf`, which runs no deferred function) and `crashed`.  `unserved` is a
signal that comes before `Serve`: `GracefulStop` finds nothing to stop, `Serve` is
refused and calls `log.Fatalf`, and races with the deferred `Deregister` of a
`main` that returns.  Whoever starts second on a host does not get the port.
`lease[w]` is `alive`, `orphaned` when the process has ended or `Deregister` has
failed, `expired` or `revoked`; its end takes the key along and sends a delete to
the watch.  A lease that expires under a living worker stays expired: the
keep-alive loop only logs it (`internal/worker/registry.go:55`).

`watch` follows `WatchWorkers`: `starting`, `listed`, `watching`, `ended`.  The
list may fail, which is logged.  The watch starts with the changes that come
after it, so what happens between the two steps is lost; the history variable
`missed` names the workers concerned, for as long as nothing else is heard of
them.  `events` are the changes on their way.  A watch that is closed is not
opened again.  `GetWorkers` reads the map under its lock, so it is the value of
`known` at one moment.  One master is enough, since masters share nothing here.

### Dispatcher

`call[t]` is a dispatch: `waiting` (cron has not triggered it), `calling`,
`handling` (a worker's `ExecuteTask` has begun), `ended`.  `PickWorker` takes any
known worker.  Every worker registers the address `:50052`
(`cmd/worker/main.go:39`), so `getOrCreateClient` keeps one client for all, and
gRPC resolves an address without a host to the local one: `channel` is `idle`,
`ready` or `failing`, and `peer` is the process on the master's host that it is
connected to.  A call waits while a connection is being opened and fails at once
while attempts fail; the channel goes on trying, and after a `GracefulStop` or the
end of its peer starts anew.  `Drained` is what `GracefulStop` waits for.  An
answer is lost only with the worker's process, since both are on one host; with a
remote worker the network could lose it too, and `FailedMeansNotRun` would be
limited to answers that arrive.  The gRPC library is modelled from its
documented behaviour and marked external where nothing in `src/` decides.

### ExecutionHistory

The records of one job in the order in which their keys were created, which is how
etcd sorts them.  An execution saves its record twice, under one key, and either
put may be lost.  `ListByJobName` is the code's computation with `int`s that wrap
around (`Wrap`), `PageOf` and `PageSizeOf` what the handler makes of the query's
parameters, `Atoi` included, which returns the greatest `int` for a number that is
too large and an error that is ignored.  The client that reads until a page is not
full is external: the frontend and README show single requests.  Removing a job
leaves its history where it is, so nothing ever takes a record away.
`HistoryAssumption` says that an `int` can count the executions of a job and two pages
more: with 64 bits and pages of at most 100, no store that etcd can hold comes near.

## 3. Runs

| run | question | instance |
|---|---|---|
| `worker` | of the locker: `LiveLockExclusive`, `NobodyElseUnlocks`, and does it implement `LeaseLock`?  of the worker: `ForbidExclusiveUnderLease`, `LockCoversExecution`, `HistoryIsTruthful`, `CleanRunIsRecorded`, `FinalRecordIsKept`, `UsesLocker` | 2 executions, 1 job, 2 workers, both policies; 1.7 million states |
| `worker_live` | `ExecutionsFinish`, `KeysAreFreed` under `FairSpec` | 2 executions of a Forbid job that panics, 1 worker; 171 thousand states |
| `master` | `LiveLeaderExclusive`, `CronCanBeStopped`, `CronWasLoadedAsLeader`, `UsesElection`; of the election: `OneLeaderKey`, `LeadershipInOrder`, and does it implement `LeaseLock`? | 2 masters, 3 campaigns, 2 faults of 6 kinds; 922 thousand states |
| `master_live` | `TakeOver`, `DeposedStepsDown` under `FairSpec` | 2 masters, 2 campaigns, 1 fault; 67 thousand states |
| `jobs` | `NameLeadsToEntry`, `OneEntryPerJob`, `OnlyStoredJobsRun`, `SettledAgrees` | 2 masters, 1 job, 2 requests, 2 terms, 1 fault of 3 kinds; 643 thousand states |
| `task` | `StoredJobsAreRunnable` | every request, without a retry policy or with 0, 3 or 11 retries; 3 thousand states |
| `dispatch` | `ServingIsRegistered`, `ListConverges`, `FailedMeansNotRun`; `RegistryIsFollowed` and `DispatchEnds` under `FairSpec`; does the dispatcher implement `TaskDelivery`? | 2 workers on the master's host, 1 task, 2 faults of 7 kinds; 233 thousand states |
| `history` | `PagesAreSlices`, `NoRecordSkipped` | 4 executions, pages of up to 3, `int`s up to 31; 6 thousand states |
| `master_single` | violated: `SingleActiveScheduler` | |
| `master_failover` | violated: `Failover` | |
| `jobs_orphan` | violated: `RemovedMeansGone` | 1 master, 2 requests, no fault |
| `dispatch_picked` | violated: `PickedWorkerGetsTask` | 2 workers on 2 hosts, no fault |

Each run of a module with a state of its own has one type invariant besides
(`history` has none: its properties fail on any value of another type); every
property of a passing run is broken by a faulty variant of one definition (in the
modules, right before the definition it replaces; `PROJECT.json` pairs them).

Bounds, and why they are enough. Exclusion is about pairs, and two executions are
the least of which one holds a lock, or is late, while the other asks for it; names
do not mix, since a key starts with its job's. Three executions at once, and the
rest of what `worker` and `master` check as invariants or step properties, follow
from the proofs below, which hold for every number. In `worker_live` the executor
always panics: that is the way out of `runJob` that passes all deferred functions
and the recovery, and `worker` has all three endings. Two campaigns per master are the least with an abandoned
session and a new one; three with two faults let a node fail twice and lead after
it. `MaxFaults < MaxCampaigns` makes sure that liveness is not lost merely because
the bound on campaigns is reached. `jobs` has two threads that can meet on one map
(two requests, or a request and the loader), a second node through which etcd
changes, and a term before and after the change; jobs do not share entries, so one
name is enough for what the properties say of a name. The retries of `task`
are none, those of the example in `README.md`, and more than the tag would allow: the
validator treats them alike. In `dispatch` two workers share a host,
so that they meet over the port, and the second takes over the connection of the
first; both can be the one that is missed by the list and the watch. Two faults let
a worker crash while the registry is already wrong. Tasks share only the channel,
whose state one task sees in full, and the proofs hold for any number. `int`s of 6
bits, a default page of 2 and a maximum of 3 stand for 64 bits, 20 and 100: the
requested numbers lie below, at and above every one of these, and around the
products that wrap around. `CHECK_DEADLOCK FALSE` everywhere: executions, campaigns,
requests and processes come in finite numbers, and when all have ended nothing
happens any more. Symmetry is used in runs without liveness only.

Fairness.  Goroutines are scheduled and etcd answers or refuses; deadlines of the
code bound `TryLock` (100 ms) and `Unlock` (5 s).  `NewSession` and `Save` have
none, so "etcd answers" is an assumption there.  The executor ends: HTTP requests
have a client timeout of 15 s, and no stored job asks for retries; for shell commands it is
an assumption, because the 30 s limit kills the shell and still waits for any
descendant that keeps its output open.  A lease that nobody renews expires.
In `FairSpec` of `Dispatcher`, `main` of a worker, `WatchWorkers`, a dispatch that
has begun and the connection attempts of gRPC go on.  `DispatchTask` has no deadline
(its context is `context.Background()`); that it ends rests on the channel, which
fails calls while it cannot connect.
Nothing forces a task to be sent, a signal, a crash, a fault, an expiry of a
renewed lease or the arrival of a late request; and `TakeOver` is claimed only
for faults in opening sessions, expiries and crashes, because of the finding on
`Failover`.

## 4. Findings

* `Failover` (`etcd_leader_election.go:51`).  A `Campaign` that fails after its
  candidate key was put leaves its session open and renewed.  The next call queues
  behind that key.  Once the leader dies, the abandoned key is the oldest, and
  nobody leads for as long as that process lives.  `README.md:8` promises that
  another master takes over.
* `SingleActiveScheduler` (`cron_scheduler.go:48`).  `Stop` relies on a context
  that nobody cancels when only the leadership is lost: the deposed master's cron
  goes on, beside the new leader's.  `README.md:25` says that only one is active.
* `RemovedMeansGone` (`cron_scheduler.go:54`).  `AddJob` and `RemoveJob` use the
  `jobs` map in several steps without a lock.  When two calls for one job overlap,
  in two handlers or in a handler and the loader, an entry can stay in cron that
  the map does not lead to; no deletion removes it.
* `PickedWorkerGetsTask` (`cmd/worker/main.go:39`).  Workers register `:50052`
  without a host, so every dispatch goes to the process that has the port on the
  master's host, whichever worker was picked; workers on other hosts get nothing.
  `README.md:29` says that several can run, to share the work.

Three more faults are in the models, and no property of a run is about them:

* Every save request with a retry policy makes the validator panic
  (`internal/api/http/dto.go:28`; `ValidatorPanics`): the first example of
  `README.md:84-98`, and the frontend's form whenever a retry or a backoff is asked for.
  The job is not stored and the client gets no answer.  No execution is ever retried,
  although `README.md:13` names retries among the features.
* A job that is created or changed through a master that does not lead reaches only the
  cron of that master, which need not run; the leader triggers it, or its new definition,
  not before its next term (`internal/usecase/job_service.go:80`).  `README.md:26-27`
  says that the leader does the scheduling and that masters serve the API.
  `SettledAgrees` excepts such jobs by `settled`.
* A new leader adds the jobs that it has listed while its handlers save jobs: it may
  replace a definition that was saved meanwhile by the older one of the list, and goes on
  triggering that (`internal/usecase/schedular_service.go:66`).  `SettledAgrees` excepts
  such jobs by `tangled`.

Seen while reading and not made into runs: a leader that cannot list the jobs keeps
the leadership and never starts cron (`internal/usecase/schedular_service.go:61`;
`CronWasLoadedAsLeader` is what remains true); nobody looks at the session of the
job lock, so that a second instance of a Forbid job starts when the lease expires
under the first (`internal/worker/server.go:133`; `ForbidExclusiveUnderLease` is
what remains true); a worker that registers or leaves between the master's list and
its watch is not noticed, nor is any worker if the list fails, before its next
change (`internal/master/discovery.go:37-46`; `ListConverges` says for whom that
happens), and a watch that ends is not opened again; a worker whose lease expired
goes on serving and never registers again (`internal/worker/registry.go:55`); a
signal between `net.Listen` and `Serve` ends the worker by `log.Fatalf` with its key
in etcd; a dispatch whose response says that the worker could not convert the task
is reported as successful (`internal/worker/server.go:59`,
`internal/master/dispatcher.go:64`; `StoredJobsAreRunnable` says that a stored job can
always be converted); for a large page number `(page - 1) * pageSize` wraps around
and an earlier page is returned (page 2^60 + 1 of 16 records is the first one,
`internal/infra/etcd/etcd_execution_repository.go:123`); the history of a job
survives its deletion; a job that panics
is counted as a success in the metrics and recorded as failed
(`internal/worker/server.go:119`); a first save that arrives late turns a finished
execution running again (`internal/worker/server.go:93`; `FinalRecordIsKept` and
`CleanRunIsRecorded` are what remains true); `Delete` through the leader that fails
after `RemoveJob` leaves a stored job that is not triggered
(`internal/usecase/job_service.go:101`); a held lock is refused with another error than the `ErrLockNotAcquired` that
`internal/domain/locker.go:22` promises;  an incomplete
executor is refused with status 500 and not 400; a job whose name contains "/"
cannot be reached by the routes that get or delete it; saving a job again gives it a
new ID and creation time; if a retry policy could be stored, the output of the
last HTTP attempt would be lost when all retries fail (a shadowed variable,
`internal/infra/http/http_task_executor.go:36`), and the shell executor would ignore the
policy that `README.md:84-98` shows for it;
a worker that shuts down gracefully abandons the executions it has accepted
(`cmd/worker/main.go:103-107`), so their records stay "running", as after a crash;
the lock can be refused though nobody holds it, when two callers meet whose keys are
both there; `RetriesAttempted` of a record is never set
(`internal/domain/execution.go:28`);  the election's TTL is `EtcdTimeout` and not
`LeaderElectionTTL` (`cmd/master/main.go:96`).

## 5. Proofs

All theorems hold for arbitrary sets of executions, names, workers, tasks and nodes,
any bound on campaigns and faults, and any set of retry numbers. They assume what
the modules declare: `NoName` is not a job name, `NoTask` is not a task, the
policies are among Allow and Forbid and the endings of an executor among the three,
the kinds of faults are among those of the module, the bounds are natural numbers
with `MaxFaults < MaxCampaigns`, hosts share no workers and have all of them, and a
nil pointer is none of the values that a pointer leads to, job names are finitely many,
and an `int` can count the executions of a job (see `ExecutionHistory`).  The inductive
invariants were checked by TLC on instances like those of the runs before they were
proved; `JobIInv` also on one with a single master and two names.

**Locker.**  `LiveLockExclusive` is not inductive: a late `TryLock` could put a
key under a holder's nose, and a key without a lease could stay.  The invariant
`LockerIInv` adds that every key and every late request has a lease that is not
gone, that a holder whose lease is not gone has its key, that a late request
belongs to a call that will never hold the lock, and that holders of one name who
both have keys are one.  The one step that makes a holder saw no other key.  From
it follow `LockerExclusive`, `OwnKeyOnly` (`NobodyElseUnlocks`) and
`LockerImplementsLeaseLock`: `TryLock` answered with the lock is `Acquire`, every
other step is `Lose` or a stutter.

**Worker.**  `WorkerUsesLocker`: every step of the worker is a step of the locker
or leaves it alone, so `LockerExclusive` holds in the worker.  `AllInStep` ties
`pc` to `stage` (in particular, `executing` a Forbid job is `held`), which gives
`WorkerLockCovers` and, with the locker's theorem, `WorkerForbidExclusive`.
`AllRecorded` says that only `finished` executions have a final record and which
outcome it tells; `WorkerHistoryIsTruthful` and `WorkerFinalRecordIsKept` follow.
It also says that an execution that is not `reported` has no late save, has
the status of its outcome in memory once it was decided, and in etcd once it finished:
`WorkerCleanRunIsRecorded`.

**Election.**  `ElectionIInv` says that keys of different sessions have different
revisions, none above the counter, that a key has a lease, that a session that
was told to lead never puts its key again, and that keys are no older than the
leading sessions.  It gives `ElectionInOrder`, `ElectionOneLeader` and
`ElectionImplementsLeaseLock` (`Elected` is `Acquire` if the candidate still has
its key and `AcquireTooLate` if not).

**Masters.**  `MasterUsesElection`: every step of a master is a step of the
election or leaves it alone, so all of the above holds of the masters.
`LiveLeaderExclusive` needs the tie between a master's place in its loop and its
session.  `LeadsUnderLease` is that tie: a node that waits has put its key and has
it until its lease is gone, and a node that leads has been told so, and the same.
It is inductive because only the node itself, by a cancelled wait, or the end of
the lease takes a key away (`HeldStays`), and a node changes its session only when
it does not lead.  Two leaders that both have their lease then both have their
key, which `OneLeaderKey` excludes: `MasterLiveLeaderExclusive`.
`MasterCronCanBeStopped` says that whenever cron runs, one of the goroutines that
started it still waits; it is inductive because the goroutine that starts cron goes on to
wait, and the one that stops waiting stops cron.  `MasterCronWasLoadedAsLeader` follows
with `LeadsUnderLease`: the jobs are listed by a node
that was told to lead with its current session.

**Task.**  `ConversionRoundTrip` is the lemma about the two conversions: a job
with the fields of one executor type survives them.  `AcceptedBecomesJob` says
that every accepted request gives such a job, and that `Validate` leaves it as it
is.  `TaskIInv` adds what is known at each stage: what is stored is the job of a request
without a retry policy, what the worker has is what is stored, and the first attempt is
the only one.  `TaskStoredJobsAreRunnable` follows.

**Registry.**  `ServingIsRegistered` becomes inductive with the stage before
listening (`RegisteredFirst`).  `ListConverges` needs that no event is under way
while the watch is not open (`Converging`), and two facts about the sequence of
events: the last one decides alone what the master will know of its worker
(`LastEventDecides`), and taking the first one decides nothing
(`FirstEventIsTaken`).  Every change of the registry appends one event, and
opening the watch puts all that differs into `missed`.

**Dispatcher.**  Every step is a step of `WorkerDiscovery` or leaves it alone, so
both properties hold under the dispatcher.  `HandledByTheLiving` says in whose
hands a task is: nobody's before it is handled, then those of a worker that
serves, drains or has crashed, for `Drained` lets none go that handles a task.
`DispatcherFailedMeansNotRun` and `DispatcherImplementsTaskDelivery` follow.

**Job service.**  `JobIInv` has three layers above `TypeOK` and `Control`, which ties a
thread's place to the ids it has found and the jobs it still has to load.  `NamesOK` holds under every interleaving: an id has one
name, wherever a map, an entry or a thread between two steps knows it (`Claimed`), the
id that a thread is about to write into the map is new, and what the map holds is an
entry or was found by a call under way.  It gives
`JobNameLeadsToEntry`, and `JobRemovesOwnEntries`, which no run checks: however calls
overlap, `cron.Remove` takes an id of the caller's own job.  `DefsWritten` says that what
is stored, listed or added was put by somebody, and that a request whose write was
given up ends there; hence `JobOnlyStoredJobsRun`.  `Sequential`, for a node and a job
whose calls have not overlapped there, says what a call relies on from one of its steps
to the next: in front of `finding` the map and cron agree, between `removing` and
`recording` cron has no entry or the new one, and what a call will add is what etcd
holds.  A step of another thread at the same node and job
would break that; `OverlapsAreTangled` says that there is none.  `JobOneEntryPerJob` and
`JobSettledAgrees` follow.  `JobRemovedAloneIsGone` is what remains true of the finding
`RemovedMeansGone`: an entry can be orphaned by calls that overlap, and by nothing else.

**History.**  `NextPage` shows that the page a client reads next is the slice that it
should be: it begins no later than behind the oldest record, so its end does not overflow.
`Reading` is the invariant: whatever was there at the beginning and is not seen yet lies
behind the pages read, newest first.  `Save` appends in front of them and never moves a
record forward, so the distance only grows; a page that is not full ends at the oldest
record.  That gives `HistoryNoRecordSkipped`.  `HistoryPagesAreSlices` needs one
case more, a number that `Atoi` clamps to the greatest `int`: the product wraps around to
`-2 * pageSize`, or to a start beyond every record, according to the parity of the page
size, and the page is empty as it should be (`GreatestPageIsEmpty`).

Every invariant and every step property of a passing run is now a theorem.  Only
model-checked: all liveness; fairness and ENABLED are outside of what TLAPS proves.
Each `WF_vars` conjunct, and so `TakeOver`, `DeposedStepsDown`, `ExecutionsFinish`,
`KeysAreFreed`, `RegistryIsFollowed` and `DispatchEnds`, stays with TLC.

## 6. Plan

1. Done: all modules of section 2, the proofs of all safety properties that the runs
   check, and of the refinements of `LeaseLock` and `TaskDelivery`.
2. Left to prove: the safety part of the liveness properties, that is, what the last
   steps towards `KeysAreFreed` and `DispatchEnds` rest on (that a worker without
   a process keeps no renewed lease, that a call under way has a step or waits for the
   channel), as invariants.

Not modelled, and not planned: configuration, tracing, metrics and logging (no state
that behaviour depends on), generated gRPC code, the frontend (a client of the HTTP
API that keeps nothing), what jobs do when they run and what they print, `Resign`,
`IsLeader` and `executionRepository.Get` (no caller).
