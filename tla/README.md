# A specification of the Quobyte framework for Mesos

The framework keeps the services of a Quobyte storage cluster running on Mesos.
Its scheduler (`scheduler/`) takes resource offers, starts a *prober* on every
host, learns from it which Quobyte devices the host has, launches the services
that belong to those devices and a few *singletons* (API, S3, web console), and
shuts everything down when the deployed version is emptied.  Its executor
(`executor/`) is that prober.  This directory specifies the scheduler, its
persistent state, its HTTP server and the loop it forms with Mesos in TLA+,
checks them with TLC on small instances, and proves the invariants of the
scheduler, of its loop with Mesos, of the state and of the server with TLAPS for
all instances.  Paths and lines are those of the repository; `scheduler.cpp:N`
is `src/scheduler/scheduler.cpp`.

## 1. The system

| component | state | operations | who calls it |
|---|---|---|---|
| Scheduler callbacks, `QuobyteScheduler` | `nodes_` (per host: a slot per service, devices, times of the last probe and of the last sign of the prober), `api_state_`, `s3_state_`, `console_state_` | `registered`, `reregistered`, `resourceOffers` (with `makeTask`, `startProber`, `reconcileHost`), `statusUpdate`, `frameworkMessage`, and callbacks that only log | the driver's thread, one callback at a time |
| Persistent state, `SchedulerStateProxy` | `data_` (framework id, target version) in memory, one variable in ZooKeeper through `mesos::state` | constructor, two setters, `erase`, `writeback` | the driver's thread (`registered`), HTTP threads (POST), `main` |
| REST API and pages, `handleHTTP` | none of its own | GET of pages and JSON, POST `/v1/version` | a thread per HTTP connection (libmicrohttpd) |
| HTTP server, `HttpServer` | the body of a request that is being received | collect chunks, dispatch | libmicrohttpd |
| Prober, `QuobyteExecutor` | none | `launchTask` (answers TASK_FINISHED), `frameworkMessage` (scans `/proc/mounts`, looks for `QUOBYTE_DEV_SETUP` files and the client's directory) | the agent |
| Resources and command lines of a task | flags | `prepareServiceResources`, `buildResourceString`, `memMbFromResourceString`, `constructDockerExecuteCommand` | the scheduler's constructor, `makeTask` |
| Start-up, `main` | flags | read the state, `--reset`, HTTP server, driver | once |

**Interaction.**  The driver turns what the master sends into callbacks, in the
order of arrival, and passes on the calls the callbacks make (decline, launch,
kill, reconcile, message to an executor) in the order they were made.  Nothing
else orders the two directions: an update that was sent before a launch can be
handled after it.  HTTP threads read `nodes_` and write the target version with
no lock against the driver's thread.  A setter of the state writes to ZooKeeper
on the thread of its caller and does not wait for the answer.

**What is hard in it.**
 - The scheduler keeps no list of tasks.  What runs is inferred from status
   updates that answer to reconciliations of tasks that may never have existed;
   a slot of a core service still says NOT_RUNNING after its launch, a
   singleton's slot says RUNNING before its launch.
 - A singleton has one record for the cluster, and every host's reconciliation
   asks for "its" task of it.
 - A POST can empty the version while tasks are built, launched or started.
 - A restart forgets everything but the framework id and the version; `--reset`,
   or a crash before the id was stored, forgets those, and the next process is a
   new framework that cannot touch the tasks of the old one.
 - Setters of the state on several threads interleave, and the answers of the
   store are dropped.
 - A probe, its answer, an executor, a task or the connection may be lost, an
   update may come twice, an agent may come back under another id; what brings
   things back is timers and the reconciliation at each probe.
 - A POST arrives in pieces, on a connection that may stall or break, and sets
   a state that other threads set and read.

**What makes the parts correct.**
 - *Scheduler*: a slot's two fields agree; what is about to be launched is not
   running by the records; an offer is answered once and not overdrawn; a
   singleton passes to another host only through "nowhere", on an update of its
   own task.
 - *Scheduler with Mesos*: one task per singleton; no launch under an id that
   is active; records that are true at rest; a version deployed is running in
   the end, an emptied one gone.
 - *Persistent state*: ZooKeeper has what the process works with, and is
   repaired by the next setter when it has not; `--reset` erases it.
 - *HTTP server*: to its clients the version is a register that takes whole
   bodies; every connection ends.
 - *Prober*: a device is reported while one of the mounts that its container
   shows has the mark.
 - *Resources*: services that share a host ask for different ports; the memory
   limit of a process is within what its task asks for.

## 2. Plan

Done, in this order:

1. `QuobyteScheduler` - the scheduler against an environment that may do
   anything, with `SingletonLease`, the abstract specification of a singleton.
2. `QuobyteSchedulerProofs` - the inductive invariant, the lease.
3. `SchedulerStateProxy` - the persistent state under threads, crashes and
   requests that fail.
4. `MesosCluster` - extends 1 with the master, agents and executors.
5. `MesosCluster`, continued - connections that break, agents that return
   under another id, updates that are sent again, and the prober's scan of file
   systems (planned as a module of its own; as a set of mounts it is one
   definition).
6. `HttpServer` - extends 3 with the connections and refines `VersionRegister`.
7. `ServiceConfig` - ports as `uint16_t` and the memory limit; the runs take
   their ports from it.
8. `SchedulerStateProxyProofs`, `HttpServerProofs`, `ServiceConfigProofs`,
   `QuobyteOffersProofs`.
9. `LaunchFitsProofs` - the sum over the tasks of a launch, their ports, and
   their versions.
10. `MesosClusterProofs` - the invariant of the loop: types, offers, launches,
    and that the loop is still the scheduler of 1 and its lease.
11. `MesosRecordsProofs` - the order of what is under way: one task per
    singleton, and records that are true at rest, with a connection that may
    break.
12. Restarts as a new framework, in 1, 4, 10 and 11: the state that the store
    may be left with, and the tasks of former frameworks.

Left:

13. That a duplicate singleton does not last: a shutdown followed at once by a
    deployment, with two hosts.
14. What remains of `RecordsAreTrue` when an update is sent again: the record is
    wrong at most until the next reconciliation of its host.

## 3. The modules

### QuobyteScheduler

The scheduler's callbacks, timers, POST and restart.  `mailbox` is the queue of
callbacks the driver has still to run, `driver` the queue of calls Mesos has
still to act on.  The environment is open: any event of the constant `Inputs`
arrives, any call is taken.

| code | specification |
|---|---|
| `registered`, `reregistered` | `Registered` |
| the body of the loop of `resourceOffers`, by its exits: restricted host; new host; prober to start; probe due; version deployed; version empty | `IgnoreHost`; `MeetHost`; `StartProber`; `ProbeHost`; `ChooseServices`, `MakeTask`, `LaunchTasks`; `KillServices` |
| `doStartService` and the resources that remain | `DoStartService`, `Wanted`, `Fits`, `Chosen` |
| `statusUpdate`, by the state of the task | `UnknownService`, `ServiceUp`, `ServiceUnwanted`, `ServiceDown`, `ServiceStaging` |
| `frameworkMessage` | `FrameworkMessage` |
| the two intervals measured with `time()` | `KeepaliveElapses`, `ProbeIntervalElapses` |
| POST `/v1/version` | `PostVersion` |
| the count of `/v1/health` | `countRunningServices` |
| `writeback`, as far as a restart can tell | `Writeback`, `Kept` |
| the process ends and `main` runs again | `Restart`, with a state of `stored`; with the `Cleared` one after `--reset` |

How the data is abstracted:
 - A task id is its service and host.  `Suffix` is what follows the last dash of
   a host's name: `statusUpdate` takes that for the host
   (`scheduler.cpp:872`), and when the name has a dash the rest is a service
   that does not exist.  Distinct tasks have distinct ids.
 - `NameWithin` holds the pairs of names of which one contains the other, since
   `--restrict_hosts` is searched with `find`.
 - Resources are units, plus the set of fixed ports of a service (`Ports`, from
   `ServiceConfig` in the closed runs); what is subtracted is a sum, and a set
   of ports.  A service does not ask for anything of which the offer has
   several resources of one name.
 - The times of the last probe and of the prober's last sign are Booleans
   "longer ago than the interval".
 - The offers of one callback are separate events: the loop keeps nothing from
   one offer to the next.  `offerRescinded`, `disconnected`, `slaveLost`,
   `executorLost` and `error` only log and have no action.
 - `ChooseServices` only decides; `makeTask` reads the target version once more
   for each task, so a POST may come between.  The other callbacks read it at
   most once in a way that matters and are one step each.
 - The kills of a callback are one call of several tasks: nothing depends on
   their order.
 - `stored` is the set of states that the store may be left with.  Nobody looks
   at what `store()` answers, so a state that was written may never get there,
   and a restart may find any that was written since the last one - an older
   version, or no framework id - or, after `--reset`, the `Cleared` state.  Of the
   framework id only matters whether there is one (`quobyte-mesos.cpp:83`).  How
   a state gets lost is the subject of `SchedulerStateProxy`.
 - What a prober sends may not parse (`parses`), and is then ignored.

`SingletonLease` is what the scheduler promises of a singleton: it is acquired
by a host only when nobody holds it.  `owner` is the `task_id` of the record.

### MesosCluster

Extends `QuobyteScheduler` and closes its two queues with the Mesos it works
with: tasks at the agents, executors, outstanding offers, requests for a probe.
Mesos is not part of the repository; it is modelled from how `scheduler.cpp` and
`executor.cpp` use it:
 - offers hold everything that is free on a host, one offer per host at a time;
 - `TakeLaunch` refuses a task whose id is active, with a terminal update;
   `TakeKill` of an unknown task and `TakeReconcile` of one are answered with
   TASK_LOST, as the comments at `scheduler.cpp:909` and the handling of
   TASK_LOST suppose;
 - the prober's task ends with TASK_FINISHED as soon as its executor runs
   (`executor.cpp:36`), and the executor stays;
 - the answers to one reconciliation are sent in one (arbitrary, fixed) order;
 - status updates arrive, in order, and one that waits may be sent once more
   (`ResendUpdate`); a request for a probe or its answer, an executor, or a task
   may be lost;
 - the connection may break (`Disconnect`): the master's offers are gone, and
   `DropCall` is what the driver does with the calls made until `Connect` -
   launches are answered with TASK_LOST, the others vanish.  `Connect` waits
   until both queues are empty;
 - an agent may come back under another id (`AgentReturns`), without its tasks;
   what is launched on an offer of the old one is answered with TASK_LOST;
 - the executor reads the mounts of its container (`executor.cpp:77`):
   `executors` has them, as they were when the executor was started.  What is
   mounted on the host later (`Remount`) is not seen there, as `usage.md:164` says;
   what is unmounted may be seen still, or not; marks are files, and are seen
   when they come and go (`Mark`);
 - `FailOver` ends the process of the scheduler at any moment; offers are
   rescinded and both queues are lost.  If the next process finds a framework id
   it takes over tasks and executors (`TakesOver`).  Otherwise it is a new
   framework (`IsNewFramework`): the old tasks are `orphans`, which no call of it
   reaches and no update tells of, and which hold their resources until they end
   or the master gives the old framework up (`OrphanEnds`); the old executors are
   not its own, as their ids have the framework's (`scheduler.cpp:360`, `664`).

Every loss, failure, break, copy, return and change of mounts counts as a failure,
at most `MaxFailures`; restarts are bounded by `MaxRestarts`.  The
prober's scan is `FoundTypes`: a type is found if a mount of ext4 or xfs has a
mark of it, in either of the two forms that `executor.cpp:88` looks for.

`Mounted` are the hosts with the directory of `--client_mount_point`, which is
taken to be the `/quobyte` the executor looks for.

`Deploys` has to say what the code promises when an agent's id changes:
`createHost` keeps the id it met first, so `frameworkMessage` does not recognise
the new agent's prober (`Heard`).  The devices reported before stay in use, and a
host whose agent changed its id before the first answer is not served until the
scheduler is restarted.  And it speaks of the devices in the prober's container
(`KnownDevices`), which need not be those of the host.

### SchedulerStateProxy

The setters step by step: the change in memory, `Serialize`, `Fetch` (waits for
the answer), `Store` (does not).  The store is `mesos::state` on ZooKeeper: a
variable is swapped only if its identity is that of the version stored.
Requests in flight when the process ends may be lost from some point on, and a
request may fail (`ActOnStore`), of which nobody is told.
`--reset` is a process of its own (`StartReset`, `ResetReturns`).  `overlap` and
`failed` are history variables for the properties: whether the last setter was
called while another one was at work, and whether the last request failed.

### HttpServer

Extends `SchedulerStateProxy`: the HTTP threads of that module get a connection
each (`conn`).

| code | specification |
|---|---|
| `HandleRequest` for a GET | `Get` |
| its first call for a POST, one per chunk, the last | `Post`, `Chunk`, `Dispatch` |
| the return of `handleHTTP` and the queued answer | `Answer` |
| sent, timed out after a second, broken | `Close` |
| `registered` on the driver's thread | `FrameworkRegistered` |

`Received` gives for every body what `post_data` holds after each chunk.  A
connection is not timed out while the handler runs, which with a thread per
connection is up to the handler.  The reads and writes of the version's string
by several threads are a data race in the code; here each is one step.  404 is
the status of an empty page and so the answer `None`.

`VersionRegister` is what `/v1/version` promises its clients: a register that a
POST sets to its whole body at one moment before its answer; an answer shows
what the register has when it is given.  Two things follow that may surprise: a
POST can be answered with the body of another POST, and emptying the version is
answered with 404.

### ServiceConfig

Pure functions of the flags: the ports a service asks for, with the narrowing to
`uint16_t`, and the memory limit of its process.  A resource string is the
sequence of its entries.  Reading the code for it showed three things: the
services use twelve ports from `--port_range_base` on while the flag's help says
ten (`scheduler.cpp:80`); S3 gets the resources of the web console
(`scheduler.cpp:483`) but its memory limit from its own flags, which by default is
512 - 1536 (`scheduler.cpp:291`); and a size that ends the string loses its last
digit (`scheduler.cpp:220`).

## 4. The runs

| run | instance | shows |
|---|---|---|
| `one_host` | one host, two core services, API, client, prober; 31 inputs | types, `SlotsAgree`, `LaunchesAreOwned`, `LaunchFitsOffer` in any environment |
| `two_hosts` | four names (`x-a` has a dash and ends like `a`; `--restrict_hosts` holds `b` and `x-a`, so `c` is ignored and `a` is not), a singleton, one restart with any state of the store | `OwnUpdateReleases`, `OffersAnsweredOnce`, and that the scheduler implements `SingletonLease` |
| `cluster_host` | one host with Mesos, a device and a singleton that waits for it, one failover, to the same framework or a new one, and one failed task | `OffersAccounted`, `NoSecondLaunch`, `RecordsAreTrue`, types |
| `cluster_two` | two hosts, a singleton, a task that fails | `SingleInstance` |
| `cluster_deploy` | one host with a singleton and a file system that is a device at first or is not marked, and one failure of any kind: task (also with an exit 0), executor, message, connection, repeated update, new agent id, a mark that comes or goes, a file system mounted or unmounted, seen by the prober or not | `Deploys`, `HealthIsRight`, `OffersAccounted`, `NoSecondLaunch` |
| `cluster_comeback` | a singleton, POSTs of both kinds, one restart of the process: with its framework id and any version that it wrote, or as a new framework | `Deploys`, `ShutsDown`, `RecordsAreTrue` |
| `state_writers` | the driver's thread and two connections, three writes, a body of two chunks, two crashes or failed requests, `--reset` | `IsRegister` (the server implements `VersionRegister`), `RequestsEnd`, `SerialWritesPersist`, `ConflictKeepsOne`, types |

Runs that TLC must end with a counterexample; each is a place where the
program does something else than its documents say:

| run | disagreement |
|---|---|
| `versionless` | a POST of "" between the check and `makeTask` launches services without a version (`scheduler.cpp:676`, `scheduler.cpp:1047`) |
| `cluster_mount` | on a host with the client's directory the prober reports one device type, CLIENT, more than core services can run, so `doStartService` (`scheduler.cpp:155`) never starts an API, S3 or web console there |
| `cluster_dash` | on a host with a dash in its name the prober stays STARTING, because its updates are booked on another host (`scheduler.cpp:872`) |
| `state_two_writers` | two setters at once: the later state is not stored (`scheduler.cpp:423`) |
| `state_reset` | `--reset` returns before the store was given the erased state (`scheduler.cpp:433`, `quobyte-mesos.cpp:78`) |

Two more that need no run: the client's task is missing from `reconcileHost`
(`scheduler.cpp:537`), so its slot stays UNKNOWN and no client is ever launched;
and `--restrict_hosts`, in the documents a list of full names (`usage.md:50`), admits
a host whose name is a part of a listed one (`scheduler.cpp:572`).

**Bounds, and why they are enough.**
 - `MaxMailbox`: 1 in the open runs - the environment may send anything at any
   time, so a longer queue only delays it; 2 or 3 in the closed ones, where the
   queue holds old answers.  It must hold the answers of one reconciliation:
   2 with a singleton, 3 with a core service as well.  A message that does not
   fit waits, which is one more delay and loses nothing.
 - `MaxDriver` is 0 in the open runs: an event arrives only when the calls are
   taken, and one callback's calls are in the queue together.  In the closed
   runs nothing bounds that queue but the mailbox.
 - `MaxRestarts` 0 or 1: a restart leaves no memory in the scheduler, so a second
   one meets what the first one met.  What the last process allowed writes can
   be found by nobody, so `Kept` forgets it.
 - `MaxFailures`, `MaxLosses` 0 or 1: at rest the system is back where a further
   failure would find it.  (After an agent's return it is not quite: its new id
   is never learned, whatever follows.)  What is lost is the business of
   `cluster_deploy`, restarts are that of `cluster_comeback`, where nothing else
   fails.
 - `Capacity` 3 lets every service of a host run beside the prober; that offers
   are too small is the business of `one_host` (0, 2 and 5 units).
 - `Need` is 1 in the closed runs; `one_host` has 1 and 2, and two services that
   share a port.
 - `SlowTimers`: by default probes are 120 s apart and the prober's keep-alive is
   60 s (`scheduler.cpp:33`), while a declined offer returns after 5 s; so an offer of a host gets
   as far as its services before a timer of that host elapses again.  Without
   it `cluster_deploy` would fail for a reason no deployment has: a probe on
   every offer.  The open runs do without it.
 - `Posts` is empty in `cluster_two`: the version is there from the start or
   never.  With a shutdown followed at once by a new deployment `SingleInstance`
   does not hold: the answer to the second kill of an old task clears the
   record of the new one with the same id, and another host may start a second
   one until a reconciliation kills it.  No document promises otherwise; it is
   kept as a hazard.
 - `MaxWrites` 3, `MaxFailures` 2 of the state: two overlapping setters and one
   that follows, with a crash or a failed request in each half; uploads count as
   writes to come.
 - `RecordsAreTrue` is not among the properties of `cluster_deploy`: there a task
   may end with TASK_FINISHED, which the scheduler takes for running until the
   next reconciliation.

No symmetry is used: hosts differ by name and liveness is checked.  Only
`state_writers` switches the deadlock check off, where all writes and crashes
may be used up.

**Fairness** (`cluster_deploy`, `cluster_comeback`, and the two violated
`Deploys`).  The driver's thread runs the next callback, the master acts on the
next call, connects, and offers what is free: weak fairness.  A task that was
launched starts, a killed one ends, an executor answers, a timer elapses: strong
fairness, because the mailbox's bound (or, with `SlowTimers`, the other timer)
disables these steps now and then, which nothing in the code does.  The tasks of a
former framework end (weak): the master kills them after `--failover_timeout_s`, a
day by default.  Nothing is asked of clients, which are never launched.
POSTs, failures and restarts are never forced.  In `state_writers` threads are
scheduled, ZooKeeper answers, and a connection is dispatched, answered or closed
(weak): the handler's return does not depend on the client, and for everything
that does the library's timeout of one second stands.  Clients need not go on
with what they send.

## 5. The proofs

Nothing is assumed but the named assumptions on the constants
(`SchedulerAssumption`, `ClusterAssumption`, `StateAssumption`,
`HttpAssumption`), which TLC evaluates in the runs of the modules that state
them, and the hypotheses that theorems state: those of `ServiceConfigProofs` on the
flags, and, of the theorems about a specification, three, the two of
`MesosRecordsProofs` (no `Repeats`; `Plain`) and `OnlyWithdrawalLosesVersion` (no
`Withdrawal`).  `Repeats` and `Withdrawal` are steps, and the hypothesis is that the
behaviour has none of them: `Spec /\ [][~Repeats]_vars => []P`.  All other steps may
be taken any number of times: what breaks connections, loses probes, executors or
calls, and restarts, to the same framework or a new one.  What TLC finds of the properties without their hypotheses
is said below.  `ClusterAssumption` says that there are finitely many hosts
and that ids of agents differ.

| theorem | module | says |
|---|---|---|
| `TypeCorrect` | `QuobyteSchedulerProofs` | `TypeOK` |
| `SlotsAlwaysAgree` | | `SlotsAgree` |
| `LaunchesAlwaysOwned` | | `LaunchesAreOwned` |
| `OnlyOwnUpdateReleases` | | `OwnUpdateReleases` |
| `ImplementsLease` | | `LeaseSpec` |
| `EveryOfferAnsweredOnce` | `QuobyteOffersProofs` | `OffersAnsweredOnce` |
| `LaunchesAlwaysFit` | `LaunchFitsProofs` | `LaunchFitsOffer` |
| `OnlyWithdrawalLosesVersion` | | `NoVersionlessLaunch`, when no version is withdrawn while tasks are made |
| `ClusterTypeCorrect` | `MesosClusterProofs` | `ClusterTypeOK`, and `TypeOK` with Mesos |
| `OffersAlwaysAccounted` | | `OffersAccounted` |
| `NeverLaunchedTwice` | | `NoSecondLaunch` |
| `ClusterKeepsScheduler` | | `SlotsAgree`, `LaunchesAreOwned`, `LaunchFitsOffer` with Mesos |
| `ClusterImplementsLease` | | `LeaseSpec`, `OwnUpdateReleases` with Mesos |
| `SingletonsStaySingle` | `MesosRecordsProofs` | `SingleInstance`, without `Repeats` and POSTs of the empty version |
| `RecordsAlwaysTrue` | | `RecordsAreTrue`, without `Repeats`, under `Plain` |
| `StateTypeCorrect` | `SchedulerStateProxyProofs` | `TypeOK` |
| `SerialWritesAlwaysPersist` | | `SerialWritesPersist` |
| `ConflictAlwaysKeepsOne` | | `ConflictKeepsOne` |
| `HttpTypeCorrect` | `HttpServerProofs` | `HttpTypeOK` |
| `ServerUsesState` | | every behaviour of the server is one of `SchedulerStateProxy` |
| `ImplementsRegister` | | `IsRegister` |
| `PortsDisjoint` | `ServiceConfigProofs` | for which flags no two services ask for one port |
| `LimitWithinTask` | | the memory limit is within the task's memory, S3 apart |

**The scheduler.**  The inductive invariant is `Inv == TypeOK /\ SlotsAgree /\ LaunchesAreOwned`.
The parts need each other.  `StartProber` sets a slot's state and leaves its
`task_id` alone: that `SlotsAgree` survives uses that the prober was not
RUNNING.  That `MakeTask` acquires a *free* singleton is not visible where it
happens; it needs `LaunchesAreOwned`, which carries the choice made by
`ChooseServices` over the steps between, and `SlotsAgree`, by which a slot that
says NOT_RUNNING names no task.  The proof has one lemma per group of callbacks
(offers, updates, the message, the launch) over lemmas on the records
(`CreateHostOK`, `ReplaceNodeOK`, `RecordOK`); the two action properties follow
from a step lemma that says how each callback may change an owner.

**Offers.**  `OffersHeld` is a sum of cardinalities of places in queues.
`CountAppend` and `CountTail` say what a step of a queue does to such a number;
each callback takes one event and appends its calls, so that what it takes from
`mailbox` it adds to `driver` or has in hand.  `Inv` is needed for the types, and
for an offer in hand being a real one.

**Launches that fit.**  `Needs` is a fold with a recursion that chooses the next
element, so even `Needs(S \cup {x}) = Needs(S) + Need[x]` has to be shown.
`LaunchFitsProofs` does so without an induction rule: finite sets are
well-founded under strict inclusion, so if the sum were wrong for some set there
would be a smallest such set, and there it is not.  `FitInv` says of the list in
hand that what is built *and* what is still to build fit the offer together;
without the second part `MakeTask` could add one task too many.

**Launches with a version.**  The run `versionless` shows that a service may be
launched without a version; `OnlyWithdrawalLosesVersion` shows that the one cause is a
POST of the empty version between the check of `resourceOffers`
(`scheduler.cpp:676`) and the last `makeTask` of its list.  `VersionInv` says that as long as a
list is made there is a version: nothing else that runs then (updates and offers
wait for the driver's thread) changes it, other POSTs bring another one, and a
restart, which may find none in the store, takes the list as well.

**The loop with Mesos.**  `ClusterInv == Inv /\ FitInv /\ MesosInv /\ OffersInv`.
That every step of the cluster is one of the scheduler as far as the scheduler's
variables go, except that an event arrives which need not be one of `Inputs`,
lets `Inv` and `FitInv` be used again.  `OffersInv` counts offers in the three
places they can be: none is a `Stray` (of an agent the host never had), none of
those that Mesos still takes is a `Misfit` (overlaps the tasks that are on the
host), and of a host there is exactly one while it is `offered`.  They are proved
together: a new task takes nothing from another offer because there is no other
one, there is none because `MakeOffer` waits for it, and that an offer of an agent
that left cannot become valid again is what `Strays` is for.  `NoSecondLaunch`
then is arithmetic of ports: a service with ports that is active, or an orphan,
has taken them out of every offer of its host that is still good.  A new framework
starts with no offer under way, so its offers are made beside the orphans.

**One task per singleton.**  `SingleInstance` follows from a relation between the
record and the two queues (`SingleOK`).  Whatever is active, about to be launched
or reported alive is the one recorded (`Own`).  The record goes with a terminal
update, so while one is on its way its task must be over, and not be about to
start again: no launch of it, no such update before one that it runs, and an
offer before it finds the record still there.  A reconciliation that asks for the
task could be answered with such an update any time later; it is harmless because
the same callback declines the offer of the host *after* it asks, so no offer
comes before the answer.  When the connection breaks that offer may be gone, or be
one that Mesos has forgotten: `Calm` says that also then no two offers of a host
are under way, since `Connect` waits until the old ones are answered, and a launch
the driver answers itself is lost before anything was active.  The hypotheses are
needed: with a POST of the empty version the second kill of a task clears the
record of its successor (section 4).  When the agent of a host comes back under
another id, its offer overtakes the answer to a reconciliation that is under way:
a singleton launched on it is said to be lost, and launched a second time
elsewhere (a counterexample of `cluster_two` with `MaxLosses` 1).  That no update is
sent again is assumed by the proof, which counts on a terminal update being the
last of its task; TLC has found no violation by one such update.  `SingleInv` holds
up to the first restart, as the property does.

**Records at rest.**  `RecordsInv` has two halves for each task of a core service
or a singleton.  Once a task is over, every update in the mailbox that says it
runs has one behind it that says it is lost, and a record of it waits for such an
update, or for its own launch.  While a task runs it is the other way round, and
a slot that misses it waits for an update, or for the kill a shutdown has sent.
`Followed`, not `Has`, is the point: of several updates the last one decides.  It
survives any number of restarts, as both queues are lost with the records: a
framework that takes its tasks over misses them all (`Fresh`) until the
reconciliation that `Connect` brings, and a new one has none.
`Plain` names what breaks it, each for a reason in the code: a task that ends with
TASK_FINISHED counts as running (`scheduler.cpp:895`); a host with a dash has its
updates booked on another one (`scheduler.cpp:872`).  `Repeats` names the two failures
that do so too, by counterexamples of `cluster_host` with `MaxLosses` 1: a copy of an
old update comes last and says that a lost task runs; or an agent comes back under
another id while the connection is broken, and nobody tells the scheduler that its
tasks are gone.  The record is then wrong until the host is reconciled again.  A
broken connection alone does no harm: updates are still delivered, the driver answers
launches itself, and a call that is lost is made up for by the reconciliation that
`Connect` brings.

**The state.**  `SerialInv` says of a scheduler whose last setter ran alone that
at most one thread writes, that what it serialized is the data and what it
fetched is the version stored, with no request before its own (`Written`), and
that afterwards either the store has the data, or the request failed, or the one
request that waits has it and will be accepted unless it fails (`Settled`).  It is needed because the property speaks of
the moment when all is over.  `ConflictInv` says that every state on its way to
the store is the last text of a thread, or a thread has serialized another since
(`OfThread`), and that what is stored is such a state, or is about to be replaced
(`Replaced`): a request is refused only because another one came first.  That is
so until something fails, and `ConflictKeepsOne` says no more.

**The server.**  `ServerInv` adds to `HttpTypeOK` that connections are closed
when no scheduler runs.  `PostDataIsBody` is where the whole body comes from:
`Dispatch` waits for the last chunk.  `RegisterStep` maps each step of the server
to one of the register, or to none, over `OneRequest` (one connection changes,
so does one request).

Every safety property of the passing runs is a theorem, two of them
(`SingleInstance`, `RecordsAreTrue`) under the hypotheses named; that of the run
`versionless`, which fails, is one under its own.  Only model-checked is liveness
(`RequestsEnd`, `Deploys`, `ShutsDown`, `HealthIsRight`): it, like `ENABLED`, is out
of reach of the prover.

## 6. Not modelled

 - GET handlers other than that of the version: they change nothing.  They
   iterate over `nodes_` while the driver's thread may insert into it, which is
   undefined behaviour; only the racing POST is modelled.  Nor is the archive of
   the executor, where a read error ends the process.
 - What the process does when the master has given its framework up while it was
   away for more than `--failover_timeout_s`: the master answers the registration
   with `error`, which only logs.
 - A launch that is lost in the network and that nobody answers: the prober it
   was for stays STARTING until the scheduler is restarted (`scheduler.cpp:621`).
   Also what is still under way when the connection is made again, and a change
   of the master.
 - The memory of request bodies, which nothing frees (`http_server.cpp:65`).
 - `initialize_path` of the executor's messages, which only disabled code sends
   (`scheduler.cpp:588`), and lines of `/proc/mounts` that cannot be parsed.
 - Command lines apart from the memory limit, images, environment and labels of
   a task, the pages' layout, logging, flags without effect on control,
   credentials.
 - `--public_slave_role` is a constant, given in `one_host` only; whether an offer
   has resources reserved for the role does not change while services are
   subtracted from it.
 - A task that Mesos refuses because its description is invalid.
 - Build files, images and third-party code.
