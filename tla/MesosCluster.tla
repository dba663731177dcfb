----------------------------- MODULE MesosCluster -----------------------------
(***************************************************************************)
(* The scheduler with the Mesos that it works with: the master, the agents *)
(* and the prober's executors, as the callbacks and calls of               *)
(* scheduler/scheduler.cpp and executor/executor.cpp use them.             *)
(*                                                                         *)
(* Mesos acts on the driver's calls in the order they were made, and its   *)
(* answers reach the mailbox in the order it sent them.  It offers all the *)
(* free resources of a host at once, not again before that offer is        *)
(* answered.  Status updates are not lost, but may be sent again; messages *)
(* of and to an executor may be lost, and with a broken connection all     *)
(* calls are.  An agent may come back under another id, without its tasks. *)
(* The file systems of a host may be mounted and unmounted, and marked as  *)
(* devices.  A process that finds no framework id in the store is a new    *)
(* framework: it knows nothing of the tasks of the old one, the orphans,   *)
(* and cannot kill them, but they hold their resources.                    *)
(* The flag --restrict_hosts is left to QuobyteScheduler's runs.           *)
(***************************************************************************)
EXTENDS QuobyteScheduler, SequencesExt

CONSTANTS
  SlaveOf,      \* the agent on each host that has one
  NewSlaveOf,   \* the id under which the agent of a host may come back
  FirstMounts,  \* what may be mounted on a host at first
  LaterMounts,  \* what may be mounted on a host later
  Mounted,      \* the hosts with the directory --client_mount_point, /quobyte
  Capacity,     \* units of resources of a host
  SlowTimers,   \* whether the intervals of the probers outlast an offer
  Posts,        \* the bodies that are posted; "" shuts the services down
  Endings,      \* what Mesos reports then: "LOST", or "FINISHED" of an exit 0
  MaxFailures,  \* bound: how many tasks, executors, messages and connections
                \* fail, updates are sent again, agents come back, and mounts
                \* change
  MaxLosses     \* bound: how many when it is not a task that fails

\* marks: the device types named by files like quobyte-dir in the mount or
\* by lines device.type= of its file QUOBYTE_DEV_SETUP.
Mount == [type : {"ext4", "xfs", "other"}, marks : SUBSET Core]

ASSUME ClusterAssumption ==
  /\ IsFiniteSet(Hosts)
  /\ DOMAIN SlaveOf \subseteq Hosts
  /\ SlaveOf \in [DOMAIN SlaveOf -> Slaves]
  /\ \A g, h \in DOMAIN SlaveOf : SlaveOf[g] = SlaveOf[h] => g = h
  /\ DOMAIN NewSlaveOf \subseteq DOMAIN SlaveOf
  /\ \A h \in DOMAIN NewSlaveOf : /\ NewSlaveOf[h] \in Slaves
                                  /\ \A g \in DOMAIN SlaveOf :
                                       NewSlaveOf[h] # SlaveOf[g]
  /\ \A g, h \in DOMAIN NewSlaveOf : NewSlaveOf[g] = NewSlaveOf[h] => g = h
  /\ FirstMounts \cup LaterMounts \subseteq SUBSET Mount
  /\ Mounted \subseteq Hosts
  /\ Capacity \in Nat
  /\ SlowTimers \in BOOLEAN
  /\ Posts \subseteq Versions \cup {NoVersion}
  /\ Endings \subseteq {"LOST", "FINISHED"}
  /\ MaxFailures \in Nat /\ MaxLosses \in 0 .. MaxFailures

VARIABLES
  agents,     \* the id of the agent on each host
  mounts,     \* the file systems mounted on each host
  orphans,    \* the tasks of former frameworks that have not ended
  tasks,      \* state of each task of this framework at its agent
  executors,  \* of each host on which the prober's executor runs: the file
              \* systems that its container shows
  offered,    \* hosts whose free resources are offered
  probing,    \* hosts whose executor was sent a request for a probe
  connected,  \* whether the framework is registered
  reached,    \* hosts that got services considered since a timer elapsed
  failures

hostVars  == <<agents, mounts, orphans>>
mesosVars == <<hostVars, tasks, executors, offered, probing, connected,
               failures>>
clusterVars == <<schedulerVars, mesosVars, reached>>

\* A prober's task is over when its executor has started.
AgentStates == {"NONE", "STAGING", "RUNNING", "KILLING"}

Active(t) == tasks[t] # "NONE"

\* A task of whichever framework has its resources.  (Of one service on one
\* host only one framework has a task: the ports are taken.)
Held(t) == Active(t) \/ t \in orphans

On(h) == {t \in TaskId : t.host = h /\ Held(t)}

NoExecutors == [h \in {} |-> {}]

\* The executor of the host is gone.
Without(h) == [g \in DOMAIN executors \ {h} |-> executors[g]]

-----------------------------------------------------------------------------
(***************************************************************************)
(* What Mesos sends.                                                       *)
(***************************************************************************)
Send(events) ==
  /\ connected
  /\ Len(mailbox) + Len(events) <= MaxMailbox
  /\ mailbox' = mailbox \o events

Status(t, st, slave) ==
  [type |-> "statusUpdate", task |-> t, state |-> st, slave |-> slave]

\* For the first time, or again: by then what was under way is settled.
Connect ==
  /\ ~connected
  /\ mailbox = <<>> /\ driver = <<>> /\ building = Idle
  /\ connected' = TRUE
  /\ mailbox' = <<[type |-> "registered"]>>
  /\ UNCHANGED <<nodes, singletons, target_version, stored, building, driver,
                 incarnation, hostVars, tasks, executors, offered, probing,
                 failures>>

(***************************************************************************)
(* The connection to the master breaks: it forgets its offers, and the     *)
(* driver calls `disconnected', which only logs.                           *)
(***************************************************************************)
Disconnect ==
  /\ connected
  /\ failures < MaxLosses
  /\ failures' = failures + 1
  /\ connected' = FALSE
  /\ offered' = {}
  /\ UNCHANGED <<schedulerVars, hostVars, tasks, executors, probing>>

\* An update that the scheduler has not acknowledged is sent once more.
ResendUpdate ==
  /\ failures < MaxLosses
  /\ failures' = failures + 1
  /\ \E i \in DOMAIN mailbox : /\ mailbox[i].type = "statusUpdate"
                              /\ Send(<<mailbox[i]>>)
  /\ UNCHANGED <<nodes, singletons, target_version, stored, building, driver,
                 incarnation, hostVars, tasks, executors, offered, probing,
                 connected>>

MakeOffer(h) ==
  /\ h \in DOMAIN SlaveOf \ offered
  /\ offered' = offered \cup {h}
  /\ LET used == {t.service : t \in On(h)} IN
     Send(<<[type |-> "resourceOffers",
             offer |-> [host |-> h, slave |-> agents[h],
                        units |-> Capacity - Needs(used),
                        ports |-> PortsOf(Services) \ PortsOf(used),
                        public |-> TRUE]]>>)
  /\ UNCHANGED <<nodes, singletons, target_version, stored, building, driver,
                 incarnation, hostVars, tasks, executors, probing, connected,
                 failures>>

\* A prober's task goes to the executor that is there, or else starts it: its
\* container shows the file systems that are mounted at that moment.
TaskStarts(t) ==
  /\ tasks[t] = "STAGING"
  /\ IF t.service = Prober
     THEN /\ tasks' = [tasks EXCEPT ![t] = "NONE"]
          /\ executors' = [g \in DOMAIN executors \cup {t.host} |->
                             IF g \in DOMAIN executors THEN executors[g]
                                                       ELSE mounts[g]]
          /\ Send(<<Status(t, "FINISHED", agents[t.host])>>)
     ELSE /\ tasks' = [tasks EXCEPT ![t] = "RUNNING"]
          /\ UNCHANGED executors
          /\ Send(<<Status(t, "RUNNING", agents[t.host])>>)
  /\ UNCHANGED <<nodes, singletons, target_version, stored, building, driver,
                 incarnation, hostVars, offered, probing, connected,
                 failures>>

TaskEnds(t, st) ==
  /\ tasks' = [tasks EXCEPT ![t] = "NONE"]
  /\ Send(<<Status(t, st, agents[t.host])>>)
  /\ UNCHANGED <<nodes, singletons, target_version, stored, building, driver,
                 incarnation, hostVars, executors, offered, probing,
                 connected>>

TaskKilled(t) == tasks[t] = "KILLING" /\ TaskEnds(t, "LOST") /\ UNCHANGED failures

TaskFails(t) ==
  /\ tasks[t] \in {"STAGING", "RUNNING"}
  /\ failures < MaxFailures
  /\ failures' = failures + 1
  /\ \E st \in Endings : TaskEnds(t, st)

\* A task of a former framework exits, or the master ends it once the former
\* scheduler has been away for --failover_timeout_s.
OrphanEnds(t) ==
  /\ t \in orphans
  /\ orphans' = orphans \ {t}
  /\ UNCHANGED <<schedulerVars, agents, mounts, tasks, executors, offered,
                 probing, connected, failures>>

ExecutorFails(h) ==
  /\ h \in DOMAIN executors
  /\ failures < MaxLosses
  /\ failures' = failures + 1
  /\ executors' = Without(h)
  /\ probing' = probing \ {h}
  /\ UNCHANGED <<schedulerVars, hostVars, tasks, offered, connected>>

\* What the executor finds: other file systems than these are not looked at.
FoundTypes(ms) == UNION {m.marks : m \in {n \in ms : n.type \in {"ext4", "xfs"}}}

\* The client's directory is one more device type in the answer.
AnswerProbe(h) ==
  /\ h \in probing
  /\ probing' = probing \ {h}
  /\ Send(<<[type |-> "frameworkMessage", slave |-> agents[h],
             devices |-> FoundTypes(executors[h])
                           \cup {c \in {Client} : h \in Mounted},
             mount |-> h \in Mounted, parses |-> TRUE]>>)
  /\ UNCHANGED <<nodes, singletons, target_version, stored, building, driver,
                 incarnation, hostVars, tasks, executors, offered, connected,
                 failures>>

LoseProbe(h) ==
  /\ h \in probing
  /\ failures < MaxLosses
  /\ failures' = failures + 1
  /\ probing' = probing \ {h}
  /\ UNCHANGED <<schedulerVars, hostVars, tasks, executors, offered,
                 connected>>

(***************************************************************************)
(* The agent of h comes back under another id: the master takes the old    *)
(* one for lost, with its tasks and executors, and rescinds its offers,    *)
(* also those that the scheduler still has before it.                      *)
(***************************************************************************)
AgentReturns(h) ==
  /\ h \in DOMAIN NewSlaveOf
  /\ agents[h] # NewSlaveOf[h]
  /\ failures < MaxLosses
  /\ failures' = failures + 1
  /\ agents' = [agents EXCEPT ![h] = NewSlaveOf[h]]
  /\ tasks' = [t \in TaskId |-> IF t.host = h THEN "NONE" ELSE tasks[t]]
  /\ orphans' = {t \in orphans : t.host # h}
  /\ executors' = Without(h)
  /\ offered' = offered \ {h}
  /\ probing' = probing \ {h}
  /\ IF connected
     THEN Send(SetToSeq({Status(t, "LOST", agents[h]) :
                           t \in {u \in On(h) : Active(u)}}))
     ELSE UNCHANGED mailbox
  /\ UNCHANGED <<nodes, singletons, target_version, stored, building, driver,
                 incarnation, mounts, connected>>

(***************************************************************************)
(* docs/usage.md: "new devices made available on an already probed host    *)
(* are not updated in a probers container".  What is mounted later is not  *)
(* seen there; what is unmounted may be seen still, or not.                *)
(***************************************************************************)
Remount(h) ==
  /\ h \in DOMAIN SlaveOf
  /\ failures < MaxLosses
  /\ failures' = failures + 1
  /\ \E ms \in LaterMounts \ {mounts[h]} :
       /\ mounts' = [mounts EXCEPT ![h] = ms]
       /\ \E lost \in {{}, mounts[h] \ ms} :
            executors' = [g \in DOMAIN executors |->
                            IF g = h THEN executors[g] \ lost
                                     ELSE executors[g]]
  /\ UNCHANGED <<schedulerVars, agents, orphans, tasks, offered, probing,
                 connected>>

Marked(ms, m, marks) ==
  {IF n = m THEN [m EXCEPT !.marks = marks] ELSE n : n \in ms}

\* A file system is marked as a device, or no longer: a matter of its files,
\* which the container shows as well.
Mark(h) ==
  /\ h \in DOMAIN SlaveOf
  /\ failures < MaxLosses
  /\ failures' = failures + 1
  /\ \E m \in mounts[h], marks \in SUBSET Core :
       /\ marks # m.marks
       /\ mounts' = [mounts EXCEPT ![h] = Marked(@, m, marks)]
       /\ executors' = [g \in DOMAIN executors |->
                          IF g = h THEN Marked(executors[g], m, marks)
                                   ELSE executors[g]]
  /\ UNCHANGED <<schedulerVars, agents, orphans, tasks, offered, probing,
                 connected>>

-----------------------------------------------------------------------------
(***************************************************************************)
(* How Mesos acts on the next call of the driver.                          *)
(***************************************************************************)
NextCall(call) ==
  /\ connected
  /\ driver # <<>>
  /\ Head(driver).call = call
  /\ driver' = Tail(driver)
  /\ UNCHANGED <<nodes, singletons, target_version, stored, building,
                 incarnation, hostVars, connected, failures>>

\* Of the agent that the host has now; another offer is known no more.
ValidOffer(o) == o.slave = agents[o.host]

TakeDecline ==
  /\ NextCall("declineOffer")
  /\ LET o == Head(driver).offer IN
       offered' = IF ValidOffer(o) THEN offered \ {o.host} ELSE offered
  /\ UNCHANGED <<mailbox, tasks, executors, probing>>

\* A task with the id of an active one is refused, with TASK_ERROR, and every
\* task on an offer that was rescinded, with TASK_LOST.
TakeLaunch ==
  /\ NextCall("launchTasks")
  /\ LET o   == Head(driver).offer
         ids == {[service |-> k.service, host |-> o.host] :
                   k \in Head(driver).tasks}
         new == {t \in ids : ValidOffer(o) /\ ~Active(t)}
     IN  /\ offered' = IF ValidOffer(o) THEN offered \ {o.host} ELSE offered
         /\ tasks' = [t \in TaskId |-> IF t \in new THEN "STAGING" ELSE tasks[t]]
         /\ Send(SetToSeq({Status(t, "LOST", o.slave) : t \in ids \ new}))
  /\ UNCHANGED <<executors, probing>>

\* The kill of a task that Mesos does not know is answered with TASK_LOST.
TakeKill ==
  /\ NextCall("killTask")
  /\ LET ids == Head(driver).tasks IN
       /\ tasks' = [t \in TaskId |-> IF t \in ids /\ Active(t)
                                     THEN "KILLING" ELSE tasks[t]]
       /\ Send(SetToSeq({Status(t, "LOST", NoSlave) :
                           t \in {u \in ids : ~Active(u)}}))
  /\ UNCHANGED <<executors, offered, probing>>

\* Active tasks are answered with their state, the others of a list with
\* TASK_LOST; the empty list asks for all that are active.
TakeReconcile ==
  /\ NextCall("reconcile")
  /\ LET asked == Head(driver).tasks
         ids   == IF asked = {} THEN {t \in TaskId : Active(t)} ELSE asked
     IN  Send(SetToSeq(
           {Status(t, "LOST", NoSlave) : t \in {u \in ids : ~Active(u)}}
             \cup {Status(t, IF tasks[t] = "STAGING" THEN "STAGING"
                             ELSE "RUNNING", agents[t.host]) :
                     t \in {u \in ids : Active(u)}}))
  /\ UNCHANGED <<tasks, executors, offered, probing>>

TakeProbe ==
  /\ NextCall("sendFrameworkMessage")
  /\ probing' = probing \cup
       {h \in DOMAIN executors : agents[h] = Head(driver).slave}
  /\ UNCHANGED <<mailbox, tasks, executors, offered>>

\* Without a connection the driver answers launches itself, with TASK_LOST, and
\* drops the other calls.
DropCall ==
  /\ ~connected
  /\ driver # <<>>
  /\ driver' = Tail(driver)
  /\ LET call == Head(driver) IN
       mailbox' = mailbox \o
         (IF call.call = "launchTasks"
          THEN SetToSeq({Status([service |-> k.service, host |-> call.offer.host],
                                "LOST", call.offer.slave) : k \in call.tasks})
          ELSE <<>>)
  /\ UNCHANGED <<nodes, singletons, target_version, stored, building,
                 incarnation, mesosVars>>

(***************************************************************************)
(* The process of the scheduler ends, and its offers are rescinded.  With  *)
(* a framework id the next one takes over the tasks; without one, after    *)
(* --reset or when the id never got into the store, it is a new framework. *)
(* (The ids of executors contain that of the framework.  A prober's task   *)
(* ends by itself.)                                                        *)
(***************************************************************************)
TakesOver == UNCHANGED <<orphans, tasks, executors, probing>>

IsNewFramework ==
  /\ orphans' = orphans \cup {t \in TaskId : Active(t) /\ t.service # Prober}
  /\ tasks' = [t \in TaskId |-> "NONE"]
  /\ executors' = NoExecutors
  /\ probing' = {}

FailOver ==
  /\ \E state \in SchedulerState :
       /\ Restart(state)
       /\ IF state.framework_id THEN TakesOver ELSE IsNewFramework
  /\ connected' = FALSE
  /\ offered' = {}
  /\ UNCHANGED <<agents, mounts, failures>>

-----------------------------------------------------------------------------
ClusterInit ==
  /\ Init
  /\ agents = SlaveOf
  /\ mounts \in [Hosts -> FirstMounts]
  /\ orphans = {}
  /\ tasks = [t \in TaskId |-> "NONE"]
  /\ executors = NoExecutors
  /\ offered = {}
  /\ probing = {}
  /\ connected = FALSE
  /\ reached = {}
  /\ failures = 0

\* An offer whose services resourceOffers considers.
Considered ==
  IF building = Idle /\ mailbox # <<>> /\ Head(mailbox).type = "resourceOffers"
  THEN {h \in {Head(mailbox).offer.host} : ReachesServices(Head(mailbox).offer)}
  ELSE {}

SchedulerStep ==
  /\ Callback
  /\ reached' = reached \cup Considered
  /\ UNCHANGED mesosVars

(***************************************************************************)
(* Probes are 120 s apart by default, and the prober's keep-alive is 60 s, *)
(* while a declined offer comes again after 5 s: with SlowTimers an offer  *)
(* of the host gets as far as its services before one elapses again.       *)
(***************************************************************************)
Timer(A, h) ==
  /\ SlowTimers => h \in reached
  /\ A
  /\ reached' = reached \ {h}
  /\ UNCHANGED mesosVars

KeepaliveOver(h) == Timer(KeepaliveElapses(h), h)
ProbeDue(h)      == Timer(ProbeIntervalElapses(h), h)

Post(v) == PostVersion(v) /\ UNCHANGED <<mesosVars, reached>>

MesosActs ==
  TakeDecline \/ TakeLaunch \/ TakeKill \/ TakeReconcile \/ TakeProbe \/ DropCall

MesosStep ==
  /\ \/ Connect
     \/ MesosActs
     \/ \E h \in Hosts : \/ MakeOffer(h) \/ ExecutorFails(h)
                         \/ AnswerProbe(h) \/ LoseProbe(h)
                         \/ AgentReturns(h) \/ Remount(h) \/ Mark(h)
     \/ \E t \in TaskId : \/ TaskStarts(t) \/ TaskKilled(t) \/ TaskFails(t)
                          \/ OrphanEnds(t)
     \/ Disconnect \/ ResendUpdate
     \/ FailOver
  /\ UNCHANGED reached

ClusterNext ==
  \/ SchedulerStep
  \/ MesosStep
  \/ \E h \in Hosts : KeepaliveOver(h) \/ ProbeDue(h)
  \/ \E v \in Posts : Post(v)

ClusterSpec == ClusterInit /\ [][ClusterNext]_clusterVars

(***************************************************************************)
(* The driver runs its callbacks, Mesos acts on calls, offers what is free *)
(* and reports tasks, executors answer, time passes, also that which the   *)
(* master gives the tasks of a framework that is gone.  POSTs, failures    *)
(* and restarts need not happen.  Fairness is strong where the bound of    *)
(* the mailbox, or with SlowTimers the other timer, disables a step now    *)
(* and then that nothing disables in the code.  (No client is launched, so *)
(* nothing is asked of one.)                                               *)
(***************************************************************************)
Mesos(A) == A /\ UNCHANGED reached

Fairness ==
  /\ WF_clusterVars(SchedulerStep)
  /\ WF_clusterVars(Mesos(Connect \/ MesosActs))
  /\ \A h \in Hosts : /\ WF_clusterVars(Mesos(MakeOffer(h)))
                      /\ SF_clusterVars(Mesos(AnswerProbe(h)))
                      /\ SF_clusterVars(KeepaliveOver(h))
                      /\ SF_clusterVars(ProbeDue(h))
  /\ \A t \in {u \in TaskId : u.service # Client} :
       SF_clusterVars(Mesos(TaskStarts(t) \/ TaskKilled(t)))
  /\ WF_clusterVars(Mesos(\E t \in TaskId : OrphanEnds(t)))

FairClusterSpec == ClusterSpec /\ Fairness

-----------------------------------------------------------------------------
\* Every variable has its type.
ClusterTypeOK ==
  /\ agents \in [DOMAIN SlaveOf -> Slaves]
  /\ mounts \in [Hosts -> SUBSET Mount]
  /\ tasks \in [TaskId -> AgentStates]
  /\ \A t \in TaskId : t.service = Prober => tasks[t] \in {"NONE", "STAGING"}
  /\ orphans \subseteq TaskId
  /\ DOMAIN executors \subseteq Hosts
  /\ executors \in [DOMAIN executors -> SUBSET Mount]
  /\ offered \subseteq Hosts
  /\ probing \subseteq DOMAIN executors
  /\ connected \in BOOLEAN
  /\ reached \subseteq Hosts
  /\ failures \in 0 .. MaxFailures

(***************************************************************************)
(* One task of a singleton at a time runs in the cluster, as long as the   *)
(* scheduler is not restarted and nobody POSTs the empty version (Posts of *)
(* the run has none): its one record of the singleton is enough,           *)
(* although it changes before Mesos has acted on a launch, and although    *)
(* the reconciliation of every host asks for a task of the singleton that  *)
(* most hosts do not have.                                                 *)
(***************************************************************************)
SingleInstance ==
  incarnation = 0 =>
    \A s \in Singletons :
      \A t, u \in {v \in TaskId : v.service = s /\ Active(v)} : t = u

(***************************************************************************)
(* No service is launched beside a task of its on that host, also after a  *)
(* restart.  The slot of a core service says NOT_RUNNING from its launch   *)
(* to its first update, so this rests on the fixed ports: they are missing *)
(* from the offers of the host while its task is there, and also while     *)
(* that of a former framework is, of which no reconciliation tells.        *)
(* (A prober has no ports and may be launched twice after a restart; what  *)
(* is launched on an offer of an agent that is gone is refused anyway.)    *)
(***************************************************************************)
NoSecondLaunch ==
  \A i \in DOMAIN driver :
    driver[i].call = "launchTasks" /\ ValidOffer(driver[i].offer) =>
    \A k \in driver[i].tasks : k.service \in Ported =>
      ~Held([service |-> k.service, host |-> driver[i].offer.host])

(***************************************************************************)
(* The offer that Mesos made for a host is, all the time, in exactly one   *)
(* place: on its way to the scheduler, in its hands, or answered.  (Offers *)
(* of an agent that is gone, or from before the connection broke, may      *)
(* still be in any of them.)                                               *)
(***************************************************************************)
OffersAccounted == connected =>
  \A h \in DOMAIN SlaveOf :
    LET ofHost(o) == o.host = h /\ ValidOffer(o)
        waiting   == {i \in DOMAIN mailbox :
                       /\ mailbox[i].type = "resourceOffers"
                       /\ ofHost(mailbox[i].offer)}
        answered  == {i \in DOMAIN driver :
                       /\ driver[i].call \in {"declineOffer", "launchTasks"}
                       /\ ofHost(driver[i].offer)}
    IN  Cardinality(waiting) + Cardinality(answered)
          + (IF ofHost(building.offer) THEN 1 ELSE 0)
            = (IF h \in offered THEN 1 ELSE 0)

\* Nothing is under way between the scheduler and Mesos.
AtRest ==
  connected /\ mailbox = <<>> /\ driver = <<>> /\ building = Idle

\* The scheduler takes the task for running.
Recorded(t) ==
  IF t.service \in Singletons
  THEN singletons[t.service] = RunningAs(t.host)
  ELSE /\ t.host \in DOMAIN nodes
       /\ nodes[t.host].service[t.service].state = "RUNNING"

(***************************************************************************)
(* When nothing is under way, the records of the core services and the     *)
(* singletons are right both ways: what is recorded as running is active,  *)
(* and what runs is recorded.  So then only one task of a singleton runs,  *)
(* whatever was restarted, shut down or launched twice before.             *)
(***************************************************************************)
RecordsAreTrue ==
  AtRest =>
    \A t \in TaskId : t.service \in Core \cup Singletons =>
      /\ Recorded(t) => Active(t)
      /\ tasks[t] = "RUNNING" => Recorded(t)

\* The scheduler listens to the agent that the host has now: createHost keeps
\* the id of the agent it met first.
Heard(h) == h \in DOMAIN nodes => nodes[h].slave_id = agents[h]

\* The devices of h as far as they come to the scheduler's knowledge: those in
\* the container of the prober, which need not be those of the host.
KnownDevices(h) ==
  IF Heard(h)
  THEN UNION {FoundTypes(executors[g]) : g \in {h} \cap DOMAIN executors}
  ELSE nodes[h].device_type \cap Core

(***************************************************************************)
(* Once a version stays deployed, the core services that run on a host are *)
(* those of the devices that its prober can see: also when file systems    *)
(* are marked, mounted and unmounted, and when its agent comes back under  *)
(* another id as long as the old one's prober had reported them.  Every    *)
(* singleton that may be launched has a task: after --reset, or the loss   *)
(* of the framework id, once the tasks of the former framework have ended. *)
(***************************************************************************)
Deploys ==
  <>[](target_version # NoVersion) =>
    <>[](/\ \A h \in DOMAIN SlaveOf, s \in Core :
              tasks[[service |-> s, host |-> h]] = "RUNNING"
                <=> s \in KnownDevices(h)
         /\ (\E h \in DOMAIN SlaveOf : Heard(h) \/ nodes[h].device_types_valid) =>
              \A s \in Launchable : \E h \in Hosts :
                tasks[[service |-> s, host |-> h]] = "RUNNING")

(***************************************************************************)
(* Once a version stays deployed, /v1/health ends up with the number of    *)
(* core services and singletons that run, although it counts records: made *)
(* at a launch, kept when a task ends with an exit 0, and perhaps wrong    *)
(* after a call, an answer, an agent or a connection was lost, or an       *)
(* update came twice.                                                      *)
(***************************************************************************)
HealthIsRight ==
  <>[](target_version # NoVersion) =>
    <>[](countRunningServices =
           Cardinality({t \in TaskId : /\ t.service \in Core \cup Singletons
                                      /\ tasks[t] = "RUNNING"}))

(***************************************************************************)
(* Once the deployed version stays empty, no task of a Quobyte service is  *)
(* left: also those that were being launched, or started, at the POST, and *)
(* (by the master's doing alone) those of a former framework.              *)
(***************************************************************************)
ShutsDown ==
  <>[](target_version = NoVersion) =>
    <>[](\A t \in TaskId : t.service \in Ported => ~Held(t))
=============================================================================
