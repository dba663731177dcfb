--------------------------- MODULE QuobyteScheduler ---------------------------
(***************************************************************************)
(* The Mesos scheduler of the Quobyte framework (scheduler/scheduler.cpp): *)
(* the callbacks of the class QuobyteScheduler, run one at a time by the   *)
(* driver's thread, and the POST to /v1/version, run by an HTTP thread at  *)
(* any moment, also in the middle of a callback.                           *)
(*                                                                         *)
(* The callbacks the driver still has to run are the queue `mailbox', the  *)
(* calls made on the driver that Mesos still has to act on are the queue   *)
(* `driver'.  Here the two ends of the queues are an open environment: it  *)
(* puts any event of Inputs into the mailbox and takes any call.  Module   *)
(* MesosCluster closes them with a model of Mesos.                         *)
(*                                                                         *)
(* A task is known by its service and its host, the two parts of its id    *)
(* "quobyte-<service>-<host>": a task_id field holds the host alone, or    *)
(* NoHost when the field is empty.                                         *)
(***************************************************************************)
EXTENDS Integers, Sequences, FiniteSets, FiniteSetsExt

CONSTANTS
  Hosts,          \* host names: of the agents, and parts of those names
  Slaves,         \* agent ids
  Core,           \* the services that need a device: registry, metadata, data
  Singletons,     \* the services of which one runs: api, s3, webconsole
  Launchable,     \* the singletons the flags allow (not s3 without s3_hostname)
  Versions,       \* the versions that can be posted, without the empty one
  RestrictHosts,  \* the hosts that --restrict_hosts lists, {} when not given
  NameWithin,     \* the pairs <<a, b>> where the name a is a substring of b
  Suffix,         \* what follows the last "-" in a name; the name without "-"
  PublicRole,     \* whether --public_slave_role is given
  Need,           \* units of cpu, memory and disk that a service asks for
  Ports,          \* the host ports that a service asks for
  Rank,           \* order in which resourceOffers considers the services
  Inputs,         \* the events of the open environment
  MaxMailbox, MaxDriver, MaxRestarts  \* bounds of the open environment

NoHost    == ""
NoVersion == ""
NoSlave   == ""

Prober == "prober"
Client == "client"      \* the service, and the device type CLIENT

NodeServices == Core \cup {Prober, Client}
Services     == NodeServices \cup Singletons
DeviceTypes  == Core \cup {Client}
Ported       == Core \cup Singletons  \* the services that ask for ports
PortsOf(S)   == UNION {Ports[s] : s \in S}

TaskId     == [service : Services, host : Hosts]
TaskStates == {"STAGING", "RUNNING", "FINISHED", "LOST"}
              \* "STAGING" also stands for STARTING, "LOST" for FAILED,
              \* KILLED and ERROR: the code treats them alike

Offer == [host : Hosts, slave : Slaves, units : Nat,
          ports : SUBSET Nat, public : BOOLEAN]

Event ==
  [type : {"registered"}]
    \cup [type : {"resourceOffers"}, offer : Offer]
    \cup [type : {"statusUpdate"}, task : TaskId, state : TaskStates,
          slave : Slaves \cup {NoSlave}]
    \cup [type : {"frameworkMessage"}, slave : Slaves,
          devices : SUBSET DeviceTypes, mount : BOOLEAN,
          parses : BOOLEAN]  \* whether the text is a probe response

Task == [service : Services, version : Versions \cup {NoVersion}]

\* What the store keeps; of the framework id, whether there is one.
SchedulerState == [framework_id : BOOLEAN,
                   target_version : Versions \cup {NoVersion}]
Cleared == [framework_id |-> FALSE, target_version |-> NoVersion]

Call ==
  [call : {"reconcile"}, tasks : SUBSET TaskId]  \* {}: all the tasks known
    \cup [call : {"declineOffer"}, offer : Offer]
    \cup [call : {"launchTasks"}, offer : Offer, tasks : SUBSET Task]
    \cup [call : {"killTask"}, tasks : SUBSET TaskId]
    \cup [call : {"sendFrameworkMessage"}, slave : Slaves]

ServiceState == [state : {"UNKNOWN", "NOT_RUNNING", "STARTING", "RUNNING"},
                 task_id : Hosts \cup {NoHost}]

NodeState == [slave_id : Slaves \cup {NoSlave},
              service : [NodeServices -> ServiceState],
              device_type : SUBSET DeviceTypes,
              client_mount_point : BOOLEAN,
              device_types_valid : BOOLEAN,
              keepalive_over : BOOLEAN,  \* prober not seen for the interval
              probe_due : BOOLEAN]       \* last probe longer ago than that

ASSUME SchedulerAssumption ==
  /\ IsFiniteSet(Core) /\ IsFiniteSet(Singletons)
  /\ Core \cap Singletons = {}
  /\ {Prober, Client} \cap (Core \cup Singletons) = {}
  /\ Launchable \subseteq Singletons
  /\ NoHost \notin Hosts /\ NoSlave \notin Slaves /\ NoVersion \notin Versions
  /\ RestrictHosts \subseteq Hosts /\ NameWithin \subseteq Hosts \X Hosts
  /\ Suffix \in [Hosts -> Hosts]
  /\ PublicRole \in BOOLEAN
  /\ Need \in [Services -> Nat]
  /\ Ports \in [Services -> SUBSET Nat]
  /\ \A s \in Services : Ports[s] # {} <=> s \in Ported
  /\ Rank \in [Services -> Nat]
  /\ \A s, t \in Services : Rank[s] = Rank[t] => s = t
  /\ \A e \in Inputs : e \in Event
  /\ MaxMailbox \in Nat /\ MaxDriver \in Nat /\ MaxRestarts \in Nat

VARIABLES
  nodes,           \* nodes_: the state of each host known
  singletons,      \* api_state_, s3_state_ and console_state_
  target_version,  \* of the SchedulerStateProxy; HTTP threads write it
  stored,          \* the states that the next process may find in the store
  building,        \* the offer for which resourceOffers is building tasks
  mailbox,         \* events whose callback the driver has yet to run
  driver,          \* calls on the driver that Mesos has yet to act on
  incarnation      \* how often the framework was restarted

schedulerVars == <<nodes, singletons, target_version, stored, building,
                   mailbox, driver, incarnation>>

-----------------------------------------------------------------------------
Unknown    == [state |-> "UNKNOWN", task_id |-> NoHost]
\* Mutant: the state of the Mesos task is stored as it is.
MesosState == [state |-> "LOST", task_id |-> NoHost]
NotRunning == [state |-> "NOT_RUNNING", task_id |-> NoHost]
RunningAs(h) == [state |-> "RUNNING", task_id |-> h]

(***************************************************************************)
(* createHost: map::insert keeps the entry a host already has.             *)
(***************************************************************************)
NewNode(slave) ==
  [slave_id |-> slave, service |-> [s \in NodeServices |-> Unknown],
   device_type |-> {}, client_mount_point |-> FALSE,
   device_types_valid |-> FALSE, keepalive_over |-> TRUE, probe_due |-> TRUE]

CreateHost(host, slave) ==
  [h \in DOMAIN nodes \cup {host} |->
     IF h \in DOMAIN nodes THEN nodes[h] ELSE NewNode(slave)]

\* resourceOffers is not in the middle of an offer.
NoOffer == [host |-> NoHost, slave |-> NoSlave, units |-> 0, ports |-> {},
            public |-> FALSE]
Idle == [offer |-> NoOffer, todo |-> {}, made |-> {}]

\* Mutant: only the tasks of the node's own services are asked for.
ReconcileNode(host) ==
  [call |-> "reconcile",
   tasks |-> {[service |-> s, host |-> host] : s \in NodeServices}]

(***************************************************************************)
(* reconcileHost asks for the fixed list of the tasks a host may have; the *)
(* client's is not in it.                                                  *)
(***************************************************************************)
ReconcileHost(host) ==
  [call |-> "reconcile",
   tasks |-> {[service |-> s, host |-> host] : s \in Services \ {Client}}]

ReconcileAll == [call |-> "reconcile", tasks |-> {}]
Decline(o)   == [call |-> "declineOffer", offer |-> o]
Launch(o, ts) == [call |-> "launchTasks", offer |-> o, tasks |-> ts]
\* The kills of one callback; nothing depends on their order.
Kills(ts)    == IF ts = {} THEN <<>>
                ELSE <<[call |-> "killTask", tasks |-> ts]>>
Probe(slave) == [call |-> "sendFrameworkMessage", slave |-> slave]

(***************************************************************************)
(* Nobody waits for the answer of store(), which may fail, or never be     *)
(* asked: whatever the process has written since it read its state is a    *)
(* state it may leave behind.  The last process that MaxRestarts allows    *)
(* leaves nothing.  Module SchedulerStateProxy has the steps of writeback. *)
(***************************************************************************)
Kept(process, states) == IF process < MaxRestarts THEN states ELSE {}

HasFrameworkId == \E s \in stored : s.framework_id

Writeback(state) == stored' = Kept(incarnation, stored \cup {state})

\* The driver's thread takes the next event once it has left the last callback.
TakeEvent(type) ==
  /\ building = Idle
  /\ mailbox # <<>>
  /\ Head(mailbox).type = type
  /\ mailbox' = Tail(mailbox)
  /\ UNCHANGED <<target_version, incarnation>>

NextEvent(type) == TakeEvent(type) /\ UNCHANGED stored

-----------------------------------------------------------------------------
(***************************************************************************)
(* registered stores the framework id and reconciles with the empty list,  *)
(* reregistered only reconciles: the id is then there already.             *)
(***************************************************************************)
Registered ==
  /\ TakeEvent("registered")
  /\ Writeback([framework_id |-> TRUE, target_version |-> target_version])
  /\ driver' = Append(driver, ReconcileAll)
  /\ UNCHANGED <<nodes, singletons, building>>

(***************************************************************************)
(* The offers of a callback are handled one after the other and share no   *)
(* state but the scheduler's, so an event carries one offer.  The actions  *)
(* below are the ways through the body of that loop.                       *)
(***************************************************************************)
Admits(host) ==
  RestrictHosts = {} \/ \E r \in RestrictHosts : <<host, r>> \in NameWithin

IgnoreHost ==
  /\ NextEvent("resourceOffers")
  /\ LET o == Head(mailbox).offer IN
       /\ ~Admits(o.host)
       /\ driver' = Append(driver, Decline(o))
  /\ UNCHANGED <<nodes, singletons, building>>

\* Mutant: the offer of a new host is not declined.
MeetHostKeepsOffer ==
  /\ NextEvent("resourceOffers")
  /\ LET o == Head(mailbox).offer IN
       /\ Admits(o.host)
       /\ o.host \notin DOMAIN nodes
       /\ nodes' = CreateHost(o.host, o.slave)
       /\ driver' = Append(driver, ReconcileHost(o.host))
  /\ UNCHANGED <<singletons, building>>

MeetHost ==
  /\ NextEvent("resourceOffers")
  /\ LET o == Head(mailbox).offer IN
       /\ Admits(o.host)
       /\ o.host \notin DOMAIN nodes
       /\ nodes' = CreateHost(o.host, o.slave)
       /\ driver' = driver \o <<ReconcileHost(o.host), Decline(o)>>
  /\ UNCHANGED <<singletons, building>>

\* An offer of a host that nodes_ has.
KnownOffer(o) == Admits(o.host) /\ o.host \in DOMAIN nodes

ProberMissing(n) ==
  /\ n.keepalive_over
  /\ n.service[Prober].state \notin {"RUNNING", "STARTING"}

StartsProber(o) ==
  ProberMissing(nodes[o.host]) /\ Need[Prober] <= o.units

StartProber ==
  /\ NextEvent("resourceOffers")
  /\ LET o == Head(mailbox).offer IN
       /\ KnownOffer(o)
       /\ StartsProber(o)
       /\ nodes' = [nodes EXCEPT ![o.host].service[Prober].state = "STARTING"]
       /\ driver' = Append(driver,
                      Launch(o, {[service |-> Prober, version |-> NoVersion]}))
  /\ UNCHANGED <<singletons, building>>

DueForProbe(n) == n.service[Prober].state = "RUNNING" /\ n.probe_due

\* Ask the prober for devices, and reconcile the tasks of the host.
ProbeHost ==
  /\ NextEvent("resourceOffers")
  /\ LET o == Head(mailbox).offer IN
       /\ KnownOffer(o)
       /\ ~StartsProber(o)
       /\ DueForProbe(nodes[o.host])
       /\ nodes' = [nodes EXCEPT ![o.host].probe_due = FALSE]
       /\ driver' = driver \o
            <<Probe(o.slave), ReconcileHost(o.host), Decline(o)>>
  /\ UNCHANGED <<singletons, building>>

ReachesServices(o) ==
  KnownOffer(o) /\ ~StartsProber(o) /\ ~DueForProbe(nodes[o.host])

CoreServicesRunning(n) ==
  {c \in Core : n.service[c].state = "RUNNING"}

\* Mutant: the state of the service is not looked at.
StartAnyway(s, n, service_state) == n.device_types_valid

DoStartService(s, n, service_state) ==
  /\ n.device_types_valid
  /\ \/ s \in Core
     \/ Cardinality(CoreServicesRunning(n)) = Cardinality(n.device_type)
  /\ service_state.state = "NOT_RUNNING"

\* The services the offer's host should start, resources apart.
Wanted(o) ==
  LET n == nodes[o.host] IN
  {s \in Launchable : /\ DoStartService(s, n, singletons[s])
                      /\ PublicRole => o.public}
    \cup {s \in {Client} : /\ DoStartService(s, n, n.service[s])
                           /\ n.client_mount_point}
    \cup {s \in Core \cap n.device_type : DoStartService(s, n, n.service[s])}

Needs(S) == MapThenSumSet(LAMBDA s : Need[s], S)

\* Mutant: the resources of the services taken before are not subtracted.
FitsAlone(o, S, s) == Ports[s] \subseteq o.ports /\ Need[s] <= o.units

\* Mutant: the ports are not among the resources of a service.
FitsWithoutPorts(o, S, s) == Needs(S) + Need[s] <= o.units

\* remaining_resources still contains what s asks for after S was subtracted.
Fits(o, S, s) ==
  /\ Ports[s] \subseteq o.ports \ PortsOf(S)
  /\ Needs(S) + Need[s] <= o.units

\* In the order of Rank each service wanted is taken if it still fits.
Chosen(o) ==
  {S \in SUBSET Wanted(o) :
     \A s \in Wanted(o) :
       s \in S <=> Fits(o, {t \in S : Rank[t] < Rank[s]}, s)}

\* Mutant: services are started whether there is a version or not.
ChooseWithoutVersion ==
  /\ NextEvent("resourceOffers")
  /\ LET o == Head(mailbox).offer IN
       /\ ReachesServices(o)
       /\ \E S \in Chosen(o) :
            IF S = {}
            THEN /\ driver' = Append(driver, Decline(o))
                 /\ UNCHANGED building
            ELSE /\ building' = [offer |-> o, todo |-> S, made |-> {}]
                 /\ UNCHANGED driver
  /\ UNCHANGED <<nodes, singletons>>

(***************************************************************************)
(* A version is deployed: decide what to start.  makeTask reads the target *)
(* version again for every task, so the tasks are built in steps of their  *)
(* own and a POST can come before or between them.                         *)
(***************************************************************************)
ChooseServices ==
  /\ NextEvent("resourceOffers")
  /\ LET o == Head(mailbox).offer IN
       /\ ReachesServices(o)
       /\ target_version # NoVersion
       /\ \E S \in Chosen(o) :
            IF S = {}
            THEN /\ driver' = Append(driver, Decline(o))
                 /\ UNCHANGED building
            ELSE /\ building' = [offer |-> o, todo |-> S, made |-> {}]
                 /\ UNCHANGED driver
  /\ UNCHANGED <<nodes, singletons>>

\* Mutant: only the state is set, the task_id stays.
RecordState(ns, t, value) ==
  IF t.service \in Singletons
  THEN /\ nodes' = ns
       /\ singletons' = [singletons EXCEPT ![t.service].state = value.state]
  ELSE /\ nodes' = [ns EXCEPT ![t.host].service[t.service].state = value.state]
       /\ UNCHANGED singletons

\* The slot of the task t of a known host becomes value; ns is nodes_ so far.
Record(ns, t, value) ==
  IF t.service \in Singletons
  THEN /\ nodes' = ns
       /\ singletons' = [singletons EXCEPT ![t.service] = value]
  ELSE /\ nodes' = [ns EXCEPT ![t.host].service[t.service] = value]
       /\ UNCHANGED singletons

MakeTask(s) ==
  /\ s \in building.todo
  /\ \A t \in building.todo : Rank[s] <= Rank[t]
  /\ building' = [building EXCEPT
       !.todo = @ \ {s},
       !.made = @ \cup {[service |-> s,
                         version |-> IF s = Client THEN NoVersion
                                                   ELSE target_version]}]
  /\ LET h == building.offer.host IN
       IF s \in Core
       THEN UNCHANGED <<nodes, singletons>>
       ELSE Record(nodes, [service |-> s, host |-> h], RunningAs(h))
  /\ UNCHANGED <<target_version, stored, mailbox, driver, incarnation>>

LaunchTasks ==
  /\ building # Idle
  /\ building.todo = {}
  /\ driver' = Append(driver, Launch(building.offer, building.made))
  /\ building' = Idle
  /\ UNCHANGED <<nodes, singletons, target_version, stored, mailbox,
                 incarnation>>

(***************************************************************************)
(* No version is deployed: shut down what runs on the host of the offer.   *)
(* The singletons are killed under the name they would have on this host,  *)
(* whichever host they run on; the client is not killed.                   *)
(***************************************************************************)
RunningOn(n) ==
  CoreServicesRunning(n)
    \cup {s \in Singletons : singletons[s].state = "RUNNING"}

KillServices ==
  /\ NextEvent("resourceOffers")
  /\ LET o == Head(mailbox).offer IN
       /\ ReachesServices(o)
       /\ target_version = NoVersion
       /\ driver' = driver
            \o Kills({[service |-> s, host |-> o.host] :
                        s \in RunningOn(nodes[o.host])})
            \o <<Decline(o)>>
  /\ UNCHANGED <<nodes, singletons, building>>

-----------------------------------------------------------------------------
(***************************************************************************)
(* statusUpdate.  The task id is cut at its last "-": of the task of a     *)
(* host whose name has a "-", the service is unknown and the host another. *)
(***************************************************************************)
Slot(ns, t) == IF t.service \in Singletons THEN singletons[t.service]
                                            ELSE ns[t.host].service[t.service]

\* The nodes_ after the lookup of the update's host.
WithHost(e) == CreateHost(Suffix[e.task.host], e.slave)

NamesService(e) == Suffix[e.task.host] = e.task.host

UnknownService ==
  /\ NextEvent("statusUpdate")
  /\ ~NamesService(Head(mailbox))
  /\ nodes' = WithHost(Head(mailbox))
  /\ UNCHANGED <<singletons, building, driver>>

\* Mutant: an update is taken for the slot's task without a look at its id.
AnySlotAnswers(ns, t) == t \in TaskId

\* Mutant: an update of the task recorded is not taken.
EmptySlotAnswers(ns, t) == Slot(ns, t).task_id = NoHost

\* The slot is that of the task, or of none.
SlotAnswersFor(ns, t) == Slot(ns, t).task_id \in {t.host, NoHost}

ServiceShouldRun(ns, t) ==
  LET slot == Slot(ns, t)
      n    == ns[t.host] IN
  /\ ~ /\ t.service \in Singletons
       /\ slot.state = "RUNNING"
       /\ slot.task_id # t.host
  /\ n.device_types_valid =>
       /\ t.service \in Core => t.service \in n.device_type
       /\ t.service = Client => n.client_mount_point

\* Mutant: the prober is shut down, too.
ShutdownKillsProber(e) ==
  Kills({t \in {e.task} : /\ e.state \in {"STAGING", "RUNNING"}
                          /\ target_version = NoVersion})

\* The last part of statusUpdate: nothing of a service may live without a
\* version to deploy.  A version other than the target is only logged.
ShutdownKills(e) ==
  Kills({t \in {e.task} : /\ t.service # Prober
                          /\ e.state \in {"STAGING", "RUNNING"}
                          /\ target_version = NoVersion})

ServiceUp ==
  /\ NextEvent("statusUpdate")
  /\ LET e  == Head(mailbox)
         t  == e.task
         ns == WithHost(e) IN
       /\ NamesService(e)
       /\ e.state \in {"RUNNING", "FINISHED"}
       /\ ServiceShouldRun(ns, t)
       /\ IF SlotAnswersFor(ns, t)
          THEN Record([ns EXCEPT ![t.host].keepalive_over =
                                   @ /\ t.service # Prober],
                      t, RunningAs(t.host))
          ELSE nodes' = ns /\ UNCHANGED singletons
       /\ driver' = driver \o ShutdownKills(e)
  /\ UNCHANGED building

ServiceUnwanted ==
  /\ NextEvent("statusUpdate")
  /\ LET e  == Head(mailbox)
         ns == WithHost(e) IN
       /\ NamesService(e)
       /\ e.state \in {"RUNNING", "FINISHED"}
       /\ ~ServiceShouldRun(ns, e.task)
       /\ nodes' = ns
       /\ driver' = driver \o Kills({e.task}) \o ShutdownKills(e)
  /\ UNCHANGED <<singletons, building>>

ServiceDown ==
  /\ NextEvent("statusUpdate")
  /\ LET e  == Head(mailbox)
         ns == WithHost(e) IN
       /\ NamesService(e)
       /\ e.state = "LOST"
       /\ IF SlotAnswersFor(ns, e.task)
          THEN Record(ns, e.task, NotRunning)
          ELSE nodes' = ns /\ UNCHANGED singletons
  /\ UNCHANGED <<building, driver>>

ServiceStaging ==
  /\ NextEvent("statusUpdate")
  /\ LET e == Head(mailbox) IN
       /\ NamesService(e)
       /\ e.state = "STAGING"
       /\ nodes' = WithHost(e)
       /\ driver' = driver \o ShutdownKills(e)
  /\ UNCHANGED <<singletons, building>>

-----------------------------------------------------------------------------
\* Mutant: the device types are merged with those known, instead of copied.
MessageMerges ==
  /\ NextEvent("frameworkMessage")
  /\ LET m == Head(mailbox) IN
       nodes' = [h \in DOMAIN nodes |->
         IF nodes[h].slave_id # m.slave \/ ~m.parses THEN nodes[h]
         ELSE [nodes[h] EXCEPT !.device_type = @ \cup m.devices,
                               !.client_mount_point = m.mount,
                               !.device_types_valid = TRUE,
                               !.keepalive_over = FALSE]]
  /\ UNCHANGED <<singletons, building, driver>>

(***************************************************************************)
(* frameworkMessage: what the prober of an agent found, for every host     *)
(* that was created with this agent's id; nothing, if that cannot be read. *)
(***************************************************************************)
FrameworkMessage ==
  /\ NextEvent("frameworkMessage")
  /\ LET m == Head(mailbox) IN
       nodes' = [h \in DOMAIN nodes |->
         IF nodes[h].slave_id # m.slave \/ ~m.parses THEN nodes[h]
         ELSE [nodes[h] EXCEPT !.device_type = m.devices,
                               !.client_mount_point = m.mount,
                               !.device_types_valid = TRUE,
                               !.keepalive_over = FALSE]]
  /\ UNCHANGED <<singletons, building, driver>>

\* Time passes: the prober of h was not seen, or not probed, for too long.
KeepaliveElapses(h) ==
  /\ h \in DOMAIN nodes
  /\ nodes' = [nodes EXCEPT ![h].keepalive_over = TRUE]
  /\ UNCHANGED <<singletons, target_version, stored, building, mailbox, driver,
                 incarnation>>

ProbeIntervalElapses(h) ==
  /\ h \in DOMAIN nodes
  /\ nodes' = [nodes EXCEPT ![h].probe_due = TRUE]
  /\ UNCHANGED <<singletons, target_version, stored, building, mailbox, driver,
                 incarnation>>

\* handleHTTP on an HTTP thread; v is the body of the POST.
PostVersion(v) ==
  /\ target_version' = v
  /\ Writeback([framework_id |-> HasFrameworkId, target_version |-> v])
  /\ UNCHANGED <<nodes, singletons, building, mailbox, driver, incarnation>>

\* What GET /v1/health answers.
countRunningServices ==
  Cardinality({s \in Singletons : singletons[s].state = "RUNNING"})
    + Cardinality(UNION {{<<h, c>> : c \in CoreServicesRunning(nodes[h])} :
                           h \in DOMAIN nodes})

(***************************************************************************)
(* The process ends, and another one starts with the state in the store.   *)
(* A run with --reset in between leaves Cleared there: it erases the       *)
(* framework id as well, and the next process is a new framework to Mesos. *)
(***************************************************************************)
Restart(state) ==
  /\ incarnation < MaxRestarts
  /\ incarnation' = incarnation + 1
  /\ state \in stored \cup {Cleared}
  /\ stored' = Kept(incarnation', {state})
  /\ target_version' = state.target_version
  /\ nodes' = [h \in {} |-> NewNode(NoSlave)]
  /\ singletons' = [s \in Singletons |-> Unknown]
  /\ building' = Idle
  /\ mailbox' = <<>>
  /\ driver' = <<>>

-----------------------------------------------------------------------------
(***************************************************************************)
(* The open environment: Mesos may send any event and act on any call.     *)
(***************************************************************************)
Receive(e) ==
  /\ Len(mailbox) < MaxMailbox
  /\ Len(driver) <= MaxDriver
  /\ mailbox' = Append(mailbox, e)
  /\ UNCHANGED <<nodes, singletons, target_version, stored, building, driver,
                 incarnation>>

TakeCall ==
  /\ driver # <<>>
  /\ driver' = Tail(driver)
  /\ UNCHANGED <<nodes, singletons, target_version, stored, building, mailbox,
                 incarnation>>

Init ==
  /\ nodes = [h \in {} |-> NewNode(NoSlave)]
  /\ singletons = [s \in Singletons |-> Unknown]
  /\ target_version \in Versions \cup {NoVersion}
  /\ stored = Kept(0, {[framework_id |-> FALSE,
                        target_version |-> target_version]})
  /\ building = Idle
  /\ mailbox = <<>>
  /\ driver = <<>>
  /\ incarnation = 0

\* The scheduler's own steps: the callbacks on the driver's thread.
Callback ==
  \/ Registered
  \/ IgnoreHost \/ MeetHost \/ StartProber \/ ProbeHost
  \/ ChooseServices \/ LaunchTasks \/ KillServices
  \/ \E s \in Services : MakeTask(s)
  \/ UnknownService \/ ServiceUp \/ ServiceUnwanted \/ ServiceDown
  \/ ServiceStaging
  \/ FrameworkMessage

Surroundings ==
  \/ \E h \in Hosts : KeepaliveElapses(h) \/ ProbeIntervalElapses(h)
  \/ \E v \in Versions \cup {NoVersion} : PostVersion(v)
  \/ \E s \in SchedulerState : Restart(s)

Next ==
  \/ Callback
  \/ Surroundings
  \/ \E e \in Inputs : Receive(e)
  \/ TakeCall

Spec == Init /\ [][Next]_schedulerVars

-----------------------------------------------------------------------------
(***************************************************************************)
(* Every variable has its type; a callback builds tasks only for a host of *)
(* nodes_ (resourceOffers keeps a reference into the map).                 *)
(***************************************************************************)
TypeOK ==
  /\ DOMAIN nodes \subseteq Hosts
  /\ nodes \in [DOMAIN nodes -> NodeState]
  /\ singletons \in [Singletons -> ServiceState]
  /\ target_version \in Versions \cup {NoVersion}
  /\ stored \in SUBSET SchedulerState
  /\ building \in [offer : Offer \cup {NoOffer}, todo : SUBSET Services,
                   made : SUBSET Task]
  /\ building # Idle => building.offer.host \in DOMAIN nodes
  /\ mailbox \in Seq(Event)
  /\ driver \in Seq(Call)
  /\ incarnation \in 0 .. MaxRestarts

(***************************************************************************)
(* state and task_id are two fields which the handlers set one by one, and *)
(* StartProber sets the one only: still a slot names a task exactly when   *)
(* it says RUNNING, and a slot of a node names the task of that node.      *)
(* statusUpdate relies on it when it decides by the task_id alone whether  *)
(* a slot may be overwritten.                                              *)
(***************************************************************************)
SlotsAgree ==
  /\ \A h \in DOMAIN nodes, s \in NodeServices :
       LET slot == nodes[h].service[s] IN
       slot.task_id = IF slot.state = "RUNNING" THEN h ELSE NoHost
  /\ \A s \in Singletons :
       singletons[s].state = "RUNNING" <=> singletons[s].task_id # NoHost

(***************************************************************************)
(* What resourceOffers is about to launch is its own: no service that may  *)
(* run somewhere is in the list, and a singleton or a client for which the *)
(* task is built is already recorded as running on the offer's host.       *)
(***************************************************************************)
LaunchesAreOwned ==
  LET h == building.offer.host IN
  /\ \A s \in building.todo :
       Slot(nodes, [service |-> s, host |-> h]).state = "NOT_RUNNING"
  /\ \A k \in building.made : k.service \in Singletons \cup {Client} =>
       Slot(nodes, [service |-> k.service, host |-> h]) = RunningAs(h)

(***************************************************************************)
(* The tasks launched on an offer fit it together, and no two of them ask  *)
(* for one port, whatever ports the flags give them: the Mesos master      *)
(* fails all the tasks of a launch that asks for more than was offered.    *)
(***************************************************************************)
LaunchFitsOffer ==
  \A i \in DOMAIN driver : driver[i].call = "launchTasks" =>
    LET S == {k.service : k \in driver[i].tasks} IN
    /\ Needs(S) <= driver[i].offer.units
    /\ PortsOf(S) \subseteq driver[i].offer.ports
    /\ \A s, t \in S : s # t => Ports[s] \cap Ports[t] = {}
    /\ Cardinality(S) = Cardinality(driver[i].tasks)

(***************************************************************************)
(* Every offer received is answered once, by a decline or by a launch,     *)
(* whichever way it takes through resourceOffers: offers waiting, in hand  *)
(* and answered are preserved by what the scheduler does.                  *)
(***************************************************************************)
OffersHeld ==
  Cardinality({i \in DOMAIN mailbox : mailbox[i].type = "resourceOffers"})
    + (IF building = Idle THEN 0 ELSE 1)
    + Cardinality({i \in DOMAIN driver :
                     driver[i].call \in {"declineOffer", "launchTasks"}})

OffersAnsweredOnce ==
  [][Callback => OffersHeld' = OffersHeld]_schedulerVars

(***************************************************************************)
(* A singleton recorded as running is forgotten only on a terminal update  *)
(* of that very task, or with the whole process: never on an update of the *)
(* task it has, or had, on another host.                                   *)
(***************************************************************************)
OwnUpdateReleases ==
  [][\A s \in Singletons :
       LET owner == singletons[s].task_id IN
       owner \notin {NoHost, singletons'[s].task_id} =>
         \/ incarnation' # incarnation
         \/ /\ Head(mailbox).type = "statusUpdate"
            /\ Head(mailbox).state = "LOST"
            /\ Head(mailbox).task = [service |-> s, host |-> owner]]_schedulerVars

(***************************************************************************)
(* A task of a Quobyte service carries a version.  common/quobyte.proto    *)
(* says of target_version "Shut it down if field does not exist", and      *)
(* resourceOffers checks it before it builds the tasks.                    *)
(***************************************************************************)
NoVersionlessLaunch ==
  \A i \in DOMAIN driver : driver[i].call = "launchTasks" =>
    \A k \in driver[i].tasks :
      k.service \in Ported => k.version # NoVersion

\* The singletons are leases of the hosts: see module SingletonLease.
Lease == INSTANCE SingletonLease
           WITH owner <- [s \in Singletons |-> singletons[s].task_id]

(***************************************************************************)
(* The scheduler never hands a singleton from one host to another: it has  *)
(* to know that the old one ended before it records a new one.             *)
(***************************************************************************)
LeaseSpec == Lease!Spec
=============================================================================
