------------------------ MODULE QuobyteSchedulerProofs ------------------------
(***************************************************************************)
(* Proofs about QuobyteScheduler, for every set of hosts and services and  *)
(* every environment.  Inv is inductive: TypeOK alone is not enough to     *)
(* see that MakeTask takes a free singleton, and SlotsAgree alone does not *)
(* say what became of the services chosen while their tasks are built.     *)
(***************************************************************************)
EXTENDS QuobyteScheduler, TLAPS

Inv == TypeOK /\ SlotsAgree /\ LaunchesAreOwned

\* The parts of TypeOK and SlotsAgree that speak of nodes_, of any value ns.
NodesOK(ns) ==
  /\ DOMAIN ns \subseteq Hosts
  /\ ns \in [DOMAIN ns -> NodeState]
  /\ \A h \in DOMAIN ns, s \in NodeServices :
       LET slot == ns[h].service[s] IN
       slot.task_id = IF slot.state = "RUNNING" THEN h ELSE NoHost

SingletonsOK(ss) ==
  /\ ss \in [Singletons -> ServiceState]
  /\ \A s \in Singletons : ss[s].state = "RUNNING" <=> ss[s].task_id # NoHost

\* The invariants speak of nodes_ and of the singletons by parts.
LEMMA NodesOKIsInv ==
  TypeOK /\ SlotsAgree => NodesOK(nodes) /\ SingletonsOK(singletons)
BY DEF TypeOK, SlotsAgree, NodesOK, SingletonsOK

\* createHost adds a new entry whose slots are all empty.
LEMMA CreateHostOK ==
  ASSUME NodesOK(nodes), NEW h \in Hosts, NEW slave \in Slaves \cup {NoSlave}
  PROVE  /\ NodesOK(CreateHost(h, slave))
         /\ h \in DOMAIN CreateHost(h, slave)
         /\ \A g \in DOMAIN nodes : CreateHost(h, slave)[g] = nodes[g]
         /\ DOMAIN nodes \subseteq DOMAIN CreateHost(h, slave)
<1> DEFINE new == NewNode(slave)
<1>1. new \in NodeState
  BY DEF NewNode, NodeState, Unknown, ServiceState
<1>2. \A s \in NodeServices : new.service[s] = Unknown
  BY DEF NewNode
<1>3. CreateHost(h, slave) \in [DOMAIN nodes \cup {h} -> NodeState]
  BY <1>1 DEF CreateHost, NodesOK
<1>4. \A g \in DOMAIN nodes : CreateHost(h, slave)[g] = nodes[g]
  BY DEF CreateHost
<1>5. \A g \in (DOMAIN nodes \cup {h}) \ DOMAIN nodes :
         CreateHost(h, slave)[g] = new
  BY DEF CreateHost
<1>6. \A g \in DOMAIN nodes \cup {h}, s \in NodeServices :
         LET slot == CreateHost(h, slave)[g].service[s] IN
         slot.task_id = IF slot.state = "RUNNING" THEN g ELSE NoHost
  BY <1>2, <1>4, <1>5 DEF NodesOK, Unknown
<1> QED
  BY <1>3, <1>4, <1>6 DEF NodesOK

\* One entry of nodes_ is replaced.
LEMMA ReplaceNodeOK ==
  ASSUME NEW ns, NodesOK(ns), NEW h \in DOMAIN ns, NEW n \in NodeState,
         \A s \in NodeServices :
           n.service[s].task_id =
             IF n.service[s].state = "RUNNING" THEN h ELSE NoHost
  PROVE  /\ NodesOK([ns EXCEPT ![h] = n])
         /\ DOMAIN [ns EXCEPT ![h] = n] = DOMAIN ns
BY DEF NodesOK

\* Setting the slot of a task keeps state and task_id in agreement.
LEMMA RecordOK ==
  ASSUME NEW ns, NodesOK(ns), SingletonsOK(singletons), NEW t \in TaskId,
         t.host \in DOMAIN ns,
         NEW value \in {NotRunning, RunningAs(t.host)},
         Record(ns, t, value)
  PROVE  /\ NodesOK(nodes') /\ SingletonsOK(singletons')
         /\ DOMAIN nodes' = DOMAIN ns
<1>1. t.service \in Services /\ t.host \in Hosts /\ t.host # NoHost
  BY SchedulerAssumption DEF TaskId
<1>2. /\ value \in ServiceState
      /\ value.task_id = IF value.state = "RUNNING" THEN t.host ELSE NoHost
  BY <1>1 DEF ServiceState, NotRunning, RunningAs
<1>3. CASE t.service \in Singletons
  BY <1>1, <1>2, <1>3 DEF Record, SingletonsOK
<1>4. CASE t.service \notin Singletons
  <2>1. /\ nodes' = [ns EXCEPT ![t.host].service[t.service] = value]
        /\ singletons' = singletons
    BY <1>4 DEF Record
  <2>2. t.service \in NodeServices
    BY <1>1, <1>4 DEF Services
  <2>3. nodes' \in [DOMAIN ns -> NodeState]
    <3> DEFINE node == [ns[t.host] EXCEPT !.service[t.service] = value]
    <3>1. node \in NodeState
      <4>1. PICK n \in NodeState : n = ns[t.host]
        BY DEF NodesOK
      <4>2. [n EXCEPT !.service[t.service] = value] \in NodeState
        BY <1>2, <2>2 DEF NodeState
      <4> QED
        BY <4>1, <4>2
    <3>2. nodes' = [ns EXCEPT ![t.host] = node]
      BY <2>1
    <3> HIDE DEF node
    <3> QED
      BY <3>1, <3>2 DEF NodesOK
  <2>4. \A h \in DOMAIN ns, s \in NodeServices :
           nodes'[h].service[s] = IF h = t.host /\ s = t.service
                                  THEN value ELSE ns[h].service[s]
    BY <2>1, <2>2 DEF NodesOK, NodeState
  <2> QED
    BY <1>2, <2>1, <2>3, <2>4 DEF NodesOK
<1> QED
  BY <1>3, <1>4

-----------------------------------------------------------------------------
\* What a callback may rely on when it takes its event.
LEMMA Taken ==
  ASSUME TypeOK, NEW type, TakeEvent(type)
  PROVE  /\ building = Idle
         /\ Head(mailbox) \in Event
         /\ Head(mailbox).type = type
         /\ mailbox' \in Seq(Event)
         /\ target_version' = target_version
         /\ incarnation' = incarnation
BY DEF TypeOK, TakeEvent

LEMMA NextIsTaken ==
  ASSUME NEW type, NextEvent(type)
  PROVE  TakeEvent(type)
BY DEF NextEvent

\* All callbacks but `registered' leave the store alone.
LEMMA EventTaken ==
  ASSUME TypeOK, NEW type, NextEvent(type)
  PROVE  /\ building = Idle
         /\ Head(mailbox) \in Event
         /\ Head(mailbox).type = type
         /\ mailbox' \in Seq(Event)
         /\ target_version' = target_version
         /\ stored' = stored
         /\ incarnation' = incarnation
BY Taken DEF NextEvent

\* What is written to the store is a state, and so is what is found there.
LEMMA WritebackTyped ==
  ASSUME TypeOK, NEW state \in SchedulerState, Writeback(state)
  PROVE  stored' \in SUBSET SchedulerState
BY DEF Writeback, Kept, TypeOK

LEMMA RestartTyped ==
  ASSUME TypeOK, NEW state \in SchedulerState, Restart(state)
  PROVE  /\ stored' \in SUBSET SchedulerState
         /\ target_version' \in Versions \cup {NoVersion}
BY DEF Restart, Kept, SchedulerState

\* The event that resourceOffers takes carries an offer.
LEMMA OfferTaken ==
  ASSUME TypeOK, NextEvent("resourceOffers")
  PROVE  Head(mailbox).offer \in Offer
BY EventTaken DEF Event

\* The event that statusUpdate takes carries a task and a state.
LEMMA UpdateTaken ==
  ASSUME TypeOK, NextEvent("statusUpdate")
  PROVE  /\ Head(mailbox).task \in TaskId
         /\ Head(mailbox).slave \in Slaves \cup {NoSlave}
         /\ Suffix[Head(mailbox).task.host] \in Hosts
BY EventTaken, SchedulerAssumption DEF Event, TaskId

\* What resourceOffers calls on the driver is a call.
LEMMA CallsTyped ==
  ASSUME NEW o \in Offer
  PROVE  /\ Decline(o) \in Call
         /\ ReconcileHost(o.host) \in Call
         /\ Probe(o.slave) \in Call
         /\ \A ts \in SUBSET Task : Launch(o, ts) \in Call
<1>1. o.host \in Hosts /\ o.slave \in Slaves
  BY DEF Offer
<1>2. {[service |-> s, host |-> o.host] : s \in Services \ {Client}}
        \in SUBSET TaskId
  BY <1>1 DEF TaskId
<1>3. ReconcileHost(o.host) \in Call
  BY <1>2 DEF Call, ReconcileHost
<1>4. Decline(o) \in Call
  BY DEF Call, Decline
<1>5. Probe(o.slave) \in Call
  BY <1>1 DEF Call, Probe
<1>6. \A ts \in SUBSET Task : Launch(o, ts) \in Call
  BY DEF Call, Launch
<1> QED
  BY <1>3, <1>4, <1>5, <1>6

\* killTask is called for tasks.
LEMMA KillsTyped ==
  ASSUME NEW ts \in SUBSET TaskId
  PROVE  Kills(ts) \in Seq(Call)
<1>1. [call |-> "killTask", tasks |-> ts] \in Call
  BY DEF Call
<1> QED
  BY <1>1 DEF Kills

\* Outside of resourceOffers' list of tasks, Inv is about the single parts.
LEMMA Assembled ==
  ASSUME NodesOK(nodes'), SingletonsOK(singletons'), building' = Idle,
         target_version' \in Versions \cup {NoVersion},
         stored' \in SUBSET SchedulerState,
         mailbox' \in Seq(Event), driver' \in Seq(Call),
         incarnation' \in 0 .. MaxRestarts
  PROVE  Inv'
<1>1. Idle \in [offer : Offer \cup {NoOffer}, todo : SUBSET Services,
               made : SUBSET Task]
  BY DEF Idle
<1>2. Idle.todo = {} /\ Idle.made = {}
  BY DEF Idle
<1> QED
  BY <1>1, <1>2 DEF Inv, TypeOK, SlotsAgree, LaunchesAreOwned, NodesOK,
                    SingletonsOK

\* The same for a callback that leaves no list behind.
LEMMA CallbackAssembled ==
  ASSUME Inv, NEW type, NextEvent(type), building' = building,
         NodesOK(nodes'), SingletonsOK(singletons'), driver' \in Seq(Call)
  PROVE  Inv'
<1>1. /\ building = Idle /\ mailbox' \in Seq(Event)
      /\ target_version' = target_version /\ stored' = stored
      /\ incarnation' = incarnation
  BY EventTaken DEF Inv
<1> QED
  BY <1>1, Assembled DEF Inv, TypeOK

-----------------------------------------------------------------------------
\* Inv is kept by the ways through resourceOffers without a list of tasks.
LEMMA OfferCallbacks ==
  ASSUME Inv, IgnoreHost \/ MeetHost \/ StartProber \/ ProbeHost
                \/ KillServices
  PROVE  Inv'
<1> DEFINE o == Head(mailbox).offer
<1>1. NextEvent("resourceOffers") /\ building' = building
  BY DEF IgnoreHost, MeetHost, StartProber, ProbeHost, KillServices
<1>2. o \in Offer /\ o.host \in Hosts /\ o.slave \in Slaves
  BY <1>1, OfferTaken DEF Inv, Offer
<1>3. /\ Decline(o) \in Call /\ ReconcileHost(o.host) \in Call
      /\ Probe(o.slave) \in Call
      /\ \A ts \in SUBSET Task : Launch(o, ts) \in Call
  BY <1>2, CallsTyped
<1>4. NodesOK(nodes) /\ SingletonsOK(singletons) /\ driver \in Seq(Call)
  BY NodesOKIsInv DEF Inv, TypeOK
<1> HIDE DEF o
<1>5. CASE IgnoreHost
  <2>1. /\ nodes' = nodes /\ singletons' = singletons
        /\ driver' = Append(driver, Decline(o))
    BY <1>5 DEF IgnoreHost, o
  <2> QED
    BY <1>1, <1>3, <1>4, <2>1, CallbackAssembled DEF NodesOK, SingletonsOK
<1>6. CASE MeetHost
  <2>1. /\ nodes' = CreateHost(o.host, o.slave) /\ singletons' = singletons
        /\ driver' = driver \o <<ReconcileHost(o.host), Decline(o)>>
    BY <1>6 DEF MeetHost, o
  <2>2. NodesOK(nodes')
    BY <1>2, <1>4, <2>1, CreateHostOK
  <2> QED
    BY <1>1, <1>3, <1>4, <2>1, <2>2, CallbackAssembled DEF SingletonsOK
<1>7. CASE StartProber
  <2>1. /\ nodes' = [nodes EXCEPT ![o.host].service[Prober].state = "STARTING"]
        /\ singletons' = singletons
        /\ driver' = Append(driver,
                       Launch(o, {[service |-> Prober, version |-> NoVersion]}))
        /\ o.host \in DOMAIN nodes
        /\ nodes[o.host].service[Prober].state # "RUNNING"
    BY <1>7 DEF StartProber, KnownOffer, StartsProber, ProberMissing, o
  <2>2. Prober \in NodeServices /\ Prober \in Services
    BY DEF NodeServices, Services
  <2> DEFINE n    == nodes[o.host]
             slot == [n.service[Prober] EXCEPT !.state = "STARTING"]
             new  == [n EXCEPT !.service = [n.service EXCEPT ![Prober] = slot]]
  <2>3. n \in NodeState /\ n.service[Prober] \in ServiceState
    BY <1>4, <2>1, <2>2 DEF NodesOK, NodeState
  <2>4. slot \in ServiceState /\ slot.state = "STARTING"
          /\ slot.task_id = NoHost
    BY <1>4, <2>1, <2>2, <2>3 DEF NodesOK, ServiceState
  <2>5. /\ new \in NodeState
        /\ \A s \in NodeServices :
             new.service[s] = IF s = Prober THEN slot ELSE n.service[s]
    <3> HIDE DEF slot, n
    <3> QED
      BY <2>2, <2>3, <2>4 DEF NodeState
  <2>6. NodesOK(nodes')
    <3>1. nodes' = [nodes EXCEPT ![o.host] = new]
      BY <2>1
    <3>2. \A s \in NodeServices :
            new.service[s].task_id =
              IF new.service[s].state = "RUNNING" THEN o.host ELSE NoHost
      BY <1>4, <2>1, <2>4, <2>5 DEF NodesOK
    <3>3. o.host \in DOMAIN nodes /\ new \in NodeState
      BY <2>1, <2>5
    <3> HIDE DEF new, slot, n
    <3> QED
      BY <1>4, <3>1, <3>2, <3>3, ReplaceNodeOK
  <2>7. driver' \in Seq(Call)
    BY <1>3, <1>4, <2>1, <2>2 DEF Task
  <2> QED
    BY <1>1, <1>4, <2>1, <2>6, <2>7, CallbackAssembled DEF SingletonsOK
<1>8. CASE ProbeHost
  <2>1. /\ nodes' = [nodes EXCEPT ![o.host].probe_due = FALSE]
        /\ singletons' = singletons
        /\ driver' = driver \o
             <<Probe(o.slave), ReconcileHost(o.host), Decline(o)>>
        /\ o.host \in DOMAIN nodes
    BY <1>8 DEF ProbeHost, KnownOffer, o
  <2> DEFINE n   == nodes[o.host]
             new == [n EXCEPT !.probe_due = FALSE]
  <2>2. NodesOK(nodes')
    <3>1. nodes' = [nodes EXCEPT ![o.host] = new]
      BY <2>1
    <3>2. o.host \in DOMAIN nodes /\ n \in NodeState
      BY <1>4, <2>1 DEF NodesOK
    <3>3. \A s \in NodeServices :
            n.service[s].task_id =
              IF n.service[s].state = "RUNNING" THEN o.host ELSE NoHost
      BY <1>4, <2>1 DEF NodesOK
    <3> HIDE DEF n
    <3>4. new \in NodeState /\ new.service = n.service
      BY <3>2 DEF NodeState
    <3>5. \A s \in NodeServices :
            new.service[s].task_id =
              IF new.service[s].state = "RUNNING" THEN o.host ELSE NoHost
      BY <3>3, <3>4
    <3> HIDE DEF new
    <3> QED
      BY <1>4, <3>1, <3>2, <3>4, <3>5, ReplaceNodeOK
  <2>3. driver' \in Seq(Call)
    BY <1>3, <1>4, <2>1
  <2> QED
    BY <1>1, <1>4, <2>1, <2>2, <2>3, CallbackAssembled DEF SingletonsOK
<1>9. CASE KillServices
  <2> DEFINE killed == {[service |-> s, host |-> o.host] :
                          s \in RunningOn(nodes[o.host])}
  <2>1. /\ nodes' = nodes /\ singletons' = singletons
        /\ driver' = driver \o Kills(killed) \o <<Decline(o)>>
    BY <1>9 DEF KillServices, o
  <2>2. RunningOn(nodes[o.host]) \subseteq Services
    BY DEF RunningOn, CoreServicesRunning, Services, NodeServices
  <2>3. killed \in SUBSET TaskId
    BY <1>2, <2>2 DEF TaskId
  <2>4. Kills(killed) \in Seq(Call)
    BY <2>3, KillsTyped
  <2>5. driver' \in Seq(Call)
    BY <1>3, <1>4, <2>1, <2>4
  <2> QED
    BY <1>1, <1>4, <2>1, <2>5, CallbackAssembled DEF NodesOK, SingletonsOK
<1> QED
  BY <1>5, <1>6, <1>7, <1>8, <1>9

\* Inv is kept by statusUpdate, whatever task the update is about.
LEMMA UpdateCallbacks ==
  ASSUME Inv, UnknownService \/ ServiceUp \/ ServiceUnwanted
                \/ ServiceDown \/ ServiceStaging
  PROVE  Inv'
<1> DEFINE e  == Head(mailbox)
           t  == e.task
           ns == WithHost(e)
<1>1. NextEvent("statusUpdate") /\ building' = building
  BY DEF UnknownService, ServiceUp, ServiceUnwanted, ServiceDown,
         ServiceStaging
<1>2. t \in TaskId /\ e.slave \in Slaves \cup {NoSlave}
        /\ Suffix[t.host] \in Hosts
  BY <1>1, UpdateTaken DEF Inv
<1>3. NodesOK(nodes) /\ SingletonsOK(singletons) /\ driver \in Seq(Call)
  BY NodesOKIsInv DEF Inv, TypeOK
<1>4. NodesOK(ns) /\ Suffix[t.host] \in DOMAIN ns
  BY <1>2, <1>3, CreateHostOK DEF WithHost
<1>5. /\ Kills({t}) \in Seq(Call)
      /\ ShutdownKills(e) \in Seq(Call)
  BY <1>2, KillsTyped DEF ShutdownKills
<1> HIDE DEF e, t, ns
<1>6. CASE UnknownService
  <2>1. nodes' = ns /\ singletons' = singletons /\ driver' = driver
    BY <1>6 DEF UnknownService, ns, e
  <2> QED
    BY <1>1, <1>3, <1>4, <2>1, CallbackAssembled DEF SingletonsOK
<1>7. CASE ServiceUp
  <2> DEFINE seen == [ns EXCEPT ![t.host].keepalive_over =
                                  @ /\ t.service # Prober]
  <2>1. /\ t.host \in DOMAIN ns
        /\ driver' = driver \o ShutdownKills(e)
        /\ \/ Record(seen, t, RunningAs(t.host))
           \/ nodes' = ns /\ singletons' = singletons
    BY <1>4, <1>7 DEF ServiceUp, NamesService, ns, t, e
  <2>2. NodesOK(seen) /\ t.host \in DOMAIN seen
    <3> DEFINE b   == ns[t.host].keepalive_over /\ t.service # Prober
               new == [ns[t.host] EXCEPT !.keepalive_over = b]
    <3>1. b \in BOOLEAN
      OBVIOUS
    <3>2. seen = [ns EXCEPT ![t.host] = new]
      OBVIOUS
    <3>3. ns[t.host] \in NodeState
      BY <1>4, <2>1 DEF NodesOK
    <3> HIDE DEF b, seen
    <3>4. new \in NodeState /\ new.service = ns[t.host].service
      BY <3>1, <3>3 DEF NodeState
    <3>5. \A s \in NodeServices :
            new.service[s].task_id =
              IF new.service[s].state = "RUNNING" THEN t.host ELSE NoHost
      BY <1>4, <2>1, <3>4 DEF NodesOK
    <3> HIDE DEF new
    <3> QED
      BY <1>4, <2>1, <3>2, <3>4, <3>5, ReplaceNodeOK
  <2>3. NodesOK(nodes') /\ SingletonsOK(singletons')
    <3>1. CASE Record(seen, t, RunningAs(t.host))
      <4> HIDE DEF seen
      <4> QED
        BY <1>2, <1>3, <2>2, <3>1, RecordOK
    <3>2. CASE nodes' = ns /\ singletons' = singletons
      BY <1>3, <1>4, <3>2 DEF SingletonsOK
    <3> QED
      BY <2>1, <3>1, <3>2
  <2> QED
    BY <1>1, <1>3, <1>5, <2>1, <2>3, CallbackAssembled
<1>8. CASE ServiceUnwanted
  <2>1. /\ nodes' = ns /\ singletons' = singletons
        /\ driver' = driver \o Kills({t}) \o ShutdownKills(e)
    BY <1>8 DEF ServiceUnwanted, ns, t, e
  <2>2. driver' \in Seq(Call)
    BY <1>3, <1>5, <2>1
  <2> QED
    BY <1>1, <1>3, <1>4, <2>1, <2>2, CallbackAssembled DEF SingletonsOK
<1>9. CASE ServiceDown
  <2>1. /\ t.host \in DOMAIN ns
        /\ driver' = driver
        /\ \/ Record(ns, t, NotRunning)
           \/ nodes' = ns /\ singletons' = singletons
    BY <1>4, <1>9 DEF ServiceDown, NamesService, ns, t, e
  <2>2. NodesOK(nodes') /\ SingletonsOK(singletons')
    <3>1. CASE Record(ns, t, NotRunning)
      BY <1>2, <1>3, <1>4, <2>1, <3>1, RecordOK
    <3>2. CASE nodes' = ns /\ singletons' = singletons
      BY <1>3, <1>4, <3>2 DEF SingletonsOK
    <3> QED
      BY <2>1, <3>1, <3>2
  <2> QED
    BY <1>1, <1>3, <2>1, <2>2, CallbackAssembled
<1>10. CASE ServiceStaging
  <2>1. /\ nodes' = ns /\ singletons' = singletons
        /\ driver' = driver \o ShutdownKills(e)
    BY <1>10 DEF ServiceStaging, ns, t, e
  <2> QED
    BY <1>1, <1>3, <1>4, <1>5, <2>1, CallbackAssembled DEF SingletonsOK
<1> QED
  BY <1>6, <1>7, <1>8, <1>9, <1>10

\* Inv is kept by frameworkMessage.
LEMMA MessageCallback ==
  ASSUME Inv, FrameworkMessage
  PROVE  Inv'
<1> DEFINE m == Head(mailbox)
           heard(h) == [nodes[h] EXCEPT !.device_type = m.devices,
                                        !.client_mount_point = m.mount,
                                        !.device_types_valid = TRUE,
                                        !.keepalive_over = FALSE]
<1>1. NextEvent("frameworkMessage") /\ building' = building
        /\ singletons' = singletons /\ driver' = driver
  BY DEF FrameworkMessage
<1>2. NodesOK(nodes) /\ SingletonsOK(singletons) /\ driver \in Seq(Call)
  BY NodesOKIsInv DEF Inv, TypeOK
<1>3. m.devices \in SUBSET DeviceTypes /\ m.mount \in BOOLEAN
  BY <1>1, EventTaken DEF Inv, Event
<1>4. nodes' = [h \in DOMAIN nodes |->
                  IF nodes[h].slave_id # m.slave \/ ~m.parses THEN nodes[h]
                  ELSE heard(h)]
  BY DEF FrameworkMessage
<1> HIDE DEF m
<1>5. \A h \in DOMAIN nodes :
        heard(h) \in NodeState /\ heard(h).service = nodes[h].service
  BY <1>2, <1>3 DEF NodesOK, NodeState
<1> HIDE DEF heard
<1>6. NodesOK(nodes')
  BY <1>2, <1>4, <1>5 DEF NodesOK
<1> QED
  BY <1>1, <1>2, <1>6, CallbackAssembled DEF SingletonsOK

\* What the services chosen for an offer have in common.
LEMMA WantedFree ==
  ASSUME NEW o, NEW s \in Wanted(o)
  PROVE  /\ s \in Services
         /\ Slot(nodes, [service |-> s, host |-> o.host]).state
              = "NOT_RUNNING"
<1>1. CASE s \in Launchable
  BY <1>1, SchedulerAssumption
    DEF Wanted, DoStartService, Slot, Services, NodeServices
<1>2. CASE s \notin Launchable
  BY <1>2, SchedulerAssumption
    DEF Wanted, DoStartService, Slot, Services, NodeServices
<1> QED
  BY <1>1, <1>2

\* Inv is kept when a list of tasks is begun and when it is launched.
LEMMA LaunchCallbacks ==
  ASSUME Inv, Registered \/ ChooseServices \/ LaunchTasks
  PROVE  Inv'
<1>1. NodesOK(nodes) /\ SingletonsOK(singletons) /\ driver \in Seq(Call)
  BY NodesOKIsInv DEF Inv, TypeOK
<1>2. CASE Registered
  <2> DEFINE state == [framework_id |-> TRUE, target_version |-> target_version]
  <2>1. /\ TakeEvent("registered") /\ Writeback(state)
        /\ building' = building /\ nodes' = nodes /\ singletons' = singletons
        /\ driver' = Append(driver, ReconcileAll)
    BY <1>2 DEF Registered
  <2>2. state \in SchedulerState
    BY DEF Inv, TypeOK, SchedulerState
  <2> HIDE DEF state
  <2>3. stored' \in SUBSET SchedulerState
    BY <2>1, <2>2, WritebackTyped DEF Inv
  <2>4. driver' \in Seq(Call)
    <3>1. ReconcileAll \in Call
      BY DEF ReconcileAll, Call
    <3> QED
      BY <1>1, <2>1, <3>1
  <2>5. /\ building' = Idle /\ mailbox' \in Seq(Event)
        /\ target_version' \in Versions \cup {NoVersion}
        /\ incarnation' \in 0 .. MaxRestarts
    BY <2>1, Taken DEF Inv, TypeOK
  <2> QED
    BY <1>1, <2>1, <2>3, <2>4, <2>5, Assembled DEF NodesOK, SingletonsOK
<1>3. CASE ChooseServices
  <2> DEFINE o == Head(mailbox).offer
  <2>1. PICK S \in Chosen(o) :
          IF S = {}
          THEN /\ driver' = Append(driver, Decline(o))
               /\ building' = building
          ELSE /\ building' = [offer |-> o, todo |-> S, made |-> {}]
               /\ driver' = driver
    BY <1>3 DEF ChooseServices
  <2>2. NextEvent("resourceOffers") /\ nodes' = nodes
          /\ singletons' = singletons /\ o.host \in DOMAIN nodes
    BY <1>3 DEF ChooseServices, ReachesServices, KnownOffer
  <2>3. o \in Offer /\ Decline(o) \in Call
    BY <2>2, OfferTaken, CallsTyped DEF Inv
  <2>4. /\ S \subseteq Services
        /\ \A s \in S : Slot(nodes, [service |-> s, host |-> o.host]).state
                          = "NOT_RUNNING"
    BY <2>1, WantedFree DEF Chosen
  <2> HIDE DEF o
  <2>5. CASE S = {}
    BY <1>1, <2>1, <2>2, <2>3, <2>5, CallbackAssembled
      DEF NodesOK, SingletonsOK
  <2>6. CASE S # {}
    <3>1. /\ building' = [offer |-> o, todo |-> S, made |-> {}]
          /\ driver' = driver
      BY <2>1, <2>6
    <3>2. /\ mailbox' \in Seq(Event) /\ target_version' = target_version
          /\ stored' = stored /\ incarnation' = incarnation
      BY <2>2, EventTaken DEF Inv
    <3>3. building' \in [offer : Offer \cup {NoOffer}, todo : SUBSET Services,
                         made : SUBSET Task]
      BY <2>3, <2>4, <3>1
    <3>4. TypeOK'
      BY <2>2, <3>1, <3>2, <3>3 DEF Inv, TypeOK
    <3>5. SlotsAgree'
      BY <2>2 DEF Inv, SlotsAgree
    <3>6. LaunchesAreOwned'
      BY <2>2, <2>4, <3>1 DEF LaunchesAreOwned, Slot
    <3> QED
      BY <3>4, <3>5, <3>6 DEF Inv
  <2> QED
    BY <2>5, <2>6
<1>4. CASE LaunchTasks
  <2>1. /\ driver' = Append(driver, Launch(building.offer, building.made))
        /\ building' = Idle /\ building # Idle /\ building.todo = {}
        /\ nodes' = nodes /\ singletons' = singletons
        /\ target_version' = target_version /\ stored' = stored
        /\ mailbox' = mailbox /\ incarnation' = incarnation
    BY <1>4 DEF LaunchTasks
  <2>2. building.offer \in Offer \cup {NoOffer} /\ building.made \in SUBSET Task
          /\ building.offer.host \in Hosts
    BY <2>1 DEF Inv, TypeOK
  <2>3. building.offer \in Offer
    BY <2>2, SchedulerAssumption DEF NoOffer
  <2>4. driver' \in Seq(Call)
    BY <1>1, <2>1, <2>2, <2>3, CallsTyped
  <2> QED
    BY <1>1, <2>1, <2>4, Assembled DEF NodesOK, SingletonsOK, Inv, TypeOK
<1> QED
  BY <1>2, <1>3, <1>4

\* Inv is kept by makeTask and the record of what was made.
LEMMA MakeTaskCallback ==
  ASSUME Inv, NEW s \in Services, MakeTask(s)
  PROVE  Inv'
<1> DEFINE h == building.offer.host
           t == [service |-> s, host |-> h]
           k == [service |-> s, version |-> IF s = Client THEN NoVersion
                                                          ELSE target_version]
<1>1. /\ s \in building.todo
      /\ building' = [building EXCEPT !.todo = @ \ {s}, !.made = @ \cup {k}]
      /\ IF s \in Core THEN nodes' = nodes /\ singletons' = singletons
                       ELSE Record(nodes, t, RunningAs(h))
      /\ target_version' = target_version /\ stored' = stored
      /\ mailbox' = mailbox /\ driver' = driver /\ incarnation' = incarnation
  BY DEF MakeTask
<1>2. NodesOK(nodes) /\ SingletonsOK(singletons)
  BY NodesOKIsInv DEF Inv
<1>3. building # Idle /\ h \in DOMAIN nodes /\ h \in Hosts
  BY <1>1 DEF Inv, TypeOK, Idle
<1>4. t \in TaskId /\ k \in Task
  BY <1>3 DEF TaskId, Task, Inv, TypeOK
<1>5. /\ building'.offer = building.offer
      /\ building'.todo = building.todo \ {s}
      /\ building'.made = building.made \cup {k}
      /\ building' \in [offer : Offer \cup {NoOffer}, todo : SUBSET Services,
                        made : SUBSET Task]
  BY <1>1, <1>4 DEF Inv, TypeOK
<1>6. NodesOK(nodes') /\ SingletonsOK(singletons')
        /\ DOMAIN nodes' = DOMAIN nodes
  BY <1>1, <1>2, <1>3, <1>4, RecordOK DEF NodesOK, SingletonsOK
<1>7. /\ \A u \in Singletons :
           singletons'[u] = IF u = s THEN RunningAs(h) ELSE singletons[u]
      /\ \A u \in NodeServices :
           nodes'[h].service[u] = IF u = s /\ s \notin Core
                                  THEN RunningAs(h) ELSE nodes[h].service[u]
  <2>1. s \in Singletons => s \notin NodeServices
    BY SchedulerAssumption DEF NodeServices
  <2>2. CASE s \in Core
    BY <1>1, <2>1, <2>2 DEF NodeServices
  <2>3. CASE s \in Singletons
    BY <1>1, <1>2, <2>1, <2>3 DEF Record, SingletonsOK, NodeServices
  <2>4. CASE s \notin Core /\ s \notin Singletons
    <3>1. /\ nodes' = [nodes EXCEPT ![h].service[s] = RunningAs(h)]
          /\ singletons' = singletons
      BY <1>1, <2>4 DEF Record
    <3> QED
      BY <1>2, <1>3, <2>4, <3>1 DEF NodesOK, NodeState
  <2> QED
    BY <2>2, <2>3, <2>4
<1>8. LaunchesAreOwned'
  <2>1. \A u \in building.todo \ {s} :
          (IF u \in Singletons THEN singletons'[u] ELSE nodes'[h].service[u])
            .state = "NOT_RUNNING"
    BY <1>7 DEF Inv, TypeOK, LaunchesAreOwned, Slot, Services
  <2>2. \A j \in building.made \cup {k} :
          j.service \in Singletons \cup {Client} =>
            (IF j.service \in Singletons THEN singletons'[j.service]
             ELSE nodes'[h].service[j.service]) = RunningAs(h)
    <3> SUFFICES ASSUME NEW j \in building.made \cup {k},
                        j.service \in Singletons \cup {Client}
                 PROVE  (IF j.service \in Singletons THEN singletons'[j.service]
                         ELSE nodes'[h].service[j.service]) = RunningAs(h)
      OBVIOUS
    <3>1. j.service \notin Core /\ Client \in NodeServices
      BY SchedulerAssumption DEF NodeServices
    <3>2. CASE j.service = s
      BY <1>7, <3>1, <3>2
    <3>3. CASE j.service # s
      <4>1. j \in building.made
        BY <3>3
      <4>2. (IF j.service \in Singletons THEN singletons[j.service]
             ELSE nodes[h].service[j.service]) = RunningAs(h)
        BY <4>1 DEF Inv, LaunchesAreOwned, Slot
      <4> QED
        BY <1>7, <3>1, <3>3, <4>2
    <3> QED
      BY <3>2, <3>3
  <2> QED
    BY <1>5, <2>1, <2>2 DEF LaunchesAreOwned, Slot
<1>9. TypeOK' /\ SlotsAgree'
  BY <1>1, <1>3, <1>5, <1>6 DEF Inv, TypeOK, SlotsAgree, NodesOK, SingletonsOK
<1> QED
  BY <1>8, <1>9 DEF Inv

\* Inv is kept by timers, POSTs, restarts and the environment.
LEMMA SurroundingsSteps ==
  ASSUME Inv, Surroundings \/ TakeCall \/ \E e \in Inputs : Receive(e)
  PROVE  Inv'
<1>1. NodesOK(nodes) /\ SingletonsOK(singletons)
  BY NodesOKIsInv DEF Inv
<1>2. ASSUME NEW h \in Hosts, KeepaliveElapses(h) \/ ProbeIntervalElapses(h)
      PROVE  Inv'
  <2>1. /\ h \in DOMAIN nodes /\ singletons' = singletons
        /\ UNCHANGED <<target_version, stored, building, mailbox, driver,
                       incarnation>>
        /\ \/ nodes' = [nodes EXCEPT ![h].keepalive_over = TRUE]
           \/ nodes' = [nodes EXCEPT ![h].probe_due = TRUE]
    BY <1>2 DEF KeepaliveElapses, ProbeIntervalElapses
  <2>2. NodesOK(nodes') /\ DOMAIN nodes' = DOMAIN nodes
          /\ \A g \in DOMAIN nodes : nodes'[g].service = nodes[g].service
    <3>1. PICK n \in NodeState : /\ n.service = nodes[h].service
                                 /\ nodes' = [nodes EXCEPT ![h] = n]
      <4>1. nodes[h] \in NodeState
        BY <1>1, <2>1 DEF NodesOK
      <4>2. /\ [nodes[h] EXCEPT !.keepalive_over = TRUE] \in NodeState
            /\ [nodes[h] EXCEPT !.probe_due = TRUE] \in NodeState
            /\ [nodes[h] EXCEPT !.keepalive_over = TRUE].service
                 = nodes[h].service
            /\ [nodes[h] EXCEPT !.probe_due = TRUE].service
                 = nodes[h].service
        BY <4>1 DEF NodeState
      <4> QED
        BY <2>1, <4>2
    <3> QED
      BY <1>1, <2>1, <3>1, ReplaceNodeOK DEF NodesOK
  <2>3. TypeOK' /\ SlotsAgree'
    BY <1>1, <2>1, <2>2
      DEF Inv, TypeOK, SlotsAgree, NodesOK, SingletonsOK
  <2>4. LaunchesAreOwned'
    <3>1. CASE building = Idle
      BY <2>1, <3>1 DEF LaunchesAreOwned, Idle
    <3>2. CASE building # Idle
      <4>1. nodes'[building.offer.host].service
              = nodes[building.offer.host].service
        BY <2>2, <3>2 DEF Inv, TypeOK
      <4> QED
        BY <2>1, <4>1 DEF Inv, LaunchesAreOwned, Slot
    <3> QED
      BY <3>1, <3>2
  <2> QED
    BY <2>3, <2>4 DEF Inv
<1>3. ASSUME NEW v \in Versions \cup {NoVersion}, PostVersion(v)
      PROVE  Inv'
  <2> DEFINE state == [framework_id |-> HasFrameworkId, target_version |-> v]
  <2>1. /\ target_version' = v /\ Writeback(state)
        /\ UNCHANGED <<nodes, singletons, building, mailbox, driver,
                       incarnation>>
    BY <1>3 DEF PostVersion
  <2>2. HasFrameworkId \in BOOLEAN
    BY DEF HasFrameworkId
  <2>3. state \in SchedulerState
    BY <2>2, Zenon DEF SchedulerState
  <2> HIDE DEF state
  <2>4. stored' \in SUBSET SchedulerState
    BY <2>1, <2>3, WritebackTyped DEF Inv
  <2> QED
    BY <2>1, <2>4 DEF Inv, TypeOK, SlotsAgree, LaunchesAreOwned, Slot
<1>4. ASSUME NEW state \in SchedulerState, Restart(state)
      PROVE  Inv'
  <2>1. NodesOK(nodes') /\ SingletonsOK(singletons')
    BY <1>4 DEF Restart, NodesOK, SingletonsOK, Unknown, ServiceState
  <2>2. /\ target_version' \in Versions \cup {NoVersion}
        /\ stored' \in SUBSET SchedulerState
    BY <1>4, RestartTyped DEF Inv
  <2>3. /\ incarnation' \in 0 .. MaxRestarts
        /\ building' = Idle /\ mailbox' \in Seq(Event)
        /\ driver' \in Seq(Call)
    BY <1>4, SchedulerAssumption DEF Restart, Inv, TypeOK
  <2> QED
    BY <2>1, <2>2, <2>3, Assembled
<1>5. CASE TakeCall
  BY <1>5 DEF TakeCall, Inv, TypeOK, SlotsAgree, LaunchesAreOwned, Slot
<1>6. ASSUME NEW e \in Inputs, Receive(e)
      PROVE  Inv'
  <2>1. mailbox' \in Seq(Event)
    BY <1>6, SchedulerAssumption DEF Receive, Inv, TypeOK
  <2> QED
    BY <1>6, <2>1
      DEF Receive, Inv, TypeOK, SlotsAgree, LaunchesAreOwned, Slot
<1> QED
  BY <1>2, <1>3, <1>4, <1>5, <1>6 DEF Surroundings

\* A new process has Inv.
LEMMA InitInv == Init => Inv
<1> SUFFICES ASSUME Init PROVE Inv
  OBVIOUS
<1>1. TypeOK
  BY SchedulerAssumption
    DEF Init, TypeOK, Idle, NodeState, Unknown, ServiceState, Kept,
        SchedulerState
<1>2. SlotsAgree /\ LaunchesAreOwned
  BY DEF Init, SlotsAgree, LaunchesAreOwned, Idle, Unknown
<1> QED
  BY <1>1, <1>2 DEF Inv

\* Inv is inductive.
LEMMA NextInv == Inv /\ [Next]_schedulerVars => Inv'
<1> SUFFICES ASSUME Inv, [Next]_schedulerVars PROVE Inv'
  OBVIOUS
<1>1. CASE UNCHANGED schedulerVars
  BY <1>1
    DEF schedulerVars, Inv, TypeOK, SlotsAgree, LaunchesAreOwned, Slot
<1>2. CASE Callback
  BY <1>2, OfferCallbacks, UpdateCallbacks, MessageCallback, LaunchCallbacks,
     MakeTaskCallback DEF Callback
<1>3. CASE Surroundings \/ TakeCall \/ \E e \in Inputs : Receive(e)
  BY <1>3, SurroundingsSteps
<1> QED
  BY <1>1, <1>2, <1>3 DEF Next

(***************************************************************************)
(* The variables keep their types in every environment.                    *)
(***************************************************************************)
THEOREM TypeCorrect == Spec => []TypeOK
<1>1. Inv => TypeOK
  BY DEF Inv
<1> QED
  BY <1>1, InitInv, NextInv, PTL DEF Spec

(***************************************************************************)
(* A slot names a task exactly when it says RUNNING: for every update,     *)
(* offer and message, in any order.                                        *)
(***************************************************************************)
THEOREM SlotsAlwaysAgree == Spec => []SlotsAgree
<1>1. Inv => SlotsAgree
  BY DEF Inv
<1> QED
  BY <1>1, InitInv, NextInv, PTL DEF Spec

(***************************************************************************)
(* Whatever comes between two tasks of a list (a POST, the timers), the    *)
(* services still to build are free and those built are recorded here.     *)
(***************************************************************************)
THEOREM LaunchesAlwaysOwned == Spec => []LaunchesAreOwned
<1>1. Inv => LaunchesAreOwned
  BY DEF Inv
<1> QED
  BY <1>1, InitInv, NextInv, PTL DEF Spec

-----------------------------------------------------------------------------
Owner(s) == singletons[s].task_id

Owners == [s \in Singletons |-> singletons[s].task_id]

(***************************************************************************)
(* All that a step may do to the singletons: nothing, forget them with the *)
(* process, record a host for one that is free or that host's already, or  *)
(* clear one on a terminal update of its own task (or when it is free).    *)
(***************************************************************************)
OwnerStep ==
  \/ singletons' = singletons
  \/ /\ singletons' = [s \in Singletons |-> Unknown]
     /\ incarnation' # incarnation
  \/ \E s \in Singletons, h \in Hosts :
       /\ singletons' = [singletons EXCEPT ![s] = RunningAs(h)]
       /\ Owner(s) \in {h, NoHost}
  \/ \E s \in Singletons :
       /\ singletons' = [singletons EXCEPT ![s] = NotRunning]
       /\ Head(mailbox).type = "statusUpdate"
       /\ Head(mailbox).state = "LOST"
       /\ Head(mailbox).task \in TaskId
       /\ Head(mailbox).task.service = s
       /\ Owner(s) \in {Head(mailbox).task.host, NoHost}

\* The two updates that write to a slot.
LEMMA UpdateOwnerStep ==
  ASSUME Inv, ServiceUp \/ ServiceDown
  PROVE  OwnerStep
<1> DEFINE e  == Head(mailbox)
           t  == e.task
           ns == WithHost(e)
<1>1. NextEvent("statusUpdate")
  BY DEF ServiceUp, ServiceDown
<1>2. t \in TaskId /\ t.host \in Hosts /\ e.type = "statusUpdate"
  BY <1>1, UpdateTaken, EventTaken DEF Inv, TaskId
<1> HIDE DEF e, t, ns
<1>3. CASE ServiceUp
  <2>1. \/ singletons' = singletons
        \/ /\ SlotAnswersFor(ns, t)
           /\ \E seen : Record(seen, t, RunningAs(t.host))
    BY <1>3 DEF ServiceUp, ns, t, e
  <2>2. CASE t.service \in Singletons
    BY <1>2, <2>1, <2>2 DEF Record, SlotAnswersFor, Slot, OwnerStep, Owner
  <2>3. CASE t.service \notin Singletons
    BY <2>1, <2>3 DEF Record, OwnerStep
  <2> QED
    BY <2>2, <2>3
<1>4. CASE ServiceDown
  <2>1. \/ singletons' = singletons
        \/ SlotAnswersFor(ns, t) /\ Record(ns, t, NotRunning)
    BY <1>4 DEF ServiceDown, ns, t, e
  <2>2. e.state = "LOST"
    BY <1>4 DEF ServiceDown, e
  <2>3. CASE t.service \in Singletons
    BY <1>2, <2>1, <2>2, <2>3
      DEF Record, SlotAnswersFor, Slot, OwnerStep, Owner, e, t
  <2>4. CASE t.service \notin Singletons
    BY <2>1, <2>4 DEF Record, OwnerStep
  <2> QED
    BY <2>3, <2>4
<1> QED
  BY <1>3, <1>4

\* A task is made for a singleton that is not running anywhere.
LEMMA MakeTaskOwnerStep ==
  ASSUME Inv, NEW s \in Services, MakeTask(s)
  PROVE  OwnerStep
<1> DEFINE h == building.offer.host
<1>1. CASE s \in Singletons
  <2>1. singletons' = [singletons EXCEPT ![s] = RunningAs(h)]
    BY <1>1, SchedulerAssumption DEF MakeTask, Record
  <2>2. h \in Hosts
    BY DEF MakeTask, Inv, TypeOK, Idle
  <2>3. Slot(nodes, [service |-> s, host |-> h]).state = "NOT_RUNNING"
    BY DEF MakeTask, Inv, LaunchesAreOwned
  <2>4. Owner(s) = NoHost
    BY <1>1, <2>3 DEF Owner, Slot, Inv, SlotsAgree
  <2> QED
    BY <1>1, <2>1, <2>2, <2>4 DEF OwnerStep
<1>2. CASE s \notin Singletons
  BY <1>2 DEF MakeTask, Record, OwnerStep
<1> QED
  BY <1>1, <1>2

\* Every step changes the owner of a singleton as OwnerStep says.
LEMMA EveryStepIsOwnerStep ==
  ASSUME Inv, [Next]_schedulerVars
  PROVE  OwnerStep
<1>1. CASE \E s \in Services : MakeTask(s)
  BY <1>1, MakeTaskOwnerStep
<1>2. CASE ServiceUp \/ ServiceDown
  BY <1>2, UpdateOwnerStep
<1>3. CASE \E state \in SchedulerState : Restart(state)
  BY <1>3, SchedulerAssumption DEF Restart, OwnerStep, Inv, TypeOK
<1>4. CASE singletons' = singletons
  BY <1>4 DEF OwnerStep
<1>5. \/ \E s \in Services : MakeTask(s)
      \/ ServiceUp \/ ServiceDown
      \/ \E state \in SchedulerState : Restart(state)
      \/ singletons' = singletons
  BY DEF Next, schedulerVars, Callback, Surroundings, Registered, IgnoreHost,
         MeetHost, StartProber, ProbeHost, ChooseServices, LaunchTasks,
         KillServices, UnknownService, ServiceUnwanted, ServiceStaging,
         FrameworkMessage, KeepaliveElapses, ProbeIntervalElapses, PostVersion,
         Receive, TakeCall
<1> QED
  BY <1>1, <1>2, <1>3, <1>4, <1>5

\* The record of a task is given up on an update of it, or with the process.
Releases ==
  \A s \in Singletons :
    LET owner == singletons[s].task_id IN
    owner \notin {NoHost, singletons'[s].task_id} =>
      \/ incarnation' # incarnation
      \/ /\ Head(mailbox).type = "statusUpdate"
         /\ Head(mailbox).state = "LOST"
         /\ Head(mailbox).task = [service |-> s, host |-> owner]

LEMMA OwnerStepReleases ==
  ASSUME Inv, OwnerStep
  PROVE  Releases
<1> SUFFICES ASSUME NEW s \in Singletons,
                    Owner(s) \notin {NoHost, singletons'[s].task_id},
                    incarnation' = incarnation
             PROVE  /\ Head(mailbox).type = "statusUpdate"
                    /\ Head(mailbox).state = "LOST"
                    /\ Head(mailbox).task = [service |-> s, host |-> Owner(s)]
  BY DEF Owner, Releases
<1>1. singletons \in [Singletons -> ServiceState]
  BY DEF Inv, TypeOK
<1>2. PICK r \in Singletons :
        \/ \E h \in Hosts :
             /\ singletons' = [singletons EXCEPT ![r] = RunningAs(h)]
             /\ Owner(r) \in {h, NoHost}
        \/ /\ singletons' = [singletons EXCEPT ![r] = NotRunning]
           /\ Head(mailbox).type = "statusUpdate"
           /\ Head(mailbox).state = "LOST"
           /\ Head(mailbox).task \in TaskId
           /\ Head(mailbox).task.service = r
           /\ Owner(r) \in {Head(mailbox).task.host, NoHost}
  BY DEF OwnerStep, Owner
<1>3. r = s
  BY <1>1, <1>2 DEF Owner
<1>4. ~ \E h \in Hosts :
          /\ singletons' = [singletons EXCEPT ![s] = RunningAs(h)]
          /\ Owner(s) \in {h, NoHost}
  BY <1>1 DEF Owner, RunningAs
<1> QED
  BY <1>2, <1>3, <1>4 DEF TaskId

\* Such a step is one of the lease, or none.
LEMMA OwnerStepIsLease ==
  ASSUME Inv, OwnerStep
  PROVE  Lease!Next \/ Owners' = Owners
<1>1. singletons \in [Singletons -> ServiceState]
  BY DEF Inv, TypeOK
<1>2. CASE singletons' = singletons
  BY <1>2 DEF Owners
<1>3. CASE singletons' = [s \in Singletons |-> Unknown]
  BY <1>3 DEF Lease!Next, Lease!Forget, Lease!Free, Unknown
<1>4. ASSUME NEW s \in Singletons, NEW h \in Hosts,
             singletons' = [singletons EXCEPT ![s] = RunningAs(h)],
             Owner(s) \in {h, NoHost}
      PROVE  Lease!Next \/ Owners' = Owners
  <2>1. Owners' = [Owners EXCEPT ![s] = h]
    BY <1>1, <1>4 DEF Owners, RunningAs
  <2>2. CASE Owner(s) = h
    BY <2>1, <2>2 DEF Owners, Owner
  <2>3. CASE Owner(s) = NoHost
    BY <2>1, <2>3 DEF Owners, Owner, Lease!Next, Lease!Acquire
  <2> QED
    BY <1>4, <2>2, <2>3
<1>5. ASSUME NEW s \in Singletons,
             singletons' = [singletons EXCEPT ![s] = NotRunning]
      PROVE  Lease!Next \/ Owners' = Owners
  <2>1. Owners' = [Owners EXCEPT ![s] = NoHost]
    BY <1>1, <1>5 DEF Owners, NotRunning
  <2> QED
    BY <2>1 DEF Owners, Lease!Next, Lease!Release
<1> QED
  BY <1>2, <1>3, <1>4, <1>5 DEF OwnerStep

(***************************************************************************)
(* What a singleton's record says is dropped only on a terminal update of  *)
(* the task it names, whatever updates of its other tasks arrive.          *)
(***************************************************************************)
THEOREM OnlyOwnUpdateReleases == Spec => OwnUpdateReleases
<1>1. Inv /\ [Next]_schedulerVars => [Releases]_schedulerVars
  BY OwnerStepReleases, EveryStepIsOwnerStep
<1> QED
  BY <1>1, InitInv, NextInv, PTL DEF Spec, OwnUpdateReleases, Releases

(***************************************************************************)
(* The scheduler implements SingletonLease: the singletons' records pass   *)
(* from host to host only through none.                                    *)
(***************************************************************************)
THEOREM ImplementsLease == Spec => LeaseSpec
<1>1. Init => [s \in Singletons |-> singletons[s].task_id] = Lease!Free
  BY DEF Init, Lease!Free, Unknown
<1>2. Inv /\ [Next]_schedulerVars =>
        [Lease!Next]_[s \in Singletons |-> singletons[s].task_id]
  BY OwnerStepIsLease, EveryStepIsOwnerStep DEF Owners
<1> QED
  BY <1>1, <1>2, InitInv, NextInv, PTL DEF Spec, LeaseSpec, Lease!Spec
=============================================================================
