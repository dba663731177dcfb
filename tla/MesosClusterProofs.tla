-------------------------- MODULE MesosClusterProofs --------------------------
(***************************************************************************)
(* That Mesos and the scheduler never disagree about the offers, and that  *)
(* no service is launched beside its own task, for all instances: the      *)
(* cluster's inductive invariant, over the one of the scheduler.           *)
(***************************************************************************)
EXTENDS MesosCluster, QuobyteOffersProofs, LaunchFitsProofs

-----------------------------------------------------------------------------
(***************************************************************************)
(* The lists of updates that Mesos sends.                                  *)
(***************************************************************************)
LEMMA TaskIdsFinite == IsFiniteSet(TaskId)
<1> DEFINE f == [p \in Services \X Hosts |-> [service |-> p[1], host |-> p[2]]]
<1>1. IsFiniteSet(Services \X Hosts)
  BY ServicesFinite, ClusterAssumption, FS_Product
<1>2. f \in Surjection(Services \X Hosts, TaskId)
  <2>1. \A p \in Services \X Hosts : f[p] \in TaskId
    BY DEF TaskId
  <2>2. \A t \in TaskId : <<t.service, t.host>> \in Services \X Hosts
                          /\ f[<<t.service, t.host>>] = t
    BY DEF TaskId
  <2>3. f \in [Services \X Hosts -> TaskId]
    BY <2>1
  <2> HIDE DEF f
  <2> QED
    BY <2>2, <2>3 DEF Surjection
<1> QED
  BY <1>1, <1>2, FS_Surjection

\* What SetToSeq makes of a finite set: its elements, each in some place.
LEMMA SetToSeqOf ==
  ASSUME NEW S, IsFiniteSet(S)
  PROVE  /\ SetToSeq(S) \in Seq(S)
         /\ \A x \in S : \E i \in DOMAIN SetToSeq(S) : SetToSeq(S)[i] = x
<1> DEFINE n == Cardinality(S)
           f == SetToSeq(S)
<1>1. n \in Nat /\ ExistsBijection(1 .. n, S)
  BY FS_CardinalityType
<1>2. PICK g \in Bijection(1 .. n, S) : TRUE
  BY <1>1 DEF ExistsBijection
<1>3. g \in [1 .. n -> S] /\ IsInjective(g)
  BY <1>2 DEF Bijection, Injection
<1>4. f \in [1 .. n -> S] /\ IsInjective(f)
  BY <1>3 DEF SetToSeq
<1>5. f \in Surjection(1 .. n, S)
  <2>1. f \in Injection(1 .. n, S)
    BY <1>4 DEF Injection
  <2>2. Cardinality(1 .. n) = n
    BY <1>1, FS_Interval
  <2> HIDE DEF f, n
  <2> QED
    BY <2>1, <2>2, FS_Injection DEF n
<1>6. f \in Seq(S)
  BY <1>1, <1>4
<1> HIDE DEF f, n
<1>7. \A x \in S : \E i \in 1 .. n : f[i] = x
  BY <1>5 DEF Surjection
<1> QED
  BY <1>4, <1>6, <1>7 DEF f

Update == {e \in Event : e.type = "statusUpdate"}
OtherEvent == {e \in Event : e.type # "resourceOffers"}

LEMMA StatusTyped ==
  ASSUME NEW t \in TaskId, NEW st \in TaskStates,
         NEW slave \in Slaves \cup {NoSlave}
  PROVE  Status(t, st, slave) \in Update
BY DEF Status, Update, Event

\* Updates about some tasks, in any order.
LEMMA UpdatesListed ==
  ASSUME NEW S \in SUBSET Update, IsFiniteSet(S)
  PROVE  /\ SetToSeq(S) \in Seq(OtherEvent)
         /\ SetToSeq(S) \in Seq(Update)
<1>1. SetToSeq(S) \in Seq(S)
  BY SetToSeqOf
<1>2. S \subseteq Update /\ S \subseteq OtherEvent
  BY DEF Update, OtherEvent
<1> QED
  BY <1>1, <1>2

\* Events that carry no offer are not counted.
LEMMA SendCounted ==
  ASSUME NEW m \in Seq(Event), NEW es \in Seq(OtherEvent), NEW O
  PROVE  /\ m \o es \in Seq(Event)
         /\ Cardinality(At(m \o es, OfferEvents(O)))
              = Cardinality(At(m, OfferEvents(O)))
<1>1. es \in Seq(Event) /\ \A i \in 1 .. Len(es) : es[i] \in OtherEvent
  BY DEF OtherEvent
<1>2. /\ m \o es \in Seq(Event)
      /\ Len(m) \in Nat /\ Len(es) \in Nat
      /\ DOMAIN m = 1 .. Len(m) /\ DOMAIN (m \o es) = 1 .. Len(m) + Len(es)
      /\ \A i \in 1 .. Len(m) + Len(es) :
           (m \o es)[i] = IF i <= Len(m) THEN m[i] ELSE es[i - Len(m)]
  BY <1>1
<1>3. \A i \in DOMAIN (m \o es) :
        (m \o es)[i] \in OfferEvents(O) => i <= Len(m)
  BY <1>1, <1>2 DEF OtherEvent, OfferEvents
<1>4. At(m \o es, OfferEvents(O)) = At(m, OfferEvents(O))
  BY <1>2, <1>3 DEF At
<1> QED
  BY <1>2, <1>4

-----------------------------------------------------------------------------
(***************************************************************************)
(* The cluster's invariant.                                                *)
(***************************************************************************)
OffersOf(h) == {o \in Offer : o.host = h /\ ValidOffer(o)}

\* Offers that no agent the host has, or had, can have made.
Strays == {o \in Offer : o.host \in DOMAIN SlaveOf =>
                           o.slave \notin {SlaveOf[o.host], agents[o.host]}}

ServicesAt(h) == {t.service : t \in On(h)}

\* Offers of more than the tasks on the host leave.
Misfits ==
  {o \in Offer : /\ ValidOffer(o)
                 /\ \/ Needs(ServicesAt(o.host)) + o.units > Capacity
                    \/ o.ports \cap PortsOf(ServicesAt(o.host)) # {}}

SparedCall ==
  {c \in Call : c.call = "killTask" => \A t \in c.tasks : t.service # Prober}

\* Executors run, and are asked, on hosts that have an agent.
ProbersOK ==
  /\ DOMAIN executors \subseteq DOMAIN SlaveOf
  /\ executors \in [DOMAIN executors -> SUBSET Mount]
  /\ probing \subseteq DOMAIN executors

MesosInv ==
  /\ ClusterTypeOK
  /\ driver \in Seq(SparedCall)
  /\ \A h \in DOMAIN SlaveOf :
       agents[h] # SlaveOf[h] =>
         h \in DOMAIN NewSlaveOf /\ agents[h] = NewSlaveOf[h]
  /\ \A t \in TaskId : Held(t) => t.host \in DOMAIN SlaveOf
  /\ ProbersOK
  /\ offered \subseteq DOMAIN SlaveOf
  /\ ~connected => offered = {}
  /\ \A h \in Hosts : Needs(ServicesAt(h)) <= Capacity

OffersInv ==
  /\ HeldOf(Strays) = 0
  /\ HeldOf(Misfits) = 0
  /\ connected =>
       \A h \in DOMAIN SlaveOf : HeldOf(OffersOf(h)) = One(h \in offered)

ClusterInv == Inv /\ FitInv /\ MesosInv /\ OffersInv

-----------------------------------------------------------------------------
(***************************************************************************)
(* Counts of offers: of none, and of parts of a set.                       *)
(***************************************************************************)
None(O) ==
  /\ \A i \in DOMAIN mailbox : mailbox[i] \notin OfferEvents(O)
  /\ building # Idle => building.offer \notin O
  /\ \A i \in DOMAIN driver : driver[i] \notin Answers(O)

LEMMA HeldNat ==
  ASSUME Inv, NEW O
  PROVE  /\ Waiting(O) \in Nat /\ InHand(O) \in {0, 1} /\ Answered(O) \in Nat
         /\ HeldOf(O) \in Nat
<1>1. Waiting(O) \in Nat /\ InHand(O) \in {0, 1} /\ Answered(O) \in Nat
  BY HeldTyped DEF Inv, TypeOK, Waiting, Answered, InHand, One
<1> QED
  BY <1>1 DEF HeldOf

LEMMA NoneHeld == Inv => \A O : HeldOf(O) = 0 <=> None(O)
<1> SUFFICES ASSUME Inv, NEW O PROVE HeldOf(O) = 0 <=> None(O)
  OBVIOUS
<1>1. /\ Waiting(O) \in Nat /\ InHand(O) \in {0, 1} /\ Answered(O) \in Nat
  BY HeldNat
<1>2. HeldOf(O) = 0 <=> Waiting(O) = 0 /\ InHand(O) = 0 /\ Answered(O) = 0
  BY <1>1 DEF HeldOf
<1>3. /\ IsFiniteSet(At(mailbox, OfferEvents(O)))
      /\ IsFiniteSet(At(driver, Answers(O)))
  BY PlacesFinite DEF Inv, TypeOK
<1>4. /\ Waiting(O) = 0 <=> At(mailbox, OfferEvents(O)) = {}
      /\ Answered(O) = 0 <=> At(driver, Answers(O)) = {}
  BY <1>3, FS_EmptySet DEF Waiting, Answered
<1> QED
  BY <1>2, <1>4 DEF None, At, InHand, One

LEMMA NoneCovered ==
  Inv => \A A, B, O :
    HeldOf(A) = 0 /\ HeldOf(B) = 0 /\ O \subseteq A \cup B => HeldOf(O) = 0
<1> SUFFICES ASSUME Inv, NEW A, NEW B, NEW O,
                    HeldOf(A) = 0, HeldOf(B) = 0, O \subseteq A \cup B
             PROVE  HeldOf(O) = 0
  OBVIOUS
<1>1. None(A) /\ None(B)
  BY NoneHeld
<1>2. None(O)
  BY <1>1 DEF None, OfferEvents, Answers
<1> QED
  BY <1>2, NoneHeld

-----------------------------------------------------------------------------
(***************************************************************************)
(* What Mesos does to the scheduler's state: to its two queues only.       *)
(***************************************************************************)
Apart == <<nodes, singletons, target_version, stored, building, incarnation>>

LEMMA QueuesInv ==
  ASSUME Inv, UNCHANGED Apart, mailbox' \in Seq(Event), driver' \in Seq(Call)
  PROVE  Inv'
BY DEF Apart, Inv, TypeOK, SlotsAgree, LaunchesAreOwned, Slot

LEMMA SentInv ==
  ASSUME Inv, FitInv, UNCHANGED <<Apart, driver>>,
         NEW es \in Seq(OtherEvent), mailbox' = mailbox \o es
  PROVE  Inv' /\ FitInv' /\ \A O : HeldOf(O)' = HeldOf(O)
<1>1. mailbox \in Seq(Event) /\ driver \in Seq(Call)
  BY DEF Inv, TypeOK
<1>2. mailbox' \in Seq(Event) /\ driver' = driver /\ building' = building
  BY <1>1, SendCounted DEF Apart
<1>3. Inv'
  BY <1>1, <1>2, QueuesInv DEF Apart
<1>4. FitInv'
  BY <1>2 DEF FitInv
<1>5. ASSUME NEW O PROVE HeldOf(O)' = HeldOf(O)
  BY <1>1, <1>2, SendCounted DEF HeldOf, Waiting, InHand, Answered
<1> QED
  BY <1>3, <1>4, <1>5

LEMMA TakenInv ==
  ASSUME Inv, FitInv, driver \in Seq(SparedCall), UNCHANGED Apart,
         driver # <<>>, driver' = Tail(driver),
         NEW es \in Seq(OtherEvent), mailbox' = mailbox \o es
  PROVE  /\ Inv' /\ FitInv' /\ driver' \in Seq(SparedCall)
         /\ Head(driver) \in FittingCall \cap SparedCall
         /\ \A O : HeldOf(O)' = HeldOf(O) - One(Head(driver) \in Answers(O))
<1>1. /\ mailbox \in Seq(Event) /\ driver \in Seq(Call)
      /\ driver \in Seq(FittingCall)
  BY DEF Inv, TypeOK, FitInv
<1>2. /\ mailbox' \in Seq(Event) /\ driver' \in Seq(Call)
      /\ driver' \in Seq(FittingCall) /\ driver' \in Seq(SparedCall)
      /\ building' = building
      /\ Head(driver) \in FittingCall /\ Head(driver) \in SparedCall
  BY <1>1, SendCounted, HeadTailProperties DEF Apart
<1>3. Inv'
  BY <1>1, <1>2, QueuesInv
<1>4. FitInv'
  BY <1>2 DEF FitInv
<1>5. ASSUME NEW O
      PROVE  HeldOf(O)' = HeldOf(O) - One(Head(driver) \in Answers(O))
  <2>1. Waiting(O)' = Waiting(O) /\ InHand(O)' = InHand(O)
    BY <1>1, <1>2, SendCounted DEF Waiting, InHand
  <2>2. Answered(O)' = Answered(O) - One(Head(driver) \in Answers(O))
    BY <1>1, CountTail DEF Answered
  <2>3. Waiting(O) \in Nat /\ InHand(O) \in Nat /\ Answered(O) \in Nat
    BY HeldNat
  <2> QED
    BY <2>1, <2>2, <2>3 DEF HeldOf, One
<1> QED
  BY <1>2, <1>3, <1>4, <1>5

\* Where no task is added, no more is taken.
LEMMA FewerTasks ==
  ASSUME \A t \in TaskId : Held(t)' => Held(t), NEW h
  PROVE  /\ ServicesAt(h)' \subseteq ServicesAt(h)
         /\ ServicesAt(h) \in SUBSET Services
         /\ Needs(ServicesAt(h)') <= Needs(ServicesAt(h))
         /\ Needs(ServicesAt(h)') \in Nat /\ Needs(ServicesAt(h)) \in Nat
         /\ PortsOf(ServicesAt(h)') \subseteq PortsOf(ServicesAt(h))
<1>1. /\ ServicesAt(h)' \subseteq ServicesAt(h)
      /\ ServicesAt(h) \in SUBSET Services
  BY DEF ServicesAt, On, TaskId
<1>2. /\ IsFiniteSet(ServicesAt(h)) /\ IsFiniteSet(ServicesAt(h)')
      /\ ServicesAt(h)' \in SUBSET Services
  BY <1>1, ServicesFinite
<1> QED
  BY <1>1, <1>2, NeedsPart, NeedsIsNat DEF PortsOf

(***************************************************************************)
(* A step that makes and answers no offer, adds no task and moves no agent *)
(* keeps the offers accounted for and within what is free.                 *)
(***************************************************************************)
LEMMA OffersKept ==
  ASSUME Inv, MesosInv, OffersInv, \A O : HeldOf(O)' = HeldOf(O), agents' = agents,
         \A t \in TaskId : Held(t)' => Held(t),
         connected' => connected /\ offered' = offered
  PROVE  OffersInv' /\ \A h \in Hosts : Needs(ServicesAt(h))' <= Capacity
<1>1. ASSUME NEW h PROVE OffersOf(h)' = OffersOf(h)
  BY DEF OffersOf, ValidOffer
<1>2. ASSUME NEW h
      PROVE  /\ Needs(ServicesAt(h)') <= Needs(ServicesAt(h))
             /\ Needs(ServicesAt(h)') \in Nat /\ Needs(ServicesAt(h)) \in Nat
             /\ PortsOf(ServicesAt(h)') \subseteq PortsOf(ServicesAt(h))
  BY FewerTasks
<1>3. HeldOf(Strays)' = 0
  <2>1. Strays' = Strays
    BY DEF Strays
  <2> QED
    BY <2>1 DEF OffersInv
<1>4. HeldOf(Misfits)' = 0
  <2>1. Misfits' \subseteq Misfits
    <3>1. \A o \in Offer : o.units \in Nat /\ (ValidOffer(o)' <=> ValidOffer(o))
      BY DEF Offer, ValidOffer
    <3>2. Capacity \in Nat
      BY ClusterAssumption
    <3> QED
      BY <1>2, <3>1, <3>2 DEF Misfits
  <2>2. PICK M : M = Misfits'
    OBVIOUS
  <2>3. HeldOf(M) = 0
    BY <2>1, <2>2, NoneCovered DEF OffersInv
  <2> QED
    BY <2>2, <2>3
<1>5. connected' => \A h \in DOMAIN SlaveOf :
                      HeldOf(OffersOf(h))' = One(h \in offered')
  BY <1>1 DEF OffersInv
<1>6. \A h \in Hosts : Needs(ServicesAt(h))' <= Capacity
  BY <1>2, ClusterAssumption DEF MesosInv
<1> QED
  BY <1>3, <1>4, <1>5, <1>6 DEF OffersInv

-----------------------------------------------------------------------------
(***************************************************************************)
(* The scheduler's callbacks: no one kills a prober.                       *)
(***************************************************************************)
LEMMA OtherCallsSpare ==
  ASSUME NEW c \in Call, c.call # "killTask"
  PROVE  c \in SparedCall
BY DEF SparedCall

LEMMA KillsSpare ==
  ASSUME NEW ts \in SUBSET TaskId, \A t \in ts : t.service # Prober
  PROVE  Kills(ts) \in Seq(SparedCall)
<1>1. [call |-> "killTask", tasks |-> ts] \in SparedCall
  BY DEF Call, SparedCall
<1> QED
  BY <1>1 DEF Kills

LEMMA OffersSpare ==
  ASSUME Inv, driver \in Seq(SparedCall),
         IgnoreHost \/ MeetHost \/ StartProber \/ ProbeHost \/ KillServices
  PROVE  driver' \in Seq(SparedCall)
<1> DEFINE o == Head(mailbox).offer
<1>1. NextEvent("resourceOffers")
  BY DEF IgnoreHost, MeetHost, StartProber, ProbeHost, KillServices
<1>2. o \in Offer /\ o.host \in Hosts
  BY <1>1, OfferTaken DEF Inv, Offer
<1>3. /\ Decline(o) \in SparedCall /\ ReconcileHost(o.host) \in SparedCall
      /\ Probe(o.slave) \in SparedCall
      /\ \A ts \in SUBSET Task : Launch(o, ts) \in SparedCall
  BY <1>2, CallsTyped, OtherCallsSpare DEF Decline, ReconcileHost, Probe, Launch
<1> HIDE DEF o
<1>4. CASE IgnoreHost \/ MeetHost \/ ProbeHost
  <2>1. CASE IgnoreHost
    BY <1>3, <2>1 DEF IgnoreHost, o
  <2>2. CASE MeetHost
    BY <1>3, <2>2 DEF MeetHost, o
  <2>3. CASE ProbeHost
    <3>1. driver' = driver \o <<Probe(o.slave), ReconcileHost(o.host), Decline(o)>>
      BY <2>3 DEF ProbeHost, o
    <3> QED
      BY <1>3, <3>1
  <2> QED
    BY <1>4, <2>1, <2>2, <2>3
<1>5. CASE StartProber
  <2>1. {[service |-> Prober, version |-> NoVersion]} \in SUBSET Task
    BY DEF Services, NodeServices, Task
  <2>2. PICK ts \in SUBSET Task : driver' = Append(driver, Launch(o, ts))
    BY <1>5, <2>1 DEF StartProber, o
  <2> QED
    BY <1>3, <2>2
<1>6. CASE KillServices
  <2> DEFINE ts == {[service |-> s, host |-> o.host] :
                      s \in RunningOn(nodes[o.host])}
  <2>1. driver' = driver \o Kills(ts) \o <<Decline(o)>>
    BY <1>6 DEF KillServices, o
  <2>2. /\ RunningOn(nodes[o.host]) \subseteq Services
        /\ Prober \notin RunningOn(nodes[o.host])
    BY SchedulerAssumption
      DEF RunningOn, CoreServicesRunning, Services, NodeServices
  <2>3. ts \in SUBSET TaskId /\ \A t \in ts : t.service # Prober
    BY <1>2, <2>2 DEF TaskId
  <2>4. Kills(ts) \in Seq(SparedCall)
    BY <2>3, KillsSpare
  <2> HIDE DEF ts
  <2> QED
    BY <1>3, <2>1, <2>4
<1> QED
  BY <1>4, <1>5, <1>6

LEMMA UpdatesSpare ==
  ASSUME Inv, driver \in Seq(SparedCall),
         UnknownService \/ ServiceUp \/ ServiceUnwanted \/ ServiceDown
           \/ ServiceStaging
  PROVE  driver' \in Seq(SparedCall)
<1> DEFINE e == Head(mailbox)
<1>1. NextEvent("statusUpdate")
  BY DEF UnknownService, ServiceUp, ServiceUnwanted, ServiceDown, ServiceStaging
<1>2. e.task \in TaskId
  BY <1>1, UpdateTaken DEF Inv
<1>3. ShutdownKills(e) \in Seq(SparedCall)
  BY <1>2, KillsSpare DEF ShutdownKills
<1> HIDE DEF e
<1>4. CASE UnknownService \/ ServiceDown
  BY <1>4 DEF UnknownService, ServiceDown
<1>5. CASE ServiceUp \/ ServiceStaging
  <2>1. driver' = driver \o ShutdownKills(e)
    <3>1. CASE ServiceUp
      BY <3>1 DEF ServiceUp, e
    <3>2. CASE ServiceStaging
      BY <3>2 DEF ServiceStaging, e
    <3> QED
      BY <1>5, <3>1, <3>2
  <2> QED
    BY <1>3, <2>1
<1>6. CASE ServiceUnwanted
  <2>1. /\ driver' = driver \o Kills({e.task}) \o ShutdownKills(e)
        /\ ~ServiceShouldRun(WithHost(e), e.task)
    BY <1>6 DEF ServiceUnwanted, e
  <2>2. e.task.service # Prober
    BY <2>1, SchedulerAssumption DEF ServiceShouldRun, Client, Prober
  <2>3. Kills({e.task}) \in Seq(SparedCall)
    BY <1>2, <2>2, KillsSpare
  <2> QED
    BY <1>3, <2>1, <2>3
<1> QED
  BY <1>4, <1>5, <1>6

LEMMA CallbackSpares ==
  ASSUME Inv, driver \in Seq(SparedCall), Callback
  PROVE  driver' \in Seq(SparedCall)
<1>1. CASE Registered
  <2>1. ReconcileAll \in SparedCall
    BY DEF ReconcileAll, Call, SparedCall
  <2> QED
    BY <1>1, <2>1 DEF Registered
<1>2. CASE ChooseServices
  <2> DEFINE o == Head(mailbox).offer
  <2>1. o \in Offer
    BY <1>2, OfferTaken DEF ChooseServices, Inv
  <2>2. Decline(o) \in SparedCall
    BY <2>1, CallsTyped, OtherCallsSpare DEF Decline
  <2> HIDE DEF o
  <2>3. driver' = Append(driver, Decline(o)) \/ driver' = driver
    BY <1>2 DEF ChooseServices, o
  <2> QED
    BY <2>2, <2>3
<1>3. CASE LaunchTasks
  <2> DEFINE c == Launch(building.offer, building.made)
  <2>1. c \in SparedCall
    BY <1>3, OfferInHand, CallsTyped, OtherCallsSpare DEF LaunchTasks, Launch
  <2>2. driver' = Append(driver, c)
    BY <1>3 DEF LaunchTasks
  <2> HIDE DEF c
  <2> QED
    BY <2>1, <2>2
<1>4. CASE FrameworkMessage \/ \E s \in Services : MakeTask(s)
  BY <1>4 DEF FrameworkMessage, MakeTask
<1> QED
  BY <1>1, <1>2, <1>3, <1>4, OffersSpare, UpdatesSpare DEF Callback

-----------------------------------------------------------------------------
(***************************************************************************)
(* The steps of the cluster.                                               *)
(***************************************************************************)
\* Most steps keep all offers and add no task.
LEMMA KeptAssembled ==
  ASSUME ClusterInv, Inv', FitInv', driver' \in Seq(SparedCall),
         \A O : HeldOf(O)' = HeldOf(O),
         agents' = agents, mounts' \in [Hosts -> SUBSET Mount],
         tasks' \in [TaskId -> AgentStates],
         \A t \in TaskId : t.service = Prober => tasks'[t] \in {"NONE", "STAGING"},
         orphans' \in SUBSET TaskId, \A t \in TaskId : Held(t)' => Held(t),
         ProbersOK',
         offered' \subseteq offered, connected' \in BOOLEAN,
         IF connected' THEN connected /\ offered' = offered ELSE offered' = {},
         reached' \subseteq Hosts, failures' \in 0 .. MaxFailures
  PROVE  ClusterInv'
<1>1. OffersInv' /\ \A h \in Hosts : Needs(ServicesAt(h))' <= Capacity
  BY OffersKept DEF ClusterInv
<1>2. /\ offered' \subseteq DOMAIN SlaveOf
      /\ DOMAIN SlaveOf \subseteq Hosts
      /\ \A t \in TaskId : Held(t)' => t.host \in DOMAIN SlaveOf
  BY ClusterAssumption DEF ClusterInv, MesosInv
<1>3. ClusterTypeOK'
  <2>1. DOMAIN executors' \subseteq Hosts
    BY <1>2 DEF ProbersOK
  <2> QED
    BY <1>2, <2>1 DEF ClusterInv, MesosInv, ClusterTypeOK, ProbersOK
<1>4. MesosInv'
  BY <1>1, <1>2, <1>3 DEF ClusterInv, MesosInv
<1> QED
  BY <1>1, <1>4 DEF ClusterInv

\* Steps that leave what is Mesos's alone.
LEMMA MesosApart ==
  ASSUME ClusterInv, Inv', FitInv', driver' \in Seq(SparedCall),
         \A O : HeldOf(O)' = HeldOf(O),
         UNCHANGED mesosVars, reached' \subseteq Hosts
  PROVE  ClusterInv'
<1>1. /\ agents' = agents /\ mounts' = mounts /\ tasks' = tasks
      /\ orphans' = orphans
      /\ executors' = executors /\ offered' = offered /\ probing' = probing
      /\ connected' = connected /\ failures' = failures
  BY DEF mesosVars, hostVars
<1>2. ProbersOK' /\ \A t \in TaskId : Held(t)' => Held(t)
  BY <1>1 DEF Held, Active, ProbersOK, ClusterInv, MesosInv
<1> QED
  BY <1>1, <1>2, KeptAssembled DEF ClusterInv, MesosInv, ClusterTypeOK

LEMMA SchedulerKeeps ==
  ASSUME ClusterInv, SchedulerStep
  PROVE  ClusterInv'
<1>1. Inv /\ FitInv /\ Callback /\ driver \in Seq(SparedCall)
  BY DEF ClusterInv, MesosInv, SchedulerStep
<1>2. Inv'
  BY <1>1, NextInv DEF Next
<1>3. FitInv' /\ driver' \in Seq(SparedCall)
  BY <1>1, CallbackFits, CallbackSpares
<1>4. \A O : HeldOf(O)' = HeldOf(O)
  BY <1>1, CallbackHolds
<1>5. reached' \subseteq Hosts
  <2>1. Considered \subseteq Hosts
    <3>1. ASSUME mailbox # <<>>, Head(mailbox).type = "resourceOffers"
          PROVE  Head(mailbox).offer.host \in Hosts
      <4>1. mailbox \in Seq(Event) /\ Head(mailbox) \in Event
        BY <1>1, <3>1, HeadTailProperties DEF Inv, TypeOK
      <4> QED
        BY <3>1, <4>1 DEF Event, Offer
    <3> QED
      BY <3>1 DEF Considered
  <2> QED
    BY <2>1 DEF SchedulerStep, ClusterInv, MesosInv, ClusterTypeOK
<1> QED
  BY <1>2, <1>3, <1>4, <1>5, MesosApart DEF SchedulerStep

\* Time and POSTs touch neither queue.
LEMMA OutsideKeeps ==
  ASSUME ClusterInv,
         \/ \E h \in Hosts : KeepaliveOver(h) \/ ProbeDue(h)
         \/ \E v \in Posts : Post(v)
  PROVE  ClusterInv'
<1>1. /\ Surroundings /\ mailbox' = mailbox /\ driver' = driver
      /\ building' = building
  <2>1. Posts \subseteq Versions \cup {NoVersion}
    BY ClusterAssumption
  <2> QED
    BY <2>1 DEF KeepaliveOver, ProbeDue, Timer, Post, Surroundings,
                KeepaliveElapses, ProbeIntervalElapses, PostVersion
<1>2. Inv'
  BY <1>1, NextInv DEF Next, ClusterInv
<1>3. FitInv' /\ driver' \in Seq(SparedCall)
  BY <1>1 DEF ClusterInv, FitInv, MesosInv
<1>4. \A O : HeldOf(O)' = HeldOf(O)
  BY <1>1 DEF HeldOf, Waiting, InHand, Answered
<1>5. UNCHANGED mesosVars /\ reached' \subseteq Hosts
  BY DEF KeepaliveOver, ProbeDue, Timer, Post, ClusterInv, MesosInv,
         ClusterTypeOK
<1> QED
  BY <1>2, <1>3, <1>4, <1>5, MesosApart

\* With empty queues and nothing in hand no offer is held.
LEMMA EmptyHoldsNone ==
  mailbox \in Seq(OtherEvent) /\ driver = <<>> /\ building = Idle
    => \A O : HeldOf(O) = 0
<1> SUFFICES ASSUME mailbox \in Seq(OtherEvent), driver = <<>>, building = Idle,
                    NEW O
             PROVE  HeldOf(O) = 0
  OBVIOUS
<1>1. At(mailbox, OfferEvents(O)) = {}
  BY DEF At, OfferEvents, OtherEvent
<1>2. At(driver, Answers(O)) = {}
  <2>1. driver \in Seq(Call) /\ Len(driver) = 0
    OBVIOUS
  <2>2. \A i : i \notin DOMAIN driver
    BY <2>1, LenProperties
  <2> QED
    BY <2>2 DEF At
<1>3. Waiting(O) = 0 /\ Answered(O) = 0
  BY <1>1, <1>2, FS_EmptySet DEF Waiting, Answered
<1>4. InHand(O) = 0
  BY DEF InHand, One
<1> QED
  BY <1>3, <1>4 DEF HeldOf

LEMMA EmptiedHoldsNone ==
  ASSUME mailbox' = <<>>, driver' = <<>>, building' = Idle
  PROVE  \A O : HeldOf(O)' = 0
<1>1. (mailbox \in Seq(OtherEvent) /\ driver = <<>> /\ building = Idle
         => \A O : HeldOf(O) = 0)'
  BY EmptyHoldsNone, PTL
<1> QED
  BY <1>1

LEMMA FailOverKeeps ==
  ASSUME ClusterInv, FailOver, reached' = reached
  PROVE  ClusterInv'
<1>1. PICK state \in SchedulerState :
        /\ Restart(state)
        /\ IF state.framework_id THEN TakesOver ELSE IsNewFramework
  BY DEF FailOver
<1>2. /\ mailbox' = <<>> /\ driver' = <<>> /\ building' = Idle
      /\ connected' = FALSE /\ offered' = {}
      /\ agents' = agents /\ mounts' = mounts /\ failures' = failures
  BY <1>1 DEF FailOver, Restart
<1>3. Inv'
  BY <1>1, NextInv DEF Next, Surroundings, ClusterInv
<1>4. FitInv' /\ driver' \in Seq(SparedCall)
  BY <1>2, IdleFits DEF FitInv
<1>5. \A O : HeldOf(O)' = 0
  BY <1>2, EmptiedHoldsNone
<1>6. /\ tasks' \in [TaskId -> AgentStates] /\ orphans' \in SUBSET TaskId
      /\ \A t \in TaskId : t.service = Prober => tasks'[t] \in {"NONE", "STAGING"}
      /\ \A t \in TaskId : Held(t)' => Held(t)
      /\ ProbersOK'
  <2>1. CASE TakesOver
    BY <2>1 DEF TakesOver, ClusterInv, MesosInv, ClusterTypeOK, ProbersOK, Held,
                Active
  <2>2. CASE IsNewFramework
    <3>1. ProbersOK'
      BY <2>2 DEF IsNewFramework, NoExecutors, ProbersOK
    <3> QED
      BY <2>2, <3>1 DEF IsNewFramework, ClusterInv, MesosInv, ClusterTypeOK,
                        AgentStates, Held, Active
  <2> QED
    BY <1>1, <2>1, <2>2
<1>7. OffersInv' /\ \A h \in Hosts : Needs(ServicesAt(h))' <= Capacity
  BY <1>2, <1>5, <1>6, FewerTasks, ClusterAssumption
    DEF OffersInv, ClusterInv, MesosInv
<1>8. ClusterTypeOK'
  <2>1. DOMAIN executors' \subseteq Hosts
    BY <1>6, ClusterAssumption DEF ProbersOK
  <2> QED
    BY <1>2, <1>6, <2>1 DEF ClusterInv, MesosInv, ClusterTypeOK, ProbersOK
<1>9. MesosInv'
  BY <1>2, <1>4, <1>6, <1>7, <1>8 DEF ClusterInv, MesosInv
<1> QED
  BY <1>3, <1>4, <1>7, <1>9 DEF ClusterInv

LEMMA ConnectKeeps ==
  ASSUME ClusterInv, Connect, reached' = reached
  PROVE  ClusterInv'
<1>1. /\ ~connected /\ mailbox = <<>> /\ driver = <<>> /\ building = Idle
      /\ connected' = TRUE /\ mailbox' = <<[type |-> "registered"]>>
      /\ UNCHANGED <<Apart, driver>>
      /\ agents' = agents /\ mounts' = mounts /\ tasks' = tasks
      /\ orphans' = orphans
      /\ executors' = executors /\ probing' = probing /\ failures' = failures
      /\ offered' = offered /\ offered = {}
  BY DEF Connect, Apart, hostVars, ClusterInv, MesosInv
<1> DEFINE es == <<[type |-> "registered"]>>
<1>2. es \in Seq(OtherEvent) /\ mailbox' = mailbox \o es
  <2>1. [type |-> "registered"] \in OtherEvent
    BY DEF OtherEvent, Event
  <2>2. es \in Seq(OtherEvent)
    BY <2>1
  <2>3. <<>> \o es = es
    BY <2>2
  <2> QED
    BY <1>1, <2>2, <2>3
<1> HIDE DEF es
<1>3. Inv' /\ FitInv' /\ \A O : HeldOf(O)' = HeldOf(O)
  BY <1>1, <1>2, SentInv DEF ClusterInv
<1>4. \A O : HeldOf(O)' = 0
  BY <1>1, <1>3, EmptyHoldsNone
<1>5. OffersInv' /\ \A h : ServicesAt(h)' = ServicesAt(h)
  BY <1>1, <1>4 DEF OffersInv, ServicesAt, On, Held, Active, One
<1>6. MesosInv'
  BY <1>1, <1>5
    DEF ClusterInv, MesosInv, ClusterTypeOK, ProbersOK, Held, Active
<1> QED
  BY <1>3, <1>5, <1>6 DEF ClusterInv

LEMMA DisconnectKeeps ==
  ASSUME ClusterInv, Disconnect, reached' = reached
  PROVE  ClusterInv'
<1>1. /\ UNCHANGED schedulerVars /\ failures < MaxLosses
      /\ agents' = agents /\ mounts' = mounts /\ tasks' = tasks
      /\ orphans' = orphans
      /\ executors' = executors /\ probing' = probing
      /\ failures' = failures + 1 /\ connected' = FALSE /\ offered' = {}
  BY DEF Disconnect, hostVars
<1>2. Inv' /\ mailbox' = mailbox /\ driver' = driver /\ building' = building
  BY <1>1, NextInv DEF ClusterInv, schedulerVars
<1>3. FitInv' /\ driver' \in Seq(SparedCall)
  BY <1>2 DEF ClusterInv, FitInv, MesosInv
<1>4. \A O : HeldOf(O)' = HeldOf(O)
  BY <1>2 DEF HeldOf, Waiting, InHand, Answered
<1>5. ProbersOK' /\ \A t \in TaskId : Held(t)' => Held(t)
  BY <1>1 DEF Held, Active, ProbersOK, ClusterInv, MesosInv
<1>6. failures' \in 0 .. MaxFailures
  BY <1>1, ClusterAssumption DEF ClusterInv, MesosInv, ClusterTypeOK
<1> QED
  BY <1>1, <1>2, <1>3, <1>4, <1>5, <1>6, KeptAssembled
    DEF ClusterInv, MesosInv, ClusterTypeOK

\* Agents and executors report what happened, or it goes unnoticed.
LEMMA ReportAssembled ==
  ASSUME ClusterInv, UNCHANGED <<Apart, driver>>,
         NEW es \in Seq(OtherEvent), mailbox' = mailbox \o es,
         UNCHANGED <<agents, offered, connected, reached>>,
         mounts' \in [Hosts -> SUBSET Mount],
         tasks' \in [TaskId -> AgentStates],
         \A t \in TaskId : t.service = Prober => tasks'[t] \in {"NONE", "STAGING"},
         orphans' \in SUBSET TaskId, \A t \in TaskId : Held(t)' => Held(t),
         ProbersOK',
         failures' \in 0 .. MaxFailures
  PROVE  ClusterInv'
<1>1. Inv' /\ FitInv' /\ \A O : HeldOf(O)' = HeldOf(O)
  BY SentInv DEF ClusterInv
<1>2. /\ driver' \in Seq(SparedCall) /\ connected' \in BOOLEAN
      /\ IF connected' THEN connected /\ offered' = offered ELSE offered' = {}
      /\ offered' \subseteq offered /\ reached' \subseteq Hosts
  BY DEF ClusterInv, MesosInv, ClusterTypeOK
<1> QED
  BY <1>1, <1>2, KeptAssembled

\* Nothing is sent.
LEMMA NothingSent ==
  ASSUME ClusterInv
  PROVE  <<>> \in Seq(OtherEvent) /\ mailbox = mailbox \o <<>>
BY ConcatEmptySeq DEF ClusterInv, Inv, TypeOK

LEMMA TasksEnd ==
  ASSUME ClusterInv, NEW t \in TaskId, NEW st \in {"LOST", "FINISHED"},
         Active(t), TaskEnds(t, st), reached' = reached,
         failures' \in 0 .. MaxFailures
  PROVE  ClusterInv'
<1> DEFINE es == <<Status(t, st, agents[t.host])>>
<1>1. /\ tasks' = [tasks EXCEPT ![t] = "NONE"] /\ mailbox' = mailbox \o es
      /\ UNCHANGED <<Apart, driver>>
      /\ UNCHANGED <<agents, offered, connected, reached>>
      /\ mounts' = mounts /\ orphans' = orphans
      /\ executors' = executors /\ probing' = probing
  BY DEF TaskEnds, Send, Apart, hostVars
<1>2. es \in Seq(OtherEvent)
  <2>1. agents[t.host] \in Slaves /\ st \in TaskStates
    BY DEF Held, ClusterInv, MesosInv, ClusterTypeOK, TaskStates
  <2>2. Status(t, st, agents[t.host]) \in Update
    BY <2>1, StatusTyped
  <2>3. Status(t, st, agents[t.host]) \in OtherEvent
    BY <2>2 DEF Update, OtherEvent
  <2> QED
    BY <2>3
<1> HIDE DEF es
<1>3. /\ tasks' \in [TaskId -> AgentStates]
      /\ \A u \in TaskId : u.service = Prober => tasks'[u] \in {"NONE", "STAGING"}
      /\ \A u \in TaskId : Held(u)' => Held(u)
      /\ ProbersOK'
  BY <1>1 DEF ClusterInv, MesosInv, ClusterTypeOK, AgentStates, Held, Active,
              ProbersOK
<1> QED
  BY <1>1, <1>2, <1>3, ReportAssembled DEF ClusterInv, MesosInv, ClusterTypeOK

LEMMA TasksMove ==
  ASSUME ClusterInv, NEW t \in TaskId,
         TaskStarts(t) \/ TaskKilled(t) \/ TaskFails(t) \/ OrphanEnds(t),
         reached' = reached
  PROVE  ClusterInv'
<1>1. failures \in 0 .. MaxFailures
  BY DEF ClusterInv, MesosInv, ClusterTypeOK
<1>2. CASE TaskKilled(t)
  <2>1. Active(t) /\ TaskEnds(t, "LOST") /\ failures' = failures
    BY <1>2 DEF TaskKilled, Active
  <2> QED
    BY <1>1, <2>1, TasksEnd
<1>3. CASE TaskFails(t)
  <2>1. PICK st \in Endings : TaskEnds(t, st)
    BY <1>3 DEF TaskFails
  <2>2. /\ Active(t) /\ st \in {"LOST", "FINISHED"}
        /\ failures < MaxFailures /\ failures' = failures + 1
    BY <1>3, ClusterAssumption DEF TaskFails, Active
  <2>3. failures' \in 0 .. MaxFailures
    BY <1>1, <2>2, ClusterAssumption
  <2> QED
    BY <2>1, <2>2, <2>3, TasksEnd
<1>4. CASE TaskStarts(t)
  <2> DEFINE st == IF t.service = Prober THEN "FINISHED" ELSE "RUNNING"
             es == <<Status(t, st, agents[t.host])>>
             next == IF t.service = Prober THEN "NONE" ELSE "RUNNING"
  <2>1. /\ tasks[t] = "STAGING"
        /\ tasks' = [tasks EXCEPT ![t] = next]
        /\ \/ executors' = executors
           \/ executors' = [g \in DOMAIN executors \cup {t.host} |->
                              IF g \in DOMAIN executors THEN executors[g]
                                                        ELSE mounts[g]]
        /\ mailbox' = mailbox \o es
        /\ UNCHANGED <<Apart, driver>>
        /\ UNCHANGED <<agents, offered, connected, reached>>
        /\ mounts' = mounts /\ probing' = probing /\ failures' = failures
        /\ orphans' = orphans
    BY <1>4 DEF TaskStarts, Send, Apart, hostVars
  <2>2. /\ Active(t) /\ t.host \in DOMAIN SlaveOf /\ agents[t.host] \in Slaves
        /\ mounts \in [Hosts -> SUBSET Mount] /\ t.host \in Hosts
    BY <2>1, ClusterAssumption
      DEF Held, Active, ClusterInv, MesosInv, ClusterTypeOK
  <2>3. es \in Seq(OtherEvent)
    <3>1. Status(t, st, agents[t.host]) \in Update
      BY <2>2, StatusTyped DEF TaskStates
    <3>2. Status(t, st, agents[t.host]) \in OtherEvent
      BY <3>1 DEF Update, OtherEvent
    <3> QED
      BY <3>2
  <2> HIDE DEF es
  <2>4. /\ tasks' \in [TaskId -> AgentStates]
        /\ \A u \in TaskId : u.service = Prober => tasks'[u] \in {"NONE", "STAGING"}
        /\ \A u \in TaskId : Held(u)' => Held(u)
    BY <2>1, <2>2
      DEF ClusterInv, MesosInv, ClusterTypeOK, AgentStates, Held, Active
  <2>5. ProbersOK'
    <3>1. ProbersOK
      BY DEF ClusterInv, MesosInv
    <3> QED
      BY <2>1, <2>2, <3>1 DEF ProbersOK
  <2> QED
    BY <1>1, <2>1, <2>3, <2>4, <2>5, ReportAssembled
      DEF ClusterInv, MesosInv, ClusterTypeOK
<1>5. CASE OrphanEnds(t)
  <2>1. /\ UNCHANGED <<Apart, driver>>
        /\ UNCHANGED <<agents, offered, connected, reached>>
        /\ mailbox' = mailbox /\ mounts' = mounts /\ tasks' = tasks
        /\ orphans' = orphans \ {t} /\ executors' = executors
        /\ probing' = probing /\ failures' = failures
    BY <1>5 DEF OrphanEnds, schedulerVars, Apart
  <2>2. ProbersOK' /\ \A u \in TaskId : Held(u)' => Held(u)
    BY <2>1 DEF Held, Active, ProbersOK, ClusterInv, MesosInv
  <2> QED
    BY <1>1, <2>1, <2>2, NothingSent, ReportAssembled
      DEF ClusterInv, MesosInv, ClusterTypeOK
<1> QED
  BY <1>2, <1>3, <1>4, <1>5

\* What the files of one file system mark changes; or nothing does.
LEMMA MarkedTyped ==
  ASSUME NEW ms \in SUBSET Mount, NEW m, NEW marks \in SUBSET Core
  PROVE  Marked(ms, m, marks) \in SUBSET Mount
BY DEF Mount, Marked

LEMMA HostsMove ==
  ASSUME ClusterInv, NEW h \in Hosts,
         ExecutorFails(h) \/ AnswerProbe(h) \/ LoseProbe(h) \/ Remount(h)
           \/ Mark(h),
         reached' = reached
  PROVE  ClusterInv'
<1>1. /\ UNCHANGED <<Apart, driver>> /\ UNCHANGED <<agents, offered, connected>>
      /\ tasks' = tasks /\ orphans' = orphans
  BY DEF ExecutorFails, AnswerProbe, LoseProbe, Remount, Mark, schedulerVars,
         Apart, hostVars
<1>2. /\ mounts \in [Hosts -> SUBSET Mount] /\ LaterMounts \subseteq SUBSET Mount
      /\ ProbersOK
  BY ClusterAssumption DEF ClusterInv, MesosInv, ClusterTypeOK
<1>3. \E es \in Seq(OtherEvent) : mailbox' = mailbox \o es
  <2>1. CASE AnswerProbe(h)
    <3> DEFINE m == [type |-> "frameworkMessage", slave |-> agents[h],
                     devices |-> FoundTypes(executors[h])
                                   \cup {c \in {Client} : h \in Mounted},
                     mount |-> h \in Mounted, parses |-> TRUE]
    <3>1. mailbox' = mailbox \o <<m>> /\ h \in probing
      BY <2>1 DEF AnswerProbe, Send
    <3>2. agents[h] \in Slaves /\ executors[h] \in SUBSET Mount
      BY <1>2, <3>1 DEF ClusterInv, MesosInv, ClusterTypeOK, ProbersOK
    <3>3. FoundTypes(executors[h]) \subseteq Core
      BY <3>2 DEF FoundTypes, Mount
    <3>4. m \in OtherEvent
      BY <3>2, <3>3 DEF OtherEvent, Event, DeviceTypes
    <3> HIDE DEF m
    <3>5. <<m>> \in Seq(OtherEvent)
      BY <3>4
    <3> QED
      BY <3>1, <3>5
  <2>2. CASE ~AnswerProbe(h)
    <3>1. mailbox' = mailbox
      BY <2>2 DEF ExecutorFails, LoseProbe, Remount, Mark, schedulerVars
    <3> QED
      BY <3>1, NothingSent
  <2> QED
    BY <2>1, <2>2
<1>4. mounts' \in [Hosts -> SUBSET Mount] /\ ProbersOK'
  <2>1. CASE ExecutorFails(h) \/ AnswerProbe(h) \/ LoseProbe(h)
    BY <1>2, <2>1
      DEF ExecutorFails, Without, AnswerProbe, LoseProbe, hostVars, ProbersOK
  <2>2. CASE Remount(h)
    <3>1. PICK ms, lost :
            /\ ms \in LaterMounts
            /\ mounts' = [mounts EXCEPT ![h] = ms]
            /\ executors' = [g \in DOMAIN executors |->
                               IF g = h THEN executors[g] \ lost
                                        ELSE executors[g]]
            /\ probing' = probing
      BY <2>2 DEF Remount
    <3> QED
      BY <1>2, <3>1 DEF ProbersOK
  <2>3. CASE Mark(h)
    <3>1. PICK m \in mounts[h], marks \in SUBSET Core :
            /\ mounts' = [mounts EXCEPT ![h] = Marked(@, m, marks)]
            /\ executors' = [g \in DOMAIN executors |->
                               IF g = h THEN Marked(executors[g], m, marks)
                                        ELSE executors[g]]
            /\ probing' = probing
      BY <2>3 DEF Mark
    <3>2. /\ Marked(mounts[h], m, marks) \in SUBSET Mount
          /\ \A g \in DOMAIN executors :
               Marked(executors[g], m, marks) \in SUBSET Mount
      BY <1>2, MarkedTyped DEF ProbersOK
    <3> QED
      BY <1>2, <3>1, <3>2 DEF ProbersOK
  <2> QED
    BY <2>1, <2>2, <2>3
<1>5. failures' \in 0 .. MaxFailures
  <2>1. failures' = failures \/ (failures < MaxLosses /\ failures' = failures + 1)
    BY DEF ExecutorFails, AnswerProbe, LoseProbe, Remount, Mark
  <2> QED
    BY <2>1, ClusterAssumption DEF ClusterInv, MesosInv, ClusterTypeOK
<1>6. \A t \in TaskId : Held(t)' => Held(t)
  BY <1>1 DEF Held, Active
<1>7. PICK es \in Seq(OtherEvent) : mailbox' = mailbox \o es
  BY <1>3
<1> QED
  BY <1>1, <1>4, <1>5, <1>6, <1>7, ReportAssembled
    DEF ClusterInv, MesosInv, ClusterTypeOK

LEMMA ResendKeeps ==
  ASSUME ClusterInv, ResendUpdate, reached' = reached
  PROVE  ClusterInv'
<1>1. PICK i \in DOMAIN mailbox : /\ mailbox[i].type = "statusUpdate"
                                  /\ mailbox' = mailbox \o <<mailbox[i]>>
  BY DEF ResendUpdate, Send
<1>2. /\ UNCHANGED <<Apart, driver>>
      /\ UNCHANGED <<agents, offered, connected, reached>>
      /\ mounts' = mounts /\ tasks' = tasks /\ orphans' = orphans
      /\ executors' = executors /\ probing' = probing
      /\ failures < MaxLosses /\ failures' = failures + 1
  BY DEF ResendUpdate, Apart, hostVars
<1>3. <<mailbox[i]>> \in Seq(OtherEvent)
  <2>1. mailbox \in Seq(Event)
    BY DEF ClusterInv, Inv, TypeOK
  <2>2. mailbox[i] \in OtherEvent
    BY <1>1, <2>1 DEF OtherEvent
  <2> QED
    BY <2>2
<1>4. failures' \in 0 .. MaxFailures
  BY <1>2, ClusterAssumption DEF ClusterInv, MesosInv, ClusterTypeOK
<1>5. ProbersOK' /\ \A t \in TaskId : Held(t)' => Held(t)
  BY <1>2 DEF Held, Active, ProbersOK, ClusterInv, MesosInv
<1> QED
  BY <1>1, <1>2, <1>3, <1>4, <1>5, ReportAssembled
    DEF ClusterInv, MesosInv, ClusterTypeOK

(***************************************************************************)
(* Mesos offers what the tasks on a host leave of it.                      *)
(***************************************************************************)
LEMMA MakeOfferKeeps ==
  ASSUME ClusterInv, NEW h \in Hosts, MakeOffer(h), reached' = reached
  PROVE  ClusterInv'
<1> DEFINE o == [host |-> h, slave |-> agents[h],
                 units |-> Capacity - Needs(ServicesAt(h)),
                 ports |-> PortsOf(Services) \ PortsOf(ServicesAt(h)),
                 public |-> TRUE]
           e == [type |-> "resourceOffers", offer |-> o]
<1>1. /\ h \in DOMAIN SlaveOf /\ h \notin offered /\ offered' = offered \cup {h}
      /\ connected /\ mailbox' = mailbox \o <<e>>
      /\ UNCHANGED <<Apart, driver>>
      /\ agents' = agents /\ mounts' = mounts /\ tasks' = tasks
      /\ orphans' = orphans
      /\ executors' = executors /\ probing' = probing
      /\ connected' = connected /\ failures' = failures
  BY DEF MakeOffer, Send, Apart, hostVars, ServicesAt
<1>2. /\ mailbox \in Seq(Event) /\ driver \in Seq(Call)
      /\ agents[h] \in Slaves
  BY <1>1 DEF ClusterInv, Inv, TypeOK, MesosInv, ClusterTypeOK
<1>3. /\ ServicesAt(h) \in SUBSET Services
      /\ Needs(ServicesAt(h)) \in Nat /\ Needs(ServicesAt(h)) <= Capacity
  <2>1. ServicesAt(h) \in SUBSET Services
    BY DEF ServicesAt, On, TaskId
  <2> QED
    BY <2>1, ServicesFinite, NeedsIsNat DEF ClusterInv, MesosInv
<1>4. /\ o \in Offer /\ o.host = h /\ o.slave = agents[h]
      /\ o.units = Capacity - Needs(ServicesAt(h))
      /\ o.ports \cap PortsOf(ServicesAt(h)) = {}
  <2>1. Capacity - Needs(ServicesAt(h)) \in Nat
    BY <1>3, ClusterAssumption
  <2>2. PortsOf(Services) \in SUBSET Nat
    BY SchedulerAssumption DEF PortsOf
  <2> QED
    BY <1>2, <2>1, <2>2 DEF Offer
<1> HIDE DEF o
<1>5. e \in Event /\ \A O : e \in OfferEvents(O) <=> o \in O
  BY <1>4 DEF Event, OfferEvents
<1> HIDE DEF e
<1>6. mailbox' = Append(mailbox, e) /\ mailbox' \in Seq(Event)
  BY <1>1, <1>2, <1>5, AppendIsConcat, AppendProperties
<1>7. Inv'
  BY <1>1, <1>2, <1>6, QueuesInv DEF ClusterInv
<1>8. FitInv'
  BY <1>1 DEF ClusterInv, FitInv, Apart
<1>9. ASSUME NEW O PROVE HeldOf(O)' = HeldOf(O) + One(o \in O)
  <2>1. Waiting(O)' = Waiting(O) + One(o \in O)
    BY <1>2, <1>5, <1>6, CountAppend DEF Waiting
  <2>2. InHand(O)' = InHand(O) /\ Answered(O)' = Answered(O)
    BY <1>1 DEF InHand, Answered, Apart
  <2> QED
    BY <2>1, <2>2, HeldNat DEF HeldOf, One, ClusterInv
<1>10. /\ Strays' = Strays /\ Misfits' = Misfits
       /\ \A g : OffersOf(g)' = OffersOf(g) /\ ServicesAt(g)' = ServicesAt(g)
  <2>1. \A g : ServicesAt(g)' = ServicesAt(g)
    BY <1>1 DEF ServicesAt, On, Held, Active
  <2> QED
    BY <1>1, <2>1 DEF Strays, Misfits, OffersOf, ValidOffer
<1>11. HeldOf(Strays)' = 0
  <2>1. o \notin Strays
    BY <1>1, <1>4 DEF Strays
  <2> QED
    BY <1>9, <1>10, <2>1 DEF ClusterInv, OffersInv, One
<1>12. HeldOf(Misfits)' = 0
  <2>1. o \notin Misfits
    <3>1. ~ (Needs(ServicesAt(o.host)) + o.units > Capacity)
      BY <1>3, <1>4, ClusterAssumption
    <3> QED
      BY <1>4, <3>1 DEF Misfits
  <2> QED
    BY <1>9, <1>10, <2>1 DEF ClusterInv, OffersInv, One
<1>13. ASSUME NEW g \in DOMAIN SlaveOf
       PROVE  HeldOf(OffersOf(g))' = One(g \in offered')
  <2>1. HeldOf(OffersOf(g)) = One(g \in offered)
    BY <1>1 DEF ClusterInv, OffersInv
  <2>2. o \in OffersOf(g) <=> g = h
    BY <1>4 DEF OffersOf, ValidOffer
  <2> QED
    BY <1>1, <1>9, <1>10, <2>1, <2>2 DEF One
<1>14. MesosInv'
  <2>1. driver' = driver
    BY <1>1
  <2> QED
    BY <1>1, <1>10, <2>1, ClusterAssumption
      DEF ClusterInv, MesosInv, ClusterTypeOK, ProbersOK, Held, Active
<1> QED
  BY <1>7, <1>8, <1>11, <1>12, <1>13, <1>14 DEF ClusterInv, OffersInv

-----------------------------------------------------------------------------
(***************************************************************************)
(* Mesos acts on the scheduler's calls.                                    *)
(***************************************************************************)
\* One update at most about each task: a list to send.
LEMMA AnswersListed ==
  ASSUME NEW f \in [TaskId -> Update], NEW S \in SUBSET {f[t] : t \in TaskId}
  PROVE  IsFiniteSet(S) /\ SetToSeq(S) \in Seq(OtherEvent)
<1> DEFINE T == {f[t] : t \in TaskId}
<1>1. f \in Surjection(TaskId, T)
  BY DEF Surjection
<1>2. IsFiniteSet(T)
  BY <1>1, TaskIdsFinite, FS_Surjection
<1>3. IsFiniteSet(S) /\ S \in SUBSET Update
  BY <1>2, FS_Subset
<1> QED
  BY <1>3, UpdatesListed

LEMMA LostListed ==
  ASSUME NEW T \in SUBSET TaskId, NEW slave \in Slaves \cup {NoSlave}
  PROVE  SetToSeq({Status(t, "LOST", slave) : t \in T}) \in Seq(OtherEvent)
<1> DEFINE f == [t \in TaskId |-> Status(t, "LOST", slave)]
<1>1. f \in [TaskId -> Update]
  BY StatusTyped DEF TaskStates
<1>2. {Status(t, "LOST", slave) : t \in T} \in SUBSET {f[t] : t \in TaskId}
  OBVIOUS
<1> HIDE DEF f
<1> QED
  BY <1>1, <1>2, AnswersListed

LEMMA ReconcileListed ==
  ASSUME ClusterInv, NEW T \in SUBSET TaskId
  PROVE  SetToSeq(
           {Status(t, "LOST", NoSlave) : t \in {u \in T : ~Active(u)}}
             \cup {Status(t, IF tasks[t] = "STAGING" THEN "STAGING"
                             ELSE "RUNNING", agents[t.host]) :
                     t \in {u \in T : Active(u)}}) \in Seq(OtherEvent)
<1> DEFINE st(t) == IF tasks[t] = "STAGING" THEN "STAGING" ELSE "RUNNING"
           f == [t \in TaskId |-> IF Active(t) THEN Status(t, st(t), agents[t.host])
                                  ELSE Status(t, "LOST", NoSlave)]
           A == {Status(t, "LOST", NoSlave) : t \in {u \in T : ~Active(u)}}
           B == {Status(t, st(t), agents[t.host]) : t \in {u \in T : Active(u)}}
<1>1. f \in [TaskId -> Update]
  <2>1. ASSUME NEW t \in TaskId, Active(t)
        PROVE  agents[t.host] \in Slaves /\ st(t) \in TaskStates
    BY <2>1 DEF Held, ClusterInv, MesosInv, ClusterTypeOK, TaskStates
  <2>2. \A t \in TaskId : Active(t) => Status(t, st(t), agents[t.host]) \in Update
    BY <2>1, StatusTyped
  <2>3. \A t \in TaskId : Status(t, "LOST", NoSlave) \in Update
    BY StatusTyped DEF TaskStates
  <2> HIDE DEF st
  <2> QED
    BY <2>2, <2>3
<1>2. A \in SUBSET {f[t] : t \in TaskId} /\ B \in SUBSET {f[t] : t \in TaskId}
  OBVIOUS
<1> HIDE DEF f, A, B
<1>3. A \cup B \in SUBSET {f[t] : t \in TaskId}
  BY <1>2
<1>4. SetToSeq(A \cup B) \in Seq(OtherEvent)
  BY <1>1, <1>3, AnswersListed
<1> QED
  BY <1>4 DEF A, B

\* Calls that are no answers to an offer.
LEMMA OtherCallsKeep ==
  ASSUME ClusterInv, TakeKill \/ TakeReconcile \/ TakeProbe, reached' = reached
  PROVE  ClusterInv'
<1> DEFINE c == Head(driver)
<1>1. /\ driver # <<>> /\ driver' = Tail(driver) /\ UNCHANGED Apart
      /\ UNCHANGED <<agents, mounts, offered, connected, failures>>
      /\ orphans' = orphans /\ executors' = executors
      /\ c.call \notin {"declineOffer", "launchTasks"}
  BY DEF TakeKill, TakeReconcile, TakeProbe, NextCall, Apart, hostVars
<1>2. c \in SparedCall /\ c \in Call
  BY <1>1, HeadTailProperties DEF ClusterInv, Inv, TypeOK, MesosInv
<1>3. \E es \in Seq(OtherEvent) : mailbox' = mailbox \o es
  <2>1. CASE TakeKill
    <3> DEFINE T == {u \in c.tasks : ~Active(u)}
               es == SetToSeq({Status(t, "LOST", NoSlave) : t \in T})
    <3>1. mailbox' = mailbox \o es
      BY <2>1 DEF TakeKill, Send
    <3>2. T \in SUBSET TaskId
      BY <1>2, <2>1 DEF Call, TakeKill, NextCall
    <3> HIDE DEF T, c
    <3>3. es \in Seq(OtherEvent)
      BY <3>2, LostListed
    <3> HIDE DEF es
    <3> QED
      BY <3>1, <3>3
  <2>2. CASE TakeReconcile
    <3> DEFINE T == IF c.tasks = {} THEN {t \in TaskId : Active(t)} ELSE c.tasks
               es == SetToSeq(
                 {Status(t, "LOST", NoSlave) : t \in {u \in T : ~Active(u)}}
                   \cup {Status(t, IF tasks[t] = "STAGING" THEN "STAGING"
                                   ELSE "RUNNING", agents[t.host]) :
                           t \in {u \in T : Active(u)}})
    <3>1. mailbox' = mailbox \o es
      BY <2>2 DEF TakeReconcile, Send
    <3>2. T \in SUBSET TaskId
      BY <1>2, <2>2 DEF Call, TakeReconcile, NextCall
    <3> HIDE DEF T, c
    <3>3. es \in Seq(OtherEvent)
      BY <3>2, ReconcileListed
    <3> HIDE DEF es
    <3> QED
      BY <3>1, <3>3
  <2>3. CASE TakeProbe
    BY <2>3, NothingSent DEF TakeProbe
  <2> QED
    BY <2>1, <2>2, <2>3
<1>4. /\ Inv' /\ FitInv' /\ driver' \in Seq(SparedCall)
      /\ \A O : HeldOf(O)' = HeldOf(O)
  <2>1. \A O : c \notin Answers(O)
    BY <1>1 DEF Answers
  <2>2. \A O : HeldOf(O) \in Nat
    BY HeldNat DEF ClusterInv
  <2>3. PICK es \in Seq(OtherEvent) : mailbox' = mailbox \o es
    BY <1>3
  <2>4. /\ Inv /\ FitInv /\ driver \in Seq(SparedCall)
    BY DEF ClusterInv, MesosInv
  <2>5. /\ Inv' /\ FitInv' /\ driver' \in Seq(SparedCall)
        /\ \A O : HeldOf(O)' = HeldOf(O) - One(c \in Answers(O))
    BY <1>1, <2>3, <2>4, TakenInv
  <2> QED
    BY <2>1, <2>2, <2>5 DEF One
<1>5. /\ tasks' \in [TaskId -> AgentStates]
      /\ \A t \in TaskId : t.service = Prober => tasks'[t] \in {"NONE", "STAGING"}
      /\ \A t \in TaskId : Held(t)' => Held(t)
  <2>1. CASE tasks' = tasks
    BY <1>1, <2>1 DEF ClusterInv, MesosInv, ClusterTypeOK, Held, Active
  <2>2. CASE TakeKill
    <3>1. /\ tasks' = [t \in TaskId |-> IF t \in c.tasks /\ Active(t)
                                        THEN "KILLING" ELSE tasks[t]]
          /\ c.call = "killTask"
      BY <2>2 DEF TakeKill, NextCall
    <3>2. \A t \in c.tasks : t.service # Prober
      BY <1>2, <3>1 DEF SparedCall
    <3> QED
      BY <1>1, <3>1, <3>2
        DEF ClusterInv, MesosInv, ClusterTypeOK, Held, Active, AgentStates
  <2> QED
    BY <2>1, <2>2 DEF TakeReconcile, TakeProbe
<1>6. ProbersOK'
  BY <1>1
    DEF TakeKill, TakeReconcile, TakeProbe, ClusterInv, MesosInv, ProbersOK
<1> QED
  BY <1>1, <1>4, <1>5, <1>6, KeptAssembled DEF ClusterInv, MesosInv, ClusterTypeOK

\* A call that answers an offer of O is one of those counted.
LEMMA AnswerHeld ==
  ASSUME Inv, driver # <<>>, NEW O, Head(driver) \in Answers(O)
  PROVE  HeldOf(O) \in Nat \ {0}
<1>1. driver \in Seq(Call) /\ 1 \in DOMAIN driver /\ driver[1] = Head(driver)
  <2>1. driver \in Seq(Call)
    BY DEF Inv, TypeOK
  <2>2. Len(driver) \in Nat \ {0} /\ DOMAIN driver = 1 .. Len(driver)
    BY <2>1, LenProperties, EmptySeq
  <2> QED
    BY <2>1, <2>2, HeadTailProperties
<1>2. ~None(O)
  BY <1>1 DEF None
<1> QED
  BY <1>2, NoneHeld, HeldNat

(***************************************************************************)
(* An answered offer was one of a host that has an agent, within what is   *)
(* free there, and the only one of its agent.                              *)
(***************************************************************************)
LEMMA AnswerTaken ==
  ASSUME ClusterInv, connected, driver # <<>>, driver' = Tail(driver),
         UNCHANGED Apart, agents' = agents,
         NEW es \in Seq(OtherEvent), mailbox' = mailbox \o es,
         NEW o, o = Head(driver).offer,
         Head(driver).call \in {"declineOffer", "launchTasks"},
         offered' = IF ValidOffer(o) THEN offered \ {o.host} ELSE offered
  PROVE  /\ Inv' /\ FitInv' /\ driver' \in Seq(SparedCall)
         /\ Head(driver) \in FittingCall
         /\ o \in Offer /\ o.host \in DOMAIN SlaveOf /\ o \notin Misfits
         /\ HeldOf(Strays)' = 0
         /\ HeldOf(Misfits)  = 0
         /\ \A O : HeldOf(O)' = HeldOf(O) - One(o \in O)
         /\ \A g \in DOMAIN SlaveOf :
              HeldOf(OffersOf(g))' = One(g \in offered')
<1>1. /\ Inv /\ FitInv /\ driver \in Seq(SparedCall)
      /\ HeldOf(Strays) = 0 /\ HeldOf(Misfits) = 0
      /\ \A g \in DOMAIN SlaveOf : HeldOf(OffersOf(g)) = One(g \in offered)
  BY DEF ClusterInv, MesosInv, OffersInv
<1>2. /\ Inv' /\ FitInv' /\ driver' \in Seq(SparedCall)
      /\ Head(driver) \in FittingCall
      /\ \A O : HeldOf(O)' = HeldOf(O) - One(Head(driver) \in Answers(O))
  BY <1>1, TakenInv
<1>3. o \in Offer /\ \A O : Head(driver) \in Answers(O) <=> o \in O
  BY <1>2 DEF FittingCall, Call, Answers
<1>4. \A O : o \in O => HeldOf(O) # 0
  BY <1>1, <1>3, AnswerHeld
<1>5. o \notin Strays /\ o \notin Misfits
  BY <1>1, <1>4
<1>6. o.host \in DOMAIN SlaveOf
  BY <1>3, <1>5 DEF Strays
<1>7. \A O : HeldOf(O)' = HeldOf(O) - One(o \in O)
  BY <1>2, <1>3
<1>8. HeldOf(Strays)' = 0
  <2>1. Strays' = Strays
    BY DEF Strays
  <2> QED
    BY <1>1, <1>5, <1>7, <2>1 DEF One
<1>9. ASSUME NEW g \in DOMAIN SlaveOf
      PROVE  HeldOf(OffersOf(g))' = One(g \in offered')
  <2>1. OffersOf(g)' = OffersOf(g)
    BY DEF OffersOf, ValidOffer
  <2>2. HeldOf(OffersOf(g))' = HeldOf(OffersOf(g)) - One(o \in OffersOf(g))
    BY <1>7, <2>1
  <2>3. HeldOf(OffersOf(g)) = One(g \in offered)
    BY <1>1
  <2>4. o \in OffersOf(g) <=> ValidOffer(o) /\ g = o.host
    BY <1>3 DEF OffersOf
  <2>5. o \in OffersOf(g) => g \in offered
    BY <1>4, <2>3 DEF One
  <2> QED
    BY <2>2, <2>3, <2>4, <2>5 DEF One
<1> QED
  BY <1>1, <1>2, <1>3, <1>5, <1>6, <1>7, <1>8, <1>9

LEMMA DeclineKeeps ==
  ASSUME ClusterInv, TakeDecline, reached' = reached
  PROVE  ClusterInv'
<1>1. /\ connected /\ driver # <<>> /\ driver' = Tail(driver) /\ UNCHANGED Apart
      /\ UNCHANGED <<agents, mounts, orphans, tasks, executors, probing,
                     connected, failures>>
      /\ Head(driver).call = "declineOffer" /\ mailbox' = mailbox
  BY DEF TakeDecline, NextCall, Apart, hostVars
<1>2. PICK o : /\ o = Head(driver).offer
               /\ offered' = IF ValidOffer(o) THEN offered \ {o.host} ELSE offered
  BY DEF TakeDecline
<1>3. /\ Inv' /\ FitInv' /\ driver' \in Seq(SparedCall)
      /\ o \notin Misfits
      /\ HeldOf(Strays)' = 0
      /\ HeldOf(Misfits) = 0
      /\ \A O : HeldOf(O)' = HeldOf(O) - One(o \in O)
      /\ \A g \in DOMAIN SlaveOf : HeldOf(OffersOf(g))' = One(g \in offered')
  <2>1. <<>> \in Seq(OtherEvent) /\ mailbox' = mailbox \o <<>>
    BY <1>1, NothingSent
  <2> QED
    BY <1>1, <1>2, <2>1, AnswerTaken
<1>4. Misfits' = Misfits /\ \A g : ServicesAt(g)' = ServicesAt(g)
  BY <1>1 DEF Misfits, ValidOffer, ServicesAt, On, Held, Active
<1>5. HeldOf(Misfits)' = 0
  BY <1>3, <1>4 DEF One
<1>6. offered' \subseteq offered
  BY <1>2
<1>7. MesosInv'
  BY <1>1, <1>3, <1>4, <1>6
    DEF ClusterInv, MesosInv, ClusterTypeOK, ProbersOK, Held, Active
<1> QED
  BY <1>3, <1>5, <1>7 DEF ClusterInv, OffersInv

(***************************************************************************)
(* The tasks launched take what their offer left free; it was the only one *)
(* of the host, so none is held now that would not know of them.           *)
(***************************************************************************)
LEMMA LaunchKeeps ==
  ASSUME ClusterInv, TakeLaunch, reached' = reached
  PROVE  ClusterInv'
<1> DEFINE c == Head(driver)
<1>1. /\ connected /\ driver # <<>> /\ driver' = Tail(driver) /\ UNCHANGED Apart
      /\ UNCHANGED <<agents, mounts, orphans, executors, probing, connected,
                     failures>>
      /\ c.call = "launchTasks"
  BY DEF TakeLaunch, NextCall, Apart, hostVars
<1>2. PICK o, ids, new :
        /\ o = c.offer
        /\ ids = {[service |-> k.service, host |-> o.host] : k \in c.tasks}
        /\ new = {t \in ids : ValidOffer(o) /\ ~Active(t)}
        /\ offered' = IF ValidOffer(o) THEN offered \ {o.host} ELSE offered
        /\ tasks' = [t \in TaskId |-> IF t \in new THEN "STAGING" ELSE tasks[t]]
        /\ mailbox' = mailbox
             \o SetToSeq({Status(t, "LOST", o.slave) : t \in ids \ new})
  BY DEF TakeLaunch, Send
<1>3. c \in Call /\ driver \in Seq(Call)
  BY <1>1, HeadTailProperties DEF ClusterInv, Inv, TypeOK
<1>4. o \in Offer /\ o.host \in Hosts /\ o.slave \in Slaves
      /\ c.tasks \in SUBSET Task
  BY <1>1, <1>2, <1>3 DEF Call, Offer
<1>5. ids \in SUBSET TaskId
  <2>1. \A k \in c.tasks : k.service \in Services
    BY <1>4 DEF Task
  <2>2. ids = {[service |-> k.service, host |-> o.host] : k \in c.tasks}
    BY <1>2
  <2> QED
    BY <1>4, <2>1, <2>2 DEF TaskId
<1> DEFINE es == SetToSeq({Status(t, "LOST", o.slave) : t \in ids \ new})
<1>6. es \in Seq(OtherEvent) /\ mailbox' = mailbox \o es
  <2> DEFINE T == ids \ new
  <2>1. T \in SUBSET TaskId /\ o.slave \in Slaves \cup {NoSlave}
    BY <1>4, <1>5
  <2> HIDE DEF T
  <2>2. SetToSeq({Status(t, "LOST", o.slave) : t \in T}) \in Seq(OtherEvent)
    BY <2>1, LostListed
  <2> QED
    BY <1>2, <2>2 DEF T
<1> HIDE DEF es
<1>7. /\ Inv' /\ FitInv' /\ driver' \in Seq(SparedCall)
      /\ c \in FittingCall
      /\ o.host \in DOMAIN SlaveOf /\ o \notin Misfits
      /\ HeldOf(Strays)' = 0
      /\ HeldOf(Misfits) = 0
      /\ \A O : HeldOf(O)' = HeldOf(O) - One(o \in O)
      /\ \A g \in DOMAIN SlaveOf : HeldOf(OffersOf(g))' = One(g \in offered')
  BY <1>1, <1>2, <1>6, AnswerTaken
<1>8. TasksFit(o, c.tasks)
  BY <1>1, <1>2, <1>7 DEF FittingCall
<1>9. /\ \A t \in TaskId : Held(t)' => Held(t) \/ t \in new
      /\ tasks' \in [TaskId -> AgentStates]
      /\ \A t \in TaskId : t.service = Prober => tasks'[t] \in {"NONE", "STAGING"}
  BY <1>1, <1>2
    DEF Held, Active, ClusterInv, MesosInv, ClusterTypeOK, AgentStates
<1>10. \A t \in new : /\ ValidOffer(o) /\ t.host = o.host
                      /\ t.service \in ServicesOf(c.tasks)
  <2>1. \A t \in new : t \in ids /\ ValidOffer(o)
    BY <1>2
  <2>2. ids = {[service |-> k.service, host |-> o.host] : k \in c.tasks}
    BY <1>2
  <2>3. \A t \in ids : t.host = o.host /\ t.service \in ServicesOf(c.tasks)
    BY <2>2 DEF ServicesOf
  <2> QED
    BY <2>1, <2>3
<1>11. ASSUME NEW g, g # o.host \/ ~ValidOffer(o)
       PROVE  ServicesAt(g)' \subseteq ServicesAt(g)
  BY <1>9, <1>10, <1>11 DEF ServicesAt, On
<1>12. ServicesAt(o.host)' \subseteq ServicesAt(o.host) \cup ServicesOf(c.tasks)
  BY <1>9, <1>10 DEF ServicesAt, On
<1>13. \A g : ServicesAt(g) \in SUBSET Services /\ IsFiniteSet(ServicesAt(g))
  <2>1. \A g : ServicesAt(g) \in SUBSET Services
    BY DEF ServicesAt, On, TaskId
  <2> QED
    BY <2>1, ServicesFinite
<1>14. ASSUME NEW g, g # o.host \/ ~ValidOffer(o)
       PROVE  /\ Needs(ServicesAt(g)') <= Needs(ServicesAt(g))
              /\ Needs(ServicesAt(g)') \in Nat /\ Needs(ServicesAt(g)) \in Nat
              /\ PortsOf(ServicesAt(g)') \subseteq PortsOf(ServicesAt(g))
  <2>1. ServicesAt(g)' \in SUBSET ServicesAt(g) /\ ServicesAt(g)' \in SUBSET Services
    BY <1>11, <1>13, <1>14
  <2>2. IsFiniteSet(ServicesAt(g)')
    BY <2>1, ServicesFinite
  <2> QED
    BY <1>13, <2>1, <2>2, NeedsPart, NeedsIsNat DEF PortsOf
<1>15. ASSUME ValidOffer(o)
       PROVE  Needs(ServicesAt(o.host)') <= Capacity
  <2> DEFINE A == ServicesAt(o.host)
             S == ServicesOf(c.tasks)
  <2>1. S \in SUBSET Services /\ IsFiniteSet(S) /\ Needs(S) <= o.units
    BY <1>8 DEF TasksFit, SetFits
  <2>2. A \in SUBSET Services /\ IsFiniteSet(A)
    BY <1>13
  <2>3. ~ (Needs(A) + o.units > Capacity)
    BY <1>4, <1>7, <1>15 DEF Misfits
  <2>4. A \cup S \in SUBSET Services /\ IsFiniteSet(A \cup S)
    BY <2>1, <2>2, FS_Union
  <2>5. Needs(A \cup S) <= Needs(A) + Needs(S)
    BY <2>1, <2>2, NeedsUnion
  <2>6. Needs(ServicesAt(o.host)') <= Needs(A \cup S)
    BY <1>12, <2>4, NeedsPart
  <2>7. Needs(A) \in Nat /\ Needs(S) \in Nat /\ Needs(A \cup S) \in Nat
    BY <2>1, <2>2, <2>4, NeedsIsNat
  <2>8. ServicesAt(o.host)' \in SUBSET Services
    BY <1>12, <2>4
  <2>9. Needs(ServicesAt(o.host)') \in Nat
    BY <2>8, ServicesFinite, NeedsIsNat
  <2> HIDE DEF A, S
  <2> QED
    BY <1>4, <2>1, <2>3, <2>5, <2>6, <2>7, <2>9, ClusterAssumption DEF Offer
<1>16. \A g \in Hosts : Needs(ServicesAt(g))' <= Capacity
  <2>1. \A g \in Hosts : Needs(ServicesAt(g)) <= Capacity /\ Capacity \in Nat
    BY ClusterAssumption DEF ClusterInv, MesosInv
  <2> QED
    BY <1>14, <1>15, <2>1
<1>17. HeldOf(Misfits)' = 0
  <2>1. PICK M : M = Misfits'
    OBVIOUS
  <2>2. \A p \in Offer : p.units \in Nat /\ (ValidOffer(p)' <=> ValidOffer(p))
    BY <1>1 DEF Offer, ValidOffer
  <2>3. CASE ~ValidOffer(o)
    <3>1. M \subseteq Misfits
      BY <1>14, <2>1, <2>2, <2>3, ClusterAssumption DEF Misfits
    <3>2. HeldOf(M) = 0
      BY <1>7, <3>1, NoneCovered DEF ClusterInv
    <3>3. o \notin M
      BY <1>7, <3>1
    <3> QED
      BY <1>7, <2>1, <3>2, <3>3 DEF One
  <2>4. CASE ValidOffer(o)
    <3>1. PICK P : P = OffersOf(o.host)'
      OBVIOUS
    <3>2. PICK N : N = Misfits
      OBVIOUS
    <3>3. HeldOf(P)' = 0
      BY <1>2, <1>7, <2>4, <3>1 DEF One
    <3>4. HeldOf(N)' = 0
      BY <1>7, <3>2 DEF One
    <3>5. M \subseteq N \cup P
      <4>1. ASSUME NEW p \in M, p.host # o.host
            PROVE  p \in N
        BY <1>14, <2>1, <2>2, <3>2, <4>1, ClusterAssumption DEF Misfits
      <4>2. ASSUME NEW p \in M, p.host = o.host
            PROVE  p \in P
        BY <2>1, <3>1, <4>2 DEF Misfits, OffersOf
      <4> QED
        BY <4>1, <4>2
    <3>6. (Inv => \A A, B, O :
             HeldOf(A) = 0 /\ HeldOf(B) = 0 /\ O \subseteq A \cup B
               => HeldOf(O) = 0)'
      BY NoneCovered, PTL
    <3> QED
      BY <1>7, <2>1, <3>3, <3>4, <3>5, <3>6
  <2> QED
    BY <2>3, <2>4
<1>18. \A t \in TaskId : Held(t)' => t.host \in DOMAIN SlaveOf
  BY <1>7, <1>9, <1>10 DEF ClusterInv, MesosInv
<1>19. offered' \subseteq offered
  BY <1>2
<1>20. MesosInv'
  BY <1>1, <1>7, <1>9, <1>16, <1>18, <1>19
    DEF ClusterInv, MesosInv, ClusterTypeOK, ProbersOK
<1> QED
  BY <1>7, <1>17, <1>20 DEF ClusterInv, OffersInv

\* Without a connection calls are lost, with the offers they answer.
\* Without a connection, the offers under way only grow fewer.
LEMMA DropHolds ==
  ASSUME ClusterInv, DropCall
  PROVE  /\ Inv' /\ FitInv' /\ driver' \in Seq(SparedCall)
         /\ \A O : HeldOf(O)' = HeldOf(O) - One(Head(driver) \in Answers(O))
<1> DEFINE c == Head(driver)
           lost == {Status([service |-> k.service, host |-> c.offer.host],
                           "LOST", c.offer.slave) : k \in c.tasks}
<1>1. /\ ~connected /\ driver # <<>> /\ driver' = Tail(driver)
      /\ UNCHANGED <<Apart, agents, mounts, orphans, tasks, executors, offered,
                     probing, connected, failures>>
      /\ mailbox' = mailbox \o (IF c.call = "launchTasks" THEN SetToSeq(lost)
                                ELSE <<>>)
  BY DEF DropCall, Apart, mesosVars, hostVars
<1>2. c \in Call
  BY <1>1, HeadTailProperties DEF ClusterInv, Inv, TypeOK
<1>3. \E es \in Seq(OtherEvent) : mailbox' = mailbox \o es
  <2>1. CASE c.call = "launchTasks"
    <3> DEFINE T == {[service |-> k.service, host |-> c.offer.host] :
                       k \in c.tasks}
    <3>1. /\ T \in SUBSET TaskId /\ c.offer.slave \in Slaves \cup {NoSlave}
          /\ lost = {Status(t, "LOST", c.offer.slave) : t \in T}
      <4>1. c.offer \in Offer /\ c.tasks \in SUBSET Task
        BY <1>2, <2>1 DEF Call
      <4>2. c.offer.host \in Hosts /\ c.offer.slave \in Slaves
        BY <4>1 DEF Offer
      <4>3. T \in SUBSET TaskId
        BY <4>1, <4>2 DEF Task, TaskId
      <4>4. lost = {Status(t, "LOST", c.offer.slave) : t \in T}
        OBVIOUS
      <4> QED
        BY <4>2, <4>3, <4>4
    <3> HIDE DEF T, lost
    <3>2. SetToSeq({Status(t, "LOST", c.offer.slave) : t \in T})
            \in Seq(OtherEvent)
      BY <3>1, LostListed
    <3> QED
      BY <1>1, <2>1, <3>1, <3>2
  <2>2. CASE c.call # "launchTasks"
    <3>1. mailbox' = mailbox \o <<>>
      BY <1>1, <2>2
    <3> QED
      BY <3>1, NothingSent
  <2> QED
    BY <2>1, <2>2
<1>4. PICK es \in Seq(OtherEvent) : mailbox' = mailbox \o es
  BY <1>3
<1>5. Inv /\ FitInv /\ driver \in Seq(SparedCall)
  BY DEF ClusterInv, MesosInv
<1> HIDE DEF c, lost
<1> QED
  BY <1>1, <1>4, <1>5, TakenInv

LEMMA DropKeeps ==
  ASSUME ClusterInv, DropCall, reached' = reached
  PROVE  ClusterInv'
<1> DEFINE c == Head(driver)
<1>1. /\ driver # <<>> /\ ~connected
      /\ UNCHANGED <<Apart, agents, mounts, orphans, tasks, executors, offered,
                     probing, connected, failures>>
  BY DEF DropCall, Apart, mesosVars, hostVars
<1> HIDE DEF c
<1>2. /\ Inv' /\ FitInv' /\ driver' \in Seq(SparedCall)
      /\ \A O : HeldOf(O)' = HeldOf(O) - One(c \in Answers(O))
  BY DropHolds DEF c
<1>3. \A O : HeldOf(O) = 0 => HeldOf(O)' = 0
  <2>1. \A O : c \in Answers(O) => HeldOf(O) # 0
    BY <1>1, AnswerHeld DEF ClusterInv, c
  <2> QED
    BY <1>2, <2>1 DEF One
<1>4. Strays' = Strays /\ Misfits' = Misfits /\ \A g : ServicesAt(g)' = ServicesAt(g)
  BY <1>1 DEF Strays, Misfits, ValidOffer, ServicesAt, On, Held, Active
<1>5. OffersInv'
  BY <1>1, <1>3, <1>4 DEF OffersInv, ClusterInv
<1>6. MesosInv'
  BY <1>1, <1>2, <1>4
    DEF ClusterInv, MesosInv, ClusterTypeOK, ProbersOK, Held, Active
<1> QED
  BY <1>2, <1>5, <1>6 DEF ClusterInv

(***************************************************************************)
(* The new agent of a host has made no offer: all that are held are of the *)
(* one that is gone.                                                       *)
(***************************************************************************)
LEMMA AgentReturnsKeeps ==
  ASSUME ClusterInv, NEW h \in Hosts, AgentReturns(h), reached' = reached
  PROVE  ClusterInv'
<1> DEFINE T == {u \in On(h) : Active(u)}
<1>1. /\ h \in DOMAIN NewSlaveOf /\ agents[h] # NewSlaveOf[h]
      /\ agents' = [agents EXCEPT ![h] = NewSlaveOf[h]]
      /\ tasks' = [t \in TaskId |-> IF t.host = h THEN "NONE" ELSE tasks[t]]
      /\ orphans' = {t \in orphans : t.host # h}
      /\ executors' = Without(h) /\ offered' = offered \ {h}
      /\ probing' = probing \ {h}
      /\ failures < MaxLosses /\ failures' = failures + 1
      /\ UNCHANGED <<Apart, driver, mounts, connected>>
      /\ \/ mailbox' = mailbox
         \/ mailbox' = mailbox \o SetToSeq({Status(t, "LOST", agents[h]) : t \in T})
  BY DEF AgentReturns, Send, Apart
<1>2. /\ h \in DOMAIN SlaveOf /\ agents \in [DOMAIN SlaveOf -> Slaves]
      /\ agents[h] = SlaveOf[h] /\ NewSlaveOf[h] \in Slaves
      /\ NewSlaveOf[h] # SlaveOf[h]
  BY <1>1, ClusterAssumption DEF ClusterInv, MesosInv, ClusterTypeOK
<1>3. \E es \in Seq(OtherEvent) : mailbox' = mailbox \o es
  <2>1. T \in SUBSET TaskId /\ agents[h] \in Slaves \cup {NoSlave}
    BY <1>2 DEF On
  <2> HIDE DEF T
  <2>2. SetToSeq({Status(t, "LOST", agents[h]) : t \in T}) \in Seq(OtherEvent)
    BY <2>1, LostListed
  <2> QED
    BY <1>1, <2>2, NothingSent
<1> HIDE DEF T
<1>4. Inv' /\ FitInv' /\ \A O : HeldOf(O)' = HeldOf(O)
  <2>1. PICK es \in Seq(OtherEvent) : mailbox' = mailbox \o es
    BY <1>3
  <2> QED
    BY <1>1, <2>1, SentInv DEF ClusterInv
<1>5. /\ \A g : ServicesAt(g)' \subseteq ServicesAt(g)
      /\ \A g : g # h => ServicesAt(g)' = ServicesAt(g)
      /\ ServicesAt(h)' = {}
      /\ \A g : ServicesAt(g) \in SUBSET Services
  BY <1>1 DEF ServicesAt, On, Held, Active, TaskId
<1>6. /\ agents'[h] = NewSlaveOf[h]
      /\ \A g \in DOMAIN SlaveOf : g # h => agents'[g] = agents[g]
  BY <1>1, <1>2
<1>7. HeldOf(Strays) = 0 /\ HeldOf(Misfits) = 0
  BY DEF ClusterInv, OffersInv
<1>8. HeldOf(Strays)' = 0
  <2>1. PICK M : M = Strays'
    OBVIOUS
  <2>2. M \subseteq Strays
    BY <1>2, <1>6, <2>1 DEF Strays
  <2>3. HeldOf(M) = 0
    BY <1>7, <2>2, NoneCovered DEF ClusterInv
  <2> QED
    BY <1>4, <2>1, <2>3
<1>9. HeldOf(Misfits)' = 0
  <2>1. PICK M : M = Misfits'
    OBVIOUS
  <2>2. M \subseteq Misfits \cup Strays
    <3>1. ASSUME NEW p \in M, p.host \notin DOMAIN SlaveOf \/ p.host = h
          PROVE  p \in Strays
      BY <1>2, <1>6, <2>1, <3>1 DEF Strays, Misfits, ValidOffer
    <3>2. ASSUME NEW p \in M, p.host \in DOMAIN SlaveOf, p.host # h
          PROVE  p \in Misfits
      BY <1>5, <1>6, <2>1, <3>2 DEF Misfits, ValidOffer
    <3> QED
      BY <3>1, <3>2
  <2>3. HeldOf(M) = 0
    BY <1>7, <2>2, NoneCovered DEF ClusterInv
  <2> QED
    BY <1>4, <2>1, <2>3
<1>10. ASSUME connected', NEW g \in DOMAIN SlaveOf
       PROVE  HeldOf(OffersOf(g))' = One(g \in offered')
  <2>1. connected
    BY <1>1, <1>10
  <2>2. CASE g # h
    <3>1. OffersOf(g)' = OffersOf(g)
      BY <1>6, <2>2 DEF OffersOf, ValidOffer
    <3> QED
      BY <1>1, <1>4, <2>1, <2>2, <3>1 DEF ClusterInv, OffersInv, One
  <2>3. CASE g = h
    <3>1. PICK P : P = OffersOf(h)'
      OBVIOUS
    <3>2. P \subseteq Strays
      BY <1>2, <1>6, <3>1 DEF OffersOf, ValidOffer, Strays
    <3>3. HeldOf(P) = 0
      BY <1>7, <3>2, NoneCovered DEF ClusterInv
    <3> QED
      BY <1>1, <1>4, <2>3, <3>1, <3>3 DEF One
  <2> QED
    BY <2>2, <2>3
<1>11. \A g \in Hosts : Needs(ServicesAt(g))' <= Capacity
  <2>1. Needs(ServicesAt(h)') <= Capacity
    BY <1>5, NeedsEmpty, ClusterAssumption
  <2> QED
    BY <1>5, <2>1 DEF ClusterInv, MesosInv
<1>14. ProbersOK'
  BY <1>1 DEF ClusterInv, MesosInv, ProbersOK, Without
<1>12. ClusterTypeOK'
  <2>1. failures' \in 0 .. MaxFailures
    BY <1>1, ClusterAssumption DEF ClusterInv, MesosInv, ClusterTypeOK
  <2>2. agents' \in [DOMAIN SlaveOf -> Slaves]
    BY <1>1, <1>2
  <2>3. /\ tasks' \in [TaskId -> AgentStates]
        /\ \A t \in TaskId : t.service = Prober => tasks'[t] \in {"NONE", "STAGING"}
    BY <1>1 DEF ClusterInv, MesosInv, ClusterTypeOK, AgentStates
  <2>4. DOMAIN executors' \subseteq Hosts
    BY <1>14, ClusterAssumption DEF ProbersOK
  <2>5. orphans' \subseteq TaskId
    BY <1>1 DEF ClusterInv, MesosInv, ClusterTypeOK
  <2> QED
    BY <1>1, <1>14, <2>1, <2>2, <2>3, <2>4, <2>5
      DEF ClusterInv, MesosInv, ClusterTypeOK, ProbersOK
<1>13. MesosInv'
  <2>1. \A t \in TaskId : Held(t)' => t.host \in DOMAIN SlaveOf
    BY <1>1 DEF ClusterInv, MesosInv, Held, Active
  <2>2. driver' \in Seq(SparedCall)
    BY <1>1 DEF ClusterInv, MesosInv
  <2>3. \A g \in DOMAIN SlaveOf :
          agents'[g] # SlaveOf[g] =>
            g \in DOMAIN NewSlaveOf /\ agents'[g] = NewSlaveOf[g]
    BY <1>1, <1>6 DEF ClusterInv, MesosInv
  <2> QED
    BY <1>1, <1>11, <1>12, <1>14, <2>1, <2>2, <2>3 DEF ClusterInv, MesosInv
<1> QED
  BY <1>4, <1>8, <1>9, <1>10, <1>13 DEF ClusterInv, OffersInv

-----------------------------------------------------------------------------
LEMMA ClusterInitInv == ClusterInit => ClusterInv
<1> SUFFICES ASSUME ClusterInit PROVE ClusterInv
  OBVIOUS
<1>1. /\ Init /\ mailbox = <<>> /\ driver = <<>> /\ building = Idle
      /\ agents = SlaveOf /\ mounts \in [Hosts -> FirstMounts]
      /\ tasks = [t \in TaskId |-> "NONE"] /\ orphans = {}
      /\ executors = NoExecutors /\ offered = {}
      /\ probing = {} /\ connected = FALSE /\ reached = {} /\ failures = 0
  BY DEF ClusterInit, Init
<1>2. Inv /\ FitInv
  BY <1>1, InitInv, InitFits
<1>3. mailbox \in Seq(OtherEvent) /\ driver \in Seq(SparedCall)
  BY <1>1
<1>4. OffersInv
  BY <1>1, <1>3, EmptyHoldsNone DEF OffersInv
<1>5. \A h : ServicesAt(h) = {}
  BY <1>1 DEF ServicesAt, On, Held, Active, TaskId
<1>6. ASSUME NEW h \in Hosts PROVE Needs(ServicesAt(h)) <= Capacity
  <2>1. ServicesAt(h) = {}
    BY <1>5
  <2>2. Needs(ServicesAt(h)) = 0
    BY <2>1, NeedsEmpty
  <2> QED
    BY <2>2, ClusterAssumption
<1>7. ClusterTypeOK
  <2>1. agents \in [DOMAIN SlaveOf -> Slaves] /\ mounts \in [Hosts -> SUBSET Mount]
    BY <1>1, ClusterAssumption
  <2>2. tasks \in [TaskId -> AgentStates] /\ \A t \in TaskId : tasks[t] = "NONE"
    BY <1>1 DEF AgentStates
  <2>3. failures \in 0 .. MaxFailures
    BY <1>1, ClusterAssumption
  <2> QED
    BY <1>1, <2>1, <2>2, <2>3 DEF ClusterTypeOK, NoExecutors
<1>8. MesosInv
  <2>1. ProbersOK
    BY <1>1 DEF ProbersOK, NoExecutors
  <2> QED
    BY <1>1, <1>3, <1>6, <1>7, <2>1 DEF MesosInv, Held, Active
<1> QED
  BY <1>2, <1>4, <1>8 DEF ClusterInv

LEMMA ClusterNextInv == ClusterInv /\ [ClusterNext]_clusterVars => ClusterInv'
<1> SUFFICES ASSUME ClusterInv, [ClusterNext]_clusterVars PROVE ClusterInv'
  OBVIOUS
<1>1. CASE UNCHANGED clusterVars
  <2>1. /\ UNCHANGED schedulerVars /\ UNCHANGED mesosVars /\ reached' = reached
    BY <1>1 DEF clusterVars
  <2>2. Inv' /\ mailbox' = mailbox /\ driver' = driver /\ building' = building
    BY <2>1, NextInv DEF ClusterInv, schedulerVars
  <2>3. FitInv' /\ driver' \in Seq(SparedCall)
    BY <2>2 DEF ClusterInv, FitInv, MesosInv
  <2>4. \A O : HeldOf(O)' = HeldOf(O)
    BY <2>2 DEF HeldOf, Waiting, InHand, Answered
  <2>5. reached' \subseteq Hosts
    BY <2>1 DEF ClusterInv, MesosInv, ClusterTypeOK
  <2> QED
    BY <2>1, <2>2, <2>3, <2>4, <2>5, MesosApart
<1>2. CASE SchedulerStep
  BY <1>2, SchedulerKeeps
<1>3. CASE \/ \E h \in Hosts : KeepaliveOver(h) \/ ProbeDue(h)
           \/ \E v \in Posts : Post(v)
  BY <1>3, OutsideKeeps
<1>4. CASE MesosStep
  <2>1. reached' = reached
    BY <1>4 DEF MesosStep
  <2>2. CASE Connect \/ Disconnect \/ ResendUpdate \/ FailOver
    BY <2>1, <2>2, ConnectKeeps, DisconnectKeeps, ResendKeeps, FailOverKeeps
  <2>3. CASE MesosActs
    BY <2>1, <2>3, DeclineKeeps, LaunchKeeps, OtherCallsKeep, DropKeeps
      DEF MesosActs
  <2>4. CASE \E h \in Hosts : \/ MakeOffer(h) \/ ExecutorFails(h)
                              \/ AnswerProbe(h) \/ LoseProbe(h)
                              \/ AgentReturns(h) \/ Remount(h) \/ Mark(h)
    BY <2>1, <2>4, MakeOfferKeeps, HostsMove, AgentReturnsKeeps
  <2>5. CASE \E t \in TaskId : \/ TaskStarts(t) \/ TaskKilled(t) \/ TaskFails(t)
                               \/ OrphanEnds(t)
    BY <2>1, <2>5, TasksMove
  <2> QED
    BY <1>4, <2>2, <2>3, <2>4, <2>5 DEF MesosStep
<1> QED
  BY <1>1, <1>2, <1>3, <1>4 DEF ClusterNext

LEMMA ClusterInvariant == ClusterSpec => []ClusterInv
BY ClusterInitInv, ClusterNextInv, PTL DEF ClusterSpec

(***************************************************************************)
(* The state of Mesos keeps its types; so does the scheduler's, now with   *)
(* what Mesos really sends: no offer has a negative size.                  *)
(***************************************************************************)
THEOREM ClusterTypeCorrect == ClusterSpec => [](ClusterTypeOK /\ TypeOK)
<1>1. ClusterInv => ClusterTypeOK /\ TypeOK
  BY DEF ClusterInv, MesosInv, Inv
<1> QED
  BY <1>1, ClusterInvariant, PTL

(***************************************************************************)
(* Mesos and the scheduler agree on who has the offer of a host, whatever  *)
(* is lost or comes twice, and whichever agents and connections come back. *)
(***************************************************************************)
THEOREM OffersAlwaysAccounted == ClusterSpec => []OffersAccounted
<1>1. ClusterInv => OffersAccounted
  <2> SUFFICES ASSUME ClusterInv, connected, NEW h \in DOMAIN SlaveOf
               PROVE  LET ofHost(o) == o.host = h /\ ValidOffer(o)
                          waiting   == {i \in DOMAIN mailbox :
                                         /\ mailbox[i].type = "resourceOffers"
                                         /\ ofHost(mailbox[i].offer)}
                          answered  == {i \in DOMAIN driver :
                                         /\ driver[i].call
                                              \in {"declineOffer", "launchTasks"}
                                         /\ ofHost(driver[i].offer)}
                      IN  Cardinality(waiting) + Cardinality(answered)
                            + (IF ofHost(building.offer) THEN 1 ELSE 0)
                              = (IF h \in offered THEN 1 ELSE 0)
    BY DEF OffersAccounted
  <2> DEFINE O == OffersOf(h)
  <2>1. mailbox \in Seq(Event) /\ driver \in Seq(Call) /\ Inv
    BY DEF ClusterInv, Inv, TypeOK
  <2>2. At(mailbox, OfferEvents(O))
          = {i \in DOMAIN mailbox : /\ mailbox[i].type = "resourceOffers"
                                    /\ mailbox[i].offer.host = h
                                    /\ ValidOffer(mailbox[i].offer)}
    <3>1. \A e \in Event : e.type = "resourceOffers" => e.offer \in Offer
      BY DEF Event
    <3> QED
      BY <2>1, <3>1, ElementOfSeq, LenProperties DEF At, OfferEvents, OffersOf
  <2>3. At(driver, Answers(O))
          = {i \in DOMAIN driver :
               /\ driver[i].call \in {"declineOffer", "launchTasks"}
               /\ driver[i].offer.host = h
               /\ ValidOffer(driver[i].offer)}
    <3>1. \A c \in Call : c.call \in {"declineOffer", "launchTasks"} =>
                            c.offer \in Offer
      BY DEF Call
    <3> QED
      BY <2>1, <3>1, ElementOfSeq, LenProperties DEF At, Answers, OffersOf
  <2>4. InHand(O) = IF building.offer.host = h /\ ValidOffer(building.offer)
                    THEN 1 ELSE 0
    <3>1. CASE building = Idle
      <4>1. building.offer.host = NoHost /\ h # NoHost
        BY <3>1, ClusterAssumption, SchedulerAssumption DEF Idle, NoOffer
      <4> QED
        BY <3>1, <4>1 DEF InHand, One
    <3>2. CASE building # Idle
      BY <2>1, <3>2, OfferInHand DEF InHand, One, OffersOf
    <3> QED
      BY <3>1, <3>2
  <2>5. Waiting(O) + InHand(O) + Answered(O) = IF h \in offered THEN 1 ELSE 0
    BY DEF ClusterInv, OffersInv, HeldOf, One
  <2>6. Waiting(O) \in Nat /\ InHand(O) \in {0, 1} /\ Answered(O) \in Nat
    BY <2>1, HeldNat
  <2> HIDE DEF O
  <2> QED
    BY <2>2, <2>3, <2>4, <2>5, <2>6 DEF Waiting, Answered
<1> QED
  BY <1>1, ClusterInvariant, PTL

(***************************************************************************)
(* No service that has ports is launched beside a task of its, be it one   *)
(* of this framework or of a former one: the launch fits its offer, and    *)
(* the offer what the tasks on the host leave.                             *)
(***************************************************************************)
THEOREM NeverLaunchedTwice == ClusterSpec => []NoSecondLaunch
<1>1. ClusterInv => NoSecondLaunch
  <2> SUFFICES ASSUME ClusterInv, NEW i \in DOMAIN driver,
                      driver[i].call = "launchTasks",
                      ValidOffer(driver[i].offer),
                      NEW k \in driver[i].tasks, k.service \in Ported,
                      Held([service |-> k.service,
                            host |-> driver[i].offer.host])
               PROVE  FALSE
    BY DEF NoSecondLaunch
  <2> DEFINE o == driver[i].offer
             t == [service |-> k.service, host |-> o.host]
  <2>1. driver \in Seq(FittingCall) /\ driver[i] \in FittingCall
    BY DEF ClusterInv, FitInv
  <2>2. /\ driver[i] \in Call /\ o \in Offer /\ o.host \in Hosts
        /\ PortsOf(ServicesOf(driver[i].tasks)) \subseteq o.ports
        /\ k.service \in Services
    BY <2>1 DEF FittingCall, TasksFit, SetFits, Call, Offer, Task
  <2>3. o \notin Misfits
    <3>1. None(Misfits)
      BY NoneHeld DEF ClusterInv, OffersInv
    <3> QED
      BY <2>2, <3>1 DEF None, Answers
  <2>4. o.ports \cap PortsOf(ServicesAt(o.host)) = {}
    BY <2>2, <2>3 DEF Misfits
  <2>5. Ports[k.service] \subseteq o.ports
    BY <2>2 DEF PortsOf, ServicesOf
  <2>6. t \in On(o.host)
    BY <2>2 DEF On, TaskId
  <2>7. Ports[k.service] \subseteq PortsOf(ServicesAt(o.host))
    BY <2>6 DEF PortsOf, ServicesAt
  <2>8. Ports[k.service] # {}
    BY <2>2, SchedulerAssumption
  <2> QED
    BY <2>4, <2>5, <2>7, <2>8
<1> QED
  BY <1>1, ClusterInvariant, PTL

(***************************************************************************)
(* In the cluster, too, the scheduler's slots agree with the tasks they    *)
(* name, what it is about to launch is its own, and a launch fits.         *)
(***************************************************************************)
THEOREM ClusterKeepsScheduler ==
  ClusterSpec => [](SlotsAgree /\ LaunchesAreOwned /\ LaunchFitsOffer)
<1>1. ClusterInv => SlotsAgree /\ LaunchesAreOwned /\ LaunchFitsOffer
  BY FitIsLaunchFits DEF ClusterInv, Inv
<1> QED
  BY <1>1, ClusterInvariant, PTL

\* The singletons' records change in callbacks and restarts only.
LEMMA ClusterOwnerStep ==
  ASSUME ClusterInv, [ClusterNext]_clusterVars
  PROVE  OwnerStep
<1>1. CASE SchedulerStep
  BY <1>1, EveryStepIsOwnerStep DEF SchedulerStep, Next, ClusterInv
<1>2. CASE FailOver
  <2>1. Surroundings
    BY <1>2 DEF FailOver, Surroundings
  <2> QED
    BY <2>1, EveryStepIsOwnerStep DEF Next, ClusterInv
<1>3. CASE ~SchedulerStep /\ ~FailOver
  <2>1. singletons' = singletons
    BY <1>3
      DEF ClusterNext, MesosStep, MesosActs, Connect, TakeDecline, TakeLaunch,
          TakeKill, TakeReconcile, TakeProbe, NextCall, DropCall, MakeOffer,
          ExecutorFails, AnswerProbe, LoseProbe, AgentReturns, Remount, Mark,
          TaskStarts, TaskKilled, TaskFails, TaskEnds, OrphanEnds, Disconnect, ResendUpdate,
          KeepaliveOver, ProbeDue, Timer, Post, KeepaliveElapses,
          ProbeIntervalElapses, PostVersion, clusterVars, schedulerVars
  <2> QED
    BY <2>1 DEF OwnerStep
<1> QED
  BY <1>1, <1>2, <1>3

(***************************************************************************)
(* The scheduler with Mesos implements SingletonLease, too: a record of a  *)
(* singleton goes only with an update of its own task, or the process.     *)
(***************************************************************************)
THEOREM ClusterImplementsLease == ClusterSpec => LeaseSpec /\ OwnUpdateReleases
<1>1. ClusterInit => [s \in Singletons |-> singletons[s].task_id] = Lease!Free
  BY DEF ClusterInit, Init, Lease!Free, Unknown
<1>2. ClusterInv => Inv
  BY DEF ClusterInv
<1>3. ClusterInv /\ [ClusterNext]_clusterVars =>
        /\ [Lease!Next]_[s \in Singletons |-> singletons[s].task_id]
        /\ [Releases]_schedulerVars
  BY <1>2, ClusterOwnerStep, OwnerStepIsLease, OwnerStepReleases DEF Owners
<1> QED
  BY <1>1, <1>3, ClusterInvariant, PTL
    DEF ClusterSpec, LeaseSpec, Lease!Spec, OwnUpdateReleases, Releases
===============================================================================
