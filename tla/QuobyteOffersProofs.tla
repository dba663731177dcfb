------------------------- MODULE QuobyteOffersProofs -------------------------
(***************************************************************************)
(* That the scheduler answers every offer exactly once, for all instances: *)
(* what each callback does to the number of offers waiting, in hand and    *)
(* answered.                                                               *)
(***************************************************************************)
EXTENDS QuobyteSchedulerProofs, FiniteSetTheorems, SequenceTheorems

-----------------------------------------------------------------------------
(***************************************************************************)
(* Counting in queues.                                                     *)
(***************************************************************************)
At(s, P) == {i \in DOMAIN s : s[i] \in P}

One(b) == IF b THEN 1 ELSE 0

LEMMA PlacesFinite ==
  ASSUME NEW S, NEW s \in Seq(S), NEW P
  PROVE  IsFiniteSet(At(s, P)) /\ Cardinality(At(s, P)) \in Nat
<1>1. DOMAIN s = 1 .. Len(s) /\ Len(s) \in Nat
  BY LenProperties
<1>2. IsFiniteSet(1 .. Len(s)) /\ At(s, P) \in SUBSET (1 .. Len(s))
  BY <1>1, FS_Interval DEF At
<1>3. IsFiniteSet(At(s, P))
  BY <1>2, FS_Subset
<1> QED
  BY <1>3, FS_CardinalityType

LEMMA CountAppend ==
  ASSUME NEW S, NEW s \in Seq(S), NEW e \in S, NEW P
  PROVE  /\ Append(s, e) \in Seq(S)
         /\ Cardinality(At(Append(s, e), P))
              = Cardinality(At(s, P)) + One(e \in P)
<1> DEFINE n == Len(s) + 1
<1>1. /\ Append(s, e) \in Seq(S)
      /\ DOMAIN s = 1 .. Len(s) /\ Len(s) \in Nat
      /\ DOMAIN Append(s, e) = 1 .. n
      /\ \A i \in 1 .. Len(s) : Append(s, e)[i] = s[i]
      /\ Append(s, e)[n] = e
  BY AppendProperties, LenProperties
<1>2. IsFiniteSet(At(s, P)) /\ Cardinality(At(s, P)) \in Nat
  BY PlacesFinite
<1>3. n \notin At(s, P)
  BY <1>1 DEF At
<1>4. CASE e \in P
  <2>1. At(Append(s, e), P) = At(s, P) \cup {n}
    BY <1>1, <1>4 DEF At
  <2> QED
    BY <1>1, <1>2, <1>3, <1>4, <2>1, FS_AddElement DEF One
<1>5. CASE e \notin P
  <2>1. At(Append(s, e), P) = At(s, P)
    BY <1>1, <1>5 DEF At
  <2> QED
    BY <1>1, <1>2, <1>5, <2>1 DEF One
<1> QED
  BY <1>4, <1>5

LEMMA CountTail ==
  ASSUME NEW S, NEW s \in Seq(S), s # <<>>, NEW P
  PROVE  Cardinality(At(Tail(s), P))
           = Cardinality(At(s, P)) - One(Head(s) \in P)
<1> DEFINE rest == At(s, P) \ {1}
           f == [i \in At(Tail(s), P) |-> i + 1]
<1>1. /\ DOMAIN s = 1 .. Len(s) /\ Len(s) \in Nat \ {0}
      /\ Tail(s) \in Seq(S)
      /\ DOMAIN Tail(s) = 1 .. Len(s) - 1
      /\ \A i \in 1 .. Len(s) - 1 : Tail(s)[i] = s[i + 1]
      /\ Head(s) = s[1]
  BY HeadTailProperties, LenProperties, EmptySeq
<1>2. /\ IsFiniteSet(At(s, P)) /\ Cardinality(At(s, P)) \in Nat
      /\ IsFiniteSet(At(Tail(s), P))
  BY <1>1, PlacesFinite
<1>3. f \in Bijection(At(Tail(s), P), rest)
  <2>1. \A i \in At(Tail(s), P) : i + 1 \in rest
    BY <1>1 DEF At
  <2>2. \A i, j \in At(Tail(s), P) : i + 1 = j + 1 => i = j
    BY <1>1 DEF At
  <2>3. \A j \in rest : j - 1 \in At(Tail(s), P) /\ (j - 1) + 1 = j
    BY <1>1 DEF At
  <2> QED
    BY <2>1, <2>2, <2>3 DEF Bijection, Injection, Surjection, IsInjective
<1>4. Cardinality(rest) = Cardinality(At(Tail(s), P))
  <2>1. ExistsBijection(At(Tail(s), P), rest)
    BY <1>3 DEF ExistsBijection
  <2> QED
    BY <1>2, <2>1, FS_Bijection
<1>5. 1 \in At(s, P) <=> Head(s) \in P
  BY <1>1 DEF At
<1>6. Cardinality(rest) = IF 1 \in At(s, P) THEN Cardinality(At(s, P)) - 1
                          ELSE Cardinality(At(s, P))
  BY <1>2, FS_RemoveElement
<1> HIDE DEF rest
<1> QED
  BY <1>2, <1>4, <1>5, <1>6 DEF One

-----------------------------------------------------------------------------
(***************************************************************************)
(* What a callback does to the offers of a set O: all offers, or those of  *)
(* one host.                                                               *)
(***************************************************************************)
OfferEvents(O) == {e \in Event : e.type = "resourceOffers" /\ e.offer \in O}
Answers(O) == {c \in Call : /\ c.call \in {"declineOffer", "launchTasks"}
                            /\ c.offer \in O}

Waiting(O)  == Cardinality(At(mailbox, OfferEvents(O)))
InHand(O)   == One(building # Idle /\ building.offer \in O)
Answered(O) == Cardinality(At(driver, Answers(O)))

HeldOf(O) == Waiting(O) + InHand(O) + Answered(O)

LEMMA HeldTyped ==
  ASSUME NEW m \in Seq(Event), NEW d \in Seq(Call), NEW O
  PROVE  /\ Cardinality(At(m, OfferEvents(O))) \in Nat
         /\ Cardinality(At(d, Answers(O))) \in Nat
BY PlacesFinite

\* A callback that takes an event takes an offer exactly if it is one.
LEMMA EventCounted ==
  ASSUME TypeOK, NEW type, TakeEvent(type), NEW O
  PROVE  /\ mailbox' \in Seq(Event)
         /\ Waiting(O)' = Waiting(O) - One(/\ type = "resourceOffers"
                                          /\ Head(mailbox).offer \in O)
         /\ InHand(O) = 0
<1>1. /\ mailbox \in Seq(Event) /\ mailbox # <<>> /\ mailbox' = Tail(mailbox)
      /\ building = Idle
  BY DEF TakeEvent, TypeOK
<1>2. Head(mailbox) \in OfferEvents(O)
        <=> type = "resourceOffers" /\ Head(mailbox).offer \in O
  BY Taken DEF OfferEvents
<1>3. Waiting(O)' = Waiting(O) - One(Head(mailbox) \in OfferEvents(O))
  BY <1>1, CountTail DEF Waiting
<1> QED
  BY <1>1, <1>2, <1>3, Taken DEF InHand, One

\* The calls a callback makes, one after the other.
LEMMA CallCounted ==
  ASSUME NEW d \in Seq(Call), NEW c \in Call, NEW O
  PROVE  /\ Append(d, c) \in Seq(Call)
         /\ Cardinality(At(d, Answers(O))) \in Nat
         /\ Cardinality(At(Append(d, c), Answers(O)))
              = Cardinality(At(d, Answers(O)))
                  + One(/\ c.call \in {"declineOffer", "launchTasks"}
                        /\ c.offer \in O)
BY CountAppend, PlacesFinite DEF Answers, One

\* Kills answer no offer.
LEMMA KillsCounted ==
  ASSUME NEW d \in Seq(Call), NEW ts \in SUBSET TaskId, NEW O
  PROVE  /\ d \o Kills(ts) \in Seq(Call)
         /\ Cardinality(At(d \o Kills(ts), Answers(O)))
              = Cardinality(At(d, Answers(O)))
<1>1. CASE ts = {}
  BY <1>1, ConcatEmptySeq DEF Kills
<1>2. CASE ts # {}
  <2> DEFINE c == [call |-> "killTask", tasks |-> ts]
  <2>1. c \in Call /\ c.call = "killTask"
    BY DEF Call
  <2>2. d \o Kills(ts) = Append(d, c)
    BY <1>2, <2>1, AppendIsConcat DEF Kills
  <2> QED
    BY <2>1, <2>2, CallCounted DEF One
<1> QED
  BY <1>1, <1>2

\* The event taken is balanced by the answers that the callback gives.
LEMMA CallbackCounted ==
  ASSUME TypeOK, NEW type, TakeEvent(type), building' = building, NEW O,
         driver' \in Seq(Call),
         Answered(O)' = Answered(O) + One(/\ type = "resourceOffers"
                                        /\ Head(mailbox).offer \in O)
  PROVE  HeldOf(O)' = HeldOf(O)
<1>1. mailbox \in Seq(Event) /\ driver \in Seq(Call)
  BY DEF TypeOK
<1>2. Waiting(O) \in Nat /\ Answered(O) \in Nat
  BY <1>1, HeldTyped DEF Waiting, Answered
<1>3. Waiting(O)' = Waiting(O) - One(/\ type = "resourceOffers"
                                    /\ Head(mailbox).offer \in O)
  BY EventCounted
<1>4. InHand(O)' = InHand(O) /\ InHand(O) \in Nat
  BY DEF InHand, One, Idle, NoOffer
<1> QED
  BY <1>2, <1>3, <1>4 DEF HeldOf, One

LEMMA OffersAnswered ==
  ASSUME Inv, IgnoreHost \/ MeetHost \/ StartProber \/ ProbeHost
                \/ KillServices,
         NEW O
  PROVE  HeldOf(O)' = HeldOf(O)
<1> DEFINE o == Head(mailbox).offer
<1>1. /\ TypeOK /\ driver \in Seq(Call)
      /\ NextEvent("resourceOffers") /\ building' = building
  BY DEF Inv, TypeOK, IgnoreHost, MeetHost, StartProber, ProbeHost, KillServices
<1>2. /\ o \in Offer
      /\ Decline(o) \in Call /\ ReconcileHost(o.host) \in Call
      /\ Probe(o.slave) \in Call
      /\ \A ts \in SUBSET Task : Launch(o, ts) \in Call
  BY <1>1, OfferTaken, CallsTyped
<1>3. /\ Decline(o).call = "declineOffer" /\ Decline(o).offer = o
      /\ ReconcileHost(o.host).call = "reconcile"
      /\ Probe(o.slave).call = "sendFrameworkMessage"
      /\ \A ts : /\ Launch(o, ts).call = "launchTasks"
                 /\ Launch(o, ts).offer = o
  BY DEF Decline, ReconcileHost, Probe, Launch
<1>4. SUFFICES driver' \in Seq(Call)
                 /\ Answered(O)' = Answered(O) + One(o \in O)
  BY <1>1, NextIsTaken, CallbackCounted DEF One
<1>5. CASE IgnoreHost
  <2>1. driver' = Append(driver, Decline(o))
    BY <1>5 DEF IgnoreHost
  <2> QED
    BY <1>1, <1>2, <1>3, <2>1, CallCounted DEF Answered, One
<1>6. CASE MeetHost
  <2> DEFINE d == Append(driver, ReconcileHost(o.host))
  <2>1. driver' = Append(d, Decline(o))
    BY <1>1, <1>2, <1>6 DEF MeetHost
  <2>2. d \in Seq(Call) /\ Cardinality(At(d, Answers(O))) = Answered(O)
    BY <1>1, <1>2, <1>3, CallCounted DEF Answered, One
  <2> HIDE DEF d
  <2> QED
    BY <1>2, <1>3, <2>1, <2>2, CallCounted DEF Answered, One
<1>7. CASE StartProber
  <2> DEFINE ts == {[service |-> Prober, version |-> NoVersion]}
  <2>1. driver' = Append(driver, Launch(o, ts))
    BY <1>7 DEF StartProber
  <2>2. ts \in SUBSET Task
    BY DEF Task, Services, NodeServices
  <2> HIDE DEF ts
  <2> QED
    BY <1>1, <1>2, <1>3, <2>1, <2>2, CallCounted DEF Answered, One
<1>8. CASE ProbeHost
  <2> DEFINE d == Append(driver, Probe(o.slave))
             e == Append(d, ReconcileHost(o.host))
  <2>1. driver' = Append(e, Decline(o))
    BY <1>8 DEF ProbeHost
  <2>2. d \in Seq(Call) /\ Cardinality(At(d, Answers(O))) = Answered(O)
    BY <1>1, <1>2, <1>3, CallCounted DEF Answered, One
  <2> HIDE DEF d
  <2>3. e \in Seq(Call) /\ Cardinality(At(e, Answers(O))) = Answered(O)
    BY <1>2, <1>3, <2>2, CallCounted DEF One, Answered
  <2> HIDE DEF e
  <2> QED
    BY <1>2, <1>3, <2>1, <2>3, CallCounted DEF Answered, One
<1>9. CASE KillServices
  <2> DEFINE ts == {[service |-> s, host |-> o.host] :
                      s \in RunningOn(nodes[o.host])}
             d == driver \o Kills(ts)
  <2>1. driver' = d \o <<Decline(o)>>
    BY <1>9 DEF KillServices
  <2>2. ts \in SUBSET TaskId
    <3>1. RunningOn(nodes[o.host]) \subseteq Services
      BY DEF RunningOn, CoreServicesRunning, Services, NodeServices
    <3>2. o.host \in Hosts
      BY <1>2 DEF Offer
    <3> QED
      BY <3>1, <3>2 DEF TaskId
  <2>3. d \in Seq(Call) /\ Cardinality(At(d, Answers(O))) = Answered(O)
    BY <1>1, <2>2, KillsCounted DEF Answered
  <2>4. driver' = Append(d, Decline(o))
    BY <1>2, <2>1, <2>3, AppendIsConcat
  <2> HIDE DEF d
  <2> QED
    BY <1>2, <1>3, <2>3, <2>4, CallCounted DEF Answered, One
<1> QED
  BY <1>5, <1>6, <1>7, <1>8, <1>9

LEMMA UpdatesAnswerNone ==
  ASSUME Inv, UnknownService \/ ServiceUp \/ ServiceUnwanted
                \/ ServiceDown \/ ServiceStaging,
         NEW O
  PROVE  HeldOf(O)' = HeldOf(O)
<1> DEFINE e == Head(mailbox)
           shut == {t \in {e.task} : /\ t.service # Prober
                                     /\ e.state \in {"STAGING", "RUNNING"}
                                     /\ target_version = NoVersion}
<1>1. /\ TypeOK /\ driver \in Seq(Call)
      /\ NextEvent("statusUpdate") /\ building' = building
  BY DEF Inv, TypeOK, UnknownService, ServiceUp, ServiceUnwanted, ServiceDown,
         ServiceStaging
<1>2. SUFFICES driver' \in Seq(Call) /\ Answered(O)' = Answered(O)
  <2>1. Answered(O) \in Nat
    BY <1>1, PlacesFinite DEF Answered
  <2> QED
    BY <1>1, <2>1, NextIsTaken, CallbackCounted DEF One
<1>3. {e.task} \in SUBSET TaskId /\ shut \in SUBSET TaskId
  BY <1>1, UpdateTaken
<1>4. ShutdownKills(e) = Kills(shut)
  BY DEF ShutdownKills
<1>5. CASE UnknownService \/ ServiceDown
  BY <1>1, <1>5 DEF UnknownService, ServiceDown, Answered
<1>6. CASE ServiceUp \/ ServiceStaging
  <2>1. driver' = driver \o Kills(shut)
    BY <1>4, <1>6 DEF ServiceUp, ServiceStaging
  <2> HIDE DEF shut
  <2> QED
    BY <1>1, <1>3, <2>1, KillsCounted DEF Answered
<1>7. CASE ServiceUnwanted
  <2> DEFINE d == driver \o Kills({e.task})
  <2>1. driver' = d \o Kills(shut)
    BY <1>4, <1>7 DEF ServiceUnwanted
  <2>2. d \in Seq(Call) /\ Cardinality(At(d, Answers(O))) = Answered(O)
    BY <1>1, <1>3, KillsCounted DEF Answered
  <2> HIDE DEF d, shut
  <2> QED
    BY <1>3, <2>1, <2>2, KillsCounted DEF Answered
<1> QED
  BY <1>5, <1>6, <1>7

LEMMA OthersAnswerNone ==
  ASSUME Inv, Registered \/ FrameworkMessage, NEW O
  PROVE  HeldOf(O)' = HeldOf(O)
<1>1. TypeOK /\ driver \in Seq(Call) /\ Answered(O) \in Nat
  BY PlacesFinite DEF Inv, TypeOK, Answered
<1>2. CASE Registered
  <2>1. /\ TakeEvent("registered") /\ building' = building
        /\ driver' = Append(driver, ReconcileAll)
    BY <1>2 DEF Registered
  <2>2. ReconcileAll \in Call /\ ReconcileAll.call = "reconcile"
    BY DEF ReconcileAll, Call
  <2>3. driver' \in Seq(Call) /\ Answered(O)' = Answered(O)
    BY <1>1, <2>1, <2>2, CallCounted DEF Answered, One
  <2> QED
    BY <1>1, <2>1, <2>3, CallbackCounted DEF One
<1>3. CASE FrameworkMessage
  <2>1. /\ NextEvent("frameworkMessage") /\ building' = building
        /\ driver' = driver
    BY <1>3 DEF FrameworkMessage
  <2> QED
    BY <1>1, <2>1, NextIsTaken, CallbackCounted DEF Answered, One
<1> QED
  BY <1>2, <1>3

\* An offer is taken in hand only with services to build tasks for.
LEMMA ChoiceHoldsOffer ==
  ASSUME Inv, ChooseServices, NEW O
  PROVE  HeldOf(O)' = HeldOf(O)
<1> DEFINE o == Head(mailbox).offer
<1>1. /\ TypeOK /\ NextEvent("resourceOffers")
      /\ mailbox \in Seq(Event) /\ driver \in Seq(Call)
  BY DEF Inv, TypeOK, ChooseServices
<1>2. PICK S \in Chosen(o) :
        IF S = {}
        THEN driver' = Append(driver, Decline(o)) /\ UNCHANGED building
        ELSE /\ building' = [offer |-> o, todo |-> S, made |-> {}]
             /\ UNCHANGED driver
  BY DEF ChooseServices
<1>3. /\ Decline(o) \in Call /\ Decline(o).call = "declineOffer"
      /\ Decline(o).offer = o
  BY <1>1, OfferTaken, CallsTyped DEF Decline
<1>4. CASE S = {}
  <2>1. driver' = Append(driver, Decline(o)) /\ building' = building
    BY <1>2, <1>4
  <2>2. driver' \in Seq(Call) /\ Answered(O)' = Answered(O) + One(o \in O)
    BY <1>1, <1>3, <2>1, CallCounted DEF Answered, One
  <2> QED
    BY <1>1, <2>1, <2>2, NextIsTaken, CallbackCounted DEF One
<1>5. CASE S # {}
  <2>1. driver' = driver /\ building'.todo = S /\ building'.offer = o
    BY <1>2, <1>5
  <2>2. InHand(O)' = One(o \in O) /\ InHand(O) = 0
    BY <1>1, <1>5, <2>1, NextIsTaken, EventCounted DEF InHand, Idle, One
  <2>3. Waiting(O)' = Waiting(O) - One(o \in O)
    BY <1>1, NextIsTaken, EventCounted DEF One
  <2>4. /\ Answered(O)' = Answered(O)
        /\ Waiting(O) \in Nat /\ Answered(O) \in Nat
    BY <1>1, <2>1, HeldTyped DEF Waiting, Answered
  <2> QED
    BY <2>2, <2>3, <2>4 DEF HeldOf, One
<1> QED
  BY <1>4, <1>5

\* What makeTask does to the lists in hand.
LEMMA TaskAdded ==
  ASSUME NEW O, NEW S, NEW T,
         NEW b \in [offer : O, todo : SUBSET S, made : SUBSET T], NEW s, NEW k
  PROVE  /\ [b EXCEPT !.todo = @ \ {s}, !.made = @ \cup {k}].made
              = b.made \cup {k}
         /\ [b EXCEPT !.todo = @ \ {s}, !.made = @ \cup {k}].offer = b.offer
OBVIOUS

\* A list in hand is for an offer.
LEMMA OfferInHand ==
  ASSUME Inv, building # Idle
  PROVE  building.offer \in Offer /\ building.made \in SUBSET Task
<1>1. /\ building.offer \in Offer \cup {NoOffer}
      /\ building.made \in SUBSET Task
      /\ building.offer.host \in DOMAIN nodes /\ DOMAIN nodes \subseteq Hosts
  BY DEF Inv, TypeOK
<1> QED
  BY <1>1, SchedulerAssumption DEF NoOffer

\* The tasks are built and launched on the offer in hand.
LEMMA LaunchAnswersOffer ==
  ASSUME Inv, LaunchTasks \/ \E s \in Services : MakeTask(s), NEW O
  PROVE  HeldOf(O)' = HeldOf(O)
<1>1. mailbox \in Seq(Event) /\ driver \in Seq(Call)
  BY DEF Inv, TypeOK
<1>2. CASE LaunchTasks
  <2> DEFINE c == Launch(building.offer, building.made)
  <2>1. /\ building # Idle /\ building' = Idle /\ mailbox' = mailbox
        /\ driver' = Append(driver, c)
    BY <1>2 DEF LaunchTasks
  <2>2. c \in Call /\ c.call = "launchTasks" /\ c.offer = building.offer
    BY <2>1, OfferInHand, CallsTyped DEF Launch
  <2> HIDE DEF c
  <2>3. Answered(O)' = Answered(O) + One(building.offer \in O)
    BY <1>1, <2>1, <2>2, CallCounted DEF Answered, One
  <2>4. InHand(O) = One(building.offer \in O) /\ InHand(O)' = 0
    BY <2>1 DEF InHand, One, Idle, NoOffer
  <2>5. Waiting(O)' = Waiting(O)
    BY <2>1 DEF Waiting
  <2>6. Waiting(O) \in Nat /\ Answered(O) \in Nat
    BY <1>1, HeldTyped DEF Waiting, Answered
  <2> QED
    BY <2>3, <2>4, <2>5, <2>6 DEF HeldOf, One
<1>3. ASSUME NEW s \in Services, MakeTask(s)
      PROVE  HeldOf(O)' = HeldOf(O)
  <2> DEFINE k == [service |-> s, version |-> IF s = Client THEN NoVersion
                                                           ELSE target_version]
  <2>1. /\ s \in building.todo /\ mailbox' = mailbox /\ driver' = driver
        /\ building' = [building EXCEPT !.todo = @ \ {s}, !.made = @ \cup {k}]
    BY <1>3 DEF MakeTask
  <2>2. building # Idle
    BY <2>1 DEF Idle
  <2>3. building \in [offer : Offer \cup {NoOffer}, todo : SUBSET Services,
                      made : SUBSET Task]
    BY DEF Inv, TypeOK
  <2> HIDE DEF k
  <2>4. building'.made = building.made \cup {k} /\ building'.offer = building.offer
    BY <2>1, <2>3, TaskAdded
  <2>5. building' # Idle
    BY <2>4 DEF Idle
  <2> QED
    BY <2>1, <2>2, <2>4, <2>5 DEF HeldOf, Waiting, InHand, Answered
<1> QED
  BY <1>2, <1>3

\* Whichever offers are counted, a callback keeps their number.
LEMMA CallbackHolds ==
  ASSUME Inv, Callback, NEW O
  PROVE  HeldOf(O)' = HeldOf(O)
BY OffersAnswered, UpdatesAnswerNone, OthersAnswerNone, ChoiceHoldsOffer,
   LaunchAnswersOffer DEF Callback

LEMMA HeldIsHeldOf == Inv => OffersHeld = HeldOf(Offer)
<1> SUFFICES ASSUME Inv PROVE OffersHeld = HeldOf(Offer)
  OBVIOUS
<1>1. mailbox \in Seq(Event) /\ driver \in Seq(Call)
  BY DEF Inv, TypeOK
<1>2. At(mailbox, OfferEvents(Offer))
        = {i \in DOMAIN mailbox : mailbox[i].type = "resourceOffers"}
  <2>1. \A e \in Event : e.type = "resourceOffers" => e.offer \in Offer
    BY DEF Event
  <2> QED
    BY <1>1, <2>1, ElementOfSeq, LenProperties DEF At, OfferEvents
<1>3. At(driver, Answers(Offer))
        = {i \in DOMAIN driver :
             driver[i].call \in {"declineOffer", "launchTasks"}}
  <2>1. \A c \in Call : c.call \in {"declineOffer", "launchTasks"} =>
                         c.offer \in Offer
    BY DEF Call
  <2> QED
    BY <1>1, <2>1, ElementOfSeq, LenProperties DEF At, Answers
<1>4. InHand(Offer) = IF building = Idle THEN 0 ELSE 1
  BY OfferInHand DEF InHand, One
<1> QED
  BY <1>2, <1>3, <1>4 DEF OffersHeld, HeldOf, Waiting, Answered

(***************************************************************************)
(* Every offer is answered once, by a decline or by a launch, whichever    *)
(* way it takes through resourceOffers, and no other callback answers one. *)
(***************************************************************************)
THEOREM EveryOfferAnsweredOnce == Spec => OffersAnsweredOnce
<1>1. Inv /\ Inv' /\ Callback => OffersHeld' = OffersHeld
  <2>1. (Inv => OffersHeld = HeldOf(Offer))'
    BY HeldIsHeldOf, PTL
  <2> QED
    BY <2>1, CallbackHolds, HeldIsHeldOf
<1> QED
  BY <1>1, InitInv, NextInv, PTL DEF Spec, OffersAnsweredOnce
=============================================================================
