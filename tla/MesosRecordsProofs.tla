-------------------------- MODULE MesosRecordsProofs --------------------------
(***************************************************************************)
(* What the scheduler's records are worth, for any number of hosts,        *)
(* services, tasks that fail and messages under way: one task at a time is *)
(* active for a singleton, and at rest the records are true.  Both are     *)
(* invariants on the order of what is under way between Mesos and the      *)
(* scheduler, the former up to a restart and the latter through restarts,  *)
(* and both through breaks of the connection and what is lost with it.     *)
(***************************************************************************)
EXTENDS MesosClusterProofs

-----------------------------------------------------------------------------
(***************************************************************************)
(* Order in queues.                                                        *)
(***************************************************************************)
Has(q, P) == \E i \in DOMAIN q : q[i] \in P

Before(q, P, Q) == \E i, j \in DOMAIN q : i < j /\ q[i] \in P /\ q[j] \in Q

LEMMA BeforeHas ==
  ASSUME NEW q, NEW P, NEW Q, Before(q, P, Q)
  PROVE  Has(q, P) /\ Has(q, Q)
BY DEF Before, Has

LEMMA TailOrder ==
  ASSUME NEW S, NEW q \in Seq(S), q # <<>>, NEW P, NEW Q
  PROVE  /\ Has(q, P) <=> (Head(q) \in P \/ Has(Tail(q), P))
         /\ Before(q, P, Q) <=> \/ Head(q) \in P /\ Has(Tail(q), Q)
                                \/ Before(Tail(q), P, Q)
<1>1. /\ DOMAIN q = 1 .. Len(q) /\ Len(q) \in Nat \ {0}
      /\ DOMAIN Tail(q) = 1 .. Len(q) - 1
      /\ \A i \in 1 .. Len(q) - 1 : Tail(q)[i] = q[i + 1]
      /\ Head(q) = q[1]
  BY HeadTailProperties, LenProperties, EmptySeq
<1>2. \A i \in DOMAIN q : i = 1 \/ (i - 1 \in DOMAIN Tail(q)
                                     /\ Tail(q)[i - 1] = q[i])
  BY <1>1
<1>3. \A i \in DOMAIN Tail(q) : i + 1 \in DOMAIN q /\ Tail(q)[i] = q[i + 1]
  BY <1>1
<1>4. 1 \in DOMAIN q
  BY <1>1
<1>5. Has(q, P) <=> Head(q) \in P \/ Has(Tail(q), P)
  BY <1>1, <1>2, <1>3, <1>4 DEF Has
<1>6. ASSUME Before(q, P, Q)
      PROVE  (Head(q) \in P /\ Has(Tail(q), Q)) \/ Before(Tail(q), P, Q)
  <2>1. PICK i, j \in DOMAIN q : i < j /\ q[i] \in P /\ q[j] \in Q
    BY <1>6 DEF Before
  <2>2. j - 1 \in DOMAIN Tail(q) /\ Tail(q)[j - 1] \in Q
    BY <1>1, <1>2, <2>1
  <2>3. CASE i = 1
    BY <1>1, <2>1, <2>2, <2>3 DEF Has
  <2>4. CASE i # 1
    <3>1. /\ i - 1 \in DOMAIN Tail(q) /\ Tail(q)[i - 1] \in P
          /\ i - 1 < j - 1
      BY <1>1, <1>2, <2>1, <2>4
    <3> QED
      BY <2>2, <3>1 DEF Before
  <2> QED
    BY <2>3, <2>4
<1>7. ASSUME Head(q) \in P, Has(Tail(q), Q)
      PROVE  Before(q, P, Q)
  <2>1. PICK j \in DOMAIN Tail(q) : Tail(q)[j] \in Q
    BY <1>7 DEF Has
  <2>2. j + 1 \in DOMAIN q /\ q[j + 1] \in Q /\ 1 < j + 1 /\ q[1] \in P
    BY <1>1, <1>3, <1>7, <2>1
  <2> QED
    BY <1>4, <2>2 DEF Before
<1>8. ASSUME Before(Tail(q), P, Q)
      PROVE  Before(q, P, Q)
  <2>1. PICK i, j \in DOMAIN Tail(q) :
               i < j /\ Tail(q)[i] \in P /\ Tail(q)[j] \in Q
    BY <1>8 DEF Before
  <2>2. /\ i + 1 \in DOMAIN q /\ j + 1 \in DOMAIN q /\ i + 1 < j + 1
        /\ q[i + 1] \in P /\ q[j + 1] \in Q
    BY <1>1, <1>3, <2>1
  <2> QED
    BY <2>2 DEF Before
<1> QED
  BY <1>5, <1>6, <1>7, <1>8

LEMMA ConcatOrder ==
  ASSUME NEW S, NEW q \in Seq(S), NEW r \in Seq(S), NEW P, NEW Q
  PROVE  /\ Has(q \o r, P) <=> Has(q, P) \/ Has(r, P)
         /\ Before(q \o r, P, Q) <=> \/ Before(q, P, Q)
                                     \/ Has(q, P) /\ Has(r, Q)
                                     \/ Before(r, P, Q)
<1> DEFINE n == Len(q)
           s == q \o r
<1>1. /\ n \in Nat /\ Len(r) \in Nat
      /\ DOMAIN q = 1 .. n /\ DOMAIN r = 1 .. Len(r)
      /\ DOMAIN s = 1 .. n + Len(r)
      /\ \A i \in 1 .. n + Len(r) : s[i] = IF i <= n THEN q[i] ELSE r[i - n]
  BY ConcatProperties, LenProperties
<1> HIDE DEF n, s
<1>2. \A i \in DOMAIN q : i \in DOMAIN s /\ s[i] = q[i] /\ i <= n
  BY <1>1
<1>3. \A i \in DOMAIN r : n + i \in DOMAIN s /\ s[n + i] = r[i] /\ n + i > n
  BY <1>1
<1>4. \A i \in DOMAIN s : \/ i \in DOMAIN q /\ s[i] = q[i]
                          \/ i > n /\ i - n \in DOMAIN r /\ s[i] = r[i - n]
  BY <1>1
<1>5. Has(s, P) <=> Has(q, P) \/ Has(r, P)
  BY <1>2, <1>3, <1>4 DEF Has
<1>6. ASSUME Before(s, P, Q)
      PROVE  Before(q, P, Q) \/ (Has(q, P) /\ Has(r, Q)) \/ Before(r, P, Q)
  <2>1. PICK i, j \in DOMAIN s : i < j /\ s[i] \in P /\ s[j] \in Q
    BY <1>6 DEF Before
  <2>2. CASE j <= n
    <3>1. i \in DOMAIN q /\ j \in DOMAIN q
      BY <1>1, <2>1, <2>2
    <3>2. s[i] = q[i] /\ s[j] = q[j]
      BY <1>2, <3>1
    <3> QED
      BY <2>1, <3>1, <3>2 DEF Before
  <2>3. CASE j > n /\ i <= n
    <3>1. i \in DOMAIN q /\ q[i] \in P /\ j - n \in DOMAIN r /\ r[j - n] \in Q
      BY <1>1, <2>1, <2>3
    <3> QED
      BY <3>1 DEF Has
  <2>4. CASE j > n /\ i > n
    <3>1. /\ i - n \in DOMAIN r /\ r[i - n] \in P
          /\ j - n \in DOMAIN r /\ r[j - n] \in Q /\ i - n < j - n
      BY <1>1, <2>1, <2>4
    <3> QED
      BY <3>1 DEF Before
  <2> QED
    BY <1>1, <2>1, <2>2, <2>3, <2>4
<1>7. ASSUME Before(q, P, Q)
      PROVE  Before(s, P, Q)
  BY <1>2, <1>7 DEF Before
<1>8. ASSUME Has(q, P), Has(r, Q)
      PROVE  Before(s, P, Q)
  <2>1. PICK i \in DOMAIN q : q[i] \in P
    BY <1>8 DEF Has
  <2>2. PICK j \in DOMAIN r : r[j] \in Q
    BY <1>8 DEF Has
  <2>3. i < n + j
    BY <1>1, <2>1, <2>2
  <2> QED
    BY <1>2, <1>3, <2>1, <2>2, <2>3 DEF Before
<1>9. ASSUME Before(r, P, Q)
      PROVE  Before(s, P, Q)
  <2>1. PICK i, j \in DOMAIN r : i < j /\ r[i] \in P /\ r[j] \in Q
    BY <1>9 DEF Before
  <2>2. n + i < n + j
    BY <1>1, <2>1
  <2> QED
    BY <1>3, <2>1, <2>2 DEF Before
<1> QED
  BY <1>5, <1>6, <1>7, <1>8, <1>9 DEF s

LEMMA FewOrder ==
  ASSUME NEW P, NEW Q
  PROVE  /\ ~Has(<<>>, P) /\ ~Before(<<>>, P, Q)
         /\ \A a : (Has(<<a>>, P) <=> a \in P) /\ ~Before(<<a>>, P, Q)
         /\ \A a, b : /\ Has(<<a, b>>, P) <=> a \in P \/ b \in P
                      /\ Before(<<a, b>>, P, Q) <=> a \in P /\ b \in Q
         /\ \A a, b, c :
              /\ Has(<<a, b, c>>, P) <=> a \in P \/ b \in P \/ c \in P
              /\ Before(<<a, b, c>>, P, Q)
                   <=> (a \in P /\ (b \in Q \/ c \in Q)) \/ (b \in P /\ c \in Q)
<1>1. ~Has(<<>>, P) /\ ~Before(<<>>, P, Q)
  <2>1. DOMAIN <<>> = {}
    OBVIOUS
  <2> QED
    BY <2>1 DEF Has, Before
<1>2. ASSUME NEW a
      PROVE  (Has(<<a>>, P) <=> a \in P) /\ ~Before(<<a>>, P, Q)
  <2> DEFINE q == <<a>>
  <2>1. DOMAIN q = {1} /\ q[1] = a
    OBVIOUS
  <2> HIDE DEF q
  <2>2. Has(q, P) <=> a \in P
    BY <2>1 DEF Has
  <2>3. ~Before(q, P, Q)
    BY <2>1 DEF Before
  <2> QED
    BY <2>2, <2>3 DEF q
<1>3. ASSUME NEW a, NEW b
      PROVE  /\ Has(<<a, b>>, P) <=> a \in P \/ b \in P
             /\ Before(<<a, b>>, P, Q) <=> a \in P /\ b \in Q
  <2> DEFINE q == <<a, b>>
  <2>1. DOMAIN q = {1, 2} /\ q[1] = a /\ q[2] = b
    OBVIOUS
  <2> HIDE DEF q
  <2>2. Has(q, P) <=> a \in P \/ b \in P
    BY <2>1 DEF Has
  <2>3. Before(q, P, Q) <=> a \in P /\ b \in Q
    BY <2>1 DEF Before
  <2> QED
    BY <2>2, <2>3 DEF q
<1>4. ASSUME NEW a, NEW b, NEW c
      PROVE  /\ Has(<<a, b, c>>, P) <=> a \in P \/ b \in P \/ c \in P
             /\ Before(<<a, b, c>>, P, Q)
                  <=> (a \in P /\ (b \in Q \/ c \in Q)) \/ (b \in P /\ c \in Q)
  <2> DEFINE q == <<a, b, c>>
  <2>1. DOMAIN q = {1, 2, 3} /\ q[1] = a /\ q[2] = b /\ q[3] = c
    <3>1. DOMAIN q = 1 .. 3 /\ q[1] = a /\ q[2] = b /\ q[3] = c
      OBVIOUS
    <3>2. 1 .. 3 = {1, 2, 3}
      OBVIOUS
    <3> QED
      BY <3>1, <3>2
  <2> HIDE DEF q
  <2>2. Has(q, P) <=> a \in P \/ b \in P \/ c \in P
    BY <2>1 DEF Has
  <2>3. Before(q, P, Q)
          <=> (a \in P /\ (b \in Q \/ c \in Q)) \/ (b \in P /\ c \in Q)
    BY <2>1 DEF Before
  <2> QED
    BY <2>2, <2>3 DEF q
<1> QED
  BY <1>1, <1>2, <1>3, <1>4

\* A sequence of one.
LEMMA OneHas ==
  ASSUME NEW a, NEW P
  PROVE  Has(<<a>>, P) <=> a \in P
<1> DEFINE q == <<a>>
<1>1. DOMAIN q = {1} /\ q[1] = a
  OBVIOUS
<1> HIDE DEF q
<1>2. Has(q, P) <=> a \in P
  BY <1>1 DEF Has
<1> QED
  BY <1>2 DEF q

-----------------------------------------------------------------------------
(***************************************************************************)
(* What is under way about a task t, and the invariant.                    *)
(***************************************************************************)
About(t) == {e \in Event : e.type = "statusUpdate" /\ e.task = t}
Lost(t)  == {e \in About(t) : e.state = "LOST"}
Alive(t) == {e \in About(t) : e.state # "LOST"}
Up(t)    == {e \in About(t) : e.state \in {"RUNNING", "FINISHED"}}

Here(h)     == {o \in Offer : o.host = h}
Offered(h)  == OfferEvents(Here(h))
Declines(h) == {c \in Call : c.call = "declineOffer" /\ c.offer.host = h}
Launches(t) == {c \in Call : /\ c.call = "launchTasks"
                             /\ c.offer.host = t.host
                             /\ t.service \in ServicesOf(c.tasks)}
Asks(t)     == {c \in Call : c.call = "reconcile" /\ t \in c.tasks}
AsksAll     == {c \in Call : c.call = "reconcile" /\ c.tasks = {}}
KillsOf(t)  == {c \in Call : c.call = "killTask" /\ t \in c.tasks}

\* resourceOffers is about to launch t.
InHandFor(t) == /\ building.offer.host = t.host
                /\ t.service \in building.todo \cup ServicesOf(building.made)

\* The scheduler records t as the task of its singleton.
Own(t) == singletons[t.service] = RunningAs(t.host)

(***************************************************************************)
(* A singleton is recorded before its launch is on the way, and as long as *)
(* its task is active or such an update waits.  The record goes with an    *)
(* update that the task is lost; so while one waits the task must not be   *)
(* there again, nor be going to: an offer that could do it is either       *)
(* behind that update, or it finds the record.  A reconciliation that asks *)
(* for t is no danger: the offer of the host is declined right after it.   *)
(***************************************************************************)
SingleOK(t) ==
  /\ Active(t) \/ Has(driver, Launches(t)) \/ Has(mailbox, Alive(t)) => Own(t)
  /\ Has(mailbox, Lost(t)) =>
       ~Active(t) /\ ~Has(driver, Launches(t)) /\ ~InHandFor(t)
  /\ ~Before(mailbox, Lost(t), Alive(t))
  /\ Before(mailbox, Offered(t.host), Lost(t)) =>
       Own(t) /\ ~Before(mailbox, Lost(t), Offered(t.host))
  /\ Has(driver, Asks(t)) =>
       /\ Has(driver, Declines(t.host))
       /\ ~Before(driver, Declines(t.host), Asks(t))
  /\ ~Has(driver, KillsOf(t))

SingletonTask == {t \in TaskId : t.service \in Singletons}

\* No one kills a singleton: a version was deployed before it was launched.
Versioned ==
  /\ building # Idle => target_version # NoVersion
  /\ \A s \in Singletons :
       singletons[s].state = "RUNNING" => target_version # NoVersion

SingleInv ==
  incarnation = 0 => Versioned /\ \A t \in SingletonTask : SingleOK(t)

(***************************************************************************)
(* The agents stay; of a host no two offers are under way, also when the   *)
(* connection broke and Mesos has forgotten them.                          *)
(***************************************************************************)
Calm ==
  /\ agents = SlaveOf
  /\ \A h \in DOMAIN SlaveOf : HeldOf(OffersOf(h)) <= 1

(***************************************************************************)
(* What is assumed of Mesos: it sends no status update again, and no agent *)
(* comes back under another id.  An old update may say that a lost task    *)
(* runs; the offer of an agent that comes back overtakes the answer to a   *)
(* reconciliation, which then says of a task launched on it that it is     *)
(* lost.                                                                   *)
(***************************************************************************)
Repeats == ResendUpdate \/ \E h \in Hosts : AgentReturns(h)

-----------------------------------------------------------------------------
(***************************************************************************)
(* What the invariant asks of a callback, and of a step of Mesos.          *)
(***************************************************************************)
LEMMA CallbackKeepsSingle ==
  ASSUME NEW t \in TaskId, SingleOK(t), tasks' = tasks,
         mailbox \in Seq(Event), mailbox # <<>>, mailbox' = Tail(mailbox),
         driver \in Seq(Call), NEW r \in Seq(Call), driver' = driver \o r,
         Own(t) => Own(t)' \/ Head(mailbox) \in Lost(t),
         InHandFor(t)' =>
           InHandFor(t) \/ (Head(mailbox) \in Offered(t.host) /\ ~Own(t)),
         ~Has(r, Launches(t)), ~Has(r, KillsOf(t)),
         Has(r, Asks(t)) => /\ ~Has(driver, Declines(t.host))
                            /\ Has(r, Declines(t.host))
                            /\ ~Before(r, Declines(t.host), Asks(t))
  PROVE  SingleOK(t)'
<1> DEFINE h == t.host
<1>1. /\ Has(mailbox, Lost(t))
           <=> (Head(mailbox) \in Lost(t) \/ Has(mailbox', Lost(t)))
      /\ Has(mailbox, Alive(t))
           <=> (Head(mailbox) \in Alive(t) \/ Has(mailbox', Alive(t)))
      /\ Before(mailbox, Lost(t), Alive(t))
           <=> \/ Head(mailbox) \in Lost(t) /\ Has(mailbox', Alive(t))
               \/ Before(mailbox', Lost(t), Alive(t))
      /\ Before(mailbox, Offered(h), Lost(t))
           <=> \/ Head(mailbox) \in Offered(h) /\ Has(mailbox', Lost(t))
               \/ Before(mailbox', Offered(h), Lost(t))
      /\ Before(mailbox, Lost(t), Offered(h))
           <=> \/ Head(mailbox) \in Lost(t) /\ Has(mailbox', Offered(h))
               \/ Before(mailbox', Lost(t), Offered(h))
      /\ Before(mailbox', Offered(h), Lost(t)) => Has(mailbox', Offered(h))
  BY TailOrder, BeforeHas
<1>2. /\ \A P : Has(driver', P) <=> (Has(driver, P) \/ Has(r, P))
      /\ Before(driver', Declines(h), Asks(t))
           <=> \/ Before(driver, Declines(h), Asks(t))
               \/ Has(driver, Declines(h)) /\ Has(r, Asks(t))
               \/ Before(r, Declines(h), Asks(t))
      /\ Before(r, Declines(h), Asks(t)) => Has(r, Asks(t))
      /\ Before(driver, Declines(h), Asks(t)) => Has(driver, Declines(h))
  BY ConcatOrder, BeforeHas
<1>3. Active(t)' = Active(t)
  BY DEF Active
<1> HIDE DEF h
<1>4. Active(t)' \/ Has(driver, Launches(t))' \/ Has(mailbox, Alive(t))'
        => Own(t)'
  BY <1>1, <1>2, <1>3 DEF SingleOK
<1>5. Has(mailbox, Lost(t))' =>
        ~Active(t)' /\ ~Has(driver, Launches(t))' /\ ~InHandFor(t)'
  BY <1>1, <1>2, <1>3 DEF SingleOK, h
<1>6. ~Before(mailbox, Lost(t), Alive(t))'
  BY <1>1 DEF SingleOK
<1>7. Before(mailbox, Offered(h), Lost(t))' =>
        Own(t)' /\ ~Before(mailbox, Lost(t), Offered(h))'
  BY <1>1 DEF SingleOK, h
<1>8. Has(driver, Asks(t))' => /\ Has(driver, Declines(h))'
                               /\ ~Before(driver, Declines(h), Asks(t))'
  <2>1. /\ Has(driver', Asks(t)) <=> (Has(driver, Asks(t)) \/ Has(r, Asks(t)))
        /\ Has(driver', Declines(h))
             <=> (Has(driver, Declines(h)) \/ Has(r, Declines(h)))
    BY <1>2
  <2>2. Has(driver, Asks(t)) => /\ Has(driver, Declines(h))
                                /\ ~Before(driver, Declines(h), Asks(t))
    BY DEF SingleOK, h
  <2>3. Has(r, Asks(t)) => /\ ~Has(driver, Declines(h)) /\ Has(r, Declines(h))
                           /\ ~Before(r, Declines(h), Asks(t))
    BY DEF h
  <2> QED
    BY <1>2, <2>1, <2>2, <2>3
<1>9. ~Has(driver, KillsOf(t))'
  BY <1>2 DEF SingleOK
<1> QED
  BY <1>4, <1>5, <1>6, <1>7, <1>8, <1>9 DEF SingleOK, h

LEMMA MesosKeepsSingle ==
  ASSUME NEW t \in TaskId, SingleOK(t), Own(t)' = Own(t),
         InHandFor(t)' = InHandFor(t),
         mailbox \in Seq(Event), NEW es \in Seq(Event), mailbox' = mailbox \o es,
         driver \in Seq(Call),
         driver' = driver \/ (driver # <<>> /\ driver' = Tail(driver)),
         Active(t)' => Active(t) \/ Has(driver, Launches(t)),
         Has(es, Alive(t)) => Active(t),
         Has(es, Lost(t)) =>
           /\ ~Active(t)' /\ ~Has(driver', Launches(t)) /\ ~InHandFor(t)
           /\ ~Has(es, Alive(t)) /\ ~Has(es, Offered(t.host))
           /\ Active(t) \/ ~Has(mailbox, Offered(t.host)),
         Has(es, Offered(t.host)) => ~Has(mailbox, Offered(t.host))
  PROVE  SingleOK(t)'
<1> DEFINE h == t.host
<1>1. /\ \A P : Has(mailbox', P) <=> (Has(mailbox, P) \/ Has(es, P))
      /\ \A P, Q : Before(mailbox', P, Q) <=> \/ Before(mailbox, P, Q)
                                              \/ Has(mailbox, P) /\ Has(es, Q)
                                              \/ Before(es, P, Q)
  BY ConcatOrder
<1>2. /\ \A P, Q : Before(mailbox, P, Q) => Has(mailbox, P) /\ Has(mailbox, Q)
      /\ \A P, Q : Before(es, P, Q) => Has(es, P) /\ Has(es, Q)
  BY BeforeHas
<1>3. \A P : Has(driver', P) => Has(driver, P)
  BY TailOrder
<1> HIDE DEF h
<1>4. Active(t)' \/ Has(driver, Launches(t))' \/ Has(mailbox, Alive(t))'
        => Own(t)'
  BY <1>1, <1>3 DEF SingleOK
<1>5. Has(mailbox, Lost(t))' =>
        ~Active(t)' /\ ~Has(driver, Launches(t))' /\ ~InHandFor(t)'
  BY <1>1, <1>3 DEF SingleOK
<1>6. ~Before(mailbox, Lost(t), Alive(t))'
  BY <1>1, <1>2 DEF SingleOK
<1>7. Before(mailbox, Offered(h), Lost(t))' =>
        Own(t)' /\ ~Before(mailbox, Lost(t), Offered(h))'
  BY <1>1, <1>2 DEF SingleOK, h
<1>8. Has(driver, Asks(t))' => /\ Has(driver, Declines(h))'
                               /\ ~Before(driver, Declines(h), Asks(t))'
  <2>1. CASE driver' = driver
    BY <2>1 DEF SingleOK, h
  <2>2. CASE driver # <<>> /\ driver' = Tail(driver)
    <3>1. /\ Has(driver, Asks(t))
               <=> (Head(driver) \in Asks(t) \/ Has(driver', Asks(t)))
          /\ Has(driver, Declines(h))
               <=> (Head(driver) \in Declines(h) \/ Has(driver', Declines(h)))
          /\ Before(driver, Declines(h), Asks(t))
               <=> \/ Head(driver) \in Declines(h) /\ Has(driver', Asks(t))
                   \/ Before(driver', Declines(h), Asks(t))
      BY <2>2, TailOrder
    <3> QED
      BY <3>1 DEF SingleOK, h
  <2> QED
    BY <2>1, <2>2
<1>9. ~Has(driver, KillsOf(t))'
  BY <1>3 DEF SingleOK
<1> QED
  BY <1>4, <1>5, <1>6, <1>7, <1>8, <1>9 DEF SingleOK, h

-----------------------------------------------------------------------------
(***************************************************************************)
(* Where the offer of a host is.                                           *)
(***************************************************************************)
LEMMA PlacesCounted ==
  ASSUME NEW S, NEW q \in Seq(S), NEW P, NEW i \in DOMAIN q, q[i] \in P
  PROVE  /\ Cardinality(At(q, P)) >= 1
         /\ \A j \in DOMAIN q : j # i /\ q[j] \in P => Cardinality(At(q, P)) >= 2
<1> DEFINE A == At(q, P)
<1>1. IsFiniteSet(A) /\ Cardinality(A) \in Nat
  BY PlacesFinite
<1>2. i \in A
  BY DEF At
<1>3. /\ IsFiniteSet(A \ {i}) /\ Cardinality(A \ {i}) \in Nat
      /\ Cardinality(A \ {i}) = Cardinality(A) - 1
  <2>1. IsFiniteSet(A \ {i}) /\ Cardinality(A \ {i}) = Cardinality(A) - 1
    BY <1>1, <1>2, FS_RemoveElement
  <2> QED
    BY <2>1, FS_CardinalityType
<1>4. ASSUME NEW j \in DOMAIN q, j # i, q[j] \in P
      PROVE  Cardinality(A) >= 2
  <2>1. j \in A \ {i}
    BY <1>4 DEF At
  <2>2. Cardinality(A \ {i}) # 0
    BY <1>3, <2>1, FS_EmptySet
  <2> HIDE DEF A
  <2> QED
    BY <1>1, <1>3, <2>2
<1>5. Cardinality(A) >= 1
  <2> HIDE DEF A
  <2> QED
    BY <1>1, <1>3
<1> QED
  BY <1>4, <1>5

\* While the agents stay, all the offers held are of those.
LEMMA HeldIsValid ==
  ASSUME ClusterInv, Calm, NEW o \in Offer,
         \/ \E i \in DOMAIN mailbox : mailbox[i] \in OfferEvents({o})
         \/ building # Idle /\ building.offer = o
         \/ \E i \in DOMAIN driver : driver[i] \in Answers({o})
  PROVE  o.host \in DOMAIN SlaveOf /\ o \in OffersOf(o.host) /\ o \notin Misfits
<1>1. None(Strays) /\ None(Misfits)
  BY NoneHeld DEF ClusterInv, OffersInv
<1>2. o \notin Strays /\ o \notin Misfits
  BY <1>1 DEF None, OfferEvents, Answers
<1>3. o.host \in DOMAIN SlaveOf /\ o.slave = agents[o.host]
  BY <1>2 DEF Strays, Calm
<1> QED
  BY <1>2, <1>3 DEF OffersOf, ValidOffer

LEMMA OnePlace ==
  ASSUME ClusterInv, Calm, NEW h \in Hosts
  PROVE  /\ Has(mailbox, Offered(h)) =>
              /\ connected => h \in offered
              /\ building.offer.host # h /\ ~Has(driver, Answers(Here(h)))
         /\ Has(driver, Answers(Here(h))) => building.offer.host # h
         /\ \A i, j \in DOMAIN driver :
              driver[i] \in Answers(Here(h)) /\ driver[j] \in Answers(Here(h))
                => i = j
<1> DEFINE O == OffersOf(h)
<1>1. /\ mailbox \in Seq(Event) /\ driver \in Seq(Call) /\ Inv /\ h # NoHost
      /\ DOMAIN mailbox = 1 .. Len(mailbox) /\ DOMAIN driver = 1 .. Len(driver)
  BY SchedulerAssumption, LenProperties DEF ClusterInv, Inv, TypeOK
<1>2. ASSUME NEW i \in DOMAIN mailbox, mailbox[i] \in Offered(h)
      PROVE  mailbox[i] \in OfferEvents(O) /\ h \in DOMAIN SlaveOf
  <2>1. PICK o \in Here(h) : mailbox[i] \in OfferEvents({o})
    BY <1>2 DEF Offered, OfferEvents
  <2>2. o \in Offer /\ o.host = h
    BY DEF Here
  <2>3. h \in DOMAIN SlaveOf /\ o \in O
    BY <2>1, <2>2, HeldIsValid
  <2> QED
    BY <2>1, <2>3 DEF OfferEvents
<1>3. ASSUME NEW i \in DOMAIN driver, driver[i] \in Answers(Here(h))
      PROVE  driver[i] \in Answers(O) /\ h \in DOMAIN SlaveOf
  <2>1. PICK o \in Here(h) : driver[i] \in Answers({o})
    BY <1>3 DEF Answers
  <2>2. o \in Offer /\ o.host = h
    BY DEF Here
  <2>3. h \in DOMAIN SlaveOf /\ o \in O
    BY <2>1, <2>2, HeldIsValid
  <2> QED
    BY <2>1, <2>3 DEF Answers
<1>4. ASSUME building.offer.host = h
      PROVE  InHand(O) = 1 /\ h \in DOMAIN SlaveOf
  <2>1. building # Idle
    BY <1>1, <1>4 DEF Idle, NoOffer
  <2>2. building.offer \in Offer
    BY <1>1, <2>1, OfferInHand
  <2>3. h \in DOMAIN SlaveOf /\ building.offer \in O
    BY <1>4, <2>1, <2>2, HeldIsValid
  <2> QED
    BY <2>1, <2>3 DEF InHand, One
<1>5. h \in DOMAIN SlaveOf =>
        /\ Waiting(O) + InHand(O) + Answered(O) <= 1
        /\ connected /\ h \notin offered =>
             Waiting(O) + InHand(O) + Answered(O) = 0
  BY DEF ClusterInv, OffersInv, HeldOf, One, Calm
<1>6. Waiting(O) \in Nat /\ InHand(O) \in {0, 1} /\ Answered(O) \in Nat
  BY <1>1, HeldNat
<1>7. ASSUME Has(mailbox, Offered(h))
      PROVE  Waiting(O) >= 1 /\ h \in DOMAIN SlaveOf
  <2>1. PICK i \in DOMAIN mailbox : mailbox[i] \in Offered(h)
    BY <1>7 DEF Has
  <2>2. mailbox[i] \in OfferEvents(O) /\ h \in DOMAIN SlaveOf
    BY <1>2, <2>1
  <2> HIDE DEF O
  <2> QED
    BY <1>1, <2>2, PlacesCounted DEF Waiting
<1>8. ASSUME Has(driver, Answers(Here(h)))
      PROVE  Answered(O) >= 1 /\ h \in DOMAIN SlaveOf
  <2>1. PICK i \in DOMAIN driver : driver[i] \in Answers(Here(h))
    BY <1>8 DEF Has
  <2>2. driver[i] \in Answers(O) /\ h \in DOMAIN SlaveOf
    BY <1>3, <2>1
  <2> HIDE DEF O
  <2> QED
    BY <1>1, <2>2, PlacesCounted DEF Answered
<1>9. ASSUME NEW i \in DOMAIN driver, NEW j \in DOMAIN driver, i # j,
             driver[i] \in Answers(Here(h)), driver[j] \in Answers(Here(h))
      PROVE  FALSE
  <2>1. /\ driver[i] \in Answers(O) /\ driver[j] \in Answers(O)
        /\ h \in DOMAIN SlaveOf
    BY <1>3, <1>9
  <2> HIDE DEF O
  <2>2. Answered(O) >= 2
    BY <1>1, <1>9, <2>1, PlacesCounted DEF Answered
  <2> QED
    BY <1>5, <1>6, <2>1, <2>2
<1> HIDE DEF O
<1>10. ASSUME Has(mailbox, Offered(h))
       PROVE  /\ connected => h \in offered
              /\ building.offer.host # h /\ ~Has(driver, Answers(Here(h)))
  BY <1>4, <1>5, <1>6, <1>7, <1>8, <1>10
<1>11. ASSUME Has(driver, Answers(Here(h)))
       PROVE  building.offer.host # h
  BY <1>4, <1>5, <1>6, <1>8, <1>11
<1> QED
  BY <1>9, <1>10, <1>11

\* How the calls that answer offers of a host are told apart.
LEMMA AnswersNamed ==
  /\ \A h : Declines(h) \subseteq Answers(Here(h))
  /\ \A t : Launches(t) \subseteq Answers(Here(t.host))
  /\ \A h, t : Declines(h) \cap Launches(t) = {}
<1>1. \A c \in Call : c.call \in {"declineOffer", "launchTasks"}
                        => c.offer \in Offer
  BY DEF Call
<1> QED
  BY <1>1 DEF Declines, Launches, Answers, Here

\* An offer that is declined is not used, and does not wait.
LEMMA DeclinedIsGone ==
  ASSUME ClusterInv, Calm, NEW t \in TaskId, Has(driver, Declines(t.host))
  PROVE  /\ ~Has(driver, Launches(t)) /\ ~InHandFor(t)
         /\ ~Has(mailbox, Offered(t.host))
<1>1. t.host \in Hosts
  BY DEF TaskId
<1>2. PICK i \in DOMAIN driver : driver[i] \in Declines(t.host)
  BY DEF Has
<1>3. driver[i] \in Answers(Here(t.host)) /\ driver[i] \notin Launches(t)
  BY <1>2, AnswersNamed
<1>4. ASSUME NEW j \in DOMAIN driver, driver[j] \in Launches(t)
      PROVE  FALSE
  <2>1. driver[j] \in Answers(Here(t.host))
    BY <1>4, AnswersNamed
  <2>2. i = j
    BY <1>1, <1>3, <2>1, OnePlace
  <2> QED
    BY <1>3, <1>4, <2>2
<1>5. Has(driver, Answers(Here(t.host)))
  BY <1>3 DEF Has
<1> QED
  BY <1>1, <1>4, <1>5, OnePlace DEF Has, InHandFor

\* While an offer waits, no other of its host is declined.
LEMMA WaitingIsKept ==
  ASSUME ClusterInv, Calm, NEW h \in Hosts, Has(mailbox, Offered(h))
  PROVE  /\ ~Has(driver, Declines(h)) /\ building.offer.host # h
         /\ connected => h \in offered
BY AnswersNamed, OnePlace DEF Has

(***************************************************************************)
(* A task that has ports is not launched while it is active.               *)
(***************************************************************************)
LEMMA HandFree ==
  ASSUME ClusterInv, Calm, NEW t \in TaskId, t.service \in Ported, Active(t)
  PROVE  ~InHandFor(t) /\ ~Has(driver, Launches(t))
<1>1. /\ Inv /\ driver \in Seq(FittingCall) /\ InHandFits(building)
      /\ t.service \in Services /\ t.host \in Hosts /\ t.host # NoHost
  BY SchedulerAssumption DEF ClusterInv, FitInv, TaskId
<1>2. /\ t.service \in ServicesAt(t.host) /\ Ports[t.service] # {}
  BY <1>1, SchedulerAssumption DEF ServicesAt, On, Held
<1>3. ASSUME NEW o \in Offer, o.host = t.host, o \in OffersOf(o.host),
             o \notin Misfits
      PROVE  ~ (Ports[t.service] \subseteq o.ports)
  <2>1. o.ports \cap PortsOf(ServicesAt(t.host)) = {}
    BY <1>3 DEF Misfits, OffersOf
  <2>2. Ports[t.service] \subseteq PortsOf(ServicesAt(t.host))
    BY <1>2 DEF PortsOf
  <2> QED
    BY <1>2, <2>1, <2>2
<1>4. ASSUME InHandFor(t) PROVE FALSE
  <2>1. building # Idle
    BY <1>1, <1>4 DEF InHandFor, Idle, NoOffer
  <2>2. building.offer \in Offer /\ building.offer.host = t.host
    BY <1>1, <1>4, <2>1, OfferInHand DEF InHandFor
  <2>3. building.offer \in OffersOf(building.offer.host)
          /\ building.offer \notin Misfits
    BY <2>1, <2>2, HeldIsValid
  <2>4. Ports[t.service] \subseteq building.offer.ports
    BY <1>1, <1>4 DEF InHandFor, InHandFits, SetFits, PortsOf
  <2> QED
    BY <1>3, <2>2, <2>3, <2>4
<1>5. ASSUME Has(driver, Launches(t)) PROVE FALSE
  <2>1. PICK i \in DOMAIN driver : driver[i] \in Launches(t)
    BY <1>5 DEF Has
  <2>2. driver[i] \in FittingCall
    BY <1>1, <2>1
  <2> DEFINE o == driver[i].offer
  <2>3. /\ o \in Offer /\ o.host = t.host /\ driver[i] \in Answers({o})
        /\ Ports[t.service] \subseteq o.ports
    BY <2>1, <2>2
      DEF Launches, FittingCall, TasksFit, SetFits, PortsOf, Call, Answers
  <2>4. o \in OffersOf(o.host) /\ o \notin Misfits
    BY <2>3, HeldIsValid
  <2> QED
    BY <1>3, <2>3, <2>4
<1> QED
  BY <1>4, <1>5

-----------------------------------------------------------------------------
(***************************************************************************)
(* The calls of a callback, as far as they concern a singleton's task.     *)
(***************************************************************************)
LEMMA CallsConcern ==
  ASSUME NEW t \in SingletonTask, NEW o \in Offer
  PROVE  /\ ReconcileAll \notin Launches(t) \cup KillsOf(t) \cup Asks(t)
         /\ Decline(o) \notin Launches(t) \cup KillsOf(t) \cup Asks(t)
         /\ o.host = t.host => Decline(o) \in Declines(t.host)
         /\ Probe(o.slave)
              \notin Launches(t) \cup KillsOf(t) \cup Asks(t) \cup Declines(t.host)
         /\ ReconcileHost(o.host)
              \notin Launches(t) \cup KillsOf(t) \cup Declines(t.host)
         /\ ReconcileHost(o.host) \in Asks(t) => o.host = t.host
         /\ Launch(o, {[service |-> Prober, version |-> NoVersion]})
              \notin Launches(t) \cup KillsOf(t) \cup Asks(t)
<1>1. t.service # Prober
  BY SchedulerAssumption DEF SingletonTask
<1>2. Decline(o) \in Call
  BY CallsTyped
<1> QED
  BY <1>1, <1>2
    DEF ReconcileAll, Decline, Probe, ReconcileHost, Launch, Launches, KillsOf,
        Asks, Declines, ServicesOf

LEMMA KillsConcern ==
  ASSUME NEW t, NEW ts, t \notin ts
  PROVE  /\ ~Has(Kills(ts), Launches(t)) /\ ~Has(Kills(ts), KillsOf(t))
         /\ ~Has(Kills(ts), Asks(t))
<1> DEFINE c == [call |-> "killTask", tasks |-> ts]
<1>1. c \notin Launches(t) /\ c \notin KillsOf(t) /\ c \notin Asks(t)
  BY DEF Launches, KillsOf, Asks
<1>2. Kills(ts) = <<>> \/ Kills(ts) = <<c>>
  BY DEF Kills
<1> HIDE DEF c
<1> QED
  BY <1>1, <1>2, FewOrder

\* A callback that touches neither the singletons nor the list of tasks.
LEMMA PlainCallback ==
  ASSUME ClusterInv, Versioned, \A t \in SingletonTask : SingleOK(t),
         NEW type, TakeEvent(type), tasks' = tasks,
         singletons' = singletons, building' = building,
         NEW r \in Seq(Call), driver' = driver \o r,
         \A t \in SingletonTask :
           /\ ~Has(r, Launches(t)) /\ ~Has(r, KillsOf(t))
           /\ Has(r, Asks(t)) => /\ ~Has(driver, Declines(t.host))
                                 /\ Has(r, Declines(t.host))
                                 /\ ~Before(r, Declines(t.host), Asks(t))
  PROVE  Versioned' /\ \A t \in SingletonTask : SingleOK(t)'
<1>1. /\ mailbox \in Seq(Event) /\ driver \in Seq(Call)
      /\ mailbox # <<>> /\ mailbox' = Tail(mailbox)
      /\ target_version' = target_version
  BY DEF ClusterInv, Inv, TypeOK, TakeEvent
<1>2. ASSUME NEW t \in SingletonTask
      PROVE  SingleOK(t)'
  <2>1. t \in TaskId /\ SingleOK(t)
    BY DEF SingletonTask
  <2>2. Own(t)' = Own(t) /\ InHandFor(t)' = InHandFor(t)
    BY DEF Own, InHandFor
  <2> QED
    BY <1>1, <2>1, <2>2, CallbackKeepsSingle
<1> QED
  BY <1>1, <1>2 DEF Versioned

LEMMA OffersKeepSingle ==
  ASSUME ClusterInv, Calm, Versioned, \A t \in SingletonTask : SingleOK(t),
         tasks' = tasks,
         Registered \/ IgnoreHost \/ MeetHost \/ StartProber \/ ProbeHost
           \/ KillServices
  PROVE  Versioned' /\ \A t \in SingletonTask : SingleOK(t)'
<1>1. TypeOK /\ Inv /\ singletons' = singletons /\ building' = building
  BY DEF Registered, IgnoreHost, MeetHost, StartProber, ProbeHost, KillServices,
         ClusterInv, Inv
<1>2. CASE Registered
  <2> DEFINE r == <<ReconcileAll>>
  <2>1. TakeEvent("registered") /\ driver' = Append(driver, ReconcileAll)
    BY <1>2 DEF Registered
  <2>2. ReconcileAll \in Call
    BY DEF ReconcileAll, Call
  <2>3. driver' = driver \o r /\ r \in Seq(Call)
    BY <1>1, <2>1, <2>2, AppendIsConcat DEF TypeOK
  <2>4. ASSUME NEW t \in SingletonTask
        PROVE  ~Has(r, Launches(t)) /\ ~Has(r, KillsOf(t)) /\ ~Has(r, Asks(t))
    <3>1. /\ ReconcileAll \notin Launches(t) /\ ReconcileAll \notin KillsOf(t)
          /\ ReconcileAll \notin Asks(t)
      BY DEF ReconcileAll, Launches, KillsOf, Asks
    <3> QED
      BY <3>1, FewOrder
  <2> HIDE DEF r
  <2> QED
    BY <1>1, <2>1, <2>3, <2>4, PlainCallback
<1>3. CASE ~Registered
  <2> DEFINE o == Head(mailbox).offer
             d == Decline(o)
             a == ReconcileHost(o.host)
             p == Probe(o.slave)
             l == Launch(o, {[service |-> Prober, version |-> NoVersion]})
  <2>1. NextEvent("resourceOffers") /\ TakeEvent("resourceOffers")
    BY <1>3, NextIsTaken
      DEF IgnoreHost, MeetHost, StartProber, ProbeHost, KillServices
  <2>2. /\ o \in Offer /\ o.host \in Hosts /\ driver \in Seq(Call)
        /\ d \in Call /\ a \in Call /\ p \in Call
    BY <1>1, <2>1, OfferTaken, CallsTyped DEF TypeOK, Offer
  <2>3. l \in Call
    BY <2>2, CallsTyped DEF Task, Services, NodeServices
  <2>4. ASSUME NEW t \in SingletonTask
        PROVE  /\ d \notin Launches(t) \cup KillsOf(t) \cup Asks(t)
               /\ p \notin Launches(t) \cup KillsOf(t) \cup Asks(t)
                             \cup Declines(t.host)
               /\ a \notin Launches(t) \cup KillsOf(t) \cup Declines(t.host)
               /\ l \notin Launches(t) \cup KillsOf(t) \cup Asks(t)
               /\ a \in Asks(t) => o.host = t.host /\ d \in Declines(t.host)
               /\ o.host = t.host => ~Has(driver, Declines(t.host))
    <3>1. Has(mailbox, Offered(o.host))
      <4>1. Head(mailbox) \in Offered(o.host)
        BY <1>1, <2>1, <2>2, EventTaken DEF Offered, OfferEvents, Here
      <4>2. mailbox \in Seq(Event) /\ mailbox # <<>>
        BY <1>1, <2>1 DEF TypeOK, TakeEvent
      <4> QED
        BY <4>1, <4>2, TailOrder
    <3>2. ~Has(driver, Declines(o.host))
      BY <2>2, <3>1, WaitingIsKept
    <3> HIDE DEF o
    <3> QED
      BY <2>2, <3>2, CallsConcern
  <2>5. ASSUME IgnoreHost PROVE driver' = driver \o <<d>>
    BY <2>2, <2>5, AppendIsConcat DEF IgnoreHost
  <2>6. ASSUME MeetHost PROVE driver' = driver \o <<a, d>>
    BY <2>6 DEF MeetHost
  <2>7. ASSUME StartProber PROVE driver' = driver \o <<l>>
    BY <2>2, <2>3, <2>7, AppendIsConcat DEF StartProber
  <2>8. ASSUME ProbeHost PROVE driver' = driver \o <<p, a, d>>
    BY <2>8 DEF ProbeHost
  <2>9. ASSUME KillServices
        PROVE  \E ts \in SUBSET TaskId :
                 /\ driver' = driver \o Kills(ts) \o <<d>>
                 /\ \A t \in SingletonTask : t \notin ts
    <3> DEFINE ts == {[service |-> s, host |-> o.host] :
                        s \in RunningOn(nodes[o.host])}
    <3>1. driver' = driver \o Kills(ts) \o <<d>> /\ target_version = NoVersion
      BY <2>9 DEF KillServices
    <3>2. RunningOn(nodes[o.host]) \subseteq Core
      BY <3>1 DEF Versioned, RunningOn, CoreServicesRunning
    <3>3. ts \in SUBSET TaskId /\ \A t \in SingletonTask : t \notin ts
      BY <2>2, <3>2, SchedulerAssumption
        DEF TaskId, Services, NodeServices, SingletonTask
    <3> HIDE DEF ts, d, o
    <3> QED
      BY <3>1, <3>3
  <2> HIDE DEF o, d, a, p, l
  <2>10. CASE IgnoreHost
    <3> DEFINE r == <<d>>
    <3>1. r \in Seq(Call) /\ driver' = driver \o r
      BY <2>2, <2>5, <2>10
    <3>2. ASSUME NEW t \in SingletonTask
          PROVE  ~Has(r, Launches(t)) /\ ~Has(r, KillsOf(t)) /\ ~Has(r, Asks(t))
      BY <2>4, FewOrder
    <3> HIDE DEF r
    <3> QED
      BY <1>1, <2>1, <3>1, <3>2, PlainCallback
  <2>11. CASE MeetHost
    <3> DEFINE r == <<a, d>>
    <3>1. r \in Seq(Call) /\ driver' = driver \o r
      BY <2>2, <2>6, <2>11
    <3>2. ASSUME NEW t \in SingletonTask
          PROVE  /\ ~Has(r, Launches(t)) /\ ~Has(r, KillsOf(t))
                 /\ Has(r, Asks(t)) => /\ ~Has(driver, Declines(t.host))
                                       /\ Has(r, Declines(t.host))
                                       /\ ~Before(r, Declines(t.host), Asks(t))
      <4>1. \A P, Q : /\ Has(r, P) <=> (a \in P \/ d \in P)
                      /\ Before(r, P, Q) <=> (a \in P /\ d \in Q)
        BY FewOrder
      <4> HIDE DEF r
      <4> QED
        BY <2>4, <4>1
    <3> HIDE DEF r
    <3> QED
      BY <1>1, <2>1, <3>1, <3>2, PlainCallback
  <2>12. CASE StartProber
    <3> DEFINE r == <<l>>
    <3>1. r \in Seq(Call) /\ driver' = driver \o r
      BY <2>3, <2>7, <2>12
    <3>2. ASSUME NEW t \in SingletonTask
          PROVE  ~Has(r, Launches(t)) /\ ~Has(r, KillsOf(t)) /\ ~Has(r, Asks(t))
      BY <2>4, FewOrder
    <3> HIDE DEF r
    <3> QED
      BY <1>1, <2>1, <3>1, <3>2, PlainCallback
  <2>13. CASE ProbeHost
    <3> DEFINE r == <<p, a, d>>
    <3>1. r \in Seq(Call) /\ driver' = driver \o r
      BY <2>2, <2>8, <2>13
    <3>2. ASSUME NEW t \in SingletonTask
          PROVE  /\ ~Has(r, Launches(t)) /\ ~Has(r, KillsOf(t))
                 /\ Has(r, Asks(t)) => /\ ~Has(driver, Declines(t.host))
                                       /\ Has(r, Declines(t.host))
                                       /\ ~Before(r, Declines(t.host), Asks(t))
      <4>1. \A P, Q :
              /\ Has(r, P) <=> (p \in P \/ a \in P \/ d \in P)
              /\ Before(r, P, Q)
                   <=> (p \in P /\ (a \in Q \/ d \in Q)) \/ (a \in P /\ d \in Q)
        BY FewOrder
      <4> HIDE DEF r
      <4> QED
        BY <2>4, <4>1
    <3> HIDE DEF r
    <3> QED
      BY <1>1, <2>1, <3>1, <3>2, PlainCallback
  <2>14. CASE KillServices
    <3>1. PICK ts \in SUBSET TaskId :
                 /\ driver' = driver \o Kills(ts) \o <<d>>
                 /\ \A t \in SingletonTask : t \notin ts
      BY <2>9, <2>14
    <3> DEFINE k == Kills(ts)
               e == <<d>>
               r == k \o e
    <3>2. k \in Seq(Call) /\ e \in Seq(Call)
      BY <2>2, KillsTyped
    <3>3. r \in Seq(Call) /\ driver' = driver \o r
      <4> HIDE DEF k
      <4> QED
        BY <2>2, <3>1, <3>2, ConcatAssociative DEF k
    <3>4. ASSUME NEW t \in SingletonTask
          PROVE  ~Has(r, Launches(t)) /\ ~Has(r, KillsOf(t)) /\ ~Has(r, Asks(t))
      <4>1. ~Has(k, Launches(t)) /\ ~Has(k, KillsOf(t)) /\ ~Has(k, Asks(t))
        BY <3>1, KillsConcern
      <4>2. ~Has(e, Launches(t)) /\ ~Has(e, KillsOf(t)) /\ ~Has(e, Asks(t))
        BY <2>4, FewOrder
      <4> HIDE DEF k, e
      <4> QED
        BY <3>2, <4>1, <4>2, ConcatOrder
    <3> HIDE DEF r
    <3> QED
      BY <1>1, <2>1, <3>3, <3>4, PlainCallback
  <2> QED
    BY <1>3, <2>10, <2>11, <2>12, <2>13, <2>14
<1> QED
  BY <1>2, <1>3

(***************************************************************************)
(* What statusUpdate does for the task of a singleton: as one that is      *)
(* alive is recorded already, nothing but a lost one makes a difference.   *)
(***************************************************************************)
LEMMA UpdatesKeepSingle ==
  ASSUME ClusterInv, Versioned, \A t \in SingletonTask : SingleOK(t),
         tasks' = tasks,
         UnknownService \/ ServiceUp \/ ServiceUnwanted \/ ServiceStaging
           \/ FrameworkMessage
  PROVE  Versioned' /\ \A t \in SingletonTask : SingleOK(t)'
<1> DEFINE e == Head(mailbox)
           u == e.task
<1>1. /\ TypeOK /\ Inv /\ building' = building /\ driver \in Seq(Call)
      /\ mailbox \in Seq(Event)
  BY DEF UnknownService, ServiceUp, ServiceUnwanted, ServiceStaging,
         FrameworkMessage, ClusterInv, Inv, TypeOK
<1>2. CASE UnknownService \/ FrameworkMessage
  <2>1. PICK type : TakeEvent(type)
    BY <1>2, NextIsTaken DEF UnknownService, FrameworkMessage
  <2>2. <<>> \in Seq(Call) /\ driver' = driver \o <<>> /\ singletons' = singletons
    <3>1. driver' = driver /\ singletons' = singletons
      BY <1>2 DEF UnknownService, FrameworkMessage
    <3> QED
      BY <1>1, <3>1, ConcatEmptySeq
  <2>3. \A P : ~Has(<<>>, P)
    BY FewOrder
  <2> QED
    BY <1>1, <2>1, <2>2, <2>3, PlainCallback
<1>3. CASE ServiceUp \/ ServiceUnwanted \/ ServiceStaging
  <2>1. /\ NextEvent("statusUpdate") /\ TakeEvent("statusUpdate")
        /\ e.state # "LOST"
    BY <1>3, NextIsTaken DEF ServiceUp, ServiceUnwanted, ServiceStaging
  <2>2. /\ u \in TaskId /\ e \in Event /\ e.type = "statusUpdate"
        /\ mailbox # <<>>
    BY <1>1, <2>1, UpdateTaken, EventTaken DEF TakeEvent
  <2>3. ASSUME u.service \in Singletons
        PROVE  u \in SingletonTask /\ Own(u) /\ target_version # NoVersion
    <3>1. u \in SingletonTask /\ e \in Alive(u)
      BY <2>1, <2>2, <2>3 DEF SingletonTask, Alive, About
    <3>2. Has(mailbox, Alive(u))
      BY <1>1, <2>2, <3>1, TailOrder
    <3>3. Own(u)
      BY <3>1, <3>2 DEF SingleOK
    <3> QED
      BY <2>3, <3>1, <3>3 DEF Own, RunningAs, Versioned
  <2>4. singletons' = singletons
    <3>1. CASE ServiceUp
      <4>1. \/ singletons' = singletons
            \/ /\ u.service \in Singletons
               /\ singletons' = [singletons EXCEPT ![u.service] = RunningAs(u.host)]
        BY <3>1 DEF ServiceUp, Record
      <4>2. u.service \in Singletons => singletons[u.service] = RunningAs(u.host)
        BY <2>3 DEF Own
      <4>3. singletons \in [Singletons -> ServiceState]
        BY <1>1 DEF TypeOK
      <4> HIDE DEF u
      <4> QED
        BY <4>1, <4>2, <4>3
    <3>2. CASE ~ServiceUp
      BY <1>3, <3>2 DEF ServiceUnwanted, ServiceStaging
    <3> QED
      BY <3>1, <3>2
  <2>5. \E ts, us \in SUBSET TaskId :
          /\ driver' = driver \o (Kills(ts) \o Kills(us))
          /\ \A t \in SingletonTask : t \notin ts /\ t \notin us
    <3> DEFINE us == {t \in {u} : /\ t.service # Prober
                                  /\ e.state \in {"STAGING", "RUNNING"}
                                  /\ target_version = NoVersion}
    <3>1. /\ us \in SUBSET TaskId /\ ShutdownKills(e) = Kills(us)
          /\ \A t \in SingletonTask : t \notin us
      BY <2>2, <2>3 DEF ShutdownKills, SingletonTask
    <3> HIDE DEF us
    <3>2. Kills(us) \in Seq(Call)
      BY <3>1, KillsTyped
    <3>3. CASE ServiceUp \/ ServiceStaging
      <4>1. driver' = driver \o Kills(us)
        BY <3>1, <3>3 DEF ServiceUp, ServiceStaging
      <4>2. Kills({}) \o Kills(us) = Kills(us)
        BY <3>2, ConcatEmptySeq DEF Kills
      <4>3. {} \in SUBSET TaskId /\ \A t \in SingletonTask : t \notin {}
        OBVIOUS
      <4> QED
        BY <3>1, <4>1, <4>2, <4>3
    <3>4. CASE ServiceUnwanted
      <4>1. /\ driver' = driver \o Kills({u}) \o Kills(us)
            /\ ~ServiceShouldRun(WithHost(e), u)
        BY <3>1, <3>4 DEF ServiceUnwanted
      <4>2. u.service \notin Singletons
        <5>1. ASSUME u.service \in Singletons
              PROVE  ServiceShouldRun(WithHost(e), u)
          <6>1. singletons[u.service] = RunningAs(u.host)
            BY <2>3, <5>1 DEF Own
          <6>2. u.service \notin Core /\ u.service # Client
            BY <5>1, SchedulerAssumption
          <6> HIDE DEF u, e
          <6> QED
            BY <5>1, <6>1, <6>2 DEF ServiceShouldRun, Slot, RunningAs
        <5> QED
          BY <4>1, <5>1
      <4>3. {u} \in SUBSET TaskId /\ \A t \in SingletonTask : t \notin {u}
        BY <2>2, <4>2 DEF SingletonTask
      <4> HIDE DEF u, e
      <4>4. Kills({u}) \in Seq(Call)
        BY <4>3, KillsTyped
      <4>5. driver' = driver \o (Kills({u}) \o Kills(us))
        BY <1>1, <3>2, <4>1, <4>4, ConcatAssociative
      <4> QED
        BY <3>1, <4>3, <4>5
    <3> QED
      BY <1>3, <3>3, <3>4
  <2>6. PICK ts, us \in SUBSET TaskId :
          /\ driver' = driver \o (Kills(ts) \o Kills(us))
          /\ \A t \in SingletonTask : t \notin ts /\ t \notin us
    BY <2>5
  <2> DEFINE r == Kills(ts) \o Kills(us)
  <2>7. Kills(ts) \in Seq(Call) /\ Kills(us) \in Seq(Call)
    BY KillsTyped
  <2>8. ASSUME NEW t \in SingletonTask
        PROVE  ~Has(r, Launches(t)) /\ ~Has(r, KillsOf(t)) /\ ~Has(r, Asks(t))
    BY <2>6, <2>7, KillsConcern, ConcatOrder
  <2>9. r \in Seq(Call) /\ driver' = driver \o r
    BY <2>6, <2>7
  <2> HIDE DEF r, u, e
  <2> QED
    BY <1>1, <2>1, <2>4, <2>8, <2>9, PlainCallback
<1> QED
  BY <1>2, <1>3

LEMMA DownKeepsSingle ==
  ASSUME ClusterInv, Versioned, \A t \in SingletonTask : SingleOK(t),
         tasks' = tasks, ServiceDown
  PROVE  Versioned' /\ \A t \in SingletonTask : SingleOK(t)'
<1> DEFINE e == Head(mailbox)
           u == e.task
<1>1. /\ TypeOK /\ SlotsAgree /\ mailbox \in Seq(Event) /\ driver \in Seq(Call)
      /\ singletons \in [Singletons -> ServiceState]
      /\ NextEvent("statusUpdate") /\ e.state = "LOST"
      /\ building' = building /\ driver' = driver
  BY DEF ServiceDown, ClusterInv, Inv, TypeOK
<1>2. /\ mailbox # <<>> /\ mailbox' = Tail(mailbox)
      /\ u \in TaskId /\ e \in Lost(u) /\ target_version' = target_version
  BY <1>1, UpdateTaken, EventTaken, NextIsTaken DEF TakeEvent, Lost, About
<1>3. \/ singletons' = singletons
      \/ /\ u.service \in Singletons
         /\ singletons[u.service].task_id \in {u.host, NoHost}
         /\ singletons' = [singletons EXCEPT ![u.service] = NotRunning]
  BY DEF ServiceDown, Record, SlotAnswersFor, Slot
<1> HIDE DEF e, u
<1>4. Versioned'
  BY <1>1, <1>2, <1>3 DEF Versioned, NotRunning
<1>5. ASSUME NEW t \in SingletonTask
      PROVE  SingleOK(t)'
  <2>1. t \in TaskId /\ t.service \in Singletons /\ t.host # NoHost
    BY SchedulerAssumption DEF SingletonTask, TaskId
  <2>2. Own(t) => Own(t)' \/ Head(mailbox) \in Lost(t)
    <3>1. CASE u = t
      BY <1>2, <3>1 DEF e
    <3>2. CASE u # t
      <4>1. u.service # t.service \/ u.host # t.host
        BY <1>2, <2>1, <3>2 DEF TaskId
      <4>2. Own(t) => /\ singletons[t.service].task_id = t.host
                      /\ singletons' # singletons => u.service # t.service
        BY <1>3, <2>1, <4>1 DEF Own, RunningAs
      <4> QED
        BY <1>1, <1>3, <2>1, <4>2 DEF Own
    <3> QED
      BY <3>1, <3>2
  <2>3. InHandFor(t)' = InHandFor(t) /\ SingleOK(t)
    BY <1>1 DEF InHandFor
  <2>4. <<>> \in Seq(Call) /\ driver' = driver \o <<>>
    BY <1>1, ConcatEmptySeq
  <2>5. \A P : ~Has(<<>>, P)
    BY FewOrder
  <2> QED
    BY <1>1, <1>2, <2>1, <2>2, <2>3, <2>4, <2>5, CallbackKeepsSingle
<1> QED
  BY <1>4, <1>5

(***************************************************************************)
(* From the choice to the launch: a singleton chosen is free, so no update *)
(* of one of its tasks is behind the offer.                                *)
(***************************************************************************)
LEMMA ChoiceKeepsSingle ==
  ASSUME ClusterInv, Versioned, \A t \in SingletonTask : SingleOK(t),
         tasks' = tasks, ChooseServices
  PROVE  Versioned' /\ \A t \in SingletonTask : SingleOK(t)'
<1> DEFINE o == Head(mailbox).offer
<1>1. /\ TypeOK /\ mailbox \in Seq(Event) /\ driver \in Seq(Call)
      /\ NextEvent("resourceOffers") /\ singletons' = singletons
      /\ target_version # NoVersion
  BY DEF ChooseServices, ClusterInv, Inv, TypeOK
<1>2. /\ mailbox # <<>> /\ mailbox' = Tail(mailbox) /\ building = Idle
      /\ target_version' = target_version
      /\ o \in Offer /\ Decline(o) \in Call /\ Head(mailbox) \in Offered(o.host)
  BY <1>1, OfferTaken, EventTaken, CallsTyped, NextIsTaken
    DEF TakeEvent, Offered, OfferEvents, Here
<1>3. PICK S \in Chosen(o) :
        IF S = {} THEN driver' = Append(driver, Decline(o)) /\ building' = building
        ELSE building' = [offer |-> o, todo |-> S, made |-> {}] /\ driver' = driver
  BY DEF ChooseServices
<1>4. S \subseteq Wanted(o)
  BY DEF Chosen
<1> HIDE DEF o
<1>5. Versioned'
  BY <1>1, <1>2 DEF Versioned
<1>6. ASSUME NEW t \in SingletonTask
      PROVE  SingleOK(t)'
  <2>1. t \in TaskId /\ t.service \in Singletons /\ SingleOK(t)
    BY DEF SingletonTask
  <2>2. t.service \in S => ~Own(t)
    <3>1. t.service \in S => DoStartService(t.service, nodes[o.host],
                                            singletons[t.service])
      BY <1>4, <2>1, SchedulerAssumption DEF Wanted
    <3> QED
      BY <3>1 DEF DoStartService, Own, RunningAs
  <2>3. InHandFor(t)' =>
          InHandFor(t) \/ (Head(mailbox) \in Offered(t.host) /\ ~Own(t))
    <3>1. CASE S = {}
      BY <1>3, <3>1 DEF InHandFor
    <3>2. CASE S # {}
      BY <1>2, <1>3, <2>2, <3>2 DEF InHandFor, ServicesOf
    <3> QED
      BY <3>1, <3>2
  <2>4. Own(t)' = Own(t)
    BY <1>1 DEF Own
  <2>5. CASE S = {}
    <3> DEFINE r == <<Decline(o)>>
    <3>1. r \in Seq(Call) /\ driver' = driver \o r
      <4>1. r \in Seq(Call)
        BY <1>2
      <4>2. driver' = Append(driver, Decline(o))
        BY <1>3, <2>5
      <4>3. Append(driver, Decline(o)) = driver \o <<Decline(o)>>
        BY <1>1, <1>2, AppendIsConcat
      <4> QED
        BY <4>1, <4>2, <4>3
    <3>2. ~Has(r, Launches(t)) /\ ~Has(r, KillsOf(t)) /\ ~Has(r, Asks(t))
      BY <1>2, CallsConcern, FewOrder
    <3> HIDE DEF r
    <3> QED
      BY <1>1, <1>2, <2>1, <2>3, <2>4, <3>1, <3>2, CallbackKeepsSingle
  <2>6. CASE S # {}
    <3>1. <<>> \in Seq(Call) /\ driver' = driver \o <<>>
      BY <1>1, <1>3, <2>6, ConcatEmptySeq
    <3>2. \A P : ~Has(<<>>, P)
      BY FewOrder
    <3> QED
      BY <1>1, <1>2, <2>1, <2>3, <2>4, <3>1, <3>2, CallbackKeepsSingle
  <2> QED
    BY <2>5, <2>6
<1> QED
  BY <1>5, <1>6

LEMMA MakeKeepsSingle ==
  ASSUME ClusterInv, Versioned, \A t \in SingletonTask : SingleOK(t),
         tasks' = tasks, NEW s \in Services, MakeTask(s)
  PROVE  Versioned' /\ \A t \in SingletonTask : SingleOK(t)'
<1> DEFINE h == building.offer.host
           k == [service |-> s, version |-> IF s = Client THEN NoVersion
                                            ELSE target_version]
<1>1. /\ s \in building.todo
      /\ building' = [building EXCEPT !.todo = @ \ {s}, !.made = @ \cup {k}]
      /\ \/ singletons' = singletons
         \/ /\ s \in Singletons
            /\ singletons' = [singletons EXCEPT ![s] = RunningAs(h)]
      /\ UNCHANGED <<target_version, mailbox, driver>>
  BY DEF MakeTask, Record
<1>2. /\ TypeOK /\ LaunchesAreOwned
      /\ singletons \in [Singletons -> ServiceState]
      /\ building \in [offer : Offer \cup {NoOffer}, todo : SUBSET Services,
                       made : SUBSET Task]
  BY DEF ClusterInv, Inv, TypeOK
<1>3. building # Idle
  BY <1>1 DEF Idle
<1>4. s \in Singletons => singletons[s].state = "NOT_RUNNING"
  BY <1>1, <1>2 DEF LaunchesAreOwned, Slot
<1>5. /\ building'.offer = building.offer
      /\ building'.todo = building.todo \ {s}
      /\ building'.made = building.made \cup {k}
      /\ k.service = s
  BY <1>1, <1>2
<1> HIDE DEF h, k
<1>6. Versioned'
  <2>1. target_version # NoVersion
    BY <1>3 DEF Versioned
  <2> QED
    BY <1>1, <2>1 DEF Versioned
<1>7. ASSUME NEW t \in SingletonTask
      PROVE  SingleOK(t)'
  <2>1. Own(t) => Own(t)'
    BY <1>1, <1>2, <1>4 DEF Own, RunningAs, SingletonTask
  <2>2. InHandFor(t)' = InHandFor(t)
    <3>1. building'.todo \cup ServicesOf(building'.made)
            = building.todo \cup ServicesOf(building.made)
      BY <1>1, <1>5 DEF ServicesOf
    <3> QED
      BY <1>5, <3>1 DEF InHandFor
  <2>3. SingleOK(t) /\ Active(t)' = Active(t)
    BY DEF Active
  <2> QED
    BY <1>1, <2>1, <2>2, <2>3 DEF SingleOK
<1> QED
  BY <1>6, <1>7

LEMMA LaunchKeepsSingle ==
  ASSUME ClusterInv, Versioned, \A t \in SingletonTask : SingleOK(t),
         tasks' = tasks, LaunchTasks
  PROVE  Versioned' /\ \A t \in SingletonTask : SingleOK(t)'
<1> DEFINE c == Launch(building.offer, building.made)
<1>1. /\ building # Idle /\ driver' = Append(driver, c) /\ building' = Idle
      /\ UNCHANGED <<singletons, target_version, mailbox>>
  BY DEF LaunchTasks
<1>2. /\ TypeOK /\ LaunchesAreOwned /\ driver \in Seq(Call) /\ Inv
      /\ mailbox \in Seq(Event)
  BY DEF ClusterInv, Inv, TypeOK
<1>3. c \in Call /\ c.call = "launchTasks" /\ c.offer = building.offer
        /\ c.tasks = building.made
  BY <1>1, <1>2, OfferInHand, CallsTyped DEF Launch
<1> HIDE DEF c
<1>4. driver' = driver \o <<c>> /\ <<c>> \in Seq(Call)
  BY <1>1, <1>2, <1>3, AppendIsConcat
<1>5. Versioned'
  BY <1>1 DEF Versioned
<1>6. ASSUME NEW t \in SingletonTask
      PROVE  SingleOK(t)'
  <2>1. t \in TaskId /\ t.service \in Singletons /\ t.host # NoHost /\ SingleOK(t)
    BY SchedulerAssumption DEF SingletonTask, TaskId
  <2>2. c \in Launches(t) => InHandFor(t) /\ Own(t)
    <3>1. c \in Launches(t) => InHandFor(t)
      BY <1>3 DEF Launches, InHandFor
    <3>2. c \in Launches(t) => Own(t)
      BY <1>2, <1>3, <2>1 DEF Launches, ServicesOf, LaunchesAreOwned, Slot, Own
    <3> QED
      BY <3>1, <3>2
  <2>3. c \notin Asks(t) /\ c \notin KillsOf(t) /\ c \notin Declines(t.host)
    BY <1>3 DEF Asks, KillsOf, Declines
  <2>4. /\ \A P : Has(driver', P) <=> (Has(driver, P) \/ c \in P)
        /\ Before(driver', Declines(t.host), Asks(t))
             => Before(driver, Declines(t.host), Asks(t))
    <3>1. /\ \A P : Has(driver', P) <=> (Has(driver, P) \/ Has(<<c>>, P))
          /\ \A P, Q : Before(driver', P, Q)
                         <=> \/ Before(driver, P, Q)
                             \/ Has(driver, P) /\ Has(<<c>>, Q)
                             \/ Before(<<c>>, P, Q)
      BY <1>2, <1>4, ConcatOrder
    <3>2. \A P, Q : (Has(<<c>>, P) <=> c \in P) /\ ~Before(<<c>>, P, Q)
      BY FewOrder
    <3> QED
      BY <2>3, <3>1, <3>2
  <2>5. ~InHandFor(t)'
    BY <1>1, <2>1 DEF InHandFor, Idle, NoOffer
  <2>6. Own(t)' = Own(t) /\ Active(t)' = Active(t)
    BY <1>1 DEF Own, Active
  <2> QED
    BY <1>1, <2>1, <2>2, <2>3, <2>4, <2>5, <2>6 DEF SingleOK
<1> QED
  BY <1>5, <1>6

LEMMA SchedulerKeepsSingle ==
  ASSUME ClusterInv, Calm, SingleInv, SchedulerStep
  PROVE  SingleInv'
<1>1. Callback /\ tasks' = tasks
  BY DEF SchedulerStep, mesosVars
<1>2. incarnation' = incarnation
  BY <1>1
    DEF Callback, Registered, IgnoreHost, MeetHost, StartProber, ProbeHost,
        ChooseServices, LaunchTasks, KillServices, MakeTask, UnknownService,
        ServiceUp, ServiceUnwanted, ServiceDown, ServiceStaging,
        FrameworkMessage, NextEvent, TakeEvent
<1>3. CASE incarnation = 0
  <2>1. Versioned /\ \A t \in SingletonTask : SingleOK(t)
    BY <1>3 DEF SingleInv
  <2>2. Versioned' /\ \A t \in SingletonTask : SingleOK(t)'
    BY <1>1, <2>1, OffersKeepSingle, UpdatesKeepSingle, DownKeepsSingle,
       ChoiceKeepsSingle, MakeKeepsSingle, LaunchKeepsSingle DEF Callback
  <2> QED
    BY <2>2 DEF SingleInv
<1>4. CASE incarnation # 0
  BY <1>2, <1>4 DEF SingleInv
<1> QED
  BY <1>3, <1>4

-----------------------------------------------------------------------------
(***************************************************************************)
(* The updates that Mesos sends, as far as they concern a task t.          *)
(***************************************************************************)
LEMMA UpdatesConcern ==
  ASSUME NEW f \in [TaskId -> Update], \A u \in TaskId : f[u].task = u,
         NEW T \in SUBSET TaskId
  PROVE  LET es == SetToSeq({f[u] : u \in T}) IN
         /\ es \in Seq(Event)
         /\ \A t \in TaskId :
              /\ Has(es, Lost(t)) => t \in T /\ f[t].state = "LOST"
              /\ Has(es, Alive(t)) => t \in T /\ f[t].state # "LOST"
         /\ \A P : \A t \in T : f[t] \in P => Has(es, P)
         /\ \A h : ~Has(es, Offered(h))
<1> DEFINE S == {f[u] : u \in T}
           es == SetToSeq(S)
<1>1. S \in SUBSET {f[u] : u \in TaskId} /\ S \subseteq Event
  BY DEF Update
<1>2. IsFiniteSet(S)
  <2> HIDE DEF S
  <2> QED
    BY <1>1, AnswersListed
<1>3. es \in Seq(S) /\ \A x \in S : \E i \in DOMAIN es : es[i] = x
  <2> HIDE DEF S
  <2> QED
    BY <1>2, SetToSeqOf
<1> HIDE DEF es
<1>4. /\ es \in Seq(Event)
      /\ \A i \in DOMAIN es : \E u \in T : es[i] = f[u]
  BY <1>1, <1>3
<1>5. \A P : \A t \in T : f[t] \in P => Has(es, P)
  <2>1. \A t \in T : f[t] \in S
    OBVIOUS
  <2> HIDE DEF S
  <2> QED
    BY <1>3, <2>1 DEF Has
<1>6. ASSUME NEW t \in TaskId, NEW i \in DOMAIN es, es[i] \in About(t)
      PROVE  t \in T /\ es[i] = f[t]
  BY <1>4, <1>6 DEF About
<1>7. \A h : ~Has(es, Offered(h))
  <2>1. \A i \in DOMAIN es : es[i].type = "statusUpdate"
    BY <1>4 DEF Update
  <2> QED
    BY <2>1 DEF Has, Offered, OfferEvents
<1> QED
  BY <1>4, <1>6, <1>7, <1>5 DEF Has, Lost, Alive, es

LEMMA LostConcern ==
  ASSUME NEW T \in SUBSET TaskId, NEW slave \in Slaves \cup {NoSlave}
  PROVE  LET es == SetToSeq({Status(u, "LOST", slave) : u \in T}) IN
         /\ es \in Seq(Event)
         /\ \A t \in TaskId : (Has(es, Lost(t)) <=> t \in T) /\ ~Has(es, Alive(t))
         /\ \A h : ~Has(es, Offered(h))
<1> DEFINE f == [u \in TaskId |-> Status(u, "LOST", slave)]
<1>1. f \in [TaskId -> Update]
  BY StatusTyped DEF TaskStates
<1>2. \A u \in TaskId : f[u].task = u /\ f[u].state = "LOST"
  BY DEF Status
<1>3. {Status(u, "LOST", slave) : u \in T} = {f[u] : u \in T}
  OBVIOUS
<1> HIDE DEF f
<1> DEFINE es == SetToSeq({f[u] : u \in T})
<1>4. /\ es \in Seq(Event)
      /\ \A t \in TaskId :
           /\ Has(es, Lost(t)) => t \in T /\ f[t].state = "LOST"
           /\ Has(es, Alive(t)) => t \in T /\ f[t].state # "LOST"
           /\ t \in T /\ f[t] \in Lost(t) => Has(es, Lost(t))
      /\ \A h : ~Has(es, Offered(h))
  BY <1>1, <1>2, UpdatesConcern
<1> HIDE DEF es
<1>5. \A t \in TaskId : f[t] \in Lost(t)
  BY <1>1, <1>2 DEF Lost, About, Update
<1>6. \A t \in TaskId : (Has(es, Lost(t)) <=> t \in T) /\ ~Has(es, Alive(t))
  BY <1>2, <1>4, <1>5
<1> QED
  BY <1>3, <1>4, <1>6 DEF es

LEMMA AnswersConcern ==
  ASSUME ClusterInv, NEW T \in SUBSET TaskId
  PROVE  LET es == SetToSeq(
               {Status(t, "LOST", NoSlave) : t \in {u \in T : ~Active(u)}}
                 \cup {Status(t, IF tasks[t] = "STAGING" THEN "STAGING"
                                 ELSE "RUNNING", agents[t.host]) :
                         t \in {u \in T : Active(u)}}) IN
         /\ es \in Seq(Event)
         /\ \A t \in TaskId :
              /\ Has(es, Lost(t)) => t \in T /\ ~Active(t)
              /\ Has(es, Alive(t)) => Active(t)
              /\ t \in T /\ tasks[t] = "RUNNING" => Has(es, Up(t))
         /\ \A h : ~Has(es, Offered(h))
<1> DEFINE st(t) == IF tasks[t] = "STAGING" THEN "STAGING" ELSE "RUNNING"
           A == {Status(t, "LOST", NoSlave) : t \in {u \in T : ~Active(u)}}
           B == {Status(t, st(t), agents[t.host]) : t \in {u \in T : Active(u)}}
<1>1. PICK f : f = [t \in TaskId |->
                      IF Active(t) THEN Status(t, st(t), agents[t.host])
                      ELSE Status(t, "LOST", NoSlave)]
  OBVIOUS
<1>2. f \in [TaskId -> Update]
  <2>1. ASSUME NEW t \in TaskId, Active(t)
        PROVE  agents[t.host] \in Slaves /\ st(t) \in TaskStates
    BY <2>1 DEF Held, ClusterInv, MesosInv, ClusterTypeOK, TaskStates
  <2>2. \A t \in TaskId : Active(t) => Status(t, st(t), agents[t.host]) \in Update
    BY <2>1, StatusTyped
  <2>3. \A t \in TaskId : Status(t, "LOST", NoSlave) \in Update
    BY StatusTyped DEF TaskStates
  <2> HIDE DEF st
  <2> QED
    BY <1>1, <2>2, <2>3
<1>3. \A t \in TaskId : f[t].task = t /\ (f[t].state = "LOST" <=> ~Active(t))
  BY <1>1 DEF Status
<1>4. A \cup B = {f[u] : u \in T}
  BY <1>1
<1> HIDE DEF A, B
<1> DEFINE es == SetToSeq({f[u] : u \in T})
<1>5. /\ es \in Seq(Event)
      /\ \A t \in TaskId :
           /\ Has(es, Lost(t)) => t \in T /\ f[t].state = "LOST"
           /\ Has(es, Alive(t)) => t \in T /\ f[t].state # "LOST"
           /\ t \in T /\ f[t] \in Up(t) => Has(es, Up(t))
      /\ \A h : ~Has(es, Offered(h))
  BY <1>2, <1>3, UpdatesConcern
<1> HIDE DEF es
<1>6. \A t \in TaskId : tasks[t] = "RUNNING" => f[t] \in Up(t)
  <2>1. \A t \in TaskId : tasks[t] = "RUNNING" => f[t].state = "RUNNING"
    BY <1>1 DEF Active, Status
  <2> QED
    BY <1>2, <1>3, <2>1 DEF Up, About, Update
<1>7. \A t \in TaskId : /\ Has(es, Lost(t)) => t \in T /\ ~Active(t)
                        /\ Has(es, Alive(t)) => Active(t)
                        /\ t \in T /\ tasks[t] = "RUNNING" => Has(es, Up(t))
  BY <1>3, <1>5, <1>6
<1> QED
  BY <1>4, <1>5, <1>7 DEF es, A, B

\* The other events that Mesos sends.
LEMMA OfferSent ==
  ASSUME ClusterInv, NEW g \in Hosts, MakeOffer(g)
  PROVE  \E e \in Event : /\ e.type = "resourceOffers" /\ e.offer.host = g
                          /\ mailbox' = mailbox \o <<e>>
<1>1. PICK e : /\ mailbox' = mailbox \o <<e>> /\ e.type = "resourceOffers"
               /\ e = [type |-> "resourceOffers",
                       offer |-> [host |-> g, slave |-> agents[g],
                                  units |-> Capacity - Needs(ServicesAt(g)),
                                  ports |-> PortsOf(Services)
                                              \ PortsOf(ServicesAt(g)),
                                  public |-> TRUE]]
  BY DEF MakeOffer, Send, ServicesAt
<1>2. g \in DOMAIN SlaveOf
  BY DEF MakeOffer
<1>3. e \in Event
  <2>1. e.offer \in Offer
    <3>1. Capacity - Needs(ServicesAt(g)) \in Nat
      <4>1. ServicesAt(g) \in SUBSET Services
        BY DEF ServicesAt, On, TaskId
      <4> QED
        BY <4>1, ServicesFinite, NeedsIsNat, ClusterAssumption
          DEF ClusterInv, MesosInv
    <3>2. PortsOf(Services) \in SUBSET Nat
      BY SchedulerAssumption DEF PortsOf
    <3>3. agents[g] \in Slaves
      BY <1>2 DEF ClusterInv, MesosInv, ClusterTypeOK
    <3> QED
      BY <1>1, <3>1, <3>2, <3>3 DEF Offer
  <2> QED
    BY <1>1, <2>1 DEF Event
<1>4. e.offer.host = g
  BY <1>1
<1> QED
  BY <1>1, <1>3, <1>4

LEMMA NewsSent ==
  ASSUME ClusterInv, Connect \/ \E h \in Hosts : AnswerProbe(h)
  PROVE  \E e \in Event : /\ e.type \in {"registered", "frameworkMessage"}
                          /\ mailbox' = mailbox \o <<e>>
<1>1. CASE Connect
  <2> DEFINE e == [type |-> "registered"]
  <2>1. mailbox' = mailbox \o <<e>> /\ e \in Event
    BY <1>1 DEF Connect, Event
  <2> QED
    BY <2>1
<1>2. ASSUME NEW h \in Hosts, AnswerProbe(h)
      PROVE  \E e \in Event : /\ e.type \in {"registered", "frameworkMessage"}
                              /\ mailbox' = mailbox \o <<e>>
  <2> DEFINE e == [type |-> "frameworkMessage", slave |-> agents[h],
                   devices |-> FoundTypes(executors[h])
                                 \cup {c \in {Client} : h \in Mounted},
                   mount |-> h \in Mounted, parses |-> TRUE]
  <2>1. mailbox' = mailbox \o <<e>> /\ h \in probing
    BY <1>2 DEF AnswerProbe, Send
  <2>2. agents[h] \in Slaves /\ FoundTypes(executors[h]) \subseteq Core
    BY <2>1 DEF ClusterInv, MesosInv, ClusterTypeOK, ProbersOK, FoundTypes, Mount
  <2>3. e \in Event
    BY <2>2 DEF Event, DeviceTypes
  <2> QED
    BY <2>1, <2>3
<1> QED
  BY <1>1, <1>2

\* A task starts or ends, and its agent says so.
Reported(u, e, st) ==
  /\ e.type = "statusUpdate" /\ e.task = u /\ e.state = st
  /\ mailbox' = mailbox \o <<e>>
  /\ Active(u) /\ UNCHANGED <<Apart, driver>>
  /\ \A t \in TaskId : t # u => tasks'[t] = tasks[t]
  /\ u.service # Prober =>
       /\ st \in {"RUNNING", "LOST"} \cup Endings
       /\ tasks'[u] = IF st = "RUNNING" THEN "RUNNING" ELSE "NONE"

LEMMA TaskReported ==
  ASSUME ClusterInv, NEW u \in TaskId,
         TaskStarts(u) \/ TaskKilled(u) \/ TaskFails(u)
  PROVE  \E e \in Event, st \in {"LOST", "FINISHED", "RUNNING"} :
           Reported(u, e, st)
<1>1. tasks \in [TaskId -> AgentStates] /\ (Active(u) => agents[u.host] \in Slaves)
  BY DEF Held, ClusterInv, MesosInv, ClusterTypeOK
<1>2. ASSUME NEW st \in {"LOST", "FINISHED", "RUNNING"}, Active(u)
      PROVE  LET e == Status(u, st, agents[u.host]) IN
             e \in Event /\ e.type = "statusUpdate" /\ e.task = u /\ e.state = st
  BY <1>1, <1>2, StatusTyped DEF TaskStates, Update, Status
<1>3. CASE TaskStarts(u)
  <2> DEFINE st == IF u.service = Prober THEN "FINISHED" ELSE "RUNNING"
             e == Status(u, st, agents[u.host])
  <2>1. Active(u)
    BY <1>3 DEF TaskStarts, Active
  <2>2. e \in Event /\ e.type = "statusUpdate" /\ e.task = u /\ e.state = st
    BY <1>2, <2>1
  <2>3. mailbox' = mailbox \o <<e>> /\ UNCHANGED <<Apart, driver>>
    BY <1>3 DEF TaskStarts, Send, Apart
  <2>4. /\ \A t \in TaskId : t # u => tasks'[t] = tasks[t]
        /\ u.service # Prober => tasks'[u] = "RUNNING"
    BY <1>1, <1>3 DEF TaskStarts
  <2> HIDE DEF e
  <2> QED
    BY <2>1, <2>2, <2>3, <2>4 DEF Reported
<1>4. ASSUME NEW st \in {"LOST", "FINISHED"}, TaskEnds(u, st), Active(u),
             st \in {"LOST"} \cup Endings
      PROVE  Reported(u, Status(u, st, agents[u.host]), st)
  BY <1>1, <1>2, <1>4 DEF Reported, TaskEnds, Send, Apart
<1>5. CASE TaskKilled(u)
  <2>1. TaskEnds(u, "LOST") /\ Active(u)
    BY <1>5 DEF TaskKilled, Active
  <2> QED
    BY <1>2, <1>4, <2>1
<1>6. CASE TaskFails(u)
  <2>1. PICK st \in Endings : TaskEnds(u, st) /\ Active(u)
    BY <1>6 DEF TaskFails, Active
  <2>2. st \in {"LOST", "FINISHED"}
    BY ClusterAssumption
  <2> QED
    BY <1>2, <1>4, <2>1, <2>2
<1> QED
  BY <1>3, <1>5, <1>6

-----------------------------------------------------------------------------
(***************************************************************************)
(* The steps of Mesos.                                                     *)
(***************************************************************************)
LEMMA MesosStepKeepsSingle ==
  ASSUME ClusterInv, Versioned, \A t \in SingletonTask : SingleOK(t),
         UNCHANGED Apart, NEW es \in Seq(Event), mailbox' = mailbox \o es,
         driver' = driver \/ (driver # <<>> /\ driver' = Tail(driver)),
         \A t \in SingletonTask :
           /\ Active(t)' => Active(t) \/ Has(driver, Launches(t))
           /\ Has(es, Alive(t)) => Active(t)
           /\ Has(es, Lost(t)) =>
                /\ ~Active(t)' /\ ~InHandFor(t)
                /\ ~Has(driver, Launches(t)) \/ ~Has(driver', Launches(t))
                /\ ~Has(es, Alive(t)) /\ ~Has(es, Offered(t.host))
                /\ Active(t) \/ ~Has(mailbox, Offered(t.host))
           /\ Has(es, Offered(t.host)) => ~Has(mailbox, Offered(t.host))
  PROVE  Versioned' /\ \A t \in SingletonTask : SingleOK(t)'
<1>1. /\ mailbox \in Seq(Event) /\ driver \in Seq(Call)
      /\ \A P : Has(driver', P) => Has(driver, P)
  BY TailOrder DEF ClusterInv, Inv, TypeOK
<1>2. ASSUME NEW t \in SingletonTask
      PROVE  SingleOK(t)'
  <2>1. t \in TaskId /\ SingleOK(t)
    BY DEF SingletonTask
  <2>2. Own(t)' = Own(t) /\ InHandFor(t)' = InHandFor(t)
    BY DEF Apart, Own, InHandFor
  <2> QED
    BY <1>1, <2>1, <2>2, MesosKeepsSingle
<1> QED
  BY <1>2 DEF Apart, Versioned

\* Mesos offers the resources of a host.
LEMMA OfferKeepsSingle ==
  ASSUME ClusterInv, Calm, Versioned, \A t \in SingletonTask : SingleOK(t),
         NEW g \in Hosts, MakeOffer(g)
  PROVE  Versioned' /\ \A t \in SingletonTask : SingleOK(t)'
<1>1. PICK e \in Event : /\ e.type = "resourceOffers" /\ e.offer.host = g
                         /\ mailbox' = mailbox \o <<e>>
  BY OfferSent
<1>2. /\ g \in DOMAIN SlaveOf /\ g \notin offered /\ UNCHANGED <<Apart, driver>>
      /\ tasks' = tasks /\ connected
  BY DEF MakeOffer, Send, Apart
<1> DEFINE es == <<e>>
<1>3. es \in Seq(Event) /\ mailbox' = mailbox \o es
  BY <1>1
<1>4. ASSUME NEW t \in SingletonTask
      PROVE  /\ Active(t)' = Active(t)
             /\ ~Has(es, Alive(t)) /\ ~Has(es, Lost(t))
             /\ Has(es, Offered(t.host)) => ~Has(mailbox, Offered(t.host))
  <2>1. e \notin Alive(t) /\ e \notin Lost(t)
    BY <1>1 DEF Alive, Lost, About
  <2>2. e \in Offered(t.host) => t.host = g
    BY <1>1 DEF Offered, OfferEvents, Here
  <2>3. ~Has(mailbox, Offered(g))
    BY <1>2, WaitingIsKept
  <2> QED
    BY <1>2, <2>1, <2>2, <2>3, FewOrder DEF Active
<1> HIDE DEF es
<1> QED
  BY <1>2, <1>3, <1>4, MesosStepKeepsSingle

LEMMA TasksKeepSingle ==
  ASSUME ClusterInv, Calm, Versioned, \A t \in SingletonTask : SingleOK(t),
         NEW u \in TaskId, TaskStarts(u) \/ TaskKilled(u) \/ TaskFails(u)
  PROVE  Versioned' /\ \A t \in SingletonTask : SingleOK(t)'
<1>1. PICK e \in Event, st \in {"LOST", "FINISHED", "RUNNING"} :
        Reported(u, e, st)
  BY TaskReported
<1> DEFINE es == <<e>>
<1>2. /\ e.type = "statusUpdate" /\ e.task = u /\ e.state = st
      /\ Active(u) /\ UNCHANGED <<Apart, driver>>
      /\ \A t \in TaskId : t # u => tasks'[t] = tasks[t]
      /\ u.service # Prober => (st = "LOST" => tasks'[u] = "NONE")
  BY <1>1 DEF Reported
<1>3. es \in Seq(Event) /\ mailbox' = mailbox \o es
  BY <1>1 DEF Reported
<1>4. ASSUME NEW t \in SingletonTask
      PROVE  /\ Active(t)' => Active(t)
             /\ Has(es, Alive(t)) => Active(t)
             /\ Has(es, Lost(t)) =>
                  /\ ~Active(t)' /\ ~Has(driver, Launches(t)) /\ ~InHandFor(t)
                  /\ ~Has(es, Alive(t)) /\ Active(t)
             /\ ~Has(es, Offered(t.host))
  <2>1. t \in TaskId /\ t.service \in Ported /\ t.service # Prober
    BY SchedulerAssumption DEF SingletonTask, Ported
  <2>2. e \in Alive(t) \/ e \in Lost(t) => t = u
    BY <1>2 DEF Alive, Lost, About
  <2>3. e \notin Offered(t.host)
    BY <1>2 DEF Offered, OfferEvents
  <2>4. e \in Lost(t) => st = "LOST" /\ e \notin Alive(t)
    BY <1>2 DEF Alive, Lost
  <2>5. /\ Has(es, Alive(t)) <=> e \in Alive(t)
        /\ Has(es, Lost(t)) <=> e \in Lost(t)
        /\ Has(es, Offered(t.host)) <=> e \in Offered(t.host)
    BY FewOrder
  <2>6. Active(t) => ~InHandFor(t) /\ ~Has(driver, Launches(t))
    BY <2>1, HandFree
  <2> HIDE DEF es
  <2> QED
    BY <1>2, <2>1, <2>2, <2>3, <2>4, <2>5, <2>6 DEF Active
<1> HIDE DEF es
<1> QED
  BY <1>2, <1>3, <1>4, MesosStepKeepsSingle

\* Mesos takes a call that it does not answer.
LEMMA SilentCallsKeepSingle ==
  ASSUME ClusterInv, Versioned, \A t \in SingletonTask : SingleOK(t),
         TakeDecline \/ TakeProbe
  PROVE  Versioned' /\ \A t \in SingletonTask : SingleOK(t)'
<1>1. /\ UNCHANGED Apart /\ tasks' = tasks /\ mailbox' = mailbox
      /\ driver # <<>> /\ driver' = Tail(driver)
  BY DEF TakeDecline, TakeProbe, NextCall, Apart
<1>2. mailbox' = mailbox \o <<>> /\ <<>> \in Seq(Event)
  BY <1>1 DEF ClusterInv, Inv, TypeOK
<1>3. \A P : ~Has(<<>>, P)
  BY FewOrder
<1>4. \A t \in TaskId : Active(t)' = Active(t)
  BY <1>1 DEF Active
<1> QED
  BY <1>1, <1>2, <1>3, <1>4, MesosStepKeepsSingle DEF SingletonTask

\* What is the next call of the driver is under way.
LEMMA NextIsHeld ==
  ASSUME driver \in Seq(Call), driver # <<>>
  PROVE  /\ Head(driver) \in Call
         /\ \E i \in DOMAIN driver : driver[i] = Head(driver)
         /\ \A P : Head(driver) \in P => Has(driver, P)
<1>1. /\ DOMAIN driver = 1 .. Len(driver) /\ Len(driver) \in Nat \ {0}
      /\ Head(driver) = driver[1]
  BY HeadTailProperties, LenProperties, EmptySeq
<1>2. 1 \in DOMAIN driver
  BY <1>1
<1>3. Head(driver) \in Call
  BY <1>1, <1>2, ElementOfSeq
<1> QED
  BY <1>1, <1>2, <1>3 DEF Has

(***************************************************************************)
(* The calls that Mesos answers.                                           *)
(***************************************************************************)
TakenWith(es, call) ==
  /\ UNCHANGED Apart /\ mailbox' = mailbox \o es
  /\ driver # <<>> /\ driver' = Tail(driver) /\ Head(driver).call = call
  /\ \A h : ~Has(es, Offered(h))

LaunchSeen(es) ==
  /\ TakenWith(es, "launchTasks")
  /\ \A t \in TaskId : t.service \in Ported =>
       /\ tasks'[t] = IF Head(driver) \in Launches(t) THEN "STAGING" ELSE tasks[t]
       /\ Head(driver) \in Launches(t) => ~Active(t) /\ Has(driver, Launches(t))
       /\ ~Has(es, Lost(t)) /\ ~Has(es, Alive(t))

KillSeen(es) ==
  /\ TakenWith(es, "killTask")
  /\ \A t \in TaskId :
       /\ tasks'[t] = IF Head(driver) \in KillsOf(t) /\ Active(t)
                      THEN "KILLING" ELSE tasks[t]
       /\ Head(driver) \in KillsOf(t) => Has(driver, KillsOf(t))
       /\ Has(es, Lost(t)) => Head(driver) \in KillsOf(t) /\ ~Active(t)
       /\ ~Has(es, Alive(t))

ReconcileSeen(es) ==
  /\ TakenWith(es, "reconcile")
  /\ tasks' = tasks
  /\ \A t \in TaskId :
       /\ Has(es, Lost(t)) => Has(driver, Asks(t)) /\ ~Active(t)
       /\ Has(es, Alive(t)) => Active(t)
       /\ Head(driver) \in AsksAll /\ tasks[t] = "RUNNING" => Has(es, Up(t))

\* Of what has ports, no task is refused.
LEMMA LaunchTaken ==
  ASSUME ClusterInv, Calm, TakeLaunch
  PROVE  \E es \in Seq(Event) : LaunchSeen(es)
<1> DEFINE c   == Head(driver)
           o   == c.offer
           ids == {[service |-> k.service, host |-> o.host] : k \in c.tasks}
           new == {t \in ids : ValidOffer(o) /\ ~Active(t)}
           es  == SetToSeq({Status(t, "LOST", o.slave) : t \in ids \ new})
<1>1. /\ UNCHANGED Apart /\ mailbox' = mailbox \o es
      /\ driver # <<>> /\ driver' = Tail(driver) /\ c.call = "launchTasks"
      /\ tasks' = [t \in TaskId |-> IF t \in new THEN "STAGING" ELSE tasks[t]]
  BY DEF TakeLaunch, NextCall, Send, Apart
<1>2. driver \in Seq(Call) /\ c \in Call /\ \A P : c \in P => Has(driver, P)
  BY <1>1, NextIsHeld DEF ClusterInv, Inv, TypeOK
<1>3. o \in Offer /\ c.tasks \in SUBSET Task
  BY <1>1, <1>2 DEF Call
<1>4. ValidOffer(o)
  <2>1. c \in Answers({o})
    BY <1>1, <1>2 DEF Answers
  <2>2. \E i \in DOMAIN driver : driver[i] \in Answers({o})
    BY <1>1, <1>2, <2>1, NextIsHeld
  <2>3. o \in OffersOf(o.host)
    BY <1>3, <2>2, HeldIsValid
  <2> QED
    BY <2>3 DEF OffersOf
<1>5. ids \in SUBSET TaskId
  BY <1>3 DEF TaskId, Task, Offer
<1>6. \A t \in TaskId : t \in ids <=> c \in Launches(t)
  <2>1. \A t \in TaskId : t \in ids <=> t.host = o.host
                                           /\ t.service \in ServicesOf(c.tasks)
    BY DEF ServicesOf, TaskId
  <2> HIDE DEF ids
  <2> QED
    BY <1>1, <1>2, <2>1 DEF Launches
<1>7. /\ es \in Seq(Event)
      /\ \A t \in TaskId :
           (Has(es, Lost(t)) => t \in ids \ new) /\ ~Has(es, Alive(t))
      /\ \A h : ~Has(es, Offered(h))
  <2>1. ids \ new \in SUBSET TaskId /\ o.slave \in Slaves \cup {NoSlave}
    BY <1>3, <1>5 DEF Offer
  <2> HIDE DEF ids, new, o
  <2> QED
    BY <2>1, LostConcern
<1>8. ASSUME NEW t \in TaskId, t.service \in Ported
      PROVE  /\ tasks'[t] = IF c \in Launches(t) THEN "STAGING" ELSE tasks[t]
             /\ c \in Launches(t) => ~Active(t) /\ Has(driver, Launches(t))
             /\ ~Has(es, Lost(t)) /\ ~Has(es, Alive(t))
  <2>1. c \in Launches(t) => Has(driver, Launches(t)) /\ ~Active(t)
    BY <1>2, <1>8, HandFree
  <2>2. t \in new <=> c \in Launches(t)
    BY <1>4, <1>6, <2>1
  <2>3. tasks'[t] = IF t \in new THEN "STAGING" ELSE tasks[t]
    BY <1>1
  <2> HIDE DEF es, ids, new, c
  <2> QED
    BY <1>6, <1>7, <2>1, <2>2, <2>3
<1> HIDE DEF es
<1>9. LaunchSeen(es)
  BY <1>1, <1>7, <1>8 DEF LaunchSeen, TakenWith
<1> QED
  BY <1>7, <1>9

LEMMA KillTaken ==
  ASSUME ClusterInv, TakeKill
  PROVE  \E es \in Seq(Event) : KillSeen(es)
<1> DEFINE c  == Head(driver)
           T  == {u \in c.tasks : ~Active(u)}
           es == SetToSeq({Status(t, "LOST", NoSlave) : t \in T})
<1>1. /\ UNCHANGED Apart /\ mailbox' = mailbox \o es
      /\ driver # <<>> /\ driver' = Tail(driver) /\ c.call = "killTask"
      /\ tasks' = [t \in TaskId |-> IF t \in c.tasks /\ Active(t)
                                    THEN "KILLING" ELSE tasks[t]]
  BY DEF TakeKill, NextCall, Send, Apart
<1>2. driver \in Seq(Call) /\ c \in Call /\ \A P : c \in P => Has(driver, P)
  BY <1>1, NextIsHeld DEF ClusterInv, Inv, TypeOK
<1>3. c.tasks \in SUBSET TaskId
  BY <1>1, <1>2 DEF Call
<1>4. /\ es \in Seq(Event)
      /\ \A t \in TaskId : (Has(es, Lost(t)) => t \in T) /\ ~Has(es, Alive(t))
      /\ \A h : ~Has(es, Offered(h))
  <2>1. T \in SUBSET TaskId
    BY <1>3
  <2> HIDE DEF T
  <2> QED
    BY <2>1, LostConcern
<1>5. \A t : t \in c.tasks <=> c \in KillsOf(t)
  BY <1>1, <1>2 DEF KillsOf
<1>6. ASSUME NEW t \in TaskId
      PROVE  /\ tasks'[t] = IF c \in KillsOf(t) /\ Active(t)
                            THEN "KILLING" ELSE tasks[t]
             /\ c \in KillsOf(t) => Has(driver, KillsOf(t))
             /\ Has(es, Lost(t)) => c \in KillsOf(t) /\ ~Active(t)
             /\ ~Has(es, Alive(t))
  <2>1. tasks'[t] = IF t \in c.tasks /\ Active(t) THEN "KILLING" ELSE tasks[t]
    BY <1>1
  <2>2. t \in T => t \in c.tasks /\ ~Active(t)
    OBVIOUS
  <2> HIDE DEF es, T, c
  <2> QED
    BY <1>2, <1>4, <1>5, <2>1, <2>2
<1> HIDE DEF es
<1>7. KillSeen(es)
  BY <1>1, <1>4, <1>6 DEF KillSeen, TakenWith
<1> QED
  BY <1>4, <1>7

LEMMA ReconcileTaken ==
  ASSUME ClusterInv, TakeReconcile
  PROVE  \E es \in Seq(Event) : ReconcileSeen(es)
<1> DEFINE c   == Head(driver)
           T   == IF c.tasks = {} THEN {t \in TaskId : Active(t)} ELSE c.tasks
           es  == SetToSeq(
               {Status(t, "LOST", NoSlave) : t \in {u \in T : ~Active(u)}}
                 \cup {Status(t, IF tasks[t] = "STAGING" THEN "STAGING"
                                 ELSE "RUNNING", agents[t.host]) :
                         t \in {u \in T : Active(u)}})
<1>1. /\ UNCHANGED Apart /\ mailbox' = mailbox \o es /\ tasks' = tasks
      /\ driver # <<>> /\ driver' = Tail(driver) /\ c.call = "reconcile"
  BY DEF TakeReconcile, NextCall, Send, Apart
<1>2. driver \in Seq(Call) /\ c \in Call /\ \A P : c \in P => Has(driver, P)
  BY <1>1, NextIsHeld DEF ClusterInv, Inv, TypeOK
<1>3. c.tasks \in SUBSET TaskId
  BY <1>1, <1>2 DEF Call
<1>4. /\ es \in Seq(Event)
      /\ \A t \in TaskId :
           /\ Has(es, Lost(t)) => t \in T /\ ~Active(t)
           /\ Has(es, Alive(t)) => Active(t)
           /\ t \in T /\ tasks[t] = "RUNNING" => Has(es, Up(t))
      /\ \A h : ~Has(es, Offered(h))
  <2>1. T \in SUBSET TaskId
    BY <1>3
  <2> HIDE DEF T
  <2> QED
    BY <2>1, AnswersConcern
<1>5. \A t \in TaskId : t \in T /\ ~Active(t) => Has(driver, Asks(t))
  <2>1. \A t \in TaskId : t \in T /\ ~Active(t) => c \in Asks(t)
    BY <1>1, <1>2 DEF Asks
  <2> HIDE DEF c, T
  <2> QED
    BY <1>2, <2>1
<1>6. \A t \in TaskId : c \in AsksAll /\ tasks[t] = "RUNNING" => t \in T
  BY DEF AsksAll, Active
<1> HIDE DEF es, T
<1>7. ReconcileSeen(es)
  BY <1>1, <1>4, <1>5, <1>6 DEF ReconcileSeen, TakenWith
<1> QED
  BY <1>4, <1>7

\* Mesos launches tasks.
LEMMA LaunchTakenKeepsSingle ==
  ASSUME ClusterInv, Calm, Versioned, \A t \in SingletonTask : SingleOK(t),
         TakeLaunch
  PROVE  Versioned' /\ \A t \in SingletonTask : SingleOK(t)'
<1>1. PICK es \in Seq(Event) : LaunchSeen(es)
  BY LaunchTaken
<1>2. ASSUME NEW t \in SingletonTask
      PROVE  /\ Active(t)' => Active(t) \/ Has(driver, Launches(t))
             /\ ~Has(es, Lost(t)) /\ ~Has(es, Alive(t))
             /\ ~Has(es, Offered(t.host))
  <2>1. t \in TaskId /\ t.service \in Ported
    BY DEF SingletonTask, Ported
  <2> QED
    BY <1>1, <2>1 DEF LaunchSeen, TakenWith, Active
<1> QED
  BY <1>1, <1>2, MesosStepKeepsSingle DEF LaunchSeen, TakenWith

\* Mesos kills tasks: none of a singleton.
LEMMA KillTakenKeepsSingle ==
  ASSUME ClusterInv, Versioned, \A t \in SingletonTask : SingleOK(t), TakeKill
  PROVE  Versioned' /\ \A t \in SingletonTask : SingleOK(t)'
<1>1. PICK es \in Seq(Event) : KillSeen(es)
  BY KillTaken
<1>2. ASSUME NEW t \in SingletonTask
      PROVE  /\ Active(t)' => Active(t)
             /\ ~Has(es, Lost(t)) /\ ~Has(es, Alive(t))
             /\ ~Has(es, Offered(t.host))
  <2>1. t \in TaskId /\ ~Has(driver, KillsOf(t))
    BY DEF SingletonTask, SingleOK
  <2> QED
    BY <1>1, <2>1 DEF KillSeen, TakenWith, Active
<1> QED
  BY <1>1, <1>2, MesosStepKeepsSingle DEF KillSeen, TakenWith

(***************************************************************************)
(* A reconciliation reports a task of a singleton lost only if it was      *)
(* asked for; then the declined offer is still on its way to Mesos.        *)
(***************************************************************************)
LEMMA ReconcileTakenKeepsSingle ==
  ASSUME ClusterInv, Calm, Versioned, \A t \in SingletonTask : SingleOK(t),
         TakeReconcile
  PROVE  Versioned' /\ \A t \in SingletonTask : SingleOK(t)'
<1>1. PICK es \in Seq(Event) : ReconcileSeen(es)
  BY ReconcileTaken
<1>2. ASSUME NEW t \in SingletonTask
      PROVE  /\ Active(t)' = Active(t)
             /\ Has(es, Alive(t)) => Active(t)
             /\ Has(es, Lost(t)) =>
                  /\ ~Active(t) /\ ~Has(driver, Launches(t)) /\ ~InHandFor(t)
                  /\ ~Has(mailbox, Offered(t.host))
             /\ ~Has(es, Offered(t.host))
  <2>1. t \in TaskId /\ t.host \in Hosts /\ SingleOK(t)
    BY DEF SingletonTask, TaskId
  <2>2. Has(driver, Asks(t)) => Has(driver, Declines(t.host))
    BY <2>1 DEF SingleOK
  <2>3. Has(driver, Declines(t.host)) =>
          /\ ~Has(driver, Launches(t)) /\ ~InHandFor(t)
          /\ ~Has(mailbox, Offered(t.host))
    BY <2>1, DeclinedIsGone
  <2> QED
    BY <1>1, <2>1, <2>2, <2>3 DEF ReconcileSeen, TakenWith, Active
<1> QED
  BY <1>1, <1>2, MesosStepKeepsSingle DEF ReconcileSeen, TakenWith

\* An executor answers, or the framework is registered: no task is named.
LEMMA OtherNewsKeepSingle ==
  ASSUME ClusterInv, Calm, Versioned, \A t \in SingletonTask : SingleOK(t),
         Connect \/ \E h \in Hosts : AnswerProbe(h)
  PROVE  Versioned' /\ \A t \in SingletonTask : SingleOK(t)'
<1>1. PICK e \in Event : /\ e.type \in {"registered", "frameworkMessage"}
                         /\ mailbox' = mailbox \o <<e>>
  BY NewsSent
<1>2. UNCHANGED <<Apart, driver>> /\ tasks' = tasks
  BY DEF Connect, AnswerProbe, Apart
<1> DEFINE es == <<e>>
<1>3. es \in Seq(Event) /\ mailbox' = mailbox \o es
  BY <1>1
<1>4. ASSUME NEW t \in SingletonTask
      PROVE  /\ Active(t)' = Active(t)
             /\ ~Has(es, Lost(t)) /\ ~Has(es, Alive(t))
             /\ ~Has(es, Offered(t.host))
  <2>1. e \notin Lost(t) /\ e \notin Alive(t) /\ e \notin Offered(t.host)
    BY <1>1 DEF Lost, Alive, About, Offered, OfferEvents
  <2> QED
    BY <1>2, <2>1, FewOrder DEF Active
<1> HIDE DEF es
<1> QED
  BY <1>2, <1>3, <1>4, MesosStepKeepsSingle

\* Time passes, or a version is posted.
LEMMA QuietKeepsSingle ==
  ASSUME ClusterInv, Versioned, \A t \in SingletonTask : SingleOK(t),
         UNCHANGED <<singletons, building, mailbox, driver, tasks>>,
         target_version' = target_version \/ target_version' # NoVersion
  PROVE  Versioned' /\ \A t \in SingletonTask : SingleOK(t)'
BY DEF Versioned, SingleOK, Active, Own, InHandFor

-----------------------------------------------------------------------------
(***************************************************************************)
(* Without a connection the driver gives a launch back as lost: the offer  *)
(* that it used was the only one of the host under way, so the task is     *)
(* not, and will not be, there.                                            *)
(***************************************************************************)
LEMMA LaunchAlone ==
  ASSUME ClusterInv, Calm, NEW t \in TaskId, t.service \in Ported,
         driver # <<>>, Head(driver) \in Launches(t)
  PROVE  /\ ~Active(t) /\ ~InHandFor(t) /\ ~Has(Tail(driver), Launches(t))
         /\ ~Has(mailbox, Offered(t.host)) /\ Has(driver, Launches(t))
<1>1. /\ driver \in Seq(Call) /\ t.host \in Hosts
      /\ Head(driver) \in Answers(Here(t.host))
  BY AnswersNamed DEF ClusterInv, Inv, TypeOK, TaskId
<1>2. Has(driver, Launches(t)) /\ Has(driver, Answers(Here(t.host)))
  BY <1>1, NextIsHeld
<1>3. /\ DOMAIN driver = 1 .. Len(driver) /\ Len(driver) \in Nat \ {0}
      /\ DOMAIN Tail(driver) = 1 .. Len(driver) - 1
      /\ \A i \in 1 .. Len(driver) - 1 : Tail(driver)[i] = driver[i + 1]
      /\ Head(driver) = driver[1]
  BY <1>1, HeadTailProperties, LenProperties, EmptySeq
<1>4. ASSUME NEW i \in DOMAIN Tail(driver), Tail(driver)[i] \in Launches(t)
      PROVE  FALSE
  <2>1. /\ i + 1 \in DOMAIN driver /\ 1 \in DOMAIN driver /\ i + 1 # 1
        /\ driver[i + 1] = Tail(driver)[i]
    BY <1>3
  <2>2. driver[i + 1] \in Answers(Here(t.host))
    BY <1>4, <2>1, AnswersNamed
  <2> QED
    BY <1>1, <1>3, <2>1, <2>2, OnePlace
<1>5. ~Has(Tail(driver), Launches(t))
  BY <1>4 DEF Has
<1>6. ~InHandFor(t) /\ ~Has(mailbox, Offered(t.host))
  BY <1>1, <1>2, OnePlace DEF InHandFor
<1> QED
  BY <1>2, <1>5, <1>6, HandFree

LEMMA CallDropped ==
  ASSUME ClusterInv, DropCall
  PROVE  \E es \in Seq(Event) :
           /\ UNCHANGED Apart /\ tasks' = tasks
           /\ mailbox' = mailbox \o es
           /\ driver # <<>> /\ driver' = Tail(driver)
           /\ \A t \in TaskId : /\ Has(es, Lost(t)) <=> Head(driver) \in Launches(t)
                                /\ ~Has(es, Alive(t))
           /\ \A h : ~Has(es, Offered(h))
<1> DEFINE c == Head(driver)
           T == {[service |-> k.service, host |-> c.offer.host] : k \in c.tasks}
<1>1. /\ UNCHANGED Apart /\ tasks' = tasks
      /\ driver # <<>> /\ driver' = Tail(driver)
  BY DEF DropCall, Apart, mesosVars
<1>2. driver \in Seq(Call) /\ c \in Call
  BY <1>1, NextIsHeld DEF ClusterInv, Inv, TypeOK
<1>3. CASE c.call = "launchTasks"
  <2> DEFINE es == SetToSeq({Status(u, "LOST", c.offer.slave) : u \in T})
  <2>1. /\ c.offer \in Offer /\ c.tasks \in SUBSET Task
        /\ c.offer.slave \in Slaves \cup {NoSlave} /\ c.offer.host \in Hosts
    BY <1>2, <1>3 DEF Call, Offer
  <2>2. T \in SUBSET TaskId
    BY <2>1 DEF Task, TaskId
  <2>3. /\ es \in Seq(Event)
        /\ \A t \in TaskId : (Has(es, Lost(t)) <=> t \in T) /\ ~Has(es, Alive(t))
        /\ \A h : ~Has(es, Offered(h))
    <3> HIDE DEF T
    <3> QED
      BY <2>1, <2>2, LostConcern
  <2>4. \A t \in TaskId : t \in T <=> c \in Launches(t)
    BY <1>2, <1>3 DEF Launches, ServicesOf, TaskId
  <2>5. mailbox' = mailbox \o es
    <3>1. {Status([service |-> k.service, host |-> c.offer.host], "LOST",
                  c.offer.slave) : k \in c.tasks}
            = {Status(u, "LOST", c.offer.slave) : u \in T}
      OBVIOUS
    <3> QED
      BY <1>3, <3>1 DEF DropCall
  <2> HIDE DEF es, T
  <2> QED
    BY <1>1, <2>3, <2>4, <2>5
<1>4. CASE c.call # "launchTasks"
  <2>1. mailbox' = mailbox \o <<>> /\ <<>> \in Seq(Event)
    BY <1>4 DEF DropCall
  <2>2. \A P : ~Has(<<>>, P)
    BY FewOrder
  <2>3. \A t : c \notin Launches(t)
    BY <1>4 DEF Launches
  <2> QED
    BY <1>1, <2>1, <2>2, <2>3
<1> QED
  BY <1>3, <1>4

LEMMA DropKeepsSingle ==
  ASSUME ClusterInv, Calm, Versioned, \A t \in SingletonTask : SingleOK(t),
         DropCall
  PROVE  Versioned' /\ \A t \in SingletonTask : SingleOK(t)'
<1>1. PICK es \in Seq(Event) :
        /\ UNCHANGED Apart /\ tasks' = tasks
        /\ mailbox' = mailbox \o es
        /\ driver # <<>> /\ driver' = Tail(driver)
        /\ \A t \in TaskId : /\ Has(es, Lost(t)) <=> Head(driver) \in Launches(t)
                             /\ ~Has(es, Alive(t))
        /\ \A h : ~Has(es, Offered(h))
  BY CallDropped
<1>2. ASSUME NEW t \in SingletonTask
      PROVE  /\ Active(t)' = Active(t)
             /\ ~Has(es, Alive(t)) /\ ~Has(es, Offered(t.host))
             /\ Has(es, Lost(t)) =>
                  /\ ~Active(t) /\ ~InHandFor(t) /\ ~Has(driver', Launches(t))
                  /\ ~Has(mailbox, Offered(t.host))
  <2>1. t \in TaskId /\ t.service \in Ported
    BY DEF SingletonTask, Ported
  <2>2. Head(driver) \in Launches(t) =>
          /\ ~Active(t) /\ ~InHandFor(t) /\ ~Has(driver', Launches(t))
          /\ ~Has(mailbox, Offered(t.host))
    BY <1>1, <2>1, LaunchAlone
  <2> QED
    BY <1>1, <2>1, <2>2 DEF Active
<1> QED
  BY <1>1, <1>2, MesosStepKeepsSingle

\* What fails besides tasks, without a word to the scheduler.
LEMMA SilentFailures ==
  ASSUME \/ Disconnect
         \/ \E h \in Hosts : ExecutorFails(h) \/ LoseProbe(h) \/ Remount(h)
                              \/ Mark(h)
         \/ \E t \in TaskId : OrphanEnds(t)
  PROVE  UNCHANGED <<schedulerVars, agents, tasks>>
BY DEF Disconnect, ExecutorFails, LoseProbe, Remount, Mark, OrphanEnds, hostVars

LEMMA MesosStepsKeepSingle ==
  ASSUME ClusterInv, Calm, SingleInv, MesosStep, ~Repeats
  PROVE  SingleInv'
<1>1. CASE FailOver
  <2>1. incarnation \in Nat /\ incarnation' = incarnation + 1
    BY <1>1 DEF FailOver, Restart, ClusterInv, Inv, TypeOK
  <2>2. incarnation' # 0
    BY <2>1
  <2> QED
    BY <2>2 DEF SingleInv
<1>2. CASE ~FailOver /\ incarnation = 0
  <2>1. Versioned /\ \A t \in SingletonTask : SingleOK(t)
    BY <1>2 DEF SingleInv
  <2>2. ASSUME \/ Disconnect
               \/ \E h \in Hosts : ExecutorFails(h) \/ LoseProbe(h)
                                    \/ Remount(h) \/ Mark(h)
               \/ \E t \in TaskId : OrphanEnds(t)
        PROVE  Versioned' /\ \A t \in SingletonTask : SingleOK(t)'
    <3>1. UNCHANGED <<singletons, building, mailbox, driver, tasks, target_version>>
      BY <2>2, SilentFailures DEF schedulerVars
    <3> QED
      BY <2>1, <3>1, QuietKeepsSingle
  <2>3. \/ Connect \/ \E h \in Hosts : AnswerProbe(h)
        \/ \E h \in Hosts : MakeOffer(h)
        \/ \E t \in TaskId : TaskStarts(t) \/ TaskKilled(t) \/ TaskFails(t)
        \/ TakeDecline \/ TakeProbe \/ TakeLaunch \/ TakeKill \/ TakeReconcile
        \/ DropCall \/ Disconnect
        \/ \E h \in Hosts : ExecutorFails(h) \/ LoseProbe(h)
                             \/ Remount(h) \/ Mark(h)
        \/ \E t \in TaskId : OrphanEnds(t)
    BY <1>2, Zenon DEF MesosStep, MesosActs, Repeats
  <2>4. Versioned' /\ \A t \in SingletonTask : SingleOK(t)'
    BY <2>1, <2>2, <2>3, OtherNewsKeepSingle, OfferKeepsSingle, TasksKeepSingle,
       SilentCallsKeepSingle, LaunchTakenKeepsSingle, KillTakenKeepsSingle,
       ReconcileTakenKeepsSingle, DropKeepsSingle
  <2> QED
    BY <2>4 DEF SingleInv
<1>3. CASE ~FailOver /\ incarnation # 0
  <2>1. incarnation' = incarnation
    BY <1>3
      DEF MesosStep, MesosActs, Connect, TakeDecline, TakeLaunch, TakeKill,
          TakeReconcile, TakeProbe, NextCall, DropCall, MakeOffer,
          ExecutorFails, AnswerProbe, LoseProbe, AgentReturns, Remount, Mark,
          OrphanEnds, TaskStarts, TaskKilled, TaskFails, TaskEnds, Disconnect, ResendUpdate,
          schedulerVars
  <2> QED
    BY <1>3, <2>1 DEF SingleInv
<1> QED
  BY <1>1, <1>2, <1>3

(***************************************************************************)
(* Connected, Mesos has one offer of a host under way; from the time that  *)
(* the connection breaks until it is back no offer is made.                *)
(***************************************************************************)
LEMMA FewerHeld ==
  ASSUME ClusterInv, NEW O,
         \/ Callback \/ DropCall
         \/ mailbox' = <<>> /\ driver' = <<>> /\ building' = Idle
         \/ UNCHANGED <<mailbox, driver, building>>
  PROVE  HeldOf(O)' \in Int /\ HeldOf(O)' <= HeldOf(O)
<1>1. Inv /\ HeldOf(O) \in Nat
  BY HeldNat DEF ClusterInv
<1>2. CASE Callback
  <2>1. HeldOf(O)' = HeldOf(O)
    BY <1>1, <1>2, CallbackHolds
  <2> QED
    BY <1>1, <2>1
<1>3. CASE DropCall
  <2>1. HeldOf(O)' = HeldOf(O) - One(Head(driver) \in Answers(O))
    BY <1>3, DropHolds
  <2> QED
    BY <1>1, <2>1 DEF One
<1>4. CASE mailbox' = <<>> /\ driver' = <<>> /\ building' = Idle
  <2>1. HeldOf(O)' = 0
    BY <1>4, EmptiedHoldsNone
  <2> QED
    BY <1>1, <2>1
<1>5. CASE UNCHANGED <<mailbox, driver, building>>
  <2>1. HeldOf(O)' = HeldOf(O)
    BY <1>5 DEF HeldOf, Waiting, InHand, Answered
  <2> QED
    BY <1>1, <2>1
<1> QED
  BY <1>2, <1>3, <1>4, <1>5

\* What a step without a connection does to what is under way.
LEMMA Disconnected ==
  ASSUME [ClusterNext]_clusterVars, ~connected, ~connected'
  PROVE  \/ Callback \/ DropCall
         \/ mailbox' = <<>> /\ driver' = <<>> /\ building' = Idle
         \/ UNCHANGED <<mailbox, driver, building>>
         \/ \E h \in Hosts : AgentReturns(h)
<1>1. CASE SchedulerStep
  BY <1>1 DEF SchedulerStep
<1>2. CASE MesosStep
  <2>1. /\ ~Connect /\ ~Disconnect /\ ~ResendUpdate
        /\ ~TakeDecline /\ ~TakeLaunch /\ ~TakeKill /\ ~TakeReconcile
        /\ ~TakeProbe
        /\ \A h \in Hosts : ~MakeOffer(h) /\ ~AnswerProbe(h)
        /\ \A t \in TaskId : ~TaskStarts(t) /\ ~TaskKilled(t) /\ ~TaskFails(t)
    BY DEF Connect, Disconnect, ResendUpdate, TakeDecline, TakeLaunch, TakeKill,
           TakeReconcile, TakeProbe, NextCall, MakeOffer, AnswerProbe,
           TaskStarts, TaskKilled, TaskFails, TaskEnds, Send
  <2>2. FailOver => mailbox' = <<>> /\ driver' = <<>> /\ building' = Idle
    BY DEF FailOver, Restart
  <2>3. \/ \E h \in Hosts : ExecutorFails(h) \/ LoseProbe(h) \/ Remount(h)
                              \/ Mark(h)
        \/ \E t \in TaskId : OrphanEnds(t)
        => UNCHANGED <<mailbox, driver, building>>
    BY SilentFailures DEF schedulerVars
  <2> QED
    BY <1>2, <2>1, <2>2, <2>3 DEF MesosStep, MesosActs
<1>3. CASE \/ UNCHANGED clusterVars
           \/ \E h \in Hosts : KeepaliveOver(h) \/ ProbeDue(h)
           \/ \E v \in Posts : Post(v)
  BY <1>3 DEF clusterVars, schedulerVars, KeepaliveOver, ProbeDue, Timer, Post,
              KeepaliveElapses, ProbeIntervalElapses, PostVersion
<1> QED
  BY <1>1, <1>2, <1>3 DEF ClusterNext

\* The agents stay.
LEMMA AgentsStay ==
  ASSUME [ClusterNext]_clusterVars, ~Repeats
  PROVE  agents' = agents
<1>1. CASE MesosStep
  BY <1>1
    DEF MesosStep, MesosActs, Connect, TakeDecline, TakeLaunch, TakeKill,
        TakeReconcile, TakeProbe, NextCall, DropCall, MakeOffer, AnswerProbe,
        ExecutorFails, LoseProbe, Remount, Mark, OrphanEnds, Disconnect,
        TaskStarts, TaskKilled, TaskFails, TaskEnds, FailOver, mesosVars, hostVars, Repeats
<1>2. CASE ~MesosStep
  BY <1>2
    DEF ClusterNext, SchedulerStep, KeepaliveOver, ProbeDue, Timer, Post,
        clusterVars, mesosVars, hostVars
<1> QED
  BY <1>1, <1>2

LEMMA CalmKept ==
  ASSUME ClusterInv, Calm, [ClusterNext]_clusterVars, ~Repeats
  PROVE  Calm'
<1>1. agents' = agents
  BY AgentsStay
<1>2. \A h : OffersOf(h)' = OffersOf(h)
  BY <1>1 DEF OffersOf, ValidOffer
<1>3. Inv' /\ ClusterInv'
  BY ClusterNextInv DEF ClusterInv
<1>4. ASSUME NEW h \in DOMAIN SlaveOf
      PROVE  HeldOf(OffersOf(h))' <= 1
  <2>1. PICK O : O = OffersOf(h)
    OBVIOUS
  <2>2. O = OffersOf(h)' /\ HeldOf(O) <= 1 /\ HeldOf(O) \in Nat
    BY <1>2, <2>1, HeldNat DEF Calm, ClusterInv
  <2>3. CASE connected'
    <3>1. HeldOf(OffersOf(h))' = One(h \in offered')
      BY <1>3, <2>3 DEF ClusterInv, OffersInv, One
    <3> QED
      BY <3>1 DEF One
  <2>4. CASE connected /\ ~connected'
    <3>1. Disconnect \/ FailOver
      <4>1. CASE MesosStep
        BY <2>4, <4>1, Zenon
          DEF MesosStep, MesosActs, Connect, TakeDecline, TakeLaunch, TakeKill,
              TakeReconcile, TakeProbe, NextCall, DropCall, MakeOffer,
              AnswerProbe, ExecutorFails, LoseProbe, AgentReturns, Remount,
              Mark, OrphanEnds, TaskStarts, TaskKilled, TaskFails, TaskEnds, ResendUpdate,
              mesosVars
      <4>2. CASE ~MesosStep
        BY <2>4, <4>2
          DEF ClusterNext, SchedulerStep, KeepaliveOver, ProbeDue, Timer, Post,
              clusterVars, mesosVars
      <4> QED
        BY <4>1, <4>2
    <3>2. \/ UNCHANGED <<mailbox, driver, building>>
          \/ mailbox' = <<>> /\ driver' = <<>> /\ building' = Idle
      BY <3>1 DEF Disconnect, FailOver, Restart, schedulerVars
    <3>3. HeldOf(O)' \in Int /\ HeldOf(O)' <= HeldOf(O)
      BY <3>2, FewerHeld
    <3> QED
      BY <2>2, <3>3
  <2>5. CASE ~connected /\ ~connected'
    <3>1. HeldOf(O)' \in Int /\ HeldOf(O)' <= HeldOf(O)
      BY <2>5, Disconnected, FewerHeld DEF Repeats
    <3> QED
      BY <2>2, <3>1
  <2> QED
    BY <2>3, <2>4, <2>5
<1> QED
  BY <1>1, <1>4 DEF Calm

LEMMA SingleKept ==
  ASSUME ClusterInv, NoVersion \notin Posts, Calm, SingleInv,
         [ClusterNext]_clusterVars, ~Repeats
  PROVE  SingleInv'
<1>1. CASE SchedulerStep
  BY <1>1, SchedulerKeepsSingle
<1>2. CASE MesosStep
  BY <1>2, MesosStepsKeepSingle
<1>3. CASE \/ UNCHANGED clusterVars
           \/ \E h \in Hosts : KeepaliveOver(h) \/ ProbeDue(h)
           \/ \E v \in Posts : Post(v)
  <2>1. /\ UNCHANGED <<singletons, building, mailbox, driver, tasks, incarnation>>
        /\ target_version' = target_version \/ target_version' # NoVersion
    BY <1>3 DEF clusterVars, schedulerVars, mesosVars, KeepaliveOver,
                ProbeDue, Timer, Post, KeepaliveElapses, ProbeIntervalElapses,
                PostVersion
  <2> QED
    BY <2>1, QuietKeepsSingle DEF SingleInv
<1> QED
  BY <1>1, <1>2, <1>3 DEF ClusterNext

LEMMA StillNoRepeat ==
  ASSUME ClusterInv, UNCHANGED clusterVars
  PROVE  ~Repeats
<1>1. failures \in Nat /\ failures' = failures
  BY DEF ClusterInv, MesosInv, ClusterTypeOK, clusterVars, mesosVars
<1>2. ResendUpdate => failures' = failures + 1
  BY DEF ResendUpdate
<1>3. \A h \in Hosts : AgentReturns(h) => failures' = failures + 1
  BY DEF AgentReturns
<1> QED
  BY <1>1, <1>2, <1>3 DEF Repeats

LEMMA SingleInit ==
  ASSUME ClusterInit
  PROVE  Calm /\ SingleInv
<1>1. \A O : HeldOf(O) = 0
  <2>1. mailbox \in Seq(OtherEvent) /\ driver = <<>> /\ building = Idle
    BY DEF ClusterInit, Init
  <2> QED
    BY <2>1, EmptyHoldsNone
<1>2. /\ agents = SlaveOf /\ mailbox = <<>> /\ driver = <<>> /\ building = Idle
      /\ tasks = [t \in TaskId |-> "NONE"]
      /\ \A s \in Singletons : singletons[s].state # "RUNNING"
  BY DEF ClusterInit, Init, Unknown
<1>3. Calm
  BY <1>1, <1>2 DEF Calm
<1>4. Versioned
  BY <1>2 DEF Versioned
<1>5. ASSUME NEW t \in SingletonTask
      PROVE  SingleOK(t)
  <2>1. ~Active(t)
    BY <1>2 DEF Active, SingletonTask
  <2>2. \A P, Q : ~Has(<<>>, P) /\ ~Before(<<>>, P, Q)
    BY FewOrder
  <2> QED
    BY <1>2, <2>1, <2>2 DEF SingleOK
<1> QED
  BY <1>3, <1>4, <1>5 DEF SingleInv

(***************************************************************************)
(* As long as the scheduler is not restarted, one task of a singleton at a *)
(* time is active: with any number of hosts, of failing tasks and of       *)
(* messages under way, and when the connection breaks and calls and        *)
(* messages are lost.  The one record suffices since it changes before the *)
(* launch is sent, and goes only with an update that finds no task.        *)
(***************************************************************************)
THEOREM SingletonsStaySingle ==
  ASSUME NoVersion \notin Posts
  PROVE  ClusterSpec /\ [][~Repeats]_clusterVars => []SingleInstance
<1>1. ClusterInit => Calm /\ SingleInv
  BY SingleInit
<1>2. ClusterInv /\ Calm /\ SingleInv /\ [ClusterNext]_clusterVars
        /\ [~Repeats]_clusterVars
        => Calm' /\ SingleInv'
  <2>1. ClusterInv /\ Calm /\ SingleInv /\ [ClusterNext]_clusterVars /\ ~Repeats
          => Calm' /\ SingleInv'
    BY CalmKept, SingleKept
  <2>2. ClusterInv /\ UNCHANGED clusterVars => ~Repeats
    BY StillNoRepeat
  <2> QED
    BY <2>1, <2>2
<1>3. ClusterInv /\ SingleInv => SingleInstance
  <2> SUFFICES ASSUME SingleInv, incarnation = 0, NEW s \in Singletons,
                      NEW t \in TaskId, t.service = s, Active(t),
                      NEW u \in TaskId, u.service = s, Active(u)
               PROVE  t = u
    BY DEF SingleInstance
  <2>1. SingleOK(t) /\ SingleOK(u)
    BY DEF SingleInv, SingletonTask
  <2>2. t.host = u.host
    BY <2>1 DEF SingleOK, Own, RunningAs
  <2> QED
    BY <2>2 DEF TaskId
<1> QED
  BY <1>1, <1>2, <1>3, ClusterInvariant, PTL DEF ClusterSpec

-----------------------------------------------------------------------------
(***************************************************************************)
(* The records of core services and singletons: an update that says what   *)
(* the record does not, or a call that makes it true, is under way.        *)
(***************************************************************************)
Followed(q, P, Q) ==
  \A i \in DOMAIN q : q[i] \in P => \E j \in DOMAIN q : i < j /\ q[j] \in Q

Tracked == {t \in TaskId : t.service \in Core \cup Singletons}

Says(ns, t, st) ==
  t.host \in DOMAIN ns /\ ns[t.host].service[t.service].state = st

MadeFor(t) == /\ building.offer.host = t.host
              /\ t.service \in ServicesOf(building.made)

\* The framework is going to ask for all tasks when it is registered again.
Registrations == {e \in Event : e.type = "registered"}
Reconnecting ==
  ~connected \/ Has(mailbox, Registrations) \/ Has(driver, AsksAll)

(***************************************************************************)
(* A record of a task that is over goes with an update that is on its way, *)
(* or comes before its launch; a task that runs without a record is about  *)
(* to get one, or to be killed: at the latest by the reconciliation that   *)
(* follows a start of the process, or a break of the connection, with      *)
(* which the call that was to kill the task may be gone.                   *)
(***************************************************************************)
OverOK(t) ==
  ~Active(t) =>
    /\ Followed(mailbox, Up(t), Lost(t))
    /\ Recorded(t) =>
         Has(mailbox, Lost(t)) \/ Has(driver, Launches(t)) \/ MadeFor(t)

RunningOK(t) ==
  tasks[t] = "RUNNING" =>
    /\ Followed(mailbox, Lost(t), Up(t))
    /\ ~Recorded(t) =>
         Has(mailbox, Up(t)) \/ Has(driver, KillsOf(t)) \/ Reconnecting

RecordsInv == \A t \in Tracked : OverOK(t) /\ RunningOK(t)

(***************************************************************************)
(* What is assumed: a task that ends is reported with TASK_LOST (the       *)
(* scheduler takes TASK_FINISHED for running), and no host has a "-" in    *)
(* its name, whose updates are booked on another one.                      *)
(***************************************************************************)
Plain == /\ Endings \subseteq {"LOST"}
         /\ \A h \in Hosts : Suffix[h] = h

-----------------------------------------------------------------------------
LEMMA TailFollowed ==
  ASSUME NEW S, NEW q \in Seq(S), q # <<>>, NEW P, NEW Q, Followed(q, P, Q)
  PROVE  Followed(Tail(q), P, Q) /\ (Head(q) \in P => Has(Tail(q), Q))
<1>1. /\ DOMAIN q = 1 .. Len(q) /\ Len(q) \in Nat \ {0}
      /\ DOMAIN Tail(q) = 1 .. Len(q) - 1
      /\ \A i \in 1 .. Len(q) - 1 : Tail(q)[i] = q[i + 1]
      /\ Head(q) = q[1]
  BY HeadTailProperties, LenProperties, EmptySeq
<1>2. \A i \in DOMAIN q : i = 1 \/ (i - 1 \in DOMAIN Tail(q)
                                     /\ Tail(q)[i - 1] = q[i])
  BY <1>1
<1>3. \A i \in DOMAIN Tail(q) : i + 1 \in DOMAIN q /\ Tail(q)[i] = q[i + 1]
  BY <1>1
<1>4. ASSUME NEW i \in DOMAIN Tail(q), Tail(q)[i] \in P
      PROVE  \E j \in DOMAIN Tail(q) : i < j /\ Tail(q)[j] \in Q
  <2>1. i + 1 \in DOMAIN q /\ q[i + 1] \in P
    BY <1>3, <1>4
  <2>2. PICK j \in DOMAIN q : i + 1 < j /\ q[j] \in Q
    BY <2>1 DEF Followed
  <2>3. j - 1 \in DOMAIN Tail(q) /\ Tail(q)[j - 1] \in Q /\ i < j - 1
    BY <1>1, <1>2, <2>2
  <2> QED
    BY <2>3
<1>5. ASSUME Head(q) \in P
      PROVE  Has(Tail(q), Q)
  <2>1. PICK j \in DOMAIN q : 1 < j /\ q[j] \in Q
    BY <1>1, <1>5 DEF Followed
  <2>2. j - 1 \in DOMAIN Tail(q) /\ Tail(q)[j - 1] \in Q
    BY <1>1, <1>2, <2>1
  <2> QED
    BY <2>2 DEF Has
<1> QED
  BY <1>4, <1>5 DEF Followed

LEMMA ConcatFollowed ==
  ASSUME NEW S, NEW q \in Seq(S), NEW r \in Seq(S), NEW P, NEW Q,
         ~Has(r, P), Has(r, Q) \/ Followed(q, P, Q)
  PROVE  Followed(q \o r, P, Q)
<1> DEFINE n == Len(q)
           s == q \o r
<1>1. /\ n \in Nat /\ Len(r) \in Nat
      /\ DOMAIN q = 1 .. n /\ DOMAIN r = 1 .. Len(r)
      /\ DOMAIN s = 1 .. n + Len(r)
      /\ \A i \in 1 .. n + Len(r) : s[i] = IF i <= n THEN q[i] ELSE r[i - n]
  BY ConcatProperties, LenProperties
<1> HIDE DEF n, s
<1>2. \A i \in DOMAIN q : i \in DOMAIN s /\ s[i] = q[i] /\ i <= n
  BY <1>1
<1>3. \A i \in DOMAIN r : n + i \in DOMAIN s /\ s[n + i] = r[i] /\ n + i > n
  BY <1>1
<1>4. \A i \in DOMAIN s : \/ i \in DOMAIN q /\ s[i] = q[i]
                          \/ i > n /\ i - n \in DOMAIN r /\ s[i] = r[i - n]
  BY <1>1
<1>5. ASSUME NEW i \in DOMAIN s, s[i] \in P
      PROVE  \E j \in DOMAIN s : i < j /\ s[j] \in Q
  <2>1. i \in DOMAIN q /\ q[i] \in P
    BY <1>4, <1>5 DEF Has
  <2>2. CASE Has(r, Q)
    <3>1. PICK j \in DOMAIN r : r[j] \in Q
      BY <2>2 DEF Has
    <3>2. n + j \in DOMAIN s /\ s[n + j] \in Q /\ i < n + j
      BY <1>1, <1>2, <1>3, <2>1, <3>1
    <3> QED
      BY <3>2
  <2>3. CASE Followed(q, P, Q)
    <3>1. PICK j \in DOMAIN q : i < j /\ q[j] \in Q
      BY <2>1, <2>3 DEF Followed
    <3> QED
      BY <1>2, <3>1
  <2> QED
    BY <2>2, <2>3
<1> QED
  BY <1>5 DEF Followed, s

(***************************************************************************)
(* What the invariant asks of a callback, and of a step of Mesos.          *)
(***************************************************************************)
LEMMA CallbackKeepsRecord ==
  ASSUME NEW t \in Tracked, OverOK(t), RunningOK(t), tasks' = tasks,
         mailbox \in Seq(Event), mailbox # <<>>, mailbox' = Tail(mailbox),
         \A P : Has(driver, P) => Has(driver', P),
         Recorded(t)' => Recorded(t) \/ Head(mailbox) \in Up(t),
         Head(mailbox) \in Lost(t) => ~Recorded(t)',
         Recorded(t) => Recorded(t)' \/ Head(mailbox) \in Lost(t),
         Head(mailbox) \in Up(t) => Recorded(t)' \/ Has(driver', KillsOf(t)),
         MadeFor(t) => MadeFor(t)',
         Reconnecting => Reconnecting'
  PROVE  OverOK(t)' /\ RunningOK(t)'
<1>1. \A P : Has(mailbox, P) <=> (Head(mailbox) \in P \/ Has(mailbox', P))
  BY TailOrder
<1>2. \A P, Q : Followed(mailbox, P, Q) =>
        Followed(mailbox', P, Q) /\ (Head(mailbox) \in P => Has(mailbox', Q))
  BY TailFollowed
<1>3. Active(t)' = Active(t)
  BY DEF Active
<1>4. OverOK(t)'
  BY <1>1, <1>2, <1>3 DEF OverOK
<1>5. RunningOK(t)'
  BY <1>1, <1>2 DEF RunningOK
<1> QED
  BY <1>4, <1>5

LEMMA MesosKeepsRecord ==
  ASSUME NEW t \in Tracked, OverOK(t), RunningOK(t),
         Recorded(t)' = Recorded(t), MadeFor(t)' = MadeFor(t),
         mailbox \in Seq(Event), NEW es \in Seq(Event), mailbox' = mailbox \o es,
         ~Active(t)' => /\ ~Has(es, Up(t))
                        /\ Active(t) => Has(es, Lost(t))
                        /\ Has(driver, Launches(t)) =>
                             Has(driver, Launches(t))' \/ Has(es, Lost(t)),
         tasks'[t] = "RUNNING" =>
           /\ ~Has(es, Lost(t))
           /\ \/ Has(es, Up(t))
              \/ /\ tasks[t] = "RUNNING"
                 /\ Has(driver, KillsOf(t)) \/ Reconnecting =>
                      Has(driver, KillsOf(t))' \/ Reconnecting'
  PROVE  OverOK(t)' /\ RunningOK(t)'
<1>1. \A P : Has(mailbox', P) <=> (Has(mailbox, P) \/ Has(es, P))
  BY ConcatOrder
<1>2. \A P, Q : ~Has(es, P) /\ (Has(es, Q) \/ Followed(mailbox, P, Q)) =>
                  Followed(mailbox', P, Q)
  BY ConcatFollowed
<1>3. OverOK(t)'
  BY <1>1, <1>2 DEF OverOK
<1>4. RunningOK(t)'
  BY <1>1, <1>2 DEF RunningOK
<1> QED
  BY <1>3, <1>4

\* Mesos takes calls and sends updates; the scheduler does nothing.
LEMMA MesosStepKeepsRecords ==
  ASSUME ClusterInv, RecordsInv, UNCHANGED Apart,
         NEW es \in Seq(Event), mailbox' = mailbox \o es,
         driver' = driver \/ (driver # <<>> /\ driver' = Tail(driver)),
         \A t \in Tracked :
           /\ ~Active(t)' => /\ ~Has(es, Up(t))
                             /\ Active(t) => Has(es, Lost(t))
                             /\ \/ driver' = driver
                                \/ Head(driver) \notin Launches(t)
                                \/ Has(es, Lost(t))
           /\ tasks'[t] = "RUNNING" =>
                /\ ~Has(es, Lost(t))
                /\ \/ Has(es, Up(t))
                   \/ /\ tasks[t] = "RUNNING"
                      /\ \/ Reconnecting'
                         \/ /\ connected' = connected
                            /\ \/ driver' = driver
                               \/ Head(driver) \notin KillsOf(t) \cup AsksAll
  PROVE  RecordsInv'
<1>1. mailbox \in Seq(Event) /\ driver \in Seq(Call)
  BY DEF ClusterInv, Inv, TypeOK
<1>2. \A P : driver' = driver \/ Head(driver) \notin P =>
               (Has(driver, P) => Has(driver', P))
  BY <1>1, TailOrder
<1>3. ASSUME NEW t \in Tracked
      PROVE  OverOK(t)' /\ RunningOK(t)'
  <2>1. OverOK(t) /\ RunningOK(t)
    BY DEF RecordsInv
  <2>2. Recorded(t)' = Recorded(t) /\ MadeFor(t)' = MadeFor(t)
    BY DEF Apart, Recorded, MadeFor
  <2>3. /\ driver' = driver \/ Head(driver) \notin Launches(t) =>
             (Has(driver, Launches(t)) => Has(driver, Launches(t))')
        /\ driver' = driver \/ Head(driver) \notin KillsOf(t) =>
             (Has(driver, KillsOf(t)) => Has(driver, KillsOf(t))')
        /\ driver' = driver \/ Head(driver) \notin AsksAll =>
             (Has(driver, AsksAll) => Has(driver, AsksAll)')
    BY <1>2
  <2>4. Has(mailbox, Registrations) => Has(mailbox, Registrations)'
    BY <1>1, ConcatOrder
  <2>5. /\ connected' = connected
        /\ driver' = driver \/ Head(driver) \notin KillsOf(t) \cup AsksAll
        => (Has(driver, KillsOf(t)) \/ Reconnecting =>
              Has(driver, KillsOf(t))' \/ Reconnecting')
    BY <2>3, <2>4 DEF Reconnecting
  <2> QED
    BY <1>1, <2>1, <2>2, <2>3, <2>5, MesosKeepsRecord
<1> QED
  BY <1>3 DEF RecordsInv, Tracked

-----------------------------------------------------------------------------
(***************************************************************************)
(* What the callbacks do to the slots of core services: a new host's are   *)
(* UNKNOWN, and only an update of the task itself sets one.                *)
(***************************************************************************)
CoreTask == {t \in TaskId : t.service \in Core}

SameSlots(ns, ms) ==
  \A t \in CoreTask : Says(ms, t, "RUNNING") <=> Says(ns, t, "RUNNING")

LEMMA CreateKeeps ==
  ASSUME NEW h, NEW slave
  PROVE  SameSlots(nodes, CreateHost(h, slave))
<1> DEFINE ms == CreateHost(h, slave)
<1> SUFFICES ASSUME NEW t \in CoreTask
             PROVE  Says(ms, t, "RUNNING") <=> Says(nodes, t, "RUNNING")
  BY DEF SameSlots
<1>1. t.service \in NodeServices
  BY DEF CoreTask, NodeServices
<1>2. CASE t.host \in DOMAIN nodes
  BY <1>2 DEF CreateHost, Says
<1>3. CASE t.host \notin DOMAIN nodes
  <2>1. t.host \in DOMAIN ms => ms[t.host] = NewNode(slave)
    BY <1>3 DEF CreateHost
  <2>2. NewNode(slave).service[t.service] = Unknown
    BY <1>1 DEF NewNode
  <2> HIDE DEF ms
  <2> QED
    BY <1>3, <2>1, <2>2 DEF Says, Unknown
<1> QED
  BY <1>2, <1>3

LEMMA OffersKeepSlots ==
  ASSUME TypeOK, Registered \/ IgnoreHost \/ MeetHost \/ StartProber \/ ProbeHost
                   \/ ChooseServices \/ KillServices \/ LaunchTasks
                   \/ FrameworkMessage
  PROVE  SameSlots(nodes, nodes')
<1>1. nodes \in [DOMAIN nodes -> NodeState]
  BY DEF TypeOK
<1>2. CASE nodes' = nodes
  BY <1>2 DEF SameSlots
<1>3. CASE MeetHost
  BY <1>3, CreateKeeps DEF MeetHost
<1>4. CASE StartProber
  <2>1. PICK h \in DOMAIN nodes :
          nodes' = [nodes EXCEPT ![h].service[Prober].state = "STARTING"]
    BY <1>4 DEF StartProber, KnownOffer
  <2>2. ASSUME NEW t \in CoreTask, t.host \in DOMAIN nodes
        PROVE  nodes'[t.host].service[t.service] = nodes[t.host].service[t.service]
    <3>1. t.service # Prober /\ t.service \in NodeServices
      BY SchedulerAssumption DEF CoreTask, NodeServices
    <3>2. nodes[t.host] \in NodeState
      BY <1>1, <2>2
    <3> QED
      BY <2>1, <2>2, <3>1, <3>2 DEF NodeState
  <2> QED
    BY <2>1, <2>2 DEF SameSlots, Says
<1>5. CASE ProbeHost
  <2>1. PICK h \in DOMAIN nodes : nodes' = [nodes EXCEPT ![h].probe_due = FALSE]
    BY <1>5 DEF ProbeHost, KnownOffer
  <2>2. ASSUME NEW g \in DOMAIN nodes
        PROVE  nodes'[g].service = nodes[g].service
    <3>1. PICK n \in NodeState : n = nodes[g]
      BY <1>1
    <3>2. nodes'[g] = n \/ nodes'[g] = [n EXCEPT !.probe_due = FALSE]
      BY <2>1, <3>1
    <3> QED
      BY <3>1, <3>2 DEF NodeState
  <2> QED
    BY <2>1, <2>2 DEF SameSlots, Says
<1>6. CASE FrameworkMessage
  <2>1. DOMAIN nodes' = DOMAIN nodes
    BY <1>6 DEF FrameworkMessage
  <2>2. ASSUME NEW g \in DOMAIN nodes
        PROVE  nodes'[g].service = nodes[g].service
    BY <1>1, <1>6 DEF FrameworkMessage, NodeState
  <2> QED
    BY <2>1, <2>2 DEF SameSlots, Says
<1> QED
  BY <1>2, <1>3, <1>4, <1>5, <1>6
    DEF Registered, IgnoreHost, ChooseServices, KillServices, LaunchTasks

\* What a slot that is set says of its task and of others.
LEMMA RecordSays ==
  ASSUME NEW ns, NEW u \in TaskId, NEW v, Record(ns, u, v),
         SlotAnswersFor(ns, u),
         ns \in [DOMAIN ns -> NodeState], u.host \in DOMAIN ns,
         SameSlots(nodes, ns), singletons \in [Singletons -> ServiceState],
         v \in {RunningAs(u.host), NotRunning}, NEW t \in Tracked
  PROVE  /\ t # u => (Recorded(t)' <=> Recorded(t))
         /\ Recorded(u)' <=> v = RunningAs(u.host)
<1>1. t \in TaskId /\ t.host # NoHost /\ u.host # NoHost
  BY SchedulerAssumption DEF Tracked, TaskId
<1>2. v.state = "RUNNING" <=> v = RunningAs(u.host)
  BY DEF RunningAs, NotRunning
<1>3. CASE u.service \in Singletons
  <2>1. nodes' = ns /\ singletons' = [singletons EXCEPT ![u.service] = v]
    BY <1>3 DEF Record
  <2>2. Recorded(u)' <=> v = RunningAs(u.host)
    BY <1>3, <2>1 DEF Recorded
  <2>3. ASSUME t # u
        PROVE  Recorded(t)' <=> Recorded(t)
    <3>1. CASE t.service = u.service
      <4>1. t.host # u.host
        BY <1>1, <2>3, <3>1 DEF TaskId
      <4>2. /\ Recorded(t) <=> singletons[u.service] = RunningAs(t.host)
            /\ Recorded(t)' <=> v = RunningAs(t.host)
        BY <1>3, <2>1, <3>1 DEF Recorded
      <4>3. singletons[u.service].task_id \in {u.host, NoHost}
        BY <1>3 DEF SlotAnswersFor, Slot
      <4> QED
        BY <1>1, <4>1, <4>2, <4>3 DEF RunningAs, NotRunning
    <3>2. CASE t.service # u.service /\ t.service \in Singletons
      BY <2>1, <3>2 DEF Recorded
    <3>3. CASE t.service \notin Singletons
      <4>1. t \in CoreTask
        BY <1>1, <3>3 DEF Tracked, CoreTask
      <4>2. Says(nodes', t, "RUNNING") <=> Says(nodes, t, "RUNNING")
        BY <2>1, <4>1 DEF SameSlots
      <4> QED
        BY <3>3, <4>2 DEF Recorded, Says
    <3> QED
      BY <3>1, <3>2, <3>3
  <2> QED
    BY <2>2, <2>3
<1>4. CASE u.service \notin Singletons
  <2>1. /\ nodes' = [ns EXCEPT ![u.host].service[u.service] = v]
        /\ singletons' = singletons
    BY <1>4 DEF Record
  <2>2. u.service \in NodeServices
    BY <1>4 DEF TaskId, Services
  <2>3. /\ DOMAIN nodes' = DOMAIN ns
        /\ nodes'[u.host].service[u.service] = v
        /\ \A h \in DOMAIN ns, s \in NodeServices :
             h # u.host \/ s # u.service =>
               nodes'[h].service[s] = ns[h].service[s]
    <3>1. \A h \in DOMAIN ns : ns[h] \in NodeState
      OBVIOUS
    <3> QED
      BY <2>1, <2>2, <3>1 DEF NodeState
  <2>4. Recorded(u)' <=> v = RunningAs(u.host)
    BY <1>2, <1>4, <2>3 DEF Recorded
  <2>5. ASSUME t # u
        PROVE  Recorded(t)' <=> Recorded(t)
    <3>1. CASE t.service \in Singletons
      BY <2>1, <3>1 DEF Recorded
    <3>2. CASE t.service \notin Singletons
      <4>1. t \in CoreTask /\ t.service \in NodeServices
        BY <1>1, <3>2 DEF Tracked, CoreTask, NodeServices
      <4>2. t.host # u.host \/ t.service # u.service
        BY <1>1, <2>5 DEF TaskId
      <4>3. Says(nodes', t, "RUNNING") <=> Says(ns, t, "RUNNING")
        BY <2>3, <4>1, <4>2 DEF Says
      <4>4. Says(ns, t, "RUNNING") <=> Says(nodes, t, "RUNNING")
        BY <4>1 DEF SameSlots
      <4> QED
        BY <3>2, <4>3, <4>4 DEF Recorded, Says
    <3> QED
      BY <3>1, <3>2
  <2> QED
    BY <2>4, <2>5
<1> QED
  BY <1>3, <1>4

\* A callback adds calls to those on their way.
LEMMA CallsAppended ==
  ASSUME Inv, Callback
  PROVE  \A P : Has(driver, P) => Has(driver', P)
<1> SUFFICES ASSUME NEW P, Has(driver, P)
             PROVE  Has(driver', P)
  OBVIOUS
<1>1. driver \in Seq(Call) /\ TypeOK
  BY DEF Inv, TypeOK
<1>2. ASSUME NEW r \in Seq(Call), driver' = driver \o r
      PROVE  Has(driver', P)
  BY <1>1, <1>2, ConcatOrder
<1>3. ASSUME NEW c \in Call, driver' = Append(driver, c)
      PROVE  Has(driver', P)
  <2>1. driver' = driver \o <<c>> /\ <<c>> \in Seq(Call)
    BY <1>1, <1>3, AppendIsConcat
  <2> QED
    BY <1>2, <2>1
<1>4. ASSUME NEW r \in Seq(Call), NEW q \in Seq(Call), driver' = driver \o r \o q
      PROVE  Has(driver', P)
  <2>1. driver' = driver \o (r \o q) /\ r \o q \in Seq(Call)
    BY <1>1, <1>4, ConcatAssociative
  <2> QED
    BY <1>2, <2>1
<1> DEFINE o == Head(mailbox).offer
           e == Head(mailbox)
<1>5. ASSUME NextEvent("resourceOffers")
      PROVE  /\ Decline(o) \in Call /\ ReconcileHost(o.host) \in Call
             /\ Probe(o.slave) \in Call /\ o.host \in Hosts
             /\ \A ts \in SUBSET Task : Launch(o, ts) \in Call
  BY <1>1, <1>5, OfferTaken, CallsTyped DEF Offer
<1>6. ASSUME NextEvent("statusUpdate")
      PROVE  Kills({e.task}) \in Seq(Call) /\ ShutdownKills(e) \in Seq(Call)
  BY <1>1, <1>6, UpdateTaken, KillsTyped DEF ShutdownKills
<1>7. CASE Registered
  <2>1. ReconcileAll \in Call
    BY DEF ReconcileAll, Call
  <2> QED
    BY <1>3, <1>7, <2>1 DEF Registered
<1>8. CASE IgnoreHost
  BY <1>3, <1>5, <1>8 DEF IgnoreHost
<1>9. CASE MeetHost
  <2>1. driver' = driver \o <<ReconcileHost(o.host), Decline(o)>>
    BY <1>9 DEF MeetHost
  <2>2. <<ReconcileHost(o.host), Decline(o)>> \in Seq(Call)
    <3>1. ReconcileHost(o.host) \in Call /\ Decline(o) \in Call
      BY <1>5, <1>9 DEF MeetHost
    <3> HIDE DEF o
    <3> QED
      BY <3>1
  <2> QED
    BY <1>2, <2>1, <2>2
<1>10. CASE StartProber
  <2>1. {[service |-> Prober, version |-> NoVersion]} \in SUBSET Task
    BY DEF Task, Services, NodeServices
  <2> QED
    BY <1>3, <1>5, <1>10, <2>1 DEF StartProber
<1>11. CASE ProbeHost
  <2>1. driver' = driver \o <<Probe(o.slave), ReconcileHost(o.host), Decline(o)>>
    BY <1>11 DEF ProbeHost
  <2>2. <<Probe(o.slave), ReconcileHost(o.host), Decline(o)>> \in Seq(Call)
    <3>1. /\ Probe(o.slave) \in Call /\ ReconcileHost(o.host) \in Call
          /\ Decline(o) \in Call
      BY <1>5, <1>11 DEF ProbeHost
    <3> HIDE DEF o
    <3> QED
      BY <3>1
  <2> QED
    BY <1>2, <2>1, <2>2
<1>12. CASE KillServices
  <2> DEFINE ts == {[service |-> s, host |-> o.host] :
                      s \in RunningOn(nodes[o.host])}
  <2>1. driver' = driver \o Kills(ts) \o <<Decline(o)>>
    BY <1>12 DEF KillServices
  <2>2. ts \in SUBSET TaskId
    <3>1. RunningOn(nodes[o.host]) \subseteq Services
      BY DEF RunningOn, CoreServicesRunning, Services, NodeServices
    <3>2. o.host \in Hosts
      BY <1>5, <1>12 DEF KillServices
    <3> HIDE DEF o
    <3> QED
      BY <3>1, <3>2 DEF TaskId
  <2> HIDE DEF ts
  <2>3. Kills(ts) \in Seq(Call)
    BY <2>2, KillsTyped
  <2>4. <<Decline(o)>> \in Seq(Call)
    <3>1. Decline(o) \in Call
      BY <1>5, <1>12 DEF KillServices
    <3> QED
      BY <3>1
  <2> QED
    BY <1>4, <2>1, <2>3, <2>4
<1>13. CASE ChooseServices
  BY <1>3, <1>5, <1>13 DEF ChooseServices
<1>14. CASE LaunchTasks
  <2>1. building.offer \in Offer /\ building.made \in SUBSET Task
    BY <1>1, <1>14, OfferInHand DEF LaunchTasks, TypeOK
  <2> QED
    BY <1>3, <1>14, <2>1, CallsTyped DEF LaunchTasks
<1>15. CASE ServiceUp \/ ServiceStaging
  BY <1>2, <1>6, <1>15 DEF ServiceUp, ServiceStaging
<1>16. CASE ServiceUnwanted
  BY <1>4, <1>6, <1>16 DEF ServiceUnwanted
<1>17. CASE driver' = driver
  BY <1>17
<1> QED
  BY <1>7, <1>8, <1>9, <1>10, <1>11, <1>12, <1>13, <1>14, <1>15, <1>16, <1>17
    DEF Callback, MakeTask, UnknownService, ServiceDown, FrameworkMessage

\* The callback `registered' asks for all tasks.
LEMMA RegisteredAsksAll ==
  ASSUME Inv, Callback, connected' = connected
  PROVE  Reconnecting => Reconnecting'
<1>1. \A P : Has(driver, P) => Has(driver', P)
  BY CallsAppended
<1>2. driver \in Seq(Call) /\ mailbox \in Seq(Event)
  BY DEF Inv, TypeOK
<1>3. CASE Registered
  <2>1. ReconcileAll \in AsksAll /\ ReconcileAll \in Call
    BY DEF ReconcileAll, AsksAll, Call
  <2>2. driver' = driver \o <<ReconcileAll>> /\ <<ReconcileAll>> \in Seq(Call)
    BY <1>2, <1>3, <2>1, AppendIsConcat DEF Registered
  <2>3. Has(<<ReconcileAll>>, AsksAll)
    BY <2>1, FewOrder
  <2>4. Has(driver', AsksAll)
    BY <1>2, <2>2, <2>3, ConcatOrder
  <2> QED
    BY <2>4 DEF Reconnecting
<1>4. CASE ~Registered
  <2>1. \/ mailbox' = mailbox
        \/ \E type : type # "registered" /\ NextEvent(type)
    BY <1>4, Zenon
      DEF Callback, IgnoreHost, MeetHost, StartProber, ProbeHost,
          ChooseServices, LaunchTasks, KillServices, MakeTask, UnknownService,
          ServiceUp, ServiceUnwanted, ServiceDown, ServiceStaging,
          FrameworkMessage
  <2>2. Has(mailbox, Registrations) => Has(mailbox', Registrations)
    <3>1. ASSUME NEW type, type # "registered", NextEvent(type)
          PROVE  Has(mailbox, Registrations) => Has(mailbox', Registrations)
      <4>1. mailbox # <<>> /\ mailbox' = Tail(mailbox)
              /\ Head(mailbox) \notin Registrations
        BY <3>1 DEF NextEvent, TakeEvent, Registrations
      <4> QED
        BY <1>2, <4>1, TailOrder
    <3> QED
      BY <2>1, <3>1
  <2> QED
    BY <1>1, <2>2 DEF Reconnecting
<1> QED
  BY <1>3, <1>4

\* The records of core services are what the slots say.
LEMMA SlotsRecorded ==
  ASSUME SameSlots(nodes, nodes'), singletons' = singletons, NEW t \in Tracked
  PROVE  Recorded(t)' <=> Recorded(t)
<1>1. CASE t.service \in Singletons
  BY <1>1 DEF Recorded
<1>2. CASE t.service \notin Singletons
  <2>1. t \in CoreTask
    BY <1>2 DEF Tracked, CoreTask
  <2>2. Says(nodes', t, "RUNNING") <=> Says(nodes, t, "RUNNING")
    BY <2>1 DEF SameSlots
  <2> QED
    BY <1>2, <2>2 DEF Recorded, Says
<1> QED
  BY <1>1, <1>2

\* The callbacks that set no record.
LEMMA OffersKeepRecords ==
  ASSUME ClusterInv, RecordsInv, tasks' = tasks, connected' = connected,
         Registered \/ IgnoreHost \/ MeetHost \/ StartProber \/ ProbeHost
           \/ ChooseServices \/ KillServices \/ FrameworkMessage
  PROVE  RecordsInv'
<1>1. PICK type \in {"registered", "resourceOffers", "frameworkMessage"} :
        TakeEvent(type)
  BY NextIsTaken
    DEF Registered, IgnoreHost, MeetHost, StartProber, ProbeHost,
        ChooseServices, KillServices, FrameworkMessage
<1>2. /\ TypeOK /\ mailbox \in Seq(Event) /\ mailbox # <<>>
      /\ mailbox' = Tail(mailbox) /\ building = Idle
      /\ Head(mailbox).type # "statusUpdate"
  BY <1>1 DEF ClusterInv, Inv, TypeOK, TakeEvent
<1>3. singletons' = singletons
  BY DEF Registered, IgnoreHost, MeetHost, StartProber, ProbeHost,
         ChooseServices, KillServices, FrameworkMessage
<1>4. \A P : Has(driver, P) => Has(driver', P)
  BY CallsAppended DEF ClusterInv, Callback
<1>5. SameSlots(nodes, nodes') /\ (Reconnecting => Reconnecting')
  BY <1>2, OffersKeepSlots, RegisteredAsksAll DEF ClusterInv, Callback
<1>6. ASSUME NEW t \in Tracked
      PROVE  OverOK(t)' /\ RunningOK(t)'
  <2>1. OverOK(t) /\ RunningOK(t)
    BY DEF RecordsInv
  <2>2. Recorded(t)' <=> Recorded(t)
    BY <1>3, <1>5, SlotsRecorded
  <2>3. Head(mailbox) \notin Up(t) /\ Head(mailbox) \notin Lost(t)
    BY <1>2 DEF Up, Lost, About
  <2>4. ~MadeFor(t)
    BY <1>2 DEF MadeFor, Idle, ServicesOf
  <2> QED
    BY <1>2, <1>4, <1>5, <2>1, <2>2, <2>3, <2>4, CallbackKeepsRecord
<1> QED
  BY <1>6 DEF RecordsInv, Tracked

\* The updates: one that sets a record is of its own task.
LEMMA UpdatesKeepRecords ==
  ASSUME ClusterInv, Plain, RecordsInv, tasks' = tasks, connected' = connected,
         UnknownService \/ ServiceUp \/ ServiceUnwanted \/ ServiceDown
           \/ ServiceStaging
  PROVE  RecordsInv'
<1> PICK e : e = Head(mailbox)
  OBVIOUS
<1> PICK u : u = e.task
  OBVIOUS
<1> DEFINE ns == WithHost(e)
<1>1. NextEvent("statusUpdate") /\ building' = building
  BY DEF UnknownService, ServiceUp, ServiceUnwanted, ServiceDown, ServiceStaging
<1>2. /\ TypeOK /\ Inv /\ mailbox \in Seq(Event) /\ mailbox # <<>>
      /\ mailbox' = Tail(mailbox) /\ driver \in Seq(Call)
      /\ singletons \in [Singletons -> ServiceState]
  BY <1>1, NextIsTaken DEF ClusterInv, Inv, TypeOK, TakeEvent
<1>3. /\ u \in TaskId /\ e \in Event /\ e.type = "statusUpdate"
      /\ e.slave \in Slaves \cup {NoSlave}
      /\ u.host \in Hosts /\ Suffix[u.host] = u.host
  BY <1>1, <1>2, UpdateTaken, EventTaken DEF Plain, TaskId
<1>4. /\ NodesOK(ns) /\ u.host \in DOMAIN ns /\ SameSlots(nodes, ns)
      /\ ns \in [DOMAIN ns -> NodeState]
  <2>1. NodesOK(nodes)
    BY <1>2, NodesOKIsInv DEF Inv
  <2>2. ns = CreateHost(u.host, e.slave)
    BY <1>3 DEF WithHost
  <2> HIDE DEF ns
  <2>3. NodesOK(ns) /\ u.host \in DOMAIN ns
    BY <1>3, <2>1, <2>2, CreateHostOK
  <2>4. SameSlots(nodes, ns)
    BY <2>2, CreateKeeps
  <2> QED
    BY <2>3, <2>4 DEF NodesOK
<1>5. (\A P : Has(driver, P) => Has(driver', P)) /\ (Reconnecting => Reconnecting')
  BY <1>2, CallsAppended, RegisteredAsksAll DEF Callback
<1>6. \A t \in Tracked : /\ e \in Up(t) \/ e \in Lost(t) => t = u
                         /\ e \in Up(t) => e.state \in {"RUNNING", "FINISHED"}
                         /\ e \in Lost(t) => e.state = "LOST"
                         /\ e.state = "LOST" /\ t = u => e \in Lost(t)
                         /\ e.state \in {"RUNNING", "FINISHED"} /\ t = u
                              => e \in Up(t)
  BY <1>3 DEF Up, Lost, About
<1>7. \A t \in Tracked : (MadeFor(t) => MadeFor(t)') /\ OverOK(t) /\ RunningOK(t)
  BY <1>1 DEF MadeFor, RecordsInv
<1> HIDE DEF ns
<1> SUFFICES ASSUME NEW t \in Tracked
             PROVE  /\ Recorded(t)' => Recorded(t) \/ e \in Up(t)
                    /\ e \in Lost(t) => ~Recorded(t)'
                    /\ Recorded(t) => Recorded(t)' \/ e \in Lost(t)
                    /\ e \in Up(t) => Recorded(t)' \/ Has(driver', KillsOf(t))
  <2>1. \A t \in Tracked : OverOK(t)' /\ RunningOK(t)'
    BY <1>2, <1>5, <1>7, CallbackKeepsRecord
  <2> QED
    BY <2>1 DEF RecordsInv, Tracked
<1>8. CASE ~NamesService(e)
  BY <1>3, <1>8 DEF NamesService
<1>9. ASSUME nodes' = ns, singletons' = singletons
      PROVE  Recorded(t)' <=> Recorded(t)
  BY <1>4, <1>9, SlotsRecorded
<1>10. CASE ServiceStaging
  <2>1. nodes' = ns /\ singletons' = singletons /\ e.state = "STAGING"
    BY <1>10 DEF ServiceStaging, ns
  <2> QED
    BY <1>6, <1>9, <2>1
<1>11. CASE ServiceUnwanted
  <2>1. /\ nodes' = ns /\ singletons' = singletons
        /\ driver' = driver \o Kills({u}) \o ShutdownKills(e)
        /\ e.state \in {"RUNNING", "FINISHED"}
    BY <1>11 DEF ServiceUnwanted, ns
  <2>2. Kills({u}) \in Seq(Call) /\ ShutdownKills(e) \in Seq(Call)
    BY <1>3, KillsTyped DEF ShutdownKills
  <2>3. Has(Kills({u}), KillsOf(u))
    <3> DEFINE c == [call |-> "killTask", tasks |-> {u}]
    <3>1. Kills({u}) = <<c>>
      BY DEF Kills
    <3>2. c \in KillsOf(u)
      BY <1>3 DEF KillsOf, Call
    <3> HIDE DEF c
    <3>3. Has(<<c>>, KillsOf(u))
      BY <3>2, FewOrder
    <3> QED
      BY <3>1, <3>3
  <2>4. Has(driver', KillsOf(u))
    <3> DEFINE k == Kills({u})
               q == driver \o k
    <3>1. k \in Seq(Call) /\ Has(k, KillsOf(u)) /\ driver' = q \o ShutdownKills(e)
      BY <2>1, <2>2, <2>3
    <3> HIDE DEF k
    <3>2. Has(q, KillsOf(u))
      BY <1>2, <3>1, ConcatOrder
    <3>3. q \in Seq(Call)
      BY <1>2, <3>1
    <3> HIDE DEF q
    <3> QED
      BY <2>2, <3>1, <3>2, <3>3, ConcatOrder
  <2> QED
    BY <1>6, <1>9, <2>1, <2>4
<1>12. CASE ServiceDown
  <2>1. /\ e.state = "LOST"
        /\ \/ SlotAnswersFor(ns, u) /\ Record(ns, u, NotRunning)
           \/ ~SlotAnswersFor(ns, u) /\ nodes' = ns /\ singletons' = singletons
    BY <1>12 DEF ServiceDown, ns
  <2>2. CASE SlotAnswersFor(ns, u) /\ Record(ns, u, NotRunning)
    <3>1. NotRunning # RunningAs(u.host)
      BY DEF NotRunning, RunningAs
    <3> QED
      BY <1>2, <1>3, <1>4, <1>6, <2>1, <2>2, <3>1, RecordSays
  <2>3. CASE ~SlotAnswersFor(ns, u) /\ nodes' = ns /\ singletons' = singletons
    <3>1. u \in Tracked => ~Recorded(u)'
      <4>1. u.service \in Singletons => ~Recorded(u)'
        BY <2>3 DEF SlotAnswersFor, Slot, Recorded, RunningAs
      <4>2. u.service \notin Singletons /\ u \in Tracked => SlotAnswersFor(ns, u)
        BY <1>4 DEF Tracked, NodesOK, SlotAnswersFor, Slot, NodeServices
      <4> QED
        BY <2>3, <4>1, <4>2
    <3> QED
      BY <1>6, <1>9, <2>1, <2>3, <3>1
  <2> QED
    BY <2>1, <2>2, <2>3
<1>13. CASE ServiceUp
  <2> DEFINE ms == [ns EXCEPT ![u.host].keepalive_over =
                                @ /\ u.service # Prober]
  <2>1. /\ e.state \in {"RUNNING", "FINISHED"} /\ ServiceShouldRun(ns, u)
        /\ \/ SlotAnswersFor(ns, u) /\ Record(ms, u, RunningAs(u.host))
           \/ ~SlotAnswersFor(ns, u) /\ nodes' = ns /\ singletons' = singletons
    BY <1>13 DEF ServiceUp, ns
  <2>2. CASE SlotAnswersFor(ns, u) /\ Record(ms, u, RunningAs(u.host))
    <3>1. DOMAIN ms = DOMAIN ns
      OBVIOUS
    <3>2. \A h \in DOMAIN ns : ms[h] \in NodeState /\ ms[h].service = ns[h].service
      <4> SUFFICES ASSUME NEW h \in DOMAIN ns
                   PROVE  ms[h] \in NodeState /\ ms[h].service = ns[h].service
        OBVIOUS
      <4>1. ns[h] \in NodeState
        BY <1>4
      <4>2. h # u.host => ms[h] = ns[h]
        OBVIOUS
      <4>3. h = u.host =>
              ms[h] = [ns[h] EXCEPT !.keepalive_over = @ /\ u.service # Prober]
        OBVIOUS
      <4> HIDE DEF ms
      <4> QED
        BY <4>1, <4>2, <4>3 DEF NodeState
    <3>3. /\ ms \in [DOMAIN ms -> NodeState] /\ SameSlots(nodes, ms)
          /\ SlotAnswersFor(ms, u)
      <4>1. ms \in [DOMAIN ms -> NodeState]
        BY <3>1, <3>2
      <4> HIDE DEF ms
      <4>2. \A w, st : Says(ms, w, st) <=> Says(ns, w, st)
        BY <3>1, <3>2 DEF Says
      <4>3. SlotAnswersFor(ms, u)
        BY <1>4, <2>2, <3>2 DEF SlotAnswersFor, Slot
      <4> QED
        BY <1>4, <4>1, <4>2, <4>3 DEF SameSlots
    <3> HIDE DEF ms
    <3> QED
      BY <1>2, <1>3, <1>4, <1>6, <2>1, <2>2, <3>1, <3>3, RecordSays
  <2>3. CASE ~SlotAnswersFor(ns, u) /\ nodes' = ns /\ singletons' = singletons
    <3>1. u \notin Tracked
      <4>1. u.service \in Core => SlotAnswersFor(ns, u)
        BY <1>4, SchedulerAssumption
          DEF NodesOK, SlotAnswersFor, Slot, NodeServices
      <4>2. u.service \in Singletons => SlotAnswersFor(ns, u)
        BY <1>2, <2>1 DEF Inv, SlotsAgree, ServiceShouldRun, SlotAnswersFor, Slot
      <4> QED
        BY <2>3, <4>1, <4>2 DEF Tracked
    <3> QED
      BY <1>6, <1>9, <2>1, <2>3, <3>1
  <2> QED
    BY <2>1, <2>2, <2>3
<1> QED
  BY <1>8, <1>10, <1>11, <1>12, <1>13 DEF UnknownService

LEMMA MakeKeepsRecords ==
  ASSUME ClusterInv, RecordsInv, tasks' = tasks, connected' = connected,
         NEW s \in Services, MakeTask(s)
  PROVE  RecordsInv'
<1> PICK h : h = building.offer.host
  OBVIOUS
<1> PICK k : k = [service |-> s, version |-> IF s = Client THEN NoVersion
                                             ELSE target_version]
  OBVIOUS
<1> PICK u : u = [service |-> s, host |-> h]
  OBVIOUS
<1>1. /\ s \in building.todo
      /\ building' = [building EXCEPT !.todo = @ \ {s}, !.made = @ \cup {k}]
      /\ UNCHANGED <<mailbox, driver>>
      /\ \/ UNCHANGED <<nodes, singletons>>
         \/ Record(nodes, u, RunningAs(h))
  BY DEF MakeTask
<1>2. /\ TypeOK /\ nodes \in [DOMAIN nodes -> NodeState]
      /\ singletons \in [Singletons -> ServiceState]
      /\ building \in [offer : Offer \cup {NoOffer}, todo : SUBSET Services,
                       made : SUBSET Task]
  BY DEF ClusterInv, Inv, TypeOK
<1>3. building # Idle
  BY <1>1 DEF Idle
<1>4. h \in DOMAIN nodes /\ h \in Hosts /\ u \in TaskId /\ u.host = h
  BY <1>2, <1>3 DEF TypeOK, TaskId
<1>5. building'.offer = building.offer /\ building'.made = building.made \cup {k}
  BY <1>1, <1>2
<1>6. SlotAnswersFor(nodes, u)
  <2>1. Slot(nodes, u).state = "NOT_RUNNING"
    BY <1>1 DEF ClusterInv, Inv, LaunchesAreOwned
  <2>2. s \notin Singletons => s \in NodeServices
    BY DEF Services
  <2> QED
    BY <1>4, <2>1, <2>2 DEF ClusterInv, Inv, SlotsAgree, SlotAnswersFor, Slot
<1>7. ASSUME NEW t \in Tracked
      PROVE  OverOK(t)' /\ RunningOK(t)'
  <2>1. OverOK(t) /\ RunningOK(t) /\ t \in TaskId
    BY DEF RecordsInv, Tracked
  <2>2. MadeFor(t) \/ t = u => MadeFor(t)'
    BY <1>4, <1>5 DEF MadeFor, ServicesOf
  <2>3. (Recorded(t)' => Recorded(t) \/ t = u) /\ (Recorded(t) => Recorded(t)')
    <3>1. CASE UNCHANGED <<nodes, singletons>>
      BY <3>1 DEF Recorded
    <3>2. CASE Record(nodes, u, RunningAs(h))
      <4>1. SameSlots(nodes, nodes)
        BY DEF SameSlots
      <4> QED
        BY <1>2, <1>4, <1>6, <3>2, <4>1, RecordSays
    <3> QED
      BY <1>1, <3>1, <3>2
  <2>4. Active(t)' = Active(t)
    BY DEF Active
  <2>5. OverOK(t)'
    BY <1>1, <2>1, <2>2, <2>3, <2>4 DEF OverOK
  <2>6. RunningOK(t)'
    BY <1>1, <2>1, <2>3 DEF RunningOK, Reconnecting
  <2> QED
    BY <2>5, <2>6
<1> QED
  BY <1>7 DEF RecordsInv, Tracked

LEMMA LaunchKeepsRecords ==
  ASSUME ClusterInv, RecordsInv, tasks' = tasks, connected' = connected,
         LaunchTasks
  PROVE  RecordsInv'
<1> PICK c : c = Launch(building.offer, building.made)
  OBVIOUS
<1>1. /\ building # Idle /\ driver' = Append(driver, c) /\ building' = Idle
      /\ UNCHANGED <<nodes, singletons, mailbox>>
  BY DEF LaunchTasks
<1>2. driver \in Seq(Call) /\ Inv /\ TypeOK
  BY DEF ClusterInv, Inv, TypeOK
<1>3. c \in Call /\ c.call = "launchTasks" /\ c.offer = building.offer
        /\ c.tasks = building.made
  <2>1. building.offer \in Offer /\ building.made \in SUBSET Task
    BY <1>1, <1>2, OfferInHand DEF TypeOK
  <2> QED
    BY <2>1, CallsTyped DEF Launch
<1>4. \A P : Has(driver', P) <=> (Has(driver, P) \/ c \in P)
  <2>1. driver' = driver \o <<c>> /\ <<c>> \in Seq(Call)
    BY <1>1, <1>2, <1>3, AppendIsConcat
  <2>2. \A P : Has(driver', P) <=> (Has(driver, P) \/ Has(<<c>>, P))
    BY <1>2, <2>1, ConcatOrder
  <2>3. \A P : Has(<<c>>, P) <=> c \in P
    BY OneHas
  <2> QED
    BY <2>2, <2>3
<1>5. ASSUME NEW t \in Tracked
      PROVE  OverOK(t)' /\ RunningOK(t)'
  <2>1. OverOK(t) /\ RunningOK(t)
    BY DEF RecordsInv
  <2>2. MadeFor(t) => c \in Launches(t)
    BY <1>3 DEF MadeFor, Launches
  <2>3. Recorded(t)' = Recorded(t) /\ Active(t)' = Active(t)
    BY <1>1 DEF Recorded, Active
  <2>4. /\ Has(driver', Launches(t)) <=> (Has(driver, Launches(t)) \/ c \in Launches(t))
        /\ Has(driver, KillsOf(t)) => Has(driver', KillsOf(t))
        /\ Reconnecting => Reconnecting'
    BY <1>1, <1>4 DEF Reconnecting
  <2>5. OverOK(t)'
    BY <1>1, <2>1, <2>2, <2>3, <2>4 DEF OverOK
  <2>6. RunningOK(t)'
    BY <1>1, <2>1, <2>3, <2>4 DEF RunningOK
  <2> QED
    BY <2>5, <2>6
<1> QED
  BY <1>5 DEF RecordsInv, Tracked

LEMMA SchedulerKeepsRecords ==
  ASSUME ClusterInv, Plain, RecordsInv, SchedulerStep
  PROVE  RecordsInv'
<1>1. Callback /\ tasks' = tasks /\ connected' = connected
  BY DEF SchedulerStep, mesosVars
<1> QED
  BY <1>1, OffersKeepRecords, UpdatesKeepRecords, MakeKeepsRecords,
     LaunchKeepsRecords, Zenon DEF Callback

-----------------------------------------------------------------------------
\* The framework is registered, again or for the first time.
LEMMA ConnectReconnects ==
  ASSUME ClusterInv, Connect
  PROVE  Reconnecting'
<1> DEFINE e == [type |-> "registered"]
<1>1. mailbox' = <<e>> /\ e \in Registrations
  BY DEF Connect, Registrations, Event
<1>2. Has(<<e>>, Registrations)
  BY <1>1, FewOrder
<1> HIDE DEF e
<1>3. Has(mailbox', Registrations)
  BY <1>1, <1>2
<1> QED
  BY <1>3 DEF Reconnecting

\* An event that is about no task, or a call that is not answered.
LEMMA SilenceKeepsRecords ==
  ASSUME ClusterInv, RecordsInv,
         \/ Connect \/ TakeDecline \/ TakeProbe
         \/ \E h \in Hosts : MakeOffer(h) \/ AnswerProbe(h)
  PROVE  RecordsInv'
<1>1. UNCHANGED Apart /\ tasks' = tasks
  BY DEF Connect, TakeDecline, TakeProbe, NextCall, MakeOffer, AnswerProbe, Apart
<1>2. \A t : /\ Active(t)' = Active(t)
             /\ tasks'[t] = "RUNNING" => tasks[t] = "RUNNING" /\ Active(t)
  BY <1>1 DEF Active
<1>3. \/ driver' = driver
      \/ /\ driver # <<>> /\ driver' = Tail(driver)
         /\ \A t : /\ Head(driver) \notin Launches(t)
                   /\ Head(driver) \notin KillsOf(t) \cup AsksAll
  BY DEF Connect, TakeDecline, TakeProbe, NextCall, MakeOffer, AnswerProbe,
         Launches, KillsOf, AsksAll
<1>4. Reconnecting' \/ connected' = connected
  <2>1. Connect => Reconnecting'
    BY ConnectReconnects
  <2>2. ~Connect => connected' = connected
    BY DEF TakeDecline, TakeProbe, NextCall, MakeOffer, AnswerProbe
  <2> QED
    BY <2>1, <2>2
<1>5. PICK es \in Seq(Event) :
        /\ mailbox' = mailbox \o es
        /\ \A t \in Tracked : ~Has(es, Up(t)) /\ ~Has(es, Lost(t))
  <2>1. CASE TakeDecline \/ TakeProbe
    <3>1. <<>> \in Seq(Event) /\ mailbox' = mailbox \o <<>>
      BY <2>1 DEF TakeDecline, TakeProbe, ClusterInv, Inv, TypeOK
    <3>2. \A P : ~Has(<<>>, P)
      BY FewOrder
    <3> QED
      BY <3>1, <3>2
  <2>2. CASE ~(TakeDecline \/ TakeProbe)
    <3>1. PICK e \in Event :
            e.type # "statusUpdate" /\ mailbox' = mailbox \o <<e>>
      BY <2>2, OfferSent, NewsSent
    <3>2. \A t : e \notin Up(t) /\ e \notin Lost(t)
      BY <3>1 DEF Up, Lost, About
    <3>3. \A P : Has(<<e>>, P) <=> e \in P
      BY OneHas
    <3>4. <<e>> \in Seq(Event)
      OBVIOUS
    <3> QED
      BY <3>1, <3>2, <3>3, <3>4
  <2> QED
    BY <2>1, <2>2
<1> QED
  BY <1>1, <1>2, <1>3, <1>5, <1>4, MesosStepKeepsRecords

LEMMA TasksKeepRecords ==
  ASSUME ClusterInv, Plain, RecordsInv, NEW u \in TaskId,
         TaskStarts(u) \/ TaskKilled(u) \/ TaskFails(u)
  PROVE  RecordsInv'
<1>1. PICK e \in Event, st \in {"LOST", "FINISHED", "RUNNING"} :
        Reported(u, e, st)
  BY TaskReported
<1> DEFINE es == <<e>>
<1>2. /\ e.type = "statusUpdate" /\ e.task = u /\ e.state = st
      /\ UNCHANGED <<Apart, driver>>
      /\ \A t \in TaskId : t # u => tasks'[t] = tasks[t]
      /\ u.service # Prober =>
           /\ st \in {"RUNNING", "LOST"}
           /\ tasks'[u] = IF st = "RUNNING" THEN "RUNNING" ELSE "NONE"
  BY <1>1 DEF Reported, Plain
<1>3. es \in Seq(Event) /\ mailbox' = mailbox \o es
  BY <1>1 DEF Reported
<1>4. ASSUME NEW t \in Tracked
      PROVE  /\ ~Active(t)' => /\ ~Has(es, Up(t))
                               /\ Active(t) => Has(es, Lost(t))
             /\ tasks'[t] = "RUNNING" =>
                  /\ ~Has(es, Lost(t))
                  /\ Has(es, Up(t)) \/ tasks[t] = "RUNNING"
  <2>1. t \in TaskId /\ t.service # Prober
    BY SchedulerAssumption DEF Tracked
  <2>2. (Has(es, Up(t)) <=> e \in Up(t)) /\ (Has(es, Lost(t)) <=> e \in Lost(t))
    BY FewOrder
  <2>3. /\ e \in Up(t) <=> (t = u /\ st \in {"RUNNING", "FINISHED"})
        /\ e \in Lost(t) <=> (t = u /\ st = "LOST")
    BY <1>2 DEF Up, Lost, About
  <2> HIDE DEF es
  <2> QED
    BY <1>2, <2>1, <2>2, <2>3 DEF Active
<1>5. connected' = connected
  BY DEF TaskStarts, TaskKilled, TaskFails, TaskEnds
<1> HIDE DEF es
<1> QED
  BY <1>2, <1>3, <1>4, <1>5, MesosStepKeepsRecords

LEMMA UpIsAlive == \A q, t : Has(q, Up(t)) => Has(q, Alive(t))
BY DEF Has, Up, Alive

LEMMA LaunchTakenKeepsRecords ==
  ASSUME ClusterInv, Calm, RecordsInv, TakeLaunch
  PROVE  RecordsInv'
<1>1. PICK es \in Seq(Event) : LaunchSeen(es)
  BY LaunchTaken
<1>2. ASSUME NEW t \in Tracked
      PROVE  /\ ~Active(t)' => /\ ~Active(t) /\ Head(driver) \notin Launches(t)
                               /\ ~Has(es, Up(t))
             /\ tasks'[t] = "RUNNING" =>
                  /\ tasks[t] = "RUNNING" /\ ~Has(es, Lost(t))
                  /\ Head(driver) \notin KillsOf(t) \cup AsksAll
  <2>1. t \in TaskId /\ t.service \in Ported
    BY DEF Tracked, Ported
  <2>2. Head(driver) \notin KillsOf(t) \cup AsksAll
    BY <1>1 DEF LaunchSeen, TakenWith, KillsOf, AsksAll
  <2> QED
    BY <1>1, <2>1, <2>2, UpIsAlive DEF LaunchSeen, Active
<1>3. connected' = connected
  BY DEF TakeLaunch, NextCall
<1> QED
  BY <1>1, <1>2, <1>3, MesosStepKeepsRecords DEF LaunchSeen, TakenWith

LEMMA KillTakenKeepsRecords ==
  ASSUME ClusterInv, RecordsInv, TakeKill
  PROVE  RecordsInv'
<1>1. PICK es \in Seq(Event) : KillSeen(es)
  BY KillTaken
<1>2. ASSUME NEW t \in Tracked
      PROVE  /\ ~Active(t)' => /\ ~Active(t) /\ Head(driver) \notin Launches(t)
                               /\ ~Has(es, Up(t))
             /\ tasks'[t] = "RUNNING" =>
                  /\ tasks[t] = "RUNNING" /\ ~Has(es, Lost(t))
                  /\ Head(driver) \notin KillsOf(t) \cup AsksAll
  <2>1. t \in TaskId
    BY DEF Tracked
  <2>2. Head(driver) \notin Launches(t) /\ Head(driver) \notin AsksAll
    BY <1>1 DEF KillSeen, TakenWith, Launches, AsksAll
  <2> QED
    BY <1>1, <2>1, <2>2, UpIsAlive DEF KillSeen, Active
<1>3. connected' = connected
  BY DEF TakeKill, NextCall
<1> QED
  BY <1>1, <1>2, <1>3, MesosStepKeepsRecords DEF KillSeen, TakenWith

LEMMA ReconcileTakenKeepsRecords ==
  ASSUME ClusterInv, RecordsInv, TakeReconcile
  PROVE  RecordsInv'
<1>1. PICK es \in Seq(Event) : ReconcileSeen(es)
  BY ReconcileTaken
<1>2. ASSUME NEW t \in Tracked
      PROVE  /\ ~Active(t)' => ~Active(t) /\ ~Has(es, Up(t))
             /\ tasks'[t] = "RUNNING" => tasks[t] = "RUNNING" /\ ~Has(es, Lost(t))
             /\ Head(driver) \notin Launches(t) /\ Head(driver) \notin KillsOf(t)
             /\ Head(driver) \in AsksAll /\ tasks'[t] = "RUNNING" => Has(es, Up(t))
  <2>1. t \in TaskId
    BY DEF Tracked
  <2>2. Head(driver) \notin Launches(t) /\ Head(driver) \notin KillsOf(t)
    BY <1>1 DEF ReconcileSeen, TakenWith, Launches, KillsOf
  <2> QED
    BY <1>1, <2>1, <2>2, UpIsAlive DEF ReconcileSeen, Active
<1>3. connected' = connected
  BY DEF TakeReconcile, NextCall
<1> QED
  BY <1>1, <1>2, <1>3, MesosStepKeepsRecords DEF ReconcileSeen, TakenWith

(***************************************************************************)
(* A call that is dropped: a launch is answered, and what was to be killed *)
(* is met again in the reconciliation after the next registration.         *)
(***************************************************************************)
LEMMA DropKeepsRecords ==
  ASSUME ClusterInv, Calm, RecordsInv, DropCall
  PROVE  RecordsInv'
<1>1. PICK es \in Seq(Event) :
        /\ UNCHANGED Apart /\ tasks' = tasks
        /\ mailbox' = mailbox \o es
        /\ driver # <<>> /\ driver' = Tail(driver)
        /\ \A t \in TaskId : /\ Has(es, Lost(t)) <=> Head(driver) \in Launches(t)
                             /\ ~Has(es, Alive(t))
        /\ \A h : ~Has(es, Offered(h))
  BY CallDropped
<1>2. Reconnecting'
  BY DEF DropCall, mesosVars, Reconnecting
<1>3. ASSUME NEW t \in Tracked
      PROVE  /\ ~Active(t)' => /\ ~Active(t) /\ ~Has(es, Up(t))
                               /\ \/ Head(driver) \notin Launches(t)
                                  \/ Has(es, Lost(t))
             /\ tasks'[t] = "RUNNING" => tasks[t] = "RUNNING" /\ ~Has(es, Lost(t))
  <2>1. t \in TaskId /\ t.service \in Ported
    BY DEF Tracked, Ported
  <2>2. Head(driver) \in Launches(t) => ~Active(t)
    BY <1>1, <2>1, LaunchAlone
  <2> QED
    BY <1>1, <2>1, <2>2, UpIsAlive DEF Active
<1> QED
  BY <1>1, <1>2, <1>3, MesosStepKeepsRecords

\* After a restart nothing is recorded and nothing under way, and the process
\* is not registered yet.
Fresh == /\ ~connected /\ mailbox = <<>> /\ driver = <<>> /\ DOMAIN nodes = {}
         /\ \A s \in Singletons : singletons[s] = Unknown

LEMMA NothingRecorded == Fresh => RecordsInv
<1> SUFFICES ASSUME Fresh
             PROVE  RecordsInv
  OBVIOUS
<1>1. ASSUME NEW t \in Tracked
      PROVE  OverOK(t) /\ RunningOK(t)
  <2>1. ~Recorded(t) /\ Reconnecting
    BY DEF Fresh, Recorded, Tracked, Unknown, RunningAs, Reconnecting
  <2>2. \A P, Q : Followed(mailbox, P, Q)
    <3>1. DOMAIN mailbox = {}
      BY DEF Fresh
    <3> QED
      BY <3>1 DEF Followed
  <2> QED
    BY <2>1, <2>2 DEF OverOK, RunningOK
<1> QED
  BY <1>1 DEF RecordsInv

\* Time passes, a version is posted, or something fails silently.
LEMMA QuietKeepsRecords ==
  ASSUME ClusterInv, RecordsInv,
         UNCHANGED <<singletons, building, mailbox, driver, tasks>>,
         connected' = connected \/ ~connected',
         DOMAIN nodes' = DOMAIN nodes,
         \A h \in DOMAIN nodes : nodes'[h].service = nodes[h].service
  PROVE  RecordsInv'
<1>1. ASSUME NEW t \in Tracked
      PROVE  OverOK(t)' /\ RunningOK(t)'
  <2>1. OverOK(t) /\ RunningOK(t)
    BY DEF RecordsInv
  <2>3. Recorded(t)' <=> Recorded(t)
    BY DEF Recorded
  <2>4. MadeFor(t)' = MadeFor(t) /\ Active(t)' = Active(t)
    BY DEF MadeFor, Active
  <2>5. Reconnecting => Reconnecting'
    BY DEF Reconnecting
  <2> QED
    BY <2>1, <2>3, <2>4, <2>5 DEF OverOK, RunningOK
<1> QED
  BY <1>1 DEF RecordsInv, Tracked

LEMMA MesosStepsKeepRecords ==
  ASSUME ClusterInv, Plain, Calm, RecordsInv, MesosStep, ~Repeats
  PROVE  RecordsInv'
<1>1. CASE FailOver
  <2>1. Fresh'
    <3>1. /\ mailbox' = <<>> /\ driver' = <<>>
          /\ nodes' = [h \in {} |-> NewNode(NoSlave)]
          /\ singletons' = [s \in Singletons |-> Unknown] /\ ~connected'
      BY <1>1 DEF FailOver, Restart
    <3> QED
      BY <3>1 DEF Fresh, Unknown
  <2>2. (Fresh => RecordsInv)'
    BY NothingRecorded, PTL
  <2> QED
    BY <2>1, <2>2
<1>2. ASSUME \/ Disconnect
             \/ \E h \in Hosts : ExecutorFails(h) \/ LoseProbe(h)
                                  \/ Remount(h) \/ Mark(h)
             \/ \E t \in TaskId : OrphanEnds(t)
      PROVE  RecordsInv'
  <2>1. /\ UNCHANGED <<nodes, singletons, building, mailbox, driver, tasks>>
        /\ connected' = connected \/ ~connected'
    BY <1>2, SilentFailures
      DEF schedulerVars, Disconnect, ExecutorFails, LoseProbe, Remount, Mark,
          OrphanEnds
  <2> QED
    BY <2>1, QuietKeepsRecords
<1>3. CASE ~FailOver
  <2>1. \/ Connect \/ TakeDecline \/ TakeProbe
        \/ \E h \in Hosts : MakeOffer(h) \/ AnswerProbe(h)
        \/ \E t \in TaskId : TaskStarts(t) \/ TaskKilled(t) \/ TaskFails(t)
        \/ TakeLaunch \/ TakeKill \/ TakeReconcile \/ DropCall \/ Disconnect
        \/ \E h \in Hosts : ExecutorFails(h) \/ LoseProbe(h)
                             \/ Remount(h) \/ Mark(h)
        \/ \E t \in TaskId : OrphanEnds(t)
    BY <1>3, Zenon DEF MesosStep, MesosActs, Repeats
  <2> QED
    BY <1>2, <2>1, SilenceKeepsRecords, TasksKeepRecords,
       LaunchTakenKeepsRecords, KillTakenKeepsRecords,
       ReconcileTakenKeepsRecords, DropKeepsRecords
<1> QED
  BY <1>1, <1>3

LEMMA RecordsKept ==
  ASSUME ClusterInv, Plain, Calm, RecordsInv, [ClusterNext]_clusterVars, ~Repeats
  PROVE  RecordsInv'
<1>1. CASE SchedulerStep
  BY <1>1, SchedulerKeepsRecords
<1>2. CASE MesosStep
  BY <1>2, MesosStepsKeepRecords
<1>3. CASE \/ UNCHANGED clusterVars
           \/ \E h \in Hosts : KeepaliveOver(h) \/ ProbeDue(h)
           \/ \E v \in Posts : Post(v)
  <2>1. UNCHANGED <<singletons, building, mailbox, driver, tasks, connected>>
    BY <1>3 DEF clusterVars, schedulerVars, mesosVars, KeepaliveOver,
                ProbeDue, Timer, Post, KeepaliveElapses, ProbeIntervalElapses,
                PostVersion
  <2>2. nodes \in [DOMAIN nodes -> NodeState]
    BY DEF ClusterInv, Inv, TypeOK
  <2>3. \/ nodes' = nodes
        \/ \E h \in DOMAIN nodes :
             \/ nodes' = [nodes EXCEPT ![h].keepalive_over = TRUE]
             \/ nodes' = [nodes EXCEPT ![h].probe_due = TRUE]
    BY <1>3 DEF clusterVars, schedulerVars, KeepaliveOver, ProbeDue, Timer, Post,
                KeepaliveElapses, ProbeIntervalElapses, PostVersion
  <2>4. /\ DOMAIN nodes' = DOMAIN nodes
        /\ \A h \in DOMAIN nodes : nodes'[h].service = nodes[h].service
    BY <2>2, <2>3 DEF NodeState
  <2> QED
    BY <2>1, <2>4, QuietKeepsRecords
<1> QED
  BY <1>1, <1>2, <1>3 DEF ClusterNext

LEMMA RecordsInit ==
  ASSUME ClusterInit
  PROVE  RecordsInv
BY NothingRecorded DEF ClusterInit, Init, Fresh

\* With nothing under way, the invariant is the property.
LEMMA RecordsAtRest ==
  ASSUME ClusterInv, RecordsInv, AtRest
  PROVE  RecordsAreTrue
<1>1. /\ TypeOK /\ SlotsAgree /\ building = Idle
      /\ mailbox = <<>> /\ driver = <<>>
  BY DEF ClusterInv, Inv, AtRest
<1>2. \A P : ~Has(mailbox, P) /\ ~Has(driver, P)
  BY <1>1, FewOrder
<1>3. ASSUME NEW t \in Tracked
      PROVE  /\ Recorded(t) => Active(t)
             /\ tasks[t] = "RUNNING" => Recorded(t)
  <2>1. OverOK(t) /\ RunningOK(t)
    BY DEF RecordsInv
  <2>2. ~MadeFor(t)
    BY <1>1 DEF MadeFor, Idle, ServicesOf
  <2>3. ~Reconnecting
    BY <1>2 DEF Reconnecting, AtRest
  <2> QED
    BY <1>2, <2>1, <2>2, <2>3 DEF OverOK, RunningOK
<1> QED
  BY <1>3 DEF RecordsAreTrue, Tracked

(***************************************************************************)
(* Whenever nothing is under way, the records of core services and of      *)
(* singletons are true, after any number of restarts, launches, failures   *)
(* of tasks, breaks of the connection and POSTs: each update that          *)
(* falsifies a record is behind the change it reports and before any that  *)
(* makes the record true again, and a kill lost with the connection is     *)
(* made up for by the reconciliation of the next registration.             *)
(***************************************************************************)
THEOREM RecordsAlwaysTrue ==
  ASSUME Plain
  PROVE  ClusterSpec /\ [][~Repeats]_clusterVars => []RecordsAreTrue
<1>1. ClusterInit => Calm /\ RecordsInv
  BY SingleInit, RecordsInit
<1>2. ClusterInv /\ Calm /\ RecordsInv /\ [ClusterNext]_clusterVars
        /\ [~Repeats]_clusterVars
        => Calm' /\ RecordsInv'
  BY CalmKept, RecordsKept, StillNoRepeat
<1>3. ClusterInv /\ RecordsInv => RecordsAreTrue
  BY RecordsAtRest DEF RecordsAreTrue
<1> QED
  BY <1>1, <1>2, <1>3, ClusterInvariant, PTL DEF ClusterSpec

===============================================================================
