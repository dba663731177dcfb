--------------------------- MODULE LaunchFitsProofs ---------------------------
(***************************************************************************)
(* That what is launched fits the offer, for all services, sizes and       *)
(* ports.  Needs is a fold over a set, defined by recursion with CHOOSE;   *)
(* what it computes is proved here by taking a smallest set of which it is *)
(* false, as finite sets are well-founded under strict inclusion.          *)
(* And that it carries a version, unless that is withdrawn in between.     *)
(***************************************************************************)
EXTENDS QuobyteSchedulerProofs, FiniteSetTheorems

-----------------------------------------------------------------------------
(***************************************************************************)
(* The sum over a finite set.                                              *)
(***************************************************************************)
FirstOf(T) == CHOOSE x \in T : TRUE

\* f is the function that the recursion in Needs(S) defines.
IsSum(f, S) ==
  f = [T \in SUBSET S |->
         IF T = {} THEN 0 ELSE Need[FirstOf(T)] + f[T \ {FirstOf(T)}]]

LEMMA NeedsIsSum ==
  ASSUME NEW S
  PROVE  Needs(S) = (CHOOSE f : IsSum(f, S))[S]
BY DEF Needs, MapThenSumSet, MapThenFoldSet, IsSum, FirstOf

\* Among some subsets of a finite set there is one without a smaller one.
LEMMA SmallestSubset ==
  ASSUME NEW S, IsFiniteSet(S), NEW B \in SUBSET (SUBSET S), B # {}
  PROVE  \E T \in B : \A U \in SUBSET T : U # T => U \notin B
<1>1. IsWellFoundedOn(StrictSubsetOrdering(S), SUBSET S)
  BY FS_StrictSubsetOrderingWellFounded, FS_FiniteSubsetsOfFinite
<1>2. PICK T \in B : \A U \in B : <<U, T>> \notin StrictSubsetOrdering(S)
  BY <1>1, WFMin
<1>3. ASSUME NEW U \in SUBSET T, U # T
      PROVE  U \notin B
  <2>1. <<U, T>> \in StrictSubsetOrdering(S)
    BY <1>3 DEF StrictSubsetOrdering
  <2> QED
    BY <1>2, <2>1
<1> QED
  BY <1>3

LEMMA FirstOfIn ==
  ASSUME NEW T, T # {}
  PROVE  FirstOf(T) \in T
BY DEF FirstOf

LEMMA SumUnique ==
  ASSUME NEW S, IsFiniteSet(S), NEW f, NEW g, IsSum(f, S), IsSum(g, S)
  PROVE  f[S] = g[S]
<1> DEFINE B == {T \in SUBSET S : f[T] # g[T]}
<1>1. SUFFICES ASSUME B # {} PROVE FALSE
  OBVIOUS
<1>2. PICK T \in B : \A U \in SUBSET T : U # T => U \notin B
  <2>1. B \in SUBSET (SUBSET S)
    OBVIOUS
  <2> HIDE DEF B
  <2> QED
    BY <1>1, <2>1, SmallestSubset
<1>3. /\ f[T] = IF T = {} THEN 0 ELSE Need[FirstOf(T)] + f[T \ {FirstOf(T)}]
      /\ g[T] = IF T = {} THEN 0 ELSE Need[FirstOf(T)] + g[T \ {FirstOf(T)}]
  BY DEF IsSum
<1>4. CASE T = {}
  BY <1>3, <1>4
<1>5. CASE T # {}
  <2>1. FirstOf(T) \in T
    BY <1>5, FirstOfIn
  <2>2. f[T \ {FirstOf(T)}] = g[T \ {FirstOf(T)}]
    BY <1>2, <2>1
  <2> QED
    BY <1>3, <1>5, <2>2
<1> QED
  BY <1>4, <1>5

\* The function for a set contains that of each subset.
LEMMA SumOfSubset ==
  ASSUME NEW S, IsFiniteSet(S), NEW f, IsSum(f, S), NEW T \in SUBSET S
  PROVE  f[T] = Needs(T)
<1> DEFINE g == [U \in SUBSET T |-> f[U]]
           h == CHOOSE k : IsSum(k, T)
<1>1. IsSum(g, T)
  <2>1. SUFFICES ASSUME NEW U \in SUBSET T
                 PROVE  f[U] = IF U = {} THEN 0
                               ELSE Need[FirstOf(U)] + g[U \ {FirstOf(U)}]
    BY DEF IsSum
  <2>2. f[U] = IF U = {} THEN 0
               ELSE Need[FirstOf(U)] + f[U \ {FirstOf(U)}]
    BY DEF IsSum
  <2> QED
    BY <2>2
<1>2. IsSum(h, T)
  <2> HIDE DEF g
  <2> QED
    BY <1>1
<1>3. IsFiniteSet(T)
  BY FS_Subset
<1>4. g[T] = h[T]
  <2> HIDE DEF g, h
  <2> QED
    BY <1>1, <1>2, <1>3, SumUnique
<1> QED
  BY <1>4, NeedsIsSum

\* Such a function exists.
LEMMA SumExists ==
  ASSUME NEW S, IsFiniteSet(S)
  PROVE  \E f : IsSum(f, S)
<1> DEFINE B == {T \in SUBSET S : ~ \E f : IsSum(f, T)}
<1>1. SUFFICES ASSUME B # {} PROVE FALSE
  OBVIOUS
<1>2. PICK T \in B : \A U \in SUBSET T : U # T => U \notin B
  <2>1. B \in SUBSET (SUBSET S)
    OBVIOUS
  <2> HIDE DEF B
  <2> QED
    BY <1>1, <2>1, SmallestSubset
<1> DEFINE step(U) == IF U = {} THEN 0
                      ELSE Need[FirstOf(U)] + Needs(U \ {FirstOf(U)})
           f == [U \in SUBSET T |-> step(U)]
<1>3. ASSUME NEW U \in SUBSET T, U # T
      PROVE  Needs(U) = step(U)
  <2>1. PICK g : IsSum(g, U)
    BY <1>2, <1>3
  <2>2. IsFiniteSet(U) /\ U \ {FirstOf(U)} \in SUBSET U
    BY FS_Subset
  <2>3. g[U] = Needs(U) /\ g[U \ {FirstOf(U)}] = Needs(U \ {FirstOf(U)})
    BY <2>1, <2>2, SumOfSubset
  <2>4. g[U] = IF U = {} THEN 0 ELSE Need[FirstOf(U)] + g[U \ {FirstOf(U)}]
    BY <2>1 DEF IsSum
  <2> QED
    BY <2>3, <2>4
<1>4. ASSUME NEW U \in SUBSET T
      PROVE  f[U] = IF U = {} THEN 0
                    ELSE Need[FirstOf(U)] + f[U \ {FirstOf(U)}]
  <2>1. CASE U = {}
    BY <2>1
  <2>2. CASE U # {}
    <3> DEFINE V == U \ {FirstOf(U)}
    <3>1. FirstOf(U) \in U
      BY <2>2, FirstOfIn
    <3>2. V \in SUBSET T /\ V # T
      BY <3>1
    <3>3. f[V] = Needs(V)
      <4>1. f[V] = step(V)
        BY <3>2
      <4> HIDE DEF step, V
      <4> QED
        BY <1>3, <3>2, <4>1
    <3>4. f[U] = Need[FirstOf(U)] + Needs(V)
      BY <2>2
    <3> QED
      BY <2>2, <3>3, <3>4
  <2> QED
    BY <2>1, <2>2
<1>5. IsSum(f, T)
  <2>1. f = [U \in SUBSET T |-> f[U]]
    OBVIOUS
  <2> HIDE DEF f
  <2> QED
    BY <1>4, <2>1 DEF IsSum
<1> QED
  BY <1>2, <1>5

\* The recursion, over sets alone.
LEMMA NeedsStep ==
  ASSUME NEW S, IsFiniteSet(S)
  PROVE  Needs(S) = IF S = {} THEN 0
                    ELSE Need[FirstOf(S)] + Needs(S \ {FirstOf(S)})
<1>1. PICK f : IsSum(f, S)
  BY SumExists
<1>2. f[S] = IF S = {} THEN 0 ELSE Need[FirstOf(S)] + f[S \ {FirstOf(S)}]
  BY <1>1 DEF IsSum
<1>3. f[S] = Needs(S) /\ f[S \ {FirstOf(S)}] = Needs(S \ {FirstOf(S)})
  BY <1>1, SumOfSubset
<1> QED
  BY <1>2, <1>3

LEMMA NeedIsNat ==
  ASSUME NEW s \in Services
  PROVE  Need[s] \in Nat
BY SchedulerAssumption

LEMMA NeedsIsNat ==
  ASSUME NEW S \in SUBSET Services, IsFiniteSet(S)
  PROVE  Needs(S) \in Nat
<1> DEFINE B == {T \in SUBSET S : Needs(T) \notin Nat}
<1>1. SUFFICES ASSUME B # {} PROVE FALSE
  OBVIOUS
<1>2. PICK T \in B : \A U \in SUBSET T : U # T => U \notin B
  <2>1. B \in SUBSET (SUBSET S)
    OBVIOUS
  <2> HIDE DEF B
  <2> QED
    BY <1>1, <2>1, SmallestSubset
<1>3. Needs(T) = IF T = {} THEN 0
                 ELSE Need[FirstOf(T)] + Needs(T \ {FirstOf(T)})
  BY NeedsStep, FS_Subset
<1>4. T # {}
  BY <1>3
<1>5. FirstOf(T) \in T
  BY <1>4, FirstOfIn
<1>6. Needs(T \ {FirstOf(T)}) \in Nat
  BY <1>2, <1>5
<1>7. Need[FirstOf(T)] \in Nat
  BY <1>5, NeedIsNat
<1> QED
  BY <1>3, <1>4, <1>6, <1>7

\* Any element may be taken out first.
LEMMA NeedsRemove ==
  ASSUME NEW S \in SUBSET Services, IsFiniteSet(S), NEW s \in S
  PROVE  Needs(S) = Need[s] + Needs(S \ {s})
<1> DEFINE B == {T \in SUBSET S :
                   \E t \in T : Needs(T) # Need[t] + Needs(T \ {t})}
<1>1. SUFFICES ASSUME B # {} PROVE FALSE
  OBVIOUS
<1>2. PICK T \in B : \A U \in SUBSET T : U # T => U \notin B
  <2>1. B \in SUBSET (SUBSET S)
    OBVIOUS
  <2> HIDE DEF B
  <2> QED
    BY <1>1, <2>1, SmallestSubset
<1>3. PICK t \in T : Needs(T) # Need[t] + Needs(T \ {t})
  OBVIOUS
<1> DEFINE x == FirstOf(T)
<1>4. x \in T
  BY FirstOfIn
<1>5. Needs(T) = Need[x] + Needs(T \ {x})
  BY NeedsStep, FS_Subset
<1> HIDE DEF x
<1>6. x # t
  BY <1>3, <1>5
<1>7. Needs(T \ {x}) = Need[t] + Needs((T \ {x}) \ {t})
  BY <1>2, <1>4, <1>6
<1>8. Needs(T \ {t}) = Need[x] + Needs((T \ {t}) \ {x})
  BY <1>2, <1>4, <1>6
<1>9. Needs((T \ {x}) \ {t}) = Needs((T \ {t}) \ {x})
  <2>1. (T \ {x}) \ {t} = (T \ {t}) \ {x}
    OBVIOUS
  <2> QED
    BY <2>1
<1>10. Need[x] \in Nat /\ Need[t] \in Nat
  BY <1>4, NeedIsNat
<1>11. Needs((T \ {x}) \ {t}) \in Nat
  <2>1. (T \ {x}) \ {t} \in SUBSET S /\ (T \ {x}) \ {t} \in SUBSET Services
    OBVIOUS
  <2> QED
    BY <2>1, NeedsIsNat, FS_Subset
<1> QED
  BY <1>3, <1>5, <1>7, <1>8, <1>9, <1>10, <1>11

\* What the recursion is for: the sum over a set with one more element.
LEMMA NeedsAdd ==
  ASSUME NEW S \in SUBSET Services, IsFiniteSet(S), NEW s \in Services \ S
  PROVE  Needs(S \cup {s}) = Needs(S) + Need[s]
<1>1. IsFiniteSet(S \cup {s}) /\ (S \cup {s}) \ {s} = S
  BY FS_AddElement
<1>2. Needs(S \cup {s}) = Need[s] + Needs(S)
  BY <1>1, NeedsRemove
<1> QED
  BY <1>2, NeedIsNat, NeedsIsNat

LEMMA NeedsEmpty == Needs({}) = 0
BY NeedsStep, FS_EmptySet

\* Sets that may overlap need at most what they need one by one.
LEMMA NeedsUnion ==
  ASSUME NEW S \in SUBSET Services, NEW T \in SUBSET Services,
         IsFiniteSet(S), IsFiniteSet(T)
  PROVE  Needs(S \cup T) <= Needs(S) + Needs(T)
<1> DEFINE B == {U \in SUBSET T : ~ (Needs(S \cup U) <= Needs(S) + Needs(U))}
<1>1. SUFFICES ASSUME B # {} PROVE FALSE
  OBVIOUS
<1>2. PICK U \in B : \A V \in SUBSET U : V # U => V \notin B
  <2>1. B \in SUBSET (SUBSET T)
    OBVIOUS
  <2> HIDE DEF B
  <2> QED
    BY <1>1, <2>1, SmallestSubset
<1>3. Needs(S) \in Nat
  BY NeedsIsNat
<1>4. U # {}
  <2>1. Needs(S \cup {}) = Needs(S)
    <3>1. S \cup {} = S
      OBVIOUS
    <3> QED
      BY <3>1
  <2>2. Needs(S \cup {}) <= Needs(S) + Needs({})
    BY <1>3, <2>1, NeedsEmpty
  <2> QED
    BY <2>2
<1>5. PICK u \in U : TRUE
  BY <1>4
<1> DEFINE V == U \ {u}
<1>6. IsFiniteSet(V) /\ IsFiniteSet(U) /\ IsFiniteSet(S \cup V)
        /\ V \in SUBSET U /\ u \notin V /\ U = V \cup {u}
  <2>1. IsFiniteSet(U)
    BY FS_Subset
  <2>2. V \in SUBSET U /\ u \notin V /\ U = V \cup {u}
    BY <1>5
  <2> HIDE DEF V
  <2>3. IsFiniteSet(V)
    BY <2>1, <2>2, FS_Subset
  <2>4. IsFiniteSet(S \cup V)
    BY <2>3, FS_Union
  <2> QED
    BY <2>1, <2>2, <2>3, <2>4
<1>7. Needs(S \cup V) <= Needs(S) + Needs(V)
  BY <1>2, <1>5
<1> HIDE DEF V
<1>8. Needs(U) = Needs(V) + Need[u]
  BY <1>6, NeedsAdd
<1>9. Needs(S \cup U) <= Needs(S \cup V) + Need[u]
  <2>1. S \cup U = (S \cup V) \cup {u}
    BY <1>6
  <2>2. Needs(S \cup V) \in Nat /\ Need[u] \in Nat
    BY <1>6, NeedsIsNat, NeedIsNat
  <2>3. CASE u \in S
    <3>1. S \cup U = S \cup V
      BY <2>1, <2>3
    <3>2. Needs(S \cup U) = Needs(S \cup V)
      BY <3>1
    <3> QED
      BY <2>2, <3>2
  <2>4. CASE u \notin S
    <3>1. Needs(S \cup U) = Needs(S \cup V) + Need[u]
      BY <1>6, <2>1, <2>4, NeedsAdd
    <3> QED
      BY <2>2, <3>1
  <2> QED
    BY <2>3, <2>4
<1>10. /\ Needs(S \cup V) \in Nat /\ Needs(V) \in Nat /\ Need[u] \in Nat
       /\ Needs(S \cup U) \in Nat
  BY <1>6, NeedsIsNat, NeedIsNat, FS_Union
<1> QED
  BY <1>2, <1>3, <1>7, <1>8, <1>9, <1>10

\* A part needs at most what the whole does.
LEMMA NeedsPart ==
  ASSUME NEW T \in SUBSET Services, IsFiniteSet(T), NEW S \in SUBSET T
  PROVE  Needs(S) <= Needs(T)
<1> DEFINE B == {U \in SUBSET (T \ S) : ~ (Needs(S) <= Needs(S \cup U))}
<1>1. IsFiniteSet(T \ S) /\ IsFiniteSet(S)
  BY FS_Subset
<1>2. Needs(S) \in Nat
  BY <1>1, NeedsIsNat
<1>3. ASSUME B # {} PROVE FALSE
  <2>1. PICK U \in B : \A V \in SUBSET U : V # U => V \notin B
    <3>1. B \in SUBSET (SUBSET (T \ S))
      OBVIOUS
    <3> HIDE DEF B
    <3> QED
      BY <1>1, <1>3, <3>1, SmallestSubset
  <2>2. U # {}
    <3>1. S \cup {} = S
      OBVIOUS
    <3> QED
      BY <1>2, <3>1
  <2>3. PICK u \in U : TRUE
    BY <2>2
  <2> DEFINE V == U \ {u}
  <2>4. IsFiniteSet(S \cup V) /\ S \cup U = (S \cup V) \cup {u}
          /\ u \notin S \cup V /\ S \cup V \in SUBSET Services
          /\ u \in Services
    BY FS_Subset
  <2>5. Needs(S) <= Needs(S \cup V)
    BY <2>1, <2>3
  <2> HIDE DEF V
  <2>6. Needs(S \cup U) = Needs(S \cup V) + Need[u]
    BY <2>4, NeedsAdd
  <2>7. Needs(S \cup V) \in Nat /\ Need[u] \in Nat
    BY <2>4, NeedsIsNat, NeedIsNat
  <2> QED
    BY <1>2, <2>1, <2>5, <2>6, <2>7
<1>4. T \ S \notin B /\ S \cup (T \ S) = T
  BY <1>3
<1> QED
  BY <1>4

-----------------------------------------------------------------------------
(***************************************************************************)
(* What is chosen for an offer fits it.                                    *)
(***************************************************************************)
ServicesOf(ts) == {k.service : k \in ts}

SetFits(o, S) ==
  /\ S \in SUBSET Services /\ IsFiniteSet(S)
  /\ Needs(S) <= o.units
  /\ PortsOf(S) \subseteq o.ports
  /\ \A s, t \in S : s # t => Ports[s] \cap Ports[t] = {}

OnePerService(ts) == \A j, k \in ts : j.service = k.service => j = k

TasksFit(o, ts) == SetFits(o, ServicesOf(ts)) /\ OnePerService(ts)

FittingCall ==
  {c \in Call : c.call = "launchTasks" => TasksFit(c.offer, c.tasks)}

(***************************************************************************)
(* LaunchFitsOffer with the list in hand: what is still to be built counts *)
(* as well, or the last task made might be one too many.                   *)
(***************************************************************************)
InHandFits(b) ==
  /\ SetFits(b.offer, b.todo \cup ServicesOf(b.made))
  /\ b.todo \cap ServicesOf(b.made) = {}
  /\ OnePerService(b.made)

FitInv == driver \in Seq(FittingCall) /\ InHandFits(building)

LEMMA ServicesFinite ==
  ASSUME NEW S \in SUBSET Services
  PROVE  IsFiniteSet(S)
<1>1. IsFiniteSet({Prober, Client})
  <2>1. IsFiniteSet({Prober}) /\ {Prober} \cup {Client} = {Prober, Client}
    BY FS_Singleton
  <2> QED
    BY <2>1, FS_AddElement
<1>2. IsFiniteSet(Services)
  BY <1>1, FS_Union, SchedulerAssumption DEF Services, NodeServices
<1> QED
  BY <1>2, FS_Subset

\* Of some services one is considered last.
LEMMA LastInRank ==
  ASSUME NEW S \in SUBSET Services, S # {}
  PROVE  \E s \in S : \A t \in S : Rank[t] <= Rank[s]
<1> DEFINE B == {T \in SUBSET S :
                   T # {} /\ ~ \E s \in T : \A t \in T : Rank[t] <= Rank[s]}
<1>1. SUFFICES ASSUME B # {} PROVE FALSE
  OBVIOUS
<1>2. PICK T \in B : \A U \in SUBSET T : U # T => U \notin B
  <2>1. B \in SUBSET (SUBSET S) /\ IsFiniteSet(S)
    BY ServicesFinite
  <2> HIDE DEF B
  <2> QED
    BY <1>1, <2>1, SmallestSubset
<1>3. PICK x \in T : TRUE
  OBVIOUS
<1>4. \A s \in S : Rank[s] \in Nat
  BY SchedulerAssumption
<1>5. CASE T = {x}
  BY <1>3, <1>4, <1>5
<1>6. CASE T # {x}
  <2>1. PICK s \in T \ {x} : \A t \in T \ {x} : Rank[t] <= Rank[s]
    <3>1. /\ T \ {x} \in SUBSET T /\ T \ {x} # T /\ T \ {x} # {}
          /\ T \ {x} \in SUBSET S
      BY <1>3, <1>6
    <3>2. T \ {x} \notin B
      BY <1>2, <3>1
    <3> QED
      BY <3>1, <3>2
  <2>2. CASE Rank[x] <= Rank[s]
    BY <2>1, <2>2
  <2>3. CASE ~ (Rank[x] <= Rank[s])
    <3>1. Rank[x] \in Nat /\ Rank[s] \in Nat
      BY <1>3, <1>4, <2>1
    <3>2. \A t \in T : Rank[t] <= Rank[x]
      BY <1>4, <2>1, <2>3, <3>1
    <3> QED
      BY <1>3, <3>2
  <2> QED
    BY <2>2, <2>3
<1> QED
  BY <1>5, <1>6

LEMMA WantedServices ==
  ASSUME NEW o
  PROVE  Wanted(o) \in SUBSET Services
BY SchedulerAssumption DEF Wanted, Services, NodeServices

LEMMA ChosenFits ==
  ASSUME NEW o \in Offer, NEW S \in Chosen(o)
  PROVE  SetFits(o, S)
<1> DEFINE before(s) == {t \in S : Rank[t] < Rank[s]}
<1>1. S \in SUBSET Services /\ IsFiniteSet(S)
  BY WantedServices, ServicesFinite DEF Chosen
<1>2. \A s \in S : /\ Ports[s] \subseteq o.ports \ PortsOf(before(s))
                   /\ Needs(before(s)) + Need[s] <= o.units
  BY DEF Chosen, Fits
<1>3. \A s \in S : Rank[s] \in Nat
  BY <1>1, SchedulerAssumption
<1>4. \A s, t \in S : Rank[s] = Rank[t] => s = t
  BY <1>1, SchedulerAssumption
<1>5. PortsOf(S) \subseteq o.ports
  BY <1>2 DEF PortsOf
<1>6. ASSUME NEW s \in S, NEW t \in S, Rank[t] < Rank[s]
      PROVE  Ports[s] \cap Ports[t] = {}
  <2>1. t \in before(s)
    BY <1>6
  <2>2. Ports[t] \subseteq PortsOf(before(s))
    BY <2>1 DEF PortsOf
  <2> QED
    BY <1>2, <2>2
<1>7. ASSUME NEW s \in S, NEW t \in S, s # t
      PROVE  Ports[s] \cap Ports[t] = {}
  <2>1. Rank[t] < Rank[s] \/ Rank[s] < Rank[t]
    BY <1>3, <1>4, <1>7
  <2> QED
    BY <1>6, <2>1
<1>8. Needs(S) <= o.units
  <2>1. CASE S = {}
    BY <2>1, NeedsEmpty DEF Offer
  <2>2. CASE S # {}
    <3>1. PICK s \in S : \A t \in S : Rank[t] <= Rank[s]
      BY <1>1, <2>2, LastInRank
    <3>2. before(s) = S \ {s}
      BY <1>3, <1>4, <3>1
    <3>3. Needs(S \ {s}) + Need[s] <= o.units
      BY <1>2, <3>2
    <3>4. Needs(S) = Need[s] + Needs(S \ {s})
      BY <1>1, NeedsRemove
    <3>5. Need[s] \in Nat /\ Needs(S \ {s}) \in Nat
      BY <1>1, NeedIsNat, NeedsIsNat, FS_Subset
    <3> QED
      BY <3>3, <3>4, <3>5
  <2> QED
    BY <2>1, <2>2
<1> QED
  BY <1>1, <1>5, <1>7, <1>8 DEF SetFits

-----------------------------------------------------------------------------
(***************************************************************************)
(* What the callbacks call on the driver.                                  *)
(***************************************************************************)
\* Most calls launch nothing.
LEMMA OtherCallsFit ==
  ASSUME NEW c \in Call, c.call # "launchTasks"
  PROVE  c \in FittingCall
BY DEF FittingCall

LEMMA KillsFit ==
  ASSUME NEW ts \in SUBSET TaskId
  PROVE  Kills(ts) \in Seq(FittingCall)
<1>1. [call |-> "killTask", tasks |-> ts] \in FittingCall
  BY OtherCallsFit DEF Call
<1> QED
  BY <1>1 DEF Kills

\* An empty list fits.
LEMMA IdleFits == InHandFits(Idle)
<1>1. Needs({}) = 0 /\ IsFiniteSet({})
  BY NeedsEmpty, FS_EmptySet
<1>2. /\ Idle.todo \cup ServicesOf(Idle.made) = {}
      /\ Idle.todo = {} /\ Idle.made = {} /\ Idle.offer = NoOffer
  BY DEF Idle, ServicesOf
<1>3. SetFits(NoOffer, {})
  BY <1>1 DEF SetFits, NoOffer, PortsOf
<1> QED
  BY <1>2, <1>3 DEF InHandFits, OnePerService

LEMMA OffersFit ==
  ASSUME Inv, FitInv, IgnoreHost \/ MeetHost \/ StartProber \/ ProbeHost
                \/ KillServices
  PROVE  FitInv'
<1> DEFINE o == Head(mailbox).offer
<1>1. /\ NextEvent("resourceOffers") /\ building' = building
      /\ driver \in Seq(FittingCall)
  BY DEF IgnoreHost, MeetHost, StartProber, ProbeHost, KillServices, FitInv
<1>2. o \in Offer /\ o.host \in Hosts
  BY <1>1, OfferTaken DEF Inv, Offer
<1>3. /\ Decline(o) \in FittingCall /\ ReconcileHost(o.host) \in FittingCall
      /\ Probe(o.slave) \in FittingCall
  BY <1>2, CallsTyped, OtherCallsFit DEF Decline, ReconcileHost, Probe
<1>4. SUFFICES driver' \in Seq(FittingCall)
  BY <1>1 DEF FitInv
<1> HIDE DEF o
<1>5. CASE IgnoreHost
  BY <1>1, <1>3, <1>5 DEF IgnoreHost, o
<1>6. CASE MeetHost
  BY <1>1, <1>3, <1>6 DEF MeetHost, o
<1>7. CASE StartProber
  <2> DEFINE ts == {[service |-> Prober, version |-> NoVersion]}
  <2>1. driver' = Append(driver, Launch(o, ts)) /\ Need[Prober] <= o.units
    BY <1>7 DEF StartProber, StartsProber, o
  <2>2. Prober \in Services /\ ts \in SUBSET Task /\ ServicesOf(ts) = {Prober}
    BY DEF Services, NodeServices, Task, ServicesOf
  <2>3. Ports[Prober] = {}
    BY <2>2, SchedulerAssumption DEF Ported
  <2>4. Needs({Prober}) = Need[Prober]
    <3>1. {} \cup {Prober} = {Prober}
      OBVIOUS
    <3>2. Needs({} \cup {Prober}) = Needs({}) + Need[Prober]
      BY <2>2, FS_EmptySet, NeedsAdd
    <3> QED
      BY <2>2, <3>1, <3>2, NeedsEmpty, NeedIsNat
  <2>5. SetFits(o, {Prober}) /\ OnePerService(ts)
    <3>1. IsFiniteSet({Prober})
      BY FS_Singleton
    <3>2. PortsOf({Prober}) = {}
      BY <2>3 DEF PortsOf
    <3>3. SetFits(o, {Prober})
      BY <2>1, <2>2, <2>4, <3>1, <3>2 DEF SetFits
    <3>4. OnePerService(ts)
      BY DEF OnePerService
    <3> QED
      BY <3>3, <3>4
  <2>6. /\ Launch(o, ts) \in Call
        /\ Launch(o, ts).offer = o /\ Launch(o, ts).tasks = ts
    BY <1>2, <2>2, CallsTyped DEF Launch
  <2>7. Launch(o, ts) \in FittingCall
    BY <2>2, <2>5, <2>6 DEF FittingCall, TasksFit
  <2> QED
    BY <1>1, <2>1, <2>7
<1>8. CASE ProbeHost
  BY <1>1, <1>3, <1>8 DEF ProbeHost, o
<1>9. CASE KillServices
  <2> DEFINE ts == {[service |-> s, host |-> o.host] :
                      s \in RunningOn(nodes[o.host])}
  <2>1. driver' = driver \o Kills(ts) \o <<Decline(o)>>
    BY <1>9 DEF KillServices, o
  <2>2. RunningOn(nodes[o.host]) \subseteq Services
    BY DEF RunningOn, CoreServicesRunning, Services, NodeServices
  <2>3. ts \in SUBSET TaskId
    BY <1>2, <2>2 DEF TaskId
  <2> QED
    BY <1>1, <1>3, <2>1, <2>3, KillsFit
<1> QED
  BY <1>5, <1>6, <1>7, <1>8, <1>9

LEMMA OthersFit ==
  ASSUME Inv, FitInv, UnknownService \/ ServiceUp \/ ServiceUnwanted
                \/ ServiceDown \/ ServiceStaging
                \/ Registered \/ FrameworkMessage
  PROVE  FitInv'
<1>1. building' = building /\ driver \in Seq(FittingCall)
  BY DEF UnknownService, ServiceUp, ServiceUnwanted, ServiceDown,
         ServiceStaging, Registered, FrameworkMessage, FitInv
<1>2. SUFFICES driver' \in Seq(FittingCall)
  BY <1>1 DEF FitInv
<1>3. CASE Registered
  <2>1. ReconcileAll \in FittingCall
    BY OtherCallsFit DEF ReconcileAll, Call
  <2> QED
    BY <1>1, <1>3, <2>1 DEF Registered
<1>4. CASE UnknownService \/ ServiceDown \/ FrameworkMessage
  BY <1>1, <1>4 DEF UnknownService, ServiceDown, FrameworkMessage
<1>5. CASE ServiceUp \/ ServiceUnwanted \/ ServiceStaging
  <2> DEFINE e == Head(mailbox)
  <2>1. NextEvent("statusUpdate")
    BY <1>5 DEF ServiceUp, ServiceUnwanted, ServiceStaging
  <2>2. e.task \in TaskId
    BY <2>1, UpdateTaken DEF Inv
  <2>3. /\ ShutdownKills(e) \in Seq(FittingCall)
        /\ Kills({e.task}) \in Seq(FittingCall)
    BY <2>2, KillsFit DEF ShutdownKills
  <2>4. \/ driver' = driver \o ShutdownKills(e)
        \/ driver' = driver \o Kills({e.task}) \o ShutdownKills(e)
    <3>1. CASE ServiceUp
      BY <3>1 DEF ServiceUp
    <3>2. CASE ServiceUnwanted
      BY <3>2 DEF ServiceUnwanted
    <3>3. CASE ServiceStaging
      BY <3>3 DEF ServiceStaging
    <3> QED
      BY <1>5, <3>1, <3>2, <3>3
  <2>5. driver \o Kills({e.task}) \in Seq(FittingCall)
    BY <1>1, <2>3
  <2> HIDE DEF e
  <2>6. driver \o ShutdownKills(e) \in Seq(FittingCall)
    BY <1>1, <2>3
  <2>7. driver \o Kills({e.task}) \o ShutdownKills(e) \in Seq(FittingCall)
    BY <2>3, <2>5
  <2> QED
    BY <2>4, <2>6, <2>7
<1> QED
  BY <1>3, <1>4, <1>5

LEMMA ChoiceFits ==
  ASSUME Inv, FitInv, ChooseServices
  PROVE  FitInv'
<1> DEFINE o == Head(mailbox).offer
<1>1. /\ NextEvent("resourceOffers") /\ driver \in Seq(FittingCall)
      /\ o \in Offer
  BY OfferTaken DEF ChooseServices, Inv, FitInv
<1>2. PICK S \in Chosen(o) :
        IF S = {}
        THEN driver' = Append(driver, Decline(o)) /\ UNCHANGED building
        ELSE /\ building' = [offer |-> o, todo |-> S, made |-> {}]
             /\ UNCHANGED driver
  BY DEF ChooseServices
<1>3. SetFits(o, S)
  BY <1>1, ChosenFits
<1>4. Decline(o) \in FittingCall
  BY <1>1, CallsTyped, OtherCallsFit DEF Decline
<1> HIDE DEF o
<1>5. CASE S = {}
  BY <1>1, <1>2, <1>4, <1>5 DEF FitInv, InHandFits
<1>6. CASE S # {}
  <2>1. /\ driver' = driver /\ building'.offer = o /\ building'.todo = S
        /\ building'.made = {}
    BY <1>2, <1>6
  <2>2. ServicesOf({}) = {} /\ OnePerService({}) /\ S \cup {} = S
    BY DEF ServicesOf, OnePerService
  <2> QED
    BY <1>1, <1>3, <2>1, <2>2 DEF FitInv, InHandFits
<1> QED
  BY <1>5, <1>6

\* What makeTask does to the lists in hand.
LEMMA TaskMoved ==
  ASSUME NEW O, NEW S, NEW T,
         NEW b \in [offer : O, todo : SUBSET S, made : SUBSET T], NEW s, NEW k
  PROVE  LET c == [b EXCEPT !.todo = @ \ {s}, !.made = @ \cup {k}] IN
         /\ c.offer = b.offer
         /\ c.todo = b.todo \ {s}
         /\ c.made = b.made \cup {k}
OBVIOUS

\* A task moves from the list to build to the list built.
LEMMA MakeFits ==
  ASSUME Inv, FitInv, NEW s \in Services, MakeTask(s)
  PROVE  FitInv'
<1> DEFINE v == IF s = Client THEN NoVersion ELSE target_version
           k == [service |-> s, version |-> v]
<1>1. /\ building' = [building EXCEPT !.todo = @ \ {s}, !.made = @ \cup {k}]
      /\ driver' = driver /\ s \in building.todo
  BY DEF MakeTask
<1>2. building \in [offer : Offer \cup {NoOffer}, todo : SUBSET Services,
                   made : SUBSET Task]
  BY DEF Inv, TypeOK
<1>3. k.service = s
  OBVIOUS
<1> HIDE DEF k
<1>4. /\ building'.offer = building.offer
      /\ building'.todo = building.todo \ {s}
      /\ building'.made = building.made \cup {k}
  BY <1>1, <1>2, TaskMoved
<1>5. ServicesOf(building'.made) = ServicesOf(building.made) \cup {s}
  BY <1>4, <1>3 DEF ServicesOf
<1>6. s \notin ServicesOf(building.made)
  BY <1>1 DEF FitInv, InHandFits
<1>7. building'.todo \cup ServicesOf(building'.made)
        = building.todo \cup ServicesOf(building.made)
  BY <1>1, <1>4, <1>5
<1>8. building'.todo \cap ServicesOf(building'.made) = {}
  BY <1>4, <1>5 DEF FitInv, InHandFits
<1>9. OnePerService(building'.made)
  BY <1>4, <1>6, <1>3 DEF FitInv, InHandFits, OnePerService, ServicesOf
<1>10. SetFits(building'.offer, building'.todo \cup ServicesOf(building'.made))
  BY <1>4, <1>7 DEF FitInv, InHandFits
<1> QED
  BY <1>1, <1>8, <1>9, <1>10 DEF FitInv, InHandFits

LEMMA LaunchFits ==
  ASSUME Inv, FitInv, LaunchTasks
  PROVE  FitInv'
<1> DEFINE c == Launch(building.offer, building.made)
<1>1. /\ building # Idle /\ building.todo = {} /\ building' = Idle
      /\ driver' = Append(driver, c)
  BY DEF LaunchTasks
<1>2. building.offer \in Offer /\ building.made \in SUBSET Task
  <2>1. building.offer.host \in Hosts
    BY <1>1 DEF Inv, TypeOK
  <2> QED
    BY <2>1, SchedulerAssumption DEF Inv, TypeOK, NoOffer
<1>3. /\ c \in Call /\ c.offer = building.offer /\ c.tasks = building.made
  BY <1>2, CallsTyped DEF Launch
<1>4. TasksFit(building.offer, building.made)
  <2>1. building.todo \cup ServicesOf(building.made) = ServicesOf(building.made)
    BY <1>1
  <2> QED
    BY <2>1 DEF FitInv, InHandFits, TasksFit
<1>5. c \in FittingCall
  BY <1>3, <1>4 DEF FittingCall
<1>6. driver' \in Seq(FittingCall)
  BY <1>1, <1>5 DEF FitInv, InHandFits
<1> QED
  BY <1>1, <1>6, IdleFits DEF FitInv, InHandFits

LEMMA CallbackFits ==
  ASSUME Inv, FitInv, Callback
  PROVE  FitInv'
BY OffersFit, OthersFit, ChoiceFits, MakeFits, LaunchFits DEF Callback

\* FitInv says what LaunchFitsOffer does.
LEMMA FitIsLaunchFits ==
  ASSUME FitInv
  PROVE  LaunchFitsOffer
<1> SUFFICES ASSUME NEW i \in DOMAIN driver, driver[i].call = "launchTasks"
             PROVE  LET S == {k.service : k \in driver[i].tasks} IN
                    /\ Needs(S) <= driver[i].offer.units
                    /\ PortsOf(S) \subseteq driver[i].offer.ports
                    /\ \A s, t \in S : s # t => Ports[s] \cap Ports[t] = {}
                    /\ Cardinality(S) = Cardinality(driver[i].tasks)
  BY DEF LaunchFitsOffer
<1> DEFINE ts == driver[i].tasks
           S  == ServicesOf(ts)
           f  == [k \in ts |-> k.service]
<1>1. driver[i] \in FittingCall
  BY DEF FitInv
<1>2. SetFits(driver[i].offer, S) /\ OnePerService(ts)
  BY <1>1 DEF FittingCall, TasksFit
<1>3. f \in Bijection(ts, S)
  BY <1>2 DEF OnePerService, ServicesOf, Bijection, Injection, Surjection,
              IsInjective
<1>4. f \in Injection(ts, S) /\ f \in Surjection(ts, S)
  BY <1>3 DEF Bijection
<1>5. Cardinality(ts) = Cardinality(S)
  BY <1>2, <1>4, FS_Injection DEF SetFits
<1> QED
  BY <1>2, <1>5 DEF SetFits, ServicesOf

\* Timers, POSTs, restarts and the environment launch nothing.
LEMMA SurroundingsFit ==
  ASSUME Inv, FitInv, Surroundings \/ TakeCall \/ \E e \in Inputs : Receive(e)
  PROVE  FitInv'
<1>1. CASE \E state \in SchedulerState : Restart(state)
  BY <1>1, IdleFits DEF Restart, FitInv
<1>2. CASE TakeCall
  BY <1>2 DEF TakeCall, FitInv
<1>3. CASE driver' = driver /\ building' = building
  BY <1>3 DEF FitInv
<1> QED
  BY <1>1, <1>2, <1>3
    DEF Surroundings, KeepaliveElapses, ProbeIntervalElapses, PostVersion,
        Receive

LEMMA InitFits == Init => FitInv
BY IdleFits DEF Init, FitInv

(***************************************************************************)
(* However many services wait for an offer, and whatever their sizes and   *)
(* ports: what is launched on it never asks for more than it has.          *)
(***************************************************************************)
THEOREM LaunchesAlwaysFit == Spec => []LaunchFitsOffer
<1>1. Inv /\ FitInv /\ [Next]_schedulerVars => FitInv'
  <2>1. ASSUME FitInv, UNCHANGED schedulerVars PROVE FitInv'
    BY <2>1 DEF schedulerVars, FitInv
  <2> QED
    BY <2>1, CallbackFits, SurroundingsFit DEF Next
<1>2. FitInv => LaunchFitsOffer
  BY FitIsLaunchFits
<1> QED
  BY <1>1, <1>2, InitInv, NextInv, InitFits, PTL DEF Spec
-----------------------------------------------------------------------------
(***************************************************************************)
(* The versions of what is launched.                                       *)
(***************************************************************************)
\* A callback calls for no launch but those of StartProber and LaunchTasks.
LEMMA CallsKept ==
  ASSUME Inv, Callback, NEW P \in SUBSET Call, driver \in Seq(P),
         \A c \in Call : c.call # "launchTasks" => c \in P,
         \A o \in Offer :
           Launch(o, {[service |-> Prober, version |-> NoVersion]}) \in P,
         LaunchTasks => Launch(building.offer, building.made) \in P
  PROVE  driver' \in Seq(P)
<1> DEFINE e == Head(mailbox)
           o == e.offer
<1>1. ASSUME NextEvent("resourceOffers")
      PROVE  /\ o \in Offer /\ o.host \in Hosts
             /\ Decline(o) \in P /\ ReconcileHost(o.host) \in P
             /\ Probe(o.slave) \in P
  <2>1. o \in Offer /\ o.host \in Hosts
    BY <1>1, OfferTaken DEF Inv, Offer
  <2> HIDE DEF o
  <2>2. Decline(o) \in Call /\ ReconcileHost(o.host) \in Call
          /\ Probe(o.slave) \in Call
    BY <2>1, CallsTyped
  <2> QED
    BY <2>1, <2>2 DEF Decline, ReconcileHost, Probe
<1>2. \A ts \in SUBSET TaskId : Kills(ts) \in Seq(P)
  <2>1. ASSUME NEW ts \in SUBSET TaskId
        PROVE  Kills(ts) \in Seq(P)
    <3>1. [call |-> "killTask", tasks |-> ts] \in P
      BY DEF Call
    <3> QED
      BY <3>1 DEF Kills
  <2> QED
    BY <2>1
<1>3. CASE Registered
  <2>1. ReconcileAll \in P
    BY DEF ReconcileAll, Call
  <2> QED
    BY <1>3, <2>1 DEF Registered
<1>4. CASE UnknownService \/ ServiceDown \/ FrameworkMessage
             \/ \E s \in Services : MakeTask(s)
  BY <1>4 DEF UnknownService, ServiceDown, FrameworkMessage, MakeTask
<1>5. CASE ServiceUp \/ ServiceUnwanted \/ ServiceStaging
  <2>1. NextEvent("statusUpdate")
    BY <1>5 DEF ServiceUp, ServiceUnwanted, ServiceStaging
  <2>2. e.task \in TaskId
    BY <2>1, UpdateTaken DEF Inv
  <2>3. PICK k1, k2 : k1 = Kills({e.task}) /\ k2 = ShutdownKills(e)
    OBVIOUS
  <2>4. k1 \in Seq(P) /\ k2 \in Seq(P)
    BY <1>2, <2>2, <2>3 DEF ShutdownKills
  <2>5. driver' = driver \o k2 \/ driver' = driver \o k1 \o k2
    BY <1>5, <2>3 DEF ServiceUp, ServiceUnwanted, ServiceStaging
  <2>6. driver \o k1 \in Seq(P)
    BY <2>4
  <2>7. driver \o k2 \in Seq(P) /\ driver \o k1 \o k2 \in Seq(P)
    BY <2>4, <2>6
  <2> QED
    BY <2>5, <2>7
<1>6. CASE IgnoreHost
  <2>1. driver' = Append(driver, Decline(o)) /\ Decline(o) \in P
    BY <1>1, <1>6 DEF IgnoreHost
  <2> HIDE DEF o
  <2> QED
    BY <2>1
<1>7. CASE MeetHost
  <2>1. driver' = driver \o <<ReconcileHost(o.host), Decline(o)>>
    BY <1>7 DEF MeetHost
  <2>2. ReconcileHost(o.host) \in P /\ Decline(o) \in P
    BY <1>1, <1>7 DEF MeetHost
  <2> HIDE DEF o
  <2> QED
    BY <2>1, <2>2
<1>8. CASE ProbeHost
  <2>1. driver' = driver \o
                  <<Probe(o.slave), ReconcileHost(o.host), Decline(o)>>
    BY <1>8 DEF ProbeHost
  <2>2. Probe(o.slave) \in P /\ ReconcileHost(o.host) \in P /\ Decline(o) \in P
    BY <1>1, <1>8 DEF ProbeHost
  <2> HIDE DEF o
  <2> QED
    BY <2>1, <2>2
<1>9. CASE StartProber
  <2>1. PICK c : c = Launch(o, {[service |-> Prober, version |-> NoVersion]})
    OBVIOUS
  <2>2. driver' = Append(driver, c)
    BY <1>9, <2>1 DEF StartProber
  <2>3. c \in P
    BY <1>1, <1>9, <2>1 DEF StartProber
  <2> QED
    BY <2>2, <2>3
<1>10. CASE KillServices
  <2>1. PICK ts : ts = {[service |-> s, host |-> o.host] :
                          s \in RunningOn(nodes[o.host])}
    OBVIOUS
  <2>2. driver' = driver \o Kills(ts) \o <<Decline(o)>>
    BY <1>10, <2>1 DEF KillServices
  <2>3. o.host \in Hosts /\ Decline(o) \in P
    BY <1>1, <1>10 DEF KillServices
  <2>4. RunningOn(nodes[o.host]) \subseteq Services
    BY DEF RunningOn, CoreServicesRunning, Services, NodeServices
  <2> HIDE DEF o
  <2>5. ts \in SUBSET TaskId
    BY <2>1, <2>3, <2>4 DEF TaskId
  <2>6. Kills(ts) \in Seq(P)
    BY <1>2, <2>5
  <2> QED
    BY <2>2, <2>3, <2>6
<1>11. CASE ChooseServices
  <2>1. driver' = driver \/ driver' = Append(driver, Decline(o))
    BY <1>11 DEF ChooseServices
  <2>2. Decline(o) \in P
    BY <1>1, <1>11 DEF ChooseServices
  <2> HIDE DEF o
  <2> QED
    BY <2>1, <2>2
<1>12. CASE LaunchTasks
  <2>1. PICK c : c = Launch(building.offer, building.made)
    OBVIOUS
  <2>2. driver' = Append(driver, c) /\ c \in P
    BY <1>12, <2>1 DEF LaunchTasks
  <2> QED
    BY <2>2
<1> QED
  BY <1>3, <1>4, <1>5, <1>6, <1>7, <1>8, <1>9, <1>10, <1>11, <1>12 DEF Callback

AllVersioned(ts) == \A k \in ts : k.service \in Ported => k.version # NoVersion

VersionedCall == {c \in Call : c.call = "launchTasks" => AllVersioned(c.tasks)}

\* The version checked for an offer is still there when a task is made on it.
VersionInv ==
  /\ driver \in Seq(VersionedCall)
  /\ AllVersioned(building.made)
  /\ building # Idle => target_version # NoVersion

\* A POST withdraws the version while a list of tasks is being made.
Withdrawal == building # Idle /\ PostVersion(NoVersion)

LEMMA CallbackVersions ==
  ASSUME Inv, VersionInv, Callback
  PROVE  VersionInv'
<1>1. driver' \in Seq(VersionedCall)
  <2>1. VersionedCall \in SUBSET Call /\ driver \in Seq(VersionedCall)
    BY DEF VersionedCall, VersionInv
  <2>2. \A c \in Call : c.call # "launchTasks" => c \in VersionedCall
    BY DEF VersionedCall
  <2>3. ASSUME NEW o \in Offer, NEW ts \in SUBSET Task, AllVersioned(ts)
        PROVE  Launch(o, ts) \in VersionedCall
    <3>1. Launch(o, ts) \in Call
      BY CallsTyped
    <3>2. Launch(o, ts).tasks = ts
      BY DEF Launch
    <3> QED
      BY <2>3, <3>1, <3>2 DEF VersionedCall
  <2>4. PICK ts : ts = {[service |-> Prober, version |-> NoVersion]}
    OBVIOUS
  <2>5. ts \in SUBSET Task /\ AllVersioned(ts)
    BY <2>4, SchedulerAssumption
      DEF Task, Services, NodeServices, AllVersioned, Ported
  <2>6. LaunchTasks => Launch(building.offer, building.made) \in VersionedCall
    <3>1. LaunchTasks => /\ building.offer \in Offer
                         /\ building.made \in SUBSET Task
      BY SchedulerAssumption DEF LaunchTasks, Inv, TypeOK, NoOffer
    <3> QED
      BY <2>3, <3>1 DEF VersionInv
  <2>7. \A o \in Offer : Launch(o, ts) \in VersionedCall
    BY <2>3, <2>5
  <2> QED
    BY <2>1, <2>2, <2>4, <2>6, <2>7, CallsKept
<1>2. target_version' = target_version
  BY DEF Callback, Registered, IgnoreHost, MeetHost, StartProber, ProbeHost,
         ChooseServices, LaunchTasks, KillServices, MakeTask, UnknownService,
         ServiceUp, ServiceUnwanted, ServiceDown, ServiceStaging,
         FrameworkMessage, NextEvent, TakeEvent
<1>3. CASE \E s \in Services : MakeTask(s)
  <2>1. PICK s \in Services : MakeTask(s)
    BY <1>3
  <2>2. PICK k : /\ k = [service |-> s, version |->
                           IF s = Client THEN NoVersion ELSE target_version]
                 /\ building' = [building EXCEPT !.todo = @ \ {s},
                                                 !.made = @ \cup {k}]
    BY <2>1 DEF MakeTask
  <2>3. building # Idle /\ target_version # NoVersion
    BY <2>1 DEF MakeTask, Idle, VersionInv
  <2>4. building \in [offer : Offer \cup {NoOffer}, todo : SUBSET Services,
                      made : SUBSET Task]
    BY DEF Inv, TypeOK
  <2>5. building'.made = building.made \cup {k}
    BY <2>2, <2>4, TaskMoved
  <2>6. s \in Ported => k.version # NoVersion
    BY <2>2, <2>3, SchedulerAssumption DEF Ported
  <2>7. AllVersioned(building'.made)
    BY <2>2, <2>5, <2>6 DEF VersionInv, AllVersioned
  <2> QED
    BY <1>1, <1>2, <2>3, <2>7 DEF VersionInv
<1>4. CASE ChooseServices
  <2>1. target_version # NoVersion
    BY <1>4 DEF ChooseServices
  <2>2. building' = building \/ building'.made = {}
    BY <1>4 DEF ChooseServices
  <2> QED
    BY <1>1, <1>2, <2>1, <2>2 DEF VersionInv, AllVersioned
<1>5. CASE LaunchTasks
  <2>1. building' = Idle /\ Idle.made = {}
    BY <1>5 DEF LaunchTasks, Idle
  <2> QED
    BY <1>1, <2>1 DEF VersionInv, AllVersioned
<1>6. CASE building' = building
  BY <1>1, <1>2, <1>6 DEF VersionInv
<1>7. (\E s \in Services : MakeTask(s)) \/ ChooseServices \/ LaunchTasks
        \/ building' = building
  BY Zenon DEF Callback, Registered, IgnoreHost, MeetHost, StartProber,
       ProbeHost, KillServices, UnknownService, ServiceUp, ServiceUnwanted,
       ServiceDown, ServiceStaging, FrameworkMessage
<1> QED
  BY <1>3, <1>4, <1>5, <1>6, <1>7

LEMMA SurroundingsVersions ==
  ASSUME VersionInv, ~Withdrawal,
         Surroundings \/ TakeCall \/ (\E e \in Inputs : Receive(e))
           \/ UNCHANGED schedulerVars
  PROVE  VersionInv'
<1>1. CASE \E state \in SchedulerState : Restart(state)
  BY <1>1 DEF Restart, VersionInv, Idle, AllVersioned
<1>2. CASE TakeCall
  BY <1>2 DEF TakeCall, VersionInv
<1>3. CASE /\ driver' = driver /\ building' = building
           /\ building = Idle \/ target_version' = target_version
                \/ target_version' # NoVersion
  BY <1>3 DEF VersionInv
<1>4. ASSUME NEW v, PostVersion(v)
      PROVE  building = Idle \/ target_version' # NoVersion
  BY <1>4 DEF Withdrawal, PostVersion
<1> QED
  BY <1>1, <1>2, <1>3, <1>4
    DEF Surroundings, KeepaliveElapses, ProbeIntervalElapses, PostVersion,
        Receive, schedulerVars

(***************************************************************************)
(* The POST of the empty version between resourceOffers' check and the     *)
(* last task of its list is all that can make makeTask launch a service    *)
(* without a version: with none there, restarts, --reset, other POSTs and  *)
(* updates in any order make none.                                         *)
(***************************************************************************)
THEOREM OnlyWithdrawalLosesVersion ==
  Spec /\ [][~Withdrawal]_schedulerVars => []NoVersionlessLaunch
<1>1. Init => VersionInv
  BY DEF Init, VersionInv, Idle, AllVersioned
<1>2. Inv /\ VersionInv /\ [Next]_schedulerVars /\ [~Withdrawal]_schedulerVars
        => VersionInv'
  <2>1. ASSUME UNCHANGED schedulerVars, VersionInv PROVE VersionInv'
    BY <2>1 DEF schedulerVars, VersionInv
  <2> QED
    BY <2>1, CallbackVersions, SurroundingsVersions DEF Next
<1>3. VersionInv => NoVersionlessLaunch
  BY DEF VersionInv, NoVersionlessLaunch, VersionedCall, AllVersioned
<1> QED
  BY <1>1, <1>2, <1>3, InitInv, NextInv, PTL DEF Spec
===============================================================================
