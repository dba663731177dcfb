---------------------- MODULE SchedulerStateProxyProofs ----------------------
(***************************************************************************)
(* The persistent state, for any number of threads, ids, versions, writes  *)
(* and failures: TypeOK, SerialWritesPersist and ConflictKeepsOne.         *)
(***************************************************************************)
EXTENDS SchedulerStateProxy, SequenceTheorems, TLAPS

Request == [state : SchedulerState, uuid : Nat]

-----------------------------------------------------------------------------
(***************************************************************************)
(* While no setter has overlapped another one, at most one thread is in a  *)
(* setter.  From its fetch on the store has nothing to do but its request, *)
(* so that the request is the only one and carries the right identity.     *)
(***************************************************************************)
OneWrites == \A t, u \in Threads : pc[t] # "idle" /\ pc[u] # "idle" => t = u

Written(t) ==
  /\ pc[t] \in {"fetch", "store"} => text[t] = data
  /\ pc[t] = "store" => fetched[t] = stored.uuid /\ storing = <<>>

Settled ==
  (\A t \in Threads : pc[t] = "idle") =>
    \/ storing = <<>> /\ (failed \/ stored.state = data)
    \/ storing = <<[state |-> data, uuid |-> stored.uuid]>>

SerialInv ==
  mode = "scheduler" /\ ~overlap =>
    OneWrites /\ Settled /\ \A t \in Threads : Written(t)

-----------------------------------------------------------------------------
(***************************************************************************)
(* Without failures only runs with --reset come before the scheduler, and  *)
(* these write nothing but the cleared state.                              *)
(***************************************************************************)
OnlyCleared ==
  /\ data = Cleared
  /\ \A t \in Threads : text[t] = Cleared
  /\ \A i \in DOMAIN storing : storing[i].state = Cleared
  /\ stored.uuid > 0 => stored.state = Cleared

\* A state is that of a thread, or of one that has serialized another since.
OfThread(state) == \E t \in Threads : text[t] = state \/ pc[t] = "fetch"

AllOfThreads == \A i \in DOMAIN storing : OfThread(storing[i].state)

\* The same of a state after a step.
ThenOfThread(state) == \E t \in Threads : text'[t] = state \/ pc'[t] = "fetch"

\* What is stored is a thread's state, or is about to be replaced.
Replaced ==
  \/ \E t \in Threads : pc[t] = "store" /\ fetched[t] = stored.uuid
  \/ \E i \in DOMAIN storing : storing[i].uuid = stored.uuid

ConflictInv ==
  failures = 0 =>
    /\ mode # "scheduler" => OnlyCleared
    /\ AllOfThreads
    /\ stored.uuid > 0 => OfThread(stored.state) \/ Replaced

-----------------------------------------------------------------------------
\* Both setters change the state in memory to another one, in the same way.
LEMMA Setters ==
  ASSUME TypeOK, Next
  PROVE  \/ Start \/ StartReset \/ ActOnStore \/ Crash \/ ResetReturns
         \/ \E t \in Threads, d \in SchedulerState : Set(t, d)
         \/ \E t \in Threads : Serialize(t) \/ Fetch(t) \/ Store(t)
<1>1. DriverThread \in Threads /\ HttpThreads \subseteq Threads
  BY DEF Threads
<1>2. ASSUME NEW id \in Ids, SetFrameworkId(id)
      PROVE  \E t \in Threads, d \in SchedulerState : Set(t, d)
  <2>1. [data EXCEPT !.framework_id_value = id] \in SchedulerState
    BY DEF TypeOK, SchedulerState
  <2> QED
    BY <1>1, <1>2, <2>1 DEF SetFrameworkId
<1>3. ASSUME NEW t \in Threads, NEW v \in Versions \cup {None},
             SetTargetVersion(t, v)
      PROVE  \E u \in Threads, d \in SchedulerState : Set(u, d)
  <2>1. [data EXCEPT !.target_version = v] \in SchedulerState
    BY DEF TypeOK, SchedulerState
  <2> QED
    BY <1>3, <2>1 DEF SetTargetVersion
<1> QED
  BY <1>2, <1>3 DEF Next, Writeback

\* The store takes the first request.
LEMMA TailOfStoring ==
  ASSUME storing \in Seq(Request), storing # <<>>
  PROVE  /\ Head(storing) \in Request /\ Head(storing) = storing[1]
         /\ 1 \in DOMAIN storing
         /\ Tail(storing) \in Seq(Request)
         /\ \A i \in DOMAIN Tail(storing) : /\ i + 1 \in DOMAIN storing
                                           /\ Tail(storing)[i] = storing[i + 1]
         /\ \A i \in DOMAIN storing : i # 1 =>
              i - 1 \in DOMAIN Tail(storing) /\ Tail(storing)[i - 1] = storing[i]
<1>1. Len(storing) \in Nat \ {0} /\ DOMAIN storing = 1 .. Len(storing)
  BY LenProperties, EmptySeq
<1>2. /\ Tail(storing) \in Seq(Request)
      /\ Len(Tail(storing)) = Len(storing) - 1
      /\ \A i \in 1 .. Len(Tail(storing)) : Tail(storing)[i] = storing[i + 1]
      /\ Head(storing) \in Request
  BY HeadTailProperties
<1>3. DOMAIN Tail(storing) = 1 .. Len(storing) - 1
  BY <1>2, LenProperties
<1> QED
  BY <1>1, <1>2, <1>3

\* What the store was given survives the end of the process in part.
LEMMA CutOfStoring ==
  ASSUME storing \in Seq(Request), NEW n \in 0 .. Len(storing)
  PROVE  /\ SubSeq(storing, 1, n) \in Seq(Request)
         /\ \A i \in DOMAIN SubSeq(storing, 1, n) :
              i \in DOMAIN storing /\ SubSeq(storing, 1, n)[i] = storing[i]
<1>1. Len(storing) \in Nat /\ DOMAIN storing = 1 .. Len(storing)
  BY LenProperties
<1>2. \A i \in 1 .. n : storing[i] \in Request
  BY <1>1, ElementOfSeq
<1>3. /\ SubSeq(storing, 1, n) \in Seq(Request)
      /\ Len(SubSeq(storing, 1, n)) = n
      /\ \A i \in 1 .. n : SubSeq(storing, 1, n)[i] = storing[i]
  BY <1>1, <1>2, SubSeqProperties
<1>4. DOMAIN SubSeq(storing, 1, n) = 1 .. n
  BY <1>3, LenProperties
<1> QED
  BY <1>1, <1>3, <1>4

LEMMA AddedToStoring ==
  ASSUME storing \in Seq(Request), NEW r \in Request
  PROVE  /\ Append(storing, r) \in Seq(Request)
         /\ \A i \in DOMAIN Append(storing, r) :
              \/ i \in DOMAIN storing /\ Append(storing, r)[i] = storing[i]
              \/ Append(storing, r)[i] = r
         /\ \A i \in DOMAIN storing :
              /\ i \in DOMAIN Append(storing, r)
              /\ Append(storing, r)[i] = storing[i]
         /\ \E i \in DOMAIN Append(storing, r) : Append(storing, r)[i] = r
<1>1. Len(storing) \in Nat /\ DOMAIN storing = 1 .. Len(storing)
  BY LenProperties
<1>2. /\ Append(storing, r) \in Seq(Request)
      /\ DOMAIN Append(storing, r) = 1 .. Len(storing) + 1
      /\ \A i \in 1 .. Len(storing) : Append(storing, r)[i] = storing[i]
      /\ Append(storing, r)[Len(storing) + 1] = r
  OBVIOUS
<1> QED
  BY <1>1, <1>2

-----------------------------------------------------------------------------
LEMMA TypeStep ==
  ASSUME TypeOK, [Next]_stateVars
  PROVE  TypeOK'
<1> USE StateAssumption DEF TypeOK
<1> storing \in Seq(Request) /\ stored \in Request
  BY DEF Request
<1>c. Cleared \in SchedulerState
  BY DEF Cleared, SchedulerState
<1>s. stored.state \in SchedulerState
  OBVIOUS
<1>1. CASE Start
  BY <1>1, <1>s DEF Start
<1>2. CASE StartReset
  <2>1. data' \in SchedulerState
    BY <1>2, <1>c DEF StartReset
  <2>2. pc' \in [Threads -> {"idle", "serialize", "fetch", "store"}]
    BY <1>2 DEF StartReset
  <2>3. writes' \in 0 .. MaxWrites
    BY <1>2 DEF StartReset
  <2>4. mode' = "reset" /\ overlap' = FALSE
    BY <1>2 DEF StartReset
  <2> QED
    BY <1>2, <2>1, <2>2, <2>3, <2>4 DEF StartReset
<1>3. ASSUME NEW t \in Threads, NEW d \in SchedulerState, Set(t, d)
      PROVE  TypeOK'
  BY <1>3 DEF Set
<1>4. ASSUME NEW t \in Threads, Serialize(t)
      PROVE  TypeOK'
  BY <1>4 DEF Serialize
<1>5. ASSUME NEW t \in Threads, Fetch(t)
      PROVE  TypeOK'
  BY <1>5 DEF Fetch
<1>6. ASSUME NEW t \in Threads, Store(t)
      PROVE  TypeOK'
  <2>1. [state |-> text[t], uuid |-> fetched[t]] \in Request
    BY DEF Request
  <2>2. storing' \in Seq(Request)
    BY <1>6, <2>1, AddedToStoring DEF Store
  <2> QED
    BY <1>6, <2>2 DEF Store, Request
<1>7. CASE ActOnStore
  <2>1. Head(storing) \in Request /\ Tail(storing) \in Seq(Request)
    BY <1>7, TailOfStoring DEF ActOnStore
  <2>2. Swap(Head(storing)) \in Request
    BY <2>1 DEF Swap, Request
  <2>3. stored' \in Request /\ failed' \in BOOLEAN
    BY <1>7, <2>2 DEF ActOnStore
  <2>4. failures' \in 0 .. MaxFailures
    BY <1>7 DEF ActOnStore
  <2> QED
    BY <1>7, <2>1, <2>3, <2>4 DEF ActOnStore, Request
<1>8. ASSUME End
      PROVE  /\ storing' \in Seq(Request)
             /\ pc' = [t \in Threads |-> "idle"]
             /\ UNCHANGED <<data, text, fetched, stored, overlap, failed, writes>>
  BY <1>8, CutOfStoring DEF End
<1>9. CASE Crash
  BY <1>8, <1>9 DEF Crash, Request
<1>10. CASE ResetReturns
  BY <1>8, <1>10 DEF ResetReturns, Request
<1>11. CASE UNCHANGED stateVars
  BY <1>11 DEF stateVars
<1> QED
  BY <1>1, <1>2, <1>3, <1>4, <1>5, <1>6, <1>7, <1>9, <1>10, <1>11, Setters

LEMMA InitTypeOK == Init => TypeOK
<1> SUFFICES ASSUME Init PROVE TypeOK
  OBVIOUS
<1>1. Cleared \in SchedulerState
  BY DEF Cleared, SchedulerState
<1>2. stored \in [state : SchedulerState, uuid : Nat]
  BY DEF Init
<1>3. storing \in Seq([state : SchedulerState, uuid : Nat])
  BY DEF Init
<1>4. writes \in 0 .. MaxWrites /\ failures \in 0 .. MaxFailures
  BY StateAssumption DEF Init
<1> QED
  BY <1>1, <1>2, <1>3, <1>4 DEF Init, TypeOK

(***************************************************************************)
(* The state in memory, what threads and the store hold of it, and the     *)
(* requests under way keep their types, and no setter outlives the process.*)
(***************************************************************************)
THEOREM StateTypeCorrect == Spec => []TypeOK
BY InitTypeOK, TypeStep, PTL DEF Spec

-----------------------------------------------------------------------------
LEMMA SerialStep ==
  ASSUME TypeOK, SerialInv, [Next]_stateVars
  PROVE  SerialInv'
<1> USE DEF SerialInv, OneWrites, Written, Settled
<1> storing \in Seq(Request) /\ stored \in Request
  BY DEF TypeOK, Request
<1>p. pc \in [Threads -> {"idle", "serialize", "fetch", "store"}]
  BY DEF TypeOK
<1>1. CASE Start
  <2>1. \A t \in Threads : pc'[t] = "idle"
    BY <1>1 DEF Start, TypeOK
  <2> QED
    BY <1>1, <2>1 DEF Start
<1>2. CASE StartReset
  BY <1>2 DEF StartReset
<1>3. ASSUME NEW t \in Threads, NEW d \in SchedulerState, Set(t, d)
      PROVE  SerialInv'
  <2> SUFFICES ASSUME ~overlap' PROVE SerialInv'
    OBVIOUS
  <2>1. \A u \in Threads : pc[u] = "idle"
    BY <1>3 DEF Set
  <2>2. \A u \in Threads : pc'[u] = IF u = t THEN "serialize" ELSE "idle"
    BY <1>3, <1>p, <2>1 DEF Set
  <2> QED
    BY <2>2
<1>4. ASSUME NEW t \in Threads, Serialize(t)
      PROVE  SerialInv'
  <2>1. \A u \in Threads : /\ pc'[u] = (IF u = t THEN "fetch" ELSE pc[u])
                            /\ text'[u] = (IF u = t THEN data ELSE text[u])
    BY <1>4, <1>p DEF Serialize, TypeOK
  <2>2. pc[t] = "serialize"
    BY <1>4 DEF Serialize
  <2>3. UNCHANGED <<mode, data, fetched, storing, stored, overlap>>
    BY <1>4 DEF Serialize
  <2> QED
    BY <2>1, <2>2, <2>3
<1>5. ASSUME NEW t \in Threads, Fetch(t)
      PROVE  SerialInv'
  <2>1. \A u \in Threads :
          /\ pc'[u] = (IF u = t THEN "store" ELSE pc[u])
          /\ fetched'[u] = (IF u = t THEN stored.uuid ELSE fetched[u])
    BY <1>5, <1>p DEF Fetch, TypeOK
  <2>2. pc[t] = "fetch" /\ storing = <<>>
    BY <1>5 DEF Fetch
  <2>3. UNCHANGED <<mode, data, text, storing, stored, overlap>>
    BY <1>5 DEF Fetch
  <2> QED
    BY <2>1, <2>2, <2>3
<1>6. ASSUME NEW t \in Threads, Store(t)
      PROVE  SerialInv'
  <2> SUFFICES ASSUME mode = "scheduler", ~overlap PROVE SerialInv'
    BY <1>6 DEF Store
  <2>1. \A u \in Threads : pc'[u] = "idle"
    BY <1>6, <1>p DEF Store
  <2>2. text[t] = data /\ fetched[t] = stored.uuid /\ storing = <<>>
    BY <1>6 DEF Store
  <2>3. storing' = <<[state |-> data, uuid |-> stored.uuid]>>
    BY <1>6, <2>2 DEF Store
  <2>4. UNCHANGED <<mode, data, stored, overlap>>
    BY <1>6 DEF Store
  <2> QED
    BY <2>1, <2>3, <2>4
<1>7. CASE ActOnStore
  <2> SUFFICES ASSUME mode = "scheduler", ~overlap PROVE SerialInv'
    BY <1>7 DEF ActOnStore
  <2>1. UNCHANGED <<mode, data, pc, text, fetched, overlap>> /\ storing # <<>>
    BY <1>7 DEF ActOnStore
  <2>2. \A u \in Threads : pc[u] # "store"
    BY <2>1
  <2>3. CASE \A u \in Threads : pc[u] = "idle"
    <3>1. storing = <<[state |-> data, uuid |-> stored.uuid]>>
      BY <2>1, <2>3
    <3>2. storing' = <<>> /\ (failed' \/ stored'.state = data)
      BY <1>7, <3>1 DEF ActOnStore, Swap
    <3> QED
      BY <2>1, <2>3, <3>2
  <2>4. CASE ~ \A u \in Threads : pc[u] = "idle"
    BY <2>1, <2>2, <2>4
  <2> QED
    BY <2>3, <2>4
<1>8. CASE Crash
  BY <1>8 DEF Crash
<1>9. CASE ResetReturns
  BY <1>9 DEF ResetReturns
<1>10. CASE UNCHANGED stateVars
  BY <1>10 DEF stateVars
<1> QED
  BY <1>1, <1>2, <1>3, <1>4, <1>5, <1>6, <1>7, <1>8, <1>9, <1>10, Setters

(***************************************************************************)
(* A setter that is called while no other one is at work stores the whole  *)
(* state unless its own request fails: what an overlap, a crash or a       *)
(* failed request left in the store is repaired.                           *)
(***************************************************************************)
THEOREM SerialWritesAlwaysPersist == Spec => []SerialWritesPersist
<1>1. Init => SerialInv
  BY DEF Init, SerialInv
<1>2. SerialInv => SerialWritesPersist
  BY DEF SerialInv, Settled, SerialWritesPersist, Quiet
<1> QED
  BY <1>1, <1>2, StateTypeCorrect, SerialStep, PTL DEF Spec

-----------------------------------------------------------------------------
\* As long as nothing fails the store acts on every request.
LEMMA Succeeds ==
  ASSUME TypeOK, ActOnStore, failures' = 0
  PROVE  stored' = Swap(Head(storing)) /\ failures = 0
BY DEF TypeOK, ActOnStore

LEMMA ClearedStep ==
  ASSUME TypeOK, ConflictInv, [Next]_stateVars, failures' = 0,
         mode' # "scheduler"
  PROVE  OnlyCleared'
<1> USE DEF OnlyCleared
<1> storing \in Seq(Request) /\ stored \in Request
  BY DEF TypeOK, Request
<1>a. failures = 0 => OnlyCleared \/ mode = "scheduler"
  BY DEF ConflictInv
<1>1. CASE Start
  BY <1>1 DEF Start
<1>2. CASE StartReset
  BY <1>2, <1>a DEF StartReset
<1>3. ASSUME NEW t \in Threads, NEW d \in SchedulerState, Set(t, d)
      PROVE  FALSE
  BY <1>3 DEF Set
<1>4. ASSUME NEW t \in Threads, Serialize(t)
      PROVE  OnlyCleared'
  <2>1. \A u \in Threads : text'[u] = (IF u = t THEN data ELSE text[u])
    BY <1>4 DEF Serialize, TypeOK
  <2> QED
    BY <1>4, <1>a, <2>1 DEF Serialize
<1>5. ASSUME NEW t \in Threads, Fetch(t)
      PROVE  OnlyCleared'
  BY <1>5, <1>a DEF Fetch
<1>6. ASSUME NEW t \in Threads, Store(t)
      PROVE  OnlyCleared'
  <2> DEFINE r == [state |-> text[t], uuid |-> fetched[t]]
  <2>1. r \in Request /\ r.state = Cleared
    BY <1>6, <1>a DEF Store, TypeOK, Request
  <2>2. \A i \in DOMAIN storing' : storing'[i].state = Cleared
    BY <1>6, <1>a, <2>1, AddedToStoring DEF Store
  <2> QED
    BY <1>6, <1>a, <2>2 DEF Store
<1>7. CASE ActOnStore
  <2>0. stored' = Swap(Head(storing)) /\ failures = 0
    BY <1>7, Succeeds
  <2>1. /\ Head(storing).state = Cleared
        /\ \A i \in DOMAIN Tail(storing) : Tail(storing)[i].state = Cleared
    BY <1>7, <1>a, <2>0, TailOfStoring DEF ActOnStore
  <2>2. stored'.uuid > 0 => stored'.state = Cleared
    BY <1>7, <1>a, <2>0, <2>1 DEF ActOnStore, Swap
  <2> QED
    BY <1>7, <1>a, <2>0, <2>1, <2>2 DEF ActOnStore
<1>8. CASE Crash
  BY <1>8 DEF Crash, TypeOK
<1>9. CASE ResetReturns
  <2>1. \A i \in DOMAIN storing' : storing'[i].state = Cleared
    BY <1>9, <1>a, CutOfStoring DEF ResetReturns, End
  <2> QED
    BY <1>9, <1>a, <2>1 DEF ResetReturns, End
<1>10. CASE UNCHANGED stateVars
  BY <1>10, <1>a DEF stateVars
<1> QED
  BY <1>1, <1>2, <1>3, <1>4, <1>5, <1>6, <1>7, <1>8, <1>9, <1>10, Setters

\* A step keeps what OfThread says of a state, unless it ends the process.
LEMMA OfThreadStep ==
  ASSUME TypeOK, [Next]_stateVars, ~Crash, ~ResetReturns,
         NEW state, OfThread(state)
  PROVE  ThenOfThread(state) \/ Replaced'
<1> USE DEF OfThread, ThenOfThread
<1> storing \in Seq(Request) /\ stored \in Request
  BY DEF TypeOK, Request
<1> PICK u \in Threads : text[u] = state \/ pc[u] = "fetch"
  OBVIOUS
<1>p. /\ pc \in [Threads -> {"idle", "serialize", "fetch", "store"}]
      /\ text \in [Threads -> SchedulerState] /\ fetched \in [Threads -> Nat]
  BY DEF TypeOK
<1>1. CASE Start
  BY <1>1 DEF Start
<1>2. CASE StartReset
  <2>1. pc[u] = "idle"
    BY <1>2 DEF StartReset, TypeOK
  <2> QED
    BY <1>2, <2>1 DEF StartReset
<1>3. ASSUME NEW t \in Threads, NEW d \in SchedulerState, Set(t, d)
      PROVE  ThenOfThread(state)
  BY <1>3, <1>p DEF Set
<1>4. ASSUME NEW t \in Threads, Serialize(t)
      PROVE  ThenOfThread(state)
  <2>1. pc'[t] = "fetch" /\ (t # u => pc'[u] = pc[u] /\ text'[u] = text[u])
    BY <1>4, <1>p DEF Serialize
  <2> QED
    BY <2>1
<1>5. ASSUME NEW t \in Threads, Fetch(t)
      PROVE  Replaced'
  <2>1. pc'[t] = "store" /\ fetched'[t] = stored.uuid /\ stored' = stored
    BY <1>5, <1>p DEF Fetch
  <2> QED
    BY <2>1 DEF Replaced
<1>6. ASSUME NEW t \in Threads, Store(t)
      PROVE  ThenOfThread(state)
  <2>1. pc[t] = "store" /\ text' = text /\ (t # u => pc'[u] = pc[u])
    BY <1>6, <1>p DEF Store
  <2> QED
    BY <2>1
<1>7. CASE ActOnStore
  BY <1>7 DEF ActOnStore
<1>8. CASE UNCHANGED stateVars
  BY <1>8 DEF stateVars
<1> QED
  BY <1>1, <1>2, <1>3, <1>4, <1>5, <1>6, <1>7, <1>8, Setters

\* The requests that the store has not acted on after a step.
LEMMA RequestsStep ==
  ASSUME TypeOK, [Next]_stateVars, ~Crash, ~ResetReturns,
         AllOfThreads
  PROVE  AllOfThreads'
<1> USE DEF AllOfThreads, ThenOfThread
<1> storing \in Seq(Request) /\ stored \in Request
  BY DEF TypeOK, Request
<1>p. /\ pc \in [Threads -> {"idle", "serialize", "fetch", "store"}]
      /\ text \in [Threads -> SchedulerState] /\ fetched \in [Threads -> Nat]
  BY DEF TypeOK
<1>1. CASE Start
  <2>1. DOMAIN storing' = {}
    BY <1>1 DEF Start
  <2> QED
    BY <2>1
<1>2. CASE StartReset
  <2>1. DOMAIN storing' = {}
    BY <1>2 DEF StartReset
  <2> QED
    BY <2>1
<1>3. ASSUME NEW t \in Threads, NEW d \in SchedulerState, Set(t, d)
      PROVE  AllOfThreads'
  BY <1>3, <1>p DEF Set, OfThread
<1>4. ASSUME NEW t \in Threads, Serialize(t)
      PROVE  AllOfThreads'
  <2>1. pc'[t] = "fetch"
    BY <1>4, <1>p DEF Serialize
  <2> QED
    BY <2>1 DEF OfThread
<1>5. ASSUME NEW t \in Threads, Fetch(t)
      PROVE  AllOfThreads'
  <2>1. DOMAIN storing' = {}
    BY <1>5 DEF Fetch
  <2> QED
    BY <2>1
<1>6. ASSUME NEW t \in Threads, Store(t)
      PROVE  AllOfThreads'
  <2> DEFINE r == [state |-> text[t], uuid |-> fetched[t]]
  <2>1. r \in Request
    BY <1>p DEF Request, TypeOK
  <2>2. /\ pc[t] = "store" /\ text' = text /\ storing' = Append(storing, r)
        /\ \A u \in Threads : t # u => pc'[u] = pc[u]
    BY <1>6, <1>p DEF Store
  <2>3. \A i \in DOMAIN storing' :
          \/ i \in DOMAIN storing /\ storing'[i] = storing[i]
          \/ storing'[i] = r
    BY <2>1, <2>2, AddedToStoring
  <2>4. \A i \in DOMAIN storing : ThenOfThread(storing[i].state)
    BY <2>2 DEF OfThread
  <2>5. ThenOfThread(r.state)
    BY <2>2 DEF OfThread
  <2> QED
    BY <2>3, <2>4, <2>5 DEF OfThread
<1>7. CASE ActOnStore
  <2>1. \A i \in DOMAIN storing' :
          i + 1 \in DOMAIN storing /\ storing'[i] = storing[i + 1]
    BY <1>7, TailOfStoring DEF ActOnStore
  <2>2. pc' = pc /\ text' = text
    BY <1>7 DEF ActOnStore
  <2> QED
    BY <2>1, <2>2 DEF OfThread
<1>8. CASE UNCHANGED stateVars
  BY <1>8 DEF stateVars, OfThread
<1> QED
  BY <1>1, <1>2, <1>3, <1>4, <1>5, <1>6, <1>7, <1>8, Setters

\* What is about to replace the state in the store, or has done so.
LEMMA ReplacedStep ==
  ASSUME TypeOK, [Next]_stateVars, ~Crash, ~ResetReturns, Replaced,
         AllOfThreads, failures' = 0
  PROVE  Replaced' \/ OfThread(stored.state)'
<1> storing \in Seq(Request) /\ stored \in Request
  BY DEF TypeOK, Request
<1>p. /\ pc \in [Threads -> {"idle", "serialize", "fetch", "store"}]
      /\ fetched \in [Threads -> Nat]
  BY DEF TypeOK
<1>1. CASE Start
  BY <1>1 DEF Start, Replaced
<1>2. CASE StartReset
  <2>1. \A u \in Threads : pc[u] = "idle"
    BY <1>2 DEF StartReset, TypeOK
  <2> QED
    BY <1>2, <2>1 DEF StartReset, Replaced
<1>3. ASSUME NEW t \in Threads, NEW d \in SchedulerState, Set(t, d)
      PROVE  Replaced'
  BY <1>3, <1>p DEF Set, Replaced
<1>4. ASSUME NEW t \in Threads, Serialize(t)
      PROVE  Replaced'
  BY <1>4, <1>p DEF Serialize, Replaced
<1>5. ASSUME NEW t \in Threads, Fetch(t)
      PROVE  Replaced'
  <2>1. pc'[t] = "store" /\ fetched'[t] = stored.uuid /\ stored' = stored
    BY <1>5, <1>p DEF Fetch
  <2> QED
    BY <2>1 DEF Replaced
<1>6. ASSUME NEW t \in Threads, Store(t)
      PROVE  Replaced'
  <2> DEFINE r == [state |-> text[t], uuid |-> fetched[t]]
  <2>1. r \in Request
    BY <1>p DEF Request, TypeOK
  <2>2. /\ storing' = Append(storing, r) /\ fetched' = fetched
        /\ stored' = stored /\ \A u \in Threads : t # u => pc'[u] = pc[u]
    BY <1>6, <1>p DEF Store
  <2>3. /\ \A i \in DOMAIN storing :
              i \in DOMAIN storing' /\ storing'[i] = storing[i]
        /\ \E i \in DOMAIN storing' : storing'[i].uuid = fetched[t]
    BY <2>1, <2>2, AddedToStoring
  <2> QED
    BY <2>2, <2>3 DEF Replaced
<1>7. CASE ActOnStore
  <2>1. UNCHANGED <<pc, text, fetched>>
    BY <1>7 DEF ActOnStore
  <2>2. CASE storing[1].uuid = stored.uuid
    <3>0. Head(storing) = storing[1] /\ 1 \in DOMAIN storing
      BY <1>7, TailOfStoring DEF ActOnStore
    <3>1. stored'.state = storing[1].state /\ 1 \in DOMAIN storing
      BY <1>7, <2>2, <3>0, Succeeds DEF Swap
    <3>2. OfThread(storing[1].state)
      BY <3>1 DEF AllOfThreads
    <3> QED
      BY <2>1, <3>1, <3>2 DEF OfThread
  <2>3. CASE storing[1].uuid # stored.uuid
    <3>1. stored' = stored
      BY <1>7, <2>3, TailOfStoring, Succeeds DEF ActOnStore, Swap
    <3>2. \A i \in DOMAIN storing : i # 1 =>
            i - 1 \in DOMAIN storing' /\ storing'[i - 1] = storing[i]
      BY <1>7, TailOfStoring DEF ActOnStore
    <3> QED
      BY <2>1, <2>3, <3>1, <3>2 DEF Replaced
  <2> QED
    BY <2>2, <2>3
<1>8. CASE UNCHANGED stateVars
  BY <1>8 DEF stateVars, Replaced
<1> QED
  BY <1>1, <1>2, <1>3, <1>4, <1>5, <1>6, <1>7, <1>8, Setters

LEMMA ConflictStep ==
  ASSUME TypeOK, ConflictInv, [Next]_stateVars
  PROVE  ConflictInv'
<1> SUFFICES ASSUME failures' = 0 PROVE ConflictInv'
  BY DEF ConflictInv
<1> storing \in Seq(Request) /\ stored \in Request
  BY DEF TypeOK, Request
<1>1. mode' # "scheduler" => OnlyCleared'
  BY ClearedStep
<1>2. ~Crash /\ failures = 0
  <2>1. ~Crash
    BY DEF Crash, TypeOK
  <2> QED
    BY <2>1, Setters, Succeeds DEF Start, StartReset, Set, Serialize, Fetch,
         Store, ResetReturns, stateVars
<1>3. DriverThread \in Threads
  BY DEF Threads
<1>4. OnlyCleared' => /\ AllOfThreads'
                      /\ stored'.uuid > 0 => OfThread(stored.state)'
  BY <1>3 DEF OnlyCleared, OfThread, AllOfThreads
<1>5. CASE ResetReturns
  <2>1. mode' # "scheduler"
    BY <1>5 DEF ResetReturns
  <2> QED
    BY <1>1, <1>4, <2>1 DEF ConflictInv
<1>6. CASE ~ResetReturns
  <2>1. /\ AllOfThreads
        /\ stored.uuid > 0 => OfThread(stored.state) \/ Replaced
    BY <1>2 DEF ConflictInv
  <2>2. AllOfThreads'
    BY <1>2, <1>6, <2>1, RequestsStep
  <2>3. CASE Replaced
    BY <1>1, <1>2, <1>6, <2>1, <2>2, <2>3, ReplacedStep DEF ConflictInv
  <2>4. CASE ~Replaced
    <3>1. stored' = stored \/ ActOnStore
      BY <1>2, <1>6, Setters DEF Start, StartReset, Set, Serialize, Fetch, Store,
           stateVars
    <3>2. stored' = stored
      <4>1. CASE ActOnStore
        BY <2>4, <4>1, TailOfStoring, Succeeds DEF ActOnStore, Swap, Replaced
      <4> QED
        BY <3>1, <4>1
    <3>3. stored.uuid > 0 => OfThread(stored.state)' \/ Replaced'
      <4>1. ASSUME stored.uuid > 0
            PROVE  OfThread(stored.state)' \/ Replaced'
        <5>1. OfThread(stored.state)
          BY <2>1, <2>4, <4>1
        <5>2. ThenOfThread(stored.state) \/ Replaced'
          BY <1>2, <1>6, <5>1, OfThreadStep
        <5> QED
          BY <3>2, <5>2 DEF ThenOfThread, OfThread
      <4> QED
        BY <4>1
    <3> QED
      BY <1>1, <2>2, <3>2, <3>3 DEF ConflictInv
  <2> QED
    BY <2>3, <2>4
<1> QED
  BY <1>5, <1>6

(***************************************************************************)
(* Of setters that run at the same time one at least is stored: a request  *)
(* is refused only when another one was stored since its fetch.  (Without  *)
(* crashes and failed requests.)                                           *)
(***************************************************************************)
THEOREM ConflictAlwaysKeepsOne == Spec => []ConflictKeepsOne
<1>1. Init => ConflictInv
  <2> SUFFICES ASSUME Init PROVE ConflictInv
    OBVIOUS
  <2>1. data = Cleared /\ storing = <<>> /\ stored.uuid = 0
    BY DEF Init
  <2>2. DOMAIN storing = {}
    BY <2>1
  <2>3. \A t \in Threads : text[t] = Cleared
    BY DEF Init
  <2> QED
    BY <2>1, <2>2, <2>3 DEF ConflictInv, OnlyCleared, AllOfThreads
<1>2. TypeOK /\ ConflictInv => ConflictKeepsOne
  <2> SUFFICES ASSUME TypeOK, ConflictInv, failures = 0, Quiet, stored.uuid > 0
               PROVE  \E t \in Threads : stored.state = text[t]
    BY DEF ConflictKeepsOne
  <2>1. DOMAIN storing = {} /\ \A t \in Threads : pc[t] = "idle"
    BY DEF Quiet
  <2> QED
    BY <2>1 DEF ConflictInv, OfThread, Replaced, Quiet
<1> QED
  BY <1>1, <1>2, StateTypeCorrect, ConflictStep, PTL DEF Spec
=============================================================================
