-------------------------- MODULE SchedulerStateProxy --------------------------
(***************************************************************************)
(* The scheduler's persistent state (class SchedulerStateProxy): the       *)
(* framework id and the target version, in the memory of the process and   *)
(* in a variable of a replicated store (mesos::state on ZooKeeper).        *)
(*                                                                         *)
(* writeback runs on the thread of its caller: the driver's thread for     *)
(* `registered', one thread per HTTP connection for a POST.  It serializes *)
(* the whole state, fetches the variable and waits for it, and hands the   *)
(* mutated variable to store(), whose future nobody waits for: a request   *)
(* that fails is not made again.                                           *)
(*                                                                         *)
(* The store acts on the requests in the order it got them.  A variable    *)
(* carries the identity of the version fetched, and the store drops it     *)
(* when another version was stored since.                                  *)
(***************************************************************************)
EXTENDS Naturals, Sequences

CONSTANTS
  Ids,           \* framework ids that the master may assign
  Versions,      \* the bodies that are posted, without the empty one
  DriverThread,  \* the thread of the callbacks
  HttpThreads,   \* the threads of HTTP connections
  MaxWrites,     \* bound: how often the state is changed in all
  MaxFailures    \* bound: how often the process failures or a request fails

None    == ""
Threads == {DriverThread} \cup HttpThreads

SchedulerState == [framework_id_value : Ids \cup {None},
                   target_version : Versions \cup {None}]
Cleared == [framework_id_value |-> None, target_version |-> None]

ASSUME StateAssumption ==
  /\ None \notin Ids \cup Versions
  /\ DriverThread \notin HttpThreads
  /\ MaxWrites \in Nat /\ MaxFailures \in Nat

VARIABLES
  mode,     \* of the process: not running ("down", or "erased" after a run
            \* with --reset), "scheduler" or "reset"
  data,     \* data_, the state in memory
  pc,       \* of each thread: what it does next in a setter
  text,     \* of each thread: the state it serialized
  fetched,  \* of each thread: the identity of the variable it fetched
  storing,  \* requests to store that the store has not acted on
  stored,   \* the state in the store, with its identity
  overlap,  \* history: whether the last setter was called during another one
  failed,   \* history: whether the last request to store failed
  writes, failures

stateVars == <<mode, data, pc, text, fetched, storing, stored, overlap,
               failed, writes, failures>>

-----------------------------------------------------------------------------
(***************************************************************************)
(* The process starts: the constructor fetches and parses the variable.    *)
(* With --reset, main calls erase() and returns.                           *)
(***************************************************************************)
Start ==
  /\ mode \in {"down", "erased"}
  /\ storing = <<>>
  /\ mode' = "scheduler"
  /\ data' = stored.state
  /\ overlap' = FALSE
  /\ failed' = FALSE
  /\ UNCHANGED <<pc, text, fetched, storing, stored, writes, failures>>

StartReset ==
  /\ mode \in {"down", "erased"}
  /\ storing = <<>>
  /\ writes < MaxWrites
  /\ writes' = writes + 1
  /\ mode' = "reset"
  /\ data' = Cleared
  /\ pc' = [pc EXCEPT ![DriverThread] = "serialize"]
  /\ overlap' = FALSE
  /\ UNCHANGED <<text, fetched, storing, stored, failed, failures>>

Set(t, d) ==
  /\ mode = "scheduler"
  /\ pc[t] = "idle"
  /\ writes < MaxWrites
  /\ writes' = writes + 1
  /\ data' = d
  /\ pc' = [pc EXCEPT ![t] = "serialize"]
  /\ overlap' = (\E u \in Threads : pc[u] # "idle")
  /\ UNCHANGED <<mode, text, fetched, storing, stored, failed, failures>>

\* registered: the master gives a framework the id it asks for, if any.
SetFrameworkId(id) ==
  /\ data.framework_id_value \in {None, id}
  /\ Set(DriverThread, [data EXCEPT !.framework_id_value = id])

\* A POST of v; every other call of handleHTTP leaves the state alone.
SetTargetVersion(t, v) ==
  t \in HttpThreads /\ Set(t, [data EXCEPT !.target_version = v])

Serialize(t) ==
  /\ pc[t] = "serialize"
  /\ text' = [text EXCEPT ![t] = data]
  /\ pc' = [pc EXCEPT ![t] = "fetch"]
  /\ UNCHANGED <<mode, data, fetched, storing, stored, overlap, failed,
                 writes, failures>>

\* Mutant: the variable of the thread's first fetch is used again.
FetchOnce(t) ==
  /\ pc[t] = "fetch"
  /\ storing = <<>>
  /\ fetched' = [fetched EXCEPT ![t] = IF @ = 0 THEN stored.uuid ELSE @]
  /\ pc' = [pc EXCEPT ![t] = "store"]
  /\ UNCHANGED <<mode, data, text, storing, stored, overlap, failed, writes,
                 failures>>

\* The answer to fetch() comes after the requests made before it.
Fetch(t) ==
  /\ pc[t] = "fetch"
  /\ storing = <<>>
  /\ fetched' = [fetched EXCEPT ![t] = stored.uuid]
  /\ pc' = [pc EXCEPT ![t] = "store"]
  /\ UNCHANGED <<mode, data, text, storing, stored, overlap, failed, writes,
                 failures>>

Store(t) ==
  /\ pc[t] = "store"
  /\ storing' = Append(storing, [state |-> text[t], uuid |-> fetched[t]])
  /\ pc' = [pc EXCEPT ![t] = "idle"]
  /\ UNCHANGED <<mode, data, text, fetched, stored, overlap, failed, writes,
                 failures>>

\* What the store has after a request that did not fail.
Swap(request) ==
  IF request.uuid = stored.uuid
  THEN [state |-> request.state, uuid |-> stored.uuid + 1]
  ELSE stored

(***************************************************************************)
(* The store acts on the next request, or fails to (ZooKeeper is out of    *)
(* reach, say).  Either way it answers to nobody: writeback drops the      *)
(* future that store() returns.                                            *)
(***************************************************************************)
ActOnStore ==
  /\ storing # <<>>
  /\ storing' = Tail(storing)
  /\ \/ stored' = Swap(Head(storing)) /\ failed' = FALSE /\ UNCHANGED failures
     \/ /\ failures < MaxFailures
        /\ failures' = failures + 1
        /\ failed' = TRUE
        /\ UNCHANGED stored
  /\ UNCHANGED <<mode, data, pc, text, fetched, overlap, writes>>

(***************************************************************************)
(* The process ends, by a crash at any moment or, with --reset, as soon as *)
(* erase() has returned.  What the store was not given yet is lost.        *)
(***************************************************************************)
End ==
  /\ pc' = [t \in Threads |-> "idle"]
  /\ \E n \in 0 .. Len(storing) : storing' = SubSeq(storing, 1, n)
  /\ UNCHANGED <<data, text, fetched, stored, overlap, failed, writes>>

Crash ==
  /\ mode = "scheduler"
  /\ failures < MaxFailures
  /\ failures' = failures + 1
  /\ mode' = "down"
  /\ End

ResetReturns ==
  /\ mode = "reset"
  /\ pc[DriverThread] = "idle"
  /\ mode' = "erased"
  /\ UNCHANGED failures
  /\ End

Init ==
  /\ mode = "down"
  /\ data = Cleared
  /\ pc = [t \in Threads |-> "idle"]
  /\ text = [t \in Threads |-> Cleared]
  /\ fetched = [t \in Threads |-> 0]
  /\ storing = <<>>
  /\ stored \in [state : SchedulerState, uuid : {0}]
  /\ overlap = FALSE
  /\ failed = FALSE
  /\ writes = 0
  /\ failures = 0

Writeback(t) == Serialize(t) \/ Fetch(t) \/ Store(t)

Next ==
  \/ Start
  \/ StartReset
  \/ \E id \in Ids : SetFrameworkId(id)
  \/ \E t \in Threads, v \in Versions \cup {None} : SetTargetVersion(t, v)
  \/ \E t \in Threads : Writeback(t)
  \/ ActOnStore
  \/ Crash
  \/ ResetReturns

Spec == Init /\ [][Next]_stateVars

-----------------------------------------------------------------------------
(***************************************************************************)
(* Every variable has its type: nothing but ids that the master assigned   *)
(* and bodies that were posted gets into the state, and no setter outlives *)
(* its process.                                                            *)
(***************************************************************************)
TypeOK ==
  /\ mode \in {"down", "erased", "scheduler", "reset"}
  /\ data \in SchedulerState
  /\ pc \in [Threads -> {"idle", "serialize", "fetch", "store"}]
  /\ text \in [Threads -> SchedulerState]
  /\ fetched \in [Threads -> Nat]
  /\ storing \in Seq([state : SchedulerState, uuid : Nat])
  /\ stored \in [state : SchedulerState, uuid : Nat]
  /\ overlap \in BOOLEAN
  /\ failed \in BOOLEAN
  /\ writes \in 0 .. MaxWrites
  /\ failures \in 0 .. MaxFailures
  /\ mode \in {"down", "erased"} => \A t \in Threads : pc[t] = "idle"

Quiet == storing = <<>> /\ \A t \in Threads : pc[t] = "idle"

(***************************************************************************)
(* common/quobyte.proto on SchedulerState: "This is persistent in ZK."     *)
(* Once no setter is at work and the store has acted on every request,     *)
(* it has the state that the scheduler works with.                         *)
(***************************************************************************)
PersistentInZK == mode = "scheduler" /\ Quiet => stored.state = data

(***************************************************************************)
(* What is true of it: a setter called while no other one is at work       *)
(* stores the whole state unless its own request fails, whatever became of *)
(* the requests before it, and so repairs what an overlap, a crash or a    *)
(* failed request left behind.  (It says nothing of a POST that was        *)
(* answered and whose request a crash lost: the process reads the state    *)
(* again when it starts.)                                                  *)
(***************************************************************************)
SerialWritesPersist ==
  mode = "scheduler" /\ Quiet /\ ~overlap /\ ~failed => stored.state = data

(***************************************************************************)
(* Setters that run at the same time can lose updates, since nobody looks  *)
(* at what store() answers; but a request is dropped only when another one *)
(* was stored after its fetch, so one thread's last state is in the store. *)
(* (A crash or a request that fails loses what a thread had serialized.)   *)
(***************************************************************************)
ConflictKeepsOne ==
  failures = 0 /\ mode = "scheduler" /\ Quiet /\ stored.uuid > 0 =>
    \E t \in Threads : stored.state = text[t]

(***************************************************************************)
(* docs/usage.md: "The framework has a flag --reset to erase its state     *)
(* from Zookeeper."  A run with --reset that returned has erased it.       *)
(***************************************************************************)
ResetErases == mode = "erased" /\ storing = <<>> => stored.state = Cleared
=============================================================================
