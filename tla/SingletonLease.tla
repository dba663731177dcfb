---------------------------- MODULE SingletonLease ----------------------------
(***************************************************************************)
(* What the scheduler promises of the services that run once in a cluster  *)
(* (api, s3, webconsole): each is recorded on one host at most, and is     *)
(* recorded on another only after it was recorded on none in between.      *)
(***************************************************************************)
CONSTANTS Singletons, Hosts, NoHost

VARIABLE owner

Free == [s \in Singletons |-> NoHost]

Acquire(s, h) == owner[s] = NoHost /\ owner' = [owner EXCEPT ![s] = h]

Release(s) == owner' = [owner EXCEPT ![s] = NoHost]

\* A new process of the scheduler knows of no task.
Forget == owner' = Free

Next ==
  \/ \E s \in Singletons : Release(s) \/ \E h \in Hosts : Acquire(s, h)
  \/ Forget

Spec == owner = Free /\ [][Next]_owner
=============================================================================
