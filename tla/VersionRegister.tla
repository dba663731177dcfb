---------------------------- MODULE VersionRegister ----------------------------
(***************************************************************************)
(* What /v1/version promises its clients: the target version is a register *)
(* that a request reads, and that a POST sets to its body, as a whole and  *)
(* at one moment between the request and the answer.  A request that is    *)
(* given up may have set it or not; after a restart it has some version.   *)
(***************************************************************************)
CONSTANTS Clients, Values, NoValue

VARIABLES
  version,
  requests  \* of each client: [at, text], where text is the body of a POST
            \* that is "called", and the page of a request "answered"

NoRequest == [at |-> "none", text |-> NoValue]

Free(c) == requests[c].at = "none"

Get(c) ==
  /\ Free(c)
  /\ requests' = [requests EXCEPT ![c] = [at |-> "taken", text |-> NoValue]]
  /\ UNCHANGED version

Post(c) ==
  /\ Free(c)
  /\ \E v \in Values :
       requests' = [requests EXCEPT ![c] = [at |-> "called", text |-> v]]
  /\ UNCHANGED version

Take(c) ==
  /\ requests[c].at = "called"
  /\ version' = requests[c].text
  /\ requests' = [requests EXCEPT ![c] = [at |-> "taken", text |-> NoValue]]

Answer(c) ==
  /\ requests[c].at = "taken"
  /\ requests' = [requests EXCEPT ![c] = [at |-> "answered", text |-> version]]
  /\ UNCHANGED version

GiveUp ==
  /\ \E S \in SUBSET Clients :
       requests' = [c \in Clients |->
                      IF c \in S THEN NoRequest ELSE requests[c]]
  /\ UNCHANGED version

\* Other processes of the deployment had the register in between.
Restart ==
  /\ \A c \in Clients : Free(c)
  /\ version' \in Values
  /\ UNCHANGED requests

Init ==
  /\ version \in Values
  /\ requests = [c \in Clients |-> NoRequest]

Next ==
  \/ \E c \in Clients : Get(c) \/ Post(c) \/ Take(c) \/ Answer(c)
  \/ GiveUp
  \/ Restart

Spec == Init /\ [][Next]_<<version, requests>>
=============================================================================
