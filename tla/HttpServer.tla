------------------------------- MODULE HttpServer -------------------------------
(***************************************************************************)
(* The HTTP server of the scheduler (class HttpServer on libmicrohttpd)    *)
(* with the requests to /v1/version, on top of the persistent state.       *)
(*                                                                         *)
(* The library runs a thread per connection, which calls HandleRequest:    *)
(* for a POST once with the headers, once for each chunk of the body that  *)
(* has come, and once more when it is complete.  That last call dispatches *)
(* to handleHTTP, which sets the version, on this thread and with all of   *)
(* writeback, and answers with the version that is then current.  Every    *)
(* other method is dispatched at its first call.  A connection without     *)
(* traffic is closed after a second, but not while the handler runs.       *)
(***************************************************************************)
EXTENDS SchedulerStateProxy, FiniteSets

CONSTANT Received  \* of each body: what post_data contains after each chunk

ASSUME HttpAssumption ==
  /\ Received \in [Versions \cup {None} -> Seq(STRING)]
  /\ Received[None] = <<>>
  /\ \A v \in Versions : /\ Received[v] # <<>>
                         /\ Received[v][Len(Received[v])] = v

VARIABLE conn  \* of each thread: its connection

httpVars == <<stateVars, conn>>

Body == Versions \cup {None}

Connection == [at : {"closed", "upload", "handling", "answering"},
               body : Body,  \* what the client posts
               got : Nat,    \* chunks of it that have come
               page : Body]  \* the answer

Closed == [at |-> "closed", body |-> None, got |-> 0, page |-> None]

PostData(c) == IF c.got = 0 THEN None ELSE Received[c.body][c.got]

\* POSTs that are still to change the state.
Uploads == {t \in HttpThreads : conn[t].at = "upload"}

-----------------------------------------------------------------------------
\* A request that is no POST: dispatched, and to be answered.
Get(t) ==
  /\ mode = "scheduler"
  /\ conn[t].at = "closed"
  /\ conn' = [conn EXCEPT ![t].at = "handling"]
  /\ UNCHANGED stateVars

\* The first call for a POST only allocates post_data.
Post(t, v) ==
  /\ mode = "scheduler"
  /\ conn[t].at = "closed"
  /\ writes + Cardinality(Uploads) < MaxWrites
  /\ conn' = [conn EXCEPT ![t] =
                [at |-> "upload", body |-> v, got |-> 0, page |-> None]]
  /\ UNCHANGED stateVars

Chunk(t) ==
  /\ conn[t].at = "upload"
  /\ conn[t].got < Len(Received[conn[t].body])
  /\ conn' = [conn EXCEPT ![t].got = @ + 1]
  /\ UNCHANGED stateVars

\* Mutant: what has come of the body is dispatched.
DispatchEarly(t) ==
  /\ conn[t].at = "upload"
  /\ SetTargetVersion(t, PostData(conn[t]))
  /\ conn' = [conn EXCEPT ![t] = [Closed EXCEPT !.at = "handling"]]

\* The call with *upload_data_size == 0, once the body is complete.
Dispatch(t) ==
  /\ conn[t].at = "upload"
  /\ conn[t].got = Len(Received[conn[t].body])
  /\ SetTargetVersion(t, PostData(conn[t]))
  /\ conn' = [conn EXCEPT ![t] = [Closed EXCEPT !.at = "handling"]]

\* Mutant: writeback is left to another thread, and not waited for.
AnswerAtOnce(t) ==
  /\ conn[t].at = "handling"
  /\ conn' = [conn EXCEPT ![t].at = "answering", ![t].page = data.target_version]
  /\ UNCHANGED stateVars

(***************************************************************************)
(* handleHTTP returns the page, and the answer is queued: with the status  *)
(* 200, or 404 when the page is empty because there is no version.         *)
(***************************************************************************)
Answer(t) ==
  /\ conn[t].at = "handling"
  /\ pc[t] = "idle"
  /\ conn' = [conn EXCEPT ![t].at = "answering", ![t].page = data.target_version]
  /\ UNCHANGED stateVars

\* Mutant: connections have no timeout.
CloseAnswered(t) ==
  /\ conn[t].at = "answering"
  /\ conn' = [conn EXCEPT ![t] = Closed]
  /\ UNCHANGED stateVars

\* The answer was sent, or the connection timed out or broke.
Close(t) ==
  /\ conn[t].at \in {"upload", "answering"}
  /\ conn' = [conn EXCEPT ![t] = Closed]
  /\ UNCHANGED stateVars

FrameworkRegistered(id) ==
  /\ writes + Cardinality(Uploads) < MaxWrites
  /\ SetFrameworkId(id)
  /\ UNCHANGED conn

ServerCrash ==
  /\ Crash
  /\ conn' = [t \in HttpThreads |-> Closed]

HttpInit == Init /\ conn = [t \in HttpThreads |-> Closed]

Proceed(t) == Writeback(t) /\ UNCHANGED conn

StoreActs == ActOnStore /\ UNCHANGED conn

HttpNext ==
  \/ (Start \/ StartReset \/ ResetReturns) /\ UNCHANGED conn
  \/ \E id \in Ids : FrameworkRegistered(id)
  \/ \E t \in HttpThreads :
       \/ \E v \in Body : Post(t, v)
       \/ Get(t) \/ Chunk(t) \/ Dispatch(t) \/ Answer(t) \/ Close(t)
  \/ \E t \in Threads : Proceed(t)
  \/ StoreActs
  \/ ServerCrash

HttpSpec == HttpInit /\ [][HttpNext]_httpVars

(***************************************************************************)
(* Threads are scheduled, ZooKeeper answers and connections time out.      *)
(* Clients need not go on with what they send.                             *)
(***************************************************************************)
FairHttpSpec ==
  /\ HttpSpec
  /\ \A t \in Threads : WF_httpVars(Proceed(t))
  /\ WF_httpVars(StoreActs)
  /\ \A t \in HttpThreads : WF_httpVars(Dispatch(t) \/ Answer(t) \/ Close(t))

-----------------------------------------------------------------------------
(***************************************************************************)
(* conn has its type; a setter runs on a connection only while its request *)
(* is being handled, so that no answer overtakes its writeback.            *)
(***************************************************************************)
HttpTypeOK ==
  /\ conn \in [HttpThreads -> Connection]
  /\ \A t \in HttpThreads : /\ conn[t].got <= Len(Received[conn[t].body])
                            /\ pc[t] # "idle" => conn[t].at = "handling"

\* A connection as a request to the register of module VersionRegister.
RequestOf(c) ==
  CASE c.at = "closed"    -> [at |-> "none", text |-> None]
    [] c.at = "upload"    -> [at |-> "called", text |-> c.body]
    [] c.at = "handling"  -> [at |-> "taken", text |-> None]
    [] c.at = "answering" -> [at |-> "answered", text |-> c.page]

Api == INSTANCE VersionRegister
         WITH Clients <- HttpThreads, Values <- Body, NoValue <- None,
              version <- data.target_version,
              requests <- [t \in HttpThreads |-> RequestOf(conn[t])]

(***************************************************************************)
(* The version is a register to the clients: a POST sets it to the whole   *)
(* body at one moment before its answer, or, when its connection timed out *)
(* during the upload, not at all; every answer shows what is current.      *)
(***************************************************************************)
IsRegister == Api!Spec

(***************************************************************************)
(* No connection stays: a client that stalls in its upload is cut off, and *)
(* one whose setter waits for the store is answered in the end.            *)
(***************************************************************************)
RequestsEnd ==
  \A t \in HttpThreads : conn[t].at # "closed" ~> conn[t].at = "closed"
=============================================================================
