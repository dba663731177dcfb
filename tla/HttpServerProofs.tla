--------------------------- MODULE HttpServerProofs ---------------------------
(***************************************************************************)
(* The HTTP server keeps the invariants of the persistent state, and is    *)
(* the register that its clients take it for, whatever the number of       *)
(* clients, the bodies and the way they are cut into chunks.               *)
(***************************************************************************)
EXTENDS HttpServer, SchedulerStateProxyProofs

\* No connection outlives the process.
ServerInv ==
  /\ HttpTypeOK
  /\ mode # "scheduler" => conn = [t \in HttpThreads |-> Closed]

-----------------------------------------------------------------------------
LEMMA HttpThreadsAreThreads ==
  HttpThreads \subseteq Threads /\ DriverThread \in Threads \ HttpThreads
BY StateAssumption DEF Threads

LEMMA ClosedIsConnection == Closed \in Connection /\ Closed.at = "closed"
BY DEF Closed, Connection, Body

\* A body of which all chunks have come is what the client posts.
LEMMA PostDataIsBody ==
  ASSUME NEW c \in Connection, c.got = Len(Received[c.body])
  PROVE  c.body \in Body /\ PostData(c) = c.body
<1>1. c.body \in Versions \cup {None} /\ c.got \in Nat
  BY DEF Connection, Body
<1>2. CASE c.body = None
  <2>1. c.got = 0
    BY <1>2, HttpAssumption
  <2> QED
    BY <1>1, <1>2, <2>1 DEF PostData, Body
<1>3. CASE c.body # None
  <2>1. Received[c.body] \in Seq(STRING) /\ Received[c.body] # <<>>
    BY <1>1, <1>3, HttpAssumption
  <2>2. c.got # 0
    BY <2>1, EmptySeq
  <2>3. Received[c.body][Len(Received[c.body])] = c.body
    BY <1>1, <1>3, HttpAssumption
  <2> QED
    BY <1>1, <2>2, <2>3 DEF PostData, Body
<1> QED
  BY <1>2, <1>3

(***************************************************************************)
(* What a step of the server does to the state is a step of the state.     *)
(***************************************************************************)
LEMMA ServerSteps ==
  ASSUME ServerInv, [HttpNext]_httpVars
  PROVE  [Next]_stateVars
<1>1. ASSUME NEW id \in Ids, FrameworkRegistered(id)
      PROVE  Next
  BY <1>1 DEF FrameworkRegistered, Next
<1>2. ASSUME NEW t \in HttpThreads, NEW v \in Body,
             Post(t, v) \/ Get(t) \/ Chunk(t) \/ Answer(t) \/ Close(t)
      PROVE  UNCHANGED stateVars
  BY <1>2 DEF Post, Get, Chunk, Answer, Close
<1>3. ASSUME NEW t \in HttpThreads, Dispatch(t)
      PROVE  Next
  <2>1. conn[t] \in Connection
    BY DEF ServerInv, HttpTypeOK
  <2>2. PostData(conn[t]) \in Body
    BY <1>3, <2>1, PostDataIsBody DEF Dispatch
  <2> QED
    BY <1>3, <2>2, HttpThreadsAreThreads DEF Dispatch, Next, Body
<1>4. ASSUME NEW t \in Threads, Proceed(t)
      PROVE  Next
  BY <1>4 DEF Proceed, Next
<1>5. CASE StoreActs \/ ServerCrash
  BY <1>5 DEF StoreActs, ServerCrash, Next
<1>6. CASE Start \/ StartReset \/ ResetReturns
  BY <1>6 DEF Next
<1>7. CASE UNCHANGED httpVars
  BY <1>7 DEF httpVars
<1>8. None \in Body
  BY DEF Body
<1> QED
  BY <1>1, <1>2, <1>3, <1>4, <1>5, <1>6, <1>7, <1>8 DEF HttpNext

\* One connection changes, to another one of the type.
LEMMA OneConnection ==
  ASSUME ServerInv, NEW t \in HttpThreads, NEW c \in Connection,
         conn' = [conn EXCEPT ![t] = c], mode = "scheduler", mode' = mode,
         c.got <= Len(Received[c.body]),
         pc'[t] # "idle" => c.at = "handling",
         \A u \in HttpThreads : u # t => pc'[u] = pc[u]
  PROVE  ServerInv'
<1>1. /\ conn \in [HttpThreads -> Connection]
      /\ \A u \in HttpThreads : /\ conn[u].got <= Len(Received[conn[u].body])
                                /\ pc[u] # "idle" => conn[u].at = "handling"
  BY DEF ServerInv, HttpTypeOK
<1>2. /\ conn' \in [HttpThreads -> Connection]
      /\ \A u \in HttpThreads : conn'[u] = IF u = t THEN c ELSE conn[u]
  BY <1>1
<1> QED
  BY <1>1, <1>2 DEF ServerInv, HttpTypeOK

LEMMA ServerInvStep ==
  ASSUME TypeOK, ServerInv, [HttpNext]_httpVars
  PROVE  ServerInv'
<1> USE HttpThreadsAreThreads
<1>a. /\ conn \in [HttpThreads -> Connection]
      /\ \A u \in HttpThreads : /\ conn[u].got <= Len(Received[conn[u].body])
                                /\ pc[u] # "idle" => conn[u].at = "handling"
      /\ pc \in [Threads -> {"idle", "serialize", "fetch", "store"}]
  BY DEF ServerInv, HttpTypeOK, TypeOK
<1>b. \A v \in Body : Received[v] \in Seq(STRING) /\ Len(Received[v]) \in Nat
  BY HttpAssumption, LenProperties DEF Body
<1>c. /\ Closed \in Connection /\ Closed.at = "closed"
      /\ Closed.got <= Len(Received[Closed.body])
  BY <1>b, ClosedIsConnection DEF Closed, Body
<1>d. mode # "scheduler" => \A u \in HttpThreads : conn[u] = Closed
  BY DEF ServerInv
<1>1. CASE (Start \/ StartReset \/ ResetReturns) /\ UNCHANGED conn
  <2>1. mode # "scheduler" /\ conn' = conn
    BY <1>1 DEF Start, StartReset, ResetReturns
  <2>2. \A u \in HttpThreads : pc'[u] = "idle"
    BY <1>1, <1>a, <1>c, <1>d, <2>1 DEF Start, StartReset, ResetReturns, End
  <2> QED
    BY <2>1, <2>2 DEF ServerInv, HttpTypeOK
<1>2. ASSUME NEW id \in Ids, FrameworkRegistered(id)
      PROVE  ServerInv'
  <2>1. \A u \in HttpThreads : pc'[u] = pc[u]
    BY <1>2, <1>a DEF FrameworkRegistered, SetFrameworkId, Set
  <2>2. mode = "scheduler" /\ mode' = mode /\ conn' = conn
    BY <1>2 DEF FrameworkRegistered, SetFrameworkId, Set
  <2> QED
    BY <1>a, <2>1, <2>2 DEF ServerInv, HttpTypeOK
<1>3. ASSUME NEW t \in HttpThreads, Get(t)
      PROVE  ServerInv'
  <2> DEFINE c == [conn[t] EXCEPT !.at = "handling"]
  <2>1. /\ conn' = [conn EXCEPT ![t] = c] /\ mode = "scheduler"
        /\ mode' = mode /\ pc' = pc
    BY <1>3 DEF Get, stateVars
  <2>2. c \in Connection /\ c.at = "handling" /\ c.got <= Len(Received[c.body])
    BY <1>a DEF Connection
  <2> QED
    BY <2>1, <2>2, OneConnection
<1>4. ASSUME NEW t \in HttpThreads, NEW v \in Body, Post(t, v)
      PROVE  ServerInv'
  <2> DEFINE c == [at |-> "upload", body |-> v, got |-> 0, page |-> None]
  <2>1. /\ conn' = [conn EXCEPT ![t] = c] /\ mode = "scheduler"
        /\ mode' = mode /\ pc' = pc /\ conn[t].at = "closed"
    BY <1>4 DEF Post, stateVars
  <2>4. c \in Connection /\ c.body = v /\ c.got = 0
    BY DEF Connection, Body
  <2> HIDE DEF c
  <2>5. c.got <= Len(Received[c.body])
    BY <1>b, <2>4
  <2>3. pc'[t] = "idle"
    BY <1>a, <2>1
  <2> QED
    BY <2>1, <2>3, <2>4, <2>5, OneConnection DEF c
<1>5. ASSUME NEW t \in HttpThreads, Chunk(t)
      PROVE  ServerInv'
  <2> DEFINE c == [conn[t] EXCEPT !.got = @ + 1]
  <2>1. /\ conn' = [conn EXCEPT ![t] = c] /\ mode' = mode /\ pc' = pc
        /\ conn[t].at = "upload" /\ conn[t].got < Len(Received[conn[t].body])
    BY <1>5 DEF Chunk, stateVars
  <2>2. conn[t].got \in Nat /\ conn[t].body \in Body
    BY <1>a DEF Connection
  <2>6. /\ c \in Connection /\ c.body = conn[t].body
        /\ c.got = conn[t].got + 1
    BY <1>a, <2>2 DEF Connection
  <2> HIDE DEF c
  <2>3. c.got <= Len(Received[c.body])
    BY <1>b, <2>1, <2>2, <2>6
  <2>4. mode = "scheduler"
    BY <1>c, <1>d, <2>1
  <2>5. pc'[t] = "idle"
    BY <1>a, <2>1
  <2> QED
    BY <2>1, <2>3, <2>4, <2>5, <2>6, OneConnection DEF c
<1>6. ASSUME NEW t \in HttpThreads, Dispatch(t)
      PROVE  ServerInv'
  <2> DEFINE c == [Closed EXCEPT !.at = "handling"]
  <2>1. /\ conn' = [conn EXCEPT ![t] = c]
        /\ mode = "scheduler" /\ mode' = mode
        /\ \A u \in HttpThreads : u # t => pc'[u] = pc[u]
    BY <1>6, <1>a DEF Dispatch, SetTargetVersion, Set
  <2>2. c = [at |-> "handling", body |-> None, got |-> 0, page |-> None]
    BY DEF Closed
  <2>3. c \in Connection /\ c.at = "handling" /\ c.got <= Len(Received[c.body])
    BY <1>c, <2>2 DEF Closed, Connection, Body
  <2> QED
    BY <2>1, <2>3, OneConnection
<1>7. ASSUME NEW t \in HttpThreads, Answer(t)
      PROVE  ServerInv'
  <2> DEFINE c == [conn[t] EXCEPT !.at = "answering",
                                  !.page = data.target_version]
  <2>1. /\ conn' = [conn EXCEPT ![t] = c] /\ mode' = mode /\ pc' = pc
        /\ conn[t].at = "handling" /\ pc[t] = "idle"
    BY <1>7, <1>a DEF Answer, stateVars, Connection
  <2>2. data.target_version \in Body
    BY DEF TypeOK, SchedulerState, Body
  <2>3. c \in Connection /\ c.got <= Len(Received[c.body])
    BY <1>a, <2>2 DEF Connection
  <2>4. mode = "scheduler"
    BY <1>c, <1>d, <2>1
  <2> QED
    BY <2>1, <2>3, <2>4, OneConnection
<1>8. ASSUME NEW t \in HttpThreads, Close(t)
      PROVE  ServerInv'
  <2>1. /\ conn' = [conn EXCEPT ![t] = Closed] /\ mode' = mode /\ pc' = pc
        /\ conn[t].at \in {"upload", "answering"}
    BY <1>8 DEF Close, stateVars
  <2>2. mode = "scheduler"
    BY <1>c, <1>d, <2>1
  <2>3. pc'[t] = "idle"
    BY <1>a, <2>1
  <2> QED
    BY <1>c, <2>1, <2>2, <2>3, OneConnection
<1>9. ASSUME NEW t \in Threads, Proceed(t)
       PROVE  ServerInv'
  <2>1. /\ conn' = conn /\ mode' = mode /\ pc[t] # "idle"
        /\ \A u \in Threads : u # t => pc'[u] = pc[u]
    BY <1>9, <1>a DEF Proceed, Writeback, Serialize, Fetch, Store
  <2> QED
    BY <1>a, <2>1 DEF ServerInv, HttpTypeOK
<1>10. CASE StoreActs
  <2>1. UNCHANGED <<conn, mode, pc>>
    BY <1>10 DEF StoreActs, ActOnStore
  <2> QED
    BY <2>1 DEF ServerInv, HttpTypeOK
<1>11. CASE ServerCrash
  <2>1. /\ conn' = [t \in HttpThreads |-> Closed]
        /\ \A u \in HttpThreads : pc'[u] = "idle"
    BY <1>11 DEF ServerCrash, Crash, End
  <2> QED
    BY <1>c, <2>1 DEF ServerInv, HttpTypeOK
<1>12. CASE UNCHANGED httpVars
  <2>1. UNCHANGED <<conn, mode, pc>>
    BY <1>12 DEF httpVars, stateVars
  <2> QED
    BY <2>1 DEF ServerInv, HttpTypeOK
<1> QED
  BY <1>1, <1>2, <1>3, <1>4, <1>5, <1>6, <1>7, <1>8, <1>9, <1>10, <1>11,
     <1>12 DEF HttpNext

ServerState == TypeOK /\ ServerInv

LEMMA ServerInvariant == HttpSpec => []ServerState
<1>1. HttpInit => ServerState
  <2> SUFFICES ASSUME HttpInit PROVE ServerState
    OBVIOUS
  <2>1. TypeOK
    BY InitTypeOK DEF HttpInit
  <2>2. conn = [t \in HttpThreads |-> Closed] /\ \A t \in HttpThreads : pc[t] = "idle"
    BY HttpThreadsAreThreads DEF HttpInit, Init
  <2>3. Closed.got = 0 /\ Len(Received[Closed.body]) \in Nat
    BY HttpAssumption, LenProperties DEF Closed
  <2>4. ServerInv
    BY <2>2, <2>3, ClosedIsConnection DEF ServerInv, HttpTypeOK
  <2> QED
    BY <2>1, <2>4 DEF ServerState
<1>2. ServerState /\ [HttpNext]_httpVars => ServerState'
  BY ServerSteps, TypeStep, ServerInvStep DEF ServerState
<1> QED
  BY <1>1, <1>2, PTL DEF HttpSpec

(***************************************************************************)
(* Connections keep their type, and a setter that an HTTP thread runs is   *)
(* part of the request that it handles.                                    *)
(***************************************************************************)
THEOREM HttpTypeCorrect == HttpSpec => []HttpTypeOK
<1>1. ServerState => HttpTypeOK
  BY DEF ServerState, ServerInv
<1> QED
  BY <1>1, ServerInvariant, PTL

(***************************************************************************)
(* The server uses the persistent state as SchedulerStateProxy allows, so  *)
(* that all that is proved of every use of it holds of the server's.       *)
(***************************************************************************)
THEOREM ServerUsesState == HttpSpec => Spec
<1>1. HttpInit => Init
  BY DEF HttpInit
<1>2. ServerState /\ [HttpNext]_httpVars => [Next]_stateVars
  BY ServerSteps DEF ServerState
<1> QED
  BY <1>1, <1>2, ServerInvariant, PTL DEF HttpSpec, Spec

-----------------------------------------------------------------------------
\* The requests of the register.
Requests == [t \in HttpThreads |-> RequestOf(conn[t])]

LEMMA ClosedIsNoRequest == RequestOf(Closed) = Api!NoRequest
BY DEF RequestOf, Closed, Api!NoRequest

\* One connection changes: so does its request.
LEMMA OneRequest ==
  ASSUME ServerInv, NEW t \in HttpThreads, NEW c,
         conn' = [conn EXCEPT ![t] = c]
  PROVE  /\ Requests' = [Requests EXCEPT ![t] = RequestOf(c)]
         /\ Requests[t] = RequestOf(conn[t])
<1>1. conn' = [u \in HttpThreads |-> IF u = t THEN c ELSE conn[u]]
  BY DEF ServerInv, HttpTypeOK
<1>2. Requests' = [u \in HttpThreads |->
                     IF u = t THEN RequestOf(c) ELSE RequestOf(conn[u])]
  BY <1>1 DEF Requests
<1> QED
  BY <1>2 DEF Requests

LEMMA RegisterStep ==
  ASSUME ServerState, [HttpNext]_httpVars
  PROVE  [Api!Next]_<<data.target_version, Requests>>
<1> SUFFICES ASSUME ~UNCHANGED <<data.target_version, Requests>>
             PROVE  Api!Next
  OBVIOUS
<1> USE DEF ServerState
<1>a. /\ conn \in [HttpThreads -> Connection]
      /\ mode # "scheduler" => conn = [t \in HttpThreads |-> Closed]
  BY DEF ServerInv, HttpTypeOK
<1>b. data.target_version \in Body /\ stored.state.target_version \in Body
  BY DEF TypeOK, SchedulerState, Body
<1>1. CASE (Start \/ StartReset) /\ UNCHANGED conn
  <2>1. \A t \in HttpThreads : Api!Free(t)
    BY <1>1, <1>a, ClosedIsNoRequest DEF Start, StartReset, Api!Free, Api!NoRequest
  <2>2. data'.target_version \in Body
    BY <1>1, <1>b DEF Start, StartReset, Cleared, Body
  <2>3. Requests' = Requests
    BY <1>1 DEF Requests, RequestOf
  <2> QED
    BY <2>1, <2>2, <2>3 DEF Api!Next, Api!Restart, Requests
<1>2. ASSUME NEW t \in HttpThreads, Get(t)
      PROVE  Api!Next
  <2> DEFINE c == [conn[t] EXCEPT !.at = "handling"]
  <2>1. /\ conn' = [conn EXCEPT ![t] = c]
        /\ data' = data /\ conn[t].at = "closed"
    BY <1>2 DEF Get, stateVars
  <2>2. /\ Requests[t] = [at |-> "none", text |-> None]
        /\ RequestOf(c) = [at |-> "taken", text |-> None]
    BY <1>a, <2>1 DEF Requests, RequestOf, Connection
  <2> HIDE DEF c
  <2>3. Requests' = [Requests EXCEPT ![t] = RequestOf(c)]
    BY <2>1, OneRequest
  <2>4. Requests' = [Requests EXCEPT ![t] = [at |-> "taken", text |-> None]]
    BY <2>2, <2>3
  <2>5. Api!Get(t)
    BY <2>1, <2>2, <2>4 DEF Api!Get, Api!Free, Requests
  <2> QED
    BY <2>5 DEF Api!Next
<1>3. ASSUME NEW t \in HttpThreads, NEW v \in Body, Post(t, v)
      PROVE  Api!Next
  <2> DEFINE c == [at |-> "upload", body |-> v, got |-> 0, page |-> None]
  <2>1. /\ conn' = [conn EXCEPT ![t] = c]
        /\ data' = data /\ conn[t].at = "closed"
    BY <1>3 DEF Post, stateVars
  <2>2. /\ Requests[t].at = "none"
        /\ RequestOf(c) = [at |-> "called", text |-> v]
    BY <1>a, <2>1 DEF Requests, RequestOf
  <2>3. Requests' = [Requests EXCEPT ![t] = [at |-> "called", text |-> v]]
    BY <2>1, <2>2, OneRequest
  <2>4. Api!Post(t)
    BY <2>1, <2>2, <2>3 DEF Api!Post, Api!Free, Requests
  <2> QED
    BY <2>4 DEF Api!Next
<1>4. ASSUME NEW t \in HttpThreads, Chunk(t)
      PROVE  UNCHANGED <<data.target_version, Requests>>
  <2> DEFINE c == [conn[t] EXCEPT !.got = @ + 1]
  <2>1. conn' = [conn EXCEPT ![t] = c] /\ data' = data
    BY <1>4 DEF Chunk, stateVars
  <2>2. c.at = conn[t].at /\ c.body = conn[t].body /\ c.page = conn[t].page
    BY <1>a DEF Connection
  <2>3. RequestOf(c) = RequestOf(conn[t])
    BY <2>2 DEF RequestOf
  <2>4. Requests' = [Requests EXCEPT ![t] = Requests[t]]
    BY <2>1, <2>3, OneRequest
  <2> QED
    BY <2>1, <2>4 DEF Requests
<1>5. ASSUME NEW t \in HttpThreads, Dispatch(t)
      PROVE  Api!Next
  <2> DEFINE c == [Closed EXCEPT !.at = "handling"]
  <2>1. /\ conn' = [conn EXCEPT ![t] = c] /\ conn[t].at = "upload"
        /\ data' = [data EXCEPT !.target_version = PostData(conn[t])]
    BY <1>5 DEF Dispatch, SetTargetVersion, Set
  <2>2. PostData(conn[t]) = conn[t].body
    BY <1>5, <1>a, PostDataIsBody DEF Dispatch
  <2>3. data'.target_version = conn[t].body
    BY <2>1, <2>2 DEF TypeOK, SchedulerState
  <2>4. /\ RequestOf(c) = [at |-> "taken", text |-> None]
        /\ Requests[t] = [at |-> "called", text |-> conn[t].body]
    BY <1>a, <2>1 DEF Requests, RequestOf, Closed
  <2> HIDE DEF c
  <2>5. Requests' = [Requests EXCEPT ![t] = RequestOf(c)]
    BY <2>1, OneRequest
  <2>6. Requests' = [Requests EXCEPT ![t] = [at |-> "taken", text |-> None]]
    BY <2>4, <2>5
  <2>7. Api!Take(t)
    BY <2>3, <2>4, <2>6 DEF Api!Take, Requests
  <2> QED
    BY <2>7 DEF Api!Next
<1>6. ASSUME NEW t \in HttpThreads, Answer(t)
      PROVE  Api!Next
  <2> DEFINE c == [conn[t] EXCEPT !.at = "answering",
                                  !.page = data.target_version]
  <2>1. /\ conn' = [conn EXCEPT ![t] = c]
        /\ data' = data /\ conn[t].at = "handling"
    BY <1>6, <1>a DEF Answer, stateVars, Connection
  <2>2. c.at = "answering" /\ c.page = data.target_version
    BY <1>a DEF Connection
  <2>3. /\ Requests[t] = [at |-> "taken", text |-> None]
        /\ RequestOf(c) = [at |-> "answered", text |-> data.target_version]
    BY <1>a, <2>1, <2>2 DEF Requests, RequestOf
  <2> HIDE DEF c
  <2>4. Requests' = [Requests EXCEPT ![t] = RequestOf(c)]
    BY <2>1, OneRequest
  <2>5. Requests' = [Requests EXCEPT
                       ![t] = [at |-> "answered", text |-> data.target_version]]
    BY <2>3, <2>4
  <2>6. Api!Answer(t)
    BY <2>1, <2>3, <2>5 DEF Api!Answer, Requests
  <2> QED
    BY <2>6 DEF Api!Next
<1>7. ASSUME data'.target_version = data.target_version, NEW S \in SUBSET HttpThreads,
             conn' = [t \in HttpThreads |-> IF t \in S THEN Closed ELSE conn[t]]
      PROVE  Api!Next
  <2>1. Requests' = [t \in HttpThreads |->
                       IF t \in S THEN Api!NoRequest ELSE Requests[t]]
    BY <1>7, ClosedIsNoRequest DEF Requests
  <2>2. Api!GiveUp
    BY <1>7, <2>1 DEF Api!GiveUp, Requests
  <2> QED
    BY <2>2 DEF Api!Next
<1>8. ASSUME NEW t \in HttpThreads, Close(t)
      PROVE  Api!Next
  <2>1. /\ conn' = [u \in HttpThreads |-> IF u \in {t} THEN Closed ELSE conn[u]]
        /\ data' = data
    BY <1>8, <1>a DEF Close, stateVars
  <2> QED
    BY <1>7, <2>1
<1>9. CASE ServerCrash
  <2>1. /\ conn' = [u \in HttpThreads |->
                      IF u \in HttpThreads THEN Closed ELSE conn[u]]
        /\ data' = data
    BY <1>9 DEF ServerCrash, Crash, End
  <2> QED
    BY <1>7, <2>1
<1>10. ASSUME NEW id \in Ids, FrameworkRegistered(id)
       PROVE  UNCHANGED <<data.target_version, Requests>>
  <2>1. /\ data' = [data EXCEPT !.framework_id_value = id] /\ conn' = conn
    BY <1>10 DEF FrameworkRegistered, SetFrameworkId, Set
  <2> QED
    BY <2>1 DEF TypeOK, SchedulerState, Requests
<1>11. ASSUME NEW t \in Threads, Proceed(t)
       PROVE  UNCHANGED <<data.target_version, Requests>>
  BY <1>11 DEF Proceed, Writeback, Serialize, Fetch, Store, Requests
<1>12. CASE StoreActs \/ (ResetReturns /\ UNCHANGED conn) \/ UNCHANGED httpVars
  BY <1>12 DEF StoreActs, ActOnStore, ResetReturns, End, httpVars, stateVars,
       Requests
<1> QED
  BY <1>1, <1>2, <1>3, <1>4, <1>5, <1>6, <1>8, <1>9, <1>10, <1>11, <1>12
     DEF HttpNext

(***************************************************************************)
(* The target version is a register to the clients of the server: each     *)
(* POST that is answered took effect once, as a whole, in between.         *)
(***************************************************************************)
THEOREM ImplementsRegister == HttpSpec => IsRegister
<1>1. HttpInit => /\ data.target_version \in Body
                  /\ Requests = [t \in HttpThreads |-> Api!NoRequest]
  <2> SUFFICES ASSUME HttpInit
               PROVE  /\ data.target_version \in Body
                      /\ Requests = [t \in HttpThreads |-> Api!NoRequest]
    OBVIOUS
  <2>1. data.target_version = None /\ \A t \in HttpThreads : conn[t] = Closed
    BY DEF HttpInit, Init, Cleared
  <2> QED
    BY <2>1, ClosedIsNoRequest DEF Requests, Body
<1>2. HttpInit => Api!Init
  BY <1>1 DEF Api!Init, Requests
<1>3. ServerState /\ [HttpNext]_httpVars =>
        [Api!Next]_<<data.target_version,
                     [t \in HttpThreads |-> RequestOf(conn[t])]>>
  BY RegisterStep DEF Requests
<1> QED
  BY <1>2, <1>3, ServerInvariant, PTL DEF HttpSpec, IsRegister, Api!Spec
=============================================================================
