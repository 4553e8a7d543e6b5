--------------------------- MODULE Shutdown_proofs ---------------------------
(***************************************************************************)
(* Proofs about SseHub alone, for any number of connections, any limit and   *)
(* with or without keep-alives, and about Shutdown, for any number of stream *)
(* clients, requests and signals, with and without a worker.                *)
(***************************************************************************)
EXTENDS Shutdown, FiniteSetTheorems, TLAPS

(***************************************************************************)
(* The hub alone.                                                           *)
(***************************************************************************)

\* The places and timers are as they should be, and few enough to be counted.
HubInv == TypeOK /\ PlacesAreHeld /\ IsFiniteSet(clients) /\ WithinLimit

LEMMA HubInit == Init => HubInv
<1> SUFFICES ASSUME Init PROVE HubInv
  OBVIOUS
<1>1. TypeOK /\ PlacesAreHeld
  BY DEF Init, TypeOK, PlacesAreHeld, Conns
<1>2. IsFiniteSet(clients) /\ Cardinality(clients) = 0
  BY FS_EmptySet DEF Init
<1> QED
  BY <1>1, <1>2, MaxClientsAssumption DEF HubInv, WithinLimit

\* No step breaks the correspondence of places, timers and connections.
LEMMA PlacesNext ==
  ASSUME TypeOK, PlacesAreHeld, [Next]_vars
  PROVE  TypeOK' /\ PlacesAreHeld'
<1> USE KeepAliveAssumption DEF TypeOK, PlacesAreHeld, Conns
<1>1. ASSUME NEW c \in Clients, Register(c) PROVE TypeOK' /\ PlacesAreHeld'
  BY <1>1 DEF Register
<1>2. ASSUME NEW c \in Clients, Refuse(c) PROVE TypeOK' /\ PlacesAreHeld'
  BY <1>2 DEF Refuse
<1>3. ASSUME NEW c \in Clients, Leave(c) \/ Vanish(c) PROVE TypeOK' /\ PlacesAreHeld'
  BY <1>3 DEF Leave, Vanish
<1>4. ASSUME NEW c \in Clients, Heartbeat(c) PROVE TypeOK' /\ PlacesAreHeld'
  BY <1>4 DEF Heartbeat, Written
<1>5. ASSUME NEW c \in Clients, Close(c) PROVE TypeOK' /\ PlacesAreHeld'
  BY <1>5 DEF Close
<1>6. ASSUME NEW message \in Messages, Broadcast(message) PROVE TypeOK' /\ PlacesAreHeld'
  BY <1>6 DEF Broadcast, Written
<1>7. CASE Restart
  BY <1>7 DEF Restart
<1>8. CASE UNCHANGED vars
  BY <1>8 DEF vars
<1> QED
  BY <1>1, <1>2, <1>3, <1>4, <1>5, <1>6, <1>7, <1>8 DEF Next

\* The set of places only grows by a registration, which finds one free.
LEMMA LimitNext ==
  ASSUME IsFiniteSet(clients), WithinLimit, [Next]_vars
  PROVE  IsFiniteSet(clients') /\ WithinLimit'
<1>1. ASSUME NEW c \in Clients, Register(c) PROVE IsFiniteSet(clients') /\ WithinLimit'
  <2>1. clients' = clients \cup {c} /\ Cardinality(clients) < MaxClients
    BY <1>1 DEF Register
  <2>2. IsFiniteSet(clients') /\ Cardinality(clients) \in Nat
        /\ Cardinality(clients') \in {Cardinality(clients), Cardinality(clients) + 1}
    BY <2>1, FS_AddElement, FS_CardinalityType
  <2> QED
    BY <2>1, <2>2, MaxClientsAssumption DEF WithinLimit
<1>2. CASE clients' \subseteq clients
  <2>1. IsFiniteSet(clients') /\ Cardinality(clients') <= Cardinality(clients)
    BY <1>2, FS_Subset
  <2> QED
    BY <2>1, FS_CardinalityType, MaxClientsAssumption DEF WithinLimit
<1>3. ASSUME NEW c \in Clients,
             Refuse(c) \/ Leave(c) \/ Vanish(c) \/ Heartbeat(c) \/ Close(c)
      PROVE  clients' \subseteq clients
  BY <1>3 DEF Refuse, Leave, Vanish, Heartbeat, Close
<1>4. ASSUME NEW message \in Messages, Broadcast(message) PROVE clients' \subseteq clients
  BY <1>4 DEF Broadcast
<1>5. ASSUME Restart \/ UNCHANGED vars PROVE clients' \subseteq clients
  BY <1>5 DEF Restart, vars
<1> QED
  BY <1>1, <1>2, <1>3, <1>4, <1>5 DEF Next

LEMMA HubInvariant == Spec => []HubInv
<1>1. HubInv /\ [Next]_vars => HubInv'
  BY PlacesNext, LimitNext DEF HubInv
<1> QED
  BY HubInit, <1>1, PTL DEF Spec

\* Registered connections and those the network still holds are the same, and each
\* has a timer exactly if there are keep-alives.
THEOREM PlacesAreHeldCorrect == Spec => []PlacesAreHeld
BY HubInvariant, PTL DEF HubInv

\* There are never more registered connections than config.sseMaxClients.
THEOREM WithinLimitCorrect == Spec => []WithinLimit
BY HubInvariant, PTL DEF HubInv

(***************************************************************************)
(* The server's streams are a hub.                                          *)
(***************************************************************************)

LEMMA HubSteps == [ShutdownNext]_svars => [Next]_vars
<1> SUFFICES ASSUME [ShutdownNext]_svars PROVE [Next]_vars
  OBVIOUS
<1> USE DEF vars, hub
<1>1. ASSUME Start \/ Listen PROVE [Next]_vars
  BY <1>1 DEF Start, Listen
<1>2. ASSUME ListenRefused \/ Kill PROVE [Next]_vars
  BY <1>2 DEF ListenRefused, Kill, Gone, Next
<1>3. ASSUME NEW c \in Clients, OpenStream(c) \/ CloseStream(c) PROVE [Next]_vars
  BY <1>3 DEF OpenStream, CloseStream, Next
<1>4. ASSUME NEW r \in Requests, Arrive(r) \/ HangUp(r) \/ FirstReturns(r) \/ AddArrives(r)
                                 \/ Take(r) \/ Log(r) \/ Complete(r)
      PROVE  [Next]_vars
  BY <1>4 DEF Arrive, HangUp, FirstReturns, AddArrives, Take, Log, Complete
<1>5. ASSUME NEW r \in Requests, SecondReturns(r) PROVE [Next]_vars
  BY <1>5 DEF SecondReturns, Next
<1>6. ASSUME NEW s \in Signals, Signal(s) \/ AppClosed(s) \/ PoolEnded(s) PROVE [Next]_vars
  BY <1>6 DEF Signal, AppClosed, PoolEnded
<1>7. ASSUME NEW s \in Signals, AppClosedAgain(s) \/ Exit(s) PROVE [Next]_vars
  BY <1>7 DEF AppClosedAgain, Exit, Gone, Next
<1>8. CASE UNCHANGED svars
  BY <1>8 DEF svars
<1> QED
  BY <1>1, <1>2, <1>3, <1>4, <1>5, <1>6, <1>7, <1>8 DEF ShutdownNext

\* A server that starts, ends and is started again behaves towards its stream clients as
\* the hub alone does: what holds of the hub holds of it.
THEOREM ServerIsHub == ShutdownSpec => Spec
<1>1. ShutdownInit => Init
  BY DEF ShutdownInit
<1> QED
  BY <1>1, HubSteps, PTL DEF ShutdownSpec, Spec

\* The limit on stream clients holds over shutdowns and restarts.
THEOREM ServerWithinLimit == ShutdownSpec => []WithinLimit
BY ServerIsHub, WithinLimitCorrect, PTL

\* So does the correspondence of places, timers and connections.
THEOREM ServerPlacesAreHeld == ShutdownSpec => []PlacesAreHeld
BY ServerIsHub, PlacesAreHeldCorrect, PTL

(***************************************************************************)
(* Types.                                                                   *)
(***************************************************************************)

\* A hub step keeps the hub's types.
LEMMA HubTypes == ASSUME TypeOK, [Next]_vars PROVE TypeOK'
<1> USE DEF TypeOK, Conns
<1>1. ASSUME NEW c \in Clients, Register(c) PROVE TypeOK'
  BY <1>1, KeepAliveAssumption DEF Register
<1>2. ASSUME NEW c \in Clients, Refuse(c) \/ Leave(c) \/ Vanish(c) PROVE TypeOK'
  BY <1>2 DEF Refuse, Leave, Vanish
<1>3. ASSUME NEW c \in Clients, Heartbeat(c) \/ Close(c) PROVE TypeOK'
  BY <1>3 DEF Heartbeat, Close, Written
<1>4. ASSUME NEW message \in Messages, Broadcast(message) PROVE TypeOK'
  BY <1>4 DEF Broadcast, Written
<1>5. ASSUME Restart \/ UNCHANGED vars PROVE TypeOK'
  BY <1>5 DEF Restart, vars
<1> QED
  BY <1>1, <1>2, <1>3, <1>4, <1>5 DEF Next

\* The types of what Shutdown adds to the hub.
OwnTypes ==
  /\ proc \in {"down", "starting", "up"}
  /\ closing \in BOOLEAN
  /\ pool \in {"open", "ending", "ended"}
  /\ worker \in {"off", "running", "closing"}
  /\ shutdown \in [Signals -> {"none", "close", "end", "worker", "done"}]
  /\ pc \in [Requests -> {"idle", "first", "second", "answered", "noPool", "lost"}]
  /\ hungUp \subseteq Requests
  /\ jobs \in [Requests -> {"none", "adding", "waiting", "active", "logged", "complete",
                        "failed", "lost"}]
  /\ failures \in [Requests -> Nat]
  /\ exit \in {"none", "orderly", "error", "killed"}

LEMMA OwnTypesInit == ShutdownInit => OwnTypes
<1> SUFFICES ASSUME ShutdownInit PROVE OwnTypes
  OBVIOUS
<1>1. /\ shutdown \in [Signals -> {"none", "close", "end", "worker", "done"}]
      /\ pc \in [Requests -> {"idle", "first", "second", "answered", "noPool", "lost"}]
      /\ hungUp \subseteq Requests
  BY DEF ShutdownInit
<1>2. /\ jobs \in [Requests -> {"none", "adding", "waiting", "active", "logged", "complete",
                              "failed", "lost"}]
      /\ failures \in [Requests -> Nat]
  BY DEF ShutdownInit
<1> QED
  BY <1>1, <1>2 DEF ShutdownInit, OwnTypes

LEMMA GoneTypes ==
  ASSUME OwnTypes, NEW how \in {"orderly", "error", "killed"}, Gone(how)
  PROVE  OwnTypes'
BY DEF OwnTypes, Gone

LEMMA OwnTypesNext == ASSUME OwnTypes, [ShutdownNext]_svars PROVE OwnTypes'
<1> USE DEF OwnTypes, work, ends
<1>1. CASE Start
  BY <1>1, WorkerEnabledAssumption DEF Start, Started
<1>2. CASE Listen
  BY <1>2 DEF Listen
<1>3. CASE ListenRefused \/ Kill
  BY <1>3, GoneTypes DEF ListenRefused, Kill
<1>4. ASSUME NEW c \in Clients, OpenStream(c) \/ CloseStream(c) PROVE OwnTypes'
  BY <1>4 DEF OpenStream, CloseStream
<1>5. ASSUME NEW r \in Requests, Arrive(r) \/ HangUp(r) \/ FirstReturns(r) PROVE OwnTypes'
  BY <1>5 DEF Arrive, HangUp, FirstReturns, Querying
<1>6. ASSUME NEW r \in Requests, SecondReturns(r) \/ AddArrives(r) \/ Log(r) \/ Complete(r)
      PROVE  OwnTypes'
  BY <1>6 DEF SecondReturns, AddArrives, Log, Complete
<1>7. ASSUME NEW r \in Requests, Take(r) PROVE OwnTypes'
  BY <1>7 DEF Take
<1>8. ASSUME NEW s \in Signals, Signal(s) \/ AppClosed(s) \/ PoolEnded(s) PROVE OwnTypes'
  BY <1>8 DEF Signal, AppClosed, PoolEnded
<1>9. ASSUME NEW s \in Signals, AppClosedAgain(s) \/ Exit(s) PROVE OwnTypes'
  <2>1. ASSUME NEW how \in {"orderly", "error"}, Gone(how) PROVE OwnTypes'
    BY <2>1, GoneTypes
  <2>2. CASE shutdown' = [shutdown EXCEPT ![s] = "done"]
             /\ UNCHANGED <<hub, work, closing, pool, worker, proc, exit>>
    BY <2>2
  <2> QED
    BY <1>9, <2>1, <2>2 DEF AppClosedAgain, Exit
<1>10. CASE UNCHANGED svars
  BY <1>10 DEF svars
<1> QED
  BY <1>1, <1>2, <1>3, <1>4, <1>5, <1>6, <1>7, <1>8, <1>9, <1>10 DEF ShutdownNext

\* Every variable of the server and of its hub keeps its type.
THEOREM ShutdownTypeCorrect == ShutdownSpec => []ShutdownTypeOK
<1>1. ShutdownInit => TypeOK /\ OwnTypes
  BY HubInit, OwnTypesInit DEF ShutdownInit, HubInv
<1>2. TypeOK /\ OwnTypes /\ [ShutdownNext]_svars => TypeOK' /\ OwnTypes'
  BY HubSteps, HubTypes, OwnTypesNext
<1>3. TypeOK /\ OwnTypes => ShutdownTypeOK
  BY DEF ShutdownTypeOK, OwnTypes
<1> QED
  BY <1>1, <1>2, <1>3, PTL DEF ShutdownSpec

(***************************************************************************)
(* The order of the end.                                                    *)
(***************************************************************************)

\* How far the signal handlers are tells how far the parts are with their end, and each
\* part that ends has outlived those that need it.
EndsInOrder ==
  /\ \A s \in Signals : /\ shutdown[s] # "none" => closing
                        /\ shutdown[s] = "end" => pool # "open"
                        /\ shutdown[s] = "worker" => pool = "ended"
  /\ pool # "open" => closing /\ Streaming = {} /\ Querying \subseteq hungUp
  /\ pool = "ended" => Querying = {}

ShutdownInv == TypeOK /\ OwnTypes /\ EndsInOrder /\ PoolOutlivesClients

\* After the end of a process nothing is in progress.
LEMMA GoneInv ==
  ASSUME ShutdownInv, NEW how, Gone(how)
  PROVE  EndsInOrder' /\ PoolOutlivesClients'
<1>1. /\ pool' = "open" /\ closing' = FALSE /\ hungUp' = hungUp
      /\ shutdown' = [s \in Signals |-> "none"]
      /\ pc' = [r \in Requests |-> IF r \in Querying THEN "lost" ELSE pc[r]]
  BY DEF Gone
<1>2. EndsInOrder'
  BY <1>1 DEF EndsInOrder
<1>3. PoolOutlivesClients'
  BY <1>1 DEF ShutdownInv, PoolOutlivesClients
<1> QED
  BY <1>2, <1>3

\* No stream is opened once the server is closing, and none comes back.
LEMMA StreamsEnd ==
  ASSUME TypeOK, [ShutdownNext]_svars, closing, closing', Streaming = {}
  PROVE  Streaming' = {}
<1> USE DEF Streaming, hub
<1>1. ASSUME conn' = conn \/ conn' = [c \in Clients |-> "none"] PROVE Streaming' = {}
  BY <1>1
<1>2. ASSUME NEW c \in Clients, OpenStream(c) \/ CloseStream(c) PROVE Streaming' = {}
  <2>1. ~OpenStream(c)
    BY DEF OpenStream, Serving
  <2>2. ASSUME NEW d \in Clients PROVE conn'[d] \notin {"open", "vanished"}
    BY <1>2, <2>1 DEF TypeOK, CloseStream, Leave, Vanish, Heartbeat, Close, Written
  <2> QED
    BY <2>2
<1>3. ASSUME NEW r \in Requests, SecondReturns(r) PROVE Streaming' = {}
  BY <1>3 DEF SecondReturns, Broadcast, Written
<1>4. ASSUME NEW r \in Requests, Arrive(r) \/ HangUp(r) \/ FirstReturns(r) \/ AddArrives(r)
                                 \/ Take(r) \/ Log(r) \/ Complete(r)
      PROVE  conn' = conn
  BY <1>4 DEF Arrive, HangUp, FirstReturns, AddArrives, Take, Log, Complete
<1>5. ASSUME NEW s \in Signals,
             Signal(s) \/ AppClosed(s) \/ AppClosedAgain(s) \/ PoolEnded(s) \/ Exit(s)
      PROVE  conn' = conn \/ conn' = [c \in Clients |-> "none"]
  BY <1>5 DEF Signal, AppClosed, AppClosedAgain, PoolEnded, Exit, Gone, Restart
<1>6. ASSUME Start \/ Listen \/ ListenRefused \/ Kill \/ UNCHANGED svars
      PROVE  conn' = conn \/ conn' = [c \in Clients |-> "none"]
  BY <1>6 DEF Start, Listen, ListenRefused, Kill, Gone, Restart, svars
<1> QED
  BY <1>1, <1>2, <1>3, <1>4, <1>5, <1>6 DEF ShutdownNext

LEMMA ShutdownInvNext ==
  ASSUME ShutdownInv, [ShutdownNext]_svars
  PROVE  EndsInOrder' /\ PoolOutlivesClients'
<1> USE DEF ShutdownInv, OwnTypes
<1>s. pool # "open" /\ closing' => Streaming' = {}
  BY StreamsEnd DEF EndsInOrder
<1> USE DEF EndsInOrder, PoolOutlivesClients, Querying
<1>1. ASSUME Start \/ Listen \/ UNCHANGED svars PROVE EndsInOrder' /\ PoolOutlivesClients'
  BY <1>1, <1>s DEF Start, Listen, svars, work, ends
<1>2. ASSUME ListenRefused \/ Kill PROVE EndsInOrder' /\ PoolOutlivesClients'
  BY <1>2, GoneInv DEF ListenRefused, Kill
<1>3. ASSUME NEW c \in Clients, OpenStream(c) \/ CloseStream(c)
      PROVE  EndsInOrder' /\ PoolOutlivesClients'
  BY <1>3, <1>s DEF OpenStream, CloseStream, work, ends
<1>4. ASSUME NEW r \in Requests, Arrive(r) PROVE EndsInOrder' /\ PoolOutlivesClients'
  <2>1. pool = "open" /\ pool' = pool /\ closing' = closing /\ shutdown' = shutdown
    BY <1>4 DEF Arrive, Serving, ends
  <2>2. hungUp' = hungUp /\ pc' = [pc EXCEPT ![r] = "first"]
    BY <1>4 DEF Arrive
  <2> QED
    BY <2>1, <2>2
<1>5. ASSUME NEW r \in Requests, HangUp(r) PROVE EndsInOrder' /\ PoolOutlivesClients'
  BY <1>5, <1>s DEF HangUp, ends
<1>6. ASSUME NEW r \in Requests, FirstReturns(r) \/ SecondReturns(r)
      PROVE  EndsInOrder' /\ PoolOutlivesClients'
  <2>1. /\ r \in Querying
        /\ pool' = pool /\ closing' = closing /\ shutdown' = shutdown /\ hungUp' = hungUp
    BY <1>6 DEF FirstReturns, SecondReturns, ends
  <2>2. \/ pc' = [pc EXCEPT ![r] = "answered"]
        \/ pool = "open" /\ pc' = [pc EXCEPT ![r] = "second"]
        \/ pool # "open" /\ pc' = [pc EXCEPT ![r] = "noPool"]
    BY <1>6 DEF FirstReturns, SecondReturns
  <2>3. Querying' \subseteq Querying
    BY <2>1, <2>2
  <2>4. EndsInOrder'
    BY <2>1, <2>3, <1>s
  <2>5. pool # "open" => r \in hungUp
    BY <2>1
  <2> QED
    BY <2>1, <2>2, <2>4, <2>5
<1>7. ASSUME NEW r \in Requests, AddArrives(r) \/ Take(r) \/ Log(r) \/ Complete(r)
      PROVE  EndsInOrder' /\ PoolOutlivesClients'
  BY <1>7, <1>s DEF AddArrives, Take, Log, Complete, ends
<1>8. ASSUME NEW s \in Signals, Signal(s) PROVE EndsInOrder' /\ PoolOutlivesClients'
  BY <1>8, <1>s DEF Signal, work
<1>9. ASSUME NEW s \in Signals, AppClosed(s) PROVE EndsInOrder' /\ PoolOutlivesClients'
  BY <1>9 DEF AppClosed, work, hub, Streaming
<1>10. ASSUME NEW s \in Signals, PoolEnded(s) PROVE EndsInOrder' /\ PoolOutlivesClients'
  BY <1>10, <1>s DEF PoolEnded, work
<1>11. ASSUME NEW s \in Signals, AppClosedAgain(s) PROVE EndsInOrder' /\ PoolOutlivesClients'
  <2>1. CASE Gone("error")
    BY <2>1, GoneInv
  <2>2. CASE shutdown' = [shutdown EXCEPT ![s] = "done"]
             /\ UNCHANGED <<hub, work, closing, pool, worker, proc, exit>>
    BY <2>2, <1>11, <1>s DEF AppClosedAgain, work
  <2> QED
    BY <1>11, <2>1, <2>2 DEF AppClosedAgain
<1>12. ASSUME NEW s \in Signals, Exit(s) PROVE EndsInOrder' /\ PoolOutlivesClients'
  BY <1>12, GoneInv DEF Exit
<1> QED
  BY <1>1, <1>2, <1>3, <1>4, <1>5, <1>6, <1>7, <1>8, <1>9, <1>10, <1>11, <1>12
     DEF ShutdownNext

LEMMA ShutdownInvariant == ShutdownSpec => []ShutdownInv
<1>1. ShutdownInit => ShutdownInv
  BY HubInit, OwnTypesInit DEF ShutdownInit, HubInv, ShutdownInv, EndsInOrder,
                               PoolOutlivesClients
<1>2. ShutdownInv /\ [ShutdownNext]_svars => ShutdownInv'
  BY HubSteps, HubTypes, OwnTypesNext, ShutdownInvNext DEF ShutdownInv
<1> QED
  BY <1>1, <1>2, PTL DEF ShutdownSpec

\* Only a request whose client has hung up can meet an ended pool.
THEOREM PoolOutlivesClientsCorrect == ShutdownSpec => []PoolOutlivesClients
BY ShutdownInvariant, PTL DEF ShutdownInv

\* A process that exits with 0 leaves no statement, no job and no stream behind it.
THEOREM ExitsCleanCorrect == ShutdownSpec => ExitsClean
<1> DEFINE Clean == exit # "orderly" /\ exit' = "orderly" =>
                      Querying = {} /\ Working = {} /\ Streaming = {}
<1>1. ASSUME NEW s \in Signals, Exit(s), ShutdownInv PROVE Clean
  BY <1>1 DEF Exit, ShutdownInv, EndsInOrder
<1>2. ASSUME [ShutdownNext]_svars, \A s \in Signals : ~Exit(s) PROVE Clean
  <2>1. exit' \in {exit, "none", "error", "killed"}
    BY <1>2 DEF ShutdownNext, Start, Listen, ListenRefused, Kill, Gone, OpenStream,
                CloseStream, Arrive, HangUp, FirstReturns, SecondReturns, AddArrives, Take,
                Log, Complete, Signal, AppClosed, AppClosedAgain, PoolEnded, svars
  <2> QED
    BY <2>1
<1>3. ShutdownInv /\ [ShutdownNext]_svars => [Clean]_svars
  BY <1>1, <1>2 DEF ShutdownNext
<1> QED
  BY ShutdownInvariant, <1>3, PTL DEF ShutdownSpec, ExitsClean
=============================================================================
