-------------------------------- MODULE SseHub --------------------------------
(***************************************************************************)
(* The stream hubs src/src/realtime/loopStream.ts and interestStream.ts,    *)
(* which are the same code twice: a set of connections, a keep-alive timer  *)
(* for each of them, and a broadcast that writes a message to all.          *)
(*                                                                         *)
(* Each handler runs to its end without an await and is one action. A       *)
(* client is a name for a connection, used again once the server has seen   *)
(* the old connection close. TCP delivers what the server writes in order   *)
(* and may lose the tail: what a client reads is a prefix of its feed.      *)
(***************************************************************************)
EXTENDS Naturals, Sequences, FiniteSets

CONSTANTS
  Clients,     \* connections
  MaxClients,  \* config.sseMaxClients
  KeepAlive,   \* config.sseKeepAliveMs > 0
  Messages     \* what may be broadcast

ASSUME MaxClientsAssumption == MaxClients \in Nat
ASSUME KeepAliveAssumption == KeepAlive \in BOOLEAN

VARIABLES
  clients,  \* the module's set of replies
  timers,   \* the keys of heartbeatTimers
  conn,     \* the connections, which only the network knows
  feed      \* the messages written to each connection, in order

vars == <<clients, timers, conn, feed>>

\* A client has no connection, was answered 429, reads its stream, has vanished
\* without a packet, or is known to the server's socket to be gone.
Conns == {"none", "refused", "open", "vanished", "gone"}

TypeOK ==
  /\ clients \subseteq Clients
  /\ timers \subseteq Clients
  /\ conn \in [Clients -> Conns]
  /\ feed \in [Clients -> Seq(Messages)]

Init ==
  /\ clients = {} /\ timers = {}
  /\ conn = [c \in Clients |-> "none"]
  /\ feed = [c \in Clients |-> <<>>]

\* Faulty variants: the limit is off by one; no keep-alive is started.
RegisterOneTooMany(c) ==
  /\ conn[c] \in {"none", "refused"}
  /\ Cardinality(clients) <= MaxClients
  /\ conn' = [conn EXCEPT ![c] = "open"]
  /\ clients' = clients \cup {c}
  /\ timers' = IF KeepAlive THEN timers \cup {c} ELSE timers
  /\ feed' = [feed EXCEPT ![c] = <<>>]

RegisterWithoutTimer(c) ==
  /\ conn[c] \in {"none", "refused"}
  /\ Cardinality(clients) < MaxClients
  /\ conn' = [conn EXCEPT ![c] = "open"]
  /\ clients' = clients \cup {c}
  /\ timers' = timers
  /\ feed' = [feed EXCEPT ![c] = <<>>]

Register(c) ==
  /\ conn[c] \in {"none", "refused"}
  /\ Cardinality(clients) < MaxClients
  /\ conn' = [conn EXCEPT ![c] = "open"]
  /\ clients' = clients \cup {c}
  /\ timers' = IF KeepAlive THEN timers \cup {c} ELSE timers
  /\ feed' = [feed EXCEPT ![c] = <<>>]

Refuse(c) ==
  /\ conn[c] = "none"
  /\ Cardinality(clients) >= MaxClients
  /\ conn' = [conn EXCEPT ![c] = "refused"]
  /\ UNCHANGED <<clients, timers, feed>>

\* The client closes its connection, or is cut off and cannot.
Leave(c) ==
  /\ conn[c] = "open"
  /\ conn' = [conn EXCEPT ![c] = "gone"]
  /\ UNCHANGED <<clients, timers, feed>>

Vanish(c) ==
  /\ conn[c] = "open"
  /\ conn' = [conn EXCEPT ![c] = "vanished"]
  /\ UNCHANGED <<clients, timers, feed>>

\* What a write to a vanished client does, in time, to its socket.
Written(c) == IF conn[c] = "vanished" THEN "gone" ELSE conn[c]

\* A keep-alive; one to a client that reads it changes nothing.
Heartbeat(c) ==
  /\ c \in timers
  /\ conn' = [conn EXCEPT ![c] = Written(c)]
  /\ UNCHANGED <<clients, timers, feed>>

\* Faulty variant: the close handler leaves the timer running.
CloseKeepsTimer(c) ==
  /\ c \in clients
  /\ conn[c] = "gone"
  /\ clients' = clients \ {c}
  /\ conn' = [conn EXCEPT ![c] = "none"]
  /\ UNCHANGED <<timers, feed>>

\* request.raw.on('close', ...)
Close(c) ==
  /\ c \in clients
  /\ conn[c] = "gone"
  /\ clients' = clients \ {c}
  /\ timers' = timers \ {c}
  /\ conn' = [conn EXCEPT ![c] = "none"]
  /\ UNCHANGED feed

\* Faulty variant: the broadcast goes to those that have a timer.
BroadcastToTimers(message) ==
  /\ feed' = [c \in Clients |-> IF c \in timers THEN Append(feed[c], message) ELSE feed[c]]
  /\ conn' = [c \in Clients |-> IF c \in timers THEN Written(c) ELSE conn[c]]
  /\ UNCHANGED <<clients, timers>>

\* broadcastLoopEvent, broadcastInterest
Broadcast(message) ==
  /\ feed' = [c \in Clients |-> IF c \in clients THEN Append(feed[c], message) ELSE feed[c]]
  /\ conn' = [c \in Clients |-> IF c \in clients THEN Written(c) ELSE conn[c]]
  /\ UNCHANGED <<clients, timers>>

\* The process dies and is started again: both maps are empty, and the kernel has
\* closed every connection.
Restart ==
  /\ clients' = {} /\ timers' = {}
  /\ conn' = [c \in Clients |-> "none"]
  /\ UNCHANGED feed

Next ==
  \/ \E c \in Clients : \/ Register(c) \/ Refuse(c) \/ Leave(c) \/ Vanish(c)
                      \/ Heartbeat(c) \/ Close(c)
  \/ \E message \in Messages : Broadcast(message)
  \/ Restart

Spec == Init /\ [][Next]_vars

\* Timers ring, and the event loop hears of every socket that closed.
FairSpec == Spec /\ \A c \in Clients : WF_vars(Heartbeat(c)) /\ WF_vars(Close(c))

-----------------------------------------------------------------------------
(* Properties. *)

\* The limit holds, however clients come, go and vanish.
WithinLimit == Cardinality(clients) <= MaxClients

\* Exactly the registered clients hold a place, and a keep-alive timer each if
\* there are keep-alives: no place and no timer outlives its connection.
PlacesAreHeld ==
  /\ clients = {c \in Clients : conn[c] \in {"open", "vanished", "gone"}}
  /\ timers = IF KeepAlive THEN clients ELSE {}

\* A client that went away gives up its place in the end, even if it left
\* without a packet and no event is ever broadcast.
PlacesAreFreed == \A c \in Clients : conn[c] \in {"vanished", "gone"} ~> c \notin clients
=============================================================================
