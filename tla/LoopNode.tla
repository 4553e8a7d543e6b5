------------------------------- MODULE LoopNode -------------------------------
(***************************************************************************)
(* One node as its clients see it: the write routes of LoopRegistry, the    *)
(* stream hub of SseHub behind GET /api/v1/stream, and GET /api/v1/events.  *)
(* The route handlers hand an event to broadcastLoopEvent in the same       *)
(* stretch in which they count and answer, so Publish and Broadcast are one *)
(* step; a crash empties both.                                              *)
(*                                                                         *)
(* A client that wants all events has to open the stream first and list the *)
(* log afterwards: NothingMissed says that this is enough.                  *)
(***************************************************************************)
EXTENDS LoopRegistry

CONSTANTS
  Clients, MaxClients, KeepAlive,  \* as in SseHub
  PageSize                         \* how many events GET /api/v1/events returns

ASSUME PageSizeAssumption == PageSize \in Nat

VARIABLES
  clients, timers, conn, feed,  \* as in SseHub
  since,                        \* history: how much was published before a client registered
  listing                       \* history: what a client listed since it registered

Hub == INSTANCE SseHub WITH Messages <- Event

hub == <<clients, timers, conn, feed>>
history == <<since, listing>>
nodeVars == <<vars, hub, history>>

Unlisted == [asked |-> FALSE, omitted |-> {}, events |-> {}]

NodeInit ==
  /\ Init /\ Hub!Init
  /\ since = [c \in Clients |-> 0]
  /\ listing = [c \in Clients |-> Unlisted]

\* Faulty variant: a relayed event is not broadcast.
PublishOwnOnly(r) ==
  /\ Publish(r)
  /\ IF body[r].route = "relay" THEN UNCHANGED hub ELSE Hub!Broadcast(EventOf(r))
  /\ UNCHANGED history

PublishToHub(r) == Publish(r) /\ Hub!Broadcast(EventOf(r)) /\ UNCHANGED history

Open(c) ==
  /\ Hub!Register(c)
  /\ since' = [since EXCEPT ![c] = Len(published)]
  /\ listing' = [listing EXCEPT ![c] = Unlisted]
  /\ UNCHANGED vars

\* GET /api/v1/events: a page of the log, as the SELECT sees it. It is ordered by
\* created_at, when each INSERT began, and not by when it was committed: a short
\* page may leave out any event.
ListEvents(c) ==
  /\ c \in clients
  /\ ~listing[c].asked
  /\ \E page \in SUBSET (DOMAIN log) :
       /\ \/ page = DOMAIN log /\ Len(log) <= PageSize
          \/ Cardinality(page) = PageSize /\ Len(log) > PageSize
       /\ listing' = [listing EXCEPT ![c] = [asked |-> TRUE, omitted |-> DOMAIN log \ page,
                                             events |-> {log[i] : i \in page}]]
  /\ UNCHANGED <<vars, hub, since>>

\* What handlers do unheard of the streams.
Quiet(r) ==
  \/ Arrive(r) \/ CheckMaterial(r) \/ CheckProduct(r) \/ CheckPrior(r)
  \/ InsertRow(r) \/ InsertConflict(r) \/ LogEvent(r)
  \/ StatementFails(r) \/ AdriftRow(r) \/ AdriftEvent(r) \/ AdriftLost(r)

NodeNext ==
  \/ \E r \in Requests : PublishToHub(r)
  \/ \E r \in Requests : Quiet(r) /\ UNCHANGED <<hub, history>>
  \/ Crash /\ Hub!Restart /\ UNCHANGED history
  \/ \E c \in Clients : Open(c) \/ ListEvents(c)
  \/ \E c \in Clients : /\ Hub!Refuse(c) \/ Hub!Leave(c) \/ Hub!Vanish(c)
                           \/ Hub!Heartbeat(c) \/ Hub!Close(c)
                        /\ UNCHANGED <<vars, history>>

NodeSpec == NodeInit /\ [][NodeNext]_nodeVars

-----------------------------------------------------------------------------
(* Properties. *)

\* Every registered client is written the same events in the same order: all that
\* were broadcast since it registered.
FeedsAreWindows ==
  \A c \in clients : feed[c] = SubSeq(published, since[c] + 1, Len(published))

\* A client that opened the stream and then listed the log has, or is about to be
\* sent, every event of the log but those its page was too short for: nothing falls
\* into the gap between commit and broadcast, unless its request met a fault.
NothingMissed ==
  \A c \in clients : listing[c].asked =>
    \A i \in DOMAIN log :
      \/ i \in listing[c].omitted
      \/ log[i] \in listing[c].events
      \/ \E j \in DOMAIN feed[c] : feed[c][j] = log[i]
      \/ pc[log[i].req] \in {"publish", "lost"}
      \/ status[log[i].req] = 500
=============================================================================
