------------------------------ MODULE LoopLedger ------------------------------
(***************************************************************************)
(* What the loop registry promises of its database, with no request, no     *)
(* await, no failure and no crash in sight: entities are stored one at a    *)
(* time, each complete and consistent with the entities it refers to at     *)
(* that very moment; an event is logged only for something that is stored   *)
(* (or was relayed from another node); an entity is announced once; nothing *)
(* is ever changed or taken back.                                           *)
(***************************************************************************)
EXTENDS LoopData

CONSTANTS
  Storable,    \* the rows clients may ask for
  Recordable   \* the events that may be logged

VARIABLES
  rows,  \* the rows of the five entity tables
  log    \* the rows of loop_events, in the order of their serial numbers

vars == <<rows, log>>

Init == rows = {} /\ log = <<>>

\* An entity is stored under a new identifier, refers to stored entities only,
\* and is about the same subject as the offer or match it follows.
Store(row) ==
  /\ ~Holds(rows, row.kind, row.id)
  /\ ReferencesHold(rows, row)
  /\ row.prior # None => PriorAgrees(rows, row.kind, row)
  /\ rows' = rows \cup {row}
  /\ log' = log

Announced(entity, id) ==
  \E i \in DOMAIN log : /\ log[i].via = "local" /\ log[i].event = "created"
                        /\ log[i].entity = entity /\ log[i].id = id

\* A stored entity is announced, once; a stored material changes its status; an
\* event arrives from another node, whose entities this node need not know.
Record(event) ==
  /\ \/ /\ event.via = "local" /\ event.event = "created"
        /\ Holds(rows, event.entity, event.id)
        /\ ~Announced(event.entity, event.id)
     \/ /\ event.via = "local" /\ event.event = "status_updated"
        /\ Holds(rows, "material", event.id)
     \/ /\ event.via = "relay"
        /\ AllowedRelayEvent(event.entity, event.event)
  /\ log' = Append(log, event)
  /\ rows' = rows

Next ==
  \/ \E row \in Storable : Store(row)
  \/ \E event \in Recordable : Record(event)

Spec == Init /\ [][Next]_vars
=============================================================================
