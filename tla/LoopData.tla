------------------------------- MODULE LoopData -------------------------------
(***************************************************************************)
(* The data of the loop registry: the five entity tables, the rows they    *)
(* hold, the foreign keys between the rows, the subject a chain of rows is  *)
(* about, and the events the registry logs.                                 *)
(*                                                                         *)
(* Identifiers are opaque (their patterns in src/src/schemas/*.json only    *)
(* keep the tables apart) and every other column is left out: no handler    *)
(* reads one back.                                                          *)
(***************************************************************************)
EXTENDS Naturals, Sequences

CONSTANTS
  Ids,       \* identifiers of entities, of all five tables
  Requests,  \* HTTP write requests; every one is sent at most once
  None       \* an absent optional field (SQL NULL, JS undefined)

ASSUME NoneAssumption == None \notin Ids

\* The entity types. An offer, a match and a transfer are linked to a subject.
Linked == {"offer", "match", "transfer"}
Entities == {"material", "product"} \cup Linked

\* What an event says of its entity; "other" stands for any name no route knows.
EventTypes == {"created", "status_updated", "seeded", "other"}

\* One row of one of the tables: a match's prior is its offer_id, a transfer's
\* its match_id.
Row == [kind : Entities, id : Ids, material : Ids \cup {None},
        product : Ids \cup {None}, prior : Ids \cup {None}]

\* One row of loop_events: a handler's own event, one relayed from another node, or
\* one of the seed script, which serves no request.
Event == [entity : Entities \cup {"other"}, event : EventTypes, id : Ids,
          via : {"local", "relay", "seed"}, req : Requests \cup {None}]

\* The table a match's or a transfer's prior refers to.
PriorKind(kind) == IF kind = "match" THEN "offer" ELSE "match"

\* `material_id || product_id`: what a row or a request is about.
Subject(x) == IF x.material # None THEN x.material ELSE x.product

\* Primary key lookup in a set of rows.
Holds(rows, kind, id) == \E row \in rows : row.kind = kind /\ row.id = id

\* Every foreign key of a row finds the row it refers to.
ReferencesHold(rows, row) ==
  /\ row.material # None => Holds(rows, "material", row.material)
  /\ row.product # None => Holds(rows, "product", row.product)
  /\ row.prior # None => Holds(rows, PriorKind(row.kind), row.prior)

\* The row that x's prior refers to exists and is about the same subject as x.
PriorAgrees(rows, kind, x) ==
  \E row \in rows : /\ row.kind = PriorKind(kind)
                    /\ row.id = x.prior
                    /\ Subject(row) = Subject(x)

\* The event names the relay route takes from another node for each entity type.
AllowedRelayEvent(entity, event) ==
  /\ entity \in Entities
  /\ event = "created" \/ (entity = "material" /\ event = "status_updated")
=============================================================================
