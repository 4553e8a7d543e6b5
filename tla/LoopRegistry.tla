----------------------------- MODULE LoopRegistry -----------------------------
(***************************************************************************)
(* The write routes of src/src/routes/loop.ts over the tables of            *)
(* src/src/db/loop.ts: material, product, offer, match, transfer,           *)
(* material-status and relay, served concurrently by one Node process.      *)
(*                                                                         *)
(* A handler runs from one await to the next without interruption, so a     *)
(* request is a record with a pc, and every action is one SQL statement     *)
(* (each its own transaction) followed by the handler's continuation up to  *)
(* its next await. Only the continuation of the event insert touches state  *)
(* others see (streams and counters), so there the commit, LogEvent, and    *)
(* the continuation, Publish, are separate: other handlers' commits and     *)
(* broadcasts may come between them.                                        *)
(*                                                                         *)
(* A statement may fail, and the process may crash and be restarted, at any *)
(* await. Neither tells what became of a write already sent to Postgres:    *)
(* it is adrift, and later commits or vanishes.                             *)
(***************************************************************************)
EXTENDS LoopData, FiniteSets

CONSTANTS
  Bodies,     \* the request bodies clients may send
  MaxFaults   \* bound on failed statements and crashes

VARIABLES
  pc,         \* where each request's handler is
  body,       \* the body each request brought
  created,    \* whether its entity insert returned (the handler's variable created)
  status,     \* the code it was answered with
  rows,       \* the entity tables
  log,        \* the loop_events table
  published,  \* the events handed to broadcastLoopEvent, in order
  metrics,    \* the in-memory counters
  adrift,     \* writes sent to Postgres whose connection was lost
  faults      \* how many faults happened

db == <<rows, log>>
request == <<pc, body, created, status>>
vars == <<pc, body, created, status, rows, log, published, metrics, adrift, faults>>

Routes == Entities \cup {"status", "relay"}

\* A request body as the handlers read it. The entity, event and id are those of
\* the event it leads to: fixed by the route, except for relay.
Body == [route : Routes, entity : Entities \cup {"other"}, event : EventTypes,
         id : Ids, material : Ids \cup {None}, product : Ids \cup {None},
         prior : Ids \cup {None}]

\* The bodies the JSON schemas let through to the handlers.
SchemaValid(b) ==
  /\ b.route \in Entities => b.entity = b.route /\ b.event = "created"
  /\ b.route = "status" => /\ b.entity = "material" /\ b.event = "status_updated"
                           /\ b.material = b.id
  /\ b.route \in Linked => b.material # None \/ b.product # None
  /\ b.route \notin Linked => b.product = None
  /\ b.route \notin Linked \cup {"status"} => b.material = None
  /\ b.route \in {"match", "transfer"} <=> b.prior # None

ASSUME BodiesAssumption == /\ Bodies \subseteq Body
                           /\ \A b \in Bodies : SchemaValid(b)
ASSUME MaxFaultsAssumption == MaxFaults \in Nat

PCs == {"idle", "checkMaterial", "checkProduct", "checkPrior", "insert", "event",
        "publish", "done", "lost"}

\* The codes a client may read; 0 stands for no answer yet, or ever.
Statuses == {0, 201, 202, 400, 401, 409, 500}

MetricKeys == Entities \cup {"status", "emitted", "relayed"}

TypeOK ==
  /\ pc \in [Requests -> PCs]
  /\ body \in [Requests -> Bodies \cup {None}]
  /\ created \in [Requests -> BOOLEAN]
  /\ status \in [Requests -> Statuses]
  /\ rows \subseteq Row
  /\ log \in Seq(Event)
  /\ published \in Seq(Event)
  /\ metrics \in [MetricKeys -> Nat]
  /\ adrift \subseteq Requests \X {"row", "event"}
  /\ faults \in Nat

Init ==
  /\ pc = [r \in Requests |-> "idle"]
  /\ body = [r \in Requests |-> None]
  /\ created = [r \in Requests |-> FALSE]
  /\ status = [r \in Requests |-> 0]
  /\ rows = {}
  /\ log = <<>>
  /\ published = <<>>
  /\ metrics = [k \in MetricKeys |-> 0]
  /\ adrift = {}
  /\ faults = 0

-----------------------------------------------------------------------------
(* The order of a handler's awaits. *)

AfterProduct(b) ==
  IF b.route \in {"match", "transfer"} THEN "checkPrior"
  ELSE IF b.route \in {"status", "relay"} THEN "event" ELSE "insert"

\* Faulty variant: nobody looks the product up.
AfterMaterialNoProduct(b) == AfterProduct(b)

AfterMaterial(b) == IF b.product # None THEN "checkProduct" ELSE AfterProduct(b)

\* Faulty variant: the status route does not look its material up.
FirstAwaitUnchecked(b) ==
  IF b.route = "status" THEN AfterMaterial(b)
  ELSE IF b.material # None THEN "checkMaterial" ELSE AfterMaterial(b)

FirstAwait(b) == IF b.material # None THEN "checkMaterial" ELSE AfterMaterial(b)

RowOf(b) == [kind |-> b.entity, id |-> b.id, material |-> b.material,
             product |-> b.product, prior |-> b.prior]

EventFor(r, b) == [entity |-> b.entity, event |-> b.event, id |-> b.id,
                   via |-> IF b.route = "relay" THEN "relay" ELSE "local", req |-> r]

EventOf(r) == EventFor(r, body[r])

GoTo(r, await) == pc' = [pc EXCEPT ![r] = await] /\ UNCHANGED <<body, created, status>>

Reply(r, code) == /\ pc' = [pc EXCEPT ![r] = "done"]
                  /\ status' = [status EXCEPT ![r] = code]
                  /\ UNCHANGED <<body, created>>

\* The insert of r's entity has returned.
Created(r) == /\ pc' = [pc EXCEPT ![r] = "event"]
              /\ created' = [created EXCEPT ![r] = TRUE]
              /\ UNCHANGED <<body, status>>
-----------------------------------------------------------------------------
(* The handlers. *)

\* Faulty variant: a code no response schema of the write routes knows.
RefusalForbidden(b, authorised) == IF authorised THEN 0 ELSE 403

\* A request whose body passed its schema reaches its handler, which refuses it
\* without a word to the database if it is not authorised (requireApiKey) or, on
\* the relay route, if its event is not one a peer may relay. (With keys enabled and
\* none configured, which config.ts refuses in production, 503 stands for 401.)
Refusal(b, authorised) ==
  IF ~authorised THEN 401
  ELSE IF b.route = "relay" /\ ~AllowedRelayEvent(b.entity, b.event) THEN 400 ELSE 0

Arrive(r) ==
  /\ pc[r] = "idle"
  /\ \E b \in Bodies, authorised \in BOOLEAN :
       LET code == Refusal(b, authorised) IN
       /\ body' = [body EXCEPT ![r] = b]
       /\ pc' = [pc EXCEPT ![r] = IF code = 0 THEN FirstAwait(b) ELSE "done"]
       /\ status' = [status EXCEPT ![r] = code]
  /\ UNCHANGED <<created, db, published, metrics, adrift, faults>>

\* Faulty variant: an unknown material ends the handler without an answer.
CheckMaterialSilent(r) ==
  /\ pc[r] = "checkMaterial"
  /\ Holds(rows, "material", body[r].material)
  /\ GoTo(r, AfterMaterial(body[r]))
  /\ UNCHANGED <<db, published, metrics, adrift, faults>>

\* getLoopMaterial
CheckMaterial(r) ==
  /\ pc[r] = "checkMaterial"
  /\ IF Holds(rows, "material", body[r].material)
       THEN GoTo(r, AfterMaterial(body[r]))
       ELSE Reply(r, 400)
  /\ UNCHANGED <<db, published, metrics, adrift, faults>>

\* getLoopProduct
CheckProduct(r) ==
  /\ pc[r] = "checkProduct"
  /\ IF Holds(rows, "product", body[r].product)
       THEN GoTo(r, AfterProduct(body[r]))
       ELSE Reply(r, 400)
  /\ UNCHANGED <<db, published, metrics, adrift, faults>>

\* Faulty variant: the prior need only exist.
CheckPriorExists(r) ==
  /\ pc[r] = "checkPrior"
  /\ IF Holds(rows, PriorKind(body[r].route), body[r].prior)
       THEN GoTo(r, "insert")
       ELSE Reply(r, 400)
  /\ UNCHANGED <<db, published, metrics, adrift, faults>>

\* getLoopOffer or getLoopMatch: an unknown one and one about another subject are
\* both refused.
CheckPrior(r) ==
  /\ pc[r] = "checkPrior"
  /\ IF PriorAgrees(rows, body[r].route, body[r])
       THEN GoTo(r, "insert")
       ELSE Reply(r, 400)
  /\ UNCHANGED <<db, published, metrics, adrift, faults>>

\* Faulty variants: a table without its foreign keys, a handler that answers before it
\* logs, one that does not log at all.
InsertRowNoForeignKeys(r) ==
  /\ pc[r] = "insert"
  /\ ~Holds(rows, body[r].entity, body[r].id)
  /\ rows' = rows \cup {RowOf(body[r])}
  /\ Created(r)
  /\ UNCHANGED <<log, published, metrics, adrift, faults>>

InsertRowAnswersEarly(r) ==
  /\ pc[r] = "insert"
  /\ ~Holds(rows, body[r].entity, body[r].id)
  /\ ReferencesHold(rows, RowOf(body[r]))
  /\ rows' = rows \cup {RowOf(body[r])}
  /\ pc' = [pc EXCEPT ![r] = "event"]
  /\ created' = [created EXCEPT ![r] = TRUE]
  /\ status' = [status EXCEPT ![r] = 201]
  /\ UNCHANGED <<body, log, published, metrics, adrift, faults>>

InsertRowUnannounced(r) ==
  /\ pc[r] = "insert"
  /\ ~Holds(rows, body[r].entity, body[r].id)
  /\ ReferencesHold(rows, RowOf(body[r]))
  /\ rows' = rows \cup {RowOf(body[r])}
  /\ pc' = [pc EXCEPT ![r] = "done"]
  /\ created' = [created EXCEPT ![r] = TRUE]
  /\ status' = [status EXCEPT ![r] = 201]
  /\ UNCHANGED <<body, log, published, metrics, adrift, faults>>

\* insertLoopMaterial .. insertLoopTransfer, when the keys allow the row.
InsertRow(r) ==
  /\ pc[r] = "insert"
  /\ ~Holds(rows, body[r].entity, body[r].id)
  /\ ReferencesHold(rows, RowOf(body[r]))
  /\ rows' = rows \cup {RowOf(body[r])}
  /\ Created(r)
  /\ UNCHANGED <<log, published, metrics, adrift, faults>>

\* Faulty variant: the handler does not return after sendWriteConflict.
InsertConflictGoesOn(r) ==
  /\ pc[r] = "insert"
  /\ Holds(rows, body[r].entity, body[r].id) \/ ~ReferencesHold(rows, RowOf(body[r]))
  /\ pc' = [pc EXCEPT ![r] = "event"]
  /\ status' = [status EXCEPT ![r] = 409]
  /\ UNCHANGED <<body, created, db, published, metrics, adrift, faults>>

\* sendWriteConflict: the identifier is taken (23505), or a row that was there when
\* the handler checked is gone (23503; only the seed script takes rows away).
InsertConflict(r) ==
  /\ pc[r] = "insert"
  /\ Holds(rows, body[r].entity, body[r].id) \/ ~ReferencesHold(rows, RowOf(body[r]))
  /\ Reply(r, 409)
  /\ UNCHANGED <<db, published, metrics, adrift, faults>>

\* insertLoopEvent commits.
LogEvent(r) ==
  /\ pc[r] = "event"
  /\ log' = Append(log, EventOf(r))
  /\ GoTo(r, "publish")
  /\ UNCHANGED <<rows, published, metrics, adrift, faults>>

\* Faulty variant: the relay route counts its events as emitted, too.
CountedTwice(b) ==
  IF b.route = "relay"
    THEN [metrics EXCEPT !["relayed"] = @ + 1, !["emitted"] = @ + 1]
    ELSE [metrics EXCEPT ![b.route] = @ + 1, !["emitted"] = @ + 1]

\* The handler's last stretch, without an await: broadcast, count, answer.
Counted(b) ==
  IF b.route = "relay" THEN [metrics EXCEPT !["relayed"] = @ + 1]
  ELSE [metrics EXCEPT ![b.route] = @ + 1, !["emitted"] = @ + 1]

Publish(r) ==
  /\ pc[r] = "publish"
  /\ published' = Append(published, EventOf(r))
  /\ metrics' = Counted(body[r])
  /\ Reply(r, IF body[r].route = "relay" THEN 202 ELSE 201)
  /\ UNCHANGED <<db, adrift, faults>>

-----------------------------------------------------------------------------
(* Failures. *)

Awaiting == {"checkMaterial", "checkProduct", "checkPrior", "insert", "event"}

\* The write a request has sent and not yet heard of.
Unheard(r) ==
  IF pc[r] = "insert" THEN {<<r, "row">>}
  ELSE IF pc[r] = "event" THEN {<<r, "event">>} ELSE {}

\* Faulty variant: a failed event insert is swallowed and the event broadcast.
StatementFailsSwallowed(r) ==
  /\ faults < MaxFaults
  /\ pc[r] = "event"
  /\ GoTo(r, "publish")
  /\ faults' = faults + 1
  /\ UNCHANGED <<db, published, metrics, adrift>>

\* A statement fails (no connection in time, or the connection is lost): the
\* handler rethrows, the error handler answers 500, and nothing is undone.
StatementFails(r) ==
  /\ faults < MaxFaults
  /\ pc[r] \in Awaiting
  /\ Reply(r, 500)
  /\ adrift' = adrift \cup Unheard(r)
  /\ faults' = faults + 1
  /\ UNCHANGED <<db, published, metrics>>

\* The process dies and is started again: requests in progress are lost with the
\* counters, and the database is as it was.
InProgress == {r \in Requests : pc[r] \notin {"idle", "done", "lost"}}

Crash ==
  /\ faults < MaxFaults
  /\ pc' = [r \in Requests |-> IF r \in InProgress THEN "lost" ELSE pc[r]]
  /\ adrift' = adrift \cup UNION {Unheard(r) : r \in InProgress}
  /\ metrics' = [k \in MetricKeys |-> 0]
  /\ faults' = faults + 1
  /\ UNCHANGED <<body, created, status, db, published>>

\* Postgres executes a write nobody waits for any more, if the keys allow it.
AdriftRow(r) ==
  /\ <<r, "row">> \in adrift
  /\ ~Holds(rows, body[r].entity, body[r].id)
  /\ ReferencesHold(rows, RowOf(body[r]))
  /\ rows' = rows \cup {RowOf(body[r])}
  /\ adrift' = adrift \ {<<r, "row">>}
  /\ UNCHANGED <<request, log, published, metrics, faults>>

AdriftEvent(r) ==
  /\ <<r, "event">> \in adrift
  /\ log' = Append(log, EventOf(r))
  /\ adrift' = adrift \ {<<r, "event">>}
  /\ UNCHANGED <<request, rows, published, metrics, faults>>

AdriftLost(r) ==
  /\ adrift' = adrift \ {<<r, "row">>, <<r, "event">>}
  /\ adrift' # adrift
  /\ UNCHANGED <<request, db, published, metrics, faults>>

\* What the event loop and Postgres do for a request once it is in.
Step(r) ==
  \/ CheckMaterial(r) \/ CheckProduct(r) \/ CheckPrior(r)
  \/ InsertRow(r) \/ InsertConflict(r)
  \/ LogEvent(r) \/ Publish(r)

Next ==
  \/ \E r \in Requests : Arrive(r)
  \/ \E r \in Requests : Step(r)
  \/ \E r \in Requests : StatementFails(r)
  \/ \E r \in Requests : AdriftRow(r) \/ AdriftEvent(r) \/ AdriftLost(r)
  \/ Crash

Spec == Init /\ [][Next]_vars

\* Postgres answers every statement, or fails it, and the event loop runs every
\* continuation that is ready; nobody has to send a request.
FairSpec == Spec /\ \A r \in Requests : WF_vars(Step(r))

-----------------------------------------------------------------------------
(* Properties. *)

\* The events of request r in the log.
Logged(r) == \E i \in DOMAIN log : log[i].req = r
Broadcast(r) == \E i \in DOMAIN published : published[i].req = r

\* Every entity refers to stored entities, however handlers interleave between
\* their existence checks and their inserts.
ReferentialIntegrity == \A row \in rows : ReferencesHold(rows, row)

\* A 409 says that the identifier is taken, although a reference that is gone would be
\* answered 409 as well (23503): what a handler has looked up is there when it inserts.
\* So a client that reads 409 when it tries again after a 500 has an entity of that
\* identifier.
ConflictMeansTaken ==
  \A r \in Requests : status[r] = 409 => Holds(rows, body[r].entity, body[r].id)

\* A stored match is about its offer's subject and a stored transfer about its
\* match's, although the handlers compare them an await before they insert.
SubjectAgreement ==
  \A row \in rows : row.prior # None => PriorAgrees(rows, row.kind, row)

\* However often creation is asked for, retried after a 500 or cut short by a
\* crash, one entity is announced at most once.
AnnouncedOnce ==
  \A i, j \in DOMAIN log :
    /\ log[i].via = "local" /\ log[i].event = "created"
    /\ log[j].via = "local" /\ log[j].event = "created"
    /\ log[i].entity = log[j].entity /\ log[i].id = log[j].id
    => i = j

\* An event this node logs of its own is about an entity it has stored.
EventsHaveEntities ==
  \A i \in DOMAIN log :
    log[i].via = "local" => Holds(rows, log[i].entity, log[i].id)

\* A positive answer means that the entity is stored, and its event logged and
\* broadcast, whatever failed since.
AckedIsDone ==
  \A r \in Requests : status[r] \in {201, 202} =>
    /\ body[r].route \in Entities => RowOf(body[r]) \in rows
    /\ Logged(r) /\ Broadcast(r)

\* A request that was refused left nothing behind, not even a write adrift.
RefusedLeavesNothing ==
  \A r \in Requests : status[r] \in {400, 401, 409} =>
    ~created[r] /\ ~Logged(r) /\ ~Broadcast(r) /\ adrift \cap ({r} \X {"row", "event"}) = {}

\* Streams are told only what the log holds, and each event once.
BroadcastIsLogged ==
  \A i \in DOMAIN published :
    /\ \E j \in DOMAIN log : log[j] = published[i]
    /\ \A j \in DOMAIN published : published[i] = published[j] => i = j

\* Without faults the counters account for every logged event but those about to
\* be broadcast; with faults they may only lag behind.
CountersFollowLog ==
  LET counted == metrics["emitted"] + metrics["relayed"]
                   + Cardinality({r \in Requests : pc[r] = "publish"})
  IN  /\ counted <= Len(log)
      /\ faults = 0 => counted = Len(log)

\* The registry does what the ledger promises.
Ledger == INSTANCE LoopLedger WITH
            Storable <- {RowOf(b) : b \in {c \in Bodies : c.route \in Entities}},
            Recordable <- {EventFor(r, b) : r \in Requests, b \in Bodies}
ImplementsLedger == Ledger!Spec

\* A request that came in is answered, unless the process dies under it.
Answered == \A r \in Requests : pc[r] # "idle" ~> pc[r] \in {"done", "lost"}

\* An entity that was stored is announced, unless its handler met a fault.
StoredIsAnnounced ==
  \A r \in Requests : created[r] ~> Logged(r) \/ status[r] = 500 \/ pc[r] = "lost"
=============================================================================
