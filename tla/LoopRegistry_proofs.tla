-------------------------- MODULE LoopRegistry_proofs --------------------------
(***************************************************************************)
(* Proofs about LoopRegistry, for every set of identifiers, requests and    *)
(* bodies and every number of faults.                                       *)
(***************************************************************************)
EXTENDS LoopRegistry, FiniteSetTheorems, TLAPS

-----------------------------------------------------------------------------
(* Each request by itself: its types, and what its pc says of its handler. *)

\* Where the handler of a body may be before it has written anything.
RightAwait(b, await) ==
  /\ await \in Awaiting
  /\ await = "checkMaterial" => b.route \in Linked \cup {"status"}
  /\ await = "checkProduct" => b.route \in Linked
  /\ await = "checkPrior" => b.route \in {"match", "transfer"}
  /\ await = "insert" => b.route \in Entities
  /\ await = "event" => b.route \notin Entities

Handled(r) ==
  /\ pc[r] = "idle" => ~created[r] /\ status[r] = 0
  /\ pc[r] # "idle" => body[r] \in Bodies
  /\ pc[r] # "done" => status[r] = 0
  /\ pc[r] = "done" => status[r] # 0
  /\ pc[r] \in Awaiting \ {"event"} => RightAwait(body[r], pc[r]) /\ ~created[r]
  /\ pc[r] \in {"event", "publish"} => (created[r] <=> body[r].route \in Entities)
  /\ created[r] => body[r].route \in Entities
  /\ <<r, "row">> \in adrift => /\ pc[r] \in {"done", "lost"} /\ status[r] \in {0, 500}
                                /\ body[r].route \in Entities /\ ~created[r]
  /\ <<r, "event">> \in adrift => /\ pc[r] \in {"done", "lost"} /\ status[r] \in {0, 500}
                                  /\ created[r] <=> body[r].route \in Entities
  /\ status[r] \in {201, 202} => (created[r] <=> body[r].route \in Entities)
  /\ status[r] \in {400, 401, 409} => ~created[r]

HandlerInv == TypeOK /\ \A r \in Requests : Handled(r)

LEMMA BodyFields ==
  ASSUME NEW b \in Bodies
  PROVE  /\ b.route \in Routes /\ b.id \in Ids
         /\ b.route \in Entities => RowOf(b) \in Row
         /\ \A r \in Requests : EventFor(r, b) \in Event
BY BodiesAssumption DEF Body, SchemaValid, RowOf, Row, EventFor, Event

LEMMA Awaits ==
  ASSUME NEW b \in Bodies
  PROVE  /\ RightAwait(b, FirstAwait(b))
         /\ b.route \in Linked \cup {"status"} => RightAwait(b, AfterMaterial(b))
         /\ b.route \in Linked => RightAwait(b, AfterProduct(b))
BY BodiesAssumption DEF Body, SchemaValid, RightAwait, FirstAwait, AfterMaterial, AfterProduct,
   Awaiting, Routes, Entities, Linked

LEMMA HandlerInit == Init => HandlerInv
BY DEF Init, HandlerInv, Handled, TypeOK, PCs, Statuses, MetricKeys, Awaiting

LEMMA HandlerNext == HandlerInv /\ [Next]_vars => HandlerInv'
<1> SUFFICES ASSUME HandlerInv, [Next]_vars PROVE HandlerInv'
  OBVIOUS
<1> TypeOK /\ \A r \in Requests : Handled(r)
  BY DEF HandlerInv
<1>1. ASSUME NEW r \in Requests, Arrive(r) PROVE HandlerInv'
  <2>1. PICK b \in Bodies, authorised \in BOOLEAN :
          /\ body' = [body EXCEPT ![r] = b]
          /\ pc' = [pc EXCEPT ![r] = IF Refusal(b, authorised) = 0
                                       THEN FirstAwait(b) ELSE "done"]
          /\ status' = [status EXCEPT ![r] = Refusal(b, authorised)]
    BY <1>1 DEF Arrive
  <2>2. Refusal(b, authorised) \in {0, 400, 401}
    BY DEF Refusal
  <2>3. RightAwait(b, FirstAwait(b))
    BY Awaits
  <2>4. TypeOK'
    BY <1>1, <2>1, <2>2, <2>3 DEF Arrive, TypeOK, PCs, Statuses, RightAwait, Awaiting, db
  <2>5. ASSUME NEW q \in Requests PROVE Handled(q)'
    <3>1. CASE q = r
      BY <1>1, <2>1, <2>2, <2>3, <3>1 DEF Arrive, TypeOK, Handled, RightAwait, Awaiting, db
    <3>2. CASE q # r
      BY <1>1, <2>1, <3>2 DEF Arrive, TypeOK, Handled, db
    <3> QED
      BY <3>1, <3>2
  <2> QED
    BY <2>4, <2>5 DEF HandlerInv
<1>2. ASSUME NEW r \in Requests, CheckMaterial(r) \/ CheckProduct(r) \/ CheckPrior(r)
      PROVE  HandlerInv'
  <2>0. body[r] \in Bodies /\ RightAwait(body[r], pc[r])
    BY <1>2 DEF CheckMaterial, CheckProduct, CheckPrior, Handled, Awaiting
  <2>1. PICK await \in Awaiting :
          (GoTo(r, await) /\ RightAwait(body[r], await)) \/ Reply(r, 400)
    <3>1. CASE CheckMaterial(r)
      <4>1. RightAwait(body[r], AfterMaterial(body[r]))
        BY <2>0, <3>1, Awaits DEF CheckMaterial, RightAwait
      <4> QED
        BY <3>1, <4>1 DEF CheckMaterial, RightAwait
    <3>2. CASE CheckProduct(r)
      <4>1. RightAwait(body[r], AfterProduct(body[r]))
        BY <2>0, <3>2, Awaits DEF CheckProduct, RightAwait
      <4> QED
        BY <3>2, <4>1 DEF CheckProduct, RightAwait
    <3>3. CASE CheckPrior(r)
      <4>1. RightAwait(body[r], "insert")
        BY <2>0, <3>3 DEF CheckPrior, RightAwait, Awaiting, Entities, Linked
      <4> QED
        BY <3>3, <4>1 DEF CheckPrior, RightAwait
    <3> QED
      BY <1>2, <3>1, <3>2, <3>3
  <2>2. pc[r] \in Awaiting \ {"event"} /\ UNCHANGED <<rows, log, published, metrics, adrift, faults>>
    BY <1>2 DEF CheckMaterial, CheckProduct, CheckPrior, Awaiting, db
  <2>3. TypeOK'
    <3>1. await \in PCs /\ "done" \in PCs /\ 400 \in Statuses
      BY DEF Awaiting, PCs, Statuses
    <3>2. CASE GoTo(r, await)
      BY <2>2, <3>1, <3>2 DEF GoTo, TypeOK
    <3>3. CASE Reply(r, 400)
      BY <2>2, <3>1, <3>3 DEF Reply, TypeOK
    <3> QED
      BY <2>1, <3>2, <3>3
  <2>4. ASSUME NEW q \in Requests PROVE Handled(q)'
    <3>1. CASE q = r
      BY <2>1, <2>2, <3>1 DEF GoTo, Reply, TypeOK, Handled, RightAwait, Awaiting
    <3>2. CASE q # r
      BY <2>1, <2>2, <3>2 DEF GoTo, Reply, TypeOK, Handled
    <3> QED
      BY <3>1, <3>2
  <2> QED
    BY <2>3, <2>4 DEF HandlerInv
<1>3. ASSUME NEW r \in Requests, InsertRow(r) PROVE HandlerInv'
  <2>1. RowOf(body[r]) \in Row /\ body[r].route \in Entities
    BY <1>3, BodyFields DEF InsertRow, Handled, RightAwait, Awaiting
  <2>2. TypeOK'
    BY <1>3, <2>1 DEF InsertRow, Created, TypeOK, PCs
  <2>3. ASSUME NEW q \in Requests PROVE Handled(q)'
    BY <1>3, <2>1 DEF InsertRow, Created, TypeOK, Handled, Awaiting
  <2> QED
    BY <2>2, <2>3 DEF HandlerInv
<1>4. ASSUME NEW r \in Requests, InsertConflict(r) PROVE HandlerInv'
  <2>0. /\ pc[r] = "insert" /\ Reply(r, 409)
        /\ UNCHANGED <<rows, log, published, metrics, adrift, faults>>
    BY <1>4 DEF InsertConflict, db
  <2>1. TypeOK'
    BY <2>0 DEF Reply, TypeOK, PCs, Statuses
  <2>2. ASSUME NEW q \in Requests PROVE Handled(q)'
    BY <2>0 DEF Reply, TypeOK, Handled, Awaiting
  <2> QED
    BY <2>1, <2>2 DEF HandlerInv
<1>5. ASSUME NEW r \in Requests, LogEvent(r) PROVE HandlerInv'
  <2>1. EventOf(r) \in Event
    BY <1>5, BodyFields DEF LogEvent, EventOf, Handled
  <2>2. TypeOK'
    BY <1>5, <2>1 DEF LogEvent, GoTo, TypeOK, PCs
  <2>3. ASSUME NEW q \in Requests PROVE Handled(q)'
    BY <1>5 DEF LogEvent, GoTo, TypeOK, Handled, Awaiting
  <2> QED
    BY <2>2, <2>3 DEF HandlerInv
<1>6. ASSUME NEW r \in Requests, Publish(r) PROVE HandlerInv'
  <2>1. body[r].route \in Routes /\ EventOf(r) \in Event
    BY <1>6, BodyFields DEF Publish, EventOf, Handled
  <2>2. metrics' \in [MetricKeys -> Nat]
    <3> DEFINE route == body[r].route
    <3>1. CASE route = "relay"
      BY <1>6, <3>1 DEF Publish, Counted, TypeOK, MetricKeys
    <3>2. CASE route # "relay"
      <4>1. route \in MetricKeys
        BY <2>1, <3>2 DEF Routes, MetricKeys
      <4>2. metrics' = [metrics EXCEPT ![route] = @ + 1, !["emitted"] = @ + 1]
        BY <1>6, <3>2 DEF Publish, Counted
      <4> HIDE DEF route
      <4> QED
        BY <4>1, <4>2 DEF TypeOK, MetricKeys
    <3> QED
      BY <3>1, <3>2
  <2>3. TypeOK'
    BY <1>6, <2>1, <2>2 DEF Publish, Reply, TypeOK, PCs, Statuses, db
  <2>4. ASSUME NEW q \in Requests PROVE Handled(q)'
    BY <1>6 DEF Publish, Reply, TypeOK, Handled, Awaiting, db
  <2> QED
    BY <2>3, <2>4 DEF HandlerInv
<1>7. ASSUME NEW r \in Requests, StatementFails(r) PROVE HandlerInv'
  <2>1. adrift' \subseteq Requests \X {"row", "event"}
    BY <1>7 DEF StatementFails, Unheard, TypeOK
  <2>2. TypeOK'
    BY <1>7, <2>1 DEF StatementFails, Reply, TypeOK, PCs, Statuses, db
  <2>3. ASSUME NEW q \in Requests PROVE Handled(q)'
    <3>1. CASE q = r
      BY <1>7, <3>1 DEF StatementFails, Unheard, Reply, TypeOK, Handled, RightAwait, Awaiting, db
    <3>2. CASE q # r
      BY <1>7, <3>2 DEF StatementFails, Unheard, Reply, TypeOK, Handled, db
    <3> QED
      BY <3>1, <3>2
  <2> QED
    BY <2>2, <2>3 DEF HandlerInv
<1>8. CASE Crash
  <2>1. adrift' \subseteq Requests \X {"row", "event"}
    BY <1>8 DEF Crash, Unheard, InProgress, TypeOK
  <2>2. TypeOK'
    BY <1>8, <2>1 DEF Crash, TypeOK, PCs, MetricKeys, db
  <2>3. ASSUME NEW q \in Requests PROVE Handled(q)'
    <3>1. ASSUME NEW w \in {"row", "event"}, <<q, w>> \in adrift', <<q, w>> \notin adrift
          PROVE  q \in InProgress /\ pc[q] = IF w = "row" THEN "insert" ELSE "event"
      <4>1. PICK x \in InProgress : <<q, w>> \in Unheard(x)
        BY <1>8, <3>1 DEF Crash
      <4> QED
        BY <4>1 DEF Unheard
    <3>2. CASE q \in InProgress
      BY <1>8, <3>1, <3>2 DEF Crash, InProgress, TypeOK, Handled, RightAwait, Awaiting
    <3>3. CASE q \notin InProgress
      <4>1. /\ pc'[q] = pc[q] /\ status'[q] = status[q] /\ created'[q] = created[q]
            /\ body'[q] = body[q]
        BY <1>8, <3>3 DEF Crash
      <4>2. <<q, "row">> \in adrift' => <<q, "row">> \in adrift
        BY <3>1, <3>3
      <4>3. <<q, "event">> \in adrift' => <<q, "event">> \in adrift
        BY <3>1, <3>3
      <4> QED
        BY <4>1, <4>2, <4>3 DEF Handled
    <3> QED
      BY <3>2, <3>3
  <2> QED
    BY <2>2, <2>3 DEF HandlerInv
<1>9. ASSUME NEW r \in Requests, AdriftRow(r) PROVE HandlerInv'
  <2>1. RowOf(body[r]) \in Row
    <3>1. body[r] \in Bodies /\ body[r].route \in Entities
      BY <1>9 DEF AdriftRow, Handled
    <3> QED
      BY <3>1, BodyFields
  <2>2. TypeOK'
    BY <1>9, <2>1 DEF AdriftRow, request, TypeOK
  <2>3. ASSUME NEW q \in Requests PROVE Handled(q)'
    BY <1>9 DEF AdriftRow, request, Handled
  <2> QED
    BY <2>2, <2>3 DEF HandlerInv
<1>10. ASSUME NEW r \in Requests, AdriftEvent(r) PROVE HandlerInv'
  <2>1. EventOf(r) \in Event
    BY <1>10, BodyFields DEF AdriftEvent, EventOf, Handled
  <2>2. TypeOK'
    BY <1>10, <2>1 DEF AdriftEvent, request, TypeOK
  <2>3. ASSUME NEW q \in Requests PROVE Handled(q)'
    BY <1>10 DEF AdriftEvent, request, Handled
  <2> QED
    BY <2>2, <2>3 DEF HandlerInv
<1>11. ASSUME NEW r \in Requests, AdriftLost(r) PROVE HandlerInv'
  <2>1. TypeOK'
    BY <1>11 DEF AdriftLost, request, db, TypeOK
  <2>2. ASSUME NEW q \in Requests PROVE Handled(q)'
    BY <1>11 DEF AdriftLost, request, Handled
  <2> QED
    BY <2>1, <2>2 DEF HandlerInv
<1>12. CASE UNCHANGED vars
  BY <1>12 DEF vars, HandlerInv, TypeOK, Handled
<1> QED
  BY <1>1, <1>2, <1>3, <1>4, <1>5, <1>6, <1>7, <1>8, <1>9, <1>10, <1>11, <1>12 DEF Next, Step

\* Every reachable state is well typed, and every request's handler is where its
\* pc says, with the local variables and the writes adrift that go with it.
THEOREM TypeCorrect == Spec => []TypeOK
<1>1. Spec => []HandlerInv
  BY HandlerInit, HandlerNext, PTL DEF Spec
<1> QED
  BY <1>1, PTL DEF HandlerInv

-----------------------------------------------------------------------------
(* What a step may do to one request and to the tables. *)

\* The tables and the log only grow, by one row at a time and only by what a
\* request has sent; a broadcast is the end of a handler.
Inserts(r) ==
  /\ pc[r] = "insert" \/ <<r, "row">> \in adrift
  /\ ~Holds(rows, body[r].entity, body[r].id)
  /\ ReferencesHold(rows, RowOf(body[r]))
  /\ rows' = rows \cup {RowOf(body[r])}
  /\ log' = log

Logs(r) ==
  /\ \/ pc[r] = "event" /\ pc'[r] = "publish"
     \/ <<r, "event">> \in adrift /\ pc'[r] = pc[r]
  /\ <<r, "event">> \notin adrift'
  /\ log' = Append(log, EventOf(r))
  /\ UNCHANGED <<body, created, status, rows>>

Publishes(r) ==
  /\ pc[r] = "publish" /\ pc'[r] = "done" /\ status'[r] \in {201, 202}
  /\ published' = Append(published, EventOf(r))

LEMMA RequestStep ==
  ASSUME HandlerInv, [Next]_vars, NEW q \in Requests
  PROVE  /\ pc[q] # "idle" => body'[q] = body[q] /\ pc'[q] # "idle"
         /\ pc'[q] = "insert" => \/ pc[q] = "insert"
                                 \/ body'[q].prior = None
                                 \/ pc[q] # "idle" /\ PriorAgrees(rows, body[q].route, body[q])
         /\ <<q, "row">> \in adrift' => <<q, "row">> \in adrift \/ pc[q] = "insert"
         /\ <<q, "event">> \in adrift' => <<q, "event">> \in adrift \/ pc[q] = "event"
         /\ pc'[q] = "publish" => pc[q] = "publish" \/ Logs(q)
         /\ pc'[q] = "event" /\ body'[q].route = "status" =>
              \/ pc[q] = "event"
              \/ pc[q] # "idle" /\ Holds(rows, "material", body[q].material)
         /\ pc'[q] = "event" /\ body'[q].route = "relay" =>
              \/ pc[q] = "event"
              \/ AllowedRelayEvent(body'[q].entity, body'[q].event)
         /\ pc[q] \in {"publish", "done", "lost"} =>
              /\ pc'[q] \in {"publish", "done", "lost"} /\ created'[q] = created[q]
              /\ status'[q] \in {status[q], 201, 202}
         /\ created'[q] => \/ created[q]
                           \/ /\ Inserts(q) /\ pc[q] # "idle"
                              /\ \A p \in Requests \ {q} : created'[p] = created[p]
<1> DEFINE Goal ==
      /\ pc[q] # "idle" => body'[q] = body[q] /\ pc'[q] # "idle"
      /\ pc'[q] = "insert" => \/ pc[q] = "insert"
                              \/ body'[q].prior = None
                              \/ pc[q] # "idle" /\ PriorAgrees(rows, body[q].route, body[q])
      /\ <<q, "row">> \in adrift' => <<q, "row">> \in adrift \/ pc[q] = "insert"
      /\ <<q, "event">> \in adrift' => <<q, "event">> \in adrift \/ pc[q] = "event"
      /\ pc'[q] = "publish" => pc[q] = "publish" \/ Logs(q)
      /\ pc'[q] = "event" /\ body'[q].route = "status" =>
           \/ pc[q] = "event"
           \/ pc[q] # "idle" /\ Holds(rows, "material", body[q].material)
      /\ pc'[q] = "event" /\ body'[q].route = "relay" =>
           \/ pc[q] = "event"
           \/ AllowedRelayEvent(body'[q].entity, body'[q].event)
      /\ pc[q] \in {"publish", "done", "lost"} =>
           /\ pc'[q] \in {"publish", "done", "lost"} /\ created'[q] = created[q]
           /\ status'[q] \in {status[q], 201, 202}
      /\ created'[q] => \/ created[q]
                        \/ /\ Inserts(q) /\ pc[q] # "idle"
                           /\ \A p \in Requests \ {q} : created'[p] = created[p]
<1> TypeOK /\ \A r \in Requests : Handled(r)
  BY DEF HandlerInv
<1> SUFFICES Goal
  OBVIOUS
<1>a. ASSUME NEW b \in Bodies
      PROVE  /\ AfterProduct(b) = "insert" => b.prior = None
             /\ AfterMaterial(b) = "insert" => b.prior = None
             /\ FirstAwait(b) = "insert" => b.prior = None
             /\ FirstAwait(b) # "publish" /\ AfterMaterial(b) # "publish" /\ AfterProduct(b) # "publish"
             /\ FirstAwait(b) # "idle" /\ AfterMaterial(b) # "idle" /\ AfterProduct(b) # "idle"
             /\ b.route = "status" => FirstAwait(b) # "event"
             /\ b.route = "status" => b.product = None
  BY BodiesAssumption, NoneAssumption
  DEF Body, SchemaValid, FirstAwait, AfterMaterial, AfterProduct, Linked, Entities, Routes
<1>1. ASSUME NEW r \in Requests, Arrive(r) PROVE Goal
  <2>1. PICK b \in Bodies, authorised \in BOOLEAN :
          /\ body' = [body EXCEPT ![r] = b]
          /\ pc' = [pc EXCEPT ![r] = IF Refusal(b, authorised) = 0
                                       THEN FirstAwait(b) ELSE "done"]
    BY <1>1 DEF Arrive
  <2>2. Refusal(b, authorised) = 0 /\ b.route = "relay" => AllowedRelayEvent(b.entity, b.event)
    BY DEF Refusal
  <2> QED
    BY <1>1, <2>1, <2>2, <1>a DEF Arrive, TypeOK, db
<1>2. ASSUME NEW r \in Requests, CheckMaterial(r) PROVE Goal
  <2>1. body[r] \in Bodies /\ body[r].route # "relay"
    BY <1>2 DEF CheckMaterial, Handled, RightAwait, Awaiting, Linked
  <2> QED
    BY <1>2, <2>1, <1>a DEF CheckMaterial, GoTo, Reply, TypeOK, db
<1>3. ASSUME NEW r \in Requests, CheckProduct(r) PROVE Goal
  <2>1. body[r] \in Bodies /\ body[r].route \notin {"status", "relay"}
    BY <1>3 DEF CheckProduct, Handled, RightAwait, Awaiting, Linked
  <2> QED
    BY <1>3, <2>1, <1>a DEF CheckProduct, GoTo, Reply, TypeOK, db
<1>4. ASSUME NEW r \in Requests, CheckPrior(r) PROVE Goal
  BY <1>4 DEF CheckPrior, GoTo, Reply, TypeOK, db
<1>5. ASSUME NEW r \in Requests, InsertRow(r) PROVE Goal
  <2>1. Inserts(r)
    BY <1>5 DEF InsertRow, Inserts
  <2>2. body[r].route \in Entities
    BY <1>5 DEF InsertRow, Handled, RightAwait, Awaiting
  <2>3. CASE q = r
    BY <1>5, <2>1, <2>2, <2>3 DEF InsertRow, Created, TypeOK, Entities, Linked
  <2>4. CASE q # r
    BY <1>5, <2>4 DEF InsertRow, Created, TypeOK
  <2> QED
    BY <2>3, <2>4
<1>6. ASSUME NEW r \in Requests, InsertConflict(r) PROVE Goal
  BY <1>6 DEF InsertConflict, Reply, TypeOK, db
<1>7. ASSUME NEW r \in Requests, LogEvent(r) PROVE Goal
  <2>1. Logs(r)
    BY <1>7 DEF LogEvent, GoTo, Logs, TypeOK, Handled
  <2> QED
    BY <1>7, <2>1 DEF LogEvent, GoTo, TypeOK
<1>8. ASSUME NEW r \in Requests, Publish(r) PROVE Goal
  BY <1>8 DEF Publish, Reply, TypeOK, db
<1>9. ASSUME NEW r \in Requests, StatementFails(r) PROVE Goal
  BY <1>9 DEF StatementFails, Unheard, Reply, TypeOK, Awaiting, db
<1>10. CASE Crash
  <2>1. ASSUME NEW w \in {"row", "event"}, <<q, w>> \in adrift', <<q, w>> \notin adrift
        PROVE  pc[q] = IF w = "row" THEN "insert" ELSE "event"
    <3>1. PICK x \in InProgress : <<q, w>> \in Unheard(x)
      BY <1>10, <2>1 DEF Crash
    <3> QED
      BY <3>1 DEF Unheard
  <2> QED
    BY <1>10, <2>1 DEF Crash, TypeOK, db
<1>11. ASSUME NEW r \in Requests, AdriftRow(r) \/ AdriftEvent(r) \/ AdriftLost(r) PROVE Goal
  BY <1>11 DEF AdriftRow, AdriftEvent, AdriftLost, request, TypeOK
<1>12. CASE UNCHANGED vars
  BY <1>12 DEF vars
<1> QED
  BY <1>1, <1>2, <1>3, <1>4, <1>5, <1>6, <1>7, <1>8, <1>9, <1>10, <1>11, <1>12 DEF Next, Step

\* The parts of RequestStep, by what they are about.
LEMMA BodyKept ==
  ASSUME HandlerInv, [Next]_vars, NEW q \in Requests, pc[q] # "idle"
  PROVE  body'[q] = body[q] /\ pc'[q] # "idle"
BY RequestStep

LEMMA CreatedStep ==
  ASSUME HandlerInv, [Next]_vars, NEW q \in Requests, created'[q], ~created[q]
  PROVE  /\ Inserts(q) /\ pc[q] # "idle"
         /\ \A p \in Requests \ {q} : created'[p] = created[p]
BY RequestStep

LEMMA LoggedStep ==
  ASSUME HandlerInv, [Next]_vars, NEW q \in Requests, pc[q] \in {"publish", "done", "lost"}
  PROVE  /\ pc'[q] \in {"publish", "done", "lost"} /\ created'[q] = created[q]
         /\ status'[q] \in {status[q], 201, 202}
         /\ <<q, "event">> \in adrift' => <<q, "event">> \in adrift
BY RequestStep

LEMMA PublishStep ==
  ASSUME HandlerInv, [Next]_vars, NEW q \in Requests, pc'[q] = "publish"
  PROVE  pc[q] = "publish" \/ Logs(q)
BY RequestStep

LEMMA TableStep ==
  ASSUME HandlerInv, [Next]_vars
  PROVE  /\ UNCHANGED <<rows, log>> \/ (\E r \in Requests : Inserts(r) \/ Logs(r))
         /\ \/ published' = published
               /\ \A q \in Requests : status'[q] \in {201, 202} => status[q] \in {201, 202}
            \/ \E r \in Requests :
                 /\ Publishes(r)
                 /\ \A q \in Requests \ {r} : status'[q] = status[q]
<1> DEFINE Goal ==
         /\ UNCHANGED <<rows, log>> \/ (\E r \in Requests : Inserts(r) \/ Logs(r))
         /\ \/ published' = published
               /\ \A q \in Requests : status'[q] \in {201, 202} => status[q] \in {201, 202}
            \/ \E r \in Requests :
                 /\ Publishes(r)
                 /\ \A q \in Requests \ {r} : status'[q] = status[q]
<1> TypeOK /\ \A r \in Requests : Handled(r)
  BY DEF HandlerInv
<1> SUFFICES Goal
  OBVIOUS
<1>1. ASSUME NEW r \in Requests, Arrive(r) PROVE Goal
  <2>1. PICK b \in Bodies, authorised \in BOOLEAN :
          status' = [status EXCEPT ![r] = Refusal(b, authorised)]
    BY <1>1 DEF Arrive
  <2>2. Refusal(b, authorised) \in {0, 400, 401}
    BY DEF Refusal
  <2> QED
    BY <1>1, <2>1, <2>2 DEF Arrive, TypeOK, db
<1>2. ASSUME NEW r \in Requests, CheckMaterial(r) \/ CheckProduct(r) \/ CheckPrior(r) PROVE Goal
  BY <1>2 DEF CheckMaterial, CheckProduct, CheckPrior, GoTo, Reply, TypeOK, db
<1>3. ASSUME NEW r \in Requests, InsertRow(r) PROVE Goal
  BY <1>3 DEF InsertRow, Created, Inserts
<1>4. ASSUME NEW r \in Requests, InsertConflict(r) PROVE Goal
  BY <1>4 DEF InsertConflict, Reply, TypeOK, db
<1>5. ASSUME NEW r \in Requests, LogEvent(r) PROVE Goal
  BY <1>5 DEF LogEvent, GoTo, Logs, TypeOK, Handled
<1>6. ASSUME NEW r \in Requests, Publish(r) PROVE Goal
  <2>1. Publishes(r) /\ \A q \in Requests \ {r} : status'[q] = status[q]
    BY <1>6 DEF Publish, Reply, Publishes, TypeOK
  <2> QED
    BY <1>6, <2>1 DEF Publish, db
<1>7. ASSUME NEW r \in Requests, StatementFails(r) PROVE Goal
  BY <1>7 DEF StatementFails, Reply, TypeOK, db
<1>8. CASE Crash
  BY <1>8 DEF Crash, db
<1>9. ASSUME NEW r \in Requests, AdriftRow(r) PROVE Goal
  BY <1>9 DEF AdriftRow, request, Inserts
<1>10. ASSUME NEW r \in Requests, AdriftEvent(r) PROVE Goal
  BY <1>10 DEF AdriftEvent, request, Logs
<1>11. ASSUME NEW r \in Requests, AdriftLost(r) PROVE Goal
  BY <1>11 DEF AdriftLost, request, db
<1>12. CASE UNCHANGED vars
  BY <1>12 DEF vars
<1> QED
  BY <1>1, <1>2, <1>3, <1>4, <1>5, <1>6, <1>7, <1>8, <1>9, <1>10, <1>11, <1>12 DEF Next, Step

-----------------------------------------------------------------------------
(* The entity tables. *)

\* What a handler has established by the time it inserts, or has inserted, and what
\* it logs a status change on; true of a write adrift, too, for nothing that was
\* stored ever goes away.
Grounded(r) ==
  /\ (pc[r] = "insert" \/ <<r, "row">> \in adrift) /\ body[r].prior # None =>
       PriorAgrees(rows, body[r].route, body[r])
  /\ (pc[r] \in {"event", "publish"} \/ <<r, "event">> \in adrift) /\ body[r].route = "status" =>
       Holds(rows, "material", body[r].material)
  /\ (pc[r] \in {"event", "publish"} \/ <<r, "event">> \in adrift) /\ body[r].route = "relay" =>
       AllowedRelayEvent(body[r].entity, body[r].event)
  /\ created[r] => RowOf(body[r]) \in rows

\* Identifiers are unique in each table.
UniqueIds ==
  \A x, y \in rows : x.kind = y.kind /\ x.id = y.id => x = y

TablesInv ==
  /\ UniqueIds
  /\ ReferentialIntegrity
  /\ SubjectAgreement
  /\ \A r \in Requests : Grounded(r)

LEMMA Growing ==
  ASSUME NEW R, NEW S, R \subseteq S
  PROVE  /\ \A kind, id : Holds(R, kind, id) => Holds(S, kind, id)
         /\ \A row : ReferencesHold(R, row) => ReferencesHold(S, row)
         /\ \A kind, x : PriorAgrees(R, kind, x) => PriorAgrees(S, kind, x)
BY DEF Holds, ReferencesHold, PriorAgrees

LEMMA TablesInit == Init => TablesInv
BY DEF Init, TablesInv, UniqueIds, ReferentialIntegrity, SubjectAgreement, Grounded

\* What a handler has established it keeps, as long as nothing is taken out of the tables.
LEMMA GroundedNext ==
  ASSUME HandlerInv, [Next]_vars, rows \subseteq rows', NEW q \in Requests, Grounded(q)
  PROVE  Grounded(q)'
<1>1. /\ pc[q] \in {"insert", "event", "publish"} => pc[q] # "idle"
      /\ <<q, "row">> \in adrift => pc[q] # "idle"
      /\ <<q, "event">> \in adrift => pc[q] # "idle"
      /\ created[q] => pc[q] # "idle"
  BY DEF HandlerInv, Handled
<1>2. (pc[q] = "insert" \/ <<q, "row">> \in adrift) /\ body'[q].prior # None =>
        PriorAgrees(rows, body'[q].route, body'[q])
  BY <1>1, RequestStep DEF Grounded
<1>3. (pc'[q] = "insert" \/ <<q, "row">> \in adrift') /\ body'[q].prior # None =>
        PriorAgrees(rows', body'[q].route, body'[q])
  BY <1>1, <1>2, RequestStep, Growing
<1>4. (pc'[q] \in {"event", "publish"} \/ <<q, "event">> \in adrift') /\ body'[q].route = "status" =>
        Holds(rows', "material", body'[q].material)
  <2>1. SUFFICES ASSUME pc'[q] \in {"event", "publish"} \/ <<q, "event">> \in adrift',
                        body'[q].route = "status"
                 PROVE  pc[q] # "idle" /\ Holds(rows, "material", body[q].material)
    BY BodyKept, Growing
  <2>2. \/ pc[q] \in {"event", "publish"} \/ <<q, "event">> \in adrift
        \/ pc[q] # "idle" /\ Holds(rows, "material", body[q].material)
    BY <2>1, RequestStep DEF Logs
  <2> QED
    BY <1>1, <2>1, <2>2, BodyKept DEF Grounded
<1>5. created'[q] => RowOf(body'[q]) \in rows'
  BY <1>1, RequestStep DEF Grounded, Inserts
<1>6. (pc'[q] \in {"event", "publish"} \/ <<q, "event">> \in adrift') /\ body'[q].route = "relay" =>
        AllowedRelayEvent(body'[q].entity, body'[q].event)
  <2>1. SUFFICES ASSUME pc'[q] \in {"event", "publish"} \/ <<q, "event">> \in adrift',
                        body'[q].route = "relay"
                 PROVE  AllowedRelayEvent(body'[q].entity, body'[q].event)
    OBVIOUS
  <2>2. \/ pc[q] \in {"event", "publish"} \/ <<q, "event">> \in adrift
        \/ AllowedRelayEvent(body'[q].entity, body'[q].event)
    BY <2>1, RequestStep DEF Logs
  <2> QED
    BY <1>1, <2>1, <2>2, BodyKept DEF Grounded
<1> QED
  BY <1>3, <1>4, <1>5, <1>6 DEF Grounded

LEMMA TablesNext == HandlerInv /\ TablesInv /\ [Next]_vars => TablesInv'
<1> SUFFICES ASSUME HandlerInv, TablesInv, [Next]_vars PROVE TablesInv'
  OBVIOUS
<1> UniqueIds /\ ReferentialIntegrity /\ SubjectAgreement /\ \A r \in Requests : Grounded(r)
  BY DEF TablesInv
<1>1. rows' = rows \/ \E r \in Requests : Inserts(r)
  BY TableStep DEF Logs
<1>2. rows \subseteq rows'
  BY <1>1 DEF Inserts
<1>3. ASSUME NEW q \in Requests PROVE Grounded(q)'
  BY <1>2, GroundedNext
<1>4. UniqueIds' /\ ReferentialIntegrity' /\ SubjectAgreement'
  <2>1. CASE rows' = rows
    BY <2>1 DEF UniqueIds, ReferentialIntegrity, SubjectAgreement
  <2>2. ASSUME NEW r \in Requests, Inserts(r)
        PROVE  UniqueIds' /\ ReferentialIntegrity' /\ SubjectAgreement'
    <3> DEFINE row == RowOf(body[r])
    <3>1. rows' = rows \cup {row} /\ ~Holds(rows, row.kind, row.id) /\ ReferencesHold(rows, row)
      BY <2>2 DEF Inserts, RowOf
    <3>2. row.prior # None => PriorAgrees(rows, row.kind, row)
      <4>1. body[r] \in Bodies /\ body[r].route \in Entities
        BY <2>2 DEF Inserts, HandlerInv, Handled, RightAwait, Awaiting
      <4>2. body[r].entity = body[r].route
        BY <4>1, BodiesAssumption DEF SchemaValid
      <4>3. body[r].prior # None => PriorAgrees(rows, body[r].route, body[r])
        BY <2>2 DEF Inserts, Grounded
      <4> QED
        BY <4>2, <4>3 DEF RowOf, PriorAgrees, Subject
    <3> HIDE DEF row
    <3>3. UniqueIds'
      BY <3>1 DEF UniqueIds, Holds
    <3>4. ReferentialIntegrity'
      BY <3>1, <1>2, Growing DEF ReferentialIntegrity
    <3>5. SubjectAgreement'
      BY <3>1, <3>2, <1>2, Growing DEF SubjectAgreement
    <3> QED
      BY <3>3, <3>4, <3>5
  <2> QED
    BY <1>1, <2>1, <2>2
<1> QED
  BY <1>3, <1>4 DEF TablesInv

LEMMA TablesInvariant == Spec => [](HandlerInv /\ TablesInv)
<1>1. Init => HandlerInv /\ TablesInv
  BY HandlerInit, TablesInit
<1>2. HandlerInv /\ TablesInv /\ [Next]_vars => (HandlerInv /\ TablesInv)'
  BY HandlerNext, TablesNext
<1> QED
  BY <1>1, <1>2, PTL DEF Spec

\* No interleaving of handlers, failures and late writes stores an entity whose
\* references dangle.
THEOREM ReferencesCorrect == Spec => []ReferentialIntegrity
BY TablesInvariant, PTL DEF TablesInv

\* No interleaving stores a match about another subject than its offer's, or a
\* transfer about another than its match's.
THEOREM SubjectsCorrect == Spec => []SubjectAgreement
BY TablesInvariant, PTL DEF TablesInv

\* What a handler has looked up by the time it is at its next await, and what a 409 said.
Found(r) ==
  /\ pc[r] \in {"checkProduct", "checkPrior", "insert"} /\ body[r].material # None =>
       Holds(rows, "material", body[r].material)
  /\ pc[r] \in {"checkPrior", "insert"} /\ body[r].product # None =>
       Holds(rows, "product", body[r].product)
  /\ status[r] = 409 => Holds(rows, body[r].entity, body[r].id)

FoundInv == \A r \in Requests : Found(r)

LEMMA FoundNext == HandlerInv /\ TablesInv /\ FoundInv /\ [Next]_vars => FoundInv'
<1> SUFFICES ASSUME HandlerInv, TablesInv, FoundInv, [Next]_vars, NEW q \in Requests
             PROVE  Found(q)'
  BY DEF FoundInv
<1> TypeOK /\ Found(q) /\ Handled(q)
  BY DEF HandlerInv, FoundInv
<1>1. rows \subseteq rows'
  BY TableStep DEF Inserts, Logs
<1>2. ASSUME pc'[q] = pc[q], body'[q] = body[q], status'[q] = status[q] PROVE Found(q)'
  BY <1>1, <1>2, Growing DEF Found
<1>3. ASSUME body'[q] = body[q], pc'[q] \in {"event", "publish", "done", "lost"},
             status'[q] \in {status[q], 201, 202, 400, 500}
      PROVE  Found(q)'
  BY <1>1, <1>3, Growing DEF Found
<1>4. ASSUME NEW r \in Requests, r # q, Arrive(r) \/ Step(r) \/ StatementFails(r) PROVE Found(q)'
  BY <1>2, <1>4 DEF Arrive, Step, CheckMaterial, CheckProduct, CheckPrior, InsertRow,
                    InsertConflict, LogEvent, Publish, StatementFails, GoTo, Reply, Created, TypeOK
<1>5. CASE Arrive(q)
  <2>1. PICK b \in Bodies, authorised \in BOOLEAN :
          /\ body'[q] = b /\ status'[q] = Refusal(b, authorised)
          /\ pc'[q] = IF Refusal(b, authorised) = 0 THEN FirstAwait(b) ELSE "done"
    BY <1>5 DEF Arrive, TypeOK
  <2>2. Refusal(b, authorised) # 409
    BY DEF Refusal
  <2>3. FirstAwait(b) \in {"checkProduct", "checkPrior", "insert"} => b.material = None
    BY DEF FirstAwait
  <2>4. FirstAwait(b) \in {"checkPrior", "insert"} => b.product = None
    BY DEF FirstAwait, AfterMaterial
  <2> QED
    BY <2>1, <2>2, <2>3, <2>4 DEF Found
<1>6. CASE CheckMaterial(q)
  <2>1. CASE Holds(rows, "material", body[q].material) /\ GoTo(q, AfterMaterial(body[q]))
    <3>1. AfterMaterial(body[q]) \in {"checkPrior", "insert"} => body[q].product = None
      BY DEF AfterMaterial
    <3>2. pc'[q] = AfterMaterial(body[q]) /\ UNCHANGED <<body, status, rows>>
      BY <1>6, <2>1 DEF CheckMaterial, GoTo, TypeOK, db
    <3> QED
      BY <2>1, <3>1, <3>2 DEF Found
  <2>2. CASE Reply(q, 400)
    BY <1>3, <2>2 DEF Reply, TypeOK
  <2> QED
    BY <1>6, <2>1, <2>2 DEF CheckMaterial
<1>7. CASE CheckProduct(q)
  <2>1. CASE Holds(rows, "product", body[q].product) /\ GoTo(q, AfterProduct(body[q]))
    <3>1. pc[q] = "checkProduct" /\ UNCHANGED <<body, status, rows>>
      BY <1>7, <2>1 DEF CheckProduct, GoTo, db
    <3> QED
      BY <2>1, <3>1 DEF Found
  <2>2. CASE Reply(q, 400)
    BY <1>3, <2>2 DEF Reply, TypeOK
  <2> QED
    BY <1>7, <2>1, <2>2 DEF CheckProduct
<1>8. CASE CheckPrior(q)
  <2>1. CASE GoTo(q, "insert")
    <3>1. pc[q] = "checkPrior" /\ UNCHANGED <<body, status, rows>>
      BY <1>8, <2>1 DEF CheckPrior, GoTo, db
    <3> QED
      BY <3>1 DEF Found
  <2>2. CASE Reply(q, 400)
    BY <1>3, <2>2 DEF Reply, TypeOK
  <2> QED
    BY <1>8, <2>1, <2>2 DEF CheckPrior
<1>9. CASE InsertConflict(q)
  <2>1. /\ pc'[q] = "done" /\ body'[q] = body[q] /\ rows' = rows /\ pc[q] = "insert"
        /\ Holds(rows, body[q].entity, body[q].id) \/ ~ReferencesHold(rows, RowOf(body[q]))
    BY <1>9 DEF InsertConflict, Reply, db, TypeOK
  <2>2. body[q] \in Bodies /\ body[q].route \in Entities
    BY <2>1 DEF Handled, RightAwait, Awaiting
  <2>3. body[q].entity = body[q].route
    BY <2>2, BodiesAssumption DEF SchemaValid
  <2>4. body[q].prior # None => Holds(rows, PriorKind(body[q].entity), body[q].prior)
    BY <2>1, <2>3 DEF TablesInv, Grounded, PriorAgrees, Holds
  <2>5. ReferencesHold(rows, RowOf(body[q]))
    BY <2>1, <2>4 DEF Found, ReferencesHold, RowOf
  <2> QED
    BY <2>1, <2>5 DEF Found
<1>10. CASE InsertRow(q) \/ LogEvent(q) \/ Publish(q) \/ StatementFails(q)
  BY <1>3, <1>10 DEF InsertRow, LogEvent, Publish, StatementFails, GoTo, Reply, Created, TypeOK
<1>11. CASE Crash
  BY <1>2, <1>3, <1>11 DEF Crash, TypeOK
<1>12. ASSUME NEW r \in Requests, AdriftRow(r) \/ AdriftEvent(r) \/ AdriftLost(r) PROVE Found(q)'
  BY <1>2, <1>12 DEF AdriftRow, AdriftEvent, AdriftLost, request
<1>13. CASE UNCHANGED vars
  BY <1>2, <1>13 DEF vars
<1> QED
  BY <1>4, <1>5, <1>6, <1>7, <1>8, <1>9, <1>10, <1>11, <1>12, <1>13 DEF Next, Step

\* Without the seed script nobody is told that a reference is missing once it was found:
\* whoever reads 409 finds an entity under the identifier.
THEOREM ConflictMeansTakenCorrect == Spec => []ConflictMeansTaken
<1>1. Init => FoundInv
  BY DEF Init, FoundInv, Found
<1>2. FoundInv => ConflictMeansTaken
  BY DEF FoundInv, Found, ConflictMeansTaken
<1> QED
  BY <1>1, <1>2, FoundNext, TablesInvariant, PTL DEF Spec

-----------------------------------------------------------------------------
(* What is logged, broadcast and answered, and that the registry implements
   LoopLedger. *)

\* An entity has one creator, the request whose insert returned.
Creators ==
  \A p, q \in Requests :
    created[p] /\ created[q] /\ body[p].entity = body[q].entity /\ body[p].id = body[q].id
      => p = q

\* What holds of a request whose event is in the log.
Told(r) ==
  /\ pc[r] \in {"publish", "done", "lost"}
  /\ <<r, "event">> \notin adrift
  /\ status[r] \notin {400, 401, 409}
  /\ created[r] <=> body[r].route \in Entities
  /\ body[r].route = "status" => Holds(rows, "material", body[r].material)

LogInv ==
  /\ \A i \in DOMAIN log : \E r \in Requests : Told(r) /\ log[i] = EventOf(r)
  /\ \A i, j \in DOMAIN log : log[i].req = log[j].req => i = j

StreamInv ==
  /\ \A i \in DOMAIN published :
       \E r \in Requests : status[r] \in {201, 202} /\ published[i] = EventOf(r)
  /\ \A i, j \in DOMAIN published : published[i].req = published[j].req => i = j
  /\ \A r \in Requests : pc[r] = "publish" \/ status[r] \in {201, 202} => Logged(r)
  /\ \A r \in Requests : status[r] \in {201, 202} => Broadcast(r)

EventsInv == Creators /\ LogInv /\ StreamInv

LEMMA EventsInit == Init => EventsInv
BY DEF Init, EventsInv, Creators, LogInv, StreamInv, Logged, Broadcast

LEMMA CreatorsNext == HandlerInv /\ TablesInv /\ Creators /\ [Next]_vars => Creators'
<1> SUFFICES ASSUME HandlerInv, TablesInv, Creators, [Next]_vars,
                    NEW p \in Requests, NEW q \in Requests,
                    created'[p], created'[q],
                    body'[p].entity = body'[q].entity, body'[p].id = body'[q].id,
                    p # q
             PROVE  FALSE
  BY DEF Creators
<1>1. ASSUME NEW x \in Requests, NEW y \in Requests, x # y, created'[x], created'[y],
             body'[x].entity = body'[y].entity, body'[x].id = body'[y].id, ~created[x]
      PROVE  FALSE
  <2>1. Inserts(x) /\ pc[x] # "idle" /\ created[y]
    BY <1>1, CreatedStep
  <2>2. pc[y] # "idle" /\ RowOf(body[y]) \in rows
    BY <2>1 DEF HandlerInv, Handled, TablesInv, Grounded
  <2>3. body'[x] = body[x] /\ body'[y] = body[y]
    BY <2>1, <2>2, BodyKept
  <2> QED
    BY <1>1, <2>1, <2>2, <2>3 DEF Inserts, Holds, RowOf
<1>2. CASE created[p] /\ created[q]
  <2>1. pc[p] # "idle" /\ pc[q] # "idle"
    BY <1>2 DEF HandlerInv, Handled
  <2>2. body'[p] = body[p] /\ body'[q] = body[q]
    BY <2>1, BodyKept
  <2> QED
    BY <1>2, <2>2 DEF Creators
<1> QED
  BY <1>1, <1>2

\* Nothing a step does can make what was logged of a request untrue.
LEMMA ToldNext ==
  ASSUME HandlerInv, [Next]_vars, rows \subseteq rows', NEW r \in Requests, Told(r)
  PROVE  Told(r)' /\ EventOf(r)' = EventOf(r)
<1>1. pc[r] \in {"publish", "done", "lost"}
  BY DEF Told
<1>2. body'[r] = body[r]
  BY <1>1, BodyKept
<1>3. /\ pc'[r] \in {"publish", "done", "lost"} /\ created'[r] = created[r]
      /\ status'[r] \in {status[r], 201, 202}
      /\ <<r, "event">> \in adrift' => <<r, "event">> \in adrift
  BY <1>1, LoggedStep
<1>4. Holds(rows, "material", body[r].material) => Holds(rows', "material", body[r].material)
  BY Growing
<1> QED
  BY <1>2, <1>3, <1>4 DEF Told, EventOf

LEMMA EventFields == \A r : EventOf(r).req = r
BY DEF EventOf, EventFor

LEMMA LogNext == HandlerInv /\ TablesInv /\ LogInv /\ [Next]_vars => LogInv'
<1> SUFFICES ASSUME HandlerInv, TablesInv, LogInv, [Next]_vars PROVE LogInv'
  OBVIOUS
<1>1. ASSUME NEW i \in DOMAIN log
      PROVE  \E r \in Requests : /\ Told(r) /\ log[i] = EventOf(r)
                                 /\ Told(r)' /\ EventOf(r)' = EventOf(r)
  <2>1. PICK r \in Requests : Told(r) /\ log[i] = EventOf(r)
    BY DEF LogInv
  <2>2. rows \subseteq rows'
    BY TableStep DEF Inserts, Logs
  <2> QED
    BY <2>1, <2>2, ToldNext
<1>2. CASE log' = log
  BY <1>1, <1>2 DEF LogInv
<1>3. ASSUME NEW r \in Requests, Logs(r) PROVE LogInv'
  <2>1. Told(r)' /\ EventOf(r)' = EventOf(r)
    <3>1. /\ pc[r] \in {"event", "done", "lost"} /\ (created[r] <=> body[r].route \in Entities)
          /\ status[r] \notin {400, 401, 409}
      <4>1. Handled(r)
        BY DEF HandlerInv
      <4>2. CASE pc[r] = "event"
        BY <4>1, <4>2 DEF Handled
      <4>3. CASE <<r, "event">> \in adrift
        BY <4>1, <4>3 DEF Handled
      <4> QED
        BY <1>3, <4>2, <4>3 DEF Logs
    <3>2. body[r].route = "status" => Holds(rows, "material", body[r].material)
      BY <1>3 DEF Logs, TablesInv, Grounded
    <3>3. pc'[r] \in {"publish", "done", "lost"}
      <4>1. <<r, "event">> \in adrift => pc[r] \in {"done", "lost"}
        BY DEF HandlerInv, Handled
      <4> QED
        BY <1>3, <4>1 DEF Logs
    <3> QED
      BY <1>3, <3>1, <3>2, <3>3 DEF Logs, Told, EventOf
  <2>2. \A i \in DOMAIN log : log[i].req # r
    <3> SUFFICES ASSUME NEW i \in DOMAIN log, log[i].req = r PROVE FALSE
      OBVIOUS
    <3>1. Told(r)
      BY <1>1, EventFields
    <3> QED
      BY <1>3, <3>1 DEF Told, Logs
  <2>3. log \in Seq(Event) /\ log' = Append(log, EventOf(r))
    BY <1>3 DEF Logs, HandlerInv, TypeOK
  <2>4. ASSUME NEW i \in DOMAIN log'
        PROVE  \/ i \in DOMAIN log /\ log'[i] = log[i]
               \/ i = Len(log) + 1 /\ log'[i] = EventOf(r)
    BY <2>3
  <2>5. \A i \in DOMAIN log' : \E q \in Requests : Told(q)' /\ log'[i] = EventOf(q)'
    BY <1>1, <2>1, <2>4
  <2>6. \A i, j \in DOMAIN log' : log'[i].req = log'[j].req => i = j
    BY <2>2, <2>4, EventFields DEF LogInv
  <2> QED
    BY <2>5, <2>6 DEF LogInv
<1> QED
  BY <1>2, <1>3, TableStep DEF Inserts

LEMMA StreamNext == HandlerInv /\ TablesInv /\ LogInv /\ StreamInv /\ [Next]_vars => StreamInv'
<1> SUFFICES ASSUME HandlerInv, TablesInv, LogInv, StreamInv, [Next]_vars PROVE StreamInv'
  OBVIOUS
<1>1. \A q \in Requests : Logged(q) => Logged(q)'
  <2>1. log \in Seq(Event)
    BY DEF HandlerInv, TypeOK
  <2>2. CASE log' = log
    BY <2>2 DEF Logged
  <2>3. ASSUME NEW r \in Requests, Logs(r) PROVE \A q \in Requests : Logged(q) => Logged(q)'
    <3>1. \A i \in DOMAIN log : i \in DOMAIN log' /\ log'[i] = log[i]
      BY <2>1, <2>3 DEF Logs
    <3> QED
      BY <3>1 DEF Logged
  <2> QED
    BY <2>2, <2>3, TableStep DEF Inserts
<1>2. ASSUME NEW q \in Requests, pc'[q] = "publish" PROVE Logged(q)'
  <2>1. CASE pc[q] = "publish"
    BY <1>1, <2>1 DEF StreamInv
  <2>2. CASE Logs(q)
    <3>1. log'[Len(log) + 1] = EventOf(q) /\ Len(log) + 1 \in DOMAIN log'
      BY <2>2 DEF Logs, HandlerInv, TypeOK
    <3> QED
      BY <3>1, EventFields DEF Logged
  <2> QED
    BY <1>2, <2>1, <2>2, PublishStep
<1>3. ASSUME NEW q \in Requests, status[q] \in {201, 202}
      PROVE  status'[q] \in {201, 202} /\ EventOf(q)' = EventOf(q)
  <2>1. pc[q] = "done"
    <3>1. Handled(q)
      BY DEF HandlerInv
    <3> QED
      BY <1>3, <3>1 DEF Handled
  <2> QED
    BY <1>3, <2>1, LoggedStep, BodyKept DEF EventOf
<1>4. ASSUME NEW i \in DOMAIN published
      PROVE  \E r \in Requests : /\ status[r] \in {201, 202} /\ status'[r] \in {201, 202}
                                 /\ published[i] = EventOf(r) /\ EventOf(r)' = EventOf(r)
  <2>1. PICK r \in Requests : status[r] \in {201, 202} /\ published[i] = EventOf(r)
    BY DEF StreamInv
  <2> QED
    BY <2>1, <1>3
<1>5. ASSUME published' = published,
             \A q \in Requests : status'[q] \in {201, 202} => status[q] \in {201, 202}
      PROVE  StreamInv'
  BY <1>1, <1>2, <1>4, <1>5 DEF StreamInv, Broadcast
<1>6. ASSUME NEW r \in Requests, Publishes(r),
             \A q \in Requests \ {r} : status'[q] = status[q]
      PROVE  StreamInv'
  <2>1. status[r] = 0 /\ EventOf(r)' = EventOf(r) /\ status'[r] \in {201, 202}
    BY <1>6, BodyKept DEF Publishes, HandlerInv, Handled, EventOf
  <2>2. published \in Seq(Event) /\ published' = Append(published, EventOf(r))
    BY <1>6 DEF Publishes, HandlerInv, TypeOK
  <2>3. ASSUME NEW i \in DOMAIN published'
        PROVE  \/ i \in DOMAIN published /\ published'[i] = published[i]
               \/ i = Len(published) + 1 /\ published'[i] = EventOf(r)
    BY <2>2
  <2>4. \A i \in DOMAIN published : published[i].req # r
    BY <1>4, <2>1, EventFields
  <2>5. \A i \in DOMAIN published' :
          \E q \in Requests : status'[q] \in {201, 202} /\ published'[i] = EventOf(q)'
    BY <1>4, <2>1, <2>3
  <2>6. \A i, j \in DOMAIN published' : published'[i].req = published'[j].req => i = j
    BY <2>3, <2>4, EventFields DEF StreamInv
  <2>7. \A q \in Requests : Broadcast(q) \/ q = r => Broadcast(q)'
    <3>1. \A i \in DOMAIN published : i \in DOMAIN published' /\ published'[i] = published[i]
      BY <2>2
    <3>2. Len(published) + 1 \in DOMAIN published' /\ published'[Len(published) + 1] = EventOf(r)
      BY <2>2
    <3> QED
      BY <3>1, <3>2, EventFields DEF Broadcast
  <2>8. Logged(r)'
    BY <1>1, <1>6 DEF Publishes, StreamInv
  <2> QED
    BY <1>1, <1>2, <1>6, <2>5, <2>6, <2>7, <2>8 DEF StreamInv
<1> QED
  BY <1>5, <1>6, TableStep

LEMMA EventsInvariant == Spec => [](HandlerInv /\ TablesInv /\ EventsInv)
<1>1. Init => HandlerInv /\ TablesInv /\ EventsInv
  BY HandlerInit, TablesInit, EventsInit
<1>2. HandlerInv /\ TablesInv /\ EventsInv /\ [Next]_vars => (HandlerInv /\ TablesInv /\ EventsInv)'
  BY HandlerNext, TablesNext, CreatorsNext, LogNext, StreamNext DEF EventsInv
<1> QED
  BY <1>1, <1>2, PTL DEF Spec

-----------------------------------------------------------------------------
(* The properties. *)

\* What the route of a request makes of its event.
LEMMA EventsByRoute ==
  ASSUME NEW r \in Requests, body[r] \in Bodies
  PROVE  /\ EventOf(r).entity = body[r].entity /\ EventOf(r).id = body[r].id
         /\ EventOf(r).event = body[r].event /\ EventOf(r).req = r
         /\ EventOf(r).via = IF body[r].route = "relay" THEN "relay" ELSE "local"
         /\ body[r].route \in Entities => EventOf(r).event = "created"
         /\ body[r].route = "status" =>
              /\ EventOf(r).event = "status_updated" /\ EventOf(r).entity = "material"
              /\ body[r].material = body[r].id
         /\ body[r].route \in Entities \cup {"status", "relay"}
         /\ EventOf(r).via = "local" /\ EventOf(r).event = "created" => body[r].route \in Entities
BY BodiesAssumption DEF EventOf, EventFor, Body, SchemaValid, Routes

LEMMA LoggedRequests ==
  ASSUME HandlerInv, LogInv, NEW i \in DOMAIN log
  PROVE  \E r \in Requests : Told(r) /\ log[i] = EventOf(r) /\ body[r] \in Bodies
<1>1. PICK r \in Requests : Told(r) /\ log[i] = EventOf(r)
  BY DEF LogInv
<1>2. Handled(r) /\ pc[r] \in {"publish", "done", "lost"}
  BY <1>1 DEF Told, HandlerInv
<1>3. body[r] \in Bodies
  BY <1>2 DEF Handled
<1> QED
  BY <1>1, <1>3

\* However creation is retried, interleaved and cut short, an entity is announced
\* at most once.
THEOREM AnnouncedOnceCorrect == Spec => []AnnouncedOnce
<1>1. HandlerInv /\ TablesInv /\ EventsInv => AnnouncedOnce
  <2> SUFFICES ASSUME HandlerInv, EventsInv, NEW i \in DOMAIN log, NEW j \in DOMAIN log,
                      log[i].via = "local", log[i].event = "created",
                      log[j].via = "local", log[j].event = "created",
                      log[i].entity = log[j].entity, log[i].id = log[j].id
               PROVE  i = j
    BY DEF AnnouncedOnce
  <2>1. PICK p \in Requests : Told(p) /\ log[i] = EventOf(p) /\ body[p] \in Bodies
    BY LoggedRequests DEF EventsInv
  <2>2. PICK q \in Requests : Told(q) /\ log[j] = EventOf(q) /\ body[q] \in Bodies
    BY LoggedRequests DEF EventsInv
  <2>3. created[p] /\ body[p].entity = log[i].entity /\ body[p].id = log[i].id /\ log[i].req = p
    BY <2>1, EventsByRoute DEF Told
  <2>4. created[q] /\ body[q].entity = log[j].entity /\ body[q].id = log[j].id /\ log[j].req = q
    BY <2>2, EventsByRoute DEF Told
  <2>5. p = q
    BY <2>3, <2>4 DEF EventsInv, Creators
  <2> QED
    BY <2>3, <2>4, <2>5 DEF EventsInv, LogInv
<1> QED
  BY <1>1, EventsInvariant, PTL

\* An event this node logs of its own is about an entity it has stored.
THEOREM EventsHaveEntitiesCorrect == Spec => []EventsHaveEntities
<1>1. HandlerInv /\ TablesInv /\ EventsInv => EventsHaveEntities
  <2> SUFFICES ASSUME HandlerInv, TablesInv, EventsInv, NEW i \in DOMAIN log, log[i].via = "local"
               PROVE  Holds(rows, log[i].entity, log[i].id)
    BY DEF EventsHaveEntities
  <2>1. PICK r \in Requests : Told(r) /\ log[i] = EventOf(r) /\ body[r] \in Bodies
    BY LoggedRequests DEF EventsInv
  <2>2. log[i].entity = body[r].entity /\ log[i].id = body[r].id
        /\ body[r].route \in Entities \cup {"status"}
    BY <2>1, EventsByRoute
  <2>3. CASE body[r].route \in Entities
    <3>1. RowOf(body[r]) \in rows
      BY <2>1, <2>3 DEF Told, TablesInv, Grounded
    <3> QED
      BY <2>2, <3>1 DEF Holds, RowOf
  <2>4. CASE body[r].route = "status"
    BY <2>1, <2>4, EventsByRoute DEF Told
  <2> QED
    BY <2>2, <2>3, <2>4
<1> QED
  BY <1>1, EventsInvariant, PTL

\* A positive answer is given only once the entity is stored and its event logged
\* and broadcast.
THEOREM AckedIsDoneCorrect == Spec => []AckedIsDone
<1>1. HandlerInv /\ TablesInv /\ EventsInv => AckedIsDone
  <2> SUFFICES ASSUME HandlerInv, TablesInv, EventsInv,
                      NEW r \in Requests, status[r] \in {201, 202}
               PROVE  /\ body[r].route \in Entities => RowOf(body[r]) \in rows
                      /\ Logged(r) /\ Broadcast(r)
    BY DEF AckedIsDone
  <2>1. Handled(r) /\ Grounded(r)
    BY DEF HandlerInv, TablesInv
  <2> QED
    BY <2>1 DEF Handled, Grounded, EventsInv, StreamInv
<1> QED
  BY <1>1, EventsInvariant, PTL

\* A refused request has left nothing in the log, the streams or on its way to the
\* database.
THEOREM RefusedLeavesNothingCorrect == Spec => []RefusedLeavesNothing
<1>1. HandlerInv /\ TablesInv /\ EventsInv => RefusedLeavesNothing
  <2> SUFFICES ASSUME HandlerInv, TablesInv, EventsInv,
                      NEW r \in Requests, status[r] \in {400, 401, 409}
               PROVE  /\ ~created[r] /\ ~Logged(r) /\ ~Broadcast(r)
                      /\ adrift \cap ({r} \X {"row", "event"}) = {}
    BY DEF RefusedLeavesNothing
  <2>1. Handled(r)
    BY DEF HandlerInv
  <2>2. ~created[r] /\ <<r, "row">> \notin adrift /\ <<r, "event">> \notin adrift
    BY <2>1 DEF Handled
  <2>3. ~Logged(r)
    <3> SUFFICES ASSUME NEW i \in DOMAIN log, log[i].req = r PROVE FALSE
      BY DEF Logged
    <3>1. Told(r)
      BY LoggedRequests, EventFields DEF EventsInv
    <3> QED
      BY <3>1 DEF Told
  <2>4. ~Broadcast(r)
    <3> SUFFICES ASSUME NEW i \in DOMAIN published, published[i].req = r PROVE FALSE
      BY DEF Broadcast
    <3>1. status[r] \in {201, 202}
      BY EventFields DEF EventsInv, StreamInv
    <3> QED
      BY <3>1
  <2> QED
    BY <2>2, <2>3, <2>4
<1> QED
  BY <1>1, EventsInvariant, PTL

\* Streams are told only what the log holds, and each event once.
THEOREM BroadcastIsLoggedCorrect == Spec => []BroadcastIsLogged
<1>1. HandlerInv /\ TablesInv /\ EventsInv => BroadcastIsLogged
  <2> SUFFICES ASSUME HandlerInv, EventsInv, NEW i \in DOMAIN published
               PROVE  /\ \E j \in DOMAIN log : log[j] = published[i]
                      /\ \A j \in DOMAIN published : published[i] = published[j] => i = j
    BY DEF BroadcastIsLogged
  <2>1. PICK r \in Requests : status[r] \in {201, 202} /\ published[i] = EventOf(r)
    BY DEF EventsInv, StreamInv
  <2>2. PICK j \in DOMAIN log : log[j].req = r
    BY <2>1 DEF EventsInv, StreamInv, Logged
  <2>3. log[j] = EventOf(r)
    BY <2>2, LoggedRequests, EventFields DEF EventsInv
  <2> QED
    BY <2>1, <2>3 DEF EventsInv, StreamInv
<1> QED
  BY <1>1, EventsInvariant, PTL

-----------------------------------------------------------------------------
(* The counters. *)

\* The requests whose event is logged and not yet counted.
Uncounted == {r \in Requests : pc[r] = "publish"}
Total == metrics["emitted"] + metrics["relayed"]

CountInv ==
  /\ IsFiniteSet(Uncounted)
  /\ adrift # {} => faults # 0
  /\ Total + Cardinality(Uncounted) <= Len(log)
  /\ faults = 0 => Total + Cardinality(Uncounted) = Len(log)

LEMMA CountNext == HandlerInv /\ CountInv /\ [Next]_vars => CountInv'
<1> SUFFICES ASSUME HandlerInv, CountInv, [Next]_vars PROVE CountInv'
  OBVIOUS
<1> TypeOK /\ \A r \in Requests : Handled(r)
  BY DEF HandlerInv
<1>0. /\ IsFiniteSet(Uncounted) /\ Cardinality(Uncounted) \in Nat
      /\ Total \in Nat /\ Len(log) \in Nat /\ faults \in Nat
  BY FS_CardinalityType DEF CountInv, TypeOK, Total, MetricKeys
<1>1. ASSUME Uncounted' = Uncounted, Total' = Total, Len(log)' = Len(log), faults' = faults,
             adrift' \subseteq adrift
      PROVE  CountInv'
  BY <1>1 DEF CountInv
<1>2. ASSUME NEW r \in Requests, Arrive(r) PROVE CountInv'
  <2>1. PICK b \in Bodies, authorised \in BOOLEAN :
          pc' = [pc EXCEPT ![r] = IF Refusal(b, authorised) = 0 THEN FirstAwait(b) ELSE "done"]
    BY <1>2 DEF Arrive
  <2>2. FirstAwait(b) # "publish"
    BY DEF FirstAwait, AfterMaterial, AfterProduct
  <2>3. Uncounted' = Uncounted
    BY <1>2, <2>1, <2>2 DEF Arrive, Uncounted, TypeOK
  <2> QED
    BY <1>1, <1>2, <2>3 DEF Arrive, Total, db
<1>3. ASSUME NEW r \in Requests, CheckMaterial(r) \/ CheckProduct(r) \/ CheckPrior(r)
      PROVE  CountInv'
  <2>1. Uncounted' = Uncounted
    BY <1>3 DEF CheckMaterial, CheckProduct, CheckPrior, GoTo, Reply, AfterMaterial,
                AfterProduct, Uncounted, TypeOK
  <2> QED
    BY <1>1, <1>3, <2>1 DEF CheckMaterial, CheckProduct, CheckPrior, Total, db
<1>4. ASSUME NEW r \in Requests, InsertRow(r) \/ InsertConflict(r) PROVE CountInv'
  <2>1. Uncounted' = Uncounted
    BY <1>4 DEF InsertRow, InsertConflict, Created, Reply, Uncounted, TypeOK
  <2> QED
    BY <1>1, <1>4, <2>1 DEF InsertRow, InsertConflict, Total, db
<1>5. ASSUME NEW r \in Requests, LogEvent(r) PROVE CountInv'
  <2>1. Uncounted' = Uncounted \cup {r} /\ r \notin Uncounted
    BY <1>5 DEF LogEvent, GoTo, Uncounted, TypeOK
  <2>2. IsFiniteSet(Uncounted') /\ Cardinality(Uncounted') = Cardinality(Uncounted) + 1
    BY <1>0, <2>1, FS_AddElement
  <2>3. Total' = Total /\ Len(log') = Len(log) + 1 /\ faults' = faults /\ adrift' = adrift
    BY <1>5 DEF LogEvent, Total, TypeOK
  <2> QED
    BY <1>0, <2>2, <2>3 DEF CountInv
<1>6. ASSUME NEW r \in Requests, Publish(r) PROVE CountInv'
  <2>1. Uncounted' = Uncounted \ {r} /\ r \in Uncounted
    BY <1>6 DEF Publish, Reply, Uncounted, TypeOK
  <2>2. IsFiniteSet(Uncounted') /\ Cardinality(Uncounted') = Cardinality(Uncounted) - 1
    BY <1>0, <2>1, FS_RemoveElement
  <2>3. body[r].route \in Routes
    BY <1>6, BodyFields DEF Publish, Handled
  <2>4. Total' = Total + 1
    <3> DEFINE route == body[r].route
    <3>1. CASE route = "relay"
      BY <1>6, <3>1 DEF Publish, Counted, Total, TypeOK, MetricKeys
    <3>2. CASE route # "relay"
      <4>1. route \in MetricKeys \ {"emitted", "relayed"}
        BY <2>3, <3>2 DEF Routes, MetricKeys, Entities, Linked
      <4>2. metrics' = [metrics EXCEPT ![route] = @ + 1, !["emitted"] = @ + 1]
        BY <1>6, <3>2 DEF Publish, Counted
      <4>3. DOMAIN metrics = MetricKeys /\ metrics["emitted"] \in Nat /\ metrics["relayed"] \in Nat
        BY DEF TypeOK, MetricKeys
      <4> HIDE DEF route
      <4>4. metrics'["emitted"] = metrics["emitted"] + 1 /\ metrics'["relayed"] = metrics["relayed"]
        BY <4>1, <4>2, <4>3 DEF MetricKeys
      <4> QED
        BY <4>3, <4>4 DEF Total
    <3> QED
      BY <3>1, <3>2
  <2>5. log' = log /\ faults' = faults /\ adrift' = adrift
    BY <1>6 DEF Publish, db
  <2> QED
    BY <1>0, <2>2, <2>4, <2>5 DEF CountInv
<1>7. ASSUME NEW r \in Requests, StatementFails(r) PROVE CountInv'
  <2>1. Uncounted' = Uncounted
    BY <1>7 DEF StatementFails, Reply, Awaiting, Uncounted, TypeOK
  <2>2. faults' = faults + 1 /\ Total' = Total /\ log' = log
    BY <1>7 DEF StatementFails, Total, db
  <2> QED
    BY <1>0, <2>1, <2>2 DEF CountInv
<1>8. CASE Crash
  <2>1. Uncounted' = {}
    BY <1>8 DEF Crash, InProgress, Uncounted
  <2>2. IsFiniteSet({}) /\ Cardinality({}) = 0
    BY FS_EmptySet
  <2>3. faults' = faults + 1 /\ Total' = 0 /\ log' = log
    BY <1>8 DEF Crash, Total, MetricKeys, db
  <2> QED
    BY <1>0, <2>1, <2>2, <2>3 DEF CountInv
<1>9. ASSUME NEW r \in Requests, AdriftRow(r) \/ AdriftLost(r) PROVE CountInv'
  <2>1. Uncounted' = Uncounted
    BY <1>9 DEF AdriftRow, AdriftLost, request, Uncounted
  <2> QED
    BY <1>1, <1>9, <2>1 DEF AdriftRow, AdriftLost, Total, db
<1>10. ASSUME NEW r \in Requests, AdriftEvent(r) PROVE CountInv'
  <2>1. Uncounted' = Uncounted
    BY <1>10 DEF AdriftEvent, request, Uncounted
  <2>2. Total' = Total /\ Len(log') = Len(log) + 1 /\ faults' = faults /\ faults # 0
    BY <1>10 DEF AdriftEvent, Total, TypeOK, CountInv
  <2> QED
    BY <1>0, <2>1, <2>2 DEF CountInv
<1>11. CASE UNCHANGED vars
  BY <1>11 DEF vars, CountInv, Uncounted, Total
<1> QED
  BY <1>2, <1>3, <1>4, <1>5, <1>6, <1>7, <1>8, <1>9, <1>10, <1>11 DEF Next, Step

\* The counters never tell of more events than the log holds, and without faults of
\* exactly those whose handlers have come to count them.
THEOREM CountersFollowLogCorrect == Spec => []CountersFollowLog
<1>1. Init => HandlerInv /\ CountInv
  <2> SUFFICES ASSUME Init PROVE CountInv
    BY HandlerInit
  <2>1. Uncounted = {} /\ Total = 0 /\ Len(log) = 0 /\ adrift = {}
    BY DEF Init, Uncounted, Total, MetricKeys
  <2> QED
    BY <2>1, FS_EmptySet DEF CountInv
<1>2. HandlerInv /\ CountInv /\ [Next]_vars => (HandlerInv /\ CountInv)'
  BY HandlerNext, CountNext
<1>3. CountInv => CountersFollowLog
  BY DEF CountInv, CountersFollowLog, Total, Uncounted
<1> QED
  BY <1>1, <1>2, <1>3, PTL DEF Spec

-----------------------------------------------------------------------------
(* Refinement. *)

\* The ledger's view of the data is the registry's.
LEMMA SameData ==
  ASSUME NEW row, NEW kind, NEW id, NEW entity, NEW event
  PROVE  /\ Ledger!Holds(rows, kind, id) <=> Holds(rows, kind, id)
         /\ Ledger!ReferencesHold(rows, row) <=> ReferencesHold(rows, row)
         /\ Ledger!PriorAgrees(rows, kind, row) <=> PriorAgrees(rows, kind, row)
         /\ Ledger!AllowedRelayEvent(entity, event) <=> AllowedRelayEvent(entity, event)
BY DEF Holds, Ledger!Holds, ReferencesHold, Ledger!ReferencesHold,
       PriorAgrees, Ledger!PriorAgrees, PriorKind, Ledger!PriorKind,
       Subject, Ledger!Subject, AllowedRelayEvent, Ledger!AllowedRelayEvent,
       Entities, Ledger!Entities, Linked, Ledger!Linked

\* Every step of the registry is a step of the ledger or leaves it alone: the
\* checks that handlers make an await or more before they write still hold when
\* the write happens.
THEOREM LedgerImplemented == Spec => ImplementsLedger
<1>1. Init => Ledger!Init
  BY DEF Init, Ledger!Init
<1>2. HandlerInv /\ TablesInv /\ EventsInv /\ [Next]_vars => [Ledger!Next]_(Ledger!vars)
  <2> SUFFICES ASSUME HandlerInv, TablesInv, EventsInv, [Next]_vars
               PROVE  Ledger!Next \/ UNCHANGED <<rows, log>>
    BY DEF Ledger!vars
  <2>1. ASSUME NEW r \in Requests, Inserts(r) PROVE Ledger!Next
    <3> DEFINE row == RowOf(body[r])
    <3>1. Handled(r) /\ Grounded(r)
      BY DEF HandlerInv, TablesInv
    <3>2. body[r] \in Bodies /\ body[r].route \in Entities
      BY <2>1, <3>1 DEF Inserts, Handled, RightAwait, Awaiting
    <3>3. body[r].entity = body[r].route
      BY <3>2, BodiesAssumption DEF SchemaValid
    <3>4. row.prior # None => PriorAgrees(rows, row.kind, row)
      BY <2>1, <3>1, <3>3 DEF Inserts, Grounded, RowOf, PriorAgrees, Subject
    <3>5. ~Holds(rows, row.kind, row.id) /\ ReferencesHold(rows, row)
          /\ rows' = rows \cup {row} /\ log' = log
      BY <2>1 DEF Inserts, RowOf
    <3>6. Ledger!Store(row)
      BY <3>4, <3>5, SameData DEF Ledger!Store
    <3> QED
      BY <3>2, <3>6 DEF Ledger!Next
  <2>2. ASSUME NEW r \in Requests, Logs(r) PROVE Ledger!Next
    <3> DEFINE event == EventOf(r)
    <3>1. Handled(r) /\ Grounded(r)
      BY DEF HandlerInv, TablesInv
    <3>2. body[r] \in Bodies /\ (created[r] <=> body[r].route \in Entities)
          /\ (pc[r] = "event" \/ <<r, "event">> \in adrift)
      BY <2>2, <3>1 DEF Logs, Handled
    <3>3. CASE body[r].route \in Entities
      <4>1. Holds(rows, event.entity, event.id) /\ event.via = "local" /\ event.event = "created"
        <5>1. RowOf(body[r]) \in rows
          BY <3>1, <3>2, <3>3 DEF Grounded
        <5>2. body[r].route # "relay"
          BY <3>3 DEF Entities, Linked
        <5> QED
          BY <3>2, <3>3, <5>1, <5>2, EventsByRoute DEF Holds, RowOf
      <4>2. ~Ledger!Announced(event.entity, event.id)
        <5> SUFFICES ASSUME NEW i \in DOMAIN log, log[i].via = "local", log[i].event = "created",
                            log[i].entity = event.entity, log[i].id = event.id
                     PROVE  FALSE
          BY DEF Ledger!Announced
        <5>1. PICK q \in Requests : Told(q) /\ log[i] = EventOf(q) /\ body[q] \in Bodies
          BY LoggedRequests DEF EventsInv
        <5>2. created[q] /\ body[q].entity = body[r].entity /\ body[q].id = body[r].id
          BY <3>2, <5>1, EventsByRoute DEF Told
        <5>3. q = r
          BY <3>2, <3>3, <5>2 DEF EventsInv, Creators
        <5> QED
          BY <3>2, <5>1, <5>3 DEF Told
      <4>3. Ledger!Record(event)
        BY <2>2, <4>1, <4>2, SameData DEF Logs, Ledger!Record
      <4> QED
        BY <3>2, <4>3 DEF Ledger!Next, EventOf
    <3>4. CASE body[r].route = "status"
      <4>1. event.via = "local" /\ event.event = "status_updated" /\ Holds(rows, "material", event.id)
        BY <3>1, <3>2, <3>4, EventsByRoute DEF Grounded
      <4>2. Ledger!Record(event)
        BY <2>2, <4>1, SameData DEF Logs, Ledger!Record
      <4> QED
        BY <3>2, <4>2 DEF Ledger!Next, EventOf
    <3>5. CASE body[r].route = "relay"
      <4>1. event.via = "relay" /\ AllowedRelayEvent(event.entity, event.event)
        BY <3>1, <3>2, <3>5, EventsByRoute DEF Grounded
      <4>2. Ledger!Record(event)
        BY <2>2, <4>1, SameData DEF Logs, Ledger!Record
      <4> QED
        BY <3>2, <4>2 DEF Ledger!Next, EventOf
    <3> QED
      BY <3>2, <3>3, <3>4, <3>5, EventsByRoute
  <2> QED
    BY <2>1, <2>2, TableStep
<1> QED
  BY <1>1, <1>2, EventsInvariant, PTL DEF Spec, ImplementsLedger, Ledger!Spec

-----------------------------------------------------------------------------
(* Nothing stays silent without a fault: what StoredIsAnnounced says of the *)
(* states, without the fairness that brings it about.                       *)

\* An entity that is announced.
IsAnnounced(row) ==
  \E i \in DOMAIN log : /\ log[i].via = "local" /\ log[i].event = "created"
                        /\ log[i].entity = row.kind /\ log[i].id = row.id

\* A request that asked for a row and has got past its insert, or whose insert may have
\* been executed without it.
AskedBy(r, row) ==
  /\ RowOf(body[r]) = row /\ body[r].route \in Entities
  /\ \/ pc[r] \in {"event", "publish", "lost"}
     \/ pc[r] = "done" /\ status[r] \in {201, 500}

StoredInv == \A row \in rows : \E r \in Requests : AskedBy(r, row)

\* A request that has asked for a row goes on to tell of it, or fails.
LEMMA AskedNext ==
  ASSUME HandlerInv, [Next]_vars, NEW row, NEW r \in Requests, AskedBy(r, row)
  PROVE  AskedBy(r, row)'
<1> TypeOK /\ \A q \in Requests : Handled(q)
  BY DEF HandlerInv
<1>0. pc[r] # "idle" /\ body'[r] = body[r]
  <2>1. pc[r] # "idle"
    BY DEF AskedBy
  <2> QED
    BY <2>1, BodyKept
<1> DEFINE Goal == \/ pc'[r] \in {"event", "publish", "lost"}
                   \/ pc'[r] = "done" /\ status'[r] \in {201, 500}
<1> SUFFICES Goal
  BY <1>0 DEF AskedBy
<1>1. ASSUME pc'[r] = pc[r], status'[r] = status[r] PROVE Goal
  BY <1>1 DEF AskedBy
<1>2. ASSUME NEW q \in Requests,
             \/ Arrive(q) \/ CheckMaterial(q) \/ CheckProduct(q) \/ CheckPrior(q)
             \/ InsertRow(q) \/ InsertConflict(q)
      PROVE  Goal
  <2>1. q # r
    BY <1>2 DEF AskedBy, Arrive, CheckMaterial, CheckProduct, CheckPrior, InsertRow,
                InsertConflict
  <2>2. pc'[r] = pc[r] /\ status'[r] = status[r]
    BY <1>2, <2>1 DEF Arrive, CheckMaterial, CheckProduct, CheckPrior, InsertRow,
                      InsertConflict, GoTo, Reply, Created, TypeOK
  <2> QED
    BY <1>1, <2>2
<1>3. ASSUME NEW q \in Requests, LogEvent(q) PROVE Goal
  BY <1>3 DEF AskedBy, LogEvent, GoTo, TypeOK
<1>4. ASSUME NEW q \in Requests, Publish(q) PROVE Goal
  BY <1>4 DEF AskedBy, Publish, Reply, TypeOK, Entities, Linked
<1>5. ASSUME NEW q \in Requests, StatementFails(q) PROVE Goal
  BY <1>5 DEF AskedBy, StatementFails, Reply, TypeOK
<1>6. CASE Crash
  BY <1>6 DEF AskedBy, Crash, InProgress, TypeOK
<1>7. ASSUME NEW q \in Requests, AdriftRow(q) \/ AdriftEvent(q) \/ AdriftLost(q) PROVE Goal
  BY <1>1, <1>7 DEF AdriftRow, AdriftEvent, AdriftLost, request
<1>8. CASE UNCHANGED vars
  BY <1>1, <1>8 DEF vars, request
<1> QED
  BY <1>2, <1>3, <1>4, <1>5, <1>6, <1>7, <1>8 DEF Next, Step

LEMMA StoredNext == HandlerInv /\ StoredInv /\ [Next]_vars => StoredInv'
<1> SUFFICES ASSUME HandlerInv, StoredInv, [Next]_vars, NEW row \in rows'
             PROVE  \E r \in Requests : AskedBy(r, row)'
  BY DEF StoredInv
<1>1. CASE row \in rows
  BY <1>1, AskedNext DEF StoredInv
<1>2. CASE row \notin rows
  <2> TypeOK /\ \A q \in Requests : Handled(q)
    BY DEF HandlerInv
  <2>1. PICK r \in Requests : InsertRow(r) \/ AdriftRow(r)
    BY <1>2 DEF Next, Step, Arrive, CheckMaterial, CheckProduct, CheckPrior, InsertConflict,
                LogEvent, Publish, StatementFails, Crash, AdriftEvent, AdriftLost, db, vars
  <2>2. /\ rows' = rows \cup {RowOf(body[r])} /\ body' = body
        /\ pc[r] = "insert" \/ <<r, "row">> \in adrift
    BY <2>1 DEF InsertRow, AdriftRow, Created, request
  <2>3. row = RowOf(body[r]) /\ body[r].route \in Entities
    <3>1. Handled(r)
      OBVIOUS
    <3>2. body[r].route \in Entities
      BY <2>2, <3>1 DEF Handled, RightAwait, Awaiting
    <3> QED
      BY <1>2, <2>2, <3>2
  <2>4. CASE InsertRow(r)
    BY <2>2, <2>3, <2>4 DEF AskedBy, InsertRow, Created, TypeOK
  <2>5. CASE AdriftRow(r)
    <3>1. Handled(r) /\ <<r, "row">> \in adrift
      BY <2>5 DEF AdriftRow
    <3>2. pc[r] = "lost" \/ (pc[r] = "done" /\ status[r] = 500)
      BY <3>1 DEF Handled
    <3> QED
      BY <2>2, <2>3, <2>5, <3>2 DEF AskedBy, AdriftRow, request
  <2> QED
    BY <2>1, <2>4, <2>5
<1> QED
  BY <1>1, <1>2

\* A stored entity without an event is about to be announced, or its request met a fault:
\* was answered 500, or died with the process. So once nothing fails and every request is
\* over, what is stored is announced, once.
THEOREM SilenceHasAFault ==
  Spec => [](\A row \in rows :
               \/ IsAnnounced(row)
               \/ \E r \in Requests : /\ RowOf(body[r]) = row
                                      /\ pc[r] \in {"event", "lost"} \/ status[r] = 500)
<1>1. Spec => [](HandlerInv /\ TablesInv /\ EventsInv) /\ []StoredInv
  <2>1. Init => StoredInv
    BY DEF Init, StoredInv
  <2> QED
    BY <2>1, StoredNext, EventsInvariant, PTL DEF Spec
<1>2. ASSUME HandlerInv, EventsInv, NEW row, NEW r \in Requests, AskedBy(r, row), Logged(r)
      PROVE  IsAnnounced(row)
  <2>1. PICK i \in DOMAIN log : log[i].req = r
    BY <1>2 DEF Logged
  <2>2. PICK q \in Requests : log[i] = EventOf(q) /\ body[q] \in Bodies
    BY <1>2, LoggedRequests DEF EventsInv
  <2>3. q = r
    BY <2>1, <2>2, EventFields
  <2>4. body[r].route # "relay" /\ row.kind = body[r].entity /\ row.id = body[r].id
        /\ body[r].route \in Entities
    BY <1>2 DEF AskedBy, RowOf, Entities, Linked
  <2> QED
    BY <2>2, <2>3, <2>4, EventsByRoute DEF IsAnnounced
<1>3. HandlerInv /\ TablesInv /\ EventsInv /\ StoredInv =>
        \A row \in rows :
          \/ IsAnnounced(row)
          \/ \E r \in Requests : /\ RowOf(body[r]) = row
                                 /\ pc[r] \in {"event", "lost"} \/ status[r] = 500
  <2> SUFFICES ASSUME HandlerInv, EventsInv, StoredInv, NEW row \in rows, ~IsAnnounced(row)
               PROVE  \E r \in Requests : /\ RowOf(body[r]) = row
                                          /\ pc[r] \in {"event", "lost"} \/ status[r] = 500
    OBVIOUS
  <2>1. PICK r \in Requests : AskedBy(r, row)
    BY DEF StoredInv
  <2>2. ~Logged(r)
    BY <1>2, <2>1
  <2>3. pc[r] # "publish" /\ status[r] # 201
    BY <2>2 DEF EventsInv, StreamInv
  <2> QED
    BY <2>1, <2>3 DEF AskedBy
<1> QED
  BY <1>1, <1>3, PTL

-----------------------------------------------------------------------------
(* What the modules that put a registry next to other things need of it. *)

\* What a node does when nobody sends it a request.
Serve ==
  \/ \E r \in Requests :
       Step(r) \/ StatementFails(r) \/ AdriftRow(r) \/ AdriftEvent(r) \/ AdriftLost(r)
  \/ Crash

\* It serves the requests it has as they were sent, and takes no answer back.
LEMMA ServeStep ==
  ASSUME HandlerInv, Serve
  PROVE  /\ Next
         /\ body' = body
         /\ \A q \in Requests : /\ pc'[q] = "idle" <=> pc[q] = "idle"
                                /\ status[q] # 0 => status'[q] = status[q]
<1> DEFINE Goal == /\ body' = body
                   /\ \A q \in Requests : /\ pc'[q] = "idle" <=> pc[q] = "idle"
                                          /\ status[q] # 0 => status'[q] = status[q]
<1> TypeOK /\ \A r \in Requests : pc[r] # "done" => status[r] = 0
  BY DEF HandlerInv, Handled
<1> SUFFICES Goal
  BY DEF Serve, Next
<1>1. ASSUME NEW r \in Requests, CheckMaterial(r) \/ CheckProduct(r) \/ CheckPrior(r) PROVE Goal
  <2>1. AfterMaterial(body[r]) # "idle" /\ AfterProduct(body[r]) # "idle"
    BY DEF AfterMaterial, AfterProduct
  <2> QED
    BY <1>1, <2>1 DEF CheckMaterial, CheckProduct, CheckPrior, GoTo, Reply, TypeOK
<1>2. ASSUME NEW r \in Requests, InsertRow(r) \/ InsertConflict(r) PROVE Goal
  BY <1>2 DEF InsertRow, InsertConflict, Created, Reply, TypeOK
<1>3. ASSUME NEW r \in Requests, LogEvent(r) \/ Publish(r) PROVE Goal
  BY <1>3 DEF LogEvent, Publish, GoTo, Reply, TypeOK
<1>4. ASSUME NEW r \in Requests, StatementFails(r) PROVE Goal
  BY <1>4 DEF StatementFails, Awaiting, Reply, TypeOK
<1>5. CASE Crash
  BY <1>5 DEF Crash, InProgress, TypeOK
<1>6. ASSUME NEW r \in Requests, AdriftRow(r) \/ AdriftEvent(r) \/ AdriftLost(r) PROVE Goal
  BY <1>6 DEF AdriftRow, AdriftEvent, AdriftLost, request
<1> QED
  BY <1>1, <1>2, <1>3, <1>4, <1>5, <1>6 DEF Serve, Step

\* A request that comes in is the only thing that changes.
LEMMA ArriveStep ==
  ASSUME TypeOK, NEW r \in Requests, Arrive(r)
  PROVE  /\ Next
         /\ pc[r] = "idle" /\ rows' = rows /\ log' = log
         /\ \A q \in Requests \ {r} : pc'[q] = pc[q] /\ body'[q] = body[q] /\ status'[q] = status[q]
BY DEF Arrive, Next, TypeOK, db

\* Rows and events come from requests the node was sent.
LEMMA RowsStep ==
  ASSUME HandlerInv, [Next]_vars
  PROVE  \/ rows' = rows
         \/ \E r \in Requests : /\ pc[r] # "idle" /\ body[r].route \in Entities
                                /\ rows' = rows \cup {RowOf(body[r])}
<1>1. ASSUME NEW r \in Requests, Inserts(r) PROVE pc[r] # "idle" /\ body[r].route \in Entities
  BY <1>1 DEF Inserts, HandlerInv, Handled, RightAwait, Awaiting
<1> QED
  BY <1>1, TableStep DEF Inserts, Logs

LEMMA LogStep ==
  ASSUME HandlerInv, [Next]_vars
  PROVE  \/ log' = log
         \/ \E r \in Requests : pc[r] # "idle" /\ log' = Append(log, EventOf(r))
<1>1. ASSUME NEW r \in Requests, Logs(r) PROVE pc[r] # "idle"
  BY <1>1 DEF Logs, HandlerInv, Handled
<1> QED
  BY <1>1, TableStep DEF Inserts, Logs

\* An event is that of a request the node was sent, whose entity is stored; no
\* request has two.
LEMMA WhatIsLogged ==
  ASSUME HandlerInv, TablesInv, EventsInv
  PROVE  /\ \A i \in DOMAIN log :
              \E r \in Requests : /\ pc[r] # "idle" /\ log[i] = EventOf(r)
                                  /\ body[r].route \in Entities => RowOf(body[r]) \in rows
         /\ \A i, j \in DOMAIN log : log[i].req = log[j].req => i = j
<1>1. ASSUME NEW i \in DOMAIN log
      PROVE  \E r \in Requests : /\ pc[r] # "idle" /\ log[i] = EventOf(r)
                                 /\ body[r].route \in Entities => RowOf(body[r]) \in rows
  <2>1. PICK r \in Requests : Told(r) /\ log[i] = EventOf(r)
    BY DEF EventsInv, LogInv
  <2>2. pc[r] # "idle" /\ (body[r].route \in Entities => RowOf(body[r]) \in rows)
    BY <2>1 DEF Told, TablesInv, Grounded
  <2> QED
    BY <2>1, <2>2
<1> QED
  BY <1>1 DEF EventsInv, LogInv

\* What a positive answer tells.
LEMMA WhatIsAnswered ==
  ASSUME HandlerInv, TablesInv, EventsInv, NEW r \in Requests, status[r] \in {201, 202}
  PROVE  /\ pc[r] # "idle"
         /\ body[r].route \in Entities => RowOf(body[r]) \in rows
         /\ \E i \in DOMAIN log : log[i].req = r
<1>1. Handled(r) /\ Grounded(r)
  BY DEF HandlerInv, TablesInv
<1> QED
  BY <1>1 DEF Handled, Grounded, EventsInv, StreamInv, Logged
=============================================================================
