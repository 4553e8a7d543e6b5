-------------------------- MODULE LabFederation_proofs --------------------------
(***************************************************************************)
(* Proofs about LabFederation, for any number of runs of the scripts at the *)
(* same time and any number of faults at both nodes.                        *)
(***************************************************************************)
EXTENDS LabFederation, LoopRegistry_proofs, SequenceTheorems

\* What is proved of a registry holds of node B, too.
PeerNode == INSTANCE LoopRegistry_proofs WITH
              pc <- peerPc, body <- peerBody, created <- peerCreated,
              status <- peerStatus, rows <- peerRows, log <- peerLog,
              published <- peerPublished, metrics <- peerMetrics,
              adrift <- peerAdrift, faults <- peerFaults

NodeAInv == HandlerInv /\ TablesInv /\ EventsInv
NodeBInv == PeerNode!HandlerInv /\ PeerNode!TablesInv /\ PeerNode!EventsInv

labVars == <<scripts, vars, peer>>

-----------------------------------------------------------------------------
(* The inductive invariant. *)

\* What a request asks for: the request <<run, s>> is that of step s of the run's plan.
Asked(r) == Plan(r[1])[r[2]]

\* A run has come past a request, or is with it at one of these places in the script.
Reached(r, places) ==
  \/ r[2] < step[r[1]]
  \/ r[2] = step[r[1]] /\ script[r[1]] \in places

\* The requests a run is past were answered with success by both nodes, those it has
\* not come to were sent to neither.
Place(r) ==
  /\ pc[r] # "idle" =>
       Reached(r, {"posted", "relayed", "finished", "failed"}) /\ body[r] = Asked(r)
  /\ Reached(r, {"relayed", "finished"}) => status[r] = 201
  /\ peerPc[r] # "idle" =>
       /\ r[1] \in Relaying /\ Reached(r, {"relayed", "finished", "failed"})
       /\ status[r] = 201
       /\ peerBody[r] = RelayOf(Asked(r))
  /\ r[1] \in Relaying /\ Reached(r, {"finished"}) => peerStatus[r] = 202

ScriptTypes ==
  /\ script \in [Runs -> {"off", "post", "posted", "relayed", "finished", "failed"}]
  /\ step \in [Runs -> 1..8]
  /\ \A run \in Runs : /\ step[run] <= Len(Plan(run))
                       /\ script[run] = "finished" => step[run] = Len(Plan(run))
                       /\ script[run] = "relayed" => run \in Relaying

Places == \A r \in Requests : Place(r)

\* Every entity is one that a request asked for.
RowsInv ==
  \A row \in rows : \E r \in Requests : pc[r] # "idle" /\ row = RowOf(body[r])

\* A log tells the steps of a run in their order.
InOrder(events) ==
  \A i, j \in DOMAIN events :
    i < j /\ events[i].req[1] = events[j].req[1] => events[i].req[2] < events[j].req[2]

LabInv == ScriptTypes /\ Places /\ RowsInv /\ InOrder(log) /\ InOrder(peerLog)

-----------------------------------------------------------------------------
(* Both nodes are registries. *)

LEMMA PeerAssumptions ==
  /\ Bodies \subseteq PeerNode!Body /\ \A b \in Bodies : PeerNode!SchemaValid(b)
  /\ MaxFaults \in Nat /\ None \notin Ids
BY BodiesAssumption, MaxFaultsAssumption, NoneAssumption
DEF Body, SchemaValid, Routes, Entities, Linked, EventTypes,
    PeerNode!Body, PeerNode!SchemaValid, PeerNode!Routes, PeerNode!Entities,
    PeerNode!Linked, PeerNode!EventTypes

LEMMA PeerArrives ==
  ASSUME NEW r \in Requests, Peer!Arrive(r)
  PROVE  PeerNode!Arrive(r)
BY DEF Peer!Arrive, PeerNode!Arrive, Peer!Refusal, PeerNode!Refusal,
       Peer!AllowedRelayEvent, PeerNode!AllowedRelayEvent, Peer!FirstAwait, PeerNode!FirstAwait,
       Peer!AfterMaterial, PeerNode!AfterMaterial, Peer!AfterProduct, PeerNode!AfterProduct,
       Peer!Entities, PeerNode!Entities, Peer!Linked, PeerNode!Linked, Peer!db, PeerNode!db

\* The definitions by which the two instances agree on what a row or an event is.
LEMMA PeerData ==
  /\ \A b : Peer!RowOf(b) = PeerNode!RowOf(b)
  /\ \A r \in Requests : Peer!EventOf(r) = PeerNode!EventOf(r)
  /\ \A R, kind, id : Peer!Holds(R, kind, id) <=> PeerNode!Holds(R, kind, id)
  /\ \A R, row : Peer!ReferencesHold(R, row) <=> PeerNode!ReferencesHold(R, row)
  /\ \A R, kind, x : Peer!PriorAgrees(R, kind, x) <=> PeerNode!PriorAgrees(R, kind, x)
  /\ \A kind : Peer!PriorKind(kind) = PeerNode!PriorKind(kind)
  /\ \A b : Peer!AfterMaterial(b) = PeerNode!AfterMaterial(b)
  /\ \A b : Peer!AfterProduct(b) = PeerNode!AfterProduct(b)
  /\ \A b : Peer!Counted(b) = PeerNode!Counted(b)
  /\ \A r : Peer!Unheard(r) = PeerNode!Unheard(r)
<1>1. \A kind : Peer!PriorKind(kind) = PeerNode!PriorKind(kind)
  BY DEF Peer!PriorKind, PeerNode!PriorKind
<1>2. \A R, kind, id : Peer!Holds(R, kind, id) <=> PeerNode!Holds(R, kind, id)
  BY DEF Peer!Holds, PeerNode!Holds
<1>3. \A R, row : Peer!ReferencesHold(R, row) <=> PeerNode!ReferencesHold(R, row)
  BY <1>1, <1>2 DEF Peer!ReferencesHold, PeerNode!ReferencesHold
<1>4. \A x : Peer!Subject(x) = PeerNode!Subject(x)
  BY DEF Peer!Subject, PeerNode!Subject
<1>5. \A R, kind, x : Peer!PriorAgrees(R, kind, x) <=> PeerNode!PriorAgrees(R, kind, x)
  BY <1>1, <1>4 DEF Peer!PriorAgrees, PeerNode!PriorAgrees
<1>6. \A b : Peer!AfterProduct(b) = PeerNode!AfterProduct(b)
  BY DEF Peer!AfterProduct, PeerNode!AfterProduct
<1>7. \A b : Peer!AfterMaterial(b) = PeerNode!AfterMaterial(b)
  BY <1>6 DEF Peer!AfterMaterial, PeerNode!AfterMaterial
<1>8. \A r \in Requests : Peer!EventOf(r) = PeerNode!EventOf(r)
  BY DEF Peer!EventOf, PeerNode!EventOf, Peer!EventFor, PeerNode!EventFor
<1>9. \A b : Peer!Counted(b) = PeerNode!Counted(b)
  BY DEF Peer!Counted, PeerNode!Counted
<1>10. \A r : Peer!Unheard(r) = PeerNode!Unheard(r)
  BY DEF Peer!Unheard, PeerNode!Unheard
<1>11. \A b : Peer!RowOf(b) = PeerNode!RowOf(b)
  BY DEF Peer!RowOf, PeerNode!RowOf
<1> QED
  BY <1>1, <1>2, <1>3, <1>5, <1>6, <1>7, <1>8, <1>9, <1>10, <1>11

LEMMA PeerServes ==
  ASSUME NEW r \in Requests
  PROVE  /\ Peer!Step(r) => PeerNode!Step(r)
         /\ Peer!StatementFails(r) => PeerNode!StatementFails(r)
         /\ Peer!AdriftRow(r) => PeerNode!AdriftRow(r)
         /\ Peer!AdriftEvent(r) => PeerNode!AdriftEvent(r)
         /\ Peer!AdriftLost(r) => PeerNode!AdriftLost(r)
<1>1. /\ Peer!CheckMaterial(r) => PeerNode!CheckMaterial(r)
      /\ Peer!CheckProduct(r) => PeerNode!CheckProduct(r)
      /\ Peer!CheckPrior(r) => PeerNode!CheckPrior(r)
  BY PeerData DEF Peer!CheckMaterial, PeerNode!CheckMaterial, Peer!CheckProduct,
     PeerNode!CheckProduct, Peer!CheckPrior, PeerNode!CheckPrior, Peer!GoTo, PeerNode!GoTo,
     Peer!Reply, PeerNode!Reply, Peer!db, PeerNode!db
<1>2. /\ Peer!InsertRow(r) => PeerNode!InsertRow(r)
      /\ Peer!InsertConflict(r) => PeerNode!InsertConflict(r)
  BY PeerData DEF Peer!InsertRow, PeerNode!InsertRow, Peer!InsertConflict,
     PeerNode!InsertConflict, Peer!Created, PeerNode!Created, Peer!Reply, PeerNode!Reply,
     Peer!db, PeerNode!db
<1>3. /\ Peer!LogEvent(r) => PeerNode!LogEvent(r)
      /\ Peer!Publish(r) => PeerNode!Publish(r)
  BY PeerData DEF Peer!LogEvent, PeerNode!LogEvent, Peer!Publish, PeerNode!Publish,
     Peer!GoTo, PeerNode!GoTo, Peer!Reply, PeerNode!Reply, Peer!db, PeerNode!db
<1>4. Peer!StatementFails(r) => PeerNode!StatementFails(r)
  BY PeerData DEF Peer!StatementFails, PeerNode!StatementFails, Peer!Awaiting,
     PeerNode!Awaiting, Peer!Reply, PeerNode!Reply, Peer!db, PeerNode!db
<1>5. /\ Peer!AdriftRow(r) => PeerNode!AdriftRow(r)
      /\ Peer!AdriftEvent(r) => PeerNode!AdriftEvent(r)
      /\ Peer!AdriftLost(r) => PeerNode!AdriftLost(r)
  BY PeerData DEF Peer!AdriftRow, PeerNode!AdriftRow, Peer!AdriftEvent, PeerNode!AdriftEvent,
     Peer!AdriftLost, PeerNode!AdriftLost, Peer!request, PeerNode!request, Peer!db, PeerNode!db
<1> QED
  BY <1>1, <1>2, <1>3, <1>4, <1>5 DEF Peer!Step, PeerNode!Step

LEMMA PeerCrashes == Peer!Crash => PeerNode!Crash
BY PeerData DEF Peer!Crash, PeerNode!Crash, Peer!InProgress, PeerNode!InProgress,
   Peer!MetricKeys, PeerNode!MetricKeys, Peer!Entities, PeerNode!Entities, Peer!Linked,
   PeerNode!Linked, Peer!db, PeerNode!db

\* What happens to one node is a step of its registry and nothing to the other.
LEMMA NodeAServes == NodeA => Serve /\ UNCHANGED <<scripts, peer>>
BY DEF NodeA, Serve

LEMMA NodeBServes == NodeB => PeerNode!Serve /\ UNCHANGED <<scripts, vars>>
BY PeerServes, PeerCrashes DEF NodeB, PeerNode!Serve

-----------------------------------------------------------------------------
(* The scripts. *)

\* What a plan is made of.
LEMMA PlanFacts ==
  ASSUME NEW run \in Runs
  PROVE  /\ Len(Plan(run)) \in 1..8
         /\ \A s \in 1..Len(Plan(run)) :
              /\ Plan(run)[s].route \in Entities /\ Plan(run)[s].id = <<run, s>>
              /\ RelayOf(Plan(run)[s]).id = <<run, s>>
<1> DEFINE Good(b, s) == b.route \in Entities /\ b.id = <<run, s>> /\ RelayOf(b).id = <<run, s>>
<1>1. ASSUME NEW route \in Entities, NEW s \in 1..8, NEW m, NEW p, NEW x
      PROVE  Good(Creation(route, <<run, s>>, m, p, x), s)
  BY <1>1 DEF Creation, RelayOf
<1> HIDE DEF Good
<1>2. CASE run \in Relaying
  <2>1. PICK a, b, c, d : /\ Plan(run) = <<a, b, c, d>>
                          /\ Good(a, 1) /\ Good(b, 2) /\ Good(c, 3) /\ Good(d, 4)
    BY <1>1, <1>2 DEF Plan, Entities, Linked
  <2> QED
    BY <2>1 DEF Good
<1>3. CASE run \notin Relaying
  <2>1. PICK a, b, c, d : /\ Good(a, 1) /\ Good(b, 2) /\ Good(c, 3) /\ Good(d, 4)
                          /\ \E e, f, g, h :
                               /\ Good(e, 5) /\ Good(f, 6) /\ Good(g, 7) /\ Good(h, 8)
                               /\ Plan(run) = <<a, b, c, d>> \o <<e, f, g, h>>
    BY <1>1, <1>3 DEF Plan, Entities, Linked
  <2>2. PICK e, f, g, h : /\ Good(e, 5) /\ Good(f, 6) /\ Good(g, 7) /\ Good(h, 8)
                          /\ Plan(run) = <<a, b, c, d>> \o <<e, f, g, h>>
    BY <2>1
  <2>3. Len(<<a, b, c, d>> \o <<e, f, g, h>>) = 8
    OBVIOUS
  <2>4. ASSUME NEW s \in 1..8 PROVE Good((<<a, b, c, d>> \o <<e, f, g, h>>)[s], s)
    BY <2>1, <2>2
  <2> QED
    BY <2>2, <2>3, <2>4 DEF Good
<1> QED
  BY <1>2, <1>3

LEMMA TypesNext ==
  ASSUME ScriptTypes, [LabNext]_labVars
  PROVE  ScriptTypes'
<1>1. ASSUME NEW run \in Runs, Start(run) \/ Post(run) \/ Relay(run) \/ GiveUp(run)
      PROVE  ScriptTypes'
  BY <1>1 DEF Start, Post, Relay, GiveUp, ScriptTypes
<1>2. ASSUME NEW run \in Runs, Advance(run) PROVE ScriptTypes'
  <2>1. step[run] \in 1..8 /\ step[run] <= Len(Plan(run))
    BY DEF ScriptTypes
  <2>2. CASE step[run] = Len(Plan(run))
    BY <1>2, <2>2 DEF Advance, ScriptTypes
  <2>3. CASE step[run] # Len(Plan(run))
    <3>1. \A n \in 1..8, k \in 1..8 : k <= n /\ k # n => k + 1 \in 1..8 /\ k + 1 <= n
      OBVIOUS
    <3>2. step[run] + 1 \in 1..8 /\ step[run] + 1 <= Len(Plan(run))
      BY <2>1, <2>3, <3>1, PlanFacts
    <3> QED
      BY <1>2, <2>3, <3>2 DEF Advance, ScriptTypes
  <2> QED
    BY <2>2, <2>3
<1>3. CASE UNCHANGED scripts
  BY <1>3 DEF scripts, ScriptTypes
<1> QED
  BY <1>1, <1>2, <1>3
  DEF LabNext, labVars, NodeA, NodeB, Accepted, RelayAccepted

LEMMA TypesInit == LabInit => ScriptTypes
<1>1. ASSUME NEW run \in Runs PROVE 1 <= Len(Plan(run))
  <2>1. Len(Plan(run)) \in 1..8
    BY PlanFacts
  <2> QED
    BY <2>1
<1> QED
  BY <1>1 DEF LabInit, ScriptTypes

LEMMA TypesInvariant == LabSpec => []ScriptTypes
BY TypesInit, TypesNext, PTL DEF LabSpec, labVars

LEMMA RunSteps ==
  /\ \A run \in Runs, s \in 1..8 : <<run, s>> \in Requests /\ <<run, s>>[1] = run /\ <<run, s>>[2] = s
  /\ \A r \in Requests : r[1] \in Runs /\ r[2] \in 1..8 /\ r = <<r[1], r[2]>>
  /\ ScriptTypes =>
       \A run \in Runs :
         /\ Current(run) \in Requests
         /\ \A r \in Requests : r = Current(run) <=> r[1] = run /\ r[2] = step[run]
BY LabAssumption DEF RunStep, Current, ScriptTypes

-----------------------------------------------------------------------------
(* What happens at the nodes. *)

LEMMA RegistrySteps ==
  ASSUME ScriptTypes, [LabNext]_labVars
  PROVE  [Next]_vars /\ [PeerNode!Next]_(PeerNode!vars)
<1> DEFINE Goal == [Next]_vars /\ [PeerNode!Next]_(PeerNode!vars)
<1> SUFFICES Goal
  OBVIOUS
<1>1. ASSUME NEW run \in Runs, Start(run) \/ Accepted(run) \/ RelayAccepted(run) \/ GiveUp(run)
      PROVE  Goal
  BY <1>1 DEF Start, Accepted, RelayAccepted, GiveUp, peer, PeerNode!vars
<1>2. ASSUME NEW run \in Runs, Post(run) PROVE Goal
  BY <1>2, RunSteps DEF Post, Next, peer, PeerNode!vars
<1>3. ASSUME NEW run \in Runs, Relay(run) PROVE Goal
  BY <1>3, RunSteps, PeerArrives DEF Relay, PeerNode!Next
<1>4. CASE NodeA
  BY <1>4, NodeAServes DEF Serve, Next, peer, PeerNode!vars
<1>5. CASE NodeB
  BY <1>5, NodeBServes DEF PeerNode!Serve, PeerNode!Next
<1>6. CASE UNCHANGED labVars
  BY <1>6 DEF labVars, peer, PeerNode!vars
<1> QED
  BY <1>1, <1>2, <1>3, <1>4, <1>5, <1>6 DEF LabNext

\* Each node by itself is a registry that clients send requests to, so all that is
\* proved of LoopRegistry holds of both.
THEOREM NodesAreRegistries == LabSpec => Spec /\ PeerNode!Spec
<1>1. LabInit => Init /\ PeerNode!Init
  BY DEF LabInit, Peer!Init, PeerNode!Init, Peer!MetricKeys, PeerNode!MetricKeys,
         Peer!Entities, PeerNode!Entities, Peer!Linked, PeerNode!Linked
<1> QED
  BY <1>1, RegistrySteps, TypesInvariant, PTL DEF LabSpec, labVars, Spec, PeerNode!Spec

LEMMA NodesInvariant == LabSpec => [](NodeAInv /\ NodeBInv)
<1>1. PeerNode!Spec => []NodeBInv
  BY PeerNode!EventsInvariant, PeerAssumptions DEF NodeBInv
<1>2. Spec => []NodeAInv
  BY EventsInvariant DEF NodeAInv
<1> QED
  BY <1>1, <1>2, NodesAreRegistries, PTL

\* A step of the scripts moves one run; its request is its own.
LEMMA PlacesAfterScript ==
  ASSUME ScriptTypes, NodeAInv, NodeBInv, Places, NEW run \in Runs, NEW r \in Requests,
         \/ Start(run) \/ Post(run) \/ Accepted(run) \/ Relay(run)
         \/ RelayAccepted(run) \/ GiveUp(run)
  PROVE  Place(r)'
<1>1. /\ Place(r) /\ Current(run) \in Requests
      /\ r[1] \in Runs /\ r[2] \in 1..8 /\ step[r[1]] \in 1..8
      /\ r = Current(run) <=> r[1] = run /\ r[2] = step[run]
  BY RunSteps DEF Places, ScriptTypes
<1>2. CASE Start(run) \/ GiveUp(run)
  <2>1. UNCHANGED <<step, pc, body, status, peerPc, peerBody, peerStatus>>
    BY <1>2 DEF Start, GiveUp, vars, peer
  <2>2. \/ script[run] = "off" /\ script' = [script EXCEPT ![run] = "post"]
        \/ /\ script[run] \in {"post", "posted", "relayed"}
           /\ script' = [script EXCEPT ![run] = "failed"]
    BY <1>2 DEF Start, GiveUp
  <2>3. CASE r[1] = run
    BY <1>1, <2>1, <2>2, <2>3 DEF Place, Reached, Asked, ScriptTypes
  <2>4. CASE r[1] # run
    BY <1>1, <2>1, <2>2, <2>4 DEF Place, Reached, Asked, ScriptTypes
  <2> QED
    BY <2>3, <2>4
<1>3. CASE Post(run)
  <2>1. /\ Arrive(Current(run)) /\ body'[Current(run)] = Asked(Current(run))
        /\ script[run] = "post" /\ script' = [script EXCEPT ![run] = "posted"]
        /\ step' = step /\ peerPc' = peerPc /\ peerBody' = peerBody /\ peerStatus' = peerStatus
    BY <1>3 DEF Post, peer, Asked, Current
  <2>2. \A q \in Requests \ {Current(run)} :
          pc'[q] = pc[q] /\ body'[q] = body[q] /\ status'[q] = status[q]
    BY <1>1, <2>1, ArriveStep DEF NodeAInv, HandlerInv
  <2>3. CASE r = Current(run)
    BY <1>1, <2>1, <2>3 DEF Place, Reached, Asked, ScriptTypes
  <2>4. CASE r # Current(run)
    BY <1>1, <2>1, <2>2, <2>4 DEF Place, Reached, Asked, ScriptTypes
  <2> QED
    BY <2>3, <2>4
<1>4. CASE Relay(run)
  <2>1. /\ PeerNode!Arrive(Current(run)) /\ peerBody'[Current(run)] = RelayOf(Asked(Current(run)))
        /\ script[run] = "posted" /\ status[Current(run)] = 201 /\ run \in Relaying
        /\ script' = [script EXCEPT ![run] = "relayed"]
        /\ step' = step /\ pc' = pc /\ body' = body /\ status' = status
    BY <1>1, <1>4, PeerArrives DEF Relay, Created201, vars, Asked, Current
  <2>2. \A q \in Requests \ {Current(run)} :
          peerPc'[q] = peerPc[q] /\ peerBody'[q] = peerBody[q] /\ peerStatus'[q] = peerStatus[q]
    BY <1>1, <2>1, PeerNode!ArriveStep, PeerAssumptions DEF NodeBInv, PeerNode!HandlerInv
  <2>3. CASE r = Current(run)
    BY <1>1, <2>1, <2>3 DEF Place, Reached, Asked, ScriptTypes
  <2>4. CASE r # Current(run)
    BY <1>1, <2>1, <2>2, <2>4 DEF Place, Reached, Asked, ScriptTypes
  <2> QED
    BY <2>3, <2>4
<1>5. CASE Accepted(run) \/ RelayAccepted(run)
  <2>1. /\ Advance(run)
        /\ \/ run \notin Relaying /\ script[run] = "posted" /\ status[Current(run)] = 201
           \/ script[run] = "relayed" /\ peerStatus[Current(run)] = 202
        /\ UNCHANGED <<pc, body, status, peerPc, peerBody, peerStatus>>
    BY <1>5 DEF Accepted, RelayAccepted, Created201, vars, peer
  <2>2. CASE r[1] # run
    BY <1>1, <2>1, <2>2 DEF Advance, Place, Reached, Asked, ScriptTypes
  <2>3. CASE r[1] = run /\ step[run] = Len(Plan(run))
    BY <1>1, <2>1, <2>3 DEF Advance, Place, Reached, Asked, ScriptTypes
  <2>4. CASE r[1] = run /\ step[run] # Len(Plan(run))
    BY <1>1, <2>1, <2>4 DEF Advance, Place, Reached, Asked, ScriptTypes
  <2> QED
    BY <2>2, <2>3, <2>4
<1> QED
  BY <1>2, <1>3, <1>4, <1>5

LEMMA PlacesNext ==
  ASSUME ScriptTypes, NodeAInv, NodeBInv, Places, [LabNext]_labVars
  PROVE  Places'
<1> SUFFICES ASSUME NEW r \in Requests PROVE Place(r)'
  BY DEF Places
<1>1. Place(r)
  BY DEF Places
<1>2. CASE NodeA
  <2>1. /\ body' = body /\ (pc'[r] = "idle" <=> pc[r] = "idle")
        /\ status[r] # 0 => status'[r] = status[r]
    BY <1>2, NodeAServes, ServeStep DEF NodeAInv
  <2>2. UNCHANGED <<script, step, peerPc, peerBody, peerStatus>>
    BY <1>2, NodeAServes DEF scripts, peer
  <2> QED
    BY <1>1, <2>1, <2>2 DEF Place, Reached, Asked
<1>3. CASE NodeB
  <2>1. /\ peerBody' = peerBody /\ (peerPc'[r] = "idle" <=> peerPc[r] = "idle")
        /\ peerStatus[r] # 0 => peerStatus'[r] = peerStatus[r]
    BY <1>3, NodeBServes, PeerNode!ServeStep, PeerAssumptions DEF NodeBInv
  <2>2. UNCHANGED <<script, step, pc, body, status>>
    BY <1>3, NodeBServes DEF scripts, vars
  <2> QED
    BY <1>1, <2>1, <2>2 DEF Place, Reached, Asked
<1>4. CASE UNCHANGED labVars
  BY <1>1, <1>4 DEF labVars, scripts, vars, peer, Place, Reached, Asked
<1> QED
  BY <1>2, <1>3, <1>4, PlacesAfterScript DEF LabNext

LEMMA RowsNext ==
  ASSUME HandlerInv, RowsInv, [Next]_vars
  PROVE  RowsInv'
<1>1. ASSUME NEW r \in Requests, pc[r] # "idle"
      PROVE  pc'[r] # "idle" /\ RowOf(body'[r]) = RowOf(body[r])
  BY <1>1, BodyKept DEF RowOf
<1> QED
  BY <1>1, RowsStep DEF RowsInv

-----------------------------------------------------------------------------
(* The order of the logs. *)

LEMMA TwoRequests ==
  \A p, q \in Requests : /\ p[2] \in 1..8 /\ q[2] \in 1..8
                         /\ p[1] = q[1] /\ p[2] = q[2] => p = q
BY LabAssumption DEF RunStep

\* An event keeps a log in order if its run has not come further than its step, or
\* has, but then the event was in the log already.
LEMMA OrderStays ==
  ASSUME NEW S, NEW old \in Seq(S), NEW e, InOrder(old),
         e.req \in Requests, \A i \in DOMAIN old : old[i].req \in Requests,
         NEW n \in 1..8, e.req[2] <= n,
         e.req[2] < n => \E i \in DOMAIN old : old[i].req = e.req,
         \A i \in DOMAIN old : old[i].req[1] = e.req[1] => old[i].req[2] <= n,
         \A i, j \in DOMAIN Append(old, e) :
           Append(old, e)[i].req = Append(old, e)[j].req => i = j
  PROVE  InOrder(Append(old, e))
<1> DEFINE new == Append(old, e)
<1>1. /\ DOMAIN old = 1..Len(old) /\ Len(old) \in Nat /\ DOMAIN new = 1..(Len(old) + 1)
      /\ \A i \in DOMAIN old : new[i] = old[i]
      /\ new[Len(old) + 1] = e
  OBVIOUS
<1>2. \A i, j \in DOMAIN new : new[i].req = new[j].req => i = j
  OBVIOUS
<1> HIDE DEF new
<1>3. ASSUME NEW i \in DOMAIN old PROVE old[i].req # e.req
  BY <1>1, <1>2, <1>3
<1>4. ASSUME NEW i \in DOMAIN old, old[i].req[1] = e.req[1] PROVE old[i].req[2] < e.req[2]
  <2>1. old[i].req \in Requests /\ old[i].req # e.req
    BY <1>3
  <2>2. old[i].req[2] \in 1..8 /\ e.req[2] \in 1..8 /\ old[i].req[2] # e.req[2]
    BY <1>4, <2>1, TwoRequests
  <2>3. old[i].req[2] <= n /\ ~(e.req[2] < n)
    BY <1>3, <1>4
  <2> QED
    BY <2>2, <2>3
<1>5. InOrder(new)
  <2> SUFFICES ASSUME NEW i \in DOMAIN new, NEW j \in DOMAIN new, i < j,
                      new[i].req[1] = new[j].req[1]
               PROVE  new[i].req[2] < new[j].req[2]
    BY DEF InOrder
  <2>1. CASE j \in DOMAIN old
    <3>1. i \in DOMAIN old
      BY <1>1, <2>1
    <3> QED
      BY <1>1, <2>1, <3>1 DEF InOrder
  <2>2. CASE j \notin DOMAIN old
    <3>1. i \in DOMAIN old /\ j = Len(old) + 1
      BY <1>1, <2>2
    <3> QED
      BY <1>1, <1>4, <3>1
  <2> QED
    BY <2>1, <2>2
<1> QED
  BY <1>5 DEF new

\* A request asks for the entity of its own name.
LEMMA AskedFacts ==
  ASSUME ScriptTypes, NEW r \in Requests, NEW places, Reached(r, places)
  PROVE  /\ r[2] <= step[r[1]] /\ step[r[1]] \in 1..8 /\ r[1] \in Runs /\ r[2] \in 1..8
         /\ Asked(r).route \in Entities /\ Asked(r).id = r /\ RelayOf(Asked(r)).id = r
<1>1. /\ r[1] \in Runs /\ r[2] \in 1..8 /\ r = <<r[1], r[2]>>
      /\ step[r[1]] \in 1..8 /\ step[r[1]] <= Len(Plan(r[1]))
  BY RunSteps DEF ScriptTypes
<1>2. r[2] <= step[r[1]]
  BY <1>1 DEF Reached
<1>3. Len(Plan(r[1])) \in 1..8
  BY <1>1, PlanFacts
<1>4. r[2] \in 1..Len(Plan(r[1]))
  BY <1>1, <1>2, <1>3
<1> QED
  BY <1>1, <1>2, <1>4, PlanFacts DEF Asked

\* What the events of both logs are about.
LEMMA LoggedAtA ==
  ASSUME NodeAInv, ScriptTypes, Places, NEW i \in DOMAIN log
  PROVE  /\ log[i].req \in Requests /\ log[i].id = log[i].req /\ pc[log[i].req] # "idle"
         /\ RowOf(Asked(log[i].req)) \in rows
<1>1. PICK r \in Requests : /\ pc[r] # "idle" /\ log[i] = EventOf(r)
                            /\ body[r].route \in Entities => RowOf(body[r]) \in rows
  BY WhatIsLogged DEF NodeAInv
<1>2. body[r] = Asked(r) /\ Reached(r, {"posted", "relayed", "finished", "failed"})
  BY <1>1 DEF Places, Place
<1>3. Asked(r).route \in Entities /\ Asked(r).id = r
  BY <1>2, AskedFacts
<1>4. log[i].req = r /\ log[i].id = body[r].id
  BY <1>1 DEF EventOf, EventFor
<1> QED
  BY <1>1, <1>2, <1>3, <1>4

LEMMA LoggedAtB ==
  ASSUME NodeBInv, ScriptTypes, Places, NEW i \in DOMAIN peerLog
  PROVE  /\ peerLog[i].req \in Requests /\ peerLog[i].id = peerLog[i].req
         /\ peerPc[peerLog[i].req] # "idle"
<1>1. PICK r \in Requests : peerPc[r] # "idle" /\ peerLog[i] = PeerNode!EventOf(r)
  BY PeerNode!WhatIsLogged, PeerAssumptions DEF NodeBInv
<1>2. peerBody[r] = RelayOf(Asked(r)) /\ Reached(r, {"relayed", "finished", "failed"})
  BY <1>1 DEF Places, Place
<1>3. RelayOf(Asked(r)).id = r
  BY <1>2, AskedFacts
<1>4. peerLog[i].req = r /\ peerLog[i].id = peerBody[r].id
  BY <1>1 DEF PeerNode!EventOf, PeerNode!EventFor
<1> QED
  BY <1>1, <1>2, <1>3, <1>4

LEMMA OrderAtA ==
  ASSUME NodeAInv, NodeAInv', ScriptTypes, Places, InOrder(log), [Next]_vars
  PROVE  InOrder(log')
<1>1. CASE log' = log
  BY <1>1
<1>2. ASSUME NEW r \in Requests, pc[r] # "idle", log' = Append(log, EventOf(r))
      PROVE  InOrder(log')
  <2> DEFINE e == EventOf(r)
  <2>1. e.req = r
    BY DEF EventOf, EventFor
  <2> HIDE DEF e
  <2>2. PICK n \in 1..8 : n = step[r[1]]
    BY RunSteps DEF ScriptTypes
  <2>3. r[2] <= n
    BY <1>2, <2>2, AskedFacts DEF Places, Place
  <2>4. r[2] < n => \E i \in DOMAIN log : log[i].req = r
    BY <2>2, WhatIsAnswered DEF NodeAInv, Places, Place, Reached
  <2>5. \A i \in DOMAIN log : log[i].req \in Requests
    BY LoggedAtA
  <2>6. ASSUME NEW i \in DOMAIN log, log[i].req[1] = r[1] PROVE log[i].req[2] <= n
    BY <2>2, <2>6, LoggedAtA, AskedFacts DEF Places, Place
  <2>7. \A i, j \in DOMAIN Append(log, e) :
          Append(log, e)[i].req = Append(log, e)[j].req => i = j
    BY <1>2 DEF NodeAInv, EventsInv, LogInv, e
  <2>8. log \in Seq(Event)
    BY DEF NodeAInv, HandlerInv, TypeOK
  <2> QED
    BY <1>2, <2>1, <2>3, <2>4, <2>5, <2>6, <2>7, <2>8, OrderStays DEF e
<1> QED
  BY <1>1, <1>2, LogStep DEF NodeAInv

LEMMA OrderAtB ==
  ASSUME NodeBInv, NodeBInv', ScriptTypes, Places, InOrder(peerLog),
         [PeerNode!Next]_(PeerNode!vars)
  PROVE  InOrder(peerLog')
<1>1. CASE peerLog' = peerLog
  BY <1>1
<1>2. ASSUME NEW r \in Requests, peerPc[r] # "idle", peerLog' = Append(peerLog, PeerNode!EventOf(r))
      PROVE  InOrder(peerLog')
  <2> DEFINE e == PeerNode!EventOf(r)
  <2>1. e.req = r
    BY DEF PeerNode!EventOf, PeerNode!EventFor
  <2> HIDE DEF e
  <2>2. PICK n \in 1..8 : n = step[r[1]]
    BY RunSteps DEF ScriptTypes
  <2>3. r[2] <= n /\ r[1] \in Relaying
    BY <1>2, <2>2, AskedFacts DEF Places, Place
  <2>4. r[2] < n => \E i \in DOMAIN peerLog : peerLog[i].req = r
    BY <2>2, <2>3, PeerNode!WhatIsAnswered, PeerAssumptions DEF NodeBInv, Places, Place, Reached
  <2>5. \A i \in DOMAIN peerLog : peerLog[i].req \in Requests
    BY LoggedAtB
  <2>6. ASSUME NEW i \in DOMAIN peerLog, peerLog[i].req[1] = r[1] PROVE peerLog[i].req[2] <= n
    BY <2>2, <2>6, LoggedAtB, AskedFacts DEF Places, Place
  <2>7. \A i, j \in DOMAIN Append(peerLog, e) :
          Append(peerLog, e)[i].req = Append(peerLog, e)[j].req => i = j
    BY <1>2 DEF NodeBInv, PeerNode!EventsInv, PeerNode!LogInv, e
  <2>8. peerLog \in Seq(PeerNode!Event)
    BY DEF NodeBInv, PeerNode!HandlerInv, PeerNode!TypeOK
  <2> QED
    BY <1>2, <2>1, <2>3, <2>4, <2>5, <2>6, <2>7, <2>8, OrderStays DEF e
<1> QED
  BY <1>1, <1>2, PeerNode!LogStep, PeerAssumptions DEF NodeBInv

LEMMA LabInvariant == LabSpec => [](NodeAInv /\ NodeBInv /\ LabInv)
<1>1. LabInit => LabInv
  <2> SUFFICES ASSUME LabInit PROVE LabInv
    OBVIOUS
  <2>1. \A r \in Requests : pc[r] = "idle" /\ peerPc[r] = "idle"
    BY DEF LabInit, Init, Peer!Init
  <2>2. ASSUME NEW r \in Requests
        PROVE  ~Reached(r, {"relayed", "finished"}) /\ ~Reached(r, {"finished"})
    <3>1. r[1] \in Runs /\ r[2] \in 1..8
      BY RunSteps
    <3>2. step[r[1]] = 1 /\ script[r[1]] = "off"
      BY <3>1 DEF LabInit
    <3> QED
      BY <3>1, <3>2 DEF Reached
  <2>3. ScriptTypes
    BY TypesInit
  <2>4. RowsInv /\ InOrder(log) /\ InOrder(peerLog)
    BY DEF LabInit, Init, Peer!Init, RowsInv, InOrder
  <2> QED
    BY <2>1, <2>2, <2>3, <2>4 DEF LabInv, Places, Place
<1>2. NodeAInv /\ NodeAInv' /\ NodeBInv /\ NodeBInv' /\ LabInv /\ [LabNext]_labVars => LabInv'
  <2> SUFFICES ASSUME NodeAInv, NodeAInv', NodeBInv, NodeBInv', LabInv, [LabNext]_labVars
               PROVE  LabInv'
    OBVIOUS
  <2>1. ScriptTypes /\ Places /\ RowsInv /\ InOrder(log) /\ InOrder(peerLog)
    BY DEF LabInv
  <2>2. [Next]_vars /\ [PeerNode!Next]_(PeerNode!vars)
    BY <2>1, RegistrySteps
  <2>3. ScriptTypes' /\ Places'
    BY <2>1, TypesNext, PlacesNext
  <2>4. RowsInv'
    BY <2>1, <2>2, RowsNext DEF NodeAInv
  <2>5. InOrder(log') /\ InOrder(peerLog')
    BY <2>1, <2>2, OrderAtA, OrderAtB
  <2>6. InOrder(log)' /\ InOrder(peerLog)'
    BY <2>5 DEF InOrder
  <2> QED
    BY <2>3, <2>4, <2>6 DEF LabInv
<1> QED
  BY <1>1, <1>2, NodesInvariant, PTL DEF LabSpec, labVars

-----------------------------------------------------------------------------
(* The properties. *)

\* How many entities of a run node A has, how many of them it has announced, and
\* how many of these node B was told of.
Reach(run, here) == IF here THEN step[run] ELSE step[run] - 1
Made(run) == Reach(run, RowOf(Asked(Current(run))) \in rows)
Announced(run) == Reach(run, \E i \in DOMAIN log : log[i].req = Current(run))
Relayed(run) == Reach(run, \E i \in DOMAIN peerLog : peerLog[i].req = Current(run))

\* A log in order tells the steps that it has events of.
LEMMA TellsWhatItHas ==
  ASSUME NEW run \in Runs, NEW events, NEW n \in Nat, InOrder(events),
         \A i \in DOMAIN events : events[i].req \in Requests /\ events[i].id = events[i].req,
         \A i \in DOMAIN events : events[i].req[1] = run => events[i].req[2] \in 1..n,
         \A s \in 1..n : \E i \in DOMAIN events : events[i].req = <<run, s>>
  PROVE  Tells(events, run, n)
<1> DEFINE mine == {i \in DOMAIN events : events[i].req[1] = run}
<1>1. ASSUME NEW i \in mine PROVE events[i].id \in {<<run, s>> : s \in 1..n}
  BY RunSteps
<1>2. ASSUME NEW s \in 1..n PROVE \E i \in mine : <<run, s>> = events[i].id
  <2>1. PICK i \in DOMAIN events : events[i].req = <<run, s>>
    OBVIOUS
  <2> QED
    BY <2>1
<1>3. \A i, j \in mine : i < j => events[i].id[2] < events[j].id[2]
  BY DEF InOrder
<1> QED
  BY <1>1, <1>2, <1>3 DEF Tells

\* The run's own requests, without the detour over the names of requests.
LEMMA OwnRequests ==
  ASSUME ScriptTypes, NEW run \in Runs
  PROVE  /\ step[run] \in 1..8 /\ Current(run) \in Requests /\ Current(run) = <<run, step[run]>>
         /\ \A s \in 1..8 : s < step[run] =>
              \A places : <<run, s>> \in Requests /\ Reached(<<run, s>>, places)
         /\ \A r \in Requests : r[1] = run => r = <<run, r[2]>> /\ r[2] \in 1..8
BY RunSteps DEF ScriptTypes, Current, Reached

LEMMA HasMade ==
  ASSUME NodeAInv, LabInv, NEW run \in Runs
  PROVE  Has(run, Made(run))
<1> ScriptTypes /\ Places /\ RowsInv
  BY DEF LabInv
<1> DEFINE plan == {RowOf(Plan(run)[s]) : s \in 1..Made(run)}
<1>1. step[run] \in 1..8 /\ Current(run) = <<run, step[run]>>
  BY OwnRequests
<1>2. Made(run) \in {step[run], step[run] - 1}
  BY DEF Made, Reach
<1>3. ASSUME NEW row \in rows, row.id[1] = run PROVE row \in plan
  <2>1. PICK r \in Requests : pc[r] # "idle" /\ row = RowOf(body[r])
    BY DEF RowsInv
  <2>2. body[r] = Asked(r) /\ Asked(r).id = r /\ r[2] <= step[r[1]]
    BY <2>1, AskedFacts DEF Places, Place
  <2>3. row.id = r
    BY <2>1, <2>2 DEF RowOf
  <2>4. r[1] = run /\ r[2] \in 1..8 /\ r = <<run, r[2]>>
    BY <1>3, <2>3, OwnRequests
  <2>5. row = RowOf(Plan(run)[r[2]])
    BY <2>1, <2>2, <2>4 DEF Asked
  <2>6. r[2] = step[run] => Made(run) = step[run]
    BY <1>1, <2>1, <2>2, <2>4 DEF Made, Reach
  <2>7. r[2] \in 1..Made(run)
    BY <1>1, <1>2, <2>2, <2>4, <2>6
  <2> QED
    BY <2>5, <2>7
<1>4. ASSUME NEW s \in 1..Made(run)
      PROVE  RowOf(Plan(run)[s]) \in rows /\ RowOf(Plan(run)[s]).id[1] = run
  <2>1. s \in 1..8 /\ s <= step[run] /\ (s = step[run] => Made(run) = step[run])
    BY <1>1, <1>2
  <2>2. ASSUME s < step[run] PROVE RowOf(Plan(run)[s]) \in rows
    <3>1. PICK r \in Requests : r = <<run, s>> /\ Reached(r, {"relayed", "finished"})
      BY <2>1, <2>2, OwnRequests
    <3>2. status[r] = 201 /\ Asked(r).route \in Entities
      BY <3>1, AskedFacts DEF Places, Place
    <3>3. pc[r] # "idle" /\ (body[r].route \in Entities => RowOf(body[r]) \in rows)
      BY <3>2, WhatIsAnswered DEF NodeAInv
    <3>4. body[r] = Asked(r)
      BY <3>3 DEF Places, Place
    <3>5. Asked(r) = Plan(run)[s]
      BY <3>1 DEF Asked
    <3> QED
      BY <3>2, <3>3, <3>4, <3>5
  <2>3. ASSUME s = step[run] PROVE RowOf(Plan(run)[s]) \in rows
    <3>1. RowOf(Asked(Current(run))) \in rows
      BY <1>1, <2>1, <2>3 DEF Made, Reach
    <3> QED
      BY <1>1, <2>3, <3>1 DEF Asked
  <2>4. s \in 1..Len(Plan(run))
    <3>1. step[run] <= Len(Plan(run)) /\ Len(Plan(run)) \in 1..8
      BY PlanFacts DEF ScriptTypes
    <3> QED
      BY <1>1, <2>1, <3>1
  <2>5. Plan(run)[s].id[1] = run
    BY <2>4, PlanFacts
  <2> QED
    BY <2>1, <1>1, <2>2, <2>3, <2>5 DEF RowOf
<1> QED
  BY <1>3, <1>4 DEF Has

LEMMA TellsAnnounced ==
  ASSUME NodeAInv, LabInv, NEW run \in Runs
  PROVE  /\ Tells(log, run, Announced(run))
         /\ Announced(run) <= Made(run)
<1> ScriptTypes /\ Places /\ InOrder(log)
  BY DEF LabInv
<1>1. step[run] \in 1..8 /\ Current(run) = <<run, step[run]>>
  BY OwnRequests
<1>2. PICK n \in Nat : n = Announced(run) /\ n \in {step[run], step[run] - 1}
  BY <1>1 DEF Announced, Reach
<1>3. \A i \in DOMAIN log : log[i].req \in Requests /\ log[i].id = log[i].req
  BY LoggedAtA
<1>4. ASSUME NEW i \in DOMAIN log, log[i].req[1] = run PROVE log[i].req[2] \in 1..n
  <2>1. PICK r \in Requests : r = log[i].req /\ pc[r] # "idle"
    BY LoggedAtA
  <2>2. r[1] = run /\ r = <<run, r[2]>> /\ r[2] \in 1..8
    BY <1>4, <2>1, OwnRequests
  <2>3. r[2] <= step[run]
    BY <2>1, <2>2, AskedFacts DEF Places, Place
  <2>4. r[2] = step[run] => n = step[run]
    BY <1>1, <1>2, <2>1, <2>2 DEF Announced, Reach
  <2> QED
    BY <1>1, <1>2, <2>1, <2>2, <2>3, <2>4
<1>5. ASSUME NEW s \in 1..n PROVE \E i \in DOMAIN log : log[i].req = <<run, s>>
  <2>1. s \in 1..8 /\ s <= step[run] /\ (s = step[run] => n = step[run])
    BY <1>1, <1>2
  <2>2. CASE s < step[run]
    <3>1. PICK r \in Requests : r = <<run, s>> /\ Reached(r, {"relayed", "finished"})
      BY <2>1, <2>2, OwnRequests
    <3>2. status[r] = 201
      BY <3>1 DEF Places, Place
    <3> QED
      BY <3>1, <3>2, WhatIsAnswered DEF NodeAInv
  <2>3. CASE s = step[run]
    BY <1>1, <1>2, <2>1, <2>3 DEF Announced, Reach
  <2> QED
    BY <1>1, <2>1, <2>2, <2>3
<1>6. Announced(run) <= Made(run)
  <2>1. ASSUME NEW i \in DOMAIN log, log[i].req = Current(run) PROVE RowOf(Asked(Current(run))) \in rows
    BY <2>1, LoggedAtA
  <2> QED
    BY <1>1, <2>1 DEF Announced, Made, Reach
<1> QED
  BY <1>2, <1>3, <1>4, <1>5, <1>6, TellsWhatItHas

LEMMA TellsRelayed ==
  ASSUME NodeAInv, NodeBInv, LabInv, NEW run \in Relaying
  PROVE  /\ Tells(peerLog, run, Relayed(run))
         /\ Relayed(run) <= Announced(run)
<1> ScriptTypes /\ Places /\ InOrder(peerLog)
  BY DEF LabInv
<1> run \in Runs
  BY RunsAssumption
<1>1. step[run] \in 1..8 /\ Current(run) = <<run, step[run]>> /\ Current(run) \in Requests
  BY OwnRequests
<1>2. PICK n \in Nat : n = Relayed(run) /\ n \in {step[run], step[run] - 1}
  BY <1>1 DEF Relayed, Reach
<1>3. \A i \in DOMAIN peerLog : peerLog[i].req \in Requests /\ peerLog[i].id = peerLog[i].req
  BY LoggedAtB
<1>4. ASSUME NEW i \in DOMAIN peerLog, peerLog[i].req[1] = run PROVE peerLog[i].req[2] \in 1..n
  <2>1. PICK r \in Requests : r = peerLog[i].req /\ peerPc[r] # "idle"
    BY LoggedAtB
  <2>2. r[1] = run /\ r = <<run, r[2]>> /\ r[2] \in 1..8
    BY <1>4, <2>1, OwnRequests
  <2>3. r[2] <= step[run]
    BY <2>1, <2>2, AskedFacts DEF Places, Place
  <2>4. r[2] = step[run] => n = step[run]
    BY <1>1, <1>2, <2>1, <2>2 DEF Relayed, Reach
  <2> QED
    BY <1>1, <1>2, <2>1, <2>2, <2>3, <2>4
<1>5. ASSUME NEW s \in 1..n PROVE \E i \in DOMAIN peerLog : peerLog[i].req = <<run, s>>
  <2>1. s \in 1..8 /\ s <= step[run] /\ (s = step[run] => n = step[run])
    BY <1>1, <1>2
  <2>2. CASE s < step[run]
    <3>1. PICK r \in Requests : r = <<run, s>> /\ r[1] = run /\ Reached(r, {"finished"})
      BY <2>1, <2>2, OwnRequests, RunSteps
    <3>2. peerStatus[r] = 202
      BY <3>1 DEF Places, Place
    <3> QED
      BY <3>1, <3>2, PeerNode!WhatIsAnswered, PeerAssumptions DEF NodeBInv
  <2>3. CASE s = step[run]
    BY <1>1, <1>2, <2>1, <2>3 DEF Relayed, Reach
  <2> QED
    BY <1>1, <2>1, <2>2, <2>3
<1>6. Relayed(run) <= Announced(run)
  <2>1. ASSUME NEW i \in DOMAIN peerLog, peerLog[i].req = Current(run)
        PROVE  \E j \in DOMAIN log : log[j].req = Current(run)
    <3>1. status[Current(run)] = 201
      BY <1>1, <2>1, LoggedAtB DEF Places, Place
    <3> QED
      BY <1>1, <3>1, WhatIsAnswered DEF NodeAInv
  <2> QED
    BY <1>1, <2>1 DEF Announced, Relayed, Reach
<1> QED
  BY <1>2, <1>3, <1>4, <1>5, <1>6, TellsWhatItHas

\* What is where a run stands, and when it has ended.
LEMMA Standing ==
  ASSUME ScriptTypes, NEW run \in Runs
  PROVE  /\ {Made(run), Announced(run), Relayed(run)} \subseteq {step[run], step[run] - 1}
         /\ step[run] \in 1..8 /\ step[run] <= Len(Plan(run)) /\ Len(Plan(run)) \in 1..8
<1>1. step[run] \in 1..8 /\ step[run] <= Len(Plan(run)) /\ Len(Plan(run)) \in 1..8
  BY PlanFacts DEF ScriptTypes
<1> QED
  BY <1>1 DEF Made, Announced, Relayed, Reach

\* However many scripts run at once, wherever one is cut off and whatever fails at
\* either node, no entity of a run is missing before a later one, none is announced
\* out of order, twice or before it is stored, and node B is at most one event behind.
THEOREM PeerLagsByOneCorrect == LabSpec => []PeerLagsByOne
<1>1. NodeAInv /\ NodeBInv /\ LabInv => PeerLagsByOne
  <2> SUFFICES ASSUME NodeAInv, NodeBInv, LabInv, NEW run \in Runs
               PROVE  \E made \in 0..Len(Plan(run)) : \E announced \in 0..made :
                        /\ Has(run, made)
                        /\ Tells(log, run, announced) /\ made <= announced + 1
                        /\ run \in Relaying =>
                             \E relayed \in 0..announced :
                               Tells(peerLog, run, relayed) /\ announced <= relayed + 1
    BY DEF PeerLagsByOne
  <2>1. ScriptTypes
    BY DEF LabInv
  <2>2. Has(run, Made(run)) /\ Tells(log, run, Announced(run)) /\ Announced(run) <= Made(run)
    BY HasMade, TellsAnnounced
  <2>3. run \in Relaying =>
          Tells(peerLog, run, Relayed(run)) /\ Relayed(run) <= Announced(run)
    BY TellsRelayed
  <2>4. /\ Made(run) \in 0..Len(Plan(run)) /\ Announced(run) \in 0..Made(run)
        /\ Made(run) <= Announced(run) + 1
        /\ run \in Relaying => /\ Relayed(run) \in 0..Announced(run)
                               /\ Announced(run) <= Relayed(run) + 1
    BY <2>1, <2>2, <2>3, Standing
  <2> QED
    BY <2>2, <2>3, <2>4
<1> QED
  BY <1>1, LabInvariant, PTL

\* A script that ends well has done everything it was to do, at both nodes.
THEOREM FinishedIsCompleteCorrect == LabSpec => []FinishedIsComplete
<1>1. NodeAInv /\ NodeBInv /\ LabInv => FinishedIsComplete
  <2> SUFFICES ASSUME NodeAInv, NodeBInv, LabInv, NEW run \in Runs, script[run] = "finished"
               PROVE  LET all == Len(Plan(run)) IN
                      /\ Has(run, all) /\ Tells(log, run, all)
                      /\ run \in Relaying => Tells(peerLog, run, all)
    BY DEF FinishedIsComplete
  <2>1. ScriptTypes /\ Places
    BY DEF LabInv
  <2>2. step[run] = Len(Plan(run))
    BY <2>1 DEF ScriptTypes
  <2>3. PICK r \in Requests : r = Current(run) /\ r[1] = run /\ r[2] = step[run]
    BY <2>1, RunSteps
  <2>4. status[r] = 201 /\ (run \in Relaying => peerStatus[r] = 202)
    BY <2>1, <2>3 DEF Places, Place, Reached
  <2>5. Announced(run) = step[run]
    BY <2>3, <2>4, WhatIsAnswered DEF Announced, Reach, NodeAInv
  <2>6. run \in Relaying => Relayed(run) = step[run]
    BY <2>3, <2>4, PeerNode!WhatIsAnswered, PeerAssumptions DEF Relayed, Reach, NodeBInv
  <2>7. Made(run) = step[run]
    BY <2>1, <2>5, TellsAnnounced, Standing
  <2> QED
    BY <2>2, <2>5, <2>6, <2>7, HasMade, TellsAnnounced, TellsRelayed
<1> QED
  BY <1>1, LabInvariant, PTL
=============================================================================
