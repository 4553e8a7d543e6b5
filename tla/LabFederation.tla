---------------------------- MODULE LabFederation ----------------------------
(***************************************************************************)
(* The two simulation scripts as clients of nodes that may fail.            *)
(*                                                                         *)
(* src/scripts/simulate-federation.ts creates a chain, material to          *)
(* transfer, at node A and relays every event to node B; simulate-lab.ts    *)
(* creates a material's and a product's chain at node A alone. Both send a   *)
(* request only when the one before it was answered with success, and end   *)
(* at the first that was not. Every start uses identifiers of its own.      *)
(*                                                                         *)
(* Node A is LoopRegistry, node B a second one with its own database. The   *)
(* request of a script's step has the same name at both.                    *)
(***************************************************************************)
EXTENDS LoopRegistry

CONSTANTS
  Runs,      \* starts of the scripts somebody may make
  Relaying,  \* those of simulate-federation.ts
  MaxRuns    \* bound on how many of them are made

ASSUME RunsAssumption == Relaying \subseteq Runs /\ MaxRuns \in Nat

VARIABLES
  script,  \* what each run waits for
  step,    \* the step of its plan a run is at
  peerPc, peerBody, peerCreated, peerStatus, peerRows, peerLog, peerPublished,
  peerMetrics, peerAdrift, peerFaults

scripts == <<script, step>>
peer == <<peerPc, peerBody, peerCreated, peerStatus, peerRows, peerLog, peerPublished,
          peerMetrics, peerAdrift, peerFaults>>

Peer == INSTANCE LoopRegistry WITH
          pc <- peerPc, body <- peerBody, created <- peerCreated,
          status <- peerStatus, rows <- peerRows, log <- peerLog,
          published <- peerPublished, metrics <- peerMetrics,
          adrift <- peerAdrift, faults <- peerFaults

RunStep == Runs \X (1..8)

\* The entity a run creates at a step: the one material or product it is about,
\* and what it follows, are entities of earlier steps.
Creation(route, id, material, product, prior) ==
  [route |-> route, entity |-> route, event |-> "created", id |-> id,
   material |-> material, product |-> product, prior |-> prior]

Plan(run) ==
  LET Id(s) == <<run, s>> IN
  <<Creation("material", Id(1), None, None, None),
    Creation("offer", Id(2), Id(1), None, None),
    Creation("match", Id(3), Id(1), None, Id(2)),
    Creation("transfer", Id(4), Id(1), None, Id(3))>> \o
  IF run \in Relaying THEN <<>> ELSE
  <<Creation("product", Id(5), None, None, None),
    Creation("offer", Id(6), None, Id(5), None),
    Creation("match", Id(7), None, Id(5), Id(6)),
    Creation("transfer", Id(8), None, Id(5), Id(7))>>

\* What relayEvent sends to node B of an entity created at node A.
RelayOf(b) == [b EXCEPT !.route = "relay", !.material = None,
                        !.product = None, !.prior = None]

ScriptBodies == LET Plans == UNION {{Plan(run)[s] : s \in DOMAIN Plan(run)} : run \in Runs}
                IN  Plans \cup {RelayOf(b) : b \in Plans}

\* An identifier per entity, a request per step, and no body but the scripts'.
ASSUME LabAssumption == Ids = RunStep /\ Requests = RunStep /\ Bodies = ScriptBodies

LabInit ==
  /\ Init /\ Peer!Init
  /\ script = [run \in Runs |-> "off"]
  /\ step = [run \in Runs |-> 1]

-----------------------------------------------------------------------------
(* The scripts. *)

Current(run) == <<run, step[run]>>

\* Somebody starts a script.
Start(run) ==
  /\ script[run] = "off"
  /\ Cardinality({other \in Runs : script[other] # "off"}) < MaxRuns
  /\ script' = [script EXCEPT ![run] = "post"]
  /\ UNCHANGED <<step, vars, peer>>

\* await fetch of the next entity
Post(run) ==
  /\ script[run] = "post"
  /\ Arrive(Current(run))
  /\ body'[Current(run)] = Plan(run)[step[run]]
  /\ script' = [script EXCEPT ![run] = "posted"]
  /\ UNCHANGED <<step, peer>>

\* On to the next entity, or to the end.
Advance(run) ==
  /\ script' = [script EXCEPT ![run] =
                  IF step[run] = Len(Plan(run)) THEN "finished" ELSE "post"]
  /\ step' = [step EXCEPT ![run] =
                  IF step[run] = Len(Plan(run)) THEN @ ELSE @ + 1]

Created201(run) == script[run] = "posted" /\ status[Current(run)] = 201

\* simulate-lab.ts: the entity was created.
Accepted(run) ==
  /\ run \notin Relaying
  /\ Created201(run)
  /\ Advance(run)
  /\ UNCHANGED <<vars, peer>>

\* Faulty variant: the script does not ask whether the creation went well.
RelayUnasked(run) ==
  /\ run \in Relaying
  /\ script[run] = "posted" /\ status[Current(run)] # 0
  /\ Peer!Arrive(Current(run))
  /\ peerBody'[Current(run)] = RelayOf(Plan(run)[step[run]])
  /\ script' = [script EXCEPT ![run] = "relayed"]
  /\ UNCHANGED <<step, vars>>

\* simulate-federation.ts: the entity was created; await relayEvent.
Relay(run) ==
  /\ run \in Relaying
  /\ Created201(run)
  /\ Peer!Arrive(Current(run))
  /\ peerBody'[Current(run)] = RelayOf(Plan(run)[step[run]])
  /\ script' = [script EXCEPT ![run] = "relayed"]
  /\ UNCHANGED <<step, vars>>

\* Faulty variant: any answer of node B will do.
RelayAnswered(run) ==
  /\ script[run] = "relayed"
  /\ peerStatus[Current(run)] # 0
  /\ Advance(run)
  /\ UNCHANGED <<vars, peer>>

RelayAccepted(run) ==
  /\ script[run] = "relayed"
  /\ peerStatus[Current(run)] = 202
  /\ Advance(run)
  /\ UNCHANGED <<vars, peer>>

\* Faulty variant: a relay that was not answered with success is sent again.
GiveUpRetries(run) ==
  /\ script[run] \in {"post", "posted", "relayed"}
  /\ IF script[run] = "relayed" /\ peerStatus[Current(run)] = 500
       THEN /\ peerPc' = [peerPc EXCEPT ![Current(run)] = "event"]
            /\ peerStatus' = [peerStatus EXCEPT ![Current(run)] = 0]
            /\ UNCHANGED script
       ELSE /\ script' = [script EXCEPT ![run] = "failed"]
            /\ UNCHANGED <<peerPc, peerStatus>>
  /\ UNCHANGED <<step, vars, peerBody, peerCreated, peerRows, peerLog, peerPublished,
                 peerMetrics, peerAdrift, peerFaults>>

\* An answer is not ok or does not arrive, whatever the node did, or somebody stops
\* the script: it throws, and is not resumed.
GiveUp(run) ==
  /\ script[run] \in {"post", "posted", "relayed"}
  /\ script' = [script EXCEPT ![run] = "failed"]
  /\ UNCHANGED <<step, vars, peer>>

-----------------------------------------------------------------------------
(* The nodes, which serve nobody else. *)

NodeA ==
  /\ \/ \E r \in Requests :
          Step(r) \/ StatementFails(r) \/ AdriftRow(r) \/ AdriftEvent(r) \/ AdriftLost(r)
     \/ Crash
  /\ UNCHANGED <<scripts, peer>>

NodeB ==
  /\ \/ \E r \in Requests :
          \/ Peer!Step(r) \/ Peer!StatementFails(r)
          \/ Peer!AdriftEvent(r) \/ Peer!AdriftLost(r)
     \/ Peer!Crash
  /\ UNCHANGED <<scripts, vars>>

LabNext ==
  \/ \E run \in Runs : \/ Start(run) \/ Post(run) \/ Accepted(run) \/ Relay(run)
                       \/ RelayAccepted(run) \/ GiveUp(run)
  \/ NodeA
  \/ NodeB

LabSpec == LabInit /\ [][LabNext]_<<scripts, vars, peer>>

-----------------------------------------------------------------------------
(* Properties. *)

\* The events of a run in a log are those of the first n steps of its plan, each once
\* and in the plan's order.
Tells(events, run, n) ==
  LET mine == {i \in DOMAIN events : events[i].req[1] = run}
  IN  /\ {events[i].id : i \in mine} = {<<run, s>> : s \in 1..n}
      /\ \A i, j \in mine : i < j => events[i].id[2] < events[j].id[2]

\* The entities of a run at node A are the first n of its plan.
Has(run, n) ==
  {row \in rows : row.id[1] = run} = {RowOf(Plan(run)[s]) : s \in 1..n}

\* Wherever a run stands or was cut off, and whatever became of its last request: its
\* entities at node A are the first ones of its plan; all of them are announced there,
\* in the plan's order, but perhaps the last; node B was told of each of these, once
\* and in this order, but perhaps of the last.
PeerLagsByOne ==
  \A run \in Runs :
    \E made \in 0..Len(Plan(run)) : \E announced \in 0..made :
      /\ Has(run, made)
      /\ Tells(log, run, announced) /\ made <= announced + 1
      /\ run \in Relaying =>
           \E relayed \in 0..announced :
             Tells(peerLog, run, relayed) /\ announced <= relayed + 1

\* A run that ends well has its whole plan at node A and, when it relays, all of its
\* events at node B, although both may have failed statements and been restarted.
FinishedIsComplete ==
  \A run \in Runs : script[run] = "finished" =>
    LET all == Len(Plan(run)) IN
    /\ Has(run, all) /\ Tells(log, run, all)
    /\ run \in Relaying => Tells(peerLog, run, all)
=============================================================================
