------------------------------ MODULE Federation ------------------------------
(***************************************************************************)
(* The registry of peers: POST /api/v1/federation/handshake and             *)
(* GET /api/v1/federation/nodes (src/src/routes/federation.ts,              *)
(* src/src/federation/registry.ts, src/src/db/federationNodes.ts).          *)
(*                                                                         *)
(* A handshake is one upsert. Its handler (pc) and its statement (sql) are  *)
(* apart: Postgres takes NOW() when the statement begins and installs the   *)
(* row, under its lock, when it commits, and it goes on with a statement    *)
(* whose handler was answered an error or died. What a handshake says of    *)
(* its node is represented by the handshake itself.                         *)
(***************************************************************************)
EXTENDS Naturals, FiniteSets

CONSTANTS
  Handshakes,  \* handshake requests, each sent once
  Lists,       \* list requests, each sent once
  Nodes,       \* node ids a handshake may name, this node's among them
  Local,       \* config.node.id
  None,        \* the handshake behind this node's own entry
  MaxTime,     \* bound on the clock
  MaxFaults    \* bound on failures and crashes

ASSUME LocalAssumption == Local \in Nodes
ASSUME NoneAssumption == None \notin Handshakes
ASSUME BoundsAssumption == MaxTime \in Nat /\ MaxFaults \in Nat

VARIABLES
  pc, status, node,  \* of each handshake: its handler, its answer, the node it names
  sql, stamp,        \* of each handshake: its statement, and the NOW() it took
  heard,             \* history: which handshakes had been answered when it was sent
  rows,              \* federation_nodes
  list,              \* of each list request: what it does, what it must know, its answer
  metric,            \* the counter federation_handshake
  now, faults

handler == <<pc, status, node, heard>>
statement == <<sql, stamp>>
vars == <<handler, statement, rows, list, metric, now, faults>>

Times == 0..MaxTime
Entry == [node : Nodes, by : Handshakes \cup {None}, lastSeen : Times]

TypeOK ==
  /\ pc \in [Handshakes -> {"idle", "await", "done", "lost"}]
  /\ status \in [Handshakes -> {0, 202, 400, 401, 500}]
  /\ node \in [Handshakes -> Nodes \cup {None}]
  /\ sql \in [Handshakes -> {"none", "sent", "running", "committed", "dropped"}]
  /\ stamp \in [Handshakes -> Times]
  /\ heard \in [Handshakes -> SUBSET Handshakes]
  /\ rows \subseteq Entry
  /\ list \in [Lists -> [pc : {"idle", "await", "done", "lost"}, at : Times,
                         known : SUBSET Nodes, nodes : SUBSET Entry]]
  /\ metric \in Nat /\ now \in Times /\ faults \in Nat

Init ==
  /\ pc = [h \in Handshakes |-> "idle"]
  /\ status = [h \in Handshakes |-> 0]
  /\ node = [h \in Handshakes |-> None]
  /\ sql = [h \in Handshakes |-> "none"]
  /\ stamp = [h \in Handshakes |-> 0]
  /\ heard = [h \in Handshakes |-> {}]
  /\ rows = {}
  /\ list = [l \in Lists |-> [pc |-> "idle", at |-> 0, known |-> {}, nodes |-> {}]]
  /\ metric = 0 /\ now = 0 /\ faults = 0

Tick == now < MaxTime /\ now' = now + 1
        /\ UNCHANGED <<handler, statement, rows, list, metric, faults>>

Answered == {h \in Handshakes : status[h] = 202}

-----------------------------------------------------------------------------
(* The handshake. *)

\* The body's schema and requireApiKey may refuse it; else the statement is sent.
\* Nothing keeps a peer from naming this node.
Arrive(h) ==
  /\ pc[h] = "idle"
  /\ \E n \in Nodes, code \in {0, 400, 401} :
       /\ node' = [node EXCEPT ![h] = n]
       /\ status' = [status EXCEPT ![h] = code]
       /\ pc' = [pc EXCEPT ![h] = IF code = 0 THEN "await" ELSE "done"]
       /\ sql' = [sql EXCEPT ![h] = IF code = 0 THEN "sent" ELSE "none"]
  /\ heard' = [heard EXCEPT ![h] = Answered]
  /\ UNCHANGED <<stamp, rows, list, metric, now, faults>>

\* Faulty variant: the peer's own clock is believed.
BeginPeerTime(h) ==
  /\ sql[h] = "sent"
  /\ sql' = [sql EXCEPT ![h] = "running"]
  /\ \E time \in Times : stamp' = [stamp EXCEPT ![h] = time]
  /\ UNCHANGED <<handler, rows, list, metric, now, faults>>

\* NOW() is the time at which the statement's transaction starts.
Begin(h) ==
  /\ sql[h] = "sent"
  /\ sql' = [sql EXCEPT ![h] = "running"]
  /\ stamp' = [stamp EXCEPT ![h] = now]
  /\ UNCHANGED <<handler, rows, list, metric, now, faults>>

\* INSERT ... ON CONFLICT (node_id) DO UPDATE: the row of the node, if there is one,
\* is replaced whole, whatever its last_seen.
Upsert(h) ==
  /\ sql[h] = "running"
  /\ sql' = [sql EXCEPT ![h] = "committed"]
  /\ rows' = {row \in rows : row.node # node[h]}
               \cup {[node |-> node[h], by |-> h, lastSeen |-> stamp[h]]}
  /\ UNCHANGED <<handler, stamp, list, metric, now, faults>>

\* Faulty variant: the upsert is not awaited.
AcceptEarly(h) ==
  /\ pc[h] = "await"
  /\ pc' = [pc EXCEPT ![h] = "done"]
  /\ status' = [status EXCEPT ![h] = 202]
  /\ metric' = metric + 1
  /\ UNCHANGED <<node, heard, statement, rows, list, now, faults>>

\* The upsert has returned: count, answer.
Accept(h) ==
  /\ pc[h] = "await"
  /\ sql[h] = "committed"
  /\ pc' = [pc EXCEPT ![h] = "done"]
  /\ status' = [status EXCEPT ![h] = 202]
  /\ metric' = metric + 1
  /\ UNCHANGED <<node, heard, statement, rows, list, now, faults>>

-----------------------------------------------------------------------------
(* The list. *)

\* getLocalNode takes the time, and the query is sent.
Ask(l) ==
  /\ list[l].pc = "idle"
  /\ list' = [list EXCEPT ![l].pc = "await", ![l].at = now,
                          ![l].known = {node[h] : h \in Answered}]
  /\ UNCHANGED <<handler, statement, rows, metric, now, faults>>

LocalEntry(l) == [node |-> Local, by |-> None, lastSeen |-> list[l].at]

\* Faulty variant: a peer that names this node is listed beside it.
ListedWithImpostor(l) == {LocalEntry(l)} \cup rows

\* This node's own entry comes first and hides a row of the same id.
Listed(l) == {LocalEntry(l)} \cup {row \in rows : row.node # Local}

Answer(l) ==
  /\ list[l].pc = "await"
  /\ list' = [list EXCEPT ![l].pc = "done", ![l].nodes = Listed(l)]
  /\ UNCHANGED <<handler, statement, rows, metric, now, faults>>

-----------------------------------------------------------------------------
(* Failures. *)

\* The connection is lost: 500, and the statement is executed or not.
StatementFails(h) ==
  /\ faults < MaxFaults
  /\ pc[h] = "await"
  /\ pc' = [pc EXCEPT ![h] = "done"]
  /\ status' = [status EXCEPT ![h] = 500]
  /\ faults' = faults + 1
  /\ UNCHANGED <<node, heard, statement, rows, list, metric, now>>

ListFails(l) ==
  /\ faults < MaxFaults
  /\ list[l].pc = "await"
  /\ list' = [list EXCEPT ![l].pc = "lost"]
  /\ faults' = faults + 1
  /\ UNCHANGED <<handler, statement, rows, metric, now>>

\* Postgres never received the statement, or rolled it back.
Drop(h) ==
  /\ pc[h] \in {"done", "lost"}
  /\ sql[h] \in {"sent", "running"}
  /\ sql' = [sql EXCEPT ![h] = "dropped"]
  /\ UNCHANGED <<handler, stamp, rows, list, metric, now, faults>>

Crash ==
  /\ faults < MaxFaults
  /\ pc' = [h \in Handshakes |-> IF pc[h] = "await" THEN "lost" ELSE pc[h]]
  /\ list' = [l \in Lists |-> IF list[l].pc = "await" THEN [list[l] EXCEPT !.pc = "lost"]
                              ELSE list[l]]
  /\ metric' = 0
  /\ faults' = faults + 1
  /\ UNCHANGED <<status, node, heard, statement, rows, now>>

Next ==
  \/ \E h \in Handshakes : \/ Arrive(h) \/ Begin(h) \/ Upsert(h) \/ Accept(h)
                           \/ StatementFails(h) \/ Drop(h)
  \/ \E l \in Lists : Ask(l) \/ Answer(l) \/ ListFails(l)
  \/ Tick
  \/ Crash

Spec == Init /\ [][Next]_vars

-----------------------------------------------------------------------------
(* Properties. *)

\* What an answered handshake said of its node stands until it is replaced by a
\* handshake that had not been answered when it was sent: a later one, or one the two
\* overlapped with, perhaps one whose sender was told 500 long ago.
AnsweredStays ==
  \A h \in Answered : \E row \in rows : row.node = node[h] /\ row.by \notin heard[h]

\* The time a node was last seen goes back only by a handshake that overlapped with
\* the one it replaces, never by one that was sent after that was answered.
LastSeenMovesOn ==
  [][\A row \in rows, new \in rows' :
       new.node = row.node /\ new.lastSeen < row.lastSeen => row.by \notin heard[new.by]]_vars

\* A list has one entry for a node, its own for this node whatever peers claim to
\* be, and every node whose handshake had been answered when the list was asked for.
ListsAreCurrent ==
  \A l \in Lists : list[l].pc = "done" =>
    /\ \A x, y \in list[l].nodes : x.node = y.node => x = y
    /\ LocalEntry(l) \in list[l].nodes
    /\ list[l].known \subseteq {x.node : x \in list[l].nodes}
=============================================================================
