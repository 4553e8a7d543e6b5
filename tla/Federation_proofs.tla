-------------------------- MODULE Federation_proofs --------------------------
(***************************************************************************)
(* Proofs about Federation, for any number of handshakes, lists and nodes,  *)
(* any clock and any number of failures and crashes.                        *)
(***************************************************************************)
EXTENDS Federation, TLAPS

(***************************************************************************)
(* Types.                                                                   *)
(***************************************************************************)

HandshakeTypes ==
  /\ pc \in [Handshakes -> {"idle", "await", "done", "lost"}]
  /\ status \in [Handshakes -> {0, 202, 400, 401, 500}]
  /\ node \in [Handshakes -> Nodes \cup {None}]
  /\ sql \in [Handshakes -> {"none", "sent", "running", "committed", "dropped"}]
  /\ stamp \in [Handshakes -> Times]
  /\ heard \in [Handshakes -> SUBSET Handshakes]
  /\ metric \in Nat /\ now \in Times /\ faults \in Nat

LEMMA HandshakeTypesNext ==
  ASSUME HandshakeTypes, [Next]_vars PROVE HandshakeTypes'
<1> USE DEF HandshakeTypes, handler, statement
<1>1. ASSUME NEW h \in Handshakes, Arrive(h) PROVE HandshakeTypes'
  <2>1. Answered \in SUBSET Handshakes
    BY DEF Answered
  <2> QED
    BY <1>1, <2>1 DEF Arrive
<1>2. ASSUME NEW h \in Handshakes, Begin(h) \/ Upsert(h) \/ Drop(h) PROVE HandshakeTypes'
  BY <1>2 DEF Begin, Upsert, Drop
<1>3. ASSUME NEW h \in Handshakes, Accept(h) \/ StatementFails(h) PROVE HandshakeTypes'
  BY <1>3 DEF Accept, StatementFails
<1>4. ASSUME NEW l \in Lists, Ask(l) \/ Answer(l) \/ ListFails(l) PROVE HandshakeTypes'
  BY <1>4 DEF Ask, Answer, ListFails
<1>5. CASE Tick
  BY <1>5, BoundsAssumption DEF Tick, Times
<1>6. CASE Crash
  BY <1>6 DEF Crash
<1>7. CASE UNCHANGED vars
  BY <1>7 DEF vars
<1> QED
  BY <1>1, <1>2, <1>3, <1>4, <1>5, <1>6, <1>7 DEF Next

(***************************************************************************)
(* What a handshake goes through, and what the rows remember of it.         *)
(***************************************************************************)

\* A handshake that has not arrived has done nothing; one that was answered is
\* committed; one that awaits its statement names a node.
Progress ==
  \A h \in Handshakes :
    /\ pc[h] \in {"idle", "await"} => status[h] = 0
    /\ pc[h] = "idle" => sql[h] = "none"
    /\ status[h] = 202 => sql[h] = "committed"
    /\ sql[h] # "none" => node[h] \in Nodes

\* What was heard of when a handshake was sent had been answered, so it is not the
\* handshake itself, and had begun its statement no later.
HeardIsOlder ==
  /\ \A h \in Handshakes : stamp[h] <= now
  /\ \A h \in Handshakes : \A g \in heard[h] :
       /\ status[g] = 202 /\ g # h
       /\ sql[h] \in {"running", "committed"} => stamp[g] <= stamp[h]

\* A row is what a committed handshake left, the only one of its node.
RowsAreHandshakes ==
  /\ \A row \in rows : /\ row \in Entry /\ row.by \in Handshakes
                       /\ sql[row.by] = "committed" /\ row.node = node[row.by]
                       /\ row.lastSeen = stamp[row.by]
  /\ \A x, y \in rows : x.node = y.node => x = y

\* What AnsweredStays says already holds of a committed handshake that is not answered.
CommittedStays ==
  \A h \in Handshakes : sql[h] = "committed" =>
    \E row \in rows : row.node = node[h] /\ row.by \notin heard[h]

HandshakeInv == HandshakeTypes /\ Progress /\ HeardIsOlder /\ RowsAreHandshakes /\ CommittedStays

LEMMA HandshakeInvInit == Init => HandshakeInv
<1> SUFFICES ASSUME Init PROVE HandshakeInv
  OBVIOUS
<1>1. HandshakeTypes
  BY BoundsAssumption DEF Init, HandshakeTypes, Times
<1>2. Progress /\ RowsAreHandshakes /\ CommittedStays
  BY DEF Init, Progress, RowsAreHandshakes, CommittedStays
<1>3. HeardIsOlder
  BY DEF Init, HeardIsOlder
<1> QED
  BY <1>1, <1>2, <1>3 DEF HandshakeInv

\* An arrival changes nothing that the database or an answered handshake knows.
LEMMA ArriveInv ==
  ASSUME HandshakeInv, NEW h \in Handshakes, Arrive(h)
  PROVE  Progress' /\ HeardIsOlder' /\ RowsAreHandshakes' /\ CommittedStays'
<1> USE DEF HandshakeInv, HandshakeTypes
<1>1. PICK n \in Nodes, code \in {0, 400, 401} :
        /\ node' = [node EXCEPT ![h] = n]
        /\ status' = [status EXCEPT ![h] = code]
        /\ pc' = [pc EXCEPT ![h] = IF code = 0 THEN "await" ELSE "done"]
        /\ sql' = [sql EXCEPT ![h] = IF code = 0 THEN "sent" ELSE "none"]
  BY DEF Arrive
<1>2. heard' = [heard EXCEPT ![h] = Answered] /\ stamp' = stamp /\ rows' = rows /\ now' = now
  BY DEF Arrive
<1>3. status[h] = 0 /\ sql[h] = "none" /\ h \notin Answered
  BY DEF Arrive, Progress, Answered
<1>4. Progress'
  BY <1>1, <1>3 DEF Progress
<1>5. HeardIsOlder'
  BY <1>1, <1>2, <1>3 DEF HeardIsOlder, Answered
<1>6. RowsAreHandshakes'
  BY <1>1, <1>2, <1>3 DEF RowsAreHandshakes
<1>7. CommittedStays'
  BY <1>1, <1>2, <1>3 DEF CommittedStays
<1> QED
  BY <1>4, <1>5, <1>6, <1>7

\* The row a statement installs replaces no row of a handshake that had heard of it:
\* it was not even committed then.
LEMMA UpsertInv ==
  ASSUME HandshakeInv, NEW h \in Handshakes, Upsert(h)
  PROVE  Progress' /\ HeardIsOlder' /\ RowsAreHandshakes' /\ CommittedStays'
<1> USE DEF HandshakeInv, HandshakeTypes
<1> DEFINE new == [node |-> node[h], by |-> h, lastSeen |-> stamp[h]]
<1>1. /\ sql[h] = "running" /\ sql' = [sql EXCEPT ![h] = "committed"]
      /\ rows' = {row \in rows : row.node # node[h]} \cup {new}
      /\ UNCHANGED <<pc, status, node, heard, stamp, now>>
  BY DEF Upsert, handler
<1>2. new \in Entry
  BY <1>1 DEF Progress, Entry
<1>3. Progress' /\ HeardIsOlder'
  BY <1>1 DEF Progress, HeardIsOlder
<1>4. RowsAreHandshakes'
  BY <1>1, <1>2 DEF RowsAreHandshakes
<1>5. CommittedStays'
  <2> SUFFICES ASSUME NEW g \in Handshakes, sql'[g] = "committed"
               PROVE  \E row \in rows' : row.node = node[g] /\ row.by \notin heard[g]
    BY <1>1 DEF CommittedStays
  <2>1. h \notin heard[g]
    BY <1>1 DEF HeardIsOlder, Progress
  <2>2. CASE node[g] = node[h]
    <3>1. new \in rows' /\ new.node = node[g] /\ new.by \notin heard[g]
      BY <1>1, <2>1, <2>2
    <3> QED
      BY <3>1
  <2>3. CASE node[g] # node[h]
    <3>1. sql[g] = "committed"
      BY <1>1, <2>3
    <3>2. PICK row \in rows : row.node = node[g] /\ row.by \notin heard[g]
      BY <3>1 DEF CommittedStays
    <3>3. row \in rows'
      BY <1>1, <2>3, <3>2
    <3> QED
      BY <3>2, <3>3
  <2> QED
    BY <2>2, <2>3
<1> QED
  BY <1>3, <1>4, <1>5

LEMMA HandshakeInvNext ==
  ASSUME HandshakeInv, [Next]_vars
  PROVE  HandshakeInv'
<1> USE DEF handler, statement
<1>t. HandshakeTypes'
  BY HandshakeTypesNext DEF HandshakeInv
<1> DEFINE Rest == Progress' /\ HeardIsOlder' /\ RowsAreHandshakes' /\ CommittedStays'
<1> USE DEF HandshakeInv, HandshakeTypes
<1>1. ASSUME NEW h \in Handshakes, Begin(h) PROVE Rest
  <2>1. /\ sql[h] = "sent" /\ sql' = [sql EXCEPT ![h] = "running"]
        /\ stamp' = [stamp EXCEPT ![h] = now]
        /\ UNCHANGED <<pc, status, node, heard, rows, now>>
    BY <1>1 DEF Begin
  <2>2. Progress' /\ RowsAreHandshakes' /\ CommittedStays'
    BY <2>1 DEF Progress, RowsAreHandshakes, CommittedStays
  <2>3. HeardIsOlder'
    BY <2>1 DEF HeardIsOlder, Progress, Times
  <2> QED
    BY <2>2, <2>3
<1>2. ASSUME NEW h \in Handshakes, Drop(h) PROVE Rest
  <2>1. /\ sql[h] \in {"sent", "running"} /\ sql' = [sql EXCEPT ![h] = "dropped"]
        /\ UNCHANGED <<pc, status, node, heard, stamp, rows, now>>
        /\ pc[h] # "idle"
    BY <1>2 DEF Drop
  <2> QED
    BY <2>1 DEF Progress, HeardIsOlder, RowsAreHandshakes, CommittedStays
<1>3. ASSUME NEW h \in Handshakes, Accept(h) \/ StatementFails(h) PROVE Rest
  <2>1. /\ \/ sql[h] = "committed" /\ status' = [status EXCEPT ![h] = 202]
           \/ status' = [status EXCEPT ![h] = 500] /\ pc[h] = "await"
        /\ pc' = [pc EXCEPT ![h] = "done"]
        /\ UNCHANGED <<node, heard, sql, stamp, rows, now>>
    BY <1>3 DEF Accept, StatementFails
  <2>2. Progress' /\ RowsAreHandshakes' /\ CommittedStays'
    BY <2>1 DEF Progress, RowsAreHandshakes, CommittedStays
  <2>3. status[h] # 202
    BY <1>3 DEF Accept, StatementFails, Progress
  <2>4. HeardIsOlder'
    BY <2>1, <2>3 DEF HeardIsOlder
  <2> QED
    BY <2>2, <2>4
<1>4. ASSUME NEW l \in Lists, Ask(l) \/ Answer(l) \/ ListFails(l) PROVE Rest
  BY <1>4 DEF Ask, Answer, ListFails, Progress, HeardIsOlder, RowsAreHandshakes, CommittedStays
<1>5. CASE Tick
  <2>1. now' = now + 1 /\ UNCHANGED <<pc, status, node, heard, sql, stamp, rows>>
    BY <1>5 DEF Tick
  <2>2. now \in Nat /\ \A h \in Handshakes : stamp[h] \in Nat
    BY BoundsAssumption DEF Times
  <2>3. HeardIsOlder'
    BY <2>1, <2>2 DEF HeardIsOlder
  <2> QED
    BY <2>1, <2>3, <1>t DEF Progress, RowsAreHandshakes, CommittedStays, Entry
<1>6. CASE Crash
  BY <1>6 DEF Crash, Progress, HeardIsOlder, RowsAreHandshakes, CommittedStays
<1>7. CASE UNCHANGED vars
  BY <1>7 DEF vars, Progress, HeardIsOlder, RowsAreHandshakes, CommittedStays
<1> QED
  BY <1>t, <1>1, <1>2, <1>3, <1>4, <1>5, <1>6, <1>7, ArriveInv, UpsertInv DEF Next

LEMMA HandshakeInvariant == Spec => []HandshakeInv
<1>1. HandshakeInv /\ [Next]_vars => HandshakeInv'
  BY HandshakeInvNext
<1> QED
  BY HandshakeInvInit, <1>1, PTL DEF Spec

\* What an answered handshake said of its node is replaced only by handshakes it may
\* have overlapped with or that came after it.
THEOREM AnsweredStaysCorrect == Spec => []AnsweredStays
<1>1. HandshakeInv => AnsweredStays
  BY DEF HandshakeInv, Progress, CommittedStays, AnsweredStays, Answered
<1> QED
  BY <1>1, HandshakeInvariant, PTL

\* last_seen goes back only between handshakes that overlapped.
THEOREM LastSeenMovesOnCorrect == Spec => LastSeenMovesOn
<1> DEFINE MovesOn == \A row \in rows, new \in rows' :
      new.node = row.node /\ new.lastSeen < row.lastSeen => row.by \notin heard[new.by]
<1>1. ASSUME HandshakeInv, Next PROVE MovesOn
  <2> SUFFICES ASSUME NEW row \in rows, NEW new \in rows', new.node = row.node,
                      new.lastSeen < row.lastSeen
               PROVE  row.by \notin heard[new.by]
    OBVIOUS
  <2> USE <1>1 DEF HandshakeInv, HandshakeTypes, RowsAreHandshakes
  <2>s. \A h \in Handshakes : stamp[h] \in Nat
    BY BoundsAssumption DEF Times
  <2>t. row.by \in Handshakes /\ row.lastSeen = stamp[row.by] /\ stamp[row.by] \in Nat
    BY <2>s
  <2>0. new \notin rows
    <3>1. new \in rows => new = row
      OBVIOUS
    <3> QED
      BY <2>t, <3>1
  <2>1. CASE rows' = rows
    BY <2>0, <2>1
  <2>2. ASSUME NEW h \in Handshakes, Upsert(h) PROVE row.by \notin heard[new.by]
    <3>1. new = [node |-> node[h], by |-> h, lastSeen |-> stamp[h]] /\ sql[h] = "running"
      BY <2>0, <2>2 DEF Upsert
    <3>2. new.by = h /\ stamp[h] < stamp[row.by]
      BY <2>t, <3>1
    <3>3. row.by \in heard[h] => stamp[row.by] <= stamp[h]
      BY <3>1 DEF HeardIsOlder
    <3>4. stamp[h] \in Nat
      BY <2>2, <2>s
    <3> QED
      BY <2>t, <3>2, <3>3, <3>4
  <2> QED
    BY <1>1, <2>1, <2>2 DEF Next, Arrive, Begin, Accept, StatementFails, Drop, Ask, Answer,
                            ListFails, Tick, Crash
<1>2. HandshakeInv /\ [Next]_vars => [MovesOn]_vars
  BY <1>1
<1> QED
  BY HandshakeInvariant, <1>2, PTL DEF Spec, LastSeenMovesOn

(***************************************************************************)
(* Lists.                                                                   *)
(***************************************************************************)

ListTypes ==
  list \in [Lists -> [pc : {"idle", "await", "done", "lost"}, at : Times,
                      known : SUBSET Nodes, nodes : SUBSET Entry]]

\* What a list must know is in the table while it waits, and in its answer then.
ListsKnow == \A l \in Lists : list[l].pc = "await" => list[l].known \subseteq {row.node : row \in rows}

ListInv == ListTypes /\ ListsKnow /\ ListsAreCurrent

LEMMA ListInvInit == Init => ListInv
<1> SUFFICES ASSUME Init PROVE ListInv
  OBVIOUS
<1>1. ListTypes
  BY BoundsAssumption DEF Init, ListTypes, Times
<1>2. \A l \in Lists : list[l].pc = "idle"
  BY DEF Init
<1> QED
  BY <1>1, <1>2 DEF ListInv, ListsKnow, ListsAreCurrent

\* A node that is in the table stays there.
LEMMA NodesStay ==
  ASSUME [Next]_vars
  PROVE  {row.node : row \in rows} \subseteq {row.node : row \in rows'}
<1>1. ASSUME NEW h \in Handshakes, Upsert(h)
      PROVE  {row.node : row \in rows} \subseteq {row.node : row \in rows'}
  <2> DEFINE new == [node |-> node[h], by |-> h, lastSeen |-> stamp[h]]
  <2>1. rows' = {row \in rows : row.node # node[h]} \cup {new} /\ new.node = node[h]
    BY <1>1 DEF Upsert
  <2>2. ASSUME NEW row \in rows PROVE \E other \in rows' : other.node = row.node
    <3>1. CASE row.node = node[h]
      BY <2>1, <3>1
    <3>2. CASE row.node # node[h]
      BY <2>1, <3>2
    <3> QED
      BY <3>1, <3>2
  <2> QED
    BY <2>2
<1>2. ASSUME ~ \E h \in Handshakes : Upsert(h) PROVE rows' = rows
  BY <1>2 DEF Next, Arrive, Begin, Accept, StatementFails, Drop, Ask, Answer, ListFails,
              Tick, Crash, vars
<1> QED
  BY <1>1, <1>2

LEMMA AskInv ==
  ASSUME HandshakeInv, ListInv, NEW l \in Lists, Ask(l)
  PROVE  ListInv'
<1> USE DEF ListInv, ListTypes
<1>1. {node[h] : h \in Answered} \subseteq {row.node : row \in rows}
  BY DEF HandshakeInv, Progress, CommittedStays, Answered
<1>2. {row.node : row \in rows} \subseteq Nodes
  BY DEF HandshakeInv, RowsAreHandshakes, Entry
<1>3. list' = [list EXCEPT ![l] = [list[l] EXCEPT !.pc = "await", !.at = now,
                                                  !.known = {node[h] : h \in Answered}]]
      /\ rows' = rows
  BY DEF Ask
<1>4. ListTypes'
  <2>1. now \in Times /\ {node[h] : h \in Answered} \in SUBSET Nodes
    BY <1>1, <1>2 DEF HandshakeInv, HandshakeTypes
  <2> QED
    BY <1>3, <2>1
<1>5. ListsKnow'
  BY <1>1, <1>3 DEF ListsKnow
<1>6. ListsAreCurrent'
  BY <1>3 DEF ListsAreCurrent, LocalEntry
<1> QED
  BY <1>4, <1>5, <1>6

LEMMA AnswerInv ==
  ASSUME HandshakeInv, ListInv, NEW l \in Lists, Answer(l)
  PROVE  ListInv'
<1> USE DEF ListInv, ListTypes
<1>1. list' = [list EXCEPT ![l] = [list[l] EXCEPT !.pc = "done", !.nodes = Listed(l)]]
      /\ rows' = rows /\ list[l].pc = "await"
  BY DEF Answer
<1>2. LocalEntry(l) \in Entry /\ LocalEntry(l).node = Local
  BY LocalAssumption DEF LocalEntry, Entry
<1>3. Listed(l) \subseteq Entry
  BY <1>2 DEF Listed, HandshakeInv, RowsAreHandshakes
<1>4. ListTypes'
  BY <1>1, <1>3
<1>5. ListsKnow'
  BY <1>1 DEF ListsKnow
<1>6. \A x, y \in Listed(l) : x.node = y.node => x = y
  BY <1>2 DEF Listed, HandshakeInv, RowsAreHandshakes
<1>7. list[l].known \subseteq {x.node : x \in Listed(l)}
  BY <1>1, <1>2 DEF ListsKnow, Listed
<1>8. ListsAreCurrent'
  <2> SUFFICES ASSUME NEW k \in Lists, list'[k].pc = "done"
               PROVE  /\ \A x, y \in list'[k].nodes : x.node = y.node => x = y
                      /\ LocalEntry(k)' \in list'[k].nodes
                      /\ list'[k].known \subseteq {x.node : x \in list'[k].nodes}
    BY DEF ListsAreCurrent
  <2>1. CASE k = l
    <3>1. list'[k].nodes = Listed(l) /\ list'[k].known = list[l].known
          /\ LocalEntry(k)' = LocalEntry(l)
      BY <1>1, <2>1 DEF LocalEntry
    <3> QED
      BY <3>1, <1>6, <1>7 DEF Listed
  <2>2. CASE k # l
    <3>1. list'[k] = list[k] /\ LocalEntry(k)' = LocalEntry(k)
      BY <1>1, <2>2 DEF LocalEntry
    <3> QED
      BY <3>1 DEF ListsAreCurrent
  <2> QED
    BY <2>1, <2>2
<1> QED
  BY <1>4, <1>5, <1>8

LEMMA ListInvNext ==
  ASSUME HandshakeInv, ListInv, [Next]_vars
  PROVE  ListInv'
<1> USE DEF ListInv, ListTypes
<1>1. ASSUME NEW l \in Lists, Ask(l) \/ Answer(l) PROVE ListInv'
  BY <1>1, AskInv, AnswerInv
<1>2. ASSUME Crash \/ \E l \in Lists : ListFails(l) PROVE ListInv'
  <2>1. \A k \in Lists : list'[k] = list[k] \/ list'[k] = [list[k] EXCEPT !.pc = "lost"]
    BY <1>2 DEF Crash, ListFails
  <2>2. ListTypes'
    BY <1>2 DEF Crash, ListFails
  <2>3. rows' = rows
    BY <1>2 DEF Crash, ListFails
  <2>4. ListsKnow'
    BY <2>1, <2>3 DEF ListsKnow
  <2>5. ListsAreCurrent'
    <3>1. ASSUME NEW k \in Lists, list'[k].pc = "done" PROVE list'[k] = list[k]
      <4>1. list[k] \in [pc : {"idle", "await", "done", "lost"}, at : Times,
                         known : SUBSET Nodes, nodes : SUBSET Entry]
        OBVIOUS
      <4>2. [list[k] EXCEPT !.pc = "lost"].pc = "lost"
        BY <4>1
      <4> QED
        BY <2>1, <3>1, <4>2
    <3> QED
      BY <3>1 DEF ListsAreCurrent, LocalEntry
  <2> QED
    BY <2>2, <2>4, <2>5
<1>3. CASE list' = list
  BY <1>3, NodesStay DEF ListsKnow, ListsAreCurrent, LocalEntry
<1>4. ASSUME NEW h \in Handshakes, Arrive(h) \/ Begin(h) \/ Upsert(h) \/ Accept(h)
                                   \/ StatementFails(h) \/ Drop(h)
      PROVE  list' = list
  BY <1>4 DEF Arrive, Begin, Upsert, Accept, StatementFails, Drop
<1>5. ASSUME Tick \/ UNCHANGED vars PROVE list' = list
  BY <1>5 DEF Tick, vars
<1> QED
  BY <1>1, <1>2, <1>3, <1>4, <1>5 DEF Next

LEMMA ListInvariant == Spec => []ListInv
<1>1. HandshakeInv /\ ListInv /\ [Next]_vars => ListInv'
  BY ListInvNext
<1> QED
  BY ListInvInit, HandshakeInvariant, <1>1, PTL DEF Spec

\* A list names a node once, this node as this node knows itself, and every node that had
\* been answered.
THEOREM ListsAreCurrentCorrect == Spec => []ListsAreCurrent
BY ListInvariant, PTL DEF ListInv

\* Every variable of the registry of peers keeps its type.
THEOREM FederationTypeCorrect == Spec => []TypeOK
<1>1. HandshakeInv /\ ListInv => TypeOK
  BY DEF HandshakeInv, HandshakeTypes, RowsAreHandshakes, ListInv, ListTypes, TypeOK
<1> QED
  BY <1>1, HandshakeInvariant, ListInvariant, PTL
=============================================================================
