------------------------ MODULE LoopExtensions_proofs ------------------------
(***************************************************************************)
(* Proofs about the two modules that extend LoopRegistry: LoopNode, for     *)
(* every number of clients and requests and every page size, with or        *)
(* without keep-alives; and LoopReseed, for every set of requests, bodies   *)
(* and demo rows, any number of faults and of runs of the seed script.      *)
(***************************************************************************)
EXTENDS LoopNode, LoopReseed, LoopRegistry_proofs, SequenceTheorems

-----------------------------------------------------------------------------
(* A node is a registry and a hub. *)

\* The node's steps are steps of its registry.
LEMMA RegistryStep == [NodeNext]_nodeVars => [Next]_vars
<1> SUFFICES ASSUME [NodeNext]_nodeVars PROVE [Next]_vars
  OBVIOUS
<1>1. ASSUME NEW r \in Requests, PublishToHub(r) PROVE Next
  BY <1>1 DEF PublishToHub, Next, Step
<1>2. ASSUME NEW r \in Requests, Quiet(r) PROVE Next
  BY <1>2 DEF Quiet, Next, Step
<1>3. ASSUME NEW c \in Clients, Open(c) \/ ListEvents(c) PROVE UNCHANGED vars
  BY <1>3 DEF Open, ListEvents
<1>4. ASSUME UNCHANGED nodeVars PROVE UNCHANGED vars
  BY <1>4 DEF nodeVars
<1>5. ASSUME Crash PROVE Next
  BY <1>5 DEF Next
<1> QED
  BY <1>1, <1>2, <1>3, <1>4, <1>5 DEF NodeNext

\* What clients do to the streams is invisible to the registry, so everything that
\* is proved of LoopRegistry holds of the node.
THEOREM NodeIsRegistry == NodeSpec => Spec
<1>1. NodeInit => Init
  BY DEF NodeInit
<1> QED
  BY <1>1, RegistryStep, PTL DEF NodeSpec, Spec

\* The invariants of the registry hold of the node.
LEMMA RegistryInvariant == NodeSpec => [](HandlerInv /\ TablesInv /\ EventsInv)
BY NodeIsRegistry, EventsInvariant, PTL

\* An event about to be broadcast is an event.
LEMMA PublishedEvent ==
  ASSUME HandlerInv, NEW r \in Requests, Publish(r)
  PROVE  EventOf(r) \in Event
<1>1. pc[r] = "publish"
  BY DEF Publish
<1>2. body[r] \in Bodies
  BY <1>1 DEF HandlerInv, Handled
<1> QED
  BY <1>2, BodyFields DEF EventOf

\* The node's steps are steps of its hub.
LEMMA HubStep == HandlerInv /\ [NodeNext]_nodeVars => [Hub!Next]_(Hub!vars)
<1> SUFFICES ASSUME HandlerInv, [NodeNext]_nodeVars PROVE Hub!Next \/ UNCHANGED hub
  BY DEF hub, Hub!vars
<1>1. ASSUME NEW r \in Requests, PublishToHub(r) PROVE Hub!Next
  BY <1>1, PublishedEvent DEF PublishToHub, Hub!Next
<1>2. ASSUME NEW c \in Clients, Open(c) PROVE Hub!Next
  BY <1>2 DEF Open, Hub!Next
<1>3. ASSUME NEW c \in Clients,
             Hub!Refuse(c) \/ Hub!Leave(c) \/ Hub!Vanish(c) \/ Hub!Heartbeat(c) \/ Hub!Close(c)
      PROVE  Hub!Next
  BY <1>3 DEF Hub!Next
<1>4. ASSUME NEW c \in Clients, ListEvents(c) PROVE UNCHANGED hub
  BY <1>4 DEF ListEvents
<1>5. ASSUME UNCHANGED nodeVars PROVE UNCHANGED hub
  BY <1>5 DEF nodeVars
<1>6. ASSUME Hub!Restart PROVE Hub!Next
  BY <1>6 DEF Hub!Next
<1> QED
  BY <1>1, <1>2, <1>3, <1>4, <1>5, <1>6 DEF NodeNext

\* The node uses the hub as the hub expects.
THEOREM NodeIsHub == NodeSpec => Hub!Spec
<1>1. NodeInit => Hub!Init
  BY DEF NodeInit
<1> QED
  BY <1>1, HubStep, RegistryInvariant, PTL DEF NodeSpec, Hub!Spec

-----------------------------------------------------------------------------
(* What the hub's and the clients' steps do to one client's feed and listing. *)

StreamTypes ==
  /\ clients \subseteq Clients
  /\ feed \in [Clients -> Seq(Event)]
  /\ since \in [Clients -> Nat]
  /\ listing \in [Clients -> [asked : BOOLEAN, omitted : SUBSET Nat, events : SUBSET Event]]

\* A client registers, lists the log, or goes on as before.
Registered(c) ==
  feed'[c] = <<>> /\ since'[c] = Len(published) /\ listing'[c] = Unlisted

Listed(c) ==
  /\ feed'[c] = feed[c] /\ since'[c] = since[c] /\ log' = log
  /\ \E page \in SUBSET (DOMAIN log) :
       listing'[c] = [asked |-> TRUE, omitted |-> DOMAIN log \ page,
                      events |-> {log[i] : i \in page}]

Untouched(c) == feed'[c] = feed[c] /\ since'[c] = since[c] /\ listing'[c] = listing[c]

\* A broadcast reaches every registered client; any other step reaches one at most.
LEMMA StreamStep ==
  ASSUME HandlerInv, StreamTypes, [NodeNext]_nodeVars
  PROVE  /\ StreamTypes'
         /\ \/ \E r \in Requests :
                 /\ Publish(r) /\ UNCHANGED <<clients, since, listing>>
                 /\ \A c \in clients : feed'[c] = Append(feed[c], EventOf(r))
            \/ /\ published' = published
               /\ \A c \in clients' :
                    Registered(c) \/ (c \in clients /\ (Listed(c) \/ Untouched(c)))
<1> DEFINE Goal ==
         /\ StreamTypes'
         /\ \/ \E r \in Requests :
                 /\ Publish(r) /\ UNCHANGED <<clients, since, listing>>
                 /\ \A c \in clients : feed'[c] = Append(feed[c], EventOf(r))
            \/ /\ published' = published
               /\ \A c \in clients' :
                    Registered(c) \/ (c \in clients /\ (Listed(c) \/ Untouched(c)))
<1> SUFFICES Goal
  OBVIOUS
<1>1. ASSUME NEW r \in Requests, PublishToHub(r) PROVE Goal
  <2>1. /\ Publish(r) /\ EventOf(r) \in Event
        /\ feed' = [c \in Clients |-> IF c \in clients THEN Append(feed[c], EventOf(r)) ELSE feed[c]]
        /\ UNCHANGED <<clients, since, listing>>
    BY <1>1, PublishedEvent DEF PublishToHub, history, Hub!Broadcast
  <2>2. \A c \in clients : feed'[c] = Append(feed[c], EventOf(r))
    BY <2>1 DEF StreamTypes
  <2>3. StreamTypes'
    BY <2>1 DEF StreamTypes
  <2> QED
    BY <2>1, <2>2, <2>3
<1>2. ASSUME UNCHANGED <<feed, since, listing>>, published' = published, clients' \subseteq clients
      PROVE  Goal
  BY <1>2 DEF StreamTypes, Untouched
<1>3. ASSUME NEW r \in Requests, Quiet(r) /\ UNCHANGED <<hub, history>> PROVE Goal
  <2>1. published' = published
    BY <1>3 DEF Quiet, Arrive, CheckMaterial, CheckProduct, CheckPrior, InsertRow,
                InsertConflict, LogEvent, StatementFails, AdriftRow,
                AdriftEvent, AdriftLost
  <2> QED
    BY <1>2, <1>3, <2>1 DEF hub, history
<1>4. ASSUME Crash /\ Hub!Restart /\ UNCHANGED history PROVE Goal
  BY <1>2, <1>4 DEF Crash, Hub!Restart, history
<1>5. ASSUME NEW c \in Clients, Open(c) PROVE Goal
  <2>1. /\ clients' = clients \cup {c}
        /\ feed' = [feed EXCEPT ![c] = <<>>]
        /\ since' = [since EXCEPT ![c] = Len(published)]
        /\ listing' = [listing EXCEPT ![c] = Unlisted]
        /\ published' = published
    BY <1>5 DEF Open, Hub!Register, vars
  <2>2. Len(published) \in Nat /\ <<>> \in Seq(Event)
        /\ Unlisted \in [asked : BOOLEAN, omitted : SUBSET Nat, events : SUBSET Event]
    BY DEF HandlerInv, TypeOK, Unlisted
  <2>3. StreamTypes'
    BY <2>1, <2>2 DEF StreamTypes
  <2>4. Registered(c)
    BY <2>1 DEF StreamTypes, Registered
  <2>5. \A d \in clients : d # c => Untouched(d)
    BY <2>1 DEF StreamTypes, Untouched
  <2> QED
    BY <2>1, <2>3, <2>4, <2>5
<1>6. ASSUME NEW c \in Clients, ListEvents(c) PROVE Goal
  <2>1. PICK page \in SUBSET (DOMAIN log) :
          listing' = [listing EXCEPT ![c] = [asked |-> TRUE, omitted |-> DOMAIN log \ page,
                                             events |-> {log[i] : i \in page}]]
    BY <1>6 DEF ListEvents
  <2>2. UNCHANGED <<clients, feed, since, published, log>>
    BY <1>6 DEF ListEvents, vars, db, hub
  <2> DEFINE answer == [asked |-> TRUE, omitted |-> DOMAIN log \ page,
                        events |-> {log[i] : i \in page}]
  <2>3. log \in Seq(Event) /\ DOMAIN log \subseteq Nat
    BY DEF HandlerInv, TypeOK
  <2>4. answer \in [asked : BOOLEAN, omitted : SUBSET Nat, events : SUBSET Event]
    BY <2>3
  <2>5. Listed(c)
    BY <2>1, <2>2 DEF StreamTypes, Listed
  <2>6. listing' = [listing EXCEPT ![c] = answer]
    BY <2>1
  <2> HIDE DEF answer
  <2>7. StreamTypes'
    BY <2>2, <2>4, <2>6 DEF StreamTypes
  <2>8. \A d \in clients : d # c => Untouched(d)
    BY <2>2, <2>6 DEF StreamTypes, Untouched
  <2> QED
    BY <2>2, <2>5, <2>7, <2>8
<1>7. ASSUME NEW c \in Clients,
             Hub!Refuse(c) \/ Hub!Leave(c) \/ Hub!Vanish(c) \/ Hub!Heartbeat(c) \/ Hub!Close(c),
             UNCHANGED <<vars, history>>
      PROVE  Goal
  <2>1. feed' = feed /\ clients' \subseteq clients
    BY <1>7 DEF Hub!Refuse, Hub!Leave, Hub!Vanish, Hub!Heartbeat, Hub!Close
  <2> QED
    BY <1>2, <1>7, <2>1 DEF vars, history
<1>8. ASSUME UNCHANGED nodeVars PROVE Goal
  BY <1>2, <1>8 DEF nodeVars, vars, hub, history
<1> QED
  BY <1>1, <1>3, <1>4, <1>5, <1>6, <1>7, <1>8 DEF NodeNext

-----------------------------------------------------------------------------
(* Windows. *)

Windows ==
  /\ StreamTypes
  /\ \A c \in clients : /\ since[c] <= Len(published)
                        /\ feed[c] = SubSeq(published, since[c] + 1, Len(published))

\* A window stays a window when a message is appended to both.
LEMMA WindowGrows ==
  ASSUME NEW s \in Seq(Event), NEW e \in Event, NEW n \in Nat, n <= Len(s)
  PROVE  Append(SubSeq(s, n + 1, Len(s)), e)
           = SubSeq(Append(s, e), n + 1, Len(Append(s, e)))
<1> DEFINE w == SubSeq(s, n + 1, Len(s))
           t == Append(s, e)
           v == SubSeq(t, n + 1, Len(t))
<1>1. Len(s) \in Nat /\ t \in Seq(Event) /\ Len(t) = Len(s) + 1
      /\ (\A i \in 1..Len(s) : t[i] = s[i]) /\ t[Len(s) + 1] = e
  BY AppendProperties
<1>2. /\ w \in Seq(Event) /\ Len(w) = Len(s) - n
      /\ \A i \in 1..(Len(s) - n) : w[i] = s[n + i]
  <2>1. \A i \in (n + 1)..Len(s) : s[i] \in Event
    BY <1>1
  <2>2. /\ w \in Seq(Event)
        /\ Len(w) = IF n + 1 <= Len(s) THEN Len(s) - (n + 1) + 1 ELSE 0
        /\ \A i \in 1 .. (Len(s) - (n + 1) + 1) : w[i] = s[(n + 1) + i - 1]
    BY <1>1, <2>1, SubSeqProperties
  <2> QED
    BY <1>1, <2>2
<1>3. /\ v \in Seq(Event) /\ Len(v) = Len(s) + 1 - n
      /\ \A i \in 1..(Len(s) + 1 - n) : v[i] = t[n + i]
  <2>1. \A i \in (n + 1)..Len(t) : t[i] \in Event
    BY <1>1
  <2>2. /\ v \in Seq(Event)
        /\ Len(v) = IF n + 1 <= Len(t) THEN Len(t) - (n + 1) + 1 ELSE 0
        /\ \A i \in 1 .. (Len(t) - (n + 1) + 1) : v[i] = t[(n + 1) + i - 1]
    BY <1>1, <2>1, SubSeqProperties
  <2> QED
    BY <1>1, <2>2
<1> HIDE DEF w, t, v
<1>4. /\ Append(w, e) \in Seq(Event) /\ Len(Append(w, e)) = Len(v)
      /\ \A i \in 1..Len(w) : Append(w, e)[i] = w[i]
      /\ Append(w, e)[Len(w) + 1] = e
  BY <1>1, <1>2, <1>3, AppendProperties
<1>5. ASSUME NEW i \in 1..Len(v) PROVE Append(w, e)[i] = v[i]
  <2>0. /\ Len(w) \in Nat /\ Len(v) = Len(w) + 1 /\ n + Len(w) = Len(s)
        /\ i \in Int /\ v[i] = t[n + i]
    BY <1>1, <1>2, <1>3
  <2>1. CASE i = Len(w) + 1
    <3>1. n + i = Len(s) + 1
      BY <1>1, <2>0, <2>1
    <3>2. v[i] = e
      BY <1>1, <2>0, <3>1
    <3> QED
      BY <1>4, <2>1, <3>2
  <2>2. CASE i \in 1..Len(w)
    <3>1. w[i] = s[n + i] /\ v[i] = t[n + i] /\ n + i \in 1..Len(s)
      BY <1>1, <1>2, <2>0, <2>2
    <3> QED
      BY <1>1, <1>4, <2>2, <3>1
  <2>3. i \in 1..Len(w) \/ i = Len(w) + 1
    BY <2>0
  <2> QED
    BY <2>1, <2>2, <2>3
<1>6. Append(w, e) = v
  BY <1>3, <1>4, <1>5, SeqEqual
<1> QED
  BY <1>6 DEF w, t, v

LEMMA WindowsNext == HandlerInv /\ Windows /\ [NodeNext]_nodeVars => Windows'
<1> SUFFICES ASSUME HandlerInv, Windows, [NodeNext]_nodeVars PROVE Windows'
  OBVIOUS
<1>1. StreamTypes /\ published \in Seq(Event) /\ Len(published) \in Nat
  BY DEF Windows, HandlerInv, TypeOK
<1>2. StreamTypes'
  BY <1>1, StreamStep
<1>3. ASSUME NEW r \in Requests, Publish(r), UNCHANGED <<clients, since, listing>>,
             \A c \in clients : feed'[c] = Append(feed[c], EventOf(r)),
             NEW c \in clients'
      PROVE  /\ since'[c] <= Len(published')
             /\ feed'[c] = SubSeq(published', since'[c] + 1, Len(published'))
  <2>1. EventOf(r) \in Event
    BY <1>3, PublishedEvent
  <2>2. c \in clients /\ since'[c] = since[c] /\ since[c] \in Nat /\ since[c] <= Len(published)
        /\ feed[c] = SubSeq(published, since[c] + 1, Len(published))
    BY <1>1, <1>3 DEF StreamTypes, Windows
  <2>3. published' = Append(published, EventOf(r)) /\ Len(published') = Len(published) + 1
    BY <1>1, <1>3, <2>1, AppendProperties DEF Publish
  <2>4. feed'[c] = Append(SubSeq(published, since[c] + 1, Len(published)), EventOf(r))
    BY <1>3, <2>2
  <2>5. feed'[c] = SubSeq(published', since[c] + 1, Len(published'))
    BY <1>1, <2>1, <2>2, <2>3, <2>4, WindowGrows
  <2> QED
    BY <1>1, <2>2, <2>3, <2>5
<1>4. ASSUME published' = published, NEW c \in clients', Registered(c)
      PROVE  /\ since'[c] <= Len(published')
             /\ feed'[c] = SubSeq(published', since'[c] + 1, Len(published'))
  BY <1>1, <1>4, SubSeqEmpty DEF Registered
<1>5. ASSUME published' = published, NEW c \in clients, Listed(c) \/ Untouched(c)
      PROVE  /\ since'[c] <= Len(published')
             /\ feed'[c] = SubSeq(published', since'[c] + 1, Len(published'))
  BY <1>5 DEF Listed, Untouched, Windows
<1> QED
  BY <1>1, <1>2, <1>3, <1>4, <1>5, StreamStep DEF Windows

LEMMA WindowsInvariant == NodeSpec => []Windows
<1>1. NodeInit => Windows
  BY DEF NodeInit, Hub!Init, Windows, StreamTypes, Unlisted
<1> QED
  BY <1>1, WindowsNext, RegistryInvariant, PTL DEF NodeSpec

\* Every registered client is written exactly the events broadcast since it
\* registered, in the order in which they were broadcast.
THEOREM FeedsAreWindowsCorrect == NodeSpec => []FeedsAreWindows
<1>1. Windows => FeedsAreWindows
  BY DEF Windows, FeedsAreWindows
<1> QED
  BY <1>1, WindowsInvariant, PTL

-----------------------------------------------------------------------------
(* Nothing missed. *)

\* What the client gets to see of the log's entry i.
Seen(c, i) ==
  \/ i \in listing[c].omitted
  \/ log[i] \in listing[c].events
  \/ \E j \in DOMAIN feed[c] : feed[c][j] = log[i]

\* The request behind an entry is about to broadcast it, or met a fault.
Excused(r) == pc[r] \in {"publish", "lost"} \/ status[r] = 500

\* A request that is excused stays so until it broadcasts.
LEMMA ExcusedStep ==
  ASSUME HandlerInv, HandlerInv', [Next]_vars, NEW q \in Requests, Excused(q)
  PROVE  Excused(q)' \/ (pc[q] = "publish" /\ Publishes(q))
<1>1. /\ Handled(q) /\ Handled(q)' /\ status[q] \in {0, 500}
      /\ pc[q] \in {"publish", "lost"} => status[q] = 0
      /\ status[q] = 500 => pc[q] = "done"
  BY DEF HandlerInv, Handled, Excused
<1>2. pc[q] \in {"publish", "done", "lost"}
  BY <1>1 DEF Excused
<1>3. pc'[q] \in {"publish", "done", "lost"} /\ status'[q] \in {status[q], 201, 202}
  BY <1>2, LoggedStep
<1>4. CASE published' = published
           /\ \A p \in Requests : status'[p] \in {201, 202} => status[p] \in {201, 202}
  <2>1. status'[q] = status[q]
    BY <1>1, <1>3, <1>4
  <2>2. status[q] # 500 => status[q] = 0 /\ pc'[q] # "done"
    BY <1>1, <2>1 DEF Handled
  <2> QED
    BY <1>3, <2>1, <2>2 DEF Excused
<1>5. ASSUME NEW r \in Requests, Publishes(r),
             \A p \in Requests \ {r} : status'[p] = status[p]
      PROVE  Excused(q)' \/ (pc[q] = "publish" /\ Publishes(q))
  <2>1. CASE q = r
    BY <1>5, <2>1 DEF Publishes
  <2>2. CASE q # r
    <3>1. status'[q] = status[q]
      BY <1>5, <2>2
    <3>2. status[q] # 500 => status[q] = 0 /\ pc'[q] # "done"
      BY <1>1, <3>1 DEF Handled
    <3> QED
      BY <1>3, <3>1, <3>2 DEF Excused
  <2> QED
    BY <2>1, <2>2
<1> QED
  BY <1>4, <1>5, TableStep

\* The request behind a new entry of the log is excused.
LEMMA LoggedIsExcused ==
  ASSUME HandlerInv, HandlerInv', [Next]_vars, NEW r \in Requests, Logs(r)
  PROVE  Excused(r)'
<1>1. CASE pc'[r] = "publish"
  BY <1>1 DEF Excused
<1>2. CASE <<r, "event">> \in adrift /\ pc'[r] = pc[r]
  <2>1. pc[r] \in {"done", "lost"} /\ status[r] \in {0, 500} /\ (pc[r] = "done" => status[r] # 0)
    BY <1>2 DEF HandlerInv, Handled
  <2> QED
    BY <1>2, <2>1 DEF Excused, Logs
<1> QED
  BY <1>1, <1>2 DEF Logs

\* NothingMissed, taken apart.
Missing == \A c \in clients : listing[c].asked =>
             \A i \in DOMAIN log : Seen(c, i) \/ Excused(log[i].req)

LEMMA MissingNext ==
  ASSUME HandlerInv, HandlerInv', EventsInv, Windows, Missing, [NodeNext]_nodeVars
  PROVE  Missing'
<1>1. /\ [Next]_vars /\ StreamTypes /\ log \in Seq(Event) /\ Len(log) \in Nat
      /\ log' \in Seq(Event)
  BY RegistryStep DEF Windows, HandlerInv, TypeOK
<1>2. \/ log' = log
      \/ \E r \in Requests : Logs(r)
  BY <1>1, TableStep DEF Inserts
<1>3. ASSUME NEW i \in DOMAIN log', i \notin DOMAIN log
      PROVE  Excused(log[i].req)'
  <2>1. PICK r \in Requests : Logs(r)
    BY <1>2, <1>3
  <2>2. log' = Append(log, EventOf(r))
    BY <2>1 DEF Logs
  <2>3. log'[i].req = r
    <3>1. i = Len(log) + 1
      BY <1>1, <1>3, <2>2
    <3>2. log'[i] = EventOf(r)
      BY <1>1, <2>2, <3>1
    <3> QED
      BY <3>2, EventFields
  <2>4. Excused(r)'
    BY <1>1, <2>1, LoggedIsExcused
  <2> QED
    BY <2>3, <2>4 DEF Excused
<1>4. ASSUME NEW i \in DOMAIN log PROVE i \in DOMAIN log' /\ log'[i] = log[i]
  <2>1. ASSUME NEW r \in Requests, Logs(r) PROVE log' = Append(log, EventOf(r))
    BY <2>1 DEF Logs
  <2> QED
    BY <1>1, <1>2, <2>1
<1>5. ASSUME NEW i \in DOMAIN log, Excused(log[i].req)
      PROVE  Excused(log[i].req)' \/ \E q \in Requests : Publishes(q) /\ log[i] = EventOf(q)
  <2>1. PICK q \in Requests : Told(q) /\ log[i] = EventOf(q)
    BY LoggedRequests DEF EventsInv
  <2>2. log[i].req = q
    BY <2>1, EventFields
  <2>3. Excused(q)' \/ (pc[q] = "publish" /\ Publishes(q))
    BY <1>1, <1>5, <2>2, ExcusedStep
  <2>4. log'[i].req = q
    BY <1>4, <2>2
  <2> QED
    BY <2>1, <2>3, <2>4 DEF Excused
<1> SUFFICES ASSUME NEW c \in clients', listing'[c].asked, NEW i \in DOMAIN log'
             PROVE  Seen(c, i)' \/ Excused(log[i].req)'
  BY DEF Missing
<1>6. CASE i \notin DOMAIN log
  BY <1>3, <1>6
<1>7. CASE i \in DOMAIN log
  <2>1. ASSUME NEW r \in Requests, Publish(r), UNCHANGED <<clients, since, listing>>,
               \A d \in clients : feed'[d] = Append(feed[d], EventOf(r))
        PROVE  Seen(c, i)' \/ Excused(log[i].req)'
    <3>1. c \in clients /\ listing[c].asked /\ listing'[c] = listing[c]
          /\ feed[c] \in Seq(Event) /\ EventOf(r) \in Event
          /\ feed'[c] = Append(feed[c], EventOf(r))
      BY <1>1, <2>1, PublishedEvent DEF StreamTypes
    <3>2. /\ \A j \in DOMAIN feed[c] : j \in DOMAIN feed'[c] /\ feed'[c][j] = feed[c][j]
          /\ \E j \in DOMAIN feed'[c] : feed'[c][j] = EventOf(r)
      <4>1. Len(feed[c]) \in Nat /\ Len(feed'[c]) = Len(feed[c]) + 1
        BY <3>1, AppendProperties
      <4>2. Len(feed[c]) + 1 \in DOMAIN feed'[c] /\ feed'[c][Len(feed[c]) + 1] = EventOf(r)
        BY <3>1, <4>1
      <4> QED
        BY <3>1, <4>1, <4>2
    <3>3. CASE Seen(c, i)
      BY <1>4, <1>7, <3>1, <3>2, <3>3 DEF Seen
    <3>4. CASE Excused(log[i].req)
      <4>1. CASE Excused(log[i].req)'
        BY <1>4, <1>7, <4>1
      <4>2. ASSUME NEW q \in Requests, Publishes(q), log[i] = EventOf(q)
            PROVE  Seen(c, i)'
        <5>1. published' = Append(published, EventOf(q)) /\ published' = Append(published, EventOf(r))
              /\ published \in Seq(Event)
          BY <2>1, <4>2 DEF Publish, Publishes, HandlerInv, TypeOK
        <5>2. EventOf(q) = EventOf(r)
          <6>1. EventOf(q) \in Event
            BY <1>1, <1>7, <4>2
          <6> DEFINE p == EventOf(q)
                     e == EventOf(r)
          <6>2. p \in Event /\ e \in Event /\ Append(published, p) = Append(published, e)
            BY <3>1, <5>1, <6>1
          <6> HIDE DEF p, e
          <6>3. p = e
            BY <5>1, <6>2, AppendInjective
          <6> QED
            BY <6>3 DEF p, e
        <5> QED
          BY <1>4, <1>7, <3>2, <4>2, <5>2 DEF Seen
      <4> QED
        BY <1>5, <1>7, <3>4, <4>1, <4>2
    <3> QED
      BY <1>7, <3>1, <3>3, <3>4 DEF Missing
  <2>2. ASSUME published' = published, c \in clients, Untouched(c)
        PROVE  Seen(c, i)' \/ Excused(log[i].req)'
    <3>1. CASE Seen(c, i)
      BY <1>4, <1>7, <2>2, <3>1 DEF Seen, Untouched
    <3>2. CASE Excused(log[i].req)
      <4>1. \A q \in Requests : ~Publishes(q)
        <5> SUFFICES ASSUME NEW q \in Requests, Publishes(q) PROVE FALSE
          OBVIOUS
        <5>1. published \in Seq(Event) /\ Len(published) \in Nat
          BY DEF HandlerInv, TypeOK
        <5>2. published' = Append(published, EventOf(q))
          BY DEF Publishes
        <5>3. Len(Append(published, EventOf(q))) = Len(published) + 1
          BY <5>1
        <5> QED
          BY <2>2, <5>1, <5>2, <5>3
      <4>2. Excused(log[i].req)'
        BY <1>5, <1>7, <3>2, <4>1
      <4> QED
        BY <1>4, <1>7, <4>2
    <3> QED
      BY <1>7, <2>2, <3>1, <3>2 DEF Missing, Untouched
  <2>3. ASSUME Registered(c) PROVE FALSE
    BY <2>3 DEF Registered, Unlisted
  <2>4. ASSUME Listed(c) PROVE Seen(c, i)'
    <3>1. PICK page \in SUBSET (DOMAIN log) :
            listing'[c] = [asked |-> TRUE, omitted |-> DOMAIN log \ page,
                           events |-> {log[k] : k \in page}]
      BY <2>4 DEF Listed
    <3>2. log' = log
      BY <2>4 DEF Listed
    <3> QED
      BY <1>7, <3>1, <3>2 DEF Seen
  <2> QED
    BY <1>1, <2>1, <2>2, <2>3, <2>4, StreamStep
<1> QED
  BY <1>6, <1>7

\* A client that opened the stream before it listed the log misses nothing but what
\* its page was too short for and what a fault cut short.
THEOREM NothingMissedCorrect == NodeSpec => []NothingMissed
<1>1. NodeInit => Missing
  BY DEF NodeInit, Hub!Init, Missing
<1>2. NodeSpec => []Missing
  <2>1. /\ HandlerInv /\ TablesInv /\ EventsInv /\ (HandlerInv /\ TablesInv /\ EventsInv)'
        /\ Windows /\ Missing /\ [NodeNext]_nodeVars
        => Missing'
    BY MissingNext
  <2> QED
    BY <1>1, <2>1, RegistryInvariant, WindowsInvariant, PTL DEF NodeSpec
<1>3. Missing => NothingMissed
  BY DEF Missing, NothingMissed, Seen, Excused
<1> QED
  BY <1>2, <1>3, PTL

-----------------------------------------------------------------------------
(* LoopReseed: the tables. *)

\* A row stays referred to when the tables grow.
LEMMA ReferencesGrow ==
  ASSUME NEW old, NEW new, old \subseteq new, NEW row, ReferencesHold(old, row)
  PROVE  ReferencesHold(new, row)
BY DEF ReferencesHold, Holds

\* What one insert does to the tables, whoever makes it.
LEMMA InsertKeepsReferences ==
  ASSUME ReferentialIntegrity, NEW row, ReferencesHold(rows, row),
         rows' = rows \cup {row}
  PROVE  ReferentialIntegrity'
<1> SUFFICES ASSUME NEW x \in rows' PROVE ReferencesHold(rows', x)
  BY DEF ReferentialIntegrity, ReferencesHold, Holds
<1>1. ReferencesHold(rows, x)
  BY DEF ReferentialIntegrity
<1>2. rows \subseteq rows'
  OBVIOUS
<1> QED
  BY <1>1, <1>2, ReferencesGrow

\* A step of the server inserts a row whose references hold or leaves the tables.
LEMMA ServerStep ==
  ASSUME ReferentialIntegrity, Next
  PROVE  ReferentialIntegrity'
<1>1. ASSUME NEW r \in Requests, Arrive(r) \/ StatementFails(r) PROVE rows' = rows
  BY <1>1 DEF Arrive, StatementFails, db
<1>2. ASSUME NEW r \in Requests, Step(r)
      PROVE  \/ rows' = rows
             \/ rows' = rows \cup {RowOf(body[r])} /\ ReferencesHold(rows, RowOf(body[r]))
  BY <1>2 DEF Step, CheckMaterial, CheckProduct, CheckPrior, InsertRow, InsertConflict,
              LogEvent, Publish, db
<1>3. ASSUME NEW r \in Requests, AdriftRow(r) \/ AdriftEvent(r) \/ AdriftLost(r)
      PROVE  \/ rows' = rows
             \/ rows' = rows \cup {RowOf(body[r])} /\ ReferencesHold(rows, RowOf(body[r]))
  BY <1>3 DEF AdriftRow, AdriftEvent, AdriftLost, db
<1>4. ASSUME Crash PROVE rows' = rows
  BY <1>4 DEF Crash, db
<1>5. ASSUME rows' = rows PROVE ReferentialIntegrity'
  BY <1>5 DEF ReferentialIntegrity, ReferencesHold, Holds
<1> QED
  BY <1>1, <1>2, <1>3, <1>4, <1>5, InsertKeepsReferences DEF Next

\* A step of the script does as well, or empties the tables.
LEMMA ScriptStep ==
  ASSUME ReferentialIntegrity, SeedNext
  PROVE  ReferentialIntegrity'
<1>1. ASSUME NEW k \in Runs, Truncate(k) PROVE ReferentialIntegrity'
  BY <1>1 DEF Truncate, ReferentialIntegrity
<1>2. ASSUME NEW k \in Runs, SeedRow(k) PROVE ReferentialIntegrity'
  <2>1. ReferencesHold(rows, RowAt(k)) /\ rows' = rows \cup {RowAt(k)}
    BY <1>2 DEF SeedRow
  <2> QED
    BY <2>1, InsertKeepsReferences
<1>3. ASSUME NEW k \in Runs, SeedRowConflict(k) \/ SeedEvent(k) \/ SeedFails(k) \/ SeedLost(k)
      PROVE  ReferentialIntegrity'
  <2>1. rows' = rows
    BY <1>3 DEF SeedRowConflict, SeedEvent, SeedFails, SeedLost, vars, db
  <2> QED
    BY <2>1 DEF ReferentialIntegrity, ReferencesHold, Holds
<1> QED
  BY <1>1, <1>2, <1>3 DEF SeedNext, SeedStep

\* Every stored entity refers to stored entities, although the tables may be emptied
\* between a handler's existence checks and its insert.
THEOREM ReferencesSurviveReseed == ReseedSpec => []ReferentialIntegrity
<1>1. ReseedInit => ReferentialIntegrity
  BY DEF ReseedInit, Init, ReferentialIntegrity
<1>2. ReferentialIntegrity /\ [ReseedNext]_<<vars, seed>> => ReferentialIntegrity'
  <2> SUFFICES ASSUME ReferentialIntegrity, [ReseedNext]_<<vars, seed>>
               PROVE  ReferentialIntegrity'
    OBVIOUS
  <2>1. CASE UNCHANGED <<vars, seed>>
    BY <2>1 DEF vars, ReferentialIntegrity, ReferencesHold, Holds
  <2> QED
    BY <2>1, ServerStep, ScriptStep DEF ReseedNext
<1> QED
  BY <1>1, <1>2, PTL DEF ReseedSpec

-----------------------------------------------------------------------------
(* The requests that arrived after the last TRUNCATE. What HandlerInv says of a     *)
(* request by itself survives the script; what TablesInv and EventsInv say of        *)
(* requests, tables and log does so for fresh requests only.                         *)

ScriptTypes ==
  /\ seeding \in [Runs -> Statements \cup {"complete", "off"}]
  /\ seeded \in [Runs -> 0..Len(SeedRows)]
  /\ \A k \in Runs : /\ seeding[k] = "truncate" => seeded[k] = 0
                     /\ seeding[k] = "event" => seeded[k] # 0
                     /\ seeding[k] = "complete" => seeded[k] = Len(SeedRows)
  /\ fresh \subseteq Requests \cup Runs
  /\ late \subseteq DOMAIN log
  /\ \A r \in Requests \ fresh : pc[r] # "idle"

\* The requests of this epoch, and an entry of the log that one of them has made.
Fresh == Requests \cap fresh

OfFresh(e) == e.via # "seed" /\ e.req \in Fresh

FreshInv ==
  /\ \A r \in Fresh : Grounded(r)
  /\ \A p, q \in Fresh :
       created[p] /\ created[q] /\ body[p].entity = body[q].entity /\ body[p].id = body[q].id
         => p = q
  /\ \A i \in DOMAIN log :
       OfFresh(log[i]) => Told(log[i].req) /\ log[i] = EventOf(log[i].req)
  /\ \A i, j \in DOMAIN log :
       OfFresh(log[i]) /\ OfFresh(log[j]) /\ log[i].req = log[j].req => i = j
  /\ \A r \in Fresh : pc[r] = "publish" \/ status[r] \in {201, 202} => Logged(r)

\* The run whose TRUNCATE was the last, while it goes on, and how many rows a run has
\* given their event.
Live(k) == k \in Runs \cap fresh /\ seeding[k] \in {"row", "event", "complete"}

Marked(k) == IF seeding[k] = "event" THEN seeded[k] - 1 ELSE seeded[k]

\* The places in the log of the other entries, and of the script's among them.
Timely == DOMAIN log \ late

Seeds(j) == j \in Timely /\ log[j].via = "seed"

\* The rows of the live run are there so far, each marked once, and by nobody else of
\* this epoch.
LiveInv(k) ==
  /\ \A i \in 1..seeded[k] : SeedRows[i] \in rows
  /\ \A i \in 1..Marked(k) : \E j \in Timely : Marks(log[j], SeedRows[i])
  /\ \A j \in Timely : Seeds(j) => \E i \in 1..Marked(k) : Marks(log[j], SeedRows[i])
  /\ \A j, m \in Timely :
       Seeds(j) /\ Seeds(m) /\ log[j].entity = log[m].entity /\ log[j].id = log[m].id => j = m

ScriptInv ==
  /\ \A k, q \in Runs : Live(k) /\ Live(q) => k = q
  /\ \A k \in Runs : Live(k) => LiveInv(k)
  /\ \A j \in Timely : Seeds(j) => Holds(rows, log[j].entity, log[j].id)

\* MismatchesStraddle with what is known of the culprit.
Stored(r, row) ==
  /\ RowOf(body[r]) = row
  /\ created[r] \/ (pc[r] \in {"done", "lost"} /\ status[r] \notin {400, 401, 409})

CulpritInv ==
  \A row \in rows :
    row.prior # None /\ ~PriorAgrees(rows, row.kind, row) =>
      \E r \in Requests \ fresh : Stored(r, row)

ReseedInv == HandlerInv /\ ScriptTypes /\ FreshInv /\ ScriptInv /\ CulpritInv

LEMMA SeedData ==
  ASSUME NEW i \in 1..Len(SeedRows)
  PROVE  /\ SeedRows[i] \in Row /\ SeedRows[i].prior = None
         /\ SeedMark(SeedRows[i]) \in Event
         /\ \A j \in 1..(i - 1) :
              SeedRows[j].kind # SeedRows[i].kind \/ SeedRows[j].id # SeedRows[i].id
<1>1. SeedRows \in Seq(Row) /\ i \in DOMAIN SeedRows
  BY SeedRowsAssumption
<1>2. SeedRows[i] \in Row
  BY <1>1
<1>3. SeedMark(SeedRows[i]) \in Event
  BY <1>2 DEF SeedMark, Row, Event, EventTypes
<1>4. SeedRows[i].prior = None /\ ~Holds({SeedRows[j] : j \in 1..(i - 1)}, SeedRows[i].kind, SeedRows[i].id)
  BY <1>1, SeedRowsAssumption
<1> QED
  BY <1>2, <1>3, <1>4 DEF Holds

\* What a step of the script leaves alone, and what it may do to the data.
LEMMA ScriptKeeps ==
  ASSUME HandlerInv, ScriptTypes, SeedNext
  PROVE  /\ UNCHANGED <<pc, body, created, status, adrift, published, metrics>>
         /\ faults' \in Nat
         /\ \/ \E k \in Runs : Truncate(k)
            \/ \E k \in Runs : SeedRow(k) /\ seeded[k] + 1 \in 1..Len(SeedRows)
            \/ \E k \in Runs : /\ SeedEvent(k) /\ seeded[k] \in 1..Len(SeedRows)
                              /\ SeedMark(SeedRows[seeded[k]]) \in Event
            \/ /\ UNCHANGED <<rows, log, fresh, late, seeded>>
               /\ \/ UNCHANGED seeding
                  \/ \E k \in Runs : seeding' = [seeding EXCEPT ![k] = "off"]
<1>1. faults \in Nat
  BY DEF HandlerInv, TypeOK
<1>2. ASSUME NEW k \in Runs, SeedEvent(k)
      PROVE  seeded[k] \in 1..Len(SeedRows) /\ SeedMark(SeedRows[seeded[k]]) \in Event
  <2>1. seeded[k] \in 1..Len(SeedRows)
    BY <1>2, SeedRowsAssumption DEF SeedEvent, ScriptTypes
  <2> QED
    BY <2>1, SeedData
<1>3. ASSUME NEW k \in Runs, SeedRow(k) PROVE seeded[k] + 1 \in 1..Len(SeedRows)
  BY <1>3, SeedRowsAssumption DEF SeedRow, ScriptTypes
<1>4. PICK k \in Runs : SeedStep(k)
  BY DEF SeedNext
<1>5. CASE Truncate(k)
  BY <1>1, <1>5 DEF Truncate, request
<1>6. CASE SeedRow(k)
  BY <1>1, <1>3, <1>6 DEF SeedRow, request
<1>7. CASE SeedEvent(k)
  BY <1>1, <1>2, <1>7 DEF SeedEvent, request
<1>8. CASE SeedRowConflict(k)
  BY <1>1, <1>8 DEF SeedRowConflict, vars
<1>9. CASE SeedFails(k)
  BY <1>1, <1>9 DEF SeedFails, request, db
<1>10. CASE SeedLost(k)
  BY <1>1, <1>10 DEF SeedLost, vars
<1> QED
  BY <1>4, <1>5, <1>6, <1>7, <1>8, <1>9, <1>10 DEF SeedStep

\* What the log of the next state is made of, when it only grows.
LEMMA LogGrows ==
  ASSUME log \in Seq(Event), NEW e \in Event, log' = Append(log, e)
  PROVE  /\ \A i \in DOMAIN log : i \in DOMAIN log' /\ log'[i] = log[i]
         /\ Len(log) + 1 \in DOMAIN log' /\ log'[Len(log) + 1] = e
         /\ \A i \in DOMAIN log' : i \in DOMAIN log \/ i = Len(log) + 1
OBVIOUS

LEMMA HandlerScript == HandlerInv /\ ScriptTypes /\ SeedNext => HandlerInv'
<1> SUFFICES ASSUME HandlerInv, ScriptTypes, SeedNext PROVE HandlerInv'
  OBVIOUS
<1>1. TypeOK /\ \A r \in Requests : Handled(r)
  BY DEF HandlerInv
<1>2. rows' \subseteq Row /\ log' \in Seq(Event)
  <2>1. ASSUME NEW k \in Runs, Truncate(k) PROVE rows' \subseteq Row /\ log' \in Seq(Event)
    BY <2>1 DEF Truncate
  <2>2. ASSUME NEW k \in Runs, SeedRow(k), seeded[k] + 1 \in 1..Len(SeedRows)
        PROVE  rows' \subseteq Row /\ log' \in Seq(Event)
    BY <1>1, <2>2, SeedData DEF SeedRow, RowAt, TypeOK
  <2>3. ASSUME NEW k \in Runs, SeedEvent(k), SeedMark(SeedRows[seeded[k]]) \in Event
        PROVE  rows' \subseteq Row /\ log' \in Seq(Event)
    BY <1>1, <2>3 DEF SeedEvent, TypeOK
  <2> QED
    BY <1>1, <2>1, <2>2, <2>3, ScriptKeeps DEF TypeOK
<1>3. TypeOK'
  BY <1>1, <1>2, ScriptKeeps DEF TypeOK
<1>4. ASSUME NEW r \in Requests PROVE Handled(r)'
  <2>1. Handled(r)
    BY <1>1
  <2>2. UNCHANGED <<pc, body, created, status, adrift>>
    BY ScriptKeeps
  <2> QED
    BY <2>1, <2>2 DEF Handled
<1> QED
  BY <1>3, <1>4 DEF HandlerInv

LEMMA TablesGrow ==
  ASSUME HandlerInv, [Next]_vars
  PROVE  rows \subseteq rows'
BY TableStep DEF Inserts, Logs

LEMMA TypesServer ==
  ASSUME HandlerInv, ScriptTypes, [Next]_vars, UNCHANGED seed
  PROVE  ScriptTypes'
<1>1. \A r \in Requests \ fresh : pc'[r] # "idle"
  BY BodyKept DEF ScriptTypes
<1>2. DOMAIN log \subseteq DOMAIN log'
  <2>1. log \in Seq(Event)
    BY DEF HandlerInv, TypeOK
  <2>2. log' = log \/ \E r \in Requests : log' = Append(log, EventOf(r))
    BY TableStep DEF Inserts, Logs
  <2> QED
    BY <2>1, <2>2
<1> QED
  BY <1>1, <1>2 DEF ScriptTypes, seed

LEMMA TypesScript ==
  ASSUME HandlerInv, ScriptTypes, SeedNext
  PROVE  ScriptTypes'
<1>0. Len(SeedRows) \in Nat /\ log \in Seq(Event)
  BY SeedRowsAssumption DEF HandlerInv, TypeOK
<1>1. ASSUME NEW k \in Runs, Truncate(k) PROVE ScriptTypes'
  BY <1>0, <1>1 DEF Truncate, GoOn, ScriptTypes, Statements, request
<1>2. ASSUME NEW k \in Runs, SeedRow(k) PROVE ScriptTypes'
  BY <1>0, <1>2 DEF SeedRow, GoOn, ScriptTypes, Statements, request
<1>3. ASSUME NEW k \in Runs, SeedEvent(k), SeedMark(SeedRows[seeded[k]]) \in Event
      PROVE  ScriptTypes'
  <2>1. DOMAIN log' = DOMAIN log \cup {Len(log) + 1}
    BY <1>0, <1>3 DEF SeedEvent
  <2>2. late' \subseteq DOMAIN log'
    BY <1>3, <2>1 DEF SeedEvent, ScriptTypes
  <2> QED
    BY <1>0, <1>3, <2>2 DEF SeedEvent, GoOn, ScriptTypes, Statements, request
<1>4. ASSUME UNCHANGED <<pc, rows, log, fresh, late, seeded>>,
             UNCHANGED seeding \/ \E k \in Runs : seeding' = [seeding EXCEPT ![k] = "off"]
      PROVE  ScriptTypes'
  BY <1>0, <1>4 DEF ScriptTypes, Statements
<1> QED
  BY <1>1, <1>2, <1>3, <1>4, ScriptKeeps

-----------------------------------------------------------------------------
(* What fresh requests were promised. *)

\* The creator of an entity is the only fresh one; see CreatorsNext.
LEMMA FreshCreators ==
  ASSUME HandlerInv, ScriptTypes, FreshInv, [Next]_vars, NEW p \in Fresh, NEW q \in Fresh,
         created'[p], created'[q],
         body'[p].entity = body'[q].entity, body'[p].id = body'[q].id
  PROVE  p = q
<1> p \in Requests /\ q \in Requests
  BY DEF Fresh
<1>1. ASSUME NEW x \in Fresh, NEW y \in Fresh, x # y, created'[x], created'[y],
             body'[x].entity = body'[y].entity, body'[x].id = body'[y].id, ~created[x]
      PROVE  FALSE
  <2>0. x \in Requests /\ y \in Requests
    BY DEF Fresh
  <2>1. Inserts(x) /\ pc[x] # "idle" /\ created[y]
    BY <1>1, <2>0, CreatedStep
  <2>2. pc[y] # "idle" /\ RowOf(body[y]) \in rows
    BY <2>0, <2>1 DEF HandlerInv, Handled, FreshInv, Grounded
  <2>3. body'[x] = body[x] /\ body'[y] = body[y]
    BY <2>0, <2>1, <2>2, BodyKept
  <2> QED
    BY <1>1, <2>1, <2>2, <2>3 DEF Inserts, Holds, RowOf
<1>2. CASE created[p] /\ created[q]
  <2>1. pc[p] # "idle" /\ pc[q] # "idle"
    BY <1>2 DEF HandlerInv, Handled
  <2>2. body'[p] = body[p] /\ body'[q] = body[q]
    BY <2>1, BodyKept
  <2> QED
    BY <1>2, <2>2 DEF FreshInv
<1> QED
  BY <1>1, <1>2

\* What a request is just about to log; see LogNext.
LEMMA ToldAtLog ==
  ASSUME HandlerInv, [Next]_vars, NEW r \in Requests, Grounded(r), Logs(r)
  PROVE  Told(r)' /\ EventOf(r)' = EventOf(r) /\ ~Told(r)
<1>1. Handled(r)
  BY DEF HandlerInv
<1>2. /\ pc[r] \in {"event", "done", "lost"} /\ (created[r] <=> body[r].route \in Entities)
      /\ status[r] \notin {400, 401, 409}
  <2>1. CASE pc[r] = "event"
    BY <1>1, <2>1 DEF Handled
  <2>2. CASE <<r, "event">> \in adrift
    BY <1>1, <2>2 DEF Handled
  <2> QED
    BY <2>1, <2>2 DEF Logs
<1>3. body[r].route = "status" => Holds(rows, "material", body[r].material)
  BY DEF Logs, Grounded
<1>4. pc'[r] \in {"publish", "done", "lost"}
  <2>1. <<r, "event">> \in adrift => pc[r] \in {"done", "lost"}
    BY <1>1 DEF Handled
  <2> QED
    BY <2>1 DEF Logs
<1> QED
  BY <1>2, <1>3, <1>4 DEF Logs, Told, EventOf

LEMMA FreshServer ==
  ASSUME HandlerInv, ScriptTypes, FreshInv, [Next]_vars, UNCHANGED seed
  PROVE  FreshInv'
<1>0. Fresh' = Fresh /\ Fresh \subseteq Requests /\ log \in Seq(Event)
  BY DEF Fresh, seed, HandlerInv, TypeOK
<1>1. \A r \in Fresh : Grounded(r)'
  BY <1>0, TablesGrow, GroundedNext DEF FreshInv
<1>2. \A p, q \in Fresh :
        created'[p] /\ created'[q] /\ body'[p].entity = body'[q].entity /\ body'[p].id = body'[q].id
          => p = q
  BY FreshCreators
<1>3. ASSUME NEW i \in DOMAIN log, OfFresh(log[i])
      PROVE  /\ log[i].req \in Fresh /\ Told(log[i].req) /\ log[i] = EventOf(log[i].req)
             /\ \A r \in Requests : r = log[i].req => Told(r)' /\ log[i] = EventOf(r)'
  <2>1. log[i].req \in Fresh /\ Told(log[i].req) /\ log[i] = EventOf(log[i].req)
    BY <1>0, <1>3 DEF FreshInv, OfFresh
  <2>2. ASSUME NEW r \in Requests, r = log[i].req PROVE Told(r)' /\ log[i] = EventOf(r)'
    <3>1. Told(r) /\ log[i] = EventOf(r)
      BY <2>1, <2>2
    <3> QED
      BY <3>1, TablesGrow, ToldNext
  <2> QED
    BY <2>1, <2>2
<1> DEFINE
      GrownLog ==
        /\ \A i \in DOMAIN log' :
             OfFresh(log[i])' => Told(log[i].req)' /\ (log[i] = EventOf(log[i].req))'
        /\ \A i, j \in DOMAIN log' :
             OfFresh(log[i])' /\ OfFresh(log[j])' /\ (log[i].req = log[j].req)' => i = j
        /\ \A r \in Fresh : Logged(r) => Logged(r)'
<1>4. GrownLog
  <2>1. CASE log' = log
    BY <1>0, <1>3, <2>1 DEF OfFresh, FreshInv, Logged
  <2>2. ASSUME NEW r \in Requests, Logs(r), r \in Fresh
        PROVE  Told(r)' /\ EventOf(r)' = EventOf(r) /\ ~Told(r)
    BY <2>2, ToldAtLog DEF FreshInv
  <2>3. ASSUME NEW r \in Requests, Logs(r)
        PROVE  GrownLog
    <3>1. EventOf(r).req = r /\ log' = Append(log, EventOf(r))
      BY <2>3, EventFields DEF Logs
    <3>2. ASSUME NEW i \in DOMAIN log'
          PROVE  \/ i \in DOMAIN log /\ log'[i] = log[i]
                 \/ i = Len(log) + 1 /\ log'[i] = EventOf(r)
      BY <1>0, <3>1
    <3>3. \A i \in DOMAIN log : i \in DOMAIN log' /\ log'[i] = log[i]
      BY <1>0, <3>1
    <3>4. ASSUME NEW i \in DOMAIN log', OfFresh(log[i])'
          PROVE  Told(log[i].req)' /\ (log[i] = EventOf(log[i].req))'
      <4>1. CASE i \in DOMAIN log /\ log'[i] = log[i]
        BY <1>0, <1>3, <3>4, <4>1 DEF OfFresh
      <4>2. CASE log'[i] = EventOf(r)
        BY <1>0, <2>2, <2>3, <3>1, <3>4, <4>2 DEF OfFresh
      <4> QED
        BY <3>2, <4>1, <4>2
    <3>5. ASSUME NEW i \in DOMAIN log', NEW j \in DOMAIN log',
                 OfFresh(log[i])', OfFresh(log[j])', log'[i].req = log'[j].req
          PROVE  i = j
      <4>1. ASSUME NEW k \in DOMAIN log, log[k].req = r, OfFresh(log[k]) PROVE FALSE
        <5>1. r \in Fresh /\ Told(r)
          BY <1>3, <4>1 DEF OfFresh
        <5> QED
          BY <2>2, <2>3, <5>1
      <4>2. CASE i \in DOMAIN log /\ log'[i] = log[i] /\ j \in DOMAIN log /\ log'[j] = log[j]
        BY <1>0, <3>5, <4>2 DEF OfFresh, FreshInv
      <4>3. CASE log'[i] = EventOf(r) /\ log'[j] = EventOf(r)
        <5>1. ASSUME NEW k \in DOMAIN log', log'[k] = EventOf(r), OfFresh(log[k])'
              PROVE  k = Len(log) + 1
          <6>1. k \in DOMAIN log => log[k].req = r /\ OfFresh(log[k])
            BY <1>0, <3>1, <3>3, <5>1 DEF OfFresh
          <6> QED
            BY <3>2, <4>1, <6>1, <5>1
        <5> QED
          BY <3>5, <4>3, <5>1
      <4>4. CASE i \in DOMAIN log /\ log'[i] = log[i] /\ log'[j] = EventOf(r)
        BY <1>0, <3>1, <3>5, <4>1, <4>4 DEF OfFresh
      <4>5. CASE j \in DOMAIN log /\ log'[j] = log[j] /\ log'[i] = EventOf(r)
        BY <1>0, <3>1, <3>5, <4>1, <4>5 DEF OfFresh
      <4> QED
        BY <3>2, <4>2, <4>3, <4>4, <4>5
    <3>6. \A x \in Fresh : Logged(x) => Logged(x)'
      BY <3>3 DEF Logged
    <3> QED
      BY <3>4, <3>5, <3>6
  <2> QED
    BY <2>1, <2>3, TableStep DEF Inserts
<1>5. ASSUME NEW q \in Fresh, pc'[q] = "publish" \/ status'[q] \in {201, 202}
      PROVE  Logged(q)'
  <2>0. q \in Requests
    BY <1>0
  <2>1. CASE pc[q] = "publish" \/ status[q] \in {201, 202}
    BY <1>4, <2>1 DEF FreshInv
  <2>2. CASE Logs(q)
    <3>1. log'[Len(log) + 1] = EventOf(q) /\ Len(log) + 1 \in DOMAIN log'
      BY <1>0, <2>2 DEF Logs
    <3> QED
      BY <3>1, EventFields DEF Logged
  <2>3. status'[q] \in {201, 202} => status[q] \in {201, 202} \/ pc[q] = "publish"
    BY <2>0, TableStep DEF Publishes
  <2> QED
    BY <1>5, <2>0, <2>1, <2>2, <2>3, PublishStep
<1> QED
  BY <1>0, <1>1, <1>2, <1>4, <1>5 DEF FreshInv

LEMMA FreshScript ==
  ASSUME HandlerInv, ScriptTypes, FreshInv, SeedNext
  PROVE  FreshInv'
<1>0. /\ UNCHANGED <<pc, body, created, status, adrift>>
      /\ Fresh \subseteq Requests /\ log \in Seq(Event)
  BY ScriptKeeps DEF Fresh, HandlerInv, TypeOK
<1>1. ASSUME NEW k \in Runs, Truncate(k) PROVE FreshInv'
  <2>1. Fresh' = {r \in Requests : pc[r] = "idle"} /\ DOMAIN log' = {}
    BY <1>1, RunsAssumption DEF Truncate, Fresh
  <2>2. ASSUME NEW r \in Fresh'
        PROVE  /\ r \in Requests /\ pc'[r] = "idle" /\ ~created'[r] /\ status'[r] = 0
               /\ <<r, "row">> \notin adrift' /\ <<r, "event">> \notin adrift'
    BY <1>0, <2>1 DEF HandlerInv, Handled
  <2>3. \A r \in Fresh' : Grounded(r)'
    BY <2>2 DEF Grounded
  <2>4. \A p, q \in Fresh' : ~(created'[p] /\ created'[q])
    BY <2>2
  <2>5. ASSUME NEW r \in Fresh' PROVE ~(pc'[r] = "publish" \/ status'[r] \in {201, 202})
    <3>1. pc'[r] = "idle" /\ status'[r] = 0
      BY <2>2
    <3> QED
      BY <3>1
  <2>6. \A i \in DOMAIN log' : FALSE
    BY <2>1
  <2> QED
    BY <2>3, <2>4, <2>5, <2>6 DEF FreshInv
<1>2. ASSUME fresh' = fresh, rows \subseteq rows', log' = log PROVE FreshInv'
  <2>0. Fresh' = Fresh
    BY <1>2 DEF Fresh
  <2>1. \A r \in Fresh : Grounded(r)'
    BY <1>0, <1>2, Growing DEF FreshInv, Grounded
  <2>2. ASSUME NEW r, Told(r) PROVE Told(r)'
    <3>1. Holds(rows, "material", body[r].material) => Holds(rows', "material", body[r].material)
      BY <1>2, Growing
    <3> QED
      BY <1>0, <2>2, <3>1 DEF Told
  <2> QED
    BY <1>0, <1>2, <2>0, <2>1, <2>2 DEF FreshInv, OfFresh, EventOf, Logged
<1>3. ASSUME NEW k \in Runs, SeedRow(k) PROVE FreshInv'
  BY <1>2, <1>3 DEF SeedRow
<1>4. ASSUME NEW e \in Event, e.via = "seed", log' = Append(log, e), UNCHANGED <<rows, fresh>>
      PROVE  FreshInv'
  <2>1. Fresh' = Fresh
    BY <1>4 DEF Fresh
  <2>2. ASSUME NEW i \in DOMAIN log', OfFresh(log[i])'
        PROVE  i \in DOMAIN log /\ log'[i] = log[i] /\ OfFresh(log[i])
    BY <1>0, <1>4, <2>1, <2>2, LogGrows DEF OfFresh
  <2>3. \A r : Grounded(r)' <=> Grounded(r)
    BY <1>0, <1>4 DEF Grounded
  <2>4. \A r : Told(r)' <=> Told(r)
    BY <1>0, <1>4 DEF Told
  <2>5. \A r : EventOf(r)' = EventOf(r)
    BY <1>0 DEF EventOf
  <2>6. \A r \in Fresh : Logged(r) => Logged(r)'
    BY <1>0, <1>4, LogGrows DEF Logged
  <2>7. \A i \in DOMAIN log' :
          OfFresh(log[i])' => Told(log[i].req)' /\ (log[i] = EventOf(log[i].req))'
    BY <2>2, <2>4, <2>5 DEF FreshInv
  <2>8. \A i, j \in DOMAIN log' :
          OfFresh(log[i])' /\ OfFresh(log[j])' /\ (log[i].req = log[j].req)' => i = j
    BY <2>2 DEF FreshInv
  <2> QED
    BY <1>0, <2>1, <2>3, <2>6, <2>7, <2>8 DEF FreshInv
<1>5. ASSUME NEW k \in Runs, SeedEvent(k), SeedMark(SeedRows[seeded[k]]) \in Event
      PROVE  FreshInv'
  <2>1. SeedMark(SeedRows[seeded[k]]).via = "seed"
    BY DEF SeedMark
  <2>2. log' = Append(log, SeedMark(SeedRows[seeded[k]])) /\ UNCHANGED <<rows, fresh>>
    BY <1>5 DEF SeedEvent
  <2> QED
    BY <1>4, <1>5, <2>1, <2>2
<1>6. CASE UNCHANGED <<rows, log, fresh, late, seeded>>
  BY <1>2, <1>6
<1> QED
  BY <1>1, <1>3, <1>5, <1>6, ScriptKeeps

-----------------------------------------------------------------------------
(* The script's own rows and events. *)

\* What the script has stored and marked is kept when its entries stay where they are,
\* the tables grow, and the log gets none of its entries.
LEMMA ScriptHolds ==
  ASSUME ScriptInv, rows \subseteq rows', Timely \subseteq Timely', late' = late,
         \A j \in Timely : log'[j] = log[j],
         \A j \in Timely' : log'[j].via = "seed" => j \in Timely,
         UNCHANGED seeded,
         \A k \in Runs : Live(k)' => Live(k) /\ seeding'[k] = seeding[k]
  PROVE  ScriptInv'
<1>1. ASSUME NEW j \in Timely', Seeds(j)' PROVE Seeds(j) /\ log'[j] = log[j]
  BY <1>1 DEF Seeds
<1>2. ASSUME NEW k \in Runs, Live(k)' PROVE LiveInv(k)'
  <2>1. LiveInv(k) /\ Marked(k)' = Marked(k)
    BY <1>2 DEF ScriptInv, Marked
  <2>2. /\ \A i \in 1..seeded[k] : SeedRows[i] \in rows'
        /\ \A i \in 1..Marked(k) : \E j \in Timely' : Marks(log'[j], SeedRows[i])
    BY <2>1 DEF LiveInv
  <2>3. \A j \in Timely' : Seeds(j)' => \E i \in 1..Marked(k) : Marks(log'[j], SeedRows[i])
    BY <1>1, <2>1 DEF LiveInv, Seeds
  <2>4. \A j, m \in Timely' :
          Seeds(j)' /\ Seeds(m)' /\ log'[j].entity = log'[m].entity /\ log'[j].id = log'[m].id => j = m
    BY <1>1, <2>1 DEF LiveInv, Seeds
  <2> QED
    BY <2>1, <2>2, <2>3, <2>4 DEF LiveInv, Marks
<1>3. \A k, q \in Runs : Live(k)' /\ Live(q)' => k = q
  BY DEF ScriptInv
<1>4. ASSUME NEW j \in Timely', Seeds(j)' PROVE Holds(rows', log'[j].entity, log'[j].id)
  BY <1>1, <1>4, Growing DEF ScriptInv, Seeds
<1> QED
  BY <1>2, <1>3, <1>4 DEF ScriptInv

LEMMA ScriptServer ==
  ASSUME HandlerInv, ScriptTypes, ScriptInv, [Next]_vars, UNCHANGED seed
  PROVE  ScriptInv'
<1>0. UNCHANGED <<seeding, seeded, fresh, late>> /\ log \in Seq(Event)
  BY DEF seed, HandlerInv, TypeOK
<1>1. \A k \in Runs : Live(k)' => Live(k) /\ seeding'[k] = seeding[k]
  BY <1>0 DEF Live
<1>2. CASE log' = log
  BY <1>0, <1>1, <1>2, TablesGrow, ScriptHolds DEF Timely
<1>3. ASSUME NEW r \in Requests, Logs(r) PROVE ScriptInv'
  <2>1. EventOf(r).via # "seed" /\ log' = Append(log, EventOf(r))
    BY <1>3 DEF Logs, EventOf, EventFor
  <2>2. /\ \A i \in DOMAIN log : i \in DOMAIN log' /\ log'[i] = log[i]
        /\ \A i \in DOMAIN log' : log'[i].via = "seed" => i \in DOMAIN log
    BY <1>0, <2>1
  <2>3. /\ Timely \subseteq Timely' /\ \A j \in Timely : log'[j] = log[j]
        /\ \A j \in Timely' : log'[j].via = "seed" => j \in Timely
    BY <1>0, <2>2 DEF Timely
  <2> QED
    BY <1>0, <1>1, <2>3, TablesGrow, ScriptHolds
<1> QED
  BY <1>2, <1>3, TableStep DEF Inserts

LEMMA ScriptScript ==
  ASSUME HandlerInv, ScriptTypes, ScriptInv, SeedNext
  PROVE  ScriptInv'
<1>0. /\ log \in Seq(Event) /\ Len(SeedRows) \in Nat
      /\ seeded \in [Runs -> 0..Len(SeedRows)] /\ DOMAIN seeding = Runs /\ late \subseteq DOMAIN log
  BY SeedRowsAssumption DEF ScriptTypes, HandlerInv, TypeOK
<1>1. ASSUME NEW k \in Runs, Truncate(k) PROVE ScriptInv'
  <2>1. /\ Timely' = {} /\ seeded[k] = 0 /\ seeded' = seeded /\ k \in fresh'
        /\ fresh' = {r \in Requests : pc[r] = "idle"} \cup {q \in Runs : seeding[q] = "truncate"}
        /\ \A q \in Runs \ {k} : seeding'[q] = seeding[q]
        /\ seeding'[k] # "event"
    BY <1>0, <1>1 DEF Truncate, GoOn, Timely, ScriptTypes
  <2>2. ASSUME NEW q \in Runs, Live(q)' PROVE q = k
    <3>1. q \in fresh' /\ seeding'[q] \in {"row", "event", "complete"}
      BY <2>2 DEF Live
    <3>2. q \notin Requests
      BY RunsAssumption
    <3> QED
      BY <2>1, <3>1, <3>2
  <2>3. LiveInv(k)'
    BY <1>0, <2>1 DEF LiveInv, Marked
  <2> QED
    BY <2>1, <2>2, <2>3 DEF ScriptInv
<1>2. ASSUME NEW k \in Runs, SeedRow(k) PROVE ScriptInv'
  <2>1. /\ seeding[k] = "row" /\ seeding'[k] \in {"off", "event"}
        /\ seeded'[k] = seeded[k] + 1 /\ UNCHANGED <<log, fresh, late>>
        /\ rows' = rows \cup {SeedRows[seeded[k] + 1]}
        /\ \A q \in Runs \ {k} : seeding'[q] = seeding[q] /\ seeded'[q] = seeded[q]
    BY <1>0, <1>2 DEF SeedRow, GoOn, RowAt
  <2>2. /\ Timely' = Timely /\ rows \subseteq rows'
        /\ \A j : Seeds(j)' <=> Seeds(j)
    BY <2>1 DEF Timely, Seeds
  <2>3. \A q \in Runs : Live(q)' => Live(q)
    BY <2>1 DEF Live
  <2>4. ASSUME NEW q \in Runs, Live(q)' PROVE LiveInv(q)'
    <3>1. LiveInv(q)
      BY <2>3, <2>4 DEF ScriptInv
    <3>2. Marked(q)' = Marked(q)
      <4>1. CASE q = k
        <5>1. seeding'[k] = "event" /\ seeded[k] \in Nat
          BY <1>0, <2>1, <2>4, <4>1 DEF Live
        <5> QED
          BY <2>1, <4>1, <5>1 DEF Marked
      <4>2. CASE q # k
        BY <2>1, <4>2 DEF Marked
      <4> QED
        BY <4>1, <4>2
    <3>3. \A i \in 1..seeded'[q] : SeedRows[i] \in rows'
      <4>1. CASE q = k
        <5> SUFFICES ASSUME NEW i \in 1..(seeded[k] + 1) PROVE SeedRows[i] \in rows'
          BY <2>1, <4>1
        <5>1. i \in 1..seeded[k] \/ i = seeded[k] + 1
          BY <1>0
        <5> QED
          BY <2>1, <3>1, <4>1, <5>1 DEF LiveInv
      <4>2. CASE q # k
        BY <2>1, <3>1, <4>2 DEF LiveInv
      <4> QED
        BY <4>1, <4>2
    <3> QED
      BY <2>1, <2>2, <3>1, <3>2, <3>3 DEF LiveInv, Marks
  <2>5. \A j \in Timely' : Seeds(j)' => Holds(rows', log'[j].entity, log'[j].id)
    BY <2>1, <2>2, Growing DEF ScriptInv
  <2> QED
    BY <2>3, <2>4, <2>5 DEF ScriptInv
<1>3. ASSUME NEW k \in Runs, SeedEvent(k), seeded[k] \in 1..Len(SeedRows),
             SeedMark(SeedRows[seeded[k]]) \in Event
      PROVE  ScriptInv'
  <2>0. /\ seeding[k] = "event" /\ seeding'[k] \in {"off", "complete", "row"}
        /\ UNCHANGED <<rows, seeded, fresh>>
        /\ \A q \in Runs \ {k} : seeding'[q] = seeding[q]
    BY <1>0, <1>3 DEF SeedEvent, GoOn
  <2>1. PICK i \in 1..Len(SeedRows) : i = seeded[k]
    BY <1>3
  <2> DEFINE e == SeedMark(SeedRows[i])
  <2>2. log' = Append(log, e) /\ e \in Event
    BY <1>3, <2>1 DEF SeedEvent
  <2>3. /\ \A j \in DOMAIN log : j \in DOMAIN log' /\ log'[j] = log[j]
        /\ Len(log) + 1 \in DOMAIN log' /\ log'[Len(log) + 1] = e
        /\ \A j \in DOMAIN log' : j \in DOMAIN log \/ j = Len(log) + 1
        /\ Len(log) + 1 \notin DOMAIN log
    BY <1>0, <2>2
  <2>4. Marks(e, SeedRows[i]) /\ e.via = "seed" /\ e.entity = SeedRows[i].kind /\ e.id = SeedRows[i].id
    BY DEF Marks, SeedMark
  <2> HIDE DEF e
  <2>5. CASE k \notin fresh
    <3>1. late' = late \cup {Len(log) + 1}
      BY <1>3, <2>5 DEF SeedEvent
    <3>2. Timely' = Timely /\ \A j \in Timely : log'[j] = log[j]
      BY <1>0, <2>3, <3>1 DEF Timely
    <3>3. \A q \in Runs : Live(q)' => Live(q) /\ q # k
      BY <2>0, <2>5 DEF Live
    <3>4. \A q \in Runs : Live(q)' => Marked(q)' = Marked(q)
      BY <2>0, <3>3 DEF Marked
    <3>5. \A j \in Timely : Seeds(j)' <=> Seeds(j)
      BY <3>2 DEF Seeds
    <3>6. ASSUME NEW q \in Runs, Live(q)' PROVE LiveInv(q)'
      <4>1. LiveInv(q)
        BY <3>3, <3>6 DEF ScriptInv
      <4> QED
        BY <2>0, <3>2, <3>4, <3>5, <3>6, <4>1 DEF LiveInv, Marks
    <3>7. \A j \in Timely' : Seeds(j)' => Holds(rows', log'[j].entity, log'[j].id)
      BY <2>0, <3>2, <3>5 DEF ScriptInv
    <3> QED
      BY <3>3, <3>6, <3>7 DEF ScriptInv
  <2>6. CASE k \in fresh
    <3>0. late' = late
      BY <1>3, <2>6 DEF SeedEvent
    <3>1. /\ Timely' = Timely \cup {Len(log) + 1} /\ Len(log) + 1 \notin Timely
          /\ \A j \in Timely : log'[j] = log[j]
      BY <1>0, <2>3, <3>0 DEF Timely
    <3>2. Live(k) /\ Marked(k) = i - 1 /\ LiveInv(k) /\ SeedRows[i] \in rows
      <4>1. Live(k)
        BY <2>0, <2>6 DEF Live
      <4>2. LiveInv(k)
        BY <4>1 DEF ScriptInv
      <4>3. Marked(k) = i - 1
        BY <2>0, <2>1 DEF Marked
      <4>4. i \in 1..seeded[k]
        BY <2>1
      <4> QED
        BY <4>1, <4>2, <4>3, <4>4 DEF LiveInv
    <3>3. \A j \in Timely' : Seeds(j)' => (Seeds(j) /\ log'[j] = log[j]) \/ j = Len(log) + 1
      BY <3>1 DEF Seeds
    <3>4. \A j \in Timely : Seeds(j) => \E m \in 1..(i - 1) : Marks(log[j], SeedRows[m])
      BY <3>2 DEF LiveInv
    <3>5. \A j \in Timely : Seeds(j) => log[j].entity # e.entity \/ log[j].id # e.id
      BY <2>4, <3>4, SeedData DEF Marks
    <3>6. \A q \in Runs : Live(q)' => q = k
      BY <2>0, <3>2 DEF Live, ScriptInv
    <3>7. ASSUME Live(k)' PROVE LiveInv(k)'
      <4>1. Marked(k)' = i
        BY <2>0, <2>1 DEF Marked
      <4>2. \A m \in 1..seeded'[k] : SeedRows[m] \in rows'
        BY <2>0, <3>2 DEF LiveInv
      <4>3. \A m \in 1..i : \E j \in Timely' : Marks(log'[j], SeedRows[m])
        <5> SUFFICES ASSUME NEW m \in 1..i PROVE \E j \in Timely' : Marks(log'[j], SeedRows[m])
          OBVIOUS
        <5>1. CASE m \in 1..(i - 1)
          <6>1. PICK j \in Timely : Marks(log[j], SeedRows[m])
            BY <3>2, <5>1 DEF LiveInv
          <6> QED
            BY <3>1, <6>1
        <5>2. CASE m = i
          BY <2>3, <2>4, <3>1, <5>2
        <5> QED
          BY <5>1, <5>2
      <4>4. \A j \in Timely' : Seeds(j)' => \E m \in 1..i : Marks(log'[j], SeedRows[m])
        <5> SUFFICES ASSUME NEW j \in Timely', Seeds(j)' PROVE \E m \in 1..i : Marks(log'[j], SeedRows[m])
          OBVIOUS
        <5>1. CASE Seeds(j) /\ log'[j] = log[j]
          <6>1. PICK m \in 1..(i - 1) : Marks(log[j], SeedRows[m])
            BY <3>4, <5>1 DEF Seeds
          <6> QED
            BY <5>1, <6>1
        <5>2. CASE j = Len(log) + 1
          BY <2>3, <2>4, <5>2
        <5> QED
          BY <3>3, <5>1, <5>2
      <4>5. \A j, m \in Timely' :
              Seeds(j)' /\ Seeds(m)' /\ log'[j].entity = log'[m].entity /\ log'[j].id = log'[m].id => j = m
        <5> SUFFICES ASSUME NEW j \in Timely', NEW m \in Timely', Seeds(j)', Seeds(m)',
                            log'[j].entity = log'[m].entity, log'[j].id = log'[m].id
                     PROVE  j = m
          OBVIOUS
        <5>1. (Seeds(j) /\ log'[j] = log[j]) \/ j = Len(log) + 1
          BY <3>3
        <5>2. (Seeds(m) /\ log'[m] = log[m]) \/ m = Len(log) + 1
          BY <3>3
        <5>3. CASE Seeds(j) /\ log'[j] = log[j] /\ Seeds(m) /\ log'[m] = log[m]
          <6>1. j \in Timely /\ m \in Timely
            BY <5>3 DEF Seeds
          <6> QED
            BY <3>2, <5>3, <6>1 DEF LiveInv
        <5>4. CASE Seeds(j) /\ log'[j] = log[j] /\ m = Len(log) + 1
          BY <2>3, <3>5, <5>4 DEF Seeds
        <5>5. CASE Seeds(m) /\ log'[m] = log[m] /\ j = Len(log) + 1
          BY <2>3, <3>5, <5>5 DEF Seeds
        <5> QED
          BY <5>1, <5>2, <5>3, <5>4, <5>5
      <4> QED
        BY <4>1, <4>2, <4>3, <4>4, <4>5 DEF LiveInv, Marks
    <3>8. \A j \in Timely' : Seeds(j)' => Holds(rows', log'[j].entity, log'[j].id)
      <4>1. Holds(rows, e.entity, e.id)
        BY <2>4, <3>2 DEF Holds
      <4> QED
        BY <2>0, <2>3, <3>3, <4>1 DEF ScriptInv, Seeds
    <3> QED
      BY <3>6, <3>7, <3>8 DEF ScriptInv
  <2> QED
    BY <2>5, <2>6
<1>4. ASSUME UNCHANGED <<rows, log, fresh, late, seeded>>,
             UNCHANGED seeding \/ \E k \in Runs : seeding' = [seeding EXCEPT ![k] = "off"]
      PROVE  ScriptInv'
  <2>1. \A k \in Runs : Live(k)' => Live(k) /\ seeding'[k] = seeding[k]
    BY <1>0, <1>4 DEF Live
  <2> QED
    BY <1>4, <2>1, ScriptHolds DEF Timely
<1> QED
  BY <1>1, <1>2, <1>3, <1>4, ScriptKeeps

-----------------------------------------------------------------------------
(* Who stores a row whose prior is about something else. *)

\* The request whose row appears has stored it itself, or is gone.
LEMMA InsertStep ==
  ASSUME HandlerInv, [Next]_vars
  PROVE  /\ \/ rows' = rows
            \/ \E r \in Requests :
                 Inserts(r) /\ pc[r] # "idle" /\ (created'[r] \/ (<<r, "row">> \in adrift /\ UNCHANGED request))
         /\ \A r \in Requests : created[r] => created'[r]
<1> DEFINE Goal ==
      /\ \/ rows' = rows
         \/ \E r \in Requests :
              Inserts(r) /\ pc[r] # "idle" /\ (created'[r] \/ (<<r, "row">> \in adrift /\ UNCHANGED request))
      /\ \A r \in Requests : created[r] => created'[r]
<1> TypeOK /\ \A r \in Requests : Handled(r)
  BY DEF HandlerInv
<1> SUFFICES Goal
  OBVIOUS
<1>1. ASSUME NEW r \in Requests, Arrive(r) \/ StatementFails(r) PROVE Goal
  BY <1>1 DEF Arrive, StatementFails, Reply, db
<1>2. ASSUME NEW r \in Requests, CheckMaterial(r) \/ CheckProduct(r) \/ CheckPrior(r) PROVE Goal
  BY <1>2 DEF CheckMaterial, CheckProduct, CheckPrior, GoTo, Reply, db
<1>3. ASSUME NEW r \in Requests, InsertRow(r) PROVE Goal
  <2>1. Inserts(r) /\ pc[r] # "idle" /\ created'[r]
    BY <1>3 DEF InsertRow, Inserts, Created, TypeOK
  <2>2. \A q \in Requests : created[q] => created'[q]
    BY <1>3 DEF InsertRow, Created, TypeOK
  <2> QED
    BY <2>1, <2>2
<1>4. ASSUME NEW r \in Requests, InsertConflict(r) \/ LogEvent(r) \/ Publish(r) PROVE Goal
  BY <1>4 DEF InsertConflict, LogEvent, Publish, GoTo, Reply, db
<1>5. CASE Crash
  BY <1>5 DEF Crash, db
<1>6. ASSUME NEW r \in Requests, AdriftRow(r) PROVE Goal
  <2>1. Inserts(r) /\ pc[r] # "idle"
    BY <1>6 DEF AdriftRow, Inserts, Handled
  <2> QED
    BY <1>6, <2>1 DEF AdriftRow, request
<1>7. ASSUME NEW r \in Requests, AdriftEvent(r) \/ AdriftLost(r) PROVE Goal
  BY <1>7 DEF AdriftEvent, AdriftLost, request, db
<1>8. CASE UNCHANGED vars
  BY <1>8 DEF vars
<1> QED
  BY <1>1, <1>2, <1>3, <1>4, <1>5, <1>6, <1>7, <1>8 DEF Next, Step

\* Nothing a step of the server does clears the culprit.
LEMMA StoredStays ==
  ASSUME HandlerInv, [Next]_vars, NEW r \in Requests, NEW row, Stored(r, row)
  PROVE  Stored(r, row)'
<1>1. Handled(r)
  BY DEF HandlerInv
<1>2. pc[r] # "idle"
  BY <1>1 DEF Handled, Stored
<1>3. body'[r] = body[r]
  BY <1>2, BodyKept
<1>4. CASE created[r]
  BY <1>3, <1>4, InsertStep DEF Stored
<1>5. CASE pc[r] \in {"done", "lost"} /\ status[r] \notin {400, 401, 409}
  <2>0. pc[r] \in {"publish", "done", "lost"} /\ pc[r] # "publish" /\ pc[r] # "event"
    BY <1>5
  <2>1. pc'[r] \in {"publish", "done", "lost"} /\ status'[r] \in {status[r], 201, 202}
    BY <2>0, LoggedStep
  <2>2. pc'[r] # "publish"
    BY <2>0, PublishStep DEF Logs
  <2>3. RowOf(body'[r]) = row
    BY <1>3 DEF Stored
  <2>4. pc'[r] \in {"done", "lost"} /\ status'[r] \notin {400, 401, 409}
    BY <1>5, <2>1, <2>2
  <2> QED
    BY <2>3, <2>4 DEF Stored
<1> QED
  BY <1>4, <1>5 DEF Stored

LEMMA CulpritServer ==
  ASSUME HandlerInv, ScriptTypes, FreshInv, CulpritInv, [Next]_vars, UNCHANGED seed
  PROVE  CulpritInv'
<1>0. fresh' = fresh
  BY DEF seed
<1>1. SUFFICES ASSUME NEW row \in rows', row.prior # None, ~PriorAgrees(rows', row.kind, row)
               PROVE  \E r \in Requests \ fresh : Stored(r, row)'
  BY <1>0 DEF CulpritInv
<1>2. ~PriorAgrees(rows, row.kind, row)
  BY <1>1, TablesGrow, Growing
<1>3. CASE row \in rows
  <2>1. PICK r \in Requests \ fresh : Stored(r, row)
    BY <1>1, <1>2, <1>3 DEF CulpritInv
  <2> QED
    BY <2>1, StoredStays
<1>4. CASE row \notin rows
  <2>1. PICK r \in Requests :
          /\ Inserts(r) /\ pc[r] # "idle"
          /\ created'[r] \/ (<<r, "row">> \in adrift /\ UNCHANGED request)
    BY <1>1, <1>4, InsertStep
  <2>2. row = RowOf(body[r]) /\ body'[r] = body[r]
    BY <1>1, <1>4, <2>1, BodyKept DEF Inserts
  <2>3. Handled(r)
    BY DEF HandlerInv
  <2>4. Stored(r, row)'
    BY <2>1, <2>2, <2>3 DEF Stored, Handled, request
  <2>5. r \notin fresh
    <3> SUFFICES ASSUME r \in Fresh PROVE FALSE
      BY DEF Fresh
    <3>1. body[r] \in Bodies /\ body[r].route \in Entities
      BY <2>1, <2>3 DEF Inserts, Handled, RightAwait, Awaiting
    <3>2. body[r].entity = body[r].route
      BY <3>1, BodiesAssumption DEF SchemaValid
    <3>3. body[r].prior # None => PriorAgrees(rows, body[r].route, body[r])
      BY <2>1 DEF Inserts, Grounded, FreshInv
    <3> QED
      BY <1>1, <1>2, <2>2, <3>2, <3>3 DEF RowOf, PriorAgrees, Subject
  <2> QED
    BY <2>4, <2>5
<1> QED
  BY <1>3, <1>4

LEMMA CulpritScript ==
  ASSUME HandlerInv, ScriptTypes, CulpritInv, SeedNext
  PROVE  CulpritInv'
<1>0. \A r, row : Stored(r, row)' <=> Stored(r, row)
  BY ScriptKeeps DEF Stored
<1>1. ASSUME NEW k \in Runs, Truncate(k) PROVE CulpritInv'
  BY <1>1 DEF Truncate, CulpritInv
<1>2. ASSUME NEW k \in Runs, SeedRow(k), seeded[k] + 1 \in 1..Len(SeedRows) PROVE CulpritInv'
  <2>1. PICK i \in 1..Len(SeedRows) : rows' = rows \cup {SeedRows[i]}
    BY <1>2 DEF SeedRow, RowAt
  <2>2. rows \subseteq rows' /\ SeedRows[i].prior = None /\ fresh' = fresh
    BY <1>2, <2>1, SeedData DEF SeedRow
  <2>3. SUFFICES ASSUME NEW row \in rows', row.prior # None, ~PriorAgrees(rows', row.kind, row)
                 PROVE  \E r \in Requests \ fresh : Stored(r, row)'
    BY <2>2 DEF CulpritInv
  <2>4. row \in rows /\ ~PriorAgrees(rows, row.kind, row)
    BY <2>1, <2>2, <2>3, Growing
  <2> QED
    BY <1>0, <2>3, <2>4 DEF CulpritInv
<1>3. CASE UNCHANGED <<rows, fresh>>
  BY <1>0, <1>3 DEF CulpritInv
<1> QED
  BY <1>1, <1>2, <1>3, ScriptKeeps DEF SeedEvent

-----------------------------------------------------------------------------
LEMMA ReseedInvariant == ReseedSpec => []ReseedInv
<1>1. ReseedInit => ReseedInv
  <2> SUFFICES ASSUME ReseedInit PROVE ReseedInv
    OBVIOUS
  <2>1. HandlerInv /\ Len(SeedRows) \in Nat
    BY HandlerInit, SeedRowsAssumption DEF ReseedInit
  <2>2. /\ ScriptTypes /\ CulpritInv
        /\ \A k \in Runs : ~Live(k)
        /\ Timely = {}
    BY <2>1 DEF ReseedInit, Init, ScriptTypes, CulpritInv, Statements, Live, Timely
  <2>3. FreshInv
    BY DEF ReseedInit, Init, FreshInv, Fresh, Grounded, Logged
  <2>4. ScriptInv
    BY <2>2 DEF ScriptInv
  <2> QED
    BY <2>1, <2>2, <2>3, <2>4 DEF ReseedInv
<1>2. ReseedInv /\ [ReseedNext]_<<vars, seed>> => ReseedInv'
  <2> SUFFICES ASSUME ReseedInv, [ReseedNext]_<<vars, seed>> PROVE ReseedInv'
    OBVIOUS
  <2> HandlerInv /\ ScriptTypes /\ FreshInv /\ ScriptInv /\ CulpritInv
    BY DEF ReseedInv
  <2>1. CASE [Next]_vars /\ UNCHANGED seed
    BY <2>1, HandlerNext, TypesServer, FreshServer, ScriptServer, CulpritServer DEF ReseedInv
  <2>2. CASE SeedNext
    BY <2>2, HandlerScript, TypesScript, FreshScript, ScriptScript, CulpritScript DEF ReseedInv
  <2> QED
    BY <2>1, <2>2 DEF ReseedNext
<1> QED
  BY <1>1, <1>2, PTL DEF ReseedSpec

\* The entry that a fresh request has in the log.
LEMMA FreshEntry ==
  ASSUME ReseedInv, NEW i \in DOMAIN log, log[i].via # "seed", log[i].req \in fresh
  PROVE  \E r \in Requests : /\ r = log[i].req /\ r \in Fresh /\ Told(r) /\ log[i] = EventOf(r)
                             /\ body[r] \in Bodies /\ Grounded(r)
<1>0. log[i] \in Event /\ log[i].req \in Requests
  <2>1. log[i] \in Event
    BY DEF ReseedInv, HandlerInv, TypeOK
  <2>2. log[i].req \in Requests \cup {None} /\ log[i].req \in Requests \cup Runs
    BY <2>1 DEF Event, ReseedInv, ScriptTypes
  <2> QED
    BY <2>1, <2>2, RunsAssumption
<1>1. PICK r \in Requests : r = log[i].req /\ r \in Fresh
  BY <1>0 DEF Fresh
<1>2. Told(r) /\ log[i] = EventOf(r) /\ Grounded(r)
  BY <1>1 DEF ReseedInv, FreshInv, OfFresh
<1>3. Handled(r) /\ pc[r] # "idle"
  BY <1>2 DEF ReseedInv, HandlerInv, Told
<1>4. body[r] \in Bodies
  BY <1>3 DEF Handled
<1> QED
  BY <1>1, <1>2, <1>4

\* A request that comes after the TRUNCATE keeps what its answer promised.
THEOREM FreshAckedIsDoneCorrect == ReseedSpec => []FreshAckedIsDone
<1>1. ReseedInv => FreshAckedIsDone
  <2> SUFFICES ASSUME ReseedInv, NEW r \in Fresh, status[r] \in {201, 202}
               PROVE  (body[r].route \in Entities => RowOf(body[r]) \in rows) /\ Logged(r)
    BY DEF FreshAckedIsDone, Fresh
  <2>1. r \in Requests /\ Grounded(r) /\ Logged(r)
    BY DEF ReseedInv, Fresh, FreshInv
  <2>2. Handled(r)
    BY <2>1 DEF ReseedInv, HandlerInv
  <2> QED
    BY <2>1, <2>2 DEF Handled, Grounded
<1> QED
  BY <1>1, ReseedInvariant, PTL

\* Only a request or a run that straddled the TRUNCATE logs an event without an entity.
THEOREM OrphansStraddleCorrect == ReseedSpec => []OrphansStraddle
<1>1. ReseedInv => OrphansStraddle
  <2> SUFFICES ASSUME ReseedInv, NEW i \in DOMAIN log, log[i].via # "relay",
                      ~Holds(rows, log[i].entity, log[i].id)
               PROVE  IF log[i].via = "seed" THEN i \in late ELSE log[i].req \notin fresh
    BY DEF OrphansStraddle
  <2>1. CASE log[i].via = "seed"
    <3>1. i \in late \/ Seeds(i)
      BY <2>1 DEF Seeds, Timely
    <3>2. ~Seeds(i)
      BY DEF ReseedInv, ScriptInv, Seeds
    <3> QED
      BY <2>1, <3>1, <3>2
  <2>2. CASE log[i].via # "seed"
    <3> SUFFICES ASSUME log[i].req \in fresh PROVE FALSE
      BY <2>2
    <3>1. PICK r \in Requests : Told(r) /\ log[i] = EventOf(r) /\ body[r] \in Bodies /\ Grounded(r)
      BY <2>2, FreshEntry
    <3>2. log[i].entity = body[r].entity /\ log[i].id = body[r].id
          /\ body[r].route \in Entities \cup {"status"}
      BY <3>1, EventsByRoute
    <3>3. CASE body[r].route \in Entities
      <4>1. RowOf(body[r]) \in rows
        BY <3>1, <3>3 DEF Told, Grounded
      <4> QED
        BY <3>2, <4>1 DEF Holds, RowOf
    <3>4. CASE body[r].route = "status"
      BY <3>1, <3>4, EventsByRoute DEF Told
    <3> QED
      BY <3>2, <3>3, <3>4
  <2> QED
    BY <2>1, <2>2
<1> QED
  BY <1>1, ReseedInvariant, PTL

\* Only a request that straddled the TRUNCATE announces an entity a second time.
THEOREM RepeatsStraddleCorrect == ReseedSpec => []RepeatsStraddle
<1>1. ReseedInv => RepeatsStraddle
  <2> SUFFICES ASSUME ReseedInv, NEW i \in DOMAIN log, NEW j \in DOMAIN log,
                      log[i].via = "local", log[i].event = "created", log[i].req \in fresh,
                      log[j].via = "local", log[j].event = "created", log[j].req \in fresh,
                      log[i].entity = log[j].entity, log[i].id = log[j].id
               PROVE  i = j
    BY DEF RepeatsStraddle
  <2>1. PICK p \in Requests : /\ p = log[i].req /\ p \in Fresh /\ Told(p) /\ log[i] = EventOf(p)
                              /\ body[p] \in Bodies
    BY FreshEntry
  <2>2. PICK q \in Requests : /\ q = log[j].req /\ q \in Fresh /\ Told(q) /\ log[j] = EventOf(q)
                              /\ body[q] \in Bodies
    BY FreshEntry
  <2>3. created[p] /\ body[p].entity = log[i].entity /\ body[p].id = log[i].id
    BY <2>1, EventsByRoute DEF Told
  <2>4. created[q] /\ body[q].entity = log[j].entity /\ body[q].id = log[j].id
    BY <2>2, EventsByRoute DEF Told
  <2>5. p = q
    BY <2>1, <2>2, <2>3, <2>4 DEF ReseedInv, FreshInv
  <2> QED
    BY <2>1, <2>2, <2>5 DEF ReseedInv, FreshInv, OfFresh
<1> QED
  BY <1>1, ReseedInvariant, PTL

\* Only a request that straddled the TRUNCATE, and was not refused, stores a match
\* or a transfer about another subject than its prior's.
THEOREM MismatchesStraddleCorrect == ReseedSpec => []MismatchesStraddle
<1>1. ReseedInv => MismatchesStraddle
  <2> SUFFICES ASSUME ReseedInv, NEW row \in rows, row.prior # None, ~PriorAgrees(rows, row.kind, row)
               PROVE  \E r \in Requests \ fresh :
                        pc[r] # "idle" /\ status[r] \notin {400, 401, 409} /\ RowOf(body[r]) = row
    BY DEF MismatchesStraddle
  <2>1. PICK r \in Requests \ fresh : Stored(r, row)
    BY DEF ReseedInv, CulpritInv
  <2>2. Handled(r)
    BY DEF ReseedInv, HandlerInv
  <2> QED
    BY <2>1, <2>2 DEF Stored, Handled
<1> QED
  BY <1>1, ReseedInvariant, PTL

\* A run of the script that ends well, its TRUNCATE being the last, leaves each of its
\* rows, and one event of each apart from those of runs that straddled the TRUNCATE.
THEOREM SeedIsCompleteCorrect == ReseedSpec => []SeedIsComplete
<1>1. ReseedInv => SeedIsComplete
  <2> SUFFICES ASSUME ReseedInv, NEW k \in Runs \cap fresh, seeding[k] = "complete",
                      NEW i \in DOMAIN SeedRows
               PROVE  /\ SeedRows[i] \in rows
                      /\ Cardinality({j \in DOMAIN log \ late : Marks(log[j], SeedRows[i])}) = 1
    BY DEF SeedIsComplete
  <2>1. i \in 1..seeded[k] /\ Marked(k) = seeded[k]
    BY SeedRowsAssumption DEF ReseedInv, ScriptTypes, Marked
  <2>2. LiveInv(k)
    BY DEF ReseedInv, ScriptInv, Live
  <2>3. PICK j \in Timely : Marks(log[j], SeedRows[i])
    BY <2>1, <2>2 DEF LiveInv
  <2>4. \A m \in Timely : Marks(log[m], SeedRows[i]) => m = j
    BY <2>2, <2>3 DEF LiveInv, Marks, Seeds
  <2>5. {m \in DOMAIN log \ late : Marks(log[m], SeedRows[i])} = {j}
    BY <2>3, <2>4 DEF Timely
  <2> QED
    BY <2>1, <2>2, <2>5, FS_Singleton DEF LiveInv
<1> QED
  BY <1>1, ReseedInvariant, PTL
=============================================================================
