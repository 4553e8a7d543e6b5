------------------------------ MODULE LoopReseed ------------------------------
(***************************************************************************)
(* src/scripts/seed-lab.ts run against the database of a live server: one   *)
(* TRUNCATE empties the entity tables and loop_events, then every demo row  *)
(* is inserted and given a 'seeded' event, statement by statement, with     *)
(* the helpers of src/src/db/loop.ts. The script broadcasts and counts      *)
(* nothing, stops at its first error, and may be run again, also before the *)
(* last run is over.                                                        *)
(*                                                                         *)
(* It is the only code of the repository that deletes entities, and so the  *)
(* only one that can take away, between a handler's existence check and its *)
(* insert, the row the handler found, and between a run's insert and its    *)
(* event the row the other run has stored.                                  *)
(***************************************************************************)
EXTENDS LoopRegistry

CONSTANTS
  SeedRows,   \* the demo rows, in the script's order: the same in every run
  Runs        \* the runs of the script

VARIABLES
  seeding,  \* the statement each run awaits, or how it ended
  seeded,   \* how many rows each has inserted
  cut,      \* the runs that failed or were killed
  fresh,    \* history: the requests and runs that had not begun at the last TRUNCATE
  late      \* history: the places in the log of other runs' events

seed == <<seeding, seeded, cut, fresh, late>>

\* A row comes after the rows it refers to, and no two share an identifier.
ASSUME SeedRowsAssumption ==
  /\ SeedRows \in Seq(Row)
  /\ \A i \in DOMAIN SeedRows :
       LET before == {SeedRows[j] : j \in 1..(i - 1)} IN
       /\ ReferencesHold(before, SeedRows[i])
       /\ SeedRows[i].prior = None
       /\ ~Holds(before, SeedRows[i].kind, SeedRows[i].id)
ASSUME RunsAssumption == Runs \cap (Requests \cup {None}) = {}

Statements == {"truncate", "row", "event"}

ReseedInit ==
  /\ Init
  /\ seeding = [k \in Runs |-> "truncate"] /\ seeded = [k \in Runs |-> 0]
  /\ cut = {} /\ fresh = Requests \cup Runs /\ late = {}

\* Postgres has executed run k's statement, and k goes on if it still hears of it.
GoOn(k, next) == seeding' = [seeding EXCEPT ![k] = IF k \in cut THEN "off" ELSE next]

\* Faulty variant: loop_events is left out of the TRUNCATE.
TruncateKeepsEvents(k) ==
  /\ seeding[k] = "truncate"
  /\ rows' = {} /\ log' = log
  /\ fresh' = {r \in Requests : pc[r] = "idle"} \cup {q \in Runs : seeding[q] = "truncate"}
  /\ late' = {}
  /\ GoOn(k, "row")
  /\ UNCHANGED <<request, published, metrics, adrift, faults, seeded, cut>>

\* TRUNCATE ... RESTART IDENTITY
Truncate(k) ==
  /\ seeding[k] = "truncate"
  /\ rows' = {} /\ log' = <<>>
  /\ fresh' = {r \in Requests : pc[r] = "idle"} \cup {q \in Runs : seeding[q] = "truncate"}
  /\ late' = {}
  /\ GoOn(k, "row")
  /\ UNCHANGED <<request, published, metrics, adrift, faults, seeded, cut>>

\* The row that run k is at.
RowAt(k) == SeedRows[seeded[k] + 1]

SeedRow(k) ==
  /\ seeding[k] = "row"
  /\ seeded[k] < Len(SeedRows)
  /\ ~Holds(rows, RowAt(k).kind, RowAt(k).id)
  /\ ReferencesHold(rows, RowAt(k))
  /\ rows' = rows \cup {RowAt(k)}
  /\ seeded' = [seeded EXCEPT ![k] = @ + 1]
  /\ GoOn(k, "event")
  /\ UNCHANGED <<request, log, published, metrics, adrift, faults, cut, fresh, late>>

\* The server has let a client take the identifier, or another run of the script has
\* taken it, or has emptied the tables since: the script exits.
SeedRowConflict(k) ==
  /\ seeding[k] = "row"
  /\ seeded[k] < Len(SeedRows)
  /\ Holds(rows, RowAt(k).kind, RowAt(k).id) \/ ~ReferencesHold(rows, RowAt(k))
  /\ seeding' = [seeding EXCEPT ![k] = "off"]
  /\ UNCHANGED <<vars, seeded, cut, fresh, late>>

SeedMark(row) == [entity |-> row.kind, event |-> "seeded", id |-> row.id,
                  via |-> "seed", req |-> None]

SeedEvent(k) ==
  /\ seeding[k] = "event"
  /\ log' = Append(log, SeedMark(SeedRows[seeded[k]]))
  /\ late' = IF k \in fresh THEN late ELSE late \cup {Len(log) + 1}
  /\ GoOn(k, IF seeded[k] = Len(SeedRows) THEN "complete" ELSE "row")
  /\ UNCHANGED <<request, rows, published, metrics, adrift, faults, seeded, cut, fresh>>

\* A statement of run k fails because its connection is lost, or the script is killed:
\* Postgres may still execute the statement, however much later, or drop it.
SeedFails(k) ==
  /\ seeding[k] \in Statements
  /\ k \notin cut
  /\ faults < MaxFaults
  /\ cut' = cut \cup {k}
  /\ faults' = faults + 1
  /\ UNCHANGED <<request, db, published, metrics, adrift, seeding, seeded, fresh, late>>

SeedLost(k) ==
  /\ seeding[k] \in Statements
  /\ k \in cut
  /\ seeding' = [seeding EXCEPT ![k] = "off"]
  /\ UNCHANGED <<vars, seeded, cut, fresh, late>>

SeedStep(k) == \/ Truncate(k) \/ SeedRow(k) \/ SeedRowConflict(k) \/ SeedEvent(k)
               \/ SeedFails(k) \/ SeedLost(k)

SeedNext == \E k \in Runs : SeedStep(k)

ReseedNext == (Next /\ UNCHANGED seed) \/ SeedNext

ReseedSpec == ReseedInit /\ [][ReseedNext]_<<vars, seed>>

-----------------------------------------------------------------------------
(* Properties; ReferentialIntegrity of LoopRegistry holds here, too, and            *)
(* SubjectAgreement and AnnouncedOnce do not: these say what is left of them.       *)

ReseedTypeOK ==
  /\ TypeOK
  /\ seeding \in [Runs -> Statements \cup {"complete", "off"}]
  /\ seeded \in [Runs -> 0..Len(SeedRows)]
  /\ cut \subseteq Runs /\ fresh \subseteq Requests \cup Runs /\ late \subseteq DOMAIN log

\* The 'seeded' event of a row.
Marks(e, row) == e.via = "seed" /\ e.entity = row.kind /\ e.id = row.id

\* When a run of the script ends well and no other TRUNCATE has come after its own, its
\* rows are all there, whatever clients and other runs did meanwhile, and each has one
\* 'seeded' event, apart from those of runs that had begun before the TRUNCATE: ran
\* beside this one, or were killed with the event on its way.
SeedIsComplete ==
  \A k \in Runs \cap fresh : seeding[k] = "complete" =>
    \A i \in DOMAIN SeedRows :
      /\ SeedRows[i] \in rows
      /\ Cardinality({j \in DOMAIN log \ late : Marks(log[j], SeedRows[i])}) = 1

\* A request that arrives after the TRUNCATE keeps what it was promised, although
\* requests that straddle the TRUNCATE do not: a positive answer means its entity
\* is stored and its event is logged.
FreshAckedIsDone ==
  \A r \in Requests \cap fresh : status[r] \in {201, 202} =>
    /\ body[r].route \in Entities => RowOf(body[r]) \in rows
    /\ Logged(r)

\* An event whose entity is gone was logged for a request, or by a run of the script,
\* that straddled the TRUNCATE.
OrphansStraddle ==
  \A i \in DOMAIN log :
    log[i].via # "relay" /\ ~Holds(rows, log[i].entity, log[i].id) =>
      IF log[i].via = "seed" THEN i \in late ELSE log[i].req \notin fresh

\* A match stored against an offer of another subject (or a transfer against such a
\* match) is one that looked its prior up before the TRUNCATE and was inserted after,
\* when others had filled the tables again under the same identifiers; and its client
\* was not refused.
MismatchesStraddle ==
  \A row \in rows :
    row.prior # None /\ ~PriorAgrees(rows, row.kind, row) =>
      \E r \in Requests \ fresh :
        pc[r] # "idle" /\ status[r] \notin {400, 401, 409} /\ RowOf(body[r]) = row

\* Of two announcements of one entity, one is of a request that straddled the TRUNCATE:
\* it had stored the entity before and logged it after.
RepeatsStraddle ==
  \A i, j \in DOMAIN log :
    /\ i # j
    /\ log[i].via = "local" /\ log[i].event = "created"
    /\ log[j].via = "local" /\ log[j].event = "created"
    /\ log[i].entity = log[j].entity /\ log[i].id = log[j].id
    => {log[i].req, log[j].req} \ fresh # {}
=============================================================================
