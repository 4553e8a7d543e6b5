------------------------------- MODULE Interest -------------------------------
(***************************************************************************)
(* Expressions of interest: POST /api/interest (src/src/routes/interest.ts, *)
(* src/src/db/interest.ts), the materialized view its search reads, the     *)
(* BullMQ queue and its worker (src/src/queue/index.ts), interest_events,   *)
(* and the import of an old SQLite database (src/scripts/import-sqlite.ts). *)
(*                                                                         *)
(* A request inserts, refreshes the view, and then, in one stretch, hands   *)
(* the interest to the queue without waiting for it, broadcasts and         *)
(* answers. The queue gives every job to the worker at least once, and an   *)
(* add whose answer was lost is sent again and makes a second job.          *)
(*                                                                         *)
(* Identifiers come from a sequence, which an INSERT that fails consumes    *)
(* all the same and an import, which brings its own, does not advance.      *)
(***************************************************************************)
EXTENDS Naturals, Sequences, FiniteSets

CONSTANTS
  Requests,        \* submissions, each sent once
  ImportIds,       \* the identifiers in the SQLite database
  RefreshOnWrite,  \* config.refreshSearchOnWrite
  Attempts,        \* how often a job may fail before it is given up
  MaxStalls,       \* how often a job whose worker died is started again
  MaxFaults        \* bound on failures and crashes

ASSUME RequestsAssumption == IsFiniteSet(Requests)
ASSUME ImportIdsAssumption == ImportIds \subseteq Nat \ {0}
ASSUME RefreshOnWriteAssumption == RefreshOnWrite \in BOOLEAN
ASSUME BoundsAssumption == Attempts \in Nat \ {0} /\ MaxStalls \in Nat /\ MaxFaults \in Nat

VARIABLES
  pc, status,  \* of each submission
  id,          \* the identifier its INSERT returned; 0 before
  interests,   \* the table: identifiers, and where the row came from
  nextId,      \* the table's sequence
  view,        \* the identifiers in interests_search
  snapshot,    \* what a REFRESH that is running has read
  crossed,     \* history: a REFRESH has replaced newer contents by older ones
  stream,      \* identifiers handed to broadcastInterest, in order
  adding,      \* Queue.add calls that Redis has not answered
  lost,        \* the interests whose Queue.add was refused, or died with the process
  jobs,        \* what became of each interest's jobs
  events,      \* the interest_ids of interest_events, in order
  imported,    \* whether the import was run
  faults

submission == <<pc, status, id>>
search == <<view, snapshot, crossed>>
vars == <<submission, interests, nextId, search, stream, adding, lost, jobs, events, imported,
          faults>>

Ids == ImportIds \cup 1..Cardinality(Requests)

\* An interest has one job, and one more for every add that was sent again.
Jobs == Ids \X (1..(MaxFaults + 1))

JobStates == {"none", "waiting", "active", "logged", "complete", "failed"}

Taken(i) == \E row \in interests : row.id = i

TypeOK ==
  /\ pc \in [Requests -> {"idle", "insert", "refresh", "swap", "finish", "done", "lost"}]
  /\ status \in [Requests -> {0, 201, 400, 401, 500}]
  /\ id \in [Requests -> Ids \cup {0}]
  /\ interests \subseteq [id : Ids, from : {"form", "import"}]
  /\ nextId \in Nat
  /\ view \subseteq Ids /\ snapshot \in [Requests -> SUBSET Ids] /\ crossed \in BOOLEAN
  /\ stream \in Seq(Ids)
  /\ adding \subseteq Ids /\ lost \subseteq Ids
  /\ jobs \in [Jobs -> [state : JobStates, failures : Nat, stalls : Nat]]
  /\ events \in Seq(Ids)
  /\ imported \in BOOLEAN /\ faults \in Nat

Init ==
  /\ pc = [r \in Requests |-> "idle"]
  /\ status = [r \in Requests |-> 0]
  /\ id = [r \in Requests |-> 0]
  /\ interests = {} /\ nextId = 1
  /\ view = {} /\ snapshot = [r \in Requests |-> {}] /\ crossed = FALSE
  /\ stream = <<>> /\ adding = {} /\ lost = {}
  /\ jobs = [job \in Jobs |-> [state |-> "none", failures |-> 0, stalls |-> 0]]
  /\ events = <<>>
  /\ imported = FALSE /\ faults = 0

Reply(r, code) == /\ pc' = [pc EXCEPT ![r] = "done"]
                  /\ status' = [status EXCEPT ![r] = code]

-----------------------------------------------------------------------------
(* The submission. *)

\* requireApiKey and validateInterest
Submit(r) ==
  /\ pc[r] = "idle"
  /\ \/ pc' = [pc EXCEPT ![r] = "insert"] /\ status' = status
     \/ Reply(r, 400)
     \/ Reply(r, 401)
  /\ UNCHANGED <<id, interests, nextId, search, stream, adding, lost, jobs, events, imported,
                 faults>>

AfterInsert == IF RefreshOnWrite THEN "refresh" ELSE "finish"

\* Faulty variants: the view is not refreshed; the job is queued too early.
InsertUnsearchable(r) ==
  /\ pc[r] = "insert"
  /\ ~Taken(nextId)
  /\ interests' = interests \cup {[id |-> nextId, from |-> "form"]}
  /\ nextId' = nextId + 1
  /\ id' = [id EXCEPT ![r] = nextId]
  /\ pc' = [pc EXCEPT ![r] = "finish"]
  /\ UNCHANGED <<status, search, stream, adding, lost, jobs, events, imported, faults>>

InsertQueues(r) ==
  /\ pc[r] = "insert"
  /\ ~Taken(nextId)
  /\ interests' = interests \cup {[id |-> nextId, from |-> "form"]}
  /\ nextId' = nextId + 1
  /\ id' = [id EXCEPT ![r] = nextId]
  /\ adding' = adding \cup {nextId}
  /\ pc' = [pc EXCEPT ![r] = AfterInsert]
  /\ UNCHANGED <<status, search, stream, lost, jobs, events, imported, faults>>

\* prisma.interest.create
Insert(r) ==
  /\ pc[r] = "insert"
  /\ ~Taken(nextId)
  /\ interests' = interests \cup {[id |-> nextId, from |-> "form"]}
  /\ nextId' = nextId + 1
  /\ id' = [id EXCEPT ![r] = nextId]
  /\ pc' = [pc EXCEPT ![r] = AfterInsert]
  /\ UNCHANGED <<status, search, stream, adding, lost, jobs, events, imported, faults>>

\* The sequence gives an identifier that an import has brought: 23505, not caught.
InsertCollides(r) ==
  /\ pc[r] = "insert"
  /\ Taken(nextId)
  /\ nextId' = nextId + 1
  /\ Reply(r, 500)
  /\ UNCHANGED <<id, interests, search, stream, adding, lost, jobs, events, imported, faults>>

\* REFRESH MATERIALIZED VIEW reads the table as it is when the statement starts,
\* and replaces the view once it has the lock: two of them may cross.
BeginRefresh(r) ==
  /\ pc[r] = "refresh"
  /\ snapshot' = [snapshot EXCEPT ![r] = {row.id : row \in interests}]
  /\ pc' = [pc EXCEPT ![r] = "swap"]
  /\ UNCHANGED <<status, id, interests, nextId, view, crossed, stream, adding, lost, jobs,
                 events, imported, faults>>

Swap(r) == /\ view' = snapshot[r]
           /\ crossed' = (crossed \/ ~(view \subseteq snapshot[r]))
           /\ snapshot' = [snapshot EXCEPT ![r] = {}]

EndRefresh(r) ==
  /\ pc[r] = "swap"
  /\ Swap(r)
  /\ pc' = [pc EXCEPT ![r] = "finish"]
  /\ UNCHANGED <<status, id, interests, nextId, stream, adding, lost, jobs, events, imported,
                 faults>>

\* A REFRESH whose request is gone is still running in Postgres, and ends.
LateRefresh(r) ==
  /\ pc[r] \in {"done", "lost"}
  /\ snapshot[r] # {}
  /\ Swap(r)
  /\ UNCHANGED <<submission, interests, nextId, stream, adding, lost, jobs, events, imported,
                 faults>>

\* enqueueInterest is called and not awaited, broadcastInterest, reply.
Finish(r) ==
  /\ pc[r] = "finish"
  /\ adding' = adding \cup {id[r]}
  /\ stream' = Append(stream, id[r])
  /\ Reply(r, 201)
  /\ UNCHANGED <<id, interests, nextId, search, lost, jobs, events, imported, faults>>

-----------------------------------------------------------------------------
(* The queue. *)

Move(job, state) == jobs' = [jobs EXCEPT ![job].state = state]

\* The job that the next Queue.add for interest i makes.
NewJob(i) == <<i, 1 + Cardinality({job \in Jobs : job[1] = i /\ jobs[job].state # "none"})>>

AddArrives(i) ==
  /\ i \in adding
  /\ adding' = adding \ {i}
  /\ Move(NewJob(i), "waiting")
  /\ UNCHANGED <<submission, interests, nextId, search, stream, lost, events, imported, faults>>

Take(job) ==
  /\ jobs[job].state = "waiting"
  /\ Move(job, "active")
  /\ UNCHANGED <<submission, interests, nextId, search, stream, adding, lost, events, imported,
                 faults>>

\* Faulty variant: the handler does not know the job's name.
LogInterestIgnored(job) ==
  /\ jobs[job].state = "active"
  /\ Move(job, "complete")
  /\ UNCHANGED <<submission, interests, nextId, search, stream, adding, lost, events, imported,
                 faults>>

\* createInterestJobHandler: insertInterestEvent has committed.
LogInterest(job) ==
  /\ jobs[job].state = "active"
  /\ Taken(job[1])
  /\ events' = Append(events, job[1])
  /\ Move(job, "logged")
  /\ UNCHANGED <<submission, interests, nextId, search, stream, adding, lost, imported, faults>>

Complete(job) ==
  /\ jobs[job].state = "logged"
  /\ Move(job, "complete")
  /\ UNCHANGED <<submission, interests, nextId, search, stream, adding, lost, events, imported,
                 faults>>

-----------------------------------------------------------------------------
(* The import. *)

\* One transaction; ON CONFLICT (id) DO NOTHING.
Import ==
  /\ ~imported
  /\ interests' = interests \cup {[id |-> i, from |-> "import"] : i \in {j \in ImportIds : ~Taken(j)}}
  /\ imported' = TRUE
  /\ UNCHANGED <<submission, nextId, search, stream, adding, lost, jobs, events, faults>>

-----------------------------------------------------------------------------
(* Failures. A statement whose connection is lost has been executed or not. *)

InsertFails(r) ==
  /\ faults < MaxFaults
  /\ pc[r] = "insert"
  /\ \/ interests' = interests
     \/ ~Taken(nextId) /\ interests' = interests \cup {[id |-> nextId, from |-> "form"]}
  /\ nextId' = nextId + 1
  /\ Reply(r, 500)
  /\ faults' = faults + 1
  /\ UNCHANGED <<id, search, stream, adding, lost, jobs, events, imported>>

\* The interest is stored, its submission answered 500, and nothing queued.
RefreshFails(r) ==
  /\ faults < MaxFaults
  /\ pc[r] \in {"refresh", "swap"}
  /\ Reply(r, 500)
  /\ faults' = faults + 1
  /\ UNCHANGED <<id, interests, nextId, search, stream, adding, lost, jobs, events, imported>>

\* Redis refuses the job, and the rejection is logged.
AddFails(i) ==
  /\ faults < MaxFaults
  /\ i \in adding
  /\ adding' = adding \ {i}
  /\ lost' = lost \cup {i}
  /\ faults' = faults + 1
  /\ UNCHANGED <<submission, interests, nextId, search, stream, jobs, events, imported>>

\* The job has arrived and the answer has not: ioredis will send the add again.
AddUnheard(i) ==
  /\ faults < MaxFaults
  /\ i \in adding
  /\ Move(NewJob(i), "waiting")
  /\ faults' = faults + 1
  /\ UNCHANGED <<submission, interests, nextId, search, stream, adding, lost, events, imported>>

\* Faulty variant: a job is tried for ever.
JobFailsForever(job) ==
  /\ jobs[job].state \in {"active", "logged"}
  /\ Move(job, "waiting")
  /\ UNCHANGED <<submission, interests, nextId, search, stream, adding, lost, events, imported,
                 faults>>

\* The handler's insert fails, or was committed and the answer is lost.
JobFails(job) ==
  /\ faults < MaxFaults
  /\ jobs[job].state \in {"active", "logged"}
  /\ jobs' = [jobs EXCEPT ![job].failures = @ + 1,
                          ![job].state = IF jobs[job].failures + 1 < Attempts THEN "waiting"
                                         ELSE "failed"]
  /\ faults' = faults + 1
  /\ UNCHANGED <<submission, interests, nextId, search, stream, adding, lost, events, imported>>

\* The process, worker included, dies and is started again; BullMQ finds the jobs
\* that have stalled.
Stalled(j) ==
  IF j.state \notin {"active", "logged"} THEN j
  ELSE [j EXCEPT !.stalls = @ + 1,
                 !.state = IF j.stalls < MaxStalls THEN "waiting" ELSE "failed"]

Crash ==
  /\ faults < MaxFaults
  /\ pc' = [r \in Requests |-> IF pc[r] \in {"idle", "done"} THEN pc[r] ELSE "lost"]
  /\ jobs' = [job \in Jobs |-> Stalled(jobs[job])]
  /\ lost' = lost \cup adding
  /\ adding' = {}
  /\ faults' = faults + 1
  /\ UNCHANGED <<status, id, interests, nextId, search, stream, events, imported>>

JobStep(job) == Take(job) \/ LogInterest(job) \/ Complete(job)

Next ==
  \/ \E r \in Requests : \/ Submit(r) \/ Insert(r) \/ InsertCollides(r) \/ BeginRefresh(r)
                         \/ EndRefresh(r) \/ LateRefresh(r) \/ Finish(r)
                         \/ InsertFails(r) \/ RefreshFails(r)
  \/ \E i \in Ids : AddArrives(i) \/ AddFails(i) \/ AddUnheard(i)
  \/ \E job \in Jobs : JobStep(job) \/ JobFails(job)
  \/ Import
  \/ Crash

Spec == Init /\ [][Next]_vars

\* Redis is there and WORKER_ENABLED is set.
FairSpec == /\ Spec
            /\ \A i \in Ids : WF_vars(AddArrives(i))
            /\ \A job \in Jobs : WF_vars(JobStep(job))

-----------------------------------------------------------------------------
(* Properties. *)

\* An answered submission can be found by a search, unless two refreshes crossed.
FoundUnlessCrossed ==
  RefreshOnWrite => \A r \in Requests : status[r] = 201 => id[r] \in view \/ crossed

Ledger == INSTANCE InterestLedger WITH
            Rows <- [id : Ids, from : {"form", "import"}], stored <- interests,
            told <- {id[r] : r \in {q \in Requests : status[q] = 201}},
            broadcast <- stream, logged <- events

\* However requests, refreshes, retries, imports and crashes interleave, the pipeline
\* tells of an interest once, client and stream at the same time, and logs only
\* interests it has told of.
ImplementsLedger == Ledger!Spec

\* Retries, stalls and adds sent again may log an interest more than once, but not
\* without end.
EventsAreBounded ==
  \A i \in Ids :
    Cardinality({k \in DOMAIN events : events[k] = i})
      <= (Attempts + MaxStalls) * Cardinality({job \in Jobs : job[1] = i /\ jobs[job].state # "none"})

\* An answered submission reaches interest_events, or its add was refused or died
\* with the process, or a job of it was given up.
AnsweredIsLogged ==
  \A r \in Requests, i \in Ids :
    status[r] = 201 /\ id[r] = i ~>
      \/ \E k \in DOMAIN events : events[k] = i
      \/ i \in lost
      \/ \E job \in Jobs : job[1] = i /\ jobs[job].state = "failed"

\* A valid submission is accepted as long as nothing fails. Not so after an import.
ValidIsAccepted == faults = 0 => \A r \in Requests : status[r] # 500
=============================================================================
