------------------------------ MODULE Migrations ------------------------------
(***************************************************************************)
(* How processes bring the database up to date before they use it:          *)
(* startServer (src/src/server.ts) and the scripts run waitForDatabase and  *)
(* runMigrations (src/src/db/migrate.ts), each on its own, and a process    *)
(* that fails exits and is started again (index.ts, docker-compose.yml).    *)
(*                                                                         *)
(* The migration files are numbered in the order in which readdir().sort()  *)
(* gives them. A transaction (BEGIN, the file, INSERT version, COMMIT) is   *)
(* open between Apply and Commit; an insert of the same version waits for   *)
(* it. The files' SQL takes effect with the COMMIT or not at all.           *)
(***************************************************************************)
EXTENDS Naturals, Sequences

CONSTANTS
  Migrators,  \* processes that migrate the same database
  NumFiles,   \* how many migration files there are
  MaxFaults   \* bound on failures and stops

ASSUME NumFilesAssumption == NumFiles \in Nat
ASSUME MaxFaultsAssumption == MaxFaults \in Nat

VARIABLES
  pc,        \* where each process is
  applied,   \* the versions it read before it began
  at,        \* the file its loop is at
  versions,  \* the rows of schema_migrations
  effects,   \* the files whose SQL was committed, in order
  inDoubt,   \* the files of open transactions whose process is gone
  faults     \* how often something failed

vars == <<pc, applied, at, versions, effects, inDoubt, faults>>
db == <<versions, effects, inDoubt>>

Files == 1..NumFiles

TypeOK ==
  /\ pc \in [Migrators -> {"down", "waiting", "reading", "migrating", "committing", "up"}]
  /\ applied \in [Migrators -> SUBSET Files]
  /\ at \in [Migrators -> 1..(NumFiles + 1)]
  /\ versions \subseteq Files
  /\ effects \in Seq(Files)
  /\ inDoubt \subseteq Files
  /\ faults \in Nat

Init ==
  /\ pc = [m \in Migrators |-> "down"]
  /\ applied = [m \in Migrators |-> {}]
  /\ at = [m \in Migrators |-> 1]
  /\ versions = {} /\ effects = <<>> /\ inDoubt = {}
  /\ faults = 0

\* Another transaction that holds file's version is open.
Open(file) == file \in inDoubt \/ \E m \in Migrators : pc[m] = "committing" /\ at[m] = file

GoTo(m, place) == pc' = [pc EXCEPT ![m] = place]

Start(m) ==
  /\ pc[m] = "down"
  /\ GoTo(m, "waiting")
  /\ UNCHANGED <<applied, at, db, faults>>

\* waitForDatabase has got an answer.
DatabaseAnswers(m) ==
  /\ pc[m] = "waiting"
  /\ GoTo(m, "reading")
  /\ UNCHANGED <<applied, at, db, faults>>

\* CREATE TABLE IF NOT EXISTS, SELECT version
ReadApplied(m) ==
  /\ pc[m] = "reading"
  /\ GoTo(m, "migrating")
  /\ applied' = [applied EXCEPT ![m] = versions]
  /\ at' = [at EXCEPT ![m] = 1]
  /\ UNCHANGED <<db, faults>>

Skip(m) ==
  /\ pc[m] = "migrating"
  /\ at[m] \in applied[m]
  /\ at' = [at EXCEPT ![m] = @ + 1]
  /\ UNCHANGED <<pc, applied, db, faults>>

\* Faulty variant: schema_migrations has no primary key.
ApplyNoKey(m) ==
  /\ pc[m] = "migrating"
  /\ at[m] \in Files \ applied[m]
  /\ GoTo(m, "committing")
  /\ UNCHANGED <<applied, at, db, faults>>

\* BEGIN, the file and the INSERT went through.
Apply(m) ==
  /\ pc[m] = "migrating"
  /\ at[m] \in Files \ applied[m]
  /\ at[m] \notin versions
  /\ ~Open(at[m])
  /\ GoTo(m, "committing")
  /\ UNCHANGED <<applied, at, db, faults>>

\* Faulty variant: the process does not exit, and so is never started again.
RefusedHangs(m) ==
  /\ pc[m] = "migrating"
  /\ at[m] \in Files \ applied[m]
  /\ at[m] \in versions
  /\ GoTo(m, "hung")
  /\ UNCHANGED <<applied, at, db, faults>>

\* Another process committed this file since ReadApplied: the file's own SQL or the
\* INSERT fails, ROLLBACK, rethrow, process.exit(1).
Refused(m) ==
  /\ pc[m] = "migrating"
  /\ at[m] \in Files \ applied[m]
  /\ at[m] \in versions
  /\ GoTo(m, "down")
  /\ UNCHANGED <<applied, at, db, faults>>

Commit(m) ==
  /\ pc[m] = "committing"
  /\ versions' = versions \cup {at[m]}
  /\ effects' = Append(effects, at[m])
  /\ at' = [at EXCEPT ![m] = @ + 1]
  /\ GoTo(m, "migrating")
  /\ UNCHANGED <<applied, inDoubt, faults>>

\* app.listen
Listen(m) ==
  /\ pc[m] = "migrating"
  /\ at[m] = NumFiles + 1
  /\ GoTo(m, "up")
  /\ UNCHANGED <<applied, at, db, faults>>

\* Faulty variant: a failed file is logged and passed over.
FailsGoesOn(m) ==
  /\ faults < MaxFaults
  /\ pc[m] = "migrating" /\ at[m] \in Files
  /\ at' = [at EXCEPT ![m] = @ + 1]
  /\ faults' = faults + 1
  /\ UNCHANGED <<pc, applied, db>>

\* A statement fails or the process is stopped. A transaction that was about to be
\* committed is in doubt: Postgres may have been told to.
Fails(m) ==
  /\ faults < MaxFaults
  /\ pc[m] # "down"
  /\ GoTo(m, "down")
  /\ inDoubt' = IF pc[m] = "committing" THEN inDoubt \cup {at[m]} ELSE inDoubt
  /\ faults' = faults + 1
  /\ UNCHANGED <<applied, at, versions, effects>>

\* Postgres ends a transaction whose process is gone, one way or the other.
CommitInDoubt(file) ==
  /\ file \in inDoubt
  /\ versions' = versions \cup {file}
  /\ effects' = Append(effects, file)
  /\ inDoubt' = inDoubt \ {file}
  /\ UNCHANGED <<pc, applied, at, faults>>

RollBackInDoubt(file) ==
  /\ file \in inDoubt
  /\ inDoubt' = inDoubt \ {file}
  /\ UNCHANGED <<pc, applied, at, versions, effects, faults>>

\* What a process does next if nothing fails.
Proceed(m) == \/ Start(m) \/ DatabaseAnswers(m) \/ ReadApplied(m) \/ Skip(m)
              \/ Apply(m) \/ Refused(m) \/ Commit(m) \/ Listen(m)

Next ==
  \/ \E m \in Migrators : Proceed(m) \/ Fails(m)
  \/ \E file \in Files : CommitInDoubt(file) \/ RollBackInDoubt(file)

Spec == Init /\ [][Next]_vars

\* Processes run, Postgres ends orphaned transactions, and a process that exited is
\* started again (restart: unless-stopped).
FairSpec ==
  /\ Spec
  /\ \A m \in Migrators : WF_vars(Proceed(m))
  /\ \A file \in Files : WF_vars(CommitInDoubt(file) \/ RollBackInDoubt(file))

-----------------------------------------------------------------------------
(* Properties. *)

\* However many processes migrate at once and wherever they fail, the files are
\* committed in order, each once, and schema_migrations records exactly those.
SchemaIsPrefix ==
  /\ \A i \in 1..Len(effects) : effects[i] = i
  /\ versions = 1..Len(effects)

\* A process that serves requests has a complete schema under it.
UpIsMigrated == \A m \in Migrators : pc[m] = "up" => versions = Files

\* Processes that get into each other's way still all come up in the end.
AllComeUp == \A m \in Migrators : []<>(pc[m] = "up")
=============================================================================
