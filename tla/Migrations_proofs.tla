-------------------------- MODULE Migrations_proofs --------------------------
(***************************************************************************)
(* Proofs about Migrations, for any set of processes, any number of files   *)
(* and of faults.                                                           *)
(***************************************************************************)
EXTENDS Migrations, TLAPS

\* What a process knows of the schema still holds of it, and the one transaction
\* that may be open is about the first file that is missing.
Known(m) ==
  /\ pc[m] \in {"migrating", "committing"} =>
       applied[m] \subseteq versions /\ 1..(at[m] - 1) \subseteq versions
  /\ pc[m] = "committing" => at[m] \in Files \ versions
  /\ pc[m] = "up" => versions = Files

OneOpen ==
  /\ \A file \in inDoubt : file = Len(effects) + 1
  /\ \A m \in Migrators : pc[m] = "committing" => at[m] \notin inDoubt
  /\ \A m, n \in Migrators : pc[m] = "committing" /\ pc[n] = "committing" => m = n

Inv == TypeOK /\ SchemaIsPrefix /\ OneOpen /\ \A m \in Migrators : Known(m)

LEMMA InvInit == Init => Inv
BY NumFilesAssumption DEF Init, Inv, TypeOK, SchemaIsPrefix, OneOpen, Known, Files

\* The file a process is about to commit is the first one missing.
LEMMA NextFile ==
  ASSUME Inv, NEW m \in Migrators, pc[m] \in {"migrating", "committing"},
         at[m] \in Files, at[m] \notin versions
  PROVE  at[m] = Len(effects) + 1
<1>1. Len(effects) \in Nat /\ at[m] \in Nat /\ 1..(at[m] - 1) \subseteq 1..Len(effects)
      /\ at[m] \notin 1..Len(effects) /\ at[m] >= 1
  BY DEF Inv, TypeOK, Known, SchemaIsPrefix, Files
<1>2. CASE at[m] = 1
  BY <1>1, <1>2
<1>3. CASE at[m] > 1
  <2>1. at[m] - 1 \in 1..(at[m] - 1)
    BY <1>1, <1>3
  <2> QED
    BY <1>1, <2>1
<1> QED
  BY <1>1, <1>2, <1>3

\* The first missing file is committed, by whomever.
LEMMA CommitStep ==
  ASSUME Inv, NEW file \in Files, file = Len(effects) + 1,
         versions' = versions \cup {file}, effects' = Append(effects, file)
  PROVE  SchemaIsPrefix' /\ versions' \subseteq Files /\ effects' \in Seq(Files)
<1>1. /\ effects \in Seq(Files) /\ Len(effects) \in Nat /\ versions = 1..Len(effects)
      /\ \A i \in 1..Len(effects) : effects[i] = i
  BY DEF Inv, TypeOK, SchemaIsPrefix
<1>2. /\ effects' \in Seq(Files) /\ Len(effects') = Len(effects) + 1
      /\ \A i \in 1..Len(effects) : effects'[i] = effects[i]
      /\ effects'[Len(effects) + 1] = file
  BY <1>1
<1>3. versions' = 1..Len(effects')
  BY <1>1, <1>2
<1>4. \A i \in 1..Len(effects') : effects'[i] = i
  BY <1>1, <1>2
<1> QED
  BY <1>1, <1>2, <1>3, <1>4 DEF SchemaIsPrefix, Inv, TypeOK

LEMMA InvNext == Inv /\ [Next]_vars => Inv'
<1> SUFFICES ASSUME Inv, [Next]_vars PROVE Inv'
  OBVIOUS
<1> USE NumFilesAssumption
<1>a. TypeOK /\ SchemaIsPrefix /\ OneOpen /\ \A m \in Migrators : Known(m)
  BY DEF Inv
<1>1. ASSUME NEW m \in Migrators, Start(m) \/ DatabaseAnswers(m) PROVE Inv'
  <2>1. TypeOK' /\ SchemaIsPrefix' /\ OneOpen'
    BY <1>1, <1>a DEF Start, DatabaseAnswers, GoTo, db, TypeOK, SchemaIsPrefix, OneOpen
  <2>2. \A n \in Migrators : Known(n)'
    BY <1>1, <1>a DEF Start, DatabaseAnswers, GoTo, db, TypeOK, Known
  <2> QED
    BY <2>1, <2>2 DEF Inv
<1>2. ASSUME NEW m \in Migrators, ReadApplied(m) PROVE Inv'
  <2>1. TypeOK' /\ SchemaIsPrefix' /\ OneOpen'
    BY <1>2, <1>a DEF ReadApplied, GoTo, db, TypeOK, SchemaIsPrefix, OneOpen
  <2>2. \A n \in Migrators : Known(n)'
    BY <1>2, <1>a DEF ReadApplied, GoTo, db, TypeOK, Known
  <2> QED
    BY <2>1, <2>2 DEF Inv
<1>3. ASSUME NEW m \in Migrators, Skip(m) PROVE Inv'
  <2>1. at[m] \in Files /\ at[m] \in versions /\ 1..(at[m] - 1) \subseteq versions
    BY <1>3, <1>a DEF Skip, TypeOK, Known
  <2>2. at' = [at EXCEPT ![m] = at[m] + 1] /\ at[m] + 1 \in 1..(NumFiles + 1)
        /\ UNCHANGED <<pc, applied, versions, effects, inDoubt, faults>>
    BY <1>3, <2>1 DEF Skip, db, Files
  <2>3. TypeOK' /\ SchemaIsPrefix' /\ OneOpen'
    BY <1>3, <1>a, <2>2 DEF Skip, TypeOK, SchemaIsPrefix, OneOpen
  <2>4. 1..at[m] \subseteq versions
    BY <2>1 DEF Files
  <2>5. \A n \in Migrators : Known(n)'
    BY <1>3, <1>a, <2>2, <2>4 DEF Skip, TypeOK, Known, Files
  <2> QED
    BY <2>3, <2>5 DEF Inv
<1>4. ASSUME NEW m \in Migrators, Apply(m) PROVE Inv'
  <2>1. at[m] = Len(effects) + 1
    BY <1>4, NextFile DEF Apply
  <2>2. \A n \in Migrators : pc[n] # "committing"
    <3> SUFFICES ASSUME NEW n \in Migrators, pc[n] = "committing" PROVE FALSE
      OBVIOUS
    <3>1. at[n] = Len(effects) + 1
      BY <1>a, NextFile DEF Known
    <3> QED
      BY <1>4, <2>1, <3>1 DEF Apply, Open
  <2>3. TypeOK' /\ SchemaIsPrefix' /\ OneOpen'
    BY <1>4, <1>a, <2>1, <2>2 DEF Apply, Open, GoTo, db, TypeOK, SchemaIsPrefix, OneOpen
  <2>4. \A n \in Migrators : Known(n)'
    BY <1>4, <1>a DEF Apply, GoTo, db, TypeOK, Known
  <2> QED
    BY <2>3, <2>4 DEF Inv
<1>5. ASSUME NEW m \in Migrators, Refused(m) PROVE Inv'
  BY <1>5, <1>a DEF Refused, GoTo, db, Inv, TypeOK, SchemaIsPrefix, OneOpen, Known
<1>6. ASSUME NEW m \in Migrators, Commit(m) PROVE Inv'
  <2>1. at[m] \in Files /\ at[m] \notin versions /\ at[m] = Len(effects) + 1
        /\ 1..(at[m] - 1) \subseteq versions
    BY <1>6, <1>a, NextFile DEF Commit, Known
  <2>2. SchemaIsPrefix' /\ versions' \subseteq Files /\ effects' \in Seq(Files)
    BY <1>6, <2>1, CommitStep DEF Commit
  <2>3. inDoubt = {} /\ \A n \in Migrators : n # m => pc[n] # "committing"
    BY <1>6, <1>a, <2>1 DEF Commit, OneOpen
  <2>4. TypeOK'
    BY <1>6, <1>a, <2>1, <2>2 DEF Commit, GoTo, TypeOK, Files
  <2>5. OneOpen'
    BY <1>6, <1>a, <2>3 DEF Commit, GoTo, TypeOK, OneOpen
  <2>6. \A n \in Migrators : Known(n)'
    <3> TAKE n \in Migrators
    <3>1. CASE n = m
      <4>1. 1..at[m] \subseteq versions'
        BY <1>6, <2>1 DEF Commit, Files
      <4> QED
        BY <1>6, <1>a, <2>1, <3>1, <4>1 DEF Commit, GoTo, TypeOK, Known, Files
    <3>2. CASE n # m
      <4>1. pc'[n] = pc[n] /\ at'[n] = at[n] /\ applied'[n] = applied[n] /\ pc[n] # "committing"
        BY <1>6, <1>a, <2>3, <3>2 DEF Commit, GoTo, TypeOK
      <4> QED
        BY <1>6, <1>a, <2>1, <2>2, <4>1 DEF Commit, Known
    <3> QED
      BY <3>1, <3>2
  <2> QED
    BY <2>2, <2>4, <2>5, <2>6 DEF Inv
<1>7. ASSUME NEW m \in Migrators, Listen(m) PROVE Inv'
  <2>1. versions = Files
    <3>1. at[m] - 1 = NumFiles /\ 1..(at[m] - 1) \subseteq versions /\ versions \subseteq Files
      BY <1>7, <1>a DEF Listen, TypeOK, Known
    <3> QED
      BY <3>1 DEF Files
  <2> QED
    BY <1>7, <1>a, <2>1 DEF Listen, GoTo, db, Inv, TypeOK, SchemaIsPrefix, OneOpen, Known
<1>8. ASSUME NEW m \in Migrators, Fails(m) PROVE Inv'
  <2>1. pc[m] = "committing" => at[m] \in Files /\ at[m] = Len(effects) + 1
    BY <1>a, NextFile DEF Known
  <2>2. TypeOK' /\ SchemaIsPrefix'
    <3>1. inDoubt' \subseteq Files
      BY <1>8, <1>a, <2>1 DEF Fails, TypeOK
    <3> QED
      BY <1>8, <1>a, <3>1 DEF Fails, GoTo, TypeOK, SchemaIsPrefix
  <2>3. OneOpen'
    BY <1>8, <1>a, <2>1 DEF Fails, GoTo, TypeOK, OneOpen
  <2>4. \A n \in Migrators : Known(n)'
    BY <1>8, <1>a DEF Fails, GoTo, TypeOK, Known
  <2> QED
    BY <2>2, <2>3, <2>4 DEF Inv
<1>9. ASSUME NEW file \in Files, CommitInDoubt(file) PROVE Inv'
  <2>1. file = Len(effects) + 1 /\ file \notin versions
    BY <1>9, <1>a DEF CommitInDoubt, OneOpen, SchemaIsPrefix, TypeOK
  <2>2. SchemaIsPrefix' /\ versions' \subseteq Files /\ effects' \in Seq(Files)
    BY <1>9, <2>1, CommitStep DEF CommitInDoubt
  <2>3. \A n \in Migrators : pc[n] # "committing"
    <3> SUFFICES ASSUME NEW n \in Migrators, pc[n] = "committing" PROVE FALSE
      OBVIOUS
    <3>1. at[n] = file
      BY <1>a, <2>1, NextFile DEF Known
    <3> QED
      BY <1>9, <1>a, <3>1 DEF CommitInDoubt, OneOpen
  <2>4. inDoubt' = {}
    BY <1>9, <1>a, <2>1 DEF CommitInDoubt, OneOpen
  <2>5. TypeOK' /\ OneOpen'
    BY <1>9, <1>a, <2>2, <2>3, <2>4 DEF CommitInDoubt, TypeOK, OneOpen
  <2>6. \A n \in Migrators : Known(n)'
    BY <1>9, <1>a, <2>2, <2>3 DEF CommitInDoubt, Known
  <2> QED
    BY <2>2, <2>5, <2>6 DEF Inv
<1>10. ASSUME NEW file \in Files, RollBackInDoubt(file) PROVE Inv'
  BY <1>10, <1>a DEF RollBackInDoubt, Inv, TypeOK, SchemaIsPrefix, OneOpen, Known
<1>11. CASE UNCHANGED vars
  BY <1>11, <1>a DEF vars, Inv, TypeOK, SchemaIsPrefix, OneOpen, Known
<1> QED
  BY <1>1, <1>2, <1>3, <1>4, <1>5, <1>6, <1>7, <1>8, <1>9, <1>10, <1>11 DEF Next, Proceed

LEMMA Invariant == Spec => []Inv
BY InvInit, InvNext, PTL DEF Spec

\* The committed files are a prefix of all files, each once and in order, and they
\* are the ones recorded, whoever migrates and whatever fails.
THEOREM SchemaIsPrefixCorrect == Spec => []SchemaIsPrefix
BY Invariant, PTL DEF Inv

\* Whoever serves requests has a complete schema under it.
THEOREM UpIsMigratedCorrect == Spec => []UpIsMigrated
<1>1. Inv => UpIsMigrated
  BY DEF Inv, Known, UpIsMigrated
<1> QED
  BY <1>1, Invariant, PTL
=============================================================================
