---------------------------- MODULE Interest_proofs ----------------------------
(***************************************************************************)
(* Proofs about Interest, for any number of submissions, imports, retries   *)
(* and faults.                                                              *)
(***************************************************************************)
EXTENDS Interest, FiniteSetTheorems, TLAPS

-----------------------------------------------------------------------------
(* Each submission by itself. *)

PCs == {"idle", "insert", "refresh", "swap", "finish", "done", "lost"}

Handled(r) ==
  /\ pc[r] \in PCs
  /\ status[r] # 0 => pc[r] = "done"
  /\ pc[r] = "swap" => id[r] \in snapshot[r]
  /\ pc[r] \in {"refresh", "swap"} \/ (pc[r] = "finish" /\ RefreshOnWrite) =>
       \E row \in interests : row.id = id[r]
  /\ RefreshOnWrite /\ (pc[r] = "finish" \/ status[r] = 201) => id[r] \in view \/ crossed

SubmissionInv ==
  /\ pc \in [Requests -> PCs]
  /\ DOMAIN status = Requests /\ DOMAIN id = Requests /\ DOMAIN snapshot = Requests
  /\ \A r \in Requests : Handled(r)

LEMMA SubmissionInit == Init => SubmissionInv
BY DEF Init, SubmissionInv, Handled, PCs

\* The search of a submission is not disturbed by what others do, unless it is
\* by a REFRESH that crosses another.
LEMMA SubmissionNext == SubmissionInv /\ [Next]_vars => SubmissionInv'
<1> SUFFICES ASSUME SubmissionInv, [Next]_vars PROVE SubmissionInv'
  OBVIOUS
<1> USE DEF SubmissionInv
<1>0. ASSUME UNCHANGED <<submission, search>>, interests \subseteq interests'
      PROVE  SubmissionInv'
  BY <1>0 DEF submission, search, Handled
<1>1. ASSUME NEW r \in Requests, Submit(r) PROVE SubmissionInv'
  <2>1. PICK to \in {"insert", "done"}, code \in {0, 400, 401} :
          /\ pc' = [pc EXCEPT ![r] = to] /\ (code # 0 => to = "done")
          /\ (status' = status /\ code = 0) \/ status' = [status EXCEPT ![r] = code]
    BY <1>1 DEF Submit, Reply
  <2>2. pc[r] = "idle" /\ UNCHANGED <<id, interests, search>>
    BY <1>1 DEF Submit
  <2>3. ASSUME NEW q \in Requests PROVE Handled(q)'
    BY <2>1, <2>2, <2>3 DEF Handled, PCs, search
  <2> QED
    BY <2>1, <2>2, <2>3 DEF PCs, search
<1>2. ASSUME NEW r \in Requests, Insert(r) PROVE SubmissionInv'
  <2>1. /\ pc[r] = "insert"
        /\ interests' = interests \cup {[id |-> nextId, from |-> "form"]}
        /\ id' = [id EXCEPT ![r] = nextId] /\ pc' = [pc EXCEPT ![r] = AfterInsert]
        /\ UNCHANGED <<status, view, snapshot, crossed>>
    BY <1>2 DEF Insert, search
  <2>2. AfterInsert \in {"refresh", "finish"} /\ (AfterInsert = "finish" => ~RefreshOnWrite)
    BY DEF AfterInsert
  <2>3. ASSUME NEW q \in Requests PROVE Handled(q)'
    <3>1. CASE q = r
      <4>1. [id |-> nextId, from |-> "form"] \in interests' /\ id'[r] = nextId
        BY <2>1
      <4>2. \E row \in interests' : row.id = id'[r]
        BY <4>1
      <4>3. status'[r] = 0 /\ pc'[r] = AfterInsert
        BY <2>1 DEF Handled
      <4> QED
        BY <2>2, <3>1, <4>2, <4>3 DEF Handled, PCs
    <3>2. CASE q # r
      BY <2>1, <3>2 DEF Handled
    <3> QED
      BY <3>1, <3>2
  <2> QED
    BY <2>1, <2>2, <2>3 DEF PCs
<1>3. ASSUME NEW r \in Requests, InsertCollides(r) \/ InsertFails(r) \/ RefreshFails(r)
      PROVE  SubmissionInv'
  <2>1. /\ pc' = [pc EXCEPT ![r] = "done"] /\ status' = [status EXCEPT ![r] = 500]
        /\ id' = id /\ interests \subseteq interests' /\ UNCHANGED <<view, snapshot, crossed>>
    BY <1>3 DEF InsertCollides, InsertFails, RefreshFails, Reply, search
  <2>2. ASSUME NEW q \in Requests PROVE Handled(q)'
    BY <2>1, <2>2 DEF Handled, PCs
  <2> QED
    BY <2>1, <2>2 DEF PCs
<1>4. ASSUME NEW r \in Requests, BeginRefresh(r) PROVE SubmissionInv'
  <2>1. /\ pc[r] = "refresh"
        /\ snapshot' = [snapshot EXCEPT ![r] = {row.id : row \in interests}]
        /\ pc' = [pc EXCEPT ![r] = "swap"]
        /\ UNCHANGED <<status, id, interests, view, crossed>>
    BY <1>4 DEF BeginRefresh
  <2>2. id[r] \in snapshot'[r]
    BY <2>1 DEF Handled
  <2>3. ASSUME NEW q \in Requests PROVE Handled(q)'
    BY <2>1, <2>2, <2>3 DEF Handled, PCs
  <2> QED
    BY <2>1, <2>3 DEF PCs
<1>5. ASSUME NEW r \in Requests, EndRefresh(r) \/ LateRefresh(r) PROVE SubmissionInv'
  <2>1. Swap(r) /\ UNCHANGED <<status, id, interests>>
        /\ \/ pc[r] = "swap" /\ pc' = [pc EXCEPT ![r] = "finish"]
           \/ pc[r] \in {"done", "lost"} /\ pc' = pc
    BY <1>5 DEF EndRefresh, LateRefresh, submission
  <2>2. \A i \in view : i \in view' \/ crossed'
    BY <2>1 DEF Swap
  <2>3. crossed => crossed'
    BY <2>1 DEF Swap
  <2>4. pc[r] = "swap" => id[r] \in view'
    BY <2>1 DEF Swap, Handled
  <2>5. ASSUME NEW q \in Requests PROVE Handled(q)'
    <3>1. CASE q = r
      <4>1. CASE pc[r] = "swap" /\ pc' = [pc EXCEPT ![r] = "finish"]
        BY <2>1, <2>4, <3>1, <4>1 DEF Handled, PCs
      <4>2. CASE pc[r] \in {"done", "lost"} /\ pc' = pc
        BY <2>1, <2>2, <2>3, <3>1, <4>2 DEF Handled, PCs
      <4> QED
        BY <2>1, <4>1, <4>2
    <3>2. CASE q # r
      BY <2>1, <2>2, <2>3, <3>2 DEF Handled, Swap
    <3> QED
      BY <3>1, <3>2
  <2> QED
    BY <2>1, <2>5 DEF Swap, PCs
<1>6. ASSUME NEW r \in Requests, Finish(r) PROVE SubmissionInv'
  <2>1. /\ pc[r] = "finish" /\ pc' = [pc EXCEPT ![r] = "done"]
        /\ status' = [status EXCEPT ![r] = 201]
        /\ UNCHANGED <<id, interests, view, snapshot, crossed>>
    BY <1>6 DEF Finish, Reply, search
  <2>2. ASSUME NEW q \in Requests PROVE Handled(q)'
    BY <2>1, <2>2 DEF Handled, PCs
  <2> QED
    BY <2>1, <2>2 DEF PCs
<1>7. ASSUME NEW i \in Ids, AddArrives(i) \/ AddFails(i) \/ AddUnheard(i) PROVE SubmissionInv'
  BY <1>0, <1>7 DEF AddArrives, AddFails, AddUnheard
<1>8. ASSUME NEW job \in Jobs, JobStep(job) \/ JobFails(job) PROVE SubmissionInv'
  BY <1>0, <1>8 DEF JobStep, Take, LogInterest, Complete, JobFails
<1>9. CASE Import
  BY <1>0, <1>9 DEF Import
<1>10. CASE Crash
  <2>1. ASSUME NEW q \in Requests PROVE Handled(q)'
    BY <1>10, <2>1 DEF Crash, Handled, PCs, search
  <2> QED
    BY <1>10, <2>1 DEF Crash, PCs, search
<1>11. CASE UNCHANGED vars
  BY <1>0, <1>11 DEF vars
<1> QED
  BY <1>1, <1>2, <1>3, <1>4, <1>5, <1>6, <1>7, <1>8, <1>9, <1>10, <1>11 DEF Next

\* A submission that was answered is found by the search, unless a REFRESH that had
\* read older contents replaced the view.
THEOREM FoundUnlessCrossedCorrect == Spec => []FoundUnlessCrossed
<1>1. SubmissionInv => FoundUnlessCrossed
  BY DEF SubmissionInv, Handled, FoundUnlessCrossed
<1> QED
  BY <1>1, SubmissionInit, SubmissionNext, PTL DEF Spec

-----------------------------------------------------------------------------
(* The queue. *)

\* An interest that was broadcast, and whose submission was answered.
Told(i) ==
  /\ \E j \in DOMAIN stream : stream[j] = i
  /\ \E r \in Requests : id[r] = i /\ status[r] = 201

QueueTypes ==
  /\ nextId \in Nat /\ id \in [Requests -> Nat]
  /\ stream \in Seq(Nat) /\ events \in Seq(Ids)
  /\ jobs \in [Jobs -> [state : JobStates, failures : Nat, stalls : Nat]]

QueueInv ==
  /\ \A i \in adding : Told(i)
  /\ \A job \in Jobs : jobs[job].state # "none" => Told(job[1])
  /\ \A k \in DOMAIN events : Told(events[k])

\* What a step of the job or of the queue may do to the jobs.
LEMMA MoveTypes ==
  ASSUME QueueTypes, NEW job \in Jobs \cup {NewJob(i) : i \in Ids}, NEW state \in JobStates,
         Move(job, state)
  PROVE  /\ jobs' \in [Jobs -> [state : JobStates, failures : Nat, stalls : Nat]]
         /\ \A other \in Jobs : other # job => jobs'[other] = jobs[other]
BY DEF Move, QueueTypes

LEMMA StalledTypes ==
  ASSUME NEW j \in [state : JobStates, failures : Nat, stalls : Nat]
  PROVE  /\ Stalled(j) \in [state : JobStates, failures : Nat, stalls : Nat]
         /\ Stalled(j).state # "none" => j.state # "none"
<1>1. CASE j.state \notin {"active", "logged"}
  BY <1>1 DEF Stalled
<1>2. CASE j.state \in {"active", "logged"}
  <2>1. PICK state \in {"waiting", "failed"} :
          Stalled(j) = [j EXCEPT !.stalls = @ + 1, !.state = state]
    BY <1>2 DEF Stalled
  <2>2. Stalled(j) = [state |-> state, failures |-> j.failures, stalls |-> j.stalls + 1]
    BY <2>1
  <2> QED
    BY <1>2, <2>2 DEF JobStates
<1> QED
  BY <1>1, <1>2

LEMMA FailedTypes ==
  ASSUME QueueTypes, NEW job \in Jobs, JobFails(job)
  PROVE  jobs' \in [Jobs -> [state : JobStates, failures : Nat, stalls : Nat]]
<1> DEFINE Job == [state : JobStates, failures : Nat, stalls : Nat]
<1>1. PICK state \in {"waiting", "failed"} :
        jobs' = [jobs EXCEPT ![job].failures = @ + 1, ![job].state = state]
  BY DEF JobFails
<1>2. jobs[job] \in Job /\ jobs \in [Jobs -> Job]
  BY DEF QueueTypes
<1>3. PICK old \in Job : old = jobs[job]
  BY <1>2
<1>4. jobs' = [jobs EXCEPT ![job] = [old EXCEPT !.failures = @ + 1, !.state = state]]
  BY <1>1, <1>2, <1>3
<1>5. [old EXCEPT !.failures = @ + 1, !.state = state] \in Job
  <2>1. [old EXCEPT !.failures = @ + 1] \in Job
    OBVIOUS
  <2>2. \A new \in Job : [new EXCEPT !.state = state] \in Job
    BY DEF JobStates
  <2> QED
    BY <2>1, <2>2
<1> QED
  BY <1>2, <1>4, <1>5

LEMMA TypesNext == QueueTypes /\ [Next]_vars => QueueTypes'
<1> SUFFICES ASSUME QueueTypes, [Next]_vars PROVE QueueTypes'
  OBVIOUS
<1> USE DEF QueueTypes
<1>1. ASSUME NEW r \in Requests,
             \/ Submit(r) \/ Insert(r) \/ InsertCollides(r) \/ BeginRefresh(r) \/ EndRefresh(r)
             \/ LateRefresh(r) \/ Finish(r) \/ InsertFails(r) \/ RefreshFails(r)
      PROVE  QueueTypes'
  <2>1. CASE Insert(r)
    BY <2>1 DEF Insert
  <2>2. CASE Finish(r)
    BY <2>2 DEF Finish
  <2>3. CASE InsertCollides(r) \/ InsertFails(r)
    BY <2>3 DEF InsertCollides, InsertFails
  <2>4. CASE Submit(r) \/ BeginRefresh(r) \/ EndRefresh(r) \/ LateRefresh(r) \/ RefreshFails(r)
    BY <2>4 DEF Submit, BeginRefresh, EndRefresh, LateRefresh, RefreshFails, submission
  <2> QED
    BY <1>1, <2>1, <2>2, <2>3, <2>4
<1>2. ASSUME NEW i \in Ids, AddArrives(i) \/ AddFails(i) \/ AddUnheard(i) PROVE QueueTypes'
  <2>1. ASSUME Move(NewJob(i), "waiting"), UNCHANGED <<id, nextId, stream, events>>
        PROVE  QueueTypes'
    BY <2>1, MoveTypes DEF JobStates
  <2> QED
    BY <1>2, <2>1 DEF AddArrives, AddFails, AddUnheard, submission
<1>3. ASSUME NEW job \in Jobs, JobStep(job) PROVE QueueTypes'
  <2>1. PICK state \in JobStates : Move(job, state)
    BY <1>3 DEF JobStep, Take, LogInterest, Complete, JobStates
  <2>2. job[1] \in Ids
    BY DEF Jobs
  <2>3. events' \in Seq(Ids) /\ UNCHANGED <<id, nextId, stream>>
    <3>1. PICK x \in Ids : x = job[1]
      BY <2>2
    <3>2. (events' = events \/ events' = Append(events, x)) /\ UNCHANGED <<id, nextId, stream>>
      BY <1>3, <3>1 DEF JobStep, Take, LogInterest, Complete, submission
    <3>3. events \in Seq(Ids)
      OBVIOUS
    <3>4. Append(events, x) \in Seq(Ids)
      BY <3>3
    <3> QED
      BY <3>2, <3>3, <3>4
  <2> QED
    BY <2>1, <2>3, MoveTypes
<1>4. ASSUME NEW job \in Jobs, JobFails(job) PROVE QueueTypes'
  BY <1>4, FailedTypes DEF JobFails, submission
<1>5. CASE Crash
  <2>1. ASSUME NEW job \in Jobs
        PROVE  Stalled(jobs[job]) \in [state : JobStates, failures : Nat, stalls : Nat]
    BY StalledTypes
  <2> QED
    BY <1>5, <2>1 DEF Crash
<1>6. ASSUME Import \/ UNCHANGED vars PROVE QueueTypes'
  BY <1>6 DEF Import, vars, submission
<1> QED
  BY <1>1, <1>2, <1>3, <1>4, <1>5, <1>6 DEF Next

\* No step takes back a broadcast or an answer.
LEMMA ToldStays ==
  ASSUME SubmissionInv, QueueTypes, [Next]_vars, NEW i, Told(i)
  PROVE  Told(i)'
<1>1. \A j \in DOMAIN stream : j \in DOMAIN stream' /\ stream'[j] = stream[j]
  <2>1. stream' = stream \/ \E x \in Nat : stream' = Append(stream, x)
    <3>1. ASSUME NEW r \in Requests, Finish(r) PROVE stream' = Append(stream, id[r]) /\ id[r] \in Nat
      BY <3>1 DEF Finish, QueueTypes
    <3> QED
      BY <3>1 DEF Next, Submit, Insert, InsertCollides, BeginRefresh, EndRefresh, LateRefresh,
              InsertFails, RefreshFails, AddArrives, AddFails, AddUnheard, JobStep, Take,
              LogInterest, Complete, JobFails, Import, Crash, vars
  <2> QED
    BY <2>1 DEF QueueTypes
<1>2. ASSUME NEW r \in Requests, status[r] = 201 PROVE id'[r] = id[r] /\ status'[r] = 201
  <2>1. pc[r] = "done" /\ DOMAIN status = Requests /\ DOMAIN id = Requests
    BY <1>2 DEF SubmissionInv, Handled
  <2>2. ASSUME NEW q \in Requests, Submit(q) \/ InsertCollides(q) \/ Finish(q) \/ InsertFails(q)
                                   \/ RefreshFails(q)
        PROVE  q # r /\ id' = id /\ (status' = status \/ \E code : status' = [status EXCEPT ![q] = code])
    BY <2>1, <2>2 DEF Submit, InsertCollides, Finish, InsertFails, RefreshFails, Reply
  <2>3. ASSUME NEW q \in Requests, Insert(q) PROVE q # r /\ status' = status
                                                   /\ id' = [id EXCEPT ![q] = nextId]
    BY <2>1, <2>3 DEF Insert
  <2>4. ASSUME NEW q \in Requests, BeginRefresh(q) \/ EndRefresh(q) \/ LateRefresh(q)
        PROVE  UNCHANGED <<id, status>>
    BY <2>4 DEF BeginRefresh, EndRefresh, LateRefresh, submission
  <2>5. ASSUME NEW x \in Ids, AddArrives(x) \/ AddFails(x) \/ AddUnheard(x)
        PROVE  UNCHANGED <<id, status>>
    BY <2>5 DEF AddArrives, AddFails, AddUnheard, submission
  <2>6. ASSUME NEW job \in Jobs, JobStep(job) \/ JobFails(job) PROVE UNCHANGED <<id, status>>
    BY <2>6 DEF JobStep, Take, LogInterest, Complete, JobFails, submission
  <2>7. ASSUME Import \/ Crash \/ UNCHANGED vars PROVE UNCHANGED <<id, status>>
    BY <2>7 DEF Import, Crash, vars, submission
  <2> QED
    BY <1>2, <2>1, <2>2, <2>3, <2>4, <2>5, <2>6, <2>7 DEF Next
<1> QED
  BY <1>1, <1>2 DEF Told

LEMMA QueueNext == SubmissionInv /\ QueueTypes /\ QueueInv /\ [Next]_vars => QueueInv'
<1> SUFFICES ASSUME SubmissionInv, QueueTypes, QueueInv, [Next]_vars PROVE QueueInv'
  OBVIOUS
<1>0. \A i : Told(i) => Told(i)'
  BY ToldStays
<1>1. ASSUME \A i \in adding' : i \in adding \/ Told(i)',
             \A job \in Jobs : jobs'[job].state # "none" => jobs[job].state # "none" \/ Told(job[1]),
             \A k \in DOMAIN events' : (k \in DOMAIN events /\ events'[k] = events[k]) \/ Told(events'[k])
      PROVE  QueueInv'
  BY <1>0, <1>1 DEF QueueInv
<1>2. ASSUME NEW r \in Requests,
             \/ Submit(r) \/ Insert(r) \/ InsertCollides(r) \/ BeginRefresh(r) \/ EndRefresh(r)
             \/ LateRefresh(r) \/ InsertFails(r) \/ RefreshFails(r)
      PROVE  UNCHANGED <<adding, jobs, events>>
  BY <1>2 DEF Submit, Insert, InsertCollides, BeginRefresh, EndRefresh, LateRefresh,
              InsertFails, RefreshFails
<1>3. ASSUME NEW r \in Requests, Finish(r) PROVE QueueInv'
  <2>1. /\ stream' = Append(stream, id[r]) /\ id' = id /\ adding' = adding \cup {id[r]}
        /\ status'[r] = 201 /\ UNCHANGED <<jobs, events>>
    BY <1>3 DEF Finish, Reply, SubmissionInv
  <2>2. stream'[Len(stream) + 1] = id[r] /\ Len(stream) + 1 \in DOMAIN stream'
    BY <2>1 DEF QueueTypes
  <2>3. Told(id[r])'
    <3>1. ASSUME NEW i, i = id[r] PROVE Told(i)'
      BY <2>1, <2>2, <3>1 DEF Told
    <3> QED
      BY <2>1, <3>1
  <2> QED
    BY <1>0, <2>1, <2>3 DEF QueueInv
<1>4. ASSUME NEW i \in Ids, AddArrives(i) \/ AddUnheard(i) PROVE QueueInv'
  <2>1. /\ i \in adding /\ adding' \subseteq adding /\ Move(NewJob(i), "waiting")
        /\ events' = events
    BY <1>4 DEF AddArrives, AddUnheard
  <2>2. ASSUME NEW job \in Jobs, jobs'[job].state # "none"
        PROVE  jobs[job].state # "none" \/ Told(job[1])
    <3>1. CASE job = NewJob(i)
      <4>1. job[1] = i
        BY <3>1 DEF NewJob
      <4> QED
        BY <2>1, <4>1 DEF QueueInv
    <3>2. CASE job # NewJob(i)
      BY <2>1, <2>2, <3>2, MoveTypes DEF JobStates
    <3> QED
      BY <3>1, <3>2
  <2> QED
    BY <1>1, <2>1, <2>2
<1>5. ASSUME NEW i \in Ids, AddFails(i) PROVE QueueInv'
  BY <1>1, <1>5 DEF AddFails
<1>6. ASSUME NEW job \in Jobs, JobStep(job) PROVE QueueInv'
  <2>1. PICK state \in JobStates : Move(job, state)
    BY <1>6 DEF JobStep, Take, LogInterest, Complete, JobStates
  <2>2. jobs[job].state # "none" /\ adding' = adding
    BY <1>6 DEF JobStep, Take, LogInterest, Complete
  <2>3. ASSUME NEW other \in Jobs, jobs'[other].state # "none" PROVE jobs[other].state # "none"
    BY <2>1, <2>2, <2>3, MoveTypes
  <2>4. events' = events \/ events' = Append(events, job[1])
    BY <1>6 DEF JobStep, Take, LogInterest, Complete
  <2>5. job[1] \in Ids /\ Told(job[1])
    BY <2>2 DEF QueueInv, Jobs
  <2>6. ASSUME NEW k \in DOMAIN events'
        PROVE  (k \in DOMAIN events /\ events'[k] = events[k]) \/ Told(events'[k])
    <3>1. CASE events' = events
      BY <3>1
    <3>2. CASE events' = Append(events, job[1])
      <4>1. (k \in DOMAIN events /\ events'[k] = events[k]) \/ events'[k] = job[1]
        BY <2>5, <3>2 DEF QueueTypes
      <4> QED
        BY <2>5, <4>1
    <3> QED
      BY <2>4, <3>1, <3>2
  <2> QED
    BY <1>1, <2>2, <2>3, <2>6
<1>7. ASSUME NEW job \in Jobs, JobFails(job) PROVE QueueInv'
  <2>1. ASSUME NEW other \in Jobs, jobs'[other].state # "none" PROVE jobs[other].state # "none"
    BY <1>7, <2>1 DEF JobFails, QueueTypes
  <2> QED
    BY <1>1, <1>7, <2>1 DEF JobFails
<1>8. CASE Crash
  <2>1. ASSUME NEW job \in Jobs, jobs'[job].state # "none" PROVE jobs[job].state # "none"
    BY <1>8, <2>1 DEF Crash, Stalled
  <2> QED
    BY <1>1, <1>8, <2>1 DEF Crash
<1>9. ASSUME Import \/ UNCHANGED vars PROVE UNCHANGED <<adding, jobs, events>>
  BY <1>9 DEF Import, vars
<1>10. ASSUME UNCHANGED <<adding, jobs, events>> PROVE QueueInv'
  BY <1>1, <1>10
<1> QED
  BY <1>2, <1>3, <1>4, <1>5, <1>6, <1>7, <1>8, <1>9, <1>10 DEF Next

LEMMA QueueInvariant == Spec => [](SubmissionInv /\ QueueTypes /\ QueueInv)
<1>1. Init => SubmissionInv /\ QueueTypes /\ QueueInv
  <2> SUFFICES ASSUME Init PROVE QueueTypes /\ QueueInv
    BY SubmissionInit
  <2> QED
    BY DEF Init, QueueTypes, QueueInv, JobStates
<1>2. SubmissionInv /\ QueueTypes /\ QueueInv /\ [Next]_vars
        => (SubmissionInv /\ QueueTypes /\ QueueInv)'
  BY SubmissionNext, TypesNext, QueueNext
<1> QED
  BY <1>1, <1>2, PTL DEF Spec

-----------------------------------------------------------------------------
(* The ledger. *)

\* The submissions that the sequence has given a number, or that will not ask for one.
Past == {r \in Requests : pc[r] \notin {"idle", "insert"}}

\* The sequence has given no more numbers than there were submissions, each submission
\* its own, and what is stored under it stays.
IdentityInv ==
  /\ nextId \in Nat \ {0} /\ nextId <= Cardinality(Past) + 1
  /\ \A r \in Requests : /\ id[r] < nextId
                         /\ pc[r] \in {"refresh", "swap", "finish"} => id[r] # 0 /\ Taken(id[r])
  /\ \A r, q \in Requests : id[r] # 0 /\ id[r] = id[q] => r = q

\* A submission that is given a number is the first to come past its insert with it.
LEMMA NumbersSuffice ==
  ASSUME IdentityInv, NEW r \in Requests, pc[r] = "insert"
  PROVE  /\ nextId \in 1..Cardinality(Requests) /\ nextId \in Ids
         /\ \A to : /\ to \notin {"idle", "insert"}
                    /\ DOMAIN pc = Requests
                    /\ pc' = [pc EXCEPT ![r] = to]
                    => Cardinality(Past') = Cardinality(Past) + 1
<1>1. /\ IsFiniteSet(Requests) /\ Past \subseteq Requests /\ r \notin Past
      /\ Past \cup {r} \subseteq Requests
  BY RequestsAssumption DEF Past
<1>2. IsFiniteSet(Past)
  BY <1>1, FS_Subset
<1>3. Cardinality(Past \cup {r}) = Cardinality(Past) + 1 /\ Cardinality(Past) \in Nat
  BY <1>1, <1>2, FS_AddElement, FS_CardinalityType
<1>4. Cardinality(Past \cup {r}) <= Cardinality(Requests) /\ Cardinality(Requests) \in Nat
  BY <1>1, FS_Subset, FS_CardinalityType
<1>5. nextId \in 1..Cardinality(Requests)
  BY <1>3, <1>4 DEF IdentityInv
<1>6. ASSUME NEW to, to \notin {"idle", "insert"}, DOMAIN pc = Requests,
             pc' = [pc EXCEPT ![r] = to]
      PROVE  Past' = Past \cup {r}
  BY <1>6 DEF Past
<1> QED
  BY <1>3, <1>5, <1>6 DEF Ids

\* A step that gives no number leaves the numbers and what is stored under them.
LEMMA IdentityStays ==
  ASSUME IdentityInv, Past \subseteq Past', UNCHANGED <<id, nextId>>,
         interests \subseteq interests',
         \A r \in Requests : pc'[r] \in {"refresh", "swap", "finish"} =>
                               pc[r] \in {"refresh", "swap", "finish"}
  PROVE  IdentityInv'
<1>1. IsFiniteSet(Past') /\ Past' \subseteq Requests
  <2>1. Past' \subseteq Requests
    BY DEF Past
  <2> QED
    BY <2>1, RequestsAssumption, FS_Subset
<1>2. /\ Cardinality(Past) <= Cardinality(Past') /\ Cardinality(Past) \in Nat
      /\ Cardinality(Past') \in Nat
  <2>1. IsFiniteSet(Past)
    BY <1>1, FS_Subset
  <2> QED
    BY <1>1, <2>1, FS_Subset, FS_CardinalityType
<1>3. nextId' \in Nat \ {0} /\ nextId' <= Cardinality(Past') + 1
  BY <1>2 DEF IdentityInv
<1>4. \A i : Taken(i) => Taken(i)'
  BY DEF Taken
<1> QED
  BY <1>3, <1>4 DEF IdentityInv

LEMMA IdentityNext == SubmissionInv /\ QueueTypes /\ IdentityInv /\ [Next]_vars => IdentityInv'
<1> SUFFICES ASSUME SubmissionInv, QueueTypes, IdentityInv, [Next]_vars PROVE IdentityInv'
  OBVIOUS
<1>0. DOMAIN pc = Requests /\ DOMAIN id = Requests
  BY DEF SubmissionInv
<1>1. ASSUME NEW r \in Requests, Insert(r) PROVE IdentityInv'
  <2>1. /\ pc[r] = "insert" /\ nextId' = nextId + 1 /\ id' = [id EXCEPT ![r] = nextId]
        /\ interests' = interests \cup {[id |-> nextId, from |-> "form"]}
        /\ pc' = [pc EXCEPT ![r] = AfterInsert] /\ AfterInsert \in {"refresh", "finish"}
    BY <1>1 DEF Insert, AfterInsert
  <2>2. nextId' \in Nat \ {0} /\ nextId' <= Cardinality(Past') + 1
    <3>1. Cardinality(Past') = Cardinality(Past) + 1
      BY <1>0, <2>1, NumbersSuffice
    <3>2. Cardinality(Past) \in Nat
      BY RequestsAssumption, FS_Subset, FS_CardinalityType DEF Past
    <3> QED
      BY <2>1, <3>1, <3>2 DEF IdentityInv
  <2>3. \A i : Taken(i) \/ i = nextId => Taken(i)'
    <3>1. [id |-> nextId, from |-> "form"] \in interests'
      BY <2>1
    <3> QED
      BY <2>1, <3>1 DEF Taken
  <2>4. ASSUME NEW q \in Requests
        PROVE  /\ id'[q] < nextId'
               /\ pc'[q] \in {"refresh", "swap", "finish"} => id'[q] # 0 /\ Taken(id[q])'
    <3>1. nextId \in Nat \ {0} /\ id[q] \in Nat /\ id[q] < nextId
      BY DEF IdentityInv, QueueTypes
    <3>2. CASE q = r
      <4>1. id'[q] = nextId
        BY <1>0, <2>1, <3>2
      <4> QED
        BY <2>1, <2>3, <3>1, <4>1
    <3>3. CASE q # r
      <4>1. id'[q] = id[q] /\ pc'[q] = pc[q]
        BY <1>0, <2>1, <3>3
      <4> QED
        BY <2>1, <2>3, <3>1, <4>1 DEF IdentityInv
    <3> QED
      BY <3>2, <3>3
  <2>5. \A q, s \in Requests : id'[q] # 0 /\ id'[q] = id'[s] => q = s
    BY <1>0, <2>1 DEF IdentityInv, QueueTypes
  <2> QED
    BY <2>2, <2>4, <2>5 DEF IdentityInv
<1>2. ASSUME NEW r \in Requests, InsertCollides(r) \/ InsertFails(r) PROVE IdentityInv'
  <2>1. /\ pc[r] = "insert" /\ nextId' = nextId + 1 /\ id' = id
        /\ interests \subseteq interests' /\ pc' = [pc EXCEPT ![r] = "done"]
    BY <1>2 DEF InsertCollides, InsertFails, Reply
  <2>2. nextId' \in Nat \ {0} /\ nextId' <= Cardinality(Past') + 1
    <3>1. Cardinality(Past') = Cardinality(Past) + 1
      BY <1>0, <2>1, NumbersSuffice
    <3>2. Cardinality(Past) \in Nat
      BY RequestsAssumption, FS_Subset, FS_CardinalityType DEF Past
    <3> QED
      BY <2>1, <3>1, <3>2 DEF IdentityInv
  <2>3. \A i : Taken(i) => Taken(i)'
    BY <2>1 DEF Taken
  <2>4. \A q \in Requests : id[q] < nextId'
    BY <2>1 DEF IdentityInv, QueueTypes
  <2> QED
    BY <1>0, <2>1, <2>2, <2>3, <2>4 DEF IdentityInv
<1>3. ASSUME NEW r \in Requests,
             \/ Submit(r) \/ BeginRefresh(r) \/ EndRefresh(r) \/ LateRefresh(r) \/ Finish(r)
             \/ RefreshFails(r)
      PROVE  IdentityInv'
  <2>1. UNCHANGED <<id, nextId, interests>>
    BY <1>3 DEF Submit, BeginRefresh, EndRefresh, LateRefresh, Finish, RefreshFails, submission
  <2>2. \/ pc' = pc
        \/ /\ pc[r] = "idle" \/ pc[r] \in {"refresh", "swap", "finish"}
           /\ \/ pc[r] = "idle" /\ pc' = [pc EXCEPT ![r] = "insert"]
              \/ pc' = [pc EXCEPT ![r] = "done"]
              \/ \E to \in {"swap", "finish"} : pc[r] # "idle" /\ pc' = [pc EXCEPT ![r] = to]
    BY <1>3 DEF Submit, BeginRefresh, EndRefresh, LateRefresh, Finish, RefreshFails, Reply,
                submission
  <2>3. Past \subseteq Past' /\ \A q \in Requests :
          pc'[q] \in {"refresh", "swap", "finish"} => pc[q] \in {"refresh", "swap", "finish"}
    BY <1>0, <2>2 DEF Past
  <2> QED
    BY <2>1, <2>3, IdentityStays
<1>4. CASE Crash
  <2>1. UNCHANGED <<id, nextId, interests>> /\ Past \subseteq Past'
    BY <1>4 DEF Crash, Past
  <2>2. \A q \in Requests : pc'[q] \notin {"refresh", "swap", "finish"}
    BY <1>4 DEF Crash
  <2> QED
    BY <2>1, <2>2, IdentityStays
<1>5. ASSUME UNCHANGED <<pc, id, nextId>>, interests \subseteq interests' PROVE IdentityInv'
  <2>1. Past' = Past
    BY <1>5 DEF Past
  <2> QED
    BY <1>5, <2>1, IdentityStays
<1>6. ASSUME NEW i \in Ids, AddArrives(i) \/ AddFails(i) \/ AddUnheard(i)
      PROVE  UNCHANGED <<pc, id, nextId, interests>>
  BY <1>6 DEF AddArrives, AddFails, AddUnheard, submission
<1>7. ASSUME NEW job \in Jobs, JobStep(job) \/ JobFails(job)
      PROVE  UNCHANGED <<pc, id, nextId, interests>>
  BY <1>7 DEF JobStep, Take, LogInterest, Complete, JobFails, submission
<1>8. ASSUME Import \/ UNCHANGED vars
      PROVE  UNCHANGED <<pc, id, nextId>> /\ interests \subseteq interests'
  BY <1>8 DEF Import, vars, submission
<1> QED
  BY <1>1, <1>2, <1>3, <1>4, <1>5, <1>6, <1>7, <1>8 DEF Next

LEMMA IdentityInit == Init => IdentityInv
<1> SUFFICES ASSUME Init PROVE IdentityInv
  OBVIOUS
<1>1. Past = {}
  BY DEF Init, Past
<1>2. Cardinality(Past) = 0
  BY <1>1, FS_EmptySet
<1> QED
  BY <1>2 DEF Init, IdentityInv

LEMMA IdentityInvariant == Spec => []IdentityInv
<1>1. SubmissionInv /\ QueueTypes /\ IdentityInv /\ [Next]_vars => IdentityInv'
  BY IdentityNext
<1> QED
  BY <1>1, IdentityInit, QueueInvariant, PTL DEF Spec

\* The submissions that were answered with success, as the ledger sees them.
Answers == {id[r] : r \in {q \in Requests : status[q] = 201}}

LEMMA AnswersStay ==
  ASSUME \A q \in Requests : /\ status'[q] = 201 <=> status[q] = 201
                             /\ status[q] = 201 => id'[q] = id[q]
  PROVE  Answers' = Answers
BY DEF Answers

\* An action does to the ledger's variables what one of the ledger's does, or nothing.
LEMMA LedgerStep ==
  ASSUME SubmissionInv, QueueTypes, QueueInv, IdentityInv, [Next]_vars
  PROVE  [Ledger!Next]_(Ledger!vars)
<1> DEFINE Rows == [id : Ids, from : {"form", "import"}]
<1>0. /\ DOMAIN pc = Requests /\ DOMAIN id = Requests /\ DOMAIN status = Requests
      /\ \A r \in Requests : status[r] # 0 => pc[r] = "done"
  BY DEF SubmissionInv, Handled
<1>1. ASSUME UNCHANGED <<interests, stream, events>>, Answers' = Answers
      PROVE  UNCHANGED Ledger!vars
  BY <1>1 DEF Ledger!vars, Answers
<1>2. ASSUME NEW new \in SUBSET Rows, \A row \in new : ~Taken(row.id),
             \A row, other \in new : row.id = other.id => row = other,
             interests' = interests \cup new, UNCHANGED <<stream, events>>, Answers' = Answers
      PROVE  Ledger!Next
  <2>1. Ledger!Store(new)
    BY <1>2 DEF Ledger!Store, Answers
  <2>2. new \in SUBSET {row \in Rows : ~Ledger!Taken(row.id)}
    BY <1>2 DEF Taken, Ledger!Taken
  <2> QED
    BY <2>1, <2>2 DEF Ledger!Next
<1>3. ASSUME NEW r \in Requests, pc[r] = "insert", ~Taken(nextId),
             interests' = interests \cup {[id |-> nextId, from |-> "form"]},
             UNCHANGED <<stream, events>>, Answers' = Answers
      PROVE  Ledger!Next
  <2>1. nextId \in Ids
    BY <1>3, NumbersSuffice
  <2>2. PICK row \in Rows : row = [id |-> nextId, from |-> "form"]
    BY <2>1
  <2>3. {row} \in SUBSET Rows /\ (\A other \in {row} : ~Taken(other.id))
    BY <1>3, <2>2
  <2>4. interests' = interests \cup {row}
    BY <1>3, <2>2
  <2> QED
    BY <1>2, <1>3, <2>3, <2>4
<1>4. ASSUME NEW r \in Requests, Insert(r) PROVE Ledger!Next
  <2>1. Answers' = Answers
    BY <1>0, <1>4, AnswersStay DEF Insert
  <2> QED
    BY <1>3, <1>4, <2>1 DEF Insert
<1>5. ASSUME NEW r \in Requests, NEW code \in {400, 401, 500}, pc[r] # "done",
             status' = [status EXCEPT ![r] = code], id' = id
      PROVE  Answers' = Answers
  <2>1. \A q \in Requests : status'[q] = 201 <=> status[q] = 201
    BY <1>0, <1>5
  <2> QED
    BY <1>5, <2>1, AnswersStay
<1>6. ASSUME UNCHANGED <<status, id>> PROVE Answers' = Answers
  BY <1>6 DEF Answers
<1>7. ASSUME NEW r \in Requests, InsertFails(r) PROVE [Ledger!Next]_(Ledger!vars)
  <2>1. Answers' = Answers
    <3>1. pc[r] # "done" /\ status' = [status EXCEPT ![r] = 500] /\ id' = id
      BY <1>7 DEF InsertFails, Reply
    <3> QED
      BY <1>5, <3>1
  <2>2. CASE interests' = interests
    BY <1>1, <1>7, <2>1, <2>2 DEF InsertFails
  <2>3. CASE ~Taken(nextId) /\ interests' = interests \cup {[id |-> nextId, from |-> "form"]}
    BY <1>3, <1>7, <2>1, <2>3 DEF InsertFails
  <2> QED
    BY <1>7, <2>2, <2>3 DEF InsertFails
<1>8. ASSUME NEW r \in Requests, Submit(r) \/ InsertCollides(r) \/ RefreshFails(r)
      PROVE  UNCHANGED Ledger!vars
  <2>1. UNCHANGED <<id, interests, stream, events>>
    BY <1>8 DEF Submit, InsertCollides, RefreshFails
  <2>2. pc[r] # "done" /\ (status' = status \/ \E code \in {400, 401, 500} :
                                                 status' = [status EXCEPT ![r] = code])
    BY <1>8 DEF Submit, InsertCollides, RefreshFails, Reply
  <2> QED
    BY <1>1, <1>5, <1>6, <2>1, <2>2
<1>9. ASSUME NEW r \in Requests, BeginRefresh(r) \/ EndRefresh(r) \/ LateRefresh(r)
      PROVE  UNCHANGED <<status, id, interests, stream, events>>
  BY <1>9 DEF BeginRefresh, EndRefresh, LateRefresh, submission
<1>10. ASSUME NEW r \in Requests, Finish(r) PROVE Ledger!Next
  <2>1. /\ pc[r] = "finish" /\ stream' = Append(stream, id[r])
        /\ status' = [status EXCEPT ![r] = 201] /\ UNCHANGED <<id, interests, events>>
    BY <1>10 DEF Finish, Reply
  <2>2. id[r] # 0 /\ \E row \in interests : row.id = id[r]
    BY <2>1 DEF IdentityInv, Taken
  <2>3. id[r] \notin Answers
    BY <1>0, <2>1, <2>2 DEF Answers, IdentityInv
  <2>4. Answers' = Answers \cup {id[r]}
    <3>1. \A q \in Requests : status'[q] = 201 <=> status[q] = 201 \/ q = r
      BY <1>0, <2>1
    <3> QED
      BY <2>1, <3>1 DEF Answers
  <2>5. PICK row \in interests : row.id = id[r]
    BY <2>2
  <2>6. Ledger!Tell(row.id)
    BY <2>1, <2>3, <2>4, <2>5 DEF Ledger!Tell, Answers
  <2> QED
    BY <2>5, <2>6 DEF Ledger!Next
<1>11. ASSUME NEW i \in Ids, AddArrives(i) \/ AddFails(i) \/ AddUnheard(i)
       PROVE  UNCHANGED <<status, id, interests, stream, events>>
  BY <1>11 DEF AddArrives, AddFails, AddUnheard, submission
<1>12. ASSUME NEW job \in Jobs, LogInterest(job) PROVE Ledger!Next
  <2>1. /\ jobs[job].state = "active" /\ events' = Append(events, job[1])
        /\ UNCHANGED <<status, id, interests, stream>>
    BY <1>12 DEF LogInterest, submission
  <2>2. job[1] \in Answers
    BY <2>1 DEF QueueInv, Told, Answers
  <2>3. Answers' = Answers
    BY <1>6, <2>1
  <2>4. Ledger!Log(job[1])
    BY <2>1, <2>3 DEF Ledger!Log, Answers
  <2> QED
    BY <2>2, <2>4 DEF Ledger!Next, Answers
<1>13. ASSUME NEW job \in Jobs, Take(job) \/ Complete(job) \/ JobFails(job)
       PROVE  UNCHANGED <<status, id, interests, stream, events>>
  BY <1>13 DEF Take, Complete, JobFails, submission
<1>14. CASE Import
  <2> DEFINE new == {[id |-> i, from |-> "import"] : i \in {j \in ImportIds : ~Taken(j)}}
  <2>1. new \in SUBSET Rows
    BY DEF Ids
  <2>2. \A row \in new : ~Taken(row.id)
    OBVIOUS
  <2>3. \A row, other \in new : row.id = other.id => row = other
    OBVIOUS
  <2>4. interests' = interests \cup new /\ UNCHANGED <<status, id, stream, events>>
    BY <1>14 DEF Import, submission
  <2> HIDE DEF new
  <2> QED
    BY <1>2, <1>6, <2>1, <2>2, <2>3, <2>4
<1>15. ASSUME Crash \/ UNCHANGED vars
       PROVE  UNCHANGED <<status, id, interests, stream, events>>
  BY <1>15 DEF Crash, vars, submission
<1>16. ASSUME UNCHANGED <<status, id, interests, stream, events>> PROVE UNCHANGED Ledger!vars
  BY <1>1, <1>6, <1>16
<1> QED
  BY <1>4, <1>7, <1>8, <1>9, <1>10, <1>11, <1>12, <1>13, <1>14, <1>15, <1>16
  DEF Next, JobStep

\* The pipeline with its awaits, refreshes, retries, imports and crashes does nothing
\* that its ledger does not: an interest is told once, to client and stream at the same
\* time, and logged only when it was told.
THEOREM LedgerImplemented == Spec => ImplementsLedger
<1>1. Init => Ledger!Init
  BY DEF Init, Ledger!Init
<1>2. Spec => [](SubmissionInv /\ QueueTypes /\ QueueInv) /\ []IdentityInv
  BY QueueInvariant, IdentityInvariant, PTL
<1>3. SubmissionInv /\ QueueTypes /\ QueueInv /\ IdentityInv /\ [Next]_vars
        => [Ledger!Next]_(Ledger!vars)
  BY LedgerStep
<1> QED
  BY <1>1, <1>2, <1>3, PTL DEF Spec, ImplementsLedger, Ledger!Spec

-----------------------------------------------------------------------------
(* How often an interest is logged.                                         *)
(*                                                                         *)
(* A job logs at most once between one failure or stall and the next. The   *)
(* events are counted by giving each of them such a run of a job as its     *)
(* own: an injection into the runs that the queue allows.                   *)

\* How many runs of a job may have logged its interest.
Used(job) == jobs[job].failures + jobs[job].stalls
               + (IF jobs[job].state \in {"logged", "complete"} THEN 1 ELSE 0)

\* What the queue's options leave of a job.
WithinOptions(j) ==
  /\ j.state # "failed" => j.failures < Attempts /\ j.stalls <= MaxStalls
  /\ j.failures + j.stalls <= Attempts + MaxStalls

\* The jobs of an interest are made one after the other.
Numbered(i) ==
  \E n \in 0..(MaxFaults + 1) :
    \A m \in 1..(MaxFaults + 1) : jobs[<<i, m>>].state # "none" <=> m <= n

JobsInv == /\ \A job \in Jobs : WithinOptions(jobs[job])
           /\ \A i \in Ids : Numbered(i)

Runs == Jobs \X (1..(Attempts + MaxStalls))

\* Each event belongs to a run of a job of its interest, and to no other's.
Logged(owner) ==
  /\ owner \in [DOMAIN events -> Runs]
  /\ \A k \in DOMAIN events : /\ owner[k][1][1] = events[k]
                              /\ jobs[owner[k][1]].state # "none"
                              /\ owner[k][2] <= Used(owner[k][1])
  /\ \A k, l \in DOMAIN events : owner[k] = owner[l] => k = l

RunsInv == \E owner : Logged(owner)

Job == [state : JobStates, failures : Nat, stalls : Nat]

\* The jobs an interest has are as many as their numbers, so that the next one is new.
LEMMA NewJobIsNew ==
  ASSUME QueueTypes, NEW i \in Ids, Numbered(i)
  PROVE  \E n \in 0..(MaxFaults + 1) :
           /\ NewJob(i) = <<i, n + 1>>
           /\ \A m \in 1..(MaxFaults + 1) : jobs[<<i, m>>].state # "none" <=> m <= n
<1>1. PICK n \in 0..(MaxFaults + 1) :
        \A m \in 1..(MaxFaults + 1) : jobs[<<i, m>>].state # "none" <=> m <= n
  BY DEF Numbered
<1> DEFINE Made == {job \in Jobs : job[1] = i /\ jobs[job].state # "none"}
           nth == [m \in 1..n |-> <<i, m>>]
<1>2. n \in Nat /\ MaxFaults \in Nat
  BY BoundsAssumption
<1>3. nth \in Bijection(1..n, Made)
  <2>1. \A m \in 1..n : <<i, m>> \in Made
    BY <1>1, <1>2 DEF Jobs
  <2>2. \A job \in Made : \E m \in 1..n : nth[m] = job
    <3>1. ASSUME NEW job \in Made PROVE \E m \in 1..n : nth[m] = job
      <4>1. PICK m \in 1..(MaxFaults + 1) : job = <<i, m>>
        BY DEF Jobs
      <4>2. m \in 1..n
        BY <1>1, <1>2, <4>1
      <4> QED
        BY <4>1, <4>2
    <3> QED
      BY <3>1
  <2>3. \A l, m \in 1..n : nth[l] = nth[m] => l = m
    OBVIOUS
  <2>4. nth \in [1..n -> Made]
    BY <2>1
  <2> HIDE DEF Made, nth
  <2> QED
    BY <2>2, <2>3, <2>4 DEF Bijection, Injection, Surjection, IsInjective
<1>4. IsFiniteSet(1..n) /\ Cardinality(1..n) = n
  BY <1>2, FS_Interval
<1>5. Cardinality(Made) = n
  <2> HIDE DEF Made, nth
  <2> QED
    BY <1>3, <1>4, FS_Bijection DEF ExistsBijection
<1>6. NewJob(i) = <<i, 1 + Cardinality(Made)>>
  BY DEF NewJob
<1>7. NewJob(i) = <<i, n + 1>>
  <2> HIDE DEF Made
  <2> QED
    BY <1>2, <1>5, <1>6
<1> QED
  BY <1>1, <1>7

\* A job that is moved only changes its state.
LEMMA MoveKeeps ==
  ASSUME QueueTypes, NEW job \in Jobs, NEW state \in JobStates, Move(job, state)
  PROVE  /\ jobs'[job] = [state |-> state, failures |-> jobs[job].failures,
                          stalls |-> jobs[job].stalls]
         /\ \A other \in Jobs : other # job => jobs'[other] = jobs[other]
<1>1. jobs[job] \in Job /\ job \in DOMAIN jobs
  BY DEF QueueTypes, Job
<1>2. jobs' = [jobs EXCEPT ![job] = [jobs[job] EXCEPT !.state = state]]
  BY DEF Move
<1>3. [jobs[job] EXCEPT !.state = state]
        = [state |-> state, failures |-> jobs[job].failures, stalls |-> jobs[job].stalls]
  BY <1>1 DEF Job
<1> QED
  BY <1>1, <1>2, <1>3 DEF QueueTypes

\* What happens to a job by itself in a step, and that it leaves its numbers alone:
\* it is made, it goes on, it fails, it stalls.
Made(j, k) == /\ j.state = "none" /\ k.state = "waiting"
              /\ k.failures = j.failures /\ k.stalls = j.stalls

GoesOn(j, k) == /\ <<j.state, k.state>> \in {<<"waiting", "active">>, <<"logged", "complete">>}
                /\ k.failures = j.failures /\ k.stalls = j.stalls

Logs(j, k) == /\ j.state = "active" /\ k.state = "logged"
              /\ k.failures = j.failures /\ k.stalls = j.stalls

Fails(j, k) == /\ j.state \in {"active", "logged"}
               /\ k.failures = j.failures + 1 /\ k.stalls = j.stalls
               /\ k.state = IF k.failures < Attempts THEN "waiting" ELSE "failed"

Stalls(j, k) == /\ j.state \in {"active", "logged"}
                /\ k.failures = j.failures /\ k.stalls = j.stalls + 1
                /\ k.state = IF j.stalls < MaxStalls THEN "waiting" ELSE "failed"

LEMMA JobWithinOptions ==
  ASSUME NEW j \in Job, NEW k \in Job, WithinOptions(j),
         k = j \/ Made(j, k) \/ GoesOn(j, k) \/ Logs(j, k) \/ Fails(j, k) \/ Stalls(j, k)
  PROVE  WithinOptions(k)
<1> USE BoundsAssumption DEF WithinOptions, Job
<1>1. CASE k = j \/ Made(j, k) \/ GoesOn(j, k) \/ Logs(j, k)
  BY <1>1 DEF Made, GoesOn, Logs
<1>2. CASE Fails(j, k)
  BY <1>2 DEF Fails
<1>3. CASE Stalls(j, k)
  BY <1>3 DEF Stalls
<1> QED
  BY <1>1, <1>2, <1>3

\* What a step of the specification does to a job.
Moves(j, k) == k = j \/ Made(j, k) \/ GoesOn(j, k) \/ Logs(j, k) \/ Fails(j, k) \/ Stalls(j, k)

\* An add makes at most one job, with the next number.
LEMMA AddMoves ==
  ASSUME QueueTypes, JobsInv, NEW i \in Ids, Move(NewJob(i), "waiting")
  PROVE  /\ \A job \in Jobs : Moves(jobs[job], jobs'[job])
         /\ \A other \in Ids : Numbered(other)'
<1>1. PICK n \in 0..(MaxFaults + 1) :
        /\ NewJob(i) = <<i, n + 1>>
        /\ \A m \in 1..(MaxFaults + 1) : jobs[<<i, m>>].state # "none" <=> m <= n
  BY NewJobIsNew DEF JobsInv
<1>2. CASE n = MaxFaults + 1
  <2>1. NewJob(i) \notin Jobs
    BY <1>1, <1>2, BoundsAssumption DEF Jobs
  <2>2. jobs' = jobs
    BY <2>1 DEF Move, QueueTypes
  <2> QED
    BY <2>2 DEF JobsInv, Numbered, Moves
<1>3. CASE n < MaxFaults + 1
  <2>1. n + 1 \in 1..(MaxFaults + 1) /\ NewJob(i) \in Jobs /\ jobs[NewJob(i)].state = "none"
    <3>1. n + 1 \in 1..(MaxFaults + 1) /\ ~(n + 1 <= n)
      BY <1>3, BoundsAssumption
    <3>2. jobs[<<i, n + 1>>].state = "none"
      BY <1>1, <3>1
    <3> QED
      BY <1>1, <3>1, <3>2 DEF Jobs
  <2>2. /\ jobs'[NewJob(i)] = [state |-> "waiting", failures |-> jobs[NewJob(i)].failures,
                               stalls |-> jobs[NewJob(i)].stalls]
        /\ \A other \in Jobs : other # NewJob(i) => jobs'[other] = jobs[other]
    BY <2>1, MoveKeeps DEF JobStates
  <2>3. \A job \in Jobs : Moves(jobs[job], jobs'[job])
    BY <2>1, <2>2 DEF Moves, Made
  <2>4. \A m \in 1..(MaxFaults + 1) : jobs'[<<i, m>>].state # "none" <=> m <= n + 1
    <3>1. ASSUME NEW m \in 1..(MaxFaults + 1)
          PROVE  jobs'[<<i, m>>].state # "none" <=> m <= n + 1
      <4>1. <<i, m>> \in Jobs
        BY DEF Jobs
      <4>2. CASE m = n + 1
        BY <1>1, <2>2, <4>2
      <4>3. CASE m # n + 1
        <5>1. <<i, m>> # NewJob(i)
          BY <1>1, <4>3
        <5>2. jobs'[<<i, m>>] = jobs[<<i, m>>]
          BY <2>2, <4>1, <5>1
        <5>3. m <= n + 1 <=> m <= n
          BY <4>3, BoundsAssumption
        <5> QED
          BY <1>1, <5>2, <5>3
      <4> QED
        BY <4>2, <4>3
    <3> QED
      BY <3>1
  <2>5. Numbered(i)'
    BY <1>3, <2>1, <2>4, BoundsAssumption DEF Numbered
  <2>6. ASSUME NEW other \in Ids, other # i PROVE Numbered(other)'
    <3>1. \A m \in 1..(MaxFaults + 1) : jobs'[<<other, m>>] = jobs[<<other, m>>]
      BY <1>1, <2>2, <2>6 DEF Jobs
    <3> QED
      BY <3>1 DEF JobsInv, Numbered
  <2> QED
    BY <2>3, <2>5, <2>6
<1> QED
  BY <1>2, <1>3, BoundsAssumption

\* The other steps make no job.
LEMMA NumberedStays ==
  ASSUME JobsInv, \A job \in Jobs : jobs'[job].state # "none" <=> jobs[job].state # "none"
  PROVE  \A i \in Ids : Numbered(i)'
<1>1. ASSUME NEW i \in Ids, NEW m \in 1..(MaxFaults + 1)
      PROVE  jobs'[<<i, m>>].state # "none" <=> jobs[<<i, m>>].state # "none"
  BY <1>1 DEF Jobs
<1> QED
  BY <1>1 DEF JobsInv, Numbered

\* Each step moves the jobs, and logs an interest only when its job does.
LEMMA JobMoves ==
  ASSUME QueueTypes, JobsInv, [Next]_vars
  PROVE  /\ \A job \in Jobs : Moves(jobs[job], jobs'[job])
         /\ \A i \in Ids : Numbered(i)'
         /\ \/ events' = events
            \/ \E job \in Jobs : Logs(jobs[job], jobs'[job]) /\ events' = Append(events, job[1])
<1>1. CASE UNCHANGED <<jobs, events>>
  BY <1>1, NumberedStays DEF Moves
<1>2. ASSUME NEW i \in Ids, AddArrives(i) \/ AddUnheard(i)
      PROVE  Move(NewJob(i), "waiting") /\ events' = events
  BY <1>2 DEF AddArrives, AddUnheard
<1>3. ASSUME NEW job \in Jobs, JobStep(job)
      PROVE  /\ \A other \in Jobs : Moves(jobs[other], jobs'[other])
             /\ \A i \in Ids : Numbered(i)'
             /\ \/ events' = events
                \/ Logs(jobs[job], jobs'[job]) /\ events' = Append(events, job[1])
  <2>1. PICK state \in JobStates :
          /\ Move(job, state)
          /\ <<jobs[job].state, state>> \in {<<"waiting", "active">>, <<"active", "logged">>,
                                            <<"logged", "complete">>}
          /\ \/ events' = events /\ state # "logged"
             \/ events' = Append(events, job[1]) /\ state = "logged"
    BY <1>3 DEF JobStep, Take, LogInterest, Complete, JobStates
  <2>2. /\ jobs'[job] = [state |-> state, failures |-> jobs[job].failures,
                         stalls |-> jobs[job].stalls]
        /\ \A other \in Jobs : other # job => jobs'[other] = jobs[other]
    BY <2>1, MoveKeeps
  <2>3. state = "logged" => Logs(jobs[job], jobs'[job])
    BY <2>1, <2>2 DEF Logs
  <2>4. state # "logged" => GoesOn(jobs[job], jobs'[job])
    BY <2>1, <2>2 DEF GoesOn
  <2>5. \A i \in Ids : Numbered(i)'
    BY <2>1, <2>2, NumberedStays
  <2> QED
    BY <2>1, <2>2, <2>3, <2>4, <2>5 DEF Moves
<1>4. ASSUME NEW job \in Jobs, JobFails(job)
      PROVE  /\ \A other \in Jobs : Moves(jobs[other], jobs'[other])
             /\ \A i \in Ids : Numbered(i)'
             /\ events' = events
  <2>1. jobs[job] \in Job /\ jobs \in [Jobs -> Job]
    BY DEF QueueTypes, Job
  <2> DEFINE to == IF jobs[job].failures + 1 < Attempts THEN "waiting" ELSE "failed"
  <2>2. jobs'[job] = [state |-> to, failures |-> jobs[job].failures + 1,
                      stalls |-> jobs[job].stalls]
    <3>1. jobs' = [jobs EXCEPT ![job] =
                     [[jobs[job] EXCEPT !.failures = @ + 1] EXCEPT !.state = to]]
      BY <1>4, <2>1 DEF JobFails
    <3>2. [[jobs[job] EXCEPT !.failures = @ + 1] EXCEPT !.state = to]
            = [state |-> to, failures |-> jobs[job].failures + 1, stalls |-> jobs[job].stalls]
      <4>1. ASSUME NEW j \in Job, NEW t
            PROVE  [[j EXCEPT !.failures = @ + 1] EXCEPT !.state = t]
                     = [state |-> t, failures |-> j.failures + 1, stalls |-> j.stalls]
        <5>1. [j EXCEPT !.failures = @ + 1]
                = [state |-> j.state, failures |-> j.failures + 1, stalls |-> j.stalls]
          BY DEF Job
        <5>2. [j EXCEPT !.failures = @ + 1] \in Job
          BY <5>1 DEF Job
        <5>3. \A new \in Job : [new EXCEPT !.state = t]
                = [state |-> t, failures |-> new.failures, stalls |-> new.stalls]
          BY DEF Job
        <5> QED
          BY <5>1, <5>2, <5>3
      <4> QED
        BY <2>1, <4>1
    <3> QED
      BY <2>1, <3>1, <3>2
  <2>3. \A other \in Jobs : other # job => jobs'[other] = jobs[other]
    BY <1>4, <2>1 DEF JobFails
  <2>4. Fails(jobs[job], jobs'[job])
    BY <1>4, <2>2 DEF Fails, JobFails
  <2>5. jobs[job].state # "none" /\ jobs'[job].state # "none"
    BY <2>4 DEF Fails
  <2> QED
    BY <1>4, <2>3, <2>4, <2>5, NumberedStays DEF Moves, JobFails
<1>5. ASSUME Crash
      PROVE  /\ \A job \in Jobs : Moves(jobs[job], jobs'[job])
             /\ \A i \in Ids : Numbered(i)'
             /\ events' = events
  <2>1. ASSUME NEW job \in Jobs PROVE Moves(jobs[job], jobs'[job])
                                      /\ (jobs'[job].state # "none" <=> jobs[job].state # "none")
    <3>1. jobs[job] \in Job /\ jobs'[job] = Stalled(jobs[job])
      BY <1>5 DEF QueueTypes, Job, Crash
    <3>2. ASSUME NEW j \in Job, j.state \in {"active", "logged"} PROVE Stalls(j, Stalled(j))
      BY <3>2 DEF Stalled, Job, Stalls
    <3>3. ASSUME NEW j \in Job, j.state \notin {"active", "logged"} PROVE Stalled(j) = j
      BY <3>3 DEF Stalled
    <3> QED
      BY <3>1, <3>2, <3>3 DEF Moves, Stalls
  <2> QED
    BY <1>5, <2>1, NumberedStays DEF Crash
<1> QED
  <2>1. ASSUME NEW r \in Requests,
               \/ Submit(r) \/ Insert(r) \/ InsertCollides(r) \/ BeginRefresh(r) \/ EndRefresh(r)
               \/ LateRefresh(r) \/ Finish(r) \/ InsertFails(r) \/ RefreshFails(r)
        PROVE  UNCHANGED <<jobs, events>>
    BY <2>1 DEF Submit, Insert, InsertCollides, BeginRefresh, EndRefresh, LateRefresh, Finish,
                InsertFails, RefreshFails
  <2>2. ASSUME NEW i \in Ids, AddFails(i) PROVE UNCHANGED <<jobs, events>>
    BY <2>2 DEF AddFails
  <2>3. ASSUME Import \/ UNCHANGED vars PROVE UNCHANGED <<jobs, events>>
    BY <2>3 DEF Import, vars
  <2> QED
    BY <1>1, <1>2, <1>3, <1>4, <1>5, <2>1, <2>2, <2>3, AddMoves DEF Next

LEMMA JobsNext == QueueTypes /\ JobsInv /\ [Next]_vars => JobsInv'
<1> SUFFICES ASSUME QueueTypes, JobsInv, [Next]_vars PROVE JobsInv'
  OBVIOUS
<1>1. ASSUME NEW job \in Jobs PROVE WithinOptions(jobs'[job])
  <2>1. jobs[job] \in Job /\ jobs'[job] \in Job
    BY TypesNext DEF QueueTypes, Job
  <2>2. Moves(jobs[job], jobs'[job]) /\ WithinOptions(jobs[job])
    BY JobMoves DEF JobsInv
  <2> QED
    BY <2>1, <2>2, JobWithinOptions DEF Moves
<1> QED
  BY <1>1, JobMoves DEF JobsInv

LEMMA JobsInit == Init => JobsInv
<1> SUFFICES ASSUME Init PROVE JobsInv
  OBVIOUS
<1> USE BoundsAssumption
<1>1. \A job \in Jobs : jobs[job] = [state |-> "none", failures |-> 0, stalls |-> 0]
  BY DEF Init
<1>2. \A job \in Jobs : WithinOptions(jobs[job])
  BY <1>1 DEF WithinOptions
<1>3. \A i \in Ids, m \in 1..(MaxFaults + 1) : jobs[<<i, m>>].state # "none" <=> m <= 0
  BY <1>1 DEF Jobs
<1> QED
  BY <1>2, <1>3 DEF JobsInv, Numbered

\* A job that moves stays made, and none of its runs is given back.
LEMMA UsedGrows ==
  ASSUME QueueTypes, QueueTypes', NEW job \in Jobs, Moves(jobs[job], jobs'[job])
  PROVE  /\ jobs[job].state # "none" => jobs'[job].state # "none"
         /\ Used(job) \in Nat /\ Used(job)' \in Nat /\ Used(job) <= Used(job)'
         /\ Logs(jobs[job], jobs'[job]) => Used(job)' = Used(job) + 1
<1>1. ASSUME NEW j \in Job, NEW k \in Job, Moves(j, k)
      PROVE  LET used(x) == x.failures + x.stalls
                              + (IF x.state \in {"logged", "complete"} THEN 1 ELSE 0)
             IN  /\ j.state # "none" => k.state # "none"
                 /\ used(j) \in Nat /\ used(k) \in Nat /\ used(j) <= used(k)
                 /\ Logs(j, k) => used(k) = used(j) + 1
  BY <1>1 DEF Moves, Made, GoesOn, Logs, Fails, Stalls, Job
<1>2. jobs[job] \in Job /\ jobs'[job] \in Job
  BY DEF QueueTypes, Job
<1> QED
  BY <1>1, <1>2 DEF Used

\* An event that is logged has a run of its own: the one its job has just used.
LEMMA RunsNext == QueueTypes /\ JobsInv /\ RunsInv /\ [Next]_vars => RunsInv'
<1> SUFFICES ASSUME QueueTypes, JobsInv, RunsInv, [Next]_vars PROVE RunsInv'
  OBVIOUS
<1>1. QueueTypes' /\ JobsInv'
  BY TypesNext, JobsNext
<1>2. ASSUME NEW job \in Jobs
      PROVE  /\ jobs[job].state # "none" => jobs'[job].state # "none"
             /\ Used(job) \in Nat /\ Used(job)' \in Nat /\ Used(job) <= Used(job)'
             /\ Logs(jobs[job], jobs'[job]) => Used(job)' = Used(job) + 1
  BY <1>1, JobMoves, UsedGrows
<1>3. PICK owner : Logged(owner)
  BY DEF RunsInv
<1>4. ASSUME NEW k \in DOMAIN events
      PROVE  /\ owner[k] \in Runs /\ owner[k][1] \in Jobs /\ owner[k][2] \in Nat
             /\ owner[k][1][1] = events[k] /\ jobs'[owner[k][1]].state # "none"
             /\ owner[k][2] <= Used(owner[k][1]) /\ owner[k][2] <= Used(owner[k][1])'
  <2>1. /\ owner[k] \in Runs /\ owner[k][1][1] = events[k]
        /\ jobs[owner[k][1]].state # "none" /\ owner[k][2] <= Used(owner[k][1])
    BY <1>3 DEF Logged
  <2>2. owner[k][1] \in Jobs /\ owner[k][2] \in Nat
    BY <2>1 DEF Runs
  <2> QED
    BY <1>2, <2>1, <2>2
<1>5. CASE events' = events
  <2>1. Logged(owner)'
    BY <1>3, <1>4, <1>5 DEF Logged, Runs
  <2> QED
    BY <2>1 DEF RunsInv
<1>6. ASSUME NEW job \in Jobs, Logs(jobs[job], jobs'[job]), events' = Append(events, job[1])
      PROVE  RunsInv'
  <2> DEFINE new == [k \in DOMAIN events' |->
                       IF k \in DOMAIN events THEN owner[k] ELSE <<job, Used(job)'>>]
  <2>1. /\ DOMAIN events' = DOMAIN events \cup {Len(events) + 1}
        /\ Len(events) + 1 \notin DOMAIN events
        /\ \A k \in DOMAIN events : events'[k] = events[k]
        /\ events'[Len(events) + 1] = job[1]
    BY <1>6 DEF QueueTypes
  <2>2. <<job, Used(job)'>> \in Runs
    <3>1. Used(job)' \in 1..(Attempts + MaxStalls)
      <4>1. ASSUME NEW j \in Job, j.state = "logged", WithinOptions(j)
            PROVE  j.failures + j.stalls + 1 \in 1..(Attempts + MaxStalls)
        BY <4>1, BoundsAssumption DEF Job, WithinOptions
      <4>2. jobs'[job] \in Job /\ jobs'[job].state = "logged" /\ WithinOptions(jobs'[job])
        BY <1>1, <1>6 DEF QueueTypes, Job, JobsInv, Logs
      <4> QED
        BY <4>1, <4>2 DEF Used
    <3> QED
      BY <3>1 DEF Runs
  <2>3. \A k \in DOMAIN events : new[k] = owner[k] /\ k \in DOMAIN events'
    BY <2>1
  <2>4. new[Len(events) + 1] = <<job, Used(job)'>>
    BY <2>1
  <2>5. new \in [DOMAIN events' -> Runs]
    BY <1>4, <2>1, <2>2, <2>3, <2>4
  <2> HIDE DEF new
  <2>6. ASSUME NEW k \in DOMAIN events PROVE owner[k] # <<job, Used(job)'>>
    BY <1>2, <1>4, <1>6
  <2>7. jobs'[job].state # "none" /\ Used(job)' <= Used(job)'
    BY <1>2, <1>6 DEF Logs
  <2>n. PICK mine : mine = new
    OBVIOUS
  <2>8. ASSUME NEW k \in DOMAIN events'
        PROVE  /\ mine[k][1][1] = events'[k] /\ jobs'[mine[k][1]].state # "none"
               /\ mine[k][2] <= Used(mine[k][1])'
    <3>1. CASE k \in DOMAIN events
      BY <1>4, <2>1, <2>3, <2>n, <3>1
    <3>2. CASE k = Len(events) + 1
      BY <2>1, <2>4, <2>7, <2>n, <3>2
    <3> QED
      BY <2>1, <3>1, <3>2
  <2>9. ASSUME NEW k \in DOMAIN events', NEW l \in DOMAIN events', mine[k] = mine[l] PROVE k = l
    <3>1. CASE k \in DOMAIN events /\ l \in DOMAIN events
      BY <1>3, <2>3, <2>9, <2>n, <3>1 DEF Logged
    <3> QED
      BY <2>1, <2>3, <2>4, <2>6, <2>9, <2>n, <3>1
  <2>10. Logged(mine)'
    BY <2>5, <2>8, <2>9, <2>n DEF Logged, Runs
  <2> QED
    BY <2>10 DEF RunsInv
<1> QED
  BY <1>5, <1>6, JobMoves

\* An interest is logged no more often than its jobs may fail or stall, however often its
\* add was sent again and whenever the process was killed.
THEOREM EventsAreBoundedCorrect == Spec => []EventsAreBounded
<1>1. Init => SubmissionInv /\ QueueTypes /\ JobsInv /\ RunsInv
  <2> SUFFICES ASSUME Init PROVE QueueTypes /\ JobsInv /\ RunsInv
    BY SubmissionInit
  <2> USE BoundsAssumption
  <2>1. QueueTypes
    BY DEF Init, QueueTypes, JobStates
  <2>2. JobsInv
    BY JobsInit
  <2>3. RunsInv
    <3>1. DOMAIN events = {}
      BY DEF Init
    <3>2. Logged([k \in {} |-> k])
      BY <3>1 DEF Logged
    <3> QED
      BY <3>2 DEF RunsInv
  <2> QED
    BY <2>1, <2>2, <2>3
<1>2. QueueTypes /\ JobsInv /\ RunsInv /\ [Next]_vars => (QueueTypes /\ JobsInv /\ RunsInv)'
  BY TypesNext, JobsNext, RunsNext
<1>3. QueueTypes /\ JobsInv /\ RunsInv => EventsAreBounded
  <2> SUFFICES ASSUME QueueTypes, RunsInv, JobsInv, NEW i \in Ids
               PROVE  Cardinality({k \in DOMAIN events : events[k] = i})
                        <= (Attempts + MaxStalls)
                             * Cardinality({job \in Jobs : job[1] = i /\ jobs[job].state # "none"})
    BY DEF EventsAreBounded
  <2>1. PICK owner : Logged(owner)
    BY DEF RunsInv
  <2> DEFINE logged == {k \in DOMAIN events : events[k] = i}
             made == {job \in Jobs : job[1] = i /\ jobs[job].state # "none"}
             own == [k \in logged |-> owner[k]]
             options == 1..(Attempts + MaxStalls)
  <2>2. IsFiniteSet(made)
    <3>1. made \subseteq {i} \X (1..(MaxFaults + 1))
      BY DEF Jobs
    <3>2. IsFiniteSet({i} \X (1..(MaxFaults + 1)))
      <4>1. IsFiniteSet({i})
        BY FS_Singleton
      <4>2. IsFiniteSet(1..(MaxFaults + 1))
        BY FS_Interval, BoundsAssumption
      <4> QED
        BY <4>1, <4>2, FS_Product
    <3> HIDE DEF made
    <3> QED
      BY <3>1, <3>2, FS_Subset
  <2>3. IsFiniteSet(options) /\ Cardinality(options) = Attempts + MaxStalls
    BY FS_Interval, BoundsAssumption
  <2>4. own \in Injection(logged, made \X options)
    <3>1. ASSUME NEW k \in logged PROVE owner[k] \in made \X options
      BY <2>1 DEF Logged, Runs
    <3>2. \A k, l \in logged : own[k] = own[l] => k = l
      BY <2>1 DEF Logged
    <3>3. own \in [logged -> made \X options]
      BY <3>1
    <3> HIDE DEF own, logged, made, options
    <3> QED
      BY <3>2, <3>3 DEF Injection, IsInjective
  <2> HIDE DEF own, logged, made, options
  <2>5. IsFiniteSet(made \X options)
        /\ Cardinality(made \X options) = Cardinality(made) * Cardinality(options)
    BY <2>2, <2>3, FS_Product
  <2>6. Cardinality(logged) <= Cardinality(made \X options)
    BY <2>4, <2>5, FS_Injection
  <2>7. Cardinality(made) \in Nat /\ Cardinality(made) * (Attempts + MaxStalls)
                                      = (Attempts + MaxStalls) * Cardinality(made)
    <3>1. Cardinality(made) \in Nat
      BY <2>2, FS_CardinalityType
    <3>2. \A m, n \in Nat : m * n = n * m
      OBVIOUS
    <3> QED
      BY <3>1, <3>2, BoundsAssumption
  <2> QED
    BY <2>3, <2>5, <2>6, <2>7 DEF logged, made
<1> QED
  BY <1>1, <1>2, <1>3, PTL DEF Spec

-----------------------------------------------------------------------------
(* Jobs holds every job there can be: each but the first of an interest is  *)
(* the work of a fault.                                                      *)

FewJobs ==
  /\ faults \in 0..MaxFaults
  /\ adding \subseteq Ids
  /\ \A i \in Ids, m \in 1..(MaxFaults + 1) :
       jobs[<<i, m>>].state # "none" => m <= faults + 1 /\ (i \in adding => m <= faults)

LEMMA FewJobsStay ==
  ASSUME FewJobs, adding' \subseteq adding, faults' = faults \/ faults' = faults + 1,
         faults' <= MaxFaults,
         \A job \in Jobs : jobs'[job].state # "none" => jobs[job].state # "none"
  PROVE  FewJobs'
<1>1. \A i \in Ids, m \in 1..(MaxFaults + 1) :
        jobs'[<<i, m>>].state # "none" => jobs[<<i, m>>].state # "none"
  BY DEF Jobs
<1> QED
  BY <1>1, BoundsAssumption DEF FewJobs

\* The next job of an interest whose add is on its way has a number within the bound.
LEMMA AddIsWithin ==
  ASSUME QueueTypes, JobsInv, FewJobs, NEW i \in adding
  PROVE  \E n \in 0..faults :
           /\ i \in Ids /\ NewJob(i) = <<i, n + 1>> /\ NewJob(i) \in Jobs
<1>1. i \in Ids /\ Numbered(i)
  BY DEF FewJobs, JobsInv
<1>2. PICK n \in 0..(MaxFaults + 1) :
        /\ NewJob(i) = <<i, n + 1>>
        /\ \A m \in 1..(MaxFaults + 1) : jobs[<<i, m>>].state # "none" <=> m <= n
  BY <1>1, NewJobIsNew
<1>3. n \in 0..faults
  <2>1. CASE n = 0
    BY <2>1 DEF FewJobs
  <2>2. CASE n # 0
    <3>1. n \in 1..(MaxFaults + 1) /\ n <= n
      BY <2>2, BoundsAssumption
    <3>2. n <= faults
      BY <1>1, <1>2, <3>1 DEF FewJobs
    <3> QED
      BY <3>1, <3>2 DEF FewJobs
  <2> QED
    BY <2>1, <2>2
<1>4. n + 1 \in 1..(MaxFaults + 1)
  BY <1>3, BoundsAssumption DEF FewJobs
<1> QED
  BY <1>1, <1>2, <1>3, <1>4 DEF Jobs

LEMMA FewJobsNext ==
  ASSUME SubmissionInv, QueueTypes, QueueInv, IdentityInv, JobsInv, FewJobs, [Next]_vars
  PROVE  FewJobs'
<1>0. BoundsAssumption /\ faults \in 0..MaxFaults
  BY BoundsAssumption DEF FewJobs
<1>1. ASSUME UNCHANGED <<adding, jobs>>, faults' = faults \/ (faults < MaxFaults /\ faults' = faults + 1)
      PROVE  FewJobs'
  BY <1>0, <1>1, FewJobsStay, BoundsAssumption
<1>2. ASSUME NEW r \in Requests, Finish(r) PROVE FewJobs'
  <2>1. /\ pc[r] = "finish" /\ adding' = adding \cup {id[r]} /\ UNCHANGED <<jobs, faults>>
    BY <1>2 DEF Finish
  <2>2. id[r] \in Ids
    <3>1. Cardinality(Past) <= Cardinality(Requests) /\ Cardinality(Requests) \in Nat
          /\ Cardinality(Past) \in Nat
      BY RequestsAssumption, FS_Subset, FS_CardinalityType DEF Past
    <3>2. id[r] \in Nat \ {0} /\ id[r] < nextId
      BY <2>1 DEF IdentityInv, QueueTypes
    <3> QED
      BY <3>1, <3>2 DEF IdentityInv, Ids
  <2>3. id[r] \notin Answers
    BY <2>1 DEF Answers, IdentityInv, SubmissionInv, Handled
  <2>4. ASSUME NEW m \in 1..(MaxFaults + 1) PROVE jobs[<<id[r], m>>].state = "none"
    <3>1. <<id[r], m>> \in Jobs
      BY <2>2 DEF Jobs
    <3> QED
      BY <2>3, <3>1 DEF QueueInv, Told, Answers
  <2> QED
    BY <2>1, <2>2, <2>4 DEF FewJobs
<1>3. ASSUME NEW i \in Ids, AddArrives(i) \/ AddUnheard(i) PROVE FewJobs'
  <2>1. /\ i \in adding /\ Move(NewJob(i), "waiting")
        /\ \/ adding' = adding \ {i} /\ faults' = faults
           \/ adding' = adding /\ faults < MaxFaults /\ faults' = faults + 1
    BY <1>3 DEF AddArrives, AddUnheard
  <2>2. PICK n \in 0..faults : NewJob(i) = <<i, n + 1>>
    BY <2>1, AddIsWithin
  <2>3. ASSUME NEW other \in Ids, NEW m \in 1..(MaxFaults + 1), jobs'[<<other, m>>].state # "none"
        PROVE  jobs[<<other, m>>].state # "none" \/ (other = i /\ m = n + 1)
    <3>1. <<other, m>> \in Jobs
      BY DEF Jobs
    <3>2. CASE <<other, m>> # NewJob(i)
      BY <2>1, <2>3, <3>1, <3>2, MoveTypes DEF JobStates
    <3>3. CASE <<other, m>> = NewJob(i)
      BY <2>2, <3>3
    <3> QED
      BY <3>2, <3>3
  <2>4. faults' \in 0..MaxFaults /\ adding' \subseteq Ids
    BY <1>0, <2>1 DEF FewJobs
  <2>5. ASSUME NEW other \in Ids, NEW m \in 1..(MaxFaults + 1), jobs'[<<other, m>>].state # "none"
        PROVE  m <= faults' + 1 /\ (other \in adding' => m <= faults')
    <3>1. CASE jobs[<<other, m>>].state # "none"
      BY <1>0, <2>1, <3>1 DEF FewJobs
    <3>2. CASE other = i /\ m = n + 1
      BY <1>0, <2>1, <2>2, <3>2
    <3> QED
      BY <2>3, <2>5, <3>1, <3>2
  <2> QED
    BY <2>4, <2>5 DEF FewJobs
<1>4. ASSUME \A job \in Jobs : jobs'[job].state # "none" => jobs[job].state # "none",
             adding' \subseteq adding,
             faults' = faults \/ (faults < MaxFaults /\ faults' = faults + 1)
      PROVE  FewJobs'
  BY <1>0, <1>4, FewJobsStay, BoundsAssumption
<1>5. ASSUME NEW job \in Jobs, JobStep(job) PROVE FewJobs'
  <2>1. PICK state \in JobStates : Move(job, state)
    BY <1>5 DEF JobStep, Take, LogInterest, Complete, JobStates
  <2>2. jobs[job].state # "none" /\ UNCHANGED <<adding, faults>>
    BY <1>5 DEF JobStep, Take, LogInterest, Complete
  <2>3. \A other \in Jobs : jobs'[other].state # "none" => jobs[other].state # "none"
    BY <2>1, <2>2, MoveTypes
  <2> QED
    BY <1>4, <2>2, <2>3
<1>6. ASSUME NEW job \in Jobs, JobFails(job) PROVE FewJobs'
  <2>1. \A other \in Jobs : jobs'[other].state # "none" => jobs[other].state # "none"
    BY <1>6 DEF JobFails, QueueTypes
  <2> QED
    BY <1>4, <1>6, <2>1 DEF JobFails
<1>7. CASE Crash
  <2>1. \A job \in Jobs : jobs'[job].state # "none" => jobs[job].state # "none"
    BY <1>7 DEF Crash, Stalled
  <2> QED
    BY <1>4, <1>7, <2>1 DEF Crash
<1>8. ASSUME NEW i \in Ids, AddFails(i) PROVE FewJobs'
  BY <1>4, <1>8 DEF AddFails
<1>9. ASSUME NEW r \in Requests,
             \/ Submit(r) \/ Insert(r) \/ InsertCollides(r) \/ BeginRefresh(r) \/ EndRefresh(r)
             \/ LateRefresh(r) \/ InsertFails(r) \/ RefreshFails(r)
      PROVE  FewJobs'
  BY <1>1, <1>9 DEF Submit, Insert, InsertCollides, BeginRefresh, EndRefresh, LateRefresh,
                    InsertFails, RefreshFails
<1>10. ASSUME Import \/ UNCHANGED vars PROVE FewJobs'
  BY <1>1, <1>10 DEF Import, vars
<1> QED
  BY <1>2, <1>3, <1>5, <1>6, <1>7, <1>8, <1>9, <1>10 DEF Next

LEMMA JobsInvariant == Spec => [](JobsInv /\ FewJobs)
<1>1. Init => JobsInv /\ FewJobs
  <2> SUFFICES ASSUME Init PROVE JobsInv /\ FewJobs
    OBVIOUS
  <2>1. JobsInv
    BY JobsInit
  <2>2. \A i \in Ids, m \in 1..(MaxFaults + 1) : jobs[<<i, m>>].state = "none"
    BY DEF Init, Jobs
  <2> QED
    BY <2>1, <2>2, BoundsAssumption DEF Init, FewJobs
<1>2. SubmissionInv /\ QueueTypes /\ QueueInv /\ IdentityInv /\ JobsInv /\ FewJobs /\ [Next]_vars
        => (JobsInv /\ FewJobs)'
  BY JobsNext, FewJobsNext
<1> QED
  BY <1>1, <1>2, QueueInvariant, IdentityInvariant, PTL DEF Spec

\* Every add, also one that is sent again, finds a job that was not made yet: the bound on
\* Jobs takes nothing away from what the queue may do.
THEOREM AddsFindJobs ==
  Spec => [](\A i \in adding : NewJob(i) \in Jobs /\ jobs[NewJob(i)].state = "none")
<1>1. ASSUME QueueTypes, JobsInv, FewJobs, NEW i \in adding
      PROVE  NewJob(i) \in Jobs /\ jobs[NewJob(i)].state = "none"
  <2>1. i \in Ids /\ NewJob(i) \in Jobs /\ Numbered(i)
    BY <1>1, AddIsWithin DEF JobsInv
  <2>2. PICK n \in 0..(MaxFaults + 1) :
          /\ NewJob(i) = <<i, n + 1>>
          /\ \A m \in 1..(MaxFaults + 1) : jobs[<<i, m>>].state # "none" <=> m <= n
    BY <1>1, <2>1, NewJobIsNew
  <2>3. n + 1 \in 1..(MaxFaults + 1) /\ ~(n + 1 <= n)
    BY <2>1, <2>2, BoundsAssumption DEF Jobs
  <2> QED
    BY <2>1, <2>2, <2>3
<1>2. QueueTypes /\ JobsInv /\ FewJobs
        => \A i \in adding : NewJob(i) \in Jobs /\ jobs[NewJob(i)].state = "none"
  BY <1>1
<1> QED
  BY <1>2, JobsInvariant, QueueInvariant, PTL
-----------------------------------------------------------------------------
(* Nothing is forgotten without a reason: what AnsweredIsLogged says of the *)
(* states, without the fairness that brings it about.                       *)

InEvents(i) == \E k \in DOMAIN events : events[k] = i

\* An interest that is on its way to the queue, was lost on it, or has a job.
Kept(i) ==
  \/ i \in adding \cup lost
  \/ \E job \in Jobs : job[1] = i /\ jobs[job].state # "none"

KeptInv ==
  /\ \A i \in Answers : Kept(i)
  /\ \A job \in Jobs : jobs[job].state \in {"logged", "complete"} => InEvents(job[1])

\* Answers are added by Finish alone.
LEMMA AnswersStep ==
  ASSUME SubmissionInv, QueueTypes, QueueInv, IdentityInv, [Next]_vars,
         NEW i \in Answers', i \notin Answers
  PROVE  i \in adding'
<1>1. [Ledger!Next]_(Ledger!vars)
  BY LedgerStep
<1>2. PICK row \in interests : /\ Answers' = Answers \cup {row.id}
                               /\ stream' = Append(stream, row.id)
  <2>1. Answers' # Answers
    OBVIOUS
  <2>2. PICK row \in interests : Ledger!Tell(row.id)
    BY <1>1, <2>1
    DEF Ledger!Next, Ledger!vars, Ledger!Store, Ledger!Log, Answers
  <2> QED
    BY <2>2 DEF Ledger!Tell, Answers
<1>3. i = row.id
  BY <1>2
<1>4. stream' # stream
  <2>1. stream \in Seq(Nat)
    BY DEF QueueTypes
  <2>2. Len(Append(stream, row.id)) = Len(stream) + 1 /\ Len(stream) \in Nat
    <3>1. ASSUME NEW s \in Seq(Nat), NEW x PROVE Len(Append(s, x)) = Len(s) + 1 /\ Len(s) \in Nat
      OBVIOUS
    <3> QED
      BY <2>1, <3>1
  <2> QED
    BY <1>2, <2>2
<1>5. PICK r \in Requests : Finish(r)
  BY <1>4
  DEF Next, Submit, Insert, InsertCollides, BeginRefresh, EndRefresh, LateRefresh, InsertFails,
      RefreshFails, AddArrives, AddFails, AddUnheard, JobStep, Take, LogInterest, Complete,
      JobFails, Import, Crash, vars
<1>6. stream' = Append(stream, id[r]) /\ id[r] \in adding'
  BY <1>5 DEF Finish
<1>7. id[r] = row.id
  <2>1. ASSUME NEW s \in Seq(Nat), NEW x, NEW y, Append(s, x) = Append(s, y) PROVE x = y
    <3>1. Append(s, x)[Len(s) + 1] = x /\ Append(s, y)[Len(s) + 1] = y
      OBVIOUS
    <3> QED
      BY <2>1, <3>1
  <2> QED
    BY <1>2, <1>6, <2>1 DEF QueueTypes
<1> QED
  BY <1>3, <1>6, <1>7

LEMMA KeptStays ==
  ASSUME QueueTypes, JobsInv, FewJobs, [Next]_vars, NEW i, Kept(i)
  PROVE  Kept(i)'
<1>1. \A job \in Jobs : jobs[job].state # "none" => jobs'[job].state # "none"
  BY JobMoves DEF Moves, Made, GoesOn, Logs, Fails, Stalls
<1>2. ASSUME adding \cup lost \subseteq adding' \cup lost' PROVE Kept(i)'
  BY <1>1, <1>2 DEF Kept
<1>3. ASSUME NEW x \in Ids, AddArrives(x) PROVE Kept(i)'
  <2>1. /\ x \in adding /\ adding' = adding \ {x} /\ lost' = lost
        /\ Move(NewJob(x), "waiting")
    BY <1>3 DEF AddArrives
  <2>2. NewJob(x) \in Jobs /\ NewJob(x)[1] = x
    BY <2>1, AddIsWithin DEF NewJob
  <2>3. PICK new \in Jobs : new = NewJob(x)
    BY <2>2
  <2>4. jobs'[new].state = "waiting" /\ new[1] = x
    <3>1. Move(new, "waiting")
      BY <2>1, <2>3
    <3>2. jobs'[new] = [state |-> "waiting", failures |-> jobs[new].failures,
                        stalls |-> jobs[new].stalls]
      BY <3>1, MoveKeeps DEF JobStates
    <3> QED
      BY <2>2, <2>3, <3>2
  <2> QED
    BY <1>1, <2>1, <2>4 DEF Kept
<1>4. ASSUME NEW x \in Ids, AddFails(x) \/ AddUnheard(x)
      PROVE  adding \cup lost \subseteq adding' \cup lost'
  BY <1>4 DEF AddFails, AddUnheard
<1>5. ASSUME NEW r \in Requests,
             \/ Submit(r) \/ Insert(r) \/ InsertCollides(r) \/ BeginRefresh(r) \/ EndRefresh(r)
             \/ LateRefresh(r) \/ Finish(r) \/ InsertFails(r) \/ RefreshFails(r)
      PROVE  adding \cup lost \subseteq adding' \cup lost'
  BY <1>5 DEF Submit, Insert, InsertCollides, BeginRefresh, EndRefresh, LateRefresh, Finish,
              InsertFails, RefreshFails
<1>6. ASSUME NEW job \in Jobs, JobStep(job) \/ JobFails(job)
      PROVE  adding \cup lost \subseteq adding' \cup lost'
  BY <1>6 DEF JobStep, Take, LogInterest, Complete, JobFails
<1>7. ASSUME Import \/ Crash \/ UNCHANGED vars PROVE adding \cup lost \subseteq adding' \cup lost'
  BY <1>7 DEF Import, Crash, vars
<1> QED
  BY <1>2, <1>3, <1>4, <1>5, <1>6, <1>7 DEF Next

\* A job has logged before it is done.
LEMMA LoggedNext ==
  ASSUME QueueTypes, JobsInv, [Next]_vars,
         \A job \in Jobs : jobs[job].state \in {"logged", "complete"} => InEvents(job[1])
  PROVE  \A job \in Jobs : jobs'[job].state \in {"logged", "complete"} => InEvents(job[1])'
<1> DEFINE Done(job) == jobs[job].state \in {"logged", "complete"}
<1>1. ASSUME NEW i, InEvents(i) PROVE InEvents(i)'
  <2>1. events' = events \/ \E x \in Ids : events' = Append(events, x)
    <3>1. \A job \in Jobs : job[1] \in Ids
      BY DEF Jobs
    <3> QED
      BY <3>1, JobMoves
  <2>2. PICK k \in DOMAIN events : events[k] = i
    BY <1>1 DEF InEvents
  <2>3. k \in DOMAIN events' /\ events'[k] = events[k]
    BY <2>1 DEF QueueTypes
  <2> QED
    BY <2>2, <2>3 DEF InEvents
<1>2. ASSUME \A job \in Jobs : Done(job)' => Done(job)
      PROVE  \A job \in Jobs : Done(job)' => InEvents(job[1])'
  BY <1>1, <1>2
<1>3. ASSUME NEW job \in Jobs, LogInterest(job)
      PROVE  \A other \in Jobs : Done(other)' => InEvents(other[1])'
  <2>1. Move(job, "logged") /\ events' = Append(events, job[1])
    BY <1>3 DEF LogInterest
  <2>2. \A other \in Jobs : other # job => jobs'[other] = jobs[other]
    BY <2>1, MoveTypes DEF JobStates
  <2>3. InEvents(job[1])'
    <3>1. ASSUME NEW s \in Seq(Ids), NEW x
          PROVE  Len(s) + 1 \in DOMAIN Append(s, x) /\ Append(s, x)[Len(s) + 1] = x
      OBVIOUS
    <3>2. Len(events) + 1 \in DOMAIN events' /\ events'[Len(events) + 1] = job[1]
      BY <2>1, <3>1 DEF QueueTypes
    <3> QED
      BY <3>2 DEF InEvents
  <2> QED
    BY <1>1, <2>2, <2>3
<1>4. ASSUME NEW job \in Jobs, Take(job) \/ Complete(job)
      PROVE  \A other \in Jobs : Done(other)' => Done(other)
  <2>1. PICK state \in {"active", "complete"} :
          Move(job, state) /\ (state = "complete" => jobs[job].state = "logged")
    BY <1>4 DEF Take, Complete
  <2>2. /\ jobs'[job] = [state |-> state, failures |-> jobs[job].failures,
                         stalls |-> jobs[job].stalls]
        /\ \A other \in Jobs : other # job => jobs'[other] = jobs[other]
    <3>1. state \in JobStates
      BY DEF JobStates
    <3> QED
      BY <2>1, <3>1, MoveKeeps
  <2> QED
    BY <2>1, <2>2
<1>5. ASSUME NEW job \in Jobs, JobFails(job) PROVE \A other \in Jobs : Done(other)' => Done(other)
  BY <1>5 DEF JobFails, QueueTypes
<1>6. CASE Crash
  <2>1. ASSUME NEW j \in Job, j.state \notin {"logged", "complete"}
        PROVE  Stalled(j).state \notin {"logged", "complete"}
    BY <2>1 DEF Stalled, Job
  <2>2. ASSUME NEW other \in Jobs, Done(other)' PROVE Done(other)
    <3>1. jobs[other] \in Job /\ jobs'[other] = Stalled(jobs[other])
      BY <1>6 DEF Crash, QueueTypes, Job
    <3> QED
      BY <2>1, <2>2, <3>1
  <2> QED
    BY <1>2, <2>2
<1>7. ASSUME NEW i \in Ids, AddArrives(i) \/ AddUnheard(i)
      PROVE  \A other \in Jobs : Done(other)' => Done(other)
  <2>1. Move(NewJob(i), "waiting")
    BY <1>7 DEF AddArrives, AddUnheard
  <2>2. \A other \in Jobs : jobs'[other] = jobs[other] \/ jobs'[other].state = "waiting"
    <3>1. CASE NewJob(i) \in Jobs
      <4>1. PICK new \in Jobs : new = NewJob(i)
        BY <3>1
      <4>2. Move(new, "waiting")
        BY <2>1, <4>1
      <4>3. /\ jobs'[new] = [state |-> "waiting", failures |-> jobs[new].failures,
                             stalls |-> jobs[new].stalls]
            /\ \A other \in Jobs : other # new => jobs'[other] = jobs[other]
        BY <4>2, MoveKeeps DEF JobStates
      <4> QED
        BY <4>3
    <3>2. CASE NewJob(i) \notin Jobs
      BY <2>1, <3>2, MoveTypes DEF JobStates
    <3> QED
      BY <3>1, <3>2
  <2> QED
    BY <2>2
<1>8. ASSUME UNCHANGED jobs PROVE \A other \in Jobs : Done(other)' => Done(other)
  BY <1>8
<1>9. ASSUME NEW r \in Requests,
             \/ Submit(r) \/ Insert(r) \/ InsertCollides(r) \/ BeginRefresh(r) \/ EndRefresh(r)
             \/ LateRefresh(r) \/ Finish(r) \/ InsertFails(r) \/ RefreshFails(r)
      PROVE  UNCHANGED jobs
  BY <1>9 DEF Submit, Insert, InsertCollides, BeginRefresh, EndRefresh, LateRefresh, Finish,
              InsertFails, RefreshFails
<1>10. ASSUME NEW i \in Ids, AddFails(i) PROVE UNCHANGED jobs
  BY <1>10 DEF AddFails
<1>11. ASSUME Import \/ UNCHANGED vars PROVE UNCHANGED jobs
  BY <1>11 DEF Import, vars
<1> QED
  <2> DEFINE Goal == \A job \in Jobs : Done(job)' => InEvents(job[1])'
  <2>1. ASSUME \A job \in Jobs : Done(job)' => Done(job) PROVE Goal
    BY <1>2, <2>1
  <2>2. ASSUME NEW job \in Jobs, JobStep(job) \/ JobFails(job) PROVE Goal
    BY <1>3, <1>4, <1>5, <2>1, <2>2 DEF JobStep
  <2>3. ASSUME UNCHANGED jobs PROVE Goal
    BY <1>8, <2>1, <2>3
  <2>4. ASSUME NEW i \in Ids, AddArrives(i) \/ AddUnheard(i) PROVE Goal
    BY <1>7, <2>1, <2>4
  <2>5. Crash => Goal
    BY <1>6
  <2> HIDE DEF Goal
  <2>6. Goal
    BY <1>9, <1>10, <1>11, <2>2, <2>3, <2>4, <2>5 DEF Next
  <2> QED
    BY <2>6 DEF Goal

\* An answered interest that has no event yet is on its way to the queue or still in it,
\* was refused by Redis or died with the process, or has a job that was given up. So once
\* the queue rests, what is missing from interest_events can be named.
THEOREM SilenceHasAReason ==
  Spec => [](\A r \in Requests : status[r] = 201 =>
               \/ InEvents(id[r])
               \/ id[r] \in adding \cup lost
               \/ \E job \in Jobs : /\ job[1] = id[r]
                                    /\ jobs[job].state \in {"waiting", "active", "failed"})
<1>1. Init => KeptInv
  BY DEF Init, KeptInv, Answers
<1>2. SubmissionInv /\ QueueTypes /\ QueueInv /\ IdentityInv /\ JobsInv /\ FewJobs /\ KeptInv
      /\ [Next]_vars => KeptInv'
  <2> SUFFICES ASSUME SubmissionInv, QueueTypes, QueueInv, IdentityInv, JobsInv, FewJobs, KeptInv,
                      [Next]_vars
               PROVE  KeptInv'
    OBVIOUS
  <2>1. ASSUME NEW i \in Answers' PROVE Kept(i)'
    <3>1. CASE i \in Answers
      BY <3>1, KeptStays DEF KeptInv
    <3>2. CASE i \notin Answers
      BY <3>2, AnswersStep DEF Kept
    <3> QED
      BY <3>1, <3>2
  <2> QED
    BY <2>1, LoggedNext DEF KeptInv
<1>3. QueueTypes /\ KeptInv =>
        \A r \in Requests : status[r] = 201 =>
          \/ InEvents(id[r])
          \/ id[r] \in adding \cup lost
          \/ \E job \in Jobs : /\ job[1] = id[r]
                               /\ jobs[job].state \in {"waiting", "active", "failed"}
  <2> SUFFICES ASSUME QueueTypes, KeptInv, NEW r \in Requests, status[r] = 201,
                      id[r] \notin adding \cup lost, ~InEvents(id[r])
               PROVE  \E job \in Jobs : /\ job[1] = id[r]
                                        /\ jobs[job].state \in {"waiting", "active", "failed"}
    OBVIOUS
  <2>1. PICK job \in Jobs : job[1] = id[r] /\ jobs[job].state # "none"
    BY DEF KeptInv, Kept, Answers
  <2>2. jobs[job].state \notin {"logged", "complete"} /\ jobs[job].state \in JobStates
    BY <2>1 DEF KeptInv, QueueTypes
  <2> QED
    BY <2>1, <2>2 DEF JobStates
<1> QED
  BY <1>1, <1>2, <1>3, JobsInvariant, QueueInvariant, IdentityInvariant, PTL DEF Spec
=============================================================================
