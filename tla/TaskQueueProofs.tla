--------------------------- MODULE TaskQueueProofs ---------------------------
(***************************************************************************)
(* What holds of the ledger TaskQueue for every set of processes and       *)
(* tasks.  Its claims are safe in two situations: one worker on the host,  *)
(* or no claim that ever looks abandoned.                                  *)
(*                                                                         *)
(* Ownership, finality and cancels are not stated here: of the ledger they *)
(* are lemmas, on single steps, from which TaskFilesProofs derives what    *)
(* the files give.                                                         *)
(***************************************************************************)
EXTENDS TaskQueue, TLAPS

OneWorker == \E w \in Procs : Workers \subseteq {w}

NoOrphans == MayCrash = {} /\ ~DiskFaults /\ ~SlowJobs

\* A process without a worker coroutine never has one.
WorkersOnly == \A p \in Procs : p \notin Workers => worker[p] = "off"

\* A runnable task has no owner, so what a worker has listed as claimable is
\* not its own until it claims it.
RunnableUnowned ==
    /\ \A t \in Tasks : task[t].status \in Runnable \cup {"absent"} =>
                           task[t].owner = NoProc
    /\ \A p \in Procs : worker[p] = "claiming" =>
                           \A t \in todo[p] : task[t].owner # p

\* Every claim is executed by its owner, is young, and so is never listed.
ClaimsAreLive ==
    /\ \A t \in Tasks : task[t].status = "claimed" =>
           /\ ~task[t].old
           /\ task[t].owner \in Procs
           /\ job[task[t].owner] = t
    /\ \A p \in Procs : worker[p] = "rescuing" => todo[p] = {}

\* What a worker has listed as claimable is still due.
ListedAreDue ==
    \A p \in Procs : worker[p] = "claiming" => \A t \in todo[p] : task[t].due

\* The inductive invariants of the two situations.
OneWorkerInv ==
    TypeOK /\ WorkersOnly /\ RunnableUnowned /\ ListedAreDue /\ JobOwnsClaim

NoOrphansInv == TypeOK /\ RunnableUnowned /\ ClaimsAreLive /\ JobOwnsClaim

-----------------------------------------------------------------------------
(* Type correctness                                                        *)

\* Every operation keeps a task record a task record.
LEMMA RecordTypes ==
    ASSUME NEW r \in TaskRecord, NEW how \in Terminal
    PROVE  /\ SubmittedRecord \in TaskRecord
           /\ \A p \in Procs : ClaimedBy(r, p) \in TaskRecord
           /\ Requeued(r) \in TaskRecord
           /\ Parked(r) \in TaskRecord
           /\ Ended(r, how) \in TaskRecord
           /\ [r EXCEPT !.due = TRUE] \in TaskRecord
           /\ [r EXCEPT !.old = TRUE] \in TaskRecord
  BY DEF SubmittedRecord, NoRecord, ClaimedBy, Requeued, Parked, Ended,
         TaskRecord, Status, Terminal, Runnable

\* A parked task waits and has no owner.
LEMMA ParkedFields ==
    ASSUME NEW r \in TaskRecord
    PROVE  Parked(r).status = "waiting" /\ Parked(r).owner = NoProc
  BY DEF Parked, TaskRecord

\* A step of any kind keeps the types.
LEMMA TypeStep == TypeOK /\ [Next]_vars => TypeOK'
<1> SUFFICES ASSUME TypeOK, [Next]_vars PROVE TypeOK'
  OBVIOUS
<1> USE DEF TypeOK, WorkerState
<1>1. ASSUME NEW p \in Procs, NEW t \in Tasks, Submit(p, t) PROVE TypeOK'
  BY <1>1, RecordTypes DEF Submit, Terminal
<1>2. ASSUME NEW p \in Procs, NEW t \in Tasks, Cancel(p, t) PROVE TypeOK'
  <2>1. Ended(task[t], "cancelled") \in TaskRecord
    BY RecordTypes DEF Terminal
  <2>2. QED
    BY <1>2, <2>1 DEF Cancel
<1>3. ASSUME NEW p \in Procs, ListStale(p) PROVE TypeOK'
  BY <1>3 DEF ListStale, StaleClaims
<1>4. ASSUME NEW p \in Procs, NEW t \in Tasks, Requeue(p, t) PROVE TypeOK'
  <2>1. Requeued(task[t]) \in TaskRecord
    BY RecordTypes DEF Terminal
  <2>2. QED
    BY <1>4, <2>1 DEF Requeue
<1>5. ASSUME NEW p \in Procs, ListClaimable(p) PROVE TypeOK'
  BY <1>5 DEF ListClaimable, Claimable
<1>6. ASSUME NEW p \in Procs, NEW t \in Tasks, Claim(p, t) PROVE TypeOK'
  <2>1. ClaimedBy(task[t], p) \in TaskRecord
    BY RecordTypes DEF Terminal
  <2>2. QED
    BY <1>6, <2>1 DEF Claim
<1>7. ASSUME NEW p \in Procs, NothingToClaim(p) PROVE TypeOK'
  BY <1>7 DEF NothingToClaim
<1>8. ASSUME NEW p \in Procs, RoundFails(p) PROVE TypeOK'
  BY <1>8 DEF RoundFails
<1>9. ASSUME NEW p \in Procs, NEW r, Finish(p, r),
             job[p] \in Tasks => r \in TaskRecord
      PROVE  TypeOK'
  BY <1>9 DEF Finish
<1>10. ASSUME NEW p \in Procs, Complete(p) \/ Fail(p) \/ Park(p) PROVE TypeOK'
  <2>1. job[p] \in Tasks => /\ Ended(task[job[p]], "done") \in TaskRecord
                            /\ Ended(task[job[p]], "failed") \in TaskRecord
                            /\ Parked(task[job[p]]) \in TaskRecord
    BY RecordTypes DEF Terminal
  <2>2. QED
    BY <1>9, <1>10, <2>1 DEF Complete, Fail, Park
<1>11. ASSUME NEW p \in Procs, WorkerDies(p) PROVE TypeOK'
  BY <1>11 DEF WorkerDies
<1>12. ASSUME NEW p \in Procs, Crash(p) PROVE TypeOK'
  BY <1>12 DEF Crash
<1>13. ASSUME NEW t \in Tasks, ComesDue(t) PROVE TypeOK'
  <2>1. [task[t] EXCEPT !.due = TRUE] \in TaskRecord
    BY RecordTypes DEF Terminal
  <2>2. QED
    BY <1>13, <2>1 DEF ComesDue
<1>14. ASSUME NEW t \in Tasks, ClaimAges(t) PROVE TypeOK'
  <2>1. [task[t] EXCEPT !.old = TRUE] \in TaskRecord
    BY RecordTypes DEF Terminal
  <2>2. QED
    BY <1>14, <2>1 DEF ClaimAges
<1>15. CASE UNCHANGED vars
  BY <1>15 DEF vars
<1>16. QED
  BY <1>1, <1>2, <1>3, <1>4, <1>5, <1>6, <1>7, <1>8, <1>10, <1>11, <1>12,
     <1>13, <1>14, <1>15 DEF Next, WorkerStep

LEMMA TypeInit == Init => TypeOK
  BY ConstantsAssumption
  DEF Init, TypeOK, TaskRecord, NoRecord, Status, Terminal, Runnable, WorkerState

\* Every variable keeps its type, for any processes, tasks and faults.
THEOREM TypeCorrect == Spec => []TypeOK
<1>1. QED
  BY TypeInit, TypeStep, PTL DEF Spec

-----------------------------------------------------------------------------
(* Ownership                                                               *)

\* No task that is about to be requeued is being executed.
SafeRescue ==
    \A p \in Procs : worker[p] = "rescuing" =>
        \A t \in todo[p] : \A q \in Procs : job[q] # t

\* A step keeps runnable tasks unowned, as long as rescues are safe.
LEMMA UnownedStep ==
    TypeOK /\ RunnableUnowned /\ JobOwnsClaim /\ [Next]_vars => RunnableUnowned'
<1> SUFFICES ASSUME TypeOK, RunnableUnowned, JobOwnsClaim, [Next]_vars
             PROVE  RunnableUnowned'
  OBVIOUS
<1> USE ConstantsAssumption
    DEF TypeOK, WorkerState, TaskRecord, RunnableUnowned, Runnable, Terminal
<1>1. ASSUME NEW p \in Procs, NEW t \in Tasks, Submit(p, t)
      PROVE  RunnableUnowned'
  BY <1>1 DEF Submit, SubmittedRecord, NoRecord
<1>2. ASSUME NEW p \in Procs, NEW t \in Tasks, Cancel(p, t)
      PROVE  RunnableUnowned'
  BY <1>2 DEF Cancel, Ended
<1>3. ASSUME NEW p \in Procs, ListStale(p) PROVE RunnableUnowned'
  BY <1>3 DEF ListStale
<1>4. ASSUME NEW p \in Procs, NEW t \in Tasks, Requeue(p, t)
      PROVE  RunnableUnowned'
  BY <1>4 DEF Requeue, Requeued
<1>5. ASSUME NEW p \in Procs, ListClaimable(p) PROVE RunnableUnowned'
  BY <1>5 DEF ListClaimable, Claimable
<1>6. ASSUME NEW p \in Procs, NEW t \in Tasks, Claim(p, t)
      PROVE  RunnableUnowned'
  BY <1>6 DEF Claim, ClaimedBy
<1>7. ASSUME NEW p \in Procs, NothingToClaim(p) \/ RoundFails(p)
      PROVE  RunnableUnowned'
  BY <1>7 DEF NothingToClaim, RoundFails
<1>8. ASSUME NEW p \in Procs, Complete(p) \/ Fail(p) \/ Park(p)
      PROVE  RunnableUnowned'
  <2>1. job[p] \in Tasks
    BY <1>8 DEF Complete, Fail, Park, Finish, JobOwnsClaim
  <2>2. ASSUME NEW r \in TaskRecord, Finish(p, r),
               r.status \in Runnable => r.owner = NoProc,
               r.status # "absent",
               r.owner \in {NoProc, task[job[p]].owner}
        PROVE  RunnableUnowned'
    <3>1. /\ \A t \in Tasks : task'[t] = IF t = job[p] THEN r ELSE task[t]
          /\ \A q \in Procs : worker'[q] = IF q = p THEN "idle" ELSE worker[q]
          /\ todo' = todo
      BY <2>1, <2>2 DEF Finish
    <3>2. \A t \in Tasks : task'[t].status \in Runnable \cup {"absent"} =>
                              task'[t].owner = NoProc
      BY <2>2, <3>1
    <3>3. \A q \in Procs : worker'[q] = "claiming" =>
                              \A t \in todo'[q] : task'[t].owner # q
      BY <2>1, <2>2, <3>1
    <3>4. QED
      BY <3>2, <3>3
  <2>3. CASE Complete(p)
    BY <2>1, <2>2, <2>3 DEF Complete, Ended, Status
  <2>4. CASE Fail(p)
    BY <2>1, <2>2, <2>4 DEF Fail, Ended, Status
  <2>5. CASE Park(p)
    <3>1. /\ Parked(task[job[p]]) \in TaskRecord
          /\ Parked(task[job[p]]).status = "waiting"
          /\ Parked(task[job[p]]).owner = NoProc
      <4>1. task[job[p]] \in TaskRecord
        BY <2>1
      <4>2. QED
        BY <4>1, ParkedFields, RecordTypes
    <3>2. QED
      BY <2>2, <2>5, <3>1 DEF Park
  <2>6. QED
    BY <1>8, <2>3, <2>4, <2>5
<1>9. ASSUME NEW p \in Procs, WorkerDies(p) \/ Crash(p) PROVE RunnableUnowned'
  BY <1>9 DEF WorkerDies, Crash
<1>10. ASSUME NEW t \in Tasks, ComesDue(t) \/ ClaimAges(t)
       PROVE  RunnableUnowned'
  BY <1>10 DEF ComesDue, ClaimAges
<1>11. CASE UNCHANGED vars
  BY <1>11 DEF vars
<1>12. QED
  BY <1>1, <1>2, <1>3, <1>4, <1>5, <1>6, <1>7, <1>8, <1>9, <1>10, <1>11
  DEF Next, WorkerStep

\* A worker wins only a task it claims in that very step: nothing it lists is
\* its own already.
LEMMA WinnerClaims ==
    ASSUME TypeOK, RunnableUnowned, NEW p \in Procs, NEW t \in Tasks,
           Claim(p, t), job'[p] # job[p]
    PROVE  task[t].status \in Runnable /\ task'[t] = ClaimedBy(task[t], p)
  BY DEF TypeOK, RunnableUnowned, Claim, Oldest

\* A step keeps every execution covered by a claim of its own.
LEMMA OwnershipStep ==
    TypeOK /\ RunnableUnowned /\ SafeRescue /\ JobOwnsClaim /\ [Next]_vars
        => JobOwnsClaim'
<1> SUFFICES ASSUME TypeOK, RunnableUnowned, SafeRescue, JobOwnsClaim,
                    [Next]_vars
             PROVE  JobOwnsClaim'
  OBVIOUS
<1> USE ConstantsAssumption DEF TypeOK, WorkerState, TaskRecord, JobOwnsClaim
<1>1. ASSUME NEW p \in Procs, NEW t \in Tasks, Submit(p, t)
      PROVE  JobOwnsClaim'
  BY <1>1 DEF Submit
<1>2. ASSUME NEW p \in Procs, NEW t \in Tasks, Cancel(p, t)
      PROVE  JobOwnsClaim'
  BY <1>2 DEF Cancel, Ended
<1>3. ASSUME NEW p \in Procs, ListStale(p) \/ ListClaimable(p)
      PROVE  JobOwnsClaim'
  BY <1>3 DEF ListStale, ListClaimable
<1>4. ASSUME NEW p \in Procs, NEW t \in Tasks, Requeue(p, t)
      PROVE  JobOwnsClaim'
  <2>1. \A q \in Procs : job[q] # t
    BY <1>4 DEF Requeue, Oldest, SafeRescue
  <2>2. QED
    BY <1>4, <2>1 DEF Requeue
<1>5. ASSUME NEW p \in Procs, NEW t \in Tasks, Claim(p, t)
      PROVE  JobOwnsClaim'
  <2>1. CASE job'[p] = job[p]
    <3>1. task' = task
      BY <1>5, <2>1 DEF Claim, ClaimedBy
    <3>2. QED
      BY <1>5, <2>1, <3>1 DEF Claim
  <2>2. CASE job'[p] # job[p]
    <3>1. task[t].status \in Runnable /\ task'[t] = ClaimedBy(task[t], p)
      BY <1>5, <2>2, WinnerClaims
    <3>2. \A q \in Procs : job[q] # t
      BY <3>1 DEF Runnable
    <3>3. QED
      BY <1>5, <2>2, <3>1, <3>2 DEF Claim, ClaimedBy
  <2>3. QED
    BY <2>1, <2>2
<1>6. ASSUME NEW p \in Procs, NothingToClaim(p) \/ RoundFails(p)
      PROVE  JobOwnsClaim'
  BY <1>6 DEF NothingToClaim, RoundFails
<1>7. ASSUME NEW p \in Procs, Complete(p) \/ Fail(p) \/ Park(p)
      PROVE  JobOwnsClaim'
  <2>1. \A q \in Procs \ {p} : job[q] # NoTask => job[q] # job[p]
    BY <1>7 DEF Complete, Fail, Park, Finish
  <2>2. QED
    BY <1>7, <2>1 DEF Complete, Fail, Park, Finish
<1>8. ASSUME NEW p \in Procs, WorkerDies(p) \/ Crash(p) PROVE JobOwnsClaim'
  BY <1>8 DEF WorkerDies, Crash
<1>9. ASSUME NEW t \in Tasks, ComesDue(t) \/ ClaimAges(t)
      PROVE  JobOwnsClaim'
  BY <1>9 DEF ComesDue, ClaimAges
<1>10. CASE UNCHANGED vars
  BY <1>10 DEF vars
<1>11. QED
  BY <1>1, <1>2, <1>3, <1>4, <1>5, <1>6, <1>7, <1>8, <1>9, <1>10
  DEF Next, WorkerStep

-----------------------------------------------------------------------------
(* One worker on the host                                                  *)

LEMMA WorkersOnlyStep ==
    TypeOK /\ WorkersOnly /\ [Next]_vars => WorkersOnly'
  BY DEF TypeOK, WorkersOnly, Next, WorkerStep, vars, Submit, Cancel, ListStale,
         Requeue, ListClaimable, Claim, NothingToClaim, RoundFails, Complete,
         Fail, Park, Finish, WorkerDies, Crash, ComesDue, ClaimAges

\* A single worker does not execute anything while it rescues.
LEMMA OneWorkerSafeRescue ==
    ASSUME OneWorker, TypeOK, WorkersOnly, JobOwnsClaim
    PROVE  SafeRescue
  BY ConstantsAssumption
  DEF OneWorker, TypeOK, WorkersOnly, JobOwnsClaim, SafeRescue

\* While a single worker walks its list, nobody parks what is on it.
LEMMA ListedAreDueStep ==
    ASSUME OneWorker, TypeOK, WorkersOnly, JobOwnsClaim, ListedAreDue,
           [Next]_vars
    PROVE  ListedAreDue'
<1> USE DEF TypeOK, TaskRecord, ListedAreDue
<1>1. ASSUME NEW p \in Procs, NEW t \in Tasks, Submit(p, t) \/ Cancel(p, t)
      PROVE  ListedAreDue'
  <2>1. \A u \in Tasks : task[u].due => task'[u].due
    BY <1>1 DEF Submit, Cancel, SubmittedRecord, NoRecord, Ended
  <2>2. \A q \in Procs : worker'[q] = "claiming" => worker[q] = "claiming"
    BY <1>1 DEF Submit, Cancel
  <2>3. todo' = todo
    BY <1>1 DEF Submit, Cancel
  <2>4. QED
    BY <2>1, <2>2, <2>3
<1>2. ASSUME NEW p \in Procs, ListStale(p) \/ ListClaimable(p)
      PROVE  ListedAreDue'
  BY <1>2 DEF ListStale, ListClaimable, Claimable
<1>3. ASSUME NEW p \in Procs, NEW t \in Tasks, Requeue(p, t) \/ Claim(p, t)
      PROVE  ListedAreDue'
  <2>1. \A u \in Tasks : task[u].due => task'[u].due
    <3>1. /\ Requeued(task[t]).due = task[t].due
          /\ ClaimedBy(task[t], p).due = task[t].due
      BY DEF Requeued, ClaimedBy
    <3>2. PICK r : /\ r.due = task[t].due
                   /\ \/ task' = [task EXCEPT ![t] = r]
                      \/ task' = task
      BY <1>3, <3>1 DEF Requeue, Claim
    <3>3. QED
      BY <3>2
  <2>2. \A q \in Procs : worker'[q] = "claiming" => worker[q] = "claiming"
    BY <1>3 DEF Requeue, Claim
  <2>3. \A q \in Procs : todo'[q] \subseteq todo[q]
    BY <1>3 DEF Requeue, Claim
  <2>4. QED
    BY <2>1, <2>2, <2>3
<1>4. ASSUME NEW p \in Procs, Complete(p) \/ Fail(p) \/ Park(p)
      PROVE  ListedAreDue'
  <2>1. \A q \in Procs : q # p => worker[q] = "off"
    BY <1>4 DEF OneWorker, WorkersOnly, Complete, Fail, Park, Finish
  <2>2. worker' = [worker EXCEPT ![p] = "idle"]
    BY <1>4 DEF Complete, Fail, Park, Finish
  <2>3. QED
    BY <2>1, <2>2
<1>5. ASSUME NEW p \in Procs, NothingToClaim(p) \/ RoundFails(p)
                                \/ WorkerDies(p) \/ Crash(p)
      PROVE  ListedAreDue'
  BY <1>5 DEF NothingToClaim, RoundFails, WorkerDies, Crash
<1>6. ASSUME NEW t \in Tasks, ComesDue(t) \/ ClaimAges(t) PROVE ListedAreDue'
  BY <1>6 DEF ComesDue, ClaimAges
<1>7. CASE UNCHANGED vars
  BY <1>7 DEF vars
<1>8. QED
  BY <1>1, <1>2, <1>3, <1>4, <1>5, <1>6, <1>7 DEF Next, WorkerStep

LEMMA OneWorkerInit == Init => OneWorkerInv
  BY TypeInit, ConstantsAssumption
  DEF Init, NoRecord, OneWorkerInv, WorkersOnly, RunnableUnowned, ListedAreDue,
      JobOwnsClaim

LEMMA OneWorkerStep ==
    ASSUME OneWorker
    PROVE  OneWorkerInv /\ [Next]_vars => OneWorkerInv'
  BY TypeStep, UnownedStep, OwnershipStep, WorkersOnlyStep, ListedAreDueStep,
     OneWorkerSafeRescue
  DEF OneWorkerInv

LEMMA OneWorkerInvariant ==
    ASSUME OneWorker
    PROVE  Spec => []OneWorkerInv
<1>1. OneWorkerInv /\ [Next]_vars => OneWorkerInv'
  BY OneWorkerStep
<1>2. QED
  BY <1>1, OneWorkerInit, PTL DEF Spec

-----------------------------------------------------------------------------
(* Any number of workers, and no claim that looks abandoned                *)

LEMMA ClaimsAreLiveStep ==
    ASSUME NoOrphans, TypeOK, RunnableUnowned, JobOwnsClaim, ClaimsAreLive,
           [Next]_vars
    PROVE  ClaimsAreLive'
<1> USE ConstantsAssumption
    DEF TypeOK, WorkerState, TaskRecord, JobOwnsClaim, ClaimsAreLive, NoOrphans
<1>1. ASSUME NEW p \in Procs, NEW t \in Tasks, Submit(p, t) \/ Cancel(p, t)
      PROVE  ClaimsAreLive'
  BY <1>1 DEF Submit, Cancel, SubmittedRecord, NoRecord, Ended
<1>2. ASSUME NEW p \in Procs, ListStale(p) \/ ListClaimable(p)
      PROVE  ClaimsAreLive'
  BY <1>2 DEF ListStale, ListClaimable, StaleClaims
<1>3. ASSUME NEW p \in Procs, NEW t \in Tasks, Requeue(p, t)
      PROVE  ClaimsAreLive'
  BY <1>3 DEF Requeue, Oldest
<1>4. ASSUME NEW p \in Procs, NEW t \in Tasks, Claim(p, t)
      PROVE  ClaimsAreLive'
  <2>1. CASE job'[p] = job[p]
    <3>1. task' = task
      BY <1>4, <2>1 DEF Claim, ClaimedBy
    <3>2. QED
      BY <1>4, <2>1, <3>1 DEF Claim
  <2>2. CASE job'[p] # job[p]
    <3>1. task'[t] = ClaimedBy(task[t], p)
      BY <1>4, <2>2, WinnerClaims
    <3>2. /\ job[p] = NoTask
          /\ job' = [job EXCEPT ![p] = t]
          /\ task' = [task EXCEPT ![t] = ClaimedBy(task[t], p)]
          /\ worker' = [worker EXCEPT ![p] = "running"]
          /\ todo' = [todo EXCEPT ![p] = {}]
      BY <1>4, <2>2, <3>1 DEF Claim
    <3>3. QED
      BY <3>2 DEF ClaimedBy
  <2>3. QED
    BY <2>1, <2>2
<1>5. ASSUME NEW p \in Procs, NothingToClaim(p) \/ RoundFails(p)
      PROVE  ClaimsAreLive'
  BY <1>5 DEF NothingToClaim, RoundFails
<1>6. ASSUME NEW p \in Procs, Complete(p) \/ Fail(p) \/ Park(p)
      PROVE  ClaimsAreLive'
  <2>1. job[p] \in Tasks
    BY <1>6 DEF Complete, Fail, Park, Finish
  <2>2. ASSUME NEW r \in TaskRecord, Finish(p, r), r.status # "claimed"
        PROVE  ClaimsAreLive'
    <3>1. /\ \A t \in Tasks : task'[t] = IF t = job[p] THEN r ELSE task[t]
          /\ \A q \in Procs : job'[q] = IF q = p THEN NoTask ELSE job[q]
          /\ \A q \in Procs : worker'[q] = IF q = p THEN "idle" ELSE worker[q]
          /\ todo' = todo
      BY <2>1, <2>2 DEF Finish
    <3>2. QED
      BY <2>2, <3>1
  <2>3. /\ Ended(task[job[p]], "done") \in TaskRecord
        /\ Ended(task[job[p]], "failed") \in TaskRecord
        /\ Parked(task[job[p]]) \in TaskRecord
    <3>1. task[job[p]] \in TaskRecord
      BY <2>1
    <3>2. "done" \in Terminal /\ "failed" \in Terminal
      BY DEF Terminal
    <3> HIDE DEF TaskRecord
    <3>3. QED
      BY <3>1, <3>2, RecordTypes
  <2>4. /\ Ended(task[job[p]], "done").status # "claimed"
        /\ Ended(task[job[p]], "failed").status # "claimed"
        /\ Parked(task[job[p]]).status # "claimed"
    BY <2>1, ParkedFields DEF Ended
  <2>5. QED
    BY <1>6, <2>2, <2>3, <2>4 DEF Complete, Fail, Park
<1>7. ASSUME NEW p \in Procs, WorkerDies(p) \/ Crash(p) PROVE ClaimsAreLive'
  BY <1>7 DEF WorkerDies, Crash
<1>8. ASSUME NEW t \in Tasks, ComesDue(t) \/ ClaimAges(t) PROVE ClaimsAreLive'
  BY <1>8 DEF ComesDue, ClaimAges
<1>9. CASE UNCHANGED vars
  BY <1>9 DEF vars
<1>10. QED
  BY <1>1, <1>2, <1>3, <1>4, <1>5, <1>6, <1>7, <1>8, <1>9 DEF Next, WorkerStep

LEMMA NoOrphansInit == Init => NoOrphansInv
  BY TypeInit, ConstantsAssumption
  DEF Init, NoRecord, NoOrphansInv, RunnableUnowned, ClaimsAreLive, JobOwnsClaim

LEMMA NoOrphansStep ==
    ASSUME NoOrphans
    PROVE  NoOrphansInv /\ [Next]_vars => NoOrphansInv'
<1>1. ClaimsAreLive => SafeRescue
  BY DEF ClaimsAreLive, SafeRescue
<1>2. QED
  BY <1>1, TypeStep, UnownedStep, OwnershipStep, ClaimsAreLiveStep
  DEF NoOrphansInv

-----------------------------------------------------------------------------
(* What a step never does                                                  *)

\* Where executions are covered by claims, no step changes a finished record.
LEMMA FinishedStep ==
    ASSUME TypeOK, JobOwnsClaim, [Next]_vars,
           NEW t \in Tasks, task[t].status \in {"done", "failed"}
    PROVE  task'[t] = task[t]
<1> USE DEF TypeOK
<1>1. ASSUME NEW p \in Procs, NEW u \in Tasks, Submit(p, u) \/ Cancel(p, u)
      PROVE  task'[t] = task[t]
  BY <1>1 DEF Submit, Cancel, Terminal
<1>2. ASSUME NEW p \in Procs, NEW u \in Tasks, Requeue(p, u) \/ Claim(p, u)
      PROVE  task'[t] = task[t]
  BY <1>2 DEF Requeue, Claim, Runnable
<1>3. ASSUME NEW p \in Procs, Complete(p) \/ Fail(p) \/ Park(p)
      PROVE  task'[t] = task[t]
  <2>1. job[p] \in Tasks /\ job[p] # t
    BY <1>3 DEF Complete, Fail, Park, Finish, JobOwnsClaim
  <2>2. QED
    BY <1>3, <2>1 DEF Complete, Fail, Park, Finish
<1>4. ASSUME NEW p \in Procs, ListStale(p) \/ ListClaimable(p)
                 \/ NothingToClaim(p) \/ RoundFails(p) \/ WorkerDies(p) \/ Crash(p)
      PROVE  task'[t] = task[t]
  BY <1>4 DEF ListStale, ListClaimable, NothingToClaim, RoundFails, WorkerDies,
              Crash
<1>5. ASSUME NEW u \in Tasks, ComesDue(u) \/ ClaimAges(u)
      PROVE  task'[t] = task[t]
  BY <1>5 DEF ComesDue, ClaimAges, Terminal
<1>6. CASE UNCHANGED vars
  BY <1>6 DEF vars
<1>7. QED
  BY <1>1, <1>2, <1>3, <1>4, <1>5, <1>6 DEF Next, WorkerStep

\* A cancelled task nobody executes is neither revived nor executed.
LEMMA CancelledStep ==
    ASSUME TypeOK, RunnableUnowned, JobOwnsClaim, [Next]_vars,
           NEW t \in Tasks, task[t].status = "cancelled", Running(t) = {}
    PROVE  task'[t].status = "cancelled" /\ Running(t)' = {}
<1> USE DEF TypeOK, TaskRecord, Running
<1>1. ASSUME NEW p \in Procs, NEW u \in Tasks, Submit(p, u) \/ Cancel(p, u)
      PROVE  task'[t].status = "cancelled" /\ Running(t)' = {}
  BY <1>1 DEF Submit, Cancel, Terminal
<1>2. ASSUME NEW p \in Procs, NEW u \in Tasks, Requeue(p, u)
      PROVE  task'[t].status = "cancelled" /\ Running(t)' = {}
  BY <1>2 DEF Requeue
<1>3. ASSUME NEW p \in Procs, NEW u \in Tasks, Claim(p, u)
      PROVE  task'[t].status = "cancelled" /\ Running(t)' = {}
  <2>1. CASE job'[p] = job[p]
    <3>1. task'[t] = task[t]
      BY <1>3, <2>1 DEF Claim, ClaimedBy, Runnable
    <3>2. QED
      BY <1>3, <2>1, <3>1 DEF Claim
  <2>2. CASE job'[p] # job[p]
    <3>1. task[u].status \in Runnable
      BY <1>3, <2>2, WinnerClaims
    <3>2. u # t
      BY <3>1 DEF Runnable
    <3>3. QED
      BY <1>3, <2>2, <3>2 DEF Claim
  <2>3. QED
    BY <2>1, <2>2
<1>4. ASSUME NEW p \in Procs, Complete(p) \/ Fail(p) \/ Park(p)
      PROVE  task'[t].status = "cancelled" /\ Running(t)' = {}
  <2>1. job[p] \in Tasks /\ job[p] # t
    BY <1>4 DEF Complete, Fail, Park, Finish, JobOwnsClaim
  <2>2. NoTask # t
    BY ConstantsAssumption
  <2>3. QED
    BY <1>4, <2>1, <2>2 DEF Complete, Fail, Park, Finish
<1>5. ASSUME NEW p \in Procs, ListStale(p) \/ ListClaimable(p)
                 \/ NothingToClaim(p) \/ RoundFails(p)
      PROVE  task'[t].status = "cancelled" /\ Running(t)' = {}
  BY <1>5 DEF ListStale, ListClaimable, NothingToClaim, RoundFails
<1>6. ASSUME NEW p \in Procs, WorkerDies(p) \/ Crash(p)
      PROVE  task'[t].status = "cancelled" /\ Running(t)' = {}
  BY <1>6, ConstantsAssumption DEF WorkerDies, Crash
<1>7. ASSUME NEW u \in Tasks, ComesDue(u) \/ ClaimAges(u)
      PROVE  task'[t].status = "cancelled" /\ Running(t)' = {}
  BY <1>7 DEF ComesDue, ClaimAges, Terminal
<1>8. CASE UNCHANGED vars
  BY <1>8 DEF vars
<1>9. QED
  BY <1>1, <1>2, <1>3, <1>4, <1>5, <1>6, <1>7, <1>8 DEF Next, WorkerStep

\* A worker starts only what it has listed as claimable.
LEMMA StartStep ==
    ASSUME TypeOK, RunnableUnowned, ListedAreDue, [Next]_vars,
           NEW p \in Procs, job'[p] # job[p], job'[p] # NoTask
    PROVE  task[job'[p]].due
<1>1. PICK t \in Tasks : Claim(p, t)
  BY ConstantsAssumption
  DEF TypeOK, Next, WorkerStep, vars, Submit, Cancel, ListStale, Requeue,
      ListClaimable, Claim, NothingToClaim, RoundFails, Complete, Fail, Park,
      Finish, WorkerDies, Crash, ComesDue, ClaimAges
<1>2. job'[p] = t /\ worker[p] = "claiming" /\ t \in todo[p]
  BY <1>1 DEF Claim, Oldest, TypeOK
<1>3. QED
  BY <1>2 DEF ListedAreDue

\* With one worker, a parked task is never started before its not_before.
THEOREM OneWorkerWaits ==
    ASSUME OneWorker
    PROVE  Spec => StartsWhenDue
<1>1. OneWorkerInv /\ [Next]_vars =>
        [\A p \in Procs : job'[p] # job[p] /\ job'[p] # NoTask =>
             task[job'[p]].due]_vars
  BY StartStep DEF OneWorkerInv
<1>2. QED
  BY <1>1, OneWorkerInvariant, PTL DEF Spec, StartsWhenDue
=============================================================================
